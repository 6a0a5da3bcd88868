------------------------ MODULE ZeroCopySend_proofs ------------------------
(***************************************************************************)
(* Proofs that the region of a zero-copy send is disposed of at most once  *)
(* and, unless the sender aborts early, not before zmq has freed every     *)
(* buffer of it: for any number of buffers and of io threads.              *)
(***************************************************************************)
EXTENDS ZeroCopySend, TLAPS

(* What refcnt still lacks, or has too much, compared to the buffers that  *)
(* are out: buffers not sent yet, or sent and not yet added by the bump.   *)
Credit ==
  IF kind = "mmap" THEN N - cnt
  ELSE IF kind = "range" /\ sender \in {"close", "returned"} THEN 0
  ELSE -cnt

CountInv ==
  /\ inflight <= cnt
  /\ refcnt = inflight + Credit
  /\ sender \in {"bump", "close"} => kind = "range"
  /\ sender = "abort" => kind = "early"
  /\ sender = "close" => inflight = 0
  /\ sender # "sending" => cnt = N

(* The last my_free is alone, and works after every other use.             *)
LastOut(t) ==
  /\ kind # "early"
  /\ kind = "range" => sender = "returned"
  /\ inflight = 0
  /\ cnt = N
  /\ hint = "live"
  /\ io[t] = "close" => closes = 0
  /\ io[t] = "delete" => closes = 1
  /\ \A u \in IoThreads : u # t => io[u] = "idle"

IoInv == \A t \in IoThreads : io[t] # "idle" => LastOut(t)

RegionInv ==
  /\ closes <= 1
  /\ region = "live" <=> closes = 0
  /\ kind = "range" /\ sender # "returned" => closes = 0
  /\ kind = "early" /\ sender # "returned" => closes = 0
  /\ kind # "early" /\ refcnt > 0 => closes = 0

HintInv ==
  hint = "freed" =>
    /\ inflight = 0
    /\ cnt = N
    /\ kind = "mmap" \/ (kind = "range" /\ sender = "returned")
    /\ \A t \in IoThreads : io[t] = "idle"

IInv == TypeOK /\ CountInv /\ IoInv /\ RegionInv /\ HintInv

USE ZeroCopyAssumption

---------------------------------------------------------------------------
(* The variables of a zero-copy send keep their types.                     *)
THEOREM TypeCorrect == Spec => []TypeOK
<1>1. Init => TypeOK
  BY DEF Init, TypeOK
<1>2. TypeOK /\ [Next]_vars => TypeOK'
  <2> SUFFICES ASSUME TypeOK, [Next]_vars PROVE TypeOK'
    OBVIOUS
  <2>1. CASE SendBuffer
    BY <2>1 DEF SendBuffer, TypeOK
  <2>2. CASE EndOfRange
    BY <2>2 DEF EndOfRange, TypeOK
  <2>3. CASE BumpRefcnt
    BY <2>3 DEF BumpRefcnt, TypeOK
  <2>4. CASE SenderCloses
    BY <2>4 DEF SenderCloses, DisposeOfRegion, TypeOK
  <2>5. ASSUME NEW t \in IoThreads, FreeBuffer(t) PROVE TypeOK'
    BY <2>5 DEF FreeBuffer, TypeOK
  <2>6. ASSUME NEW t \in IoThreads, FreeRegion(t) PROVE TypeOK'
    BY <2>6 DEF FreeRegion, DisposeOfRegion, TypeOK
  <2>7. ASSUME NEW t \in IoThreads, FreeHint(t) PROVE TypeOK'
    BY <2>7 DEF FreeHint, TypeOK
  <2>8. CASE UNCHANGED vars
    BY <2>8 DEF vars, TypeOK
  <2> QED
    BY <2>1, <2>2, <2>3, <2>4, <2>5, <2>6, <2>7, <2>8
    DEF Next, Sender, MyFree
<1> QED
  BY <1>1, <1>2, PTL DEF Spec

---------------------------------------------------------------------------
(* The inductive step, action by action.                                   *)
LEMMA InvSendBuffer == IInv /\ TypeOK' /\ SendBuffer => IInv'
<1> SUFFICES ASSUME IInv, TypeOK', SendBuffer PROVE IInv'
  OBVIOUS
<1> USE DEF IInv, TypeOK, SendBuffer
<1>1. CountInv'
  BY DEF CountInv, Credit
<1>2. IoInv'
  BY DEF IoInv, LastOut
<1>3. RegionInv'
  BY DEF RegionInv, CountInv, Credit
<1>4. HintInv'
  BY DEF HintInv
<1> QED
  BY <1>1, <1>2, <1>3, <1>4

LEMMA InvEndOfRange == IInv /\ TypeOK' /\ EndOfRange => IInv'
<1> SUFFICES ASSUME IInv, TypeOK', EndOfRange PROVE IInv'
  OBVIOUS
<1> USE DEF IInv, TypeOK, EndOfRange
<1>1. CountInv'
  BY DEF CountInv, Credit
<1>2. IoInv'
  BY DEF IoInv, LastOut
<1>3. RegionInv'
  BY DEF RegionInv, CountInv, Credit
<1>4. HintInv'
  BY DEF HintInv
<1> QED
  BY <1>1, <1>2, <1>3, <1>4

LEMMA InvBumpRefcnt == IInv /\ TypeOK' /\ BumpRefcnt => IInv'
<1> SUFFICES ASSUME IInv, TypeOK', BumpRefcnt PROVE IInv'
  OBVIOUS
<1> USE DEF IInv, TypeOK, BumpRefcnt
<1>1. CountInv'
  BY DEF CountInv, Credit
<1>2. IoInv'
  BY DEF IoInv, LastOut, CountInv
<1>3. RegionInv'
  BY DEF RegionInv, CountInv
<1>4. HintInv'
  BY DEF HintInv, CountInv
<1> QED
  BY <1>1, <1>2, <1>3, <1>4

LEMMA InvSenderCloses == IInv /\ TypeOK' /\ SenderCloses => IInv'
<1> SUFFICES ASSUME IInv, TypeOK', SenderCloses PROVE IInv'
  OBVIOUS
<1> USE DEF IInv, TypeOK, SenderCloses, DisposeOfRegion
<1>1. CountInv'
  BY DEF CountInv, Credit
<1>2. IoInv'
  BY DEF IoInv, LastOut, CountInv
<1>3. RegionInv'
  BY DEF RegionInv, CountInv, Credit
<1>4. HintInv'
  BY DEF HintInv, CountInv
<1> QED
  BY <1>1, <1>2, <1>3, <1>4

LEMMA InvFreeBuffer ==
  ASSUME IInv, TypeOK', NEW t \in IoThreads, FreeBuffer(t)
  PROVE  IInv'
<1> USE DEF IInv, TypeOK, FreeBuffer
<1>1. CountInv'
  BY DEF CountInv, Credit
<1>2. \A u \in IoThreads : io[u] = "idle"
  BY DEF IoInv, LastOut
<1>3. CASE refcnt = 1
  <2>1. /\ kind # "early" /\ cnt = N /\ inflight = 1 /\ closes = 0
        /\ kind = "range" => sender = "returned"
    BY <1>3 DEF CountInv, Credit, RegionInv
  <2>2. hint = "live"
    BY DEF HintInv
  <2>3. IoInv'
    BY <1>2, <1>3, <2>1, <2>2 DEF IoInv, LastOut
  <2>4. RegionInv'
    BY <2>1, <1>3 DEF RegionInv
  <2>5. HintInv'
    BY <2>2 DEF HintInv
  <2> QED
    BY <1>1, <2>3, <2>4, <2>5
<1>4. CASE refcnt # 1
  <2>1. io' = io
    BY <1>2, <1>4
  <2>2. IoInv'
    BY <1>2, <2>1 DEF IoInv
  <2>3. RegionInv'
    BY DEF RegionInv
  <2>4. HintInv'
    BY DEF HintInv
  <2> QED
    BY <1>1, <2>2, <2>3, <2>4
<1> QED
  BY <1>3, <1>4

LEMMA InvFreeRegion ==
  ASSUME IInv, TypeOK', NEW t \in IoThreads, FreeRegion(t)
  PROVE  IInv'
<1> USE DEF IInv, TypeOK, FreeRegion, DisposeOfRegion
<1>1. LastOut(t) /\ closes = 0
  BY DEF IoInv, LastOut
<1>2. CountInv'
  BY DEF CountInv, Credit
<1>3. IoInv'
  BY <1>1 DEF IoInv, LastOut
<1>4. RegionInv'
  BY <1>1 DEF RegionInv, LastOut, CountInv, Credit
<1>5. HintInv'
  BY <1>1 DEF HintInv, LastOut
<1> QED
  BY <1>2, <1>3, <1>4, <1>5

LEMMA InvFreeHint ==
  ASSUME IInv, TypeOK', NEW t \in IoThreads, FreeHint(t)
  PROVE  IInv'
<1> USE DEF IInv, TypeOK, FreeHint
<1>1. LastOut(t)
  BY DEF IoInv
<1>2. \A u \in IoThreads : io'[u] = "idle"
  BY <1>1 DEF LastOut
<1>3. CountInv'
  BY DEF CountInv, Credit
<1>4. IoInv'
  BY <1>2 DEF IoInv
<1>5. RegionInv'
  BY DEF RegionInv
<1>6. HintInv'
  BY <1>1, <1>2 DEF HintInv, LastOut
<1> QED
  BY <1>3, <1>4, <1>5, <1>6

LEMMA Invariant == Spec => []IInv
<1>1. Init => IInv
  BY DEF Init, IInv, TypeOK, CountInv, Credit, IoInv, RegionInv, HintInv
<1>2. IInv /\ TypeOK' /\ [Next]_vars => IInv'
  <2> SUFFICES ASSUME IInv, TypeOK', [Next]_vars PROVE IInv'
    OBVIOUS
  <2>1. CASE UNCHANGED vars
    BY <2>1 DEF vars, IInv, TypeOK, CountInv, Credit, IoInv, LastOut,
                RegionInv, HintInv
  <2> QED
    BY <2>1, InvSendBuffer, InvEndOfRange, InvBumpRefcnt,
       InvSenderCloses, InvFreeBuffer, InvFreeRegion, InvFreeHint
    DEF Next, Sender, MyFree
<1> QED
  BY <1>1, <1>2, TypeCorrect, PTL DEF Spec

---------------------------------------------------------------------------
(* The transaction is aborted, or the file unmapped, at most once, whoever *)
(* believes to be the last user: the sender or any io thread.              *)
THEOREM DisposesOnce == Spec => []DisposedOnce
<1>1. IInv => DisposedOnce
  BY DEF IInv, RegionInv, DisposedOnce
<1> QED
  BY <1>1, Invariant, PTL

(* Unless the sender aborts early, the memory of a buffer that zmq still   *)
(* holds is there.                                                         *)
THEOREM RegionSafe == "early" \notin Kinds => (Spec => []RegionOutlivesBuffers)
<1> SUFFICES ASSUME "early" \notin Kinds PROVE Spec => []RegionOutlivesBuffers
  OBVIOUS
<1>1. IInv => RegionOutlivesBuffers
  <2> SUFFICES ASSUME IInv, inflight > 0 PROVE region = "live"
    BY DEF RegionOutlivesBuffers
  <2>1. closes = 0
    BY DEF IInv, TypeOK, CountInv, Credit, RegionInv
  <2> QED
    BY <2>1 DEF IInv, RegionInv
<1> QED
  BY <1>1, Invariant, PTL

(* The hint is deleted after its last use.                                 *)
THEOREM HintSafe == Spec => []HintOutlivesUsers
<1>1. IInv => HintOutlivesUsers
  BY DEF IInv, HintInv, HintOutlivesUsers
<1> QED
  BY <1>1, Invariant, PTL

(* The sender's assertion on the count it bumps holds.                     *)
THEOREM BumpSafe == Spec => []BumpIsSafe
<1>1. IInv => BumpIsSafe
  BY DEF IInv, TypeOK, CountInv, Credit, BumpIsSafe
<1> QED
  BY <1>1, Invariant, PTL

---------------------------------------------------------------------------
(* Unless the sender aborts early, a send of any size lends its region as  *)
(* LentRegion says: nothing is lent once lending is over, and the region   *)
(* is disposed of after the last buffer has come back.                     *)
THEOREM Implementation == "early" \notin Kinds => (Spec => Lending!Spec)
<1> SUFFICES ASSUME "early" \notin Kinds PROVE Spec => Lending!Spec
  OBVIOUS
<1> USE DEF Lending!Next, Lending!Lend, Lending!EndLending, Lending!Return,
            Lending!Dispose, Lending!vars
<1>1. Init => Lending!Init
  BY DEF Init, Lending!Init
<1>2. IInv /\ [Next]_vars => [Lending!Next]_(Lending!vars)
  <2> SUFFICES ASSUME IInv, [Next]_vars
               PROVE  [Lending!Next]_(Lending!vars)
    OBVIOUS
  <2> USE DEF IInv, TypeOK
  <2>1. CASE SendBuffer
    BY <2>1 DEF SendBuffer
  <2>2. CASE EndOfRange
    BY <2>2 DEF EndOfRange
  <2>3. CASE BumpRefcnt
    BY <2>3 DEF BumpRefcnt
  <2>4. CASE SenderCloses
    BY <2>4 DEF SenderCloses, DisposeOfRegion, CountInv, RegionInv
  <2>5. ASSUME NEW t \in IoThreads, FreeBuffer(t)
        PROVE  [Lending!Next]_(Lending!vars)
    BY <2>5 DEF FreeBuffer
  <2>6. ASSUME NEW t \in IoThreads, FreeRegion(t)
        PROVE  [Lending!Next]_(Lending!vars)
    <3>1. LastOut(t) /\ closes = 0 /\ region = "live"
      BY <2>6 DEF FreeRegion, IoInv, LastOut, RegionInv
    <3>2. sender # "sending" \/ (kind = "mmap" /\ ~(cnt < N))
      BY <3>1 DEF LastOut
    <3> QED
      BY <2>6, <3>1, <3>2 DEF FreeRegion, DisposeOfRegion, LastOut
  <2>7. ASSUME NEW t \in IoThreads, FreeHint(t)
        PROVE  [Lending!Next]_(Lending!vars)
    BY <2>7 DEF FreeHint
  <2>8. CASE UNCHANGED vars
    BY <2>8 DEF vars
  <2> QED
    BY <2>1, <2>2, <2>3, <2>4, <2>5, <2>6, <2>7, <2>8
    DEF Next, Sender, MyFree
<1> QED
  BY <1>1, <1>2, Invariant, PTL DEF Spec, Lending!Spec
=============================================================================
