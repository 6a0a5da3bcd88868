---------------------------- MODULE ZeroCopySend ----------------------------
(***************************************************************************)
(* Sending buffers to zmq without copying them (rxtx.cpp, mm.cpp).  The    *)
(* buffers lie in one region: the pages of an LMDB read transaction or a   *)
(* mapped file.  zmq calls my_free for every buffer it is done with, from  *)
(* its io threads and at any time; the buffers share one my_alloc_hint     *)
(* whose refcnt decides who disposes of the region.                        *)
(*                                                                         *)
(*   "range"  send_multi_from_db over a key range, and send_chunk_from_db: *)
(*            refcnt starts at 0, is decremented by my_free while sending  *)
(*            goes on, and is bumped once by the number of buffers sent    *)
(*   "early"  send_multi_from_db for a request of one frame or of          *)
(*            CHUNK_SIZE frames, which aborts the transaction itself       *)
(*   "mmap"   send_raw_frames_from_file: refcnt starts at the number of    *)
(*            frames                                                       *)
(***************************************************************************)
EXTENDS Integers

CONSTANTS
  Kinds,       \* which of the three occur
  N,           \* number of buffers the caller sends
  IoThreads    \* threads of zmq that run my_free

ASSUME ZeroCopyAssumption ==
  /\ Kinds \subseteq {"range", "early", "mmap"}
  /\ N \in Nat
  /\ "mmap" \in Kinds => N > 0    \* xzl_bug_on(n_frames == 0)

VARIABLES
  kind,       \* which kind of send this is
  sender,     \* what the sending thread does next
  cnt,        \* buffers sent so far
  inflight,   \* buffers handed to zmq for which my_free has not run
  refcnt,     \* the hint's refcnt
  io,         \* what each io thread does next
  region,     \* "live" until the cursor is closed and the transaction
              \* aborted, or the file unmapped
  closes,     \* history: number of times the region was disposed of
  hint        \* "live" or "freed"

vars == <<kind, sender, cnt, inflight, refcnt, io, region, closes, hint>>

(* Mutant: the count of a mapped file starts one too high.                 *)
InitTooHigh ==
  /\ kind \in Kinds
  /\ sender = "sending" /\ cnt = 0 /\ inflight = 0
  /\ refcnt = IF kind = "mmap" THEN N + 1 ELSE 0
  /\ io = [t \in IoThreads |-> "idle"]
  /\ region = "live" /\ closes = 0 /\ hint = "live"

Init ==
  /\ kind \in Kinds
  /\ sender = "sending"
  /\ cnt = 0
  /\ inflight = 0
  /\ refcnt = IF kind = "mmap" THEN N ELSE 0
  /\ io = [t \in IoThreads |-> "idle"]
  /\ region = "live"
  /\ closes = 0
  /\ hint = "live"
 

DisposeOfRegion ==
  /\ region' = "gone"
  /\ closes' = closes + 1

---------------------------------------------------------------------------
(* The sending thread.                                                     *)

SendBuffer ==
  /\ sender = "sending"
  /\ cnt < N
  /\ cnt' = cnt + 1
  /\ inflight' = inflight + 1
  /\ UNCHANGED <<kind, sender, refcnt, io, region, closes, hint>>

(* Mutant: a range send returns without its bump.                          *)
EndOfRangeNoBump ==
  /\ sender = "sending"
  /\ cnt = N
  /\ sender' = IF kind = "early" THEN "abort" ELSE "returned"
  /\ UNCHANGED <<kind, cnt, inflight, refcnt, io, region, closes, hint>>

(* The cursor has left the range or the file is sent.  The eof descriptor  *)
(* that a range send emits here carries no buffer.                         *)
EndOfRange ==
  /\ sender = "sending"
  /\ cnt = N
  /\ sender' = CASE kind = "range" -> "bump"
                 [] kind = "early" -> "abort"
                 [] kind = "mmap"  -> "returned"
  /\ UNCHANGED <<kind, cnt, inflight, refcnt, io, region, closes, hint>>

(* Mutant: the sender always closes the transaction.                       *)
BumpRefcntAlwaysCloses ==
  /\ sender = "bump"
  /\ refcnt' = refcnt + cnt
  /\ sender' = "close"
  /\ UNCHANGED <<kind, cnt, inflight, io, region, closes, hint>>

(* hint->refcnt.fetch_add(cnt); the caller closes the transaction when     *)
(* my_free has already run for every buffer.                               *)
BumpRefcnt ==
  /\ sender = "bump"
  /\ refcnt' = refcnt + cnt
  /\ sender' = IF refcnt = -cnt THEN "close" ELSE "returned"
  /\ UNCHANGED <<kind, cnt, inflight, io, region, closes, hint>>

(* Mutant: the early abort does not return.                                *)
SenderClosesNoReturn ==
  /\ sender \in {"close", "abort"}
  /\ sender' = IF sender = "abort" THEN "bump" ELSE "returned"
  /\ DisposeOfRegion
  /\ UNCHANGED <<kind, cnt, inflight, refcnt, io, hint>>

SenderCloses ==
  /\ sender \in {"close", "abort"}
  /\ sender' = "returned"
  /\ DisposeOfRegion
  /\ UNCHANGED <<kind, cnt, inflight, refcnt, io, hint>>

---------------------------------------------------------------------------
(* my_free on an io thread: fetch_sub, and for the thread that takes the   *)
(* count from 1 to 0 the disposal of the region and of the hint.           *)

(* Mutant: every thread goes on to delete the hint.                        *)
FreeBufferNoReturn(t) ==
  /\ io[t] = "idle"
  /\ inflight > 0
  /\ inflight' = inflight - 1
  /\ refcnt' = refcnt - 1
  /\ io' = [io EXCEPT ![t] = IF refcnt # 1 THEN "delete" ELSE "close"]
  /\ UNCHANGED <<kind, sender, cnt, region, closes, hint>>

FreeBuffer(t) ==
  /\ io[t] = "idle"
  /\ inflight > 0
  /\ inflight' = inflight - 1
  /\ refcnt' = refcnt - 1
  /\ io' = [io EXCEPT ![t] = IF refcnt # 1 THEN "idle" ELSE "close"]
  /\ UNCHANGED <<kind, sender, cnt, region, closes, hint>>

FreeRegion(t) ==
  /\ io[t] = "close"
  /\ io' = [io EXCEPT ![t] = "delete"]
  /\ DisposeOfRegion
  /\ UNCHANGED <<kind, sender, cnt, inflight, refcnt, hint>>

FreeHint(t) ==
  /\ io[t] = "delete"
  /\ io' = [io EXCEPT ![t] = "idle"]
  /\ hint' = "freed"
  /\ UNCHANGED <<kind, sender, cnt, inflight, refcnt, region, closes>>

MyFree(t) == FreeBuffer(t) \/ FreeRegion(t) \/ FreeHint(t)

Sender == SendBuffer \/ EndOfRange \/ BumpRefcnt \/ SenderCloses

Next == Sender \/ \E t \in IoThreads : MyFree(t)

Spec == Init /\ [][Next]_vars

(* The sending thread runs until it returns, and zmq delivers, so that     *)
(* every buffer is freed in the end and a my_free that has begun returns.  *)
FairSpec ==
  /\ Spec
  /\ WF_vars(Sender)
  /\ WF_vars(\E t \in IoThreads : FreeBuffer(t))
  /\ \A t \in IoThreads : WF_vars(FreeRegion(t) \/ FreeHint(t))

---------------------------------------------------------------------------
TypeOK ==
  /\ kind \in Kinds
  /\ sender \in {"sending", "bump", "abort", "close", "returned"}
  /\ cnt \in 0..N
  /\ inflight \in Nat
  /\ refcnt \in Int
  /\ io \in [IoThreads -> {"idle", "close", "delete"}]
  /\ region \in {"live", "gone"}
  /\ closes \in Nat
  /\ hint \in {"live", "freed"}

(* zmq never holds a buffer of a region that is gone: the transaction is   *)
(* not aborted, and the file not unmapped, under a message that is still   *)
(* being sent.                                                             *)
RegionOutlivesBuffers == inflight > 0 => region = "live"

(* The region is disposed of at most once, though the sender and every io  *)
(* thread may believe to be the last user.                                 *)
DisposedOnce == closes <= 1

(* Nobody touches the hint once my_free has deleted it: no my_free is under *)
(* way or still to come, and the sender has handed over its last buffer and *)
(* done its bump.                                                          *)
HintOutlivesUsers ==
  hint = "freed" =>
    /\ inflight = 0
    /\ sender = "returned" \/ (kind = "mmap" /\ cnt = N)
    /\ \A t \in IoThreads : io[t] = "idle"

(* xzl_bug_on(before < -cnt), "impossible"                                 *)
BumpIsSafe == sender = "bump" => refcnt >= -cnt

(* The hint of a mapped file "will be free'd when refcnt drops to 0"       *)
(* (test-source.cpp), and that happens.  It does not hold for a key range: *)
(* when the sender closes the transaction nobody deletes the hint.         *)
HintIsFreed == (kind = "mmap") ~> (hint = "freed")

(* The region is lent and disposed of as LentRegion says.  The last buffer *)
(* of a mapped file ends the lending, since the count is known; a range    *)
(* ends when the cursor has left it.                                       *)
Lending == INSTANCE LentRegion
  WITH lending <- IF sender = "sending" /\ (kind = "mmap" => cnt < N)
                  THEN "open" ELSE "over",
       lent <- inflight

ImplementsLentRegion == Lending!FairSpec
=============================================================================
