-------------------------- MODULE RxManager_proofs --------------------------
(***************************************************************************)
(* Proofs about the receive manager, for all sequence numbers and for any  *)
(* descriptors deposited in any order.                                     *)
(***************************************************************************)
EXTENDS RxManager, TLAPS

Abs == INSTANCE InOrderStream_proofs
  WITH out <- revealed, chunk <- wm_chunk, frame <- wm_frame,
       size <- sizes,
       status <- IF rc = "EOF_CHUNKS" THEN "ended" ELSE "streaming"

USE SeqAssumption DEF Unset

---------------------------------------------------------------------------
(* Effects of a call that the later proofs share.                          *)

LEMMA AbortFrame ==
  Abort => /\ proc' = "dead"
           /\ UNCHANGED <<chunks, frames, eof_f, eof_c, wm_chunk, wm_frame,
                          rc, revealed, sizes>>
BY DEF Abort

LEMMA DescType ==
  ASSUME NEW d \in Desc PROVE d.c_seq \in ChunkSeq /\ d.f_seq \in FrameSeq
BY DEF Desc

LEMMA NextPosition ==
  ASSUME TypeOK
  PROVE  NextChunk \in Nat /\ NextFrame \in Nat
BY DEF TypeOK, NextChunk, NextFrame

LEMMA FramesLeftType ==
  ASSUME TypeOK
  PROVE  FramesLeft \in [ChunkSeq -> SUBSET FrameSeq]
BY DEF TypeOK, FramesLeft

LEMMA TypeInit == Init => TypeOK
<1>1. <<>> \in Seq(ChunkSeq \X FrameSeq)
  OBVIOUS
<1>2. QED
  BY <1>1 DEF Init, TypeOK

LEMMA TypeStep ==
  ASSUME TypeOK, [Next]_vars
  PROVE  TypeOK'
<1>1. CASE Abort
  BY <1>1, AbortFrame DEF TypeOK
<1>2. ASSUME NEW d \in Desc, DepositAFrame(d), ~Abort
      PROVE  TypeOK'
  <2>1. chunks' \subseteq ChunkSeq
    BY <1>2, DescType DEF DepositAFrame, TypeOK
  <2>2. frames' \in [ChunkSeq -> SUBSET FrameSeq]
    BY <1>2, DescType DEF DepositAFrame, TypeOK
  <2>3. QED
    BY <1>2, <2>1, <2>2 DEF DepositAFrame, TypeOK
<1>3. ASSUME NEW d \in Desc, DepositADesc(d), ~Abort
      PROVE  TypeOK'
  BY <1>3, DescType
     DEF DepositADesc, DepositChunkEof, DepositFrameEof, TypeOK
<1>4. CASE RetrieveAFrame
  <2>1. /\ chunks' \subseteq ChunkSeq
        /\ eof_f' \in [ChunkSeq -> Nat \cup {Unset}]
        /\ sizes' \in [ChunkSeq -> Nat \cup {Unset}]
    BY <1>4 DEF RetrieveAFrame, AdvanceChunk, SameChunk, TypeOK
  <2>2. wm_chunk' \in Nat /\ eof_c' \in Nat \cup {Unset}
    BY <1>4, NextPosition DEF RetrieveAFrame, TypeOK
  <2>3. CASE RevealFrame(NextChunk, NextFrame)
    <3>1. <<NextChunk, NextFrame>> \in ChunkSeq \X FrameSeq
      BY <2>3, FramesLeftType DEF RevealFrame, TypeOK
    <3>2. revealed' \in Seq(ChunkSeq \X FrameSeq)
      BY <2>3, <3>1 DEF RevealFrame, TypeOK
    <3>3. frames' \in [ChunkSeq -> SUBSET FrameSeq]
      BY <2>3, FramesLeftType DEF RevealFrame
    <3>4. QED
      BY <2>1, <2>2, <2>3, <3>2, <3>3, NextPosition DEF RevealFrame, TypeOK
  <2>4. CASE RevealNothing(NextChunk, NextFrame)
    BY <2>1, <2>2, <2>4, NextPosition, FramesLeftType
       DEF RevealNothing, StartOfChunk, TypeOK
  <2>5. QED
    BY <1>4, <2>3, <2>4 DEF RetrieveAFrame
<1>5. CASE UNCHANGED vars
  BY <1>5 DEF vars, TypeOK
<1>6. QED
  BY <1>1, <1>2, <1>3, <1>4, <1>5 DEF Next

(* The watermarks are naturals, the frames revealed are frames of the      *)
(* stream, and the maps only hold sequence numbers of descriptors.         *)
THEOREM TypeCorrect == Spec => []TypeOK
<1>1. QED
  BY TypeInit, TypeStep, PTL DEF Spec

---------------------------------------------------------------------------
(* The inductive invariant.  A chunk that is not in the map has no frames  *)
(* and no eof; a chunk the consumer has not begun to read holds a frame,   *)
(* so its eof, checked against that frame, is not 0; no chunk in the map   *)
(* is at or behind the chunk eof; the consumer is inside a chunk only      *)
(* while that chunk is in the map; and it has been told that the stream is *)
(* over only with the watermark at the chunk eof.                          *)
ErasedIsClean ==
  \A c \in ChunkSeq \ chunks : frames[c] = {} /\ eof_f[c] = Unset

UnreadHasFrame ==
  \A c \in chunks : c # wm_chunk \/ wm_frame = 0 =>
    frames[c] # {} /\ eof_f[c] # 0

ChunksBeforeEof == eof_c # Unset => \A c \in chunks : c < eof_c

InsideChunk == wm_frame # 0 => wm_chunk \in chunks

ToldAtEof == rc = "EOF_CHUNKS" => wm_chunk = eof_c /\ wm_frame = 0

RxInv ==
  ErasedIsClean /\ UnreadHasFrame /\ ChunksBeforeEof /\ InsideChunk /\ ToldAtEof

(* Where the watermark is after at most one move to the next chunk, and    *)
(* what is left of the maps there.                                         *)
LEMMA AfterHop ==
  ASSUME TypeOK, RxInv, AdvanceChunk \/ SameChunk
  PROVE  /\ AtFrameEof => wm_frame > 0
         /\ chunks' \subseteq chunks
         /\ \A c \in ChunkSeq \ chunks' : FramesLeft[c] = {} /\ eof_f'[c] = Unset
         /\ \A c \in chunks' : /\ FramesLeft[c] = frames[c]
                               /\ eof_f'[c] = eof_f[c]
                               /\ c # NextChunk \/ NextFrame = 0 =>
                                    frames[c] # {} /\ eof_f[c] # 0
         /\ NextFrame # 0 => NextChunk \in chunks'
         /\ wm_chunk = eof_c => NextChunk = eof_c /\ NextFrame = wm_frame
<1>1. AtFrameEof => wm_frame > 0
  BY DEF TypeOK, RxInv, UnreadHasFrame, AtFrameEof
<1>2. chunks' \subseteq chunks
  BY DEF AdvanceChunk, SameChunk
<1>3. ASSUME NEW c \in ChunkSeq \ chunks'
      PROVE  FramesLeft[c] = {} /\ eof_f'[c] = Unset
  BY <1>3 DEF TypeOK, RxInv, ErasedIsClean, AdvanceChunk, SameChunk, FramesLeft
<1>4. ASSUME NEW c \in chunks'
      PROVE  /\ FramesLeft[c] = frames[c]
             /\ eof_f'[c] = eof_f[c]
             /\ c # NextChunk \/ NextFrame = 0 => frames[c] # {} /\ eof_f[c] # 0
  <2>1. FramesLeft[c] = frames[c] /\ eof_f'[c] = eof_f[c]
    BY <1>4 DEF TypeOK, AdvanceChunk, SameChunk, FramesLeft
  <2>2. c # NextChunk \/ NextFrame = 0 => frames[c] # {} /\ eof_f[c] # 0
    BY <1>4 DEF RxInv, UnreadHasFrame, AdvanceChunk, SameChunk, NextChunk,
                NextFrame
  <2>3. QED
    BY <2>1, <2>2
<1>5. NextFrame # 0 => NextChunk \in chunks'
  BY DEF RxInv, InsideChunk, AdvanceChunk, SameChunk, NextChunk, NextFrame
<1>6. wm_chunk = eof_c => NextChunk = eof_c /\ NextFrame = wm_frame
  BY DEF AtFrameEof, NextChunk, NextFrame
<1>7. QED
  BY <1>1, <1>2, <1>3, <1>4, <1>5, <1>6

LEMMA RxInvDeposit ==
  ASSUME TypeOK, RxInv, NEW d \in Desc, ~Abort,
         DepositAFrame(d) \/ DepositADesc(d)
  PROVE  RxInv'
<1> USE DescType
<1>1. CASE DepositAFrame(d)
  <2>1. /\ chunks' = chunks \cup {d.c_seq}
        /\ frames' = [frames EXCEPT ![d.c_seq] = @ \cup {d.f_seq}]
        /\ ~BadFrame(d.c_seq, d.f_seq)
        /\ UNCHANGED <<eof_f, eof_c, wm_chunk, wm_frame, rc>>
    BY <1>1 DEF DepositAFrame
  <2>2. ErasedIsClean'
    BY <2>1 DEF TypeOK, RxInv, ErasedIsClean
  <2>3. ASSUME NEW c \in chunks', c # wm_chunk \/ wm_frame = 0
        PROVE  frames'[c] # {} /\ eof_f[c] # 0
    <3>1. CASE c \in chunks
      BY <2>1, <2>3, <3>1 DEF TypeOK, RxInv, UnreadHasFrame
    <3>2. CASE c \notin chunks
      <4>1. c = d.c_seq /\ eof_f[c] = Unset
        BY <2>1, <3>2 DEF RxInv, ErasedIsClean
      <4>2. d.f_seq \in frames'[c]
        BY <2>1, <4>1 DEF TypeOK
      <4>3. QED
        BY <4>1, <4>2
    <3>3. QED
      BY <3>1, <3>2
  <2>4. ChunksBeforeEof'
    BY <2>1 DEF TypeOK, RxInv, ChunksBeforeEof, BadFrame
  <2>5. InsideChunk' /\ ToldAtEof'
    BY <2>1 DEF RxInv, InsideChunk, ToldAtEof
  <2>6. UnreadHasFrame'
    BY <2>1, <2>3 DEF UnreadHasFrame
  <2>7. QED
    BY <2>2, <2>4, <2>5, <2>6 DEF RxInv
<1>2. CASE DepositADesc(d) /\ DepositChunkEof(d)
  <2>1. /\ eof_c' = d.c_seq
        /\ ~BadChunkEof(d.c_seq)
        /\ UNCHANGED <<chunks, frames, eof_f, wm_chunk, wm_frame, rc>>
    BY <1>2 DEF DepositChunkEof
  <2>2. ChunksBeforeEof'
    BY <2>1 DEF TypeOK, BadChunkEof, ChunksBeforeEof
  <2>3. ToldAtEof'
    BY <2>1 DEF TypeOK, BadChunkEof, RxInv, ToldAtEof
  <2>4. QED
    BY <2>1, <2>2, <2>3
       DEF RxInv, ErasedIsClean, UnreadHasFrame, InsideChunk
<1>3. CASE DepositADesc(d) /\ DepositFrameEof(d)
  <2>1. /\ eof_f' = [eof_f EXCEPT ![d.c_seq] = d.f_seq]
        /\ ~BadFrameEof(d.c_seq, d.f_seq)
        /\ UNCHANGED <<chunks, frames, eof_c, wm_chunk, wm_frame, rc>>
    BY <1>3 DEF DepositFrameEof
  <2>2. ErasedIsClean'
    BY <2>1 DEF TypeOK, BadFrameEof, RxInv, ErasedIsClean
  <2>3. ASSUME NEW c \in chunks, c # wm_chunk \/ wm_frame = 0
        PROVE  frames[c] # {} /\ eof_f'[c] # 0
    <3>1. frames[c] # {} /\ eof_f[c] # 0
      BY <2>3 DEF RxInv, UnreadHasFrame
    <3>2. CASE c # d.c_seq
      BY <2>1, <3>1, <3>2 DEF TypeOK
    <3>3. CASE c = d.c_seq
      <4>1. PICK g \in frames[c] : TRUE
        BY <3>1
      <4>2. g \in Nat /\ ~(d.f_seq <= g) /\ d.f_seq \in Nat
        BY <2>1, <3>3, <4>1 DEF TypeOK, BadFrameEof
      <4>3. eof_f'[c] = d.f_seq
        BY <2>1, <3>3 DEF TypeOK
      <4>4. QED
        BY <3>1, <4>2, <4>3
    <3>4. QED
      BY <3>2, <3>3
  <2>4. UnreadHasFrame'
    BY <2>1, <2>3 DEF UnreadHasFrame
  <2>5. QED
    BY <2>1, <2>2, <2>4
       DEF RxInv, ChunksBeforeEof, InsideChunk, ToldAtEof
<1>4. QED
  BY <1>1, <1>2, <1>3 DEF DepositADesc

LEMMA RxInvRetrieve ==
  ASSUME TypeOK, RxInv, RetrieveAFrame
  PROVE  RxInv'
<1>1. /\ AdvanceChunk \/ SameChunk
      /\ wm_chunk' = NextChunk
      /\ eof_c' = eof_c
  BY DEF RetrieveAFrame
<1>2. chunks' \subseteq ChunkSeq /\ chunks' \subseteq chunks
  BY <1>1, AfterHop DEF TypeOK
<1>3. ChunksBeforeEof'
  BY <1>1, <1>2 DEF RxInv, ChunksBeforeEof
<1>4. CASE RevealFrame(NextChunk, NextFrame)
  <2>1. /\ NextChunk \in chunks'
        /\ frames' = [FramesLeft EXCEPT ![NextChunk] = @ \ {NextFrame}]
        /\ wm_frame' = NextFrame + 1
        /\ rc' = "OK"
    BY <1>4, AfterHop, <1>1, <1>2 DEF RevealFrame, TypeOK
  <2>2. ErasedIsClean'
    BY <1>1, <1>2, <2>1, AfterHop, FramesLeftType DEF ErasedIsClean
  <2>3. UnreadHasFrame'
    BY <1>1, <1>2, <2>1, AfterHop, FramesLeftType, NextPosition
       DEF UnreadHasFrame
  <2>4. InsideChunk' /\ ToldAtEof'
    BY <1>1, <2>1 DEF InsideChunk, ToldAtEof
  <2>5. QED
    BY <1>3, <2>2, <2>3, <2>4 DEF RxInv
<1>5. CASE RevealNothing(NextChunk, NextFrame)
  <2>1. /\ frames' = FramesLeft
        /\ wm_frame' = NextFrame
        /\ rc' = "EOF_CHUNKS" => NextChunk = eof_c
    BY <1>5 DEF RevealNothing
  <2>2. ErasedIsClean'
    BY <1>1, <2>1, AfterHop DEF ErasedIsClean
  <2>3. UnreadHasFrame'
    BY <1>1, <2>1, AfterHop DEF UnreadHasFrame
  <2>4. InsideChunk'
    BY <1>1, <2>1, AfterHop DEF InsideChunk
  <2>5. ToldAtEof'
    <3>1. NextChunk = eof_c => NextFrame = 0
      BY <1>1, <1>2, <1>3, AfterHop, NextPosition
         DEF TypeOK, ChunksBeforeEof
    <3>2. QED
      BY <1>1, <2>1, <3>1 DEF ToldAtEof
  <2>6. QED
    BY <1>3, <2>2, <2>3, <2>4, <2>5 DEF RxInv
<1>6. QED
  BY <1>4, <1>5 DEF RetrieveAFrame

LEMMA RxInvInit == Init => RxInv
BY DEF Init, RxInv, ErasedIsClean, UnreadHasFrame, ChunksBeforeEof,
       InsideChunk, ToldAtEof

LEMMA RxInvStep ==
  ASSUME TypeOK, RxInv, [Next]_vars
  PROVE  RxInv'
<1>1. CASE Abort
  BY <1>1, AbortFrame
     DEF RxInv, ErasedIsClean, UnreadHasFrame, ChunksBeforeEof, InsideChunk,
         ToldAtEof
<1>2. CASE UNCHANGED vars
  BY <1>2
     DEF vars, RxInv, ErasedIsClean, UnreadHasFrame, ChunksBeforeEof,
         InsideChunk, ToldAtEof
<1>3. QED
  BY <1>1, <1>2, RxInvDeposit, RxInvRetrieve DEF Next

LEMMA RxInvariant == Spec => []RxInv
<1>1. QED
  BY RxInvInit, RxInvStep, TypeCorrect, PTL DEF Spec

(* The assertions of RetrieveAFrame that the watermark is at the start of  *)
(* a chunk never fail.                                                     *)
THEOREM AssertionsHold == Spec => []MidChunkIsPresent
<1>1. TypeOK /\ RxInv => MidChunkIsPresent
  BY DEF TypeOK, RxInv, InsideChunk, ChunksBeforeEof, MidChunkIsPresent
<1>2. QED
  BY <1>1, TypeCorrect, RxInvariant, PTL

(* One iteration of "goto again" is all RetrieveAFrame ever needs.         *)
THEOREM HopsOnce == Spec => []OneHop
<1>1. TypeOK /\ RxInv => OneHop
  BY DEF TypeOK, RxInv, UnreadHasFrame, AtFrameEof, OneHop
<1>2. QED
  BY <1>1, TypeCorrect, RxInvariant, PTL

---------------------------------------------------------------------------
(* The manager implements InOrderStream.                                   *)

LEMMA RetrieveImplements ==
  ASSUME TypeOK, RxInv, RxInv', RetrieveAFrame
  PROVE  [Promise!Next]_(Promise!vars)
<1>1. /\ AdvanceChunk \/ SameChunk
      /\ wm_chunk' = NextChunk
  BY DEF RetrieveAFrame
<1>2. Promise!NextFrame(NextChunk, NextFrame)
  <2>1. CASE AdvanceChunk
    <3>1. AtFrameEof /\ wm_chunk \in ChunkSeq
      BY <2>1 DEF TypeOK, AdvanceChunk, AtFrameEof
    <3>2. wm_frame > 0
      BY <2>1, <3>1, AfterHop
    <3>3. QED
      BY <2>1, <3>1, <3>2
         DEF AdvanceChunk, NextChunk, NextFrame, Promise!NextFrame,
             Promise!CloseChunk
  <2>2. CASE SameChunk
    BY <2>2
       DEF SameChunk, NextChunk, NextFrame, Promise!NextFrame,
           Promise!StayInChunk
  <2>3. QED
    BY <1>1, <2>1, <2>2
<1>3. NextChunk \in {wm_chunk, wm_chunk + 1} /\ NextFrame \in {wm_frame, 0}
  BY DEF NextChunk, NextFrame
<1>4. CASE rc = "EOF_CHUNKS"
  <2>1. wm_chunk = eof_c /\ wm_frame = 0 /\ ~AtFrameEof
    BY <1>4 DEF RxInv, ToldAtEof, AtFrameEof
  <2>2. NextChunk = eof_c /\ NextFrame = 0 /\ UNCHANGED sizes
    BY <1>1, <2>1 DEF NextChunk, NextFrame, AdvanceChunk, SameChunk
  <2>3. /\ rc' = "EOF_CHUNKS" /\ wm_frame' = 0 /\ UNCHANGED revealed
    BY <2>2 DEF RetrieveAFrame, RevealFrame, RevealNothing
  <2>4. QED
    BY <1>1, <1>4, <2>1, <2>2, <2>3 DEF Promise!vars
<1>5. CASE rc # "EOF_CHUNKS" /\ RevealFrame(NextChunk, NextFrame)
  <2>1. NextChunk \in ChunkSeq /\ NextFrame \in FrameSeq
    BY <1>5, FramesLeftType DEF RevealFrame, TypeOK, RetrieveAFrame,
       AdvanceChunk, SameChunk
  <2>2. Promise!HandOut(NextChunk, NextFrame)
    BY <1>1, <1>2, <1>5, <2>1 DEF RevealFrame, Promise!HandOut
  <2>3. QED
    BY <1>3, <2>2 DEF Promise!Next
<1>6. CASE rc # "EOF_CHUNKS" /\ RevealNothing(NextChunk, NextFrame)
  <2>1. wm_frame' = NextFrame /\ UNCHANGED revealed
    BY <1>6 DEF RevealNothing
  <2>2. rc' = "EOF_CHUNKS" => NextFrame = 0
    BY <1>1, <2>1 DEF RxInv, ToldAtEof
  <2>3. Promise!ComeBack(NextChunk, NextFrame)
    BY <1>1, <1>2, <1>6, <2>1, <2>2 DEF Promise!ComeBack
  <2>4. QED
    BY <1>3, <2>3 DEF Promise!Next
<1>7. QED
  BY <1>4, <1>5, <1>6 DEF RetrieveAFrame

LEMMA InitImplements == Init => Promise!Init
BY DEF Init, Promise!Init, Promise!Open

LEMMA StepImplements ==
  ASSUME TypeOK, RxInv, RxInv', [Next]_vars
  PROVE  [Promise!Next]_(Promise!vars)
<1>1. CASE Abort
  BY <1>1, AbortFrame DEF Promise!vars
<1>2. ASSUME NEW d \in Desc, DepositAFrame(d) \/ DepositADesc(d), ~Abort
      PROVE  UNCHANGED <<wm_chunk, wm_frame, rc, revealed, sizes>>
  BY <1>2 DEF DepositAFrame, DepositADesc, DepositChunkEof, DepositFrameEof
<1>3. CASE UNCHANGED vars
  BY <1>3 DEF vars, Promise!vars
<1>4. QED
  BY <1>1, <1>2, <1>3, RetrieveImplements DEF Next, Promise!vars

(* Whatever is deposited and whenever the consumer calls, the manager      *)
(* reveals an in-order, gap-free stream.                                   *)
THEOREM Implementation == Spec => ImplementsInOrderStream
<1>1. QED
  BY InitImplements, StepImplements, TypeCorrect, RxInvariant, PTL
     DEF Spec, ImplementsInOrderStream, Promise!Spec

(* What keeps the promise is in order.                                     *)
LEMMA PromiseInOrder == ImplementsInOrderStream => []RevealedInOrder
<1>1. Promise!Init => Abs!Init
  BY DEF Promise!Init, Abs!Init, Promise!Open, Abs!Open
<1>2. [Promise!Next]_(Promise!vars) => [Abs!Next]_(Abs!vars)
  BY DEF Promise!Next, Abs!Next, Promise!vars, Abs!vars, Promise!HandOut,
         Abs!HandOut, Promise!ComeBack, Abs!ComeBack, Promise!NextFrame,
         Abs!NextFrame, Promise!CloseChunk, Abs!CloseChunk,
         Promise!StayInChunk, Abs!StayInChunk
<1>3. Abs!Spec => []Abs!GapFree
  BY Abs!StreamInOrder DEF Abs!NaturalSeqs
<1>4. Abs!GapFree <=> RevealedInOrder
  BY DEF Abs!GapFree, RevealedInOrder, Promise!GapFree, Abs!Follows,
         Promise!Follows
<1>5. QED
  BY <1>1, <1>2, <1>3, <1>4, PTL
     DEF ImplementsInOrderStream, Promise!Spec, Abs!Spec

(* So the consumer sees frame 0 of chunk 0 first and then always the frame *)
(* that follows.                                                           *)
THEOREM InOrder == Spec => []RevealedInOrder
<1>1. QED
  BY Implementation, PromiseInOrder, PTL
=============================================================================
