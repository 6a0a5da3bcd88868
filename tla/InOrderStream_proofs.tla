------------------------ MODULE InOrderStream_proofs ------------------------
(***************************************************************************)
(* Proofs about the abstract stream: its type invariant and the order of   *)
(* the frames handed out, for every set of sequence numbers.               *)
(***************************************************************************)
EXTENDS InOrderStream, TLAPS

USE DEF Open, NaturalSeqs

LEMMA SizeType ==
  ASSUME NaturalSeqs, TypeOK,
         NEW c \in {chunk, chunk + 1}, NEW f \in {frame, 0}, NextFrame(c, f)
  PROVE  c \in Nat /\ f \in Nat /\ size' \in [ChunkSeq -> Nat \cup {Open}]
<1>1. c \in Nat /\ f \in Nat
  BY DEF TypeOK
<1>2. CASE CloseChunk(c, f)
  BY <1>2, <1>1 DEF TypeOK, CloseChunk
<1>3. CASE StayInChunk(c, f)
  BY <1>3, <1>1 DEF TypeOK, StayInChunk
<1>4. QED
  BY <1>2, <1>3 DEF NextFrame

(* The frames handed out are frames of the stream, the position is a pair  *)
(* of naturals.                                                            *)
THEOREM TypeCorrect == NaturalSeqs => (Spec => []TypeOK)
<1> SUFFICES ASSUME NaturalSeqs PROVE Spec => []TypeOK
  OBVIOUS
<1>1. Init => TypeOK
  <2>1. <<>> \in Seq(ChunkSeq \X FrameSeq)
    OBVIOUS
  <2>2. QED
    BY <2>1 DEF Init, TypeOK
<1>2. TypeOK /\ [Next]_vars => TypeOK'
  <2> SUFFICES ASSUME TypeOK, [Next]_vars
               PROVE  TypeOK'
    OBVIOUS
  <2>1. ASSUME NEW c \in {chunk, chunk + 1}, NEW f \in {frame, 0},
               HandOut(c, f)
        PROVE  TypeOK'
    <3>1. <<c, f>> \in ChunkSeq \X FrameSeq
      BY <2>1 DEF HandOut
    <3>2. out' \in Seq(ChunkSeq \X FrameSeq)
      BY <2>1, <3>1 DEF HandOut, TypeOK
    <3>3. QED
      BY <2>1, <3>2, SizeType DEF HandOut, TypeOK
  <2>2. ASSUME NEW c \in {chunk, chunk + 1}, NEW f \in {frame, 0},
               ComeBack(c, f)
        PROVE  TypeOK'
    BY <2>2, SizeType DEF ComeBack, TypeOK
  <2>3. CASE UNCHANGED vars
    BY <2>3 DEF vars, TypeOK
  <2>4. QED
    BY <2>1, <2>2, <2>3 DEF Next
<1>3. QED
  BY <1>1, <1>2, PTL DEF Spec

(* The inductive invariant: the frames so far are in order, the position   *)
(* is behind the last of them, and only chunks left behind have a size.    *)
OrderInv == GapFree /\ PosFollows /\ OpenAhead

(* Closing a chunk or staying in it keeps the frames handed out in order   *)
(* and finds the new position behind them.                                 *)
LEMMA StepOver ==
  ASSUME NaturalSeqs, TypeOK, OrderInv,
         NEW c \in {chunk, chunk + 1}, NEW f \in {frame, 0}, NextFrame(c, f)
  PROVE  /\ \A d \in ChunkSeq : d >= c => size'[d] = Open
         /\ \A q, r \in ChunkSeq \X FrameSeq : Follows(q, r) => Follows(q, r)'
         /\ out = <<>> => c = 0 /\ f = 0
         /\ out # <<>> => LET q == out[Len(out)]
                          IN  \/ c = q[1] /\ f = q[2] + 1
                              \/ c = q[1] + 1 /\ f = 0 /\ size'[q[1]] = q[2] + 1
<1>1. ASSUME NEW d \in ChunkSeq, d >= c
      PROVE  size'[d] = Open
  BY <1>1 DEF TypeOK, OrderInv, NextFrame, CloseChunk, StayInChunk, OpenAhead
<1>2. ASSUME NEW d \in ChunkSeq, size[d] # Open
      PROVE  size'[d] = size[d]
  BY <1>2 DEF TypeOK, OrderInv, NextFrame, CloseChunk, StayInChunk, OpenAhead
<1>3. ASSUME NEW q \in ChunkSeq \X FrameSeq, NEW r \in ChunkSeq \X FrameSeq,
             Follows(q, r)
      PROVE  Follows(q, r)'
  <2>1. q[1] \in ChunkSeq /\ q[2] \in Nat
    OBVIOUS
  <2>2. \A n \in Nat, d \in ChunkSeq : size[d] = n + 1 => size'[d] = n + 1
    BY <1>2
  <2>3. QED
    BY <1>3, <2>1, <2>2 DEF Follows
<1>4. CASE out = <<>>
  <2>1. chunk = 0 /\ frame = 0
    BY <1>4 DEF OrderInv, PosFollows
  <2>2. c = 0 /\ f = 0
    BY <2>1 DEF NextFrame, CloseChunk, StayInChunk
  <2>3. QED
    BY <1>1, <1>3, <1>4, <2>2
<1>5. CASE out # <<>>
  <2> DEFINE q == out[Len(out)]
  <2>1. q \in ChunkSeq \X FrameSeq
    BY <1>5 DEF TypeOK
  <2>2. q[1] \in ChunkSeq /\ q[1] \in Nat /\ q[2] \in Nat
    BY <2>1
  <2>3. Follows(q, <<chunk, frame>>)
    BY <1>5 DEF OrderInv, PosFollows
  <2>4. \/ chunk = q[1] /\ frame = q[2] + 1
        \/ chunk = q[1] + 1 /\ frame = 0 /\ size[q[1]] = q[2] + 1
    BY <2>3 DEF Follows
  <2> HIDE DEF q
  <2>5. \/ c = q[1] /\ f = q[2] + 1
        \/ c = q[1] + 1 /\ f = 0 /\ size'[q[1]] = q[2] + 1
    BY <2>2, <2>4 DEF TypeOK, NextFrame, CloseChunk, StayInChunk
  <2>6. QED
    BY <1>1, <1>3, <1>5, <2>5 DEF q
<1>6. QED
  BY <1>1, <1>3, <1>4, <1>5

(* The frames handed out follow one another: none is skipped, repeated or  *)
(* reordered, and a chunk is left only behind its last frame.              *)
THEOREM StreamInOrder == NaturalSeqs => (Spec => []GapFree)
<1> SUFFICES ASSUME NaturalSeqs PROVE Spec => []GapFree
  OBVIOUS
<1>1. Init => OrderInv
  BY DEF Init, OrderInv, GapFree, PosFollows, OpenAhead
<1>2. TypeOK /\ TypeOK' /\ OrderInv /\ [Next]_vars => OrderInv'
  <2> SUFFICES ASSUME TypeOK, TypeOK', OrderInv, [Next]_vars
               PROVE  OrderInv'
    OBVIOUS
  <2>1. ASSUME NEW c \in {chunk, chunk + 1}, NEW f \in {frame, 0},
               HandOut(c, f)
        PROVE  OrderInv'
    <3>1. NextFrame(c, f) /\ c \in Nat /\ f \in Nat
      BY <2>1, SizeType DEF HandOut
    <3>2. /\ out' = Append(out, <<c, f>>) /\ chunk' = c /\ frame' = f + 1
          /\ Len(out') = Len(out) + 1
          /\ out'[Len(out')] = <<c, f>>
          /\ \A i \in 1..Len(out) : out'[i] = out[i]
      BY <2>1 DEF HandOut, TypeOK
    <3>3. PosFollows'
      BY <3>2 DEF PosFollows, Follows
    <3>4. OpenAhead'
      BY <3>1, <3>2, StepOver DEF OpenAhead
    <3>5. out' # <<>> => out'[1] = <<0, 0>>
      <4>1. CASE out = <<>>
        BY <3>1, <3>2, <4>1, StepOver
      <4>2. CASE out # <<>>
        BY <3>2, <4>2 DEF OrderInv, GapFree, TypeOK
      <4>3. QED
        BY <4>1, <4>2
    <3>6. ASSUME NEW i \in 1..Len(out') - 1
          PROVE  Follows(out[i], out[i + 1])'
      <4>1. i \in 1..Len(out) /\ out \in Seq(ChunkSeq \X FrameSeq)
        BY <3>2 DEF TypeOK
      <4>2. CASE i = Len(out)
        <5>1. out # <<>> /\ out'[i] = out[Len(out)] /\ out'[i + 1] = <<c, f>>
          BY <3>2, <4>1, <4>2
        <5>2. QED
          BY <3>1, <5>1, StepOver DEF Follows
      <4>3. CASE i \in 1..Len(out) - 1
        <5>1. /\ out'[i] = out[i] /\ out'[i + 1] = out[i + 1]
              /\ out[i] \in ChunkSeq \X FrameSeq
              /\ out[i + 1] \in ChunkSeq \X FrameSeq
              /\ Follows(out[i], out[i + 1])
          BY <3>2, <4>1, <4>3 DEF OrderInv, GapFree
        <5>2. QED
          BY <3>1, <5>1, StepOver DEF Follows
      <4>4. QED
        BY <4>1, <4>2, <4>3 DEF TypeOK
    <3>7. QED
      BY <3>3, <3>4, <3>5, <3>6 DEF OrderInv, GapFree
  <2>2. ASSUME NEW c \in {chunk, chunk + 1}, NEW f \in {frame, 0},
               ComeBack(c, f)
        PROVE  OrderInv'
    <3>1. NextFrame(c, f) /\ out' = out /\ chunk' = c /\ frame' = f
      BY <2>2 DEF ComeBack
    <3>2. ASSUME NEW i \in 1..Len(out) - 1
          PROVE  Follows(out[i], out[i + 1])'
      <4>1. /\ out[i] \in ChunkSeq \X FrameSeq
            /\ out[i + 1] \in ChunkSeq \X FrameSeq
            /\ Follows(out[i], out[i + 1])
        BY DEF OrderInv, GapFree, TypeOK
      <4>2. QED
        BY <3>1, <4>1, StepOver DEF Follows
    <3>3. GapFree'
      BY <3>1, <3>2 DEF OrderInv, GapFree
    <3>4. PosFollows'
      BY <3>1, StepOver DEF PosFollows, Follows
    <3>5. OpenAhead'
      BY <3>1, StepOver DEF OpenAhead
    <3>6. QED
      BY <3>3, <3>4, <3>5 DEF OrderInv
  <2>3. CASE UNCHANGED vars
    BY <2>3 DEF vars, OrderInv, GapFree, PosFollows, OpenAhead, Follows
  <2>4. QED
    BY <2>1, <2>2, <2>3 DEF Next
<1>3. OrderInv => GapFree
  BY DEF OrderInv
<1>4. QED
  BY <1>1, <1>2, <1>3, TypeCorrect, PTL DEF Spec
=============================================================================
