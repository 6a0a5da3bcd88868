--------------------------- MODULE InOrderStream ---------------------------
(***************************************************************************)
(* What the receive manager promises its consumer, whatever the network    *)
(* does to the order of the messages: the frames of one stream come out    *)
(* chunk by chunk and, inside a chunk, frame by frame, from frame 0 on,    *)
(* without a gap, a repetition or an empty chunk, and nothing comes out    *)
(* after the end of the stream has been reported.                          *)
(*                                                                         *)
(* RxManager is shown to implement this module.                            *)
(***************************************************************************)
EXTENDS Integers, Sequences

CONSTANTS ChunkSeq,   \* sequence numbers of chunks
          FrameSeq    \* sequence numbers of frames inside a chunk

(* The theorems about this module are about natural sequence numbers.      *)
NaturalSeqs == ChunkSeq \subseteq Nat /\ FrameSeq \subseteq Nat

VARIABLES
  out,     \* the frames handed to the consumer, <<chunk, frame>>, in order
  chunk,   \* the chunk being handed out
  frame,   \* its frame to hand out next, or its end
  size,    \* number of frames of each chunk left behind, Open before that
  status   \* what the consumer has been told: "streaming" or "ended"

vars == <<out, chunk, frame, size, status>>

Open == -1

Init ==
  /\ out = <<>>
  /\ chunk = 0
  /\ frame = 0
  /\ size = [c \in ChunkSeq |-> Open]
  /\ status = "streaming"

(* The chunk being handed out turns out to have ended: the next frame is   *)
(* frame f = 0 of the chunk behind it.                                     *)
CloseChunk(c, f) ==
  /\ chunk \in ChunkSeq
  /\ frame > 0
  /\ c = chunk + 1
  /\ f = 0
  /\ size' = [size EXCEPT ![chunk] = frame]

StayInChunk(c, f) ==
  /\ c = chunk
  /\ f = frame
  /\ UNCHANGED size

NextFrame(c, f) == CloseChunk(c, f) \/ StayInChunk(c, f)

(* The next frame is handed out, from the current chunk or, when that one  *)
(* has ended, from the next.                                               *)
HandOut(c, f) ==
  /\ status = "streaming"
  /\ NextFrame(c, f)
  /\ c \in ChunkSeq
  /\ f \in FrameSeq
  /\ out' = Append(out, <<c, f>>)
  /\ chunk' = c
  /\ frame' = f + 1
  /\ UNCHANGED status

(* The next frame is not there; the chunk may have ended all the same, and *)
(* with it the stream.                                                     *)
ComeBack(c, f) ==
  /\ status = "streaming"
  /\ NextFrame(c, f)
  /\ chunk' = c
  /\ frame' = f
  /\ status' = "streaming" \/ (status' = "ended" /\ f = 0)
  /\ UNCHANGED out

Next ==
  \E c \in {chunk, chunk + 1}, f \in {frame, 0} :
    HandOut(c, f) \/ ComeBack(c, f)

Spec == Init /\ [][Next]_vars

---------------------------------------------------------------------------
TypeOK ==
  /\ out \in Seq(ChunkSeq \X FrameSeq)
  /\ chunk \in Nat
  /\ frame \in Nat
  /\ size \in [ChunkSeq -> Nat \cup {Open}]
  /\ status \in {"streaming", "ended"}

(* q is the frame that follows frame p in the stream.                      *)
Follows(p, q) ==
  \/ q = <<p[1], p[2] + 1>>
  \/ q = <<p[1] + 1, 0>> /\ size[p[1]] = p[2] + 1

(* The frames handed out are <<0, 0>> and then each time the frame that    *)
(* follows: a chunk is left only after all its frames have been handed     *)
(* out.                                                                    *)
GapFree ==
  /\ out # <<>> => out[1] = <<0, 0>>
  /\ \A i \in 1..Len(out) - 1 : Follows(out[i], out[i + 1])

(* The position is right behind the last frame handed out.                 *)
PosFollows ==
  IF out = <<>> THEN <<chunk, frame>> = <<0, 0>>
  ELSE Follows(out[Len(out)], <<chunk, frame>>)

(* Chunks not yet left have no size.                                       *)
OpenAhead == \A c \in ChunkSeq : c >= chunk => size[c] = Open
=============================================================================
