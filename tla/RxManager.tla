----------------------------- MODULE RxManager -----------------------------
(***************************************************************************)
(* The receive manager of the sink (RxManager.h).  It stores the frames of *)
(* one stream as the network delivers them and reveals them to the         *)
(* consumer in the order of their sequence numbers.                        *)
(*                                                                         *)
(* The environment of this module hands over any descriptor at any time;   *)
(* StreamSession and DecodePipeline restrict it to what senders send.      *)
(*                                                                         *)
(* A frame is its pair of sequence numbers.  TYPE_RAW_FRAME and            *)
(* TYPE_DECODED_FRAME, which the manager treats alike, are both "FRAME",   *)
(* and so are their EOF types.                                             *)
(***************************************************************************)
EXTENDS Integers, Sequences

CONSTANTS ChunkSeq,   \* values of a descriptor's c_seq
          FrameSeq    \* values of a descriptor's f_seq

ASSUME SeqAssumption == ChunkSeq \subseteq Nat /\ FrameSeq \subseteq Nat

VARIABLES
  chunks,     \* keys of the chunk map
  frames,     \* frames[c]: keys of chunk c's frame map, {} without a chunk
  eof_f,      \* eof_f[c]: frame eof of chunk c, Unset when not known
  eof_c,      \* chunk eof, Unset when not known
  wm_chunk,   \* watermark: the frame that the consumer shall read next
  wm_frame,
  rc,         \* result of the last RetrieveAFrame
  proc,       \* "dead" once an xzl_bug_on or a fault has killed the process
  revealed,   \* history: frames returned by RetrieveAFrame, in order
  sizes       \* history: frame eof of each chunk the watermark has passed

vars == <<chunks, frames, eof_f, eof_c, wm_chunk, wm_frame, rc, proc,
          revealed, sizes>>

Unset == -1

Types == {"FRAME", "FRAME_EOF", "CHUNK_EOF"}

Desc == [type : Types, c_seq : ChunkSeq, f_seq : FrameSeq]

Init ==
  /\ chunks = {}
  /\ frames = [c \in ChunkSeq |-> {}]
  /\ eof_f = [c \in ChunkSeq |-> Unset]
  /\ eof_c = Unset
  /\ wm_chunk = 0
  /\ wm_frame = 0
  /\ rc = "NONE"
  /\ proc = "up"
  /\ revealed = <<>>
  /\ sizes = [c \in ChunkSeq |-> Unset]

(* xzl_bug_on: log and abort.                                              *)
Abort ==
  /\ proc' = "dead"
  /\ UNCHANGED <<chunks, frames, eof_f, eof_c, wm_chunk, wm_frame, rc,
                 revealed, sizes>>

---------------------------------------------------------------------------
(* Mutant: frames that are there already are not looked for.               *)
BadFrameDupAllowed(c, f) ==
  \/ c \notin chunks /\ eof_c >= 0 /\ c >= eof_c
  \/ c \in chunks /\ eof_f[c] >= 0 /\ f >= eof_f[c]

(* "exceed chunk eof", "exceed frame eof?" and "dup frames?"               *)
BadFrame(c, f) ==
  \/ c \notin chunks /\ eof_c >= 0 /\ c >= eof_c
  \/ c \in chunks /\ eof_f[c] >= 0 /\ f >= eof_f[c]
  \/ c \in chunks /\ f \in frames[c]

DepositAFrame(d) ==
  /\ proc = "up"
  /\ d.type = "FRAME"
  /\ \/ BadFrame(d.c_seq, d.f_seq) /\ Abort
     \/ /\ ~BadFrame(d.c_seq, d.f_seq)
        /\ chunks' = chunks \cup {d.c_seq}
        /\ frames' = [frames EXCEPT ![d.c_seq] = @ \cup {d.f_seq}]
        /\ UNCHANGED <<eof_f, eof_c, wm_chunk, wm_frame, rc, proc, revealed,
                       sizes>>

(* Mutant: no comparison with the chunks that are there.                   *)
BadChunkEofDupOnly(c) == eof_c >= 0

(* "dup chunk eof?" and "eof smaller than existing last chunk seq?"        *)
BadChunkEof(c) == eof_c >= 0 \/ \E k \in chunks : c <= k

DepositChunkEof(d) ==
  /\ d.type = "CHUNK_EOF"
  /\ \/ BadChunkEof(d.c_seq) /\ Abort
     \/ /\ ~BadChunkEof(d.c_seq)
        /\ eof_c' = d.c_seq
        /\ UNCHANGED <<chunks, frames, eof_f, wm_chunk, wm_frame, rc, proc,
                       revealed, sizes>>

(* "tbd", "already frame eof?" and "eof smaller than existing frame seq?"  *)
BadFrameEof(c, f) ==
  \/ c \notin chunks
  \/ eof_f[c] >= 0
  \/ \E g \in frames[c] : f <= g

(* When every frame of the chunk has been retrieved, the last check        *)
(* dereferences rbegin() of an empty map: the process dies, or the check   *)
(* goes either way.                                                        *)
LastKeyUndefined(c) == frames[c] = {}

DepositFrameEof(d) ==
  /\ d.type = "FRAME_EOF"
  /\ \/ /\ BadFrameEof(d.c_seq, d.f_seq) \/ LastKeyUndefined(d.c_seq)
        /\ Abort
     \/ /\ ~BadFrameEof(d.c_seq, d.f_seq)
        /\ eof_f' = [eof_f EXCEPT ![d.c_seq] = d.f_seq]
        /\ UNCHANGED <<chunks, frames, eof_c, wm_chunk, wm_frame, rc, proc,
                       revealed, sizes>>

DepositADesc(d) ==
  /\ proc = "up"
  /\ DepositChunkEof(d) \/ DepositFrameEof(d)

---------------------------------------------------------------------------
(* The watermark points to the frame eof of its chunk.                     *)
AtFrameEof ==
  /\ wm_chunk # eof_c
  /\ wm_chunk \in chunks
  /\ eof_f[wm_chunk] = wm_frame

(* The watermark moves to the next chunk and the chunk it leaves is        *)
(* erased.                                                                 *)
AdvanceChunk ==
  /\ AtFrameEof
  /\ chunks' = chunks \ {wm_chunk}
  /\ eof_f' = [eof_f EXCEPT ![wm_chunk] = Unset]
  /\ sizes' = [sizes EXCEPT ![wm_chunk] = wm_frame]

SameChunk ==
  /\ ~AtFrameEof
  /\ UNCHANGED <<chunks, eof_f, sizes>>

(* frames once the map of the chunk left, if any, has been erased with it. *)
FramesLeft ==
  IF AtFrameEof THEN [frames EXCEPT ![wm_chunk] = {}] ELSE frames

(* Mutant: the watermark moves to the next chunk with its frame number.    *)
NextFrameNoReset == wm_frame

(* Where "goto again" leaves the watermark.  OneHop below says why it is   *)
(* taken at most once.                                                     *)
NextChunk == IF AtFrameEof THEN wm_chunk + 1 ELSE wm_chunk
NextFrame == IF AtFrameEof THEN 0 ELSE wm_frame

(* Mutant: wm_frame is not advanced.                                       *)
RevealFrameStays(c, f) ==
  /\ c # eof_c
  /\ c \in chunks
  /\ f \in FramesLeft[c]
  /\ rc' = "OK"
  /\ revealed' = Append(revealed, <<c, f>>)
  /\ frames' = [FramesLeft EXCEPT ![c] = @ \ {f}]
  /\ wm_frame' = f
  /\ UNCHANGED proc

RevealFrame(c, f) ==
  /\ c # eof_c
  /\ c \in chunks
  /\ f \in FramesLeft[c]
  /\ rc' = "OK"
  /\ revealed' = Append(revealed, <<c, f>>)
  /\ frames' = [FramesLeft EXCEPT ![c] = @ \ {f}]
  /\ wm_frame' = f + 1
  /\ UNCHANGED proc

(* xzl_bug_on(wm_frame != 0)                                               *)
StartOfChunk(f) == proc' = IF f = 0 THEN "up" ELSE "dead"

(* The three returns without a frame.  The first two assert that the       *)
(* watermark is at the start of a chunk.                                   *)
RevealNothing(c, f) ==
  /\ \/ c = eof_c /\ rc' = "EOF_CHUNKS" /\ StartOfChunk(f)
     \/ c # eof_c /\ c \notin chunks /\ rc' = "AGAIN" /\ StartOfChunk(f)
     \/ /\ c # eof_c /\ c \in chunks /\ f \notin FramesLeft[c]
        /\ rc' = "AGAIN"
        /\ UNCHANGED proc
  /\ frames' = FramesLeft
  /\ wm_frame' = f
  /\ UNCHANGED revealed

RetrieveAFrame ==
  /\ proc = "up"
  /\ AdvanceChunk \/ SameChunk
  /\ wm_chunk' = NextChunk
  /\ RevealFrame(NextChunk, NextFrame) \/ RevealNothing(NextChunk, NextFrame)
  /\ UNCHANGED eof_c

Next ==
  \/ \E d \in Desc : DepositAFrame(d) \/ DepositADesc(d)
  \/ RetrieveAFrame

Spec == Init /\ [][Next]_vars

---------------------------------------------------------------------------
TypeOK ==
  /\ chunks \subseteq ChunkSeq
  /\ frames \in [ChunkSeq -> SUBSET FrameSeq]
  /\ eof_f \in [ChunkSeq -> Nat \cup {Unset}]
  /\ eof_c \in Nat \cup {Unset}
  /\ wm_chunk \in Nat
  /\ wm_frame \in Nat
  /\ rc \in {"NONE", "OK", "AGAIN", "EOF_CHUNKS"}
  /\ proc \in {"up", "dead"}
  /\ revealed \in Seq(ChunkSeq \X FrameSeq)
  /\ sizes \in [ChunkSeq -> Nat \cup {Unset}]

(* The two assertions in RetrieveAFrame that the watermark is at the start *)
(* of a chunk when that chunk is missing or is the chunk eof can never     *)
(* fail, whatever has been deposited and in whatever order.                *)
MidChunkIsPresent == wm_frame # 0 => wm_chunk \in chunks /\ wm_chunk # eof_c

(* Going to the next chunk never finds that one ended too, before its      *)
(* first frame, so "goto again" in RetrieveAFrame is taken at most once.   *)
OneHop ==
  AtFrameEof => ~ /\ wm_chunk + 1 # eof_c
                  /\ wm_chunk + 1 \in chunks
                  /\ eof_f[wm_chunk + 1] = 0

(* The promise to the consumer, see InOrderStream.                         *)
Promise == INSTANCE InOrderStream
  WITH out <- revealed, chunk <- wm_chunk, frame <- wm_frame,
       size <- sizes,
       status <- IF rc = "EOF_CHUNKS" THEN "ended" ELSE "streaming"

(* Every behaviour of the manager, whatever it is handed, is one that      *)
(* InOrderStream allows.                                                   *)
ImplementsInOrderStream == Promise!Spec

(* The consumer sees the stream from its first frame on, without a gap and *)
(* without a repetition, and leaves a chunk only behind its last frame.    *)
RevealedInOrder == Promise!GapFree
=============================================================================
