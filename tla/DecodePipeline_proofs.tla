------------------------- MODULE DecodePipeline_proofs -------------------------
(***************************************************************************)
(* Theorems about the streaming of encoded chunks, for any number of       *)
(* chunks, decoders and frames: what the decoders' messages, in whatever   *)
(* interleaving, make of the receive manager.                              *)
(***************************************************************************)
EXTENDS DecodePipeline, RxManager_proofs, FiniteSetTheorems

USE DEF Unset

---------------------------------------------------------------------------
(* The inductive invariant.                                                *)

PipelineTypes == PipelineTypeOK /\ (sink # "reply" => iter < TotalFnum)

Working(p) == dec[p] \in {"decode", "flush", "eof"}

FramePiece(c, g) ==
  [desc |-> [type |-> "FRAME", c_seq |-> 0, f_seq |-> g], chunk |-> c]

EofPiece(c, g) ==
  [desc |-> [type |-> "FRAME_EOF", c_seq |-> 0, f_seq |-> g], chunk |-> c]

(* What the manager has of chunk c, when it has nothing of any other.      *)
Got(c) == IF arrived = {c} THEN frames[0] ELSE {}

Ended(c) == arrived = {c} /\ eof_f[0] # Unset

(* What waits for the decoders, and what they have in hand.                *)
Waiting ==
  \A p \in Decoders : \A i \in DOMAIN inbox[p] :
    inbox[p][i].chunk \in Db /\ inbox[p][i].chunk <= cnt

InHand ==
  \A p \in Decoders : Working(p) =>
    job[p].chunk \in Db /\ frame_number[p] <= nframes[job[p].chunk]

(* Two messages of the source are never for one chunk.                     *)
OrdersApart ==
  \A p, q \in Decoders : \A i \in DOMAIN inbox[p], j \in DOMAIN inbox[q] :
    inbox[p][i].chunk = inbox[q][j].chunk => p = q /\ i = j

(* Of a chunk that is not sent yet, or still waits in an inbox, nothing    *)
(* has reached a decoder, the wire or the manager.                         *)
Pending(c) ==
  \/ c > cnt
  \/ \E p \in Decoders : \E i \in DOMAIN inbox[p] : inbox[p][i].chunk = c

Untouched(c) ==
  /\ c \notin arrived
  /\ \A p \in Decoders :
       /\ ~(Working(p) /\ job[p].chunk = c)
       /\ \A i \in DOMAIN wire[p] : wire[p][i].chunk # c

PendingInv == \A c \in Db : Pending(c) => Untouched(c)

(* A chunk is decoded by one decoder only, which has sent no eof of it and *)
(* no frame that the codec has not returned yet.                           *)
SoleWorker(p, c) ==
  /\ ~Ended(c)
  /\ \A g \in Got(c) : g <= frame_number[p]
  /\ \A i \in DOMAIN wire[p] : wire[p][i].chunk = c =>
       wire[p][i].desc.type = "FRAME" /\ wire[p][i].desc.f_seq <= frame_number[p]
  /\ \A q \in Decoders \ {p} :
       /\ ~(Working(q) /\ job[q].chunk = c)
       /\ \A i \in DOMAIN wire[q] : wire[q][i].chunk # c

WorkInv == \A p \in Decoders : Working(p) => SoleWorker(p, job[p].chunk)

(* On the wire, the pieces of a chunk are in order, behind those that have *)
(* arrived, and the eof is the last; they are all on the wire of one       *)
(* decoder.                                                                *)
InOrderAt(p, i, c, f) ==
  /\ c \in Db
  /\ f >= 1
  /\ ~Ended(c)
  /\ \A g \in Got(c) : g < f
  /\ \A j \in DOMAIN wire[p] : j < i /\ wire[p][j].chunk = c =>
       wire[p][j].desc.type = "FRAME" /\ wire[p][j].desc.f_seq < f
  /\ \A q \in Decoders \ {p} : \A j \in DOMAIN wire[q] : wire[q][j].chunk # c

WireInv ==
  \A p \in Decoders : \A i \in DOMAIN wire[p] :
    InOrderAt(p, i, wire[p][i].chunk, wire[p][i].desc.f_seq)

(* The manager stays at the start of chunk 0, whose frames begin with 1.   *)
SinkInv ==
  /\ wm_chunk = 0 /\ wm_frame = 0 /\ revealed = <<>>
  /\ eof_c = Unset
  /\ 0 \notin frames[0] /\ eof_f[0] # 0
  /\ chunks = IF arrived = {} THEN {} ELSE {0}

(* As long as nothing has failed, no frame is missing: before a frame come *)
(* all those with smaller numbers, before an eof all frames of the chunk.  *)
(* Frame g of chunk c has arrived or comes before position k of p's wire.  *)
Before(p, k, c, g) ==
  \/ g \in Got(c)
  \/ \E j \in DOMAIN wire[p] : j < k /\ wire[p][j] = FramePiece(c, g)

HandFull(p) ==
  /\ dec[p] = "eof" => frame_number[p] = nframes[job[p].chunk]
  /\ \A g \in 1..frame_number[p] : Before(p, Len(wire[p]) + 1, job[p].chunk, g)

WireFull(p, i) ==
  LET m == wire[p][i] IN
    /\ m.desc.type = "FRAME_EOF" => m.desc.f_seq = nframes[m.chunk] + 1
    /\ \A g \in 1 .. m.desc.f_seq - 1 : Before(p, i, m.chunk, g)

NoGaps ==
  ~failed /\ proc = "up" =>
    /\ \A p \in Decoders : Working(p) => HandFull(p)
    /\ \A p \in Decoders : \A i \in DOMAIN wire[p] : WireFull(p, i)

(* Then what the manager has is the start of one chunk, or all of it.      *)
OneChunk ==
  ~failed /\ arrived # {} =>
    /\ 1 \in frames[0]
    /\ \E c \in Db : /\ arrived = {c}
                     /\ eof_f[0] # Unset => /\ eof_f[0] = nframes[c] + 1
                                            /\ frames[0] = 1..nframes[c]

PipelineInv ==
  /\ PipelineTypes /\ RxInv /\ Waiting /\ InHand /\ OrdersApart /\ PendingInv
  /\ WorkInv /\ WireInv /\ SinkInv /\ NoGaps /\ OneChunk

---------------------------------------------------------------------------
(* Queues that are indexed by the decoders: from q to r, the one of p gets *)
(* a message, or gives its first one away, or the queues lose their ends.  *)
IsPushed(q, r, p, x) ==
  /\ Len(q[p]) \in Nat /\ Len(r[p]) = Len(q[p]) + 1
  /\ \A o \in Decoders \ {p} : r[o] = q[o]
  /\ \A o \in Decoders : \A i \in DOMAIN q[o] :
       i \in DOMAIN r[o] /\ r[o][i] = q[o][i] /\ i \in 1 .. Len(q[o])
  /\ \A o \in Decoders : \A i \in DOMAIN r[o] :
       \/ i \in DOMAIN q[o] /\ r[o][i] = q[o][i]
       \/ o = p /\ i = Len(q[p]) + 1 /\ r[o][i] = x
  /\ Len(q[p]) + 1 \in DOMAIN r[p] /\ r[p][Len(q[p]) + 1] = x

IsTaken(q, r, p) ==
  /\ 1 \in DOMAIN q[p]
  /\ Len(q[p]) \in Nat \ {0} /\ Len(r[p]) = Len(q[p]) - 1
  /\ \A o \in Decoders \ {p} : r[o] = q[o]
  /\ \A i \in DOMAIN r[p] :
       i \in Nat \ {0} /\ i + 1 \in DOMAIN q[p] /\ r[p][i] = q[p][i + 1]
  /\ \A j \in DOMAIN q[p] :
       /\ j \in Nat \ {0}
       /\ j # 1 => j - 1 \in DOMAIN r[p] /\ r[p][j - 1] = q[p][j]
  /\ \A o \in Decoders : \A i \in DOMAIN r[o] :
       \E j \in DOMAIN q[o] : r[o][i] = q[o][j]

IsCut(q, r) ==
  \A o \in Decoders : \A i \in DOMAIN r[o] : i \in DOMAIN q[o] /\ r[o][i] = q[o][i]

LEMMA Pushed ==
  ASSUME NEW S, NEW q \in [Decoders -> Seq(S)], NEW p \in Decoders, NEW x \in S,
         NEW r, r = [q EXCEPT ![p] = Append(@, x)]
  PROVE  r \in [Decoders -> Seq(S)] /\ IsPushed(q, r, p, x)
<1>1. /\ q[p] \in Seq(S) /\ r[p] = Append(q[p], x)
      /\ \A o \in Decoders \ {p} : r[o] = q[o]
      /\ r \in [Decoders -> Seq(S)]
  OBVIOUS
<1>2. /\ Len(q[p]) \in Nat /\ Len(r[p]) = Len(q[p]) + 1
      /\ DOMAIN q[p] = 1 .. Len(q[p]) /\ DOMAIN r[p] = 1 .. Len(q[p]) + 1
      /\ \A i \in DOMAIN r[p] : r[p][i] = IF i <= Len(q[p]) THEN q[p][i] ELSE x
  BY <1>1
<1>3. \A o \in Decoders : Len(q[o]) \in Nat /\ DOMAIN q[o] = 1 .. Len(q[o])
  OBVIOUS
<1>4. \A o \in Decoders : \A i \in DOMAIN q[o] :
        i \in DOMAIN r[o] /\ r[o][i] = q[o][i] /\ i \in 1 .. Len(q[o])
  BY <1>1, <1>2, <1>3
<1>5. \A o \in Decoders : \A i \in DOMAIN r[o] :
        \/ i \in DOMAIN q[o] /\ r[o][i] = q[o][i]
        \/ o = p /\ i = Len(q[p]) + 1 /\ r[o][i] = x
  BY <1>1, <1>2, <1>3
<1>6. Len(q[p]) + 1 \in DOMAIN r[p] /\ r[p][Len(q[p]) + 1] = x
  BY <1>2
<1> QED
  BY <1>1, <1>2, <1>4, <1>5, <1>6 DEF IsPushed

LEMMA Taken ==
  ASSUME NEW S, NEW q \in [Decoders -> Seq(S)], NEW p \in Decoders, q[p] # <<>>,
         NEW r, r = [q EXCEPT ![p] = Tail(@)]
  PROVE  /\ r \in [Decoders -> Seq(S)]
         /\ Head(q[p]) = q[p][1] /\ q[p][1] \in S
         /\ IsTaken(q, r, p)
<1>1. /\ q[p] \in Seq(S) /\ r[p] = Tail(q[p]) /\ Tail(q[p]) \in Seq(S)
      /\ \A o \in Decoders \ {p} : r[o] = q[o]
      /\ r \in [Decoders -> Seq(S)]
  OBVIOUS
<1>2. /\ Len(q[p]) \in Nat \ {0} /\ DOMAIN q[p] = 1 .. Len(q[p])
      /\ 1 \in DOMAIN q[p] /\ Head(q[p]) = q[p][1] /\ q[p][1] \in S
  BY <1>1
<1>3. /\ Len(r[p]) = Len(q[p]) - 1 /\ DOMAIN r[p] = 1 .. Len(q[p]) - 1
      /\ \A i \in DOMAIN r[p] : r[p][i] = q[p][i + 1]
  BY <1>1, <1>2
<1>4. \A i \in DOMAIN r[p] :
        i \in Nat \ {0} /\ i + 1 \in DOMAIN q[p] /\ r[p][i] = q[p][i + 1]
  BY <1>2, <1>3
<1>5. ASSUME NEW j \in DOMAIN q[p]
      PROVE  /\ j \in Nat \ {0}
             /\ j # 1 => j - 1 \in DOMAIN r[p] /\ r[p][j - 1] = q[p][j]
  <2>1. j \in 1 .. Len(q[p]) /\ j \in Nat \ {0}
    BY <1>2, <1>5
  <2>2. ASSUME j # 1 PROVE j - 1 \in DOMAIN r[p] /\ (j - 1) + 1 = j
    BY <1>2, <1>3, <2>1, <2>2
  <2> QED
    BY <1>3, <2>1, <2>2
<1>6. \A o \in Decoders : \A i \in DOMAIN r[o] : \E j \in DOMAIN q[o] : r[o][i] = q[o][j]
  BY <1>1, <1>4
<1> QED
  BY <1>1, <1>2, <1>3, <1>4, <1>5, <1>6 DEF IsTaken

LEMMA Cut ==
  ASSUME NEW S, NEW q \in [Decoders -> Seq(S)], NEW k \in [Decoders -> Nat],
         \A o \in Decoders : k[o] <= Len(q[o]),
         NEW r, r = [o \in Decoders |-> SubSeq(q[o], 1, k[o])]
  PROVE  r \in [Decoders -> Seq(S)] /\ IsCut(q, r)
<1>1. ASSUME NEW o \in Decoders
      PROVE  /\ r[o] \in Seq(S)
             /\ \A i \in DOMAIN r[o] : i \in DOMAIN q[o] /\ r[o][i] = q[o][i]
  <2>1. q[o] \in Seq(S) /\ k[o] \in 0 .. Len(q[o]) /\ r[o] = SubSeq(q[o], 1, k[o])
    OBVIOUS
  <2> QED
    BY <2>1
<1> QED
  BY <1>1 DEF IsCut

LEMMA CutOne ==
  ASSUME NEW S, NEW q \in [Decoders -> Seq(S)], NEW p \in Decoders,
         NEW k \in 0 .. Len(q[p]),
         NEW r, r = [q EXCEPT ![p] = SubSeq(@, 1, k)]
  PROVE  r \in [Decoders -> Seq(S)] /\ IsCut(q, r)
<1>1. q[p] \in Seq(S) /\ r[p] = SubSeq(q[p], 1, k)
  OBVIOUS
<1>2. /\ r[p] \in Seq(S)
      /\ \A i \in DOMAIN r[p] : i \in DOMAIN q[p] /\ r[p][i] = q[p][i]
  BY <1>1
<1> QED
  BY <1>2 DEF IsCut

(* The numbers that the messages carry.                                    *)
LEMMA WireNumbers ==
  ASSUME PipelineTypeOK, NEW p \in Decoders, NEW i \in DOMAIN wire[p]
  PROVE  /\ wire[p][i] \in Decoded /\ wire[p][i].desc \in Desc
         /\ wire[p][i].desc.type \in {"FRAME", "FRAME_EOF"}
         /\ wire[p][i].desc.c_seq = 0
         /\ wire[p][i].desc.f_seq \in Nat /\ wire[p][i].desc.f_seq \in FrameSeq
         /\ i \in Nat \ {0}
<1>1. wire[p][i] \in Decoded /\ i \in 1 .. Len(wire[p]) /\ Len(wire[p]) \in Nat
  BY DEF PipelineTypeOK
<1>2. /\ wire[p][i].desc.type \in {"FRAME", "FRAME_EOF"}
      /\ wire[p][i].desc.c_seq = 0 /\ wire[p][i].desc.f_seq \in FrameSeq
      /\ wire[p][i].desc \in [type : {"FRAME", "FRAME_EOF"}, c_seq : {0}, f_seq : FrameSeq]
  BY <1>1 DEF Decoded
<1>3. wire[p][i].desc \in Desc
  BY <1>2, PipelineAssumption DEF Desc, Types
<1>4. i \in Nat \ {0}
  BY <1>1
<1>5. wire[p][i].desc.f_seq \in Nat
  BY <1>2, SeqAssumption
<1> QED
  BY <1>1, <1>2, <1>3, <1>4, <1>5

LEMMA InboxNumbers ==
  ASSUME PipelineTypeOK, NEW p \in Decoders, NEW i \in DOMAIN inbox[p]
  PROVE  inbox[p][i] \in Message /\ inbox[p][i].chunk \in Nat /\ i \in Nat \ {0}
<1>1. inbox[p][i] \in Message /\ i \in 1 .. Len(inbox[p]) /\ Len(inbox[p]) \in Nat
  BY DEF PipelineTypeOK
<1> QED
  BY <1>1 DEF Message

LEMMA CountNumbers ==
  ASSUME PipelineTypeOK
  PROVE  cnt \in Nat /\ \A c \in Db : c \in Nat /\ nframes[c] \in FrameCounts /\ nframes[c] \in Nat
<1>1. /\ nframes \in [Db -> FrameCounts] /\ Db \subseteq 1..NumChunks
      /\ cnt \in {0} \cup Db
  BY DEF PipelineTypeOK
<1>2. Db \subseteq Nat /\ FrameCounts \subseteq Nat
  BY <1>1, PipelineAssumption
<1>3. \A c \in Db : nframes[c] \in FrameCounts
  BY <1>1
<1>4. cnt \in Nat
  BY <1>1, <1>2
<1>5. \A c \in Db : c \in Nat /\ nframes[c] \in Nat
  BY <1>2, <1>3
<1> QED
  BY <1>3, <1>4, <1>5

(* What the codec of a decoder at work has in hand.                        *)
LEMMA JobInHand ==
  ASSUME PipelineTypeOK, InHand, NEW p \in Decoders, Working(p)
  PROVE  /\ job[p].c_seq = 0 /\ job[p].chunk \in Db /\ job[p].chunk \in Nat
         /\ nframes[job[p].chunk] \in Nat
         /\ frame_number[p] \in Nat /\ frame_number[p] <= nframes[job[p].chunk]
         /\ frame_number[p] + 1 \in FrameSeq
<1>1. /\ job[p].chunk \in Db /\ frame_number[p] <= nframes[job[p].chunk]
      /\ job[p] \in Message /\ frame_number[p] \in Nat
  BY DEF InHand, PipelineTypeOK
<1>2. /\ nframes[job[p].chunk] \in FrameCounts /\ nframes[job[p].chunk] \in Nat
      /\ job[p].chunk \in Nat
  BY <1>1, CountNumbers
<1>3. frame_number[p] + 1 \in 1 .. nframes[job[p].chunk] + 1
  BY <1>1, <1>2
<1>4. frame_number[p] + 1 \in FrameSeq
  BY <1>2, <1>3, PipelineAssumption
<1> QED
  BY <1>1, <1>2, <1>4 DEF Message

---------------------------------------------------------------------------
(* What the steps do.                                                      *)

(* The source sends the next chunk to p.                                   *)
Dispatch(p) ==
  /\ cnt + 1 \in Db
  /\ inbox' = [inbox EXCEPT ![p] = Append(@, [c_seq |-> 0, chunk |-> cnt + 1])]
  /\ cnt' = cnt + 1
  /\ UNCHANGED <<vars, nframes, source, lost, decvars, wire, feedback, sinkvars>>

(* The codec returns a frame, which is sent on.                            *)
SendsFrame(p) ==
  /\ Working(p) /\ dec[p] # "eof"
  /\ frame_number[p] < nframes[job[p].chunk]
  /\ frame_number' = [frame_number EXCEPT ![p] = @ + 1]
  /\ ToSink(p, "FRAME", frame_number[p] + 1)
  /\ UNCHANGED <<inbox, feedback, dec, job, failed>>

(* The decoder only goes on with the file, or to its end.                  *)
GoesOn(p) ==
  /\ Working(p)
  /\ dec' \in {[dec EXCEPT ![p] = "flush"], [dec EXCEPT ![p] = "eof"]}
  /\ \/ frame_number' = frame_number
     \/ /\ frame_number[p] < nframes[job[p].chunk]
        /\ frame_number' = [frame_number EXCEPT ![p] = @ + 1]
        /\ failed' = TRUE
  /\ \/ failed' = TRUE
     \/ failed' = failed /\ (dec'[p] = "eof" => frame_number[p] = nframes[job[p].chunk])
  /\ UNCHANGED <<inbox, wire, feedback, job>>

Proceeds(p) ==
  /\ SendsFrame(p) \/ GoesOn(p) \/ SendDecodedEof(p) \/ SendFeedback(p)
  /\ UNCHANGED <<vars, srcvars, inbox, sinkvars>>

(* Nothing new comes to be, in the manager, in a queue or in a hand.       *)
Loses ==
  /\ UNCHANGED <<chunks, frames, eof_f, eof_c, wm_chunk, wm_frame, proc,
                 revealed, nframes, cnt, arrived, job, frame_number>>
  /\ IsCut(inbox, inbox') /\ IsCut(wire, wire')
  /\ \A p \in Decoders : dec'[p] = dec[p] \/ dec'[p] = "dead"
  /\ \/ failed' = TRUE
     \/ UNCHANGED <<dec, wire, failed>>

LEMMA DecodingCases ==
  ASSUME PipelineTypeOK, NEW p \in Decoders,
         DecodeFrame(p) \/ EndOfPackets(p) \/ EndOfFlush(p)
  PROVE  SendsFrame(p) \/ GoesOn(p)
<1>1. CASE DecodeFrame(p)
  <2>1. Working(p) /\ dec[p] # "eof"
    BY <1>1 DEF DecodeFrame, Working
  <2>2. CASE ToSink(p, "FRAME", frame_number[p] + 1) /\ UNCHANGED <<dec, failed>>
    BY <1>1, <2>1, <2>2 DEF DecodeFrame, SendsFrame
  <2>3. CASE Fail /\ Goto(p, IF dec[p] = "decode" THEN "flush" ELSE "eof") /\ UNCHANGED wire
    BY <1>1, <2>1, <2>3 DEF DecodeFrame, GoesOn, Fail, Goto
  <2> QED
    BY <1>1, <2>2, <2>3 DEF DecodeFrame
<1>2. CASE EndOfPackets(p)
  BY <1>2 DEF EndOfPackets, GoesOn, Goto, Working, PipelineTypeOK
<1>3. CASE EndOfFlush(p)
  BY <1>3 DEF EndOfFlush, GoesOn, Goto, Fail, Working
<1> QED
  BY <1>1, <1>2, <1>3

(* The frames are numbered from 1 and the watermark waits for number 0:    *)
(* RetrieveAFrame finds nothing, and its assertions hold.                  *)
LEMMA RetrieveNothing ==
  ASSUME SinkInv, RetrieveAFrame
  PROVE  /\ UNCHANGED <<chunks, frames, eof_f, eof_c, wm_chunk, wm_frame, proc,
                        revealed, sizes>>
         /\ proc = "up"
<1>1. ~AtFrameEof
  BY DEF AtFrameEof, SinkInv
<1>2. NextChunk = 0 /\ NextFrame = 0 /\ FramesLeft = frames
  BY <1>1 DEF NextChunk, NextFrame, FramesLeft, SinkInv
<1>3. /\ UNCHANGED <<chunks, eof_f, sizes, eof_c, wm_chunk>> /\ proc = "up"
  BY <1>1, <1>2 DEF RetrieveAFrame, AdvanceChunk, SameChunk, SinkInv
<1>4. ~RevealFrame(NextChunk, NextFrame)
  BY <1>2 DEF RevealFrame, SinkInv
<1> QED
  BY <1>2, <1>3, <1>4 DEF RetrieveAFrame, RevealNothing, StartOfChunk, SinkInv

LEMMA CutNothing ==
  ASSUME NEW S, NEW q \in [Decoders -> Seq(S)], NEW r, r = q
  PROVE  IsCut(q, r)
BY DEF IsCut

LEMMA CutAll ==
  ASSUME NEW S, NEW q \in [Decoders -> Seq(S)], NEW p \in Decoders,
         NEW r, r = [q EXCEPT ![p] = <<>>]
  PROVE  r \in [Decoders -> Seq(S)] /\ IsCut(q, r)
BY DEF IsCut

LEMMA SourceDiesCuts ==
  ASSUME PipelineTypeOK, SourceDies
  PROVE  inbox' \in [Decoders -> Seq(Message)] /\ IsCut(inbox, inbox')
<1>1. PICK kept \in [Decoders -> 0..NumChunks] :
        /\ \A p \in Decoders : kept[p] <= Len(inbox[p])
        /\ inbox' = [p \in Decoders |-> SubSeq(inbox[p], 1, kept[p])]
  BY DEF SourceDies
<1>2. kept \in [Decoders -> Nat]
  BY PipelineAssumption
<1>3. inbox \in [Decoders -> Seq(Message)]
  BY DEF PipelineTypeOK
<1> QED
  BY <1>1, <1>2, <1>3, Cut

LEMMA DecoderDiesCuts ==
  ASSUME PipelineTypeOK, NEW p \in Decoders, DecoderDies(p)
  PROVE  /\ inbox' \in [Decoders -> Seq(Message)] /\ IsCut(inbox, inbox')
         /\ wire' \in [Decoders -> Seq(Decoded)] /\ IsCut(wire, wire')
         /\ \A q \in Decoders : dec'[q] = dec[q] \/ dec'[q] = "dead"
<1>1. inbox \in [Decoders -> Seq(Message)] /\ wire \in [Decoders -> Seq(Decoded)]
  BY DEF PipelineTypeOK
<1>2. PICK k \in 0 .. Len(wire[p]) : wire' = [wire EXCEPT ![p] = SubSeq(@, 1, k)]
  BY DEF DecoderDies
<1>3. wire' \in [Decoders -> Seq(Decoded)] /\ IsCut(wire, wire')
  BY <1>1, <1>2, CutOne
<1>4. inbox' = [inbox EXCEPT ![p] = <<>>]
  BY DEF DecoderDies
<1>5. inbox' \in [Decoders -> Seq(Message)] /\ IsCut(inbox, inbox')
  BY <1>1, <1>4, CutAll
<1> QED
  BY <1>3, <1>5 DEF DecoderDies, Goto, PipelineTypeOK

LEMMA Cases ==
  ASSUME PipelineTypeOK, SinkInv, [PipelineNext]_allvars
  PROVE  \/ \E p \in Decoders : Dispatch(p) \/ RecvChunk(p) \/ Proceeds(p) \/ ReceiveOne(p)
         \/ Loses
<1> USE DEF srcvars, decvars, sinkvars, vars
<1>1. IsCut(inbox, inbox) /\ IsCut(wire, wire)
  BY CutNothing DEF PipelineTypeOK
<1>2. CASE SendChunk
  BY <1>2 DEF SendChunk, ToSomeDecoder, Dispatch
<1>3. CASE EndOfChunks
  BY <1>1, <1>3 DEF EndOfChunks, Loses
<1>4. CASE SourceDies
  BY <1>1, <1>4, SourceDiesCuts DEF SourceDies, Loses
<1>5. ASSUME NEW p \in Decoders, Decoder(p)
      PROVE  RecvChunk(p) \/ Proceeds(p) \/ Loses
  <2>1. CASE DecoderDies(p)
    BY <2>1, DecoderDiesCuts DEF DecoderDies, Loses, Fail
  <2>2. CASE DecodeFrame(p) \/ EndOfPackets(p) \/ EndOfFlush(p)
    <3>1. UNCHANGED <<vars, srcvars, inbox, sinkvars>>
      BY <2>2 DEF DecodeFrame, EndOfPackets, EndOfFlush
    <3> QED
      BY <2>2, <3>1, DecodingCases DEF Proceeds
  <2>3. CASE SendDecodedEof(p) \/ SendFeedback(p)
    BY <2>3 DEF SendDecodedEof, SendFeedback, Proceeds
  <2> QED
    BY <1>5, <2>1, <2>2, <2>3 DEF Decoder
<1>6. CASE RetrieveOne
  BY <1>1, <1>6, RetrieveNothing DEF RetrieveOne, Loses
<1>7. CASE UNCHANGED allvars
  BY <1>1, <1>7 DEF allvars, Loses
<1> QED
  BY <1>2, <1>3, <1>4, <1>5, <1>6, <1>7 DEF PipelineNext

(* What a turn of the receive loop makes of the manager: it dies, and      *)
(* changes nothing, or takes the piece.                                    *)
LEMMA ReceiveEffect ==
  ASSUME PipelineTypeOK, RxInv, SinkInv, NEW p \in Decoders, ReceiveOne(p),
         NEW m, m = wire[p][1]
  PROVE  /\ m \in Decoded /\ m = Head(wire[p]) /\ 1 \in DOMAIN wire[p] /\ proc = "up"
         /\ UNCHANGED <<eof_c, wm_chunk, wm_frame, revealed>>
         /\ \/ /\ proc' = "dead" /\ UNCHANGED <<chunks, frames, eof_f, arrived>>
               /\ m.desc.type = "FRAME" => 
                    0 \in chunks /\ (eof_f[0] # Unset \/ m.desc.f_seq \in frames[0])
               /\ m.desc.type = "FRAME_EOF" =>
                    \/ chunks = {}
                    \/ eof_f[0] # Unset \/ \E g \in frames[0] : m.desc.f_seq <= g
            \/ /\ proc' = "up" /\ arrived' = arrived \cup {m.chunk} /\ chunks' = {0}
               /\ \/ /\ m.desc.type = "FRAME" /\ eof_f'[0] = eof_f[0]
                     /\ frames'[0] = frames[0] \cup {m.desc.f_seq}
                     /\ 0 \in chunks => /\ m.desc.f_seq \notin frames[0]
                                        /\ eof_f[0] = Unset \/ m.desc.f_seq < eof_f[0]
                  \/ /\ m.desc.type = "FRAME_EOF" /\ eof_f'[0] = m.desc.f_seq
                     /\ frames'[0] = frames[0] /\ chunks = {0} /\ eof_f[0] = Unset
                     /\ \A g \in frames[0] : g < m.desc.f_seq
<1>1. wire \in [Decoders -> Seq(Decoded)]
  BY DEF PipelineTypeOK
<1>2. m \in Decoded /\ m = Head(wire[p]) /\ 1 \in DOMAIN wire[p]
  BY <1>1, Taken DEF ReceiveOne, IsTaken
<1>3. /\ m.desc.type \in {"FRAME", "FRAME_EOF"} /\ m.desc.c_seq = 0
      /\ m.desc.f_seq \in FrameSeq /\ m.desc.f_seq \in Nat
  BY <1>2, WireNumbers
<1>4. DepositAFrame(m.desc) \/ DepositADesc(m.desc)
  BY <1>2 DEF ReceiveOne
<1>5. /\ 0 \in ChunkSeq /\ frames \in [ChunkSeq -> SUBSET FrameSeq]
      /\ eof_f \in [ChunkSeq -> Nat \cup {Unset}]
  BY PipelineAssumption DEF PipelineTypeOK, TypeOK
<1>6. eof_c = Unset /\ (chunks = {} \/ chunks = {0}) /\ wm_frame = 0
  BY DEF SinkInv
<1>7. proc = "up"
  BY <1>4 DEF DepositAFrame, DepositADesc
<1>8. \A g \in frames[0] : g \in Nat
  BY <1>5, SeqAssumption
<1>9. arrived' = IF proc' = "up" THEN arrived \cup {m.chunk} ELSE arrived
  BY <1>2 DEF ReceiveOne
<1>10. CASE m.desc.type = "FRAME"
  <2>1. DepositAFrame(m.desc)
    BY <1>4, <1>10 DEF DepositADesc, DepositChunkEof, DepositFrameEof
  <2>2. CASE BadFrame(0, m.desc.f_seq)
    <3>1. Abort
      BY <1>3, <2>1, <2>2 DEF DepositAFrame
    <3> QED
      BY <1>2, <1>5, <1>6, <1>7, <1>9, <1>10, <2>2, <3>1, AbortFrame DEF BadFrame
  <2>3. CASE ~BadFrame(0, m.desc.f_seq)
    <3>1. /\ chunks' = chunks \cup {0}
          /\ frames' = [frames EXCEPT ![0] = @ \cup {m.desc.f_seq}]
          /\ UNCHANGED <<eof_f, eof_c, wm_chunk, wm_frame, proc, revealed>>
      BY <1>3, <2>1, <2>3 DEF DepositAFrame
    <3>2. chunks' = {0} /\ proc' = "up" /\ arrived' = arrived \cup {m.chunk}
      BY <1>6, <1>7, <1>9, <3>1
    <3>3. frames'[0] = frames[0] \cup {m.desc.f_seq} /\ eof_f'[0] = eof_f[0]
      BY <1>5, <3>1
    <3>4. 0 \in chunks => /\ m.desc.f_seq \notin frames[0]
                          /\ eof_f[0] = Unset \/ m.desc.f_seq < eof_f[0]
      BY <1>3, <1>5, <2>3 DEF BadFrame
    <3> QED
      BY <1>2, <1>7, <1>10, <3>1, <3>2, <3>3, <3>4
  <2> QED
    BY <2>2, <2>3
<1>11. CASE m.desc.type = "FRAME_EOF"
  <2>1. DepositFrameEof(m.desc)
    BY <1>4, <1>11 DEF DepositADesc, DepositAFrame, DepositChunkEof
  <2>2. LastKeyUndefined(0) => chunks = {} /\ BadFrameEof(0, m.desc.f_seq)
    BY <1>6 DEF RxInv, UnreadHasFrame, LastKeyUndefined, BadFrameEof
  <2>3. CASE BadFrameEof(0, m.desc.f_seq) \/ LastKeyUndefined(0)
    <3>1. Abort
      BY <1>3, <2>1, <2>2, <2>3 DEF DepositFrameEof
    <3> QED
      BY <1>2, <1>5, <1>6, <1>7, <1>9, <1>11, <2>2, <2>3, <3>1, AbortFrame
         DEF BadFrameEof
  <2>4. CASE ~(BadFrameEof(0, m.desc.f_seq) \/ LastKeyUndefined(0))
    <3>1. /\ eof_f' = [eof_f EXCEPT ![0] = m.desc.f_seq]
          /\ UNCHANGED <<chunks, frames, eof_c, wm_chunk, wm_frame, proc, revealed>>
      BY <1>3, <2>1, <2>4 DEF DepositFrameEof
    <3>2. \A g \in frames[0] : g < m.desc.f_seq
      BY <1>3, <1>8, <2>4 DEF BadFrameEof
    <3>3. chunks = {0} /\ eof_f[0] = Unset
      BY <1>5, <1>6, <2>4 DEF BadFrameEof
    <3>4. chunks' = {0} /\ proc' = "up" /\ arrived' = arrived \cup {m.chunk}
      BY <1>7, <1>9, <3>1, <3>3
    <3>5. frames'[0] = frames[0] /\ eof_f'[0] = m.desc.f_seq
      BY <1>5, <3>1
    <3> QED
      BY <1>2, <1>7, <1>11, <3>1, <3>2, <3>3, <3>4, <3>5
  <2> QED
    BY <2>3, <2>4
<1> QED
  BY <1>3, <1>10, <1>11

(* What that means for a chunk: at most this piece is new.                 *)
LEMMA GotStep ==
  ASSUME PipelineTypeOK, RxInv, SinkInv, NEW p \in Decoders, ReceiveOne(p),
         NEW m, m = wire[p][1], NEW c
  PROVE  /\ \A g \in Got(c)' :
              g \in Got(c) \/ (m.chunk = c /\ m.desc.type = "FRAME" /\ g = m.desc.f_seq)
         /\ Ended(c)' => Ended(c) \/ (m.chunk = c /\ m.desc.type = "FRAME_EOF")
         /\ c \in arrived' => c \in arrived \/ m.chunk = c
<1>1. 0 \in ChunkSeq
  BY PipelineAssumption
<1>2. arrived = {} => frames[0] = {} /\ eof_f[0] = Unset
  BY <1>1 DEF SinkInv, RxInv, ErasedIsClean
<1>3. CASE UNCHANGED <<frames, eof_f, arrived>>
  BY <1>3 DEF Got, Ended
<1>4. CASE /\ arrived' = arrived \cup {m.chunk}
           /\ \/ /\ m.desc.type = "FRAME" /\ eof_f'[0] = eof_f[0]
                 /\ frames'[0] = frames[0] \cup {m.desc.f_seq}
              \/ /\ m.desc.type = "FRAME_EOF" /\ frames'[0] = frames[0]
  <2>1. arrived' = {c} => m.chunk = c /\ (arrived = {} \/ arrived = {c})
    BY <1>4
  <2> QED
    BY <1>2, <1>4, <2>1 DEF Got, Ended
<1> QED
  BY <1>3, <1>4, ReceiveEffect

---------------------------------------------------------------------------
(* Every step keeps the types.                                             *)

(* Seen from the manager, the pipeline is a sequence of its calls.         *)
LEMMA ManagerStep ==
  ASSUME PipelineTypeOK, [PipelineNext]_allvars
  PROVE  [Next]_vars
<1>1. ASSUME NEW p \in Decoders, ReceiveOne(p)
      PROVE  Next
  <2>1. wire \in [Decoders -> Seq(Decoded)] /\ wire[p] # <<>>
    BY <1>1 DEF ReceiveOne, PipelineTypeOK
  <2>2. Head(wire[p]) = wire[p][1] /\ 1 \in DOMAIN wire[p]
    BY <2>1, Taken DEF IsTaken
  <2>3. Head(wire[p]).desc \in Desc
    BY <2>2, WireNumbers
  <2> QED
    BY <1>1, <2>3 DEF ReceiveOne, Next
<1>2. ASSUME NEW p \in Decoders, Decoder(p)
      PROVE  UNCHANGED vars
  BY <1>2 DEF Decoder, RecvChunk, DecoderDies, DecodeFrame, EndOfPackets, EndOfFlush,
     SendDecodedEof, SendFeedback
<1>3. SendChunk \/ EndOfChunks \/ SourceDies => UNCHANGED vars
  BY DEF SendChunk, EndOfChunks, SourceDies
<1>4. RetrieveOne => Next
  BY DEF RetrieveOne, Next
<1> QED
  BY <1>1, <1>2, <1>3, <1>4 DEF PipelineNext, allvars

LEMMA ManagerTypesStep ==
  ASSUME PipelineTypeOK, RxInv, [PipelineNext]_allvars
  PROVE  TypeOK' /\ RxInv'
BY ManagerStep, TypeStep, RxInvStep DEF PipelineTypeOK

LEMMA PieceSent ==
  ASSUME PipelineTypeOK, InHand, NEW p \in Decoders, Working(p),
         NEW t \in {"FRAME", "FRAME_EOF"}, ToSink(p, t, frame_number[p] + 1),
         NEW m, m = [desc |-> [type |-> t, c_seq |-> 0, f_seq |-> frame_number[p] + 1],
                     chunk |-> job[p].chunk]
  PROVE  wire' \in [Decoders -> Seq(Decoded)] /\ IsPushed(wire, wire', p, m)
<1>1. m \in Decoded
  BY JobInHand DEF Decoded
<1>2. wire' = [wire EXCEPT ![p] = Append(@, m)]
  BY JobInHand DEF ToSink
<1>3. wire \in [Decoders -> Seq(Decoded)]
  BY DEF PipelineTypeOK
<1>4. \A q \in [Decoders -> Seq(Decoded)] : \A x \in Decoded : \A r :
        r = [q EXCEPT ![p] = Append(@, x)] =>
          r \in [Decoders -> Seq(Decoded)] /\ IsPushed(q, r, p, x)
  BY Pushed
<1> QED
  BY <1>1, <1>2, <1>3, <1>4

LEMMA FrameCounted ==
  ASSUME PipelineTypeOK, NEW p \in Decoders
  PROVE  [frame_number EXCEPT ![p] = @ + 1] \in [Decoders -> Nat]
<1>1. frame_number \in [Decoders -> Nat] /\ frame_number[p] + 1 \in Nat
  BY DEF PipelineTypeOK
<1> QED
  BY <1>1

LEMMA TypesSource ==
  ASSUME PipelineTypeOK, TypeOK', SendChunk \/ EndOfChunks \/ SourceDies
  PROVE  PipelineTypeOK'
<1>1. UNCHANGED <<vars, nframes, decvars, wire, feedback, sinkvars>>
  BY DEF SendChunk, EndOfChunks, SourceDies
<1>2. /\ inbox' \in [Decoders -> Seq(Message)]
      /\ source' \in {"sending", "sent", "dead"} /\ lost' \in BOOLEAN
      /\ cnt' \in {0} \cup Db
  <2>1. CASE SendChunk
    <3>1. PICK p \in Decoders :
            inbox' = [inbox EXCEPT ![p] = Append(@, [c_seq |-> 0, chunk |-> cnt + 1])]
      BY <2>1 DEF SendChunk, ToSomeDecoder
    <3>2. cnt + 1 \in Db /\ cnt' = cnt + 1 /\ UNCHANGED <<source, lost>>
      BY <2>1 DEF SendChunk
    <3>3. [c_seq |-> 0, chunk |-> cnt + 1] \in Message
      BY <3>2, CountNumbers DEF Message
    <3>4. inbox' \in [Decoders -> Seq(Message)]
      BY <3>1, <3>3 DEF PipelineTypeOK
    <3> QED
      BY <3>2, <3>4 DEF PipelineTypeOK
  <2>2. CASE EndOfChunks
    BY <2>2 DEF EndOfChunks, PipelineTypeOK
  <2>3. CASE SourceDies
    BY <2>3, SourceDiesCuts DEF SourceDies, PipelineTypeOK
  <2> QED
    BY <2>1, <2>2, <2>3
<1> QED
  BY <1>1, <1>2 DEF PipelineTypeOK, decvars, sinkvars, Db

LEMMA TypesDecoder ==
  ASSUME PipelineTypeOK, InHand, TypeOK', NEW p \in Decoders, Decoder(p)
  PROVE  PipelineTypeOK'
<1> DEFINE Phases == {"recv", "decode", "flush", "eof", "feedback", "dead"}
<1>1. UNCHANGED <<vars, srcvars, sinkvars>>
  BY DEF Decoder, RecvChunk, DecoderDies, DecodeFrame, EndOfPackets, EndOfFlush,
         SendDecodedEof, SendFeedback
<1>2. /\ inbox' \in [Decoders -> Seq(Message)]
      /\ dec' \in [Decoders -> Phases]
      /\ job' \in [Decoders -> Message]
      /\ frame_number' \in [Decoders -> Nat]
      /\ failed' \in BOOLEAN
      /\ wire' \in [Decoders -> Seq(Decoded)]
      /\ feedback' \in [Decoders -> 0..FbHwm]
  <2>0. /\ inbox \in [Decoders -> Seq(Message)] /\ dec \in [Decoders -> Phases]
        /\ job \in [Decoders -> Message] /\ frame_number \in [Decoders -> Nat]
        /\ failed \in BOOLEAN /\ wire \in [Decoders -> Seq(Decoded)]
        /\ feedback \in [Decoders -> 0..FbHwm]
    BY DEF PipelineTypeOK
  <2>1. CASE RecvChunk(p)
    <3>1. inbox \in [Decoders -> Seq(Message)] /\ inbox[p] # <<>>
      BY <2>1 DEF RecvChunk, PipelineTypeOK
    <3>2. inbox' \in [Decoders -> Seq(Message)] /\ Head(inbox[p]) \in Message
      BY <2>1, <3>1, Taken DEF RecvChunk
    <3>3. dec' \in [Decoders -> Phases] /\ failed' \in BOOLEAN
      BY <2>1 DEF RecvChunk, Goto, Fail, PipelineTypeOK
    <3>4. /\ job' = [job EXCEPT ![p] = Head(inbox[p])]
          /\ frame_number' = [frame_number EXCEPT ![p] = 0]
          /\ UNCHANGED <<wire, feedback>>
      BY <2>1 DEF RecvChunk
    <3>5. job' \in [Decoders -> Message] /\ frame_number' \in [Decoders -> Nat]
      BY <3>2, <3>4 DEF PipelineTypeOK
    <3> QED
      BY <3>2, <3>3, <3>4, <3>5 DEF PipelineTypeOK
  <2>2. CASE SendsFrame(p)
    <3>1. wire' \in [Decoders -> Seq(Decoded)]
      BY <2>2, PieceSent DEF SendsFrame
    <3>2. frame_number' \in [Decoders -> Nat]
      BY <2>2, FrameCounted DEF SendsFrame
    <3>3. UNCHANGED <<inbox, feedback, dec, job, failed>>
      BY <2>2 DEF SendsFrame
    <3> QED
      BY <2>0, <3>1, <3>2, <3>3
  <2>3. CASE GoesOn(p)
    <3>1. dec' \in [Decoders -> Phases]
      BY <2>3 DEF GoesOn, PipelineTypeOK
    <3>2. frame_number' \in [Decoders -> Nat]
      BY <2>3, FrameCounted DEF GoesOn, PipelineTypeOK
    <3>3. /\ failed' = failed \/ failed' = TRUE
          /\ UNCHANGED <<inbox, job, wire, feedback>>
      BY <2>3 DEF GoesOn
    <3> QED
      BY <2>0, <3>1, <3>2, <3>3
  <2>4. CASE SendDecodedEof(p)
    <3>1. Working(p) /\ ToSink(p, "FRAME_EOF", frame_number[p] + 1)
      BY <2>4 DEF SendDecodedEof, Working
    <3>2. wire' \in [Decoders -> Seq(Decoded)]
      BY <3>1, PieceSent
    <3> QED
      BY <2>4, <3>2 DEF SendDecodedEof, Goto, PipelineTypeOK
  <2>5. CASE SendFeedback(p)
    <3>1. feedback' \in [Decoders -> 0..FbHwm]
      BY <2>5, PipelineAssumption DEF SendFeedback, PipelineTypeOK
    <3>2. job' \in [Decoders -> Message]
      BY <2>5 DEF SendFeedback, PipelineTypeOK, NoJob, Message
    <3> QED
      BY <2>5, <3>1, <3>2 DEF SendFeedback, Goto, PipelineTypeOK
  <2>6. CASE DecoderDies(p)
    <3>1. UNCHANGED <<job, frame_number, feedback>> /\ failed' = TRUE
      BY <2>6 DEF DecoderDies, Fail
    <3>2. dec' \in [Decoders -> Phases]
      BY <2>6 DEF DecoderDies, Goto, PipelineTypeOK
    <3> QED
      BY <2>6, <3>1, <3>2, DecoderDiesCuts DEF PipelineTypeOK
  <2> QED
    BY <2>1, <2>2, <2>3, <2>4, <2>5, <2>6, DecodingCases DEF Decoder
<1> HIDE DEF Phases
<1>3. dec' \in [Decoders -> {"recv", "decode", "flush", "eof", "feedback", "dead"}]
  BY <1>2 DEF Phases
<1> QED
  BY <1>1, <1>2, <1>3 DEF PipelineTypeOK, srcvars, sinkvars, Db

LEMMA TypesSink ==
  ASSUME PipelineTypes, RxInv, SinkInv, WireInv, TypeOK',
         RetrieveOne \/ \E p \in Decoders : ReceiveOne(p)
  PROVE  PipelineTypes'
<1> USE DEF PipelineTypes
<1>1. UNCHANGED <<srcvars, inbox, decvars, feedback>>
  BY DEF ReceiveOne, RetrieveOne
<1>2. /\ wire' \in [Decoders -> Seq(Decoded)]
      /\ sink' \in {"receive", "retrieve", "reply"}
      /\ arrived' \subseteq Db
      /\ iter' \in 0..TotalFnum
      /\ sink' # "reply" => iter' < TotalFnum
  <2>0. TotalFnum \in Nat /\ TotalFnum > 0 /\ iter \in 0..TotalFnum /\ iter + 1 \in Nat
    BY PipelineAssumption DEF PipelineTypeOK
  <2>1. CASE RetrieveOne
    BY <2>0, <2>1 DEF RetrieveOne, PipelineTypeOK
  <2>2. ASSUME NEW p \in Decoders, ReceiveOne(p)
        PROVE  /\ wire' \in [Decoders -> Seq(Decoded)]
               /\ sink' \in {"receive", "retrieve", "reply"}
               /\ arrived' \subseteq Db
               /\ iter' \in 0..TotalFnum
               /\ sink' # "reply" => iter' < TotalFnum
    <3>1. wire' \in [Decoders -> Seq(Decoded)] /\ Head(wire[p]) = wire[p][1]
          /\ 1 \in DOMAIN wire[p]
      BY <2>2, Taken DEF ReceiveOne, PipelineTypeOK, IsTaken
    <3>2. Head(wire[p]).chunk \in Db
      BY <3>1 DEF WireInv, InOrderAt
    <3>3. arrived' \subseteq Db
      BY <2>2, <3>2 DEF ReceiveOne, PipelineTypeOK
    <3>4. /\ sink' \in {"receive", "retrieve", "reply"}
          /\ iter' \in 0..TotalFnum
          /\ sink' # "reply" => iter' < TotalFnum
      BY <2>0, <2>2 DEF ReceiveOne
    <3> QED
      BY <3>1, <3>3, <3>4
  <2> QED
    BY <2>1, <2>2
<1> QED
  BY <1>1, <1>2 DEF PipelineTypeOK, srcvars, decvars, Db

LEMMA PipelineTypesStep ==
  ASSUME PipelineTypes, RxInv, InHand, SinkInv, WireInv, [PipelineNext]_allvars
  PROVE  PipelineTypes'
<1>1. TypeOK'
  BY ManagerTypesStep DEF PipelineTypes
<1>2. CASE UNCHANGED allvars
  BY <1>1, <1>2 DEF allvars, srcvars, decvars, sinkvars, PipelineTypes, PipelineTypeOK, Db
<1>3. CASE SendChunk \/ EndOfChunks \/ SourceDies
  <2>1. PipelineTypeOK'
    BY <1>1, <1>3, TypesSource DEF PipelineTypes
  <2>2. UNCHANGED sinkvars
    BY <1>3 DEF SendChunk, EndOfChunks, SourceDies
  <2> QED
    BY <2>1, <2>2 DEF PipelineTypes, sinkvars
<1>4. ASSUME NEW p \in Decoders, Decoder(p)
      PROVE  PipelineTypes'
  <2>1. PipelineTypeOK'
    BY <1>1, <1>4, TypesDecoder DEF PipelineTypes
  <2>2. UNCHANGED sinkvars
    BY <1>4 DEF Decoder, RecvChunk, DecoderDies, DecodeFrame, EndOfPackets, EndOfFlush,
         SendDecodedEof, SendFeedback
  <2> QED
    BY <2>1, <2>2 DEF PipelineTypes, sinkvars
<1> QED
  BY <1>1, <1>2, <1>3, <1>4, TypesSink DEF PipelineNext

---------------------------------------------------------------------------
(* What the source sends and the decoders take.                            *)

LEMMA InboxAfterDispatch ==
  ASSUME PipelineTypeOK, NEW p \in Decoders, Dispatch(p),
         NEW x, x = [c_seq |-> 0, chunk |-> cnt + 1]
  PROVE  /\ cnt \in Nat /\ cnt + 1 \in Db /\ cnt' = cnt + 1
         /\ IsPushed(inbox, inbox', p, x)
<1>1. /\ inbox' = [inbox EXCEPT ![p] = Append(@, x)]
      /\ inbox \in [Decoders -> Seq(Message)] /\ cnt + 1 \in Db /\ cnt' = cnt + 1
  BY DEF PipelineTypeOK, Dispatch
<1>2. x \in Message /\ cnt \in Nat
  BY <1>1, CountNumbers DEF Message
<1>3. \A q \in [Decoders -> Seq(Message)] : \A y \in Message : \A r :
        r = [q EXCEPT ![p] = Append(@, y)] => IsPushed(q, r, p, y)
  BY Pushed
<1> QED
  BY <1>1, <1>2, <1>3

(* A decoder takes the first message; the other decoders are left alone.   *)
LEMMA RecvEffect ==
  ASSUME PipelineTypeOK, NEW p \in Decoders, RecvChunk(p)
  PROVE  /\ inbox[p][1] \in Message /\ 1 \in DOMAIN inbox[p]
         /\ IsTaken(inbox, inbox', p)
         /\ \A o \in Decoders \ {p} : /\ dec'[o] = dec[o] /\ job'[o] = job[o]
                                      /\ frame_number'[o] = frame_number[o]
                                      /\ Working(o)' = Working(o)
         /\ job'[p] = inbox[p][1] /\ frame_number'[p] = 0
         /\ Working(p)' => dec'[p] = "decode" /\ failed' = failed
         /\ ~Working(p)
         /\ failed' = failed \/ failed' = TRUE
         /\ UNCHANGED <<vars, srcvars, wire, sinkvars>>
         /\ UNCHANGED <<nframes, cnt, arrived, frames, eof_f, proc>>
<1> DEFINE x == inbox[p][1]
<1>1. /\ inbox' = [inbox EXCEPT ![p] = Tail(@)] /\ inbox[p] # <<>>
      /\ inbox \in [Decoders -> Seq(Message)]
  BY DEF PipelineTypeOK, RecvChunk
<1>2. /\ Head(inbox[p]) = x /\ x \in Message /\ IsTaken(inbox, inbox', p)
      /\ 1 \in DOMAIN inbox[p]
  BY <1>1, Taken DEF IsTaken
<1>3. /\ dec[p] = "recv"
      /\ job' = [job EXCEPT ![p] = x]
      /\ frame_number' = [frame_number EXCEPT ![p] = 0]
      /\ UNCHANGED <<vars, srcvars, wire, sinkvars>>
      /\ \/ dec' = [dec EXCEPT ![p] = "decode"] /\ failed' = failed
         \/ dec' = [dec EXCEPT ![p] = "feedback"] /\ failed' = TRUE
  BY <1>2 DEF RecvChunk, Goto, Fail
<1>4. /\ job \in [Decoders -> Message] /\ frame_number \in [Decoders -> Nat]
      /\ DOMAIN dec = Decoders
  BY DEF PipelineTypeOK
<1>5. \A o \in Decoders \ {p} : /\ dec'[o] = dec[o] /\ job'[o] = job[o]
                                /\ frame_number'[o] = frame_number[o]
  BY <1>3, <1>4
<1>6. /\ job'[p] = x /\ frame_number'[p] = 0
      /\ \/ dec'[p] = "decode" /\ failed' = failed
         \/ dec'[p] = "feedback" /\ failed' = TRUE
  BY <1>3, <1>4
<1>7. \A o \in Decoders \ {p} : Working(o)' = Working(o)
  BY <1>5 DEF Working
<1>8. ~Working(p) /\ (Working(p)' => dec'[p] = "decode" /\ failed' = failed)
  BY <1>3, <1>6 DEF Working
<1>9. failed' = failed \/ failed' = TRUE
  BY <1>6
<1>10. UNCHANGED <<nframes, cnt, arrived, frames, eof_f, proc>>
  BY <1>3 DEF vars, srcvars, sinkvars
<1> QED
  BY <1>2, <1>3, <1>5, <1>6, <1>7, <1>8, <1>9, <1>10

(* The other steps of a decoder give no work to it or to any other; they   *)
(* count at most one more frame.                                           *)
LEMMA NoNewWork ==
  ASSUME PipelineTypeOK, NEW p \in Decoders, Proceeds(p)
  PROVE  /\ \A o \in Decoders : Working(o)' =>
              /\ Working(o) /\ job'[o] = job[o]
              /\ \/ frame_number'[o] = frame_number[o]
                 \/ /\ o = p /\ frame_number[o] < nframes[job[o].chunk]
                    /\ frame_number'[o] = frame_number[o] + 1
         /\ \A o \in Decoders \ {p} :
              dec'[o] = dec[o] /\ job'[o] = job[o] /\ frame_number'[o] = frame_number[o]
         /\ UNCHANGED <<vars, srcvars, inbox, sinkvars>>
<1>1. UNCHANGED <<vars, srcvars, inbox, sinkvars>>
  BY DEF Proceeds
<1>2. /\ DOMAIN dec = Decoders /\ DOMAIN job = Decoders /\ DOMAIN frame_number = Decoders
      /\ p \in Decoders
  BY DEF PipelineTypeOK
<1>3. CASE SendsFrame(p)
  BY <1>1, <1>2, <1>3 DEF SendsFrame, Working
<1>4. CASE GoesOn(p)
  BY <1>1, <1>2, <1>4 DEF GoesOn, Working
<1>5. CASE SendDecodedEof(p)
  BY <1>1, <1>2, <1>5 DEF SendDecodedEof, Goto, Working
<1>6. CASE SendFeedback(p)
  BY <1>1, <1>2, <1>6 DEF SendFeedback, Goto, Working
<1> QED
  BY <1>3, <1>4, <1>5, <1>6 DEF Proceeds

LEMMA WaitingStep ==
  ASSUME PipelineTypeOK, SinkInv, Waiting, [PipelineNext]_allvars
  PROVE  Waiting'
<1>1. ASSUME NEW p \in Decoders, Dispatch(p)
      PROVE  Waiting'
  <2> DEFINE x == [c_seq |-> 0, chunk |-> cnt + 1]
  <2>1. /\ IsPushed(inbox, inbox', p, x) /\ cnt \in Nat /\ cnt + 1 \in Db
        /\ cnt' = cnt + 1 /\ nframes' = nframes
    BY <1>1, InboxAfterDispatch DEF Dispatch
  <2> SUFFICES ASSUME NEW o \in Decoders, NEW i \in DOMAIN inbox'[o]
               PROVE  inbox'[o][i].chunk \in Db /\ inbox'[o][i].chunk <= cnt'
    BY <2>1 DEF Waiting, Db
  <2>2. CASE i \in DOMAIN inbox[o] /\ inbox'[o][i] = inbox[o][i]
    BY <2>1, <2>2, InboxNumbers DEF Waiting
  <2>3. CASE inbox'[o][i] = x
    BY <2>1, <2>3
  <2> QED
    BY <2>1, <2>2, <2>3 DEF IsPushed
<1>2. ASSUME NEW p \in Decoders, RecvChunk(p)
      PROVE  Waiting'
  <2>1. IsTaken(inbox, inbox', p) /\ UNCHANGED <<cnt, nframes>>
    BY <1>2, RecvEffect
  <2> QED
    BY <2>1 DEF Waiting, IsTaken, Db
<1>3. ASSUME NEW p \in Decoders, Proceeds(p) \/ ReceiveOne(p)
      PROVE  Waiting'
  <2>1. UNCHANGED <<inbox, cnt, nframes>>
    BY <1>3 DEF Proceeds, ReceiveOne, srcvars
  <2> QED
    BY <2>1 DEF Waiting, Db
<1>4. CASE Loses
  BY <1>4 DEF Loses, Waiting, IsCut, Db
<1> QED
  BY <1>1, <1>2, <1>3, <1>4, Cases

LEMMA InHandStep ==
  ASSUME PipelineTypeOK, SinkInv, Waiting, InHand, [PipelineNext]_allvars
  PROVE  InHand'
<1>1. ASSUME NEW p \in Decoders, RecvChunk(p)
      PROVE  InHand'
  <2> DEFINE x == inbox[p][1]
  <2>1. /\ 1 \in DOMAIN inbox[p] /\ nframes' = nframes
        /\ job'[p] = x /\ frame_number'[p] = 0
        /\ \A o \in Decoders \ {p} : /\ job'[o] = job[o]
                                     /\ frame_number'[o] = frame_number[o]
                                     /\ Working(o)' = Working(o)
    BY <1>1, RecvEffect
  <2>2. x.chunk \in Db /\ nframes[x.chunk] \in Nat
    BY <2>1, CountNumbers DEF Waiting
  <2> QED
    BY <2>1, <2>2 DEF InHand, Db
<1>2. ASSUME NEW p \in Decoders, Proceeds(p)
      PROVE  InHand'
  <2>1. nframes' = nframes
    BY <1>2 DEF Proceeds, srcvars
  <2> SUFFICES ASSUME NEW o \in Decoders, Working(o)'
               PROVE  job'[o].chunk \in Db /\ frame_number'[o] <= nframes[job'[o].chunk]
    BY <2>1 DEF InHand, Db
  <2>2. /\ Working(o) /\ job'[o] = job[o]
        /\ \/ frame_number'[o] = frame_number[o]
           \/ /\ frame_number[o] < nframes[job[o].chunk]
              /\ frame_number'[o] = frame_number[o] + 1
    BY <1>2, NoNewWork
  <2>3. /\ frame_number[o] \in Nat /\ nframes[job[o].chunk] \in Nat
        /\ frame_number[o] <= nframes[job[o].chunk] /\ job[o].chunk \in Db
    BY <2>2, JobInHand
  <2> QED
    BY <2>2, <2>3
<1>3. ASSUME NEW p \in Decoders, Dispatch(p) \/ ReceiveOne(p)
      PROVE  InHand'
  <2>1. UNCHANGED <<nframes, dec, job, frame_number>>
    BY <1>3 DEF Dispatch, ReceiveOne, srcvars, decvars
  <2> QED
    BY <2>1 DEF InHand, Working, Db
<1>4. CASE Loses
  BY <1>4 DEF Loses, InHand, Working, Db
<1> QED
  BY <1>1, <1>2, <1>3, <1>4, Cases

LEMMA OrdersApartStep ==
  ASSUME PipelineTypeOK, SinkInv, Waiting, OrdersApart, [PipelineNext]_allvars
  PROVE  OrdersApart'
<1>1. ASSUME NEW p \in Decoders, Dispatch(p)
      PROVE  OrdersApart'
  <2> DEFINE x == [c_seq |-> 0, chunk |-> cnt + 1]
  <2>1. IsPushed(inbox, inbox', p, x) /\ cnt \in Nat
    BY <1>1, InboxAfterDispatch
  <2>2. ASSUME NEW o \in Decoders, NEW i \in DOMAIN inbox[o], inbox[o][i].chunk = x.chunk
        PROVE  FALSE
    BY <2>1, <2>2 DEF Waiting
  <2> SUFFICES ASSUME NEW o \in Decoders, NEW q \in Decoders, NEW i \in DOMAIN inbox'[o],
                      NEW j \in DOMAIN inbox'[q], inbox'[o][i].chunk = inbox'[q][j].chunk
               PROVE  o = q /\ i = j
    BY DEF OrdersApart
  <2>3. \/ i \in DOMAIN inbox[o] /\ inbox'[o][i] = inbox[o][i]
        \/ o = p /\ i = Len(inbox[p]) + 1 /\ inbox'[o][i] = x
    BY <2>1 DEF IsPushed
  <2>4. \/ j \in DOMAIN inbox[q] /\ inbox'[q][j] = inbox[q][j]
        \/ q = p /\ j = Len(inbox[p]) + 1 /\ inbox'[q][j] = x
    BY <2>1 DEF IsPushed
  <2> HIDE DEF x
  <2> QED
    BY <2>2, <2>3, <2>4 DEF OrdersApart
<1>2. ASSUME NEW p \in Decoders, RecvChunk(p)
      PROVE  OrdersApart'
  <2>1. IsTaken(inbox, inbox', p)
    BY <1>2, RecvEffect
  <2> SUFFICES ASSUME NEW o \in Decoders, NEW q \in Decoders, NEW i \in DOMAIN inbox'[o],
                      NEW j \in DOMAIN inbox'[q], inbox'[o][i].chunk = inbox'[q][j].chunk
               PROVE  o = q /\ i = j
    BY DEF OrdersApart
  <2> DEFINE old(d, k) == IF d = p THEN k + 1 ELSE k
  <2>2. old(o, i) \in DOMAIN inbox[o] /\ inbox'[o][i] = inbox[o][old(o, i)]
    BY <2>1 DEF IsTaken
  <2>3. old(q, j) \in DOMAIN inbox[q] /\ inbox'[q][j] = inbox[q][old(q, j)]
    BY <2>1 DEF IsTaken
  <2>4. o = q /\ old(o, i) = old(q, j)
    <3> HIDE DEF old
    <3> QED
      BY <2>2, <2>3 DEF OrdersApart
  <2>5. o = p => i \in Nat /\ j \in Nat
    BY <2>1, <2>4 DEF IsTaken
  <2> QED
    BY <2>4, <2>5
<1>3. ASSUME NEW p \in Decoders, Proceeds(p) \/ ReceiveOne(p)
      PROVE  OrdersApart'
  <2>1. UNCHANGED inbox
    BY <1>3 DEF Proceeds, ReceiveOne
  <2> QED
    BY <2>1 DEF OrdersApart
<1>4. CASE Loses
  BY <1>4 DEF Loses, OrdersApart, IsCut
<1> QED
  BY <1>1, <1>2, <1>3, <1>4, Cases

(* What the steps that give no work put on the wire.                       *)
LEMMA PieceOut ==
  ASSUME PipelineTypeOK, InHand, NEW p \in Decoders, Proceeds(p)
  PROVE  \/ UNCHANGED wire /\ (GoesOn(p) \/ SendFeedback(p))
         \/ SendsFrame(p) /\ Working(p)
            /\ IsPushed(wire, wire', p, FramePiece(job[p].chunk, frame_number[p] + 1))
         \/ SendDecodedEof(p) /\ Working(p) /\ ~Working(p)'
            /\ IsPushed(wire, wire', p, EofPiece(job[p].chunk, frame_number[p] + 1))
<1>1. CASE SendsFrame(p)
  <2>1. Working(p) /\ ToSink(p, "FRAME", frame_number[p] + 1)
    BY <1>1 DEF SendsFrame
  <2>2. IsPushed(wire, wire', p, FramePiece(job[p].chunk, frame_number[p] + 1))
    BY <2>1, PieceSent DEF FramePiece
  <2> QED
    BY <1>1, <2>1, <2>2
<1>2. CASE SendDecodedEof(p)
  <2>1. Working(p) /\ ToSink(p, "FRAME_EOF", frame_number[p] + 1) /\ ~Working(p)'
    BY <1>2 DEF SendDecodedEof, Working, Goto, PipelineTypeOK
  <2>2. IsPushed(wire, wire', p, EofPiece(job[p].chunk, frame_number[p] + 1))
    BY <2>1, PieceSent DEF EofPiece
  <2> QED
    BY <1>2, <2>1, <2>2
<1>3. CASE GoesOn(p) \/ SendFeedback(p)
  BY <1>3 DEF GoesOn, SendFeedback
<1> QED
  BY <1>1, <1>2, <1>3 DEF Proceeds

(* A new message on the wire is a piece of a chunk in hand.                *)
LEMMA NewOnWire ==
  ASSUME PipelineTypeOK, InHand, NEW p \in Decoders, Proceeds(p),
         NEW o \in Decoders, NEW i \in DOMAIN wire'[o]
  PROVE  \/ i \in DOMAIN wire[o] /\ wire'[o][i] = wire[o][i]
         \/ /\ o = p /\ Working(p) /\ wire'[o][i].chunk = job[p].chunk
            /\ wire'[o][i].desc.f_seq = frame_number[p] + 1
            /\ \/ wire'[o][i].desc.type = "FRAME" /\ SendsFrame(p)
               \/ wire'[o][i].desc.type = "FRAME_EOF" /\ ~Working(p)'
<1>1. ASSUME NEW x, IsPushed(wire, wire', p, x)
      PROVE  \/ i \in DOMAIN wire[o] /\ wire'[o][i] = wire[o][i]
             \/ o = p /\ wire'[o][i] = x
  BY <1>1 DEF IsPushed
<1>2. CASE UNCHANGED wire
  BY <1>2
<1>3. CASE SendsFrame(p) /\ Working(p)
           /\ IsPushed(wire, wire', p, FramePiece(job[p].chunk, frame_number[p] + 1))
  BY <1>1, <1>3 DEF FramePiece
<1>4. CASE Working(p) /\ ~Working(p)'
           /\ IsPushed(wire, wire', p, EofPiece(job[p].chunk, frame_number[p] + 1))
  BY <1>1, <1>4 DEF EofPiece
<1> QED
  BY <1>2, <1>3, <1>4, PieceOut

LEMMA WireTaken ==
  ASSUME PipelineTypeOK, NEW p \in Decoders, ReceiveOne(p)
  PROVE  IsTaken(wire, wire', p)
<1>1. wire \in [Decoders -> Seq(Decoded)] /\ wire[p] # <<>>
      /\ wire' = [wire EXCEPT ![p] = Tail(@)]
  BY DEF PipelineTypeOK, ReceiveOne
<1> QED
  BY <1>1, Taken

---------------------------------------------------------------------------
(* A chunk that waits has left no trace.                                   *)
LEMMA TakenWasPending ==
  ASSUME PipelineInv, NEW p \in Decoders, RecvChunk(p), NEW x, x = inbox[p][1]
  PROVE  /\ x.chunk \in Db /\ Untouched(x.chunk)
         /\ ~Pending(x.chunk)'
<1> USE DEF PipelineInv
<1>0. PipelineTypeOK
  BY DEF PipelineTypes
<1>1. /\ IsTaken(inbox, inbox', p) /\ 1 \in DOMAIN inbox[p] /\ cnt' = cnt
  BY <1>0, RecvEffect
<1>2. x.chunk \in Db /\ x.chunk <= cnt /\ x.chunk \in Nat /\ cnt \in Nat
  BY <1>0, <1>1, CountNumbers DEF Waiting
<1>3. Pending(x.chunk)
  BY <1>1 DEF Pending
<1>4. ASSUME NEW q \in Decoders, NEW i \in DOMAIN inbox'[q], inbox'[q][i].chunk = x.chunk
      PROVE  FALSE
  <2>1. CASE q # p
    <3>1. i \in DOMAIN inbox[q] /\ inbox[q][i].chunk = x.chunk
      BY <1>1, <1>4, <2>1 DEF IsTaken
    <3> QED
      BY <1>1, <2>1, <3>1 DEF OrdersApart
  <2>2. CASE q = p
    <3>1. /\ i \in Nat \ {0} /\ i + 1 \in DOMAIN inbox[p]
          /\ inbox[p][i + 1].chunk = x.chunk
      BY <1>1, <1>4, <2>2 DEF IsTaken
    <3>2. i + 1 = 1
      BY <1>1, <3>1 DEF OrdersApart
    <3> QED
      BY <3>1, <3>2
  <2> QED
    BY <2>1, <2>2
<1>5. ~Pending(x.chunk)'
  BY <1>1, <1>2, <1>4 DEF Pending
<1> QED
  BY <1>2, <1>3, <1>5 DEF PendingInv

LEMMA PendingStep ==
  ASSUME PipelineInv, [PipelineNext]_allvars
  PROVE  PendingInv'
<1> USE DEF PipelineInv
<1>0. PipelineTypeOK /\ InHand
  BY DEF PipelineTypes
<1>1. ASSUME NEW p \in Decoders, Dispatch(p)
      PROVE  PendingInv'
  <2> DEFINE x == [c_seq |-> 0, chunk |-> cnt + 1]
  <2>1. /\ IsPushed(inbox, inbox', p, x) /\ cnt \in Nat /\ cnt' = cnt + 1
        /\ UNCHANGED <<arrived, wire, dec, job, nframes>>
    BY <1>0, <1>1, InboxAfterDispatch DEF Dispatch, decvars, sinkvars
  <2> SUFFICES ASSUME NEW c \in Db, Pending(c)'
               PROVE  Pending(c)
    BY <2>1 DEF PendingInv, Untouched, Working, Db
  <2>2. c \in Nat
    BY <1>0, CountNumbers
  <2>3. CASE c > cnt'
    BY <2>1, <2>2, <2>3 DEF Pending
  <2>4. ASSUME NEW o \in Decoders, NEW i \in DOMAIN inbox'[o], inbox'[o][i].chunk = c
        PROVE  Pending(c)
    <3>1. CASE i \in DOMAIN inbox[o] /\ inbox'[o][i] = inbox[o][i]
      BY <2>4, <3>1 DEF Pending
    <3>2. CASE inbox'[o][i] = x
      BY <2>1, <2>2, <2>4, <3>2 DEF Pending
    <3> QED
      BY <2>1, <3>1, <3>2 DEF IsPushed
  <2> QED
    BY <2>3, <2>4 DEF Pending
<1>2. ASSUME NEW p \in Decoders, RecvChunk(p)
      PROVE  PendingInv'
  <2> PICK x : x = inbox[p][1]
    OBVIOUS
  <2>1. /\ IsTaken(inbox, inbox', p) /\ job'[p] = x
        /\ \A o \in Decoders \ {p} : job'[o] = job[o] /\ Working(o)' = Working(o)
        /\ UNCHANGED <<cnt, arrived, wire, nframes>>
    BY <1>0, <1>2, RecvEffect
  <2>2. ~Pending(x.chunk)'
    BY <1>2, TakenWasPending
  <2> SUFFICES ASSUME NEW c \in Db, Pending(c)'
               PROVE  Untouched(c)'
    BY <2>1 DEF PendingInv, Db
  <2>3. Pending(c)
    BY <2>1 DEF Pending, IsTaken
  <2>4. Untouched(c) /\ c # x.chunk
    BY <2>2, <2>3 DEF PendingInv
  <2> QED
    BY <2>1, <2>4 DEF Untouched
<1>3. ASSUME NEW p \in Decoders, Proceeds(p)
      PROVE  PendingInv'
  <2>1. UNCHANGED <<inbox, cnt, arrived, nframes>>
    BY <1>3 DEF Proceeds, srcvars, sinkvars
  <2> SUFFICES ASSUME NEW c \in Db, Pending(c), NEW o \in Decoders
               PROVE  /\ ~(Working(o) /\ job[o].chunk = c)'
                      /\ \A i \in DOMAIN wire'[o] : wire'[o][i].chunk # c
                      /\ c \notin arrived
    BY <2>1 DEF PendingInv, Pending, Untouched, Db
  <2>2. Untouched(c)
    BY DEF PendingInv
  <2>3. ~(Working(o) /\ job[o].chunk = c)'
    BY <1>0, <1>3, <2>2, NoNewWork DEF Untouched
  <2>4. ASSUME NEW i \in DOMAIN wire'[o], wire'[o][i].chunk = c
        PROVE  FALSE
    BY <1>0, <1>3, <2>2, <2>4, NewOnWire DEF Untouched
  <2> QED
    BY <2>2, <2>3, <2>4 DEF Untouched
<1>4. ASSUME NEW p \in Decoders, ReceiveOne(p)
      PROVE  PendingInv'
  <2> DEFINE m == wire[p][1]
  <2>1. /\ UNCHANGED <<inbox, cnt, dec, job, nframes>> /\ IsTaken(wire, wire', p)
        /\ 1 \in DOMAIN wire[p]
    BY <1>0, <1>4, WireTaken DEF ReceiveOne, srcvars, decvars, IsTaken
  <2> SUFFICES ASSUME NEW c \in Db, Pending(c)
               PROVE  /\ c \notin arrived'
                      /\ \A o \in Decoders : \A i \in DOMAIN wire'[o] : wire'[o][i].chunk # c
    BY <2>1 DEF PendingInv, Pending, Untouched, Working, Db
  <2>2. Untouched(c) /\ m.chunk # c
    BY <2>1 DEF PendingInv, Untouched
  <2>3. c \notin arrived'
    BY <1>0, <1>4, <2>2, GotStep DEF Untouched
  <2>4. ASSUME NEW o \in Decoders, NEW i \in DOMAIN wire'[o]
        PROVE  wire'[o][i].chunk # c
    <3>1. PICK j \in DOMAIN wire[o] : wire'[o][i] = wire[o][j]
      BY <2>1 DEF IsTaken
    <3> QED
      BY <2>2, <3>1 DEF Untouched
  <2> QED
    BY <2>3, <2>4
<1>5. CASE Loses
  BY <1>5 DEF Loses, PendingInv, Pending, Untouched, Working, IsCut, Db
<1> QED
  BY <1>0, <1>1, <1>2, <1>3, <1>4, <1>5, Cases

---------------------------------------------------------------------------
(* A chunk in hand is in one hand.                                         *)
LEMMA WorkRecv ==
  ASSUME PipelineInv, NEW p \in Decoders, RecvChunk(p)
  PROVE  WorkInv'
<1> USE DEF PipelineInv
<1>0. PipelineTypeOK
  BY DEF PipelineTypes
<1> DEFINE x == inbox[p][1]
<1>1. /\ \A o \in Decoders \ {p} : /\ job'[o] = job[o] /\ frame_number'[o] = frame_number[o]
                                   /\ Working(o)' = Working(o)
      /\ job'[p] = x /\ frame_number'[p] = 0
      /\ UNCHANGED <<wire, frames, eof_f, arrived>>
  BY <1>0, RecvEffect
<1>2. Untouched(x.chunk) /\ Got(x.chunk) = {} /\ ~Ended(x.chunk)
  BY TakenWasPending DEF Untouched, Got, Ended
<1> SUFFICES ASSUME NEW o \in Decoders, Working(o)', NEW c, c = job'[o].chunk
             PROVE  SoleWorker(o, c)'
  BY DEF WorkInv
<1>3. Got(c)' = Got(c) /\ Ended(c)' = Ended(c)
  BY <1>1 DEF Got, Ended
<1>4. CASE o = p
  BY <1>1, <1>2, <1>3, <1>4 DEF SoleWorker, Untouched
<1>5. CASE o # p
  <2>1. Working(o) /\ SoleWorker(o, c) /\ job[o].chunk = c
    BY <1>1, <1>5 DEF WorkInv
  <2>2. c # x.chunk
    BY <1>2, <2>1 DEF Untouched
  <2>3. \A q \in Decoders \ {o} : ~(Working(q) /\ job[q].chunk = c)'
    BY <1>1, <1>5, <2>1, <2>2 DEF SoleWorker
  <2> QED
    BY <1>1, <1>3, <1>5, <2>1, <2>3 DEF SoleWorker
<1> QED
  BY <1>4, <1>5

(* The frame numbers that the manager has are numbers.                     *)
LEMMA GotNumbers ==
  ASSUME PipelineTypeOK, NEW c
  PROVE  \A g \in Got(c) : g \in Nat
<1>1. 0 \in ChunkSeq /\ frames \in [ChunkSeq -> SUBSET FrameSeq]
  BY PipelineAssumption DEF PipelineTypeOK, TypeOK
<1> QED
  BY <1>1, SeqAssumption DEF Got

LEMMA WorkProceeds ==
  ASSUME PipelineInv, NEW p \in Decoders, Proceeds(p)
  PROVE  WorkInv'
<1> USE DEF PipelineInv
<1>0. PipelineTypeOK
  BY DEF PipelineTypes
<1>1. UNCHANGED <<frames, eof_f, arrived>>
  BY DEF Proceeds, vars, sinkvars
<1> SUFFICES ASSUME NEW o \in Decoders, Working(o)', NEW c, c = job'[o].chunk
             PROVE  SoleWorker(o, c)'
  BY DEF WorkInv
<1>2. /\ Working(o) /\ job[o].chunk = c
      /\ \/ frame_number'[o] = frame_number[o]
         \/ o = p /\ frame_number'[o] = frame_number[o] + 1
  BY <1>0, NoNewWork
<1>3. SoleWorker(o, c)
  BY <1>2 DEF WorkInv
<1>4. /\ frame_number[o] \in Nat /\ frame_number[o] <= frame_number'[o]
      /\ frame_number'[o] \in Nat
  BY <1>0, <1>2, JobInHand
<1>5. Got(c)' = Got(c) /\ Ended(c)' = Ended(c)
  BY <1>1 DEF Got, Ended
<1>6. \A g \in Got(c) : g <= frame_number'[o]
  <2>1. \A g \in Got(c) : g \in Nat /\ g <= frame_number[o]
    BY <1>0, <1>3, GotNumbers DEF SoleWorker
  <2> QED
    BY <1>4, <2>1
<1>7. ASSUME NEW i \in DOMAIN wire'[o], wire'[o][i].chunk = c
      PROVE  wire'[o][i].desc.type = "FRAME" /\ wire'[o][i].desc.f_seq <= frame_number'[o]
  <2>1. CASE i \in DOMAIN wire[o] /\ wire'[o][i] = wire[o][i]
    <3>1. wire[o][i].desc.type = "FRAME" /\ wire[o][i].desc.f_seq <= frame_number[o]
      BY <1>3, <1>7, <2>1 DEF SoleWorker
    <3>2. wire[o][i].desc.f_seq \in Nat
      BY <1>0, <2>1, WireNumbers
    <3> QED
      BY <1>4, <2>1, <3>1, <3>2
  <2>2. CASE /\ o = p /\ wire'[o][i].desc.type = "FRAME"
             /\ wire'[o][i].desc.f_seq = frame_number[p] + 1 /\ SendsFrame(p)
    <3>1. frame_number'[p] = frame_number[p] + 1
      BY <1>0, <2>2 DEF SendsFrame, PipelineTypeOK
    <3> QED
      BY <1>4, <2>2, <3>1
  <2> QED
    BY <1>0, <2>1, <2>2, NewOnWire
<1>8. ASSUME NEW q \in Decoders \ {o}
      PROVE  /\ ~(Working(q)' /\ job'[q].chunk = c)
             /\ \A i \in DOMAIN wire'[q] : wire'[q][i].chunk # c
  <2>1. ~(Working(q) /\ job[q].chunk = c)
    BY <1>3 DEF SoleWorker
  <2>2. ~(Working(q)' /\ job'[q].chunk = c)
    BY <1>0, <2>1, NoNewWork
  <2>3. ASSUME NEW i \in DOMAIN wire'[q], wire'[q][i].chunk = c
        PROVE  FALSE
    BY <1>0, <1>3, <2>1, <2>3, NewOnWire DEF SoleWorker
  <2> QED
    BY <2>2, <2>3
<1> QED
  BY <1>3, <1>5, <1>6, <1>7, <1>8 DEF SoleWorker

LEMMA WorkReceive ==
  ASSUME PipelineInv, NEW p \in Decoders, ReceiveOne(p)
  PROVE  WorkInv'
<1> USE DEF PipelineInv
<1>0. PipelineTypeOK
  BY DEF PipelineTypes
<1> DEFINE m == wire[p][1]
<1>1. /\ UNCHANGED <<dec, job, frame_number>> /\ IsTaken(wire, wire', p)
      /\ 1 \in DOMAIN wire[p]
  BY <1>0, WireTaken DEF ReceiveOne, decvars, IsTaken
<1> SUFFICES ASSUME NEW o \in Decoders, Working(o), NEW c, c = job[o].chunk
             PROVE  SoleWorker(o, c)'
  BY <1>1 DEF WorkInv, Working
<1>2. SoleWorker(o, c)
  BY DEF WorkInv
<1>3. m.chunk = c => m.desc.type = "FRAME" /\ m.desc.f_seq <= frame_number[o]
  BY <1>1, <1>2 DEF SoleWorker
<1>4. ~Ended(c)' /\ \A g \in Got(c)' : g <= frame_number[o]
  BY <1>0, <1>2, <1>3, GotStep DEF SoleWorker
<1>5. \A q \in Decoders : \A i \in DOMAIN wire'[q] :
        \E j \in DOMAIN wire[q] : wire'[q][i] = wire[q][j]
  BY <1>1 DEF IsTaken
<1>6. ASSUME NEW i \in DOMAIN wire'[o], wire'[o][i].chunk = c
      PROVE  wire'[o][i].desc.type = "FRAME" /\ wire'[o][i].desc.f_seq <= frame_number[o]
  <2>1. PICK j \in DOMAIN wire[o] : wire'[o][i] = wire[o][j]
    BY <1>5
  <2> QED
    BY <1>2, <1>6, <2>1 DEF SoleWorker
<1>7. ASSUME NEW q \in Decoders \ {o}, NEW i \in DOMAIN wire'[q]
      PROVE  wire'[q][i].chunk # c
  <2>1. PICK j \in DOMAIN wire[q] : wire'[q][i] = wire[q][j]
    BY <1>5
  <2> QED
    BY <1>2, <2>1 DEF SoleWorker
<1> QED
  BY <1>1, <1>2, <1>4, <1>6, <1>7 DEF SoleWorker, Working

LEMMA WorkStep ==
  ASSUME PipelineInv, [PipelineNext]_allvars
  PROVE  WorkInv'
<1> USE DEF PipelineInv
<1>1. ASSUME NEW p \in Decoders, Dispatch(p)
      PROVE  WorkInv'
  BY <1>1 DEF Dispatch, WorkInv, SoleWorker, Working, Got, Ended, vars, decvars, sinkvars
<1>2. CASE Loses
  <2>1. \A c : Got(c)' = Got(c) /\ Ended(c)' = Ended(c)
    BY <1>2 DEF Loses, Got, Ended
  <2>2. /\ UNCHANGED <<job, frame_number>>
        /\ \A o \in Decoders : Working(o)' => Working(o)
    BY <1>2 DEF Loses, Working
  <2>3. IsCut(wire, wire')
    BY <1>2 DEF Loses
  <2> QED
    BY <2>1, <2>2, <2>3 DEF WorkInv, SoleWorker, IsCut
<1>3. PipelineTypeOK
  BY DEF PipelineTypes
<1> QED
  BY <1>1, <1>2, <1>3, WorkRecv, WorkProceeds, WorkReceive, Cases

---------------------------------------------------------------------------
(* The pieces of a chunk are in order and on one wire.                     *)
LEMMA WirePushes ==
  ASSUME PipelineInv, NEW p \in Decoders, Proceeds(p)
  PROVE  WireInv'
<1> USE DEF PipelineInv
<1>0. PipelineTypeOK
  BY DEF PipelineTypes
<1>1. UNCHANGED <<frames, eof_f, arrived, nframes>>
  BY DEF Proceeds, vars, sinkvars, srcvars
<1>2. \A c : Got(c)' = Got(c) /\ Ended(c)' = Ended(c)
  BY <1>1 DEF Got, Ended
<1>3. Working(p) =>
        /\ job[p].chunk \in Db /\ frame_number[p] \in Nat
        /\ SoleWorker(p, job[p].chunk)
  BY <1>0, JobInHand DEF WorkInv
<1> PICK n : n = Len(wire[p]) + 1
  OBVIOUS
<1>4. \A o \in Decoders : \A i \in DOMAIN wire[o] : i \in Nat /\ (o = p => i < n)
  <2>1. ASSUME NEW o \in Decoders, NEW i \in DOMAIN wire[o]
        PROVE  i \in 1 .. Len(wire[o]) /\ Len(wire[o]) \in Nat
    BY <1>0 DEF PipelineTypeOK
  <2> QED
    BY <2>1
<1>5. \A o \in Decoders : \A i \in DOMAIN wire'[o] :
        \/ i \in DOMAIN wire[o] /\ wire'[o][i] = wire[o][i]
        \/ /\ o = p /\ i = n /\ Working(p) /\ wire'[o][i].chunk = job[p].chunk
           /\ wire'[o][i].desc.f_seq = frame_number[p] + 1
  <2>1. ASSUME NEW x, IsPushed(wire, wire', p, x), NEW o \in Decoders,
               NEW i \in DOMAIN wire'[o]
        PROVE  \/ i \in DOMAIN wire[o] /\ wire'[o][i] = wire[o][i]
               \/ o = p /\ i = n
    BY <2>1 DEF IsPushed
  <2>2. UNCHANGED wire \/ \E x : IsPushed(wire, wire', p, x)
    BY <1>0, PieceOut
  <2> QED
    BY <1>0, <2>1, <2>2, NewOnWire
<1> SUFFICES ASSUME NEW o \in Decoders, NEW i \in DOMAIN wire'[o],
                    NEW c, c = wire'[o][i].chunk, NEW f, f = wire'[o][i].desc.f_seq
             PROVE  InOrderAt(o, i, c, f)'
  BY DEF WireInv
<1>6. CASE i \in DOMAIN wire[o] /\ wire'[o][i] = wire[o][i]
  <2>1. InOrderAt(o, i, c, f)
    BY <1>6 DEF WireInv
  <2>2. ASSUME NEW j \in DOMAIN wire'[o], j < i, wire'[o][j].chunk = c
        PROVE  wire'[o][j].desc.type = "FRAME" /\ wire'[o][j].desc.f_seq < f
    <3>1. ~(o = p /\ j = n)
      <4> SUFFICES ASSUME o = p, j = n PROVE FALSE
        OBVIOUS
      <4>1. n \in Nat /\ i \in Nat /\ i < n
        BY <1>0, <1>4, <1>6 DEF PipelineTypeOK
      <4> QED
        BY <2>2, <4>1
    <3>2. j \in DOMAIN wire[o] /\ wire'[o][j] = wire[o][j]
      BY <1>5, <3>1
    <3> QED
      BY <2>1, <2>2, <3>2 DEF InOrderAt
  <2>3. ASSUME NEW q \in Decoders \ {o}, NEW j \in DOMAIN wire'[q], wire'[q][j].chunk = c
        PROVE  FALSE
    <3>1. CASE j \in DOMAIN wire[q] /\ wire'[q][j] = wire[q][j]
      BY <2>1, <2>3, <3>1 DEF InOrderAt
    <3>2. CASE q = p /\ Working(p) /\ wire'[q][j].chunk = job[p].chunk
      BY <1>3, <1>6, <2>3, <3>2 DEF SoleWorker
    <3> QED
      BY <1>5, <3>1, <3>2
  <2> QED
    BY <1>1, <1>2, <2>1, <2>2, <2>3 DEF InOrderAt, Db
<1>7. CASE /\ o = p /\ i = n /\ Working(p) /\ c = job[p].chunk
           /\ f = frame_number[p] + 1
  <2>1. SoleWorker(p, c) /\ c \in Db /\ frame_number[p] \in Nat /\ f >= 1
    BY <1>3, <1>7
  <2>2. \A g \in Got(c) : g < f
    <3>1. \A g \in Got(c) : g \in Nat /\ g <= frame_number[p]
      BY <1>0, <2>1, GotNumbers DEF SoleWorker
    <3> QED
      BY <1>7, <2>1, <3>1
  <2>3. ASSUME NEW j \in DOMAIN wire'[p], j < i, wire'[p][j].chunk = c
        PROVE  wire'[p][j].desc.type = "FRAME" /\ wire'[p][j].desc.f_seq < f
    <3>0. j # i
      <4>1. n \in Nat
        BY <1>0 DEF PipelineTypeOK
      <4> QED
        BY <1>7, <2>3, <4>1
    <3>1. j \in DOMAIN wire[p] /\ wire'[p][j] = wire[p][j]
      BY <1>5, <1>7, <3>0
    <3>2. wire[p][j].desc.type = "FRAME" /\ wire[p][j].desc.f_seq <= frame_number[p]
      BY <2>1, <2>3, <3>1 DEF SoleWorker
    <3>3. wire[p][j].desc.f_seq \in Nat
      BY <1>0, <3>1, WireNumbers
    <3> QED
      BY <1>7, <2>1, <3>1, <3>2, <3>3
  <2>4. ASSUME NEW q \in Decoders \ {p}, NEW j \in DOMAIN wire'[q]
        PROVE  wire'[q][j].chunk # c
    BY <1>5, <2>1 DEF SoleWorker
  <2> QED
    BY <1>1, <1>2, <1>7, <2>1, <2>2, <2>3, <2>4 DEF InOrderAt, SoleWorker, Db
<1> QED
  BY <1>5, <1>6, <1>7

LEMMA WireReceive ==
  ASSUME PipelineInv, NEW p \in Decoders, ReceiveOne(p)
  PROVE  WireInv'
<1> USE DEF PipelineInv
<1>0. PipelineTypeOK
  BY DEF PipelineTypes
<1> DEFINE d == wire[p][1]
<1>1. IsTaken(wire, wire', p) /\ 1 \in DOMAIN wire[p] /\ nframes' = nframes
  BY <1>0, WireTaken DEF ReceiveOne, IsTaken, srcvars
<1> DEFINE old(o, i) == IF o = p THEN i + 1 ELSE i
<1>2. \A o \in Decoders : \A i \in DOMAIN wire'[o] :
        /\ old(o, i) \in DOMAIN wire[o] /\ wire'[o][i] = wire[o][old(o, i)]
        /\ o = p => i \in Nat \ {0} /\ old(o, i) > 1
  BY <1>1 DEF IsTaken
<1> SUFFICES ASSUME NEW o \in Decoders, NEW i \in DOMAIN wire'[o],
                    NEW c, c = wire'[o][i].chunk, NEW f, f = wire'[o][i].desc.f_seq
             PROVE  InOrderAt(o, i, c, f)'
  BY DEF WireInv
<1> PICK k : k = old(o, i)
  OBVIOUS
<1>3. k \in DOMAIN wire[o] /\ wire'[o][i] = wire[o][k] /\ InOrderAt(o, k, c, f)
  <2> HIDE DEF old
  <2> QED
    BY <1>2 DEF WireInv
<1>4. d.chunk = c => d.desc.type = "FRAME" /\ d.desc.f_seq < f
  <2>1. CASE o = p
    <3>1. 1 < k /\ k \in Nat
      BY <1>2, <2>1
    <3> QED
      BY <1>1, <1>3, <2>1, <3>1 DEF InOrderAt
  <2>2. CASE o # p
    BY <1>1, <1>3, <2>2 DEF InOrderAt
  <2> QED
    BY <2>1, <2>2
<1>5. ~Ended(c)' /\ \A g \in Got(c)' : g < f
  BY <1>0, <1>3, <1>4, GotStep DEF InOrderAt
<1>6. ASSUME NEW j \in DOMAIN wire'[o], j < i, wire'[o][j].chunk = c
      PROVE  wire'[o][j].desc.type = "FRAME" /\ wire'[o][j].desc.f_seq < f
  <2>1. old(o, j) \in DOMAIN wire[o] /\ wire'[o][j] = wire[o][old(o, j)]
    BY <1>2
  <2>2. old(o, j) < k
    BY <1>2, <1>6
  <2> HIDE DEF old
  <2> QED
    BY <1>3, <1>6, <2>1, <2>2 DEF InOrderAt
<1>7. ASSUME NEW q \in Decoders \ {o}, NEW j \in DOMAIN wire'[q]
      PROVE  wire'[q][j].chunk # c
  <2>1. old(q, j) \in DOMAIN wire[q] /\ wire'[q][j] = wire[q][old(q, j)]
    BY <1>2
  <2> HIDE DEF old
  <2> QED
    BY <1>3, <2>1 DEF InOrderAt
<1> HIDE DEF old
<1> QED
  BY <1>1, <1>3, <1>5, <1>6, <1>7 DEF InOrderAt, Db

LEMMA WireStep ==
  ASSUME PipelineInv, [PipelineNext]_allvars
  PROVE  WireInv'
<1> USE DEF PipelineInv
<1>0. PipelineTypeOK
  BY DEF PipelineTypes
<1>1. ASSUME NEW p \in Decoders, Dispatch(p)
      PROVE  WireInv'
  BY <1>1 DEF Dispatch, WireInv, InOrderAt, Got, Ended, Db, vars, sinkvars
<1>2. ASSUME NEW p \in Decoders, RecvChunk(p)
      PROVE  WireInv'
  BY <1>2 DEF RecvChunk, WireInv, InOrderAt, Got, Ended, Db, vars, sinkvars, srcvars
<1>3. CASE Loses
  <2>1. (\A c : Got(c)' = Got(c) /\ Ended(c)' = Ended(c)) /\ IsCut(wire, wire') /\ Db' = Db
    BY <1>3 DEF Loses, Got, Ended, Db
  <2> QED
    BY <2>1 DEF WireInv, InOrderAt, IsCut
<1> QED
  BY <1>0, <1>1, <1>2, <1>3, WirePushes, WireReceive, Cases

---------------------------------------------------------------------------
(* The manager stays at the start.                                         *)
LEMMA SinkInvStep ==
  ASSUME PipelineInv, [PipelineNext]_allvars
  PROVE  SinkInv'
<1> USE DEF PipelineInv
<1>0. PipelineTypeOK
  BY DEF PipelineTypes
<1>1. ASSUME NEW p \in Decoders, ReceiveOne(p)
      PROVE  SinkInv'
  <2> DEFINE m == wire[p][1]
  <2>1. m.desc.f_seq \in Nat /\ m.desc.f_seq # 0
    <3>1. 1 \in DOMAIN wire[p]
      BY <1>0, <1>1, WireTaken DEF IsTaken
    <3> QED
      BY <1>0, <3>1, WireNumbers DEF WireInv, InOrderAt
  <2>2. UNCHANGED <<eof_c, wm_chunk, wm_frame, revealed>>
    BY <1>0, <1>1, ReceiveEffect
  <2>3. CASE UNCHANGED <<chunks, frames, eof_f, arrived>>
    BY <2>2, <2>3 DEF SinkInv
  <2>4. CASE /\ arrived' = arrived \cup {m.chunk} /\ chunks' = {0}
             /\ \/ eof_f'[0] = eof_f[0] /\ frames'[0] = frames[0] \cup {m.desc.f_seq}
                \/ eof_f'[0] = m.desc.f_seq /\ frames'[0] = frames[0]
    <3>1. arrived' # {}
      BY <2>4
    <3> QED
      BY <2>1, <2>2, <2>4, <3>1 DEF SinkInv
  <2> QED
    BY <1>0, <1>1, <2>3, <2>4, ReceiveEffect
<1>2. ASSUME NEW p \in Decoders, Dispatch(p) \/ RecvChunk(p) \/ Proceeds(p)
      PROVE  SinkInv'
  BY <1>2 DEF Dispatch, RecvChunk, Proceeds, SinkInv, vars, sinkvars
<1>3. CASE Loses
  BY <1>3 DEF Loses, SinkInv
<1> QED
  BY <1>0, <1>1, <1>2, <1>3, Cases

---------------------------------------------------------------------------
(* No frame is missing, and the chunks stay apart.                         *)
LEMMA FailureStays ==
  ASSUME PipelineTypeOK, SinkInv, [PipelineNext]_allvars
  PROVE  failed => failed'
<1>1. ASSUME NEW p \in Decoders, Dispatch(p) \/ ReceiveOne(p)
      PROVE  failed => failed'
  BY <1>1 DEF Dispatch, ReceiveOne, decvars
<1>2. ASSUME NEW p \in Decoders, RecvChunk(p)
      PROVE  failed => failed'
  BY <1>2, RecvEffect
<1>3. ASSUME NEW p \in Decoders, Proceeds(p)
      PROVE  failed => failed'
  BY <1>3 DEF Proceeds, SendsFrame, GoesOn, SendDecodedEof, SendFeedback
<1>4. CASE Loses
  BY <1>4 DEF Loses
<1> QED
  BY <1>1, <1>2, <1>3, <1>4, Cases

(* The head of a wire has no gap before it.                                *)
LEMMA HeadFull ==
  ASSUME PipelineInv, NEW p \in Decoders, 1 \in DOMAIN wire[p], ~failed, proc = "up",
         NEW c, c = wire[p][1].chunk, NEW f, f = wire[p][1].desc.f_seq
  PROVE  /\ f \in Nat /\ f >= 1 /\ c \in Db
         /\ \A g \in 1 .. f - 1 : g \in Got(c)
         /\ \A g \in Got(c) : g < f
         /\ ~Ended(c)
         /\ wire[p][1].desc.type = "FRAME_EOF" => f = nframes[c] + 1
<1> USE DEF PipelineInv
<1>0. PipelineTypeOK
  BY DEF PipelineTypes
<1>1. InOrderAt(p, 1, c, f) /\ WireFull(p, 1) /\ f \in Nat
  BY <1>0, WireNumbers DEF WireInv, NoGaps
<1>2. \A j \in DOMAIN wire[p] : ~(j < 1)
  BY <1>0, WireNumbers
<1>3. \A g \in 1 .. f - 1 : g \in Got(c)
  BY <1>1, <1>2 DEF WireFull, Before
<1> QED
  BY <1>1, <1>3 DEF InOrderAt, WireFull

(* As long as nothing has failed, a piece that the manager takes is one    *)
(* of the chunk it has begun: a first piece of another has number 1.       *)
LEMMA SoundReceive ==
  ASSUME PipelineInv, NEW p \in Decoders, ReceiveOne(p), ~failed, proc' # "dead",
         NEW m, m = wire[p][1]
  PROVE  arrived \subseteq {m.chunk} /\ arrived' = {m.chunk}
<1> USE DEF PipelineInv
<1>0. PipelineTypeOK
  BY DEF PipelineTypes
<1>1. /\ 1 \in DOMAIN wire[p] /\ proc = "up" /\ arrived' = arrived \cup {m.chunk}
      /\ 0 \in chunks => \/ m.desc.type = "FRAME" /\ m.desc.f_seq \notin frames[0]
                         \/ \A g \in frames[0] : g < m.desc.f_seq
  BY <1>0, ReceiveEffect
<1>2. ASSUME arrived # {}, arrived # {m.chunk}
      PROVE  FALSE
  <2>1. 1 \in frames[0] /\ 0 \in chunks
    BY <1>2 DEF OneChunk, SinkInv
  <2>2. Got(m.chunk) = {}
    BY <1>2 DEF Got
  <2>3. m.desc.f_seq \in Nat /\ m.desc.f_seq >= 1 /\ \A g \in 1 .. m.desc.f_seq - 1 : FALSE
    BY <1>1, <2>2, HeadFull
  <2>4. m.desc.f_seq = 1
    BY <2>3
  <2> QED
    BY <1>1, <2>1, <2>4
<1> QED
  BY <1>1, <1>2

LEMMA OneChunkStep ==
  ASSUME PipelineInv, [PipelineNext]_allvars
  PROVE  OneChunk'
<1> USE DEF PipelineInv
<1>0. PipelineTypeOK
  BY DEF PipelineTypes
<1> SUFFICES ASSUME ~failed', ~failed PROVE OneChunk'
  BY <1>0, FailureStays DEF OneChunk
<1>1. ASSUME NEW p \in Decoders, ReceiveOne(p)
      PROVE  OneChunk'
  <2> PICK m : m = wire[p][1]
    OBVIOUS
  <2> PICK c : c = m.chunk
    OBVIOUS
  <2>1. nframes' = nframes /\ Db' = Db
    BY <1>1 DEF ReceiveOne, srcvars, Db
  <2>2. CASE proc' = "dead"
    <3>1. UNCHANGED <<frames, eof_f, arrived>>
      BY <1>0, <1>1, <2>2, ReceiveEffect
    <3> QED
      BY <2>1, <3>1 DEF OneChunk
  <2>3. CASE proc' # "dead"
    <3>1. arrived \subseteq {c} /\ arrived' = {c}
      BY <1>1, <2>3, SoundReceive
    <3>2. 1 \in DOMAIN wire[p] /\ proc = "up"
      BY <1>0, <1>1, ReceiveEffect
    <3>3. /\ m.desc.f_seq \in Nat /\ m.desc.f_seq >= 1 /\ c \in Db
          /\ \A g \in 1 .. m.desc.f_seq - 1 : g \in Got(c)
          /\ \A g \in Got(c) : g < m.desc.f_seq
          /\ ~Ended(c)
          /\ m.desc.type = "FRAME_EOF" => m.desc.f_seq = nframes[c] + 1
      BY <3>2, HeadFull
    <3>4. arrived = {} => eof_f[0] = Unset /\ Got(c) = {}
      BY PipelineAssumption DEF SinkInv, RxInv, ErasedIsClean, Got
    <3>5. nframes[c] \in Nat
      BY <1>0, <3>3, CountNumbers
    <3>6. CASE /\ m.desc.type = "FRAME" /\ eof_f'[0] = eof_f[0]
               /\ frames'[0] = frames[0] \cup {m.desc.f_seq}
      <4>1. eof_f[0] = Unset
        BY <3>1, <3>3, <3>4 DEF Ended
      <4>2. 1 \in frames'[0]
        <5>1. CASE arrived = {}
          <6>1. \A g \in 1 .. m.desc.f_seq - 1 : FALSE
            BY <3>3, <3>4, <5>1
          <6>2. m.desc.f_seq = 1
            BY <3>3, <6>1
          <6> QED
            BY <3>6, <6>2
        <5>2. CASE arrived # {}
          BY <3>6, <5>2 DEF OneChunk
        <5> QED
          BY <5>1, <5>2
      <4> QED
        BY <2>1, <3>1, <3>3, <3>6, <4>1, <4>2 DEF OneChunk
    <3>7. CASE /\ m.desc.type = "FRAME_EOF" /\ eof_f'[0] = m.desc.f_seq
               /\ frames'[0] = frames[0] /\ chunks = {0}
      <4>1. arrived = {c} /\ 1 \in frames[0]
        BY <3>1, <3>7 DEF SinkInv, OneChunk
      <4>2. Got(c) = frames[0]
        BY <4>1 DEF Got
      <4>3. \A g \in Got(c) : g \in Nat /\ g # 0
        BY <1>0, <4>2, GotNumbers DEF SinkInv
      <4>4. \A g \in Got(c) : g \in 1..nframes[c]
        BY <3>3, <3>5, <3>7, <4>3
      <4>5. \A g \in 1..nframes[c] : g \in Got(c)
        BY <3>3, <3>5, <3>7
      <4>6. Got(c) = 1..nframes[c]
        BY <4>4, <4>5
      <4>7. frames'[0] = 1..nframes[c] /\ eof_f'[0] = nframes[c] + 1
        BY <3>3, <3>7, <4>2, <4>6
      <4> QED
        BY <2>1, <3>1, <3>3, <3>7, <4>1, <4>7 DEF OneChunk
    <3> QED
      BY <1>0, <1>1, <2>3, <3>6, <3>7, ReceiveEffect
  <2> QED
    BY <2>2, <2>3
<1>2. ASSUME NEW p \in Decoders, Dispatch(p) \/ RecvChunk(p) \/ Proceeds(p)
      PROVE  OneChunk'
  <2>1. UNCHANGED <<frames, eof_f, arrived, nframes>>
    BY <1>2 DEF Dispatch, RecvChunk, Proceeds, vars, srcvars, sinkvars
  <2> QED
    BY <2>1 DEF OneChunk, Db
<1>3. CASE Loses
  BY <1>3 DEF Loses, OneChunk, Db
<1> QED
  BY <1>0, <1>1, <1>2, <1>3, Cases

LEMMA BeforePush ==
  ASSUME PipelineTypeOK, NEW p \in Decoders, NEW x, IsPushed(wire, wire', p, x),
         UNCHANGED <<frames, arrived>>,
         NEW o \in Decoders, NEW k \in Int, NEW l \in Int, k <= l, NEW c, NEW g,
         Before(o, k, c, g)
  PROVE  Before(o, l, c, g)'
<1>1. CASE g \in Got(c)
  BY <1>1 DEF Before, Got
<1>2. ASSUME NEW j \in DOMAIN wire[o], j < k, wire[o][j] = FramePiece(c, g)
      PROVE  Before(o, l, c, g)'
  <2>1. j < l
    BY <1>2, WireNumbers
  <2>2. j \in DOMAIN wire'[o] /\ wire'[o][j] = FramePiece(c, g)
    BY <1>2 DEF IsPushed
  <2> QED
    BY <2>1, <2>2 DEF Before, FramePiece
<1> QED
  BY <1>1, <1>2 DEF Before

LEMMA BeforeTake ==
  ASSUME PipelineInv, NEW p \in Decoders, ReceiveOne(p), ~failed, proc' # "dead",
         NEW o \in Decoders, NEW k \in Nat, NEW c, NEW g, Before(o, k, c, g)
  PROVE  Before(o, IF o = p THEN k - 1 ELSE k, c, g)'
<1> USE DEF PipelineInv
<1>0. PipelineTypeOK
  BY DEF PipelineTypes
<1> PICK d : d = wire[p][1]
  OBVIOUS
<1>1. /\ arrived \subseteq {d.chunk} /\ arrived' = {d.chunk}
      /\ frames[0] \subseteq frames'[0]
      /\ d.desc.type = "FRAME" => d.desc.f_seq \in frames'[0]
  BY <1>0, SoundReceive, ReceiveEffect
<1>2. IsTaken(wire, wire', p)
  BY <1>0, WireTaken
<1>3. CASE g \in Got(c)
  BY <1>1, <1>3 DEF Before, Got
<1>4. ASSUME NEW j \in DOMAIN wire[o], j < k, wire[o][j] = FramePiece(c, g)
      PROVE  Before(o, IF o = p THEN k - 1 ELSE k, c, g)'
  <2>1. CASE o # p
    BY <1>2, <1>4, <2>1 DEF Before, IsTaken, FramePiece
  <2>2. CASE o = p /\ j = 1
    <3>1. d.desc.type = "FRAME" /\ d.chunk = c /\ d.desc.f_seq = g
      BY <1>4, <2>2 DEF FramePiece
    <3>2. g \in Got(c)'
      BY <1>1, <3>1 DEF Got
    <3> QED
      BY <3>2 DEF Before
  <2>3. CASE o = p /\ j # 1
    <3>1. j \in Nat /\ j - 1 \in DOMAIN wire'[p] /\ wire'[p][j - 1] = wire[p][j]
      BY <1>2, <1>4, <2>3 DEF IsTaken
    <3>2. j - 1 < k - 1
      BY <1>4, <3>1
    <3> QED
      BY <1>4, <2>3, <3>1, <3>2 DEF Before, FramePiece
  <2> QED
    BY <2>1, <2>2, <2>3
<1> QED
  BY <1>3, <1>4 DEF Before

LEMMA GapsRecv ==
  ASSUME PipelineInv, NEW p \in Decoders, RecvChunk(p), ~failed, ~failed', proc' = "up"
  PROVE  NoGaps'
<1> USE DEF PipelineInv
<1>0. PipelineTypeOK
  BY DEF PipelineTypes
<1>1. UNCHANGED <<wire, frames, arrived, nframes>> /\ proc = "up"
  BY <1>0, RecvEffect
<1>2. ASSUME NEW o \in Decoders, Working(o)'
      PROVE  HandFull(o)'
  <2>1. CASE o = p
    <3>1. frame_number'[p] = 0 /\ dec'[p] = "decode"
      BY <1>0, <1>2, <2>1, RecvEffect
    <3> QED
      BY <2>1, <3>1 DEF HandFull
  <2>2. CASE o # p
    <3>1. /\ Working(o) /\ dec'[o] = dec[o] /\ job'[o] = job[o]
          /\ frame_number'[o] = frame_number[o]
      BY <1>0, <1>2, <2>2, RecvEffect
    <3>2. HandFull(o)
      BY <1>1, <3>1 DEF NoGaps
    <3> QED
      BY <1>1, <3>1, <3>2 DEF HandFull, Before, Got, FramePiece
  <2> QED
    BY <2>1, <2>2
<1>3. \A o \in Decoders : \A i \in DOMAIN wire'[o] : WireFull(o, i)'
  BY <1>1 DEF NoGaps, WireFull, Before, Got, FramePiece
<1> QED
  BY <1>2, <1>3 DEF NoGaps

LEMMA GapsProceeds ==
  ASSUME PipelineInv, NEW p \in Decoders, Proceeds(p), ~failed, ~failed', proc' = "up"
  PROVE  NoGaps'
<1> USE DEF PipelineInv
<1>0. PipelineTypeOK
  BY DEF PipelineTypes
<1>1. UNCHANGED <<frames, arrived, nframes>> /\ proc = "up"
  BY DEF Proceeds, vars, srcvars, sinkvars
<1>2. \A o \in Decoders : Len(wire[o]) \in Nat
  BY <1>0 DEF PipelineTypeOK
<1>3. CASE UNCHANGED wire /\ (GoesOn(p) \/ SendFeedback(p))
  <2>1. ASSUME NEW o \in Decoders, Working(o)'
        PROVE  HandFull(o)'
    <3>1. /\ Working(o) /\ job'[o] = job[o]
          /\ frame_number'[o] = frame_number[o]
      BY <1>0, <1>3, <2>1, NoNewWork DEF GoesOn, SendFeedback
    <3>2. HandFull(o)
      BY <1>1, <3>1 DEF NoGaps
    <3>3. dec'[o] = "eof" => frame_number[o] = nframes[job[o].chunk]
      <4>1. CASE o # p
        BY <1>0, <3>2, <4>1, NoNewWork DEF HandFull
      <4>2. CASE o = p
        <5>1. GoesOn(p)
          BY <1>0, <1>3, <2>1, <4>2 DEF SendFeedback, Goto, Working, PipelineTypeOK
        <5> QED
          BY <4>2, <5>1 DEF GoesOn
      <4> QED
        BY <4>1, <4>2
    <3> QED
      BY <1>1, <1>3, <3>1, <3>2, <3>3 DEF HandFull, Before, Got, FramePiece
  <2>2. \A o \in Decoders : \A i \in DOMAIN wire'[o] : WireFull(o, i)'
    BY <1>1, <1>3 DEF NoGaps, WireFull, Before, Got, FramePiece
  <2> QED
    BY <2>1, <2>2 DEF NoGaps
<1>4. ASSUME NEW x, IsPushed(wire, wire', p, x),
             \/ SendsFrame(p) /\ x = FramePiece(job[p].chunk, frame_number[p] + 1)
             \/ /\ SendDecodedEof(p) /\ Working(p) /\ ~Working(p)'
                /\ x = EofPiece(job[p].chunk, frame_number[p] + 1)
      PROVE  NoGaps'
  <2> PICK n \in Nat : n = Len(wire[p]) + 1
    BY <1>2
  <2>1. /\ n \in DOMAIN wire'[p] /\ wire'[p][n] = x /\ Len(wire'[p]) = n
        /\ \A o \in Decoders \ {p} : wire'[o] = wire[o]
        /\ \A o \in Decoders : \A i \in DOMAIN wire[o] :
             i \in DOMAIN wire'[o] /\ wire'[o][i] = wire[o][i]
        /\ \A o \in Decoders : \A i \in DOMAIN wire'[o] :
             \/ i \in DOMAIN wire[o]
             \/ o = p /\ i = n
    BY <1>4 DEF IsPushed
  <2>2. ASSUME NEW o \in Decoders, Working(o), NEW g \in 1..frame_number[o],
               NEW k \in Nat, k = Len(wire[o]) + 1, NEW l \in Nat, k <= l,
               NEW c, c = job[o].chunk
        PROVE  Before(o, l, c, g)'
    <3>1. Before(o, k, c, g)
      BY <1>1, <2>2 DEF NoGaps, HandFull
    <3> QED
      BY <1>0, <1>1, <1>4, <2>2, <3>1, BeforePush
  <2>3. ASSUME NEW o \in Decoders, Working(o)'
        PROVE  HandFull(o)'
    <3>1. Working(o) /\ job'[o] = job[o]
      BY <1>0, <2>3, NoNewWork
    <3>2. HandFull(o) /\ frame_number[o] \in Nat
      BY <1>0, <1>1, <3>1, JobInHand DEF NoGaps
    <3> PICK c : c = job[o].chunk
      OBVIOUS
    <3> PICK l \in Nat : l = Len(wire'[o]) + 1
      BY <1>2, <2>1
    <3>3. CASE o # p
      <4>1. dec'[o] = dec[o] /\ frame_number'[o] = frame_number[o] /\ Len(wire'[o]) = Len(wire[o])
        BY <1>0, <2>1, <3>3, NoNewWork
      <4>2. \A g \in 1..frame_number[o] : Before(o, l, c, g)'
        BY <1>2, <2>2, <3>1, <4>1
      <4>3. dec'[o] = "eof" => frame_number'[o] = nframes'[job'[o].chunk]
        BY <1>1, <3>1, <3>2, <4>1 DEF HandFull
      <4> QED
        BY <3>1, <4>1, <4>2, <4>3 DEF HandFull
    <3>4. CASE o = p
      <4>1. SendsFrame(p)
        BY <1>4, <2>3, <3>4
      <4>2. /\ dec'[p] # "eof" /\ frame_number'[p] = frame_number[p] + 1
            /\ x = FramePiece(c, frame_number[p] + 1)
        BY <1>0, <1>4, <2>3, <3>4, <4>1 DEF SendsFrame, PipelineTypeOK
      <4>3. l = n + 1
        BY <2>1, <3>4
      <4>4. n < l /\ n <= l
        BY <4>3
      <4>5. ASSUME NEW g \in 1 .. frame_number[p] + 1
            PROVE  Before(p, l, c, g)'
        <5>1. CASE g = frame_number[p] + 1
          <6>1. n \in DOMAIN wire'[p] /\ wire'[p][n] = FramePiece(c, g)
            BY <2>1, <4>2, <5>1
          <6> QED
            BY <4>4, <6>1 DEF Before, FramePiece
        <5>2. CASE g \in 1 .. frame_number[p]
          BY <2>2, <3>1, <3>4, <4>4, <5>2
        <5> QED
          BY <3>2, <3>4, <5>1, <5>2
      <4> QED
        BY <3>1, <3>4, <4>2, <4>5 DEF HandFull
    <3> QED
      BY <3>3, <3>4
  <2>4. ASSUME NEW o \in Decoders, NEW i \in DOMAIN wire[o]
        PROVE  WireFull(o, i)'
    <3> PICK m : m = wire[o][i]
      OBVIOUS
    <3>1. WireFull(o, i) /\ wire'[o][i] = m /\ i \in Nat
      BY <1>0, <1>1, <2>1, WireNumbers DEF NoGaps
    <3>2. ASSUME NEW g \in 1 .. m.desc.f_seq - 1
          PROVE  Before(o, i, m.chunk, g)'
      <4>1. Before(o, i, m.chunk, g)
        BY <3>1, <3>2 DEF WireFull
      <4> PICK c : c = m.chunk
        OBVIOUS
      <4>2. Before(o, i, c, g)'
        BY <1>0, <1>1, <1>4, <3>1, <4>1, BeforePush
      <4> QED
        BY <4>2
    <3> QED
      BY <1>1, <3>1, <3>2 DEF WireFull
  <2>5. WireFull(p, n)'
    <3>1. /\ Working(p) /\ x.chunk = job[p].chunk /\ x.desc.f_seq = frame_number[p] + 1
          /\ x.desc.type = "FRAME_EOF" => dec[p] = "eof"
      BY <1>4 DEF SendsFrame, SendDecodedEof, FramePiece, EofPiece
    <3>2. frame_number[p] \in Nat /\ HandFull(p)
      BY <1>0, <1>1, <3>1, JobInHand DEF NoGaps
    <3>3. ASSUME NEW g \in 1 .. x.desc.f_seq - 1
          PROVE  Before(p, n, x.chunk, g)'
      <4>1. g \in 1 .. frame_number[p]
        BY <3>1, <3>2
      <4> QED
        BY <2>2, <3>1, <4>1
    <3>4. x.desc.type = "FRAME_EOF" => x.desc.f_seq = nframes'[x.chunk] + 1
      BY <1>1, <3>1, <3>2 DEF HandFull
    <3> QED
      BY <2>1, <3>3, <3>4 DEF WireFull
  <2>6. \A o \in Decoders : \A i \in DOMAIN wire'[o] : WireFull(o, i)'
    BY <2>1, <2>4, <2>5
  <2> QED
    BY <2>3, <2>6 DEF NoGaps
<1> QED
  BY <1>0, <1>3, <1>4, PieceOut

LEMMA GapsReceive ==
  ASSUME PipelineInv, NEW p \in Decoders, ReceiveOne(p), ~failed, proc' = "up"
  PROVE  NoGaps'
<1> USE DEF PipelineInv
<1>0. PipelineTypeOK
  BY DEF PipelineTypes
<1>1. /\ UNCHANGED <<dec, job, frame_number, nframes, failed>> /\ IsTaken(wire, wire', p)
      /\ proc = "up"
  BY <1>0, WireTaken, ReceiveEffect DEF ReceiveOne, decvars, srcvars
<1>2. \A o \in Decoders : Len(wire[o]) \in Nat
  BY <1>0 DEF PipelineTypeOK
<1>3. ASSUME NEW o \in Decoders, Working(o)
      PROVE  HandFull(o)'
  <2>1. HandFull(o)
    BY <1>1, <1>3 DEF NoGaps
  <2> PICK k \in Nat : k = Len(wire[o]) + 1
    BY <1>2
  <2> PICK c : c = job[o].chunk
    OBVIOUS
  <2> PICK l : l = IF o = p THEN k - 1 ELSE k
    OBVIOUS
  <2>2. l = Len(wire'[o]) + 1
    <3>1. CASE o = p
      BY <1>1, <1>2, <3>1 DEF IsTaken
    <3>2. CASE o # p
      BY <1>1, <1>2, <3>2 DEF IsTaken
    <3> QED
      BY <3>1, <3>2
  <2>3. \A g \in 1..frame_number[o] : Before(o, l, c, g)'
    BY <2>1, BeforeTake DEF HandFull
  <2> QED
    BY <1>1, <2>1, <2>2, <2>3 DEF HandFull
<1>4. ASSUME NEW o \in Decoders, NEW i \in DOMAIN wire'[o]
      PROVE  WireFull(o, i)'
  <2> PICK k : k = IF o = p THEN i + 1 ELSE i
    OBVIOUS
  <2>1. k \in DOMAIN wire[o] /\ wire'[o][i] = wire[o][k]
    BY <1>1 DEF IsTaken
  <2> PICK m : m = wire[o][k]
    OBVIOUS
  <2>2. WireFull(o, k) /\ k \in Nat
    BY <1>0, <1>1, <2>1, WireNumbers DEF NoGaps
  <2>3. i = IF o = p THEN k - 1 ELSE k
    BY <1>1, <2>2 DEF IsTaken
  <2> PICK c : c = m.chunk
    OBVIOUS
  <2>4. ASSUME NEW g \in 1 .. m.desc.f_seq - 1
        PROVE  Before(o, i, c, g)'
    <3>1. Before(o, k, c, g)
      BY <2>2, <2>4 DEF WireFull
    <3> QED
      BY <2>2, <2>3, <3>1, BeforeTake
  <2> QED
    BY <1>1, <2>1, <2>2, <2>4 DEF WireFull
<1>5. \A o \in Decoders : Working(o)' => HandFull(o)'
  BY <1>1, <1>3 DEF Working
<1> QED
  BY <1>4, <1>5 DEF NoGaps

LEMMA GapsStep ==
  ASSUME PipelineInv, [PipelineNext]_allvars
  PROVE  NoGaps'
<1>0. PipelineTypeOK /\ SinkInv
  BY DEF PipelineInv, PipelineTypes
<1> SUFFICES ASSUME ~failed', ~failed, proc' = "up" PROVE NoGaps'
  BY <1>0, FailureStays DEF NoGaps
<1>1. ASSUME NEW p \in Decoders, Dispatch(p)
      PROVE  NoGaps'
  <2>1. UNCHANGED <<wire, frames, arrived, nframes, dec, job, frame_number, proc, failed>>
    BY <1>1 DEF Dispatch, vars, decvars, sinkvars
  <2> QED
    BY <2>1 DEF PipelineInv, NoGaps, HandFull, WireFull, Before, Got, FramePiece, Working
<1>2. CASE Loses
  <2>1. UNCHANGED <<wire, frames, arrived, nframes, dec, job, frame_number, proc, failed>>
    BY <1>2 DEF Loses
  <2> QED
    BY <2>1 DEF PipelineInv, NoGaps, HandFull, WireFull, Before, Got, FramePiece, Working
<1> QED
  BY <1>0, <1>1, <1>2, GapsRecv, GapsProceeds, GapsReceive, Cases

---------------------------------------------------------------------------
(* The invariant, and what follows from it.                                *)
LEMMA PipelineInvInit == PipelineInit => PipelineInv
<1> SUFFICES ASSUME PipelineInit PROVE PipelineInv
  OBVIOUS
<1>1. TypeOK /\ RxInv
  BY TypeInit, RxInvInit DEF PipelineInit
<1>2. /\ chunks = {} /\ eof_c = Unset /\ wm_chunk = 0 /\ wm_frame = 0 /\ proc = "up"
      /\ revealed = <<>> /\ frames[0] = {} /\ eof_f[0] = Unset
  BY PipelineAssumption DEF PipelineInit, Init
<1>3. <<>> \in Seq(Message) /\ <<>> \in Seq(Decoded) /\ DOMAIN <<>> = {}
  OBVIOUS
<1>4. /\ \A p \in Decoders : /\ inbox[p] = <<>> /\ wire[p] = <<>> /\ dec[p] = "recv"
                             /\ DOMAIN inbox[p] = {} /\ DOMAIN wire[p] = {}
                             /\ ~Working(p)
      /\ cnt = 0 /\ source = "sending" /\ ~failed /\ sink = "receive"
      /\ lost = FALSE /\ arrived = {}
  BY <1>3 DEF PipelineInit, Working
<1>5. PipelineTypes
  <2>1. nframes \in [Db -> FrameCounts] /\ Db \subseteq 1..NumChunks
    <3>1. PICK n \in 0..NumChunks : nframes \in [1..n -> FrameCounts]
      BY DEF PipelineInit
    <3>2. Db = 1..n
      BY <3>1 DEF Db
    <3>3. 1..n \subseteq 1..NumChunks
      BY PipelineAssumption
    <3> QED
      BY <3>1, <3>2, <3>3
  <2>2. /\ source \in {"sending", "sent", "dead"} /\ sink \in {"receive", "retrieve", "reply"}
        /\ failed \in BOOLEAN /\ lost \in BOOLEAN /\ cnt \in {0} \cup Db /\ arrived \subseteq Db
    BY <1>4 DEF PipelineInit
  <2>3. /\ inbox \in [Decoders -> Seq(Message)]
        /\ wire \in [Decoders -> Seq(Decoded)]
    BY <1>3 DEF PipelineInit
  <2>4. dec \in [Decoders -> {"recv", "decode", "flush", "eof", "feedback", "dead"}]
    BY DEF PipelineInit
  <2>5. job \in [Decoders -> Message]
    BY DEF PipelineInit, NoJob, Message
  <2>6. frame_number \in [Decoders -> Nat] /\ feedback \in [Decoders -> 0..FbHwm]
    BY PipelineAssumption DEF PipelineInit
  <2>7. iter \in 0..TotalFnum /\ iter < TotalFnum
    BY PipelineAssumption DEF PipelineInit
  <2> QED
    BY <1>1, <2>1, <2>2, <2>3, <2>4, <2>5, <2>6, <2>7 DEF PipelineTypes, PipelineTypeOK
<1>6. Waiting /\ InHand /\ OrdersApart
  BY <1>4 DEF Waiting, InHand, OrdersApart
<1>7. PendingInv
  BY <1>4 DEF PendingInv, Untouched
<1>8. WorkInv /\ WireInv
  BY <1>4 DEF WorkInv, WireInv
<1>9. SinkInv
  BY <1>2, <1>4 DEF SinkInv
<1>10. NoGaps /\ OneChunk
  BY <1>4 DEF NoGaps, OneChunk
<1> QED
  BY <1>1, <1>5, <1>6, <1>7, <1>8, <1>9, <1>10 DEF PipelineInv

LEMMA PipelineInvStep ==
  PipelineInv /\ [PipelineNext]_allvars => PipelineInv'
<1> SUFFICES ASSUME PipelineInv, [PipelineNext]_allvars
             PROVE  PipelineInv'
  OBVIOUS
<1>1. PipelineTypes' /\ RxInv'
  BY PipelineTypesStep, ManagerTypesStep DEF PipelineInv, PipelineTypes
<1>2. Waiting' /\ InHand' /\ OrdersApart'
  BY WaitingStep, InHandStep, OrdersApartStep DEF PipelineInv, PipelineTypes
<1>3. PendingInv' /\ WorkInv' /\ WireInv' /\ SinkInv' /\ NoGaps' /\ OneChunk'
  BY PendingStep, WorkStep, WireStep, SinkInvStep, GapsStep, OneChunkStep
<1> QED
  BY <1>1, <1>2, <1>3 DEF PipelineInv

LEMMA PipelineInvariant == PipelineSpec => []PipelineInv
<1>1. QED
  BY PipelineInvInit, PipelineInvStep, PTL DEF PipelineSpec

(* Types: the source sends no chunk that the database has not, a decoder   *)
(* never counts past the frames of its chunk.                              *)
THEOREM PipelineTypeCorrect == PipelineSpec => []PipelineTypeOK
<1>1. PipelineInv => PipelineTypeOK
  BY DEF PipelineInv, PipelineTypes
<1> QED
  BY <1>1, PipelineInvariant, PTL

(* Although all chunks look alike to it, the manager never holds pieces of *)
(* two chunks as long as no decoding fails.                                *)
THEOREM ChunksApart == PipelineSpec => []OneChunkOnly
<1>1. PipelineInv => OneChunkOnly
  <2> SUFFICES ASSUME PipelineInv, ~failed PROVE Cardinality(arrived) <= 1
    BY DEF OneChunkOnly
  <2>1. CASE arrived = {}
    BY <2>1, FS_EmptySet
  <2>2. CASE arrived # {}
    <3>1. PICK c : arrived = {c}
      BY <2>2 DEF PipelineInv, OneChunk
    <3> QED
      BY <3>1, FS_Singleton
  <2> QED
    BY <2>1, <2>2
<1> QED
  BY <1>1, PipelineInvariant, PTL

(* As long as no decoding fails, a frame eof in the manager means that all *)
(* frames of one chunk are in, and nothing else.                           *)
THEOREM EofIsLast == PipelineSpec => []FrameEofIsLast
<1>1. PipelineInv => FrameEofIsLast
  <2> SUFFICES ASSUME PipelineInv, ~failed, eof_f[0] # Unset
               PROVE  \E c \in arrived : frames[0] = 1..nframes[c] /\ eof_f[0] = nframes[c] + 1
    BY DEF FrameEofIsLast
  <2>1. arrived # {}
    BY PipelineAssumption DEF PipelineInv, SinkInv, RxInv, ErasedIsClean
  <2>2. PICK c \in Db : arrived = {c} /\ eof_f[0] = nframes[c] + 1 /\ frames[0] = 1..nframes[c]
    BY <2>1 DEF PipelineInv, OneChunk
  <2> QED
    BY <2>2
<1> QED
  BY <1>1, PipelineInvariant, PTL

(* Whatever fails, the process of the sink dies of nothing but an eof that *)
(* comes without any frame, and a piece that meets those of another chunk. *)
THEOREM DiesOnlySo == PipelineSpec => DiesOnCollision
<1>1. PipelineInv /\ [PipelineNext]_allvars =>
        [proc = "up" /\ proc' = "dead" =>
           \E p \in Decoders :
             /\ wire[p] # <<>> /\ wire'[p] = Tail(wire[p])
             /\ \/ Head(wire[p]).desc.type = "FRAME_EOF" /\ chunks = {}
                \/ arrived \ {Head(wire[p]).chunk} # {}]_allvars
  <2> SUFFICES ASSUME PipelineInv, [PipelineNext]_allvars, proc = "up", proc' = "dead"
               PROVE  \E p \in Decoders :
                        /\ wire[p] # <<>> /\ wire'[p] = Tail(wire[p])
                        /\ \/ Head(wire[p]).desc.type = "FRAME_EOF" /\ chunks = {}
                           \/ arrived \ {Head(wire[p]).chunk} # {}
    OBVIOUS
  <2> USE DEF PipelineInv
  <2>0. PipelineTypeOK
    BY DEF PipelineTypes
  <2>1. PICK p \in Decoders : ReceiveOne(p)
    BY <2>0, Cases DEF Dispatch, RecvChunk, Proceeds, Loses, vars
  <2>2. wire[p] # <<>> /\ wire'[p] = Tail(wire[p])
    BY <2>0, <2>1 DEF ReceiveOne, PipelineTypeOK
  <2> PICK m : m = wire[p][1]
    OBVIOUS
  <2>3. /\ m = Head(wire[p]) /\ 1 \in DOMAIN wire[p]
        /\ m.desc.type = "FRAME" =>
             0 \in chunks /\ (eof_f[0] # Unset \/ m.desc.f_seq \in frames[0])
        /\ m.desc.type = "FRAME_EOF" =>
             \/ chunks = {}
             \/ eof_f[0] # Unset \/ \E g \in frames[0] : m.desc.f_seq <= g
        /\ m.desc.type \in {"FRAME", "FRAME_EOF"} /\ m.desc.f_seq \in Nat
    BY <2>0, <2>1, ReceiveEffect, WireNumbers
  <2> SUFFICES ASSUME arrived = {m.chunk}, chunks # {} PROVE FALSE
    BY <2>2, <2>3 DEF SinkInv
  <2>4. ~Ended(m.chunk) /\ \A g \in Got(m.chunk) : g < m.desc.f_seq
    BY <2>3 DEF WireInv, InOrderAt
  <2>5. eof_f[0] = Unset /\ \A g \in frames[0] : g \in Nat /\ g < m.desc.f_seq
    BY <2>0, <2>4, GotNumbers DEF Ended, Got
  <2> QED
    BY <2>3, <2>5
<1> QED
  BY <1>1, PipelineInvariant, PTL DEF PipelineSpec, DiesOnCollision

(* The frames are numbered from 1, the manager waits for number 0: the     *)
(* sink never gets a frame out of it.                                      *)
THEOREM NothingIsRevealed == PipelineSpec => [](revealed = <<>>)
<1>1. PipelineInv => revealed = <<>>
  BY DEF PipelineInv, SinkInv
<1> QED
  BY <1>1, PipelineInvariant, PTL

(* What the manager reveals to the sink is trivially in order; more, each  *)
(* of its steps is one that the in-order stream allows.                    *)
THEOREM PipelineImplements == PipelineSpec => ImplementsInOrderStream
<1>1. PipelineInit => Promise!Init
  BY InitImplements DEF PipelineInit
<1>2. PipelineInv /\ PipelineInv' /\ [PipelineNext]_allvars
        => [Promise!Next]_(Promise!vars)
  <2> SUFFICES ASSUME PipelineInv, PipelineInv', [PipelineNext]_allvars
               PROVE  [Promise!Next]_(Promise!vars)
    OBVIOUS
  <2> QED
    BY ManagerStep, StepImplements DEF PipelineInv, PipelineTypes, PipelineTypeOK
<1> QED
  BY <1>1, <1>2, PipelineInvariant, PTL
     DEF PipelineSpec, ImplementsInOrderStream, Promise!Spec
================================================================================
