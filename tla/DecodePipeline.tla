---------------------------- MODULE DecodePipeline ----------------------------
(***************************************************************************)
(* Streaming of encoded chunks: on a request for its chunk database the    *)
(* source pushes every chunk of it (test-source.cpp, rxtx.cpp); decoder    *)
(* services pull the chunks, decode each into frames (decode-serv.cpp,     *)
(* mydecoder.cpp) and push these to the sink, which deposits them in its   *)
(* receive manager (RxManager) and then retrieves (test-sink.cpp).         *)
(*                                                                         *)
(* send_chunk_from_db leaves c_seq as its template has it, 0 for every     *)
(* chunk, and ends without a chunk eof.  A message therefore carries,      *)
(* beside its descriptor, the chunk it really belongs to, which no process *)
(* sees.                                                                   *)
(*                                                                         *)
(* A PUSH socket hands every message to some connected PULL socket; the    *)
(* messages between one pair of processes stay in order.  The queues for   *)
(* chunks and frames are unbounded here, the ones for feedback are not:    *)
(* nobody reads them.                                                      *)
(***************************************************************************)
EXTENDS RxManager, FiniteSets

CONSTANTS
  Decoders,     \* decoder processes
  NumChunks,    \* most chunks in the database
  FrameCounts,  \* possible numbers of frames in a chunk
  MayFail,      \* whether decoding may fail
  FbHwm,        \* feedback messages of a decoder before its send blocks
  TotalFnum     \* total_fnum of the sink's request

ASSUME PipelineAssumption ==
  /\ NumChunks \in Nat /\ FbHwm \in Nat /\ TotalFnum \in Nat \ {0}
  /\ FrameCounts \subseteq Nat
  /\ MayFail \in BOOLEAN
  /\ 0 \in ChunkSeq
  /\ 0 \in FrameSeq /\ \A n \in FrameCounts : 1 .. n + 1 \subseteq FrameSeq

VARIABLES
  nframes,      \* nframes[c]: frames in chunk c of the database
  source,       \* "sending", "sent" or "dead"
  cnt,          \* chunks sent
  inbox,        \* inbox[p]: messages on their way to decoder p
  lost,         \* history: whether a chunk was lost with the source
  dec,          \* dec[p]: what decoder p does
  job,          \* job[p]: the message in hand, [c_seq, chunk]
  frame_number, \* frame_number[p]: frames its codec has returned
  failed,       \* history: whether decoding has failed anywhere
  wire,         \* wire[p]: messages on their way from p to the sink
  feedback,     \* feedback[p]: feedback sent by p and not read
  sink,         \* "receive", "retrieve" or "reply"
  arrived,      \* history: chunks of which the manager took a piece
  iter          \* counter of the sink's current loop

srcvars == <<nframes, source, cnt, lost>>
decvars == <<dec, job, frame_number, failed>>
sinkvars == <<sink, arrived, iter>>
allvars == <<vars, srcvars, inbox, decvars, wire, feedback, sinkvars>>

NoJob == [c_seq |-> 0, chunk |-> 0]

PipelineInit ==
  /\ Init
  /\ \E n \in 0..NumChunks : nframes \in [1..n -> FrameCounts]
  /\ source = "sending"
  /\ cnt = 0
  /\ lost = FALSE
  /\ inbox = [p \in Decoders |-> <<>>]
  /\ dec = [p \in Decoders |-> "recv"]
  /\ job = [p \in Decoders |-> NoJob]
  /\ frame_number = [p \in Decoders |-> 0]
  /\ failed = FALSE
  /\ wire = [p \in Decoders |-> <<>>]
  /\ feedback = [p \in Decoders |-> 0]
  /\ sink = "receive"
  /\ arrived = {}
  /\ iter = 0

---------------------------------------------------------------------------
(* The source: test_send_multi_from_db, send_chunk_from_db.                *)

Db == DOMAIN nframes

ToSomeDecoder(m) ==
  \E p \in Decoders : /\ dec[p] # "dead"
                      /\ inbox' = [inbox EXCEPT ![p] = Append(@, m)]

(* Mutant: one chunk too many.                                             *)
SendChunkTooMany ==
  /\ source = "sending"
  /\ cnt <= Cardinality(Db)
  /\ ToSomeDecoder([c_seq |-> 0, chunk |-> cnt + 1])
  /\ cnt' = cnt + 1
  /\ UNCHANGED <<vars, nframes, source, lost, decvars, wire, feedback, sinkvars>>

SendChunk ==
  /\ source = "sending"
  /\ cnt + 1 \in Db
  /\ ToSomeDecoder([c_seq |-> 0, chunk |-> cnt + 1])
  /\ cnt' = cnt + 1
  /\ UNCHANGED <<vars, nframes, source, lost, decvars, wire, feedback, sinkvars>>

(* The cursor is at its end: nothing more is sent.                         *)
EndOfChunks ==
  /\ source = "sending"
  /\ cnt + 1 \notin Db
  /\ source' = "sent"
  /\ UNCHANGED <<vars, nframes, cnt, lost, inbox, decvars, wire, feedback,
                 sinkvars>>

(* After a pause the database is closed, under the chunks that zmq may     *)
(* still hold, and the next receive on the REP socket, whose last request  *)
(* has had no reply, throws.  What was not yet on a connection is lost.    *)
SourceDies ==
  /\ source = "sent"
  /\ source' = "dead"
  /\ \E kept \in [Decoders -> 0..NumChunks] :
       /\ \A p \in Decoders : kept[p] <= Len(inbox[p])
       /\ inbox' = [p \in Decoders |-> SubSeq(inbox[p], 1, kept[p])]
  /\ lost' = (inbox' # inbox)
  /\ UNCHANGED <<vars, nframes, cnt, decvars, wire, feedback, sinkvars>>

---------------------------------------------------------------------------
(* A decoder service.                                                      *)

Goto(p, phase) == dec' = [dec EXCEPT ![p] = phase]

Fail == MayFail /\ failed' = TRUE

ToSink(p, t, f) ==
  wire' = [wire EXCEPT ![p] =
    Append(@, [desc |-> [type |-> t, c_seq |-> job[p].c_seq, f_seq |-> f],
               chunk |-> job[p].chunk])]

(* recv_one_chunk_tofile, and the new codec context of decode_one_file.  A *)
(* file without a video stream makes decode_one_file return before any eof *)
(* is sent; the service ignores its result.                                *)
RecvChunk(p) ==
  /\ dec[p] = "recv"
  /\ inbox[p] # <<>>
  /\ inbox' = [inbox EXCEPT ![p] = Tail(@)]
  /\ job' = [job EXCEPT ![p] = Head(inbox[p])]
  /\ frame_number' = [frame_number EXCEPT ![p] = 0]
  /\ \/ Goto(p, "decode") /\ UNCHANGED failed
     \/ Fail /\ Goto(p, "feedback")
  /\ UNCHANGED <<vars, srcvars, wire, feedback, sinkvars>>

(* A file that cannot be written or opened, or a codec that cannot, is an  *)
(* xzl_bug_on.  The messages for p, and those of p that zmq has not sent   *)
(* yet, go with the process.                                               *)
DecoderDies(p) ==
  /\ dec[p] = "recv"
  /\ inbox[p] # <<>>
  /\ Fail
  /\ Goto(p, "dead")
  /\ inbox' = [inbox EXCEPT ![p] = <<>>]
  /\ \E k \in 0 .. Len(wire[p]) :
       wire' = [wire EXCEPT ![p] = SubSeq(@, 1, k)]
  /\ UNCHANGED <<vars, srcvars, job, frame_number, feedback, sinkvars>>

(* The codec returns the next frame and frame_number counts it, from 1;    *)
(* decode_write_hw sends it under that number, or fails before it can.  A  *)
(* failure ends the loop over the packets or, while flushing, the flush.   *)
DecodeFrame(p) ==
  /\ dec[p] \in {"decode", "flush"}
  /\ frame_number[p] < nframes[job[p].chunk]
  /\ frame_number' = [frame_number EXCEPT ![p] = @ + 1]
  /\ \/ /\ ToSink(p, "FRAME", frame_number[p] + 1)
        /\ UNCHANGED <<dec, failed>>
     \/ /\ Fail
        /\ Goto(p, IF dec[p] = "decode" THEN "flush" ELSE "eof")
        /\ UNCHANGED wire
  /\ UNCHANGED <<vars, srcvars, inbox, job, feedback, sinkvars>>

(* Mutant: the codec is not flushed.                                       *)
EndOfPacketsNoFlush(p) ==
  /\ dec[p] = "decode"
  /\ Goto(p, "eof")
  /\ UNCHANGED <<vars, srcvars, inbox, job, failed, frame_number, wire,
                 feedback, sinkvars>>

(* The packets are used up, or cannot be read on: flush the frames that    *)
(* the codec has kept.                                                     *)
EndOfPackets(p) ==
  /\ dec[p] = "decode"
  /\ Goto(p, "flush")
  /\ UNCHANGED <<vars, srcvars, inbox, job, failed, frame_number, wire,
                 feedback, sinkvars>>

EndOfFlush(p) ==
  /\ dec[p] = "flush"
  /\ \/ frame_number[p] = nframes[job[p].chunk] /\ UNCHANGED failed
     \/ frame_number[p] < nframes[job[p].chunk] /\ Fail
  /\ Goto(p, "eof")
  /\ UNCHANGED <<vars, srcvars, inbox, job, frame_number, wire, feedback,
                 sinkvars>>

(* Mutant: the eof carries the number of the last frame.                   *)
SendDecodedEofLastSeq(p) ==
  /\ dec[p] = "eof"
  /\ ToSink(p, "FRAME_EOF", frame_number[p])
  /\ Goto(p, "feedback")
  /\ UNCHANGED <<vars, srcvars, inbox, job, failed, frame_number, feedback,
                 sinkvars>>

(* Mutant: the eof leaves room for one more frame.                         *)
SendDecodedEofOneMore(p) ==
  /\ dec[p] = "eof"
  /\ ToSink(p, "FRAME_EOF", frame_number[p] + 2)
  /\ Goto(p, "feedback")
  /\ UNCHANGED <<vars, srcvars, inbox, job, failed, frame_number, feedback,
                 sinkvars>>

SendDecodedEof(p) ==
  /\ dec[p] = "eof"
  /\ ToSink(p, "FRAME_EOF", frame_number[p] + 1)
  /\ Goto(p, "feedback")
  /\ UNCHANGED <<vars, srcvars, inbox, job, failed, frame_number, feedback,
                 sinkvars>>

(* send_one_fb blocks once the queues of the two sockets are full; the     *)
(* source binds its socket and never reads it.                             *)
SendFeedback(p) ==
  /\ dec[p] = "feedback"
  /\ feedback[p] < FbHwm
  /\ feedback' = [feedback EXCEPT ![p] = @ + 1]
  /\ Goto(p, "recv")
  /\ job' = [job EXCEPT ![p] = NoJob]
  /\ UNCHANGED <<vars, srcvars, inbox, failed, frame_number, wire, sinkvars>>

Decoder(p) ==
  \/ RecvChunk(p) \/ DecoderDies(p) \/ DecodeFrame(p) \/ EndOfPackets(p)
  \/ EndOfFlush(p) \/ SendDecodedEof(p) \/ SendFeedback(p)

---------------------------------------------------------------------------
(* The sink.                                                               *)

(* One turn of the receive loop.  An eof of a chunk or of raw frames would *)
(* end it; only frames and eofs of decoded frames come.                    *)
ReceiveOne(p) ==
  /\ sink = "receive"
  /\ wire[p] # <<>>
  /\ wire' = [wire EXCEPT ![p] = Tail(@)]
  /\ DepositAFrame(Head(wire[p]).desc) \/ DepositADesc(Head(wire[p]).desc)
  /\ arrived' = IF proc' = "up" THEN arrived \cup {Head(wire[p]).chunk}
                                ELSE arrived
  /\ IF iter + 1 = TotalFnum
       THEN sink' = "retrieve" /\ iter' = 0
       ELSE iter' = iter + 1 /\ UNCHANGED sink
  /\ UNCHANGED <<srcvars, inbox, decvars, feedback>>

(* One turn of the retrieve loop; behind it the sink waits for the reply   *)
(* to its request, which does not come.                                    *)
RetrieveOne ==
  /\ sink = "retrieve"
  /\ RetrieveAFrame
  /\ iter' = iter + 1
  /\ sink' = IF rc' = "EOF_CHUNKS" \/ iter + 1 = TotalFnum
               THEN "reply" ELSE "retrieve"
  /\ UNCHANGED <<arrived, srcvars, inbox, decvars, wire, feedback>>

PipelineNext ==
  \/ SendChunk \/ EndOfChunks \/ SourceDies
  \/ \E p \in Decoders : Decoder(p) \/ ReceiveOne(p)
  \/ RetrieveOne

(* Each process runs on; a codec returns a file's last frame in the end,   *)
(* and no decoder's frames are passed over for good by the sink's PULL     *)
(* socket, which serves its peers in turn.  Nothing makes a process die.   *)
PipelineSpec ==
  /\ PipelineInit /\ [][PipelineNext]_allvars
  /\ WF_allvars(SendChunk \/ EndOfChunks)
  /\ \A p \in Decoders : WF_allvars(Decoder(p)) /\ WF_allvars(ReceiveOne(p))
  /\ WF_allvars(RetrieveOne)

---------------------------------------------------------------------------
Message == [c_seq : {0}, chunk : Nat]

Decoded == [desc : [type : {"FRAME", "FRAME_EOF"}, c_seq : {0}, f_seq : FrameSeq],
            chunk : Nat]

(* Types: the source sends no chunk that the database has not, decoders    *)
(* never more than one eof behind a chunk's last frame.                    *)
PipelineTypeOK ==
  /\ TypeOK
  /\ nframes \in [Db -> FrameCounts] /\ Db \subseteq 1..NumChunks
  /\ source \in {"sending", "sent", "dead"}
  /\ cnt \in {0} \cup Db
  /\ lost \in BOOLEAN
  /\ inbox \in [Decoders -> Seq(Message)]
  /\ dec \in [Decoders -> {"recv", "decode", "flush", "eof", "feedback", "dead"}]
  /\ job \in [Decoders -> Message]
  /\ frame_number \in [Decoders -> Nat]
  /\ failed \in BOOLEAN
  /\ wire \in [Decoders -> Seq(Decoded)]
  /\ feedback \in [Decoders -> 0..FbHwm]
  /\ sink \in {"receive", "retrieve", "reply"}
  /\ arrived \subseteq Db
  /\ iter \in 0..TotalFnum

(* All chunks look alike to the manager.  Yet as long as no decoding       *)
(* fails, the manager never holds pieces of two chunks: the first piece of *)
(* a second one is an assertion, whatever has come of the first.           *)
OneChunkOnly == ~failed => Cardinality(arrived) <= 1

(* A frame eof in the manager means that all frames of one chunk are in,   *)
(* and nothing else: it never overtakes a frame of its own chunk, and      *)
(* counts none too many.  The frames are numbered from 1, so that none is  *)
(* revealed and all stay where they are.                                   *)
FrameEofIsLast ==
  ~failed /\ eof_f[0] # Unset =>
    \E c \in arrived : frames[0] = 1..nframes[c] /\ eof_f[0] = nframes[c] + 1

(* Whatever fails in the decoders, the pieces of one chunk cannot break an *)
(* assertion of the manager, but for an eof that comes without any frame:  *)
(* the manager dies of that, or because a piece of one chunk meets those   *)
(* of another.                                                             *)
DiesOnCollision ==
  [][proc = "up" /\ proc' = "dead" =>
       \E p \in Decoders :
         /\ wire[p] # <<>> /\ wire'[p] = Tail(wire[p])
         /\ \/ Head(wire[p]).desc.type = "FRAME_EOF" /\ chunks = {}
            \/ arrived \ {Head(wire[p]).chunk} # {}]_allvars

(* p has worked off its messages, or waits in send_one_fb for good.        *)
Settled(p) == \/ inbox[p] = <<>> /\ dec[p] = "recv"
              \/ dec[p] = "feedback" /\ feedback[p] = FbHwm

AllIn ==
  /\ arrived = Db
  /\ \A c \in Db : frames[0] = 1..nframes[c] /\ eof_f[0] = nframes[c] + 1

(* If nothing fails or is lost, the stream settles: every decoder has      *)
(* worked off its messages or is stuck with its feedback, and a sink that  *)
(* still receives has the whole database, of one chunk at most.            *)
StreamSettles ==
  [](~failed /\ ~lost) =>
    <>[](/\ \A p \in Decoders : Settled(p)
         /\ proc = "up" /\ sink = "receive" => AllIn)
===============================================================================
