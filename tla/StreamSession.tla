--------------------------- MODULE StreamSession ---------------------------
(***************************************************************************)
(* Rounds of raw-frame streaming between the source (test-source.cpp, case *)
(* HDD_RAW_180) and the sink (test-sink.cpp): the sink requests frames on  *)
(* a REQ socket, the source replies and then pushes the frames of a key    *)
(* range of its database and a frame eof; the sink deposits what it        *)
(* receives in its receive manager (RxManager), retrieves the frames into  *)
(* the slots of an array and processes the slots.                          *)
(*                                                                         *)
(* The PUSH and PULL sockets connect two processes: first in, first out,   *)
(* nothing lost.                                                           *)
(***************************************************************************)
EXTENDS RxManager, FiniteSets

CONSTANTS
  Requests,   \* requests the sink may make: [start_fnum, total_fnum]
  DbSizes,    \* possible numbers of frames in the source's database
  Rounds      \* bound: rounds of the sink's while(1) that are explored

ASSUME SessionAssumption ==
  /\ Requests \subseteq [start_fnum : Nat, total_fnum : Nat \ {0}]
  /\ DbSizes \subseteq Nat
  /\ Rounds \in Nat
  /\ 0 \in ChunkSeq
  /\ \A r \in Requests : 0 .. r.total_fnum - 1 \subseteq FrameSeq

VARIABLES
  sink,      \* phase of the sink
  rd,        \* its request
  iter,      \* counter of its receive loop, then of its retrieve loop
  f,         \* frame variable of its retrieve loop
  frame,     \* the array of frames, indexed by frame number
  round,     \* rounds begun
  source,    \* what the source does
  cnt,       \* frames it has pushed in this round
  db,        \* frames in its database
  req_sock,  \* what is on its way between the REQ and the REP socket
  wire       \* descriptors between the PUSH and the PULL socket

svars == <<sink, rd, iter, f, frame, round>>
cvars == <<source, cnt, db>>
allvars == <<vars, svars, cvars, req_sock, wire>>

NoFrame == <<>>      \* a default-constructed Frame: msg_p is null

Slots == rd.start_fnum .. rd.start_fnum + rd.total_fnum - 1

(* Mutant: the end of the key range is included.                           *)
KeysInRangeInclusive ==
  {k \in 1..db : 2 * k >= 2 * rd.start_fnum + 2
                 /\ 2 * k <= 2 * rd.start_fnum + 2 * rd.total_fnum}

(* The databases of raw frames hold frame k under key k * (60 / fps) = 2k, *)
(* from k = 1.  The source asks for the keys from 2 * start_fnum + 2 to    *)
(* 2 * start_fnum + 2 * total_fnum, the last one excluded.                 *)
KeysInRange ==
  {k \in 1..db : /\ 2 * k >= 2 * rd.start_fnum + 2
                 /\ 2 * k < 2 * rd.start_fnum + 2 * rd.total_fnum}

NumFrames == Cardinality(KeysInRange)

SessionInit ==
  /\ Init
  /\ sink = "request"
  /\ rd \in Requests
  /\ iter = 0
  /\ f = NoFrame
  /\ frame = [i \in Slots |-> NoFrame]
  /\ round = 0
  /\ source = "idle"
  /\ cnt = 0
  /\ db \in DbSizes
  /\ req_sock = "empty"
  /\ wire = <<>>

---------------------------------------------------------------------------
(* The source.                                                             *)

(* Mutant: no reply, as in the cases of the other databases.               *)
RecvRequestNoReply ==
  /\ source = "idle"
  /\ req_sock = "request"
  /\ req_sock' = "empty"
  /\ source' = "sending"
  /\ cnt' = 0
  /\ UNCHANGED <<vars, svars, db, wire>>

RecvRequest ==
  /\ source = "idle"
  /\ req_sock = "request"
  /\ req_sock' = "reply"
  /\ source' = "sending"
  /\ cnt' = 0
  /\ UNCHANGED <<vars, svars, db, wire>>

Push(d) == wire' = Append(wire, d)

(* send_multi_from_db: frames get the sequence number cnt; c_seq stays 0.  *)
SendFrame ==
  /\ source = "sending"
  /\ cnt < NumFrames
  /\ Push([type |-> "FRAME", c_seq |-> 0, f_seq |-> cnt])
  /\ cnt' = cnt + 1
  /\ UNCHANGED <<vars, svars, source, db, req_sock>>

(* Mutant: the eof carries the number of the last frame.                   *)
SendRawEofLastSeq ==
  /\ source = "sending"
  /\ cnt = NumFrames
  /\ Push([type |-> "FRAME_EOF", c_seq |-> 0, f_seq |-> cnt - 1])
  /\ source' = "idle"
  /\ UNCHANGED <<vars, svars, cnt, db, req_sock>>

SendRawEof ==
  /\ source = "sending"
  /\ cnt = NumFrames
  /\ Push([type |-> "FRAME_EOF", c_seq |-> 0, f_seq |-> cnt])
  /\ source' = "idle"
  /\ UNCHANGED <<vars, svars, cnt, db, req_sock>>

Source == RecvRequest \/ SendFrame \/ SendRawEof

---------------------------------------------------------------------------
(* The sink.  Each round of its while(1) declares f and frame anew; the    *)
(* receive manager is declared outside and lives on.                       *)

SendRequest ==
  /\ sink = "request"
  /\ proc = "up"
  /\ round < Rounds
  /\ round' = round + 1
  /\ rd' \in Requests
  /\ f' = NoFrame
  /\ frame' = [i \in Slots' |-> NoFrame]
  /\ iter' = 0
  /\ sink' = "receive"
  /\ req_sock' = "request"
  /\ UNCHANGED <<vars, cvars, wire>>

(* One turn of the receive loop: it ends after total_fnum messages or      *)
(* after an eof.  TYPE_DECODED_FRAME_EOF, which does not end it, is never  *)
(* sent on this path.                                                      *)
ReceiveOne ==
  /\ sink = "receive"
  /\ wire # <<>>
  /\ wire' = Tail(wire)
  /\ DepositAFrame(Head(wire)) \/ DepositADesc(Head(wire))
  /\ IF Head(wire).type # "FRAME" \/ iter + 1 = rd.total_fnum
       THEN sink' = "retrieve" /\ iter' = 0
       ELSE iter' = iter + 1 /\ UNCHANGED sink
  /\ UNCHANGED <<rd, f, frame, round, cvars, req_sock>>

(* Mutant: the slots are filled from 0, not from start_fnum.               *)
RetrieveOneUnshifted ==
  /\ sink = "retrieve"
  /\ RetrieveAFrame
  /\ f' = IF rc' = "OK" THEN revealed'[Len(revealed')] ELSE f
  /\ frame' = [frame EXCEPT ![iter] = f']
  /\ iter' = iter + 1
  /\ sink' = IF rc' = "EOF_CHUNKS" \/ iter + 1 = rd.total_fnum
               THEN "reply" ELSE "retrieve"
  /\ UNCHANGED <<rd, round, cvars, req_sock, wire>>

(* One turn of the retrieve loop: the slot is filled with f, which         *)
(* RetrieveAFrame leaves alone when it has no frame to return.             *)
RetrieveOne ==
  /\ sink = "retrieve"
  /\ RetrieveAFrame
  /\ f' = IF rc' = "OK" THEN revealed'[Len(revealed')] ELSE f
  /\ frame' = [frame EXCEPT ![rd.start_fnum + iter] = f']
  /\ iter' = iter + 1
  /\ sink' = IF rc' = "EOF_CHUNKS" \/ iter + 1 = rd.total_fnum
               THEN "reply" ELSE "retrieve"
  /\ UNCHANGED <<rd, round, cvars, req_sock, wire>>

RecvReply ==
  /\ sink = "reply"
  /\ proc = "up"
  /\ req_sock = "reply"
  /\ req_sock' = "empty"
  /\ sink' = "process"
  /\ UNCHANGED <<vars, rd, iter, f, frame, round, cvars, wire>>

(* The workers read the message of every slot: a slot that was never       *)
(* filled has none, and the process dies.                                  *)
ProcessFrames ==
  /\ sink = "process"
  /\ proc = "up"
  /\ proc' = IF \E i \in Slots : frame[i] = NoFrame THEN "dead" ELSE "up"
  /\ sink' = "request"
  /\ UNCHANGED <<chunks, frames, eof_f, eof_c, wm_chunk, wm_frame, rc,
                 revealed, sizes, rd, iter, f, frame, round, cvars,
                 req_sock, wire>>

Sink ==
  SendRequest \/ ReceiveOne \/ RetrieveOne \/ RecvReply \/ ProcessFrames

SessionNext == Source \/ Sink

(* Both processes run on, and what is sent on a socket arrives.            *)
SessionSpec ==
  SessionInit /\ [][SessionNext]_allvars /\ WF_allvars(Source)
              /\ WF_allvars(Sink)

---------------------------------------------------------------------------
(* Types, and that no assertion of the manager fails and no worker reads   *)
(* an empty slot, which would end the process.                             *)
SessionTypeOK ==
  /\ TypeOK /\ proc = "up"
  /\ sink \in {"request", "receive", "retrieve", "reply", "process"}
  /\ rd \in Requests
  /\ iter \in 0..rd.total_fnum
  /\ f \in {NoFrame} \cup (ChunkSeq \X FrameSeq)
  /\ frame \in [Slots -> {NoFrame} \cup (ChunkSeq \X FrameSeq)]
  /\ round \in 0..Rounds
  /\ source \in {"idle", "sending"}
  /\ cnt \in Nat
  /\ db \in DbSizes
  /\ req_sock \in {"empty", "request", "reply"}
  /\ wire \in Seq(Desc)

(* The counting of the two sides fits: when the receive loop ends, the     *)
(* source is done and nothing of this round is left in the socket, where   *)
(* the next round would take it for its own.                               *)
NothingLeftOver ==
  sink \in {"retrieve", "reply", "process"} => wire = <<>> /\ source = "idle"

(* The workers find the frames of the range in their slots, in order.  The *)
(* slots behind the range repeat its last frame.                           *)
SlotsInOrder ==
  sink = "process" =>
    \A i \in 0 .. rd.total_fnum - 1 :
       frame[rd.start_fnum + i] =
         <<0, IF i < NumFrames THEN i ELSE NumFrames - 1>>

(* The source answers before it streams, the sink takes the answer after   *)
(* the stream, and neither waits for the other forever.                    *)
RoundCompletes == sink = "receive" ~> sink = "request"
=============================================================================
