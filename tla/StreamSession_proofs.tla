------------------------- MODULE StreamSession_proofs -------------------------
(***************************************************************************)
(* Theorems about the rounds of raw-frame streaming, for any requests,     *)
(* databases and numbers of rounds: the two sides agree on where a round   *)
(* ends; the slots of the first round are filled in order; the second      *)
(* round fills none, and no third one begins.                              *)
(***************************************************************************)
EXTENDS StreamSession, RxManager_proofs, FiniteSetTheorems

USE DEF Unset

(* Every request meets a frame of every database.  The code does not       *)
(* ensure it: without a frame the eof comes for a chunk that is not there. *)
RequestsMeetFrames ==
  \A r \in Requests, n \in DbSizes : r.total_fnum >= 2 /\ n > r.start_fnum

---------------------------------------------------------------------------
(* The inductive invariant.                                                *)

(* Types, whether or not the process of the sink lives.                    *)
SessionTypes ==
  /\ TypeOK
  /\ sink \in {"request", "receive", "retrieve", "reply", "process"}
  /\ rd \in Requests
  /\ iter \in 0..rd.total_fnum
  /\ f \in {NoFrame} \cup (ChunkSeq \X FrameSeq)
  /\ frame \in [Slots -> {NoFrame} \cup (ChunkSeq \X FrameSeq)]
  /\ round \in 0..Rounds
  /\ source \in {"idle", "sending"}
  /\ cnt \in Nat
  /\ db \in DbSizes
  /\ req_sock \in {"empty", "request", "reply"}
  /\ wire \in Seq(Desc)

(* The messages of a round, numbered from 0, and how many have been sent.  *)
Message(k) == [type |-> IF k < NumFrames THEN "FRAME" ELSE "FRAME_EOF",
               c_seq |-> 0, f_seq |-> k]

Sent == IF req_sock = "request" THEN 0
        ELSE IF source = "sending" THEN cnt ELSE NumFrames + 1

(* While the sink receives, what it has received and what is on the wire   *)
(* are the messages sent so far, in order, and the eof is not received;    *)
(* otherwise the source rests and the wire is empty.                       *)
SocketsInv ==
  /\ sink = "receive" =>
       /\ \/ req_sock = "request" /\ source = "idle"
          \/ req_sock = "reply" /\ source = "sending" /\ cnt <= NumFrames
          \/ req_sock = "reply" /\ source = "idle"
       /\ iter <= NumFrames
       /\ iter + Len(wire) = Sent
       /\ \A k \in DOMAIN wire : wire[k] = Message(iter + k - 1)
  /\ sink # "receive" => wire = <<>> /\ source = "idle"
  /\ sink \in {"retrieve", "reply"} => req_sock = "reply"
  /\ sink \in {"process", "request"} => req_sock = "empty"

(* What the sink's slot i holds once it has been filled.                   *)
SlotFrame(i) == <<0, IF i < NumFrames THEN i ELSE NumFrames - 1>>

(* A round is being received: the frames are kept in chunk 0.  In the      *)
(* second round the watermark is past that chunk already.                  *)
Receiving ==
  /\ wm_chunk = round - 1 /\ wm_frame = 0
  /\ chunks = IF iter = 0 THEN {} ELSE {0}
  /\ frames[0] = 0 .. iter - 1
  /\ eof_f[0] = Unset
  /\ f = NoFrame
  /\ \A i \in Slots : frame[i] = NoFrame

(* The first round is being retrieved: one frame a turn, then the chunk is *)
(* left behind, then nothing.                                              *)
RetrievingFirst ==
  /\ IF iter <= NumFrames
     THEN /\ wm_chunk = 0 /\ wm_frame = iter /\ chunks = {0}
          /\ frames[0] = iter .. NumFrames - 1 /\ eof_f[0] = NumFrames
     ELSE wm_chunk = 1 /\ wm_frame = 0 /\ chunks = {}
  /\ f = IF iter = 0 THEN NoFrame ELSE SlotFrame(iter - 1)
  /\ \A i \in 0 .. rd.total_fnum - 1 :
       frame[rd.start_fnum + i] = IF i < iter THEN SlotFrame(i) ELSE NoFrame

(* The second round: the watermark waits for chunk 1, and no slot is       *)
(* filled.                                                                 *)
RetrievingSecond ==
  /\ wm_chunk = 1 /\ wm_frame = 0 /\ chunks = {0}
  /\ f = NoFrame
  /\ \A i \in Slots : frame[i] = NoFrame

ManagerInv ==
  /\ eof_c = Unset
  /\ sink # "request" => round \in {1, 2}
  /\ round <= 2
  /\ sink = "retrieve" => iter < rd.total_fnum
  /\ sink \in {"reply", "process"} => iter = rd.total_fnum
  /\ proc = "up" =>
       /\ sink = "request" => /\ round \in {0, 1} /\ wm_chunk = round
                              /\ wm_frame = 0 /\ chunks = {}
       /\ sink = "receive" => Receiving
       /\ sink \in {"retrieve", "reply", "process"} =>
            /\ NumFrames >= 1
            /\ round = 1 => RetrievingFirst
            /\ round = 2 => RetrievingSecond
  /\ proc = "dead" => /\ sink \in {"request", "retrieve"}
                      /\ round = 2 \/ NumFrames = 0

SessionInv == SessionTypes /\ RxInv /\ SocketsInv /\ ManagerInv

---------------------------------------------------------------------------
(* The source finds at most one frame fewer than the sink asks for, so     *)
(* that the eof has room in the sink's receive loop.                       *)
LEMMA FramesFound ==
  ASSUME SessionTypes
  PROVE  /\ NumFrames \in Nat
         /\ NumFrames <= rd.total_fnum - 1
         /\ RequestsMeetFrames => NumFrames >= 1
<1>1. /\ rd.start_fnum \in Nat /\ rd.total_fnum \in Nat \ {0} /\ db \in Nat
      /\ RequestsMeetFrames => rd.total_fnum >= 2 /\ db > rd.start_fnum
  BY SessionAssumption DEF SessionTypes, RequestsMeetFrames
<1> DEFINE last == IF db < rd.start_fnum + rd.total_fnum - 1
                   THEN db ELSE rd.start_fnum + rd.total_fnum - 1
<1>2. last \in Int
  BY <1>1
<1>3. KeysInRange = (rd.start_fnum + 1) .. last
  BY <1>1 DEF KeysInRange
<1>4. NumFrames = IF rd.start_fnum + 1 > last THEN 0
                  ELSE last - (rd.start_fnum + 1) + 1
  <2> HIDE DEF last
  <2>1. rd.start_fnum + 1 \in Int
    BY <1>1
  <2> QED
    BY <1>2, <1>3, <2>1, FS_Interval DEF NumFrames
<1> QED
  BY <1>1, <1>4

LEMMA CountNow == SessionTypes => NumFrames \in Nat
BY FramesFound

LEMMA CountNext == (SessionTypes => NumFrames \in Nat)'
BY CountNow, PTL

(* The numbers that the messages of a round carry.                         *)
LEMMA MessageType ==
  ASSUME SessionTypes, NEW k \in 0..NumFrames
  PROVE  /\ Message(k) \in Desc
         /\ <<0, k>> \in ChunkSeq \X FrameSeq
<1>1. 0 \in ChunkSeq /\ 0 .. rd.total_fnum - 1 \subseteq FrameSeq
  BY SessionAssumption DEF SessionTypes
<1>2. k \in 0 .. rd.total_fnum - 1
  BY FramesFound, SessionAssumption DEF SessionTypes
<1> QED
  BY <1>1, <1>2 DEF Message, Desc, Types

(* One end of a queue.                                                     *)
LEMMA AppendOne ==
  ASSUME NEW S, NEW q \in Seq(S), NEW x \in S
  PROVE  /\ Append(q, x) \in Seq(S)
         /\ Len(Append(q, x)) = Len(q) + 1
         /\ \A k \in DOMAIN Append(q, x) :
              Append(q, x)[k] = IF k <= Len(q) THEN q[k] ELSE x
         /\ DOMAIN Append(q, x) = 1 .. Len(q) + 1
OBVIOUS

LEMMA TakeOne ==
  ASSUME NEW S, NEW q \in Seq(S), q # <<>>
  PROVE  /\ Head(q) \in S /\ Head(q) = q[1] /\ 1 \in DOMAIN q
         /\ Tail(q) \in Seq(S)
         /\ Len(Tail(q)) = Len(q) - 1
         /\ DOMAIN Tail(q) = 1 .. Len(q) - 1
         /\ \A k \in DOMAIN Tail(q) : k + 1 \in DOMAIN q /\ Tail(q)[k] = q[k + 1]
         /\ Len(q) \in Nat \ {0}
OBVIOUS

(* Seen from the manager, a round is a sequence of its calls, but for the  *)
(* workers, who may kill the process.                                      *)
LEMMA ManagerStep ==
  ASSUME SessionTypes, [SessionNext]_allvars
  PROVE  \/ [Next]_vars
         \/ ProcessFrames
<1>1. CASE ReceiveOne
  <2>1. Head(wire) \in Desc
    BY <1>1, TakeOne DEF ReceiveOne, SessionTypes
  <2> QED
    BY <1>1, <2>1 DEF ReceiveOne, Next
<1>2. CASE RetrieveOne
  BY <1>2 DEF RetrieveOne, Next
<1> QED
  BY <1>1, <1>2 DEF SessionNext, Source, Sink, RecvRequest, SendFrame,
     SendRawEof, SendRequest, RecvReply, allvars

LEMMA ManagerTypesStep ==
  ASSUME SessionTypes, RxInv, [SessionNext]_allvars
  PROVE  TypeOK' /\ RxInv'
<1>1. CASE ProcessFrames
  BY <1>1 DEF ProcessFrames, SessionTypes, TypeOK, RxInv, ErasedIsClean,
     UnreadHasFrame, ChunksBeforeEof, InsideChunk, ToldAtEof
<1>2. CASE [Next]_vars
  BY <1>2, TypeStep, RxInvStep DEF SessionTypes
<1> QED
  BY <1>1, <1>2, ManagerStep

(* Which steps leave which parts of the session alone.                     *)
LEMMA SourceSteps ==
  ASSUME Source
  PROVE  UNCHANGED <<vars, svars, db>> /\ NumFrames' = NumFrames
BY DEF Source, RecvRequest, SendFrame, SendRawEof, NumFrames, KeysInRange,
       svars, Push

LEMMA SinkSteps ==
  ASSUME Sink
  PROVE  /\ UNCHANGED cvars
         /\ ~SendRequest => UNCHANGED rd /\ NumFrames' = NumFrames
BY DEF Sink, SendRequest, ReceiveOne, RetrieveOne, RecvReply, ProcessFrames,
       NumFrames, KeysInRange, cvars

(* Types are kept.  The loops stay inside the request, because the eof     *)
(* comes in time.                                                          *)
LEMMA SessionTypesStep ==
  ASSUME SessionInv, [SessionNext]_allvars
  PROVE  SessionTypes'
<1> USE DEF SessionInv
<1>1. TypeOK' /\ RxInv'
  BY ManagerTypesStep
<1>2. CASE RecvRequest
  BY <1>1, <1>2 DEF RecvRequest, SessionTypes, svars, Slots
<1>3. CASE SendFrame
  <2>1. Message(cnt) = [type |-> "FRAME", c_seq |-> 0, f_seq |-> cnt]
    BY <1>3 DEF SendFrame, Message
  <2>2. Message(cnt) \in Desc
    <3>1. cnt \in 0..NumFrames
      BY <1>3, FramesFound DEF SendFrame, SessionTypes
    <3> QED
      BY <3>1, MessageType
  <2>3. wire' \in Seq(Desc)
    BY <1>3, <2>1, <2>2 DEF SendFrame, Push, SessionTypes
  <2>4. cnt' = cnt + 1 /\ UNCHANGED <<source, req_sock>>
    BY <1>3 DEF SendFrame
  <2> QED
    BY <1>1, <1>3, <2>3, <2>4, SourceSteps DEF Source, SessionTypes, svars, Slots
<1>4. CASE SendRawEof
  <2>1. Message(cnt) = [type |-> "FRAME_EOF", c_seq |-> 0, f_seq |-> cnt]
    BY <1>4, FramesFound DEF SendRawEof, Message
  <2>2. Message(cnt) \in Desc
    <3>1. cnt \in 0..NumFrames
      BY <1>4, FramesFound DEF SendRawEof, SessionTypes
    <3> QED
      BY <3>1, MessageType
  <2>3. wire' \in Seq(Desc)
    BY <1>4, <2>1, <2>2 DEF SendRawEof, Push, SessionTypes
  <2>4. source' = "idle" /\ UNCHANGED <<cnt, req_sock>>
    BY <1>4 DEF SendRawEof
  <2> QED
    BY <1>1, <1>4, <2>3, <2>4, SourceSteps DEF Source, SessionTypes, svars, Slots
<1>5. CASE SendRequest
  <2>1. rd' \in Requests /\ rd'.total_fnum \in Nat
    BY <1>5, SessionAssumption DEF SendRequest
  <2>2. round' \in 0..Rounds
    BY <1>5, SessionAssumption DEF SendRequest, SessionTypes
  <2> QED
    BY <1>1, <1>5, <2>1, <2>2 DEF SendRequest, SessionTypes, cvars
<1>6. CASE ReceiveOne
  <2>1. iter + 1 <= rd.total_fnum /\ rd.total_fnum \in Nat
    BY <1>6, FramesFound, SessionAssumption
       DEF ReceiveOne, SocketsInv, SessionTypes
  <2>2. iter' \in 0..rd.total_fnum
    BY <1>6, <2>1 DEF ReceiveOne, SessionTypes
  <2>3. wire' \in Seq(Desc)
    BY <1>6, TakeOne DEF ReceiveOne, SessionTypes
  <2> QED
    BY <1>1, <1>6, <2>2, <2>3 DEF ReceiveOne, SessionTypes, cvars, Slots
<1>7. CASE RetrieveOne
  <2>1. iter + 1 <= rd.total_fnum /\ rd.total_fnum \in Nat
    BY <1>7, SessionAssumption DEF RetrieveOne, ManagerInv, SessionTypes
  <2>2. iter' \in 0..rd.total_fnum
    BY <1>7, <2>1 DEF RetrieveOne, SessionTypes
  <2>3. f' \in {NoFrame} \cup (ChunkSeq \X FrameSeq)
    <3>1. CASE rc' = "OK"
      <4>1. revealed' # <<>>
        BY <1>7, <3>1, <1>1 DEF RetrieveOne, RetrieveAFrame, RevealFrame,
           RevealNothing, TypeOK, SessionTypes
      <4>2. revealed'[Len(revealed')] \in ChunkSeq \X FrameSeq
        BY <1>1, <4>1 DEF TypeOK
      <4> QED
        BY <1>7, <3>1, <4>2 DEF RetrieveOne
    <3>2. CASE rc' # "OK"
      BY <1>7, <3>2 DEF RetrieveOne, SessionTypes
    <3> QED
      BY <3>1, <3>2
  <2>4. frame' \in [Slots -> {NoFrame} \cup (ChunkSeq \X FrameSeq)]
    BY <1>7, <2>3 DEF RetrieveOne, SessionTypes
  <2>5. /\ sink' \in {"reply", "retrieve"}
        /\ UNCHANGED <<rd, round, cvars, req_sock, wire>>
    BY <1>7 DEF RetrieveOne
  <2> QED
    BY <1>1, <2>2, <2>3, <2>4, <2>5 DEF SessionTypes, cvars, Slots
<1>8. CASE RecvReply
  BY <1>1, <1>8 DEF RecvReply, SessionTypes, cvars, Slots
<1>9. CASE ProcessFrames
  BY <1>1, <1>9 DEF ProcessFrames, SessionTypes, cvars, Slots
<1>10. CASE UNCHANGED allvars
  BY <1>1, <1>10 DEF allvars, SessionTypes, svars, cvars, Slots
<1> QED
  BY <1>2, <1>3, <1>4, <1>5, <1>6, <1>7, <1>8, <1>9, <1>10
     DEF SessionNext, Source, Sink

(* A message that the source appends is the next one.                      *)
LEMMA SendKeepsOrder ==
  ASSUME SessionTypes, SocketsInv, source = "sending", NEW m, m = Message(cnt),
         m \in Desc, Push(m)
  PROVE  /\ Len(wire') = Len(wire) + 1
         /\ \A k \in DOMAIN wire' : wire'[k] = Message(iter + k - 1)
<1>1. /\ wire \in Seq(Desc) /\ iter \in Nat /\ cnt \in Nat /\ Len(wire) \in Nat
      /\ iter + Len(wire) = cnt
      /\ DOMAIN wire = 1..Len(wire)
  BY SessionAssumption DEF SessionTypes, SocketsInv, Sent
<1>2. wire' = Append(wire, m)
  BY DEF Push
<1>3. /\ Len(wire') = Len(wire) + 1 /\ DOMAIN wire' = 1 .. Len(wire) + 1
      /\ \A k \in DOMAIN wire' : wire'[k] = IF k <= Len(wire) THEN wire[k] ELSE m
  BY <1>1, <1>2, AppendOne
<1>4. ASSUME NEW k \in DOMAIN wire' PROVE wire'[k] = Message(iter + k - 1)
  <2>1. CASE k <= Len(wire)
    <3>1. k \in DOMAIN wire
      BY <1>1, <1>3, <2>1
    <3> QED
      BY <1>3, <2>1, <3>1 DEF SocketsInv
  <2>2. CASE ~(k <= Len(wire))
    <3>1. iter + k - 1 = cnt
      BY <1>1, <1>3, <2>2
    <3> QED
      BY <1>3, <2>2, <3>1
  <2> QED
    BY <2>1, <2>2
<1> QED
  BY <1>3, <1>4

(* What the sink takes from the wire is the next message; the eof, and     *)
(* only that, ends its receive loop, and it is the last on the wire.       *)
LEMMA ReceiveInOrder ==
  ASSUME SessionTypes, SocketsInv, ReceiveOne
  PROVE  /\ Head(wire) = Message(iter)
         /\ iter < NumFrames => sink' = "receive" /\ iter' = iter + 1
         /\ iter = NumFrames =>
              /\ sink' = "retrieve" /\ iter' = 0
              /\ Len(wire) = 1 /\ source = "idle" /\ req_sock = "reply"
<1>1. /\ sink = "receive" /\ wire # <<>> /\ wire \in Seq(Desc)
      /\ iter \in Nat /\ cnt \in Nat /\ rd.total_fnum \in Nat
  BY SessionAssumption DEF ReceiveOne, SessionTypes
<1>2. NumFrames \in Nat /\ NumFrames <= rd.total_fnum - 1
  BY FramesFound
<1>3. Head(wire) = wire[1] /\ 1 \in DOMAIN wire /\ Len(wire) \in Nat \ {0}
  BY <1>1, TakeOne
<1>4. Head(wire) = Message(iter)
  <2>1. wire[1] = Message(iter + 1 - 1) /\ iter + 1 - 1 = iter
    BY <1>1, <1>3 DEF SocketsInv
  <2> QED
    BY <1>3, <2>1
<1>5. CASE iter < NumFrames
  <2>1. Head(wire).type = "FRAME"
    BY <1>4, <1>5 DEF Message
  <2>2. iter + 1 # rd.total_fnum
    BY <1>1, <1>2, <1>5
  <2> QED
    BY <1>1, <1>2, <1>4, <1>5, <2>1, <2>2 DEF ReceiveOne
<1>6. CASE ~(iter < NumFrames)
  <2>1. iter = NumFrames
    BY <1>1, <1>2, <1>6 DEF SocketsInv
  <2>2. Head(wire).type = "FRAME_EOF"
    BY <1>4, <1>6 DEF Message
  <2>3. sink' = "retrieve" /\ iter' = 0
    BY <2>2 DEF ReceiveOne
  <2>4. /\ NumFrames + Len(wire) = Sent
        /\ \/ req_sock = "request"
           \/ req_sock = "reply" /\ source = "sending" /\ cnt <= NumFrames
           \/ req_sock = "reply" /\ source = "idle"
    BY <1>1, <2>1 DEF SocketsInv
  <2>5. req_sock = "reply" /\ source = "idle" /\ Sent = NumFrames + 1
    BY <1>1, <1>2, <1>3, <2>4 DEF Sent
  <2>6. NumFrames + Len(wire) = NumFrames + 1
    BY <2>4, <2>5
  <2>7. Len(wire) = 1
    <3>1. \A a, b \in Nat : a + b = a + 1 => b = 1
      OBVIOUS
    <3>2. Len(wire) \in Nat
      BY <1>3
    <3> QED
      BY <1>2, <2>6, <3>1, <3>2, Zenon
  <2> QED
    BY <1>2, <1>4, <2>1, <2>3, <2>5, <2>7
<1> QED
  BY <1>5, <1>6

LEMMA SocketsStep ==
  ASSUME SessionInv, [SessionNext]_allvars
  PROVE  SocketsInv'
<1> USE DEF SessionInv
<1>1. /\ iter \in Nat /\ cnt \in Nat /\ NumFrames \in Nat
      /\ wire \in Seq(Desc)
  BY FramesFound, SessionAssumption DEF SessionTypes
<1>2. ~SendRequest => NumFrames' = NumFrames /\ \A k : Message(k)' = Message(k)
  <2>1. CASE Source
    BY <2>1, SourceSteps DEF Message
  <2>2. CASE Sink
    BY <2>2, SinkSteps DEF Message
  <2>3. CASE UNCHANGED allvars
    BY <2>3 DEF allvars, svars, cvars, NumFrames, KeysInRange, Message
  <2> QED
    BY <2>1, <2>2, <2>3 DEF SessionNext
<1>3. CASE RecvRequest
  <2>1. /\ sink = "receive" /\ iter <= NumFrames /\ iter + Len(wire) = 0
        /\ \A k \in DOMAIN wire : wire[k] = Message(iter + k - 1)
    BY <1>3 DEF RecvRequest, SocketsInv, Sent, SessionTypes
  <2>2. /\ cnt' = 0 /\ source' = "sending" /\ req_sock' = "reply"
        /\ UNCHANGED <<sink, iter, wire>>
    BY <1>3 DEF RecvRequest, svars
  <2>3. ~SendRequest
    BY <2>1 DEF SendRequest
  <2> QED
    BY <1>1, <1>2, <2>1, <2>2, <2>3 DEF SocketsInv, Sent
<1>4. CASE SendFrame
  <2>1. source = "sending" /\ sink = "receive" /\ req_sock = "reply"
        /\ cnt < NumFrames /\ iter <= NumFrames /\ iter + Len(wire) = cnt
    BY <1>4 DEF SendFrame, SocketsInv, Sent, SessionTypes
  <2>2. cnt' = cnt + 1 /\ UNCHANGED <<source, req_sock, sink, iter>>
    BY <1>4 DEF SendFrame, svars
  <2>3. ~SendRequest
    BY <2>1 DEF SendRequest
  <2>4. Message(cnt) = [type |-> "FRAME", c_seq |-> 0, f_seq |-> cnt]
        /\ Push(Message(cnt))
    BY <1>4 DEF SendFrame, Message
  <2>5. Message(cnt) \in Desc
    <3>1. cnt \in 0..NumFrames
      BY <1>1, <2>1
    <3> QED
      BY <3>1, MessageType
  <2>6. /\ Len(wire') = Len(wire) + 1
        /\ \A k \in DOMAIN wire' : wire'[k] = Message(iter + k - 1)
    BY <2>1, <2>4, <2>5, SendKeepsOrder
  <2>7. Sent' = cnt + 1 /\ iter + Len(wire') = cnt + 1
    BY <1>1, <2>1, <2>2, <2>6 DEF Sent
  <2> QED
    BY <1>1, <1>2, <2>1, <2>2, <2>3, <2>6, <2>7 DEF SocketsInv
<1>5. CASE SendRawEof
  <2>1. source = "sending" /\ sink = "receive" /\ req_sock = "reply"
        /\ cnt = NumFrames /\ iter <= NumFrames /\ iter + Len(wire) = cnt
    BY <1>5 DEF SendRawEof, SocketsInv, Sent, SessionTypes
  <2>2. source' = "idle" /\ UNCHANGED <<cnt, req_sock, sink, iter>>
    BY <1>5 DEF SendRawEof, svars
  <2>3. ~SendRequest
    BY <2>1 DEF SendRequest
  <2>4. Message(cnt) = [type |-> "FRAME_EOF", c_seq |-> 0, f_seq |-> cnt]
        /\ Push(Message(cnt))
    BY <1>1, <1>5, <2>1 DEF SendRawEof, Message
  <2>5. Message(cnt) \in Desc
    <3>1. cnt \in 0..NumFrames
      BY <1>1, <2>1
    <3> QED
      BY <3>1, MessageType
  <2>6. /\ Len(wire') = Len(wire) + 1
        /\ \A k \in DOMAIN wire' : wire'[k] = Message(iter + k - 1)
    BY <2>1, <2>4, <2>5, SendKeepsOrder
  <2>7. Sent' = NumFrames + 1 /\ iter + Len(wire') = NumFrames + 1
    BY <1>1, <1>2, <2>1, <2>2, <2>3, <2>6 DEF Sent
  <2> QED
    BY <1>1, <1>2, <2>1, <2>2, <2>3, <2>6, <2>7 DEF SocketsInv
<1>6. CASE SendRequest
  <2>1. wire = <<>> /\ source = "idle"
    BY <1>6 DEF SendRequest, SocketsInv
  <2>2. /\ iter' = 0 /\ sink' = "receive" /\ req_sock' = "request"
        /\ wire' = <<>> /\ source' = "idle"
    BY <1>6, <2>1 DEF SendRequest, cvars
  <2>3. NumFrames' \in Nat
    BY SessionTypesStep, CountNext
  <2> QED
    BY <2>2, <2>3 DEF SocketsInv, Sent
<1>7. CASE ReceiveOne
  <2>1. ~SendRequest /\ sink = "receive" /\ wire # <<>> /\ wire' = Tail(wire)
        /\ UNCHANGED <<source, cnt, req_sock>> /\ iter <= NumFrames
    BY <1>7 DEF ReceiveOne, SendRequest, cvars, SocketsInv
  <2>2. /\ Len(wire') = Len(wire) - 1 /\ Len(wire) \in Nat \ {0}
        /\ \A k \in DOMAIN wire' : /\ k \in Nat /\ k + 1 \in DOMAIN wire
                                  /\ wire'[k] = wire[k + 1]
    BY <1>1, <2>1, TakeOne
  <2>3. CASE iter < NumFrames
    <3>1. sink' = "receive" /\ iter' = iter + 1
      BY <1>7, <2>3, ReceiveInOrder
    <3>2. ASSUME NEW k \in DOMAIN wire'
          PROVE  wire'[k] = Message(iter' + k - 1)
      <4>1. wire[k + 1] = Message(iter + (k + 1) - 1)
        BY <2>1, <2>2 DEF SocketsInv
      <4>2. iter + (k + 1) - 1 = iter' + k - 1
        BY <1>1, <2>2, <3>1
      <4> QED
        BY <2>2, <4>1, <4>2
    <3>3. iter' + Len(wire') = iter + Len(wire) /\ iter' <= NumFrames
      BY <1>1, <2>2, <2>3, <3>1
    <3>4. Sent' = Sent
      BY <1>2, <2>1 DEF Sent
    <3> QED
      BY <1>2, <2>1, <3>1, <3>2, <3>3, <3>4 DEF SocketsInv
  <2>4. CASE iter = NumFrames
    <3>1. /\ sink' = "retrieve" /\ Len(wire) = 1
          /\ source = "idle" /\ req_sock = "reply"
      BY <1>7, <2>4, ReceiveInOrder
    <3>2. wire' = <<>>
      BY <1>1, <2>1, <3>1
    <3> QED
      BY <2>1, <3>1, <3>2 DEF SocketsInv
  <2> QED
    BY <1>1, <2>1, <2>3, <2>4
<1>8. CASE RetrieveOne
  BY <1>8 DEF RetrieveOne, SocketsInv, cvars
<1>9. CASE RecvReply
  BY <1>9 DEF RecvReply, SocketsInv, cvars
<1>10. CASE ProcessFrames
  BY <1>10 DEF ProcessFrames, SocketsInv, cvars
<1>11. CASE UNCHANGED allvars
  <2>1. /\ UNCHANGED <<sink, iter, wire, source, cnt, req_sock>>
        /\ NumFrames' = NumFrames /\ \A k : Message(k)' = Message(k)
    BY <1>11 DEF allvars, svars, cvars, NumFrames, KeysInRange, Message
  <2> QED
    BY <2>1 DEF SocketsInv, Sent
<1> QED
  BY <1>3, <1>4, <1>5, <1>6, <1>7, <1>8, <1>9, <1>10, <1>11
     DEF SessionNext, Source, Sink

---------------------------------------------------------------------------
(* The three things that a call of RetrieveAFrame does in a session, where *)
(* no chunk eof is ever sent.                                              *)
LEMMA RetrieveReveals ==
  ASSUME TypeOK, eof_c = Unset, wm_chunk \in chunks,
         wm_frame \in frames[wm_chunk], eof_f[wm_chunk] # wm_frame,
         RetrieveAFrame
  PROVE  /\ rc' = "OK"
         /\ revealed'[Len(revealed')] = <<wm_chunk, wm_frame>>
         /\ frames' = [frames EXCEPT ![wm_chunk] = @ \ {wm_frame}]
         /\ wm_frame' = wm_frame + 1
         /\ UNCHANGED <<chunks, eof_f, eof_c, wm_chunk, proc>>
<1>1. ~AtFrameEof
  BY DEF AtFrameEof
<1>2. /\ NextChunk = wm_chunk /\ NextFrame = wm_frame /\ FramesLeft = frames
      /\ wm_chunk # eof_c
  BY <1>1 DEF NextChunk, NextFrame, FramesLeft, TypeOK
<1>3. UNCHANGED <<chunks, eof_f, eof_c>> /\ wm_chunk' = wm_chunk
  BY <1>1, <1>2 DEF RetrieveAFrame, AdvanceChunk, SameChunk
<1>4. RevealFrame(wm_chunk, wm_frame)
  BY <1>2, <1>3 DEF RetrieveAFrame, RevealNothing
<1>5. revealed' = Append(revealed, <<wm_chunk, wm_frame>>)
  BY <1>4 DEF RevealFrame
<1>6. revealed'[Len(revealed')] = <<wm_chunk, wm_frame>>
  <2>1. <<wm_chunk, wm_frame>> \in ChunkSeq \X FrameSeq
    BY DEF TypeOK
  <2> QED
    BY <1>5, <2>1 DEF TypeOK
<1> QED
  BY <1>2, <1>3, <1>4, <1>6 DEF RevealFrame

LEMMA RetrieveHops ==
  ASSUME TypeOK, eof_c = Unset, wm_chunk \in chunks,
         eof_f[wm_chunk] = wm_frame, wm_chunk + 1 \notin chunks,
         RetrieveAFrame
  PROVE  /\ rc' = "AGAIN"
         /\ chunks' = chunks \ {wm_chunk}
         /\ wm_chunk' = wm_chunk + 1 /\ wm_frame' = 0
         /\ UNCHANGED <<eof_c, proc>>
<1>1. wm_chunk \in Nat /\ wm_chunk # eof_c /\ wm_chunk + 1 # eof_c
  BY DEF TypeOK
<1>2. AtFrameEof
  BY <1>1 DEF AtFrameEof
<1>3. NextChunk = wm_chunk + 1 /\ NextFrame = 0
  BY <1>2 DEF NextChunk, NextFrame
<1>4. chunks' = chunks \ {wm_chunk} /\ eof_c' = eof_c /\ proc = "up"
  BY <1>2 DEF RetrieveAFrame, AdvanceChunk, SameChunk
<1>5. RevealNothing(wm_chunk + 1, 0) /\ wm_chunk' = wm_chunk + 1
  BY <1>3, <1>4 DEF RetrieveAFrame, RevealFrame
<1> QED
  BY <1>1, <1>4, <1>5 DEF RevealNothing, StartOfChunk

LEMMA RetrieveWaits ==
  ASSUME TypeOK, eof_c = Unset, wm_chunk \notin chunks, wm_frame = 0,
         RetrieveAFrame
  PROVE  /\ rc' = "AGAIN"
         /\ UNCHANGED <<chunks, frames, eof_f, eof_c, wm_chunk, wm_frame, proc>>
<1>1. wm_chunk \in Nat /\ wm_chunk # eof_c
  BY DEF TypeOK
<1>2. ~AtFrameEof
  BY DEF AtFrameEof
<1>3. NextChunk = wm_chunk /\ NextFrame = 0 /\ FramesLeft = frames
  BY <1>2 DEF NextChunk, NextFrame, FramesLeft
<1>4. UNCHANGED <<chunks, eof_f, eof_c>> /\ proc = "up"
  BY <1>2 DEF RetrieveAFrame, AdvanceChunk, SameChunk
<1>5. RevealNothing(wm_chunk, 0) /\ wm_chunk' = wm_chunk
  BY <1>3, <1>4 DEF RetrieveAFrame, RevealFrame
<1> QED
  BY <1>1, <1>3, <1>4, <1>5 DEF RevealNothing, StartOfChunk

(* What the sink receives goes into chunk 0; only an eof without a frame   *)
(* before it kills the process.                                            *)
LEMMA ReceiveFrame ==
  ASSUME SessionTypes, eof_c = Unset, proc = "up", Receiving,
         iter < NumFrames, iter \in Nat,
         DepositAFrame(Message(iter)) \/ DepositADesc(Message(iter))
  PROVE  /\ chunks' = {0} /\ frames'[0] = 0 .. iter
         /\ UNCHANGED <<eof_f, eof_c, wm_chunk, wm_frame, proc>>
<1>1. Message(iter) = [type |-> "FRAME", c_seq |-> 0, f_seq |-> iter]
  BY DEF Message
<1>2. DepositAFrame(Message(iter))
  BY <1>1 DEF DepositADesc, DepositChunkEof, DepositFrameEof
<1>3. ~BadFrame(0, iter)
  BY DEF BadFrame, Receiving
<1>4. /\ chunks' = chunks \cup {0}
      /\ frames' = [frames EXCEPT ![0] = @ \cup {iter}]
      /\ UNCHANGED <<eof_f, eof_c, wm_chunk, wm_frame, proc>>
  BY <1>1, <1>2, <1>3 DEF DepositAFrame
<1>5. frames'[0] = (0 .. iter - 1) \cup {iter}
  BY <1>4, SessionAssumption DEF Receiving, SessionTypes, TypeOK
<1>6. (0 .. iter - 1) \cup {iter} = 0 .. iter
  OBVIOUS
<1> QED
  BY <1>4, <1>5, <1>6 DEF Receiving

LEMMA ReceiveEof ==
  ASSUME SessionTypes, eof_c = Unset, proc = "up", Receiving,
         iter = NumFrames, iter \in Nat,
         DepositAFrame(Message(iter)) \/ DepositADesc(Message(iter))
  PROVE  /\ UNCHANGED <<chunks, frames, eof_c, wm_chunk, wm_frame>>
         /\ IF NumFrames = 0 THEN proc' = "dead"
            ELSE proc' = "up" /\ eof_f'[0] = NumFrames
<1>1. Message(iter) = [type |-> "FRAME_EOF", c_seq |-> 0, f_seq |-> iter]
  BY DEF Message
<1>2. DepositFrameEof(Message(iter))
  BY <1>1 DEF DepositADesc, DepositAFrame, DepositChunkEof
<1>3. CASE NumFrames = 0
  <2>1. BadFrameEof(0, iter)
    BY <1>3 DEF BadFrameEof, Receiving
  <2> QED
    BY <1>1, <1>2, <1>3, <2>1 DEF DepositFrameEof, Abort
<1>4. CASE NumFrames # 0
  <2>1. ~BadFrameEof(0, iter) /\ ~LastKeyUndefined(0)
    <3>1. 0 \in 0 .. iter - 1 /\ \A g \in 0 .. iter - 1 : ~(iter <= g)
      BY <1>4
    <3> QED
      BY <1>4, <3>1 DEF BadFrameEof, LastKeyUndefined, Receiving
  <2>2. /\ eof_f' = [eof_f EXCEPT ![0] = iter]
        /\ UNCHANGED <<chunks, frames, eof_c, wm_chunk, wm_frame, proc>>
    BY <1>1, <1>2, <2>1 DEF DepositFrameEof
  <2> QED
    BY <1>4, <2>2, SessionAssumption DEF SessionTypes, TypeOK
<1> QED
  BY <1>3, <1>4

(* Receiving keeps the manager as its round needs it.                      *)
LEMMA ReceiveKeepsRound ==
  ASSUME SessionInv, ReceiveOne
  PROVE  ManagerInv'
<1> USE DEF SessionInv
<1>1. /\ sink = "receive" /\ proc = "up" /\ eof_c = Unset /\ round \in {1, 2}
      /\ Receiving
      /\ DepositAFrame(Head(wire)) \/ DepositADesc(Head(wire))
      /\ UNCHANGED <<rd, f, frame, round>>
  BY DEF ReceiveOne, ManagerInv, DepositAFrame, DepositADesc
<1>2. /\ iter \in Nat /\ NumFrames \in Nat /\ iter <= NumFrames
      /\ NumFrames' = NumFrames /\ Slots' = Slots
      /\ \A i : SlotFrame(i)' = SlotFrame(i)
      /\ rd.start_fnum \in Nat /\ rd.total_fnum \in Nat \ {0}
  BY <1>1, FramesFound, SessionAssumption
     DEF SessionTypes, SocketsInv, ReceiveOne, cvars, NumFrames, KeysInRange,
         Slots, SlotFrame
<1>3. CASE iter < NumFrames
  <2>1. sink' = "receive" /\ iter' = iter + 1
    BY <1>3, ReceiveInOrder
  <2>2. /\ chunks' = {0} /\ frames'[0] = 0 .. iter
        /\ UNCHANGED <<eof_f, eof_c, wm_chunk, wm_frame, proc>>
    BY <1>1, <1>2, <1>3, ReceiveInOrder, ReceiveFrame
  <2>3. iter' - 1 = iter /\ iter' # 0
    BY <1>2, <2>1
  <2>4. Receiving'
    BY <1>1, <1>2, <2>1, <2>2, <2>3 DEF Receiving
  <2> QED
    BY <1>1, <2>1, <2>2, <2>4 DEF ManagerInv
<1>4. CASE iter = NumFrames
  <2>1. sink' = "retrieve" /\ iter' = 0
    BY <1>4, ReceiveInOrder
  <2>2. /\ UNCHANGED <<chunks, frames, eof_c, wm_chunk, wm_frame>>
        /\ IF NumFrames = 0 THEN proc' = "dead"
           ELSE proc' = "up" /\ eof_f'[0] = NumFrames
    BY <1>1, <1>2, <1>4, ReceiveInOrder, ReceiveEof
  <2>3. CASE NumFrames = 0
    BY <1>1, <1>2, <2>1, <2>2, <2>3 DEF ManagerInv
  <2>4. CASE NumFrames # 0
    <3>1. /\ chunks' = {0} /\ frames'[0] = 0 .. NumFrames - 1
          /\ eof_f'[0] = NumFrames /\ wm_chunk' = round - 1 /\ wm_frame' = 0
          /\ f' = NoFrame /\ \A i \in Slots : frame'[i] = NoFrame
      BY <1>1, <1>2, <1>4, <2>2, <2>4 DEF Receiving
    <3>2. ASSUME round = 1 PROVE RetrievingFirst'
      <4>1. ASSUME NEW i \in 0 .. rd.total_fnum - 1
            PROVE  rd.start_fnum + i \in Slots /\ ~(i < 0)
        BY <1>2 DEF Slots
      <4> QED
        BY <1>1, <1>2, <2>1, <3>1, <3>2, <4>1 DEF RetrievingFirst
    <3>3. ASSUME round = 2 PROVE RetrievingSecond'
      BY <1>1, <1>2, <3>1, <3>3 DEF RetrievingSecond
    <3> QED
      BY <1>1, <1>2, <2>1, <2>2, <2>4, <3>2, <3>3 DEF ManagerInv
  <2> QED
    BY <2>3, <2>4
<1> QED
  BY <1>2, <1>3, <1>4

(* A turn of the retrieve loop in the first round: the next frame, then    *)
(* the end of the chunk, then nothing.                                     *)
LEMMA RetrieveFirst ==
  ASSUME SessionInv, RetrieveOne, round = 1
  PROVE  /\ eof_c' = Unset /\ rc' # "EOF_CHUNKS" /\ proc' = "up"
         /\ RetrievingFirst'
<1> USE DEF SessionInv
<1>1. /\ sink = "retrieve" /\ proc = "up" /\ eof_c = Unset
      /\ RetrievingFirst /\ iter < rd.total_fnum /\ NumFrames >= 1
      /\ RetrieveAFrame /\ TypeOK
  BY DEF RetrieveOne, ManagerInv, RetrieveAFrame, SessionTypes
<1>2. /\ iter \in Nat /\ NumFrames \in Nat /\ 0 \in ChunkSeq
      /\ NumFrames' = NumFrames /\ Slots' = Slots /\ rd' = rd
      /\ \A i : SlotFrame(i)' = SlotFrame(i)
      /\ rd.start_fnum \in Nat /\ rd.total_fnum \in Nat \ {0}
      /\ iter' = iter + 1
      /\ f' = IF rc' = "OK" THEN revealed'[Len(revealed')] ELSE f
      /\ frame' = [frame EXCEPT ![rd.start_fnum + iter] = f']
  BY <1>1, FramesFound, SessionAssumption
     DEF SessionTypes, RetrieveOne, cvars, NumFrames, KeysInRange,
         Slots, SlotFrame
<1>3. ASSUME f' = SlotFrame(iter)
      PROVE  \A i \in 0 .. rd.total_fnum - 1 :
               frame'[rd.start_fnum + i] =
                 IF i < iter' THEN SlotFrame(i)' ELSE NoFrame
  <2>1. ASSUME NEW i \in 0 .. rd.total_fnum - 1
        PROVE  frame'[rd.start_fnum + i] =
                 IF i < iter + 1 THEN SlotFrame(i) ELSE NoFrame
    <3>1. rd.start_fnum + i \in DOMAIN frame
      BY <1>2 DEF SessionTypes, Slots
    <3>2. frame'[rd.start_fnum + i] =
            IF i = iter THEN f' ELSE frame[rd.start_fnum + i]
      BY <1>2, <3>1
    <3>3. frame[rd.start_fnum + i] = IF i < iter THEN SlotFrame(i) ELSE NoFrame
      BY <1>1 DEF RetrievingFirst
    <3> QED
      BY <1>2, <1>3, <3>2, <3>3
  <2> QED
    BY <1>2, <2>1
<1>4. CASE iter < NumFrames
  <2>1. /\ wm_chunk = 0 /\ wm_frame = iter /\ chunks = {0}
        /\ frames[0] = iter .. NumFrames - 1 /\ eof_f[0] = NumFrames
    BY <1>1, <1>2, <1>4 DEF RetrievingFirst
  <2>2. /\ rc' = "OK" /\ revealed'[Len(revealed')] = <<0, iter>>
        /\ frames' = [frames EXCEPT ![0] = @ \ {iter}]
        /\ wm_frame' = iter + 1
        /\ UNCHANGED <<chunks, eof_f, eof_c, wm_chunk, proc>>
    <3>1. iter \in iter .. NumFrames - 1 /\ NumFrames # iter
      BY <1>2, <1>4
    <3> QED
      BY <1>1, <2>1, <3>1, RetrieveReveals
  <2>3. f' = SlotFrame(iter)
    BY <1>2, <1>4, <2>2 DEF SlotFrame
  <2>4. frames'[0] = iter + 1 .. NumFrames - 1
    <3>1. frames'[0] = (iter .. NumFrames - 1) \ {iter}
      BY <1>1, <1>2, <2>1, <2>2 DEF TypeOK
    <3>2. (iter .. NumFrames - 1) \ {iter} = iter + 1 .. NumFrames - 1
      BY <1>2
    <3> QED
      BY <3>1, <3>2
  <2>5. iter' <= NumFrames /\ iter' # 0 /\ iter' - 1 = iter
    BY <1>2, <1>4
  <2>6. RetrievingFirst'
    BY <1>2, <1>3, <2>1, <2>2, <2>3, <2>4, <2>5 DEF RetrievingFirst
  <2> QED
    BY <1>1, <2>2, <2>6
<1>5. CASE iter >= NumFrames
  <2>1. f = SlotFrame(iter - 1) /\ SlotFrame(iter - 1) = SlotFrame(iter)
    BY <1>1, <1>2, <1>5 DEF RetrievingFirst, SlotFrame
  <2>2. /\ rc' = "AGAIN" /\ chunks' = {} /\ wm_chunk' = 1 /\ wm_frame' = 0
        /\ UNCHANGED <<eof_c, proc>>
    <3>1. CASE iter = NumFrames
      <4>1. /\ wm_chunk = 0 /\ wm_frame = NumFrames /\ chunks = {0}
            /\ eof_f[0] = NumFrames
        BY <1>1, <1>2, <3>1 DEF RetrievingFirst
      <4> QED
        BY <1>1, <4>1, RetrieveHops
    <3>2. CASE iter # NumFrames
      <4>1. wm_chunk = 1 /\ wm_frame = 0 /\ chunks = {}
        BY <1>1, <1>2, <1>5, <3>2 DEF RetrievingFirst
      <4> QED
        BY <1>1, <4>1, RetrieveWaits
    <3> QED
      BY <3>1, <3>2
  <2>3. f' = SlotFrame(iter)
    BY <1>2, <2>1, <2>2
  <2>4. ~(iter' <= NumFrames) /\ iter' # 0 /\ iter' - 1 = iter
    BY <1>2, <1>5
  <2>5. RetrievingFirst'
    BY <1>2, <1>3, <2>2, <2>3, <2>4 DEF RetrievingFirst
  <2> QED
    BY <1>1, <2>2, <2>5
<1> QED
  BY <1>2, <1>4, <1>5

(* A turn of the retrieve loop in the second round: nothing.               *)
LEMMA RetrieveSecond ==
  ASSUME SessionInv, RetrieveOne, round = 2
  PROVE  /\ eof_c' = Unset /\ rc' # "EOF_CHUNKS" /\ proc' = "up"
         /\ RetrievingSecond'
<1> USE DEF SessionInv
<1>1. /\ proc = "up" /\ eof_c = Unset /\ RetrievingSecond
      /\ RetrieveAFrame /\ TypeOK
  BY DEF RetrieveOne, ManagerInv, RetrieveAFrame, SessionTypes
<1>2. /\ rc' = "AGAIN"
      /\ UNCHANGED <<chunks, eof_c, wm_chunk, wm_frame, proc>>
  BY <1>1, RetrieveWaits DEF RetrievingSecond
<1>3. f' = f /\ frame' = [frame EXCEPT ![rd.start_fnum + iter] = f] /\ rd' = rd
  BY <1>2 DEF RetrieveOne
<1>4. \A i \in Slots' : frame'[i] = NoFrame
  BY <1>1, <1>3 DEF RetrievingSecond, SessionTypes, Slots
<1> QED
  BY <1>1, <1>2, <1>3, <1>4 DEF RetrievingSecond

(* The workers: behind the first round every slot is filled, behind the    *)
(* second one none is, and the process dies.                               *)
LEMMA ProcessKeepsRound ==
  ASSUME SessionInv, ProcessFrames
  PROVE  ManagerInv'
<1> USE DEF SessionInv
<1>1. /\ sink = "process" /\ proc = "up" /\ eof_c = Unset /\ round \in {1, 2}
      /\ iter = rd.total_fnum /\ NumFrames >= 1
      /\ sink' = "request"
      /\ proc' = IF \E i \in Slots : frame[i] = NoFrame THEN "dead" ELSE "up"
      /\ UNCHANGED <<chunks, eof_c, wm_chunk, wm_frame, round>>
  BY DEF ProcessFrames, ManagerInv
<1>2. /\ rd.start_fnum \in Nat /\ rd.total_fnum \in Nat \ {0}
      /\ NumFrames \in Nat /\ NumFrames <= rd.total_fnum - 1
  BY FramesFound, SessionAssumption DEF SessionTypes
<1>3. CASE round = 1
  <2>1. RetrievingFirst
    BY <1>1, <1>3 DEF ManagerInv
  <2>2. wm_chunk = 1 /\ wm_frame = 0 /\ chunks = {}
    BY <1>1, <1>2, <2>1 DEF RetrievingFirst
  <2>3. ASSUME NEW i \in Slots PROVE frame[i] # NoFrame
    <3>1. /\ i - rd.start_fnum \in 0 .. rd.total_fnum - 1
          /\ rd.start_fnum + (i - rd.start_fnum) = i
          /\ i - rd.start_fnum < iter
      BY <1>1, <1>2 DEF Slots
    <3>2. frame[i] = SlotFrame(i - rd.start_fnum)
      BY <2>1, <3>1 DEF RetrievingFirst
    <3> QED
      BY <3>2 DEF SlotFrame, NoFrame
  <2>4. proc' = "up"
    BY <1>1, <2>3
  <2> QED
    BY <1>1, <1>3, <2>2, <2>4 DEF ManagerInv
<1>4. CASE round = 2
  <2>1. RetrievingSecond
    BY <1>1, <1>4 DEF ManagerInv
  <2>2. rd.start_fnum \in Slots
    BY <1>2 DEF Slots
  <2>3. proc' = "dead"
    BY <1>1, <2>1, <2>2 DEF RetrievingSecond
  <2> QED
    BY <1>1, <1>4, <2>3 DEF ManagerInv
<1> QED
  BY <1>1, <1>3, <1>4

(* What does not touch the manager, nor the sink's loops, keeps their      *)
(* state.                                                                  *)
LEMMA RoundUntouched ==
  ASSUME ManagerInv, UNCHANGED <<vars, rd, iter, f, frame, round>>,
         NumFrames' = NumFrames,
         \/ sink' = sink
         \/ sink = "reply" /\ proc = "up" /\ sink' = "process"
  PROVE  ManagerInv'
<1>1. /\ Receiving' <=> Receiving
      /\ RetrievingFirst' <=> RetrievingFirst
      /\ RetrievingSecond' <=> RetrievingSecond
  BY DEF vars, Receiving, RetrievingFirst, RetrievingSecond, Slots, SlotFrame
<1> QED
  BY <1>1 DEF ManagerInv, vars

LEMMA ManagerInvStep ==
  ASSUME SessionInv, [SessionNext]_allvars
  PROVE  ManagerInv'
<1> USE DEF SessionInv
<1>1. CASE Source
  BY <1>1, SourceSteps, RoundUntouched DEF svars
<1>2. CASE SendRequest
  <2>1. /\ sink = "request" /\ proc = "up" /\ sink' = "receive" /\ iter' = 0
        /\ round' = round + 1 /\ f' = NoFrame
        /\ frame' = [i \in Slots' |-> NoFrame]
        /\ UNCHANGED <<chunks, frames, eof_f, eof_c, wm_chunk, wm_frame, proc>>
    BY <1>2 DEF SendRequest, vars
  <2>2. /\ round \in {0, 1} /\ wm_chunk = round /\ wm_frame = 0 /\ chunks = {}
        /\ eof_c = Unset /\ 0 \in ChunkSeq
    BY <2>1, SessionAssumption DEF ManagerInv
  <2>3. frames[0] = {} /\ eof_f[0] = Unset
    BY <2>2 DEF RxInv, ErasedIsClean
  <2>4. Receiving'
    <3>1. 0 .. 0 - 1 = {}
      OBVIOUS
    <3> QED
      BY <2>1, <2>2, <2>3, <3>1 DEF Receiving
  <2> QED
    BY <2>1, <2>2, <2>4 DEF ManagerInv
<1>3. CASE RetrieveOne
  <2>1. /\ sink = "retrieve" /\ round \in {1, 2} /\ iter < rd.total_fnum
        /\ NumFrames >= 1 /\ iter' = iter + 1 /\ UNCHANGED <<rd, round>>
        /\ sink' = IF rc' = "EOF_CHUNKS" \/ iter + 1 = rd.total_fnum
                     THEN "reply" ELSE "retrieve"
    BY <1>3 DEF RetrieveOne, RetrieveAFrame, ManagerInv
  <2>2. /\ iter \in Nat /\ rd.total_fnum \in Nat /\ NumFrames' = NumFrames
    BY <1>3, SessionAssumption
       DEF SessionTypes, RetrieveOne, cvars, NumFrames, KeysInRange
  <2>3. /\ eof_c' = Unset /\ rc' # "EOF_CHUNKS" /\ proc' = "up"
        /\ round = 1 => RetrievingFirst'
        /\ round = 2 => RetrievingSecond'
    BY <1>3, <2>1, RetrieveFirst, RetrieveSecond
  <2>4. /\ sink' \in {"reply", "retrieve"}
        /\ sink' = "retrieve" => iter' < rd'.total_fnum
        /\ sink' = "reply" => iter' = rd'.total_fnum
    BY <2>1, <2>2, <2>3
  <2> QED
    BY <2>1, <2>2, <2>3, <2>4 DEF ManagerInv
<1>4. CASE RecvReply
  <2>1. NumFrames' = NumFrames
    BY <1>4 DEF RecvReply, cvars, NumFrames, KeysInRange
  <2> QED
    BY <1>4, <2>1, RoundUntouched DEF RecvReply
<1>5. CASE UNCHANGED allvars
  <2>1. NumFrames' = NumFrames
    BY <1>5 DEF allvars, svars, cvars, NumFrames, KeysInRange
  <2> QED
    BY <1>5, <2>1, RoundUntouched DEF allvars, svars
<1> QED
  BY <1>1, <1>2, <1>3, <1>4, <1>5, ReceiveKeepsRound, ProcessKeepsRound
     DEF SessionNext, Sink

LEMMA SessionInvInit == SessionInit => SessionInv
<1> SUFFICES ASSUME SessionInit PROVE SessionInv
  OBVIOUS
<1>1. TypeOK /\ RxInv
  BY TypeInit, RxInvInit DEF SessionInit
<1>2. SessionTypes
  BY <1>1, SessionAssumption DEF SessionInit, SessionTypes
<1>3. SocketsInv
  BY DEF SessionInit, SocketsInv
<1>4. ManagerInv
  BY DEF SessionInit, Init, ManagerInv
<1> QED
  BY <1>1, <1>2, <1>3, <1>4 DEF SessionInv

LEMMA SessionInvariant == SessionSpec => []SessionInv
<1>1. SessionInv /\ [SessionNext]_allvars => SessionInv'
  <2>1. SessionInv /\ [SessionNext]_allvars => SessionTypes'
    BY SessionTypesStep
  <2>2. SessionInv /\ [SessionNext]_allvars => RxInv'
    BY ManagerTypesStep DEF SessionInv
  <2> QED
    BY <2>1, <2>2, SocketsStep, ManagerInvStep DEF SessionInv
<1> QED
  BY <1>1, SessionInvInit, PTL DEF SessionSpec

---------------------------------------------------------------------------
(* The two sides agree on where a round ends: whatever is asked for and    *)
(* whatever the database holds, also in a process that is about to die,    *)
(* nothing of a round is left on the wire for the next.                    *)
THEOREM RoundsStayApart == SessionSpec => []NothingLeftOver
<1>1. SessionInv => NothingLeftOver
  BY DEF SessionInv, SocketsInv, NothingLeftOver
<1> QED
  BY <1>1, SessionInvariant, PTL

(* In the first round the workers find the frames in order.                *)
THEOREM FirstRoundInOrder == SessionSpec => [](round <= 1 => SlotsInOrder)
<1>1. SessionInv /\ round <= 1 => SlotsInOrder
  <2> SUFFICES ASSUME SessionInv, round <= 1, sink = "process",
                      NEW i \in 0 .. rd.total_fnum - 1
               PROVE  frame[rd.start_fnum + i] = SlotFrame(i)
    BY DEF SlotsInOrder, SlotFrame
  <2>1. round = 1 /\ proc = "up" /\ iter = rd.total_fnum
    BY DEF SessionInv, SessionTypes, TypeOK, ManagerInv
  <2>2. RetrievingFirst
    BY <2>1 DEF SessionInv, ManagerInv
  <2>3. i < iter
    BY <2>1, SessionAssumption DEF SessionInv, SessionTypes
  <2> QED
    BY <2>2, <2>3 DEF RetrievingFirst
<1> QED
  BY <1>1, SessionInvariant, PTL

(* In the second round they find nothing: the watermark has moved past the *)
(* chunk that the source sends again.                                      *)
SecondRoundEmpty ==
  sink = "process" /\ round > 1 => \A i \in Slots : frame[i] = NoFrame

THEOREM SecondRoundIsLost == SessionSpec => []SecondRoundEmpty
<1>1. SessionInv => SecondRoundEmpty
  <2> SUFFICES ASSUME SessionInv, sink = "process", round > 1
               PROVE  RetrievingSecond
    BY DEF SecondRoundEmpty, RetrievingSecond
  <2>1. round = 2 /\ proc = "up"
    BY DEF SessionInv, SessionTypes, TypeOK, ManagerInv
  <2> QED
    BY <2>1 DEF SessionInv, ManagerInv
<1> QED
  BY <1>1, SessionInvariant, PTL

(* That kills the process, so that no third round ever begins.             *)
THEOREM NoThirdRound == SessionSpec => [](round <= 2)
<1>1. SessionInv => round <= 2
  BY DEF SessionInv, ManagerInv
<1> QED
  BY <1>1, SessionInvariant, PTL

(* Types, and that nothing kills the process, in a session of one round    *)
(* whose request meets a frame.                                            *)
THEOREM SessionTypeCorrect ==
  RequestsMeetFrames /\ Rounds <= 1 => (SessionSpec => []SessionTypeOK)
<1>1. RequestsMeetFrames /\ Rounds <= 1 /\ SessionInv => SessionTypeOK
  <2> SUFFICES ASSUME RequestsMeetFrames, Rounds <= 1, SessionInv
               PROVE  SessionTypeOK
    OBVIOUS
  <2>1. round # 2 /\ NumFrames # 0
    BY FramesFound, SessionAssumption DEF SessionInv, SessionTypes
  <2>2. proc = "up"
    BY <2>1 DEF SessionInv, SessionTypes, TypeOK, ManagerInv
  <2> QED
    BY <2>2 DEF SessionInv, SessionTypes, SessionTypeOK
<1>2. (RequestsMeetFrames /\ Rounds <= 1)
        => (RequestsMeetFrames /\ Rounds <= 1)'
  BY DEF RequestsMeetFrames
<1> QED
  BY <1>1, <1>2, SessionInvariant, PTL DEF SessionSpec

(* In every round, what the manager reveals is the stream in order: the    *)
(* session hands it nothing that breaks its promise.                       *)
THEOREM SessionImplements ==
  SessionSpec => ImplementsInOrderStream /\ []RevealedInOrder
<1>1. SessionInit => Promise!Init
  BY InitImplements DEF SessionInit
<1>2. SessionInv /\ SessionInv' /\ [SessionNext]_allvars
        => [Promise!Next]_(Promise!vars)
  <2> SUFFICES ASSUME SessionInv, SessionInv', [SessionNext]_allvars
               PROVE  [Promise!Next]_(Promise!vars)
    OBVIOUS
  <2>1. CASE [Next]_vars
    BY <2>1, StepImplements DEF SessionInv, SessionTypes
  <2>2. CASE ProcessFrames
    BY <2>2 DEF ProcessFrames, Promise!vars
  <2> QED
    BY <2>1, <2>2, ManagerStep DEF SessionInv
<1>3. SessionSpec => ImplementsInOrderStream
  BY <1>1, <1>2, SessionInvariant, PTL
     DEF SessionSpec, ImplementsInOrderStream, Promise!Spec
<1> QED
  BY <1>3, PromiseInOrder, PTL
==============================================================================
