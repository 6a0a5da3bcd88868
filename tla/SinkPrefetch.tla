----------------------------- MODULE SinkPrefetch -----------------------------
(***************************************************************************)
(* The worker threads of the sink (test-sink.cpp).  A parallel loop deals  *)
(* the frames of a round to the workers in blocks.  For a frame with       *)
(* motion a worker looks at the 720p frame, and for one with a plate at    *)
(* the 540p frame as well.  It keeps a ring of frames of either size that  *)
(* it refills over a REQ socket of its own, CHUNK_SIZE frames a request:   *)
(* the whole ring when it has fallen behind, or one chunk that it requests *)
(* before it works on its frame and receives afterwards.                   *)
(*                                                                         *)
(* The flags flag_720 and flag_540, which say that chunks are being        *)
(* requested, are global: all workers read and write them, without a lock. *)
(*                                                                         *)
(* A REQ socket alternates strictly: sending before the last answer is in, *)
(* or receiving when nothing has been asked, throws, and the exception     *)
(* ends the process.  zmq leaves a message empty once it is sent.          *)
(***************************************************************************)
EXTENDS Integers

CONSTANTS
  Workers,      \* threads of the parallel loop
  CHUNK_SIZE,   \* frames per request
  chunk_num,    \* chunks per ring
  BlockSize,    \* frames dealt at a time
  TotalFnum,    \* total_fnum of the round
  DbFrames,     \* frames in the source's 720p and 540p databases
  MotionFrames, \* frames in which motion may be found
  PlateFrames   \* frames in which a plate may be found

ASSUME PrefetchAssumption ==
  /\ {CHUNK_SIZE, chunk_num, BlockSize, TotalFnum} \subseteq Nat \ {0}
  /\ DbFrames \in Nat
  /\ PlateFrames \subseteq MotionFrames

Res == {"720", "540"}

VARIABLES
  proc,      \* "dead" once an exception or a fault has ended the sink
  source,    \* the same for the source
  dealt,     \* frames dealt to the workers
  j, last,   \* each worker's frame, and the end of its block
  pc,        \* where each worker is
  res,       \* the size of frame it is working on
  i,         \* turns of its refill loop
  flag,      \* flag_720 and flag_540
  status,    \* status_720[w] and status_540[w]
  filled,    \* slots of the rings that hold a frame
  sock,      \* state of each worker's REQ socket
  req,       \* start_fnum of its last request, or Emptied
  touched    \* history: workers whose flag another worker changed between
             \* their decision to request and their decision to receive

vars == <<proc, source, dealt, j, last, pc, res, i, flag, status, filled, sock,
          req, touched>>

Emptied == -1

Ring == chunk_num * CHUNK_SIZE

Init ==
  /\ proc = "up"
  /\ source = "up"
  /\ dealt = 0
  /\ j = [w \in Workers |-> -1]
  /\ last = [w \in Workers |-> 0]
  /\ pc = [w \in Workers |-> "next"]
  /\ res = [w \in Workers |-> "720"]
  /\ i = [w \in Workers |-> 0]
  /\ flag = [r \in Res |-> "off"]
  /\ status = [r \in Res |-> [w \in Workers |-> -Ring - 1]]
  /\ filled = [r \in Res |-> [w \in Workers |-> {}]]
  /\ sock = [w \in Workers |-> "idle"]
  /\ req = [w \in Workers |-> Emptied]
  /\ touched = {}

Goto(w, place) == pc' = [pc EXCEPT ![w] = place]

Gap(w) == j[w] - status[res[w]][w]

Streaming(w) == Gap(w) >= 4 * CHUNK_SIZE \/ flag[res[w]] = "on"

(* Worker w writes the flag of the size it works on.                       *)
SetFlag(w, value) ==
  /\ flag' = [flag EXCEPT ![res[w]] = value]
  /\ touched' =
       IF value = flag[res[w]] THEN touched
       ELSE touched \cup {u \in Workers \ {w} :
                            /\ res[u] = res[w]
                            /\ pc[u] \in {"decide", "request", "read",
                                          "recheck"}}

(* An exception in a worker ends the process.                              *)
Throw(w) ==
  /\ proc' = "dead"
  /\ UNCHANGED <<source, dealt, j, last, pc, res, i, flag, status, filled,
                 sock, req, touched>>

Running(w, place) == proc = "up" /\ pc[w] = place

---------------------------------------------------------------------------
(* The loop over the frames.                                               *)

(* Mutant: a block that is not full is not dealt.                          *)
NextFrameWholeBlocks(w) ==
  \/ /\ j[w] + 1 < last[w]
     /\ j' = [j EXCEPT ![w] = @ + 1]
     /\ UNCHANGED <<last, dealt>>
  \/ /\ j[w] + 1 >= last[w]
     /\ dealt + BlockSize <= TotalFnum
     /\ j' = [j EXCEPT ![w] = dealt]
     /\ dealt' = dealt + BlockSize
     /\ last' = [last EXCEPT ![w] = dealt']

(* schedule(dynamic, BlockSize): the next frame of the worker's block, or  *)
(* the first one of the next block.                                        *)
NextFrame(w) ==
  \/ /\ j[w] + 1 < last[w]
     /\ j' = [j EXCEPT ![w] = @ + 1]
     /\ UNCHANGED <<last, dealt>>
  \/ /\ j[w] + 1 >= last[w]
     /\ dealt < TotalFnum
     /\ j' = [j EXCEPT ![w] = dealt]
     /\ dealt' = IF dealt + BlockSize < TotalFnum THEN dealt + BlockSize
                 ELSE TotalFnum
     /\ last' = [last EXCEPT ![w] = dealt']

(* The next frame, looked at for motion.                                   *)
DetectMotion(w) ==
  /\ Running(w, "next")
  /\ NextFrame(w)
  /\ \/ UNCHANGED pc
     \/ j'[w] \in MotionFrames /\ Goto(w, "check")
  /\ res' = [res EXCEPT ![w] = "720"]
  /\ i' = [i EXCEPT ![w] = 0]
  /\ UNCHANGED <<proc, source, flag, status, filled, sock, req, touched>>

---------------------------------------------------------------------------
(* One frame of one size.                                                  *)

(* The ring is refilled when the worker has left it behind.                *)
CheckRing(w) ==
  /\ Running(w, "check")
  /\ Goto(w, IF Gap(w) > Ring THEN "refill" ELSE "clear")
  /\ UNCHANGED <<proc, source, dealt, j, last, res, i, flag, status, filled,
                 sock, req, touched>>

(* send on the REQ socket.  The request message has been filled for this   *)
(* frame before the refill loop; what is copied into it after it has been  *)
(* sent once goes into an empty message.                                   *)
Ask(w, start) ==
  /\ sock[w] = "idle"
  /\ sock' = [sock EXCEPT ![w] = "asked"]
  /\ req' = [req EXCEPT ![w] = IF i[w] = 0 THEN start ELSE Emptied]

RefillRequest(w) ==
  /\ Running(w, "refill")
  /\ i[w] < chunk_num
  /\ \/ /\ Ask(w, j[w])
        /\ Goto(w, "refilling")
        /\ UNCHANGED <<proc, source, dealt, j, last, res, i, flag, status,
                       filled, touched>>
     \/ sock[w] # "idle" /\ Throw(w)

RefillReceive(w) ==
  /\ Running(w, "refilling")
  /\ sock[w] = "answered"
  /\ sock' = [sock EXCEPT ![w] = "idle"]
  /\ filled' = [filled EXCEPT ![res[w]][w] =
                  @ \cup {iter + CHUNK_SIZE * i[w] : iter \in 0 .. CHUNK_SIZE - 1}]
  /\ i' = [i EXCEPT ![w] = @ + 1]
  /\ Goto(w, "refill")
  /\ UNCHANGED <<proc, source, dealt, j, last, res, flag, status, req, touched>>

Refilled(w) ==
  /\ Running(w, "refill")
  /\ i[w] = chunk_num
  /\ status' = [status EXCEPT ![res[w]][w] = j[w]]
  /\ SetFlag(w, "off")
  /\ Goto(w, "clear")
  /\ UNCHANGED <<proc, source, dealt, j, last, res, i, filled, sock, req>>

(* Mutant: streaming is not terminated.                                    *)
ClearFlagNever(w) ==
  /\ Running(w, "clear")
  /\ Goto(w, "decide")
  /\ UNCHANGED <<proc, source, dealt, j, last, res, i, flag, status, filled,
                 sock, req, touched>>

(* "terminate streaming"                                                   *)
ClearFlag(w) ==
  /\ Running(w, "clear")
  /\ IF Gap(w) <= CHUNK_SIZE THEN SetFlag(w, "off")
                             ELSE UNCHANGED <<flag, touched>>
  /\ Goto(w, "decide")
  /\ UNCHANGED <<proc, source, dealt, j, last, res, i, status, filled, sock,
                 req>>

DecideRequest(w) ==
  /\ Running(w, "decide")
  /\ Goto(w, IF Streaming(w) THEN "request" ELSE "read")
  /\ UNCHANGED <<proc, source, dealt, j, last, res, i, flag, status, filled,
                 sock, req, touched>>

(* start_fnum = j + N, N = chunk_num * CHUNK_SIZE - (j - status)           *)
RequestChunk(w) ==
  /\ Running(w, "request")
  /\ \/ /\ SetFlag(w, "on")
        /\ Ask(w, j[w] + Ring - Gap(w))
        /\ Goto(w, "read")
        /\ UNCHANGED <<proc, source, dealt, j, last, res, i, status, filled>>
     \/ sock[w] # "idle" /\ Throw(w)

(* The frame is read from its slot, "fetch for computation"; a slot that   *)
(* holds no message is a null pointer.                                     *)
ReadSlot(w) ==
  /\ Running(w, "read")
  /\ proc' = IF j[w] % Ring \in filled[res[w]][w] THEN "up" ELSE "dead"
  /\ Goto(w, "recheck")
  /\ UNCHANGED <<source, dealt, j, last, res, i, flag, status, filled, sock,
                 req, touched>>

(* Done with this size: the 540p frame is next when the 720p one had a     *)
(* plate.                                                                  *)
Done(w) ==
  \/ Goto(w, "next") /\ UNCHANGED <<res, i>>
  \/ /\ res[w] = "720"
     /\ j[w] \in PlateFrames
     /\ res' = [res EXCEPT ![w] = "540"]
     /\ i' = [i EXCEPT ![w] = 0]
     /\ Goto(w, "check")

(* Mutant: the second condition forgets the flag.                          *)
DecideReceiveGapOnly(w) ==
  /\ Running(w, "recheck")
  /\ IF Gap(w) >= 4 * CHUNK_SIZE THEN Goto(w, "receive") /\ UNCHANGED <<res, i>>
                                 ELSE Done(w)
  /\ UNCHANGED <<proc, source, dealt, j, last, flag, status, filled, sock, req,
                 touched>>

(* The condition of DecideRequest is evaluated once more.                  *)
DecideReceive(w) ==
  /\ Running(w, "recheck")
  /\ IF Streaming(w) THEN Goto(w, "receive") /\ UNCHANGED <<res, i>> ELSE Done(w)
  /\ UNCHANGED <<proc, source, dealt, j, last, flag, status, filled, sock, req,
                 touched>>

ReceiveChunk(w) ==
  /\ Running(w, "receive")
  /\ \/ /\ sock[w] = "answered"
        /\ sock' = [sock EXCEPT ![w] = "idle"]
        /\ filled' = [filled EXCEPT ![res[w]][w] =
              @ \cup {(status[res[w]][w] + iter) % Ring :
                        iter \in 0 .. CHUNK_SIZE - 1}]
        /\ status' = [status EXCEPT ![res[w]][w] = @ + CHUNK_SIZE]
        /\ Done(w)
        /\ UNCHANGED <<proc, source, dealt, j, last, flag, req, touched>>
     \/ sock[w] = "idle" /\ Throw(w)

Worker(w) ==
  \/ DetectMotion(w) \/ CheckRing(w) \/ RefillRequest(w) \/ RefillReceive(w)
  \/ Refilled(w) \/ ClearFlag(w) \/ DecideRequest(w) \/ RequestChunk(w)
  \/ ReadSlot(w) \/ DecideReceive(w) \/ ReceiveChunk(w)

---------------------------------------------------------------------------
(* The source.  One answer is CHUNK_SIZE messages in one multipart; when   *)
(* the database ends before the last of them the answer stays incomplete,  *)
(* and the next receive on the REP socket throws.  The fields of a request *)
(* read from an empty message are undefined.                               *)
Answer(w) ==
  /\ source = "up"
  /\ sock[w] = "asked"
  /\ \/ /\ req[w] = Emptied \/ req[w] + CHUNK_SIZE <= DbFrames
        /\ sock' = [sock EXCEPT ![w] = "answered"]
        /\ UNCHANGED source
     \/ /\ req[w] = Emptied \/ req[w] + CHUNK_SIZE > DbFrames
        /\ source' = "dead"
        /\ UNCHANGED sock
  /\ UNCHANGED <<proc, dealt, j, last, pc, res, i, flag, status, filled, req,
                 touched>>

Next == \E w \in Workers : Worker(w) \/ Answer(w)

Spec == Init /\ [][Next]_vars

(* The threads run, and the source answers while it is up.                 *)
FairSpec ==
  /\ Spec
  /\ \A w \in Workers : WF_vars(Worker(w)) /\ WF_vars(Answer(w))

---------------------------------------------------------------------------
Places == {"next", "check", "refill", "refilling", "clear", "decide",
           "request", "read", "recheck", "receive"}

PrefetchTypeOK ==
  /\ {proc, source} \subseteq {"up", "dead"}
  /\ dealt \in 0..TotalFnum
  /\ j \in [Workers -> -1 .. TotalFnum - 1]
  /\ last \in [Workers -> 0..TotalFnum]
  /\ pc \in [Workers -> Places]
  /\ res \in [Workers -> Res]
  /\ i \in [Workers -> 0..chunk_num]
  /\ flag \in [Res -> {"on", "off"}]
  /\ status \in [Res -> [Workers -> Int]]
  /\ filled \in [Res -> [Workers -> SUBSET (0 .. Ring - 1)]]
  /\ sock \in [Workers -> {"idle", "asked", "answered"}]
  /\ req \in [Workers -> Int]
  /\ touched \subseteq Workers

(* "xzl_bug_on(!ret)" in recv_one_chunk_720: a receive finds an answer,    *)
(* now or later, because a request is on its way.                          *)
ReceiveFindsAnswer ==
  proc = "up" =>
    \A w \in Workers : pc[w] \in {"refilling", "receive"} => sock[w] # "idle"

(* The alternation of a socket, and with it the process, breaks only in a  *)
(* worker whose flag another one has changed between its two looks at it:  *)
(* otherwise the two decisions agree, requests and answers pair up over    *)
(* both sizes and the refill, and no slot is read before it is filled.     *)
OnlySharedFlagsBreak ==
  proc = "dead" =>
    \E w \in touched : pc[w] \in {"refill", "request", "receive"}

(* A worker not disturbed stays inside its ring: status is not ahead of    *)
(* the frame, so that the chunk it asks for next lies behind what the ring *)
(* holds, and never a whole ring behind.                                   *)
InsideRing ==
  \A w \in Workers \ touched :
    pc[w] \in {"decide", "request", "read", "recheck", "receive"} =>
      Gap(w) \in 0..Ring

(* As long as nobody is disturbed and the source is up, no worker waits    *)
(* for an answer that does not come, and the round gets done.              *)
RoundIsProcessed ==
  [](touched = {} /\ source = "up") =>
    <>(dealt = TotalFnum /\ \A w \in Workers :
                              pc[w] = "next" /\ j[w] + 1 >= last[w])
===============================================================================
