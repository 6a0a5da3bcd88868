------------------------------ MODULE AlprDaemon ------------------------------
(***************************************************************************)
(* The plate daemon (daemon.cpp): a process for every camera, in which     *)
(* frames are captured and recognised (FrameQueue) and results written to  *)
(* a tube that all processes share (PlateUpload).  The frames of one       *)
(* camera are modelled, of the others only what they write and upload.     *)
(*                                                                         *)
(* A write to a closed connection may end a process: its capture, its      *)
(* queue and the frames its threads have in hand end with it.              *)
(***************************************************************************)
EXTENDS FrameQueue, PlateUpload

CONSTANTS
  Camera,       \* the camera whose frames are modelled
  Setups        \* configurations and bounds:
                \*   frames   number of frames this camera delivers
                \*   uploads  the cameras with an upload thread
                \*   results  results that get into the tube

ASSUME DaemonAssumption ==
  /\ Camera \in Cameras
  /\ \A s \in Setups : s.uploads \subseteq Cameras /\ s.results \subseteq Jobs

VARIABLES
  setup,        \* the one at hand
  shown         \* history: the frame of this camera that a result shows

daemonvars == <<vars, uploadvars, setup, shown>>

DaemonInit ==
  /\ Init /\ UploadInit
  /\ setup \in Setups
  /\ up = [c \in Cameras |-> IF c \in setup.uploads THEN "connect" ELSE "off"]
  /\ shown = [r \in Jobs |-> None]

(* The process runs; without frames nothing of it but the upload matters.  *)
Alive == up[Camera] # "killed" /\ setup.frames > 0

---------------------------------------------------------------------------
(* Threads of this camera's process that do not touch the tube.            *)

TakeFrames ==
  /\ Alive
  /\ Capture \/ Stream
  /\ cap = "read" /\ cap' = "lock" => latestFrameNumber + 1 < setup.frames
  /\ UNCHANGED <<uploadvars, setup, shown>>

TakeItem(w) ==
  /\ Alive
  /\ Pop(w)
  /\ UNCHANGED <<uploadvars, setup, shown>>

Wake(w) ==
  /\ Alive
  /\ WakeSpuriously(w)
  /\ UNCHANGED <<uploadvars, setup, shown>>

(* processingThread: no plate, or the result could not be written.         *)
NothingToShow(w) ==
  /\ Alive
  /\ Recognize(w)
  /\ UNCHANGED <<uploadvars, setup, shown>>

(* Mutant: the queue holds the stream thread's frame instead of a clone.   *)
WriteResultShared(w) ==
  /\ Alive
  /\ \E r \in setup.results :
       Put(Camera, r) /\ shown' = [shown EXCEPT ![r] = frame]
  /\ Recognize(w)
  /\ UNCHANGED setup

(* All plates of a frame are one result, put into the tube.                *)
WriteResult(w) ==
  /\ Alive
  /\ \E r \in setup.results :
       Put(Camera, r) /\ shown' = [shown EXCEPT ![r] = item[w]]
  /\ Recognize(w)
  /\ UNCHANGED setup

(* writeToQueue ends the process.                                          *)
WriteKills(w) ==
  /\ Alive
  /\ wrk[w] = "recognize"
  /\ PutKills(Camera)
  /\ UNCHANGED <<vars, setup, shown>>

Process(w) == NothingToShow(w) \/ WriteResult(w) \/ WriteKills(w)

---------------------------------------------------------------------------
(* Upload threads, processes whose frames are not modelled, the server.    *)

UploadResults(c) == Upload(c) /\ UNCHANGED <<vars, setup, shown>>

OtherCamera(c) ==
  /\ c # Camera \/ setup.frames = 0
  /\ (\E r \in setup.results : Put(c, r)) \/ PutKills(c)
  /\ UNCHANGED <<vars, setup, shown>>

Server ==
  /\ \/ \E c \in Cameras : ConnectionLost(c)
     \/ \E r \in Jobs : TimeToRunOver(r)
  /\ UNCHANGED <<vars, setup, shown>>

DaemonNext ==
  \/ TakeFrames
  \/ \E w \in Workers : TakeItem(w) \/ Wake(w) \/ Process(w)
  \/ \E c \in Cameras : UploadResults(c) \/ OtherCamera(c)
  \/ Server

DaemonSpec == DaemonInit /\ [][DaemonNext]_daemonvars

(* The threads run while their process does, and not every post fails.     *)
FairDaemonSpec ==
  /\ DaemonSpec
  /\ \A w \in Workers : WF_daemonvars(TakeItem(w)) /\ WF_daemonvars(Process(w))
  /\ \A c \in Cameras :
       /\ WF_daemonvars(UploadResults(c))
       /\ SF_daemonvars(PostDone(c) /\ UNCHANGED <<vars, setup, shown>>)

---------------------------------------------------------------------------
(* Types of the parts and of the daemon's own variables.                   *)
DaemonTypeOK ==
  /\ FramesTypeOK /\ UploadTypeOK
  /\ setup \in Setups
  /\ shown \in [Jobs -> Frames \cup {Torn}]

(* The frames that the processing threads work on.                         *)
InHand == {item[w] : w \in {v \in Workers : wrk[v] = "recognize"}}

(* Unless a lock was stolen, no two results show the same frame, in        *)
(* however many threads results are made of frames, and a frame that is    *)
(* waiting or worked on is not shown yet: together with                    *)
(* TwiceOnlyIfTakenBack, the web server gets a frame twice only if         *)
(* beanstalkd hands out a result twice.                                    *)
FrameShownOnce ==
  stolen = "no" =>
    \A r \in Jobs : shown[r] # None =>
      /\ shown[r] \notin InHand \cup {framesQueue[k] : k \in DOMAIN framesQueue}
      /\ \A q \in Jobs \ {r} : shown[q] # shown[r]

(* Every result in the tube is posted, or taken for posted by a thread     *)
(* without a handle, if one upload thread keeps its connection, even if    *)
(* the others lose theirs while they hold the result, and if posts get     *)
(* done, from some time on, within a job's time to run: a job that is      *)
(* taken back over and over may be the next one every time.                *)
ResultsArePosted ==
  /\ \E c \in Cameras : [](up[c] \notin {"killed", "off"} /\ conn[c] # "closed")
  /\ <>[][\A r \in Jobs : ~TimeToRunOver(r)]_daemonvars
  => \A r \in Jobs : tube[r] = "ready" ~> posts[r] > 0 \/ r \in skipped

(* A frame in the queue is taken unless the process ends before, whatever  *)
(* the upload thread does.                                                 *)
FramesAreTaken == framesQueue # <<>> ~> framesQueue = <<>> \/ ~Alive
===============================================================================
