------------------------------ MODULE FrameQueue ------------------------------
(***************************************************************************)
(* The frames of one camera in the plate daemon.  A capture thread         *)
(* (videobuffer.cpp) keeps the latest frame in a VideoDispatcher, under    *)
(* its mMutex; streamRecognitionThread (daemon.cpp) polls it and pushes a  *)
(* copy to framesQueue, a SafeQueue (safequeue.h), when that is empty;     *)
(* processing threads pop frames and recognise plates in them.             *)
(*                                                                         *)
(* getALPRImages unlocks mMutex twice for every frame, and unlocks it once *)
(* more when an exception comes before the lock.  tthread::mutex is a      *)
(* plain pthread mutex: unlocking it frees it, whoever holds it.           *)
(*                                                                         *)
(* The mutex of the queue is used soundly: what push and pop do under it   *)
(* is one step here.  empty() reads the queue without it.                  *)
(***************************************************************************)
EXTENDS Integers, Sequences

CONSTANTS
  Workers,      \* processing threads, analysis_threads of them
  MaxFrames     \* bound: frames the camera delivers

ASSUME FramesAssumption == Workers # {} /\ MaxFrames \in Nat

VARIABLES
  cap,                \* where the capture thread is
  mMutex,             \* "free" or "held"
  latestFrame,        \* number of the frame in the buffer, or Torn
  latestFrameNumber,
  lastFrameRead,
  str,                \* where the stream thread is
  frame,              \* its frame
  framesQueue,
  wrk,                \* where each processing thread is
  item,               \* the frame it has popped
  handed,             \* history: frames pushed
  stolen              \* history: whether the capture thread has freed mMutex
                      \* while the stream thread held it

bufvars == <<mMutex, latestFrame, latestFrameNumber>>
strvars == <<lastFrameRead, str, frame>>
wrkvars == <<wrk, item>>
vars == <<cap, bufvars, strvars, framesQueue, wrkvars, handed, stolen>>

None == -1    \* no frame yet
Torn == -2    \* parts of two frames

Init ==
  /\ cap = "read"
  /\ mMutex = "free"
  /\ latestFrame = None
  /\ latestFrameNumber = -1
  /\ lastFrameRead = -1
  /\ str = "poll"
  /\ frame = None
  /\ framesQueue = <<>>
  /\ wrk = [w \in Workers |-> "pop"]
  /\ item = [w \in Workers |-> None]
  /\ handed = <<>>
  /\ stolen = "no"

---------------------------------------------------------------------------
(* The capture thread.                                                     *)

(* Unlocking without having locked.                                        *)
UnlockUnowned ==
  /\ mMutex' = "free"
  /\ stolen' = IF str \in {"test", "copying", "copied"} THEN "yes" ELSE stolen

(* cap.read, without the lock.  It delivers a frame, throws, or has none;  *)
(* then the capture is opened anew, which changes nothing here.            *)
CaptureRead ==
  /\ cap = "read"
  /\ \/ /\ latestFrameNumber + 1 < MaxFrames
        /\ cap' = "lock"
        /\ UNCHANGED <<mMutex, stolen>>
     \/ UnlockUnowned /\ UNCHANGED cap
  /\ UNCHANGED <<latestFrame, latestFrameNumber, strvars, framesQueue, wrkvars,
                 handed>>

(* Mutant: the lock is not taken.                                          *)
CaptureLockNot ==
  /\ cap = "lock"
  /\ latestFrame' = Torn
  /\ cap' = "write"
  /\ UNCHANGED <<mMutex, latestFrameNumber, strvars, framesQueue, wrkvars,
                 handed, stolen>>

(* mMutex.lock, and the first bytes of setLatestFrame.                     *)
CaptureLock ==
  /\ cap = "lock"
  /\ mMutex = "free"
  /\ mMutex' = "held"
  /\ latestFrame' = Torn
  /\ cap' = "write"
  /\ UNCHANGED <<latestFrameNumber, strvars, framesQueue, wrkvars, handed,
                 stolen>>

CaptureWrite ==
  /\ cap = "write"
  /\ latestFrame' = latestFrameNumber + 1
  /\ cap' = "number"
  /\ UNCHANGED <<mMutex, latestFrameNumber, strvars, framesQueue, wrkvars,
                 handed, stolen>>

(* latestFrameNumber++, and the first unlock.                              *)
CaptureNumber ==
  /\ cap = "number"
  /\ latestFrameNumber' = latestFrameNumber + 1
  /\ mMutex' = "free"
  /\ cap' = "unlock again"
  /\ UNCHANGED <<latestFrame, strvars, framesQueue, wrkvars, handed, stolen>>

CaptureUnlockAgain ==
  /\ cap = "unlock again"
  /\ UnlockUnowned
  /\ cap' = "read"
  /\ UNCHANGED <<latestFrame, latestFrameNumber, strvars, framesQueue, wrkvars,
                 handed>>

Capture ==
  CaptureRead \/ CaptureLock \/ CaptureWrite \/ CaptureNumber \/ CaptureUnlockAgain

---------------------------------------------------------------------------
(* streamRecognitionThread.                                                *)

StreamLock ==
  /\ str = "poll"
  /\ mMutex = "free"
  /\ mMutex' = "held"
  /\ str' = "test"
  /\ UNCHANGED <<cap, latestFrame, latestFrameNumber, lastFrameRead, frame,
                 framesQueue, wrkvars, handed, stolen>>

(* getLatestFrame: nothing new, or the copy begins.                        *)
StreamTest ==
  /\ str = "test"
  /\ IF latestFrameNumber = lastFrameRead
       THEN mMutex' = "free" /\ str' = "poll" /\ UNCHANGED frame
       ELSE frame' = latestFrame /\ str' = "copying" /\ UNCHANGED mMutex
  /\ UNCHANGED <<cap, latestFrame, latestFrameNumber, lastFrameRead,
                 framesQueue, wrkvars, handed, stolen>>

StreamCopy ==
  /\ str = "copying"
  /\ frame' = IF latestFrame = frame THEN frame ELSE Torn
  /\ str' = "copied"
  /\ UNCHANGED <<cap, bufvars, lastFrameRead, framesQueue, wrkvars, handed,
                 stolen>>

(* lastFrameRead = latestFrameNumber, and the guard's unlock.              *)
StreamUnlock ==
  /\ str = "copied"
  /\ lastFrameRead' = latestFrameNumber
  /\ mMutex' = "free"
  /\ str' = "offer"
  /\ UNCHANGED <<cap, latestFrame, latestFrameNumber, frame, framesQueue,
                 wrkvars, handed, stolen>>

(* Mutant: a frame is pushed whether or not the queue is empty.            *)
StreamOfferAlways ==
  /\ str = "offer"
  /\ str' = "push"
  /\ UNCHANGED <<cap, bufvars, lastFrameRead, frame, framesQueue, wrkvars,
                 handed, stolen>>

(* if (framesQueue.empty()): a frame is dropped while another one waits.   *)
StreamOffer ==
  /\ str = "offer"
  /\ str' = IF framesQueue = <<>> THEN "push" ELSE "poll"
  /\ UNCHANGED <<cap, bufvars, lastFrameRead, frame, framesQueue, wrkvars,
                 handed, stolen>>

Asleep == {w \in Workers : wrk[w] = "asleep"}

(* Mutant: nobody is notified.                                             *)
StreamPushSilently ==
  /\ str = "push"
  /\ framesQueue' = Append(framesQueue, frame)
  /\ handed' = Append(handed, frame)
  /\ str' = "poll"
  /\ UNCHANGED <<cap, bufvars, lastFrameRead, frame, wrkvars, stolen>>

(* push, with notify_one: one of the sleeping threads goes back to its     *)
(* test of the queue, if one sleeps.                                       *)
StreamPush ==
  /\ str = "push"
  /\ framesQueue' = Append(framesQueue, frame)
  /\ handed' = Append(handed, frame)
  /\ str' = "poll"
  /\ IF Asleep = {} THEN UNCHANGED wrk
                    ELSE \E w \in Asleep : wrk' = [wrk EXCEPT ![w] = "pop"]
  /\ UNCHANGED <<cap, bufvars, lastFrameRead, frame, item, stolen>>

Stream ==
  StreamLock \/ StreamTest \/ StreamCopy \/ StreamUnlock \/ StreamOffer \/ StreamPush

---------------------------------------------------------------------------
(* processingThread.                                                       *)

(* pop: the front of the queue, or sleep until notified.                   *)
Pop(w) ==
  /\ wrk[w] = "pop"
  /\ \/ /\ framesQueue # <<>>
        /\ item' = [item EXCEPT ![w] = Head(framesQueue)]
        /\ framesQueue' = Tail(framesQueue)
        /\ wrk' = [wrk EXCEPT ![w] = "recognize"]
     \/ /\ framesQueue = <<>>
        /\ wrk' = [wrk EXCEPT ![w] = "asleep"]
        /\ UNCHANGED <<item, framesQueue>>
  /\ UNCHANGED <<cap, bufvars, strvars, handed, stolen>>

(* A condition variable may wake a thread for no reason.                   *)
WakeSpuriously(w) ==
  /\ wrk[w] = "asleep"
  /\ wrk' = [wrk EXCEPT ![w] = "pop"]
  /\ UNCHANGED <<cap, bufvars, strvars, framesQueue, item, handed, stolen>>

(* Without plates the thread takes the next frame, with plates it writes   *)
(* the result to the upload queue first (PlateUpload).                     *)
Recognize(w) ==
  /\ wrk[w] = "recognize"
  /\ item' = [item EXCEPT ![w] = None]
  /\ wrk' = [wrk EXCEPT ![w] = "pop"]
  /\ UNCHANGED <<cap, bufvars, strvars, framesQueue, handed, stolen>>

Next ==
  \/ Capture
  \/ Stream
  \/ \E w \in Workers : Pop(w) \/ WakeSpuriously(w) \/ Recognize(w)

Spec == Init /\ [][Next]_vars

---------------------------------------------------------------------------
Frames == None .. MaxFrames - 1

FramesTypeOK ==
  /\ cap \in {"read", "lock", "write", "number", "unlock again"}
  /\ mMutex \in {"free", "held"}
  /\ latestFrame \in Frames \cup {Torn}
  /\ {latestFrameNumber, lastFrameRead} \subseteq Frames
  /\ str \in {"poll", "test", "copying", "copied", "offer", "push"}
  /\ frame \in Frames \cup {Torn}
  /\ framesQueue \in Seq(Frames \cup {Torn})
  /\ wrk \in [Workers -> {"pop", "asleep", "recognize"}]
  /\ item \in [Workers -> Frames \cup {Torn}]
  /\ handed \in Seq(Frames \cup {Torn})
  /\ stolen \in {"no", "yes"}

(* While the capture thread has never freed the lock of the stream thread, *)
(* recognition gets whole frames, each at most once and in the order of    *)
(* the camera: the second unlock is the only way to a torn, repeated or    *)
(* stale frame.                                                            *)
WholeFramesInOrder ==
  stolen = "no" =>
    \A m \in DOMAIN handed :
      /\ handed[m] >= 0
      /\ \A n \in 1 .. m - 1 : handed[n] < handed[m]

(* empty() is read without the lock, and the push comes later: still no    *)
(* frame waits behind another one, because only one thread pushes.         *)
OneFrameWaits == Len(framesQueue) <= 1

(* A frame in the queue never finds all processing threads asleep, though  *)
(* a notified thread may be overtaken by one that was not asleep.          *)
NoLostWakeup ==
  framesQueue # <<>> => \E w \in Workers : wrk[w] # "asleep"
===============================================================================
