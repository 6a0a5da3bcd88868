--------------------------- MODULE AlprDaemon_proofs ---------------------------
(***************************************************************************)
(* Theorems about the plate daemon, for any number of cameras, threads,    *)
(* frames and results.  First its two parts, each by itself: the frames of *)
(* a camera on their way to recognition (FrameQueue), and the results on   *)
(* their way to the server (PlateUpload).  Then the whole: what is proved  *)
(* of the parts holds of it, and no frame of a camera makes two results.   *)
(***************************************************************************)
EXTENDS AlprDaemon, TLAPS

---------------------------------------------------------------------------
(***************************************************************************)
(* The frames of one camera, for any number of frames and threads.         *)
(***************************************************************************)

(* What the capture thread alone maintains: the buffer holds the frame its *)
(* number says, but for the time it is written; room is left for the next. *)
BufferInv ==
  /\ cap = "write" => latestFrame = Torn
  /\ cap = "number" => latestFrame = latestFrameNumber + 1
  /\ cap \in {"read", "lock", "unlock again"} => latestFrame = latestFrameNumber
  /\ cap \in {"lock", "write", "number"} => latestFrameNumber + 1 < MaxFrames

(* The numbers that stand for frames.                                      *)
LEMMA FrameNumbers ==
  /\ Frames \cup {Torn} \subseteq Int
  /\ None \in Frames /\ -1 \in Frames
  /\ \A n \in Frames : n >= -1 /\ (n + 1 < MaxFrames => n + 1 \in Frames)
BY FramesAssumption DEF Frames, None, Torn

(* A queue over S stays one under push and pop.                            *)
LEMMA QueueOver ==
  ASSUME NEW S, NEW q \in Seq(S)
  PROVE  /\ \A x \in S : Append(q, x) \in Seq(S)
         /\ q # <<>> => Head(q) \in S /\ Tail(q) \in Seq(S)
OBVIOUS

(* Types at the start, and that every step keeps them.                     *)
LEMMA FramesTypeInit == Init => FramesTypeOK /\ BufferInv
BY FrameNumbers DEF FramesTypeOK, BufferInv, Init, None

LEMMA FramesTypeStep ==
  ASSUME FramesTypeOK, BufferInv, [Next]_vars
  PROVE  (FramesTypeOK /\ BufferInv)'
<1> USE DEF FramesTypeOK, BufferInv
<1>1. CASE CaptureRead
  BY <1>1 DEF CaptureRead, UnlockUnowned, strvars, wrkvars
<1>2. CASE CaptureLock
  BY <1>2 DEF CaptureLock, strvars, wrkvars
<1>3. CASE CaptureWrite
  <2>1. latestFrameNumber + 1 \in Frames
    BY <1>3, FrameNumbers DEF CaptureWrite
  <2> QED
    BY <1>3, <2>1 DEF CaptureWrite, strvars, wrkvars
<1>4. CASE CaptureNumber
  <2>1. latestFrameNumber + 1 \in Frames
    BY <1>4, FrameNumbers DEF CaptureNumber
  <2> QED
    BY <1>4, <2>1 DEF CaptureNumber, strvars, wrkvars
<1>5. CASE CaptureUnlockAgain
  BY <1>5 DEF CaptureUnlockAgain, UnlockUnowned, strvars, wrkvars
<1>6. CASE StreamLock
  BY <1>6 DEF StreamLock, wrkvars
<1>7. CASE StreamTest
  BY <1>7 DEF StreamTest, wrkvars
<1>8. CASE StreamCopy
  BY <1>8 DEF StreamCopy, bufvars, wrkvars
<1>9. CASE StreamUnlock
  BY <1>9 DEF StreamUnlock, wrkvars
<1>10. CASE StreamOffer
  BY <1>10 DEF StreamOffer, bufvars, wrkvars
<1>11. CASE StreamPush
  <2>1. framesQueue' \in Seq(Frames \cup {Torn}) /\ handed' \in Seq(Frames \cup {Torn})
    BY <1>11, QueueOver DEF StreamPush
  <2>2. wrk' \in [Workers -> {"pop", "asleep", "recognize"}]
    BY <1>11 DEF StreamPush, Asleep
  <2>3. /\ str' = "poll" /\ UNCHANGED <<cap, lastFrameRead, frame, item, stolen>>
        /\ UNCHANGED <<mMutex, latestFrame, latestFrameNumber>>
    BY <1>11 DEF StreamPush, bufvars
  <2> QED
    BY <2>1, <2>2, <2>3
<1>12. ASSUME NEW w \in Workers, Pop(w) PROVE (FramesTypeOK /\ BufferInv)'
  <2>1. CASE framesQueue = <<>>
    BY <1>12, <2>1 DEF Pop, bufvars, strvars
  <2>2. CASE framesQueue # <<>>
    <3>1. /\ Head(framesQueue) \in Frames \cup {Torn}
          /\ Tail(framesQueue) \in Seq(Frames \cup {Torn})
      BY <2>2, QueueOver
    <3>2. /\ item' = [item EXCEPT ![w] = Head(framesQueue)]
          /\ framesQueue' = Tail(framesQueue)
          /\ wrk' = [wrk EXCEPT ![w] = "recognize"]
          /\ UNCHANGED <<cap, handed, stolen, mMutex, latestFrame,
                         latestFrameNumber, lastFrameRead, str, frame>>
      BY <1>12, <2>2 DEF Pop, bufvars, strvars
    <3>3. framesQueue' \in Seq(Frames \cup {Torn})
      BY <3>1, <3>2
    <3>4. /\ wrk' \in [Workers -> {"pop", "asleep", "recognize"}]
          /\ item' \in [Workers -> Frames \cup {Torn}]
      BY <3>1, <3>2
    <3> QED
      BY <3>2, <3>3, <3>4
  <2> QED
    BY <2>1, <2>2
<1>13. ASSUME NEW w \in Workers, WakeSpuriously(w)
       PROVE  (FramesTypeOK /\ BufferInv)'
  BY <1>13 DEF WakeSpuriously, bufvars, strvars
<1>14. ASSUME NEW w \in Workers, Recognize(w)
       PROVE  (FramesTypeOK /\ BufferInv)'
  <2>1. /\ item' = [item EXCEPT ![w] = None]
        /\ wrk' = [wrk EXCEPT ![w] = "pop"]
        /\ UNCHANGED <<cap, framesQueue, handed, stolen, mMutex, latestFrame,
                       latestFrameNumber, lastFrameRead, str, frame>>
    BY <1>14 DEF Recognize, bufvars, strvars
  <2>2. None \in Frames
    BY FrameNumbers
  <2> QED
    BY <2>1, <2>2
<1>15. CASE UNCHANGED vars
  BY <1>15 DEF vars, bufvars, strvars, wrkvars
<1> QED
  BY <1>1, <1>2, <1>3, <1>4, <1>5, <1>6, <1>7, <1>8, <1>9, <1>10, <1>11,
     <1>12, <1>13, <1>14, <1>15 DEF Next, Capture, Stream

(* Type correctness: the buffer, the queue and the threads keep their      *)
(* types, with frame numbers within what the camera has delivered.         *)
THEOREM FramesTypeCorrect == Spec => [](FramesTypeOK /\ BufferInv)
BY FramesTypeInit, FramesTypeStep, PTL DEF Spec

---------------------------------------------------------------------------
(* The queue holds one frame at most: the stream thread, once it has seen  *)
(* it empty, is the only one that can fill it.                             *)
OfferedToEmpty == str = "push" => framesQueue = <<>>

THEOREM QueueIsShort == Spec => []OneFrameWaits
<1> DEFINE Inv == OneFrameWaits /\ OfferedToEmpty
<1>1. Init => Inv
  BY DEF Init, OneFrameWaits, OfferedToEmpty
<1>2. FramesTypeOK /\ Inv /\ [Next]_vars => Inv'
  <2> SUFFICES ASSUME FramesTypeOK, Inv, [Next]_vars PROVE Inv'
    OBVIOUS
  <2> USE DEF OneFrameWaits, OfferedToEmpty
  <2>0. framesQueue \in Seq(Frames \cup {Torn}) /\ frame \in Frames \cup {Torn}
    BY DEF FramesTypeOK
  <2>1. CASE UNCHANGED framesQueue /\ str' # "push"
    BY <2>1
  <2>2. CASE Capture
    BY <2>2 DEF Capture, CaptureRead, CaptureLock, CaptureWrite, CaptureNumber,
                CaptureUnlockAgain, strvars
  <2>3. CASE StreamOffer
    BY <2>3 DEF StreamOffer
  <2>4. CASE StreamPush
    BY <2>0, <2>4 DEF StreamPush
  <2>5. CASE StreamLock \/ StreamTest \/ StreamCopy \/ StreamUnlock
    BY <2>5 DEF StreamLock, StreamTest, StreamCopy, StreamUnlock
  <2>6. ASSUME NEW w \in Workers, Pop(w) PROVE Inv'
    <3>1. CASE framesQueue = <<>>
      BY <2>6, <3>1 DEF Pop, strvars
    <3>2. CASE framesQueue # <<>>
      <4>1. Len(Tail(framesQueue)) <= 1 /\ str # "push"
        BY <2>0, <3>2
      <4> QED
        BY <2>6, <3>2, <4>1 DEF Pop, strvars
    <3> QED
      BY <3>1, <3>2
  <2>7. ASSUME NEW w \in Workers, WakeSpuriously(w) \/ Recognize(w) PROVE Inv'
    BY <2>7 DEF WakeSpuriously, Recognize, strvars
  <2>8. CASE UNCHANGED vars
    BY <2>8 DEF vars, strvars
  <2> QED
    BY <2>2, <2>3, <2>4, <2>5, <2>6, <2>7, <2>8 DEF Next, Stream
<1>3. Inv => OneFrameWaits
  OBVIOUS
<1> QED
  BY <1>1, <1>2, <1>3, FramesTypeCorrect, PTL DEF Spec

(* No frame in the queue finds all processing threads asleep: push wakes   *)
(* one if any sleeps, and a thread falls asleep only on an empty queue.    *)
THEOREM WakeupsAreNotLost == Spec => []NoLostWakeup
<1> USE FramesAssumption
<1>1. Init => NoLostWakeup
  BY DEF Init, NoLostWakeup
<1>2. FramesTypeOK /\ NoLostWakeup /\ [Next]_vars => NoLostWakeup'
  <2> SUFFICES ASSUME FramesTypeOK, NoLostWakeup, [Next]_vars
               PROVE  NoLostWakeup'
    OBVIOUS
  <2> USE DEF NoLostWakeup
  <2>0. wrk \in [Workers -> {"pop", "asleep", "recognize"}]
    BY DEF FramesTypeOK
  <2>1. CASE Capture
    BY <2>1 DEF Capture, CaptureRead, CaptureLock, CaptureWrite, CaptureNumber,
                CaptureUnlockAgain, wrkvars
  <2>2. CASE StreamPush
    <3>1. CASE Asleep = {}
      <4>1. wrk' = wrk /\ \A w \in Workers : wrk[w] # "asleep"
        BY <2>2, <3>1 DEF StreamPush, Asleep
      <4> QED
        BY <4>1
    <3>2. CASE Asleep # {}
      <4>1. PICK w \in Asleep : wrk' = [wrk EXCEPT ![w] = "pop"]
        BY <2>2, <3>2 DEF StreamPush
      <4>2. w \in Workers /\ wrk'[w] = "pop"
        BY <2>0, <4>1 DEF Asleep
      <4> QED
        BY <4>2
    <3> QED
      BY <3>1, <3>2
  <2>3. CASE StreamLock \/ StreamTest \/ StreamCopy \/ StreamUnlock \/ StreamOffer
    BY <2>3 DEF StreamLock, StreamTest, StreamCopy, StreamUnlock, StreamOffer,
                wrkvars
  <2>4. ASSUME NEW w \in Workers, Pop(w) PROVE NoLostWakeup'
    <3>1. CASE framesQueue = <<>>
      BY <2>4, <3>1 DEF Pop
    <3>2. CASE framesQueue # <<>>
      <4>1. wrk'[w] = "recognize"
        BY <2>0, <2>4, <3>2 DEF Pop
      <4> QED
        BY <4>1
    <3> QED
      BY <3>1, <3>2
  <2>5. ASSUME NEW w \in Workers, WakeSpuriously(w) \/ Recognize(w)
        PROVE  NoLostWakeup'
    <3>1. wrk'[w] = "pop"
      BY <2>0, <2>5 DEF WakeSpuriously, Recognize
    <3> QED
      BY <3>1
  <2>6. CASE UNCHANGED vars
    BY <2>6 DEF vars, wrkvars
  <2> QED
    BY <2>1, <2>2, <2>3, <2>4, <2>5, <2>6 DEF Next, Stream
<1> QED
  BY <1>1, <1>2, FramesTypeCorrect, PTL DEF Spec

---------------------------------------------------------------------------
(* As long as no lock has been taken from the stream thread, mMutex        *)
(* excludes it and the capture thread from each other.                     *)
CaptureHolds == cap \in {"write", "number"}
StreamHolds == str \in {"test", "copying", "copied"}

LockInv ==
  /\ mMutex = "held" <=> CaptureHolds \/ StreamHolds
  /\ ~(CaptureHolds /\ StreamHolds)

(* The stream thread's frame is the one in the buffer, newer than all it   *)
(* has handed on.                                                          *)
StreamInv ==
  /\ lastFrameRead <= latestFrameNumber
  /\ str \in {"copying", "copied"} =>
       /\ frame = latestFrame
       /\ lastFrameRead < latestFrameNumber
  /\ str \in {"offer", "push"} =>
       /\ frame = lastFrameRead
       /\ frame >= 0
       /\ \A m \in DOMAIN handed : handed[m] < frame
  /\ \A m \in DOMAIN handed : handed[m] <= lastFrameRead

InOrder ==
  \A m \in DOMAIN handed :
    /\ handed[m] >= 0
    /\ \A n \in 1 .. m - 1 : handed[n] < handed[m]

OwnedInv == stolen = "no" => LockInv /\ StreamInv /\ InOrder

(* The three hold together as long as no lock has been taken.              *)
THEOREM StreamOwnsItsFrames == Spec => []OwnedInv
<1>1. Init => OwnedInv
  BY DEF Init, OwnedInv, LockInv, StreamInv, InOrder, CaptureHolds, StreamHolds
<1>2. FramesTypeOK /\ BufferInv /\ OwnedInv /\ [Next]_vars => OwnedInv'
  <2> SUFFICES ASSUME FramesTypeOK, BufferInv, OwnedInv, [Next]_vars,
                      stolen' = "no"
               PROVE  LockInv' /\ StreamInv' /\ InOrder'
    BY DEF OwnedInv
  <2>1. stolen = "no"
    BY DEF Next, Capture, CaptureRead, CaptureLock, CaptureWrite,
           CaptureNumber, CaptureUnlockAgain, UnlockUnowned, Stream,
           StreamLock, StreamTest, StreamCopy, StreamUnlock, StreamOffer,
           StreamPush, Pop, WakeSpuriously, Recognize, vars, FramesTypeOK
  <2>2. LockInv /\ StreamInv /\ InOrder
    BY <2>1 DEF OwnedInv
  <2>3. /\ latestFrameNumber \in Int /\ lastFrameRead \in Int
        /\ latestFrameNumber >= -1 /\ lastFrameRead >= -1
        /\ frame \in Int /\ latestFrame \in Int
        /\ handed \in Seq(Int)
    <3>1. /\ {latestFrameNumber, lastFrameRead} \subseteq Frames
          /\ {latestFrame, frame} \subseteq Frames \cup {Torn}
          /\ handed \in Seq(Frames \cup {Torn})
      BY DEF FramesTypeOK
    <3>2. handed \in Seq(Int)
      BY <3>1, FrameNumbers
    <3> QED
      BY <3>1, <3>2, FrameNumbers
  <2> USE <2>2, <2>3 DEF CaptureHolds, StreamHolds
  <2>4. CASE CaptureRead \/ CaptureUnlockAgain
    <3>1. /\ cap' \notin {"write", "number"} /\ mMutex' \in {mMutex, "free"}
          /\ mMutex' = mMutex \/ str \notin {"test", "copying", "copied"}
          /\ cap \notin {"write", "number"}
          /\ UNCHANGED <<str, frame, lastFrameRead, latestFrame,
                         latestFrameNumber, handed>>
      BY <2>4 DEF CaptureRead, CaptureUnlockAgain, UnlockUnowned, strvars
    <3>2. LockInv'
      BY <3>1 DEF LockInv
    <3> QED
      BY <3>1, <3>2 DEF StreamInv, InOrder
  <2>5. CASE CaptureLock
    <3>1. LockInv' /\ str \notin {"test", "copying", "copied"}
      BY <2>5 DEF CaptureLock, LockInv, strvars
    <3>2. StreamInv' /\ InOrder'
      BY <2>5, <3>1 DEF CaptureLock, strvars, StreamInv, InOrder
    <3> QED
      BY <3>1, <3>2
  <2>6. CASE CaptureWrite \/ CaptureNumber
    <3>1. str \notin {"test", "copying", "copied"}
      BY <2>6 DEF CaptureWrite, CaptureNumber, LockInv
    <3>2. LockInv'
      BY <2>6, <3>1 DEF CaptureWrite, CaptureNumber, LockInv, strvars
    <3>3. /\ UNCHANGED <<str, frame, lastFrameRead, handed>>
          /\ latestFrameNumber' \in {latestFrameNumber, latestFrameNumber + 1}
      BY <2>6 DEF CaptureWrite, CaptureNumber, strvars
    <3>4. StreamInv'
      BY <3>1, <3>3 DEF StreamInv
    <3>5. InOrder'
      BY <3>3 DEF InOrder
    <3> QED
      BY <3>2, <3>4, <3>5
  <2>7. CASE StreamLock
    BY <2>7 DEF StreamLock, LockInv, StreamInv, InOrder
  <2>8. CASE StreamTest
    BY <2>8 DEF StreamTest, LockInv, StreamInv, InOrder
  <2>9. CASE StreamCopy
    BY <2>9 DEF StreamCopy, LockInv, StreamInv, InOrder, bufvars
  <2>10. CASE StreamUnlock
    <3>1. LockInv' /\ InOrder'
      BY <2>10 DEF StreamUnlock, LockInv, InOrder
    <3>2. latestFrame = latestFrameNumber
      BY <2>10 DEF StreamUnlock, LockInv, BufferInv, FramesTypeOK
    <3>3. StreamInv'
      BY <2>10, <3>2 DEF StreamUnlock, StreamInv
    <3> QED
      BY <3>1, <3>3
  <2>11. CASE StreamOffer
    BY <2>11 DEF StreamOffer, LockInv, StreamInv, InOrder, bufvars
  <2>12. CASE StreamPush
    <3>1. /\ handed' = Append(handed, frame) /\ str = "push" /\ str' = "poll"
          /\ UNCHANGED <<cap, mMutex, latestFrame, latestFrameNumber,
                         lastFrameRead, frame>>
      BY <2>12 DEF StreamPush, bufvars
    <3>2. LockInv'
      BY <3>1 DEF LockInv
    <3>3. /\ DOMAIN handed = 1..Len(handed) /\ Len(handed) \in Nat
          /\ DOMAIN handed' = 1 .. Len(handed) + 1
          /\ handed'[Len(handed) + 1] = frame
          /\ \A m \in 1..Len(handed) : handed'[m] = handed[m] /\ handed[m] \in Int
      BY <3>1
    <3>4. StreamInv'
      BY <3>1, <3>3 DEF StreamInv
    <3>5. InOrder'
      <4> SUFFICES ASSUME NEW m \in DOMAIN handed'
                   PROVE  /\ handed'[m] >= 0
                          /\ \A n \in 1 .. m - 1 : handed'[n] < handed'[m]
        BY DEF InOrder
      <4>1. CASE m \in 1..Len(handed)
        BY <3>3, <4>1 DEF InOrder
      <4>2. CASE m = Len(handed) + 1
        BY <3>1, <3>3, <4>2 DEF StreamInv
      <4> QED
        BY <3>3, <4>1, <4>2
    <3> QED
      BY <3>2, <3>4, <3>5
  <2>13. ASSUME NEW w \in Workers, Pop(w) \/ WakeSpuriously(w) \/ Recognize(w)
         PROVE  LockInv' /\ StreamInv' /\ InOrder'
    BY <2>13 DEF Pop, WakeSpuriously, Recognize, bufvars, strvars, LockInv,
                 StreamInv, InOrder
  <2>14. CASE UNCHANGED vars
    BY <2>14 DEF vars, bufvars, strvars, LockInv, StreamInv, InOrder
  <2> QED
    BY <2>4, <2>5, <2>6, <2>7, <2>8, <2>9, <2>10, <2>11, <2>12, <2>13, <2>14
       DEF Next, Capture, Stream
<1> QED
  BY <1>1, <1>2, FramesTypeCorrect, PTL DEF Spec

(* While the capture thread frees no lock but its own, the frames handed   *)
(* to recognition are whole and strictly in the order of the camera.       *)
THEOREM FramesAreWhole == Spec => []WholeFramesInOrder
<1>1. OwnedInv => WholeFramesInOrder
  BY DEF OwnedInv, InOrder, WholeFramesInOrder
<1> QED
  BY <1>1, StreamOwnsItsFrames, PTL
---------------------------------------------------------------------------
(***************************************************************************)
(* The results, for any number of cameras and results.                     *)
(***************************************************************************)

USE DEF Goto, Move, TakeBack, ReservedBy, NoJob

(* The assumptions, apart; a place in the tube is no camera.               *)
LEMMA Bounds == MaxPosts \in Nat /\ MaxPosts > 1
BY UploadAssumption

LEMMA Places == "unused" \notin Cameras /\ "ready" \notin Cameras /\ "deleted" \notin Cameras
BY UploadAssumption

Busy == {"post", "delete", "release"}

(* A thread that is about to delete a result has posted it, or has no      *)
(* handle to post it with.                                                 *)
PostedInHand ==
  \A c \in Cameras :
    up[c] = "delete" => posts[job[c]] > 0 \/ job[c] \in skipped

(* A camera without a connection has nothing reserved.                     *)
ReservedWhileOpen ==
  \A c \in Cameras, r \in Jobs : tube[r] = c => conn[c] = "open"

(* A thread that works on a result has it reserved, if the server has      *)
(* never taken it back.                                                    *)
WorkingIsReserved ==
  \A c \in Cameras, r \in Jobs \ takenBack :
    up[c] \in Busy /\ job[c] = r => tube[r] = c

(* A result that has been posted, and never been taken back, is deleted or *)
(* about to be.                                                            *)
PostedIsSettled ==
  \A r \in Jobs \ takenBack :
    posts[r] > 0 =>
      \/ tube[r] = "deleted"
      \/ \E c \in Cameras : tube[r] = c /\ up[c] = "delete" /\ job[c] = r

(* Type correctness: every thread that posts, deletes or releases has a    *)
(* job in hand, also when reserve comes back without one.                  *)
THEOREM UploadTypeCorrect == UploadSpec => []UploadTypeOK
<1> USE Bounds, Places
<1>1. UploadInit => UploadTypeOK
  BY DEF UploadInit, UploadTypeOK
<1>2. UploadTypeOK /\ [UploadNext]_uploadvars => UploadTypeOK'
  <2> SUFFICES ASSUME UploadTypeOK, [UploadNext]_uploadvars
               PROVE  UploadTypeOK'
    OBVIOUS
  <2> USE DEF UploadTypeOK
  <2>1. ASSUME NEW c \in Cameras, NEW r \in Jobs, Put(c, r) PROVE UploadTypeOK'
    BY <2>1 DEF Put
  <2>2. ASSUME NEW c \in Cameras,
               PutKills(c) \/ ReserveKills(c) \/ SettleKills(c)
        PROVE  UploadTypeOK'
    BY <2>2 DEF PutKills, ReserveKills, SettleKills, Killed
  <2>3. ASSUME NEW c \in Cameras, Connect(c) PROVE UploadTypeOK'
    BY <2>3 DEF Connect
  <2>4. ASSUME NEW c \in Cameras, Reserve(c) PROVE UploadTypeOK'
    <3>1. PICK r \in Jobs :
            /\ tube[r] = "ready"
            /\ tube' = [tube EXCEPT ![r] = c]
            /\ job' = [job EXCEPT ![c] = r]
      BY <2>4 DEF Reserve
    <3> QED
      BY <2>4, <3>1 DEF Reserve
  <2>5. ASSUME NEW c \in Cameras, PostDone(c) PROVE UploadTypeOK'
    <3>1. posts' \in [Jobs -> 0..MaxPosts]
      BY <2>5 DEF PostDone
    <3> QED
      BY <2>5, <3>1 DEF PostDone
  <2>6. ASSUME NEW c \in Cameras, PostFails(c) \/ PostSkipped(c)
        PROVE  UploadTypeOK'
    BY <2>6 DEF PostFails, PostSkipped
  <2>7. ASSUME NEW c \in Cameras, Delete(c) PROVE UploadTypeOK'
    BY <2>7 DEF Delete
  <2>8. ASSUME NEW c \in Cameras, Release(c) PROVE UploadTypeOK'
    BY <2>8 DEF Release
  <2>9. ASSUME NEW c \in Cameras, ConnectionLost(c) PROVE UploadTypeOK'
    BY <2>9 DEF ConnectionLost
  <2>10. ASSUME NEW r \in Jobs, TimeToRunOver(r) PROVE UploadTypeOK'
    BY <2>10 DEF TimeToRunOver
  <2>11. CASE UNCHANGED uploadvars
    BY <2>11 DEF uploadvars
  <2> QED
    BY <2>1, <2>2, <2>3, <2>4, <2>5, <2>6, <2>7, <2>8, <2>9, <2>10, <2>11
       DEF UploadNext, Upload, Post
<1> QED
  BY <1>1, <1>2, PTL DEF UploadSpec

---------------------------------------------------------------------------
(* No result leaves the tube before it has been posted, but one that a     *)
(* thread without a handle took for posted, for any number of cameras,     *)
(* whatever fails.                                                         *)
THEOREM NothingIsDeletedUnposted == UploadSpec => []PostedBeforeDeleted
<1> USE Bounds, Places DEF PostedBeforeDeleted, PostedInHand
<1> DEFINE Inv == PostedBeforeDeleted /\ PostedInHand
<1>1. UploadInit => Inv
  BY DEF UploadInit
<1>2. UploadTypeOK /\ Inv /\ [UploadNext]_uploadvars => Inv'
  <2> SUFFICES ASSUME UploadTypeOK, Inv, [UploadNext]_uploadvars PROVE Inv'
    OBVIOUS
  <2> USE DEF UploadTypeOK
  <2>1. ASSUME NEW c \in Cameras, NEW r \in Jobs, Put(c, r) PROVE Inv'
    BY <2>1 DEF Put
  <2>2. ASSUME NEW c \in Cameras,
               PutKills(c) \/ ReserveKills(c) \/ SettleKills(c)
        PROVE  Inv'
    BY <2>2 DEF PutKills, ReserveKills, SettleKills, Killed
  <2>3. ASSUME NEW c \in Cameras, Connect(c) PROVE Inv'
    BY <2>3 DEF Connect
  <2>4. ASSUME NEW c \in Cameras, Reserve(c) PROVE Inv'
    <3>1. PICK r \in Jobs :
            /\ tube[r] = "ready"
            /\ tube' = [tube EXCEPT ![r] = c]
            /\ job' = [job EXCEPT ![c] = r]
      BY <2>4 DEF Reserve
    <3> QED
      BY <2>4, <3>1 DEF Reserve
  <2>5. ASSUME NEW c \in Cameras, PostDone(c) PROVE Inv'
    <3>1. \A r \in Jobs : posts'[r] >= posts[r]
      BY <2>5 DEF PostDone
    <3>2. job[c] \in Jobs /\ posts'[job[c]] > 0
      BY <2>5 DEF PostDone
    <3> QED
      BY <2>5, <3>1, <3>2 DEF PostDone
  <2>6. ASSUME NEW c \in Cameras, PostFails(c) \/ PostSkipped(c) PROVE Inv'
    BY <2>6 DEF PostFails, PostSkipped
  <2>7. ASSUME NEW c \in Cameras, Delete(c) PROVE Inv'
    BY <2>7 DEF Delete
  <2>8. ASSUME NEW c \in Cameras, Release(c) PROVE Inv'
    BY <2>8 DEF Release
  <2>9. ASSUME NEW c \in Cameras, ConnectionLost(c) PROVE Inv'
    BY <2>9 DEF ConnectionLost
  <2>10. ASSUME NEW r \in Jobs, TimeToRunOver(r) PROVE Inv'
    BY <2>10 DEF TimeToRunOver
  <2>11. CASE UNCHANGED uploadvars
    BY <2>11 DEF uploadvars
  <2> QED
    BY <2>1, <2>2, <2>3, <2>4, <2>5, <2>6, <2>7, <2>8, <2>9, <2>10, <2>11
       DEF UploadNext, Upload, Post
<1> QED
  BY <1>1, <1>2, UploadTypeCorrect, PTL DEF UploadSpec

---------------------------------------------------------------------------
UploadInv ==
  /\ ReservedWhileOpen
  /\ WorkingIsReserved
  /\ PostedIsSettled
  /\ TwiceOnlyIfTakenBack

(* A process that is killed has its results taken back, and they are no    *)
(* longer bound by the invariant.                                          *)
LEMMA KilledKeeps ==
  ASSUME UploadTypeOK, UploadInv, NEW c \in Cameras, Killed(c)
  PROVE  UploadInv'
<1>1. \A r \in Jobs \ takenBack' : tube'[r] = tube[r] /\ r \notin takenBack
  BY DEF Killed, UploadTypeOK
<1>2. \A r \in Jobs : tube'[r] # c /\ (tube'[r] = tube[r] \/ tube'[r] = "ready")
  BY Places DEF Killed, UploadTypeOK
<1>3. ReservedWhileOpen'
  BY <1>2, Places DEF Killed, UploadTypeOK, UploadInv, ReservedWhileOpen
<1>4. WorkingIsReserved'
  BY <1>1 DEF Killed, UploadTypeOK, UploadInv, WorkingIsReserved, Busy
<1>5. PostedIsSettled'
  <2> SUFFICES ASSUME NEW r \in Jobs \ takenBack', posts[r] > 0
               PROVE  \/ tube'[r] = "deleted"
                      \/ \E d \in Cameras :
                           tube'[r] = d /\ up'[d] = "delete" /\ job'[d] = r
    BY DEF PostedIsSettled, Killed
  <2>1. CASE tube[r] = "deleted"
    BY <1>1, <2>1
  <2>2. ASSUME NEW d \in Cameras, tube[r] = d, up[d] = "delete", job[d] = r
        PROVE  tube'[r] = d /\ up'[d] = "delete" /\ job'[d] = r
    <3>1. d # c
      BY <1>1, <1>2, <2>2
    <3> QED
      BY <1>1, <2>2, <3>1 DEF Killed, UploadTypeOK
  <2> QED
    BY <1>1, <2>1, <2>2 DEF UploadInv, PostedIsSettled
<1>6. TwiceOnlyIfTakenBack'
  BY DEF Killed, UploadTypeOK, UploadInv, TwiceOnlyIfTakenBack
<1> QED
  BY <1>3, <1>4, <1>5, <1>6 DEF UploadInv

(* A result is posted twice only if the server has taken it back, for any  *)
(* number of cameras.                                                      *)
THEOREM PostedOnceUnlessTakenBack == UploadSpec => []TwiceOnlyIfTakenBack
<1> USE Bounds, Places
<1>1. UploadInit => UploadInv
  BY DEF UploadInit, UploadInv, ReservedWhileOpen, WorkingIsReserved,
         PostedIsSettled, TwiceOnlyIfTakenBack, Busy
<1>2. UploadTypeOK /\ UploadInv /\ [UploadNext]_uploadvars => UploadInv'
  <2> SUFFICES ASSUME UploadTypeOK, UploadInv, [UploadNext]_uploadvars
               PROVE  UploadInv'
    OBVIOUS
  <2>0. ReservedWhileOpen /\ WorkingIsReserved /\ PostedIsSettled
        /\ TwiceOnlyIfTakenBack
    BY DEF UploadInv
  <2> USE DEF UploadTypeOK
  <2>1. ASSUME NEW c \in Cameras, NEW r \in Jobs, Put(c, r) PROVE UploadInv'
    <3>1. /\ tube[r] = "unused" /\ tube' = [tube EXCEPT ![r] = "ready"]
          /\ UNCHANGED <<up, conn, curl, job, posts, skipped, takenBack>>
      BY <2>1 DEF Put
    <3>2. ReservedWhileOpen' /\ TwiceOnlyIfTakenBack'
      BY <2>0, <3>1 DEF ReservedWhileOpen, TwiceOnlyIfTakenBack
    <3>3. WorkingIsReserved'
      BY <2>0, <3>1 DEF WorkingIsReserved
    <3>4. PostedIsSettled'
      BY <2>0, <3>1 DEF PostedIsSettled
    <3> QED
      BY <3>2, <3>3, <3>4 DEF UploadInv
  <2>2. ASSUME NEW c \in Cameras,
               PutKills(c) \/ ReserveKills(c) \/ SettleKills(c)
        PROVE  UploadInv'
    BY <2>2, KilledKeeps DEF PutKills, ReserveKills, SettleKills
  <2>3. ASSUME NEW c \in Cameras, Connect(c) PROVE UploadInv'
    <3>1. /\ up[c] = "connect" /\ up' = [up EXCEPT ![c] = "reserve"]
          /\ conn' = [conn EXCEPT ![c] = "open"]
          /\ UNCHANGED <<job, tube, posts, skipped, takenBack>>
      BY <2>3 DEF Connect
    <3>2. ReservedWhileOpen' /\ TwiceOnlyIfTakenBack'
      BY <2>0, <3>1 DEF ReservedWhileOpen, TwiceOnlyIfTakenBack
    <3>3. WorkingIsReserved'
      BY <2>0, <3>1 DEF WorkingIsReserved, Busy
    <3>4. PostedIsSettled'
      BY <2>0, <3>1 DEF PostedIsSettled
    <3> QED
      BY <3>2, <3>3, <3>4 DEF UploadInv
  <2>4. ASSUME NEW c \in Cameras, Reserve(c) PROVE UploadInv'
    <3>1. PICK r \in Jobs :
            /\ tube[r] = "ready"
            /\ tube' = [tube EXCEPT ![r] = c]
            /\ job' = [job EXCEPT ![c] = r]
      BY <2>4 DEF Reserve
    <3>2. /\ up[c] = "reserve" /\ conn[c] = "open"
          /\ up' = [up EXCEPT ![c] = "post"]
          /\ UNCHANGED <<conn, curl, posts, skipped, takenBack>>
      BY <2>4 DEF Reserve
    <3>3. ReservedWhileOpen' /\ TwiceOnlyIfTakenBack'
      BY <2>0, <3>1, <3>2 DEF ReservedWhileOpen, TwiceOnlyIfTakenBack
    <3>4. WorkingIsReserved'
      BY <2>0, <3>1, <3>2 DEF WorkingIsReserved, Busy
    <3>5. PostedIsSettled'
      BY <2>0, <3>1, <3>2 DEF PostedIsSettled
    <3> QED
      BY <3>3, <3>4, <3>5 DEF UploadInv
  <2>5. ASSUME NEW c \in Cameras, PostDone(c) PROVE UploadInv'
    <3>1. /\ up[c] = "post" /\ job[c] \in Jobs
          /\ up' = [up EXCEPT ![c] = "delete"]
          /\ UNCHANGED <<conn, curl, job, tube, skipped, takenBack>>
          /\ \A r \in Jobs : r # job[c] => posts'[r] = posts[r]
          /\ posts[job[c]] = 0 => posts'[job[c]] = 1
      BY <2>5 DEF PostDone
    <3>2. ReservedWhileOpen'
      BY <2>0, <3>1 DEF ReservedWhileOpen
    <3>3. WorkingIsReserved'
      BY <2>0, <3>1 DEF WorkingIsReserved, Busy
    <3>4. job[c] \notin takenBack => tube[job[c]] = c /\ posts[job[c]] = 0
      <4> SUFFICES ASSUME job[c] \notin takenBack
                   PROVE  tube[job[c]] = c /\ posts[job[c]] = 0
        OBVIOUS
      <4>1. tube[job[c]] = c
        BY <2>0, <3>1 DEF WorkingIsReserved, Busy
      <4>2. tube[job[c]] # "deleted" /\ up[c] # "delete"
        BY <3>1, <4>1
      <4>3. ~(posts[job[c]] > 0)
        BY <2>0, <3>1, <4>1, <4>2 DEF PostedIsSettled
      <4>4. posts[job[c]] \in Nat
        BY <3>1
      <4> QED
        BY <4>1, <4>3, <4>4
    <3>5. PostedIsSettled'
      <4> SUFFICES ASSUME NEW r \in Jobs \ takenBack, posts'[r] > 0
                   PROVE  \/ tube[r] = "deleted"
                          \/ \E d \in Cameras :
                               tube[r] = d /\ up'[d] = "delete" /\ job[d] = r
        BY <3>1 DEF PostedIsSettled
      <4>1. CASE r = job[c]
        BY <3>1, <3>4, <4>1
      <4>2. CASE r # job[c]
        BY <2>0, <3>1, <4>2 DEF PostedIsSettled
      <4> QED
        BY <4>1, <4>2
    <3>6. TwiceOnlyIfTakenBack'
      BY <2>0, <3>1, <3>4 DEF TwiceOnlyIfTakenBack
    <3> QED
      BY <3>2, <3>3, <3>5, <3>6 DEF UploadInv
  <2>6. ASSUME NEW c \in Cameras, PostFails(c) \/ PostSkipped(c)
        PROVE  UploadInv'
    <3>1. /\ up[c] = "post" /\ \A d \in Cameras : d # c => up'[d] = up[d]
          /\ up'[c] \in {"release", "delete"}
          /\ UNCHANGED <<conn, job, tube, posts, takenBack>>
      BY <2>6 DEF PostFails, PostSkipped, UploadTypeOK
    <3>2. ReservedWhileOpen' /\ TwiceOnlyIfTakenBack'
      BY <2>0, <3>1 DEF ReservedWhileOpen, TwiceOnlyIfTakenBack
    <3>3. WorkingIsReserved'
      BY <2>0, <3>1 DEF WorkingIsReserved, Busy
    <3>4. PostedIsSettled'
      BY <2>0, <3>1 DEF PostedIsSettled
    <3> QED
      BY <3>2, <3>3, <3>4 DEF UploadInv
  <2>7. ASSUME NEW c \in Cameras, Delete(c) \/ Release(c) PROVE UploadInv'
    <3> DEFINE r == job[c]
    <3>1. /\ up[c] \in {"delete", "release"} /\ r \in Jobs
          /\ up' = [up EXCEPT ![c] = "reserve"]
          /\ job' = [job EXCEPT ![c] = NoJob]
          /\ UNCHANGED <<conn, curl, posts, skipped, takenBack>>
      BY <2>7 DEF Delete, Release
    <3>2. /\ \A s \in Jobs : s # r => tube'[s] = tube[s]
          /\ tube'[r] \in {tube[r], "deleted", "ready"}
      BY <2>7, <3>1 DEF Delete, Release
    <3>3. r \notin takenBack =>
            /\ tube[r] = c
            /\ tube'[r] = IF up[c] = "delete" THEN "deleted" ELSE "ready"
      <4> SUFFICES ASSUME r \notin takenBack
                   PROVE  /\ tube[r] = c
                          /\ tube'[r] = IF up[c] = "delete" THEN "deleted"
                                                            ELSE "ready"
        OBVIOUS
      <4>1. tube[r] = c
        BY <2>0, <3>1 DEF WorkingIsReserved, Busy
      <4>2. conn[c] = "open"
        BY <2>0, <3>1, <4>1 DEF ReservedWhileOpen
      <4> QED
        BY <2>7, <3>1, <4>1, <4>2 DEF Delete, Release
    <3>4. ReservedWhileOpen' /\ TwiceOnlyIfTakenBack'
      BY <2>0, <3>1, <3>2 DEF ReservedWhileOpen, TwiceOnlyIfTakenBack
    <3>5. WorkingIsReserved'
      <4> SUFFICES ASSUME NEW d \in Cameras, NEW s \in Jobs \ takenBack,
                          up'[d] \in Busy, job'[d] = s
                   PROVE  tube'[s] = d
        BY <3>1 DEF WorkingIsReserved
      <4>1. d # c /\ up[d] \in Busy /\ job[d] = s
        BY <3>1 DEF Busy
      <4>2. tube[s] = d
        BY <2>0, <4>1 DEF WorkingIsReserved
      <4>3. s # r
        BY <3>3, <4>1, <4>2
      <4> QED
        BY <3>2, <4>2, <4>3
    <3>6. PostedIsSettled'
      <4> SUFFICES ASSUME NEW s \in Jobs \ takenBack, posts[s] > 0
                   PROVE  \/ tube'[s] = "deleted"
                          \/ \E d \in Cameras :
                               tube'[s] = d /\ up'[d] = "delete" /\ job'[d] = s
        BY <3>1 DEF PostedIsSettled
      <4>1. CASE tube[s] = "deleted"
        BY <3>1, <3>2, <3>3, <4>1
      <4>2. ASSUME NEW d \in Cameras, tube[s] = d, up[d] = "delete", job[d] = s
            PROVE  \/ tube'[s] = "deleted"
                   \/ tube'[s] = d /\ up'[d] = "delete" /\ job'[d] = s
        <5>1. CASE d = c
          BY <3>3, <4>2, <5>1
        <5>2. CASE d # c
          <6>1. s # r
            BY <3>3, <4>2, <5>2
          <6> QED
            BY <3>1, <3>2, <4>2, <5>2, <6>1
        <5> QED
          BY <5>1, <5>2
      <4> QED
        BY <2>0, <4>1, <4>2 DEF PostedIsSettled
    <3> QED
      BY <3>4, <3>5, <3>6 DEF UploadInv
  <2>8. ASSUME NEW c \in Cameras, ConnectionLost(c) PROVE UploadInv'
    <3>1. \A r \in Jobs \ takenBack' : tube'[r] = tube[r] /\ r \notin takenBack
      BY <2>8 DEF ConnectionLost
    <3>2. \A r \in Jobs : tube'[r] # c /\ tube'[r] \in {tube[r], "ready"}
      BY <2>8 DEF ConnectionLost
    <3>3. ReservedWhileOpen'
      BY <2>0, <2>8, <3>2 DEF ConnectionLost, ReservedWhileOpen
    <3>4. WorkingIsReserved'
      BY <2>0, <2>8, <3>1 DEF ConnectionLost, WorkingIsReserved
    <3>5. PostedIsSettled'
      BY <2>0, <2>8, <3>1 DEF ConnectionLost, PostedIsSettled
    <3>6. TwiceOnlyIfTakenBack'
      BY <2>0, <2>8 DEF ConnectionLost, TwiceOnlyIfTakenBack
    <3> QED
      BY <3>3, <3>4, <3>5, <3>6 DEF UploadInv
  <2>9. ASSUME NEW r \in Jobs, TimeToRunOver(r) PROVE UploadInv'
    <3>1. \A s \in Jobs \ takenBack' : tube'[s] = tube[s] /\ s \notin takenBack
      BY <2>9 DEF TimeToRunOver
    <3>2. \A s \in Jobs : tube'[s] \in {tube[s], "ready"}
      BY <2>9 DEF TimeToRunOver
    <3>3. ReservedWhileOpen'
      BY <2>0, <2>9, <3>2 DEF TimeToRunOver, ReservedWhileOpen
    <3>4. WorkingIsReserved'
      BY <2>0, <2>9, <3>1 DEF TimeToRunOver, WorkingIsReserved
    <3>5. PostedIsSettled'
      BY <2>0, <2>9, <3>1 DEF TimeToRunOver, PostedIsSettled
    <3>6. TwiceOnlyIfTakenBack'
      BY <2>0, <2>9 DEF TimeToRunOver, TwiceOnlyIfTakenBack
    <3> QED
      BY <3>3, <3>4, <3>5, <3>6 DEF UploadInv
  <2>10. CASE UNCHANGED uploadvars
    BY <2>0, <2>10 DEF uploadvars, UploadInv, ReservedWhileOpen,
                       WorkingIsReserved, PostedIsSettled, TwiceOnlyIfTakenBack
  <2> QED
    BY <2>1, <2>2, <2>3, <2>4, <2>5, <2>6, <2>7, <2>8, <2>9, <2>10
       DEF UploadNext, Upload, Post
<1>3. UploadInv => TwiceOnlyIfTakenBack
  BY DEF UploadInv
<1> QED
  BY <1>1, <1>2, <1>3, UploadTypeCorrect, PTL DEF UploadSpec
---------------------------------------------------------------------------
(***************************************************************************)
(* The whole daemon.                                                       *)
(***************************************************************************)

(* The daemon's own variables.                                             *)
SetupTypeOK ==
  /\ setup \in Setups
  /\ shown \in [Jobs -> Frames \cup {Torn}]

(* Its own variables keep their types, given those of the frames.          *)
LEMMA SetupTypeStep ==
  ASSUME FramesTypeOK, SetupTypeOK, [DaemonNext]_daemonvars
  PROVE  SetupTypeOK'
<1> USE DEF SetupTypeOK
<1>1. ASSUME NEW w \in Workers, WriteResult(w) PROVE SetupTypeOK'
  <2>1. item[w] \in Frames \cup {Torn}
    BY DEF FramesTypeOK
  <2>2. PICK r \in setup.results : shown' = [shown EXCEPT ![r] = item[w]]
    BY <1>1 DEF WriteResult
  <2> QED
    BY <1>1, <2>1, <2>2 DEF WriteResult
<1>2. CASE UNCHANGED <<setup, shown>>
  BY <1>2
<1> QED
  BY <1>1, <1>2 DEF DaemonNext, TakeFrames, TakeItem, Wake, Process,
     NothingToShow, WriteKills, UploadResults, OtherCamera, Server, daemonvars

(* Every step of the daemon is one of the frames, of the results, or both. *)
LEMMA DaemonStep ==
  ASSUME SetupTypeOK, [DaemonNext]_daemonvars
  PROVE  [Next]_vars /\ [UploadNext]_uploadvars
<1>1. setup.results \subseteq Jobs /\ Camera \in Cameras
  BY DaemonAssumption DEF SetupTypeOK
<1>2. CASE TakeFrames
  BY <1>2 DEF TakeFrames, Next
<1>3. ASSUME NEW w \in Workers, TakeItem(w) \/ Wake(w) \/ NothingToShow(w)
      PROVE  [Next]_vars /\ [UploadNext]_uploadvars
  BY <1>3 DEF TakeItem, Wake, NothingToShow, Next
<1>4. ASSUME NEW w \in Workers, WriteResult(w)
      PROVE  [Next]_vars /\ [UploadNext]_uploadvars
  <2>1. PICK r \in setup.results : Put(Camera, r)
    BY <1>4 DEF WriteResult
  <2>2. UploadNext
    BY <1>1, <2>1 DEF UploadNext
  <2>3. Next
    BY <1>4 DEF WriteResult, Next
  <2> QED
    BY <2>2, <2>3
<1>5. ASSUME NEW w \in Workers, WriteKills(w)
      PROVE  [Next]_vars /\ [UploadNext]_uploadvars
  BY <1>1, <1>5 DEF WriteKills, UploadNext
<1>6. ASSUME NEW c \in Cameras, UploadResults(c)
      PROVE  [Next]_vars /\ [UploadNext]_uploadvars
  BY <1>6 DEF UploadResults, UploadNext
<1>7. ASSUME NEW c \in Cameras, OtherCamera(c)
      PROVE  [Next]_vars /\ [UploadNext]_uploadvars
  <2>1. UNCHANGED vars
    BY <1>7 DEF OtherCamera
  <2>2. UploadNext
    BY <1>1, <1>7 DEF OtherCamera, UploadNext
  <2> QED
    BY <2>1, <2>2
<1>8. CASE Server
  BY <1>8 DEF Server, UploadNext
<1>9. CASE UNCHANGED daemonvars
  BY <1>9 DEF daemonvars
<1> QED
  BY <1>2, <1>3, <1>4, <1>5, <1>6, <1>7, <1>8, <1>9 DEF DaemonNext, Process

(* The daemon composes its parts: seen from the frames alone, and seen     *)
(* from the results alone, it does nothing that they may not do, so that   *)
(* all that is proved about them holds of it.                              *)
THEOREM Composition == DaemonSpec => Spec /\ UploadSpec /\ []SetupTypeOK
<1>1. DaemonInit => Init /\ UploadInit
  BY DEF DaemonInit
<1>2. DaemonInit => FramesTypeOK /\ BufferInv /\ SetupTypeOK
  <2>1. DaemonInit => SetupTypeOK
    BY FrameNumbers DEF DaemonInit, SetupTypeOK
  <2> QED
    BY <2>1, FramesTypeInit DEF DaemonInit
<1>3. /\ FramesTypeOK /\ BufferInv /\ SetupTypeOK
      /\ [DaemonNext]_daemonvars
      => (FramesTypeOK /\ BufferInv /\ SetupTypeOK)'
  BY SetupTypeStep, DaemonStep, FramesTypeStep
<1>4. SetupTypeOK /\ [DaemonNext]_daemonvars => [Next]_vars
  BY DaemonStep
<1>5. SetupTypeOK /\ [DaemonNext]_daemonvars => [UploadNext]_uploadvars
  BY DaemonStep
<1> QED
  BY <1>1, <1>2, <1>3, <1>4, <1>5, PTL DEF DaemonSpec, Spec, UploadSpec

(* Types of the whole daemon.                                              *)
THEOREM DaemonTypeCorrect == DaemonSpec => []DaemonTypeOK
<1>1. FramesTypeOK /\ UploadTypeOK /\ SetupTypeOK => DaemonTypeOK
  BY DEF DaemonTypeOK, SetupTypeOK
<1> QED
  BY <1>1, Composition, FramesTypeCorrect, UploadTypeCorrect, PTL

---------------------------------------------------------------------------
(* Where a frame can be: handed on to recognition, waiting in the queue,   *)
(* in the hands of a thread.                                               *)
Handed == {handed[m] : m \in DOMAIN handed}
Waiting == {framesQueue[k] : k \in DOMAIN framesQueue}
Working == {w \in Workers : wrk[w] = "recognize"}

(* All of these are frames that were handed on, and no frame is in two     *)
(* places at a time.                                                       *)
PlacesInv ==
  /\ Waiting \subseteq Handed
  /\ \A w \in Working : item[w] \in Handed \ Waiting
  /\ \A v, w \in Working : v # w => item[v] # item[w]
  /\ \A r \in Jobs : shown[r] # None =>
       /\ shown[r] \in Handed \ Waiting
       /\ \A w \in Working : shown[r] # item[w]
       /\ \A q \in Jobs \ {r} : shown[q] # shown[r]

ShownInv == stolen = "no" => PlacesInv

(* The step of the stream thread: the frame it pushes is newer than any    *)
(* that was handed on.                                                     *)
LEMMA PushKeepsPlaces ==
  ASSUME FramesTypeOK, OwnedInv, stolen = "no", PlacesInv, StreamPush,
         UNCHANGED shown
  PROVE  PlacesInv'
<1>1. /\ framesQueue \in Seq(Frames \cup {Torn}) /\ handed \in Seq(Frames \cup {Torn})
      /\ frame \in Frames \cup {Torn}
      /\ framesQueue' = Append(framesQueue, frame) /\ handed' = Append(handed, frame)
      /\ item' = item /\ str = "push"
  BY DEF FramesTypeOK, StreamPush
<1>2. Handed' = Handed \cup {frame} /\ Waiting' = Waiting \cup {frame}
  <2>1. Handed' = Handed \cup {frame}
    <3>1. /\ Len(handed) \in Nat /\ DOMAIN handed = 1..Len(handed)
          /\ DOMAIN handed' = 1..(Len(handed) + 1)
          /\ handed'[Len(handed) + 1] = frame
          /\ \A k \in 1..Len(handed) : handed'[k] = handed[k]
      BY <1>1
    <3>2. DOMAIN handed' = DOMAIN handed \cup {Len(handed) + 1}
      BY <3>1
    <3>3. \A k \in DOMAIN handed : handed'[k] = handed[k]
      BY <3>1
    <3> QED
      <4>1. \A y : y \in Handed' <=> y \in Handed \cup {frame}
        <5>1. ASSUME NEW y \in Handed' PROVE y \in Handed \cup {frame}
          <6>1. PICK k \in DOMAIN handed' : y = handed'[k]
            BY DEF Handed
          <6> QED
            BY <3>1, <3>2, <3>3, <6>1 DEF Handed
        <5>2. ASSUME NEW y \in Handed PROVE y \in Handed'
          BY <3>2, <3>3 DEF Handed
        <5>3. frame \in Handed'
          BY <3>1, <3>2 DEF Handed
        <5> QED
          BY <5>1, <5>2, <5>3
      <4> QED
        BY <4>1
  <2>2. Waiting' = Waiting \cup {frame}
    <3>1. /\ Len(framesQueue) \in Nat /\ DOMAIN framesQueue = 1..Len(framesQueue)
          /\ DOMAIN framesQueue' = 1..(Len(framesQueue) + 1)
          /\ framesQueue'[Len(framesQueue) + 1] = frame
          /\ \A k \in 1..Len(framesQueue) : framesQueue'[k] = framesQueue[k]
      BY <1>1
    <3>2. DOMAIN framesQueue' = DOMAIN framesQueue \cup {Len(framesQueue) + 1}
      BY <3>1
    <3>3. \A k \in DOMAIN framesQueue : framesQueue'[k] = framesQueue[k]
      BY <3>1
    <3> QED
      <4>1. \A y : y \in Waiting' <=> y \in Waiting \cup {frame}
        <5>1. ASSUME NEW y \in Waiting' PROVE y \in Waiting \cup {frame}
          <6>1. PICK k \in DOMAIN framesQueue' : y = framesQueue'[k]
            BY DEF Waiting
          <6> QED
            BY <3>1, <3>2, <3>3, <6>1 DEF Waiting
        <5>2. ASSUME NEW y \in Waiting PROVE y \in Waiting'
          BY <3>2, <3>3 DEF Waiting
        <5>3. frame \in Waiting'
          BY <3>1, <3>2 DEF Waiting
        <5> QED
          BY <5>1, <5>2, <5>3
      <4> QED
        BY <4>1
  <2> QED
    BY <2>1, <2>2
<1>3. frame \notin Handed
  <2>1. \A m \in DOMAIN handed : handed[m] < frame
    BY <1>1 DEF OwnedInv, StreamInv
  <2>2. \A m \in DOMAIN handed : handed[m] \in Int
    BY <1>1, FrameNumbers
  <2> QED
    BY <1>1, <2>1, <2>2, FrameNumbers DEF Handed
<1>4. Working' = Working
  BY DEF StreamPush, Working, Asleep, FramesTypeOK
<1> QED
  BY <1>1, <1>2, <1>3, <1>4 DEF PlacesInv

(* The step of a thread that takes a frame, alone in the queue.            *)
LEMMA PopKeepsPlaces ==
  ASSUME FramesTypeOK, OneFrameWaits, PlacesInv, NEW u \in Workers, Pop(u),
         UNCHANGED shown
  PROVE  PlacesInv'
<1>1. /\ framesQueue \in Seq(Frames \cup {Torn})
      /\ wrk \in [Workers -> {"pop", "asleep", "recognize"}]
      /\ item \in [Workers -> Frames \cup {Torn}]
      /\ handed' = handed
  BY DEF FramesTypeOK, Pop
<1>2. Handed' = Handed
  BY <1>1 DEF Handed
<1>3. CASE framesQueue = <<>>
  <2>1. /\ framesQueue' = framesQueue /\ item' = item
        /\ wrk' = [wrk EXCEPT ![u] = "asleep"]
    BY <1>3 DEF Pop
  <2>2. Working' = Working
    BY <1>1, <2>1 DEF Working, Pop
  <2> QED
    BY <1>2, <2>1, <2>2 DEF PlacesInv, Waiting
<1>4. CASE framesQueue # <<>>
  <2>1. /\ item' = [item EXCEPT ![u] = Head(framesQueue)]
        /\ framesQueue' = Tail(framesQueue)
        /\ wrk' = [wrk EXCEPT ![u] = "recognize"]
        /\ u \notin Working
    BY <1>4 DEF Pop, Working
  <2>2. Tail(framesQueue) = <<>>
    BY <1>1, <1>4 DEF OneFrameWaits
  <2>3. Waiting' = {} /\ Head(framesQueue) \in Waiting
    BY <1>1, <1>4, <2>1, <2>2 DEF Waiting
  <2>4. /\ Working' = Working \cup {u}
        /\ item'[u] = Head(framesQueue)
        /\ \A w \in Working : item'[w] = item[w]
    BY <1>1, <2>1 DEF Working
  <2> QED
    BY <1>2, <2>1, <2>3, <2>4 DEF PlacesInv
<1> QED
  BY <1>3, <1>4

(* A thread has done with its frame, without a result.                     *)
LEMMA DoneKeepsPlaces ==
  ASSUME FramesTypeOK, PlacesInv, NEW u \in Workers, Recognize(u),
         UNCHANGED shown
  PROVE  PlacesInv'
<1>1. /\ framesQueue' = framesQueue /\ handed' = handed
      /\ Working' = Working \ {u}
      /\ \A w \in Working' : item'[w] = item[w]
  BY DEF FramesTypeOK, Recognize, Working
<1>2. Handed' = Handed /\ Waiting' = Waiting
  BY <1>1 DEF Handed, Waiting
<1> QED
  BY <1>1, <1>2 DEF PlacesInv

(* A thread has made a result of its frame.                                *)
LEMMA ResultKeepsPlaces ==
  ASSUME FramesTypeOK, SetupTypeOK, PlacesInv, NEW u \in Workers, WriteResult(u)
  PROVE  PlacesInv'
<1>1. setup.results \subseteq Jobs
  BY DaemonAssumption DEF SetupTypeOK
<1>2. PICK r \in setup.results : shown' = [shown EXCEPT ![r] = item[u]]
  BY DEF WriteResult
<1>3. /\ framesQueue' = framesQueue /\ handed' = handed
      /\ Working' = Working \ {u} /\ u \in Working
      /\ \A w \in Working' : item'[w] = item[w]
  BY DEF FramesTypeOK, WriteResult, Recognize, Working
<1>4. Handed' = Handed /\ Waiting' = Waiting
  BY <1>3 DEF Handed, Waiting
<1>5. r \in Jobs /\ shown'[r] = item[u] /\ \A q \in Jobs \ {r} : shown'[q] = shown[q]
  BY <1>1, <1>2 DEF SetupTypeOK
<1>6. \A q \in Jobs : shown[q] # item[u] \/ shown[q] = None
  BY <1>3 DEF PlacesInv
<1>7. item[u] \in Handed \ Waiting /\ \A w \in Working' : item[w] # item[u]
  BY <1>3 DEF PlacesInv
<1>8. ASSUME NEW q \in Jobs, shown'[q] # None
      PROVE  /\ shown'[q] \in (Handed \ Waiting)'
             /\ \A w \in Working' : shown'[q] # item'[w]
             /\ \A p \in Jobs \ {q} : shown'[p] # shown'[q]
  <2>1. CASE q = r
    BY <1>3, <1>4, <1>5, <1>6, <1>7, <1>8, <2>1
  <2>2. CASE q # r
    BY <1>3, <1>4, <1>5, <1>6, <1>8, <2>2 DEF PlacesInv
  <2> QED
    BY <2>1, <2>2
<1> QED
  BY <1>3, <1>4, <1>8 DEF PlacesInv

(* All other steps leave the frames where they are, or steal a lock.       *)
LEMMA OthersKeepPlaces ==
  ASSUME FramesTypeOK, PlacesInv, UNCHANGED <<framesQueue, item, handed, shown>>,
         \A w \in Workers : wrk'[w] = "recognize" <=> wrk[w] = "recognize"
  PROVE  PlacesInv'
<1>1. Handed' = Handed /\ Waiting' = Waiting /\ Working' = Working
  BY DEF Handed, Waiting, Working
<1> QED
  BY <1>1 DEF PlacesInv

(* Unless a lock was stolen, no frame makes two results, however many      *)
(* threads recognise plates, and none is shown while it is still waiting   *)
(* or worked on.                                                           *)
THEOREM ShownOnce == DaemonSpec => []FrameShownOnce
<1>1. DaemonInit => ShownInv
  BY DEF DaemonInit, Init, ShownInv, PlacesInv, Handed, Waiting, Working
<1>2. /\ FramesTypeOK /\ OwnedInv /\ OneFrameWaits /\ SetupTypeOK
      /\ ShownInv /\ [DaemonNext]_daemonvars
      => ShownInv'
  <2> SUFFICES ASSUME FramesTypeOK, OwnedInv, OneFrameWaits, SetupTypeOK,
                      ShownInv, [DaemonNext]_daemonvars, stolen' = "no"
               PROVE  PlacesInv'
    BY DEF ShownInv
  <2>1. stolen = "no"
    <3>1. [Next]_vars
      BY DaemonStep
    <3> QED
      BY <3>1 DEF Next, Capture, CaptureRead, CaptureLock, CaptureWrite,
         CaptureNumber, CaptureUnlockAgain, UnlockUnowned, Stream,
         StreamLock, StreamTest, StreamCopy, StreamUnlock, StreamOffer,
         StreamPush, Pop, WakeSpuriously, Recognize, vars, FramesTypeOK
  <2>2. PlacesInv
    BY <2>1 DEF ShownInv
  <2>3. CASE TakeFrames
    <3>1. UNCHANGED shown
      BY <2>3 DEF TakeFrames
    <3>2. CASE StreamPush
      BY <2>1, <2>2, <3>1, <3>2, PushKeepsPlaces
    <3>3. CASE ~StreamPush
      <4>1. UNCHANGED <<framesQueue, item, wrk, handed>>
        BY <2>3, <3>3 DEF TakeFrames, Capture, CaptureRead, CaptureLock,
           CaptureWrite, CaptureNumber, CaptureUnlockAgain, Stream,
           StreamLock, StreamTest, StreamCopy, StreamUnlock, StreamOffer,
           wrkvars
      <4> QED
        BY <2>2, <3>1, <4>1, OthersKeepPlaces
    <3> QED
      BY <3>2, <3>3
  <2>4. ASSUME NEW w \in Workers, TakeItem(w) PROVE PlacesInv'
    BY <2>2, <2>4, PopKeepsPlaces DEF TakeItem
  <2>5. ASSUME NEW w \in Workers, Wake(w) PROVE PlacesInv'
    <3>1. /\ UNCHANGED <<framesQueue, item, handed, shown>>
          /\ \A v \in Workers : wrk'[v] = "recognize" <=> wrk[v] = "recognize"
      BY <2>5 DEF Wake, WakeSpuriously, FramesTypeOK
    <3> QED
      BY <2>2, <3>1, OthersKeepPlaces
  <2>6. ASSUME NEW w \in Workers, NothingToShow(w) PROVE PlacesInv'
    BY <2>2, <2>6, DoneKeepsPlaces DEF NothingToShow
  <2>7. ASSUME NEW w \in Workers, WriteResult(w) PROVE PlacesInv'
    BY <2>2, <2>7, ResultKeepsPlaces
  <2>8. CASE UNCHANGED <<vars, shown>>
    <3>1. UNCHANGED <<framesQueue, item, wrk, handed, shown>>
      BY <2>8 DEF vars, wrkvars
    <3> QED
      BY <2>2, <3>1, OthersKeepPlaces
  <2> QED
    BY <2>3, <2>4, <2>5, <2>6, <2>7, <2>8 DEF DaemonNext, Process, WriteKills,
       UploadResults, OtherCamera, Server, daemonvars
<1>3. ShownInv => FrameShownOnce
  BY DEF ShownInv, PlacesInv, FrameShownOnce, InHand, Waiting, Working
<1> QED
  BY <1>1, <1>2, <1>3, Composition, FramesTypeCorrect, StreamOwnsItsFrames,
     QueueIsShort, PTL DEF DaemonSpec

(* The web server gets a frame twice only if a lock was stolen or          *)
(* beanstalkd has taken its result back.                                   *)
FrameTwice(r) == posts[r] > 1 \/ \E q \in Jobs \ {r} : shown[q] = shown[r]

THEOREM FramePostedOnce ==
  DaemonSpec =>
    [](\A r \in Jobs : shown[r] # None /\ FrameTwice(r)
                         => stolen # "no" \/ r \in takenBack)
<1>1. FrameShownOnce /\ TwiceOnlyIfTakenBack =>
        \A r \in Jobs : shown[r] # None /\ FrameTwice(r)
                          => stolen # "no" \/ r \in takenBack
  BY DEF FrameShownOnce, TwiceOnlyIfTakenBack, FrameTwice
<1> QED
  BY <1>1, ShownOnce, Composition, PostedOnceUnlessTakenBack, PTL
===============================================================================
