----------------------------- MODULE PlateUpload ------------------------------
(***************************************************************************)
(* Results of the plate daemon on their way to the web server (daemon.cpp, *)
(* daemon/beanstalk.c).  Every camera has a process, in which processing   *)
(* threads put results into a tube of beanstalkd (writeToQueue), and       *)
(* dataUploadThread reserves them, posts them and deletes them, or         *)
(* releases them for another attempt.                                      *)
(*                                                                         *)
(* beanstalkd is external.  It takes a job back when the connection of the *)
(* process that has reserved it ends, and when its time to run, 60 seconds *)
(* from put, is over; a post has no timeout.  delete works on a job that   *)
(* is ready or reserved over the same connection.                          *)
(*                                                                         *)
(* A failing reserve, delete or release returns false, which nobody looks  *)
(* at: the thread connects anew only after an exception, and only connect  *)
(* throws.  Nothing handles SIGPIPE: writing to a connection that the      *)
(* server has closed fails or ends the process.                            *)
(***************************************************************************)
EXTENDS Integers

CONSTANTS
  Cameras,      \* processes of the daemon, one per camera
  Jobs,         \* results that get into the tube
  MaxPosts      \* bound: posts of a job that are counted

ASSUME UploadAssumption ==
  /\ MaxPosts \in Nat \ {0, 1}
  /\ Cameras \cap {"unused", "ready", "deleted"} = {}

VARIABLES
  up,           \* where each camera's upload thread is, "off" if it has
                \* none, or "killed" with the whole process
  conn,         \* its connection: "none", "open" or "closed" by the server
  curl,         \* its handle of libcurl, "handle" or "null"
  job,          \* the job it has in hand
  tube,         \* "unused", "ready", "deleted" or the camera that reserved it
  posts,        \* history: posts of a job that curl reports as done
  skipped,      \* history: jobs taken for posted by a thread without handle
  takenBack     \* history: reserved jobs that the server has taken back

uploadvars == <<up, conn, curl, job, tube, posts, skipped, takenBack>>

NoJob == "none"

(* A process has an upload thread if uploadData is set.                    *)
UploadInit ==
  /\ up \in [Cameras -> {"connect", "off"}]
  /\ conn = [c \in Cameras |-> "none"]
  /\ curl = [c \in Cameras |-> "null"]
  /\ job = [c \in Cameras |-> NoJob]
  /\ tube = [r \in Jobs |-> "unused"]
  /\ posts = [r \in Jobs |-> 0]
  /\ skipped = {}
  /\ takenBack = {}

Goto(c, place) == up' = [up EXCEPT ![c] = place]

Move(r, place) == tube' = [tube EXCEPT ![r] = place]

(* The server takes back the jobs in S.                                    *)
TakeBack(S) ==
  /\ tube' = [r \in Jobs |-> IF r \in S THEN "ready" ELSE tube[r]]
  /\ takenBack' = takenBack \cup S

ReservedBy(c) == {r \in Jobs : tube[r] = c}

---------------------------------------------------------------------------
(* writeToQueue, over a connection of its own.  It may fail, and the       *)
(* result is lost; its caller ignores the return value.                    *)
Put(c, r) ==
  /\ up[c] # "killed"
  /\ tube[r] = "unused"
  /\ Move(r, "ready")
  /\ UNCHANGED <<up, conn, curl, job, posts, skipped, takenBack>>

(* The process ends: by a write to a closed connection, here that of a put *)
(* or of the upload thread.                                                *)
Killed(c) ==
  /\ Goto(c, "killed")
  /\ conn' = [conn EXCEPT ![c] = "closed"]
  /\ TakeBack(ReservedBy(c))
  /\ UNCHANGED <<curl, job, posts, skipped>>

PutKills(c) == up[c] # "killed" /\ Killed(c)

---------------------------------------------------------------------------
(* dataUploadThread.                                                       *)

(* curl_easy_init may fail, which nobody looks at.  The constructor of     *)
(* Client throws while the server cannot be reached; then the thread tries *)
(* both again, but never afterwards.                                       *)
Connect(c) ==
  /\ up[c] = "connect"
  /\ Goto(c, "reserve")
  /\ \E h \in {"handle", "null"} : curl' = [curl EXCEPT ![c] = h]
  /\ conn' = [conn EXCEPT ![c] = "open"]
  /\ UNCHANGED <<job, tube, posts, skipped, takenBack>>

(* Mutant: the job's id is not looked at.                                  *)
ReserveUnchecked(c) ==
  /\ up[c] = "reserve"
  /\ \/ /\ conn[c] = "open"
        /\ \E r \in Jobs :
             /\ tube[r] = "ready"
             /\ Move(r, c)
             /\ job' = [job EXCEPT ![c] = r]
     \/ conn[c] = "closed" /\ UNCHANGED <<tube, job>>
  /\ Goto(c, "post")
  /\ UNCHANGED <<conn, curl, posts, skipped, takenBack>>

(* client.reserve waits for a job.  Without a connection it returns none   *)
(* and the loop calls it again, for ever.                                  *)
Reserve(c) ==
  /\ up[c] = "reserve"
  /\ conn[c] = "open"
  /\ \E r \in Jobs :
       /\ tube[r] = "ready"
       /\ Move(r, c)
       /\ job' = [job EXCEPT ![c] = r]
  /\ Goto(c, "post")
  /\ UNCHANGED <<conn, curl, posts, skipped, takenBack>>

ReserveKills(c) ==
  /\ up[c] = "reserve"
  /\ conn[c] = "closed"
  /\ Killed(c)

(* Mutant: a failed post is followed by the deletion, too.                 *)
PostIgnored(c) ==
  /\ up[c] = "post"
  /\ curl[c] = "handle"
  /\ \/ posts' = [posts EXCEPT ![job[c]] = IF @ < MaxPosts THEN @ + 1 ELSE @]
     \/ UNCHANGED posts
  /\ Goto(c, "delete")
  /\ UNCHANGED <<conn, curl, job, tube, skipped, takenBack>>

(* uploadPost: curl reports that the post is done, whatever the web server *)
(* has answered, or that it has failed.                                    *)
PostDone(c) ==
  /\ up[c] = "post"
  /\ curl[c] = "handle"
  /\ posts' = [posts EXCEPT ![job[c]] = IF @ < MaxPosts THEN @ + 1 ELSE @]
  /\ Goto(c, "delete")
  /\ UNCHANGED <<conn, curl, job, tube, skipped, takenBack>>

PostFails(c) ==
  /\ up[c] = "post"
  /\ curl[c] = "handle"
  /\ Goto(c, "release")
  /\ UNCHANGED <<conn, curl, job, tube, posts, skipped, takenBack>>

(* Without a handle uploadPost posts nothing and reports success.          *)
PostSkipped(c) ==
  /\ up[c] = "post"
  /\ curl[c] = "null"
  /\ skipped' = skipped \cup {job[c]}
  /\ Goto(c, "delete")
  /\ UNCHANGED <<conn, curl, job, tube, posts, takenBack>>

Post(c) == PostDone(c) \/ PostFails(c) \/ PostSkipped(c)

(* Mutant: a job that has been posted is released.                         *)
DeleteReleases(c) ==
  /\ up[c] = "delete"
  /\ IF conn[c] = "open" /\ tube[job[c]] = c THEN Move(job[c], "ready")
                                            ELSE UNCHANGED tube
  /\ job' = [job EXCEPT ![c] = NoJob]
  /\ Goto(c, "reserve")
  /\ UNCHANGED <<conn, curl, posts, skipped, takenBack>>

(* del and release come back without effect when the connection is closed  *)
(* or the server does not let this camera have the job any more.           *)
Delete(c) ==
  /\ up[c] = "delete"
  /\ IF conn[c] = "open" /\ tube[job[c]] \in {c, "ready"}
       THEN Move(job[c], "deleted")
       ELSE UNCHANGED tube
  /\ job' = [job EXCEPT ![c] = NoJob]
  /\ Goto(c, "reserve")
  /\ UNCHANGED <<conn, curl, posts, skipped, takenBack>>

(* Mutant: the job is not released.                                        *)
ReleaseNot(c) ==
  /\ up[c] = "release"
  /\ job' = [job EXCEPT ![c] = NoJob]
  /\ Goto(c, "reserve")
  /\ UNCHANGED <<conn, curl, tube, posts, skipped, takenBack>>

Release(c) ==
  /\ up[c] = "release"
  /\ IF conn[c] = "open" /\ tube[job[c]] = c
       THEN Move(job[c], "ready")
       ELSE UNCHANGED tube
  /\ job' = [job EXCEPT ![c] = NoJob]
  /\ Goto(c, "reserve")
  /\ UNCHANGED <<conn, curl, posts, skipped, takenBack>>

SettleKills(c) ==
  /\ up[c] \in {"delete", "release"}
  /\ conn[c] = "closed"
  /\ Killed(c)

Upload(c) ==
  \/ Connect(c) \/ Reserve(c) \/ ReserveKills(c) \/ Post(c) \/ Delete(c)
  \/ Release(c) \/ SettleKills(c)

---------------------------------------------------------------------------
(* The server.                                                             *)

ConnectionLost(c) ==
  /\ conn[c] = "open"
  /\ conn' = [conn EXCEPT ![c] = "closed"]
  /\ TakeBack(ReservedBy(c))
  /\ UNCHANGED <<up, curl, job, posts, skipped>>

TimeToRunOver(r) ==
  /\ tube[r] \in Cameras
  /\ TakeBack({r})
  /\ UNCHANGED <<up, conn, curl, job, posts, skipped>>

UploadNext ==
  \/ \E c \in Cameras :
       \/ \E r \in Jobs : Put(c, r)
       \/ PutKills(c) \/ Upload(c) \/ ConnectionLost(c)
  \/ \E r \in Jobs : TimeToRunOver(r)

UploadSpec == UploadInit /\ [][UploadNext]_uploadvars

---------------------------------------------------------------------------
UploadTypeOK ==
  /\ up \in [Cameras -> {"off", "connect", "reserve", "post", "delete",
                         "release", "killed"}]
  /\ conn \in [Cameras -> {"none", "open", "closed"}]
  /\ curl \in [Cameras -> {"handle", "null"}]
  /\ job \in [Cameras -> Jobs \cup {NoJob}]
  /\ \A c \in Cameras :
       up[c] \in {"post", "delete", "release"} => job[c] \in Jobs
  /\ tube \in [Jobs -> Cameras \cup {"unused", "ready", "deleted"}]
  /\ posts \in [Jobs -> 0..MaxPosts]
  /\ skipped \subseteq Jobs
  /\ takenBack \subseteq Jobs

(* A result leaves the tube only after it has been posted, whatever        *)
(* becomes of connections, reservations and processes, or because a thread *)
(* without a handle took it for posted.                                    *)
PostedBeforeDeleted ==
  \A r \in Jobs : tube[r] = "deleted" => posts[r] > 0 \/ r \in skipped

(* A result is posted twice only if the server has taken it back: two      *)
(* cameras never work on one job by themselves.                            *)
TwiceOnlyIfTakenBack ==
  \A r \in Jobs : posts[r] > 1 => r \in takenBack
===============================================================================
