-------------------------- MODULE SinkPrefetch_proofs --------------------------
(***************************************************************************)
(* Proofs about SinkPrefetch, for any number of workers, any sizes of      *)
(* chunks, rings and blocks, and any frames.                               *)
(***************************************************************************)
EXTENDS SinkPrefetch, TLAPS

(* Where a worker has its frame, and its ring has been checked.            *)
Checked == {"clear", "decide", "request", "read", "recheck", "receive"}

(* The slots that the chunks received so far by the refill loop fill.      *)
SlotsOf(n) == 0 .. CHUNK_SIZE * n - 1

---------------------------------------------------------------------------
(* Arithmetic of rings.                                                    *)

LEMMA RingSize ==
  /\ Ring \in Nat /\ Ring >= 1
  /\ CHUNK_SIZE \in Nat /\ CHUNK_SIZE >= 1 /\ chunk_num \in Nat /\ TotalFnum \in Nat
  /\ BlockSize \in Nat /\ BlockSize >= 1
<1>1. \A a, b \in Nat \ {0} : a * b \in Nat /\ a * b >= 1
  OBVIOUS
<1> QED
  BY <1>1, PrefetchAssumption DEF Ring

LEMMA OneMoreChunk ==
  ASSUME NEW n \in 0 .. chunk_num - 1
  PROVE  /\ CHUNK_SIZE * n \in Nat
         /\ CHUNK_SIZE * (n + 1) = CHUNK_SIZE * n + CHUNK_SIZE
         /\ CHUNK_SIZE * n + CHUNK_SIZE <= Ring
<1>1. \A a, b, c \in Nat : b < c => a * b \in Nat /\ a * (b + 1) = a * b + a /\ a * b + a <= c * a
  <2> SUFFICES ASSUME NEW a \in Nat, NEW b \in Nat, NEW c \in Nat, b < c
               PROVE  a * b \in Nat /\ a * (b + 1) = a * b + a /\ a * b + a <= c * a
    OBVIOUS
  <2>1. a * b \in Nat /\ c * a \in Nat /\ a * (b + 1) = a * b + a
    OBVIOUS
  <2>2. a * (b + 1) <= c * a
    OBVIOUS
  <2> QED
    BY <2>1, <2>2
<1> QED
  BY <1>1, PrefetchAssumption DEF Ring

LEMMA ChunkFillsSlots ==
  ASSUME NEW n \in 0 .. chunk_num - 1
  PROVE  /\ {iter + CHUNK_SIZE * n : iter \in 0 .. CHUNK_SIZE - 1} \subseteq 0 .. Ring - 1
         /\ SlotsOf(n + 1) \subseteq
              SlotsOf(n) \cup {iter + CHUNK_SIZE * n : iter \in 0 .. CHUNK_SIZE - 1}
<1> DEFINE c == CHUNK_SIZE * n
<1>1. /\ c \in Nat /\ CHUNK_SIZE * (n + 1) = c + CHUNK_SIZE
      /\ c + CHUNK_SIZE <= Ring /\ CHUNK_SIZE \in Nat /\ Ring \in Nat
  BY OneMoreChunk, RingSize
<1>2. SlotsOf(n) = 0 .. c - 1 /\ SlotsOf(n + 1) = 0 .. c + CHUNK_SIZE - 1
  BY <1>1 DEF SlotsOf
<1> HIDE DEF c
<1>3. {iter + c : iter \in 0 .. CHUNK_SIZE - 1} \subseteq 0 .. Ring - 1
  BY <1>1
<1>4. ASSUME NEW s \in 0 .. c + CHUNK_SIZE - 1
      PROVE  s \in 0 .. c - 1 \/ s \in {iter + c : iter \in 0 .. CHUNK_SIZE - 1}
  <2>1. CASE s < c
    BY <1>1, <2>1
  <2>2. CASE s >= c
    <3>1. s - c \in 0 .. CHUNK_SIZE - 1 /\ s = (s - c) + c
      BY <1>1, <2>2
    <3> QED
      BY <3>1
  <2> QED
    BY <1>1, <2>1, <2>2
<1>5. SlotsOf(n + 1) \subseteq SlotsOf(n) \cup {iter + c : iter \in 0 .. CHUNK_SIZE - 1}
  BY <1>2, <1>4
<1> QED
  BY <1>3, <1>5 DEF c

LEMMA InRing ==
  ASSUME NEW n \in Int PROVE n % Ring \in 0 .. Ring - 1
BY RingSize

---------------------------------------------------------------------------
(* Types.                                                                  *)

LEMMA PrefetchTypeInit == Init => PrefetchTypeOK
BY RingSize DEF Init, PrefetchTypeOK, Places, Res, Emptied

LEMMA SetFlagTyped ==
  ASSUME PrefetchTypeOK, NEW w \in Workers, NEW b \in {"on", "off"}, SetFlag(w, b)
  PROVE  flag' \in [Res -> {"on", "off"}] /\ touched' \subseteq Workers
         /\ touched \subseteq touched'
BY DEF SetFlag, PrefetchTypeOK

(* A worker receives for its ring only as long as there are chunks left,   *)
(* and it has been dealt the frames it works on.                           *)
InBounds ==
  \A w \in Workers : /\ pc[w] = "refilling" => i[w] < chunk_num
                     /\ pc[w] # "next" => j[w] >= 0
                     /\ j[w] <= dealt /\ last[w] <= dealt

LEMMA NextFrameTyped ==
  ASSUME PrefetchTypeOK, InBounds, NEW w \in Workers, NextFrame(w)
  PROVE  /\ dealt' \in 0..TotalFnum
         /\ \A u \in Workers : j'[u] <= dealt' /\ last'[u] <= dealt'
         /\ j' \in [Workers -> -1 .. TotalFnum - 1] /\ j'[w] >= 0 /\ j'[w] >= j[w]
         /\ last' \in [Workers -> 0..TotalFnum]
<1>1. /\ j \in [Workers -> -1 .. TotalFnum - 1] /\ last \in [Workers -> 0..TotalFnum]
      /\ dealt \in 0..TotalFnum
  BY DEF PrefetchTypeOK
<1>2. CASE j[w] + 1 < last[w] /\ j' = [j EXCEPT ![w] = @ + 1] /\ UNCHANGED <<last, dealt>>
  <2>1. j[w] \in -1 .. TotalFnum - 1 /\ last[w] \in 0..TotalFnum
    BY <1>1
  <2>2. j[w] + 1 \in 0 .. TotalFnum - 1
    BY <1>2, <2>1, RingSize
  <2>3. \A u \in Workers : j'[u] <= dealt' /\ last'[u] <= dealt'
    BY <1>1, <1>2, <2>1, <2>2, RingSize DEF InBounds
  <2> QED
    BY <1>1, <1>2, <2>1, <2>2, <2>3
<1>3. CASE /\ j[w] + 1 >= last[w] /\ dealt < TotalFnum /\ j' = [j EXCEPT ![w] = dealt]
           /\ dealt' = IF dealt + BlockSize < TotalFnum THEN dealt + BlockSize
                       ELSE TotalFnum
           /\ last' = [last EXCEPT ![w] = dealt']
  <2>1. dealt \in 0 .. TotalFnum - 1 /\ dealt' \in 0..TotalFnum /\ dealt <= dealt'
    BY <1>1, <1>3, RingSize
  <2>2. \A u \in Workers : j[u] <= dealt /\ last[u] <= dealt
    BY DEF InBounds
  <2>3. \A u \in Workers : j[u] \in Int /\ last[u] \in Int
    BY <1>1, RingSize
  <2> HIDE <1>3
  <2>4. j' = [j EXCEPT ![w] = dealt] /\ last' = [last EXCEPT ![w] = dealt']
    BY <1>3
  <2>5. \A u \in Workers : j'[u] <= dealt' /\ last'[u] <= dealt'
    BY <1>1, <2>1, <2>2, <2>3, <2>4
  <2> QED
    BY <1>1, <2>1, <2>2, <2>4, <2>5
<1> QED
  BY <1>2, <1>3 DEF NextFrame

LEMMA WorkerTypeStep ==
  ASSUME PrefetchTypeOK, InBounds, NEW w \in Workers, Worker(w)
  PROVE  PrefetchTypeOK' /\ InBounds'
<1> USE DEF Goto, Places, Running
<1>t. /\ pc \in [Workers -> Places] /\ res \in [Workers -> Res]
      /\ i \in [Workers -> 0..chunk_num] /\ res[w] \in Res
      /\ req \in [Workers -> Int] /\ j \in [Workers -> -1 .. TotalFnum - 1]
      /\ sock \in [Workers -> {"idle", "asked", "answered"}]
      /\ i[w] \in 0..chunk_num /\ j[w] \in Int
  BY RingSize DEF PrefetchTypeOK
<1>1. CASE DetectMotion(w)
  <2>1. NextFrame(w)
    BY <1>1 DEF DetectMotion
  <2>2. pc' \in [Workers -> Places] /\ res' \in [Workers -> Res] /\ i' \in [Workers -> 0..chunk_num]
    <3>1. "720" \in Res /\ 0 \in 0..chunk_num /\ "check" \in Places
      BY RingSize DEF Res
    <3>2. UNCHANGED pc \/ pc' = [pc EXCEPT ![w] = "check"]
      BY <1>1 DEF DetectMotion
    <3>3. res' = [res EXCEPT ![w] = "720"] /\ i' = [i EXCEPT ![w] = 0]
      BY <1>1 DEF DetectMotion
    <3> QED
      BY <1>t, <3>1, <3>2, <3>3
  <2>3. /\ \A u \in Workers : j'[u] <= dealt' /\ last'[u] <= dealt'
        /\ j'[w] >= 0 /\ \A u \in Workers \ {w} : j'[u] = j[u]
    BY <1>t, <2>1, NextFrameTyped DEF NextFrame
  <2>4. InBounds'
    BY <1>1, <1>t, <2>3 DEF DetectMotion, InBounds
  <2> QED
    BY <1>1, <2>1, <2>2, <2>4, NextFrameTyped DEF DetectMotion, PrefetchTypeOK
<1>2. CASE CheckRing(w)
  BY <1>2, <1>t DEF CheckRing, PrefetchTypeOK, InBounds
<1>3. CASE RefillRequest(w)
  <2>1. req' \in [Workers -> Int] /\ sock' \in [Workers -> {"idle", "asked", "answered"}]
    BY <1>3, <1>t DEF RefillRequest, Ask, Throw, Emptied
  <2>2. pc' \in [Workers -> Places] /\ InBounds'
    BY <1>3, <1>t DEF RefillRequest, Throw, InBounds
  <2> QED
    BY <1>3, <2>1, <2>2 DEF RefillRequest, Throw, PrefetchTypeOK
<1>4. CASE RefillReceive(w)
  <2>1. i[w] \in 0 .. chunk_num - 1
    BY <1>4, <1>t, RingSize DEF RefillReceive, Running, InBounds
  <2>2. filled' \in [Res -> [Workers -> SUBSET (0 .. Ring - 1)]]
    BY <1>4, <1>t, <2>1, ChunkFillsSlots DEF RefillReceive, PrefetchTypeOK
  <2>3. i' \in [Workers -> 0..chunk_num] /\ pc' \in [Workers -> Places] /\ InBounds'
    BY <1>4, <1>t, <2>1, RingSize DEF RefillReceive, InBounds
  <2> QED
    BY <1>4, <2>2, <2>3 DEF RefillReceive, PrefetchTypeOK
<1>5. CASE Refilled(w)
  <2>1. SetFlag(w, "off")
    BY <1>5 DEF Refilled
  <2>2. status' \in [Res -> [Workers -> Int]]
    BY <1>5, <1>t DEF Refilled, PrefetchTypeOK
  <2>3. pc' \in [Workers -> Places] /\ InBounds'
    BY <1>5, <1>t DEF Refilled, InBounds
  <2> QED
    BY <1>5, <2>1, <2>2, <2>3, SetFlagTyped DEF Refilled, PrefetchTypeOK
<1>6. CASE ClearFlag(w)
  <2>1. SetFlag(w, "off") \/ UNCHANGED <<flag, touched>>
    BY <1>6 DEF ClearFlag
  <2>2. flag' \in [Res -> {"on", "off"}] /\ touched' \subseteq Workers
    BY <2>1, SetFlagTyped DEF PrefetchTypeOK
  <2>3. pc' \in [Workers -> Places] /\ InBounds'
    BY <1>6, <1>t DEF ClearFlag, InBounds
  <2> QED
    BY <1>6, <2>2, <2>3 DEF ClearFlag, PrefetchTypeOK
<1>7. CASE DecideRequest(w)
  <2>1. pc' \in [Workers -> Places] /\ InBounds'
    BY <1>7, <1>t DEF DecideRequest, InBounds
  <2> QED
    BY <1>7, <2>1 DEF DecideRequest, PrefetchTypeOK
<1>8. CASE RequestChunk(w)
  <2>1. CASE Throw(w)
    BY <2>1 DEF Throw, PrefetchTypeOK, InBounds
  <2>2. CASE ~Throw(w)
    <3>1. SetFlag(w, "on") /\ Ask(w, j[w] + Ring - Gap(w)) /\ Goto(w, "read")
      BY <1>8, <2>2 DEF RequestChunk
    <3>2. Gap(w) \in Int /\ j[w] + Ring - Gap(w) \in Int
      BY <1>t, RingSize DEF Gap, PrefetchTypeOK
    <3>3. req' \in [Workers -> Int] /\ sock' \in [Workers -> {"idle", "asked", "answered"}]
      BY <1>t, <3>1, <3>2 DEF Ask, Emptied
    <3>4. pc' \in [Workers -> Places] /\ InBounds'
      BY <1>8, <1>t, <2>2 DEF RequestChunk, InBounds
    <3> QED
      BY <1>8, <2>2, <3>1, <3>3, <3>4, SetFlagTyped DEF RequestChunk, PrefetchTypeOK
  <2> QED
    BY <2>1, <2>2
<1>9. CASE ReadSlot(w)
  <2>1. pc' \in [Workers -> Places] /\ InBounds'
    BY <1>9, <1>t DEF ReadSlot, InBounds
  <2> QED
    BY <1>9, <2>1 DEF ReadSlot, PrefetchTypeOK
<1>10. CASE DecideReceive(w)
  <2>1. /\ pc' \in [Workers -> Places] /\ res' \in [Workers -> Res]
        /\ i' \in [Workers -> 0..chunk_num] /\ InBounds'
    BY <1>10, <1>t, RingSize DEF DecideReceive, Done, InBounds, Res
  <2> QED
    BY <1>10, <2>1 DEF DecideReceive, PrefetchTypeOK
<1>11. CASE ReceiveChunk(w)
  <2>1. CASE Throw(w)
    BY <2>1 DEF Throw, PrefetchTypeOK, InBounds
  <2>2. CASE ~Throw(w)
    <3>1. /\ pc' \in [Workers -> Places] /\ res' \in [Workers -> Res]
          /\ i' \in [Workers -> 0..chunk_num] /\ InBounds'
      BY <1>11, <1>t, <2>2, RingSize DEF ReceiveChunk, Done, InBounds, Res
    <3>2. status[res[w]][w] \in Int
      BY <1>t DEF PrefetchTypeOK
    <3>3. filled' \in [Res -> [Workers -> SUBSET (0 .. Ring - 1)]]
      <4> DEFINE slots == {(status[res[w]][w] + iter) % Ring : iter \in 0 .. CHUNK_SIZE - 1}
      <4>1. \A iter \in 0 .. CHUNK_SIZE - 1 :
              (status[res[w]][w] + iter) % Ring \in 0 .. Ring - 1
        BY <3>2, InRing
      <4>2. slots \subseteq 0 .. Ring - 1
        BY <4>1
      <4>3. filled' = [filled EXCEPT ![res[w]][w] = @ \cup slots]
        BY <1>11, <2>2 DEF ReceiveChunk
      <4> HIDE DEF slots
      <4> QED
        BY <1>t, <4>2, <4>3 DEF PrefetchTypeOK
    <3>4. status' \in [Res -> [Workers -> Int]]
      <4>1. status' = [status EXCEPT ![res[w]][w] = @ + CHUNK_SIZE]
        BY <1>11, <2>2 DEF ReceiveChunk
      <4>2. status[res[w]][w] + CHUNK_SIZE \in Int
        BY <3>2, RingSize
      <4> QED
        BY <1>t, <4>1, <4>2 DEF PrefetchTypeOK
    <3>5. sock' \in [Workers -> {"idle", "asked", "answered"}]
      BY <1>11, <1>t, <2>2 DEF ReceiveChunk
    <3> QED
      BY <1>11, <2>2, <3>1, <3>3, <3>4, <3>5 DEF ReceiveChunk, PrefetchTypeOK
  <2> QED
    BY <2>1, <2>2
<1> QED
  BY <1>1, <1>2, <1>3, <1>4, <1>5, <1>6, <1>7, <1>8, <1>9, <1>10, <1>11 DEF Worker

(* Every variable keeps its type; only slots of the rings are filled.      *)
THEOREM PrefetchTypeCorrect == Spec => [](PrefetchTypeOK /\ InBounds)
<1>1. Init => PrefetchTypeOK /\ InBounds
  BY PrefetchTypeInit DEF Init, InBounds
<1>2. PrefetchTypeOK /\ InBounds /\ [Next]_vars => (PrefetchTypeOK /\ InBounds)'
  <2> SUFFICES ASSUME PrefetchTypeOK, InBounds, [Next]_vars
               PROVE  PrefetchTypeOK' /\ InBounds'
    OBVIOUS
  <2>1. CASE \E w \in Workers : Worker(w)
    BY <2>1, WorkerTypeStep
  <2>2. CASE \E w \in Workers : Answer(w)
    BY <2>2 DEF Answer, PrefetchTypeOK, InBounds
  <2>3. CASE UNCHANGED vars
    BY <2>3 DEF vars, PrefetchTypeOK, InBounds
  <2> QED
    BY <2>1, <2>2, <2>3 DEF Next
<1> QED
  BY <1>1, <1>2, PTL DEF Spec

---------------------------------------------------------------------------
(* The invariant of a worker.                                              *)

(* What its rings hold: once one has been refilled all of its slots, and   *)
(* before that those of the chunks it has received.                        *)
FilledOf(w) ==
  /\ \A r \in Res : /\ status[r][w] >= -Ring - 1
                    /\ status[r][w] >= -Ring => 0 .. Ring - 1 \subseteq filled[r][w]
  /\ pc[w] \in {"check", "refill", "refilling"} =>
       SlotsOf(i[w]) \subseteq filled[res[w]][w]
  /\ pc[w] \in Checked => Gap(w) <= Ring

(* Between a worker's two looks at its flag.                               *)
Deciding == {"decide", "request", "read", "recheck"}

(* Requests and answers of a worker pair up as long as nobody changes its  *)
(* flag between its two looks: whether it streams does not change while it *)
(* works on the frame, and if it does, status is far enough behind.        *)
PairedOf(w) ==
  w \notin touched =>
    /\ \A r \in Res : status[r][w] <= j[w]
    /\ pc[w] \in {"next", "check", "refill", "clear", "decide", "request"} =>
         sock[w] = "idle"
    /\ pc[w] \in {"refilling", "receive"} => sock[w] # "idle"
    /\ pc[w] = "decide" => (flag[res[w]] = "on" => Gap(w) > CHUNK_SIZE)
    /\ pc[w] \in {"request", "receive"} => Gap(w) > CHUNK_SIZE
    /\ pc[w] \in {"read", "recheck"} =>
         \/ Streaming(w) /\ sock[w] # "idle" /\ Gap(w) > CHUNK_SIZE
         \/ ~Streaming(w) /\ sock[w] = "idle"

(* A step of one worker leaves the others where they are, and either the   *)
(* flag an undisturbed one looks at, too, or disturbs it.                  *)
LEMMA FlagOfOthers ==
  ASSUME PrefetchTypeOK, NEW v \in Workers, NEW b \in {"on", "off"}, SetFlag(v, b),
         NEW w \in Workers \ {v}, w \notin touched'
  PROVE  w \notin touched /\ (pc[w] \in Deciding => flag'[res[w]] = flag[res[w]])
BY DEF SetFlag, Deciding, PrefetchTypeOK

LEMMA OthersStay ==
  ASSUME PrefetchTypeOK, NEW v \in Workers, Worker(v) \/ Answer(v),
         NEW w \in Workers \ {v}
  PROVE  /\ UNCHANGED <<j[w], pc[w], res[w], i[w], sock[w]>>
         /\ \A r \in Res : UNCHANGED <<status[r][w], filled[r][w]>>
         /\ w \notin touched' => w \notin touched
         /\ w \notin touched' /\ pc[w] \in Deciding => flag'[res[w]] = flag[res[w]]
<1>1. /\ j \in [Workers -> -1 .. TotalFnum - 1] /\ pc \in [Workers -> Places]
      /\ res \in [Workers -> Res] /\ i \in [Workers -> 0..chunk_num]
      /\ sock \in [Workers -> {"idle", "asked", "answered"}]
      /\ status \in [Res -> [Workers -> Int]]
      /\ filled \in [Res -> [Workers -> SUBSET (0 .. Ring - 1)]]
  BY DEF PrefetchTypeOK
<1>2. UNCHANGED <<j[w], pc[w], res[w], i[w], sock[w]>>
  <2>1. CASE DetectMotion(v)
    BY <1>1, <2>1 DEF DetectMotion, NextFrame, Goto
  <2>2. CASE CheckRing(v) \/ RefillRequest(v) \/ RefillReceive(v)
    BY <1>1, <2>2 DEF CheckRing, RefillRequest, RefillReceive, Throw, Goto, Ask
  <2>3. CASE Refilled(v) \/ ClearFlag(v) \/ DecideRequest(v) \/ RequestChunk(v)
    BY <1>1, <2>3 DEF Refilled, ClearFlag, DecideRequest, RequestChunk, Throw, Goto, Ask
  <2>4. CASE ReadSlot(v) \/ DecideReceive(v) \/ ReceiveChunk(v)
    BY <1>1, <2>4 DEF ReadSlot, DecideReceive, ReceiveChunk, Throw, Goto, Done
  <2>5. CASE Answer(v)
    BY <1>1, <2>5 DEF Answer
  <2> QED
    BY <2>1, <2>2, <2>3, <2>4, <2>5 DEF Worker
<1>3. \A r \in Res : UNCHANGED <<status[r][w], filled[r][w]>>
  <2>1. CASE DetectMotion(v) \/ CheckRing(v) \/ RefillRequest(v) \/ ClearFlag(v)
             \/ DecideRequest(v) \/ RequestChunk(v) \/ ReadSlot(v)
             \/ DecideReceive(v) \/ Answer(v)
    <3>1. UNCHANGED <<status, filled>>
      BY <2>1 DEF DetectMotion, CheckRing, RefillRequest, ClearFlag, DecideRequest,
        RequestChunk, ReadSlot, DecideReceive, Answer, Throw
    <3> QED
      BY <3>1
  <2>2. ASSUME NEW f, NEW S, f \in [Res -> [Workers -> S]], NEW x
        PROVE  \A r \in Res : [f EXCEPT ![res[v]][v] = x][r][w] = f[r][w]
    BY <1>1, <2>2
  <2>3. CASE RefillReceive(v)
    BY <1>1, <2>2, <2>3 DEF RefillReceive
  <2>4. CASE Refilled(v)
    BY <1>1, <2>2, <2>4 DEF Refilled
  <2>5. CASE ReceiveChunk(v) /\ ~Throw(v)
    BY <1>1, <2>2, <2>5 DEF ReceiveChunk
  <2>6. CASE Throw(v)
    BY <2>6 DEF Throw
  <2> QED
    BY <2>1, <2>3, <2>4, <2>5, <2>6 DEF Worker
<1>4. SetFlag(v, "on") \/ SetFlag(v, "off") \/ UNCHANGED <<flag, touched>>
  <2>1. CASE DetectMotion(v) \/ CheckRing(v) \/ RefillRequest(v) \/ RefillReceive(v)
    BY <2>1 DEF DetectMotion, CheckRing, RefillRequest, RefillReceive, Throw
  <2>2. CASE Refilled(v) \/ ClearFlag(v) \/ DecideRequest(v) \/ RequestChunk(v)
    BY <2>2 DEF Refilled, ClearFlag, DecideRequest, RequestChunk, Throw
  <2>3. CASE ReadSlot(v) \/ DecideReceive(v) \/ ReceiveChunk(v) \/ Answer(v)
    BY <2>3 DEF ReadSlot, DecideReceive, ReceiveChunk, Answer, Throw
  <2> QED
    BY <2>1, <2>2, <2>3 DEF Worker
<1>5. /\ w \notin touched' => w \notin touched
      /\ w \notin touched' /\ pc[w] \in Deciding => flag'[res[w]] = flag[res[w]]
  BY <1>4, FlagOfOthers
<1> QED
  BY <1>2, <1>3, <1>5

LEMMA OthersKeep ==
  ASSUME PrefetchTypeOK, NEW v \in Workers, Worker(v) \/ Answer(v),
         NEW w \in Workers \ {v}, FilledOf(w), PairedOf(w)
  PROVE  FilledOf(w)' /\ PairedOf(w)'
<1>1. /\ j'[w] = j[w] /\ pc'[w] = pc[w] /\ res'[w] = res[w] /\ i'[w] = i[w]
      /\ sock'[w] = sock[w]
      /\ \A r \in Res : status'[r][w] = status[r][w] /\ filled'[r][w] = filled[r][w]
      /\ w \notin touched' => w \notin touched
      /\ w \notin touched' /\ pc[w] \in Deciding => flag'[res[w]] = flag[res[w]]
  BY OthersStay
<1>2. res[w] \in Res
  BY DEF PrefetchTypeOK
<1>3. Gap(w)' = Gap(w)
  BY <1>1, <1>2 DEF Gap
<1>4. FilledOf(w)'
  BY <1>1, <1>2, <1>3 DEF FilledOf
<1>5. ASSUME w \notin touched', pc[w] \in Deciding
      PROVE  Streaming(w)' <=> Streaming(w)
  BY <1>1, <1>3, <1>5 DEF Streaming
<1>6. PairedOf(w)'
  BY <1>1, <1>2, <1>3, <1>5 DEF PairedOf, Deciding
<1> QED
  BY <1>4, <1>6

---------------------------------------------------------------------------
(* A worker's own steps.                                                   *)

LEMMA AllSlots == SlotsOf(chunk_num) = 0 .. Ring - 1 /\ SlotsOf(0) = {}
<1>1. \A a, b \in Nat : a * b = b * a /\ a * 0 = 0
  OBVIOUS
<1> QED
  BY <1>1, PrefetchAssumption DEF SlotsOf, Ring

Scalars(w) ==
  /\ j[w] \in Int /\ i[w] \in 0..chunk_num /\ res[w] \in Res
  /\ pc[w] \in Places
  /\ \A r \in Res : status[r][w] \in Int

LEMMA ScalarsTyped ==
  ASSUME PrefetchTypeOK, NEW w \in Workers PROVE Scalars(w) /\ Gap(w) \in Int
BY RingSize DEF PrefetchTypeOK, Scalars, Gap

LEMMA OwnFlag ==
  ASSUME PrefetchTypeOK, NEW w \in Workers, NEW b \in {"on", "off"}, SetFlag(w, b)
  PROVE  flag'[res[w]] = b /\ (w \in touched' <=> w \in touched)
BY DEF SetFlag, PrefetchTypeOK

(* Work on the next frame, or on the same one in the other size.           *)
LEMMA NextFrameKeeps ==
  ASSUME PrefetchTypeOK, InBounds, NEW w \in Workers, DetectMotion(w),
         FilledOf(w), PairedOf(w)
  PROVE  FilledOf(w)' /\ PairedOf(w)'
<1>1. /\ pc[w] = "next" /\ pc'[w] \in {"next", "check"} /\ i'[w] = 0 /\ res'[w] = "720"
      /\ UNCHANGED <<flag, status, filled, sock, touched>>
  BY DEF DetectMotion, Running, Goto, PrefetchTypeOK
<1>2. j'[w] >= j[w] /\ j'[w] \in Int
  BY NextFrameTyped, RingSize DEF DetectMotion
<1>3. FilledOf(w)'
  BY <1>1, AllSlots DEF FilledOf, Checked
<1>4. PairedOf(w)'
  <2>1. \A r \in Res : status[r][w] <= j[w] => status[r][w] <= j'[w]
    BY <1>2, ScalarsTyped DEF Scalars
  <2> QED
    BY <1>1, <2>1 DEF PairedOf
<1> QED
  BY <1>3, <1>4

LEMMA RefillKeeps ==
  ASSUME PrefetchTypeOK, InBounds, NEW w \in Workers,
         CheckRing(w) \/ (RefillRequest(w) /\ ~Throw(w)) \/ RefillReceive(w) \/ Refilled(w),
         FilledOf(w), PairedOf(w)
  PROVE  FilledOf(w)' /\ PairedOf(w)'
<1>1. CASE CheckRing(w)
  <2>1. /\ pc[w] = "check" /\ pc'[w] = IF Gap(w) > Ring THEN "refill" ELSE "clear"
        /\ UNCHANGED <<j, res, i, flag, status, filled, sock, touched>>
    BY <1>1 DEF CheckRing, Running, Goto, PrefetchTypeOK
  <2>2. Gap(w)' = Gap(w) /\ Gap(w) \in Int
    BY <2>1, ScalarsTyped DEF Gap
  <2> QED
    BY <2>1, <2>2, RingSize DEF FilledOf, PairedOf, Checked
<1>2. CASE RefillRequest(w) /\ ~Throw(w)
  <2>1. /\ pc[w] = "refill" /\ pc'[w] = "refilling" /\ sock'[w] = "asked"
        /\ UNCHANGED <<j, res, i, flag, status, filled, touched>>
    BY <1>2 DEF RefillRequest, Running, Goto, Ask, PrefetchTypeOK
  <2> QED
    BY <2>1 DEF FilledOf, PairedOf, Checked
<1>3. CASE RefillReceive(w)
  <2> DEFINE chunk == {iter + CHUNK_SIZE * i[w] : iter \in 0 .. CHUNK_SIZE - 1}
  <2>1. /\ pc[w] = "refilling" /\ pc'[w] = "refill" /\ sock'[w] = "idle"
        /\ i'[w] = i[w] + 1
        /\ UNCHANGED <<j, res, flag, status, touched>>
    BY <1>3 DEF RefillReceive, Running, Goto, PrefetchTypeOK
  <2>2. filled' = [filled EXCEPT ![res[w]][w] = @ \cup chunk]
    BY <1>3 DEF RefillReceive
  <2> HIDE DEF chunk
  <2>3. /\ filled'[res[w]][w] = filled[res[w]][w] \cup chunk
        /\ \A r \in Res : filled[r][w] \subseteq filled'[r][w]
    BY <2>2, ScalarsTyped DEF PrefetchTypeOK, Scalars
  <2>4. SlotsOf(i[w] + 1) \subseteq SlotsOf(i[w]) \cup chunk
    <3>1. i[w] \in 0 .. chunk_num - 1
      BY <2>1, ScalarsTyped, RingSize DEF InBounds, Scalars
    <3> QED
      BY <3>1, ChunkFillsSlots DEF chunk
  <2>5. FilledOf(w)'
    BY <2>1, <2>3, <2>4 DEF FilledOf, Checked
  <2> QED
    BY <2>1, <2>5 DEF PairedOf
<1>4. CASE Refilled(w)
  <2>1. /\ pc[w] = "refill" /\ pc'[w] = "clear" /\ i[w] = chunk_num /\ SetFlag(w, "off")
        /\ UNCHANGED <<j, res, i, filled, sock>>
    BY <1>4 DEF Refilled, Running, Goto, PrefetchTypeOK
  <2>2. /\ status'[res[w]][w] = j[w]
        /\ \A r \in Res \ {res[w]} : status'[r][w] = status[r][w]
    BY <1>4, ScalarsTyped DEF Refilled, PrefetchTypeOK, Scalars
  <2>3. w \in touched' <=> w \in touched
    BY <2>1, OwnFlag
  <2>4. j[w] \in Int /\ j[w] >= 0
    BY <2>1, ScalarsTyped DEF Scalars, InBounds
  <2>5. Gap(w)' = 0
    BY <2>1, <2>2, <2>4 DEF Gap
  <2>6. FilledOf(w)'
    BY <2>1, <2>2, <2>4, <2>5, AllSlots, RingSize DEF FilledOf, Checked
  <2>7. PairedOf(w)'
    BY <2>1, <2>2, <2>3, <2>4 DEF PairedOf
  <2> QED
    BY <2>6, <2>7
<1> QED
  BY <1>1, <1>2, <1>3, <1>4

LEMMA RequestKeeps ==
  ASSUME PrefetchTypeOK, InBounds, NEW w \in Workers,
         ClearFlag(w) \/ DecideRequest(w) \/ (RequestChunk(w) /\ ~Throw(w)) \/ ReadSlot(w),
         FilledOf(w), PairedOf(w)
  PROVE  FilledOf(w)' /\ PairedOf(w)'
<1>0. Gap(w) \in Int /\ Scalars(w)
  BY ScalarsTyped
<1>1. CASE ClearFlag(w)
  <2>1. /\ pc[w] = "clear" /\ pc'[w] = "decide"
        /\ UNCHANGED <<j, res, i, status, filled, sock>>
    BY <1>1 DEF ClearFlag, Running, Goto, PrefetchTypeOK
  <2>2. Gap(w)' = Gap(w)
    BY <2>1 DEF Gap
  <2>3. w \in touched' <=> w \in touched
    BY <1>1, OwnFlag DEF ClearFlag
  <2>4. flag'[res[w]] = "on" => Gap(w) > CHUNK_SIZE
    BY <1>0, <1>1, OwnFlag, RingSize DEF ClearFlag
  <2> QED
    BY <2>1, <2>2, <2>3, <2>4 DEF FilledOf, PairedOf, Checked
<1>2. CASE DecideRequest(w)
  <2>1. /\ pc[w] = "decide" /\ pc'[w] = IF Streaming(w) THEN "request" ELSE "read"
        /\ UNCHANGED <<j, res, i, flag, status, filled, sock, touched>>
    BY <1>2 DEF DecideRequest, Running, Goto, PrefetchTypeOK
  <2>2. Gap(w)' = Gap(w)
    BY <2>1 DEF Gap
  <2>3. Streaming(w)' <=> Streaming(w)
    BY <2>1, <2>2 DEF Streaming
  <2>4. w \notin touched /\ Streaming(w) => Gap(w) > CHUNK_SIZE
    BY <1>0, <2>1, RingSize DEF PairedOf, Streaming
  <2> QED
    BY <2>1, <2>2, <2>3, <2>4 DEF FilledOf, PairedOf, Checked
<1>3. CASE RequestChunk(w) /\ ~Throw(w)
  <2>1. /\ pc[w] = "request" /\ pc'[w] = "read" /\ sock'[w] = "asked"
        /\ SetFlag(w, "on") /\ UNCHANGED <<j, res, i, status, filled>>
    BY <1>3 DEF RequestChunk, Running, Goto, Ask, PrefetchTypeOK
  <2>2. Gap(w)' = Gap(w)
    BY <2>1 DEF Gap
  <2>3. /\ w \in touched' <=> w \in touched
        /\ flag'[res[w]] = "on"
    BY <2>1, OwnFlag
  <2>4. Streaming(w)'
    BY <2>1, <2>3 DEF Streaming
  <2> QED
    BY <2>1, <2>2, <2>3, <2>4 DEF FilledOf, PairedOf, Checked
<1>4. CASE ReadSlot(w)
  <2>1. /\ pc[w] = "read" /\ pc'[w] = "recheck"
        /\ UNCHANGED <<j, res, i, flag, status, filled, sock, touched>>
    BY <1>4 DEF ReadSlot, Running, Goto, PrefetchTypeOK
  <2>2. Gap(w)' = Gap(w)
    BY <2>1 DEF Gap
  <2>3. Streaming(w)' <=> Streaming(w)
    BY <2>1, <2>2 DEF Streaming
  <2> QED
    BY <2>1, <2>2, <2>3 DEF FilledOf, PairedOf, Checked
<1> QED
  BY <1>1, <1>2, <1>3, <1>4

(* The frame of one size is done: on to the other size, or the next frame. *)
LEMMA DoneMoves ==
  ASSUME PrefetchTypeOK, NEW w \in Workers, Done(w)
  PROVE  /\ pc'[w] \in {"next", "check"}
         /\ pc'[w] = "check" => i'[w] = 0
         /\ res'[w] \in Res
BY DEF Done, Goto, PrefetchTypeOK, Res

LEMMA ReceiveKeeps ==
  ASSUME PrefetchTypeOK, InBounds, NEW w \in Workers,
         DecideReceive(w) \/ (ReceiveChunk(w) /\ ~Throw(w)),
         FilledOf(w), PairedOf(w)
  PROVE  FilledOf(w)' /\ PairedOf(w)'
<1>0. Gap(w) \in Int /\ Scalars(w)
  BY ScalarsTyped
<1>1. CASE DecideReceive(w) /\ Streaming(w)
  <2>1. /\ pc[w] = "recheck" /\ pc'[w] = "receive"
        /\ UNCHANGED <<j, res, i, flag, status, filled, sock, touched>>
    BY <1>1 DEF DecideReceive, Running, Goto, PrefetchTypeOK
  <2>2. Gap(w)' = Gap(w)
    BY <2>1 DEF Gap
  <2> QED
    BY <1>1, <2>1, <2>2 DEF FilledOf, PairedOf, Checked
<1>2. CASE DecideReceive(w) /\ ~Streaming(w)
  <2>1. /\ pc[w] = "recheck" /\ Done(w)
        /\ UNCHANGED <<j, flag, status, filled, sock, touched>>
    BY <1>2 DEF DecideReceive, Running
  <2> QED
    BY <1>2, <2>1, DoneMoves, AllSlots DEF FilledOf, PairedOf, Checked
<1>3. CASE ReceiveChunk(w) /\ ~Throw(w)
  <2>1. /\ pc[w] = "receive" /\ Done(w) /\ sock'[w] = "idle"
        /\ UNCHANGED <<j, flag, touched>>
    BY <1>3 DEF ReceiveChunk, Running, PrefetchTypeOK
  <2>2. /\ status'[res[w]][w] = status[res[w]][w] + CHUNK_SIZE
        /\ \A r \in Res \ {res[w]} : status'[r][w] = status[r][w]
    BY <1>0, <1>3 DEF ReceiveChunk, PrefetchTypeOK, Scalars
  <2>3. \A r \in Res : filled[r][w] \subseteq filled'[r][w]
    <3> DEFINE slots == {(status[res[w]][w] + iter) % Ring : iter \in 0 .. CHUNK_SIZE - 1}
    <3>1. filled' = [filled EXCEPT ![res[w]][w] = @ \cup slots]
      BY <1>3 DEF ReceiveChunk
    <3> HIDE DEF slots
    <3> QED
      BY <1>0, <3>1 DEF PrefetchTypeOK, Scalars
  <2>4. status[res[w]][w] >= -Ring /\ 0 .. Ring - 1 \subseteq filled[res[w]][w]
    <3>1. Gap(w) <= Ring /\ j[w] >= 0
      BY <2>1 DEF FilledOf, Checked, InBounds
    <3>2. status[res[w]][w] \in Int /\ status[res[w]][w] >= -Ring
      BY <1>0, <3>1, RingSize DEF Gap, Scalars
    <3> QED
      BY <1>0, <3>2 DEF FilledOf, Scalars
  <2>5. FilledOf(w)'
    <3>1. \A r \in Res : /\ status'[r][w] >= -Ring - 1
                         /\ status'[r][w] >= -Ring => 0 .. Ring - 1 \subseteq filled'[r][w]
      <4> SUFFICES ASSUME NEW r \in Res
                   PROVE  /\ status'[r][w] >= -Ring - 1
                          /\ status'[r][w] >= -Ring => 0 .. Ring - 1 \subseteq filled'[r][w]
        OBVIOUS
      <4>1. CASE r = res[w]
        BY <1>0, <2>2, <2>3, <2>4, <4>1, RingSize DEF Scalars
      <4>2. CASE r # res[w]
        BY <2>2, <2>3, <4>2 DEF FilledOf
      <4> QED
        BY <4>1, <4>2
    <3>2. /\ pc'[w] \in {"next", "check"}
          /\ pc'[w] = "check" => SlotsOf(i'[w]) = {}
      BY <2>1, DoneMoves, AllSlots
    <3> QED
      BY <3>1, <3>2 DEF FilledOf, Checked
  <2>6. PairedOf(w)'
    <3>1. w \notin touched => status[res[w]][w] + CHUNK_SIZE <= j[w]
      BY <1>0, <2>1, RingSize DEF PairedOf, Gap, Scalars
    <3> QED
      BY <2>1, <2>2, <3>1, DoneMoves DEF PairedOf
  <2> QED
    BY <2>5, <2>6
<1> QED
  BY <1>1, <1>2, <1>3 DEF DecideReceive

(* An exception leaves every worker where it is.                           *)
LEMMA ThrowKeeps ==
  ASSUME NEW v, Throw(v), NEW w, FilledOf(w), PairedOf(w)
  PROVE  FilledOf(w)' /\ PairedOf(w)'
BY DEF Throw, FilledOf, PairedOf, Gap, Streaming

LEMMA AnswerKeeps ==
  ASSUME PrefetchTypeOK, NEW w \in Workers, Answer(w), FilledOf(w), PairedOf(w)
  PROVE  FilledOf(w)' /\ PairedOf(w)'
<1>1. /\ UNCHANGED <<j, pc, res, i, flag, status, filled, touched>>
      /\ sock[w] = "asked" /\ sock'[w] \in {"asked", "answered"}
  BY DEF Answer, PrefetchTypeOK
<1>2. Gap(w)' = Gap(w) /\ (Streaming(w)' <=> Streaming(w))
  BY <1>1 DEF Gap, Streaming
<1> QED
  BY <1>1, <1>2 DEF FilledOf, PairedOf

---------------------------------------------------------------------------
(* What breaks the process, and what does not.                             *)

(* A step ends the process only by a send or a receive that is not in      *)
(* turn: the slot a worker reads is filled, and the requests and answers   *)
(* of one that nobody has disturbed pair up.                               *)
LEMMA OnlyDisturbedThrow ==
  ASSUME PrefetchTypeOK, InBounds, NEW w \in Workers, Worker(w),
         FilledOf(w), PairedOf(w), proc' = "dead"
  PROVE  /\ w \in touched' /\ pc' = pc
         /\ pc[w] \in {"refill", "request", "receive"}
<1>1. CASE Throw(w)
  <2>1. /\ UNCHANGED <<pc, touched, sock>> /\ proc = "up"
        /\ \/ pc[w] \in {"refill", "request"} /\ sock[w] # "idle"
           \/ pc[w] = "receive" /\ sock[w] = "idle"
    <3>1. UNCHANGED <<pc, touched, sock>> /\ proc' = "dead"
      BY <1>1 DEF Throw
    <3>2. CASE RefillRequest(w) \/ RequestChunk(w)
      BY <3>1, <3>2 DEF RefillRequest, RequestChunk, Running
    <3>3. CASE ReceiveChunk(w)
      BY <3>1, <3>3 DEF ReceiveChunk, Running
    <3>4. CASE ReadSlot(w)
      BY <3>1, <3>4 DEF ReadSlot, Running, Goto, PrefetchTypeOK
    <3>5. CASE DetectMotion(w) \/ CheckRing(w) \/ RefillReceive(w) \/ Refilled(w)
      BY <3>1, <3>5 DEF DetectMotion, CheckRing, RefillReceive, Refilled, Running
    <3>6. CASE ClearFlag(w) \/ DecideRequest(w) \/ DecideReceive(w)
      BY <3>1, <3>6 DEF ClearFlag, DecideRequest, DecideReceive, Running
    <3> QED
      BY <3>1, <3>2, <3>3, <3>4, <3>5, <3>6 DEF Worker
  <2> QED
    BY <2>1 DEF PairedOf
<1>2. CASE ~Throw(w)
  <2>1. ReadSlot(w) /\ ~(j[w] % Ring \in filled[res[w]][w])
    BY <1>2 DEF Worker, DetectMotion, CheckRing, RefillRequest, RefillReceive,
      Refilled, ClearFlag, DecideRequest, RequestChunk, ReadSlot, DecideReceive,
      ReceiveChunk, Running
  <2>2. Gap(w) <= Ring /\ j[w] >= 0
    BY <2>1 DEF ReadSlot, Running, FilledOf, Checked, InBounds
  <2>3. status[res[w]][w] >= -Ring
    BY <2>2, ScalarsTyped, RingSize DEF Gap, Scalars
  <2>4. 0 .. Ring - 1 \subseteq filled[res[w]][w]
    BY <2>3, ScalarsTyped DEF FilledOf, Scalars
  <2>5. j[w] % Ring \in 0 .. Ring - 1
    BY ScalarsTyped, InRing DEF Scalars
  <2> QED
    BY <2>1, <2>4, <2>5
<1> QED
  BY <1>1, <1>2

PrefetchInv ==
  /\ \A w \in Workers : FilledOf(w) /\ PairedOf(w)
  /\ OnlySharedFlagsBreak

LEMMA PrefetchInvInit == Init => PrefetchInv
<1> SUFFICES ASSUME Init PROVE PrefetchInv
  OBVIOUS
<1>1. \A w \in Workers : FilledOf(w)
  <2> SUFFICES ASSUME NEW w \in Workers PROVE FilledOf(w)
    OBVIOUS
  <2>1. \A r \in Res : status[r][w] = -Ring - 1
    BY DEF Init
  <2>2. pc[w] = "next"
    BY DEF Init
  <2> QED
    BY <2>1, <2>2, RingSize DEF FilledOf, Checked
<1>2. \A w \in Workers : PairedOf(w)
  BY RingSize DEF Init, PairedOf
<1> QED
  BY <1>1, <1>2 DEF PrefetchInv, OnlySharedFlagsBreak, Init

LEMMA PrefetchInvStep ==
  ASSUME PrefetchTypeOK, InBounds, PrefetchInv, [Next]_vars
  PROVE  PrefetchInv'
<1>1. ASSUME NEW v \in Workers, Worker(v) PROVE PrefetchInv'
  <2>1. FilledOf(v)' /\ PairedOf(v)'
    BY <1>1, NextFrameKeeps, RefillKeeps, RequestKeeps, ReceiveKeeps, ThrowKeeps
    DEF Worker, PrefetchInv
  <2>2. \A w \in Workers \ {v} : FilledOf(w)' /\ PairedOf(w)'
    BY <1>1, OthersKeep DEF PrefetchInv
  <2>3. OnlySharedFlagsBreak'
    BY <1>1, OnlyDisturbedThrow DEF PrefetchInv, OnlySharedFlagsBreak
  <2> QED
    BY <2>1, <2>2, <2>3 DEF PrefetchInv
<1>2. ASSUME NEW v \in Workers, Answer(v) PROVE PrefetchInv'
  <2>1. FilledOf(v)' /\ PairedOf(v)'
    BY <1>2, AnswerKeeps DEF PrefetchInv
  <2>2. \A w \in Workers \ {v} : FilledOf(w)' /\ PairedOf(w)'
    BY <1>2, OthersKeep DEF PrefetchInv
  <2>3. OnlySharedFlagsBreak'
    BY <1>2 DEF Answer, PrefetchInv, OnlySharedFlagsBreak
  <2> QED
    BY <2>1, <2>2, <2>3 DEF PrefetchInv
<1>3. CASE UNCHANGED vars
  BY <1>3 DEF vars, PrefetchInv, OnlySharedFlagsBreak, FilledOf, PairedOf, Gap, Streaming
<1> QED
  BY <1>1, <1>2, <1>3 DEF Next

LEMMA PrefetchInvariant == Spec => [](PrefetchTypeOK /\ InBounds /\ PrefetchInv)
<1>1. PrefetchTypeOK /\ InBounds /\ PrefetchInv /\ [Next]_vars => PrefetchInv'
  BY PrefetchInvStep
<1> QED
  BY <1>1, PrefetchTypeCorrect, PrefetchInvInit, PTL DEF Spec

(* However many workers share the flags, the sink dies only of a worker    *)
(* whose flag another one has changed between its two looks at it.         *)
THEOREM OnlyFlagsBreak == Spec => []OnlySharedFlagsBreak
<1>1. PrefetchInv => OnlySharedFlagsBreak
  BY DEF PrefetchInv
<1> QED
  BY <1>1, PrefetchInvariant, PTL

(* A worker nobody has disturbed is at most a ring behind its frame and    *)
(* never ahead of it.                                                      *)
THEOREM StaysInsideRing == Spec => []InsideRing
<1>1. PrefetchTypeOK /\ PrefetchInv => InsideRing
  <2> SUFFICES ASSUME PrefetchTypeOK, PrefetchInv, NEW w \in Workers \ touched,
                      pc[w] \in Checked
               PROVE  Gap(w) \in 0..Ring
    BY DEF InsideRing, Checked
  <2>1. Gap(w) <= Ring
    BY DEF PrefetchInv, FilledOf
  <2>2. status[res[w]][w] <= j[w] /\ Gap(w) \in Int
    BY ScalarsTyped DEF PrefetchInv, PairedOf, Scalars
  <2> QED
    BY <2>1, <2>2, ScalarsTyped, RingSize DEF Gap, Scalars
<1> QED
  BY <1>1, PrefetchInvariant, PTL
=============================================================================
