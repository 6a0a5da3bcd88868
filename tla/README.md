# Verification of the video streaming system

The repository holds a system that stores camera video in LMDB databases, streams
it over ZeroMQ from a *source* through *decoders* to a *sink*, and recognises
licence plates in it (a fork of OpenALPR, with its daemon). The modules in this
directory model three parts of it. The streaming: the receive manager
(`src/src/RxManager.h`), the zero-copy senders (`src/src/rxtx.cpp`,
`src/src/mm.cpp`), the decoder service (`src/src/decode-serv.cpp`,
`src/src/mydecoder.cpp`) and the two programs at its ends
(`src/src/test/test-source.cpp`, `src/src/test/test-sink.cpp`). The plate daemon, with its
threads, queue and upload (`src/src/daemon.cpp`). And the control of plate recognition:
what is looked at, read, ranked and combined (`src/src/openalpr/`). Paths below
are relative to `src/src/`.

## 1. The system

| Part | State | Operations | Talks to |
|---|---|---|---|
| Receive manager (`RxManager.h`) | map of chunks, each a map of frames and a frame eof; chunk eof; watermark (chunk, frame) | `DepositAFrame`, `DepositADesc`, `RetrieveAFrame`, `GetWatermarks` | called by the sink |
| Senders and receivers (`rxtx.cpp`, `vs-types.h`) | none of their own; a transaction or a mapped file, counters, sequence numbers | `send_multi_from_db`, `send_chunk_from_db`, `send_one_*`, `send_*_eof`, `recv_one_*` | zmq sockets, LMDB |
| Zero-copy memory (`mm.cpp`, `mm.h`) | `my_alloc_hint`: method, `refcnt`, transaction, cursor, mapping | `my_free`, called back by zmq; `map_file` | io threads of zmq, the sender |
| Source (`test/test-source.cpp`) | databases, a REP socket for requests, PUSH sockets | request loop | sink (requests and frames), decoders (chunks) |
| Decoder service (`decode-serv.cpp`, `mydecoder.cpp`) | codec context, `frame_number` | receive a chunk, decode, flush, send frames and frame eof, pass a chunk eof on if one came, send feedback | source, sink |
| Sink (`test/test-sink.cpp`) | receive manager, array of frames, per-worker prefetch buffers, the flags `flag_720` and `flag_540` | request, receive, retrieve, process | source, decoders, recognition |
| Plate daemon (`daemon.cpp`, `inc/safequeue.h`, `video/`, `daemon/`) | frame queue, one-frame capture buffer, beanstalk tube | capture, recognise, queue, upload | camera, web server |
| Recognition (`openalpr/alpr_impl.cpp`, `ocr/`) | patterns of every region; per picture the regions, threshold images and plates | `recognizeFullDetails`, `analyzeSingleCountry`, `performOCR` | called by sink and daemon |
| Post-processing (`openalpr/postprocess/`) | letters by position, queue and hashes of permutations, readings | `addLetter`, `analyze`, `findAllPermutations` | called by recognition |
| Aggregation (`openalpr/result_aggregator.cpp`) | plates of all analyses | `addResults`, `getAggregateResults` | called by recognition |
| Measurements (`measure.c`, `StatCollector.h`, `CallBackTimer.h`) | a table of measurements, counters, a timer thread | measure, flush, start, stop | all programs |

`PROJECT.json` lists these and the remaining directories (bindings, vendored code,
tools) with the reason where a part is not modelled.

What is hard here, and what makes each part correct:

* **Receive manager.** Messages of one stream arrive over several connections, in
  any order. Correct means that the consumer gets the frames of the stream in
  order, without gap or repetition, and that the assertions about the watermark
  hold whatever arrives.
* **Zero-copy memory.** zmq calls `my_free` from its io threads while the sender
  is still adding buffers. Correct means that the region is disposed of exactly
  once, after the last buffer and not before.
* **Source and sink.** Two programs compute the same range in two ways (frame
  numbers and even keys) and alternate between a request socket and a stream
  socket. Correct means that their counts fit, that every slot holds its frame,
  and that neither waits for ever.
* **Decoding.** A stream is spread over decoders that finish in any order and can
  fail at every step, and the source gives all chunks one number. Correct means that an eof
  never overtakes what it ends and that pieces of two chunks are never taken for one.
* **Sink workers.** Ten OpenMP threads share two flags without a lock.
* **Plate daemon.** Capture, recognition and upload threads share a buffer, a queue and
  a tube, and whole processes may end. Correct means that recognition sees whole frames,
  in order and once, and that a result is posted before it is deleted.
* **Recognition.** A long sequential computation in which state survives from one
  round to the next: images inverted in place, patterns added by a lookup, a
  score that is carried along and stands for the permutation it belongs to. Correct means
  that readings come best first and that none better is missed, that every region
  is looked into when it has to be, and that combining analyses loses no sure reading.

## 2. Plan

| Module | Models | State |
|---|---|---|
| `InOrderStream` | abstract: what the receive manager promises | proved |
| `RxManager` | the receive manager | checked and proved; implements `InOrderStream` |
| `LentRegion` | abstract: what zero-copy sending promises | its implementation is checked and proved |
| `ZeroCopySend` | sender, io threads and `my_free` | checked and proved; implements `LentRegion` |
| `StreamSession` | source and sink of raw frames, over `RxManager` | checked and proved |
| `DecodePipeline` | source, decoders and sink, over `RxManager` | checked and proved |
| `SinkPrefetch` | the sink's workers and the source's chunk replies | checked and proved |
| `FrameQueue` | the daemon's capture, stream and processing threads, `SafeQueue`, the capture buffer | checked (in `AlprDaemon`) and proved |
| `PlateUpload` | the daemon's results, the tube and the upload threads | checked (in `AlprDaemon`) and proved |
| `AlprDaemon` | `FrameQueue` and `PlateUpload` composed: a recognised plate is put into the tube, a write may end the process | checked and proved |
| `PlateReading` | OCR of a plate's lines and the search for its readings | checked (in `Recognition`) and proved |
| `Recognition` | one image: countries, analyses, regions, plates, aggregation, over `PlateReading` | checked and proved |
| what a slot of the sink's rings holds | the refill stores by one rule and the reader reads by another (section 6) | open |
| `MeasureRing` | the table of `measure.c` | open |

`StreamSession` and `DecodePipeline` extend `RxManager`: their sinks take
`DepositAFrame`, `DepositADesc` and `RetrieveAFrame` as they stand and restrict
what is deposited to what the senders send. `AlprDaemon` extends both of its parts
and adds the steps in which they meet; `Recognition` extends `PlateReading`, whose
steps are its steps while it reads a plate. Every safety property that a run checks is
proved for all constants (section 5).

## 3. Modules

### InOrderStream, RxManager

`RxManager` keeps the C++ object's fields: `chunks` and `frames` are the keys of
`chunk_map` and of each chunk's `frame_map`, `eof_f`, `eof_c` and the watermark
carry the names of the code, `rc` is the result of the last `RetrieveAFrame`.
A frame is its pair of sequence numbers; its payload plays no part.
`xzl_bug_on` is `Abort`, after which no action is enabled. `RetrieveAFrame`'s
`goto again` is one step: `AdvanceChunk` or `SameChunk` says what happens to the
chunk that is left, `RevealFrame` or `RevealNothing` what is returned.
`OneHop` justifies that the jump is taken at most once, and is itself proved.
`LastKeyUndefined` is the dereference of `frame_map.rbegin()` when the map is
empty, undefined in C++: the process may die or the check may go either way.

In this module anything in `Desc` may be deposited at any time, any number of
times, so that what holds here holds for every sender.

`InOrderStream` is the promise: the next frame handed out is the next frame of
the current chunk or, once that has ended, frame 0 of the next one.

### LentRegion, ZeroCopySend

One send of `N` buffers. `kind` tells apart the three ways the code uses a shared
hint: `"range"` (`send_multi_from_db` over a general key range and
`send_chunk_from_db`: `refcnt` starts at 0, goes negative and is bumped once by
`cnt`), `"early"` (`send_multi_from_db` for a range of one frame or of
`CHUNK_SIZE` frames: abort right away, no bump), and `"mmap"`
(`send_raw_frames_from_file`: `refcnt` starts at the number of frames).
`FreeBuffer` is the `fetch_sub` of `my_free` with its early return, `FreeRegion`
and `FreeHint` what the thread that found 1 does afterwards; each is a step of its own,
so that io threads and the sender interleave between them.

### StreamSession

The source's request loop for `HDD_RAW_180` (`RecvRequest`, `SendFrame`,
`SendRawEof`) and the sink's `while(1)` (`SendRequest`, `ReceiveOne`,
`RetrieveOne`, `RecvReply`, `ProcessFrames`). `KeysInRange` is the arithmetic of
`test-source.cpp:428` on even keys; the database has `db` frames, which may be
fewer than requested. The request socket carries one request or reply; the
stream is a FIFO channel.

### DecodePipeline

The streaming of a chunk database as the programs do it: the source's case `NVME_CHUNK_180`
calls `send_chunk_from_db` (`test-source.cpp:455`, `182`), not the `TYPE_CHUNK` branch of
`send_multi_from_db`, which no caller reaches. Every chunk is sent with the `c_seq` of the
template, 0 (`rxtx.cpp:278`), and no chunk eof follows. A message therefore carries,
beside its descriptor, the chunk it belongs to, for the properties only; no guard reads
it but to know how many frames the codec will return. `SendChunk` and `EndOfChunks` are the
loop over the cursor; `SourceDies` is the next turn of the request loop, whose `recv` throws
since the last request on the REP socket had no reply; chunks that were not yet on a
connection are lost (`lost`). Decoders (`RecvChunk`, `DecodeFrame`, `EndOfPackets`, `EndOfFlush`,
`SendDecodedEof`, `SendFeedback`) work off their chunks, and the sink receives
(`ReceiveOne`) and retrieves (`RetrieveOne`). A PUSH socket gives each message to some
peer; messages between two processes stay in order. Failures: a file without a video
stream (`RecvChunk`), a file that makes the service abort (`DecoderDies`, with the chunks
waiting for it and the frames still in its queue), a frame that cannot be copied or
sent (`DecodeFrame`), a codec that ends before the last frame (`EndOfFlush`). `send_one_fb`
blocks when `FbHwm` messages are out, as nobody reads them. `arrived` is a history
variable: the chunks of which the manager took a piece. ffmpeg is external: a codec that
returns frames one by one and counts them in `frame_number`.

### SinkPrefetch

The parallel loop of the sink over one round (`test-sink.cpp:494`). OpenMP deals
blocks of frames (`DetectMotion` with `NextFrame`); a frame with motion is looked
at in 720p and one with a plate also in 540p, by the same code on other
variables, which the model indexes by `res`. The steps of a worker are split
wherever the code touches the global flags: `ClearFlag`, `DecideRequest`,
`RequestChunk`, `DecideReceive`, so that other workers come in between.
`sock` is the strict alternation of a REQ socket and `Throw` the exception out
of it that ends the process. `filled` says which slots of a worker's ring hold
a message. The message with the request is empty after it has been sent once, so
that the later requests of a refill carry nothing (`Emptied`) and the source
reads undefined fields; `Answer` allows both outcomes. `touched` is a history
variable: the workers whose flag has changed under them. The source spells
`CHUNK_SIZE` in two ways (`test-sink.cpp:556`, `653`); the model reads both as one.

### FrameQueue

One camera's process of the daemon. `Capture` is `getALPRImages` with its two
unlocks and the one in its exception handler, `Stream` is
`streamRecognitionThread` with `getLatestFrame`, `Pop` and `Recognize` are
`processingThread`. A frame is its number; a frame that is being written is
`Torn`, and a copy during which the buffer changes is `Torn`. Unlocking frees
`mMutex` whoever holds it, which is what a default pthread mutex does; `stolen`
records that this happened to the stream thread. The critical sections of
`SafeQueue` are one step each, because its lock is used soundly, but `empty()`
is read without it, in a step of its own (`StreamOffer`).

### PlateUpload

The tube between recognition and web server, shared by the processes of all
cameras. `Put` is `writeToQueue`; `Connect`, `Reserve`, `PostDone`, `PostFails`, `PostSkipped`,
`Delete` and `Release` are `dataUploadThread` with `uploadPost`. `curl_easy_init` may give no handle
(`curl`, chosen in `Connect`), which nobody looks at: `uploadPost` then posts nothing and reports
success (`PostSkipped`), and the job is deleted. `skipped` is a history variable: the
results this has happened to. beanstalkd is external: it hands out
jobs that are ready and takes them back when a connection ends
(`ConnectionLost`) or after the job's time to run (`TimeToRunOver`). A write to a
connection that the server has closed fails or, as nobody handles `SIGPIPE`, ends
the process (`Killed`). `posts` counts up to `MaxPosts`.

### AlprDaemon

A process for every camera. Its frames are those of `FrameQueue`, its results those of
`PlateUpload`; `WriteResult` is where they meet: a processing thread that has
recognised plates in a frame puts one result into the tube. `WriteKills`, or an upload
thread that writes to a closed connection, ends the process, and with it the capture,
the queue and the frames in its threads' hands (`Alive`). The frames of one camera are
modelled; the other processes only put results into the tube and upload them. `setup` chooses
among configurations, because all threads at once are more than can be enumerated.
`shown` is a history variable: the frame that a result shows.

### PlateReading

One plate, from its character boxes to its readings. `ReadLine` is one round of
`OCR::performOCR`: every box yields letters with confidences in every threshold image
(`Heard`; Tesseract is external), and `InsertLetter`/`AddLetter` collect them by position.
A *pick* says which of the letters is taken at every position; the code's priority
queue of permutations is a set of picks with their scores, from which `Search` takes any one
of the highest score, as `std::priority_queue` gives no order among equals. `hashes` is
`permutationHashes`, which holds scores: a child whose score has been seen is not pushed, and
`lost` records it. `Accepted` is `analyzePermutation`, `RulesAfter` the entry that looking
up an unknown region leaves in `rules`. `Sorted` allows any order of letters of equal score:
`letterCompare` is no strict order. Scores and percentages are integers; 0 / 0 is
`NotANumber`.

### Recognition

One image. `Detect` is `Detector` with `aggregateRegions` (children of a region, smallest first:
`ChildrenIn`), `Disqualify`, `BeginReading` and `EndReading` are the loop over `plateQueue` in
`analyzeSingleCountry`; between the last two `Reading` takes the steps of
`PlateReading`. `EndAnalysis`, `CombineAnalyses` and `NextCountry` are the loops of
`recognizeFullDetails`. `Clusters` (which adds one plate after the other, as `Joined` says), `Candidates`, `Entry`, `Rankings`, `BestRegions` are
`ResultAggregator` with its two strategies; `Aggregates` is the set of results that
`std::sort` and ties allow. A place stands for a rectangle; which places overlap,
contain each other and may be detected is part of the instance (`Tasks`, `Near`).

## 4. Runs

| Run | Shows | Bounds |
|---|---|---|
| `rx_any_order` | `RevealedInOrder`, the watermark assertions (`MidChunkIsPresent`) and the refinement of `InOrderStream`, for every order of deposits | 3 chunk and 3 frame numbers: two complete chunks, a chunk eof behind them, frames and eofs out of range; the watermark leaves two chunks |
| `rx_eager_consumer` | *violation* of `NeverAborts`: the consumer drains a chunk before its frame eof is deposited | one chunk of 3 frames |
| `zero_copy` | the region outlives its buffers, the hint outlives its users and, for a file, is freed; `LentRegion` is implemented with its liveness | 8 buffers, 2 io threads: both can be inside `my_free` at once; more buffers repeat the same steps |
| `zero_copy_early_abort` | *violation* of `RegionOutlivesBuffers` for small ranges | 3 buffers |
| `session_round` | counts fit (`NothingLeftOver`), no assertion fails, slots in order, the round ends | requests of 2 to 5 frames from 0 or 1, databases of 2 to 6 frames: fewer, as many and more frames than requested |
| `session_again` | *violation* of `SlotsInOrder` in the second round | 3 frames, 2 rounds |
| `decode` | unless decoding fails the manager never holds pieces of two chunks, although all have the same number (`OneChunkOnly`), and a frame eof in it means that exactly the frames of one chunk are in (`FrameEofIsLast`); whatever fails, the sink dies only where pieces of two chunks meet or an eof comes without any frame (`DiesOnCollision`); without failures and losses every decoder works off its chunks or ends up stuck with its feedback, and a sink that still receives has the whole database, of one chunk at most (`StreamSettles`) | 2 decoders, databases of up to 2 chunks of 0, 1 or 2 frames each, every failure and death at every place; a sink that retrieves after 3 messages, so that it does so before, at and behind a chunk's eof; 1 feedback message before the send blocks, so that a decoder with two chunks is stuck. A third chunk adds nothing to the sink, which is dead by then (checked separately) |
| `prefetch` | unless another worker changes its flag, a worker uses its socket in turn, reads no empty slot (`OnlySharedFlagsBreak`), stays within its ring (`InsideRing`), and the round gets done while the source is up | 2 workers, chunks of 2 frames, 5 chunks a ring as in the code, so the thresholds of one and four chunks differ; 16 frames in blocks of 14: a worker streams through a whole block, and one block is not full; the database ends early enough for the last chunks to be incomplete |
| `prefetch_race` | *violation* of `ReceiveFindsAnswer`: the flag is set between a worker's two looks | the same |
| `daemon` | recognition gets whole frames, each once and in order, unless the stream thread's lock was freed by the capture thread (`WholeFramesInOrder`); one frame waits at most; no wakeup is lost; waiting frames are taken; no result is deleted before a post of it is done unless there was no curl handle, twice only after the server took it back; no two results show one frame (`FrameShownOnce`); results are posted while one thread keeps its connection | 2 processing threads, 2 cameras, 2 results, posts counted up to 2, and four setups: 3 frames and no results (a frame is written while one is copied, another waits, and a notified thread is overtaken); no frames, 2 results and 2 upload threads; 2 frames with 2 results and no upload; 1 frame from the camera to the web server |
| `recognition` | the search drops nothing but permutations whose score was seen (`NothingElseLost`), readings come best first and none better is missed while scores differ, the best plate is the best match, lines share positions only if one has too many boxes, regions are looked into when needed, the only region of a country is used unless a state without patterns may be reported, plates of a combination lie apart, sure and unanimous readings survive, every image gets its answer | up to 4 boxes in up to 2 lines, six ways in which a box may be heard (nothing, unsure, worthless, two letters of equal and of different confidence), 3 readings at most, so that the search is cut off, exhausted and stopped by misses; lines of up to 3 boxes where a plate may have 2 characters; five tasks: one plate of any shape; two analyses that see one plate where the other sees two; two countries with a region inside another one, with states known and unknown; two analyses with a state; two plates, one of which may show a state without patterns, so that the other loses its region |
| `reading_second_line` | *violation* of `BlackOnWhite`: the second line of a plate is read white on black | the same shapes, `must_match_pattern` on |

`CHECK_DEADLOCK FALSE` stands where the modelled activity ends: a send
that has returned, a round that is over, a process that has aborted.

**Fairness.** `ZeroCopySend`: the sending thread runs until it returns, zmq frees
every message in the end, and a `my_free` that has begun runs on. `StreamSession`:
both processes run on and FIFO channels deliver. `DecodePipeline`: each process
runs on, a codec returns a file's last frame in the end, and the PULL socket of the sink,
which serves its peers in turn, passes none over for good; that the source or a decoder dies is
never assumed. `SinkPrefetch`: the threads run on, and the source
answers while it is up. `AlprDaemon`: processing and upload threads run while their process
does, and an upload thread that posts again and again succeeds in the end: an
assumption about the web server, without which nothing can be uploaded. `Recognition` is
sequential and goes on while it can. No fairness is assumed for failures, nor for zmq between
processes beyond delivery.

## 5. Proofs

* `InOrderStream_proofs`: the abstract stream leaves no gap, for all sets of
  natural sequence numbers. The invariant needs, beside `GapFree`, that the
  position is right behind the last frame handed out (`PosFollows`) and that
  chunks ahead have no size yet (`OpenAhead`): closing a chunk must not change the
  size of one that an earlier pair of `out` depends on.
* `RxManager_proofs`: type correctness; the watermark assertions and `OneHop`; the
  refinement of `InOrderStream`; and through it `RevealedInOrder`, for any sets of
  sequence numbers and any sequence of calls. The inductive invariant `RxInv`
  adds to the checked properties that an erased chunk leaves nothing behind
  (`ErasedIsClean`) and that a chunk that is there and unread has a frame below
  its eof (`UnreadHasFrame`): `DepositADesc` refuses a frame eof for an unknown
  chunk, so that a chunk in the map that the watermark has not reached owns at
  least one frame, and its eof is above it and so not 0. That is why the second
  hop does not exist.
* `ZeroCopySend_proofs`: type correctness, one disposal, region before buffers, hint
  before its users, the assertion on the bump, and the refinement of
  `LentRegion` without its fairness, for any number of buffers and io threads. The
  inductive invariant says what `refcnt` is worth: `refcnt = inflight + Credit`, where
  `Credit` is what the sender has still to add or to send; so the thread that
  finds 1 is the last user (`LastOut`), all other threads are idle, and the sender
  has returned. `RegionSafe` and `Implementation` assume that no send is
  `"early"`, the case that `zero_copy_early_abort` refutes.
* `StreamSession_proofs`: for any requests, databases and numbers of rounds.
  `SocketsInv` counts: what the sink has received and what is on the wire are
  together the messages sent so far, in order, and the eof is the last of at most
  `total_fnum` (`FramesFound`); so the sink's loop ends with an empty wire
  (`RoundsStayApart`). `ManagerInv` says what each round makes of the receive manager. In
  the first one the watermark walks through chunk 0 one frame a turn and then leaves it
  (`RetrievingFirst`), hence `FirstRoundInOrder`. In the second one the source
  numbers its frames as chunk 0 again, which is behind the watermark by then:
  every slot stays empty (`SecondRoundIsLost`) and the process does not get to a third
  round (`NoThirdRound`). This is the finding of `session_again`, for every
  request. `SessionTypeCorrect` includes that no assertion fails; it assumes one round and
  that requests meet frames (`RequestsMeetFrames`), both as in run `session_round`: the
  code ensures neither, and dies without either. `SessionImplements` needs no such
  assumption. The proofs use the lemmas of `RxManager_proofs` on what a
  call keeps (`TypeStep`, `RxInvStep`, `StepImplements`).
* `DecodePipeline_proofs`: for any number of chunks, decoders and frames, and
  failures and deaths everywhere. The inductive invariant `PipelineInv` follows a chunk through
  the system: what waits or is in hand is a chunk of the database that has been sent (`Waiting`, `InHand`), and waits
  in one place only (`OrdersApart`); of a chunk that waits nothing is further on (`PendingInv`); of one
  that is being decoded only frames that the codec has returned are on its decoder's wire or in the
  manager (`WorkInv`); the pieces of a chunk on a wire are in order, behind those that have
  arrived, and its eof is last (`WireInv`). That much makes everything that comes
  acceptable to the manager as long as only one chunk has reached it, except an eof without
  any frame: hence `DiesOnlySo`. `SinkInv` says that the manager stays where it
  began: the decoders number frames from 1 and it waits for 0, so that nothing is ever
  revealed (`NothingIsRevealed`). `NoGaps`, as long as nothing has failed: before every
  piece come all frames with smaller numbers, in the manager or ahead on the same wire;
  hence `EofIsLast`, and `OneChunk`: the first piece of a second chunk is its frame 1, which the
  manager has, or an eof without a frame, which is 1 and not above the last frame. Either is an
  assertion, which gives `ChunksApart`. No theorem assumes anything but the types of
  the constants (`PipelineAssumption`).
* `AlprDaemon_proofs`, first part, on `FrameQueue`: type correctness, `WholeFramesInOrder`, `OneFrameWaits` and
  `NoLostWakeup`, for any number of frames and processing threads, of which there is at
  least one. The first needs that the lock excludes capture and stream thread
  from each other (`LockInv`), what the buffer holds at every step of the capture
  thread (`BufferInv`), and that the frame in the stream thread's hands is newer
  than all it has handed on (`StreamInv`); the first and the last hold only until a lock is
  stolen, and so does the theorem.
* `AlprDaemon_proofs`, second part, on `PlateUpload`: type correctness, `PostedBeforeDeleted` (with the
  exception of results skipped for want of a curl handle, which a thread that deletes carries in hand:
  `PostedInHand`) and `TwiceOnlyIfTakenBack`, for any
  number of cameras and results and any bound on the posts that are counted. The
  second rests on three invariants, all of them about results that were never taken
  back: whoever works on one has it reserved (`WorkingIsReserved`), its holder's
  connection is open (`ReservedWhileOpen`), so that deleting and releasing take
  effect, and once it is posted it is deleted or its holder is about to delete it
  (`PostedIsSettled`). Nobody can then reserve it a second time.
* `AlprDaemon_proofs`, third part: every behaviour of the daemon is one of its frame queue and one of
  its upload (`Composition`), by mapping each step to a step of one part and a step or
  a stutter of the other, so that the theorems about the parts hold of the whole. On top of
  it type correctness and `FrameShownOnce`, for any number of threads, frames, cameras and
  results. Its invariant says that a frame is in one place only: in the stream
  thread's hands, in the queue, in one processing thread's hands, or shown. The steps of
  the proof follow a frame through these places (`PushKeepsPlaces`, `PopKeepsPlaces`, ...).
  Together with `TwiceOnlyIfTakenBack` it gives `FramePostedOnce`.
* `SinkPrefetch_proofs`: type correctness, `OnlySharedFlagsBreak` and `InsideRing`, for any
  number of workers, any sizes of chunks, rings and blocks and any frames. The invariant of
  a worker has two halves. `FilledOf` holds of every worker: a ring is either untouched
  or full, a ring being refilled has the slots of the chunks received, and a worker
  that got past the check is at most a ring behind; hence no empty slot is ever read.
  `PairedOf` holds of a worker that nobody has disturbed: between its two looks its
  answer to "am I streaming" stays the same, its socket is in use exactly if that is yes,
  and then it is more than a chunk behind. `ClearFlag` is what makes the last part true: without
  it a flag left on would let `status` overtake the frame. `FlagOfOthers` is the
  only fact needed about the other workers.
* `Recognition_proofs`, first part, on the search for readings, for letters, patterns and bounds of any
  number. `ReadingIsTyped`: letters have their types, and a queued permutation carries the sum of its letters'
  scores; a letter's position lies within the boxes of its line (`Within`), which gives `LinesAreApart` also for lines with
  more boxes than a plate may have characters.
  `NothingIsLost`: the search covers all permutations; every one not analysed
  lies behind a queued or a dropped one (`SearchCovers`), because a permutation that is not
  the first letter everywhere is behind the child that takes one letter less
  (`AboveChild`). `ResultsAreOrdered`: everything queued scores no more than
  everything found (`OrderInv`), because letters are sorted and children fall. Together they give
  `NothingBetterIsMissed`: what was not looked at scores no more than what it lies behind, and that no
  more than any result. `BestIsMatch` follows from the order and from the choice of the first match.
* `Recognition_proofs`, second part, on one image, for any countries, regions, places and analyses.
  `RegionsAreLookedAt`: a region is in the queue, tried, or behind one that is (`RegionsInv`); it is queued
  once, by its smallest container or at the top, because indices only grow from a region to what contains it.
  `RecognitionIsTyped`: every plate has a best reading among at most `TopN`. The three about the aggregator
  rest on what a combination does for any list of plates: after each plate that is taken, every plate is in a
  cluster, the first plates of two clusters do not overlap, and a chain of overlaps leads from each plate to
  the first of its cluster (`ClustersAre`). Hence `PlatesAreApart`; hence a confident reading is a candidate of the cluster
  its plate is in, and one of its best readings unless these are full (`ReadingsSurvive`). `UnanimityWins`
  compares points: a reading that every plate puts first with confidence gets from each
  plate more points than any other one can, and so in sum (`Outscored`, `SumsLess`). `OnlyRegion`: patterns are
  never forgotten, and what is added to them has been reported as a state (`OnlyInv`), unless the region is the usual
  one, which belongs to a country that has one (`UsualIsOwn`).
* The model collects letters, regions and clusters by folds and adds scores up over sets. The
  recursive functions behind the folds are shown to exist on every finite set, by induction on
  its size (`FoldExists`), and the sums likewise; the induction is on sets of numbers (`NatSets`, `SubsetSets`) and needs no
  theorem with an operator for its parameter.

Proved for all constants, and therefore not repeated in a run: the type invariants of
`RxManager`, `ZeroCopySend` and `SinkPrefetch`, `OneHop`, `DisposedOnce` and `BumpIsSafe`.

The assumptions on the constants are named in the modules (`SeqAssumption`, `SessionAssumption`,
`PipelineAssumption`, `ReadingAssumption`, `TasksAssumption`, ...) and checked by TLC in every run. `ReadingAssumption` types
what OCR may hear and the bounds of the configuration; `TasksAssumption` says that an image has a
country and an analysis, that its places differ, and that overlapping is symmetric, as in `overlaps`. Those on sequence numbers only say that
the sets are large enough for the numbers in use (`0 .. total_fnum - 1`, `1 .. n + 1`
for a chunk of `n` frames): the code's are 32 bits wide.

Only model-checked: liveness (`HintIsFreed`, `RoundCompletes`, `StreamSettles`,
`RoundIsProcessed`, `FramesAreTaken`, `ResultsArePosted`, `RecognitionEnds`, the fairness of `LentRegion`): the
prover has no rules for fairness and ENABLED.

## 6. Observations that no run stands for

* When the sender of a key range closes the transaction itself (`rxtx.cpp:225-230`), and
  after an early abort, nobody deletes the hint.
* `test_send_multi_from_db` closes the environment after `sleep(10)`
  (`test-source.cpp:142-148`), whether or not buffers are still out.
* A request with `total_fnum` 1 gives an empty key range; the sink then
  aborts with "tbd" (`RxManager.h:153`). `session_round` therefore starts at 2.
* The key range `[2s+2, 2s+2n)` holds `n-1` frames; the last slot repeats the frame before
  it. The assertion that would notice is disabled (`test-sink.cpp:457`).
* Decoded frames are numbered from 1 (`mydecoder.cpp:164`), and the
  watermark starts at 0: decoded frames are stored but not revealed. `FrameEofIsLast`
  states the numbering as it is.
* A frame that could not be sent is counted all the same and leaves a gap.
* Nobody reads the feedback socket; once its queues are full a decoder blocks
  in `send_one_fb`, with chunks waiting. `StreamSettles` allows for it.
* In the request loop of the source only `HDD_RAW_180` and the two 720/540
  cases answer; a request for any other database leaves its sender waiting, and the source's next
  receive throws.
* A refill stores frames from slot 0 on and the reader takes slot `j % 25`
  (`test-sink.cpp:556`, `590`): unless `j` is a multiple of 25 the worker looks at
  another frame than its own, and the first chunks it requests afterwards
  are stored by yet another rule (`633`).
* A prefetch past the end of the database leaves the multipart answer incomplete;
  the source's next receive on the REP socket throws.
* `getALPRImages` unlocks `mMutex` a second time (`videobuffer.cpp:206`). If the stream
  thread has taken the lock in between, it loses it, the next frame may be written
  while it copies, and recognition sees parts of two frames. `WholeFramesInOrder` says
  that this is the only way.
* `send_chunk_from_db`, which is what the source runs for chunks, leaves `c_seq` at the value of the
  template for every chunk (`rxtx.cpp:278`), although `vs-types.h:138` wants it contiguous, and
  sends no chunk eof. The second chunk therefore ends the sink, whose manager takes its frames for
  duplicates, without any failure; and a sink with one chunk waits for messages until its
  counter runs out. `OneChunkOnly` and `DiesOnCollision` say this.
* The source never answers the request for chunks (`test-source.cpp:455-458`); its next receive on the
  REP socket throws, ten seconds after the last chunk was handed to zmq, and the sink would wait
  for its reply for ever.
* The sink asks for database 0, raw frames, in a constant (`test-sink.cpp:406`); the decode path is used
  with another number in that place. `DecodePipeline` models that sink.
* `curl_easy_init` is not checked (`daemon.cpp:410`). Without a handle `uploadPost` does nothing and returns
  true (`468`); the result is logged as "successfully uploaded" and deleted.
* When the connection to beanstalkd is lost, `dataUploadThread` calls `reserve` again
  and again without connecting (`daemon.cpp:415`): only an exception leaves the
  inner loop, and only connecting throws one. The next writes may raise `SIGPIPE`.
* `uploadPost` takes any answer of the web server for success, also an error
  (`daemon.cpp:484`); the result is then deleted. A result that `writeToQueue` fails to put is dropped.
* A result whose post takes more than 60 seconds each time is taken back each time; if it
  is always the next one, it keeps the others from being posted. `ResultsArePosted` therefore
  assumes that this ends.
* `bestPlate` is the first reading that matches the template (`alpr_impl.cpp:335`), while
  `alpr.h:89` calls it "the topN plate with the highest confidence".
* Combining analyses drops the country of a plate (`result_aggregator.cpp:230-239`), which
  `alpr.h:86` says each result has, and its region when no region has a confidence.
* Readings of less than 75 percent do not count in a combination, so that a plate that all
  analyses read with less disappears; the overlapping plates of a single
  analysis (`analysis_count` 1) are passed on as they are.
* Percentages are scaled so that the first result always gets the best possible average,
  whatever its letters were; a first result of score 0 makes all percentages 0 / 0
  (`postprocess.cpp:229`), which then count as sure.
* Looking up the patterns of an unknown region adds it to `rules` (`postprocess.cpp:387`);
  afterwards a country with one region has two, and `alpr_impl.cpp:277` uses the default
  region instead. `OnlyRegionIsUsed` says that nothing else has this effect.
* `charRegionsFlat` has an entry per box and is indexed with positions
  (`alpr_impl.cpp:354`), which for a second line start at `postProcessMaxCharacters`.
* The uuid of a result is made of site, camera and milliseconds (`daemon.cpp:273`): two
  threads that finish within a millisecond share one, and one image file.

## 7. Not modelled

* Payloads, pixels, geometry and image statistics (OpenCV, floating point): prewarping,
  cascades, edge detection, segmentation of characters, state detection. What they
  find is a choice of the model.
* The pass-through of a chunk eof in a decoder (`decode-serv.cpp:150-157`): no sender that the programs call
  sends one.
* Exceptions between lock and unlock in `SafeQueue` (a failing allocation), and a `reserve` that fails
  on an open connection, which gives no job and is called again.
* More than one symbol of Tesseract per character box, several regions of interest in an image, and
  the rounding of floating-point scores.
* File and database I/O errors, which the code answers with an abort; the serialisation
  of descriptors; logging; reading of configurations.
* Vendored code, which is most of the repository: RE2, tinythread, SimpleIni, cJSON, TCLAP,
  utf8, Catch, the zmq headers, ffmpeg's examples. The program uses it as libraries.
* `measure.c`, `StatCollector.h`, `CallBackTimer.h`: small sequential helpers
  and a timer thread. The database builder, benchmarks, tools and bindings: loops of I/O
  without state of their own.
* Which frame a slot of the sink's rings holds: all requests of a refill but the
  first are read from an empty message, so that their contents are undefined.
* The shutdown of the daemon: `daemon_active` is never cleared, so that its code never runs.
