# pimera, specified in TLA+

pimera records a Raspberry Pi camera. It keeps the last seconds of h264 video in
memory, looks for motion in the raw frames, and writes a file while something
moves; it streams MJPEG to browsers, and a set of scripts later copies the files to
a server, indexes them in a database, and prunes them.

This directory holds TLA+ models of the code, the TLC configurations that check
them on small instances, and TLAPS proofs for all values of the constants.
`PROJECT.json` says which lines each definition models, and lists runs, mutants,
findings, hazards and theorems.

    tlc -workers 2 -config RecorderMotion.cfg MCRecorder
    tlapm Recorder_proofs.tla

## The system

| component | state | operations | works with |
|---|---|---|---|
| h264 recorder (`mmal-version/src/video.c`) | ring of three groups of pictures, file being written, `save_until`, config data | `h264_callback` on every encoder buffer, `h264_motion_detected`, `h264_config` | encoder (callback), yuv thread (shared `save_until`), disk |
| motion detection (`detection.c`) | copy of the last examined frame, cursor `ptr`, `process`, `detect_at`, tally | `yuv_callback` on every raw frame | camera, recorder (call), table of row pointers (shared) |
| detection region (`main.c` 69-147) | table of row pointers | `region_reconfigure` | heartbeat thread writes it, yuv thread reads it |
| heartbeat thread (`main.c` 432-590) | `restart`, annotation, metrics socket | one pass a second: metrics, annotation, restart section | HTTP thread (`restart_mutex`), camera |
| HTTP server (`http.c`) | `http_fds` of `poll()`, parsed requests, settings | accept, read, answer, close; status, region, threshold, restart, stream | settings (unlocked), streaming |
| MJPEG streaming (`mjpeg.c`) | list of viewers | `mjpeg_callback` on every JPEG | HTTP thread (`stream_connections_mutex`) |
| camera pipeline (`camera.c`) | MMAL components, connections, buffer pools | create, destroy, `send_buffers_to_port` | every callback |
| start and shutdown (`main.c` 590-841) | `running`, what has been created | the chain of creations and its unwinding, signals | all threads |
| libcamera version (`libcamera-version/src`) | requests queued, being processed, being encoded | request, processing, encoder and HTTP callbacks | camera, encoder |
| processing (`processing/`) | files in directories, rows in the database | copy, convert, organize, index, detect, mark, prune | disk, database, lock file |
| video browser (`video-browser/`) | table of live cameras, queries | API, UDP tracker | database |
| cpu-metrics (`cpu-metrics/main.c`) | counters of `/proc/stat` | one sample a period | statistics server |

What makes them hard, and what makes them correct:

* **Recorder.** Two threads and no lock. The h264 thread's decision changes between
  two buffers of one frame; the 64-bit `save_until` can be read half-stored on the
  32-bit targets (`README.md:65`); the keyframe that closes a file belongs to the next
  group; motion is reported late. Correct: a file under its final name is whole
  groups of pictures without a gap, a frame motion asked for is not lost, a recording
  ends in time, is published, and is never replaced.
* **Detection.** One batch of rows per callback, and a clock that starts the next
  detection whether or not the last is over. The end of the table is never
  recognised; another thread frees the table. Correct: a callback stays in its own
  table, motion is not missed, reports are a second apart and fresh.
* **Region.** A remainder decides where separators go, another formula how much
  memory they get. The HTTP thread stores a region number by number. Correct: the
  table is complete and fits; the region asked for comes into force.
* **HTTP and streaming.** Descriptors close and are reused between passes of
  `poll()`; streaming sends while the list of viewers is locked. Correct: frames go
  to whoever asked, whole; a slow viewer holds up others only until it reads or leaves.
* **Start and shutdown.** Some thirty creations unwound by hand, a signal handler that
  takes a lock. Correct: what was created is destroyed once, no lock is lost.
* **libcamera version.** Requests are recycled in one place only; a thread is
  cancelled while it waits; the signal handler takes a lock here too. Correct: no
  request is lost, the pipeline never starves, a signal ends the program.
* **Processing.** Stages share directories and a database, only some are under the
  lock, all can be stopped between two steps. Correct: a video is indexed once, no
  video is deleted that nobody has looked at.

Where the code does not keep what it should, and no sentence of the repository
says that it does, the property names the state in which it fails and claims the
rest: a callback in flight when the table is freed (`stale`, `unstopped`), a
descriptor that is listed twice (`doubled`), a handler that waits for its own thread
(`Wedged`), a thread cancelled with a mutex (`poisoned`), a video that lost a tag
(`robbed`), rows another run deleted (`skipped`). Each of these is a state the
models reach, and the sections below say how.

## Modules and plan

| order | module | models | state |
|---|---|---|---|
| 1 | `Recorder`, `Recorder_proofs` | the recorder, the yuv thread's store, disk, stops | done |
| 2 | `VideoArchive` | what the recorder promises, as an abstract specification that it implements (proved in `Recorder_proofs`) | done |
| 3 | `RegionLayout`, `Settings`, `RegionTable`, `Detection`, and the `_proofs` of all but `Settings` | the table, its construction from the settings, detection, change of region | done |
| 4 | `HttpServer`, `HttpServer_proofs` | the poll loop, connections, viewers, streaming, shutdown of both threads | done |
| 5 | `Lifecycle`, `Lifecycle_proofs` | the chain of components made, unwound and destroyed, buffers between pool, port and callback, signals, systemd | done |
| 6 | `RequestLoop`, `RequestLoop_proofs` | requests of the libcamera version | done |
| 7 | `Pipeline`, `Pipeline_proofs` | copy, convert, organize, index, detect, prune, and the tables | done |
| 8 | `MotionRecording` | detection and recorder composed, so that `MinGap` and `MotionLag` are derived | planned |

The order is by what a failure costs: a video lost or damaged, then a camera that
stops, then what can be repeated. Every safety property that a passing run checks is
also a theorem; what is left to prove is what `MotionRecording` would compose.

The modules meet where one takes for granted what another shows: `Recorder` assumes
of reports of motion what `Detection` shows (`ReportsApartAndFresh`); `Detection` uses
the table that `RegionTable` shows is built; `Lifecycle` hands the end of the HTTP
thread and of the streams to `HttpServer`; `Pipeline` starts from the files that
`VideoArchive` says never change once published.

## Recorder

Time is counted in frames; as the encoder is told to make a keyframe every `fps`
frames (`camera.c` 621-629), `GOP` frames are one second. `RAW_STC` timestamps
(`camera.c` 91) run on over a restart of the program, and so does `frame`.

| model | code |
|---|---|
| `ring`, `Advance`, `Put` | `h264_buffers[3]`, `h264_advance_buffer`, the `memcpy` of 184-188 |
| `saving`, `fd`, `name` | `h264_file_save`, `video_fd`, the two file names |
| `save_until`, `settled`, `wanted` | the variable; the value before and after the store going on |
| `kickoff` | the config data kept in `h264_file_kickoff` |
| `Close`, `KeepSaving`, `Open`, `OpenFails`, `Queue` | the branches of `h264_callback`, each with everything it changes |
| `MotionDetected`, `MotionStored` | the two 32-bit stores of `save_until`, in either order |
| `temps`, `finals` | files before and after `rename()` |
| `Stop`, `Restart` | a crash or a signal; `Restart=always` of `pimera.service` |

A frame may come in two buffers; only the first has a pts. A callback is one action:
the threads share only `save_until`, which a callback reads once for each decision
that matters. The environment (`NextBuffers`) gives the encoder's buffers in order.

Properties: `FinishedFilesPlayable`, `NothingDueIsLost`, `RingIsCurrentGroup`,
`RingFits`, `RecordingEndsInTime`, `EveryRecordingIsPublished`, and `ArchiveSpec`: the
recorder implements `VideoArchive`, an archive to which clips are added whole, one by
one, each later than and apart from all before it. The refinement mapping takes a
published file to the numbers of its first and last buffers (`Clips`) and the end of
the film to `serial`. `PublishedStays`, that no published file is changed, replaced
or removed, is proved; `recorder_motion` shows more, with `ArchiveSpec`.

* `NothingDueIsLost` is not claimed when stores are torn: a wrong value can close a
  file early, and a frame between may then be in no file. Files stay whole
  nevertheless, which `recorder_failures` shows.
* A frame is due together with the buffers back to its keyframe (`Due`, `group`), also
  when those came before the motion was known.
* A frame that is split over two buffers becomes due by its first part: when motion
  is stored between the two parts the second alone cannot begin a file.
* `PublishedStays` needs the yuv thread to be less than `Linger - GOP` frames behind.
  With a larger `MotionLag` a recording can end and another begin in one second.
* `Stop` while saving leaves a file with the temporary name for ever; the name of a
  later recording may be the same only after the clock goes back. `write()` errors
  are ignored by the code and not modelled; nor is `localtime()` going back an hour.

Fairness: the encoder keeps delivering and a thread that began a store finishes it.
There is none for motion, for `Stop` or for `Restart`.

## Region and detection

`RegionLayout` says what the table of row pointers is: `rows / batches` rows, a
separator, and so on, and one more separator. `RegionTable` is the start of the
program as far as detection goes: `Settings` says what `set_default_settings` and
`read_settings` make of a `settings.ini`; `detection_init` divides by it, and the loop of
`region_reconfigure` writes the table row by row. It shows that the loop leaves the
described table (`TableAsDescribed`), inside its memory (`TableFits`), with rows inside the
frame that was copied (`RowsInsideFrame`). `Detection` uses the description.

| model | code |
|---|---|
| `Unsigned`, `Word` | what `atoi()` returns, stored in or divided by an `unsigned int`; `Word` is 2^32 in the program, and any number above 100 in the proofs |
| `Region`, `motion_check_frequency` | `region[j]` is stored without a bound on `j`: a fifth number is the next field |
| `Bytes`, `Wraps`, `Capacity` | the number of bytes given to `malloc()`, which wraps around |
| `Heap`, `Writable`, `WriteOutside` | `malloc()` of more than there is fails, its result is used anyway; what is written behind the table is memory of somebody, until there is none |
| `DivideByZero`, `detection_init` | a frequency of zero, or fewer rows than batches, ends the program (`trapped`) |

The file may give any numbers but a picture of negative size; in particular
a region that ends before it starts, whose `rows` wrap around while its loop has no
row, and negative numbers, which are large ones.

| model | code |
|---|---|
| `ptr`, `process`, `detect_at`, `detecting_at` | the static variables of `yuv_callback`; `ptr` as a position in the table |
| `hot` | pixels: how many rows must be examined until the tally passes the threshold |
| `stale` | `ptr` points into memory `region_reconfigure` has freed |
| `Begin`, `Continue`, `Ignore` | `yuv_callback`: a detection is due; one is in progress; neither |
| `ContinueOutside` | the same code when `ptr` is outside its table: any outcome |
| `StoreStart`, `StoreEnd`, `AskRestart` | `GET /region/...` of `http.c` 330-369, with no lock until `restart_mutex` |
| `StopCapture`, `Reconfigure`, `StartCapture` | `main.c` 559-577, under `restart_mutex` throughout; either setting of the port may fail, which is only logged |
| `late`, `unstopped` | callbacks handed over since capture stopped, at most `MaxLate`; that capture was not stopped at the last change of region |
| `Fatal` | a height so negative that `malloc()` fails, or `rows < batches`, a division by zero |

Time is the pts in any unit that divides `Sleep` = 1000000 / `motion_check_frequency`.
`Gaps` are the distances of two frames, `Drops` those when some are lost. As
`batches` is `fps / motion_check_frequency` rounded down, at most `batches + 1`
callbacks fall between two detections (assumption `FrameRate`): with the default of
10 frames and 3 detections a second there are 3 batches and 4 callbacks, and the
table has room for the fourth only because of its left-over rows and last separator.

Properties: `ReadsOwnTable`, `NoMotionMissed`, `ReportsApartAndFresh`, `RegionInForce`,
`RegionComesIntoForce`; of the table `TableAsDescribed`, `TableFits`, `RowsInsideFrame`.

* `ReadsOwnTable` says who may read the table that was freed: a callback that was in flight
  when capture stopped, as nobody waits for it and the second of `main.c` 570 comes
  after the table is gone, not before; and every callback when capture did not stop,
  which `main.c` 562-564 only logs. TLC reaches both (`MaxLate` = 1). It claims that no
  callback after the pause does, and that none passes the end of its own table.
  Afterwards anything may happen to the detection in progress (`ContinueOutside`).
* A callback is one step, and so is `region_reconfigure`: a table that is freed in the
  middle of a callback shows as one that is freed just before it.
* `TableFits` claims nothing when the number of bytes wraps around (`Wraps`), as for a
  region that ends just before it starts.
* `RowsInsideFrame` claims nothing of a region that is not inside the picture: the code
  does not compare the two (`InPicture`), and with a small picture the default of
  (0, 0) to (100, 100) is not inside.
* NEON examines 16 pixels at a time, from where the row starts. What keeps the last of
  them inside the copied frame is that memory is for the aligned picture.
* `ReadsOwnTable` assumes a region that was asked for as a whole. Two quick requests
  can mix two regions; the model follows that (`Fatal`, or an empty table whose
  detection walks out of it) but claims nothing then.
* The rows left over by `rows / batches` may never be examined (with 30 frames a
  second there are exactly `batches` callbacks): `NoMotionMissed` excludes them.
* `ReportsApartAndFresh` is what `Recorder` takes for granted as `MinGap` and
  `MotionLag`.

Fairness: the HTTP thread finishes a request it began and the heartbeat thread goes
on with its loop. There is none for frames: the camera may stand still.

Differences between documents and code that no run shows:

* `settings.ini:15` says the default region is the entire frame, `main.c` 192-195
  makes it the rectangle from (0, 0) to (100, 100).
* The end of the table does not end a detection: `ptr == NULL` (`detection.c` 201)
  tests the cursor, not what it points to, and is never true. `ReadsOwnTable` shows
  what keeps that harmless.

## HTTP server, streaming, shutdown

`HttpServer` has three threads: HTTP (`pc`), MJPEG (`sending`) and main (`main`), and
the clients with the kernel's part of a socket.

| model | code |
|---|---|
| `fds`, `count`, `slot` | `http_fds` with `revents`, `http_fds_count`, the `i` of the loop |
| `owner`, `link` | which connection a descriptor is, and what the server did with it |
| `viewers`, `lock`, `freed` | `stream_connections`, its mutex, whether `clear_connections` has freed it |
| `Poll`, `Accept`, `AcceptFails`, `EndPass` | `poll()`; the listener's slot; the end of a pass, where `running` is read |
| `AnswerPage`, `AnswerStream`, `Enlist`, `RecvEnd` | `recv()` and `handle_request`, up to and after the mutex |
| `Drop`, `Close` | leaving the list under the mutex; `close()` and the move of the last slot |
| `FrameDue`, `SendPiece` | `mjpeg_callback`: mutex, then three sends to each viewer |
| `Cancelled`, `CloseAll`, `ClearConnections` | `pthread_cancel` and the cleanup handler |
| `Signal`, `HeartbeatReturns`, `Joined`, `PortDisabled` | `signal_handler` and the end of `main()` |

* `AtSlot` skips slots without `revents`: nothing is shared that this could miss. A
  new connection takes a slot with the `revents` it had before, so that `recv()` may
  be called too early and block: the answering actions are then disabled.
* A page is answered with `Connection: close`, a stream with `Connection: Keep-Alive`
  (`http.c` 269): a client that watches may ask again, for a page or once more for the
  stream, `MaxMore` times. A second entry of its descriptor in the list outlives the
  connection (one entry is removed, `http.c` 231-236), and frames then go to whoever
  gets its number: `StreamsReachWhoAsked` excepts descriptors entered twice (`doubled`),
  `AnswersAreWhole` also who asked again (`again`), whose answer comes between frames.
* A send is whole, fails (only to a client that is gone) or blocks while the
  client's buffer, of `Room` sends, is full. The HTTP thread's own short answers fit.
* A page whose file does not open is read through a null pointer, which ends the
  program (`PageCannotBeOpened`).
* `viewers` keeps with each descriptor the client that asked, and `doubled` and `again` are
  what their names say: history that no guard reads.
* After `ClearConnections` the MJPEG thread reads freed memory: any outcome (`Astray`),
  the end of the process included, and no property claims anything then.
* Frames that are not due and a `poll()` that fails change nothing. `running_mutex`
  and `restart_mutex` protect single accesses and are left out. The list of
  `/motion.mjpeg` is entered and left, and nothing is sent to it.

Properties: `SlotsAreOpenSockets`, `StreamsReachWhoAsked`, `FrameWalksList`,
`AnswersAreWhole`, and as liveness `RequestIsAnswered`, `GoneIsClosed`, `ViewerIsServed`,
`SignalEndsProgram`.

Fairness: every thread runs. The mutex is strongly fair for the HTTP thread
(`HttpLock`): the MJPEG thread gives it up after every frame, and the frames of a
stream are a quarter of a second apart (`main.c` 217). A client that stays sends its
first request and reads what it is sent; without that, one that does neither stops the
server, as `send()` and `recv()` block and the thread that blocks may hold the mutex.
So the properties show that no client waits for another one's request longer than
that; they do not show that a client that never sends anything (`recv()` called too
early) leaves the others alone, for it does not. `HeartbeatReturns` is fair only after
a signal. A client need never leave.

## Life of the MMAL program

`Lifecycle` has `main()` with `heartbeat()`, the HTTP thread as far as `running_mutex`
goes, the three callbacks, the signal handler, and systemd.

| model | code |
|---|---|
| `stage`, `step`, `held` | which `create_*` of `camera.c` `main()` is in, at which call of it; the components, connections, ports and pools there are |
| `create_camera` ... `enable_yuv` | for each part its calls in order, and what a failing one leaves behind |
| `StepSucceeds`, `StepFails`, `WildPool` | one call of a `create_*`; its failure, with the unwinding of `main.c` 686-768 |
| `queue`, `sent`, `callback`, `lost` | buffers in the pool, at the port, with the callback, and in no place |
| `Feed`, `SendBack`, `FeedFails`, `SendBackFails` | `send_buffers_to_port`, a buffer at a time |
| `Spawn`, `HeartbeatStarts`, `HeartbeatLocks`, `HeartbeatReads`, `Beat`, `Reopen`, `Reopened` | the start of the HTTP thread; `getaddrinfo()` of `heartbeat()`, its loop and its restart section |
| `Signal`, `Handle` | SIGINT in any thread; the handler once it has `running_mutex` |
| `Cancel` ... `Destroy` | `main.c` 804-841 |
| `Restart`, `StaysUp` | `Restart=always` of `pimera.service`, with systemd's default limit of starts |

Properties: `PicturesFlowThroughWholeChain`, `PoolsOutliveBuffers`,
`StarvedOnlyByFailedSend`, and as liveness `SignalEndsProgram` and `ComesUp`.

* A failing call may leave what it made: when its connection fails an encoder is not
  destroyed, and `main()` does not destroy the part that failed. `left` says what;
  no property claims otherwise, as the process then ends. At shutdown the mjpeg
  encoder is never destroyed, for the same end.
* `destroy_*_encoder` is called with a pool that was not created yet when the port of
  an encoder cannot be enabled (`camera.c` 498-503, 698-703): the value is whatever
  was on the stack, and the process may die there (`WildPool`).
* A buffer whose `mmal_port_send_buffer` fails is out of its queue and at no port:
  `StarvedOnlyByFailedSend` says that this is the only way a port runs dry.
* `heartbeat()` also returns when its server's name cannot be resolved (`main.c` 478),
  and `main()` then ends the program with status 0; systemd starts it again.
* A signal that interrupts a thread inside `running_mutex` waits for it for ever
  (`Wedged`): both liveness properties except that state and no other.

Fairness: threads go on and systemd starts what ended. The waits for the mutex are
strongly fair, as either holder sleeps or polls for most of its pass. None for
signals, failures, or pictures while the camera is off.

## Requests of the libcamera version

| model | code (`libcamera-version/src/main.cpp`) |
|---|---|
| `camera`, `processing_queue`, `reuse_queue`, `encoder` | requests with libcamera, in the two queues, and with the encoder, in order |
| `Complete`, `Stamp`, `Push`, `Count` | `requestComplete`: the metric, the queue, the other metric |
| `Drain`, `Requeued` | the loop of 219-236 that gives requests back to the camera |
| `Take`, `Taken` | the wait for a request, the first of which is kept (187-200) |
| `Motion`, `NoMotion`, `NoCheck` | the decisions of 369-508, with `encoder_enqueue` or the return to the camera of 557-564 |
| `reuse_request`, `AfterFrame`, `film` | the encoder's callback; what it made of the flags `first` and `last` |
| `checkIn`, `cooldown` | `detection_at` and `cooldown_at`, as frames that are left |
| `QueueRequest`, `CountQueued`, `StartThreads` | 1025-1043: each request and its metric, then the threads |
| `MainLocks`, `MainReads`, `MainClears`, `HttpLocks`, `HttpReads`, `mutex` | who looks at `running`, under `running_mutex`: `main()` each second, the HTTP thread before it polls and after a page |
| `Signal`, `Handle`, `Awake` | SIGINT in one of the threads, which waits in the handler until it has `running_mutex` |
| `CancelThreads`, `SignalCondition`, `Join`, `Stop` | 1086-1110; both threads are joined, the HTTP thread last |
| `Cancelled`, `CancelledInDrain`, `poisoned` | `pthread_cancel` at a cancellation point, with `processing_mutex` locked or not, or with a request in hand |
| `HttpEnds` | the cleanup handler of the HTTP thread, which unlocks `running_mutex` whoever has it |

Properties: `OneOwner`, `MetricsCount`, `RecordingsAreWhole`, `StarvedOnlyByEncoder`,
and as liveness `RecordingEnds` and `SignalEndsProgram`.

* The request of the first frame is never given back to the camera, so that one of
  `N` buffers is out of use, and its place in `requestsAtQueueMetric` is never
  subtracted: the metric is one too many from then on.
* Requests are given back only when the thread comes by (`TODO` at 241).
  `StarvedOnlyByEncoder` says exactly when that stops the camera: the encoder had
  every other request at the last drain, and gives them to a queue nobody looks at.
* With cooldown left, a frame that is checked and shows nothing is returned and not
  encoded: the recording lacks it, though the frames around it are encoded.
* `SignalEndsProgram` excepts two states by name. `poisoned`: the thread may be cancelled
  in `pthread_cond_wait`, which takes the mutex first; `main()` then waits for it at 1089.
  `Wedged`: the handler waits for `running_mutex` (`main.cpp` 83), and the thread that it
  interrupts holds it (1077-1079, 707-709, 747-749, 825-827); neither goes on, nor does
  anybody else who looks at `running`. TLC reaches both.
* A cancelled request ends the thread and not the program.

The encoder is external (`encoder.hpp` is not in the repository): it encodes in order
and gives every request back. Left out: that `encoder_init` (1039) runs after the
thread has started, cancellation inside `logInfo`, and the blocks behind
`if (0 && ...)`, which are never reached.

Fairness: camera, encoder and threads go on. `main()` and the handler, waiting for
`running_mutex`, get it when it is free again and again (`SF`): the HTTP thread polls for
most of its pass, and `main()` sleeps. None for the signal or motion.

## Processing

`Pipeline` follows videos of one camera from its disk to the database.

| model | code |
|---|---|
| `camera`, `h264`, `mp4`, `day`, `images` | the folders a file comes through: whole, a part that plays, broken, or not there |
| `row`, `video_tag`, `Replace` | tables `videos` and `video_tag`; `REPLACE INTO` with the unique indexes of `schema-mysql.sql` |
| `List`, `Rsync`, `Copied`, `Remove`, `ToConvert` | `01.copy.sh` |
| `Convert`, `RemoveSource`, `ConvertFails` | `ffmpeg -y ... && rm`, four at a time; a failing one leaves a part, something broken, or what was there before |
| `Organize`, `IndexNew`, `IndexBroken`, `IndexKnown`, `IndexMissing` | `02.organize.py`; the branches of `03.index.py` |
| `Fetch`, `Upload`, `CommitTags`, `CommitRan` | `04.detection.py`, a transaction a step |
| `Select`, `Mark`, `ListDoomed`, `RemoveFiles`, `DeleteRows` | `06`, `07` and `08` of `prune.sh` |
| `NoHost`, `CopyFails`, `ScriptDies`, `PruneDies`, `RemoveFilesFails` | failing commands, and either script killed anywhere |

`scripts.sh` runs under `flock`, so that it never meets itself; `prune.sh` is run by
hand under no lock and may run at any time, `MaxPrunes` times, beside itself too. Runs are
numbered in the order they start, and each reads the tables when it gets there.

The tables are those of `schema-mysql.sql`. The scripts connect to MySQL and to nothing
else (`03.index.py` 17, `06.prune-mark.py` 12); `schema-sqlite.sql` lacks
`objectDetectionRan`, `durationMilliseconds` and the table `tags` that they use.
Its indexes, `videoId` alone and `tagId` alone, leave at most one tag to a video and one
video to a tag. A `REPLACE` of a tag takes its row from the video that had it, and
that video is then without tags, or without the one that made it worth keeping.

Properties: `NothingIsLost`, `MarkedWasScanned`, `NothingLeftBehind`, and as liveness
`EveryVideoIsListed`.

* `robbed` are the videos of which the `REPLACE` of another tag took a row, whether of
  another video or of the same. `MarkedWasScanned` and `NothingLeftBehind` claim
  nothing about them: `pipeline_tags` shows what becomes of one. They claim
  everything about the others, the newest video of a camera among them. That a video
  shows several kinds of object (`Objects`) is for the proofs: of the two tags one robs the
  other.
* `MarkedWasScanned` asks that what is marked was looked at, and was dull when the
  whole was looked at. A part that a failed conversion left can be looked at, found
  dull and marked; and when the whole replaces a part that was looked at, nothing
  looks again: `03.index.py` 105-108 updates only the size. The property claims
  nothing of a video of which only a part was seen.
* `NothingLeftBehind` excepts what a run of `prune.sh` could not remove (`stuck`), and what
  one run deletes the row of before it has found it itself (`skipped`), because
  another run marked it in between (`08.prune-rows.py` 16-18).
* `scanned`, `marked`, `robbed`, `listed`, `stuck` and `skipped` are history variables that no
  guard reads.

Fairness: cron starts `scripts.sh` again and it goes on; as the videos to look at come
in random order (`04.detection.py` 42), each of them is looked at if it can be again and
again (`SF` of `Fetch`). Nobody has to run `prune.sh`.

## Runs

| run | instance | shows |
|---|---|---|
| `recorder_motion` | groups of 3, 18 frames, one split frame, complete stores | no frame lost, recordings end and are published, the archive is implemented, in any interleaving |
| `recorder_failures` | groups of 2, one stop anywhere, failing `open()`, config data of 128 and 200 bytes, halves of `save_until` with 4 values, 2 callbacks within a store | nothing partial is published and the ring stays in step |
| `region_table` | regions of every height to 44 at the lower right edge of a picture of 64 x 48, up to 10 batches; files without a region, with a zero or a negative rate, with two or five numbers of four, reversed and negative regions; words of 24 bits, memory for 120 triples | the loop leaves the described table inside its memory, and no row of it reaches past the frame |
| `region_table_overrun` | the same | violated: a low region overruns the memory |
| `detection` | 2 batches, 5 frames a second with jitter and drops, two regions, two requests, one callback in flight, capture that fails to stop or start | the properties of detection and of the change of region |
| `http_server` | 3 connections, listener and 2 slots, one failing `accept()` or `fopen()`, one more request of a client that watches | slots, descriptors and viewers agree, answers are whole |
| `http_progress` | 2 connections that ask once, a signal, a heartbeat that may return at once | requests, viewers, clients that left, and a signal, all get what they wait for |
| `http_shutdown` | 2 connections | violated: the list of viewers is freed before the encoder's port is disabled |
| `lifecycle` | pools of 2, 2 starts, 2 faults or signals anywhere | pictures flow only through a whole chain, pools outlive buffers, the program ends and comes up |
| `request_loop` | 3 requests, a check every second frame, cooldown of 1, one cancelled request, a signal in any thread anywhere | one owner for each request, whole recordings, one way to starve, two ways not to end |
| `pipeline` | 2 videos, one with a person, one with a shadow taken for a person with low confidence, so that their tags meet; one fault, two runs of `prune.sh` | no video lost, pruned unseen, or pruned by halves; all are listed |
| `pipeline_tags` | the same, no fault, one run of `prune.sh` | violated: a video is marked before anybody has looked at it |

Bounds. `MaxFrame` lets two recordings follow each other with queueing between and the
ring wrap around, and with a stop, one before it and one after. `MaxMotion` is low
enough that the last recording can end before `MaxFrame`, so that liveness is not
cut off. `MaxSplits` = 1 suffices as a split frame interacts with at most one opening
or closing. `MaxTorn` bounds the callbacks within one store. `MaxPts` gives three
detections and a pause; two requests are enough for the second to meet the first at
every point of its restart; two regions, as a mix takes one half of each; `MaxLate` = 1, as
one callback in flight can do all that several can. Three connections for two slots:
one is refused or takes the slot and the number of another that left while a third
watches. `Room` = 1 makes every further send wait for the reader. `MaxMore` = 1 enters a
descriptor twice. `http_server` has no signal and `http_progress` no second request, so that
each stays small; the invariants hold with both in the proofs. Liveness has two
connections, one that waits and one it waits for. `Buffers` = 2 lets a port lose one
buffer and go on with the other, or lose both; `MaxFaults` = 2 of `lifecycle` lets a fault meet
the unwinding, the signal or the restart after another; with `Burst` = 2 one start follows a
failure. `N` = 3: one request is kept, one is with the thread or the camera, and the
encoder can have one or both of the other two. Two videos: one that is pruned or
replaced, or loses its tag, while the scripts work on the other; one fault: a part
that is left, a stage that stops, a file that stays, or a run of `prune.sh` that dies; two
runs of `prune.sh`: one that marks while the other deletes. Deadlock is off where a
bound ends the behaviour or the program may end; in `pipeline`, where cron always goes
on, it is checked.

## Findings

* `region_table_overrun`: more separators are written than there is room for when
  `3 * (rows / batches) < batches`, e.g. 9 rows and 6 batches.
* `http_shutdown`: `http_server_thread_cleanup` frees the viewers (`http.c` 88) and
  leaves `stream_connections` as it is, while frames still come.
* `pipeline_tags`: `schema-mysql.sql` 36-37 make `videoId` alone and `tagId` alone
  unique in `video_tag`. The tag of a camera then belongs to its newest video only;
  every other is without tags, which `06.prune-mark.py` 112-116 takes for a reason to
  delete it.

## Proofs

`Recorder_proofs` (all from `RecorderConstants` alone):

* `TypeCorrect`: `Spec => []TypeOK`.
* `PublishedFilesPlayable` and `RingFollowsEncoder`: `FinishedFilesPlayable` and
  `RingIsCurrentGroup` for every length of group, split, torn store, failing `open()`
  and stop. They follow from `Invariance`, an invariant about three places a buffer
  can be: the current slot of the ring is a run from the first part of a keyframe up
  to the newest buffer while not saving; the open file is such a run while saving; a
  finished file is such a run that ends before a keyframe. `FinishedFilesPlayable`
  alone is not inductive: `Close` publishes what only the second part speaks of, and
  `Open` fills the file with what only the first part speaks of.

* `RingHasRoom` (`RingFits`): no slot is ever given more frames than a group has. A slot
  holds different frames (`Once`), all of one group (`OfGroup`); `Current` says that those
  of the current slot are of the group in progress and no newer than the newest frame,
  so that the next buffer, which is of that frame or begins the next one, keeps both.
  The bound is then an injection of the frames' first buffers into `GOP` numbers.

What needs the clock holds under `Timed`: `MotionLag + GOP <= Linger`, reports less than
two seconds minus a group late, and `MaxTorn = 0`, no callback within a store, as on a
64-bit system.

* `PublishedForever` (`PublishedStays`) and `RecorderImplementsArchive` (`ArchiveSpec`).
  The invariant adds to the one above `Timely`, that a recording cannot end in the
  second it is named for, and `Ordered`, that published files are earlier than the
  file being written and than the queue, in their names and in their buffers.
  Without the condition on `MotionLag` a late report reopens a file within the second
  of its name, and `rename()` replaces what was published.
* `NoFrameLost` (`NothingDueIsLost`): `Kept` says that the file being written, or the
  queue, begins no later than the newest group and has every buffer since
  (`Dense`), so that a new file starts with all that can become due with it.
* `RecordingsEnd` (`RecordingEndsInTime`): while saving, the group in progress began no
  later than motion wants (`Bounded`).

`RegionTable_proofs` (from `RegionTableConstants` and `SettingsConstants`, for any numbers in
the file but a negative size): `LoopBuildsTable` (`TableAsDescribed`) and
`LoopStaysInside` (`TableFits`). The loop's invariant says how many triples it has
written after `r` rows, and that each is in its place (`Looping`); `RowsOfRegion`, that
`rows` is the height modulo a word, which is the height itself where the loop has rows.
`DetectionReadsItsFrame` (`RowsInsideFrame`) is arithmetic from there: the end of a row,
rounded up to 16 pixels from its start, is inside the aligned planes.
`RegionLayout_proofs` holds the arithmetic of the table that these and the next share.

`Detection_proofs` (from `DetectionConstants`, `FrameRate`, `RegionsValid`):

* `TypeCorrect`.
* `RequestsTakeForce`: `RegionInForce`, from an invariant that also speaks of the
  time while the heartbeat thread sleeps.
* `ReportsKeepDistance`: `ReportsApartAndFresh`, from `Spaced`: a detection in
  progress ends `Sleep` after its frame, and neither is within a second of the last
  report.
* `CallbacksReadOwnTable`: `ReadsOwnTable`, with any number of callbacks in flight. `Walk`
  says that after
  `k` callbacks `ptr` is at the start of batch `k` and at least `k - 1` parts of the
  interval have passed, so that the callback after the last batch comes too late;
  `Paused` says that, if the camera stopped, a detection that the change of region
  interrupts is over before it goes on.
  Lemmas on the table (`ScanStops`, `ScanBatch`) turn the scan for a separator into
  arithmetic.
* `MotionIsFound` (`NoMotionMissed`), the other way round: without a drop
  no more than `k - 1` parts of the interval have passed after `k` batches, and none of
  them had the row that makes the tally pass (`Examined`), so that when the next
  detection is due all batches were examined. `Uninterrupted` says that a table that was
  freed counts as a dropped frame until the next detection.

`RequestLoop_proofs` (from `RequestLoopConstants`, for any number of requests):

* `TypeCorrect`, with `ThreadInv`: where the thread stands says whether it has a request.
* `FramesMakeRecordings` (`RecordingsAreWhole`): `FilmInv` says that the encoder's queue
  continues the film frame by frame, and that `recording` is what it ends with. What
  the film shows is only the past of that queue, so it is not inductive alone.
* `EachRequestHasOneOwner` (`OneOwner`): `Apart` says that the seven places a request
  can be in have no request twice and none in common, and together have those queued;
  each step moves one request (`Moved`) or brings one in (`CameIn`). That the
  concatenation then has `queued` different elements (`OwnedIsApart`) is by counting.
* `OnlyEncoderStarves` (`StarvedOnlyByEncoder`): `WaitInv` says that from the drain to the
  wait what was away is with the encoder or back in `reuse_queue`.
* `MetricsAreLengths` (`MetricsCount`), inductive with the types.

`Pipeline_proofs` (from `PipelineConstants`, for any videos, faults and runs of
`prune.sh`):

* `TypeCorrect`.
* `NoVideoLost` (`NothingIsLost`). `LossInv` adds that each stage
  works on files that are there, that the source of a conversion that failed is
  there, and that what is to be removed has been marked.
* `MarkedOnlyWhenScanned` and `NoLeftovers` (`MarkedWasScanned`, `NothingLeftBehind`), with the
  indexes of MySQL and any overlapping runs. `RowInv` speaks of the videos not `robbed`, one by
  one (`VideoInv`): a row always has a tag, the camera's or one of detection, so that it is not
  selected before `objectDetectionRan`, and has the tag of a person before that
  (`Tagged`); detection works on a row that is there (`AtWork`); what a run has selected
  was looked at, and the images of what it will delete are gone first, or `stuck`
  (`Pruned`). A step that takes a tag from a video puts it into `robbed`, which is what
  `ReplaceKeeps` shows: the tags of every other video are kept.

`HttpServer_proofs` (from `HttpServerConstants`, for any number of clients and slots):

* `TypeCorrect`, which already needs the rest: that `accept()` finds a free descriptor is
  by counting (`Slots` descriptors, fewer sockets), and that answers fit their room is that
  a client is sent nothing before it asked.
* `SlotsAreSockets` (`SlotsAreOpenSockets`) and `FramesGoToWhoAsked`
  (`StreamsReachWhoAsked`). `Slotted`, `Owned` and `Entered` say that slots and sockets, sockets
  and clients, and entries of the list and sockets belong together one to one. They
  need `AtWork`: a thread about to close has taken its viewer off the list, and one about
  to enter it has not done so before. When the HTTP thread has ended with its sockets
  open, as it may without the cleanup handler, the list still agrees with them, which is
  why `Entered` excepts only `Closed`. Of a descriptor entered twice nothing is known, and
  it stays so: `doubled` only grows.
* `ListStaysForFrame` (`FrameWalksList`): `Walks` says that the frame is at a place of the
  list, under the mutex; everyone who changes the list takes the mutex first.
* `OneWholeAnswer` (`AnswersAreWhole`), an action property: `Watched` says what each viewer
  was sent last, the header or a picture, but for the one that is sent to (`Last`);
  `Answered`, that one that has not asked yet was sent nothing. Both hold of clients
  that ask once and whose descriptor was not entered twice (`Excused` are the others).

`Lifecycle_proofs` (from `LifecycleConstants`, for any pools, faults and starts):

* `TypeCorrect`, `NoPictureWithoutChain` (`PicturesFlowThroughWholeChain`),
  `NothingGoesUnderBuffer` (`PoolsOutliveBuffers`) and `OnlyFailedSendStarves`
  (`StarvedOnlyByFailedSend`). `HeldSoFar` says that what is held is what the steps up to
  this one made, then the whole chain, then what the shutdown has left of it;
  `QuietPorts`, that nothing is at a port before it is fed nor after it was disabled;
  `Accounted`, that each buffer of a pool is in one place; `SentAll`, that a callback at
  rest has left nothing to send unless a send failed. The properties are the parts of
  these that a reader asks for, and none is inductive alone.

Only model-checked:

* liveness, which these provers do not reach: `EveryRecordingIsPublished`,
  `RegionComesIntoForce`, `http_progress`, `SignalEndsProgram`, `ComesUp`,
  `RecordingEnds`, `EveryVideoIsListed`;
* `NothingDueIsLost` on its own where a report is later than `Timed` allows.

## Not modelled

* Most settings, logging, drawing (`annotate.cpp`), pixel arithmetic, and the web pages:
  straight-line code whose results reach the models as constants or as a choice.
* The heartbeat's metrics and the text in the picture: sent and forgotten.
* The HTTP server of the libcamera version: the poll loop of the one modelled, with two
  lists of connections, of which one is pushed to under the mutex of the other
  (`main.cpp` 762-764), and a slot that is kept when a failed `write()` closes its
  descriptor (773-776). What would send to its streams is behind `if (0 && ...)` or in a
  comment, so that no property of what a viewer gets applies.
* `05.thumbnails.py`: `scripts.sh` does not run it any more.
* `api.py` and `db_mysql.py`: queries. The upload of an image is `Upload` of `Pipeline`.
  The table of live cameras loses entries while it is iterated over (`api.py` 71-75),
  which Python answers with an exception after the first: this is one thread and one
  loop, and needs no model.
* `cpu-metrics`: one thread that reads a file and sends a message.
* A failing or short `write()` of the recorder and `localtime()` going back an hour:
  the code has no handling to check.
* Requests that arrive in parts, and the bytes of a partial `send()`.
* `schema-sqlite.sql`, which the scripts cannot use.
* The vendored headers, examples and testing scaffolds, which are not part of the
  application.
