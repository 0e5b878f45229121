----------------------------- MODULE RequestLoop -----------------------------
(***************************************************************************)
(* The requests of libcamera-version/src/main.cpp.  A request goes from    *)
(* the camera through requestComplete() to the processing thread, which    *)
(* looks for motion and either hands it back to the camera or to the       *)
(* encoder; the encoder gives it to a queue for reuse, and the processing  *)
(* thread, when it comes by, back to the camera.  main() ends all this     *)
(* after SIGINT, with the HTTP thread, of which only its mutexes are here. *)
(*                                                                         *)
(* frame_counter, detection_at and cooldown_at are kept as the frames that *)
(* are left until a check, and until a recording may end.                  *)
(***************************************************************************)
EXTENDS Integers, Sequences, FiniteSets

CONSTANTS
    N,              \* bufferCount: requests
    DetectionSleep, \* detection_sleep: fps / 3
    CooldownSleep,  \* cooldown_sleep: fps * 2
    MaxCancelled,   \* bound: requests the camera cancels on its own
    MaxSignals      \* bound: signals

ASSUME RequestLoopConstants ==
    {N, DetectionSleep, CooldownSleep} \subseteq Nat \ {0}
    /\ {MaxCancelled, MaxSignals} \subseteq Nat

Requests == 1 .. N

VARIABLES
    camera,             \* requests queued to the camera, which fills them in order
    completing, at,     \* the request in requestComplete(), and where that is
    cancelled, faults,  \* requests with status RequestCancelled; those still to come
    processing_queue, reuse_queue,
    encoder,            \* what encoder_enqueue() was given: request, first, last
    film,               \* what the encoder made of it: "closed", "open", "broken"
    thread, request,    \* the processing thread, and its request
    kept,               \* the request of the first frame
    recording, checkIn, cooldown,
    away,               \* history: requests not with the camera at the last drain
    cameraMetric, queueMetric,
    main, queued,       \* main(), and how many requests it has queued
    running, cancel,    \* running; pthread_cancel() was called for both threads
    poisoned,           \* the processing thread has ended with processing_mutex locked
    mutex,              \* who holds running_mutex
    http,               \* the HTTP thread
    handler, signals    \* the thread that signalHandler() interrupts; signals to come

complete == <<completing, at, cancelled, faults>>
queues   == <<camera, processing_queue, reuse_queue>>
coder    == <<encoder, film>>
decision == <<recording, checkIn, cooldown>>
metrics  == <<cameraMetric, queueMetric>>
ending   == <<main, queued, running, cancel, poisoned>>
signaled == <<mutex, http, handler, signals>>
vars     == <<complete, queues, coder, thread, request, kept, away, decision, metrics, ending,
              signaled>>

Nobody == 0

Init ==
    /\ camera = <<>> /\ processing_queue = <<>> /\ reuse_queue = <<>>
    /\ completing = Nobody /\ at = "stamp" /\ cancelled = {} /\ faults = MaxCancelled
    /\ encoder = <<>> /\ film = "closed"
    /\ thread = "none" /\ request = Nobody /\ kept = Nobody /\ away = {}
    /\ recording = FALSE /\ checkIn = DetectionSleep - 1 /\ cooldown = 0
    /\ cameraMetric = 0 /\ queueMetric = 0
    /\ main = "queue" /\ queued = 0 /\ running = TRUE /\ cancel = FALSE /\ poisoned = FALSE
    /\ mutex = "free" /\ http = "none" /\ handler = "none" /\ signals = MaxSignals

Awake(t) == handler # t

-----------------------------------------------------------------------------
(* The camera, and requestComplete() on its thread. *)

Complete ==
    /\ completing = Nobody /\ camera # <<>>
    /\ completing' = Head(camera) /\ at' = "stamp" /\ camera' = Tail(camera)
    /\ \/ main # "stop" /\ UNCHANGED <<cancelled, faults>>
       \/ main # "stop" /\ faults > 0 /\ faults' = faults - 1
          /\ cancelled' = cancelled \cup {Head(camera)}
       \/ main = "stop" /\ cancelled' = cancelled \cup {Head(camera)} /\ UNCHANGED faults
    /\ UNCHANGED <<processing_queue, reuse_queue, coder, thread, request, kept, away, decision,
                   metrics, ending, signaled>>

Stamp ==
    /\ completing # Nobody /\ at = "stamp" /\ at' = "push"
    /\ cameraMetric' = cameraMetric - 1
    /\ UNCHANGED <<completing, cancelled, faults, queues, coder, thread, request, kept, away,
                   decision, queueMetric, ending, signaled>>

\* pthread_cond_signal() wakes the processing thread.
NotWoken == thread
Woken == IF thread = "asleep" THEN "lock" ELSE thread
Push ==
    /\ completing # Nobody /\ at = "push" /\ ~poisoned
    /\ processing_queue' = Append(processing_queue, completing) /\ at' = "count"
    /\ thread' = Woken
    /\ UNCHANGED <<camera, completing, cancelled, faults, reuse_queue, coder, request, kept, away,
                   decision, metrics, ending, signaled>>

Count ==
    /\ completing # Nobody /\ at = "count"
    /\ queueMetric' = queueMetric + 1 /\ completing' = Nobody /\ at' = "stamp"
    /\ UNCHANGED <<cancelled, faults, queues, coder, thread, request, kept, away, decision,
                   cameraMetric, ending, signaled>>

-----------------------------------------------------------------------------
(* The encoder, which is not in the repository: it encodes what it is given in *)
(* order, and calls reuse_request() when it is done with a request.            *)

AfterFrame(f, e) ==
    CASE e.first -> IF f = "closed" THEN "open" ELSE "broken"
      [] e.last  -> IF f = "open" THEN "closed" ELSE "broken"
      [] OTHER   -> IF f = "open" THEN "open" ELSE "broken"

reuse_request ==
    /\ encoder # <<>> /\ main \notin {"stop", "done"}
    /\ encoder' = Tail(encoder) /\ film' = AfterFrame(film, Head(encoder))
    /\ reuse_queue' = Append(reuse_queue, Head(encoder).request)
    /\ UNCHANGED <<complete, camera, processing_queue, thread, request, kept, away, decision,
                   metrics, ending, signaled>>

-----------------------------------------------------------------------------
(* processingThread() *)

\* while (running)
AlwaysOn == "drain"
NextPass == IF running THEN "drain" ELSE "ended"
Top ==
    /\ Awake("processing") /\ thread = "top" /\ thread' = NextPass
    /\ UNCHANGED <<complete, queues, coder, request, kept, away, decision, metrics, ending,
                   signaled>>

\* Each pass gives the camera what is to be reused.
AtEncoder == {encoder[i].request : i \in DOMAIN encoder}
KeptInQueue == reuse_queue
Drained == Tail(reuse_queue)
Drain ==
    /\ Awake("processing") /\ thread = "drain"
    /\ IF reuse_queue = <<>>
       THEN thread' = "lock" /\ away' = AtEncoder /\ UNCHANGED <<camera, reuse_queue>>
       ELSE /\ camera' = Append(camera, Head(reuse_queue)) /\ reuse_queue' = Drained
            /\ thread' = "requeued" /\ UNCHANGED away
    /\ UNCHANGED <<complete, processing_queue, coder, request, kept, decision, metrics, ending,
                   signaled>>

CountedIfReturned == IF thread = "returned" THEN cameraMetric + 1 ELSE cameraMetric
Counted == cameraMetric + 1
Requeued ==
    /\ Awake("processing") /\ thread \in {"requeued", "returned"}
    /\ cameraMetric' = Counted
    /\ thread' = IF thread = "requeued" THEN "drain" ELSE "top"
    /\ UNCHANGED <<complete, queues, coder, request, kept, away, decision, queueMetric, ending,
                   signaled>>

\* The first frame is only compared with; its request stays with the thread.
Take ==
    /\ Awake("processing") /\ thread = "lock" /\ ~poisoned
    /\ IF processing_queue = <<>>
       THEN thread' = "asleep" /\ UNCHANGED <<processing_queue, request, kept>>
       ELSE /\ processing_queue' = Tail(processing_queue)
            /\ IF kept = Nobody
               THEN kept' = Head(processing_queue) /\ thread' = "top" /\ UNCHANGED request
               ELSE request' = Head(processing_queue) /\ thread' = "taken" /\ UNCHANGED kept
    /\ UNCHANGED <<complete, camera, reuse_queue, coder, away, decision, metrics, ending,
                   signaled>>

Taken ==
    /\ Awake("processing") /\ thread = "taken" /\ queueMetric' = queueMetric - 1
    /\ thread' = IF request \in cancelled THEN "ended" ELSE "decide"
    /\ UNCHANGED <<complete, queues, coder, request, kept, away, decision, cameraMetric, ending,
                   signaled>>

encoder_enqueue(first, last) ==
    /\ encoder' = Append(encoder, [request |-> request, first |-> first, last |-> last])
    /\ thread' = "top" /\ request' = Nobody /\ UNCHANGED <<camera, film>>
Return ==
    /\ camera' = Append(camera, request) /\ thread' = "returned" /\ request' = Nobody
    /\ UNCHANGED coder

CooldownStuck == cooldown
CooldownLeft == IF cooldown > 0 THEN cooldown - 1 ELSE 0
CheckDue == checkIn = 0

Motion ==
    /\ Awake("processing") /\ thread = "decide" /\ CheckDue
    /\ encoder_enqueue(~recording, FALSE)
    /\ recording' = TRUE /\ cooldown' = CooldownSleep + 1 /\ checkIn' = DetectionSleep - 1
    /\ UNCHANGED <<complete, processing_queue, reuse_queue, kept, away, metrics, ending,
                   signaled>>

StillRecording == recording
AfterLast == FALSE
\* A frame without motion goes to the encoder only as the last of a recording.
NoMotion ==
    /\ Awake("processing") /\ thread = "decide" /\ CheckDue
    /\ checkIn' = DetectionSleep - 1
    /\ IF recording /\ CooldownLeft = 0
       THEN recording' = AfterLast /\ cooldown' = 0 /\ encoder_enqueue(FALSE, TRUE)
       ELSE UNCHANGED recording /\ cooldown' = CooldownLeft /\ Return
    /\ UNCHANGED <<complete, processing_queue, reuse_queue, kept, away, metrics, ending,
                   signaled>>

NoCheck ==
    /\ Awake("processing") /\ thread = "decide" /\ ~CheckDue
    /\ checkIn' = checkIn - 1 /\ cooldown' = CooldownLeft
    /\ IF recording THEN encoder_enqueue(FALSE, FALSE) ELSE Return
    /\ UNCHANGED <<complete, processing_queue, reuse_queue, kept, away, recording, metrics, ending,
                   signaled>>

\* pthread_cancel() ends the thread in a printf(), or in a wait for the condition,
\* which takes the mutex first and nobody gives back; nor the one that is held
\* for the printf() about the first frame.
PrintsWithMutex == thread = "lock" /\ ~poisoned /\ kept = Nobody /\ processing_queue # <<>>
Cancelled ==
    /\ thread \in {"asleep", "decide"} \/ PrintsWithMutex
    /\ Awake("processing") /\ cancel
    /\ thread' = "ended" /\ poisoned' = (thread # "decide")
    /\ UNCHANGED <<complete, queues, coder, request, kept, away, decision, metrics, main, queued,
                   running, cancel, signaled>>

\* One printf() comes between reuse_queue and the camera: that request goes nowhere.
CancelledInDrain ==
    /\ Awake("processing") /\ cancel /\ thread = "drain" /\ reuse_queue # <<>>
    /\ request' = Head(reuse_queue) /\ reuse_queue' = Drained /\ thread' = "ended"
    /\ UNCHANGED <<complete, camera, processing_queue, coder, kept, away, decision, metrics, ending,
                   signaled>>

-----------------------------------------------------------------------------
(* main() *)

QueueRequest ==
    /\ Awake("main") /\ main = "queue" /\ queued < N
    /\ queued' = queued + 1 /\ camera' = Append(camera, queued + 1) /\ main' = "count"
    /\ UNCHANGED <<complete, processing_queue, reuse_queue, coder, thread, request, kept, away,
                   decision, metrics, running, cancel, poisoned, signaled>>

CountQueued ==
    /\ Awake("main") /\ main = "count" /\ cameraMetric' = cameraMetric + 1 /\ main' = "queue"
    /\ UNCHANGED <<complete, queues, coder, thread, request, kept, away, decision, queueMetric,
                   queued, running, cancel, poisoned, signaled>>

MainRest == UNCHANGED <<complete, queues, coder, request, kept, away, decision, metrics, queued>>

\* The HTTP thread exits at once when it has no port to listen at.
StartThreads ==
    /\ Awake("main") /\ main = "queue" /\ queued = N
    /\ main' = "run" /\ thread' = "lock" /\ http' \in {"poll", "exit"}
    /\ MainRest /\ UNCHANGED <<running, cancel, poisoned, mutex, handler, signals>>

\* Each second main() looks at running; it clears it once more in the end.
MainLocks ==
    /\ Awake("main") /\ main \in {"run", "leave"} /\ mutex = "free"
    /\ mutex' = "main" /\ main' = IF main = "run" THEN "look" ELSE "clear"
    /\ MainRest /\ UNCHANGED <<thread, running, cancel, poisoned, http, handler, signals>>

MainReads ==
    /\ Awake("main") /\ main = "look" /\ mutex' = "free"
    /\ main' = IF running THEN "run" ELSE "leave"
    /\ MainRest /\ UNCHANGED <<thread, running, cancel, poisoned, http, handler, signals>>

MainClears ==
    /\ Awake("main") /\ main = "clear" /\ running' = FALSE /\ mutex' = "free" /\ main' = "cancel"
    /\ MainRest /\ UNCHANGED <<thread, cancel, poisoned, http, handler, signals>>

CancelThreads ==
    /\ Awake("main") /\ main = "cancel" /\ main' = "signal" /\ cancel' = TRUE
    /\ MainRest /\ UNCHANGED <<thread, running, poisoned, signaled>>

\* Woken, the thread finds the queue empty and waits again.
SignalCondition ==
    /\ Awake("main") /\ main = "signal" /\ ~poisoned
    /\ main' = "join" /\ thread' = Woken
    /\ MainRest /\ UNCHANGED <<running, cancel, poisoned, signaled>>

\* First the processing thread, then the HTTP thread.
Join ==
    /\ Awake("main")
    /\ \/ main = "join" /\ thread = "ended" /\ main' = "join http"
       \/ main = "join http" /\ http = "ended" /\ main' = "stop"
    /\ MainRest /\ UNCHANGED <<thread, running, cancel, poisoned, signaled>>

\* camera->stop() returns when the requests it had are completed, as cancelled.
Stop ==
    /\ Awake("main") /\ main = "stop" /\ camera = <<>> /\ completing = Nobody /\ main' = "done"
    /\ MainRest /\ UNCHANGED <<thread, running, cancel, poisoned, signaled>>

-----------------------------------------------------------------------------
(* The HTTP thread, as far as running_mutex goes, and the signal. *)

HttpRest == /\ MainRest
            /\ UNCHANGED <<main, thread, running, cancel, poisoned, handler, signals>>

\* It looks at running before it polls, and after a page.
HttpLocks == /\ Awake("http") /\ http = "poll" /\ mutex = "free"
             /\ mutex' = "http" /\ http' = "look" /\ HttpRest
HttpReads == /\ Awake("http") /\ http = "look" /\ mutex' = "free"
             /\ http' = IF running THEN "poll" ELSE "ended"
             /\ HttpRest

\* pthread_exit(), and pthread_cancel() when it polls or reads, run the cleanup,
\* which gives the mutex back, whoever has it.
HttpEnds  == /\ Awake("http") /\ (http = "exit" \/ (http = "poll" /\ cancel))
             /\ http' = "ended" /\ mutex' = "free" /\ HttpRest

Threads == {"main", "http", "processing"}
Runs(t) == CASE t = "main" -> main # "done"
             [] t = "http" -> http \notin {"none", "ended"}
             [] OTHER      -> thread \notin {"none", "ended"}
\* SIGINT interrupts a thread.
Signal(t) ==
    /\ signals > 0 /\ handler = "none" /\ main # "done" /\ Runs(t)
    /\ signals' = signals - 1 /\ handler' = t
    /\ MainRest /\ UNCHANGED <<main, thread, running, cancel, poisoned, mutex, http>>

\* The handler waits for running_mutex, also when the thread it interrupts has it.
Handle ==
    /\ handler # "none" /\ mutex = "free" /\ running' = FALSE /\ handler' = "none"
    /\ MainRest /\ UNCHANGED <<main, thread, cancel, poisoned, mutex, http, signals>>

Camera     == Complete \/ Stamp \/ Push \/ Count
Processing == Top \/ Drain \/ Requeued \/ Take \/ Taken \/ Motion \/ NoMotion \/ NoCheck
              \/ Cancelled \/ CancelledInDrain
Main       == QueueRequest \/ CountQueued \/ StartThreads \/ MainReads \/ MainClears
              \/ CancelThreads \/ SignalCondition \/ Join \/ Stop
Http       == HttpReads \/ HttpEnds

Next == \/ Camera \/ reuse_request \/ Processing \/ Main \/ MainLocks
        \/ Http \/ HttpLocks \/ Handle \/ \E t \in Threads : Signal(t)

\* Threads go on, the camera fills its requests, the encoder encodes; a mutex that
\* is free again and again is given to main() and to the handler that wait for it.
Spec == /\ Init /\ [][Next]_vars
        /\ WF_vars(Camera) /\ WF_vars(reuse_request) /\ WF_vars(Processing)
        /\ WF_vars(Main) /\ WF_vars(Http) /\ SF_vars(MainLocks) /\ SF_vars(Handle)

-----------------------------------------------------------------------------
(* Properties *)

TypeOK ==
    /\ {completing, request, kept} \subseteq Requests \cup {Nobody}
    /\ at \in {"stamp", "push", "count"} /\ {cancelled, away} \subseteq SUBSET Requests
    /\ faults \in 0 .. MaxCancelled
    /\ {camera, processing_queue, reuse_queue} \subseteq Seq(Requests)
    /\ encoder \in Seq([request : Requests, first : BOOLEAN, last : BOOLEAN])
    /\ film \in {"closed", "open", "broken"}
    /\ thread \in {"none", "lock", "asleep", "top", "drain", "requeued", "taken", "decide",
                   "returned", "ended"}
    /\ recording \in BOOLEAN /\ checkIn \in 0 .. DetectionSleep - 1
    /\ cooldown \in 0 .. CooldownSleep + 1
    /\ {cameraMetric, queueMetric} \subseteq Int
    /\ main \in {"queue", "count", "run", "look", "leave", "clear", "cancel", "signal", "join",
                 "join http", "stop", "done"}
    /\ queued \in 0 .. N /\ {running, cancel, poisoned} \subseteq BOOLEAN
    /\ mutex \in {"free", "main", "http"} /\ http \in {"none", "poll", "look", "exit", "ended"}
    /\ handler \in Threads \cup {"none"} /\ signals \in 0 .. MaxSignals

\* A request is in one place at a time: its buffers are never filled by the
\* camera while they are read or encoded (main.cpp 217-624).
OneOf(r)  == IF r = Nobody THEN <<>> ELSE <<r>>
InRequestComplete == IF at = "count" THEN <<>> ELSE OneOf(completing)
Owned == camera \o InRequestComplete \o processing_queue \o OneOf(request) \o OneOf(kept)
         \o [i \in DOMAIN encoder |-> encoder[i].request] \o reuse_queue
OneOwner == /\ Len(Owned) = queued
            /\ Cardinality({Owned[i] : i \in DOMAIN Owned}) = queued

\* The two metrics that main() prints are the lengths of the queues, but for
\* the steps under way, and one too many for the first frame, which is taken
\* without being counted (main.cpp 187-195, 230-232, 248-250, 604-615,
\* 1027-1033).
One(b) == IF b THEN 1 ELSE 0
MetricsCount ==
    /\ cameraMetric = Len(camera) + One(completing # Nobody /\ at = "stamp")
                       - One(thread \in {"requeued", "returned"}) - One(main = "count")
    /\ queueMetric = Len(processing_queue) - One(at = "count") + One(thread = "taken")
                      + One(kept # Nobody)

\* What the encoder gets is recordings: each frame flagged first begins one,
\* each flagged last ends it, and none is outside (main.cpp 475-508).
RecordingsAreWhole == film # "broken"

\* The thread waits for a camera that has no request only when the encoder had
\* all but the first one at the last look at reuse_queue (main.cpp 241).
Starved == thread = "asleep" /\ camera = <<>> /\ completing = Nobody
StarvedOnlyByEncoder == Starved => away = Requests \ {kept}

\* When motion ends so does the recording, unless the thread starves or is
\* ended by a request that was cancelled (main.cpp 485-502).
RecordingEnds ==
    []<><<Motion>>_vars \/ []<>(~recording \/ Starved \/ thread = "ended")

\* A signal ends the program, with both threads joined, unless it interrupts the
\* thread that holds the mutex its handler waits for, or the processing thread is
\* cancelled where it waits, and leaves processing_mutex locked to main() and the
\* camera (main.cpp 80-87, 239-241, 1077-1098).
Wedged == handler # "none" /\ mutex = handler /\ http # "exit"
SignalEndsProgram == handler # "none" ~> main = "done" \/ poisoned \/ Wedged
=============================================================================
