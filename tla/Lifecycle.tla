------------------------------ MODULE Lifecycle ------------------------------
(***************************************************************************)
(* The life of the MMAL program: how main.c and camera.c build the chain   *)
(* of components, feed three ports with buffers, run, and take all of it   *)
(* down again, on a failure or on a signal; and systemd, which starts it   *)
(* anew.                                                                   *)
(*                                                                         *)
(*   camera -> full_splitter -> h264                                       *)
(*                           -> resizer -> resized_splitter -> mjpeg       *)
(*                                                          -> yuv         *)
(*                                                                         *)
(* "yuv" is the splitter's second output, which main() itself enables.     *)
(* Frames and files are those of Recorder, Detection and HttpServer; here  *)
(* a callback only gives its buffer back and sends what its pool has.      *)
(***************************************************************************)
EXTENDS Integers, Sequences, Functions

CONSTANTS
    Buffers,    \* DESIRED_OUTPUT_BUFFERS: buffers in the pool of a port
    Burst,      \* StartLimitBurst of systemd: starts in an interval
    MaxFaults   \* bound: calls that fail, and signals

ASSUME LifecycleConstants ==
    Buffers \in Nat \ {0} /\ Burst \in Nat \ {0} /\ MaxFaults \in Nat

Chain    == <<"camera", "full_splitter", "h264", "resizer", "resized_splitter", "mjpeg", "yuv">>
Encoders == {"h264", "mjpeg"}
Ports    == Encoders \cup {"yuv"}

Things   == {"component", "connection", "port", "pool"}

(* What making a part takes, and which things of it are left when which step   *)
(* fails.  A step is named for what there is after it; "setup" commits formats *)
(* and enables the component, "flow" enables the connection.                   *)
create_camera   == [steps |-> <<"component", "setup">>, left |-> {}]
create_splitter == [steps |-> <<"component", "setup", "connection", "flow">>,
                    left  |-> {<<"flow", "component">>}]
create_resizer  == [steps |-> <<"component", "setup", "connection", "flow">>,
                    left  |-> {<<"flow", "component">>}]
create_h264_encoder ==
    [steps |-> <<"component", "check", "setup", "connection", "flow", "port", "pool">>,
     left  |-> ({"check", "connection", "flow", "pool"} \X {"component"})
                 \cup ({"flow", "pool"} \X {"connection"}) \cup {<<"pool", "port">>}]
create_mjpeg_encoder ==
    [steps |-> <<"component", "setup", "connection", "flow", "port", "pool">>,
     left  |-> ({"connection", "flow", "pool"} \X {"component"})
                 \cup ({"flow", "pool"} \X {"connection"}) \cup {<<"pool", "port">>}]
enable_yuv == [steps |-> <<"port", "pool">>, left |-> {<<"pool", "port">>}]

Creator(c) == CASE c = "camera"  -> create_camera
                [] c = "h264"    -> create_h264_encoder
                [] c = "resizer" -> create_resizer
                [] c = "mjpeg"   -> create_mjpeg_encoder
                [] c = "yuv"     -> enable_yuv
                [] OTHER         -> create_splitter
StepsOf(c) == Creator(c).steps

\* What the destroy function of a part takes away, its port with the component.
destroy_camera   == {"component"}
destroy_splitter == {"connection", "component"}
destroy_resizer  == {"connection", "component"}
destroy_h264_encoder  == {"connection", "pool", "port", "component"}
destroy_mjpeg_encoder == {"connection", "pool", "port", "component"}
Destroyer(c) == CASE c = "camera"  -> destroy_camera
                  [] c = "h264"    -> destroy_h264_encoder
                  [] c = "resizer" -> destroy_resizer
                  [] c = "mjpeg"   -> destroy_mjpeg_encoder
                  [] OTHER         -> destroy_splitter

VARIABLES
    main,               \* where main() is
    stage, step,        \* which part, and which step of it, it is at
    held,               \* what there is: pairs of a part and a thing
    capture,            \* MMAL_PARAMETER_CAPTURE
    queue, sent,        \* buffers in the pool's queue, and at the port
    callback,           \* of a port: "idle", "called", "sending"
    lost,               \* buffers taken from a queue and not sent
    running, mutex,     \* running, and who holds running_mutex
    handler,            \* the thread that signal_handler() interrupts
    http,               \* the HTTP thread
    status,             \* how the process ended
    starts,             \* systemd's count of starts
    faults              \* faults that may still come

buffers == <<queue, sent, callback, lost>>
chain   == <<stage, step, held>>
threads == <<running, mutex, handler, http>>
service == <<status, starts>>
vars    == <<main, chain, capture, buffers, threads, service, faults>>

-----------------------------------------------------------------------------
Part   == Chain[stage]
Step   == StepsOf(Part)[step]
Before == {Chain[i] : i \in 1 .. stage - 1}
Whole  == UNION {{c} \X (Range(StepsOf(c)) \cap Things) : c \in Range(Chain)}
Enabled(p) == <<p, "port">> \in held

None == [p \in Ports |-> 0]
Idle == [p \in Ports |-> "idle"]

Init ==
    /\ main = "create" /\ stage = 1 /\ step = 1 /\ held = {} /\ capture = FALSE
    /\ queue = None /\ sent = None /\ callback = Idle /\ lost = None
    /\ running = TRUE /\ mutex = "free" /\ handler = "none" /\ http = "none"
    /\ status = "none" /\ starts = 1 /\ faults = MaxFaults

Fault == faults > 0 /\ faults' = faults - 1
Awake(t) == handler # t

-----------------------------------------------------------------------------
(* main() builds the chain. *)

StepSucceeds ==
    /\ main = "create" /\ Awake("main")
    /\ held' = held \cup ({<<Part, Step>>} \cap ({Part} \X Things))
    /\ queue' = IF Step = "pool" THEN [queue EXCEPT ![Part] = Buffers] ELSE queue
    /\ IF step < Len(StepsOf(Part)) THEN step' = step + 1 /\ UNCHANGED <<stage, main>>
       ELSE /\ step' = 1
            /\ IF stage < Len(Chain) THEN stage' = stage + 1 /\ UNCHANGED main
               ELSE stage' = 1 /\ main' = "feed"
    /\ UNCHANGED <<capture, sent, callback, lost, threads, service, faults>>

\* main() destroys the parts before the one that failed.
Unwound == UNION {{c} \X Destroyer(c) : c \in Before}
OfPart  == {r \in held : r[1] = Part}
OwnLeft == {Part} \X {thing \in Things : <<Step, thing>> \in Creator(Part).left}

\* A connection that cannot be enabled would go unnoticed.
StepFailsUnnoticed ==
    /\ main = "create" /\ Awake("main") /\ Fault /\ Step = "flow" /\ stage < Len(Chain)
    /\ held' = (held \ OfPart) \cup OwnLeft /\ stage' = stage + 1 /\ step' = 1
    /\ UNCHANGED <<main, capture, buffers, threads, service>>
StepFails ==
    /\ main = "create" /\ Awake("main") /\ Fault
    /\ held' = IF Part = "yuv" /\ Step = "pool" THEN held    \* return MMAL_ENOMEM
               ELSE (held \ (Unwound \cup OfPart)) \cup OwnLeft
    /\ main' = "exited" /\ status' = "error"
    /\ UNCHANGED <<stage, step, capture, buffers, threads, starts>>

\* destroy_*_encoder() is given a pool nobody initialised: the process may die.
WildPool ==
    /\ main = "create" /\ Awake("main") /\ Fault
    /\ Part \in Encoders /\ Step = "port"
    /\ main' = "exited" /\ status' = "error"
    /\ UNCHANGED <<chain, capture, buffers, threads, starts>>

-----------------------------------------------------------------------------
(* Buffers.  send_buffers_to_port() takes buffers from the queue until it is
   empty or a send fails. *)

FeedOrderWithoutYuv == <<"h264", "mjpeg">>
FeedOrder == <<"h264", "mjpeg", "yuv">>

TakeAndSend(p) == /\ queue' = [queue EXCEPT ![p] = @ - 1]
                  /\ sent' = [sent EXCEPT ![p] = @ + 1] /\ UNCHANGED lost
TakeAndLose(p) == /\ queue' = [queue EXCEPT ![p] = @ - 1]
                  /\ lost' = [lost EXCEPT ![p] = @ + 1] /\ UNCHANGED sent

FeedNext == IF stage < Len(FeedOrder) THEN stage' = stage + 1 /\ UNCHANGED main
            ELSE stage' = 1 /\ main' = "capture"

Feed ==
    /\ main = "feed" /\ Awake("main")
    /\ LET p == FeedOrder[stage] IN
          IF queue[p] > 0 THEN TakeAndSend(p) /\ UNCHANGED <<main, stage>>
          ELSE FeedNext /\ UNCHANGED <<queue, sent, lost>>
    /\ UNCHANGED <<step, held, capture, callback, threads, service, faults>>

FeedFails ==
    /\ main = "feed" /\ Awake("main") /\ queue[FeedOrder[stage]] > 0 /\ Fault
    /\ TakeAndLose(FeedOrder[stage]) /\ FeedNext
    /\ UNCHANGED <<step, held, capture, callback, threads, service>>

\* A port with a buffer calls back with a frame, or, disabled, to return it.
Deliver(p) ==
    /\ main # "exited" /\ callback[p] = "idle" /\ sent[p] > 0
    /\ Enabled(p) => capture
    /\ sent' = [sent EXCEPT ![p] = @ - 1]
    /\ callback' = [callback EXCEPT ![p] = "called"]
    /\ UNCHANGED <<main, chain, capture, queue, lost, threads, service, faults>>

\* mmal_buffer_header_release(), and the look at port->is_enabled.
LooksAtPort(p) == IF Enabled(p) THEN "sending" ELSE "idle"
Release(p) ==
    /\ main # "exited" /\ callback[p] = "called"
    /\ queue' = [queue EXCEPT ![p] = @ + 1]
    /\ callback' = [callback EXCEPT ![p] = LooksAtPort(p)]
    /\ UNCHANGED <<main, chain, capture, sent, lost, threads, service, faults>>

SendBack(p) ==
    /\ main # "exited" /\ callback[p] = "sending"
    /\ IF queue[p] = 0
       THEN callback' = [callback EXCEPT ![p] = "idle"] /\ UNCHANGED <<queue, sent, lost>>
       ELSE IF Enabled(p) THEN TakeAndSend(p) /\ UNCHANGED callback
       ELSE TakeAndLose(p) /\ callback' = [callback EXCEPT ![p] = "idle"]
    /\ UNCHANGED <<main, chain, capture, threads, service, faults>>

SendBackFails(p) ==
    /\ main # "exited" /\ callback[p] = "sending" /\ queue[p] > 0 /\ Fault
    /\ TakeAndLose(p) /\ callback' = [callback EXCEPT ![p] = "idle"]
    /\ UNCHANGED <<main, chain, capture, threads, service>>

Callback(p) == Deliver(p) \/ Release(p) \/ SendBack(p)

-----------------------------------------------------------------------------
(* The camera runs. *)

\* Turning the camera on or off, whose failure is only logged.
Turn(on, from, to) ==
    /\ main = from /\ Awake("main") /\ capture' = on /\ main' = to /\ UNCHANGED faults
TurnFails(from, to) ==
    /\ main = from /\ Awake("main") /\ Fault /\ main' = to /\ UNCHANGED capture
TurnRest == UNCHANGED <<chain, buffers, threads, service>>

CaptureOn == (Turn(TRUE, "capture", "spawn") \/ TurnFails("capture", "spawn")) /\ TurnRest

Spawn ==
    /\ main = "spawn" /\ Awake("main") /\ http' = "poll" /\ main' = "resolve"
    /\ UNCHANGED <<chain, capture, buffers, running, mutex, handler, service, faults>>

\* heartbeat() resolves its two servers, if they are given, and returns if one
\* cannot be or has no socket.
HeartbeatStarts ==
    /\ main = "resolve" /\ Awake("main")
    /\ \/ main' = "lock" /\ UNCHANGED faults
       \/ main' = "cancel" /\ Fault
    /\ UNCHANGED <<chain, capture, buffers, threads, service>>

HeartbeatLocks ==
    /\ main = "lock" /\ Awake("main") /\ mutex = "free"
    /\ mutex' = "main" /\ main' = "locked"
    /\ UNCHANGED <<chain, capture, buffers, running, handler, http, service, faults>>

HeartbeatReads ==
    /\ main = "locked" /\ Awake("main")
    /\ mutex' = "free" /\ main' = IF running THEN "beat" ELSE "cancel"
    /\ UNCHANGED <<chain, capture, buffers, running, handler, http, service, faults>>

Beat == /\ main = "beat" /\ Awake("main") /\ main' = "lock"
        /\ UNCHANGED <<chain, capture, buffers, threads, service, faults>>

\* The settings were changed: the camera stops for a second.
Reopen == \/ Turn(FALSE, "beat", "reopen") /\ TurnRest
          \/ TurnFails("beat", "reopen") /\ TurnRest
Reopened == (Turn(TRUE, "reopen", "lock") \/ TurnFails("reopen", "lock")) /\ TurnRest

-----------------------------------------------------------------------------
(* The HTTP thread, as far as running_mutex goes, and the signal. *)

HttpLocks ==
    /\ main \notin {"join", "exited"} /\ http = "poll" /\ Awake("http") /\ mutex = "free"
    /\ mutex' = "http" /\ http' = "locked"
    /\ UNCHANGED <<main, chain, capture, buffers, running, handler, service, faults>>

UnlockedWhileRunning == IF running THEN "free" ELSE "http"
UnlockedAfterRead == "free"
HttpReads ==
    /\ main # "exited" /\ http = "locked" /\ Awake("http")
    /\ mutex' = UnlockedAfterRead /\ http' = IF running THEN "poll" ELSE "ended"
    /\ UNCHANGED <<main, chain, capture, buffers, running, handler, service, faults>>

\* SIGINT interrupts any thread, those of MMAL included.
Signal(t) ==
    /\ main # "exited" /\ handler = "none" /\ Fault
    /\ t = "http" => http \in {"poll", "locked"}
    /\ handler' = t
    /\ UNCHANGED <<main, chain, capture, buffers, running, mutex, http, service>>

\* The handler waits for running_mutex, also when the thread it interrupts has it.
HandlerMayLock == mutex = "free"
Handle ==
    /\ main # "exited" /\ handler # "none" /\ HandlerMayLock
    /\ running' = FALSE /\ handler' = "none"
    /\ UNCHANGED <<main, chain, capture, buffers, mutex, http, service, faults>>

-----------------------------------------------------------------------------
(* The end. *)

\* pthread_cancel() ends the HTTP thread where it next polls, not in a lock.
Cancel == /\ main = "cancel" /\ Awake("main") /\ main' = "join"
          /\ UNCHANGED <<chain, capture, buffers, threads, service, faults>>

Join ==
    /\ main = "join" /\ Awake("main") /\ Awake("http") /\ http \in {"poll", "ended"}
    /\ http' = "ended" /\ main' = "off"
    /\ UNCHANGED <<chain, capture, buffers, running, mutex, handler, service, faults>>

CaptureOff == (Turn(FALSE, "off", "disable") \/ TurnFails("off", "disable")) /\ TurnRest

DisableOrderWithoutH264 == <<"yuv", "mjpeg">>
DisableOrder == <<"yuv", "h264", "mjpeg">>
DestroyOrder == <<"resized_splitter", "resizer", "h264", "full_splitter", "camera">>

\* mmal_port_disable() returns the buffers, and waits for the callbacks.
DisablePort ==
    /\ main = "disable" /\ Awake("main")
    /\ held' = held \ {<<DisableOrder[stage], "port">>} /\ main' = "flush"
    /\ UNCHANGED <<stage, step, capture, buffers, threads, service, faults>>

PortDisabled ==
    /\ main = "flush" /\ Awake("main")
    /\ LET p == DisableOrder[stage] IN sent[p] = 0 /\ callback[p] = "idle"
    /\ IF stage < Len(DisableOrder) THEN stage' = stage + 1 /\ main' = "disable"
       ELSE stage' = 1 /\ main' = "destroy"
    /\ UNCHANGED <<step, held, capture, buffers, threads, service, faults>>

Destroy ==
    /\ main = "destroy" /\ Awake("main")
    /\ held' = held \ ({DestroyOrder[stage]} \X Destroyer(DestroyOrder[stage]))
    /\ IF stage < Len(DestroyOrder) THEN stage' = stage + 1 /\ UNCHANGED <<main, status>>
       ELSE stage' = 1 /\ main' = "exited" /\ status' = "ok"
    /\ UNCHANGED <<step, capture, buffers, threads, starts, faults>>

\* Restart=always, unless the starts of an interval are used up.
StartedAgainOnFailure == main = "exited" /\ starts < Burst /\ status = "error"
StartedAgain == main = "exited" /\ starts < Burst
Restart ==
    /\ StartedAgain /\ starts' = starts + 1 /\ status' = "none"
    /\ main' = "create" /\ stage' = 1 /\ step' = 1 /\ held' = {} /\ capture' = FALSE
    /\ queue' = None /\ sent' = None /\ callback' = Idle /\ lost' = None
    /\ running' = TRUE /\ mutex' = "free" /\ handler' = "none" /\ http' = "none"
    /\ UNCHANGED faults
StaysUp == /\ main = "beat" /\ starts > 1 /\ starts' = 1
           /\ UNCHANGED <<main, chain, capture, buffers, threads, status, faults>>

Start    == StepSucceeds \/ Feed \/ CaptureOn \/ Spawn \/ HeartbeatStarts
Run      == HeartbeatLocks \/ HeartbeatReads \/ Beat \/ Reopen \/ Reopened
Stop     == Cancel \/ Join \/ CaptureOff \/ DisablePort \/ PortDisabled \/ Destroy
Failures == StepFails \/ WildPool \/ FeedFails \/ \E p \in Ports : SendBackFails(p)

Next == \/ Start \/ Run \/ Stop \/ Failures
        \/ \E p \in Ports : Callback(p)
        \/ HttpLocks \/ HttpReads \/ Handle
        \/ \E t \in {"main", "http", "worker"} : Signal(t)
        \/ Restart \/ StaysUp

\* Threads go on, and the service manager starts what ended.  The mutex is
\* free for most of a pass of either thread, so that who waits for it gets it.
Fairness ==
    /\ WF_vars(Start \/ Run \/ Stop)
    /\ SF_vars(HeartbeatLocks) /\ SF_vars(Handle)
    /\ WF_vars(HttpReads) /\ WF_vars(Restart)
    /\ \A p \in Ports : WF_vars(Callback(p))

Spec == Init /\ [][Next]_vars /\ Fairness

-----------------------------------------------------------------------------
(* Properties *)

TypeOK ==
    /\ main \in {"create", "feed", "capture", "spawn", "resolve", "lock", "locked", "beat", "reopen",
                 "cancel", "join", "off", "disable", "flush", "destroy", "exited"}
    /\ stage \in 1 .. Len(Chain) /\ step \in 1 .. 7 /\ held \subseteq Whole
    /\ capture \in BOOLEAN /\ running \in BOOLEAN
    /\ {queue, sent, lost} \subseteq [Ports -> 0 .. Buffers]
    /\ callback \in [Ports -> {"idle", "called", "sending"}]
    /\ mutex \in {"free", "main", "http"} /\ handler \in {"none", "main", "http", "worker"}
    /\ http \in {"none", "poll", "locked", "ended"} /\ status \in {"none", "ok", "error"}
    /\ starts \in 1 .. Burst /\ faults \in 0 .. MaxFaults

\* While the program runs, pictures are only taken with the whole chain in
\* place: every failure of a step ends the start (main.c 686-768).
PicturesFlowThroughWholeChain ==
    main \in {"spawn", "resolve", "lock", "locked", "beat", "reopen", "cancel", "join", "off"} => held = Whole

\* A pool and a component live as long as a buffer is at their port or in a
\* callback, even when the camera could not be turned off (main.c 815-835).
Needs(p) == {<<p, "pool">>, <<IF p = "yuv" THEN "resized_splitter" ELSE p, "component">>}
PoolsOutliveBuffers ==
    \A p \in Ports : sent[p] > 0 \/ callback[p] # "idle" => Needs(p) \subseteq held

\* Each buffer of a pool is in one place, and a port of the running program has
\* one, or its callback does, unless a send has failed (camera.c 11-24).
InCallback(p) == IF callback[p] = "called" THEN 1 ELSE 0
StarvedOnlyByFailedSend ==
    \A p \in Ports :
        /\ <<p, "pool">> \in held => queue[p] + sent[p] + lost[p] + InCallback(p) = Buffers
        /\ http # "none" /\ Enabled(p) /\ sent[p] = 0 /\ callback[p] = "idle" => lost[p] > 0

\* A signal ends the program, unless it interrupts a thread while that thread
\* has running_mutex, which the handler then waits for (main.c 427-434).
Wedged == handler # "none" /\ mutex = handler
SignalEndsProgram == handler # "none" ~> main = "exited" \/ Wedged

\* Whatever failed, the heartbeat beats again, unless a signal has wedged the
\* program or systemd has given up after Burst starts (pimera.service).
GaveUp  == main = "exited" /\ starts = Burst
ComesUp == []<>(main = "beat" \/ Wedged \/ GaveUp)
=============================================================================
