------------------------ MODULE RequestLoop_proofs ------------------------
(***************************************************************************)
(* What TLAPS proves of the requests of the libcamera version, for any     *)
(* number of requests and any rate of detection.                           *)
(***************************************************************************)
EXTENDS RequestLoop, FiniteSetTheorems, SequenceTheorems, TLAPS

\* The thread has a request when it is about to say where that goes, and it is
\* there only when main() has queued them all.
ThreadInv ==
    /\ thread \in {"taken", "decide"} => request \in Requests
    /\ thread \notin {"taken", "decide", "ended"} => request = Nobody
    /\ main \in {"queue", "count"} => /\ thread = "none" /\ encoder = <<>> /\ reuse_queue = <<>>
                                      /\ away = {} /\ kept = Nobody
    /\ main \notin {"queue", "count"} => queued = N /\ thread # "none"
    /\ completing = Nobody => at = "stamp"

TypeInv == TypeOK /\ ThreadInv

\* The types of what moves requests, and of what ends the program.
FlowOK ==
    /\ {completing, request, kept} \subseteq Requests \cup {Nobody}
    /\ at \in {"stamp", "push", "count"} /\ {cancelled, away} \subseteq SUBSET Requests
    /\ faults \in 0 .. MaxCancelled
    /\ {camera, processing_queue, reuse_queue} \subseteq Seq(Requests)
    /\ encoder \in Seq([request : Requests, first : BOOLEAN, last : BOOLEAN])
    /\ film \in {"closed", "open", "broken"}
    /\ thread \in {"none", "lock", "asleep", "top", "drain", "requeued", "taken", "decide",
                   "returned", "ended"}
    /\ recording \in BOOLEAN /\ checkIn \in 0 .. DetectionSleep - 1
    /\ cooldown \in 0 .. CooldownSleep + 1
    /\ {cameraMetric, queueMetric} \subseteq Int
SignalOK ==
    /\ mutex \in {"free", "main", "http"} /\ http \in {"none", "poll", "look", "exit", "ended"}
    /\ handler \in Threads \cup {"none"} /\ signals \in 0 .. MaxSignals
EndOK ==
    /\ main \in {"queue", "count", "run", "look", "leave", "clear", "cancel", "signal", "join",
                 "join http", "stop", "done"}
    /\ queued \in 0 .. N /\ {running, cancel, poisoned} \subseteq BOOLEAN
    /\ SignalOK

LEMMA TypeParts ==
    /\ TypeOK <=> FlowOK /\ EndOK
    /\ TypeOK' <=> FlowOK' /\ EndOK'
BY DEF TypeOK, FlowOK, EndOK, SignalOK

LEMMA EndStays == EndOK /\ UNCHANGED <<ending, signaled>> => EndOK'
BY DEF EndOK, SignalOK, ending, signaled

LEMMA NobodyIsNone == Nobody \notin Requests
BY DEF Nobody, Requests

LEMMA InitTypes == Init => TypeInv
<1> SUFFICES ASSUME Init PROVE TypeInv
    OBVIOUS
<1>1. TypeOK
    <2>1. {running, cancel, poisoned} \subseteq BOOLEAN
        BY Zenon DEF Init
    <2>2. \A S : <<>> \in Seq(S)
        OBVIOUS
    <2>3. /\ faults \in 0 .. MaxCancelled /\ queued \in 0 .. N
          /\ checkIn \in 0 .. DetectionSleep - 1 /\ cooldown \in 0 .. CooldownSleep + 1
          /\ signals \in 0 .. MaxSignals
        BY RequestLoopConstants DEF Init
    <2>4. recording \in BOOLEAN
        BY DEF Init
    <2> QED BY <2>1, <2>2, <2>3, <2>4 DEF Init, TypeOK
<1>2. ThreadInv
    BY DEF Init, ThreadInv, Nobody
<1> QED BY <1>1, <1>2 DEF TypeInv

LEMMA CameraTypes == TypeInv /\ Camera => TypeInv'
<1> SUFFICES ASSUME TypeInv, Camera PROVE TypeInv'
    OBVIOUS
<1>1. FlowOK /\ EndOK /\ ThreadInv
    BY TypeParts DEF TypeInv
<1>2. UNCHANGED <<ending, signaled>>
    BY DEF Camera, Complete, Stamp, Push, Count
<1>3. UNCHANGED <<main, queued>>
    BY <1>2 DEF ending
<1>4. FlowOK' /\ ThreadInv'
    <2> USE <1>1, <1>3 DEF FlowOK, ThreadInv, queues, coder, decision, metrics
    <2>1. CASE Complete
        <3>1. Head(camera) \in Requests /\ Tail(camera) \in Seq(Requests) /\ Head(camera) # Nobody
            BY <2>1, NobodyIsNone DEF Complete
        <3>2. faults' \in 0 .. MaxCancelled
            <4>1. faults \in 0 .. MaxCancelled /\ MaxCancelled \in Nat
                BY RequestLoopConstants
            <4>2. UNCHANGED faults \/ (faults > 0 /\ faults' = faults - 1)
                BY <2>1 DEF Complete
            <4> HIDE DEF FlowOK
            <4> QED BY <4>1, <4>2
        <3>3. cancelled' \in SUBSET Requests
            BY <2>1, <3>1 DEF Complete
        <3> QED BY <2>1, <3>1, <3>2, <3>3 DEF Complete
    <2>2. CASE Stamp
        BY <2>2 DEF Stamp
    <2>3. CASE Push
        BY <2>3 DEF Push, Woken
    <2>4. CASE Count
        BY <2>4 DEF Count
    <2> QED BY <2>1, <2>2, <2>3, <2>4 DEF Camera
<1> QED BY <1>1, <1>2, <1>4, EndStays, TypeParts DEF TypeInv

LEMMA ReuseTypes == TypeInv /\ reuse_request => TypeInv'
<1> SUFFICES ASSUME TypeInv, reuse_request PROVE TypeInv'
    OBVIOUS
<1> DEFINE E == [request : Requests, first : BOOLEAN, last : BOOLEAN]
<1>0. Head(encoder) \in E /\ encoder' \in Seq(E)
    <2>1. encoder \in Seq(E) /\ encoder # <<>> /\ encoder' = Tail(encoder)
        BY DEF reuse_request, TypeInv, TypeOK
    <2> HIDE DEF E
    <2> QED BY <2>1
<1>1. Head(encoder).request \in Requests /\ encoder' \in Seq(E)
    BY <1>0
<1>2. film' \in {"closed", "open", "broken"}
    BY DEF reuse_request, AfterFrame
<1>3. reuse_queue' \in Seq(Requests)
    <2>1. reuse_queue \in Seq(Requests)
        BY TypeParts DEF TypeInv, FlowOK
    <2>2. reuse_queue' = Append(reuse_queue, Head(encoder).request)
        BY DEF reuse_request
    <2> QED BY <1>1, <2>1, <2>2
<1>4. FlowOK /\ EndOK /\ ThreadInv
    BY TypeParts DEF TypeInv
<1>5. UNCHANGED <<ending, signaled>> /\ UNCHANGED <<main, queued>>
    BY DEF reuse_request, ending
<1>6. FlowOK' /\ ThreadInv'
    BY <1>1, <1>2, <1>3, <1>4, <1>5 DEF reuse_request, FlowOK, ThreadInv, complete, decision, metrics
<1> QED BY <1>4, <1>5, <1>6, EndStays, TypeParts DEF TypeInv

\* Where the thread's request goes.
LEMMA EnqueueTypes ==
    ASSUME TypeOK, NEW first \in BOOLEAN, NEW last \in BOOLEAN, encoder_enqueue(first, last),
           request \in Requests
    PROVE  encoder' \in Seq([request : Requests, first : BOOLEAN, last : BOOLEAN])
<1> DEFINE E == [request : Requests, first : BOOLEAN, last : BOOLEAN]
           e == [request |-> request, first |-> first, last |-> last]
<1>1. e \in E
    OBVIOUS
<1>2. encoder \in Seq(E) /\ encoder' = Append(encoder, e)
    BY DEF encoder_enqueue, TypeOK
<1> HIDE DEF E, e
<1>3. encoder' \in Seq(E)
    BY <1>1, <1>2
<1> QED BY <1>3 DEF E

LEMMA DecideTypes == TypeInv /\ (Motion \/ NoMotion \/ NoCheck) => TypeInv'
<1> SUFFICES ASSUME TypeInv, Motion \/ NoMotion \/ NoCheck PROVE TypeInv'
    OBVIOUS
<1>1. /\ UNCHANGED <<complete, processing_queue, reuse_queue, kept, away, metrics, ending,
                     signaled>>
      /\ thread = "decide" /\ request \in Requests /\ request' = Nobody /\ main \notin {"queue", "count"}
      /\ thread' \in {"top", "returned"}
    BY DEF Motion, NoMotion, NoCheck, encoder_enqueue, Return, TypeInv, ThreadInv
<1>2. recording' \in BOOLEAN
    BY DEF Motion, NoMotion, NoCheck, AfterLast, TypeInv, TypeOK
<1>3. checkIn' \in 0 .. DetectionSleep - 1 /\ cooldown' \in 0 .. CooldownSleep + 1
    <2>1. /\ checkIn \in 0 .. DetectionSleep - 1 /\ cooldown \in 0 .. CooldownSleep + 1
          /\ DetectionSleep \in Nat \ {0} /\ CooldownSleep \in Nat
        BY RequestLoopConstants DEF TypeInv, TypeOK
    <2>2. checkIn' = DetectionSleep - 1 \/ (checkIn # 0 /\ checkIn' = checkIn - 1)
        BY DEF Motion, NoMotion, NoCheck, CheckDue
    <2>3. cooldown' \in {0, CooldownSleep + 1, CooldownLeft}
        BY DEF Motion, NoMotion, NoCheck
    <2>4. CooldownLeft \in 0 .. CooldownSleep + 1
        BY <2>1 DEF CooldownLeft
    <2> QED BY <2>1, <2>2, <2>3, <2>4
<1>4. encoder' \in Seq([request : Requests, first : BOOLEAN, last : BOOLEAN])
    <2>1. UNCHANGED encoder \/ \E first, last \in BOOLEAN : encoder_enqueue(first, last)
        <3>1. recording \in BOOLEAN
            BY DEF TypeInv, TypeOK
        <3>2. CASE Motion
            BY <3>1, <3>2 DEF Motion
        <3>3. CASE NoMotion \/ NoCheck
            BY <3>3 DEF NoMotion, NoCheck, Return, coder
        <3> QED BY <3>2, <3>3
    <2>2. CASE UNCHANGED encoder
        BY <2>2 DEF TypeInv, TypeOK
    <2> QED BY <1>1, <2>1, <2>2, EnqueueTypes DEF TypeInv
<1>5. camera' \in Seq(Requests)
    <2>1. camera \in Seq(Requests)
        BY DEF TypeInv, TypeOK
    <2>2. UNCHANGED camera \/ camera' = Append(camera, request)
        BY DEF Motion, NoMotion, NoCheck, Return, encoder_enqueue
    <2> QED BY <1>1, <2>1, <2>2
<1>6. UNCHANGED film
    BY DEF Motion, NoMotion, NoCheck, Return, encoder_enqueue, coder
<1>7. FlowOK /\ EndOK
    BY TypeParts DEF TypeInv
<1>8. FlowOK'
    BY <1>1, <1>2, <1>3, <1>4, <1>5, <1>6, <1>7 DEF FlowOK, complete, metrics
<1>9. ThreadInv'
    BY <1>1 DEF TypeInv, ThreadInv, complete, ending
<1> QED BY <1>1, <1>7, <1>8, <1>9, EndStays, TypeParts DEF TypeInv

LEMMA EncodedAreRequests == TypeOK => AtEncoder \subseteq Requests
<1> SUFFICES ASSUME TypeOK, NEW i \in DOMAIN encoder PROVE encoder[i].request \in Requests
    BY DEF AtEncoder
<1> DEFINE E == [request : Requests, first : BOOLEAN, last : BOOLEAN]
<1>1. encoder \in Seq(E)
    BY DEF TypeOK
<1>2. encoder[i] \in E
    <2> HIDE DEF E
    <2> QED BY <1>1
<1> QED BY <1>2

LEMMA ProcessingTypes == TypeInv /\ Processing => TypeInv'
<1> SUFFICES ASSUME TypeInv, Processing PROVE TypeInv'
    OBVIOUS
<1>0. CASE Motion \/ NoMotion \/ NoCheck
    BY <1>0, DecideTypes
<1> SUFFICES ASSUME ~(Motion \/ NoMotion \/ NoCheck) PROVE TypeInv'
    BY <1>0
<1>1. FlowOK /\ EndOK /\ ThreadInv
    BY TypeParts DEF TypeInv
<1>2. EndOK'
    <2>1. CASE Cancelled
        <3>1. {running', cancel', poisoned'} \subseteq BOOLEAN
            BY <1>1, <2>1, Zenon DEF Cancelled, EndOK
        <3> QED BY <1>1, <2>1, <3>1 DEF Cancelled, EndOK, SignalOK, signaled
    <2>2. CASE ~Cancelled
        BY <1>1, <2>2, EndStays DEF Processing, Top, Drain, Requeued, Take, Taken, CancelledInDrain
    <2> QED BY <2>1, <2>2
<1>3. UNCHANGED <<main, queued>>
    BY DEF Processing, Top, Drain, Requeued, Take, Taken, Cancelled, CancelledInDrain, ending
<1>5. AtEncoder \subseteq Requests
    BY EncodedAreRequests DEF TypeInv
<1>4. FlowOK' /\ ThreadInv'
    <2> USE <1>1, <1>3 DEF FlowOK, ThreadInv, complete, queues, coder, decision, metrics
    <2>1. CASE Top
        BY <2>1 DEF Top, NextPass
    <2>2. CASE Drain
        <3>1. CASE reuse_queue = <<>>
            BY <2>2, <3>1, <1>5 DEF Drain
        <3>2. CASE reuse_queue # <<>>
            <4>1. Head(reuse_queue) \in Requests /\ Tail(reuse_queue) \in Seq(Requests)
                BY <3>2
            <4>2. camera' \in Seq(Requests) /\ reuse_queue' \in Seq(Requests)
                <5>1. camera \in Seq(Requests)
                    OBVIOUS
                <5>2. camera' = Append(camera, Head(reuse_queue)) /\ reuse_queue' = Tail(reuse_queue)
                    BY <2>2, <3>2 DEF Drain, Drained
                <5> HIDE DEF FlowOK
                <5> QED BY <4>1, <5>1, <5>2
            <4> QED BY <2>2, <3>2, <4>2 DEF Drain
        <3> QED BY <3>1, <3>2
    <2>3. CASE Requeued
        BY <2>3 DEF Requeued, Counted
    <2>4. CASE Take
        <3>1. CASE processing_queue = <<>>
            BY <2>4, <3>1 DEF Take
        <3>2. CASE processing_queue # <<>>
            <4>1. Head(processing_queue) \in Requests /\ Tail(processing_queue) \in Seq(Requests)
                BY <3>2
            <4> QED BY <2>4, <3>2, <4>1 DEF Take
        <3> QED BY <3>1, <3>2
    <2>5. CASE Taken
        BY <2>5 DEF Taken
    <2>6. CASE Cancelled
        BY <2>6 DEF Cancelled, PrintsWithMutex
    <2>7. CASE CancelledInDrain
        <3>1. Head(reuse_queue) \in Requests /\ Tail(reuse_queue) \in Seq(Requests)
            BY <2>7 DEF CancelledInDrain
        <3> QED BY <2>7, <3>1 DEF CancelledInDrain, Drained
    <2> QED BY <2>1, <2>2, <2>3, <2>4, <2>5, <2>6, <2>7 DEF Processing
<1> QED BY <1>1, <1>2, <1>4, TypeParts DEF TypeInv

\* What main(), the HTTP thread and the handler do once the requests are queued.
Control == \/ StartThreads \/ MainLocks \/ MainReads \/ MainClears \/ CancelThreads
           \/ SignalCondition \/ Join \/ Stop \/ Http \/ HttpLocks \/ Handle
           \/ \E t \in Threads : Signal(t)

LEMMA NextIs ==
    Next <=> Camera \/ reuse_request \/ Processing \/ QueueRequest \/ CountQueued \/ Control
BY DEF Next, Main, Control

\* Requests stay where they are; the processing thread is started or woken.
LEMMA ControlIs ==
    ASSUME TypeInv, Control
    PROVE  /\ MainRest
           /\ \/ UNCHANGED <<main, thread>>
              \/ /\ main = "queue" /\ main' = "run" /\ thread = "none" /\ thread' = "lock"
                 /\ queued = N
              \/ {main, main'} \cap {"queue", "count"} = {} /\ thread' \in {thread, Woken}
<1>1. CASE StartThreads
    BY <1>1 DEF StartThreads, TypeInv, ThreadInv
<1>2. CASE MainLocks \/ MainReads \/ MainClears \/ CancelThreads \/ SignalCondition \/ Join \/ Stop
    BY <1>2 DEF MainLocks, MainReads, MainClears, CancelThreads, SignalCondition, Join, Stop
<1>3. CASE Http \/ HttpLocks \/ Handle \/ \E t \in Threads : Signal(t)
    BY <1>3 DEF Http, HttpReads, HttpEnds, HttpLocks, HttpRest, Handle, Signal
<1> QED BY <1>1, <1>2, <1>3 DEF Control

LEMMA ControlTypes == TypeInv /\ Control => TypeInv'
<1> SUFFICES ASSUME TypeInv, Control PROVE TypeInv'
    OBVIOUS
<1> DEFINE States == {"queue", "count", "run", "look", "leave", "clear", "cancel", "signal", "join",
                      "join http", "stop", "done"}
<1>1. /\ main' \in States /\ mutex' \in {"free", "main", "http"}
      /\ http' \in {"none", "poll", "look", "exit", "ended"}
      /\ handler' \in Threads \cup {"none"}
    <2>1. CASE StartThreads \/ MainLocks \/ MainReads \/ MainClears
        BY <2>1 DEF StartThreads, MainLocks, MainReads, MainClears, TypeInv, TypeOK
    <2>2. CASE CancelThreads \/ SignalCondition \/ Join \/ Stop
        BY <2>2 DEF CancelThreads, SignalCondition, Join, Stop, signaled, TypeInv, TypeOK
    <2>3. CASE Http \/ HttpLocks
        BY <2>3 DEF Http, HttpReads, HttpEnds, HttpLocks, HttpRest, TypeInv, TypeOK
    <2>4. CASE Handle \/ \E t \in Threads : Signal(t)
        BY <2>4 DEF Handle, Signal, TypeInv, TypeOK
    <2> QED BY <2>1, <2>2, <2>3, <2>4 DEF Control
<1>2. signals' \in 0 .. MaxSignals
    <2>1. UNCHANGED signals \/ (signals > 0 /\ signals' = signals - 1)
        BY DEF Control, StartThreads, MainLocks, MainReads, MainClears, CancelThreads, SignalCondition,
               Join, Stop, Http, HttpReads, HttpEnds, HttpLocks, HttpRest, Handle, Signal, signaled
    <2>2. signals \in 0 .. MaxSignals /\ MaxSignals \in Nat
        BY RequestLoopConstants DEF TypeInv, TypeOK
    <2> QED BY <2>1, <2>2
<1>3. {running', cancel', poisoned'} \subseteq BOOLEAN
    <2>1. {running, cancel, poisoned} \subseteq BOOLEAN
        BY DEF TypeInv, TypeOK
    <2>2. /\ UNCHANGED running \/ running' = FALSE
          /\ UNCHANGED cancel \/ cancel' = TRUE
          /\ UNCHANGED poisoned
        <3>1. CASE StartThreads \/ MainLocks \/ MainReads \/ MainClears
            BY <3>1, Zenon DEF StartThreads, MainLocks, MainReads, MainClears
        <3>2. CASE CancelThreads \/ SignalCondition \/ Join \/ Stop
            BY <3>2, Zenon DEF CancelThreads, SignalCondition, Join, Stop
        <3>3. CASE Http \/ HttpLocks \/ Handle \/ \E t \in Threads : Signal(t)
            BY <3>3, Zenon DEF Http, HttpReads, HttpEnds, HttpLocks, HttpRest, Handle, Signal
        <3> QED BY <3>1, <3>2, <3>3, Zenon DEF Control
    <2> QED BY <2>1, <2>2, Zenon
<1>4. thread' \in {"none", "lock", "asleep", "top", "drain", "requeued", "taken", "decide",
                   "returned", "ended"}
    BY ControlIs DEF TypeInv, TypeOK, Woken
<1>5. FlowOK /\ EndOK /\ ThreadInv
    BY TypeParts DEF TypeInv
<1>6. FlowOK'
    BY <1>4, <1>5, ControlIs DEF FlowOK, MainRest, complete, queues, coder, decision, metrics
<1>7. EndOK'
    BY <1>1, <1>2, <1>3, <1>5, ControlIs DEF EndOK, SignalOK, MainRest
<1>8. ThreadInv'
    BY <1>5, ControlIs DEF ThreadInv, MainRest, complete, queues, coder, Woken
<1> QED BY <1>6, <1>7, <1>8, TypeParts DEF TypeInv

LEMMA QueueTypes == TypeInv /\ (QueueRequest \/ CountQueued) => TypeInv'
<1> SUFFICES ASSUME TypeInv, QueueRequest \/ CountQueued PROVE TypeInv'
    OBVIOUS
<1>1. FlowOK /\ EndOK /\ ThreadInv
    BY TypeParts DEF TypeInv
<1>2. /\ UNCHANGED <<complete, processing_queue, reuse_queue, coder, thread, request, kept, away,
                     decision, queueMetric, running, cancel, poisoned, signaled>>
      /\ {main, main'} = {"queue", "count"}
    BY DEF QueueRequest, CountQueued, queues, metrics
<1>3. camera' \in Seq(Requests) /\ queued' \in 0 .. N /\ cameraMetric' \in Int
    <2>1. CASE QueueRequest
        <3>1. queued + 1 \in Requests /\ queued' \in 0 .. N
            BY <1>1, <2>1, RequestLoopConstants DEF QueueRequest, Requests, EndOK
        <3>2. camera \in Seq(Requests) /\ camera' = Append(camera, queued + 1)
            BY <1>1, <2>1 DEF QueueRequest, FlowOK
        <3>3. cameraMetric' \in Int
            BY <1>1, <2>1 DEF QueueRequest, FlowOK, metrics
        <3> QED BY <3>1, <3>2, <3>3
    <2>2. CASE CountQueued
        <3>1. UNCHANGED <<camera, queued>> /\ cameraMetric' = cameraMetric + 1
            BY <2>2 DEF CountQueued, queues
        <3>2. camera \in Seq(Requests) /\ cameraMetric \in Int /\ queued \in 0 .. N
            BY <1>1 DEF FlowOK, EndOK
        <3> QED BY <3>1, <3>2
    <2> QED BY <2>1, <2>2
<1>4. FlowOK'
    BY <1>1, <1>2, <1>3 DEF FlowOK, complete, coder, decision
<1>5. EndOK'
    BY <1>1, <1>2, <1>3 DEF EndOK, SignalOK, signaled
<1>6. ThreadInv'
    BY <1>1, <1>2 DEF ThreadInv, complete, coder
<1> QED BY <1>4, <1>5, <1>6, TypeParts DEF TypeInv

LEMMA TypeStep == TypeInv /\ [Next]_vars => TypeInv'
<1> SUFFICES ASSUME TypeInv, [Next]_vars PROVE TypeInv'
    OBVIOUS
<1>1. CASE UNCHANGED vars
    <2>1. FlowOK /\ EndOK /\ ThreadInv
        BY TypeParts DEF TypeInv
    <2>2. FlowOK' /\ ThreadInv'
        BY <1>1, <2>1 DEF vars, FlowOK, ThreadInv, complete, queues, coder, decision, metrics, ending
    <2>3. EndOK'
        BY <1>1, <2>1, EndStays DEF vars
    <2> QED BY <2>2, <2>3, TypeParts DEF TypeInv
<1> QED BY <1>1, CameraTypes, ReuseTypes, ProcessingTypes, QueueTypes, ControlTypes, NextIs

\* The request loop keeps its types (libcamera-version/src/main.cpp 100-624).
THEOREM TypeCorrect == Spec => []TypeOK
<1>1. TypeInv => TypeOK
    BY DEF TypeInv
<1> QED BY <1>1, InitTypes, TypeStep, PTL DEF Spec

-----------------------------------------------------------------------------
(* Recordings *)

\* The encoder's queue continues the film: a first frame only after a last one,
\* and the thread's recording is what it ends with.
FilmInv ==
    /\ film # "broken"
    /\ \A i \in 1 .. Len(encoder) : ~(encoder[i].first /\ encoder[i].last)
    /\ \A i \in 1 .. Len(encoder) - 1 : encoder[i + 1].first <=> encoder[i].last
    /\ encoder # <<>> => /\ encoder[1].first <=> film = "closed"
                         /\ encoder[Len(encoder)].last <=> ~recording
    /\ encoder = <<>> => (film = "closed" <=> ~recording)

Enqueued == [request : Requests, first : BOOLEAN, last : BOOLEAN]

LEMMA EmptyHasNoLength ==
    ASSUME NEW S, NEW s \in Seq(S)
    PROVE  s = <<>> <=> Len(s) = 0
OBVIOUS

LEMMA FilmReuse == TypeOK /\ FilmInv /\ reuse_request => FilmInv'
<1> SUFFICES ASSUME TypeOK, FilmInv, reuse_request PROVE FilmInv'
    OBVIOUS
<1> DEFINE e == Head(encoder)
<1>1. /\ encoder \in Seq(Enqueued) /\ encoder # <<>> /\ encoder' = Tail(encoder)
      /\ film' = AfterFrame(film, e) /\ UNCHANGED recording /\ film \in {"closed", "open"}
    BY DEF TypeOK, reuse_request, decision, Enqueued, FilmInv
<1>2. /\ Len(encoder) \in Nat \ {0} /\ Len(encoder') = Len(encoder) - 1 /\ e = encoder[1]
      /\ \A i \in 1 .. Len(encoder') : encoder'[i] = encoder[i + 1]
      /\ encoder' = <<>> <=> Len(encoder) = 1
    <2>1. /\ encoder' \in Seq(Enqueued) /\ Len(encoder) \in Nat \ {0}
          /\ Len(encoder') = Len(encoder) - 1 /\ e = encoder[1]
        BY <1>1
    <2>2. \A i \in 1 .. Len(encoder') : encoder'[i] = encoder[i + 1]
        BY <1>1, <2>1
    <2>3. encoder' = <<>> <=> Len(encoder') = 0
        BY <2>1, EmptyHasNoLength
    <2> QED BY <2>1, <2>2, <2>3
<1>3. /\ ~(e.first /\ e.last) /\ (e.first <=> film = "closed")
      /\ film' = IF e.last THEN "closed" ELSE "open"
    BY <1>1, <1>2 DEF FilmInv, AfterFrame
<1>4. \A i \in 1 .. Len(encoder') : ~(encoder'[i].first /\ encoder'[i].last)
    BY <1>2 DEF FilmInv
<1>5. \A i \in 1 .. Len(encoder') - 1 : encoder'[i + 1].first <=> encoder'[i].last
    <2> SUFFICES ASSUME NEW i \in 1 .. Len(encoder') - 1
                 PROVE  encoder'[i + 1].first <=> encoder'[i].last
        OBVIOUS
    <2>1. i + 1 \in 1 .. Len(encoder) - 1 /\ encoder'[i + 1] = encoder[i + 2] /\ encoder'[i] = encoder[i + 1]
        BY <1>2
    <2>2. encoder[(i + 1) + 1].first <=> encoder[i + 1].last
        BY <2>1 DEF FilmInv
    <2>3. (i + 1) + 1 = i + 2
        OBVIOUS
    <2> QED BY <2>1, <2>2, <2>3
<1>6. ASSUME encoder' # <<>>
      PROVE  /\ encoder'[1].first <=> film' = "closed"
             /\ encoder'[Len(encoder')].last <=> ~recording'
    <2>1. /\ Len(encoder) - 1 \in Nat \ {0} /\ 1 \in 1 .. Len(encoder) - 1
          /\ encoder'[1] = encoder[2] /\ encoder'[Len(encoder')] = encoder[Len(encoder)]
        BY <1>2, <1>6
    <2>2. encoder[1 + 1].first <=> encoder[1].last
        BY <2>1 DEF FilmInv
    <2>3. encoder[2].first <=> e.last
        BY <1>2, <2>2
    <2> QED BY <1>1, <1>3, <2>1, <2>3 DEF FilmInv
<1>7. ASSUME encoder' = <<>> PROVE film' = "closed" <=> ~recording'
    BY <1>1, <1>2, <1>3, <1>7 DEF FilmInv
<1>8. film' # "broken"
    BY <1>3
<1> QED BY <1>4, <1>5, <1>6, <1>7, <1>8 DEF FilmInv

LEMMA FilmEnqueue ==
    ASSUME TypeOK, FilmInv, NEW first, NEW last, encoder_enqueue(first, last),
           first \in BOOLEAN, last \in BOOLEAN, request \in Requests,
           first = ~recording, ~(first /\ last), recording' = ~last
    PROVE  FilmInv'
<1> DEFINE e == [request |-> request, first |-> first, last |-> last]
<1>1. /\ encoder \in Seq(Enqueued) /\ encoder' = Append(encoder, e) /\ e \in Enqueued
      /\ e.first = first /\ e.last = last /\ UNCHANGED film /\ film \in {"closed", "open"}
    BY DEF TypeOK, encoder_enqueue, Enqueued, FilmInv
<1> DEFINE n == Len(encoder)
<1> HIDE DEF e
<1>2. /\ n \in Nat /\ Len(encoder') = n + 1 /\ encoder'[n + 1] = e
      /\ \A i \in 1 .. n : encoder'[i] = encoder[i]
      /\ encoder' # <<>> /\ (encoder = <<>> <=> n = 0)
    BY <1>1
<1>3. \A i \in 1 .. Len(encoder') : ~(encoder'[i].first /\ encoder'[i].last)
    <2> SUFFICES ASSUME NEW i \in 1 .. n + 1 PROVE ~(encoder'[i].first /\ encoder'[i].last)
        BY <1>2
    <2>1. i \in 1 .. n \/ i = n + 1
        BY <1>2
    <2>2. i \in 1 .. n => ~(encoder[i].first /\ encoder[i].last)
        BY DEF FilmInv
    <2> QED BY <1>1, <1>2, <2>1, <2>2
<1>4. \A i \in 1 .. Len(encoder') - 1 : encoder'[i + 1].first <=> encoder'[i].last
    <2> SUFFICES ASSUME NEW i \in 1 .. n PROVE encoder'[i + 1].first <=> encoder'[i].last
        BY <1>2
    <2>1. CASE i = n
        <3>1. n # 0 /\ (encoder[n].last <=> ~recording)
            BY <1>2, <2>1 DEF FilmInv
        <3> QED BY <1>1, <1>2, <2>1, <3>1
    <2>2. CASE i # n
        <3>1. i \in 1 .. n - 1 /\ i + 1 \in 1 .. n
            BY <1>2, <2>2
        <3>2. encoder[i + 1].first <=> encoder[i].last
            BY <3>1 DEF FilmInv
        <3> QED BY <1>2, <3>1, <3>2
    <2> QED BY <2>1, <2>2
<1>5. encoder'[1].first <=> film' = "closed"
    <2>1. CASE n = 0
        <3>1. (film = "closed" <=> ~recording) /\ encoder'[1] = e
            BY <1>2, <2>1 DEF FilmInv
        <3>2. first <=> ~recording
            BY Zenon
        <3> QED BY <1>1, <3>1, <3>2
    <2>2. CASE n # 0
        <3>1. 1 \in 1 .. n
            BY <1>2, <2>2
        <3> QED BY <1>1, <1>2, <2>2, <3>1 DEF FilmInv
    <2> QED BY <2>1, <2>2
<1>6. encoder'[Len(encoder')].last <=> ~recording'
    BY <1>1, <1>2
<1> QED BY <1>1, <1>2, <1>3, <1>4, <1>5, <1>6 DEF FilmInv

LEMMA FilmStep == TypeInv /\ FilmInv /\ [Next]_vars => FilmInv'
<1> SUFFICES ASSUME TypeInv, FilmInv, [Next]_vars PROVE FilmInv'
    OBVIOUS
<1>0. TypeOK /\ recording \in BOOLEAN /\ (thread = "decide" => request \in Requests)
    BY DEF TypeInv, TypeOK, ThreadInv
<1>1. CASE Motion
    <2>1. /\ encoder_enqueue(~recording, FALSE) /\ recording' = TRUE /\ thread = "decide"
        BY <1>1 DEF Motion
    <2>2. (~recording) \in BOOLEAN /\ FALSE \in BOOLEAN /\ recording' = ~FALSE
        BY <1>0, <2>1
    <2> QED BY <1>0, <2>1, <2>2, FilmEnqueue
<1>2. ASSUME NoMotion \/ NoCheck, ~(UNCHANGED <<encoder, film, recording>>) PROVE FilmInv'
    <2>1. /\ thread = "decide" /\ recording
          /\ \/ encoder_enqueue(FALSE, TRUE) /\ recording' = FALSE
             \/ encoder_enqueue(FALSE, FALSE) /\ recording' = recording
        BY <1>2 DEF NoMotion, NoCheck, AfterLast, Return, coder
    <2>2. FALSE = ~recording /\ FALSE \in BOOLEAN /\ TRUE \in BOOLEAN /\ recording = TRUE
        BY <1>0, <2>1
    <2>3. CASE encoder_enqueue(FALSE, TRUE) /\ recording' = FALSE
        BY <1>0, <2>1, <2>2, <2>3, FilmEnqueue
    <2>4. CASE encoder_enqueue(FALSE, FALSE) /\ recording' = recording
        BY <1>0, <2>1, <2>2, <2>4, FilmEnqueue
    <2> QED BY <2>1, <2>3, <2>4
<1>3. CASE UNCHANGED <<encoder, film, recording>>
    BY <1>3 DEF FilmInv
<1>4. Control => UNCHANGED <<encoder, film, recording>>
    BY ControlIs DEF MainRest, coder, decision
<1> QED BY <1>0, <1>1, <1>2, <1>3, <1>4, NextIs, FilmReuse DEF Camera, Complete, Stamp, Push, Count,
           Processing, Top, Drain, Requeued, Take, Taken, Cancelled, CancelledInDrain, QueueRequest,
           CountQueued, coder, decision, vars

\* The frames the encoder gets are whole recordings, whatever the rate and the
\* length of the cooldown (libcamera-version/src/main.cpp 475-508).
THEOREM FramesMakeRecordings == Spec => []RecordingsAreWhole
<1>1. Init => FilmInv
    BY DEF Init, FilmInv
<1>2. FilmInv => RecordingsAreWhole
    BY DEF FilmInv, RecordingsAreWhole
<1> QED BY <1>1, <1>2, InitTypes, TypeStep, FilmStep, PTL DEF Spec

-----------------------------------------------------------------------------
(* Sequences without repetitions *)

Elems(s)    == {s[i] : i \in 1 .. Len(s)}
Distinct(s) == \A i, j \in 1 .. Len(s) : s[i] = s[j] => i = j

IsTail(t, s)      == /\ s # <<>> /\ Len(t) = Len(s) - 1
                     /\ \A i \in 1 .. Len(t) : t[i] = s[i + 1]
IsAppend(t, s, x) == /\ Len(t) = Len(s) + 1 /\ t[Len(s) + 1] = x
                     /\ \A i \in 1 .. Len(s) : t[i] = s[i]

LEMMA TailAppendAre ==
    ASSUME NEW S, NEW s \in Seq(S), NEW x \in S
    PROVE  IsAppend(Append(s, x), s, x) /\ (s # <<>> => IsTail(Tail(s), s) /\ Head(s) = s[1])
<1>1. IsAppend(Append(s, x), s, x)
    BY DEF IsAppend
<1>2. ASSUME s # <<>> PROVE IsTail(Tail(s), s) /\ Head(s) = s[1]
    BY <1>2 DEF IsTail
<1> QED BY <1>1, <1>2

LEMMA TakeOff ==
    ASSUME NEW S, NEW s \in Seq(S), NEW t \in Seq(S), IsTail(t, s), Distinct(s)
    PROVE  Distinct(t) /\ Elems(t) = Elems(s) \ {s[1]} /\ s[1] \in Elems(s)
<1>1. Len(s) \in Nat \ {0} /\ Len(t) = Len(s) - 1
    BY DEF IsTail
<1>2. Distinct(t)
    <2> SUFFICES ASSUME NEW i \in 1 .. Len(t), NEW j \in 1 .. Len(t), t[i] = t[j] PROVE i = j
        BY DEF Distinct
    <2>1. i + 1 \in 1 .. Len(s) /\ j + 1 \in 1 .. Len(s) /\ s[i + 1] = s[j + 1]
        BY <1>1 DEF IsTail
    <2>2. i + 1 = j + 1
        BY <2>1 DEF Distinct
    <2> QED BY <2>2
<1>3. ASSUME NEW r \in Elems(t) PROVE r \in Elems(s) \ {s[1]}
    <2>1. PICK i \in 1 .. Len(t) : r = t[i]
        BY <1>3 DEF Elems
    <2>2. i + 1 \in 1 .. Len(s) /\ r = s[i + 1] /\ 1 \in 1 .. Len(s) /\ i + 1 # 1
        BY <1>1, <2>1 DEF IsTail
    <2> QED BY <2>2 DEF Elems, Distinct
<1>4. ASSUME NEW r \in Elems(s), r # s[1] PROVE r \in Elems(t)
    <2>1. PICK i \in 1 .. Len(s) : r = s[i]
        BY <1>4 DEF Elems
    <2>2. i - 1 \in 1 .. Len(t) /\ s[(i - 1) + 1] = s[i]
        BY <1>1, <1>4, <2>1
    <2> QED BY <2>1, <2>2 DEF IsTail, Elems
<1>5. 1 \in 1 .. Len(s)
    BY <1>1
<1>6. s[1] \in Elems(s)
    BY <1>5 DEF Elems
<1>7. Elems(t) = Elems(s) \ {s[1]}
    BY <1>3, <1>4
<1> QED BY <1>2, <1>6, <1>7

LEMMA PutOn ==
    ASSUME NEW S, NEW s \in Seq(S), NEW t \in Seq(S), NEW x, IsAppend(t, s, x), Distinct(s),
           x \notin Elems(s)
    PROVE  Distinct(t) /\ Elems(t) = Elems(s) \cup {x}
<1>1. Len(s) \in Nat /\ Len(t) = Len(s) + 1 /\ t[Len(s) + 1] = x /\ \A i \in 1 .. Len(s) : t[i] = s[i]
    BY DEF IsAppend
<1>2. \A i \in 1 .. Len(t) : i \in 1 .. Len(s) \/ i = Len(s) + 1
    BY <1>1
<1>3. \A i \in 1 .. Len(s) : s[i] # x
    BY DEF Elems
<1>4. Distinct(t)
    BY <1>1, <1>2, <1>3 DEF Distinct
<1>5. \A i \in 1 .. Len(s) : i \in 1 .. Len(t)
    BY <1>1
<1>6. Len(s) + 1 \in 1 .. Len(t)
    BY <1>1
<1>7. Elems(t) = Elems(s) \cup {x}
    <2>1. \A r \in Elems(t) : r \in Elems(s) \cup {x}
        BY <1>1, <1>2 DEF Elems
    <2>2. \A r \in Elems(s) \cup {x} : r \in Elems(t)
        BY <1>1, <1>5, <1>6 DEF Elems
    <2> QED BY <2>1, <2>2
<1> QED BY <1>4, <1>7

LEMMA Joined ==
    ASSUME NEW S, NEW s \in Seq(S), NEW t \in Seq(S), Distinct(s), Distinct(t),
           Elems(s) \cap Elems(t) = {}
    PROVE  s \o t \in Seq(S) /\ Distinct(s \o t) /\ Elems(s \o t) = Elems(s) \cup Elems(t)
<1> DEFINE u == s \o t
<1>1. /\ u \in Seq(S) /\ Len(s) \in Nat /\ Len(t) \in Nat /\ Len(u) = Len(s) + Len(t)
      /\ \A i \in 1 .. Len(s) + Len(t) : u[i] = IF i <= Len(s) THEN s[i] ELSE t[i - Len(s)]
    OBVIOUS
<1> HIDE DEF u
<1>2. \A i \in 1 .. Len(u) : \/ i \in 1 .. Len(s) /\ u[i] = s[i]
                             \/ i - Len(s) \in 1 .. Len(t) /\ u[i] = t[i - Len(s)]
    BY <1>1
<1>3. \A i \in 1 .. Len(s) : i \in 1 .. Len(u) /\ u[i] = s[i]
    BY <1>1
<1>4. \A i \in 1 .. Len(t) : i + Len(s) \in 1 .. Len(u) /\ u[i + Len(s)] = t[i]
    BY <1>1
<1>5. \A i \in 1 .. Len(s), j \in 1 .. Len(t) : s[i] # t[j]
    BY DEF Elems
<1>6. Distinct(u)
    <2> SUFFICES ASSUME NEW i \in 1 .. Len(u), NEW j \in 1 .. Len(u), u[i] = u[j] PROVE i = j
        BY DEF Distinct
    <2>1. CASE i \in 1 .. Len(s) /\ u[i] = s[i]
        BY <1>2, <1>5, <2>1 DEF Distinct
    <2>2. CASE i - Len(s) \in 1 .. Len(t) /\ u[i] = t[i - Len(s)]
        <3>1. j - Len(s) \in 1 .. Len(t) /\ u[j] = t[j - Len(s)]
            BY <1>2, <1>5, <2>2
        <3>2. i - Len(s) = j - Len(s)
            BY <2>2, <3>1 DEF Distinct
        <3> QED BY <1>1, <3>2
    <2> QED BY <1>2, <2>1, <2>2
<1>7. Elems(u) = Elems(s) \cup Elems(t)
    <2>1. \A r \in Elems(u) : r \in Elems(s) \cup Elems(t)
        BY <1>2 DEF Elems
    <2>2. \A r \in Elems(s) : r \in Elems(u)
        BY <1>3 DEF Elems
    <2>3. \A r \in Elems(t) : r \in Elems(u)
        BY <1>4 DEF Elems
    <2> QED BY <2>1, <2>2, <2>3
<1> QED BY <1>1, <1>6, <1>7 DEF u

LEMMA IntervalSize ==
    ASSUME NEW n \in Nat
    PROVE  IsFiniteSet(1 .. n) /\ Cardinality(1 .. n) = n
BY FS_Interval

LEMMA DistinctLength ==
    ASSUME NEW n \in Nat, NEW s \in Seq(1 .. n), Distinct(s), Elems(s) = 1 .. n
    PROVE  Len(s) = n /\ Cardinality(Elems(s)) = n
<1>1. Len(s) \in Nat /\ s \in [1 .. Len(s) -> 1 .. n]
    OBVIOUS
<1>2. s \in Bijection(1 .. Len(s), 1 .. n)
    <2>1. \A i, j \in 1 .. Len(s) : s[i] = s[j] => i = j
        BY DEF Distinct
    <2>2. \A r \in 1 .. n : \E i \in 1 .. Len(s) : s[i] = r
        BY DEF Elems
    <2> QED BY <1>1, <2>1, <2>2, Zenon DEF Bijection, Injection, Surjection, IsInjective
<1>3. ExistsBijection(1 .. Len(s), 1 .. n)
    BY <1>2 DEF ExistsBijection
<1>4. IsFiniteSet(1 .. Len(s)) /\ Cardinality(1 .. Len(s)) = Len(s)
    BY <1>1, IntervalSize
<1>5. Cardinality(1 .. n) = n
    BY IntervalSize
<1>6. Cardinality(1 .. n) = Cardinality(1 .. Len(s))
    BY <1>3, <1>4, FS_Bijection
<1> QED BY <1>4, <1>5, <1>6

-----------------------------------------------------------------------------
(* Who has which request *)

Place == {"camera", "completing", "processing", "request", "kept", "encoder", "reuse"}
Encoding == [i \in DOMAIN encoder |-> encoder[i].request]
At(p) == CASE p = "camera"     -> camera
           [] p = "completing" -> InRequestComplete
           [] p = "processing" -> processing_queue
           [] p = "request"    -> OneOf(request)
           [] p = "kept"       -> OneOf(kept)
           [] p = "encoder"    -> Encoding
           [] p = "reuse"      -> reuse_queue
Held == [p \in Place |-> At(p)]

\* No request is twice in a place or in two, and those in some place are U.
Apart(f, U) ==
    /\ \A p \in Place : Distinct(f[p])
    /\ \A p, q \in Place : p # q => Elems(f[p]) \cap Elems(f[q]) = {}
    /\ \A r : r \in U <=> \E p \in Place : r \in Elems(f[p])

\* A request that goes from one place to another, or comes in.
LEMMA Moved ==
    ASSUME NEW S, NEW U, NEW f \in [Place -> Seq(S)], NEW g \in [Place -> Seq(S)], Apart(f, U),
           NEW p \in Place, NEW q \in Place, p # q,
           IsTail(g[p], f[p]), IsAppend(g[q], f[q], f[p][1]),
           \A o \in Place \ {p, q} : g[o] = f[o]
    PROVE  Apart(g, U)
<1> DEFINE x == f[p][1]
<1>1. Distinct(g[p]) /\ Elems(g[p]) = Elems(f[p]) \ {x} /\ x \in Elems(f[p])
    BY TakeOff DEF Apart
<1>2. x \notin Elems(f[q])
    BY <1>1 DEF Apart
<1>3. Distinct(g[q]) /\ Elems(g[q]) = Elems(f[q]) \cup {x}
    BY <1>2, PutOn DEF Apart
<1>4. \A o \in Place \ {p, q} : Elems(g[o]) = Elems(f[o]) /\ Distinct(g[o])
    BY DEF Apart
<1> HIDE DEF x
<1>5. \A o \in Place : Distinct(g[o])
    BY <1>1, <1>3, <1>4
<1>6. ASSUME NEW o1 \in Place, NEW o2 \in Place, o1 # o2 PROVE Elems(g[o1]) \cap Elems(g[o2]) = {}
    <2>1. Elems(f[o1]) \cap Elems(f[o2]) = {} /\ Elems(f[o1]) \cap Elems(f[p]) = (IF o1 = p THEN Elems(f[p]) ELSE {})
          /\ Elems(f[o2]) \cap Elems(f[p]) = (IF o2 = p THEN Elems(f[p]) ELSE {})
        BY <1>6 DEF Apart
    <2> QED BY <1>1, <1>3, <1>4, <1>6, <2>1
<1>7. ASSUME NEW r PROVE r \in U <=> \E o \in Place : r \in Elems(g[o])
    <2>1. r \in U <=> \E o \in Place : r \in Elems(f[o])
        BY DEF Apart
    <2>2. \A o \in Place : r \in Elems(f[o]) => \E o2 \in Place : r \in Elems(g[o2])
        BY <1>1, <1>3, <1>4
    <2>3. \A o \in Place : r \in Elems(g[o]) => \E o2 \in Place : r \in Elems(f[o2])
        BY <1>1, <1>3, <1>4
    <2> QED BY <2>1, <2>2, <2>3
<1> QED BY <1>5, <1>6, <1>7 DEF Apart

LEMMA CameIn ==
    ASSUME NEW S, NEW U, NEW f \in [Place -> Seq(S)], NEW g \in [Place -> Seq(S)], Apart(f, U),
           NEW q \in Place, NEW x, x \notin U, IsAppend(g[q], f[q], x),
           \A o \in Place \ {q} : g[o] = f[o]
    PROVE  Apart(g, U \cup {x})
<1>1. \A o \in Place : x \notin Elems(f[o])
    BY DEF Apart
<1>2. Distinct(g[q]) /\ Elems(g[q]) = Elems(f[q]) \cup {x}
    BY <1>1, PutOn DEF Apart
<1>3. \A o \in Place \ {q} : Elems(g[o]) = Elems(f[o]) /\ Distinct(g[o])
    BY DEF Apart
<1>4. \A o \in Place : Distinct(g[o])
    BY <1>2, <1>3
<1>5. ASSUME NEW o1 \in Place, NEW o2 \in Place, o1 # o2 PROVE Elems(g[o1]) \cap Elems(g[o2]) = {}
    <2>1. Elems(f[o1]) \cap Elems(f[o2]) = {}
        BY <1>5 DEF Apart
    <2> QED BY <1>1, <1>2, <1>3, <1>5, <2>1
<1>6. ASSUME NEW r PROVE r \in U \cup {x} <=> \E o \in Place : r \in Elems(g[o])
    <2>1. r \in U <=> \E o \in Place : r \in Elems(f[o])
        BY DEF Apart
    <2> QED BY <1>2, <1>3, <2>1
<1> QED BY <1>4, <1>5, <1>6 DEF Apart

LEMMA HeldIs ==
    /\ Held["camera"] = camera /\ Held["completing"] = InRequestComplete
    /\ Held["processing"] = processing_queue /\ Held["request"] = OneOf(request)
    /\ Held["kept"] = OneOf(kept) /\ Held["encoder"] = Encoding /\ Held["reuse"] = reuse_queue
    /\ Held'["camera"] = camera' /\ Held'["completing"] = InRequestComplete'
    /\ Held'["processing"] = processing_queue' /\ Held'["request"] = OneOf(request')
    /\ Held'["kept"] = OneOf(kept') /\ Held'["encoder"] = Encoding' /\ Held'["reuse"] = reuse_queue'
BY DEF Held, Place, At

LEMMA EncodingIs ==
    ASSUME NEW e \in Seq(Enqueued), NEW m, m = [i \in DOMAIN e |-> e[i].request]
    PROVE  m \in Seq(Requests) /\ Len(m) = Len(e) /\ \A i \in 1 .. Len(e) : m[i] = e[i].request
<1>1. Len(e) \in Nat /\ DOMAIN e = 1 .. Len(e) /\ \A i \in 1 .. Len(e) : e[i] \in Enqueued
    OBVIOUS
<1>2. \A i \in 1 .. Len(e) : e[i].request \in Requests
    BY <1>1 DEF Enqueued
<1>3. m \in [1 .. Len(e) -> Requests] /\ \A i \in 1 .. Len(e) : m[i] = e[i].request
    BY <1>1, <1>2
<1>4. m \in Seq(Requests)
    BY <1>1, <1>3, SeqDef
<1>5. Len(m) = Len(e)
    BY <1>1, <1>3, <1>4
<1> QED BY <1>3, <1>4, <1>5

LEMMA OneOfIs ==
    ASSUME NEW r \in Requests \cup {Nobody}
    PROVE  /\ OneOf(r) \in Seq(Requests)
           /\ r = Nobody => OneOf(r) = <<>> /\ Len(OneOf(r)) = 0
           /\ r # Nobody => OneOf(r) # <<>> /\ Len(OneOf(r)) = 1 /\ OneOf(r)[1] = r
<1>1. CASE r = Nobody
    BY <1>1 DEF OneOf
<1>2. CASE r # Nobody
    <2>1. r \in Requests /\ OneOf(r) = <<r>>
        BY <1>2 DEF OneOf
    <2> QED BY <1>2, <2>1
<1> QED BY <1>1, <1>2

LEMMA HeldTypes ==
    ASSUME TypeOK
    PROVE  Held \in [Place -> Seq(Requests)]
<1>1. /\ completing \in Requests \cup {Nobody} /\ request \in Requests \cup {Nobody}
      /\ kept \in Requests \cup {Nobody} /\ encoder \in Seq(Enqueued)
      /\ camera \in Seq(Requests) /\ processing_queue \in Seq(Requests) /\ reuse_queue \in Seq(Requests)
    BY DEF TypeOK, Enqueued
<1>2. Encoding \in Seq(Requests)
    BY <1>1, EncodingIs DEF Encoding
<1>3. InRequestComplete \in Seq(Requests)
    BY <1>1, OneOfIs DEF InRequestComplete
<1>4. OneOf(request) \in Seq(Requests) /\ OneOf(kept) \in Seq(Requests)
    BY <1>1, OneOfIs
<1>5. \A p \in Place : At(p) \in Seq(Requests)
    BY <1>1, <1>2, <1>3, <1>4 DEF Place, At
<1> QED BY <1>5 DEF Held

LEMMA HeldTypesNext ==
    ASSUME TypeOK'
    PROVE  Held' \in [Place -> Seq(Requests)]
<1>1. /\ completing' \in Requests \cup {Nobody} /\ request' \in Requests \cup {Nobody}
      /\ kept' \in Requests \cup {Nobody} /\ encoder' \in Seq(Enqueued)
      /\ camera' \in Seq(Requests) /\ processing_queue' \in Seq(Requests) /\ reuse_queue' \in Seq(Requests)
    BY DEF TypeOK, Enqueued
<1>2. Encoding' \in Seq(Requests)
    BY <1>1, EncodingIs DEF Encoding
<1>3. InRequestComplete' \in Seq(Requests)
    BY <1>1, OneOfIs DEF InRequestComplete
<1>4. OneOf(request') \in Seq(Requests) /\ OneOf(kept') \in Seq(Requests)
    BY <1>1, OneOfIs
<1>5. \A p \in Place : At(p)' \in Seq(Requests)
    BY <1>1, <1>2, <1>3, <1>4 DEF Place, At
<1> QED BY <1>5 DEF Held

OwnInv == Apart(Held, 1 .. queued)

LEMMA Goes ==
    ASSUME TypeOK, TypeOK', OwnInv, queued' = queued, NEW p \in Place, NEW q \in Place, p # q,
           IsTail(Held'[p], Held[p]), IsAppend(Held'[q], Held[q], Held[p][1]),
           \A o \in Place \ {p, q} : Held'[o] = Held[o]
    PROVE  OwnInv'
<1>1. Held \in [Place -> Seq(Requests)] /\ Held' \in [Place -> Seq(Requests)]
    BY HeldTypes, HeldTypesNext
<1> DEFINE f == Held
           g == Held'
           U == 1 .. queued
<1>2. Apart(f, U)
    BY DEF OwnInv
<1>3. /\ IsTail(g[p], f[p]) /\ IsAppend(g[q], f[q], f[p][1]) /\ \A o \in Place \ {p, q} : g[o] = f[o]
      /\ f \in [Place -> Seq(Requests)] /\ g \in [Place -> Seq(Requests)]
    BY <1>1
<1> HIDE DEF f, g, U
<1>4. Apart(g, U)
    BY <1>2, <1>3, Moved
<1> QED BY <1>4 DEF OwnInv, g, U

\* A place that had one request, or gets it.
LEMMA OneOfGoes ==
    ASSUME NEW r \in Requests
    PROVE  /\ IsTail(OneOf(Nobody), OneOf(r)) /\ OneOf(r)[1] = r
           /\ IsAppend(OneOf(r), OneOf(Nobody), r)
<1>1. OneOf(r) # <<>> /\ Len(OneOf(r)) = 1 /\ OneOf(r)[1] = r /\ Len(OneOf(Nobody)) = 0
    BY OneOfIs, NobodyIsNone
<1> HIDE DEF OneOf
<1> QED BY <1>1 DEF IsTail, IsAppend

LEMMA Stays ==
    ASSUME OwnInv, UNCHANGED <<camera, processing_queue, reuse_queue, encoder, request, kept, queued>>,
           InRequestComplete' = InRequestComplete
    PROVE  OwnInv'
<1>1. \A p \in Place : At(p)' = At(p)
    BY DEF At, Encoding, Place
<1>2. Held' = Held
    BY <1>1 DEF Held
<1> QED BY <1>2 DEF OwnInv

LEMMA CompleteOwns == TypeInv /\ TypeInv' /\ OwnInv /\ Complete => OwnInv'
<1> SUFFICES ASSUME TypeInv, TypeInv', OwnInv, Complete PROVE OwnInv'
    OBVIOUS
<1> DEFINE r == Head(camera)
<1>1. camera \in Seq(Requests) /\ camera # <<>> /\ camera' = Tail(camera)
    BY DEF TypeInv, TypeOK, Complete
<1>2. IsTail(camera', camera) /\ r = camera[1] /\ r \in Requests
    BY <1>1, TailAppendAre
<1>3. InRequestComplete = OneOf(Nobody) /\ InRequestComplete' = OneOf(r)
    BY DEF Complete, InRequestComplete, TypeInv, ThreadInv
<1>4. IsAppend(InRequestComplete', InRequestComplete, camera[1])
    BY <1>2, <1>3, OneOfGoes
<1>5. UNCHANGED <<processing_queue, reuse_queue, encoder, request, kept, queued>> /\ Encoding' = Encoding
    BY DEF Complete, coder, ending, Encoding
<1>6. \A o \in Place \ {"camera", "completing"} : Held'[o] = Held[o]
    BY <1>5, HeldIs DEF Place
<1>7. {"camera", "completing"} \subseteq Place /\ "camera" # "completing"
    BY DEF Place
<1> QED BY <1>2, <1>4, <1>5, <1>6, <1>7, HeldIs, Goes DEF TypeInv

LEMMA PushOwns == TypeInv /\ TypeInv' /\ OwnInv /\ Push => OwnInv'
<1> SUFFICES ASSUME TypeInv, TypeInv', OwnInv, Push PROVE OwnInv'
    OBVIOUS
<1>1. /\ completing \in Requests /\ processing_queue \in Seq(Requests)
      /\ processing_queue' = Append(processing_queue, completing)
    BY DEF TypeInv, TypeOK, Push
<1>2. IsAppend(processing_queue', processing_queue, completing)
    BY <1>1, TailAppendAre
<1>3. InRequestComplete = OneOf(completing) /\ InRequestComplete' = OneOf(Nobody)
    BY DEF Push, InRequestComplete, OneOf
<1>4. IsTail(InRequestComplete', InRequestComplete) /\ InRequestComplete[1] = completing
    BY <1>1, <1>3, OneOfGoes
<1>5. UNCHANGED <<camera, reuse_queue, encoder, request, kept, queued>> /\ Encoding' = Encoding
    BY DEF Push, coder, ending, Encoding
<1>6. \A o \in Place \ {"completing", "processing"} : Held'[o] = Held[o]
    BY <1>5, HeldIs DEF Place
<1>7. {"completing", "processing"} \subseteq Place /\ "completing" # "processing"
    BY DEF Place
<1> QED BY <1>2, <1>4, <1>5, <1>6, <1>7, HeldIs, Goes DEF TypeInv

LEMMA ReuseOwns == TypeInv /\ TypeInv' /\ OwnInv /\ reuse_request => OwnInv'
<1> SUFFICES ASSUME TypeInv, TypeInv', OwnInv, reuse_request PROVE OwnInv'
    OBVIOUS
<1> DEFINE r == Head(encoder).request
<1>1. /\ encoder \in Seq(Enqueued) /\ encoder # <<>> /\ encoder' = Tail(encoder)
      /\ encoder' \in Seq(Enqueued) /\ reuse_queue \in Seq(Requests) /\ reuse_queue' = Append(reuse_queue, r)
    BY DEF TypeInv, TypeOK, reuse_request, Enqueued
<1>2. IsTail(encoder', encoder) /\ Head(encoder) = encoder[1]
    BY <1>1, TailAppendAre
<1>3. /\ Len(Encoding) = Len(encoder) /\ \A i \in 1 .. Len(encoder) : Encoding[i] = encoder[i].request
      /\ Len(Encoding') = Len(encoder') /\ \A i \in 1 .. Len(encoder') : Encoding'[i] = encoder'[i].request
      /\ Encoding \in Seq(Requests)
    BY <1>1, EncodingIs DEF Encoding
<1>4. Len(encoder) \in Nat \ {0} /\ Len(encoder') = Len(encoder) - 1
    BY <1>1, <1>2 DEF IsTail
<1>5. IsTail(Encoding', Encoding) /\ Encoding[1] = r /\ r \in Requests
    <2>1. Encoding # <<>>
        BY <1>3, <1>4, EmptyHasNoLength
    <2>2. \A i \in 1 .. Len(Encoding') : Encoding'[i] = Encoding[i + 1]
        <3> SUFFICES ASSUME NEW i \in 1 .. Len(encoder') PROVE Encoding'[i] = Encoding[i + 1]
            BY <1>3
        <3>1. i + 1 \in 1 .. Len(encoder)
            BY <1>4
        <3>2. encoder'[i] = encoder[i + 1]
            BY <1>2 DEF IsTail
        <3> QED BY <1>3, <3>1, <3>2
    <2>3. 1 \in 1 .. Len(encoder)
        BY <1>4
    <2>4. Encoding[1] = r
        BY <1>2, <1>3, <2>3
    <2>5. r \in Requests
        BY <1>3, <2>3, <2>4
    <2> QED BY <1>3, <1>4, <2>1, <2>2, <2>4, <2>5 DEF IsTail
<1>6. IsAppend(reuse_queue', reuse_queue, Encoding[1])
    BY <1>1, <1>5, TailAppendAre
<1>7. UNCHANGED <<camera, processing_queue, request, kept, queued>> /\ InRequestComplete' = InRequestComplete
    BY DEF reuse_request, complete, ending, InRequestComplete
<1>8. \A o \in Place \ {"encoder", "reuse"} : Held'[o] = Held[o]
    BY <1>7, HeldIs DEF Place
<1>9. {"encoder", "reuse"} \subseteq Place /\ "encoder" # "reuse"
    BY DEF Place
<1> QED BY <1>5, <1>6, <1>7, <1>8, <1>9, HeldIs, Goes DEF TypeInv

LEMMA DrainOwns == TypeInv /\ TypeInv' /\ OwnInv /\ Drain => OwnInv'
<1> SUFFICES ASSUME TypeInv, TypeInv', OwnInv, Drain PROVE OwnInv'
    OBVIOUS
<1>0. UNCHANGED <<processing_queue, encoder, request, kept, queued>> /\ Encoding' = Encoding
      /\ InRequestComplete' = InRequestComplete
    BY DEF Drain, coder, ending, complete, Encoding, InRequestComplete
<1>1. CASE reuse_queue = <<>>
    BY <1>0, <1>1, Stays DEF Drain
<1>2. CASE reuse_queue # <<>>
    <2>1. /\ camera \in Seq(Requests) /\ reuse_queue \in Seq(Requests) /\ reuse_queue' = Tail(reuse_queue)
          /\ camera' = Append(camera, Head(reuse_queue))
        BY <1>2 DEF TypeInv, TypeOK, Drain, Drained
    <2>2. IsTail(reuse_queue', reuse_queue) /\ Head(reuse_queue) = reuse_queue[1]
          /\ Head(reuse_queue) \in Requests
        BY <1>2, <2>1, TailAppendAre
    <2>3. IsAppend(camera', camera, reuse_queue[1])
        BY <2>1, <2>2, TailAppendAre
    <2>4. \A o \in Place \ {"reuse", "camera"} : Held'[o] = Held[o]
        BY <1>0, HeldIs DEF Place
    <2>5. {"reuse", "camera"} \subseteq Place /\ "reuse" # "camera"
        BY DEF Place
    <2> QED BY <1>0, <2>2, <2>3, <2>4, <2>5, HeldIs, Goes DEF TypeInv
<1> QED BY <1>1, <1>2

LEMMA CancelledOwns == TypeInv /\ TypeInv' /\ OwnInv /\ CancelledInDrain => OwnInv'
<1> SUFFICES ASSUME TypeInv, TypeInv', OwnInv, CancelledInDrain PROVE OwnInv'
    OBVIOUS
<1>0. UNCHANGED <<camera, processing_queue, encoder, kept, queued>> /\ Encoding' = Encoding
      /\ InRequestComplete' = InRequestComplete
    BY DEF CancelledInDrain, coder, ending, complete, Encoding, InRequestComplete
<1>1. /\ reuse_queue \in Seq(Requests) /\ reuse_queue # <<>> /\ reuse_queue' = Tail(reuse_queue)
      /\ request = Nobody /\ request' = Head(reuse_queue)
    BY DEF TypeInv, TypeOK, ThreadInv, CancelledInDrain, Drained
<1>2. IsTail(reuse_queue', reuse_queue) /\ Head(reuse_queue) = reuse_queue[1]
      /\ Head(reuse_queue) \in Requests
    BY <1>1, TailAppendAre
<1>3. IsAppend(OneOf(request'), OneOf(request), reuse_queue[1])
    BY <1>1, <1>2, OneOfGoes
<1>4. \A o \in Place \ {"reuse", "request"} : Held'[o] = Held[o]
    BY <1>0, HeldIs DEF Place
<1>5. {"reuse", "request"} \subseteq Place /\ "reuse" # "request"
    BY DEF Place
<1> QED BY <1>0, <1>2, <1>3, <1>4, <1>5, HeldIs, Goes DEF TypeInv

LEMMA TakeOwns == TypeInv /\ TypeInv' /\ OwnInv /\ Take => OwnInv'
<1> SUFFICES ASSUME TypeInv, TypeInv', OwnInv, Take PROVE OwnInv'
    OBVIOUS
<1>0. UNCHANGED <<camera, reuse_queue, encoder, queued>> /\ Encoding' = Encoding
      /\ InRequestComplete' = InRequestComplete /\ request = Nobody
    BY DEF Take, coder, ending, complete, Encoding, InRequestComplete, TypeInv, ThreadInv
<1>1. CASE processing_queue = <<>>
    BY <1>0, <1>1, Stays DEF Take
<1>2. CASE processing_queue # <<>>
    <2> DEFINE r == Head(processing_queue)
    <2>1. processing_queue \in Seq(Requests) /\ processing_queue' = Tail(processing_queue)
        BY <1>2 DEF TypeInv, TypeOK, Take
    <2>2. /\ IsTail(processing_queue', processing_queue) /\ r = processing_queue[1] /\ r \in Requests
        BY <1>2, <2>1, TailAppendAre
    <2>3. CASE kept = Nobody
        <3>1. kept' = r /\ UNCHANGED request
            BY <1>2, <2>3 DEF Take
        <3>2. IsAppend(OneOf(kept'), OneOf(kept), processing_queue[1])
            BY <2>2, <2>3, <3>1, OneOfGoes
        <3>3. \A o \in Place \ {"processing", "kept"} : Held'[o] = Held[o]
            BY <1>0, <3>1, HeldIs DEF Place
        <3>4. {"processing", "kept"} \subseteq Place /\ "processing" # "kept"
            BY DEF Place
        <3> QED BY <1>0, <2>2, <3>2, <3>3, <3>4, HeldIs, Goes DEF TypeInv
    <2>4. CASE kept # Nobody
        <3>1. request' = r /\ UNCHANGED kept
            BY <1>2, <2>4 DEF Take
        <3>2. IsAppend(OneOf(request'), OneOf(request), processing_queue[1])
            BY <1>0, <2>2, <3>1, OneOfGoes
        <3>3. \A o \in Place \ {"processing", "request"} : Held'[o] = Held[o]
            BY <1>0, <3>1, HeldIs DEF Place
        <3>4. {"processing", "request"} \subseteq Place /\ "processing" # "request"
            BY DEF Place
        <3> QED BY <1>0, <2>2, <3>2, <3>3, <3>4, HeldIs, Goes DEF TypeInv
    <2> QED BY <2>3, <2>4
<1> QED BY <1>1, <1>2

LEMMA DecideOwns == TypeInv /\ TypeInv' /\ OwnInv /\ (Motion \/ NoMotion \/ NoCheck) => OwnInv'
<1> SUFFICES ASSUME TypeInv, TypeInv', OwnInv, Motion \/ NoMotion \/ NoCheck PROVE OwnInv'
    OBVIOUS
<1>0. /\ UNCHANGED <<processing_queue, reuse_queue, kept, queued>>
      /\ InRequestComplete' = InRequestComplete /\ request \in Requests /\ request' = Nobody
      /\ camera \in Seq(Requests)
      /\ Return \/ \E first, last : encoder_enqueue(first, last)
    BY DEF Motion, NoMotion, NoCheck, Return, encoder_enqueue, ending, complete, InRequestComplete, TypeInv,
       TypeOK, ThreadInv
<1>1. IsTail(OneOf(request'), OneOf(request)) /\ OneOf(request)[1] = request
    BY <1>0, OneOfGoes
<1>2. CASE Return
    <2>1. camera' = Append(camera, request) /\ Encoding' = Encoding
        BY <1>2 DEF Return, coder, Encoding
    <2>2. IsAppend(camera', camera, request)
        BY <1>0, <2>1, TailAppendAre
    <2>3. \A o \in Place \ {"request", "camera"} : Held'[o] = Held[o]
        BY <1>0, <2>1, HeldIs DEF Place
    <2>4. {"request", "camera"} \subseteq Place /\ "request" # "camera"
        BY DEF Place
    <2> QED BY <1>0, <1>1, <2>2, <2>3, <2>4, HeldIs, Goes DEF TypeInv
<1>3. ASSUME NEW first, NEW last, encoder_enqueue(first, last) PROVE OwnInv'
    <2> DEFINE e == [request |-> request, first |-> first, last |-> last]
    <2>1. /\ UNCHANGED camera /\ encoder \in Seq(Enqueued) /\ encoder' \in Seq(Enqueued)
          /\ encoder' = Append(encoder, e) /\ e.request = request
        BY <1>3 DEF encoder_enqueue, TypeInv, TypeOK, Enqueued
    <2> DEFINE n == Len(encoder)
    <2> HIDE DEF e
    <2>2. /\ n \in Nat /\ Len(encoder') = n + 1 /\ encoder'[n + 1] = e
          /\ \A i \in 1 .. n : encoder'[i] = encoder[i]
        BY <2>1
    <2>3. /\ Len(Encoding) = n /\ \A i \in 1 .. n : Encoding[i] = encoder[i].request
          /\ Len(Encoding') = n + 1 /\ \A i \in 1 .. n + 1 : Encoding'[i] = encoder'[i].request
        BY <2>1, <2>2, EncodingIs DEF Encoding
    <2>4. IsAppend(Encoding', Encoding, request)
        <3>1. n + 1 \in 1 .. n + 1 /\ \A i \in 1 .. n : i \in 1 .. n + 1
            BY <2>2
        <3>2. Encoding'[n + 1] = request
            BY <2>1, <2>2, <2>3, <3>1
        <3>3. \A i \in 1 .. n : Encoding'[i] = Encoding[i]
            BY <2>2, <2>3, <3>1
        <3> QED BY <2>3, <3>2, <3>3 DEF IsAppend
    <2>5. \A o \in Place \ {"request", "encoder"} : Held'[o] = Held[o]
        BY <1>0, <2>1, HeldIs DEF Place
    <2>6. {"request", "encoder"} \subseteq Place /\ "request" # "encoder"
        BY DEF Place
    <2> QED BY <1>0, <1>1, <2>4, <2>5, <2>6, HeldIs, Goes DEF TypeInv
<1> QED BY <1>0, <1>2, <1>3

LEMMA QueueOwns == TypeInv /\ TypeInv' /\ OwnInv /\ QueueRequest => OwnInv'
<1> SUFFICES ASSUME TypeInv, TypeInv', OwnInv, QueueRequest PROVE OwnInv'
    OBVIOUS
<1>0. UNCHANGED <<processing_queue, reuse_queue, encoder, request, kept>> /\ Encoding' = Encoding
      /\ InRequestComplete' = InRequestComplete
    BY DEF QueueRequest, coder, complete, Encoding, InRequestComplete
<1> DEFINE f == Held
           g == Held'
           U == 1 .. queued
           x == queued + 1
<1>1. camera \in Seq(Requests) /\ camera' = Append(camera, x) /\ queued' = x /\ queued \in Nat
      /\ queued < N
    BY RequestLoopConstants DEF TypeInv, TypeOK, QueueRequest
<1>2. x \in Requests /\ x \notin U /\ 1 .. queued' = U \cup {x}
    BY <1>1, RequestLoopConstants DEF Requests
<1>3. IsAppend(g["camera"], f["camera"], x)
    BY <1>1, <1>2, TailAppendAre, HeldIs
<1>4. \A o \in Place \ {"camera"} : g[o] = f[o]
    BY <1>0, HeldIs DEF Place
<1>5. "camera" \in Place /\ Apart(f, U)
    BY DEF Place, OwnInv
<1>6. f \in [Place -> Seq(Requests)] /\ g \in [Place -> Seq(Requests)]
    BY HeldTypes, HeldTypesNext DEF TypeInv
<1> HIDE DEF f, g, U, x
<1>7. Apart(g, U \cup {x})
    BY <1>2, <1>3, <1>4, <1>5, <1>6, CameIn
<1> QED BY <1>2, <1>7 DEF OwnInv, g

LEMMA OwnStep == TypeInv /\ OwnInv /\ [Next]_vars => OwnInv'
<1> SUFFICES ASSUME TypeInv, OwnInv, [Next]_vars PROVE OwnInv'
    OBVIOUS
<1>0. TypeInv'
    BY TypeStep
<1>1. CASE Stamp \/ Count
    <2>1. InRequestComplete' = InRequestComplete
        BY <1>1 DEF Stamp, Count, InRequestComplete, OneOf
    <2> QED BY <1>1, <2>1, Stays DEF Stamp, Count, queues, coder, ending
<1>2. CASE Top \/ Requeued \/ Taken \/ Cancelled
    BY <1>2, Stays DEF Top, Requeued, Taken, Cancelled, queues, coder, ending, complete, InRequestComplete
<1>3. CASE CountQueued \/ Control
    <2>1. /\ UNCHANGED <<camera, processing_queue, reuse_queue, encoder, request, kept, queued>>
          /\ InRequestComplete' = InRequestComplete
        BY <1>3, ControlIs DEF CountQueued, MainRest, queues, coder, complete, InRequestComplete
    <2> QED BY <2>1, Stays
<1>4. CASE UNCHANGED vars
    BY <1>4, Stays DEF vars, queues, coder, complete, ending, InRequestComplete
<1> QED BY <1>0, <1>1, <1>2, <1>3, <1>4, CompleteOwns, PushOwns, ReuseOwns, DrainOwns, CancelledOwns, TakeOwns,
           DecideOwns, QueueOwns, NextIs DEF Camera, Processing

LEMMA InitOwns == Init => OwnInv
<1> SUFFICES ASSUME Init PROVE OwnInv
    OBVIOUS
<1>1. /\ camera = <<>> /\ processing_queue = <<>> /\ reuse_queue = <<>> /\ Encoding = <<>>
      /\ InRequestComplete = <<>> /\ OneOf(request) = <<>> /\ OneOf(kept) = <<>> /\ queued = 0
    BY DEF Init, Encoding, InRequestComplete, OneOf
<1>2. \A p \in Place : Held[p] = <<>>
    BY <1>1, HeldIs DEF Place
<1>3. Elems(<<>>) = {} /\ Distinct(<<>>)
    BY DEF Elems, Distinct
<1>4. 1 .. queued = {}
    BY <1>1
<1> QED BY <1>2, <1>3, <1>4 DEF OwnInv, Apart

LEMMA HasElems ==
    ASSUME NEW S, NEW s \in Seq(S)
    PROVE  s \in Seq(Elems(s))
<1>1. Len(s) \in Nat /\ s \in [1 .. Len(s) -> S]
    OBVIOUS
<1>2. s \in [1 .. Len(s) -> Elems(s)]
    <2>1. \A i \in 1 .. Len(s) : s[i] \in Elems(s)
        BY DEF Elems
    <2> QED BY <1>1, <2>1
<1> QED BY <1>1, <1>2, SeqDef

LEMMA OwnedIsApart == TypeOK /\ OwnInv => OneOwner
<1> SUFFICES ASSUME TypeOK, OwnInv PROVE OneOwner
    OBVIOUS
<1>1. /\ completing \in Requests \cup {Nobody} /\ request \in Requests \cup {Nobody}
      /\ kept \in Requests \cup {Nobody} /\ encoder \in Seq(Enqueued)
      /\ camera \in Seq(Requests) /\ processing_queue \in Seq(Requests) /\ reuse_queue \in Seq(Requests)
      /\ queued \in Nat
    <2>1. FlowOK /\ queued \in 0 .. N /\ N \in Nat
        BY RequestLoopConstants, TypeParts DEF EndOK
    <2>2. queued \in Nat
        BY <2>1
    <2> QED BY <2>1, <2>2 DEF FlowOK, Enqueued
<1>2. Encoding \in Seq(Requests) /\ InRequestComplete \in Seq(Requests)
      /\ OneOf(request) \in Seq(Requests) /\ OneOf(kept) \in Seq(Requests)
    BY <1>1, OneOfIs, EncodingIs DEF Encoding, InRequestComplete
<1>3. \A p \in Place : Distinct(Held[p])
    BY DEF OwnInv, Apart
<1>4. \A p, q \in Place : p # q => Elems(Held[p]) \cap Elems(Held[q]) = {}
    BY DEF OwnInv, Apart
<1>5. 1 .. queued = UNION {Elems(Held[p]) : p \in Place}
    BY DEF OwnInv, Apart
<1> DEFINE c == Elems(camera)
           m == Elems(InRequestComplete)
           p == Elems(processing_queue)
           r == Elems(OneOf(request))
           k == Elems(OneOf(kept))
           e == Elems(Encoding)
           u == Elems(reuse_queue)
<1>6. /\ Distinct(camera) /\ Distinct(InRequestComplete) /\ Distinct(processing_queue)
      /\ Distinct(OneOf(request)) /\ Distinct(OneOf(kept)) /\ Distinct(Encoding) /\ Distinct(reuse_queue)
    BY <1>3, HeldIs DEF Place
<1>7. /\ c \cap m = {} /\ c \cap p = {} /\ c \cap r = {} /\ c \cap k = {} /\ c \cap e = {} /\ c \cap u = {}
      /\ m \cap p = {} /\ m \cap r = {} /\ m \cap k = {} /\ m \cap e = {} /\ m \cap u = {}
      /\ p \cap r = {} /\ p \cap k = {} /\ p \cap e = {} /\ p \cap u = {}
      /\ r \cap k = {} /\ r \cap e = {} /\ r \cap u = {} /\ k \cap e = {} /\ k \cap u = {} /\ e \cap u = {}
    BY <1>4, HeldIs DEF Place
<1>8. 1 .. queued = c \cup m \cup p \cup r \cup k \cup e \cup u
    BY <1>5, HeldIs DEF Place
<1> DEFINE s1 == camera \o InRequestComplete
           s2 == s1 \o processing_queue
           s3 == s2 \o OneOf(request)
           s4 == s3 \o OneOf(kept)
           s5 == s4 \o Encoding
           s6 == s5 \o reuse_queue
<1>9. Owned = s6
    BY DEF Owned, Encoding
<1> HIDE DEF s6, c, m, p, r, k, e, u
<1>10. s1 \in Seq(Requests) /\ Distinct(s1) /\ Elems(s1) = c \cup m
    BY <1>1, <1>2, <1>6, <1>7, Joined DEF c, m
<1> HIDE DEF s1
<1>11. s2 \in Seq(Requests) /\ Distinct(s2) /\ Elems(s2) = c \cup m \cup p
    <2>1. Elems(s1) \cap Elems(processing_queue) = {}
        BY <1>7, <1>10 DEF p
    <2> QED BY <1>1, <1>6, <1>10, <2>1, Joined DEF p
<1> HIDE DEF s2
<1>12. s3 \in Seq(Requests) /\ Distinct(s3) /\ Elems(s3) = c \cup m \cup p \cup r
    <2>1. Elems(s2) \cap Elems(OneOf(request)) = {}
        BY <1>7, <1>11 DEF r
    <2> QED BY <1>2, <1>6, <1>11, <2>1, Joined DEF r
<1> HIDE DEF s3
<1>13. s4 \in Seq(Requests) /\ Distinct(s4) /\ Elems(s4) = c \cup m \cup p \cup r \cup k
    <2>1. Elems(s3) \cap Elems(OneOf(kept)) = {}
        BY <1>7, <1>12 DEF k
    <2> QED BY <1>2, <1>6, <1>12, <2>1, Joined DEF k
<1> HIDE DEF s4
<1>14. s5 \in Seq(Requests) /\ Distinct(s5) /\ Elems(s5) = c \cup m \cup p \cup r \cup k \cup e
    <2>1. Elems(s4) \cap Elems(Encoding) = {}
        BY <1>7, <1>13 DEF e
    <2> QED BY <1>2, <1>6, <1>13, <2>1, Joined DEF e
<1> HIDE DEF s5
<1>15. s6 \in Seq(Requests) /\ Distinct(s6) /\ Elems(s6) = 1 .. queued
    <2>1. Elems(s5) \cap Elems(reuse_queue) = {}
        BY <1>7, <1>14 DEF u
    <2>2. s6 \in Seq(Requests) /\ Distinct(s6) /\ Elems(s6) = Elems(s5) \cup Elems(reuse_queue)
        BY <1>1, <1>6, <1>14, <2>1, Joined DEF s6
    <2>3. Elems(s5) \cup Elems(reuse_queue) = 1 .. queued
        BY <1>8, <1>14 DEF u
    <2> QED BY <2>2, <2>3
<1>16. s6 \in Seq(1 .. queued)
    BY <1>15, HasElems
<1>17. Len(s6) = queued /\ Cardinality(Elems(s6)) = queued
    BY <1>1, <1>15, <1>16, DistinctLength
<1>18. {s6[i] : i \in DOMAIN s6} = Elems(s6)
    BY <1>15 DEF Elems
<1> QED BY <1>9, <1>17, <1>18 DEF OneOwner

\* Each request that was queued is in one place: no buffer is filled while it is
\* read or encoded, and none is lost (libcamera-version/src/main.cpp 217-624).
THEOREM EachRequestHasOneOwner == Spec => []OneOwner
<1>1. TypeInv => TypeOK
    BY DEF TypeInv
<1> QED BY <1>1, InitTypes, InitOwns, TypeStep, OwnStep, OwnedIsApart, PTL DEF Spec

-----------------------------------------------------------------------------
(* A starving thread *)

\* From the drain until it waits the thread takes nothing from the two that
\* hold what is away, and it waits only for an empty queue.
WaitInv ==
    /\ thread \in {"lock", "asleep"} => away = Elems(Encoding) \cup Elems(reuse_queue)
    /\ thread = "asleep" => processing_queue = <<>>

LEMMA EncodingHas == TypeOK => AtEncoder = Elems(Encoding)
<1> SUFFICES ASSUME TypeOK PROVE AtEncoder = Elems(Encoding)
    OBVIOUS
<1>1. encoder \in Seq(Enqueued)
    BY DEF TypeOK, Enqueued
<1>2. Len(Encoding) = Len(encoder) /\ \A i \in 1 .. Len(encoder) : Encoding[i] = encoder[i].request
    BY <1>1, EncodingIs DEF Encoding
<1>3. DOMAIN encoder = 1 .. Len(encoder)
    BY <1>1
<1> QED BY <1>2, <1>3 DEF AtEncoder, Elems

\* What the encoder gives back stays away until the next drain.
LEMMA ReuseWaits == TypeInv /\ TypeInv' /\ OwnInv /\ WaitInv /\ reuse_request => WaitInv'
<1> SUFFICES ASSUME TypeInv, TypeInv', OwnInv, WaitInv, reuse_request PROVE WaitInv'
    OBVIOUS
<1>1. OwnInv'
    BY ReuseOwns
<1>2. UNCHANGED <<camera, processing_queue, request, kept, queued, thread, away>>
      /\ InRequestComplete' = InRequestComplete
    BY DEF reuse_request, complete, ending, InRequestComplete
<1> DEFINE O == {"camera", "completing", "processing", "request", "kept"}
<1>3. /\ \A r : r \in 1 .. queued <=> \E p \in Place : r \in Elems(Held[p])
      /\ \A r : r \in 1 .. queued <=> \E p \in Place : r \in Elems(Held'[p])
    BY <1>1, <1>2 DEF OwnInv, Apart
<1>4. \A p \in O : Held'[p] = Held[p]
    BY <1>2, HeldIs
<1>5. \A p \in O : /\ Elems(Held[p]) \cap Elems(Held["encoder"]) = {}
                   /\ Elems(Held[p]) \cap Elems(Held["reuse"]) = {}
                   /\ Elems(Held'[p]) \cap Elems(Held'["encoder"]) = {}
                   /\ Elems(Held'[p]) \cap Elems(Held'["reuse"]) = {}
    BY <1>1 DEF OwnInv, Apart, Place
<1>6. Place = O \cup {"encoder", "reuse"}
    BY DEF Place
<1>7. Elems(Held["encoder"]) \cup Elems(Held["reuse"])
      = Elems(Held'["encoder"]) \cup Elems(Held'["reuse"])
    BY <1>3, <1>4, <1>5, <1>6
<1>8. Elems(Encoding) \cup Elems(reuse_queue) = Elems(Encoding') \cup Elems(reuse_queue')
    BY <1>7, HeldIs
<1>9. Elems(Encoding)' = Elems(Encoding') /\ Elems(reuse_queue)' = Elems(reuse_queue')
    BY DEF Elems
<1> QED BY <1>2, <1>8, <1>9 DEF WaitInv

\* A step that leaves alone what is away.
LEMMA Waits ==
    ASSUME WaitInv, UNCHANGED <<encoder, reuse_queue, away>>,
           thread' \in {"lock", "asleep"} => thread \in {"lock", "asleep"},
           thread' = "asleep" => processing_queue' = <<>>
    PROVE  WaitInv'
<1>1. Encoding' = Encoding
    BY DEF Encoding
<1>2. Elems(Encoding)' = Elems(Encoding) /\ Elems(reuse_queue)' = Elems(reuse_queue)
    BY <1>1 DEF Elems
<1> QED BY <1>2 DEF WaitInv

LEMMA WaitStep == TypeInv /\ OwnInv /\ WaitInv /\ [Next]_vars => WaitInv'
<1> SUFFICES ASSUME TypeInv, OwnInv, WaitInv, [Next]_vars PROVE WaitInv'
    OBVIOUS
<1>0. TypeInv'
    BY TypeStep
<1>1. CASE Motion \/ NoMotion \/ NoCheck \/ Top \/ Requeued \/ Taken \/ Cancelled \/ CancelledInDrain
    <2>1. thread' \notin {"lock", "asleep"}
        BY <1>1 DEF Motion, NoMotion, NoCheck, encoder_enqueue, Return, Top, NextPass, Requeued, Taken,
                    Cancelled, CancelledInDrain
    <2> QED BY <2>1 DEF WaitInv
<1>2. CASE Drain
    <2>1. CASE reuse_queue = <<>>
        <3>1. thread' = "lock" /\ away' = AtEncoder /\ UNCHANGED <<encoder, reuse_queue>>
            BY <1>2, <2>1 DEF Drain, coder
        <3>2. Elems(reuse_queue) = {}
            BY <2>1 DEF Elems
        <3>3. Encoding' = Encoding /\ reuse_queue' = reuse_queue
            BY <3>1 DEF Encoding
        <3>4. AtEncoder = Elems(Encoding)
            BY EncodingHas DEF TypeInv
        <3> QED BY <3>1, <3>2, <3>3, <3>4 DEF WaitInv, Elems
    <2>2. CASE reuse_queue # <<>>
        BY <1>2, <2>2 DEF Drain, WaitInv
    <2> QED BY <2>1, <2>2
<1>3. CASE Take
    <2>1. UNCHANGED <<encoder, reuse_queue, away>> /\ thread = "lock"
          /\ (thread' \in {"lock", "asleep"} => processing_queue = <<>> /\ UNCHANGED processing_queue)
        BY <1>3 DEF Take, coder
    <2> QED BY <2>1, Waits
<1>4. CASE Control
    <2>0. UNCHANGED <<encoder, reuse_queue, away, processing_queue>>
        BY <1>4, ControlIs DEF MainRest, coder, queues
    <2>1. CASE UNCHANGED thread \/ thread' = Woken
        <3>1. thread' = thread \/ (thread' # "asleep" /\ (thread' = "lock" => thread \in {"lock", "asleep"}))
            BY <2>1 DEF Woken
        <3> QED BY <2>0, <3>1, Waits DEF WaitInv
    <2>2. CASE main = "queue" /\ thread' = "lock"
        <3>1. away = {} /\ encoder = <<>> /\ reuse_queue = <<>>
            BY <2>2 DEF TypeInv, ThreadInv
        <3>2. Encoding = <<>> /\ Elems(<<>>) = {}
            BY <3>1 DEF Encoding, Elems
        <3>3. Encoding' = Encoding /\ reuse_queue' = reuse_queue
            BY <2>0 DEF Encoding
        <3> QED BY <2>0, <2>2, <3>1, <3>2, <3>3 DEF WaitInv, Elems
    <2> QED BY <1>4, <2>1, <2>2, ControlIs
<1>5. CASE Push
    <2>1. UNCHANGED <<encoder, reuse_queue, away>> /\ thread' = Woken
        BY <1>5 DEF Push, coder
    <2>2. thread' # "asleep" /\ (thread' = "lock" => thread \in {"lock", "asleep"})
        BY <2>1 DEF Woken
    <2> QED BY <2>1, <2>2, Waits
<1>6. CASE Complete \/ Stamp \/ Count \/ QueueRequest \/ CountQueued \/ UNCHANGED vars
    <2>1. UNCHANGED <<thread, away, encoder, reuse_queue, processing_queue>>
        BY <1>6 DEF Complete, Stamp, Count, QueueRequest, CountQueued, vars, coder, queues
    <2> QED BY <2>1, Waits DEF WaitInv
<1> QED BY <1>0, <1>1, <1>2, <1>3, <1>4, <1>5, <1>6, ReuseWaits, NextIs DEF Camera, Processing

LEMMA WaitMeans == TypeInv /\ OwnInv /\ WaitInv => StarvedOnlyByEncoder
<1> SUFFICES ASSUME TypeInv, OwnInv, WaitInv, Starved PROVE away = Requests \ {kept}
    BY DEF StarvedOnlyByEncoder
<1>1. /\ camera = <<>> /\ processing_queue = <<>> /\ request = Nobody /\ InRequestComplete = <<>>
      /\ queued = N /\ away = Elems(Encoding) \cup Elems(reuse_queue)
      /\ kept \in Requests \cup {Nobody}
    BY DEF Starved, WaitInv, TypeInv, TypeOK, ThreadInv, InRequestComplete, OneOf
<1>2. Elems(<<>>) = {} /\ OneOf(request) = <<>>
    BY <1>1 DEF Elems, OneOf
<1>3. Elems(OneOf(kept)) = {kept} \ {Nobody}
    <2>1. CASE kept = Nobody
        BY <1>2, <2>1 DEF OneOf
    <2>2. CASE kept # Nobody
        <3>1. Len(OneOf(kept)) = 1 /\ OneOf(kept)[1] = kept
            BY <1>1, <2>2, OneOfIs
        <3> QED BY <2>2, <3>1 DEF Elems
    <2> QED BY <2>1, <2>2
<1>4. Requests = UNION {Elems(Held[p]) : p \in Place}
    BY <1>1 DEF OwnInv, Apart, Requests
<1>5. Requests = Elems(OneOf(kept)) \cup away
    BY <1>1, <1>2, <1>4, HeldIs DEF Place
<1>6. Elems(OneOf(kept)) \cap away = {}
    <2>1. /\ Elems(Held["kept"]) \cap Elems(Held["encoder"]) = {}
          /\ Elems(Held["kept"]) \cap Elems(Held["reuse"]) = {}
        BY DEF OwnInv, Apart, Place
    <2> QED BY <1>1, <2>1, HeldIs
<1> QED BY <1>3, <1>5, <1>6, NobodyIsNone

\* Only the encoder starves the processing thread: when that waits and the camera
\* has no request, the encoder had all but the first at the last drain
\* (libcamera-version/src/main.cpp 241).
THEOREM OnlyEncoderStarves == Spec => []StarvedOnlyByEncoder
<1>1. Init => WaitInv
    BY DEF Init, WaitInv
<1> QED BY <1>1, InitTypes, InitOwns, TypeStep, OwnStep, WaitStep, WaitMeans, PTL DEF Spec

-----------------------------------------------------------------------------
(* The metrics *)

\* What is between a queue and its metric.
Unstamped == One(completing # Nobody /\ at = "stamp")
Uncounted == One(thread \in {"requeued", "returned"})
Unpushed  == One(at = "count")
Untaken   == One(thread = "taken")
First     == One(kept # Nobody)
Queueing  == One(main = "count")

LEMMA MetricTerms ==
    ASSUME TypeOK
    PROVE  /\ Len(camera) \in Nat /\ Len(processing_queue) \in Nat
           /\ cameraMetric \in Int /\ queueMetric \in Int
           /\ Unstamped \in 0 .. 1 /\ Uncounted \in 0 .. 1 /\ Unpushed \in 0 .. 1 /\ Untaken \in 0 .. 1
           /\ First \in 0 .. 1 /\ Queueing \in 0 .. 1
<1>1. \A b : One(b) \in 0 .. 1
    BY DEF One
<1>2. camera \in Seq(Requests) /\ processing_queue \in Seq(Requests)
      /\ cameraMetric \in Int /\ queueMetric \in Int
    BY DEF TypeOK
<1> QED BY <1>1, <1>2 DEF Unstamped, Uncounted, Unpushed, Untaken, First, Queueing

LEMMA MetricsAre ==
    /\ MetricsCount <=> /\ cameraMetric = Len(camera) + Unstamped - Uncounted - Queueing
                        /\ queueMetric = Len(processing_queue) - Unpushed + Untaken + First
    /\ MetricsCount' <=> /\ cameraMetric' = Len(camera') + Unstamped' - Uncounted' - Queueing'
                         /\ queueMetric' = Len(processing_queue') - Unpushed' + Untaken' + First'
BY DEF MetricsCount, Unstamped, Uncounted, Unpushed, Untaken, First, Queueing

LEMMA CameraCounts == TypeInv /\ MetricsCount /\ Camera => MetricsCount'
<1> SUFFICES ASSUME TypeInv, MetricsCount, Camera PROVE MetricsCount'
    OBVIOUS
<1>0. UNCHANGED Queueing
    BY DEF Camera, Complete, Stamp, Push, Count, ending, Queueing
<1> USE DEF TypeInv
<1>1. CASE Complete
    <2>0. camera \in Seq(Requests) /\ camera # <<>>
        BY <1>1 DEF Complete, TypeOK
    <2>1. /\ camera \in Seq(Requests) /\ camera # <<>> /\ camera' = Tail(camera)
          /\ UNCHANGED <<processing_queue, cameraMetric, queueMetric, thread, kept>>
          /\ completing = Nobody /\ at = "stamp" /\ at' = "stamp" /\ completing' # Nobody
        <3>1. Head(camera) \in Requests
            BY <2>0
        <3> QED BY <1>1, <2>0, <3>1, NobodyIsNone DEF Complete, ThreadInv, metrics
    <2>2. Len(camera') = Len(camera) - 1 /\ Unstamped = 0 /\ Unstamped' = 1
          /\ UNCHANGED <<Uncounted, Unpushed, Untaken, First>>
        BY <2>1 DEF Unstamped, Uncounted, Unpushed, Untaken, First, One
    <2> QED BY <1>0, <2>1, <2>2, MetricsAre, MetricTerms
<1>2. CASE Stamp
    <2>1. /\ UNCHANGED <<camera, processing_queue, queueMetric, thread, kept>>
          /\ cameraMetric' = cameraMetric - 1
          /\ completing # Nobody /\ at = "stamp" /\ at' = "push"
        BY <1>2 DEF Stamp, queues
    <2>2. /\ Unstamped = 1 /\ Unstamped' = 0
          /\ UNCHANGED <<Uncounted, Unpushed, Untaken, First>>
        BY <2>1 DEF Unstamped, Uncounted, Unpushed, Untaken, First, One
    <2> QED BY <1>0, <2>1, <2>2, MetricsAre, MetricTerms
<1>3. CASE Push
    <2>1. /\ processing_queue \in Seq(Requests) /\ completing \in Requests
          /\ processing_queue' = Append(processing_queue, completing)
          /\ UNCHANGED <<camera, completing, cameraMetric, queueMetric, kept>>
          /\ at = "push" /\ at' = "count" /\ thread' = Woken
        BY <1>3 DEF Push, TypeOK, metrics
    <2>2. /\ Len(processing_queue') = Len(processing_queue) + 1
          /\ Unpushed = 0 /\ Unpushed' = 1 /\ UNCHANGED <<Unstamped, Uncounted, Untaken, First>>
        BY <2>1 DEF Unstamped, Uncounted, Unpushed, Untaken, First, One, Woken
    <2> QED BY <1>0, <2>1, <2>2, MetricsAre, MetricTerms
<1>4. CASE Count
    <2>1. /\ UNCHANGED <<camera, processing_queue, cameraMetric, thread, kept>>
          /\ queueMetric' = queueMetric + 1
          /\ at = "count" /\ at' = "stamp" /\ completing' = Nobody
        BY <1>4 DEF Count, queues
    <2>2. /\ Unpushed = 1 /\ Unpushed' = 0 /\ UNCHANGED <<Unstamped, Uncounted, Untaken, First>>
        BY <2>1 DEF Unstamped, Uncounted, Unpushed, Untaken, First, One
    <2> QED BY <1>0, <2>1, <2>2, MetricsAre, MetricTerms
<1> QED BY <1>1, <1>2, <1>3, <1>4 DEF Camera

\* A step that leaves the queues and the metrics as they are.
LEMMA NothingCounted ==
    ASSUME MetricsCount,
           UNCHANGED <<camera, completing, at, processing_queue, kept, cameraMetric, queueMetric>>,
           UNCHANGED Queueing,
           thread' = thread \/ {thread, thread'} \cap {"requeued", "returned", "taken"} = {}
    PROVE  MetricsCount'
<1>1. UNCHANGED <<Unstamped, Uncounted, Unpushed, Untaken, First>>
    BY DEF Unstamped, Uncounted, Unpushed, Untaken, First, One
<1> QED BY <1>1, MetricsAre

LEMMA ProcessingCounts == TypeInv /\ MetricsCount /\ Processing => MetricsCount'
<1> SUFFICES ASSUME TypeInv, MetricsCount, Processing PROVE MetricsCount'
    OBVIOUS
<1> USE DEF TypeInv
<1>0. UNCHANGED <<completing, at, Queueing>>
    BY DEF Processing, Top, Drain, Requeued, Take, Taken, Motion, NoMotion, NoCheck, Cancelled,
           CancelledInDrain, complete, ending, Queueing
<1>1. CASE Top
    BY <1>0, <1>1, NothingCounted DEF Top, NextPass, complete, queues, metrics
<1>2. CASE Drain
    <2>1. CASE reuse_queue = <<>>
        BY <1>0, <1>2, <2>1, NothingCounted DEF Drain, complete, metrics
    <2>2. CASE reuse_queue # <<>>
        <3>1. /\ camera \in Seq(Requests) /\ Head(reuse_queue) \in Requests
              /\ camera' = Append(camera, Head(reuse_queue))
            BY <1>2, <2>2, TailAppendAre, TypeParts DEF Drain, FlowOK
        <3>2. /\ UNCHANGED <<processing_queue, cameraMetric, queueMetric, kept>>
              /\ thread = "drain" /\ thread' = "requeued"
            BY <1>2, <2>2 DEF Drain, metrics
        <3>3. Len(camera') = Len(camera) + 1 /\ Uncounted = 0 /\ Uncounted' = 1
              /\ UNCHANGED <<Unstamped, Unpushed, Untaken, First>>
            BY <1>0, <3>1, <3>2 DEF Unstamped, Uncounted, Unpushed, Untaken, First, One
        <3> QED BY <1>0, <3>2, <3>3, MetricsAre, MetricTerms
    <2> QED BY <2>1, <2>2
<1>3. CASE Requeued
    <2>1. /\ UNCHANGED <<camera, processing_queue, queueMetric, kept>>
          /\ cameraMetric' = cameraMetric + 1
          /\ thread \in {"requeued", "returned"} /\ thread' \in {"drain", "top"}
        BY <1>3 DEF Requeued, Counted, queues
    <2>2. Uncounted = 1 /\ Uncounted' = 0 /\ UNCHANGED <<Unstamped, Unpushed, Untaken, First>>
        BY <1>0, <2>1 DEF Unstamped, Uncounted, Unpushed, Untaken, First, One
    <2> QED BY <1>0, <2>1, <2>2, MetricsAre, MetricTerms
<1>4. CASE Take
    <2>1. CASE processing_queue = <<>>
        BY <1>0, <1>4, <2>1, NothingCounted DEF Take, complete, metrics
    <2>2. CASE processing_queue # <<>>
        <3> DEFINE r == Head(processing_queue)
        <3>1. /\ processing_queue \in Seq(Requests) /\ processing_queue' = Tail(processing_queue)
              /\ r \in Requests /\ UNCHANGED <<camera, cameraMetric, queueMetric>> /\ thread = "lock"
            BY <1>4, <2>2, TypeParts DEF Take, FlowOK, metrics
        <3>2. Len(processing_queue') = Len(processing_queue) - 1
            BY <2>2, <3>1
        <3>3. UNCHANGED <<Unstamped, Uncounted, Unpushed>> /\ Untaken = 0
              /\ \/ First = 0 /\ First' = 1 /\ Untaken' = 0
                 \/ UNCHANGED First /\ Untaken' = 1
            <4>1. CASE kept = Nobody
                <5>1. kept' # Nobody /\ thread' = "top"
                    BY <1>4, <2>2, <3>1, <4>1, NobodyIsNone DEF Take
                <5> QED BY <1>0, <3>1, <4>1, <5>1 DEF Unstamped, Uncounted, Unpushed, Untaken, First, One
            <4>2. CASE kept # Nobody
                <5>1. UNCHANGED kept /\ thread' = "taken"
                    BY <1>4, <2>2, <4>2 DEF Take
                <5> QED BY <1>0, <3>1, <5>1 DEF Unstamped, Uncounted, Unpushed, Untaken, First, One
            <4> QED BY <4>1, <4>2
        <3>4. /\ cameraMetric = Len(camera) + Unstamped - Uncounted - Queueing
              /\ queueMetric = Len(processing_queue) - Unpushed + Untaken + First
            BY MetricsAre
        <3>5. queueMetric' = Len(processing_queue') - Unpushed' + Untaken' + First'
            BY <3>1, <3>2, <3>3, <3>4, MetricTerms
        <3> QED BY <1>0, <3>1, <3>3, <3>4, <3>5, MetricsAre
    <2> QED BY <2>1, <2>2
<1>5. CASE Taken
    <2>1. /\ UNCHANGED <<camera, processing_queue, cameraMetric, kept>>
          /\ queueMetric' = queueMetric - 1
          /\ thread = "taken" /\ thread' \in {"ended", "decide"}
        BY <1>5 DEF Taken, queues
    <2>2. Untaken = 1 /\ Untaken' = 0 /\ UNCHANGED <<Unstamped, Uncounted, Unpushed, First>>
        BY <1>0, <2>1 DEF Unstamped, Uncounted, Unpushed, Untaken, First, One
    <2> QED BY <1>0, <2>1, <2>2, MetricsAre, MetricTerms
<1>6. CASE Motion \/ NoMotion \/ NoCheck
    <2>1. /\ UNCHANGED <<processing_queue, cameraMetric, queueMetric, kept>> /\ thread = "decide"
          /\ Return \/ \E first, last : encoder_enqueue(first, last)
        BY <1>6 DEF Motion, NoMotion, NoCheck, metrics
    <2>2. CASE Return
        <3>1. camera \in Seq(Requests) /\ request \in Requests /\ camera' = Append(camera, request)
              /\ thread' = "returned"
            BY <2>1, <2>2 DEF Return, TypeOK, ThreadInv
        <3>2. Len(camera') = Len(camera) + 1 /\ Uncounted = 0 /\ Uncounted' = 1
              /\ UNCHANGED <<Unstamped, Unpushed, Untaken, First>>
            BY <1>0, <2>1, <3>1 DEF Unstamped, Uncounted, Unpushed, Untaken, First, One
        <3> QED BY <1>0, <2>1, <3>2, MetricsAre, MetricTerms
    <2>3. CASE \E first, last : encoder_enqueue(first, last)
        <3>1. UNCHANGED camera /\ thread' = "top"
            BY <2>3 DEF encoder_enqueue
        <3> QED BY <1>0, <2>1, <3>1, NothingCounted
    <2> QED BY <2>1, <2>2, <2>3
<1>7. CASE Cancelled \/ CancelledInDrain
    BY <1>0, <1>7, NothingCounted DEF Cancelled, CancelledInDrain, PrintsWithMutex, complete, queues, metrics
<1> QED BY <1>1, <1>2, <1>3, <1>4, <1>5, <1>6, <1>7 DEF Processing

LEMMA RestCounts ==
    TypeInv /\ MetricsCount /\ (QueueRequest \/ CountQueued \/ Control \/ reuse_request) => MetricsCount'
<1> SUFFICES ASSUME TypeInv, MetricsCount, QueueRequest \/ CountQueued \/ Control \/ reuse_request
             PROVE  MetricsCount'
    OBVIOUS
<1> USE DEF TypeInv
<1>1. CASE QueueRequest
    <2>1. /\ UNCHANGED <<completing, at, processing_queue, cameraMetric, queueMetric, kept, thread>>
          /\ camera' = Append(camera, queued + 1) /\ camera \in Seq(Requests)
          /\ main = "queue" /\ main' = "count"
        BY <1>1 DEF QueueRequest, complete, metrics, TypeOK
    <2>2. queued + 1 \in Requests
        BY <1>1, RequestLoopConstants DEF QueueRequest, TypeOK, Requests
    <2>3. Len(camera') = Len(camera) + 1
        <3> HIDE DEF TypeInv
        <3> QED BY <2>1, <2>2
    <2>4. UNCHANGED <<Unstamped, Uncounted, Unpushed, Untaken, First>> /\ Queueing = 0 /\ Queueing' = 1
        BY <2>1 DEF Unstamped, Uncounted, Unpushed, Untaken, First, Queueing, One
    <2> QED BY <2>1, <2>3, <2>4, MetricsAre, MetricTerms
<1>2. CASE CountQueued
    <2>1. /\ UNCHANGED <<camera, completing, at, processing_queue, queueMetric, kept, thread>>
          /\ cameraMetric' = cameraMetric + 1 /\ main = "count" /\ main' = "queue"
        BY <1>2 DEF CountQueued, complete, queues
    <2>2. UNCHANGED <<Unstamped, Uncounted, Unpushed, Untaken, First>> /\ Queueing = 1 /\ Queueing' = 0
        BY <2>1 DEF Unstamped, Uncounted, Unpushed, Untaken, First, Queueing, One
    <2> QED BY <2>1, <2>2, MetricsAre, MetricTerms
<1>3. CASE Control
    <2>1. UNCHANGED <<camera, completing, at, processing_queue, kept, cameraMetric, queueMetric>>
        BY <1>3, ControlIs DEF MainRest, complete, queues, metrics
    <2>2. UNCHANGED Queueing
        BY <1>3, ControlIs DEF Queueing
    <2>3. thread' = thread \/ {thread, thread'} \cap {"requeued", "returned", "taken"} = {}
        BY <1>3, ControlIs DEF Woken
    <2> QED BY <2>1, <2>2, <2>3, NothingCounted
<1>4. CASE reuse_request
    <2>1. UNCHANGED <<camera, completing, at, processing_queue, kept, cameraMetric, queueMetric, thread>>
          /\ UNCHANGED Queueing
        BY <1>4 DEF reuse_request, complete, queues, metrics, ending, Queueing
    <2> QED BY <2>1, NothingCounted
<1> QED BY <1>1, <1>2, <1>3, <1>4

\* What main() prints are the lengths of the queues but for the steps under way
\* and the first frame (libcamera-version/src/main.cpp 187-195, 230-232, 604-615,
\* 1027-1033).
THEOREM MetricsAreLengths == Spec => []MetricsCount
<1>1. Init => MetricsCount
    BY DEF Init, MetricsCount, One, Nobody
<1>2. TypeInv /\ MetricsCount /\ [Next]_vars => MetricsCount'
    <2> SUFFICES ASSUME TypeInv, MetricsCount, UNCHANGED vars PROVE MetricsCount'
        BY CameraCounts, ProcessingCounts, RestCounts, NextIs
    <2>1. UNCHANGED <<camera, completing, at, processing_queue, kept, cameraMetric, queueMetric, thread>>
          /\ UNCHANGED Queueing
        BY DEF vars, complete, queues, metrics, ending, Queueing
    <2> QED BY <2>1, NothingCounted
<1> QED BY <1>1, <1>2, InitTypes, TypeStep, PTL DEF Spec
=============================================================================
