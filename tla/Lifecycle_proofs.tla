-------------------------- MODULE Lifecycle_proofs --------------------------
(***************************************************************************)
(* For any size of the pools, and however many faults: pictures flow only  *)
(* through a whole chain, no pool goes before its buffers, and a port      *)
(* starves only after a send has failed.                                   *)
(***************************************************************************)
EXTENDS Lifecycle, TLAPS

\* What is made of a part before a step, and of a part that is whole.
MadeOf(c, n) == {c} \X ({StepsOf(c)[i] : i \in 1 .. n - 1} \cap Things)
Has(c) == {c} \X (Range(StepsOf(c)) \cap Things)
Made == (UNION {Has(c) : c \in Before}) \cup MadeOf(Part, step)

Quiet(p) == sent[p] = 0 /\ callback[p] = "idle"
Ended(n) == {DisableOrder[i] : i \in 1 .. n}

\* The chain is built in "create", whole until the ports are disabled.
Going    == {"feed", "capture", "spawn", "resolve", "lock", "locked", "beat", "reopen", "cancel",
             "join", "off"}
Disabled == IF main = "flush" THEN stage ELSE stage - 1

StageInRange ==
    /\ main = "create" => step \in 1 .. Len(StepsOf(Part))
    /\ main \in {"feed", "disable", "flush"} => stage \in 1 .. 3
    /\ main \in Going \ {"feed"} => stage = 1
    /\ main = "destroy" => stage \in 1 .. 5

HeldSoFar ==
    /\ main = "create" => held = Made
    /\ main \in Going => held = Whole
    /\ main \in {"disable", "flush"} =>
           held = Whole \ {<<p, "port">> : p \in Ended(Disabled)}
    /\ main = "destroy" \/ (main = "exited" /\ http # "none") => \A p \in Ports : ~Enabled(p)

\* A port has nothing at it before it is fed, and after it was disabled.
QuietPorts ==
    /\ main \in {"create", "destroy", "exited"} => \A p \in Ports : Quiet(p)
    /\ main \in {"disable", "flush"} => \A p \in Ended(stage - 1) : Quiet(p)
    /\ main = "create" => \A p \in Ports : lost[p] = 0
    /\ main \in {"create", "feed"} => ~capture /\ \A p \in Ports : callback[p] = "idle"

\* All buffers of a pool, wherever they are.
Total(p) == queue[p] + sent[p] + lost[p] + InCallback(p)
Accounted ==
    \A p \in Ports : /\ Total(p) \in {0, Buffers}
                     /\ <<p, "pool">> \in held => Total(p) = Buffers

\* A port that was fed and whose callback is done has left nothing to send.
Fed(p) == /\ main # "create" /\ (main = "exited" => http # "none")
          /\ main = "feed" => \E i \in 1 .. stage - 1 : FeedOrder[i] = p
SentAll ==
    \A p \in Ports :
        Fed(p) /\ Enabled(p) /\ callback[p] = "idle" => queue[p] = 0 \/ lost[p] > 0

NotStarted == http # "none" => main \notin {"create", "feed", "capture", "spawn"}

IInv == TypeOK /\ StageInRange /\ HeldSoFar /\ QuietPorts /\ Accounted /\ SentAll /\ NotStarted

-----------------------------------------------------------------------------
(* The chain and its parts *)

LEMMA ChainParts ==
    /\ Len(Chain) = 7
    /\ Range(Chain) = {"camera", "full_splitter", "h264", "resizer", "resized_splitter", "mjpeg", "yuv"}
    /\ \A i \in 1 .. 7 : Chain[i] \in Range(Chain)
    /\ Ports = {"h264", "mjpeg", "yuv"}
<1>1. DOMAIN Chain = 1 .. 7 /\ Len(Chain) = 7
    BY DEF Chain
<1>2. \A i \in 1 .. 7 : Chain[i] \in Range(Chain)
    BY <1>1 DEF Range
<1>3. /\ Chain[1] = "camera" /\ Chain[2] = "full_splitter" /\ Chain[3] = "h264"
      /\ Chain[4] = "resizer" /\ Chain[5] = "resized_splitter" /\ Chain[6] = "mjpeg"
      /\ Chain[7] = "yuv"
    BY DEF Chain
<1>4. \A i \in 1 .. 7 : i = 1 \/ i = 2 \/ i = 3 \/ i = 4 \/ i = 5 \/ i = 6 \/ i = 7
    OBVIOUS
<1>5. Range(Chain) = {Chain[i] : i \in 1 .. 7}
    BY <1>1 DEF Range
<1>6. {Chain[i] : i \in 1 .. 7} = {Chain[1], Chain[2], Chain[3], Chain[4], Chain[5], Chain[6], Chain[7]}
    BY <1>4
<1> QED BY <1>1, <1>2, <1>3, <1>5, <1>6 DEF Ports, Encoders

\* How long the creation of a part is, and what it makes and may leave.
LEMMA PartSteps ==
    ASSUME NEW c \in Range(Chain)
    PROVE  /\ Len(StepsOf(c)) \in 1 .. 7
           /\ DOMAIN StepsOf(c) = 1 .. Len(StepsOf(c))
           /\ c \in Ports => "pool" \in Range(StepsOf(c)) /\ "port" \in Range(StepsOf(c))
           /\ c # "yuv" => "component" \in Range(StepsOf(c))
           /\ \A s, t : <<s, t>> \in Creator(c).left => t \in Range(StepsOf(c)) /\ t # "pool"
<1>1. CASE c = "camera"
    <2>1. StepsOf(c) = <<"component", "setup">> /\ Creator(c).left = {}
        BY <1>1 DEF Creator, StepsOf, create_camera
    <2>2. StepsOf(c)[1] = "component" /\ DOMAIN StepsOf(c) = 1 .. 2 /\ Len(StepsOf(c)) = 2
        BY <2>1
    <2>3. "component" \in Range(StepsOf(c))
        BY <2>2 DEF Range
    <2> QED BY <1>1, <2>1, <2>2, <2>3, ChainParts
<1>2. CASE c = "h264"
    <2>1. /\ StepsOf(c) = <<"component", "check", "setup", "connection", "flow", "port", "pool">>
          /\ Creator(c).left = ({"check", "connection", "flow", "pool"} \X {"component"})
                 \cup ({"flow", "pool"} \X {"connection"}) \cup {<<"pool", "port">>}
        BY <1>2 DEF Creator, StepsOf, create_h264_encoder
    <2>2. StepsOf(c)[1] = "component" /\ StepsOf(c)[4] = "connection"
          /\ StepsOf(c)[6] = "port" /\ StepsOf(c)[7] = "pool" /\ DOMAIN StepsOf(c) = 1 .. 7
        BY <2>1
    <2>3. {"component", "connection", "port", "pool"} \subseteq Range(StepsOf(c))
        BY <2>2 DEF Range
    <2>4. Len(StepsOf(c)) = 7
        BY <2>1
    <2> QED BY <1>2, <2>1, <2>2, <2>3, <2>4
<1>3. CASE c = "mjpeg"
    <2>1. /\ StepsOf(c) = <<"component", "setup", "connection", "flow", "port", "pool">>
          /\ Creator(c).left = ({"connection", "flow", "pool"} \X {"component"})
                 \cup ({"flow", "pool"} \X {"connection"}) \cup {<<"pool", "port">>}
        BY <1>3 DEF Creator, StepsOf, create_mjpeg_encoder
    <2>2. StepsOf(c)[1] = "component" /\ StepsOf(c)[3] = "connection"
          /\ StepsOf(c)[5] = "port" /\ StepsOf(c)[6] = "pool" /\ DOMAIN StepsOf(c) = 1 .. 6
        BY <2>1
    <2>3. {"component", "connection", "port", "pool"} \subseteq Range(StepsOf(c))
        BY <2>2 DEF Range
    <2>4. Len(StepsOf(c)) = 6
        BY <2>1
    <2> QED BY <1>3, <2>1, <2>2, <2>3, <2>4
<1>4. CASE c = "yuv"
    <2>1. StepsOf(c) = <<"port", "pool">> /\ Creator(c).left = {<<"pool", "port">>}
        BY <1>4 DEF Creator, StepsOf, enable_yuv
    <2>2. StepsOf(c)[1] = "port" /\ StepsOf(c)[2] = "pool" /\ DOMAIN StepsOf(c) = 1 .. 2
        BY <2>1
    <2>3. {"port", "pool"} \subseteq Range(StepsOf(c))
        BY <2>2 DEF Range
    <2>4. Len(StepsOf(c)) = 2
        BY <2>1
    <2> QED BY <1>4, <2>1, <2>2, <2>3, <2>4
<1>5. CASE c \in {"full_splitter", "resizer", "resized_splitter"}
    <2>1. /\ StepsOf(c) = <<"component", "setup", "connection", "flow">>
          /\ Creator(c).left = {<<"flow", "component">>}
        BY <1>5 DEF Creator, StepsOf, create_splitter, create_resizer
    <2>2. StepsOf(c)[1] = "component" /\ DOMAIN StepsOf(c) = 1 .. 4
        BY <2>1
    <2>3. "component" \in Range(StepsOf(c))
        BY <2>2 DEF Range
    <2>4. Len(StepsOf(c)) = 4
        BY <2>1
    <2> QED BY <1>5, <2>1, <2>2, <2>3, <2>4, ChainParts
<1> QED BY <1>1, <1>2, <1>3, <1>4, <1>5, ChainParts

\* The whole chain has what a port, its pool and its buffers need.
LEMMA WholePorts ==
    ASSUME NEW p \in Ports
    PROVE  <<p, "port">> \in Whole /\ <<p, "pool">> \in Whole /\ Needs(p) \subseteq Whole
<1>1. \A c \in Range(Chain) : {c} \X (Range(StepsOf(c)) \cap Things) \subseteq Whole
    BY DEF Whole
<1>2. p \in Range(Chain) /\ p \in {"h264", "mjpeg", "yuv"}
    BY ChainParts
<1>3. <<p, "port">> \in Whole /\ <<p, "pool">> \in Whole
    BY <1>1, <1>2, PartSteps DEF Things
<1>4. "resized_splitter" \in Range(Chain) /\ "h264" \in Range(Chain) /\ "mjpeg" \in Range(Chain)
    BY ChainParts
<1>5. \A c \in {"resized_splitter", "h264", "mjpeg"} : <<c, "component">> \in Whole
    BY <1>1, <1>4, PartSteps DEF Things
<1> QED BY <1>2, <1>3, <1>5 DEF Needs

-----------------------------------------------------------------------------
(* Steps that leave the chain and the buffers alone *)

\* None of the ports is disabled yet.
LEMMA EndedNone == Ended(0) = {} /\ Whole \ {<<p, "port">> : p \in Ended(0)} = Whole
BY DEF Ended

\* main() goes on.
LEMMA MainGoesOn ==
    ASSUME IInv, TypeOK', NotStarted', main \in Going \ {"feed"},
           main' \in (Going \ {"feed"}) \cup {"disable"},
           UNCHANGED <<stage, step, held, queue, sent, callback, lost>>
    PROVE  IInv'
<1>1. stage = 1 /\ held = Whole /\ stage' = 1
    BY DEF IInv, StageInRange, HeldSoFar, Going
<1>2. StageInRange'
    BY <1>1 DEF StageInRange, Going
<1>3. HeldSoFar'
    <2>1. main' = "disable" => Disabled' = 0
        BY <1>1 DEF Disabled
    <2>2. Whole' = Whole /\ Ended(Disabled)' = Ended(Disabled')
        BY DEF Whole, Ended
    <2>3. main' = "disable" => held' = Whole \ {<<p, "port">> : p \in Ended(Disabled')}
        BY <1>1, <2>1, EndedNone
    <2> QED BY <1>1, <2>2, <2>3 DEF HeldSoFar, Going
<1>4. QuietPorts'
    <2>1. main' = "disable" => Ended(stage' - 1) = {}
        BY <1>1, EndedNone
    <2> QED BY <2>1 DEF QuietPorts, Going
<1>5. Accounted'
    BY DEF IInv, Accounted, Total, InCallback
<1>6. SentAll'
    BY DEF IInv, SentAll, Fed, Enabled, Going
<1> QED BY <1>2, <1>3, <1>4, <1>5, <1>6 DEF IInv

\* Another thread does.
LEMMA ThreadGoesOn ==
    ASSUME IInv, TypeOK', NotStarted', main # "exited",
           UNCHANGED <<main, capture, stage, step, held, queue, sent, callback, lost>>
    PROVE  IInv'
<1>1. StageInRange' /\ HeldSoFar' /\ QuietPorts'
    <2>1. StageInRange'
        BY DEF IInv, StageInRange, Part
    <2>2. HeldSoFar'
        BY DEF IInv, HeldSoFar, Enabled, Made, Before, Part, MadeOf, Has, Whole, Disabled, Ended
    <2>3. QuietPorts'
        BY DEF IInv, QuietPorts, Quiet, Ended
    <2> QED BY <2>1, <2>2, <2>3
<1>2. Accounted' /\ SentAll'
    BY DEF IInv, Accounted, Total, InCallback, SentAll, Fed, Enabled
<1> QED BY <1>1, <1>2 DEF IInv

\* The camera's switch, whether it works or not.
LEMMA Turned ==
    ASSUME IInv, NEW from \in {"capture", "beat", "reopen", "off"},
           NEW to \in {"spawn", "reopen", "lock", "disable"}, NEW on \in BOOLEAN,
           from # "capture" => to # "spawn",
           Turn(on, from, to) \/ TurnFails(from, to), TurnRest
    PROVE  /\ TypeOK' /\ NotStarted' /\ main = from /\ main' = to
           /\ UNCHANGED <<stage, step, held, queue, sent, callback, lost>>
<1>1. TypeOK /\ NotStarted /\ MaxFaults \in Nat
    BY LifecycleConstants DEF IInv
<1>2. /\ UNCHANGED <<stage, step, held, queue, sent, callback, lost>>
      /\ UNCHANGED <<running, mutex, handler, http, status, starts>>
    BY DEF TurnRest, chain, buffers, threads, service
<1>3. main = from /\ main' = to
    BY DEF Turn, TurnFails
<1>4. capture' \in BOOLEAN
    <2>1. CASE Turn(on, from, to)
        BY <2>1 DEF Turn
    <2>2. CASE TurnFails(from, to)
        BY <1>1, <2>2 DEF TurnFails, TypeOK
    <2> QED BY <2>1, <2>2
<1>5. faults' \in 0 .. MaxFaults
    BY <1>1 DEF Turn, TurnFails, Fault, TypeOK
<1>6. TypeOK'
    <2>1. Whole' = Whole
        OBVIOUS
    <2> QED BY <1>1, <1>2, <1>3, <1>4, <1>5, <2>1 DEF TypeOK
<1> QED BY <1>1, <1>2, <1>3, <1>6 DEF NotStarted

Controls == CaptureOn \/ Spawn \/ HeartbeatStarts \/ Run \/ Cancel \/ Join \/ CaptureOff

LEMMA ControlStep ==
    ASSUME IInv, Controls PROVE IInv'
<1> USE DEF chain, buffers, threads, service, Fault
<1>0. TypeOK /\ NotStarted /\ MaxFaults \in Nat
    BY LifecycleConstants DEF IInv
<1>1. CASE CaptureOn
    <2>1. TypeOK' /\ NotStarted' /\ main = "capture" /\ main' = "spawn"
          /\ UNCHANGED <<stage, step, held, queue, sent, callback, lost>>
        BY <1>1, Turned DEF CaptureOn
    <2> QED BY <2>1, MainGoesOn DEF Going
<1>2. CASE Spawn
    <2>1. TypeOK' /\ NotStarted' /\ main = "spawn" /\ main' = "resolve"
          /\ UNCHANGED <<stage, step, held, queue, sent, callback, lost>>
        BY <1>0, <1>2 DEF Spawn, TypeOK, NotStarted
    <2> QED BY <2>1, MainGoesOn DEF Going
<1>3. CASE HeartbeatStarts
    <2>1. TypeOK' /\ NotStarted' /\ main = "resolve" /\ main' \in {"lock", "cancel"}
          /\ UNCHANGED <<stage, step, held, queue, sent, callback, lost>>
        BY <1>0, <1>3 DEF HeartbeatStarts, TypeOK, NotStarted
    <2> QED BY <2>1, MainGoesOn DEF Going
<1>4. CASE HeartbeatLocks \/ HeartbeatReads \/ Beat
    <2>1. TypeOK' /\ NotStarted' /\ main \in {"lock", "locked", "beat"}
          /\ main' \in {"lock", "locked", "beat", "cancel"}
          /\ UNCHANGED <<stage, step, held, queue, sent, callback, lost>>
        BY <1>0, <1>4 DEF HeartbeatLocks, HeartbeatReads, Beat, TypeOK, NotStarted
    <2> QED BY <2>1, MainGoesOn DEF Going
<1>5. CASE Reopen \/ Reopened
    <2>1. TypeOK' /\ NotStarted' /\ main \in {"beat", "reopen"} /\ main' \in {"reopen", "lock"}
          /\ UNCHANGED <<stage, step, held, queue, sent, callback, lost>>
        BY <1>5, Turned DEF Reopen, Reopened
    <2> QED BY <2>1, MainGoesOn DEF Going
<1>6. CASE Cancel \/ Join
    <2>1. TypeOK' /\ NotStarted' /\ main \in {"cancel", "join"} /\ main' \in {"join", "off"}
          /\ UNCHANGED <<stage, step, held, queue, sent, callback, lost>>
        BY <1>0, <1>6 DEF Cancel, Join, TypeOK, NotStarted
    <2> QED BY <2>1, MainGoesOn DEF Going
<1>7. CASE CaptureOff
    <2>1. TypeOK' /\ NotStarted' /\ main = "off" /\ main' = "disable"
          /\ UNCHANGED <<stage, step, held, queue, sent, callback, lost>>
        BY <1>7, Turned DEF CaptureOff
    <2> QED BY <2>1, MainGoesOn DEF Going
<1> QED BY <1>1, <1>2, <1>3, <1>4, <1>5, <1>6, <1>7 DEF Controls, Run

Others == HttpLocks \/ HttpReads \/ Handle \/ (\E t \in {"main", "http", "worker"} : Signal(t)) \/ StaysUp

LEMMA OtherStep ==
    ASSUME IInv, Others PROVE IInv'
<1> USE DEF chain, buffers, threads, service, Fault
<1>0. TypeOK /\ NotStarted /\ MaxFaults \in Nat /\ Burst \in Nat \ {0}
    BY LifecycleConstants DEF IInv
<1>1. CASE HttpLocks
    <2>1. TypeOK' /\ NotStarted' /\ main # "exited"
          /\ UNCHANGED <<main, capture, stage, step, held, queue, sent, callback, lost>>
        BY <1>0, <1>1 DEF HttpLocks, TypeOK, NotStarted
    <2> QED BY <2>1, ThreadGoesOn
<1>2. CASE HttpReads
    <2>1. TypeOK' /\ NotStarted' /\ main # "exited"
          /\ UNCHANGED <<main, capture, stage, step, held, queue, sent, callback, lost>>
        BY <1>0, <1>2 DEF HttpReads, UnlockedAfterRead, TypeOK, NotStarted
    <2> QED BY <2>1, ThreadGoesOn
<1>3. CASE Handle
    <2>1. TypeOK' /\ NotStarted' /\ main # "exited"
          /\ UNCHANGED <<main, capture, stage, step, held, queue, sent, callback, lost>>
        BY ZenonT(40), <1>0, <1>3 DEF Handle, TypeOK, NotStarted
    <2> QED BY <2>1, ThreadGoesOn
<1>4. ASSUME NEW t \in {"main", "http", "worker"}, Signal(t) PROVE IInv'
    <2>1. TypeOK' /\ NotStarted' /\ main # "exited"
          /\ UNCHANGED <<main, capture, stage, step, held, queue, sent, callback, lost>>
        BY <1>0, <1>4 DEF Signal, TypeOK, NotStarted
    <2> QED BY <2>1, ThreadGoesOn
<1>5. CASE StaysUp
    <2>1. TypeOK' /\ NotStarted' /\ main # "exited"
          /\ UNCHANGED <<main, capture, stage, step, held, queue, sent, callback, lost>>
        BY <1>0, <1>5 DEF StaysUp, TypeOK, NotStarted
    <2> QED BY <2>1, ThreadGoesOn
<1> QED BY <1>1, <1>2, <1>3, <1>4, <1>5 DEF Others

-----------------------------------------------------------------------------
(* Buffers *)

\* Some buffers of one port go elsewhere, none is lost from sight.
Moves(p, q, s, l, c) ==
    /\ q \in Nat /\ s \in Nat /\ l \in Nat /\ c \in {"idle", "called", "sending"}
    /\ queue' = [queue EXCEPT ![p] = q] /\ sent' = [sent EXCEPT ![p] = s]
    /\ lost' = [lost EXCEPT ![p] = l] /\ callback' = [callback EXCEPT ![p] = c]
    /\ q + s + l + (IF c = "called" THEN 1 ELSE 0) = Total(p)

LEMMA Moved ==
    ASSUME TypeOK, Accounted, NEW p \in Ports, NEW q, NEW s, NEW l, NEW c,
           Moves(p, q, s, l, c), UNCHANGED held
    PROVE  /\ {queue, sent, lost}' \subseteq [Ports -> 0 .. Buffers]
           /\ callback' \in [Ports -> {"idle", "called", "sending"}]
           /\ Accounted'
<1>1. Buffers \in Nat /\ {queue, sent, lost} \subseteq [Ports -> 0 .. Buffers]
      /\ callback \in [Ports -> {"idle", "called", "sending"}]
    BY LifecycleConstants DEF TypeOK
<1> USE DEF Moves
<1>2. Total(p) \in {0, Buffers}
    BY DEF Accounted
<1>3. q \in 0 .. Buffers /\ s \in 0 .. Buffers /\ l \in 0 .. Buffers
    BY <1>1, <1>2
<1>4. /\ queue' \in [Ports -> 0 .. Buffers] /\ sent' \in [Ports -> 0 .. Buffers]
      /\ lost' \in [Ports -> 0 .. Buffers] /\ callback' \in [Ports -> {"idle", "called", "sending"}]
    BY <1>1, <1>3
<1>5. queue'[p] = q /\ sent'[p] = s /\ lost'[p] = l /\ callback'[p] = c
    BY <1>1
<1>6. \A r \in Ports \ {p} : /\ queue'[r] = queue[r] /\ sent'[r] = sent[r]
                             /\ lost'[r] = lost[r] /\ callback'[r] = callback[r]
    BY <1>1
<1>7. \A r \in Ports : Total(r)' = Total(r)
    BY <1>5, <1>6 DEF Total, InCallback
<1>8. Accounted'
    BY <1>7 DEF Accounted
<1> QED BY <1>4, <1>8

\* A port with buffers at it is fed, and not yet disabled.
LEMMA BusyPort ==
    ASSUME IInv, NEW p \in Ports, ~Quiet(p)
    PROVE  /\ main \notin {"create", "destroy", "exited"}
           /\ main \in {"disable", "flush"} => p \notin Ended(stage - 1)
           /\ callback[p] # "idle" => main # "feed"
BY DEF IInv, QuietPorts

\* The callback of a port.
LEMMA CallbackGoesOn ==
    ASSUME IInv, NEW p \in Ports, ~Quiet(p), main # "feed",
           NEW q, NEW s, NEW l, NEW c, Moves(p, q, s, l, c),
           Enabled(p) /\ c = "idle" => q = 0 \/ l > 0,
           faults' \in 0 .. MaxFaults,
           UNCHANGED <<main, stage, step, held, capture, running, mutex, handler, http, status, starts>>
    PROVE  IInv'
<1>1. TypeOK /\ Accounted
    BY DEF IInv
<1>2. /\ {queue, sent, lost}' \subseteq [Ports -> 0 .. Buffers]
      /\ callback' \in [Ports -> {"idle", "called", "sending"}]
      /\ Accounted'
    BY <1>1, Moved
<1>3. TypeOK'
    <2>1. Whole' = Whole
        OBVIOUS
    <2> QED BY <1>1, <1>2, <2>1 DEF TypeOK
<1>4. StageInRange' /\ NotStarted'
    BY DEF IInv, StageInRange, NotStarted, Part
<1>5. HeldSoFar'
    BY DEF IInv, HeldSoFar, Enabled, Made, Before, Part, MadeOf, Has, Whole, Disabled, Ended
<1>6. \A r \in Ports \ {p} : /\ queue'[r] = queue[r] /\ sent'[r] = sent[r]
                             /\ lost'[r] = lost[r] /\ callback'[r] = callback[r]
    BY <1>1 DEF Moves, TypeOK
<1>7. QuietPorts'
    <2>1. main \in {"disable", "flush"} => \A r \in Ended(stage - 1) : r \in Ports \ {p} /\ Quiet(r)
        <3>1. main \in {"disable", "flush"} => p \notin Ended(stage - 1) /\ stage \in 1 .. 3
            BY BusyPort DEF IInv, StageInRange
        <3>2. \A i \in 1 .. 3 : DisableOrder[i] \in Ports
            BY ChainParts DEF DisableOrder
        <3>3. main \in {"disable", "flush"} => Ended(stage - 1) \subseteq Ports
            BY <3>1, <3>2 DEF Ended
        <3> QED BY <3>1, <3>3 DEF IInv, QuietPorts
    <2>2. Ended(stage - 1)' = Ended(stage - 1)
        BY DEF Ended
    <2>3. main' \in {"disable", "flush"} => \A r \in Ended(stage - 1)' : Quiet(r)'
        BY <1>6, <2>1, <2>2 DEF Quiet
    <2> QED BY <2>3, BusyPort DEF QuietPorts
<1>8. SentAll'
    <2>1. SentAll /\ \A r \in Ports : Fed(r)' => Fed(r)
        BY DEF IInv, Fed
    <2>2. queue'[p] = q /\ lost'[p] = l /\ callback'[p] = c
        BY <1>1 DEF Moves, TypeOK
    <2> QED BY <1>6, <2>1, <2>2 DEF SentAll, Enabled
<1> QED BY <1>2, <1>3, <1>4, <1>5, <1>7, <1>8 DEF IInv

\* The buffers of a port, as numbers.
LEMMA PortTypes ==
    ASSUME TypeOK, NEW p \in Ports
    PROVE  /\ queue[p] \in Nat /\ sent[p] \in Nat /\ lost[p] \in Nat
           /\ callback[p] \in {"idle", "called", "sending"}
           /\ queue = [queue EXCEPT ![p] = queue[p]] /\ sent = [sent EXCEPT ![p] = sent[p]]
           /\ lost = [lost EXCEPT ![p] = lost[p]] /\ callback = [callback EXCEPT ![p] = callback[p]]
           /\ faults \in 0 .. MaxFaults /\ MaxFaults \in Nat
<1>1. Buffers \in Nat /\ {queue, sent, lost} \subseteq [Ports -> 0 .. Buffers]
      /\ callback \in [Ports -> {"idle", "called", "sending"}]
    BY LifecycleConstants DEF TypeOK
<1>2. queue \in [Ports -> 0 .. Buffers] /\ sent \in [Ports -> 0 .. Buffers]
      /\ lost \in [Ports -> 0 .. Buffers]
    BY <1>1
<1> QED BY <1>1, <1>2, LifecycleConstants DEF TypeOK

LEMMA CallbackStep ==
    ASSUME IInv, NEW p \in Ports, Callback(p) \/ SendBackFails(p) PROVE IInv'
<1> USE DEF chain, buffers, threads, service
<1>1. TypeOK /\ HeldSoFar /\ QuietPorts
    BY DEF IInv
<1>2. CASE Deliver(p)
    <2>1. main = "feed" => Enabled(p) /\ ~capture
        BY <1>1, WholePorts DEF HeldSoFar, QuietPorts, Going, Enabled
    <2>2. ~Quiet(p) /\ main # "feed"
        BY <1>2, <2>1 DEF Deliver, Quiet
    <2>3. Moves(p, queue[p], sent[p] - 1, lost[p], "called")
        BY <1>1, <1>2, PortTypes DEF Deliver, Moves, Total, InCallback
    <2>4. /\ faults' \in 0 .. MaxFaults
          /\ UNCHANGED <<main, stage, step, held, capture, running, mutex, handler, http, status, starts>>
        BY <1>1, <1>2, PortTypes DEF Deliver
    <2> QED BY <2>2, <2>3, <2>4, CallbackGoesOn
<1>3. CASE Release(p)
    <2>1. ~Quiet(p) /\ main # "feed"
        BY <1>3, BusyPort DEF Release, Quiet
    <2>2. Moves(p, queue[p] + 1, sent[p], lost[p], LooksAtPort(p))
        BY <1>1, <1>3, PortTypes DEF Release, LooksAtPort, Moves, Total, InCallback
    <2>3. Enabled(p) => LooksAtPort(p) # "idle"
        BY DEF LooksAtPort
    <2>4. /\ faults' \in 0 .. MaxFaults
          /\ UNCHANGED <<main, stage, step, held, capture, running, mutex, handler, http, status, starts>>
        BY <1>1, <1>3, PortTypes DEF Release
    <2> QED BY <2>1, <2>2, <2>3, <2>4, CallbackGoesOn
<1>4. ASSUME callback[p] = "sending", queue[p] > 0, TakeAndLose(p),
             callback' = [callback EXCEPT ![p] = "idle"], faults' \in 0 .. MaxFaults,
             UNCHANGED <<main, chain, capture, threads, service>>
      PROVE  IInv'
    <2>1. ~Quiet(p) /\ main # "feed"
        BY <1>4, BusyPort DEF Quiet
    <2>2. Moves(p, queue[p] - 1, sent[p], lost[p] + 1, "idle") /\ lost[p] + 1 > 0
        BY <1>1, <1>4, PortTypes DEF TakeAndLose, Moves, Total, InCallback
    <2> QED BY <1>4, <2>1, <2>2, CallbackGoesOn
<1>5. CASE SendBack(p)
    <2>1. ~Quiet(p) /\ main # "feed"
        BY <1>5, BusyPort DEF SendBack, Quiet
    <2>2. /\ faults' \in 0 .. MaxFaults
          /\ UNCHANGED <<main, stage, step, held, capture, running, mutex, handler, http, status, starts>>
        BY <1>1, <1>5, PortTypes DEF SendBack
    <2>3. CASE queue[p] = 0
        <3>1. Moves(p, queue[p], sent[p], lost[p], "idle")
            BY <1>1, <1>5, <2>3, PortTypes DEF SendBack, Moves, Total, InCallback
        <3> QED BY <2>1, <2>2, <2>3, <3>1, CallbackGoesOn
    <2>4. CASE queue[p] # 0 /\ Enabled(p)
        <3>1. Moves(p, queue[p] - 1, sent[p] + 1, lost[p], "sending")
            BY <1>1, <1>5, <2>4, PortTypes DEF SendBack, TakeAndSend, Moves, Total, InCallback
        <3> QED BY <2>1, <2>2, <3>1, CallbackGoesOn
    <2>5. CASE queue[p] # 0 /\ ~Enabled(p)
        <3>1. callback[p] = "sending" /\ queue[p] > 0 /\ TakeAndLose(p)
              /\ callback' = [callback EXCEPT ![p] = "idle"]
              /\ UNCHANGED <<main, chain, capture, threads, service>>
            BY <1>1, <1>5, <2>5, PortTypes DEF SendBack
        <3> QED BY <1>4, <2>2, <3>1
    <2> QED BY <2>3, <2>4, <2>5
<1>6. CASE SendBackFails(p)
    <2>1. faults' \in 0 .. MaxFaults
        BY <1>1, <1>6, PortTypes DEF SendBackFails, Fault
    <2> QED BY <1>4, <1>6, <2>1 DEF SendBackFails
<1> QED BY <1>2, <1>3, <1>5, <1>6 DEF Callback

\* main() gives a port its buffers.
LEMMA FeedStep ==
    ASSUME IInv, Feed \/ FeedFails PROVE IInv'
<1> USE DEF chain, buffers, threads, service
<1> DEFINE p == FeedOrder[stage]
<1>1. /\ TypeOK /\ Accounted /\ SentAll /\ QuietPorts /\ NotStarted /\ held = Whole
      /\ main = "feed" /\ stage \in 1 .. 3
    BY DEF IInv, Feed, FeedFails, HeldSoFar, Going, StageInRange
<1>2. /\ FeedOrder[1] = "h264" /\ FeedOrder[2] = "mjpeg" /\ FeedOrder[3] = "yuv"
      /\ Len(FeedOrder) = 3
    BY DEF FeedOrder
<1>3. p \in Ports /\ \A r \in Ports : \E i \in 1 .. 3 : FeedOrder[i] = r
    BY <1>1, <1>2, ChainParts
<1>4. Whole' = Whole
    OBVIOUS
<1>5. CASE Feed /\ queue[p] > 0
    <2>1. Moves(p, queue[p] - 1, sent[p] + 1, lost[p], callback[p])
        BY <1>1, <1>3, <1>5, PortTypes DEF Feed, TakeAndSend, Moves, Total, InCallback
    <2>2. /\ {queue, sent, lost}' \subseteq [Ports -> 0 .. Buffers] /\ Accounted'
          /\ callback' \in [Ports -> {"idle", "called", "sending"}]
        BY <1>1, <1>3, <1>5, <2>1, Moved DEF Feed
    <2>3. UNCHANGED <<main, stage, step, held, capture, callback, running, mutex, handler, http,
                      status, starts, faults>>
        BY <1>1, <1>5 DEF Feed
    <2>4. TypeOK'
        BY <1>1, <1>4, <2>2, <2>3 DEF TypeOK
    <2>5. StageInRange' /\ NotStarted' /\ HeldSoFar' /\ QuietPorts'
        BY <1>1, <1>4, <2>3 DEF IInv, StageInRange, HeldSoFar, QuietPorts, NotStarted, Going
    <2>6. \A r \in Ports : Fed(r)' => Fed(r) /\ r # p
        BY <1>1, <1>2, <2>3 DEF Fed
    <2>7. \A r \in Ports \ {p} : queue'[r] = queue[r] /\ lost'[r] = lost[r]
        BY <1>1, <2>1 DEF Moves, TypeOK
    <2>8. SentAll'
        BY <1>1, <2>3, <2>6, <2>7 DEF SentAll, Enabled
    <2> QED BY <2>2, <2>4, <2>5, <2>8 DEF IInv
<1>6. ASSUME FeedNext, Accounted', {queue, sent, lost}' \subseteq [Ports -> 0 .. Buffers],
             \A r \in Ports \ {p} : queue'[r] = queue[r] /\ lost'[r] = lost[r],
             queue'[p] = 0 \/ lost'[p] > 0, faults' \in 0 .. MaxFaults,
             UNCHANGED <<step, held, capture, callback, running, mutex, handler, http, status, starts>>
      PROVE  IInv'
    <2>1. main' \in {"feed", "capture"} /\ stage' \in 1 .. 3
          /\ (main' = "feed" => stage' = stage + 1) /\ (main' = "capture" => stage' = 1 /\ stage = 3)
        BY <1>1, <1>2, <1>6 DEF FeedNext
    <2>2. TypeOK'
        <3>1. stage' \in 1 .. Len(Chain) /\ held' \subseteq Whole'
            BY <1>1, <1>4, <1>6, <2>1, ChainParts
        <3> QED BY <1>1, <1>6, <2>1, <3>1 DEF TypeOK
    <2>3. StageInRange' /\ NotStarted' /\ HeldSoFar' /\ QuietPorts'
        BY <1>1, <1>4, <1>6, <2>1 DEF IInv, StageInRange, HeldSoFar, QuietPorts, NotStarted, Going
    <2>4. \A r \in Ports : Fed(r)' => Fed(r) \/ r = p
        <3> SUFFICES ASSUME NEW r \in Ports, Fed(r)', r # p PROVE Fed(r)
            OBVIOUS
        <3>1. PICK i \in 1 .. 3 : FeedOrder[i] = r /\ (main' = "feed" => i \in 1 .. stage)
            <4>1. CASE main' = "feed"
                <5>1. PICK i \in 1 .. stage' - 1 : FeedOrder[i] = r
                    BY <4>1 DEF Fed
                <5> QED BY <1>1, <2>1, <4>1, <5>1
            <4>2. CASE main' = "capture"
                BY <1>3, <4>2
            <4> QED BY <2>1, <4>1, <4>2
        <3>2. i # stage
            BY <3>1
        <3>3. i \in 1 .. stage - 1
            BY <1>1, <2>1, <3>1, <3>2
        <3> QED BY <1>1, <3>1, <3>3 DEF Fed
    <2>5. SentAll'
        BY <1>1, <1>6, <2>4 DEF SentAll, Enabled
    <2> QED BY <1>6, <2>2, <2>3, <2>5 DEF IInv
<1>7. CASE Feed /\ ~(queue[p] > 0)
    <2>1. FeedNext /\ queue[p] = 0 /\ faults' \in 0 .. MaxFaults
          /\ UNCHANGED <<queue, sent, lost, step, held, capture, callback, running, mutex, handler,
                         http, status, starts>>
        BY <1>1, <1>3, <1>7, PortTypes DEF Feed
    <2>2. Accounted' /\ {queue, sent, lost}' \subseteq [Ports -> 0 .. Buffers]
        BY <1>1, <2>1 DEF Accounted, Total, InCallback, TypeOK
    <2> QED BY <1>6, <2>1, <2>2
<1>8. CASE FeedFails
    <2>1. Moves(p, queue[p] - 1, sent[p], lost[p] + 1, callback[p])
        BY <1>1, <1>3, <1>8, PortTypes DEF FeedFails, TakeAndLose, Moves, Total, InCallback
    <2>2. FeedNext /\ faults' \in 0 .. MaxFaults
          /\ UNCHANGED <<step, held, capture, callback, running, mutex, handler, http, status, starts>>
        BY <1>1, <1>3, <1>8, PortTypes DEF FeedFails, Fault
    <2>3. /\ {queue, sent, lost}' \subseteq [Ports -> 0 .. Buffers] /\ Accounted'
        BY <1>1, <1>3, <2>1, <2>2, Moved
    <2>4. /\ \A r \in Ports \ {p} : queue'[r] = queue[r] /\ lost'[r] = lost[r]
          /\ lost'[p] > 0
        BY <1>1, <1>3, <2>1, PortTypes DEF Moves, TypeOK
    <2> QED BY <1>6, <2>2, <2>3, <2>4
<1> QED BY <1>5, <1>7, <1>8

-----------------------------------------------------------------------------
(* The chain is built *)

\* A step adds to what is made what it is named for.
LEMMA MadeGrows ==
    ASSUME NEW c, NEW n \in Nat \ {0}
    PROVE  MadeOf(c, n + 1) = MadeOf(c, n) \cup ({<<c, StepsOf(c)[n]>>} \cap ({c} \X Things))
<1>1. 1 .. (n + 1) - 1 = (1 .. n - 1) \cup {n}
    OBVIOUS
<1>2. {StepsOf(c)[i] : i \in 1 .. (n + 1) - 1} = {StepsOf(c)[i] : i \in 1 .. n - 1} \cup {StepsOf(c)[n]}
    BY <1>1
<1> QED BY <1>2 DEF MadeOf

LEMMA MadeOfAll ==
    ASSUME NEW c \in Range(Chain)
    PROVE  MadeOf(c, Len(StepsOf(c)) + 1) = Has(c)
<1>1. DOMAIN StepsOf(c) = 1 .. (Len(StepsOf(c)) + 1) - 1
    BY PartSteps
<1> QED BY <1>1 DEF MadeOf, Has, Range

LEMMA MadeOfNone == \A c : MadeOf(c, 1) = {}
<1>1. \A i \in 1 .. 1 - 1 : FALSE
    OBVIOUS
<1> QED BY <1>1 DEF MadeOf

\* main() is at a step of a part of the chain.
LEMMA AtStep ==
    ASSUME TypeOK, StageInRange, main = "create"
    PROVE  /\ Part \in Range(Chain) /\ step \in 1 .. Len(StepsOf(Part)) /\ stage \in 1 .. 7
           /\ Len(StepsOf(Part)) \in 1 .. 7
           /\ Step \in Range(StepsOf(Part))
           /\ {<<Part, Step>>} \cap ({Part} \X Things) \subseteq Whole
           /\ Before \subseteq Range(Chain)
<1>1. stage \in 1 .. 7 /\ Part \in Range(Chain) /\ step \in 1 .. Len(StepsOf(Part))
    BY ChainParts DEF TypeOK, StageInRange, Part
<1>2. Step \in Range(StepsOf(Part)) /\ Len(StepsOf(Part)) \in 1 .. 7
    BY <1>1, PartSteps DEF Step, Range
<1>3. \A c \in Range(Chain) : Has(c) \subseteq Whole
    BY DEF Has, Whole
<1>4. {<<Part, Step>>} \cap ({Part} \X Things) \subseteq Has(Part)
    BY <1>2 DEF Has
<1>5. Before \subseteq Range(Chain)
    <2>1. \A i \in 1 .. stage - 1 : i \in 1 .. 7
        BY <1>1
    <2> QED BY <2>1, ChainParts DEF Before
<1> QED BY <1>1, <1>2, <1>3, <1>4, <1>5

LEMMA BuildStep ==
    ASSUME IInv, StepSucceeds PROVE IInv'
<1> USE DEF threads, service
<1> DEFINE more == {<<Part, Step>>} \cap ({Part} \X Things)
<1>1. TypeOK /\ StageInRange /\ main = "create" /\ held = Made /\ http = "none"
    BY DEF IInv, StepSucceeds, HeldSoFar, NotStarted
<1>2. /\ Part \in Range(Chain) /\ step \in 1 .. Len(StepsOf(Part)) /\ stage \in 1 .. 7
      /\ Len(StepsOf(Part)) \in 1 .. 7 /\ more \subseteq Whole /\ Before \subseteq Range(Chain)
    BY <1>1, AtStep
<1>3. /\ held' = held \cup more
      /\ queue' = IF Step = "pool" THEN [queue EXCEPT ![Part] = Buffers] ELSE queue
      /\ UNCHANGED <<capture, sent, callback, lost, running, mutex, handler, http, status, starts, faults>>
    BY DEF StepSucceeds
<1>4. Len(Chain) = 7
    BY ChainParts
<1>5. \/ step < Len(StepsOf(Part)) /\ step' = step + 1 /\ stage' = stage /\ main' = "create"
      \/ step = Len(StepsOf(Part)) /\ step' = 1 /\ stage < 7 /\ stage' = stage + 1 /\ main' = "create"
      \/ step = Len(StepsOf(Part)) /\ step' = 1 /\ stage = 7 /\ stage' = 1 /\ main' = "feed"
    BY <1>1, <1>2, <1>4 DEF StepSucceeds
<1>6. /\ \A r \in Ports : queue[r] \in Nat /\ sent[r] = 0 /\ callback[r] = "idle" /\ lost[r] = 0
      /\ ~capture
    BY <1>1, PortTypes DEF IInv, QuietPorts, Quiet
<1>7. Whole' = Whole
    OBVIOUS
<1>8. TypeOK'
    <2>1. queue' \in [Ports -> 0 .. Buffers]
        <3>1. queue \in [Ports -> 0 .. Buffers] /\ Buffers \in Nat
            BY <1>1, LifecycleConstants DEF TypeOK
        <3>2. [queue EXCEPT ![Part] = Buffers] \in [Ports -> 0 .. Buffers]
            <4>1. Buffers \in 0 .. Buffers
                BY <3>1
            <4>2. \A S : \A f \in [Ports -> S] : \A x, v : v \in S => [f EXCEPT ![x] = v] \in [Ports -> S]
                OBVIOUS
            <4> QED BY <3>1, <4>1, <4>2
        <3>3. queue' \in {queue, [queue EXCEPT ![Part] = Buffers]}
            BY <1>3
        <3> QED BY <3>1, <3>2, <3>3
    <2>2. {queue, sent, lost}' \subseteq [Ports -> 0 .. Buffers]
        BY <1>1, <1>3, <2>1 DEF TypeOK
    <2>3. stage' \in 1 .. Len(Chain) /\ step' \in 1 .. 7 /\ main' \in {"create", "feed"}
        <3>1. CASE step < Len(StepsOf(Part)) /\ step' = step + 1 /\ stage' = stage /\ main' = "create"
            <4> DEFINE n == Len(StepsOf(Part))
            <4>1. n \in 1 .. 7 /\ step \in 1 .. n /\ step < n /\ step' = step + 1
                BY <1>2, <3>1
            <4> HIDE DEF n
            <4>2. step' \in 1 .. 7
                BY <4>1
            <4> QED BY <1>2, <1>4, <3>1, <4>2
        <3>2. CASE step' = 1
            BY <1>2, <1>4, <1>5, <3>2
        <3> QED BY <1>5, <3>1, <3>2
    <2>4. held' \subseteq Whole'
        BY <1>1, <1>2, <1>3, <1>7 DEF TypeOK
    <2> QED BY <1>1, <1>3, <2>2, <2>3, <2>4 DEF TypeOK
<1>9. StageInRange'
    <2>1. main' = "create" => step' \in 1 .. Len(StepsOf(Part'))
        <3>1. CASE stage' = stage
            <4>1. Part' = Part
                BY <3>1 DEF Part
            <4> QED BY <1>2, <1>5, <4>1
        <3>2. CASE step' = 1 /\ stage' = stage + 1 /\ stage < 7
            <4>1. Part' \in Range(Chain)
                BY <1>2, <3>2, ChainParts DEF Part
            <4> QED BY <3>2, <4>1, PartSteps
        <3> QED BY <1>2, <1>5, <3>1, <3>2
    <2>2. StepsOf(Part)' = StepsOf(Part')
        BY DEF StepsOf, Creator, create_camera, create_h264_encoder, create_mjpeg_encoder,
               create_resizer, create_splitter, enable_yuv
    <2> QED BY <1>5, <2>1, <2>2 DEF StageInRange, Going
<1>10. HeldSoFar'
    <2>1. MadeOf(Part, step + 1) = MadeOf(Part, step) \cup more
        BY <1>2, MadeGrows DEF Step
    <2>2. held' = (UNION {Has(c) : c \in Before}) \cup MadeOf(Part, step + 1)
        BY <1>1, <1>3, <2>1 DEF Made
    <2>3. CASE step < Len(StepsOf(Part))
        <3>1. stage' = stage /\ step' = step + 1 /\ main' = "create"
            BY <1>2, <1>5, <2>3
        <3>2. Made' = (UNION {Has(c) : c \in Before}) \cup MadeOf(Part, step + 1)
            BY <3>1 DEF Made, Before, Part, MadeOf, Has
        <3> QED BY <2>2, <3>1, <3>2 DEF HeldSoFar, Going
    <2>4. CASE step = Len(StepsOf(Part))
        <3>1. held' = UNION {Has(c) : c \in Before \cup {Part}}
            BY <1>2, <2>2, <2>4, MadeOfAll
        <3>2. 1 .. (stage + 1) - 1 = (1 .. stage - 1) \cup {stage}
            BY <1>2
        <3>3. Before \cup {Part} = {Chain[i] : i \in 1 .. (stage + 1) - 1}
            BY <3>2 DEF Before, Part
        <3>4. CASE stage < 7
            <4>1. stage' = stage + 1 /\ step' = 1 /\ main' = "create"
                BY <1>2, <1>5, <2>4, <3>4
            <4>2. Before' = Before \cup {Part}
                BY <3>3, <4>1 DEF Before
            <4>3. Made' = (UNION {Has(c) : c \in Before'}) \cup MadeOf(Part', 1)
                BY <4>1 DEF Made, MadeOf, Has
            <4> QED BY <3>1, <4>1, <4>2, <4>3, MadeOfNone DEF HeldSoFar, Going
        <3>5. CASE stage = 7
            <4>1. stage' = 1 /\ step' = 1 /\ main' = "feed"
                BY <1>2, <1>5, <2>4, <3>5
            <4>2. Before \cup {Part} = {Chain[i] : i \in 1 .. 7}
                BY <3>3, <3>5
            <4>3. {Chain[i] : i \in 1 .. 7} = Range(Chain)
                BY ChainParts DEF Range, Chain
            <4>4. held' = Whole
                BY <3>1, <4>2, <4>3 DEF Whole, Has
            <4> QED BY <1>7, <4>1, <4>4 DEF HeldSoFar
        <3> QED BY <1>2, <3>4, <3>5
    <2> QED BY <1>2, <2>3, <2>4
<1>11. QuietPorts'
    BY <1>3, <1>5, <1>6 DEF QuietPorts, Quiet
<1>12. Accounted'
    <2>0. \A r \in Ports : Total(r) = queue[r]
        BY <1>6 DEF Total, InCallback
    <2>1. /\ \A r \in Ports : queue[r] \in {0, Buffers} /\ Buffers \in Nat
          /\ \A r \in Ports : <<r, "pool">> \in held => queue[r] = Buffers
        BY <2>0, LifecycleConstants DEF IInv, Accounted
    <2>2. \A r \in Ports : queue'[r] \in {0, Buffers}
        BY <1>1, <1>3, <2>1 DEF TypeOK
    <2>3. \A r \in Ports : <<r, "pool">> \in held' => queue'[r] = Buffers
        BY <1>1, <1>3, <2>1 DEF TypeOK
    <2>4. \A r \in Ports : Total(r)' = queue'[r]
        BY <1>3, <1>6, <2>1, <2>2 DEF Total, InCallback
    <2> QED BY <2>2, <2>3, <2>4 DEF Accounted
<1>13. SentAll' /\ NotStarted'
    <2>1. main' \in {"create", "feed"} /\ (main' = "feed" => stage' = 1)
        BY <1>5
    <2> QED BY <1>1, <1>3, <2>1 DEF SentAll, Fed, NotStarted
<1> QED BY <1>8, <1>9, <1>10, <1>11, <1>12, <1>13 DEF IInv

\* A start that fails ends the process.
LEMMA StartFails ==
    ASSUME IInv, StepFails \/ WildPool PROVE IInv'
<1> USE DEF threads, service, buffers, chain, Fault
<1>1. TypeOK /\ StageInRange /\ main = "create" /\ http = "none" /\ QuietPorts /\ Accounted
    BY DEF IInv, StepFails, WildPool, HeldSoFar, NotStarted
<1>2. Part \in Range(Chain)
    BY <1>1, AtStep
<1>3. OwnLeft \subseteq Whole /\ \A p : <<p, "pool">> \notin OwnLeft
    <2>1. \A c \in Range(Chain) : Has(c) \subseteq Whole
        BY DEF Has, Whole
    <2>2. OwnLeft \subseteq Has(Part)
        BY <1>2, PartSteps DEF OwnLeft, Has
    <2>3. \A p : <<p, "pool">> \notin OwnLeft
        BY <1>2, PartSteps DEF OwnLeft
    <2> QED BY <1>2, <2>1, <2>2, <2>3
<1>4. /\ main' = "exited" /\ status' = "error" /\ faults' \in 0 .. MaxFaults
      /\ UNCHANGED <<stage, step, capture, queue, sent, callback, lost, running, mutex, handler, http, starts>>
    BY <1>1, LifecycleConstants DEF StepFails, WildPool, TypeOK
<1>5. held' \subseteq held \cup OwnLeft
    BY DEF StepFails, WildPool
<1>6. TypeOK'
    <2>1. Whole' = Whole /\ held' \subseteq Whole
        BY <1>1, <1>3, <1>5 DEF TypeOK
    <2> QED BY <1>1, <1>4, <2>1 DEF TypeOK
<1>7. StageInRange' /\ HeldSoFar' /\ NotStarted'
    BY <1>1, <1>4 DEF StageInRange, HeldSoFar, NotStarted, Going
<1>8. QuietPorts'
    BY <1>1, <1>4 DEF QuietPorts, Quiet
<1>9. Accounted'
    <2>1. \A p \in Ports : <<p, "pool">> \in held' => <<p, "pool">> \in held
        BY <1>3, <1>5
    <2> QED BY <1>1, <1>4, <2>1 DEF Accounted, Total, InCallback
<1>10. SentAll'
    BY <1>1, <1>4 DEF SentAll, Fed
<1> QED BY <1>6, <1>7, <1>8, <1>9, <1>10 DEF IInv

-----------------------------------------------------------------------------
(* The chain is taken down *)

LEMMA PortOrder ==
    /\ \A i \in 1 .. 3 : DisableOrder[i] \in Ports
    /\ Ended(3) = Ports /\ Ended(0) = {}
    /\ \A n \in 1 .. 3 : Ended(n) = Ended(n - 1) \cup {DisableOrder[n]}
    /\ Len(DisableOrder) = 3 /\ Len(DestroyOrder) = 5
<1>1. /\ DisableOrder[1] = "yuv" /\ DisableOrder[2] = "h264" /\ DisableOrder[3] = "mjpeg"
      /\ Len(DisableOrder) = 3
    BY DEF DisableOrder
<1>2. \A i \in 1 .. 3 : i = 1 \/ i = 2 \/ i = 3
    OBVIOUS
<1>3. \A i \in 1 .. 3 : DisableOrder[i] \in Ports
    BY <1>1, <1>2, ChainParts
<1>4. Ended(3) = Ports
    BY <1>1, <1>2, ChainParts DEF Ended
<1>5. Ended(0) = {}
    BY EndedNone
<1>6. \A n \in 1 .. 3 : 1 .. n = (1 .. n - 1) \cup {n}
    OBVIOUS
<1>7. \A n \in 1 .. 3 : Ended(n) = Ended(n - 1) \cup {DisableOrder[n]}
    BY <1>6 DEF Ended
<1>8. Len(DestroyOrder) = 5
    BY DEF DestroyOrder
<1> QED BY <1>1, <1>3, <1>4, <1>5, <1>7, <1>8

LEMMA StopStep ==
    ASSUME IInv, DisablePort \/ PortDisabled \/ Destroy PROVE IInv'
<1> USE DEF threads, service, buffers, chain
<1>1. TypeOK /\ StageInRange /\ HeldSoFar /\ QuietPorts /\ Accounted /\ SentAll /\ NotStarted
    BY DEF IInv
<1>2. Whole' = Whole /\ \A n : Ended(n)' = Ended(n)
    BY DEF Ended
<1>3. /\ UNCHANGED <<step, capture, queue, sent, callback, lost, running, mutex, handler, http, starts, faults>>
      /\ held' \subseteq held /\ main \in {"disable", "flush", "destroy"}
      /\ main' \in {"disable", "flush", "destroy", "exited"} /\ (main' = "exited" => main = "destroy")
    BY <1>1 DEF DisablePort, PortDisabled, Destroy
<1>4. Accounted' /\ NotStarted'
    BY <1>1, <1>3 DEF Accounted, Total, InCallback, NotStarted
<1>5. SentAll'
    BY <1>1, <1>3 DEF SentAll, Fed, Enabled
<1>6. CASE DisablePort
    <2>1. /\ main = "disable" /\ main' = "flush" /\ stage' = stage /\ stage \in 1 .. 3
          /\ held' = held \ {<<DisableOrder[stage], "port">>} /\ status' = status
        BY <1>1, <1>6 DEF DisablePort, StageInRange
    <2>2. TypeOK'
        BY <1>1, <1>2, <1>3, <2>1 DEF TypeOK
    <2>3. StageInRange'
        BY <1>1, <2>1 DEF StageInRange, Going
    <2>4. HeldSoFar'
        <3>1. Disabled = stage - 1 /\ Disabled' = stage
            BY <2>1 DEF Disabled
        <3>2. held = Whole \ {<<p, "port">> : p \in Ended(stage - 1)}
            BY <1>1, <2>1, <3>1 DEF HeldSoFar
        <3>3. Ended(stage) = Ended(stage - 1) \cup {DisableOrder[stage]}
            BY <2>1, PortOrder
        <3>4. held' = Whole \ {<<p, "port">> : p \in Ended(stage)}
            BY <2>1, <3>2, <3>3
        <3>5. held' = Whole' \ {<<p, "port">> : p \in Ended(Disabled)'}
            BY <1>2, <3>1, <3>4 DEF Ended
        <3> QED BY <2>1, <3>5 DEF HeldSoFar, Going
    <2>5. QuietPorts'
        <3>1. \A p \in Ended(stage - 1) : Quiet(p)
            BY <1>1, <2>1 DEF QuietPorts
        <3>2. Ended(stage - 1)' = Ended(stage - 1)
            BY <2>1 DEF Ended
        <3> QED BY <1>3, <2>1, <3>1, <3>2 DEF QuietPorts, Quiet
    <2> QED BY <1>4, <1>5, <2>2, <2>3, <2>4, <2>5 DEF IInv
<1>7. CASE PortDisabled
    <2>1. /\ main = "flush" /\ stage \in 1 .. 3 /\ held' = held /\ status' = status
          /\ Quiet(DisableOrder[stage])
          /\ \/ stage < 3 /\ stage' = stage + 1 /\ main' = "disable"
             \/ stage = 3 /\ stage' = 1 /\ main' = "destroy"
        BY <1>1, <1>7, PortOrder DEF PortDisabled, StageInRange, Quiet
    <2>2. TypeOK'
        <3>1. stage' \in 1 .. Len(Chain)
            BY <2>1, ChainParts
        <3> QED BY <1>1, <1>2, <1>3, <2>1, <3>1 DEF TypeOK
    <2>3. StageInRange'
        BY <1>1, <2>1 DEF StageInRange, Going
    <2>4. held = Whole \ {<<p, "port">> : p \in Ended(stage)}
        BY <1>1, <2>1 DEF HeldSoFar, Disabled
    <2>5. \A p \in Ended(stage) : Quiet(p)
        <3>1. \A p \in Ended(stage - 1) : Quiet(p)
            BY <1>1, <2>1 DEF QuietPorts
        <3> QED BY <2>1, <3>1, PortOrder
    <2>6. CASE main' = "disable"
        <3>1. stage' - 1 = stage /\ Disabled' = stage
            BY <2>1, <2>6 DEF Disabled
        <3>2. Ended(Disabled)' = Ended(stage) /\ Ended(stage - 1)' = Ended(stage)
            BY <3>1 DEF Ended
        <3>3. HeldSoFar'
            BY <1>2, <2>1, <2>4, <2>6, <3>2 DEF HeldSoFar, Going
        <3>4. QuietPorts'
            BY <1>3, <2>5, <2>6, <3>2 DEF QuietPorts, Quiet
        <3> QED BY <1>4, <1>5, <2>2, <2>3, <3>3, <3>4 DEF IInv
    <2>7. CASE main' = "destroy"
        <3>1. Ended(stage) = Ports
            BY <2>1, <2>7, PortOrder
        <3>2. HeldSoFar'
            BY <2>1, <2>4, <2>7, <3>1 DEF HeldSoFar, Going, Enabled
        <3>3. QuietPorts'
            BY <1>3, <2>5, <2>7, <3>1 DEF QuietPorts, Quiet
        <3> QED BY <1>4, <1>5, <2>2, <2>3, <3>2, <3>3 DEF IInv
    <2> QED BY <2>1, <2>6, <2>7
<1>8. CASE Destroy
    <2>1. /\ main = "destroy" /\ stage \in 1 .. 5 /\ status' \in {status, "ok"}
          /\ \/ stage < 5 /\ stage' = stage + 1 /\ main' = "destroy"
             \/ stage' = 1 /\ main' = "exited"
        BY <1>1, <1>8, PortOrder DEF Destroy, StageInRange
    <2>2. TypeOK'
        <3>1. stage' \in 1 .. Len(Chain) /\ held' \subseteq Whole
            BY <1>1, <1>3, <2>1, ChainParts DEF TypeOK
        <3> QED BY <1>1, <1>2, <1>3, <2>1, <3>1 DEF TypeOK
    <2>3. StageInRange'
        BY <1>1, <2>1 DEF StageInRange, Going
    <2>4. HeldSoFar'
        BY <1>1, <1>3, <2>1 DEF HeldSoFar, Going, Enabled
    <2>5. QuietPorts'
        BY <1>1, <1>3, <2>1 DEF QuietPorts, Quiet
    <2> QED BY <1>4, <1>5, <2>2, <2>3, <2>4, <2>5 DEF IInv
<1> QED BY <1>6, <1>7, <1>8

-----------------------------------------------------------------------------
(* The invariant *)

\* A process that has just been started, the first or a later one.
Fresh ==
    /\ main = "create" /\ stage = 1 /\ step = 1 /\ held = {} /\ capture = FALSE
    /\ queue = None /\ sent = None /\ callback = Idle /\ lost = None
    /\ running = TRUE /\ mutex = "free" /\ handler = "none" /\ http = "none" /\ status = "none"
    /\ starts \in 1 .. Burst /\ faults \in 0 .. MaxFaults

LEMMA FreshInv == Fresh => IInv
<1> SUFFICES ASSUME Fresh PROVE IInv
    OBVIOUS
<1> USE DEF Fresh
<1>1. Buffers \in Nat \ {0} /\ Len(Chain) = 7
    BY LifecycleConstants, ChainParts
<1>2. TypeOK
    <2>1. None \in [Ports -> 0 .. Buffers] /\ Idle \in [Ports -> {"idle", "called", "sending"}]
        BY <1>1 DEF None, Idle
    <2>2. {queue, sent, lost} \subseteq [Ports -> 0 .. Buffers]
        BY <2>1
    <2>3. capture \in BOOLEAN /\ running \in BOOLEAN
        OBVIOUS
    <2>4. stage \in 1 .. Len(Chain) /\ step \in 1 .. 7 /\ held \subseteq Whole
        BY <1>1
    <2>5. /\ main = "create" /\ mutex = "free" /\ handler = "none" /\ http = "none" /\ status = "none"
          /\ starts \in 1 .. Burst /\ faults \in 0 .. MaxFaults
          /\ callback \in [Ports -> {"idle", "called", "sending"}]
        BY <2>1
    <2> HIDE DEF Fresh
    <2> QED BY <2>2, <2>3, <2>4, <2>5 DEF TypeOK
<1>3. StageInRange
    <2>1. Part \in Range(Chain)
        BY ChainParts DEF Part
    <2>2. Len(StepsOf(Part)) \in 1 .. 7
        BY <2>1, PartSteps
    <2>3. \A n \in 1 .. 7 : 1 \in 1 .. n
        OBVIOUS
    <2>4. main = "create" /\ stage = 1 /\ step \in 1 .. Len(StepsOf(Part))
        BY <2>2, <2>3
    <2> HIDE DEF Fresh
    <2> QED BY <2>4 DEF StageInRange
<1>4. HeldSoFar
    <2>1. Before = {} /\ MadeOf(Part, 1) = {}
        BY MadeOfNone DEF Before
    <2> QED BY <2>1 DEF HeldSoFar, Made, Going
<1>5. \A p \in Ports : sent[p] = 0 /\ callback[p] = "idle" /\ lost[p] = 0 /\ queue[p] = 0
    BY DEF None, Idle
<1>6. QuietPorts
    BY <1>5 DEF QuietPorts, Quiet
<1>7. Accounted /\ SentAll /\ NotStarted
    BY <1>1, <1>5 DEF Accounted, Total, InCallback, SentAll, Fed, NotStarted
<1> QED BY <1>2, <1>3, <1>4, <1>6, <1>7 DEF IInv

LEMMA InitFresh == Init => Fresh
BY LifecycleConstants DEF Init, Fresh

LEMMA RestartFresh == TypeOK /\ Restart => Fresh'
BY LifecycleConstants DEF TypeOK, Restart, StartedAgain, Fresh, None, Idle, Ports

LEMMA Unmoved == IInv /\ UNCHANGED vars => IInv'
<1> SUFFICES ASSUME IInv, UNCHANGED vars PROVE IInv'
    OBVIOUS
<1> USE DEF vars, chain, buffers, threads, service
<1>1. TypeOK' /\ NotStarted'
    <2>1. Whole' = Whole
        OBVIOUS
    <2> QED BY <2>1 DEF IInv, TypeOK, NotStarted
<1>2. StageInRange'
    BY DEF IInv, StageInRange, Part
<1>3. HeldSoFar'
    BY DEF IInv, HeldSoFar, Enabled, Made, Before, Part, MadeOf, Has, Whole, Disabled, Ended
<1>4. QuietPorts'
    BY DEF IInv, QuietPorts, Quiet, Ended
<1>5. Accounted' /\ SentAll'
    BY DEF IInv, Accounted, Total, InCallback, SentAll, Fed, Enabled
<1> QED BY <1>1, <1>2, <1>3, <1>4, <1>5 DEF IInv

LEMMA InvStep == IInv /\ [Next]_vars /\ ~Restart => IInv'
<1> SUFFICES ASSUME IInv, [Next]_vars, ~Restart PROVE IInv'
    OBVIOUS
<1>1. CASE Start
    <2>1. Controls \/ StepSucceeds \/ Feed
        BY <1>1 DEF Start, Controls
    <2> QED BY <2>1, ControlStep, BuildStep, FeedStep
<1>2. CASE Run
    BY <1>2, ControlStep DEF Controls
<1>3. CASE Stop
    <2>1. Controls \/ DisablePort \/ PortDisabled \/ Destroy
        BY <1>3 DEF Stop, Controls
    <2> QED BY <2>1, ControlStep, StopStep
<1>4. CASE Failures
    BY <1>4, StartFails, FeedStep, CallbackStep DEF Failures
<1>5. CASE \E p \in Ports : Callback(p)
    BY <1>5, CallbackStep
<1>6. CASE Others
    BY <1>6, OtherStep
<1>7. CASE UNCHANGED vars
    BY <1>7, Unmoved
<1>8. Start \/ Run \/ Stop \/ Failures \/ (\E p \in Ports : Callback(p)) \/ Others \/ UNCHANGED vars
    BY DEF Next, Others
<1> QED BY <1>1, <1>2, <1>3, <1>4, <1>5, <1>6, <1>7, <1>8

LEMMA Invariance == Spec => []IInv
<1>1. Init => IInv
    BY InitFresh, FreshInv
<1>2. IInv /\ [Next]_vars => IInv'
    <2>1. IInv => TypeOK
        BY DEF IInv
    <2>2. IInv /\ Restart => IInv'
        BY <2>1, RestartFresh, FreshInv, PTL
    <2> QED BY <2>2, InvStep
<1> QED BY <1>1, <1>2, PTL DEF Spec

\* Whatever fails, and whenever a signal comes, all is of its type: no queue is
\* ever short of a buffer or has one too many (camera.c 11-24).
THEOREM TypeCorrect == Spec => []TypeOK
<1>1. IInv => TypeOK
    BY DEF IInv
<1> QED BY <1>1, Invariance, PTL

\* Pictures are only taken with every part of the chain in place, whichever
\* step of its making fails (main.c 686-768).
THEOREM NoPictureWithoutChain == Spec => []PicturesFlowThroughWholeChain
<1>1. IInv => PicturesFlowThroughWholeChain
    BY DEF IInv, HeldSoFar, Going, PicturesFlowThroughWholeChain
<1> QED BY <1>1, Invariance, PTL

\* Nothing a buffer needs is destroyed under it, even when the camera could
\* not be turned off (main.c 815-835).
THEOREM NothingGoesUnderBuffer == Spec => []PoolsOutliveBuffers
<1>1. IInv => PoolsOutliveBuffers
    <2> SUFFICES ASSUME IInv, NEW p \in Ports, sent[p] > 0 \/ callback[p] # "idle"
                 PROVE  Needs(p) \subseteq held
        BY DEF PoolsOutliveBuffers
    <2>1. ~Quiet(p) /\ TypeOK
        BY DEF Quiet, IInv
    <2>2. main \in Going \cup {"disable", "flush"}
        BY <2>1, BusyPort DEF TypeOK, Going
    <2>3. Needs(p) \subseteq Whole /\ \A r : <<r, "port">> \notin Needs(p)
        BY WholePorts DEF Needs
    <2> QED BY <2>2, <2>3 DEF IInv, HeldSoFar
<1> QED BY <1>1, Invariance, PTL

\* Each buffer is in one place, and a port without any has lost one to a send
\* that failed (camera.c 11-24).
THEOREM OnlyFailedSendStarves == Spec => []StarvedOnlyByFailedSend
<1>1. IInv => StarvedOnlyByFailedSend
    <2> SUFFICES ASSUME IInv, NEW p \in Ports
                 PROVE  /\ <<p, "pool">> \in held => queue[p] + sent[p] + lost[p] + InCallback(p) = Buffers
                        /\ http # "none" /\ Enabled(p) /\ sent[p] = 0 /\ callback[p] = "idle"
                               => lost[p] > 0
        BY DEF StarvedOnlyByFailedSend
    <2>1. <<p, "pool">> \in held => Total(p) = Buffers
        BY DEF IInv, Accounted
    <2>2. ASSUME http # "none", Enabled(p), sent[p] = 0, callback[p] = "idle"
          PROVE  lost[p] > 0
        <3>1. TypeOK /\ NotStarted /\ SentAll /\ HeldSoFar /\ Buffers \in Nat \ {0}
            BY LifecycleConstants DEF IInv
        <3>2. Fed(p)
            BY <2>2, <3>1 DEF NotStarted, Fed
        <3>3. queue[p] = 0 \/ lost[p] > 0
            BY <2>2, <3>1, <3>2 DEF SentAll
        <3>4. main \in Going \cup {"disable", "flush"}
            BY <2>2, <3>1 DEF NotStarted, HeldSoFar, TypeOK, Going
        <3>5. <<p, "pool">> \in held
            <4>1. \A r : <<p, "pool">> # <<r, "port">>
                OBVIOUS
            <4> QED BY <3>1, <3>4, <4>1, WholePorts DEF HeldSoFar
        <3>6. Total(p) = Buffers
            BY <2>1, <3>5
        <3> QED BY <2>2, <3>1, <3>3, <3>6, PortTypes DEF Total, InCallback
    <2> QED BY <2>1, <2>2 DEF Total
<1> QED BY <1>1, Invariance, PTL
=============================================================================
