--------------------------- MODULE Recorder_proofs ---------------------------
(***************************************************************************)
(* What TLAPS proves of the recorder, for every value of its constants: of *)
(* its ring, its files and its flag; that it implements VideoArchive; and  *)
(* that no frame that motion asked for is lost.                            *)
(***************************************************************************)
EXTENDS Recorder, FiniteSetTheorems, TLAPS

-----------------------------------------------------------------------------
(* Sequences of buffers *)

\* s begins with the first part of a keyframe, nothing is missing from it, and
\* it ends with buffer n, which is of frame f and its last part iff w.
Run(s, n, f, w) ==
    /\ Len(s) > 0 /\ Boundary(s[1]) /\ Contiguous(s)
    /\ s[Len(s)].n = n /\ s[Len(s)].frame = f /\ s[Len(s)].last = w

OneGroup(s) == \A i \in 2 .. Len(s) : ~Boundary(s[i])

\* The next buffer extends a run.
LEMMA RunAppend ==
    ASSUME NEW s \in Seq(Buffer), NEW n \in Int, NEW f, NEW w, NEW b \in Buffer,
           Run(s, n, f, w), b.n = n + 1
    PROVE  Run(Append(s, b), b.n, b.frame, b.last)
<1> DEFINE t == Append(s, b)
<1>1. Len(t) = Len(s) + 1 /\ t[Len(t)] = b /\ Len(s) \in Nat /\ Len(s) > 0
    BY DEF Run
<1>2. \A i \in 1 .. Len(s) : t[i] = s[i]
    OBVIOUS
<1>3. t[1] = s[1]
    BY <1>1, <1>2
<1>4. ASSUME NEW i \in 1 .. Len(t) - 1 PROVE t[i + 1].n = t[i].n + 1
    <2>1. CASE i = Len(s)
        BY <2>1, <1>1, <1>2 DEF Run
    <2>2. CASE i # Len(s)
        <3>1. i \in 1 .. Len(s) - 1 /\ i + 1 \in 1 .. Len(s) /\ i \in 1 .. Len(s)
            BY <2>2, <1>1
        <3>2. s[i + 1].n = s[i].n + 1
            BY <3>1 DEF Run, Contiguous
        <3> QED BY <3>1, <3>2, <1>2
    <2> QED BY <2>1, <2>2
<1> QED BY <1>1, <1>3, <1>4 DEF Run, Contiguous

\* The first part of a keyframe is a run by itself.
LEMMA RunStart ==
    ASSUME NEW b \in Buffer, Boundary(b)
    PROVE  /\ Append(<<>>, b) = <<b>> /\ <<b>> \in Seq(Buffer)
           /\ Run(<<b>>, b.n, b.frame, b.last) /\ OneGroup(<<b>>)
BY DEF Run, Contiguous, OneGroup

\* A buffer that is no keyframe's first stays in the group.
LEMMA OneGroupAppend ==
    ASSUME NEW s \in Seq(Buffer), NEW b \in Buffer, OneGroup(s), ~Boundary(b)
    PROVE  OneGroup(Append(s, b))
BY DEF OneGroup

-----------------------------------------------------------------------------
(* Numbers *)

\* What a reader of half a store sees is a number.
LEMMA MixNat ==
    ASSUME NEW high \in Nat, NEW low \in Nat
    PROVE  Mix(high, low) \in Nat
<1>1. Word \in Nat /\ Word > 0
    BY RecorderConstants
<1>2. high \div Word \in Nat /\ low % Word \in Nat
    BY <1>1
<1>3. (high \div Word) * Word \in Nat
    BY <1>1, <1>2
<1> QED BY <1>2, <1>3 DEF Mix

\* The second in a file's name is a number.
LEMMA SecondNat == ASSUME NEW f \in Nat PROVE Second(f) \in Nat
BY RecorderConstants DEF Second

\* Names grow with time, and a second is GOP frames.
LEMMA SecondMonotone ==
    ASSUME NEW f \in Nat, NEW g \in Nat, f <= g PROVE Second(f) <= Second(g)
BY RecorderConstants DEF Second

\* A group of pictures later the second is the next one.
LEMMA SecondNext == ASSUME NEW f \in Nat PROVE Second(f + GOP) = Second(f) + 1
<1> DEFINE k == f + Phase
<1>1. GOP \in Nat /\ GOP > 0 /\ k \in Nat /\ f + GOP + Phase = k + GOP
    BY RecorderConstants
<1>2. (k + GOP) \div GOP = (k \div GOP) + 1
    BY <1>1, SMTT(30)
<1> QED BY <1>1, <1>2 DEF Second

\* After a restart the first frame is more than a second after the last.
LEMMA RestartGap ==
    ASSUME NEW f \in Nat
    PROVE  LET g == ((f \div GOP) + 2) * GOP - 1
           IN  g \in Nat /\ g >= f + GOP /\ (g + 1) % GOP = 0
<1> DEFINE q == f \div GOP
<1>1. GOP \in Nat /\ GOP > 0 /\ q \in Nat
    BY RecorderConstants
<1>2. f < (q + 1) * GOP
    BY <1>1, SMTT(30)
<1>3. (q + 2) * GOP = (q + 1) * GOP + GOP
    BY <1>1, SMTT(30)
<1>4. (q + 2) * GOP \in Nat /\ ((q + 2) * GOP) % GOP = 0
    BY <1>1, SMTT(30)
<1> QED BY <1>1, <1>2, <1>3, <1>4

-----------------------------------------------------------------------------
(* The ring and the files *)

\* The current slot holds buffers.
LEMMA QueuedType == ASSUME NEW r \in Ring PROVE Queued(r) \in Seq(Buffer)
BY DEF Ring, Queued, NumBuffers

\* h264_advance_buffer moves to an empty slot.
LEMMA AdvanceEmpties ==
    ASSUME NEW r \in Ring
    PROVE  Advance(r) \in Ring /\ Queued(Advance(r)) = <<>>
<1> DEFINE o == (r.offset + 1) % NumBuffers
<1>1. o \in 0 .. NumBuffers - 1
    BY DEF Ring, NumBuffers
<1>2. <<>> \in Seq(Buffer)
    OBVIOUS
<1>3. Advance(r) = [slots |-> [r.slots EXCEPT ![o] = <<>>], offset |-> o]
    BY DEF Advance
<1> HIDE DEF o
<1>4. [r.slots EXCEPT ![o] = <<>>] \in [0 .. NumBuffers - 1 -> Seq(Buffer)]
    BY <1>2 DEF Ring
<1>5. [r.slots EXCEPT ![o] = <<>>][o] = <<>>
    BY <1>1 DEF Ring
<1> QED BY <1>1, <1>3, <1>4, <1>5 DEF Ring, Queued

\* A buffer put into the ring comes last in the current slot.
LEMMA PutAppends ==
    ASSUME NEW r \in Ring, NEW b \in Buffer
    PROVE  Put(r, b) \in Ring /\ Queued(Put(r, b)) = Append(Queued(r), b)
<1> DEFINE o == r.offset
           q == [r.slots EXCEPT ![o] = Append(@, b)]
<1>1. o \in 0 .. NumBuffers - 1 /\ r.slots \in [0 .. NumBuffers - 1 -> Seq(Buffer)]
    BY DEF Ring
<1>2. Append(r.slots[o], b) \in Seq(Buffer)
    <2>1. r.slots[o] \in Seq(Buffer)
        BY <1>1
    <2> HIDE DEF o
    <2> QED BY <2>1
<1>3. q \in [0 .. NumBuffers - 1 -> Seq(Buffer)] /\ q[o] = Append(r.slots[o], b)
    BY <1>1, <1>2
<1>4. Put(r, b) = [r EXCEPT !.slots = q]
    BY DEF Put, Ring
<1> HIDE DEF q
<1>5. Put(r, b) = [slots |-> q, offset |-> o]
    BY <1>4 DEF Ring
<1> QED BY <1>1, <1>3, <1>5 DEF Ring, Queued

\* The ring h264_config leaves is a ring with nothing queued.
LEMMA EmptyRingType == EmptyRing \in Ring /\ Queued(EmptyRing) = <<>>
BY DEF Ring, EmptyRing, Queued, NumBuffers

\* A write adds one buffer to one file and leaves the others alone.
LEMMA WriteAppends ==
    ASSUME NEW files, Files(files), NEW t \in DOMAIN files, NEW b \in Buffer
    PROVE  /\ Files(Write(files, t, b)) /\ DOMAIN Write(files, t, b) = DOMAIN files
           /\ Write(files, t, b)[t].data = Append(files[t].data, b)
           /\ Write(files, t, b)[t].header = files[t].header
           /\ Write(files, t, b)[t].stale = files[t].stale
           /\ \A u \in DOMAIN files : u # t => Write(files, t, b)[u] = files[u]
<1> DEFINE g == [files[t] EXCEPT !.data = Append(@, b)]
<1>1. files[t] \in File /\ Append(files[t].data, b) \in Seq(Buffer)
    BY DEF Files, File
<1>2. /\ g \in File /\ g.data = Append(files[t].data, b)
      /\ g.header = files[t].header /\ g.stale = files[t].stale
    BY <1>1 DEF File
<1>3. /\ DOMAIN Write(files, t, b) = DOMAIN files /\ Write(files, t, b)[t] = g
      /\ \A u \in DOMAIN files : u # t => Write(files, t, b)[u] = files[u]
    BY DEF Write
<1> HIDE DEF g
<1>4. Files(Write(files, t, b))
    BY <1>2, <1>3 DEF Files
<1> QED BY <1>2, <1>3, <1>4

\* What the encoder hands over next.
LEMMA DeliverFacts ==
    ASSUME TypeOK, NEW b, Deliver(b)
    PROVE  /\ b \in Buffer /\ b.n = serial
           /\ serial' = serial + 1 /\ frame' = b.frame /\ whole' = b.last
           /\ b.first = whole
           /\ b.frame = IF whole THEN frame + 1 ELSE frame
<1>1. b \in NextBuffers /\ serial' = serial + 1 /\ frame' = b.frame /\ whole' = b.last
    BY DEF Deliver
<1>2. frame \in Nat /\ serial \in Nat /\ whole \in BOOLEAN
    BY DEF TypeOK
<1>3. CASE whole
    <2>1. PICK l \in BOOLEAN :
              b = [n |-> serial, frame |-> frame + 1, first |-> TRUE, last |-> l]
        BY <1>1, <1>3 DEF NextBuffers
    <2> QED BY <1>1, <1>2, <1>3, <2>1 DEF Buffer
<1>4. CASE ~whole
    <2>1. b = [n |-> serial, frame |-> frame, first |-> FALSE, last |-> TRUE]
        BY <1>1, <1>4 DEF NextBuffers
    <2> QED BY <1>1, <1>2, <1>4, <2>1 DEF Buffer
<1> QED BY <1>2, <1>3, <1>4

-----------------------------------------------------------------------------
(* Type correctness *)

\* The globals of video.c start with their types.
LEMMA TypeInit == Init => TypeOK
<1> SUFFICES ASSUME Init PROVE TypeOK
    OBVIOUS
<1>1. GOP - 1 \in Nat /\ -MinGap \in Int /\ DOMAIN <<>> = {}
    BY RecorderConstants
<1> QED BY <1>1, EmptyRingType DEF Init, TypeOK, Files

\* The program's variables keep their types in a callback of the h264 port.
LEMMA TypeCallback ==
    ASSUME TypeOK, NEW b, Deliver(b), h264_callback(b)
    PROVE  TypeOK'
<1>1. /\ b \in Buffer /\ b.n \in Nat /\ frame' \in Nat /\ whole' \in BOOLEAN /\ serial' \in Nat
      /\ splits' \in Nat /\ torn' \in Nat /\ Second(b.frame) \in Nat
      /\ running' \in BOOLEAN /\ configured' \in BOOLEAN /\ config' \in ConfigLengths
      /\ stops' \in Nat /\ group' \in Nat
    <2>1. b \in Buffer /\ frame' = b.frame /\ whole' = b.last /\ serial' = serial + 1
        BY DeliverFacts
    <2>2. b.frame \in Nat /\ b.last \in BOOLEAN /\ b.n \in Nat
        BY <2>1 DEF Buffer
    <2>3. Second(b.frame) \in Nat
        BY <2>2, SecondNat
    <2> QED BY <2>1, <2>2, <2>3 DEF Deliver, TypeOK
<1>2. Due(b) \subseteq Nat
    <2>1. group' .. b.n \subseteq Nat
        BY <1>1
    <2> QED BY <2>1 DEF Due, TypeOK
<1>3. ring \in Ring /\ Advance(ring) \in Ring /\ Advance(Advance(ring)) \in Ring
    BY AdvanceEmpties DEF TypeOK
<1>4. /\ Put(ring, b) \in Ring /\ Put(Advance(ring), b) \in Ring
      /\ Put(Advance(Advance(ring)), b) \in Ring
    BY <1>1, <1>3, PutAppends
<1>5. CASE Close(b)
    <2>1. Files(temps)' /\ Files(finals)'
        BY <1>5 DEF Close, TypeOK, Files, Store, Drop, disk
    <2> QED BY <1>1, <1>2, <1>4, <1>5, <2>1 DEF Close, Requeue, TypeOK, motion
<1>6. CASE KeepSaving(b)
    <2>1. Files(temps)'
        <3>1. CASE fd = "open" /\ name \in DOMAIN temps
            BY <1>1, <1>6, <3>1, WriteAppends DEF KeepSaving, TypeOK
        <3>2. CASE name \notin DOMAIN temps
            BY <1>6, <3>2 DEF KeepSaving, TypeOK, Files, Write
        <3>3. CASE fd # "open"
            BY <1>6, <3>3 DEF KeepSaving, TypeOK
        <3> QED BY <3>1, <3>2, <3>3
    <2> QED BY <1>1, <1>2, <1>6, <2>1 DEF KeepSaving, TypeOK, motion, video
<1>7. CASE Open(b)
    <2>1. ring' \in Ring
        BY <1>3, <1>7 DEF Open
    <2>2. Append(Queued(ring'), b) \in Seq(Buffer)
        BY <1>1, <2>1, QueuedType
    <2>3. Files(temps)'
        BY <1>1, <1>7, <2>2 DEF Open, TypeOK, Files, Store, File
    <2> QED BY <1>1, <1>2, <1>7, <2>1, <2>3 DEF Open, TypeOK, motion
<1>8. CASE OpenFails(b)
    BY <1>1, <1>3, <1>8 DEF OpenFails, TypeOK, motion, disk
<1>9. CASE Queue(b)
    <2>1. ring' \in Ring
        BY <1>4, <1>9 DEF Queue
    <2> QED BY <1>1, <1>2, <1>9, <2>1 DEF Queue, TypeOK, motion, disk
<1> QED BY <1>5, <1>6, <1>7, <1>8, <1>9 DEF h264_callback

\* Every step of the three actors keeps the types.
LEMMA TypeStep == TypeOK /\ [Next]_vars => TypeOK'
<1> SUFFICES ASSUME TypeOK, [Next]_vars PROVE TypeOK'
    OBVIOUS
<1>1. CASE ConfigCallback
    BY <1>1, RecorderConstants DEF ConfigCallback, Kickoff, TypeOK, motion, disk
<1>2. ASSUME NEW b \in NextBuffers, h264_callback(b) PROVE TypeOK'
    BY <1>2, TypeCallback DEF h264_callback, Close, KeepSaving, Open, OpenFails, Queue
<1>3. CASE MotionStored
    BY <1>3 DEF MotionStored, TypeOK, encoder, video, disk
<1>4. ASSUME NEW pts \in 1 .. MaxMotion, MotionDetected(pts) PROVE TypeOK'
    <2>1. pts \in Nat /\ pts + Linger \in Nat
        BY RecorderConstants
    <2>2. Mix(pts + Linger, save_until) \in Nat /\ Mix(save_until, pts + Linger) \in Nat
        BY <2>1, MixNat DEF TypeOK
    <2> QED BY <1>4, <2>1, <2>2 DEF MotionDetected, TypeOK, encoder, video, disk
<1>5. CASE Stop
    <2>1. ring' \in Ring /\ stops' \in Nat /\ detected' \in Int
        <3>1. ring' = EmptyRing /\ stops' = stops + 1 /\ detected' = -MinGap
            BY <1>5 DEF Stop, MemoryAtStart
        <3> QED BY <3>1, EmptyRingType, RecorderConstants DEF TypeOK
    <2>2. Files(temps)' /\ Files(finals)'
        BY <1>5 DEF Stop, TypeOK, disk, Files
    <2>3. /\ running' = FALSE /\ configured' = FALSE /\ kickoff' = 0 /\ saving' = FALSE
          /\ fd' = "closed" /\ name' = 0 /\ save_until' = 0 /\ settled' = 0 /\ wanted' = 0
          /\ torn' = 0 /\ UNCHANGED <<config, frame, whole, serial, group, splits, due>>
        BY <1>5 DEF Stop, MemoryAtStart
    <2> QED BY <2>1, <2>2, <2>3 DEF TypeOK
<1>6. CASE Restart
    <2>1. frame' \in Nat
        BY <1>6, RestartGap DEF Restart, TypeOK
    <2> QED BY <1>6, <2>1 DEF Restart, TypeOK, video, motion, disk
<1>7. CASE UNCHANGED vars
    BY <1>7 DEF vars, encoder, motion, video, disk, TypeOK
<1> QED BY <1>1, <1>2, <1>3, <1>4, <1>5, <1>6, <1>7 DEF Next, H264Thread, YuvThread, Process

\* Every variable of the recorder keeps its type, and the ring its three slots
\* (h264_advance_buffer wraps; video.c 36-44).
THEOREM TypeCorrect == Spec => []TypeOK
BY TypeInit, TypeStep, PTL DEF Spec

-----------------------------------------------------------------------------
(* The inductive invariant *)

\* The config data is in memory once the encoder has sent it, if it fits.
KickoffKept == configured /\ config <= KickoffSize => kickoff = config

\* Outside a recording the ring's slot runs up to the newest buffer; it is
\* empty only before the first keyframe.
RingJoins ==
    ~saving =>
        /\ OneGroup(Queued(ring))
        /\ IF Queued(ring) = <<>>
           THEN running => whole /\ (frame + 1) % GOP = 0
           ELSE Run(Queued(ring), serial - 1, frame, whole)

\* In a recording the file runs up to the newest buffer.
FileJoins ==
    fd = "open" =>
        /\ name \in DOMAIN temps /\ Run(temps[name].data, serial - 1, frame, whole)
        /\ config <= KickoffSize => temps[name].header = config
        /\ ~temps[name].stale

\* The descriptor follows the saving flag, and a stopped program has neither a
\* recording nor a queue.
Control ==
    /\ saving => running /\ configured /\ name <= Second(frame)
    /\ saving <=> fd # "closed"
    /\ fd = "failed" => name \notin DOMAIN temps
    /\ ~running => Queued(ring) = <<>>

\* A temporary file that is not being written has a name from before the next
\* frame there can be, so no new recording gets it.
Horizon == IF running THEN frame + 1 ELSE frame + 1 + GOP
Orphans == \A t \in DOMAIN temps : (fd = "open" /\ t = name) \/ t < Second(Horizon)

IInv ==
    /\ TypeOK /\ KickoffKept /\ RingJoins /\ FileJoins /\ Control /\ Orphans
    /\ FinishedFilesPlayable

\* The invariant holds when the program starts.
LEMMA InvInit == Init => IInv
<1> SUFFICES ASSUME Init PROVE IInv
    OBVIOUS
<1>1. GOP - 1 \in Nat /\ (GOP - 1 + 1) % GOP = 0 /\ DOMAIN <<>> = {}
    BY RecorderConstants
<1>2. KickoffKept /\ RingJoins
    BY <1>1, EmptyRingType DEF Init, KickoffKept, RingJoins, OneGroup
<1>3. FileJoins /\ Control /\ Orphans /\ FinishedFilesPlayable
    BY <1>1, EmptyRingType DEF Init, FileJoins, Control, Orphans, FinishedFilesPlayable
<1> QED BY <1>2, <1>3, TypeInit DEF IInv

\* What every callback of the h264 port starts from.
LEMMA Delivered ==
    ASSUME IInv, NEW b, Deliver(b), h264_callback(b)
    PROVE  /\ TypeOK' /\ b \in Buffer /\ ring \in Ring /\ frame \in Nat /\ frame' \in Nat
           /\ b.n = serial /\ serial \in Nat /\ serial' - 1 = b.n
           /\ frame' = b.frame /\ whole' = b.last
           /\ Boundary(b) => whole /\ (frame + 1) % GOP = 0
           /\ HasPts(b) => b.frame = frame + 1
           /\ Queued(ring) \in Seq(Buffer)
           /\ ~saving /\ ~Boundary(b) => Run(Queued(ring), serial - 1, frame, whole)
           /\ running /\ running' /\ configured /\ configured' /\ config' = config
           /\ Second(frame) <= Second(frame') /\ Second(frame + 1) <= Second(frame' + 1)
           /\ Second(frame') <= Second(frame' + 1)
           /\ Second(frame) \in Nat /\ Second(frame + 1) \in Nat
           /\ Second(frame') \in Nat /\ Second(frame' + 1) \in Nat
<1>1. TypeOK' /\ b \in Buffer /\ ring \in Ring /\ frame \in Nat /\ frame' \in Nat /\ serial \in Nat
    BY TypeCallback, DeliverFacts DEF IInv, TypeOK
<1>2. /\ b.n = serial /\ serial' = serial + 1 /\ frame' = b.frame /\ whole' = b.last
      /\ b.first = whole /\ b.frame = IF whole THEN frame + 1 ELSE frame
    BY DeliverFacts DEF IInv
<1>3. whole \in BOOLEAN
    BY DEF IInv, TypeOK
<1>4. Boundary(b) <=> whole /\ (frame + 1) % GOP = 0
    BY <1>2, <1>3 DEF Boundary, Key, HasPts
<1>5. running /\ running' /\ configured /\ configured' /\ config' = config
    BY DEF Deliver
<1>6. ~saving /\ ~Boundary(b) => Run(Queued(ring), serial - 1, frame, whole)
    BY <1>4, <1>5 DEF IInv, RingJoins
<1>7. /\ Second(frame) <= Second(frame') /\ Second(frame + 1) <= Second(frame' + 1)
      /\ Second(frame') <= Second(frame' + 1)
    BY <1>1, <1>2, <1>3, SecondMonotone
<1>8. /\ Second(frame) \in Nat /\ Second(frame + 1) \in Nat
      /\ Second(frame') \in Nat /\ Second(frame' + 1) \in Nat
    BY <1>1, SecondNat
<1> QED BY <1>1, <1>2, <1>4, <1>5, <1>6, <1>7, <1>8, QueuedType DEF HasPts

\* Time passing does not make a file's name new again.
LEMMA OrphansAge ==
    ASSUME IInv, NEW b, Deliver(b), h264_callback(b)
    PROVE  \A t \in DOMAIN temps :
              t \in Nat /\ ((fd = "open" /\ t = name) \/ (t < Second(frame + 1) /\ t < Second(frame' + 1)))
<1>1. Horizon = frame + 1
    BY Delivered DEF Horizon
<1>2. \A t \in DOMAIN temps : t \in Nat /\ ((fd = "open" /\ t = name) \/ t < Second(frame + 1))
    BY <1>1 DEF IInv, Orphans, TypeOK, Files
<1>3. \A t \in Nat : t < Second(frame + 1) => t < Second(frame' + 1)
    BY Delivered
<1> QED BY <1>2, <1>3

\* Orphans stay older than the horizon when the frame count grows.
LEMMA OrphansNext ==
    ASSUME IInv, NEW b, Deliver(b), h264_callback(b),
           \A t \in DOMAIN temps' : (fd' = "open" /\ t = name') \/ t < Second(frame' + 1)
    PROVE  Orphans'
<1>1. Horizon' = frame' + 1
    BY Delivered DEF Horizon
<1>2. Second(Horizon)' = Second(frame' + 1)
    BY <1>1 DEF Second
<1> QED BY <1>2 DEF Orphans

\* The queue a recording starts with, once the frame at hand is added.
LEMMA QueueJoins ==
    ASSUME IInv, NEW b, Deliver(b), h264_callback(b), ~saving,
           NEW r \in Ring, IF Boundary(b) THEN Queued(r) = <<>> ELSE r = ring
    PROVE  /\ Append(Queued(r), b) \in Seq(Buffer) /\ OneGroup(Append(Queued(r), b))
           /\ Run(Append(Queued(r), b), serial' - 1, frame', whole')
<1>1. /\ b \in Buffer /\ b.n = serial /\ serial \in Nat /\ serial' - 1 = b.n
      /\ frame' = b.frame /\ whole' = b.last /\ Queued(r) \in Seq(Buffer)
    BY Delivered, QueuedType
<1>2. CASE Boundary(b)
    BY <1>1, <1>2, RunStart
<1>3. CASE ~Boundary(b)
    <2>1. Run(Queued(r), serial - 1, frame, whole) /\ OneGroup(Queued(r))
        BY <1>3, Delivered DEF IInv, RingJoins
    <2>2. serial - 1 \in Int /\ b.n = (serial - 1) + 1
        BY <1>1
    <2> QED BY <1>1, <1>3, <2>1, <2>2, RunAppend, OneGroupAppend
<1> QED BY <1>2, <1>3

\* Nothing changes for the published files when their directory does not.
LEMMA FinalsKept ==
    ASSUME FinishedFilesPlayable, finals' = finals, config' = config
    PROVE  FinishedFilesPlayable'
BY DEF FinishedFilesPlayable

\* Closing publishes a whole file and starts the ring anew with the keyframe.
LEMMA InvClose ==
    ASSUME IInv, NEW b, Deliver(b), Close(b) PROVE IInv'
<1>0. h264_callback(b)
    BY DEF h264_callback
<1>1. /\ saving /\ Boundary(b) /\ saving' = FALSE /\ fd' = "closed" /\ kickoff' = kickoff
      /\ ring' = Put(Advance(ring), b)
    BY DEF Close, PastDeadline, Requeue
<1>2. KickoffKept'
    BY <1>0, <1>1, Delivered DEF IInv, KickoffKept
<1>3. Queued(ring') = <<b>> /\ b \in Buffer
    BY ZenonT(40), <1>0, <1>1, Delivered, AdvanceEmpties, PutAppends, RunStart
<1>4. RingJoins' /\ FileJoins' /\ Control'
    <2>1. Run(<<b>>, serial' - 1, frame', whole') /\ OneGroup(<<b>>)
        BY <1>0, <1>1, <1>3, Delivered, RunStart
    <2> QED BY <1>0, <1>1, <1>3, <2>1, Delivered DEF RingJoins, FileJoins, Control
<1>5. CASE name \in DOMAIN temps
    <2>1. /\ finals' = Store(finals, name, temps[name]) /\ temps' = Drop(temps, name)
        BY <1>5 DEF Close
    <2>2. fd = "open"
        BY <1>1, <1>5 DEF IInv, Control, TypeOK
    <2>3. Playable(temps[name], config)
        <3>1. /\ Run(temps[name].data, serial - 1, frame, whole) /\ ~temps[name].stale
              /\ config <= KickoffSize => temps[name].header = config
            BY <2>2 DEF IInv, FileJoins
        <3>2. whole /\ (frame + 1) % GOP = 0
            BY <1>0, <1>1, Delivered
        <3> QED BY <3>1, <3>2 DEF Playable, Run, StartsAtKey, EndsBeforeKey
    <2>4. FinishedFilesPlayable'
        BY <1>0, <2>1, <2>3, Delivered DEF IInv, FinishedFilesPlayable, Store
    <2>5. ASSUME NEW t \in DOMAIN temps' PROVE t < Second(frame' + 1)
        <3>1. t \in DOMAIN temps /\ t # name
            BY <2>1 DEF Drop
        <3> QED BY <1>0, <3>1, OrphansAge
    <2>6. Orphans'
        BY <1>0, <2>5, OrphansNext
    <2> QED BY <1>0, <1>2, <1>4, <2>4, <2>6, Delivered DEF IInv
<1>6. CASE name \notin DOMAIN temps
    <2>1. finals' = finals /\ temps' = temps
        BY <1>6 DEF Close, disk
    <2>2. FinishedFilesPlayable'
        BY <1>0, <2>1, Delivered, FinalsKept DEF IInv
    <2>3. Orphans'
        <3>1. \A t \in DOMAIN temps' : t < Second(frame' + 1)
            BY <1>0, <1>6, <2>1, OrphansAge
        <3> QED BY <1>0, <3>1, OrphansNext
    <2> QED BY <1>0, <1>2, <1>4, <2>2, <2>3, Delivered DEF IInv
<1> QED BY <1>5, <1>6

\* Writing extends the file, and the run it holds.
LEMMA InvKeepSaving ==
    ASSUME IInv, NEW b, Deliver(b), KeepSaving(b) PROVE IInv'
<1>0. h264_callback(b)
    BY DEF h264_callback
<1>1. /\ saving /\ UNCHANGED <<finals, kickoff, ring, saving, fd, name>>
      /\ temps' = IF fd = "open" THEN Write(temps, name, b) ELSE temps
    BY DEF KeepSaving, video
<1>2. KickoffKept' /\ RingJoins' /\ FinishedFilesPlayable'
    BY <1>0, <1>1, Delivered, FinalsKept DEF IInv, KickoffKept, RingJoins
<1>3. DOMAIN temps' = DOMAIN temps
    BY <1>1 DEF Write
<1>4. Control'
    <2>1. name <= Second(frame) /\ name \in Nat
        BY <1>1 DEF IInv, Control, TypeOK
    <2>2. name <= Second(frame')
        BY <1>0, <2>1, Delivered
    <2> QED BY <1>0, <1>1, <1>3, <2>2, Delivered DEF IInv, Control
<1>5. Orphans'
    <2>1. \A t \in DOMAIN temps' : (fd' = "open" /\ t = name') \/ t < Second(frame' + 1)
        BY <1>0, <1>1, <1>3, OrphansAge
    <2> QED BY <1>0, <2>1, OrphansNext
<1>6. CASE fd = "open"
    <2> DEFINE s == temps[name].data
    <2>1. /\ name \in DOMAIN temps /\ Run(s, serial - 1, frame, whole)
          /\ config <= KickoffSize => temps[name].header = config
          /\ ~temps[name].stale
        BY <1>6 DEF IInv, FileJoins
    <2>2. Files(temps) /\ s \in Seq(Buffer)
        BY <2>1 DEF IInv, TypeOK, Files, File
    <2>3. /\ name \in DOMAIN temps' /\ temps'[name].data = Append(s, b)
          /\ temps'[name].header = temps[name].header
          /\ temps'[name].stale = temps[name].stale
        <3>1. temps' = Write(temps, name, b) /\ b \in Buffer
            BY <1>0, <1>1, <1>6, Delivered
        <3> QED BY <2>1, <2>2, <3>1, WriteAppends
    <2>4. Run(Append(s, b), serial' - 1, frame', whole')
        <3>1. /\ b \in Buffer /\ b.n = (serial - 1) + 1 /\ serial - 1 \in Int
              /\ serial' - 1 = b.n /\ frame' = b.frame /\ whole' = b.last
            BY <1>0, Delivered
        <3> QED BY <2>1, <2>2, <3>1, RunAppend
    <2>5. FileJoins'
        BY <1>0, <1>1, <2>1, <2>3, <2>4, Delivered DEF FileJoins
    <2> QED BY <1>0, <1>2, <1>4, <1>5, <2>5, Delivered DEF IInv
<1>7. CASE fd # "open"
    <2>1. FileJoins'
        BY <1>1, <1>7 DEF FileJoins
    <2> QED BY <1>0, <1>2, <1>4, <1>5, <2>1, Delivered DEF IInv
<1> QED BY <1>6, <1>7

\* Opening, or failing to, turns the queued group into the start of a file.
LEMMA InvOpen ==
    ASSUME IInv, NEW b, Deliver(b), Open(b) \/ OpenFails(b) PROVE IInv'
<1>0. h264_callback(b)
    BY DEF h264_callback
<1>1. /\ ~saving /\ HasPts(b) /\ saving' = TRUE /\ name' = Second(b.frame)
      /\ ring' = IF Boundary(b) THEN Advance(ring) ELSE ring
      /\ finals' = finals /\ kickoff' = kickoff
    BY DEF Open, OpenFails, Wanted, disk
<1>2. KickoffKept' /\ RingJoins' /\ FinishedFilesPlayable'
    BY <1>0, <1>1, Delivered, FinalsKept DEF IInv, KickoffKept, RingJoins
<1>3. /\ ring' \in Ring /\ IF Boundary(b) THEN Queued(ring') = <<>> ELSE ring' = ring
    BY <1>0, <1>1, Delivered, AdvanceEmpties
<1>4. name' = Second(frame') /\ name' = Second(frame + 1) /\ name' \in Nat
    BY <1>0, <1>1, Delivered, SecondNat
<1>5. fd # "open"
    BY <1>1 DEF IInv, Control
<1>6. \A t \in DOMAIN temps : t \in Nat /\ t < name' /\ t < Second(frame' + 1)
    BY <1>0, <1>4, <1>5, OrphansAge
<1>7. CASE Open(b)
    <2>1. /\ fd' = "open"
          /\ temps' = Store(temps, name', [header |-> kickoff, data |-> Append(Queued(ring'), b),
                                           stale |-> name' \in DOMAIN temps])
        BY <1>7 DEF Open
    <2>2. /\ name' \in DOMAIN temps' /\ temps'[name'].header = kickoff
          /\ temps'[name'].data = Append(Queued(ring'), b) /\ ~temps'[name'].stale
          /\ DOMAIN temps' = DOMAIN temps \cup {name'}
        <3>1. name' \notin DOMAIN temps
            BY <1>4, <1>6
        <3> QED BY <2>1, <3>1 DEF Store
    <2>3. config <= KickoffSize => kickoff = config
        BY <1>0, Delivered DEF IInv, KickoffKept
    <2>4. FileJoins'
        <3>1. Run(Append(Queued(ring'), b), serial' - 1, frame', whole')
            BY <1>0, <1>1, <1>3, QueueJoins
        <3> QED BY <1>0, <2>1, <2>2, <2>3, <3>1, Delivered DEF FileJoins
    <2>5. Control'
        BY <1>0, <1>1, <1>4, <2>1, Delivered DEF Control
    <2>6. Orphans'
        BY <1>0, <1>6, <2>1, <2>2, OrphansNext
    <2> QED BY <1>0, <1>2, <2>4, <2>5, <2>6, Delivered DEF IInv
<1>8. CASE OpenFails(b)
    <2>1. fd' = "failed" /\ temps' = temps
        BY <1>8 DEF OpenFails, disk
    <2>2. FileJoins'
        BY <2>1 DEF FileJoins
    <2>3. name' \notin DOMAIN temps'
        BY <1>4, <1>6, <2>1
    <2>4. Control'
        BY <1>0, <1>1, <1>4, <2>1, <2>3, Delivered DEF Control
    <2>5. Orphans'
        BY <1>0, <1>6, <2>1, OrphansNext
    <2> QED BY <1>0, <1>2, <2>2, <2>4, <2>5, Delivered DEF IInv
<1> QED BY <1>7, <1>8

\* A buffer that is queued extends the group in the ring, or starts a new one.
LEMMA InvQueue ==
    ASSUME IInv, NEW b, Deliver(b), Queue(b) PROVE IInv'
<1>0. h264_callback(b)
    BY DEF h264_callback
<1> DEFINE r == IF Boundary(b) THEN Advance(Advance(ring)) ELSE ring
<1>1. /\ ~saving /\ UNCHANGED <<finals, temps, kickoff, saving, fd, name>>
      /\ ring' = Put(r, b)
    BY DEF Queue, disk
<1>2. KickoffKept' /\ FinishedFilesPlayable'
    BY <1>0, <1>1, Delivered, FinalsKept DEF IInv, KickoffKept
<1>3. r \in Ring /\ IF Boundary(b) THEN Queued(r) = <<>> ELSE r = ring
    BY <1>0, Delivered, AdvanceEmpties
<1> HIDE DEF r
<1>4. /\ Queued(ring') = Append(Queued(r), b) /\ OneGroup(Append(Queued(r), b))
      /\ Run(Append(Queued(r), b), serial' - 1, frame', whole')
    BY <1>0, <1>1, <1>3, Delivered, PutAppends, QueueJoins
<1>5. RingJoins'
    <2>1. Append(Queued(r), b) # <<>>
        BY <1>4 DEF Run
    <2> QED BY <1>4, <2>1 DEF RingJoins
<1>6. FileJoins' /\ Control'
    BY <1>0, <1>1, Delivered DEF IInv, FileJoins, Control, TypeOK
<1>7. Orphans'
    <2>1. fd # "open"
        BY <1>1 DEF IInv, Control
    <2>2. \A t \in DOMAIN temps' : t < Second(frame' + 1)
        BY <1>0, <1>1, <2>1, OrphansAge
    <2> QED BY <1>0, <2>2, OrphansNext
<1> QED BY <1>0, <1>2, <1>5, <1>6, <1>7, Delivered DEF IInv

\* Config data changes only the kickoff, before any file is open.
LEMMA InvConfig == ASSUME IInv, TypeOK', ConfigCallback PROVE IInv'
<1>1. /\ ~configured /\ configured' /\ kickoff' = Kickoff(config) /\ running
      /\ UNCHANGED <<running, config, frame, whole, serial, ring, saving, fd, name, temps, finals>>
    BY DEF ConfigCallback, disk
<1>2. KickoffKept'
    BY <1>1, RecorderConstants DEF IInv, TypeOK, KickoffKept, Kickoff
<1>3. ~saving
    BY <1>1 DEF IInv, Control
<1>4. RingJoins' /\ FileJoins' /\ Control'
    BY <1>1, <1>3 DEF IInv, RingJoins, FileJoins, Control
<1>5. Orphans' /\ FinishedFilesPlayable'
    BY <1>1, FinalsKept DEF IInv, Orphans, Horizon, Second
<1> QED BY <1>2, <1>4, <1>5 DEF IInv

\* The yuv thread's stores touch nothing but save_until.
LEMMA InvMotion ==
    ASSUME IInv, TypeOK', UNCHANGED <<encoder, video, disk>> PROVE IInv'
<1>1. UNCHANGED <<running, config, configured, frame, whole, serial, kickoff, ring, saving, fd,
                  name, temps, finals>>
    BY DEF encoder, video, disk
<1>2. KickoffKept' /\ RingJoins' /\ FileJoins' /\ Control'
    BY <1>1 DEF IInv, KickoffKept, RingJoins, FileJoins, Control, Second
<1>3. Orphans' /\ FinishedFilesPlayable'
    BY <1>1, FinalsKept DEF IInv, Orphans, Horizon, Second
<1> QED BY <1>2, <1>3 DEF IInv

\* A stop clears memory; the file being written becomes an orphan with an old name.
LEMMA InvStop == ASSUME IInv, TypeOK', Stop PROVE IInv'
<1>1. /\ running /\ running' = FALSE /\ configured' = FALSE /\ saving' = FALSE /\ fd' = "closed"
      /\ ring' = EmptyRing /\ UNCHANGED <<config, frame, temps, finals>>
    BY DEF Stop, MemoryAtStart, disk
<1>2. Queued(ring') = <<>>
    BY <1>1, EmptyRingType
<1>3. KickoffKept' /\ RingJoins' /\ FileJoins' /\ Control'
    BY <1>1, <1>2 DEF KickoffKept, RingJoins, FileJoins, Control, OneGroup
<1>4. Orphans'
    <2>1. frame \in Nat /\ frame + 1 \in Nat /\ frame + GOP \in Nat /\ frame + 1 + GOP \in Nat
        BY RecorderConstants DEF IInv, TypeOK
    <2>2. /\ Second(frame + GOP) = Second(frame) + 1
          /\ Second(frame + GOP) <= Second(frame + 1 + GOP)
          /\ Second(frame + 1) <= Second(frame + 1 + GOP)
        BY <2>1, SecondNext, SecondMonotone, RecorderConstants
    <2>3. /\ Second(frame) \in Nat /\ Second(frame + 1) \in Nat /\ Second(frame + 1 + GOP) \in Nat
        BY <2>1, SecondNat
    <2>4. Horizon = frame + 1 /\ Horizon' = frame + 1 + GOP
        BY <1>1 DEF Horizon
    <2>5. ASSUME NEW t \in DOMAIN temps PROVE t < Second(frame + 1 + GOP)
        <3>1. t \in Nat /\ ((fd = "open" /\ t = name) \/ t < Second(frame + 1))
            BY <2>4 DEF IInv, Orphans, TypeOK, Files
        <3>2. CASE fd = "open" /\ t = name
            <4>1. name <= Second(frame)
                BY <3>2 DEF IInv, Control
            <4> QED BY <2>2, <2>3, <3>1, <3>2, <4>1
        <3>3. CASE t < Second(frame + 1)
            BY <2>2, <2>3, <3>1, <3>3
        <3> QED BY <3>1, <3>2, <3>3
    <2>6. Second(Horizon)' = Second(frame + 1 + GOP)
        BY <2>4 DEF Second
    <2> QED BY <1>1, <2>5, <2>6 DEF Orphans
<1>5. FinishedFilesPlayable'
    BY <1>1, FinalsKept DEF IInv
<1> QED BY <1>3, <1>4, <1>5 DEF IInv

\* After a restart the next frame's second is later than any orphan's.
LEMMA InvRestart == ASSUME IInv, TypeOK', Restart PROVE IInv'
<1>1. /\ ~running /\ running' = TRUE /\ whole' = TRUE
      /\ frame' = ((frame \div GOP) + 2) * GOP - 1
      /\ UNCHANGED <<config, configured, serial, kickoff, ring, saving, fd, name, temps, finals>>
    BY DEF Restart, video, disk
<1>2. /\ frame' \in Nat /\ frame' >= frame + GOP /\ (frame' + 1) % GOP = 0 /\ frame \in Nat
    BY <1>1, RestartGap DEF IInv, TypeOK
<1>3. ~saving /\ fd = "closed" /\ Queued(ring) = <<>>
    BY <1>1 DEF IInv, Control, TypeOK
<1>4. KickoffKept' /\ RingJoins' /\ FileJoins' /\ Control'
    BY <1>1, <1>2, <1>3 DEF IInv, KickoffKept, RingJoins, FileJoins, Control, OneGroup
<1>5. Orphans'
    <2>1. Second(frame + 1 + GOP) <= Second(frame' + 1)
        BY <1>2, SecondMonotone, RecorderConstants
    <2>2. Second(frame + 1 + GOP) \in Nat /\ Second(frame' + 1) \in Nat
        BY <1>2, SecondNat, RecorderConstants
    <2>3. Horizon = frame + 1 + GOP /\ Horizon' = frame' + 1
        BY <1>1 DEF Horizon
    <2>4. \A t \in DOMAIN temps : t \in Nat /\ t < Second(frame' + 1)
        <3>1. \A t \in DOMAIN temps : t \in Nat /\ t < Second(frame + 1 + GOP)
            BY <1>3, <2>3 DEF IInv, Orphans, TypeOK, Files
        <3> QED BY <2>1, <2>2, <3>1
    <2>5. Second(Horizon)' = Second(frame' + 1)
        BY <2>3 DEF Second
    <2> QED BY <1>1, <2>4, <2>5 DEF Orphans
<1>6. FinishedFilesPlayable'
    BY <1>1, FinalsKept DEF IInv
<1> QED BY <1>4, <1>5, <1>6 DEF IInv

\* The invariant is inductive: one case per action of Next.
LEMMA InvStep == IInv /\ [Next]_vars => IInv'
<1> SUFFICES ASSUME IInv, [Next]_vars PROVE IInv'
    OBVIOUS
<1>0. TypeOK'
    BY TypeStep DEF IInv
<1>1. CASE ConfigCallback
    BY <1>0, <1>1, InvConfig
<1>2. ASSUME NEW b \in NextBuffers, h264_callback(b) PROVE IInv'
    <2>1. CASE Close(b)
        BY <2>1, InvClose DEF Close
    <2>2. CASE KeepSaving(b)
        BY <2>2, InvKeepSaving DEF KeepSaving
    <2>3. CASE Open(b) \/ OpenFails(b)
        BY <2>3, InvOpen DEF Open, OpenFails
    <2>4. CASE Queue(b)
        BY <2>4, InvQueue DEF Queue
    <2> QED BY <1>2, <2>1, <2>2, <2>3, <2>4 DEF h264_callback
<1>3. CASE MotionStored
    BY <1>0, <1>3, InvMotion DEF MotionStored
<1>4. ASSUME NEW pts \in 1 .. MaxMotion, MotionDetected(pts) PROVE IInv'
    BY <1>0, <1>4, InvMotion DEF MotionDetected
<1>5. CASE Stop
    BY <1>0, <1>5, InvStop
<1>6. CASE Restart
    BY <1>0, <1>6, InvRestart
<1>7. CASE UNCHANGED vars
    BY <1>0, <1>7, InvMotion DEF vars
<1> QED BY <1>1, <1>2, <1>3, <1>4, <1>5, <1>6, <1>7 DEF Next, H264Thread, YuvThread, Process

\* The inductive invariant holds in every reachable state: from it the theorems on files and
\* the ring follow (h264_callback, video.c 63-195).
THEOREM Invariance == Spec => []IInv
BY InvInit, InvStep, PTL DEF Spec

-----------------------------------------------------------------------------
(* The theorems *)

\* Whatever the motion thread, the torn reads of save_until, failed opens and
\* stops of the program do, for every keyframe period, a file with the final
\* name holds the config data and whole groups of pictures without a gap
\* (h264_callback, video.c 87-191).
THEOREM PublishedFilesPlayable == Spec => []FinishedFilesPlayable
<1>1. IInv => FinishedFilesPlayable
    BY DEF IInv
<1> QED BY <1>1, Invariance, PTL

\* Outside a recording the ring's slot is the group of pictures in progress
\* (video.c 99-104 and 126-188).
THEOREM RingFollowsEncoder == Spec => []RingIsCurrentGroup
<1>1. IInv => RingIsCurrentGroup
    <2> SUFFICES ASSUME IInv, ~saving PROVE
            LET s == Queued(ring) IN
            /\ StartsAtKey(s) /\ Contiguous(s)
            /\ Len(s) > 0 => s[Len(s)].n = serial - 1
            /\ \A i \in 2 .. Len(s) : ~Boundary(s[i])
        BY DEF RingIsCurrentGroup
    <2>1. OneGroup(Queued(ring))
        BY DEF IInv, RingJoins
    <2>2. CASE Queued(ring) = <<>>
        BY <2>1, <2>2 DEF StartsAtKey, Contiguous, OneGroup
    <2>3. CASE Queued(ring) # <<>>
        <3>1. Run(Queued(ring), serial - 1, frame, whole)
            BY <2>3 DEF IInv, RingJoins
        <3> QED BY <2>1, <3>1 DEF Run, StartsAtKey, OneGroup
    <2> QED BY <2>2, <2>3
<1> QED BY <1>1, Invariance, PTL

-----------------------------------------------------------------------------
(***************************************************************************)
(* The recorder implements VideoArchive, for every value of its constants  *)
(* with which a file's second is over before another file is opened, when  *)
(* save_until is stored at once (MaxTorn = 0), as on a 64-bit system.      *)
(***************************************************************************)

\* Motion is reported early enough for a recording to linger for a group.
LingersLongEnough == MotionLag + GOP <= Linger

Timed == MaxTorn = 0 /\ LingersLongEnough

-----------------------------------------------------------------------------
(* The inductive invariant *)

\* A recording ends in a later second than that of its name; what motion asks
\* for while there is none is past, or at least a group of pictures away.
Timely ==
    /\ wanted = settled => save_until = wanted
    /\ wanted = 0 \/ wanted = detected + Linger
    /\ ~running => wanted = 0
    /\ IF saving THEN name < Second(wanted + 2)
       ELSE wanted <= frame + 1 \/ wanted >= frame + GOP

To(f) == f.data[Len(f.data)].n

\* Buffer number k is in no published file, and nor is any later one.
After(k) == \A t \in DOMAIN finals : To(finals[t]) < k

\* The published files are earlier than the file being written, or the queue.
Ordered ==
    /\ \A t \in DOMAIN finals : t < IF saving THEN name ELSE Second(frame + 1)
    /\ After(serial)
    /\ fd = "open" => temps[name].data[1].n < serial /\ After(temps[name].data[1].n)
    /\ ~saving /\ Queued(ring) # <<>> => Queued(ring)[1].n < serial /\ After(Queued(ring)[1].n)

AInv == IInv /\ Timely /\ Ordered

\* The last buffers of the published files have numbers.
LEMMA ToNat == ASSUME IInv, NEW t \in DOMAIN finals PROVE To(finals[t]) \in Nat /\ t \in Nat
<1>1. finals[t].data \in Seq(Buffer) /\ t \in Nat
    BY DEF IInv, TypeOK, Files, File
<1>2. Len(finals[t].data) \in 1 .. Len(finals[t].data)
    BY <1>1 DEF IInv, FinishedFilesPlayable, Playable
<1>3. finals[t].data[Len(finals[t].data)] \in Buffer
    BY <1>1, <1>2
<1> QED BY <1>1, <1>3 DEF To, Buffer

\* Half a store that changes nothing changes nothing.
LEMMA MixSame == ASSUME NEW v \in Nat PROVE Mix(v, v) = v
<1>1. Word \in Nat /\ Word > 0
    BY RecorderConstants
<1>2. v = (v \div Word) * Word + (v % Word)
    BY <1>1, SMTT(30)
<1> QED BY <1>2 DEF Mix

\* When stores are complete every callback reads what was stored last.
LEMMA Whole ==
    ASSUME AInv, MaxTorn = 0, NEW b, Deliver(b), h264_callback(b)
    PROVE  /\ save_until = wanted /\ wanted \in Nat
           /\ UNCHANGED <<save_until, settled, wanted, detected>>
<1>1. ~(torn < MaxTorn) /\ wanted \in Nat
    BY DEF AInv, IInv, TypeOK
<1>2. wanted = settled
    BY <1>1 DEF Deliver
<1>3. UNCHANGED motion
    BY DEF h264_callback, Close, KeepSaving, Open, OpenFails, Queue
<1> QED BY <1>1, <1>2, <1>3 DEF AInv, Timely, motion

\* The name of a new file is a second that ends before the file can.
LEMMA NewName ==
    ASSUME AInv, Timed, NEW b, Deliver(b), h264_callback(b), ~saving, Wanted(b)
    PROVE  Second(b.frame) < Second(wanted + 2) /\ b.frame = frame + 1
<1>1. /\ b.frame = frame + 1 /\ frame \in Nat /\ wanted \in Nat /\ b.frame < wanted
      /\ GOP \in Nat /\ GOP > 0
    BY Delivered, Whole, RecorderConstants DEF Timed, AInv, Wanted
<1>2. wanted >= frame + GOP
    BY <1>1 DEF AInv, Timely
<1>3. Second(b.frame + GOP) = Second(b.frame) + 1 /\ Second(b.frame) \in Nat
    BY <1>1, SecondNext, SecondNat
<1>4. Second(b.frame + GOP) <= Second(wanted + 2) /\ Second(wanted + 2) \in Nat
    <2>1. b.frame + GOP \in Nat /\ wanted + 2 \in Nat /\ b.frame + GOP <= wanted + 2
        BY <1>1, <1>2
    <2> QED BY <2>1, SecondMonotone, SecondNat
<1> QED BY <1>1, <1>3, <1>4

\* A callback keeps recordings and their names apart in time.
LEMMA TimelyCallback ==
    ASSUME AInv, Timed, NEW b, Deliver(b), h264_callback(b)
    PROVE  Timely'
<1>1. /\ UNCHANGED <<save_until, settled, wanted, detected>> /\ save_until = wanted /\ wanted \in Nat
      /\ running' /\ frame' = b.frame /\ frame \in Nat /\ frame' \in Nat
      /\ saving \in BOOLEAN
    BY Whole, Delivered DEF Timed, AInv, IInv, TypeOK
<1>2. /\ wanted' = settled' => save_until' = wanted'
      /\ wanted' = 0 \/ wanted' = detected' + Linger
    BY <1>1 DEF AInv, Timely
<1>3. CASE Close(b)
    BY <1>1, <1>2, <1>3 DEF Close, PastDeadline, Timely
<1>4. CASE KeepSaving(b)
    BY <1>1, <1>2, <1>4 DEF KeepSaving, video, AInv, Timely, Second
<1>5. CASE Open(b) \/ OpenFails(b)
    <2>1. Second(b.frame) < Second(wanted + 2) /\ saving' /\ name' = Second(b.frame)
        BY <1>5, NewName DEF Open, OpenFails
    <2>2. Second(wanted + 2)' = Second(wanted + 2)
        BY <1>1 DEF Second
    <2> QED BY <1>1, <1>2, <2>1, <2>2 DEF Timely
<1>6. CASE Queue(b)
    <2>1. ~saving /\ ~saving'
        BY <1>6 DEF Queue
    <2>2. CASE HasPts(b)
        <3>1. wanted <= frame'
            BY <1>1, <1>6, <2>2 DEF Queue, Wanted
        <3> QED BY <1>1, <1>2, <2>1, <3>1 DEF Timely
    <2>3. CASE ~HasPts(b)
        <3>1. frame' = frame
            BY <1>1, <2>3, DeliverFacts DEF HasPts, AInv, IInv
        <3> QED BY <1>1, <1>2, <2>1, <3>1 DEF AInv, Timely
    <2> QED BY <2>2, <2>3
<1> QED BY <1>3, <1>4, <1>5, <1>6 DEF h264_callback

\* The queue with the buffer at hand is later than every published file.
LEMMA QueueAfter ==
    ASSUME AInv, NEW b, Deliver(b), h264_callback(b), ~saving,
           NEW r \in Ring, IF Boundary(b) THEN Queued(r) = <<>> ELSE r = ring
    PROVE  LET s == Append(Queued(r), b) IN s[1].n < serial' /\ s[1].n \in Nat /\ After(s[1].n)
<1>1. /\ b \in Buffer /\ b.n = serial /\ serial \in Nat /\ serial' = serial + 1
      /\ Queued(r) \in Seq(Buffer)
    BY Delivered, DeliverFacts, QueuedType DEF AInv, IInv
<1>2. CASE Boundary(b)
    <2>1. Append(Queued(r), b)[1] = b
        BY <1>1, <1>2
    <2> QED BY <1>1, <2>1 DEF AInv, Ordered
<1>3. CASE ~Boundary(b)
    <2>1. Run(Queued(ring), serial - 1, frame, whole) /\ r = ring
        BY <1>3, Delivered DEF AInv
    <2>2. Len(Queued(r)) > 0 /\ Queued(r) # <<>> /\ Queued(r)[1] \in Buffer
        BY <1>1, <2>1 DEF Run
    <2>3. Append(Queued(r), b)[1] = Queued(r)[1] /\ Queued(r)[1].n \in Nat
        BY <1>1, <2>2 DEF Buffer
    <2>4. Queued(r)[1].n < serial /\ After(Queued(r)[1].n)
        BY <2>1, <2>2 DEF AInv, Ordered
    <2> QED BY <1>1, <2>3, <2>4
<1> QED BY <1>2, <1>3

\* What holds of the published files a buffer later.
LEMMA AfterNext ==
    ASSUME AInv, NEW b, Deliver(b), h264_callback(b)
    PROVE  /\ serial \in Nat /\ serial' = serial + 1
           /\ \A t \in DOMAIN finals : /\ t \in Nat /\ To(finals[t]) \in Nat
                                       /\ To(finals[t]) < serial /\ To(finals[t]) < serial'
<1>1. serial \in Nat /\ serial' = serial + 1
    BY DeliverFacts DEF AInv, IInv, TypeOK
<1>2. ASSUME NEW t \in DOMAIN finals
      PROVE  t \in Nat /\ To(finals[t]) \in Nat /\ To(finals[t]) < serial
    BY <1>2, ToNat DEF AInv, Ordered, After
<1> QED BY <1>1, <1>2

\* Closing publishes under a new name what no published file has.
LEMMA ClosePublishes ==
    ASSUME AInv, MaxTorn = 0, NEW b, Deliver(b), Close(b), name \in DOMAIN temps
    PROVE  /\ finals' = Store(finals, name, temps[name]) /\ name \notin DOMAIN finals
           /\ To(temps[name]) = serial - 1 /\ temps[name].data[1].n \in 0 .. serial - 1
           /\ After(temps[name].data[1].n) /\ name < Second(frame' + 1)
           /\ \A t \in DOMAIN finals : t < name
<1>0. h264_callback(b)
    BY DEF h264_callback
<1>1. finals' = Store(finals, name, temps[name]) /\ saving /\ b.frame > save_until
    BY DEF Close, PastDeadline
<1>2. fd = "open"
    BY <1>1 DEF AInv, IInv, Control, TypeOK
<1>3. \A t \in DOMAIN finals : t < name /\ t \in Nat
    BY <1>1, ToNat DEF AInv, Ordered
<1>4. Run(temps[name].data, serial - 1, frame, whole)
    BY <1>2 DEF AInv, IInv, FileJoins
<1>5. temps[name].data[1].n \in 0 .. serial - 1
    <2>1. temps[name].data \in Seq(Buffer) /\ Len(temps[name].data) > 0
        BY <1>4 DEF AInv, IInv, TypeOK, Files, File, Run
    <2>2. temps[name].data[1] \in Buffer /\ serial \in Nat
        BY <2>1 DEF AInv, IInv, TypeOK
    <2>3. temps[name].data[1].n < serial
        BY <1>2 DEF AInv, Ordered
    <2> QED BY <2>2, <2>3 DEF Buffer
<1>6. name < Second(frame' + 1)
    <2>1. wanted + 2 \in Nat /\ frame' + 1 \in Nat /\ wanted + 2 <= frame' + 1
        BY SMTT(30), <1>0, <1>1, Whole, Delivered DEF AInv
    <2>2. Second(wanted + 2) <= Second(frame' + 1) /\ name \in Nat
          /\ Second(wanted + 2) \in Nat /\ Second(frame' + 1) \in Nat
        BY <2>1, SecondMonotone, SecondNat DEF AInv, IInv, TypeOK
    <2>3. name < Second(wanted + 2)
        BY <1>1 DEF AInv, Timely
    <2> QED BY <2>2, <2>3
<1>7. name \notin DOMAIN finals
    BY <1>3
<1> QED BY <1>1, <1>2, <1>3, <1>4, <1>5, <1>6, <1>7 DEF AInv, Ordered, Run, To

\* A callback keeps the published files in order.
LEMMA OrderedCallback ==
    ASSUME AInv, MaxTorn = 0, NEW b, Deliver(b), h264_callback(b)
    PROVE  Ordered'
<1>1. /\ b \in Buffer /\ b.n = serial /\ serial \in Nat /\ serial' = serial + 1 /\ ring \in Ring
      /\ frame \in Nat /\ frame' \in Nat /\ saving \in BOOLEAN /\ name \in Nat
      /\ Second(frame + 1) \in Nat /\ Second(frame' + 1) \in Nat
      /\ Second(frame + 1) <= Second(frame' + 1)
    BY Delivered, AfterNext DEF AInv, IInv, TypeOK
<1>2. \A t \in DOMAIN finals : /\ t \in Nat /\ To(finals[t]) \in Nat
                               /\ To(finals[t]) < serial /\ To(finals[t]) < serial'
    BY AfterNext
<1>3. CASE Close(b)
    <2>1. ~saving' /\ fd' = "closed" /\ saving /\ Queued(ring')[1].n = serial
        <3>1. ring' = Put(Advance(ring), b) /\ Advance(ring) \in Ring /\ Queued(Advance(ring)) = <<>>
            BY <1>1, <1>3, AdvanceEmpties DEF Close, Requeue
        <3>2. Queued(ring') = Append(<<>>, b)
            BY <1>1, <3>1, PutAppends
        <3> QED BY <1>1, <1>3, <3>2 DEF Close
    <2>2. CASE name \in DOMAIN temps
        <3>1. /\ finals' = Store(finals, name, temps[name]) /\ name \notin DOMAIN finals
              /\ To(temps[name]) = serial - 1 /\ name < Second(frame' + 1)
              /\ \A t \in DOMAIN finals : t < name
            BY <1>3, <2>2, ClosePublishes
        <3>2. /\ DOMAIN finals' = DOMAIN finals \cup {name} /\ finals'[name] = temps[name]
              /\ \A t \in DOMAIN finals : finals'[t] = finals[t]
            BY <3>1 DEF Store
        <3>3. ASSUME NEW t \in DOMAIN finals'
              PROVE  t < Second(frame' + 1) /\ To(finals'[t]) < serial
            <4>1. CASE t = name
                BY <1>1, <3>1, <3>2, <4>1
            <4>2. CASE t # name
                <5>1. t \in DOMAIN finals /\ finals'[t] = finals[t]
                    BY <3>2, <4>2
                <5> QED BY <1>1, <1>2, <3>1, <5>1
            <4> QED BY <4>1, <4>2
        <3>4. \A t \in DOMAIN finals' : To(finals'[t]) < serial'
            <4>1. ASSUME NEW t \in DOMAIN finals' PROVE To(finals'[t]) \in Int
                <5>1. CASE t = name
                    BY <1>1, <3>1, <3>2, <5>1
                <5>2. CASE t # name
                    BY <1>2, <3>2, <5>2
                <5> QED BY <5>1, <5>2
            <4> QED BY <1>1, <3>3, <4>1
        <3> QED BY <1>1, <2>1, <3>3, <3>4 DEF Ordered, After, Second, To
    <2>3. CASE name \notin DOMAIN temps
        <3>1. finals' = finals
            BY <1>3, <2>3 DEF Close, disk
        <3>2. \A t \in DOMAIN finals : t < Second(frame' + 1)
            <4>1. name <= Second(frame') /\ Second(frame') \in Nat
                  /\ Second(frame') <= Second(frame' + 1)
                <5>1. name <= Second(frame) /\ Second(frame) <= Second(frame')
                      /\ Second(frame) \in Nat /\ Second(frame') \in Nat
                      /\ Second(frame') <= Second(frame' + 1)
                    BY <2>1, Delivered DEF AInv, IInv, Control
                <5> QED BY <1>1, <5>1
            <4>2. \A t \in DOMAIN finals : t < name
                BY <2>1 DEF AInv, Ordered
            <4> QED BY <1>1, <1>2, <4>1, <4>2
        <3> QED BY <1>1, <1>2, <2>1, <3>1, <3>2 DEF Ordered, After, Second, To
    <2> QED BY <2>2, <2>3
<1>4. CASE KeepSaving(b)
    <2>1. /\ saving /\ UNCHANGED <<saving, fd, name, finals>>
          /\ temps' = IF fd = "open" THEN Write(temps, name, b) ELSE temps
        BY <1>4 DEF KeepSaving, video
    <2>2. \A t \in DOMAIN finals : t < name
        BY <2>1 DEF AInv, Ordered
    <2>3. ASSUME fd = "open"
          PROVE  temps'[name].data[1].n < serial' /\ After(temps'[name].data[1].n)
        <3> DEFINE s == temps[name].data
        <3>1. Run(s, serial - 1, frame, whole) /\ name \in DOMAIN temps /\ Files(temps)
            BY <2>3 DEF AInv, IInv, FileJoins, TypeOK
        <3>2. s \in Seq(Buffer) /\ Len(s) > 0
            BY <3>1 DEF Files, File, Run
        <3>3. temps'[name].data = Append(s, b)
            BY <1>1, <2>1, <2>3, <3>1, WriteAppends
        <3>4. temps'[name].data[1] = s[1] /\ s[1] \in Buffer
            BY <1>1, <3>2, <3>3
        <3>5. s[1].n < serial /\ After(s[1].n) /\ s[1].n \in Nat
            BY <2>3, <3>4 DEF AInv, Ordered, Buffer
        <3> QED BY <1>1, <3>4, <3>5
    <2> QED BY <1>2, <2>1, <2>2, <2>3 DEF Ordered, After, To
<1>5. CASE Open(b) \/ OpenFails(b)
    <2>1. /\ ~saving /\ saving' = TRUE /\ name' = Second(b.frame) /\ finals' = finals /\ HasPts(b)
          /\ ring' = IF Boundary(b) THEN Advance(ring) ELSE ring
        BY <1>5 DEF Open, OpenFails, Wanted, disk
    <2>2. b.frame = frame + 1
        BY <2>1, Delivered DEF AInv
    <2>3. \A t \in DOMAIN finals : t < name'
        BY <2>1, <2>2 DEF AInv, Ordered
    <2>4. /\ ring' \in Ring /\ IF Boundary(b) THEN Queued(ring') = <<>> ELSE ring' = ring
        BY <1>1, <2>1, AdvanceEmpties
    <2>5. ASSUME fd' = "open"
          PROVE  temps'[name'].data[1].n < serial' /\ After(temps'[name'].data[1].n)
        <3>1. temps'[name'].data = Append(Queued(ring'), b)
            BY <1>5, <2>5 DEF Open, OpenFails, Store
        <3> QED BY <2>1, <2>4, <3>1, QueueAfter
    <2> QED BY <1>2, <2>1, <2>3, <2>5 DEF Ordered, After, To
<1>6. CASE Queue(b)
    <2> DEFINE r == IF Boundary(b) THEN Advance(Advance(ring)) ELSE ring
    <2>1. ~saving /\ UNCHANGED <<saving, fd, name, finals>> /\ ring' = Put(r, b)
        BY <1>6 DEF Queue, disk
    <2>2. r \in Ring /\ IF Boundary(b) THEN Queued(r) = <<>> ELSE r = ring
        BY <1>1, AdvanceEmpties
    <2> HIDE DEF r
    <2>3. Queued(ring') = Append(Queued(r), b)
        BY <1>1, <2>1, <2>2, PutAppends
    <2>4. Queued(ring')[1].n < serial' /\ After(Queued(ring')[1].n)
        BY <2>1, <2>2, <2>3, QueueAfter
    <2>5. fd # "open"
        BY <2>1 DEF AInv, IInv, Control
    <2>6. \A t \in DOMAIN finals : t < Second(frame' + 1)
        <3>1. \A t \in DOMAIN finals : t < Second(frame + 1)
            BY <2>1 DEF AInv, Ordered
        <3> QED BY <1>1, <1>2, <3>1
    <2> QED BY <1>2, <2>1, <2>4, <2>5, <2>6 DEF Ordered, After, To, Second
<1> QED BY <1>3, <1>4, <1>5, <1>6 DEF h264_callback

\* The yuv thread, a stop and a restart leave the published files alone.
LEMMA OtherSteps ==
    ASSUME AInv, IInv', Timed, [Next]_vars, ~\E b \in NextBuffers : h264_callback(b)
    PROVE  Timely' /\ Ordered' /\ UNCHANGED <<serial, finals>>
<1>0. /\ frame \in Nat /\ wanted \in Nat /\ settled \in Nat /\ save_until \in Nat /\ name \in Nat
      /\ saving \in BOOLEAN /\ running \in BOOLEAN /\ detected \in Int
      /\ GOP \in Nat /\ GOP > 0 /\ MotionLag \in Nat /\ Linger \in Nat /\ MinGap \in Nat
      /\ MotionLag + GOP <= Linger
    BY RecorderConstants DEF AInv, IInv, TypeOK, Timed, LingersLongEnough
<1>1. CASE ConfigCallback
    <2>1. UNCHANGED <<running, frame, serial, ring, saving, fd, name, motion, temps, finals>>
        BY <1>1 DEF ConfigCallback, disk
    <2> QED BY <2>1 DEF motion, AInv, Timely, Ordered, After, To, Second
<1>2. ASSUME UNCHANGED <<encoder, video, disk>>
      PROVE  Ordered' /\ UNCHANGED <<running, frame, serial, saving, name, finals>>
    <2>1. UNCHANGED <<running, frame, serial, ring, saving, fd, name, temps, finals>>
        BY <1>2 DEF encoder, video, disk
    <2> QED BY <2>1 DEF AInv, Ordered, After, To, Second
<1>3. CASE MotionStored
    <2>1. UNCHANGED <<encoder, video, disk, wanted, detected>> /\ settled' = wanted
          /\ save_until' = wanted
        BY <1>3 DEF MotionStored
    <2> QED BY <1>2, <2>1 DEF AInv, Timely, Second
<1>4. ASSUME NEW pts \in 1 .. MaxMotion, MotionDetected(pts) PROVE Timely' /\ Ordered'
    <2>1. /\ UNCHANGED <<encoder, video, disk, settled>> /\ wanted = settled /\ running
          /\ detected' = pts /\ wanted' = pts + Linger
          /\ save_until' \in {Mix(wanted', save_until), Mix(save_until, wanted')}
          /\ pts >= frame - MotionLag /\ pts >= detected + MinGap /\ pts \in Nat
        BY <1>4 DEF MotionDetected
    <2>2. wanted' = settled' => save_until' = wanted'
        <3> SUFFICES ASSUME wanted' = settled' PROVE save_until' = wanted'
            OBVIOUS
        <3>1. save_until = wanted /\ wanted' = wanted
            BY <2>1 DEF AInv, Timely
        <3> QED BY <1>0, <2>1, <3>1, MixSame
    <2>3. pts + Linger \in Nat /\ wanted <= pts + Linger
        BY <1>0, <2>1 DEF AInv, Timely
    <2>4. pts + Linger >= frame + GOP
        BY <1>0, <2>1
    <2>5. saving => name < Second(pts + Linger + 2)
        <3> SUFFICES ASSUME saving PROVE name < Second(pts + Linger + 2)
            OBVIOUS
        <3>1. Second(wanted + 2) <= Second(pts + Linger + 2) /\ Second(wanted + 2) \in Nat
              /\ Second(pts + Linger + 2) \in Nat
            BY <1>0, <2>3, SecondMonotone, SecondNat
        <3>2. name < Second(wanted + 2)
            BY DEF AInv, Timely
        <3> QED BY <1>0, <3>1, <3>2
    <2>6. Second(wanted + 2)' = Second(pts + Linger + 2)
        BY <2>1 DEF Second
    <2> QED BY <1>2, <2>1, <2>2, <2>4, <2>5, <2>6 DEF Timely
<1>5. CASE Stop
    <2>1. /\ running' = FALSE /\ saving' = FALSE /\ fd' = "closed" /\ ring' = EmptyRing
          /\ wanted' = 0 /\ settled' = 0 /\ save_until' = 0
          /\ UNCHANGED <<frame, serial, finals>>
        BY <1>5 DEF Stop, MemoryAtStart, disk
    <2>2. Timely'
        BY <1>0, <2>1 DEF Timely
    <2>3. ASSUME NEW t \in DOMAIN finals PROVE t < Second(frame + 1)
        <3>1. CASE saving
            <4>1. t < name /\ name <= Second(frame)
                BY <3>1 DEF AInv, IInv, Control, Ordered
            <4>2. Second(frame) <= Second(frame + 1) /\ t \in Nat
                  /\ Second(frame) \in Nat /\ Second(frame + 1) \in Nat
                BY <1>0, SecondMonotone, SecondNat, ToNat DEF AInv
            <4> QED BY <1>0, <4>1, <4>2
        <3>2. CASE ~saving
            BY <3>2 DEF AInv, Ordered
        <3> QED BY <3>1, <3>2
    <2>4. Queued(ring') = <<>>
        BY <2>1, EmptyRingType
    <2> QED BY <2>1, <2>2, <2>3, <2>4 DEF AInv, Ordered, After, To, Second
<1>6. CASE Restart
    <2>1. /\ ~running /\ running' = TRUE /\ frame' = ((frame \div GOP) + 2) * GOP - 1
          /\ UNCHANGED <<serial, ring, saving, fd, name, temps, finals, motion>>
        BY <1>6 DEF Restart, video, disk
    <2>2. frame' \in Nat /\ frame' >= frame
        BY <1>0, <2>1, RestartGap
    <2>3. ~saving /\ ~saving' /\ fd' # "open" /\ wanted = 0
        BY <2>1 DEF AInv, IInv, Control, Timely
    <2>4. Timely'
        BY <1>0, <2>1, <2>2, <2>3 DEF AInv, Timely, motion
    <2>5. ASSUME NEW t \in DOMAIN finals PROVE t < Second(frame' + 1)
        <3>1. t < Second(frame + 1) /\ t \in Nat
            BY <2>3, ToNat DEF AInv, Ordered
        <3>2. Second(frame + 1) <= Second(frame' + 1)
              /\ Second(frame + 1) \in Nat /\ Second(frame' + 1) \in Nat
            BY <1>0, <2>2, SecondMonotone, SecondNat
        <3> QED BY <3>1, <3>2
    <2> QED BY <2>1, <2>3, <2>4, <2>5 DEF AInv, Ordered, After, To, Second
<1>7. CASE UNCHANGED vars
    BY <1>2, <1>7 DEF vars, motion, AInv, Timely, Second
<1> QED BY <1>1, <1>2, <1>3, <1>4, <1>5, <1>6, <1>7
        DEF Next, H264Thread, YuvThread, Process, MotionStored, MotionDetected, ConfigCallback, Stop,
            Restart, disk, encoder, vars

\* Nothing is published and nothing is asked for when the program starts.
LEMMA AInvInit == Init => AInv
<1> SUFFICES ASSUME Init PROVE AInv
    OBVIOUS
<1>1. DOMAIN finals = {} /\ Queued(ring) = <<>> /\ fd # "open" /\ ~saving
    BY EmptyRingType DEF Init
<1>2. Timely
    BY RecorderConstants DEF Init, Timely
<1>3. Ordered
    BY <1>1 DEF Ordered, After
<1> QED BY <1>2, <1>3, InvInit DEF AInv

\* Every step keeps the invariant: the callbacks, and whatever else.
LEMMA AInvStep == ASSUME Timed, AInv, [Next]_vars PROVE AInv'
<1>1. IInv'
    BY InvStep DEF AInv
<1>2. ASSUME NEW b \in NextBuffers, h264_callback(b) PROVE Timely' /\ Ordered'
    <2>1. Deliver(b)
        BY <1>2 DEF h264_callback, Close, KeepSaving, Open, OpenFails, Queue
    <2> QED BY <1>2, <2>1, TimelyCallback, OrderedCallback DEF Timed
<1>3. ASSUME ~\E b \in NextBuffers : h264_callback(b) PROVE Timely' /\ Ordered'
    BY <1>1, <1>3, OtherSteps
<1> QED BY <1>1, <1>2, <1>3 DEF AInv

-----------------------------------------------------------------------------
(* The theorems *)

\* What a step does to the published files: nothing, unless it closes a file
\* that exists.
LEMMA OnlyClosePublishes ==
    ASSUME Timed, AInv, [Next]_vars
    PROVE  \/ UNCHANGED finals /\ serial' \in {serial, serial + 1}
           \/ \E b \in NextBuffers : Deliver(b) /\ Close(b) /\ name \in DOMAIN temps
<1>1. ASSUME NEW b \in NextBuffers, h264_callback(b)
      PROVE  \/ UNCHANGED finals /\ serial' = serial + 1
             \/ Deliver(b) /\ Close(b) /\ name \in DOMAIN temps
    <2>1. Deliver(b)
        BY <1>1 DEF h264_callback, Close, KeepSaving, Open, OpenFails, Queue
    <2>2. Close(b) /\ name \notin DOMAIN temps => UNCHANGED finals
        BY DEF Close, disk
    <2>3. KeepSaving(b) \/ Open(b) \/ OpenFails(b) \/ Queue(b) => UNCHANGED finals
        BY DEF KeepSaving, Open, OpenFails, Queue, disk
    <2> QED BY <1>1, <2>1, <2>2, <2>3, DeliverFacts DEF h264_callback, AInv, IInv
<1>2. CASE ~\E b \in NextBuffers : h264_callback(b)
    BY <1>2, OtherSteps, InvStep DEF AInv
<1> QED BY <1>1, <1>2

\* Once published a recording is never changed, replaced or removed, when the
\* yuv thread is at least a group of pictures faster than a recording lingers:
\* then no two recordings get the same name (video.c 93-97 and 143-160).
THEOREM PublishedForever == Timed /\ Spec => PublishedStays
<1> SUFFICES ASSUME Timed PROVE Spec => PublishedStays
    OBVIOUS
<1>1. ASSUME AInv, [Next]_vars
      PROVE  [\A t \in DOMAIN finals : t \in DOMAIN finals' /\ finals'[t] = finals[t]]_vars
    <2>1. ASSUME NEW b \in NextBuffers, Deliver(b), Close(b), name \in DOMAIN temps
          PROVE  \A t \in DOMAIN finals : t \in DOMAIN finals' /\ finals'[t] = finals[t]
        <3>1. finals' = Store(finals, name, temps[name]) /\ name \notin DOMAIN finals
            BY <1>1, <2>1, ClosePublishes DEF Timed
        <3> QED BY <3>1 DEF Store
    <2> QED BY <1>1, <2>1, OnlyClosePublishes
<1>2. Init => AInv
    BY AInvInit
<1>3. AInv /\ [Next]_vars => AInv'
    BY AInvStep
<1> QED BY <1>1, <1>2, <1>3, PTL DEF Spec, PublishedStays

\* The recorder implements the archive: every recording is published whole,
\* once, later than all before it and without a buffer of theirs, whatever the
\* motion, split frames, failed open()s and stops (video.c 63-191).
THEOREM RecorderImplementsArchive == Timed /\ Spec => ArchiveSpec
<1> SUFFICES ASSUME Timed PROVE Spec => Archive!Spec
    BY DEF ArchiveSpec
<1>1. Init => Archive!Init
    <2> SUFFICES ASSUME Init PROVE Archive!Init
        OBVIOUS
    <2>1. serial = 0 /\ finals = <<>> /\ DOMAIN <<>> = {}
        BY DEF Init
    <2>2. Clips = <<>>
        BY <2>1 DEF Clips
    <2> QED BY <2>1, <2>2 DEF Archive!Init
<1>2. ASSUME AInv, [Next]_vars PROVE [Archive!Next]_(Archive!vars)
    <2>0. serial \in Nat
        BY <1>2 DEF AInv, IInv, TypeOK
    <2>1. CASE UNCHANGED finals /\ serial' \in {serial, serial + 1}
        <3>1. Clips' = Clips
            BY <2>1 DEF Clips
        <3> QED BY <2>1, <3>1 DEF Archive!Next, Archive!Film, Archive!vars
    <2>2. ASSUME NEW b \in NextBuffers, Deliver(b), Close(b), name \in DOMAIN temps
          PROVE  Archive!Next
        <3> DEFINE from == temps[name].data[1].n
        <3>1. /\ finals' = Store(finals, name, temps[name]) /\ name \notin DOMAIN finals
              /\ To(temps[name]) = serial - 1 /\ from \in 0 .. serial - 1
              /\ After(from) /\ \A t \in DOMAIN finals : t < name
            BY <1>2, <2>2, ClosePublishes DEF Timed
        <3>2. serial' = serial + 1
            BY <1>2, <2>2, DeliverFacts DEF AInv, IInv
        <3>3. /\ DOMAIN Clips = DOMAIN finals /\ DOMAIN Clips' = DOMAIN finals \cup {name}
              /\ \A t \in DOMAIN finals : Clips[t].to = To(finals[t])
            BY <3>1 DEF Clips, Store, To
        <3>4. Clips' = [u \in DOMAIN Clips \cup {name} |->
                           IF u = name THEN [from |-> from, to |-> serial - 1] ELSE Clips[u]]
            BY <3>1 DEF Clips, Store, To
        <3>5. Archive!Publish(name, from)
            BY <3>1, <3>3, <3>4 DEF Archive!Publish, After
        <3>6. name \in DOMAIN Clips'
            BY <3>3
        <3> QED BY <3>1, <3>2, <3>5, <3>6 DEF Archive!Next, Archive!Film
    <2> QED BY <1>2, <2>1, <2>2, OnlyClosePublishes
<1>3. Init => AInv
    BY AInvInit
<1>4. AInv /\ [Next]_vars => AInv'
    BY AInvStep
<1> QED BY <1>1, <1>2, <1>3, <1>4, PTL DEF Spec, Archive!Spec

-----------------------------------------------------------------------------
(***************************************************************************)
(* No frame that motion asked for is lost, with the group of pictures it   *)
(* is decoded from, under the conditions with which the recorder           *)
(* implements VideoArchive.                                                *)
(***************************************************************************)

\* s holds every buffer from its first to buffer n.
Dense(s, n) == \A k \in Nat : s[1].n <= k /\ k <= n => k \in Numbers(s)

\* Where the buffers of the newest group are, and which can be due.
Kept ==
    /\ group <= serial /\ \A k \in due : k < serial
    /\ fd = "open" => temps[name].data[1].n <= group /\ Dense(temps[name].data, serial - 1)
    /\ ~saving /\ Queued(ring) # <<>> =>
          Queued(ring)[1].n <= group /\ Dense(Queued(ring), serial - 1)
    /\ running /\ ~saving /\ ~whole => serial - 1 \notin due

DInv == AInv /\ Kept /\ NothingDueIsLost

\* One more buffer leaves no gap.
LEMMA DenseAppend ==
    ASSUME NEW s \in Seq(Buffer), NEW n \in Int, NEW b \in Buffer, b.n = n + 1,
           s = <<>> \/ Dense(s, n)
    PROVE  LET t == Append(s, b)
           IN  /\ t \in Seq(Buffer) /\ Dense(t, b.n) /\ Numbers(s) \subseteq Numbers(t)
               /\ t[1] = IF s = <<>> THEN b ELSE s[1]
<1> DEFINE t == Append(s, b)
<1>1. /\ t \in Seq(Buffer) /\ Len(s) \in Nat /\ DOMAIN s = 1 .. Len(s) /\ DOMAIN t = 1 .. Len(s) + 1
      /\ t[Len(s) + 1] = b /\ \A i \in 1 .. Len(s) : t[i] = s[i]
    OBVIOUS
<1>2. Numbers(s) \subseteq Numbers(t) /\ b.n \in Numbers(t)
    <2>1. ASSUME NEW i \in DOMAIN s PROVE s[i].n \in Numbers(t)
        <3>1. i \in DOMAIN t /\ t[i] = s[i]
            BY <1>1
        <3> QED BY <3>1 DEF Numbers
    <2>2. b.n \in Numbers(t)
        <3>1. Len(s) + 1 \in DOMAIN t
            BY <1>1
        <3> QED BY <1>1, <3>1 DEF Numbers
    <2> QED BY <2>1, <2>2 DEF Numbers
<1>3. t[1] = IF s = <<>> THEN b ELSE s[1]
    BY <1>1
<1>4. ASSUME NEW k \in Nat, t[1].n <= k, k <= b.n PROVE k \in Numbers(t)
    <2>1. CASE k = b.n
        BY <1>2, <2>1
    <2>2. CASE k # b.n
        <3>1. b.n \in Nat
            BY DEF Buffer
        <3>2. k <= n /\ s # <<>>
            BY <1>3, <1>4, <2>2, <3>1
        <3> QED BY <1>2, <1>3, <1>4, <3>2 DEF Dense
    <2> QED BY <2>1, <2>2
<1> HIDE DEF t
<1>5. Dense(t, b.n)
    BY <1>4 DEF Dense
<1> QED BY <1>1, <1>2, <1>3, <1>5 DEF t

\* What a callback makes due, besides what was.
LEMMA DueNumbers ==
    ASSUME DInv, MaxTorn = 0, NEW b, Deliver(b), h264_callback(b)
    PROVE  /\ serial \in Nat /\ serial' = serial + 1 /\ b.n = serial /\ b \in Buffer
           /\ group' \in Nat /\ group' <= serial /\ group' = IF Boundary(b) THEN serial ELSE group
           /\ Due(b) \in {due, due \cup group' .. serial}
           /\ \A k \in Due(b) : k \in Nat /\ k < serial'
           /\ \A k \in due : k \in Nat /\ k < serial
<1>1. serial \in Nat /\ serial' = serial + 1 /\ b.n = serial /\ b \in Buffer /\ group \in Nat
    BY DeliverFacts DEF DInv, AInv, IInv, TypeOK
<1>2. group' = (IF Boundary(b) THEN serial ELSE group) /\ group <= serial
    BY <1>1 DEF Deliver, DInv, Kept
<1>3. Due(b) \in {due, due \cup group' .. serial}
    BY <1>1 DEF Due
<1>4. \A k \in due : k \in Nat /\ k < serial
    BY DEF DInv, AInv, IInv, TypeOK, Kept
<1> QED BY <1>1, <1>2, <1>3, <1>4

\* A buffer that closes a file or is queued is not due.
LEMMA NotDue ==
    ASSUME DInv, MaxTorn = 0, NEW b, Deliver(b), Close(b) \/ Queue(b)
    PROVE  Due(b) = due
<1>1. h264_callback(b)
    BY DEF h264_callback
<1>2. /\ save_until = wanted /\ wanted = settled /\ wanted \in Nat /\ b.frame \in Nat
    <2>1. ~(torn < MaxTorn)
        BY DEF DInv, AInv, IInv, TypeOK
    <2>2. wanted = settled
        BY <2>1 DEF Deliver
    <2> QED BY <1>1, <2>2, Whole, DueNumbers DEF DInv, Buffer
<1>3. CASE Close(b)
    BY <1>2, <1>3 DEF Close, PastDeadline, Boundary, Due
<1>4. CASE Queue(b)
    <2>1. ~saving /\ ~Wanted(b)
        BY <1>4 DEF Queue
    <2>2. CASE HasPts(b)
        BY <1>2, <2>1, <2>2 DEF Wanted, Due
    <2>3. CASE ~HasPts(b)
        <3>1. ~whole /\ running /\ b.n = serial
            BY <2>3, DeliverFacts DEF Deliver, HasPts, DInv, AInv, IInv
        <3> QED BY <2>1, <2>3, <3>1 DEF DInv, Kept, Due
    <2> QED BY <2>2, <2>3
<1> QED BY <1>3, <1>4

\* The queue with the buffer at hand holds the newest group.
LEMMA QueueKept ==
    ASSUME DInv, MaxTorn = 0, NEW b, Deliver(b), h264_callback(b), ~saving,
           NEW r \in Ring, IF Boundary(b) THEN Queued(r) = <<>> ELSE r = ring
    PROVE  LET s == Append(Queued(r), b)
           IN  s[1].n <= group' /\ Dense(s, serial' - 1) /\ s \in Seq(Buffer)
<1>1. /\ b \in Buffer /\ b.n = serial /\ serial \in Nat /\ serial' = serial + 1
      /\ group' = (IF Boundary(b) THEN serial ELSE group) /\ Queued(r) \in Seq(Buffer)
    BY DueNumbers, QueuedType
<1>0. serial - 1 \in Int /\ b.n = (serial - 1) + 1 /\ serial' - 1 = b.n
    BY <1>1
<1>2. CASE Boundary(b)
    <2>1. LET s == Append(Queued(r), b)
          IN  s \in Seq(Buffer) /\ Dense(s, b.n) /\ s[1] = b
        BY <1>0, <1>1, <1>2, DenseAppend
    <2> QED BY <1>0, <1>1, <1>2, <2>1
<1>3. CASE ~Boundary(b)
    <2>1. Run(Queued(ring), serial - 1, frame, whole) /\ r = ring
        BY <1>3, Delivered DEF DInv, AInv
    <2>2. Queued(r) # <<>>
        BY <1>1, <2>1 DEF Run
    <2>3. Queued(r)[1].n <= group /\ Dense(Queued(r), serial - 1)
        BY <2>1, <2>2 DEF DInv, Kept
    <2>4. LET s == Append(Queued(r), b)
          IN  s \in Seq(Buffer) /\ Dense(s, b.n) /\ s[1] = Queued(r)[1]
        BY <1>0, <1>1, <2>2, <2>3, DenseAppend
    <2> QED BY <1>0, <1>1, <1>3, <2>3, <2>4
<1> QED BY <1>2, <1>3

\* What is held is in a file.
LEMMA HeldIn ==
    ASSUME NEW files, NEW k
    PROVE  k \in Held(files) <=> \E t \in DOMAIN files : k \in Numbers(files[t].data)
BY DEF Held

\* A new file under a new name holds what it holds, and the others what they did.
LEMMA HeldStore ==
    ASSUME NEW files, NEW t, t \notin DOMAIN files, NEW f
    PROVE  Held(Store(files, t, f)) = Held(files) \cup Numbers(f.data)
<1> DEFINE g == Store(files, t, f)
<1>1. DOMAIN g = DOMAIN files \cup {t} /\ g[t] = f /\ \A u \in DOMAIN files : g[u] = files[u]
    BY DEF Store
<1> HIDE DEF g
<1>2. ASSUME NEW k PROVE k \in Held(g) <=> k \in Held(files) \/ k \in Numbers(f.data)
    <2>1. k \in Held(g) <=> \E u \in DOMAIN g : k \in Numbers(g[u].data)
        BY HeldIn
    <2>2. k \in Held(files) <=> \E u \in DOMAIN files : k \in Numbers(files[u].data)
        BY HeldIn
    <2> QED BY <1>1, <2>1, <2>2
<1> QED BY <1>2 DEF g

\* Without one of the files the rest is held.
LEMMA HeldDrop ==
    ASSUME NEW files, NEW t \in DOMAIN files
    PROVE  Held(files) = Held(Drop(files, t)) \cup Numbers(files[t].data)
<1> DEFINE g == Drop(files, t)
<1>1. DOMAIN g = DOMAIN files \ {t} /\ \A u \in DOMAIN g : g[u] = files[u]
    BY DEF Drop
<1> HIDE DEF g
<1>2. ASSUME NEW k PROVE k \in Held(files) <=> k \in Held(g) \/ k \in Numbers(files[t].data)
    <2>1. k \in Held(g) <=> \E u \in DOMAIN g : k \in Numbers(g[u].data)
        BY HeldIn
    <2>2. k \in Held(files) <=> \E u \in DOMAIN files : k \in Numbers(files[u].data)
        BY HeldIn
    <2> QED BY <1>1, <2>1, <2>2
<1> QED BY <1>2 DEF g

\* A write adds to what is held.
LEMMA HeldWrite ==
    ASSUME NEW files, Files(files), NEW t \in DOMAIN files, NEW b \in Buffer,
           Numbers(files[t].data) \subseteq Numbers(Append(files[t].data, b))
    PROVE  Held(Write(files, t, b)) = Held(files) \cup Numbers(Append(files[t].data, b))
<1> DEFINE g == Write(files, t, b)
           d == Append(files[t].data, b)
<1>1. /\ DOMAIN g = DOMAIN files /\ g[t].data = d
      /\ \A u \in DOMAIN files : u # t => g[u] = files[u]
    BY WriteAppends
<1> HIDE DEF g, d
<1>2. ASSUME NEW k PROVE k \in Held(g) <=> k \in Held(files) \/ k \in Numbers(d)
    <2>1. k \in Held(g) <=> \E u \in DOMAIN g : k \in Numbers(g[u].data)
        BY HeldIn
    <2>2. k \in Held(files) <=> \E u \in DOMAIN files : k \in Numbers(files[u].data)
        BY HeldIn
    <2>3. k \in Numbers(files[t].data) => k \in Numbers(d)
        BY DEF d
    <2> QED BY <1>1, <2>1, <2>2, <2>3
<1> QED BY <1>2 DEF g, d

-----------------------------------------------------------------------------
(* The invariant, action by action *)

\* Closing moves the file's buffers from one directory entry to another.
LEMMA KeptClose ==
    ASSUME DInv, MaxTorn = 0, NEW b, Deliver(b), Close(b)
    PROVE  Kept' /\ NothingDueIsLost'
<1>0. h264_callback(b)
    BY DEF h264_callback
<1>1. /\ due' = due /\ ~saving' /\ fd' = "closed" /\ b \in Buffer /\ b.n = serial
      /\ serial \in Nat /\ serial' = serial + 1 /\ group' \in Nat /\ group' <= serial
      /\ group' = serial /\ serial' - 1 \notin due
    <2>1. due' = due /\ ~saving' /\ fd' = "closed" /\ Boundary(b)
        BY NotDue DEF Close, PastDeadline
    <2>2. /\ b \in Buffer /\ b.n = serial /\ serial \in Nat /\ serial' = serial + 1
          /\ group' = serial /\ \A k \in due : k < serial
        BY <1>0, <2>1, DueNumbers
    <2> QED BY <2>1, <2>2
<1>2. Queued(ring') = Append(<<>>, b)
    <2>1. ring' = Put(Advance(ring), b) /\ Advance(ring) \in Ring /\ Queued(Advance(ring)) = <<>>
        BY AdvanceEmpties DEF Close, Requeue, DInv, AInv, IInv, TypeOK
    <2> QED BY <1>1, <2>1, PutAppends
<1>3. Queued(ring')[1].n <= group' /\ Dense(Queued(ring'), serial' - 1)
    <2>1. <<>> \in Seq(Buffer) /\ serial - 1 \in Int /\ b.n = (serial - 1) + 1 /\ serial' - 1 = b.n
        BY <1>1
    <2> QED BY <1>1, <1>2, <2>1, DenseAppend
<1>4. Kept'
    BY <1>0, <1>1, <1>3, DueNumbers DEF Kept
<1>5. Recorded \subseteq Recorded'
    <2>1. CASE name \in DOMAIN temps
        <3>1. finals' = Store(finals, name, temps[name]) /\ name \notin DOMAIN finals
            BY <2>1, ClosePublishes DEF DInv
        <3>2. temps' = Drop(temps, name)
            BY <2>1 DEF Close
        <3>3. Held(finals') = Held(finals) \cup Numbers(temps[name].data)
            BY <3>1, HeldStore
        <3>4. Held(temps) = Held(temps') \cup Numbers(temps[name].data)
            BY <2>1, <3>2, HeldDrop
        <3> QED BY <3>3, <3>4 DEF Recorded
    <2>2. CASE name \notin DOMAIN temps
        BY <2>2 DEF Close, disk, Recorded
    <2> QED BY <2>1, <2>2
<1> QED BY <1>1, <1>4, <1>5 DEF DInv, NothingDueIsLost

\* Writing keeps every buffer and adds the one at hand.
LEMMA KeptKeepSaving ==
    ASSUME DInv, MaxTorn = 0, NEW b, Deliver(b), KeepSaving(b)
    PROVE  Kept' /\ NothingDueIsLost'
<1>0. h264_callback(b)
    BY DEF h264_callback
<1>1. /\ saving /\ saving' /\ UNCHANGED <<fd, name, finals>> /\ b \in Buffer /\ b.n = serial
      /\ serial \in Nat /\ serial' = serial + 1 /\ group' \in Nat /\ group' <= serial
      /\ group' = IF Boundary(b) THEN serial ELSE group
    BY <1>0, DueNumbers DEF KeepSaving, video
<1>2. CASE fd = "open"
    <2> DEFINE s == temps[name].data
               t == Append(s, b)
    <2>1. due' = Due(b) /\ temps' = Write(temps, name, b)
        BY <1>2 DEF KeepSaving
    <2>2. /\ name \in DOMAIN temps /\ Files(temps) /\ Run(s, serial - 1, frame, whole)
          /\ s[1].n <= group /\ Dense(s, serial - 1) /\ s[1].n < serial
        BY <1>2 DEF DInv, AInv, Ordered, IInv, FileJoins, TypeOK, Kept
    <2>3. s \in Seq(Buffer) /\ s # <<>> /\ s[1] \in Buffer
        BY <2>2 DEF Files, File, Run
    <2>4. /\ t \in Seq(Buffer) /\ Dense(t, serial) /\ Numbers(s) \subseteq Numbers(t)
          /\ t[1] = s[1]
        <3>1. serial - 1 \in Int /\ b.n = (serial - 1) + 1
            BY <1>1
        <3> QED BY <1>1, <2>2, <2>3, <3>1, DenseAppend
    <2>5. temps'[name].data = t
        BY <1>1, <2>1, <2>2, WriteAppends
    <2>6. t[1].n <= group' /\ t[1].n \in Nat
        BY <1>1, <2>2, <2>3, <2>4 DEF Buffer
    <2>7. Kept'
        <3>1. Dense(t, serial' - 1)
            BY <1>1, <2>4
        <3> QED BY <1>0, <1>1, <2>1, <2>5, <2>6, <3>1, DueNumbers DEF Kept
    <2>8. Held(temps') = Held(temps) \cup Numbers(t)
        BY <1>1, <2>1, <2>2, <2>4, HeldWrite
    <2>9. group' .. serial \subseteq Numbers(t)
        BY SMTT(30), <1>1, <2>4, <2>6 DEF Dense
    <2>10. due' \subseteq due \cup group' .. serial
        BY <1>0, <2>1, DueNumbers
    <2> HIDE DEF s, t
    <2> QED BY <1>1, <2>7, <2>8, <2>9, <2>10 DEF DInv, NothingDueIsLost, Recorded
<1>3. CASE fd # "open"
    <2>1. UNCHANGED <<due, temps>>
        BY <1>3 DEF KeepSaving
    <2>2. \A k \in due' : k < serial'
        BY <1>0, <1>1, <2>1, DueNumbers
    <2>3. group' <= serial'
        <3>1. /\ serial \in Nat /\ serial' = serial + 1
              /\ group' \in Nat /\ group' <= serial
            BY <1>0, DueNumbers
        <3> QED BY ONLY <3>1
    <2>4. saving' /\ ~(fd' = "open")
        BY <1>1, <1>3
    <2>5. Kept'
        BY <2>2, <2>3, <2>4, Zenon DEF Kept
    <2> QED BY <1>1, <2>1, <2>5 DEF DInv, NothingDueIsLost, Recorded
<1> QED BY <1>2, <1>3

\* A new file begins with the newest group, so that all that is due is in it.
LEMMA KeptOpen ==
    ASSUME DInv, MaxTorn = 0, NEW b, Deliver(b), Open(b) \/ OpenFails(b)
    PROVE  Kept' /\ NothingDueIsLost'
<1>0. h264_callback(b)
    BY DEF h264_callback
<1>1. /\ ~saving /\ saving' = TRUE /\ finals' = finals /\ b \in Buffer /\ b.n = serial
      /\ ring' = (IF Boundary(b) THEN Advance(ring) ELSE ring) /\ HasPts(b)
      /\ name' = Second(b.frame)
      /\ serial \in Nat /\ serial' = serial + 1 /\ group' \in Nat /\ group' <= serial
    BY <1>0, DueNumbers DEF Open, OpenFails, Wanted, disk
<1>2. CASE Open(b)
    <2> DEFINE s == Append(Queued(ring'), b)
               f == [header |-> kickoff, data |-> s, stale |-> name' \in DOMAIN temps]
    <2>1. due' = Due(b) /\ temps' = Store(temps, name', f)
        BY <1>2 DEF Open
    <2>2. /\ ring' \in Ring /\ IF Boundary(b) THEN Queued(ring') = <<>> ELSE ring' = ring
        BY <1>1, AdvanceEmpties DEF DInv, AInv, IInv, TypeOK
    <2>3. s[1].n <= group' /\ Dense(s, serial' - 1) /\ s \in Seq(Buffer)
        BY <1>0, <1>1, <2>2, QueueKept
    <2>4. s[1].n < serial' /\ s[1].n \in Nat
        BY <1>0, <1>1, <2>2, QueueAfter DEF DInv
    <2>5. name' \notin DOMAIN temps
        <3>1. fd # "open"
            BY <1>1 DEF DInv, AInv, IInv, Control
        <3>2. name' = Second(frame + 1) /\ name' \in Nat
            BY <1>0, <1>1, Delivered DEF DInv, AInv
        <3> QED BY <1>0, <3>1, <3>2, OrphansAge DEF DInv, AInv
    <2> HIDE DEF s
    <2>6. Held(temps') = Held(temps) \cup Numbers(s)
        BY <2>1, <2>5, HeldStore
    <2>7. temps'[name'].data = s
        BY <2>1 DEF Store
    <2>8. Kept'
        BY <1>0, <1>1, <2>1, <2>3, <2>7, DueNumbers DEF Kept
    <2>9. group' .. serial \subseteq Numbers(s)
        BY <1>1, <2>3, <2>4 DEF Dense
    <2>10. due' \subseteq due \cup group' .. serial
        BY <1>0, <2>1, DueNumbers
    <2> QED BY <1>1, <2>6, <2>8, <2>9, <2>10 DEF DInv, NothingDueIsLost, Recorded
<1>3. CASE OpenFails(b)
    <2>1. UNCHANGED <<due, temps>> /\ fd' = "failed"
        BY <1>3 DEF OpenFails, disk
    <2>2. Kept'
        BY <1>0, <1>1, <2>1, DueNumbers DEF Kept
    <2> QED BY <1>1, <2>1, <2>2 DEF DInv, NothingDueIsLost, Recorded
<1> QED BY <1>2, <1>3

\* A buffer in the queue is not due yet.
LEMMA KeptQueue ==
    ASSUME DInv, MaxTorn = 0, NEW b, Deliver(b), Queue(b)
    PROVE  Kept' /\ NothingDueIsLost'
<1> DEFINE r == IF Boundary(b) THEN Advance(Advance(ring)) ELSE ring
<1>0. h264_callback(b)
    BY DEF h264_callback
<1>1. /\ ~saving /\ UNCHANGED <<saving, fd, name, finals, temps>> /\ ring' = Put(r, b)
      /\ due' = due /\ b \in Buffer
      /\ serial \in Nat /\ serial' = serial + 1 /\ group' \in Nat /\ group' <= serial
      /\ serial' - 1 \notin due
    BY <1>0, NotDue, DueNumbers DEF Queue, disk
<1>2. r \in Ring /\ IF Boundary(b) THEN Queued(r) = <<>> ELSE r = ring
    BY AdvanceEmpties DEF DInv, AInv, IInv, TypeOK
<1> HIDE DEF r
<1>3. Queued(ring') = Append(Queued(r), b)
    BY <1>1, <1>2, PutAppends
<1>4. Queued(ring')[1].n <= group' /\ Dense(Queued(ring'), serial' - 1)
    BY <1>0, <1>1, <1>2, <1>3, QueueKept
<1>5. fd # "open"
    BY <1>1 DEF DInv, AInv, IInv, Control
<1>6. Kept'
    BY <1>0, <1>1, <1>4, <1>5, DueNumbers DEF Kept
<1> QED BY <1>1, <1>6 DEF DInv, NothingDueIsLost, Recorded

\* Nobody else touches files, the ring, or what is due; a stop empties the ring.
LEMMA KeptOthers ==
    ASSUME DInv, [Next]_vars, ~\E b \in NextBuffers : h264_callback(b)
    PROVE  Kept' /\ NothingDueIsLost'
<1>1. CASE Stop
    <2>1. /\ UNCHANGED <<serial, group, temps, finals, due>> /\ Queued(ring') = <<>>
          /\ fd' = "closed" /\ ~running'
        BY <1>1, EmptyRingType DEF Stop, MemoryAtStart, disk
    <2> QED BY <2>1 DEF DInv, Kept, NothingDueIsLost, Recorded
<1>2. CASE Restart
    <2>1. /\ UNCHANGED <<serial, group, temps, finals, due, ring, saving, fd, name>> /\ whole'
        BY <1>2 DEF Restart, video, disk
    <2> QED BY <2>1 DEF DInv, Kept, NothingDueIsLost, Recorded
<1>3. CASE ConfigCallback
    <2>1. UNCHANGED <<running, whole, serial, group, temps, finals, due, ring, saving, fd, name>>
        BY <1>3 DEF ConfigCallback, disk
    <2> QED BY <2>1 DEF DInv, Kept, NothingDueIsLost, Recorded
<1>4. CASE YuvThread \/ UNCHANGED vars
    <2>1. UNCHANGED <<encoder, video, disk, due>>
        BY <1>4 DEF YuvThread, MotionStored, MotionDetected, vars
    <2>2. UNCHANGED <<running, whole, serial, group, temps, finals, due, ring, saving, fd, name>>
        BY <2>1 DEF encoder, video, disk
    <2> QED BY <2>2 DEF DInv, Kept, NothingDueIsLost, Recorded
<1> QED BY <1>1, <1>2, <1>3, <1>4 DEF Next, H264Thread, Process

-----------------------------------------------------------------------------
\* No frame that motion asked for is lost, nor the group before it, whatever
\* else happens: closing and opening, split frames, failed open()s, stops
\* (video.c 87-191).
THEOREM NoFrameLost == Timed /\ Spec => []NothingDueIsLost
<1> SUFFICES ASSUME Timed PROVE Spec => []NothingDueIsLost
    OBVIOUS
<1>1. Init => DInv
    <2> SUFFICES ASSUME Init PROVE Kept /\ NothingDueIsLost
        BY AInvInit DEF DInv
    <2>1. due = {} /\ group = 0 /\ serial = 0 /\ fd = "closed" /\ Queued(ring) = <<>>
        BY EmptyRingType DEF Init
    <2> QED BY <2>1 DEF Kept, NothingDueIsLost
<1>2. ASSUME DInv, [Next]_vars PROVE DInv'
    <2>1. AInv'
        BY <1>2, AInvStep DEF DInv
    <2>2. ASSUME NEW b \in NextBuffers, h264_callback(b) PROVE Kept' /\ NothingDueIsLost'
        <3>1. Deliver(b) /\ MaxTorn = 0
            BY <2>2 DEF h264_callback, Close, KeepSaving, Open, OpenFails, Queue, Timed
        <3> QED BY <1>2, <2>2, <3>1, KeptClose, KeptKeepSaving, KeptOpen, KeptQueue DEF h264_callback
    <2>3. ASSUME ~\E b \in NextBuffers : h264_callback(b) PROVE Kept' /\ NothingDueIsLost'
        BY <1>2, <2>3, KeptOthers
    <2> QED BY <2>1, <2>2, <2>3 DEF DInv
<1>3. DInv => NothingDueIsLost
    BY DEF DInv
<1> QED BY <1>1, <1>2, <1>3, PTL DEF Spec

-----------------------------------------------------------------------------
(* A recording ends in time *)

\* The group being recorded began no later than motion wants.
Bounded == saving => frame - (frame % GOP) <= wanted

\* The remainder grows by one up to the next multiple.
LEMMA NextRemainder ==
    ASSUME NEW w \in Nat \ {0}, NEW n \in Nat, (n + 1) % w # 0
    PROVE  (n + 1) - ((n + 1) % w) = n - (n % w)
<1> DEFINE q == n \div w
           m == n % w
           q1 == (n + 1) \div w
           m1 == (n + 1) % w
<1>1. /\ q \in Nat /\ m \in 0 .. w - 1 /\ n = q * w + m
      /\ q1 \in Nat /\ m1 \in 1 .. w - 1 /\ n + 1 = q1 * w + m1
    BY SMTT(30)
<1>2. q * w \in Nat /\ q1 * w \in Nat
    BY <1>1
<1>3. ~(q1 >= q + 1)
    <2> SUFFICES ASSUME q1 >= q + 1 PROVE FALSE
        OBVIOUS
    <2>1. q1 * w >= (q + 1) * w
        BY <1>1, SMTT(30)
    <2>2. (q + 1) * w = q * w + w
        BY <1>1, SMTT(30)
    <2> QED BY <1>1, <1>2, <2>1, <2>2
<1>4. ~(q >= q1 + 1)
    <2> SUFFICES ASSUME q >= q1 + 1 PROVE FALSE
        OBVIOUS
    <2>1. q * w >= (q1 + 1) * w
        BY <1>1, SMTT(30)
    <2>2. (q1 + 1) * w = q1 * w + w
        BY <1>1, SMTT(30)
    <2> QED BY <1>1, <1>2, <2>1, <2>2
<1>5. q1 = q
    BY <1>1, <1>3, <1>4
<1> HIDE DEF q, m, q1, m1
<1>6. m1 = m + 1
    BY <1>1, <1>2, <1>5
<1> QED BY <1>1, <1>6 DEF m, m1

\* A callback goes on saving only within a group, or into one that is wanted.
LEMMA BoundedCallback ==
    ASSUME AInv, Timed, Bounded, NEW b, Deliver(b), h264_callback(b)
    PROVE  Bounded'
<1>1. /\ UNCHANGED wanted /\ save_until = wanted /\ wanted \in Nat /\ b \in Buffer
      /\ frame' = b.frame /\ frame \in Nat /\ frame' \in Nat /\ GOP \in Nat \ {0}
      /\ frame' % GOP \in Nat
      /\ HasPts(b) => frame' = frame + 1
    BY Whole, Delivered, RecorderConstants DEF Timed, AInv
<1>2. ~HasPts(b) => frame' = frame
    BY <1>1, DeliverFacts DEF HasPts, AInv, IInv
<1> SUFFICES ASSUME saving' PROVE frame' - (frame' % GOP) <= wanted
    BY <1>1 DEF Bounded
<1>3. CASE Close(b)
    BY <1>3 DEF Close
<1>4. CASE KeepSaving(b)
    <2>1. saving /\ ~PastDeadline(b)
        BY <1>4 DEF KeepSaving
    <2>2. CASE Boundary(b)
        BY <1>1, <2>1, <2>2 DEF PastDeadline
    <2>3. CASE ~Boundary(b) /\ HasPts(b)
        <3>1. (frame + 1) % GOP # 0
            BY <1>1, <2>3 DEF Boundary, Key
        <3>2. (frame + 1) - ((frame + 1) % GOP) = frame - (frame % GOP)
            BY <1>1, <3>1, NextRemainder
        <3> QED BY <1>1, <2>1, <2>3, <3>2 DEF Bounded
    <2>4. CASE ~HasPts(b)
        BY <1>2, <1>1, <2>1, <2>4 DEF Bounded
    <2> QED BY <2>2, <2>3, <2>4
<1>5. CASE Open(b) \/ OpenFails(b)
    <2>1. b.frame < save_until
        BY <1>5 DEF Open, OpenFails, Wanted
    <2> QED BY <1>1, <2>1
<1>6. CASE Queue(b)
    BY <1>6 DEF Queue
<1> QED BY <1>3, <1>4, <1>5, <1>6 DEF h264_callback

\* Motion only moves the end on, and a stop ends the recording.
LEMMA BoundedOthers ==
    ASSUME AInv, AInv', Timed, Bounded, [Next]_vars, ~\E b \in NextBuffers : h264_callback(b)
    PROVE  Bounded'
<1>1. frame \in Nat /\ wanted \in Nat /\ GOP \in Nat \ {0} /\ frame % GOP \in Nat
      /\ MinGap \in Nat /\ detected \in Int /\ Linger \in Nat
    BY RecorderConstants DEF AInv, IInv, TypeOK
<1>2. CASE Stop
    BY <1>2 DEF Stop, MemoryAtStart, Bounded
<1>3. CASE Restart
    <2>1. ~running /\ UNCHANGED saving
        BY <1>3 DEF Restart, video
    <2> QED BY <2>1 DEF AInv, IInv, Control, Bounded
<1>4. ASSUME NEW pts \in 1 .. MaxMotion, MotionDetected(pts) PROVE Bounded'
    <2>1. UNCHANGED <<frame, saving>> /\ wanted' = pts + Linger /\ pts >= detected + MinGap
        BY <1>4 DEF MotionDetected, encoder, video
    <2>2. pts + Linger >= wanted
        BY <1>1, <1>4, <2>1 DEF AInv, Timely
    <2>3. saving => frame - (frame % GOP) <= pts + Linger
        BY <1>1, <1>4, <2>2 DEF Bounded
    <2> QED BY <2>1, <2>3 DEF Bounded
<1>5. CASE ConfigCallback \/ MotionStored \/ UNCHANGED vars
    <2>1. UNCHANGED <<frame, saving, wanted>>
        BY <1>5 DEF ConfigCallback, MotionStored, vars, motion, encoder, video
    <2> QED BY <2>1 DEF Bounded
<1> QED BY <1>2, <1>3, <1>4, <1>5 DEF Next, H264Thread, YuvThread, Process

\* A recording is over when the group after the last motion is (video.c 87-107
\* and 215-221).
THEOREM RecordingsEnd == Timed /\ Spec => []RecordingEndsInTime
<1> SUFFICES ASSUME Timed PROVE Spec => []RecordingEndsInTime
    OBVIOUS
<1>1. Init => AInv /\ Bounded
    BY AInvInit DEF Init, Bounded
<1>2. ASSUME AInv /\ Bounded, [Next]_vars PROVE (AInv /\ Bounded)'
    <2>1. AInv'
        BY <1>2, AInvStep
    <2>2. ASSUME NEW b \in NextBuffers, h264_callback(b) PROVE Bounded'
        <3>1. Deliver(b)
            BY <2>2 DEF h264_callback, Close, KeepSaving, Open, OpenFails, Queue
        <3> QED BY <1>2, <2>2, <3>1, BoundedCallback
    <2>3. ASSUME ~\E b \in NextBuffers : h264_callback(b) PROVE Bounded'
        BY <1>2, <2>1, <2>3, BoundedOthers
    <2> QED BY <2>1, <2>2, <2>3
<1>3. AInv /\ Bounded => RecordingEndsInTime
    <2> SUFFICES ASSUME AInv, Bounded, saving PROVE frame <= wanted + GOP
        BY DEF RecordingEndsInTime
    <2>1. frame \in Nat /\ wanted \in Nat /\ GOP \in Nat \ {0} /\ frame % GOP \in 0 .. GOP - 1
        BY RecorderConstants DEF AInv, IInv, TypeOK
    <2> QED BY <2>1 DEF Bounded
<1> QED BY <1>1, <1>2, <1>3, PTL DEF Spec

-----------------------------------------------------------------------------
(* The ring has room *)

\* The frames that begin in a slot, by the places of their first buffers; they
\* are different, and of one group of pictures.
Begin(s) == {j \in DOMAIN s : HasPts(s[j])}
Once(s) == \A i, j \in Begin(s) : s[i].frame = s[j].frame => i = j
Between(s, low, high) == \A j \in DOMAIN s : s[j].frame \in low .. high
OfGroup(s) == Once(s) /\ \E low \in Int : Between(s, low, low + GOP - 1)

Slots(r) == \A i \in 0 .. NumBuffers - 1 : OfGroup(r.slots[i])

\* Outside a recording the current slot has frames of the group in progress.
InGroup(f) == f - (f % GOP)
Current == ~saving => Between(Queued(ring), InGroup(frame), frame)

LEMMA EmptyOfGroup ==
    OfGroup(<<>>) /\ \A low, high : Between(<<>>, low, high)
<1>1. DOMAIN <<>> = {}
    OBVIOUS
<1>2. 0 \in Int
    OBVIOUS
<1> QED BY <1>1, <1>2 DEF OfGroup, Once, Begin, Between

LEMMA AdvanceSlots ==
    ASSUME NEW r \in Ring, Slots(r) PROVE Slots(Advance(r))
<1> DEFINE o == (r.offset + 1) % NumBuffers
<1>1. Advance(r).slots = [r.slots EXCEPT ![o] = <<>>]
    BY DEF Advance
<1> HIDE DEF o
<1>2. r.slots \in [0 .. NumBuffers - 1 -> Seq(Buffer)]
    BY DEF Ring
<1>3. ASSUME NEW i \in 0 .. NumBuffers - 1
      PROVE  Advance(r).slots[i] = IF i = o THEN <<>> ELSE r.slots[i]
    BY <1>1, <1>2
<1> QED BY <1>3, EmptyOfGroup DEF Slots

LEMMA PutSlots ==
    ASSUME NEW r \in Ring, NEW b \in Buffer, Slots(r), OfGroup(Append(Queued(r), b))
    PROVE  Slots(Put(r, b))
<1> DEFINE o == r.offset
           q == [r.slots EXCEPT ![o] = Append(@, b)]
<1>1. o \in 0 .. NumBuffers - 1 /\ r.slots \in [0 .. NumBuffers - 1 -> Seq(Buffer)]
    BY DEF Ring
<1>2. Put(r, b).slots = q
    BY DEF Put, Ring
<1>3. Queued(r) = r.slots[o]
    BY DEF Queued
<1> HIDE DEF o
<1>4. ASSUME NEW i \in 0 .. NumBuffers - 1
      PROVE  q[i] = IF i = o THEN Append(r.slots[i], b) ELSE r.slots[i]
    BY <1>1
<1> HIDE DEF q
<1> QED BY <1>2, <1>3, <1>4 DEF Slots

\* The next buffer of the group is of the newest frame or begins the next one.
LEMMA NextOfGroup ==
    ASSUME NEW s \in Seq(Buffer), NEW b \in Buffer, NEW low \in Int, NEW f \in Int,
           Once(s), Between(s, low, f), f <= b.frame, HasPts(b) => b.frame > f,
           low <= b.frame, b.frame <= low + GOP - 1
    PROVE  OfGroup(Append(s, b)) /\ Between(Append(s, b), low, b.frame)
<1> DEFINE t == Append(s, b)
           n == Len(s)
<1>0. n \in Nat /\ GOP \in Nat /\ b.frame \in Nat
    BY RecorderConstants DEF Buffer
<1>1. DOMAIN t = 1 .. n + 1 /\ DOMAIN s = 1 .. n /\ t[n + 1] = b /\ \A j \in 1 .. n : t[j] = s[j]
    OBVIOUS
<1> HIDE DEF t, n
<1>2. ASSUME NEW j \in 1 .. n PROVE s[j].frame \in low .. f /\ t[j] = s[j]
    BY <1>1, <1>2 DEF Between
<1>3. ASSUME NEW j \in 1 .. n + 1 PROVE t[j].frame \in low .. b.frame
    <2>1. CASE j = n + 1
        BY <1>0, <1>1, <2>1
    <2>2. CASE j \in 1 .. n
        BY <1>0, <1>2, <2>2
    <2> QED BY <1>0, <2>1, <2>2
<1>4. ASSUME NEW i \in 1 .. n + 1, NEW j \in 1 .. n + 1, HasPts(t[i]), HasPts(t[j]),
             t[i].frame = t[j].frame
      PROVE  i = j
    <2>1. CASE i \in 1 .. n /\ j \in 1 .. n
        <3>1. i \in Begin(s) /\ j \in Begin(s) /\ s[i].frame = s[j].frame
            BY <1>1, <1>2, <1>4, <2>1 DEF Begin
        <3> QED BY <3>1 DEF Once
    <2>2. CASE i = n + 1 /\ j \in 1 .. n
        BY <1>0, <1>1, <1>2, <1>4, <2>2
    <2>3. CASE j = n + 1 /\ i \in 1 .. n
        BY <1>0, <1>1, <1>2, <1>4, <2>3
    <2> QED BY <1>0, <2>1, <2>2, <2>3
<1>5. Once(t)
    BY <1>1, <1>4 DEF Once, Begin
<1>6. Between(t, low, b.frame)
    BY <1>1, <1>3 DEF Between
<1>7. Between(t, low, low + GOP - 1)
    <2>1. \A j \in 1 .. n + 1 : t[j].frame \in low .. low + GOP - 1
        BY <1>0, <1>3
    <2> QED BY <1>1, <2>1 DEF Between
<1> QED BY <1>5, <1>6, <1>7 DEF OfGroup, t

LEMMA RoomCallback ==
    ASSUME IInv, Slots(ring), Current, NEW b, Deliver(b), h264_callback(b)
    PROVE  Slots(ring') /\ Current'
<1>1. /\ b \in Buffer /\ ring \in Ring /\ frame \in Nat /\ frame' = b.frame /\ GOP \in Nat \ {0}
      /\ HasPts(b) => b.frame = frame + 1
      /\ Boundary(b) => (frame + 1) % GOP = 0
    BY Delivered, RecorderConstants
<1>2. ~HasPts(b) => b.frame = frame
    BY <1>1, DeliverFacts DEF HasPts, IInv
<1>3. /\ Advance(ring) \in Ring /\ Queued(Advance(ring)) = <<>> /\ Slots(Advance(ring))
      /\ Advance(Advance(ring)) \in Ring /\ Queued(Advance(Advance(ring))) = <<>>
      /\ Slots(Advance(Advance(ring)))
    BY <1>1, AdvanceEmpties, AdvanceSlots
<1>4. InGroup(frame) \in Int /\ InGroup(frame) <= frame /\ frame <= InGroup(frame) + GOP - 1
    <2>1. frame % GOP \in 0 .. GOP - 1
        BY <1>1
    <2> QED BY <1>1, <2>1 DEF InGroup
<1>5. ASSUME NEW r \in Ring, Queued(r) = <<>>, Slots(r), ring' = Put(r, b), Boundary(b)
      PROVE  Slots(ring') /\ Current'
    <2>1. InGroup(b.frame) = b.frame /\ b.frame \in Nat /\ b.frame - 1 \in Int
        BY <1>1, <1>5 DEF InGroup, Boundary, Key, Buffer
    <2>2. Queued(ring') = Append(<<>>, b)
        BY <1>1, <1>5, PutAppends
    <2>3. Once(<<>>) /\ Between(<<>>, b.frame, b.frame - 1) /\ <<>> \in Seq(Buffer)
        BY EmptyOfGroup DEF OfGroup
    <2>4. b.frame - 1 <= b.frame /\ b.frame > b.frame - 1 /\ b.frame <= b.frame + GOP - 1
        BY <1>1, <2>1
    <2>5. OfGroup(Append(<<>>, b)) /\ Between(Append(<<>>, b), b.frame, b.frame)
        <3>1. PICK s \in Seq(Buffer) : s = <<>>
            BY <2>3
        <3>2. PICK f \in Int : f = b.frame - 1
            BY <2>1
        <3>3. Once(s) /\ Between(s, b.frame, f)
            BY <2>3, <3>1, <3>2
        <3>4. f <= b.frame /\ b.frame > f /\ b.frame <= b.frame /\ b.frame \in Int
            BY <2>1, <3>2
        <3>5. OfGroup(Append(s, b)) /\ Between(Append(s, b), b.frame, b.frame)
            BY <1>1, <2>4, <3>3, <3>4, NextOfGroup
        <3> QED BY <3>1, <3>5
    <2>6. InGroup(frame') = b.frame
        BY <1>1, <2>1
    <2>7. Current'
        BY <1>1, <2>2, <2>5, <2>6 DEF Current, InGroup
    <2> QED BY <1>1, <1>5, <2>5, <2>7, PutSlots
<1>6. CASE Close(b)
    <2>1. ring' = Put(Advance(ring), b) /\ Boundary(b)
        BY <1>6 DEF Close, Requeue, PastDeadline
    <2> QED BY <1>3, <1>5, <2>1
<1>7. CASE KeepSaving(b)
    <2>1. ring' = ring /\ saving'
        BY <1>7 DEF KeepSaving, video
    <2> QED BY <2>1 DEF Current
<1>8. CASE Open(b) \/ OpenFails(b)
    <2>1. ring' \in {ring, Advance(ring)} /\ saving'
        BY <1>8 DEF Open, OpenFails
    <2> QED BY <1>3, <2>1 DEF Current
<1>9. CASE Queue(b)
    <2>1. ~saving /\ ring' = Put(IF Boundary(b) THEN Advance(Advance(ring)) ELSE ring, b)
        BY <1>9 DEF Queue
    <2>2. CASE Boundary(b)
        BY <1>3, <1>5, <2>1, <2>2
    <2>3. CASE ~Boundary(b)
        <3> DEFINE s == Queued(ring)
        <3>1. InGroup(b.frame) = InGroup(frame)
            <4>1. CASE HasPts(b)
                <5>1. (frame + 1) % GOP # 0
                    BY <1>1, <2>3, <4>1 DEF Boundary, Key
                <5> QED BY <1>1, <4>1, <5>1, NextRemainder DEF InGroup
            <4> QED BY <1>2, <4>1
        <3>2. b.frame <= InGroup(frame) + GOP - 1 /\ InGroup(frame) <= b.frame /\ frame <= b.frame
            <4>1. b.frame \in Nat
                BY <1>1 DEF Buffer
            <4>2. b.frame % GOP \in 0 .. GOP - 1
                BY <1>1, <4>1
            <4>3. b.frame - (b.frame % GOP) = InGroup(frame)
                BY <3>1 DEF InGroup
            <4>4. b.frame \in {frame, frame + 1}
                BY <1>1, <1>2
            <4> QED BY <1>1, <4>1, <4>2, <4>3, <4>4
        <3>3. s \in Seq(Buffer) /\ Between(s, InGroup(frame), frame)
            BY <1>1, <2>1, QueuedType DEF Current
        <3>4. OfGroup(s)
            BY <1>1 DEF Slots, Queued, Ring
        <3>5. HasPts(b) => b.frame > frame
            BY <1>1
        <3>6. OfGroup(Append(s, b)) /\ Between(Append(s, b), InGroup(frame), b.frame)
            BY <1>1, <1>4, <3>2, <3>3, <3>4, <3>5, NextOfGroup DEF OfGroup
        <3>7. ring' = Put(ring, b) /\ Queued(ring') = Append(s, b)
            BY <1>1, <2>1, <2>3, PutAppends
        <3>8. Slots(ring')
            BY <1>1, <3>6, <3>7, PutSlots
        <3>9. InGroup(frame') = InGroup(frame)
            BY <1>1, <3>1
        <3> QED BY <1>1, <3>6, <3>7, <3>8, <3>9 DEF Current, InGroup
    <2> QED BY <2>2, <2>3
<1> QED BY <1>6, <1>7, <1>8, <1>9 DEF h264_callback

LEMMA RoomOthers ==
    ASSUME IInv, Slots(ring), Current, [Next]_vars, ~\E b \in NextBuffers : h264_callback(b)
    PROVE  Slots(ring') /\ Current'
<1>1. CASE Stop
    <2>1. ring' = EmptyRing
        BY <1>1 DEF Stop, MemoryAtStart
    <2>2. \A i \in 0 .. NumBuffers - 1 : EmptyRing.slots[i] = <<>>
        BY DEF EmptyRing
    <2> QED BY <2>1, <2>2, EmptyRingType, EmptyOfGroup DEF Slots, Current
<1>2. CASE Restart
    <2>1. ~running /\ ring' = ring
        BY <1>2 DEF Restart, video
    <2>2. Queued(ring) = <<>>
        BY <2>1 DEF IInv, Control
    <2> QED BY <2>1, <2>2, EmptyOfGroup DEF Current
<1>3. CASE ConfigCallback \/ YuvThread \/ UNCHANGED vars
    <2>1. UNCHANGED <<ring, saving, frame>>
        BY <1>3 DEF ConfigCallback, YuvThread, MotionStored, MotionDetected, vars, encoder, video
    <2> QED BY <2>1 DEF Current, InGroup
<1> QED BY <1>1, <1>2, <1>3 DEF Next, H264Thread, Process

\* The frames of one group are at most its length.
LEMMA GroupFits ==
    ASSUME NEW s \in Seq(Buffer), OfGroup(s) PROVE Cardinality(Begin(s)) \in Nat /\ Cardinality(Begin(s)) <= GOP
<1>1. PICK low \in Int : Between(s, low, low + GOP - 1)
    BY DEF OfGroup
<1> DEFINE T == low .. low + GOP - 1
           f == [j \in Begin(s) |-> s[j].frame]
<1>2. IsFiniteSet(T) /\ Cardinality(T) = GOP
    <2>1. GOP \in Nat \ {0} /\ low + GOP - 1 \in Int /\ ~(low > low + GOP - 1)
          /\ (low + GOP - 1) - low + 1 = GOP
        BY RecorderConstants
    <2> QED BY <2>1, FS_Interval
<1>3. f \in Injection(Begin(s), T)
    <2>1. \A j \in Begin(s) : s[j].frame \in T
        BY <1>1 DEF Begin, Between
    <2>2. f \in [Begin(s) -> T]
        BY <2>1
    <2>3. \A i, j \in Begin(s) : f[i] = f[j] => i = j
        BY DEF OfGroup, Once
    <2> QED BY <2>2, <2>3 DEF Injection, IsInjective
<1> HIDE DEF T, f
<1>4. IsFiniteSet(Begin(s)) /\ Cardinality(Begin(s)) <= Cardinality(T)
    BY <1>2, <1>3, FS_Injection
<1> QED BY <1>2, <1>4, FS_CardinalityType

\* A slot is emptied before each group of pictures, so it never holds more frames than a group has
\* and the copies into it stay inside its memory (h264_callback, video.c 99-104 and 173-188).
THEOREM RingHasRoom == Spec => []RingFits
<1>1. Init => IInv /\ Slots(ring) /\ Current
    <2> SUFFICES ASSUME Init PROVE Slots(ring) /\ Current
        BY InvInit
    <2>1. ring = EmptyRing
        BY DEF Init
    <2>2. \A i \in 0 .. NumBuffers - 1 : EmptyRing.slots[i] = <<>>
        BY DEF EmptyRing
    <2> QED BY <2>1, <2>2, EmptyRingType, EmptyOfGroup DEF Slots, Current
<1>2. ASSUME IInv /\ Slots(ring) /\ Current, [Next]_vars PROVE (IInv /\ Slots(ring) /\ Current)'
    <2>1. IInv'
        BY <1>2, InvStep
    <2>2. ASSUME NEW b \in NextBuffers, h264_callback(b) PROVE Slots(ring') /\ Current'
        <3>1. Deliver(b)
            BY <2>2 DEF h264_callback, Close, KeepSaving, Open, OpenFails, Queue
        <3> QED BY <1>2, <2>2, <3>1, RoomCallback
    <2>3. ASSUME ~\E b \in NextBuffers : h264_callback(b) PROVE Slots(ring') /\ Current'
        BY <1>2, <2>3, RoomOthers
    <2> QED BY <2>1, <2>2, <2>3 DEF Slots, OfGroup, Once, Begin, Between
<1>3. IInv /\ Slots(ring) /\ Current => RingFits
    <2> SUFFICES ASSUME IInv, Slots(ring), NEW i \in 0 .. NumBuffers - 1
                 PROVE  3 * Cardinality(Begin(ring.slots[i])) <= 4 * GOP
        BY DEF RingFits, Begin
    <2>1. ring.slots[i] \in Seq(Buffer) /\ OfGroup(ring.slots[i]) /\ GOP \in Nat
        BY RecorderConstants DEF IInv, TypeOK, Ring, Slots
    <2>2. Cardinality(Begin(ring.slots[i])) \in Nat /\ Cardinality(Begin(ring.slots[i])) <= GOP
        BY <2>1, GroupFits
    <2> QED BY <2>1, <2>2
<1> QED BY <1>1, <1>2, <1>3, PTL DEF Spec
=============================================================================
