------------------------------ MODULE Recorder ------------------------------
(***************************************************************************)
(* The h264 recorder of mmal-version/src/video.c.                          *)
(*                                                                         *)
(* Two threads meet here.  The h264 output thread runs h264_callback on    *)
(* each buffer the encoder hands over: while nothing moves it keeps the    *)
(* buffers since the last keyframe in a ring of three slots; while         *)
(* something moves it writes them to a temporary file, which it renames    *)
(* when a keyframe past save_until arrives.  The yuv thread runs           *)
(* h264_motion_detected, which stores save_until with no lock; on a 32-bit *)
(* ARM the 64-bit store is two stores, and the reader can see one half.    *)
(*                                                                         *)
(* Time is counted in frames: a pts is a frame number, and as the encoder  *)
(* makes a keyframe every fps frames (camera.c), GOP frames are a second.  *)
(* RAW_STC timestamps run on across a restart of the program, and so does  *)
(* the frame count here.                                                   *)
(***************************************************************************)
EXTENDS Integers, Sequences, FiniteSets

CONSTANTS
    GOP,            \* frames between two keyframes, which is fps
    Linger,         \* the 2000000 microseconds of h264_motion_detected, in frames
    MinGap,         \* detection_fps_step: frames between two detections of motion
    MotionLag,      \* how far the yuv thread may be behind the h264 thread
    Phase,          \* frames from the start of a second to the first keyframe
    Word,           \* values one 32-bit half of save_until takes
    KickoffSize,    \* bytes in h264_file_kickoff
    ConfigLengths,  \* lengths the encoder's config data may have
    OpenMayFail,    \* whether open() may return -1
    MaxFrame, MaxSplits, MaxStops, MaxMotion, MaxTorn   \* bounds, see README

ASSUME RecorderConstants ==
    /\ GOP \in Nat \ {0} /\ Word \in Nat \ {0}
    /\ Linger \in Nat /\ MinGap \in Nat /\ MotionLag \in Nat /\ Phase \in Nat
    /\ KickoffSize \in Nat /\ ConfigLengths \subseteq Nat \ {0}
    /\ OpenMayFail \in BOOLEAN
    /\ {MaxFrame, MaxSplits, MaxStops, MaxMotion, MaxTorn} \subseteq Nat

VARIABLES
    \* the encoder and the camera
    running,        \* the process is up
    config,         \* length of the config data this encoder sends
    configured,     \* the config buffer has been sent
    frame, whole,   \* newest frame handed over, and whether its last part was
    serial,         \* number of the next buffer
    group,          \* history: number of the buffer that began the newest group
    splits, stops,  \* how many frames came in two buffers, how many stops
    \* video.c
    kickoff, ring, saving, fd, name, save_until,
    \* the yuv thread inside h264_motion_detected
    settled,        \* value of the last complete store
    wanted,         \* value being stored; equal to settled between stores
    detected,       \* detecting_at of the last motion
    torn,           \* buffers handled since the current store began
    \* the disk
    temps, finals,  \* files named ..._h264 and ...h264, by the second of their name
    due             \* history: buffers that had to be recorded

encoder == <<running, config, configured, frame, whole, serial, group, splits, stops>>
motion  == <<save_until, settled, wanted, detected>>
video   == <<kickoff, ring, saving, fd, name>>
disk    == <<temps, finals>>
vars    == <<encoder, motion, torn, video, disk, due>>

-----------------------------------------------------------------------------
NumBuffers == 3

\* A buffer of the encoder: part of a frame.  Only the first part has a pts;
\* every part of a keyframe has the keyframe flag.
Buffer == [n: Nat, frame: Nat, first: BOOLEAN, last: BOOLEAN]
Key(b) == b.frame % GOP = 0
HasPts(b) == b.first
Boundary(b) == Key(b) /\ HasPts(b)

Ring == [slots: [0 .. NumBuffers - 1 -> Seq(Buffer)], offset: 0 .. NumBuffers - 1]

\* Mutants, one per definition that follows them, are named for the mistake.
AdvanceWithoutWrap(r) == [slots |-> r.slots, offset |-> r.offset + 1]
AdvanceWithoutReset(r) == [slots |-> r.slots, offset |-> (r.offset + 1) % NumBuffers]

EmptyRing == [slots |-> [i \in 0 .. NumBuffers - 1 |-> <<>>], offset |-> 0]
Advance(r) ==
    LET o == (r.offset + 1) % NumBuffers
    IN  [slots |-> [r.slots EXCEPT ![o] = <<>>], offset |-> o]
Put(r, b) == [r EXCEPT !.slots[r.offset] = Append(@, b)]
Queued(r) == r.slots[r.offset]

\* The bytes of a file; stale says that bytes of an earlier use of the name
\* may follow, as open() has no O_TRUNC.
File == [header: Nat, data: Seq(Buffer), stale: BOOLEAN]
Files(files) == \A t \in DOMAIN files : t \in Nat /\ files[t] \in File
Write(files, t, b) == [files EXCEPT ![t].data = Append(@, b)]
Drop(files, t) == [u \in DOMAIN files \ {t} |-> files[u]]
Store(files, t, f) == [u \in DOMAIN files \cup {t} |-> IF u = t THEN f ELSE files[u]]

\* Names have the local time in seconds, whose start need not meet a keyframe.
SecondWithoutSeconds(f) == f \div (60 * GOP)
Second(f) == (f + Phase) \div GOP

\* What a reader sees between the two stores of a 64-bit value.
Mix(high, low) == ((high \div Word) * Word) + (low % Word)

-----------------------------------------------------------------------------
MemoryAtStart ==
    /\ kickoff' = 0 /\ ring' = EmptyRing /\ saving' = FALSE /\ fd' = "closed" /\ name' = 0
    /\ save_until' = 0 /\ settled' = 0 /\ wanted' = 0 /\ detected' = -MinGap /\ torn' = 0

Init ==
    /\ running = TRUE /\ config \in ConfigLengths /\ configured = FALSE
    /\ frame = GOP - 1 /\ whole = TRUE /\ serial = 0 /\ group = 0
    /\ splits = 0 /\ stops = 0
    /\ kickoff = 0 /\ ring = EmptyRing /\ saving = FALSE /\ fd = "closed" /\ name = 0
    /\ save_until = 0 /\ settled = 0 /\ wanted = 0 /\ detected = -MinGap /\ torn = 0
    /\ temps = <<>> /\ finals = <<>> /\ due = {}

-----------------------------------------------------------------------------
(* The h264 output thread *)

KickoffOffByOne(length) == IF length >= KickoffSize THEN kickoff ELSE length
Kickoff(length) == IF length > KickoffSize THEN kickoff ELSE length

\* The first buffer is the config data; it is kept if it fits.
ConfigCallback ==
    /\ running /\ ~configured
    /\ configured' = TRUE
    /\ kickoff' = Kickoff(config)
    /\ UNCHANGED <<running, config, frame, whole, serial, group, splits, stops,
                   ring, saving, fd, name, motion, torn, disk, due>>

NextBuffers ==
    IF whole
    THEN {[n |-> serial, frame |-> frame + 1, first |-> TRUE, last |-> l] :
             l \in {TRUE} \cup (IF splits < MaxSplits THEN {FALSE} ELSE {})}
    ELSE {[n |-> serial, frame |-> frame, first |-> FALSE, last |-> TRUE]}

\* The encoder fills a buffer.
Deliver(b) ==
    /\ running /\ configured /\ b \in NextBuffers /\ b.frame <= MaxFrame
    /\ wanted # settled => torn < MaxTorn
    /\ frame' = b.frame /\ whole' = b.last /\ serial' = serial + 1
    /\ group' = IF Boundary(b) THEN b.n ELSE group
    /\ splits' = IF b.last THEN splits ELSE splits + 1
    /\ torn' = IF wanted # settled THEN torn + 1 ELSE 0
    /\ UNCHANGED <<running, config, configured, stops>>

\* A frame is due when it begins after a store of a later save_until was
\* complete, unless the file it belongs to could not be opened.  With it are due
\* the buffers before it that it is decoded from, back to the keyframe.
Due(b) ==
    IF (HasPts(b) /\ b.frame < settled) \/ (~HasPts(b) /\ b.n - 1 \in due)
    THEN due \cup group' .. b.n ELSE due

\* Time to close the file.
PastDeadlineAtAnyFrame(b) == HasPts(b) /\ b.frame > save_until
PastDeadlineOneGroupLate(b) == Boundary(b) /\ b.frame > save_until + GOP
PastDeadlineAtSecondPart(b) == Key(b) /\ ~HasPts(b) /\ b.frame > save_until
PastDeadline(b) == Boundary(b) /\ b.frame > save_until

\* The buffer that closes a file begins the next group in the ring.
RequeueForgets(b) == Advance(ring)
RequeueInPlace(b) == Put(ring, b)
Requeue(b) == Put(Advance(ring), b)

\* Saving, and a keyframe past save_until: publish the file, queue the keyframe.
Close(b) ==
    /\ Deliver(b)
    /\ saving /\ PastDeadline(b)
    /\ IF name \in DOMAIN temps
       THEN finals' = Store(finals, name, temps[name]) /\ temps' = Drop(temps, name)
       ELSE UNCHANGED disk
    /\ saving' = FALSE /\ fd' = "closed"
    /\ ring' = Requeue(b)
    /\ due' = Due(b)
    /\ UNCHANGED <<kickoff, name, motion>>

\* Saving otherwise: write(), whose result is ignored.
KeepSaving(b) ==
    /\ Deliver(b)
    /\ saving /\ ~PastDeadline(b)
    /\ temps' = IF fd = "open" THEN Write(temps, name, b) ELSE temps
    /\ due' = IF fd = "open" THEN Due(b) ELSE due
    /\ UNCHANGED <<finals, video, motion>>

Wanted(b) == HasPts(b) /\ b.frame < save_until

\* Not saving and motion wants this frame: the file gets the kickoff, the
\* queued buffers and this one.
Open(b) ==
    /\ Deliver(b)
    /\ ~saving /\ Wanted(b)
    /\ saving' = TRUE /\ fd' = "open" /\ name' = Second(b.frame)
    /\ ring' = IF Boundary(b) THEN Advance(ring) ELSE ring
    /\ temps' = Store(temps, name', [header |-> kickoff, data |-> Append(Queued(ring'), b),
                                     stale |-> name' \in DOMAIN temps])
    /\ due' = Due(b)
    /\ UNCHANGED <<finals, kickoff, motion>>

\* The same when open() fails: the code goes on as if it had not.
OpenFails(b) ==
    /\ OpenMayFail
    /\ Deliver(b)
    /\ ~saving /\ Wanted(b)
    /\ saving' = TRUE /\ fd' = "failed" /\ name' = Second(b.frame)
    /\ ring' = IF Boundary(b) THEN Advance(ring) ELSE ring
    /\ UNCHANGED <<disk, kickoff, motion, due>>

\* Not saving and no motion: queue the buffer.  A keyframe advances the ring
\* a second time.
Queue(b) ==
    /\ Deliver(b)
    /\ ~saving /\ ~Wanted(b)
    /\ ring' = Put(IF Boundary(b) THEN Advance(Advance(ring)) ELSE ring, b)
    /\ due' = Due(b)
    /\ UNCHANGED <<kickoff, saving, fd, name, motion, disk>>

h264_callback(b) == Close(b) \/ KeepSaving(b) \/ Open(b) \/ OpenFails(b) \/ Queue(b)

-----------------------------------------------------------------------------
(* The yuv thread in h264_motion_detected(pts) *)

\* The first of the two stores, of either half.
MotionDetected(pts) ==
    /\ running /\ wanted = settled
    /\ pts \in frame - MotionLag .. frame + 1 /\ pts >= detected + MinGap /\ pts > 0
    /\ pts <= MaxMotion
    /\ detected' = pts /\ wanted' = pts + Linger /\ torn' = 0
    /\ save_until' \in {Mix(wanted', save_until), Mix(save_until, wanted')}
    /\ UNCHANGED <<encoder, settled, video, disk, due>>

\* The second store.
MotionStored ==
    /\ running /\ wanted # settled
    /\ save_until' = wanted /\ settled' = wanted
    /\ UNCHANGED <<encoder, wanted, detected, torn, video, disk, due>>

-----------------------------------------------------------------------------
(* The process *)

\* The program stops, by a signal or a crash: neither closes nor renames the
\* file being written.  What was queued in memory is gone.
Stop ==
    /\ running /\ stops < MaxStops
    /\ running' = FALSE /\ stops' = stops + 1 /\ configured' = FALSE
    /\ MemoryAtStart
    /\ UNCHANGED <<config, frame, whole, serial, group, splits, disk, due>>

\* systemd starts it again; the new encoder begins with a keyframe, at least a
\* second after the last frame.
Restart ==
    /\ ~running
    /\ running' = TRUE /\ whole' = TRUE
    /\ frame' = ((frame \div GOP) + 2) * GOP - 1
    /\ UNCHANGED <<config, configured, serial, group, splits, stops, video, motion, torn, disk, due>>

H264Thread == ConfigCallback \/ \E b \in NextBuffers : h264_callback(b)
YuvThread == MotionStored \/ \E pts \in 1 .. MaxMotion : MotionDetected(pts)
Process == Stop \/ Restart

Next == H264Thread \/ YuvThread \/ Process

\* MMAL calls the callback for every buffer, and a thread that began a store
\* is scheduled again to finish it.
Fairness == WF_vars(H264Thread) /\ WF_vars(MotionStored)

Spec == Init /\ [][Next]_vars /\ Fairness

-----------------------------------------------------------------------------
(* Properties *)

TypeOK ==
    /\ running \in BOOLEAN /\ configured \in BOOLEAN /\ config \in ConfigLengths
    /\ frame \in Nat /\ whole \in BOOLEAN /\ serial \in Nat /\ group \in Nat
    /\ splits \in Nat /\ stops \in Nat
    /\ kickoff \in Nat /\ ring \in Ring /\ saving \in BOOLEAN /\ name \in Nat
    /\ save_until \in Nat /\ settled \in Nat /\ wanted \in Nat /\ detected \in Int
    /\ torn \in Nat
    /\ fd \in {"closed", "open", "failed"}
    /\ Files(temps) /\ Files(finals)
    /\ due \subseteq Nat

Contiguous(s) == \A i \in 1 .. Len(s) - 1 : s[i + 1].n = s[i].n + 1

\* A run of buffers a player can show: it begins with the first part of a
\* keyframe and nothing is missing from it.
StartsAtKey(s) == Len(s) > 0 => Boundary(s[1])

\* It is made of whole groups of pictures: the next buffer is a keyframe's first.
EndsBeforeKey(s) == LET b == s[Len(s)] IN b.last /\ (b.frame + 1) % GOP = 0

Playable(f, c) ==
    /\ c <= KickoffSize => f.header = c
    /\ Len(f.data) > 0 /\ StartsAtKey(f.data) /\ Contiguous(f.data) /\ EndsBeforeKey(f.data)
    /\ ~f.stale

\* A file with the final name, which the scripts that copy videos may take at
\* any time, is whole: config data, then whole groups of pictures without a
\* gap, whatever the motion thread, a torn save_until, a failed open() or a
\* stop of the program did (h264_callback, video.c 87-191).
FinishedFilesPlayable == \A t \in DOMAIN finals : Playable(finals[t], config)

\* The numbers of the buffers in a sequence, and in all files of one kind.
Numbers(s) == {s[i].n : i \in DOMAIN s}
Held(files) == UNION {Numbers(files[t].data) : t \in DOMAIN files}
Recorded == Held(temps) \cup Held(finals)

\* A frame handed over after motion asked for it is on the disk, and so is the
\* group of pictures before it, of which motion did not yet know: closing a file
\* and opening the next within the same group loses nothing (video.c 91-105 and
\* 141-188).
NothingDueIsLost == due \subseteq Recorded

\* Outside a recording the current slot of the ring is the whole group of
\* pictures in progress, so that a file that starts now starts at a keyframe
\* and joins the frame at hand (video.c 99-104 and 126-188).
RingIsCurrentGroup ==
    ~saving => LET s == Queued(ring) IN
        /\ StartsAtKey(s) /\ Contiguous(s)
        /\ Len(s) > 0 => s[Len(s)].n = serial - 1
        /\ \A i \in 2 .. Len(s) : ~Boundary(s[i])

\* memcpy into the ring has no bound check: a slot has 2 fps w h bytes
\* (main.c 738-740) and no frame exceeds 1.5 w h (camera.c 612), so in units
\* of w h / 2 the frames of a slot must fit 4 fps.
RingFits ==
    \A i \in 0 .. NumBuffers - 1 :
        LET s == ring.slots[i] IN 3 * Cardinality({j \in DOMAIN s : HasPts(s[j])}) <= 4 * GOP

\* A recording ends with the group of pictures after the last motion it was
\* asked for: it does not run on (video.c 90-97).
RecordingEndsInTime == saving => frame <= wanted + GOP

\* Once published a recording is never changed, replaced or removed: no later
\* recording gets its name and nothing is written after the rename
\* (video.c 93-97 and 143-160).
PublishedStays ==
    [][\A t \in DOMAIN finals : t \in DOMAIN finals' /\ finals'[t] = finals[t]]_vars

\* The published files, as the numbers of their first and last buffers.
Clips ==
    [t \in DOMAIN finals |->
        LET d == finals[t].data IN [from |-> d[1].n, to |-> d[Len(d)].n]]

Archive == INSTANCE VideoArchive WITH end <- serial, archive <- Clips

\* The recorder implements the archive: across stops, failed open()s and late
\* reports every recording is published whole, once, after and apart from all
\* earlier ones (video.c 87-191).
ArchiveSpec == Archive!Spec

\* When frames keep coming every recording is published under its name.
EveryRecordingIsPublished ==
    \A t \in 0 .. Second(MaxFrame) :
        (saving /\ name = t) ~> (t \in DOMAIN finals)
=============================================================================
