----------------------------- MODULE Detection ------------------------------
(***************************************************************************)
(* Motion detection of the MMAL version, and the change of its region.     *)
(*                                                                         *)
(* Three threads meet here.  The yuv thread runs yuv_callback (detection.c)*)
(* on each frame: when a detection is due it copies the frame, and on that *)
(* and the following frames it examines one batch of rows each, walking    *)
(* the table of row pointers with ptr.  The HTTP thread stores the region  *)
(* a user asks for and sets restart (http.c).  The heartbeat thread        *)
(* (main.c) sees restart within a second, stops the camera, replaces the   *)
(* table, sleeps a second and starts the camera.  Nothing but that sleep   *)
(* keeps ptr from pointing into the table that was freed, and it comes     *)
(* after the table was freed: a callback in flight when the camera stopped *)
(* reads what is no table any more, and so do all when it fails to stop.   *)
(* A callback and region_reconfigure are one step each; a table freed in   *)
(* the middle of a callback shows as a callback that comes just after.     *)
(*                                                                         *)
(* Time is the pts of the frames, in a unit that divides Sleep, the        *)
(* 1000000 / motion_check_frequency microseconds between two detections.   *)
(* Pixels are left out: the tally of changed pixels exceeds the threshold  *)
(* once some number of rows, hot, has been examined, or never.             *)
(***************************************************************************)
EXTENDS RegionLayout

CONSTANTS
    Batches,        \* processing.batches = fps / motion_check_frequency
    Sleep,          \* detection_sleep
    Second,         \* detection_fps_step, and the heartbeat's sleep(1)
    Gaps,           \* possible distances of two frames when none is dropped
    Drops,          \* possible distances when some are
    Regions,        \* regions a user asks for, by their first and last row
    MaxLate,        \* callbacks that may be in flight when capture stops
    MaxPts, MaxRequests     \* bounds, see README

Height(r) == IF r.end > r.start THEN r.end - r.start ELSE 0

ASSUME DetectionConstants ==
    /\ Batches \in Nat \ {0} /\ Sleep \in Nat \ {0} /\ Second \in Nat /\ Sleep <= Second
    /\ Gaps \subseteq Nat \ {0} /\ Drops \subseteq Nat \ {0}
    /\ MaxLate \in Nat /\ MaxPts \in Nat /\ MaxRequests \in Nat

\* The callbacks between two detections: at most one more than batches, and at
\* least one per batch when no frame is dropped.
ASSUME FrameRate ==
    /\ \A g \in Gaps : (Batches - 1) * g < Sleep
    /\ \A g \in Gaps \cup Drops : Sleep <= (Batches + 1) * g

ASSUME RegionsValid ==
    \A r \in Regions : /\ r \in [start : Nat, end : Nat] /\ r.start < r.end
                       /\ Buildable(Height(r), Batches) /\ TallEnough(Height(r), Batches)

VARIABLES
    running,
    \* the camera
    capture, pts,   \* capturing, and the pts of the newest frame
    resume,         \* no frame is captured before this pts
    late,           \* frames handed over since capture was stopped
    unstopped,      \* history: capture went on at the last change of region
    dropped,        \* history: frames were dropped since the last copy
    \* detection.c
    process, detect_at, detecting_at, ptr,
    stale,          \* ptr points into a table that was freed
    hot,            \* rows after which the tally exceeds the threshold
    reported,       \* history: detecting_at of the last motion
    \* main.c and http.c
    built,          \* the region the table was built from
    region,         \* settings->region
    restart, heartbeat, http, asked, requests

camera == <<capture, pts, resume, late, unstopped, dropped>>
yuv    == <<process, detect_at, detecting_at, ptr, stale, hot, reported>>
web    == <<region, http, asked, requests>>
vars   == <<running, camera, yuv, built, restart, heartbeat, web>>

-----------------------------------------------------------------------------
(* The table *)

Rows == Height(built)
Width == RowsPerBatch(Rows, Batches) + 1
TableEnd == Written(Rows, Batches)

\* The scan from position i stops at this separator.
NextNull(i) == CHOOSE n \in i .. TableEnd - 1 :
    /\ Entry(Rows, Batches, n) = Null
    /\ \A k \in i .. n - 1 : Entry(Rows, Batches, k) # Null

\* Rows before position i.
RowsBefore(i) == IF Rows = 0 THEN 0 ELSE i - (i \div Width)

\* region_reconfigure ends the process: malloc() of a negative size, which
\* wraps around, fails and the result is not checked; or the division by zero.
Fatal(r) == r.start - r.end > Batches + 3 \/ ~Buildable(Height(r), Batches)

Init ==
    /\ running = TRUE
    /\ capture = TRUE /\ pts = 0 /\ resume = 0 /\ late = 0
    /\ unstopped = FALSE /\ dropped = FALSE
    /\ process = FALSE /\ detect_at = 1 /\ detecting_at = 0 /\ ptr = 0 /\ stale = FALSE
    /\ hot = 1 /\ reported = -Second
    /\ region \in Regions /\ built = region
    /\ restart = 0 /\ heartbeat = "loop" /\ http = "idle" /\ asked = region /\ requests = 0

-----------------------------------------------------------------------------
(* The yuv thread: yuv_callback *)

Due(p) == p >= detect_at

\* The camera's clock runs on while the heartbeat thread sleeps.
ResumeAtOnce(p) == p + 1
ResumeAfterSleep(p) == p + Second

\* The pts a frame at distance g has; a late one was captured before the pause.
Next_pts(g) == IF capture /\ pts + g < resume THEN resume ELSE pts + g

\* A frame is handed to the callback.  One that is handed over after capture
\* stopped was captured before: the pause is counted from the last of them.
Frame(g) ==
    /\ running
    /\ capture \/ late < MaxLate
    /\ pts' = Next_pts(g) /\ pts' <= MaxPts
    /\ late' = IF capture THEN 0 ELSE late + 1
    /\ resume' = IF capture THEN resume ELSE ResumeAfterSleep(pts')
    /\ UNCHANGED <<running, capture, unstopped, built, restart, heartbeat, web>>

\* Frames were dropped, or not taken during the pause.
Missed(g) == dropped \/ g \in Drops \/ pts' # pts + g

FoundPastThreshold(n, h) == RowsBefore(n) > h
Found(n, h) == RowsBefore(n) >= h

\* After motion the next detection is a second away.
PauseForgotten(p, at) == at + Sleep
AfterMotion(p, at) == p + Second

\* Examine the batch at position i; h is hot, and at is detecting_at.
Scan(i, h, at) ==
    LET n == NextNull(i)
    IN  /\ ptr' = n + 1
        /\ process' = ~Found(n, h)
        /\ detect_at' = IF Found(n, h) THEN AfterMotion(pts', at) ELSE at + Sleep
        /\ reported' = IF Found(n, h) THEN at ELSE reported

\* A detection is due: copy the frame, rewind ptr, examine the first batch.
Begin(g, h) ==
    /\ Frame(g) /\ Due(pts')
    /\ h \in 1 .. Rows + 1
    /\ hot' = h /\ detecting_at' = pts' /\ stale' = FALSE /\ dropped' = FALSE
    /\ Scan(0, h, pts')

\* Examine the next batch.
Continue(g) ==
    /\ Frame(g) /\ ~Due(pts') /\ process
    /\ ~stale /\ ptr < TableEnd
    /\ dropped' = Missed(g)
    /\ Scan(ptr, hot, detecting_at)
    /\ UNCHANGED <<hot, detecting_at, stale>>

\* Reading what is not a table of row pointers is undefined: the process dies,
\* or the scan ends somewhere with or without motion.
ContinueOutside(g) ==
    /\ Frame(g) /\ ~Due(pts') /\ process
    /\ stale \/ ptr >= TableEnd
    /\ dropped' = Missed(g)
    /\ ptr' = ptr + 1
    /\ process' \in BOOLEAN
    /\ detect_at' = IF process' THEN detect_at ELSE AfterMotion(pts', detecting_at)
    /\ reported' = IF process' THEN reported ELSE detecting_at
    /\ UNCHANGED <<hot, detecting_at, stale>>

\* Nothing to do for this frame.
Ignore(g) ==
    /\ Frame(g) /\ ~Due(pts') /\ ~process
    /\ dropped' = Missed(g)
    /\ UNCHANGED yuv

yuv_callback(g) ==
    Continue(g) \/ ContinueOutside(g) \/ Ignore(g) \/ \E h \in 1 .. Rows + 1 : Begin(g, h)

-----------------------------------------------------------------------------
(* The HTTP thread: GET /region/, /threshold/ and /restart *)

\* The four numbers are stored one by one, with no lock.
StoreStart(r) ==
    /\ running /\ http = "idle" /\ requests < MaxRequests
    /\ region' = [region EXCEPT !.start = r.start]
    /\ http' = "half" /\ asked' = r /\ requests' = requests + 1
    /\ UNCHANGED <<running, camera, yuv, built, restart, heartbeat>>

StoreEnd ==
    /\ running /\ http = "half"
    /\ region' = [region EXCEPT !.end = asked.end]
    /\ http' = "stored"
    /\ UNCHANGED <<running, camera, yuv, built, restart, heartbeat, asked, requests>>

\* A new threshold, or nothing new at all: a restart is asked for as well.
OtherRequest ==
    /\ running /\ http = "idle" /\ requests < MaxRequests
    /\ http' = "stored" /\ requests' = requests + 1
    /\ UNCHANGED <<running, camera, yuv, built, restart, heartbeat, region, asked>>

\* restart_mutex is held by the heartbeat thread from the test of restart to
\* its reset, the sleep included.
RestartUnguarded == TRUE
RestartUnlocked == heartbeat = "loop"

AskedNever(r) == r
Asked(r) == 1

AskRestart ==
    /\ running /\ http = "stored" /\ RestartUnlocked
    /\ restart' = Asked(restart) /\ http' = "idle"
    /\ UNCHANGED <<running, camera, yuv, built, heartbeat, region, asked, requests>>

-----------------------------------------------------------------------------
(* The heartbeat thread *)

\* Whether the port's capture parameter could be set; a failure is only logged.
StopCapture(ok) ==
    /\ running /\ heartbeat = "loop" /\ restart = 1
    /\ capture' = (capture /\ ~ok) /\ unstopped' = capture'
    /\ resume' = IF capture' THEN resume ELSE ResumeAfterSleep(pts)
    /\ heartbeat' = "stopped"
    /\ UNCHANGED <<running, pts, late, dropped, yuv, built, restart, web>>

\* region_reconfigure: the old table is freed, the new one built from the
\* region as it is stored now.
Reconfigure ==
    /\ running /\ heartbeat = "stopped"
    /\ running' = ~Fatal(region)
    /\ built' = region /\ stale' = TRUE /\ dropped' = TRUE
    /\ heartbeat' = "asleep"
    /\ UNCHANGED <<capture, pts, resume, late, unstopped, process, detect_at, detecting_at, ptr, hot,
                   reported, restart, web>>

\* What was in flight is over.  After a failure the camera stays off.
StartCapture(ok) ==
    /\ running /\ heartbeat = "asleep"
    /\ capture' = (capture \/ ok) /\ late' = IF capture' THEN 0 ELSE MaxLate
    /\ restart' = 0 /\ heartbeat' = "loop"
    /\ UNCHANGED <<running, pts, resume, unstopped, dropped, yuv, built, web>>

-----------------------------------------------------------------------------
YuvThread == \E g \in Gaps \cup Drops : yuv_callback(g)
HttpThread == StoreEnd \/ AskRestart
Heartbeat == Reconfigure \/ \E ok \in BOOLEAN : StopCapture(ok) \/ StartCapture(ok)

Next ==
    \/ YuvThread
    \/ HttpThread
    \/ OtherRequest \/ \E r \in Regions : StoreStart(r)
    \/ Heartbeat

\* A request once begun is answered, and the heartbeat thread loops and wakes.
Fairness == WF_vars(HttpThread) /\ WF_vars(Heartbeat)

Spec == Init /\ [][Next]_vars /\ Fairness

-----------------------------------------------------------------------------
(* Properties *)

TypeOK ==
    /\ running \in BOOLEAN /\ capture \in BOOLEAN /\ dropped \in BOOLEAN
    /\ unstopped \in BOOLEAN
    /\ pts \in Nat /\ resume \in Nat /\ late \in 0 .. MaxLate
    /\ process \in BOOLEAN /\ stale \in BOOLEAN
    /\ detect_at \in Nat /\ detecting_at \in Nat /\ ptr \in Nat /\ hot \in Nat \ {0}
    /\ reported \in Int
    /\ built \in [start : Nat, end : Nat] /\ region \in [start : Nat, end : Nat]
    /\ restart \in {0, 1} /\ heartbeat \in {"loop", "stopped", "asleep"}
    /\ http \in {"idle", "half", "stored"} /\ asked \in Regions /\ requests \in Nat

\* The table is one of a region somebody asked for, not of two halves.
Whole(r) == r \in Regions

\* A callback that goes on with a detection reads no further than the end of its
\* own table: there are never more of them than batches.  The table that a change
\* of region freed is read at worst by a callback in flight when capture stopped,
\* or when the camera did not stop at all, never by the first one after the
\* pause, which begins a new detection (detection.c 165-203, main.c 559-577).
ReadsOwnTable ==
    running /\ process /\ Whole(built) =>
        \A g \in Gaps \cup Drops :
            Next_pts(g) < detect_at =>
                IF stale THEN ~capture \/ unstopped ELSE ptr < TableEnd

\* When no frame is dropped motion is found before the next detection begins,
\* if it shows in the rows of the first Batches batches: the rows left over by
\* the division rows / batches may go unexamined (detection.c 165-203, main.c 99).
NoMotionMissed ==
    [][/\ detecting_at' # detecting_at
       /\ process /\ Whole(built) /\ ~dropped /\ pts' - pts \in Gaps
       => hot > Rows - (Rows % Batches)]_vars

\* What the recorder relies on: the frames with which motion is reported are a
\* second apart, and a report is not older than the time between two detections
\* (detection.c 176-213).
ReportsApartAndFresh ==
    [][reported' # reported =>
         reported' >= reported + Second /\ pts' - reported' < Sleep]_vars

\* When nobody is changing anything the table is the one of the region last
\* asked for: no request is overwritten by the end of an earlier restart
\* (http.c 345-348, main.c 559-577).
RegionInForce ==
    running /\ http = "idle" /\ restart = 0 /\ heartbeat = "loop" => built = region

\* A stored region comes into force unless another request changes it first, or
\* the process ends.
RegionComesIntoForce ==
    \A r \in Regions : (http = "stored" /\ region = r) ~> (built = r \/ region # r \/ ~running)
=============================================================================
