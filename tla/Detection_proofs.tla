-------------------------- MODULE Detection_proofs --------------------------
(***************************************************************************)
(* What TLAPS proves of the detection, for every value of its constants.   *)
(***************************************************************************)
EXTENDS Detection, RegionLayout_proofs

-----------------------------------------------------------------------------
(* The table *)

\* The separator at which a scan from position i stops.
StopOf(i) ==
    LET n == ((i \div Width) + 1) * Width - 1
    IN  IF n < TableEnd THEN n ELSE TableEnd - 1

\* A scan from a position of the table stops at the end of its batch, or at the
\* end of the table.
LEMMA ScanStops ==
    ASSUME Rows \in Nat, Buildable(Rows, Batches), NEW i \in Nat, i < TableEnd
    PROVE  NextNull(i) = StopOf(i) /\ StopOf(i) \in i .. TableEnd - 1
<1> DEFINE w == Width
           q == i \div w
           n == (q + 1) * w - 1
           e == TableEnd
           m == StopOf(i)
<1>1. w \in Nat \ {0} /\ e \in Nat \ {0}
    BY TableShape, DetectionConstants DEF Width, TableEnd
<1>2. q \in Nat /\ q * w \in Nat /\ q * w <= i /\ i < (q + 1) * w
    BY <1>1, SMTT(30)
<1>3. n \in Nat /\ i <= n /\ (n + 1) % w = 0
    <2>1. (q + 1) * w \in Nat
        BY <1>1, <1>2
    <2>2. ((q + 1) * w + 0) % w = 0
        BY <1>1, <1>2, Division
    <2> QED BY <1>2, <2>1, <2>2
<1>4. m = (IF n < e THEN n ELSE e - 1)
    BY DEF StopOf
<1>5. m \in i .. e - 1
    BY <1>1, <1>3, <1>4
<1>6. \A k \in Nat : Entry(Rows, Batches, k) =
                        IF k = e - 1 \/ (k + 1) % w = 0 THEN Null ELSE k - (k \div w)
    BY DEF Entry, TableEnd, Width
<1>7. Entry(Rows, Batches, m) = Null
    <2>1. m \in Nat /\ (m = e - 1 \/ m = n)
        BY <1>1, <1>4, <1>5
    <2> QED BY <2>1, <1>3, <1>6
<1>8. ASSUME NEW k \in i .. m - 1 PROVE Entry(Rows, Batches, k) # Null
    <2>1. k \in Nat /\ k < n /\ k # e - 1
        BY <1>1, <1>3, <1>4, <1>5, <1>8
    <2>2. (k + 1) % w # 0
        <3>1. k \in Nat /\ q * w <= k /\ k < (q + 1) * w - 1
            BY <1>2, <1>8, <2>1
        <3> HIDE DEF q, w
        <3> QED BY <1>1, <1>2, <3>1, Inside
    <2>3. k \div w <= k /\ k \div w \in Nat
        BY <1>1, <2>1, SMTT(30)
    <2> QED BY <1>6, <2>1, <2>2, <2>3 DEF Null
<1> DEFINE Stops(j) == /\ Entry(Rows, Batches, j) = Null
                       /\ \A k \in i .. j - 1 : Entry(Rows, Batches, k) # Null
<1>9. Stops(m)
    BY <1>7, <1>8
<1>10. ASSUME NEW j \in i .. e - 1, Stops(j) PROVE j = m
    <2>1. ~(j < m)
        BY <1>5, <1>8, <1>10
    <2>2. ~(m < j)
        BY <1>5, <1>7, <1>10
    <2> QED BY <1>5, <2>1, <2>2
<1>11. NextNull(i) = CHOOSE j \in i .. e - 1 : Stops(j)
    BY DEF NextNull
<1> HIDE DEF Stops, m
<1>12. (CHOOSE j \in i .. e - 1 : Stops(j)) = m
    BY <1>5, <1>9, <1>10
<1> QED BY <1>5, <1>11, <1>12 DEF m

-----------------------------------------------------------------------------
(* Types *)

\* The table was built, as the program would have died otherwise.
TableBuilt == running => Buildable(Rows, Batches)

\* The height of a region is a number.
LEMMA HeightType ==
    ASSUME NEW r \in [start : Nat, end : Nat] PROVE Height(r) \in Nat
BY DEF Height

\* A region asked for has rows, and its table can be built.
LEMMA RegionTable ==
    ASSUME NEW r \in Regions
    PROVE  /\ r \in [start : Nat, end : Nat] /\ Height(r) \in Nat /\ Height(r) > 0
           /\ Buildable(Height(r), Batches)
BY RegionsValid DEF Height

\* A frame has a later pts than the one before and moves only the camera.
LEMMA FrameFacts ==
    ASSUME TypeOK, NEW g \in Gaps \cup Drops, Frame(g)
    PROVE  /\ running /\ running' /\ (capture \/ late < MaxLate)
           /\ g \in Nat /\ pts' = Next_pts(g) /\ pts' \in Nat /\ pts' >= pts + g
           /\ late' \in 0 .. MaxLate /\ resume' \in Nat
           /\ resume' = IF capture THEN resume ELSE pts' + Second
           /\ UNCHANGED <<running, capture, unstopped, built, restart, heartbeat,
                          region, http, asked, requests>>
           /\ Rows \in Nat /\ Rows' = Rows
<1>1. g \in Nat
    BY DetectionConstants
<1>2. UNCHANGED <<running, capture, unstopped, built, restart, heartbeat, region, http, asked, requests>>
    BY DEF Frame, web
<1>3. Rows \in Nat /\ Rows' = Rows
    BY <1>2, HeightType DEF TypeOK, Rows
<1>4. pts' \in Nat /\ pts' >= pts + g
    BY <1>1 DEF TypeOK, Frame, Next_pts
<1>5. late' \in 0 .. MaxLate
    BY DetectionConstants DEF TypeOK, Frame
<1>6. resume' \in Nat /\ resume' = IF capture THEN resume ELSE pts' + Second
    BY <1>4, DetectionConstants DEF TypeOK, Frame, ResumeAfterSleep
<1> QED BY <1>1, <1>2, <1>3, <1>4, <1>5, <1>6 DEF Frame

\* What a scan does with the variables of detection.c, on the frame of pts p.
LEMMA ScanFacts ==
    ASSUME Rows \in Nat, Buildable(Rows, Batches), NEW i \in Nat, i < TableEnd,
           NEW h, NEW at \in Nat, NEW p \in Nat, pts' = p, Scan(i, h, at)
    PROVE  /\ ptr' = StopOf(i) + 1 /\ ptr' \in Nat /\ process' \in BOOLEAN
           /\ detect_at' = IF process' THEN at + Sleep ELSE p + Second
           /\ detect_at' \in Nat
           /\ reported' = IF process' THEN reported ELSE at
<1>1. ptr' = StopOf(i) + 1 /\ ptr' \in Nat
    BY ScanStops DEF Scan
<1>2. process' \in BOOLEAN
    BY DEF Scan
<1>3. detect_at' = IF process' THEN at + Sleep ELSE p + Second
    BY DEF Scan, AfterMotion
<1>4. reported' = IF process' THEN reported ELSE at
    BY DEF Scan
<1>5. at + Sleep \in Nat /\ p + Second \in Nat
    BY DetectionConstants
<1>6. detect_at' \in Nat
    BY <1>3, <1>5
<1> QED BY <1>1, <1>2, <1>3, <1>4, <1>6

\* The globals start with their types and a table that can be built.
LEMMA TypeInit == Init => TypeOK /\ TableBuilt
<1> SUFFICES ASSUME Init PROVE TypeOK /\ TableBuilt
    OBVIOUS
<1>1. region \in Regions /\ built = region /\ asked = region
    BY DEF Init
<1>2. reported \in Int
    BY DetectionConstants DEF Init
<1>3. TypeOK
    <2>1. region \in [start : Nat, end : Nat] /\ 0 \in 0 .. MaxLate
        BY <1>1, RegionTable, DetectionConstants
    <2>2. running \in BOOLEAN /\ capture \in BOOLEAN /\ dropped \in BOOLEAN /\ unstopped \in BOOLEAN
        BY DEF Init
    <2>3. process \in BOOLEAN /\ stale \in BOOLEAN
        BY DEF Init
    <2> QED BY <1>1, <1>2, <2>1, <2>2, <2>3 DEF Init, TypeOK
<1>4. TableBuilt
    BY <1>1, RegionTable DEF TableBuilt, Rows
<1> QED BY <1>3, <1>4

\* A table has a final separator, so that a scan may begin at its first row.
LEMMA TableNotEmpty ==
    ASSUME TypeOK, TableBuilt, running
    PROVE  TableEnd \in Nat /\ 0 < TableEnd /\ Width \in Nat \ {0}
BY HeightType, TableShape, DetectionConstants DEF TypeOK, TableBuilt, TableEnd, Width, Rows

\* yuv_callback keeps the types.
LEMMA TypeCallback ==
    ASSUME TypeOK, TableBuilt, NEW g \in Gaps \cup Drops, yuv_callback(g)
    PROVE  TypeOK' /\ TableBuilt'
<1>0. Frame(g)
    BY DEF yuv_callback, Begin, Continue, ContinueOutside, Ignore
<1>1. TableBuilt'
    BY <1>0, FrameFacts DEF TableBuilt
<1>2. Buildable(Rows, Batches)
    BY <1>0, FrameFacts DEF TableBuilt
<1>3. SUFFICES /\ dropped' \in BOOLEAN /\ process' \in BOOLEAN /\ stale' \in BOOLEAN
               /\ detect_at' \in Nat /\ detecting_at' \in Nat /\ ptr' \in Nat
               /\ hot' \in Nat \ {0} /\ reported' \in Int
    BY <1>0, <1>1, FrameFacts DEF TypeOK
<1>4. ASSUME NEW h \in 1 .. Rows + 1, Begin(g, h) PROVE <1>3!1
    <2>1. /\ Scan(0, h, pts') /\ hot' = h /\ detecting_at' = pts'
          /\ stale' = FALSE /\ dropped' = FALSE
        BY <1>4 DEF Begin
    <2>2. /\ Rows \in Nat /\ pts' \in Nat /\ running /\ TableEnd \in Nat /\ 0 < TableEnd
        BY <1>0, FrameFacts, TableNotEmpty
    <2>3. /\ ptr' \in Nat /\ process' \in BOOLEAN /\ detect_at' \in Nat
          /\ reported' = IF process' THEN reported ELSE pts'
        BY <1>2, <2>1, <2>2, ScanFacts
    <2>4. reported' \in Int /\ h \in Nat \ {0}
        BY <1>4, <2>2, <2>3 DEF TypeOK
    <2> QED BY <2>1, <2>2, <2>3, <2>4
<1>5. CASE Continue(g)
    BY <1>0, <1>2, <1>5, FrameFacts, ScanFacts DEF Continue, Missed, TypeOK
<1>6. CASE ContinueOutside(g)
    BY <1>0, <1>6, FrameFacts, DetectionConstants DEF ContinueOutside, Missed, TypeOK, AfterMotion
<1>7. CASE Ignore(g)
    BY <1>7 DEF Ignore, Missed, yuv, TypeOK
<1> QED BY <1>4, <1>5, <1>6, <1>7 DEF yuv_callback

\* Every step of the three threads keeps the types.
LEMMA TypeStep == TypeOK /\ TableBuilt /\ [Next]_vars => TypeOK' /\ TableBuilt'
<1> SUFFICES ASSUME TypeOK, TableBuilt, [Next]_vars PROVE TypeOK' /\ TableBuilt'
    OBVIOUS
<1>1. CASE YuvThread
    BY <1>1, TypeCallback DEF YuvThread
<1>2. CASE StoreEnd
    BY <1>2, RegionTable DEF StoreEnd, TypeOK, TableBuilt, Rows, camera, yuv
<1>3. CASE AskRestart
    BY <1>3 DEF AskRestart, Asked, TypeOK, TableBuilt, Rows, camera, yuv
<1>4. CASE OtherRequest
    BY <1>4 DEF OtherRequest, TypeOK, TableBuilt, Rows, camera, yuv
<1>5. ASSUME NEW r \in Regions, StoreStart(r) PROVE TypeOK' /\ TableBuilt'
    BY <1>5, RegionTable DEF StoreStart, TypeOK, TableBuilt, Rows, camera, yuv
<1>6. ASSUME NEW ok \in BOOLEAN, StopCapture(ok) PROVE TypeOK' /\ TableBuilt'
    <2>1. resume' \in Nat /\ capture' \in BOOLEAN
        BY <1>6, DetectionConstants DEF StopCapture, ResumeAfterSleep, TypeOK
    <2>2. TypeOK'
        BY <1>6, <2>1 DEF StopCapture, TypeOK, yuv, web
    <2>3. TableBuilt'
        BY <1>6 DEF StopCapture, TableBuilt, Rows
    <2> QED BY <2>2, <2>3
<1>7. CASE Reconfigure
    <2>1. TypeOK'
        BY <1>7 DEF Reconfigure, TypeOK, web
    <2>2. TableBuilt'
        BY <1>7 DEF Reconfigure, Fatal, TableBuilt, Rows
    <2> QED BY <2>1, <2>2
<1>8. ASSUME NEW ok \in BOOLEAN, StartCapture(ok) PROVE TypeOK' /\ TableBuilt'
    BY <1>8, DetectionConstants DEF StartCapture, TypeOK, TableBuilt, Rows, yuv, web
<1>9. CASE UNCHANGED vars
    BY <1>9 DEF vars, TypeOK, TableBuilt, Rows, camera, yuv, web
<1> QED BY <1>1, <1>2, <1>3, <1>4, <1>5, <1>6, <1>7, <1>8, <1>9
        DEF Next, HttpThread, Heartbeat

\* Every variable of the detection keeps its type, and the program dies rather
\* than run on with a table that could not be built (region_reconfigure,
\* main.c 69-147; yuv_callback, detection.c 136-239).
THEOREM TypeCorrect == Spec => []TypeOK
<1>1. Init => TypeOK /\ TableBuilt
    BY TypeInit
<1>2. TypeOK /\ TableBuilt /\ [Next]_vars => (TypeOK /\ TableBuilt)'
    BY TypeStep
<1> QED BY <1>1, <1>2, PTL DEF Spec

-----------------------------------------------------------------------------
(* Requests *)

\* While the heartbeat thread sleeps, as after it, the table is the one of the
\* stored region, unless a request is on its way or has asked for a restart.
InForce ==
    running /\ http = "idle" /\ (heartbeat = "asleep" \/ (heartbeat = "loop" /\ restart = 0))
        => built = region

\* The region in force is the one last asked for, however requests, restarts and
\* frames interleave: the end of a restart never clears a request that came
\* during it (http.c 330-369, main.c 559-577).
THEOREM RequestsTakeForce == Spec => []RegionInForce
<1>1. Init => InForce
    BY DEF Init, InForce
<1>2. InForce /\ [Next]_vars => InForce'
    <2> SUFFICES ASSUME InForce, [Next]_vars PROVE InForce'
        OBVIOUS
    <2>1. CASE YuvThread
        BY <2>1 DEF YuvThread, yuv_callback, Begin, Continue, ContinueOutside, Ignore, Frame, web,
                    InForce
    <2>2. CASE StoreEnd
        BY <2>2 DEF StoreEnd, InForce
    <2>3. CASE AskRestart
        BY <2>3 DEF AskRestart, RestartUnlocked, Asked, InForce
    <2>4. CASE OtherRequest
        BY <2>4 DEF OtherRequest, InForce
    <2>5. ASSUME NEW r \in Regions, StoreStart(r) PROVE InForce'
        BY <2>5 DEF StoreStart, InForce
    <2>6. ASSUME NEW ok \in BOOLEAN, StopCapture(ok) PROVE InForce'
        BY <2>6 DEF StopCapture, InForce
    <2>7. CASE Reconfigure
        BY <2>7 DEF Reconfigure, InForce, web
    <2>8. ASSUME NEW ok \in BOOLEAN, StartCapture(ok) PROVE InForce'
        BY <2>8 DEF StartCapture, InForce, web
    <2>9. CASE UNCHANGED vars
        BY <2>9 DEF vars, web, InForce
    <2> QED BY <2>1, <2>2, <2>3, <2>4, <2>5, <2>6, <2>7, <2>8, <2>9
            DEF Next, HttpThread, Heartbeat
<1>3. InForce => RegionInForce
    BY DEF InForce, RegionInForce
<1> QED BY <1>1, <1>2, <1>3, PTL DEF Spec

-----------------------------------------------------------------------------
(* Reports of motion *)

\* A detection in progress ends Sleep after its frame, and neither it nor the
\* next is within a second of the last report.
Spaced ==
    IF process
    THEN /\ detect_at = detecting_at + Sleep /\ detecting_at <= pts
         /\ detecting_at >= reported + Second
    ELSE detect_at >= reported + Second

\* yuv_callback keeps detections and reports a second apart, and reports in time.
LEMMA SpacedCallback ==
    ASSUME TypeOK, TableBuilt, Spaced, NEW g \in Gaps \cup Drops, yuv_callback(g)
    PROVE  /\ Spaced'
           /\ reported' # reported => reported' >= reported + Second /\ pts' - reported' < Sleep
<1> DEFINE p == Next_pts(g)
           Goal == /\ Spaced'
                   /\ reported' # reported =>
                         reported' >= reported + Second /\ pts' - reported' < Sleep
<1>0. Frame(g)
    BY DEF yuv_callback, Begin, Continue, ContinueOutside, Ignore
<1>1. /\ pts' = p /\ p \in Nat /\ p >= pts + g /\ g \in Nat /\ Rows \in Nat /\ running
      /\ Buildable(Rows, Batches)
    BY <1>0, FrameFacts DEF TableBuilt
<1>2. /\ Sleep \in Nat /\ Sleep > 0 /\ Second \in Nat /\ Sleep <= Second
      /\ pts \in Nat /\ detect_at \in Nat /\ detecting_at \in Nat /\ reported \in Int /\ ptr \in Nat
      /\ process \in BOOLEAN
    BY DetectionConstants DEF TypeOK
<1> HIDE DEF p
<1>3. ASSUME NEW h \in 1 .. Rows + 1, Begin(g, h) PROVE Goal
    <2>1. p >= detect_at /\ Scan(0, h, p) /\ detecting_at' = p
        BY <1>1, <1>3 DEF Begin, Due
    <2>2. p >= reported + Second
        <3>1. detect_at >= reported + Second
            BY <1>2 DEF Spaced
        <3> QED BY <1>1, <1>2, <2>1, <3>1
    <2>3. /\ detect_at' = IF process' THEN p + Sleep ELSE p + Second
          /\ reported' = IF process' THEN reported ELSE p
        BY <1>1, <2>1, TableNotEmpty, ScanFacts
    <2>4. CASE process'
        BY <1>1, <1>2, <2>1, <2>2, <2>3, <2>4 DEF Spaced
    <2>5. CASE ~process'
        BY <1>1, <1>2, <2>1, <2>2, <2>3, <2>5 DEF Spaced
    <2> QED BY <2>4, <2>5
<1>4. CASE Continue(g)
    <2>1. /\ p < detect_at /\ process /\ ptr < TableEnd /\ Scan(ptr, hot, detecting_at)
          /\ detecting_at' = detecting_at
        BY <1>1, <1>2, <1>4 DEF Continue, Due
    <2>2. /\ detect_at' = IF process' THEN detecting_at + Sleep ELSE p + Second
          /\ reported' = IF process' THEN reported ELSE detecting_at
        BY <1>1, <1>2, <2>1, ScanFacts
    <2>3. detect_at = detecting_at + Sleep /\ detecting_at <= pts /\ detecting_at >= reported + Second
        BY <2>1 DEF Spaced
    <2>4. CASE process'
        BY <1>1, <1>2, <2>1, <2>2, <2>3, <2>4 DEF Spaced
    <2>5. CASE ~process'
        BY <1>1, <1>2, <2>1, <2>2, <2>3, <2>5 DEF Spaced
    <2> QED BY <2>4, <2>5
<1>5. CASE ContinueOutside(g)
    <2>1. /\ p < detect_at /\ process /\ detecting_at' = detecting_at
          /\ detect_at' = IF process' THEN detect_at ELSE p + Second
          /\ reported' = IF process' THEN reported ELSE detecting_at
        BY <1>1, <1>2, <1>5 DEF ContinueOutside, Due, AfterMotion
    <2>2. detect_at = detecting_at + Sleep /\ detecting_at <= pts /\ detecting_at >= reported + Second
        BY <2>1 DEF Spaced
    <2>3. CASE process'
        BY <1>1, <1>2, <2>1, <2>2, <2>3 DEF Spaced
    <2>4. CASE ~process'
        BY <1>1, <1>2, <2>1, <2>2, <2>4 DEF Spaced
    <2> QED BY <2>3, <2>4
<1>6. CASE Ignore(g)
    BY <1>6 DEF Ignore, yuv, Spaced
<1> QED BY <1>3, <1>4, <1>5, <1>6 DEF yuv_callback

\* Only the camera's frames move the variables of detection.c, but for stale.
LEMMA OtherThreads ==
    ASSUME [Next]_vars, ~YuvThread
    PROVE  UNCHANGED <<pts, process, detect_at, detecting_at, ptr, hot, reported>>
<1>1. CASE StoreEnd \/ AskRestart \/ OtherRequest
    BY <1>1 DEF StoreEnd, AskRestart, OtherRequest, camera, yuv
<1>2. ASSUME NEW r \in Regions, StoreStart(r) PROVE UNCHANGED <<camera, yuv>>
    BY <1>2 DEF StoreStart
<1>3. CASE Heartbeat
    BY <1>3 DEF Heartbeat, StopCapture, Reconfigure, StartCapture, yuv
<1>4. CASE UNCHANGED vars
    BY <1>4 DEF vars, camera, yuv
<1> QED BY <1>1, <1>2, <1>3, <1>4 DEF Next, HttpThread, camera, yuv

\* The distance of detections and reports is kept by every step.
LEMMA SpacedStep ==
    TypeOK /\ TableBuilt /\ Spaced /\ [Next]_vars =>
        /\ Spaced'
        /\ reported' # reported => reported' >= reported + Second /\ pts' - reported' < Sleep
<1> SUFFICES ASSUME TypeOK, TableBuilt, Spaced, [Next]_vars
             PROVE  /\ Spaced'
                    /\ reported' # reported =>
                          reported' >= reported + Second /\ pts' - reported' < Sleep
    OBVIOUS
<1>1. CASE YuvThread
    BY <1>1, SpacedCallback DEF YuvThread
<1>2. CASE ~YuvThread
    BY <1>2, OtherThreads DEF Spaced
<1> QED BY <1>1, <1>2

\* What the recorder takes for granted holds for every frame rate, jitter and
\* table: reports of motion are of frames a second apart, and none is older than
\* the time between two detections (detection.c 158-218).
THEOREM ReportsKeepDistance == Spec => ReportsApartAndFresh
<1> DEFINE Inv == TypeOK /\ TableBuilt /\ Spaced
<1>1. Init => Inv
    <2> SUFFICES ASSUME Init PROVE Spaced
        BY TypeInit
    <2>1. reported + Second = 0
        BY DetectionConstants DEF Init
    <2>2. ~process /\ detect_at = 1
        BY DEF Init
    <2> QED BY <2>1, <2>2 DEF Spaced
<1>2. Inv /\ [Next]_vars => Inv'
    BY TypeStep, SpacedStep
<1>3. Inv /\ [Next]_vars =>
        [reported' # reported => reported' >= reported + Second /\ pts' - reported' < Sleep]_vars
    BY SpacedStep
<1> QED BY <1>1, <1>2, <1>3, PTL DEF Spec, ReportsApartAndFresh

-----------------------------------------------------------------------------
(* The walk through the table *)

\* A frame is at least a batch-th part of Sleep after the one before, so that
\* after k batches at least k - 1 such parts of time have passed; and ptr is at
\* the start of the batch that comes next, as long as there is one.
Walked(k) ==
    /\ k <= Batches => ptr = k * Width
    /\ (k - 1) * Sleep <= (pts - detecting_at) * (Batches + 1)

Walk == process /\ ~stale /\ Whole(built) => \E k \in Nat \ {0} : Walked(k)

\* From the change of the table to the first frame after the pause no detection
\* goes on, if the camera stopped: only what was in flight.
Paused ==
    ~unstopped =>
        /\ capture => heartbeat = "loop"
        /\ process /\ (stale \/ heartbeat # "loop") => detect_at <= resume

\* The table of a region asked for.
LEMMA WholeTable ==
    ASSUME TypeOK, Whole(built)
    PROVE  /\ Rows \in Nat /\ Buildable(Rows, Batches) /\ Width \in Nat \ {0} /\ TableEnd \in Nat
           /\ \A j \in 0 .. Batches : j * Width \in Nat /\ j * Width < TableEnd
<1>1. Rows \in Nat /\ Rows > 0 /\ Buildable(Rows, Batches)
    BY RegionTable DEF Whole, Rows
<1> DEFINE s == Separators(Rows, Batches)
<1>2. /\ Width \in Nat \ {0} /\ s \in Nat /\ TableEnd = Rows + s + 1 /\ s * Width <= Rows + s
      /\ s >= Batches /\ Batches \in Nat
    BY <1>1, TableShape, DetectionConstants DEF Width, TableEnd
<1> HIDE DEF s
<1>3. ASSUME NEW j \in 0 .. Batches PROVE j * Width \in Nat /\ j * Width < TableEnd
    <2>1. j \in Nat /\ j <= s
        BY <1>2
    <2>2. j * Width <= s * Width /\ j * Width \in Nat /\ s * Width \in Nat
        BY <1>2, <2>1, SMTT(30)
    <2> QED BY <1>1, <1>2, <2>2
<1> QED BY <1>1, <1>2, <1>3

\* A scan from the start of one of the first batches ends at the next one.
LEMMA ScanBatch ==
    ASSUME TypeOK, Whole(built), NEW j \in 0 .. Batches - 1
    PROVE  StopOf(j * Width) + 1 = (j + 1) * Width
<1>1. /\ Width \in Nat \ {0} /\ TableEnd \in Nat /\ j \in Nat /\ j + 1 \in 0 .. Batches
      /\ \A i \in 0 .. Batches : i * Width \in Nat /\ i * Width < TableEnd
    BY WholeTable, DetectionConstants
<1>2. (j + 1) * Width \in Nat /\ (j + 1) * Width < TableEnd
    BY <1>1
<1>3. (j * Width) \div Width = j
    <2>1. (j * Width + 0) \div Width = j
        BY <1>1, Division
    <2>2. j * Width + 0 = j * Width
        BY <1>1
    <2> QED BY <2>1, <2>2
<1>4. (j + 1) * Width - 1 < TableEnd
    BY <1>1, <1>2
<1> QED BY <1>1, <1>2, <1>3, <1>4 DEF StopOf

\* Time enough for a batch more than there are is time for the next detection.
LEMMA TimeIsUp ==
    ASSUME NEW t \in Nat, NEW g \in Gaps \cup Drops, NEW k \in Nat \ {0},
           (k - 1) * Sleep <= t * (Batches + 1)
    PROVE  /\ k * Sleep <= (t + g) * (Batches + 1)
           /\ k > Batches => t + g >= Sleep
<1> DEFINE b == Batches + 1
<1>1. Batches \in Nat /\ Sleep \in Nat \ {0} /\ g \in Nat /\ Sleep <= b * g
    BY DetectionConstants, FrameRate
<1>2. b \in Nat \ {0}
    BY <1>1
<1> HIDE DEF b
<1>3. /\ (k - 1) * Sleep = k * Sleep - Sleep /\ k * Sleep \in Nat
      /\ (t + g) * b = t * b + b * g /\ t * b \in Nat /\ b * g \in Nat
    BY <1>1, <1>2, SMTT(30)
<1>4. k * Sleep <= (t + g) * b
    <2>1. k * Sleep - Sleep <= t * b
        BY <1>3 DEF b
    <2> QED BY <1>1, <1>3, <2>1
<1>5. ASSUME k > Batches PROVE t + g >= Sleep
    <2>1. k >= b
        BY <1>1, <1>5 DEF b
    <2>2. b * Sleep <= k * Sleep /\ b * Sleep \in Nat
        BY <1>1, <1>2, <2>1, SMTT(30)
    <2> SUFFICES ASSUME t + g + 1 <= Sleep PROVE FALSE
        BY <1>1
    <2>3. (t + g + 1) * b <= b * Sleep
        BY <1>1, <1>2, SMTT(30)
    <2>4. (t + g + 1) * b = (t + g) * b + b /\ (t + g) * b \in Nat
        BY <1>1, <1>2, SMTT(30)
    <2> QED BY <1>2, <1>3, <1>4, <2>2, <2>3, <2>4
<1> QED BY <1>4, <1>5 DEF b

\* A callback that continues a detection finds rows in its own table, and one
\* that was freed only when it was in flight or the camera did not stop.
LEMMA OnTime ==
    ASSUME TypeOK, TableBuilt, Spaced, Walk, Paused, process,
           NEW g \in Gaps \cup Drops, Next_pts(g) < detect_at
    PROVE  /\ stale => ~capture \/ unstopped
           /\ ~stale /\ Whole(built) => ptr < TableEnd
<1>1. /\ detect_at = detecting_at + Sleep /\ detecting_at <= pts
      /\ pts \in Nat /\ detecting_at \in Nat /\ resume \in Nat /\ detect_at \in Nat
      /\ g \in Nat /\ Sleep \in Nat /\ Batches \in Nat
    BY DetectionConstants DEF Spaced, TypeOK
<1>2. Next_pts(g) \in Nat /\ Next_pts(g) >= pts + g /\ (capture => Next_pts(g) >= resume)
    BY <1>1 DEF Next_pts
<1>3. stale => ~capture \/ unstopped
    BY <1>1, <1>2 DEF Paused
<1>4. ASSUME ~stale, Whole(built) PROVE ptr < TableEnd
    <2>1. PICK k \in Nat \ {0} : Walked(k)
        BY <1>4 DEF Walk
    <2>2. pts - detecting_at \in Nat /\ (k - 1) * Sleep <= (pts - detecting_at) * (Batches + 1)
        BY <1>1, <2>1 DEF Walked
    <2>3. k > Batches => (pts - detecting_at) + g >= Sleep
        BY <2>2, TimeIsUp
    <2>4. k \in 0 .. Batches
        BY <1>1, <1>2, <2>3
    <2> QED BY <1>4, <2>1, <2>4, WholeTable DEF Walked
<1> QED BY <1>3, <1>4

\* The walk goes on by one batch with every frame.
LEMMA WalkCallback ==
    ASSUME TypeOK, TableBuilt, Spaced, Walk, Paused,
           NEW g \in Gaps \cup Drops, yuv_callback(g)
    PROVE  Walk' /\ Paused'
<1> DEFINE p == Next_pts(g)
<1>0. Frame(g)
    BY DEF yuv_callback, Begin, Continue, ContinueOutside, Ignore
<1>1. /\ pts' = p /\ p \in Nat /\ p >= pts + g /\ g \in Nat /\ Rows \in Nat /\ running
      /\ Buildable(Rows, Batches)
    BY <1>0, FrameFacts DEF TableBuilt
<1>2. /\ Sleep \in Nat \ {0} /\ Batches \in Nat \ {0} /\ pts \in Nat /\ detect_at \in Nat
      /\ detecting_at \in Nat /\ ptr \in Nat /\ hot \in Nat /\ resume \in Nat
      /\ Second \in Nat /\ Sleep <= Second
    BY DetectionConstants DEF TypeOK
<1>3. UNCHANGED <<built, heartbeat, capture, unstopped, Rows, Width, TableEnd>>
    BY <1>0, FrameFacts DEF Rows, Width, TableEnd
<1>4. Whole(built)' <=> Whole(built)
    BY <1>3 DEF Whole
<1>5. resume' = IF capture THEN resume ELSE p + Second
    BY <1>0, <1>1, FrameFacts
<1>6. ASSUME process' => stale' = stale /\ process /\ detect_at' = detecting_at + Sleep
      PROVE  Paused'
    <2>1. process => detect_at = detecting_at + Sleep /\ detecting_at <= pts
        BY DEF Spaced
    <2>2. process => detecting_at + Sleep <= p + Second
        BY <1>1, <1>2, <2>1
    <2>3. CASE capture
        BY <1>3, <1>5, <1>6, <2>1, <2>3 DEF Paused
    <2>4. CASE ~capture
        BY <1>3, <1>5, <1>6, <2>2, <2>4 DEF Paused
    <2> QED BY <2>3, <2>4
<1> HIDE DEF p
<1>7. ASSUME NEW h \in 1 .. Rows + 1, Begin(g, h) PROVE Walk' /\ Paused'
    <2>1. ~stale' /\ detecting_at' = p /\ Scan(0, h, p)
        BY <1>1, <1>7 DEF Begin
    <2>2. ptr' = StopOf(0) + 1
        BY <1>1, <2>1, TableNotEmpty, ScanStops DEF Scan
    <2>3. ASSUME Whole(built) PROVE Walked(1)'
        <3>1. Width \in Nat
            BY <2>3, WholeTable
        <3>2. 0 * Width = 0 /\ (0 + 1) * Width = Width /\ 1 * Width = Width /\ 0 \in 0 .. Batches - 1
            BY <1>2, <3>1
        <3>3. ptr' = Width
            BY <2>2, <2>3, <3>2, ScanBatch
        <3>4. (1 - 1) * Sleep <= (p - p) * (Batches + 1)
            BY <1>1, <1>2
        <3>5. ptr' = 1 * Width'
            BY <1>3, <3>2, <3>3
        <3> QED BY <1>1, <2>1, <3>4, <3>5 DEF Walked
    <2>4. Paused'
        <3>1. detect_at' = IF process' THEN p + Sleep ELSE p + Second
            BY <1>1, <2>1, TableNotEmpty, ScanFacts
        <3>2. capture => resume <= p
            BY <1>2, <1>1 DEF Next_pts, p
        <3>3. CASE capture
            BY <1>3, <2>1, <3>3 DEF Paused
        <3>4. CASE ~capture
            BY <1>1, <1>2, <1>3, <1>5, <3>1, <3>4 DEF Paused
        <3> QED BY <3>3, <3>4
    <2> QED BY <1>4, <2>1, <2>3, <2>4 DEF Walk
<1>8. CASE Continue(g)
    <2>1. /\ process /\ ~stale /\ ptr < TableEnd /\ Scan(ptr, hot, detecting_at)
          /\ UNCHANGED <<detecting_at, stale>>
        BY <1>8 DEF Continue
    <2>2. ptr' = StopOf(ptr) + 1
        BY <1>1, <1>2, <2>1, ScanStops DEF Scan
    <2>3. ASSUME Whole(built) PROVE \E k \in Nat \ {0} : Walked(k)'
        <3>1. PICK k \in Nat \ {0} : Walked(k)
            BY <2>1, <2>3 DEF Walk
        <3>2. detecting_at <= pts
            BY <2>1 DEF Spaced
        <3>3. pts - detecting_at \in Nat /\ (k - 1) * Sleep <= (pts - detecting_at) * (Batches + 1)
            BY <1>2, <3>1, <3>2 DEF Walked
        <3>4. k * Sleep <= ((pts - detecting_at) + g) * (Batches + 1)
            BY <3>3, TimeIsUp
        <3>5. ((pts - detecting_at) + g) * (Batches + 1) <= (p - detecting_at) * (Batches + 1)
            <4>1. (pts - detecting_at) + g <= p - detecting_at /\ p - detecting_at \in Nat
                BY <1>1, <1>2, <3>2
            <4> QED BY <4>1, <1>1, <1>2, <3>3, SMTT(30)
        <3>6. ((k + 1) - 1) * Sleep <= (p - detecting_at) * (Batches + 1)
            <4>1. /\ k * Sleep \in Int /\ ((pts - detecting_at) + g) * (Batches + 1) \in Int
                  /\ (p - detecting_at) * (Batches + 1) \in Int
                BY <1>1, <1>2
            <4>2. (k + 1) - 1 = k
                OBVIOUS
            <4> QED BY <4>1, <4>2, <3>4, <3>5
        <3>7. ASSUME k + 1 <= Batches PROVE ptr' = (k + 1) * Width
            <4>1. k \in 0 .. Batches - 1 /\ ptr = k * Width
                BY <1>2, <3>1, <3>7 DEF Walked
            <4> QED BY <2>2, <2>3, <4>1, ScanBatch
        <3>8. Walked(k + 1)'
            BY <1>1, <1>3, <2>1, <3>6, <3>7 DEF Walked
        <3> QED BY <3>8
    <2>4. Paused'
        <3>1. process' => detect_at' = detecting_at + Sleep
            BY <1>1, <1>2, <2>1, ScanFacts
        <3> QED BY <1>6, <2>1, <3>1
    <2> QED BY <1>4, <2>1, <2>3, <2>4 DEF Walk
<1>9. CASE ContinueOutside(g)
    <2>1. /\ process /\ p < detect_at /\ (stale \/ ptr >= TableEnd) /\ stale' = stale
          /\ process' => detect_at' = detect_at
        BY <1>1, <1>2, <1>9 DEF ContinueOutside, Due
    <2>2. ~stale => ~Whole(built)
        <3> SUFFICES ASSUME ~stale, Whole(built) PROVE FALSE
            OBVIOUS
        <3>1. ptr < TableEnd /\ TableEnd \in Nat
            BY <2>1, OnTime, WholeTable DEF p
        <3> QED BY <1>2, <2>1, <3>1
    <2>3. Paused'
        BY <1>6, <2>1 DEF Spaced
    <2> QED BY <1>4, <2>1, <2>2, <2>3 DEF Walk
<1>10. CASE Ignore(g)
    <2>1. ~process'
        BY <1>10 DEF Ignore, yuv
    <2> QED BY <1>6, <2>1 DEF Walk
<1> QED BY <1>7, <1>8, <1>9, <1>10 DEF yuv_callback

\* The change of the region keeps the walk, and puts it off until it is over.
LEMMA WalkStep ==
    ASSUME TypeOK, TableBuilt, Spaced, Walk, Paused, [Next]_vars
    PROVE  Walk' /\ Paused'
<1>1. CASE YuvThread
    BY <1>1, WalkCallback DEF YuvThread
<1>2. CASE Reconfigure
    BY <1>2 DEF Reconfigure, Walk, Paused
<1>3. ASSUME ~YuvThread, ~Reconfigure PROVE Walk' /\ Paused'
    <2>1. UNCHANGED <<pts, process, detect_at, detecting_at, ptr>>
        BY <1>3, OtherThreads
    <2>2. UNCHANGED <<stale, built>>
        <3>1. CASE StoreEnd \/ AskRestart \/ OtherRequest
            BY <3>1 DEF StoreEnd, AskRestart, OtherRequest, yuv
        <3>2. ASSUME NEW r \in Regions, StoreStart(r) PROVE UNCHANGED <<stale, built>>
            BY <3>2 DEF StoreStart, yuv
        <3>3. CASE Heartbeat
            BY <1>3, <3>3 DEF Heartbeat, StopCapture, StartCapture, yuv
        <3>4. CASE UNCHANGED vars
            BY <3>4 DEF vars, yuv
        <3> QED BY <1>3, <3>1, <3>2, <3>3, <3>4 DEF Next, HttpThread
    <2>3. Walk'
        BY <2>1, <2>2 DEF Walk, Walked, Whole, Width, Rows
    <2>4. ASSUME NEW ok \in BOOLEAN, StopCapture(ok) PROVE Paused'
        <3>1. /\ pts \in Nat /\ detecting_at \in Nat /\ Sleep \in Nat /\ Second \in Nat
              /\ Sleep <= Second
            BY DetectionConstants DEF TypeOK
        <3>2. process => detect_at = detecting_at + Sleep /\ detecting_at <= pts
            BY DEF Spaced
        <3>3. unstopped' = capture' /\ (~capture' => resume' = pts + Second)
            BY <2>4 DEF StopCapture, ResumeAfterSleep
        <3>4. process => detect_at <= pts + Second
            BY <3>1, <3>2
        <3> QED BY <2>1, <3>3, <3>4 DEF Paused
    <2>5. ASSUME NEW ok \in BOOLEAN, StartCapture(ok) PROVE Paused'
        BY <2>1, <2>2, <2>5 DEF StartCapture, Paused
    <2>6. ASSUME ~Heartbeat PROVE Paused'
        <3>1. UNCHANGED <<capture, heartbeat, resume, unstopped>>
            <4>1. CASE StoreEnd \/ AskRestart \/ OtherRequest
                BY <4>1 DEF StoreEnd, AskRestart, OtherRequest, camera
            <4>2. ASSUME NEW r \in Regions, StoreStart(r)
                  PROVE  UNCHANGED <<capture, heartbeat, resume, unstopped>>
                BY <4>2 DEF StoreStart, camera
            <4>3. CASE UNCHANGED vars
                BY <4>3 DEF vars, camera
            <4> QED BY <1>3, <2>6, <4>1, <4>2, <4>3 DEF Next, HttpThread
        <3> QED BY <2>1, <2>2, <3>1 DEF Paused
    <2> QED BY <1>3, <2>3, <2>4, <2>5, <2>6 DEF Heartbeat
<1> QED BY <1>1, <1>2, <1>3

\* No callback ever reads past the end of its own table, for frames are too few
\* for more batches than there are; and none reads the table that was freed but
\* one in flight when capture stopped, or any when it failed to stop: the camera
\* stands still for longer than a detection lasts (detection.c 165-203, main.c
\* 559-577).
THEOREM CallbacksReadOwnTable == Spec => []ReadsOwnTable
<1> DEFINE Inv == TypeOK /\ TableBuilt /\ Spaced /\ Walk /\ Paused
<1>1. Init => Inv
    <2> SUFFICES ASSUME Init PROVE Spaced /\ Walk /\ Paused
        BY TypeInit
    <2>1. reported + Second = 0 /\ ~process /\ detect_at = 1
        BY DetectionConstants DEF Init
    <2>2. Spaced
        BY <2>1 DEF Spaced
    <2> QED BY <2>1, <2>2 DEF Init, Walk, Paused
<1>2. Inv /\ [Next]_vars => Inv'
    BY TypeStep, SpacedStep, WalkStep
<1>3. Inv => ReadsOwnTable
    BY OnTime DEF ReadsOwnTable
<1> QED BY <1>1, <1>2, <1>3, PTL DEF Spec

-----------------------------------------------------------------------------
(* No motion is missed *)

\* When no frame is dropped it comes less than a (batches - 1)-th part of Sleep
\* after the one before: after k batches no more than k - 1 such parts of time
\* have passed.  The rows of each of those batches were too few for a report.
Examined(k) ==
    /\ (pts - detecting_at) * (Batches - 1) <= (k - 1) * (Sleep - 1)
    /\ IF k <= Batches
       THEN ptr = k * Width /\ hot > k * RowsPerBatch(Rows, Batches)
       ELSE hot > Batches * RowsPerBatch(Rows, Batches)

Examines == process /\ ~dropped /\ Whole(built) => \E k \in Nat \ {0} : Examined(k)

\* A table that was freed counts as frames dropped until the next detection.
Uninterrupted == stale => dropped

\* The rows that the batches up to the k-th have.
LEMMA BatchRows ==
    ASSUME TypeOK, Whole(built), NEW k \in 1 .. Batches
    PROVE  RowsBefore(k * Width - 1) = k * RowsPerBatch(Rows, Batches)
<1> DEFINE p == RowsPerBatch(Rows, Batches)
<1>1. /\ k - 1 \in Nat /\ Width \in Nat \ {0} /\ k \in Nat /\ Rows > 0 /\ Rows \in Nat
      /\ Width = p + 1
    BY WholeTable, RegionTable, DetectionConstants DEF Whole, Rows, Width
<1>2. Width - 1 \in 0 .. Width - 1 /\ p \in Int
    <2>1. Batches \in Nat \ {0}
        BY DetectionConstants
    <2>2. p \in Int
        BY <1>1, <2>1 DEF RowsPerBatch
    <2> QED BY <1>1, <2>2
<1>3. k * Width - 1 = (k - 1) * Width + (Width - 1)
    BY <1>1, SMTT(30)
<1>4. (k * Width - 1) \div Width = k - 1
    <2>1. PICK q \in Nat : q = k - 1
        BY <1>1
    <2>2. PICK r \in 0 .. Width - 1 : r = Width - 1
        BY <1>2
    <2>3. k * Width - 1 = q * Width + r
        BY <1>3, <2>1, <2>2
    <2>4. (q * Width + r) \div Width = q
        BY <1>1, Division
    <2> QED BY <2>1, <2>3, <2>4
<1>5. k * Width = k * p + k
    <2> HIDE DEF p
    <2> QED BY <1>1, <1>2, SMTT(30)
<1>6. k * Width - 1 - (k - 1) = k * p
    <2>1. k * p \in Int /\ k * Width \in Int
        BY <1>1, <1>2
    <2> QED BY <1>1, <1>5, <2>1
<1> QED BY <1>1, <1>4, <1>6 DEF RowsBefore

\* Less than a batch a frame does not fit into the time of k frames.
LEMMA TimeEnough ==
    ASSUME NEW t \in Nat, NEW g \in Gaps, NEW k \in Nat \ {0},
           t * (Batches - 1) <= (k - 1) * (Sleep - 1)
    PROVE  /\ (t + g) * (Batches - 1) <= k * (Sleep - 1)
           /\ t + g >= Sleep => k >= Batches
<1> DEFINE b == Batches - 1
           s == Sleep - 1
<1>1. g \in Nat /\ b \in Nat /\ s \in Nat /\ b * g <= s
    <2>1. g \in Nat /\ Batches \in Nat \ {0} /\ Sleep \in Nat \ {0} /\ b * g < Sleep
        BY DetectionConstants, FrameRate
    <2>2. b \in Nat /\ b * g \in Nat
        BY <2>1
    <2> QED BY <2>1, <2>2
<1>2. t * b <= (k - 1) * s
    OBVIOUS
<1>3. Batches = b + 1 /\ Sleep = s + 1
    BY DetectionConstants
<1> HIDE DEF b, s
<1>4. /\ (k - 1) * s = k * s - s /\ (t + g) * b = t * b + b * g
      /\ k * s \in Nat /\ t * b \in Nat /\ b * g \in Nat /\ (t + g) * b \in Nat
    BY <1>1, SMTT(30)
<1>5. (t + g) * b <= k * s
    BY <1>1, <1>2, <1>4
<1>6. ASSUME t + g >= Sleep PROVE k >= Batches
    <2>1. t + g >= s + 1
        BY <1>3, <1>6
    <2> SUFFICES ASSUME k <= b PROVE FALSE
        BY <1>1, <1>3
    <2>2. (s + 1) * b <= (t + g) * b /\ (s + 1) * b = s * b + b
        BY <1>1, <2>1, SMTT(30)
    <2>3. k * s <= b * s /\ b * s = s * b /\ s * b \in Nat
        BY <1>1, SMTT(30)
    <2>4. b > 0
        BY <1>1
    <2> QED BY <1>1, <1>4, <1>5, <2>2, <2>3, <2>4
<1> QED BY <1>5, <1>6 DEF b, s

\* Every frame extends what was examined by a batch.
LEMMA ExaminesCallback ==
    ASSUME TypeOK, TableBuilt, Spaced, Walk, Paused, Examines, Uninterrupted,
           NEW g \in Gaps \cup Drops, yuv_callback(g)
    PROVE  Examines' /\ Uninterrupted'
<1> DEFINE p == Next_pts(g)
           rows == RowsPerBatch(Rows, Batches)
<1>0. Frame(g)
    BY DEF yuv_callback, Begin, Continue, ContinueOutside, Ignore
<1>1. /\ pts' = p /\ p \in Nat /\ p >= pts + g /\ g \in Nat /\ Rows \in Nat /\ running
      /\ Buildable(Rows, Batches)
    BY <1>0, FrameFacts DEF TableBuilt
<1>2. /\ Sleep \in Nat \ {0} /\ Batches \in Nat \ {0} /\ pts \in Nat /\ detect_at \in Nat
      /\ detecting_at \in Nat /\ ptr \in Nat /\ hot \in Nat
    BY DetectionConstants DEF TypeOK
<1>3. UNCHANGED <<built, Rows, Width, TableEnd, rows>>
    BY <1>0, FrameFacts DEF Rows, Width, TableEnd
<1>4. Whole(built)' <=> Whole(built)
    BY <1>3 DEF Whole
<1>6. ASSUME ~dropped, dropped' = Missed(g), ~dropped'
      PROVE  p = pts + g /\ g \in Gaps
    BY <1>1, <1>6 DEF Missed
<1>7. Uninterrupted'
    BY DEF yuv_callback, Begin, Continue, ContinueOutside, Ignore, Missed, yuv, Uninterrupted
<1>8. ASSUME Whole(built) PROVE rows \in Int /\ Width \in Nat /\ rows + 1 = Width
    <2>1. rows \in Int
        BY <1>1, <1>2 DEF RowsPerBatch
    <2> QED BY <2>1, <1>8, WholeTable DEF Width
<1> HIDE DEF p, rows
<1>9. ASSUME NEW h \in 1 .. Rows + 1, Begin(g, h) PROVE Examines'
    <2>1. detecting_at' = p /\ Scan(0, h, p) /\ hot' = h
        BY <1>1, <1>9 DEF Begin
    <2>2. NextNull(0) = StopOf(0)
        BY <1>1, TableNotEmpty, ScanStops
    <2>3. ASSUME Whole(built), process' PROVE Examined(1)'
        <3>1. Width \in Nat /\ rows \in Int
            BY <1>8, <2>3
        <3>2. /\ 0 * Width = 0 /\ (0 + 1) * Width = Width /\ 1 * Width = Width
              /\ 0 \in 0 .. Batches - 1 /\ 1 \in 1 .. Batches /\ 1 * rows = rows
            BY <1>2, <3>1
        <3>3. StopOf(0) + 1 = Width
            BY <2>3, <3>2, ScanBatch
        <3>4. ptr' = Width /\ RowsBefore(StopOf(0)) < h
            <4>1. ptr' = StopOf(0) + 1 /\ ~(RowsBefore(StopOf(0)) >= h)
                BY <2>1, <2>2, <2>3 DEF Scan, Found
            <4>2. StopOf(0) = 1 * Width - 1
                <5>1. StopOf(0) \in Int
                    BY <1>1, TableNotEmpty, ScanStops
                <5> QED BY <3>1, <3>2, <3>3, <5>1
            <4>3. RowsBefore(StopOf(0)) = rows
                BY <2>3, <3>2, <4>2, BatchRows DEF rows
            <4> QED BY <3>1, <3>3, <4>1, <4>3
        <3>5. RowsBefore(StopOf(0)) = rows
            <4>1. StopOf(0) = 1 * Width - 1
                <5>1. StopOf(0) \in Int
                    BY <1>1, TableNotEmpty, ScanStops
                <5> QED BY <3>1, <3>2, <3>3, <5>1
            <4> QED BY <2>3, <3>2, <4>1, BatchRows DEF rows
        <3>6. hot' > 1 * rows'
            BY <1>3, <2>1, <3>1, <3>2, <3>4, <3>5
        <3>7. ptr' = 1 * Width'
            BY <1>3, <3>2, <3>4
        <3>8. (p - p) * (Batches - 1) <= (1 - 1) * (Sleep - 1)
            BY <1>1, <1>2
        <3> QED BY <1>1, <1>2, <2>1, <3>6, <3>7, <3>8 DEF Examined, rows
    <2> QED BY <1>4, <1>7, <2>3 DEF Examines
<1>10. CASE Continue(g)
    <2>1. /\ process /\ ~stale /\ ptr < TableEnd /\ Scan(ptr, hot, detecting_at)
          /\ UNCHANGED <<detecting_at, hot>> /\ dropped' = Missed(g)
        BY <1>10 DEF Continue
    <2>2. NextNull(ptr) = StopOf(ptr)
        BY <1>1, <1>2, <2>1, ScanStops
    <2>3. ASSUME Whole(built), process', ~dropped' PROVE \E k \in Nat \ {0} : Examined(k)'
        <3>0. ~dropped
            BY <2>1, <2>3 DEF Missed
        <3>1. PICK k \in Nat \ {0} : Examined(k)
            BY <2>1, <2>3, <3>0 DEF Examines
        <3>2. detecting_at <= pts /\ p = pts + g /\ g \in Gaps
            BY <1>6, <2>1, <2>3, <3>0 DEF Spaced
        <3>3. pts - detecting_at \in Nat
            BY <1>2, <3>2
        <3>4. ((pts - detecting_at) + g) * (Batches - 1) <= k * (Sleep - 1)
            BY <3>1, <3>2, <3>3, TimeEnough DEF Examined
        <3>5. (p - detecting_at) * (Batches - 1) <= ((k + 1) - 1) * (Sleep - 1)
            <4>1. p - detecting_at = (pts - detecting_at) + g /\ (k + 1) - 1 = k
                BY <1>1, <1>2, <3>2
            <4> QED BY <3>4, <4>1
        <3>6. rows \in Int /\ Width \in Nat
            BY <1>8, <2>3
        <3>7. CASE k + 1 <= Batches
            <4>1. k \in 0 .. Batches - 1 /\ k + 1 \in 1 .. Batches /\ ptr = k * Width
                BY <1>2, <3>1, <3>7 DEF Examined
            <4>2. StopOf(ptr) + 1 = (k + 1) * Width
                BY <2>3, <4>1, ScanBatch
            <4>3. ptr' = (k + 1) * Width /\ ~(RowsBefore(StopOf(ptr)) >= hot)
                BY <2>1, <2>2, <2>3, <4>2 DEF Scan, Found
            <4>4. StopOf(ptr) = (k + 1) * Width - 1
                <5>1. StopOf(ptr) \in Int /\ (k + 1) * Width \in Int
                    BY <1>1, <1>2, <2>1, <3>6, ScanStops
                <5> QED BY <4>2, <5>1
            <4>5. RowsBefore(StopOf(ptr)) = (k + 1) * rows
                BY <2>3, <4>1, <4>4, BatchRows DEF rows
            <4>6. hot' > (k + 1) * rows
                <5>1. (k + 1) * rows \in Int
                    BY <3>6
                <5> QED BY <1>2, <2>1, <4>3, <4>5, <5>1
            <4>7. hot' > (k + 1) * rows' /\ ptr' = (k + 1) * Width'
                BY <1>3, <4>3, <4>6
            <4>8. Examined(k + 1)'
                BY <1>1, <2>1, <3>5, <3>7, <4>7 DEF Examined, rows
            <4> QED BY <4>8
        <3>8. CASE ~(k + 1 <= Batches)
            <4>1. hot > Batches * rows
                <5>1. k = Batches \/ ~(k <= Batches)
                    BY <1>2, <3>8
                <5> QED BY <1>2, <3>1, <5>1 DEF Examined, rows
            <4>2. hot' > Batches * rows'
                BY <1>3, <2>1, <4>1
            <4>3. Examined(k + 1)'
                BY <1>1, <2>1, <3>5, <3>8, <4>2 DEF Examined, rows
            <4> QED BY <4>3
        <3> QED BY <3>7, <3>8
    <2> QED BY <1>4, <1>7, <2>3 DEF Examines
<1>11. CASE ContinueOutside(g)
    <2>1. process /\ p < detect_at /\ (stale \/ ptr >= TableEnd) /\ dropped' = Missed(g)
        BY <1>1, <1>2, <1>11 DEF ContinueOutside, Due
    <2>2. ASSUME Whole(built), ~dropped' PROVE FALSE
        <3>1. ~stale
            BY <2>1, <2>2 DEF Missed, Uninterrupted
        <3>2. ptr < TableEnd /\ TableEnd \in Nat
            BY <2>1, <2>2, <3>1, OnTime, WholeTable DEF p
        <3> QED BY <1>2, <2>1, <3>1, <3>2
    <2> QED BY <1>4, <1>7, <2>2 DEF Examines
<1>12. CASE Ignore(g)
    <2>1. ~process'
        BY <1>12 DEF Ignore, yuv
    <2> QED BY <1>7, <2>1 DEF Examines
<1> QED BY <1>7, <1>9, <1>10, <1>11, <1>12 DEF yuv_callback

\* The other threads leave the detection alone, and a change of region is a gap.
LEMMA ExaminesOthers ==
    ASSUME Examines, Uninterrupted, [Next]_vars, ~YuvThread
    PROVE  Examines' /\ Uninterrupted'
<1>1. UNCHANGED <<pts, process, detecting_at, ptr, hot>>
    BY OtherThreads
<1>2. CASE Reconfigure
    <2>1. dropped'
        BY <1>2 DEF Reconfigure
    <2> QED BY <2>1 DEF Examines, Uninterrupted
<1>3. CASE ~Reconfigure
    <2>1. UNCHANGED <<dropped, stale, built>>
        <3>1. CASE StoreEnd \/ AskRestart \/ OtherRequest
            BY <3>1 DEF StoreEnd, AskRestart, OtherRequest, camera, yuv
        <3>2. ASSUME NEW r \in Regions, StoreStart(r) PROVE UNCHANGED <<dropped, stale, built>>
            BY <3>2 DEF StoreStart, camera, yuv
        <3>3. CASE Heartbeat
            BY <1>3, <3>3 DEF Heartbeat, StopCapture, StartCapture, yuv
        <3>4. CASE UNCHANGED vars
            BY <3>4 DEF vars, camera, yuv
        <3> QED BY <3>1, <3>2, <3>3, <3>4 DEF Next, HttpThread
    <2> QED BY <1>1, <2>1 DEF Examines, Examined, Uninterrupted, Whole, Rows, Width
<1> QED BY <1>2, <1>3

\* When a detection is given up for the next, the rows of all the batches were examined.
LEMMA AllExamined ==
    ASSUME TypeOK, Spaced, Examines, [Next]_vars, detecting_at' # detecting_at,
           process, Whole(built), ~dropped, pts' - pts \in Gaps
    PROVE  hot > Rows - (Rows % Batches)
<1>1. YuvThread
    BY OtherThreads
<1>2. PICK g \in Gaps \cup Drops : yuv_callback(g)
    BY <1>1 DEF YuvThread
<1>3. PICK h \in 1 .. Rows + 1 : Begin(g, h)
    BY <1>2 DEF yuv_callback, Continue, ContinueOutside, Ignore, yuv
<1>4. pts' >= detect_at /\ detect_at = detecting_at + Sleep /\ detecting_at <= pts /\ pts' \in Nat
    BY <1>3, FrameFacts DEF Begin, Due, Spaced
<1>5. PICK k \in Nat \ {0} : Examined(k)
    BY DEF Examines
<1>6. PICK d \in Gaps : d = pts' - pts
    OBVIOUS
<1>7. /\ pts \in Nat /\ detecting_at \in Nat /\ Sleep \in Nat /\ d \in Nat
      /\ Batches \in Nat \ {0} /\ Rows \in Nat /\ hot \in Nat
    BY DetectionConstants, HeightType DEF TypeOK, Rows
<1>8. pts - detecting_at \in Nat /\ (pts - detecting_at) + d >= Sleep
    <2>1. pts' = pts + d
        <3>1. PICK p \in Nat : p = pts'
            BY <1>4
        <3>2. d = p - pts
            BY <1>6, <3>1
        <3>3. p = pts + d
            BY <1>7, <3>2
        <3> QED BY <3>1, <3>3
    <2>2. pts + d >= detecting_at + Sleep /\ detecting_at <= pts
        BY <1>4, <2>1
    <2> QED BY <1>7, <2>2
<1>9. k >= Batches
    BY <1>5, <1>8, TimeEnough DEF Examined
<1>10. hot > Batches * (Rows \div Batches)
    <2>1. k = Batches \/ ~(k <= Batches)
        BY <1>7, <1>9
    <2> QED BY <1>5, <1>7, <2>1 DEF Examined, RowsPerBatch
<1>11. Batches * (Rows \div Batches) = Rows - (Rows % Batches)
    BY <1>7, SMTT(30)
<1> QED BY <1>10, <1>11

\* When no frame is dropped, a detection that ends for the next one to begin has examined the rows of all its batches, for every frame rate, jitter and region: motion
\* that shows in them was reported (yuv_callback, detection.c 155-220).
THEOREM MotionIsFound == Spec => NoMotionMissed
<1> DEFINE Inv == TypeOK /\ TableBuilt /\ Spaced /\ Walk /\ Paused /\ Examines /\ Uninterrupted
<1>1. Init => Inv
    <2> SUFFICES ASSUME Init PROVE Spaced /\ Walk /\ Paused /\ Examines /\ Uninterrupted
        BY TypeInit
    <2>1. reported + Second = 0 /\ ~process /\ detect_at = 1
        BY DetectionConstants DEF Init
    <2>2. Spaced
        BY <2>1 DEF Spaced
    <2> QED BY <2>1, <2>2 DEF Init, Walk, Paused, Examines, Uninterrupted
<1>2. Inv /\ [Next]_vars => Inv'
    <2> SUFFICES ASSUME Inv, [Next]_vars PROVE Inv'
        OBVIOUS
    <2>1. TypeOK' /\ TableBuilt' /\ Spaced' /\ Walk' /\ Paused'
        BY TypeStep, SpacedStep, WalkStep
    <2>2. CASE YuvThread
        BY <2>1, <2>2, ExaminesCallback DEF YuvThread
    <2>3. CASE ~YuvThread
        BY <2>1, <2>3, ExaminesOthers
    <2> QED BY <2>2, <2>3
<1>3. Inv /\ [Next]_vars =>
        [/\ detecting_at' # detecting_at
         /\ process /\ Whole(built) /\ ~dropped /\ pts' - pts \in Gaps
         => hot > Rows - (Rows % Batches)]_vars
    BY AllExamined
<1> QED BY <1>1, <1>2, <1>3, PTL DEF Spec, NoMotionMissed
=============================================================================
