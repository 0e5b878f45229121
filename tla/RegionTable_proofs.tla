------------------------- MODULE RegionTable_proofs -------------------------
(***************************************************************************)
(* The loop of region_reconfigure leaves the table of RegionLayout, stays  *)
(* inside its memory and points into the picture, for every settings.ini   *)
(* that gives the picture no negative size, whatever its other numbers.    *)
(***************************************************************************)
EXTENDS RegionTable, RegionLayout_proofs, SequenceTheorems

Batch == RowsPerBatch(rows, batches)

\* Triples the loop has written after r rows.
After(r) == IF r = 0 THEN 0 ELSE r + (r \div Batch)

\* What the loop writes at position i, which does not know where it will end.
Triple(i) == IF (i + 1) % (Batch + 1) = 0 THEN Null ELSE i - (i \div (Batch + 1))

\* In the loop: so many triples, each in its place.
Looping ==
    /\ row > 0 => Batch > 0
    /\ Len(pointers) = After(row)
    /\ \A i \in 1 .. Len(pointers) : pointers[i] = Triple(i - 1)

\* The elements of the second sequence follow the first sequence.
LEMMA ConcatNext ==
    ASSUME NEW S, NEW s \in Seq(S), NEW t \in Seq(S), NEW k \in 1 .. Len(t)
    PROVE  (s \o t)[Len(s) + k] = t[k]
<1>1. \A i \in 1 .. Len(s) + Len(t) : (s \o t)[i] = IF i <= Len(s) THEN s[i] ELSE t[i - Len(s)]
    BY ConcatProperties
<1>2. Len(s) \in Nat /\ Len(t) \in Nat
    OBVIOUS
<1>3. /\ Len(s) + k \in 1 .. Len(s) + Len(t) /\ ~(Len(s) + k <= Len(s))
      /\ (Len(s) + k) - Len(s) = k
    BY <1>2
<1> QED BY <1>1, <1>3

\* The rows of the table are the region's, and the loop has come as far as row.
RowsOfRegion ==
    /\ rows = Unsigned(y_end - y_start) /\ row <= Height
    /\ pointers \in Seq((0 .. row - 1) \cup {Null})

IInv ==
    /\ TypeOK
    /\ phase \in {"defaults", "init", "region"} => row = 0 /\ rows = 0 /\ pointers = <<>>
    /\ phase \in {"loop", "done"} => batches # 0 /\ RowsOfRegion
    /\ phase = "loop" => Looping
    /\ phase = "trapped" => pointers = <<>> \/ (batches # 0 /\ RowsOfRegion /\ Looping)
    /\ phase = "done" => Buildable(Height, batches)
    /\ TableAsDescribed

-----------------------------------------------------------------------------
\* What is stored in a word, and what of it is stored as it is.
LEMMA UnsignedFacts ==
    ASSUME NEW n \in Int
    PROVE  /\ Unsigned(n) \in 0 .. Word - 1
           /\ n >= 0 => Unsigned(n) <= n
           /\ n \in 0 .. Word - 1 => Unsigned(n) = n
<1> DEFINE w == Word
           q == n \div w
           m == n % w
<1>1. w \in Nat \ {0}
    BY SettingsConstants
<1> HIDE DEF w
<1>2. m \in 0 .. w - 1
    BY <1>1, SMTT(30)
<1>3. n >= 0 => m <= n
    BY <1>1, SMTT(30)
<1>4. ASSUME n \in 0 .. w - 1 PROVE m = n
    <2>1. 0 * w + n = n
        BY <1>1
    <2>2. (0 * w + n) % w = n
        BY <1>1, <1>4, Division
    <2> QED BY <2>1, <2>2
<1> QED BY <1>2, <1>3, <1>4 DEF Unsigned, w

-----------------------------------------------------------------------------
\* A row adds its triple, and that of a separator at the end of a batch.
LEMMA RowTriples ==
    ASSUME TypeOK, batches # 0, Batch > 0
    PROVE  LET n == After(row) IN
           /\ n \in Nat /\ Triple(n) = row
           /\ EndsBatch(row, Batch) => Triple(n + 1) = Null /\ After(row + 1) = n + 2
           /\ ~EndsBatch(row, Batch) => After(row + 1) = n + 1
<1> DEFINE p == Batch
           q == row \div p
           m == row % p
           n == After(row)
<1>0. row \in Nat /\ p \in Nat
    <2>1. row \in Nat /\ rows \in Nat /\ batches \in Nat \ {0}
        BY DEF TypeOK
    <2> QED BY <2>1, SMTT(30) DEF Batch, RowsPerBatch
<1>1. p \in Nat \ {0}
    BY <1>0
<1> HIDE DEF p
<1>2. q \in Nat /\ m \in 0 .. p - 1 /\ row = q * p + m
    BY <1>0, <1>1, SMTT(30)
<1>3. n = row + q
    <2>1. 0 \div p = 0
        BY <1>1, SMTT(30)
    <2> QED BY <1>0, <2>1 DEF After, p
<1> HIDE DEF q, m, n
<1>4. q * p \in Nat /\ q * (p + 1) = q * p + q /\ (q + 1) * p = q * p + p
      /\ (q + 1) * (p + 1) = q * p + q + p + 1
    BY <1>1, <1>2, SMTT(30)
<1>5. n = q * (p + 1) + m /\ n \in Nat
    BY <1>2, <1>3, <1>4
<1>6. n \div (p + 1) = q
    BY <1>1, <1>2, <1>5, Division
<1>7. Triple(n) = row
    <2>1. n + 1 = q * (p + 1) + (m + 1) /\ m + 1 \in 1 .. p
        BY <1>1, <1>2, <1>4, <1>5
    <2>2. (n + 1) % (p + 1) = m + 1
        <3>1. m + 1 \in 0 .. (p + 1) - 1 /\ p + 1 \in Nat \ {0}
            BY <1>1, <1>2, <2>1
        <3>2. (q * (p + 1) + (m + 1)) % (p + 1) = m + 1
            BY <1>2, <3>1, Division
        <3> QED BY <2>1, <3>2
    <2>3. (n + 1) % (p + 1) # 0 /\ n - q = row
        BY <1>0, <1>2, <1>3, <2>1, <2>2
    <2> QED BY <1>6, <2>3 DEF Triple, p
<1>8. CASE m = p - 1
    <2>1. row + 1 = (q + 1) * p + 0 /\ n + 2 = (q + 1) * (p + 1) + 0
        BY <1>1, <1>2, <1>4, <1>5, <1>8
    <2>2. (row + 1) \div p = q + 1 /\ (row + 1) % p = 0
        <3>1. ((q + 1) * p + 0) \div p = q + 1 /\ ((q + 1) * p + 0) % p = 0
            BY <1>1, <1>2, Division
        <3> QED BY <2>1, <3>1
    <2>3. (n + 2) % (p + 1) = 0
        <3>1. ((q + 1) * (p + 1) + 0) % (p + 1) = 0
            BY <1>1, <1>2, Division
        <3> QED BY <2>1, <3>1
    <2>4. n + 1 + 1 = n + 2 /\ row + 1 # 0 /\ row + 1 + (q + 1) = n + 2
        BY <1>0, <1>2, <1>3, <1>5
    <2>5. Triple(n + 1) = Null
        BY <2>3, <2>4 DEF Triple, p
    <2>6. After(row + 1) = n + 2
        BY <2>2, <2>4 DEF After, p
    <2> QED BY <1>5, <1>7, <2>2, <2>5, <2>6 DEF EndsBatch, n, p
<1>9. CASE m # p - 1
    <2>1. row + 1 = q * p + (m + 1) /\ m + 1 \in 1 .. p - 1
        BY <1>1, <1>2, <1>4, <1>9
    <2>2. (row + 1) \div p = q /\ (row + 1) % p = m + 1
        <3>1. m + 1 \in 0 .. p - 1
            BY <1>1, <1>2, <2>1
        <3>2. (q * p + (m + 1)) \div p = q /\ (q * p + (m + 1)) % p = m + 1
            BY <1>1, <1>2, <3>1, Division
        <3> QED BY <2>1, <3>2
    <2>3. (row + 1) % p # 0 /\ row + 1 # 0 /\ row + 1 + q = n + 1
        BY <1>0, <1>2, <1>3, <2>1, <2>2
    <2>4. After(row + 1) = n + 1
        BY <2>2, <2>3 DEF After, p
    <2> QED BY <1>5, <1>7, <2>3, <2>4 DEF EndsBatch, n, p
<1> QED BY <1>8, <1>9

-----------------------------------------------------------------------------
(* The invariant *)

\* Whatever a file holds, the picture has a size and the other numbers are words.
LEMMA LoadedSettings ==
    ASSUME NEW s \in {set_default_settings} \cup {read_settings(ini) : ini \in Inis}
    PROVE  /\ \E w, h \in Nat : s.mjpeg = Mjpeg(w, h)
           /\ {s.fps, s.stream_fps, s.motion_check_frequency} \subseteq 0 .. Word - 1
           /\ s.region \in [1 .. 4 -> 0 .. Word - 1]
<1>0. Word \in Nat /\ Word > 100
    BY SettingsConstants
<1>1. /\ set_default_settings.region = <<0, 0, 100, 100>>
      /\ <<0, 0, 100, 100>> \in [1 .. 4 -> 0 .. Word - 1]
    BY <1>0 DEF set_default_settings
<1>2. CASE s = set_default_settings
    <2>1. /\ s.mjpeg = Mjpeg(1640, 922) /\ s.fps = 10 /\ s.stream_fps = 4
          /\ s.motion_check_frequency = 3
        BY <1>2 DEF set_default_settings
    <2> QED BY <1>0, <1>1, <1>2, <2>1
<1>3. ASSUME NEW ini \in Inis, s = read_settings(ini)
      PROVE  /\ \E w, h \in Nat : s.mjpeg = Mjpeg(w, h)
             /\ {s.fps, s.stream_fps, s.motion_check_frequency} \subseteq 0 .. Word - 1
             /\ s.region \in [1 .. 4 -> 0 .. Word - 1]
    <2> DEFINE given == Given(ini, "region", <<>>)
    <2>1. /\ \A name \in Sizes, default \in Nat : Given(ini, name, default) \in Nat
          /\ \A name \in Rates, default \in Int : Given(ini, name, default) \in Int
        BY RegionTableConstants DEF Given
    <2>0. given \in Seq(Int)
        BY RegionTableConstants
    <2>2. /\ s.mjpeg = Mjpeg(Given(ini, "width", 1640), Given(ini, "height", 922))
          /\ s.region = Region(ini, <<0, 0, 100, 100>>)
          /\ s.fps = Unsigned(Given(ini, "fps", 10))
          /\ s.stream_fps = Unsigned(Given(ini, "stream_fps", 4))
          /\ s.motion_check_frequency = motion_check_frequency(ini, 3)
        BY <1>3 DEF read_settings, set_default_settings
    <2>3. 1640 \in Nat /\ 922 \in Nat /\ 10 \in Int /\ 4 \in Int /\ 3 \in Int
        OBVIOUS
    <2>4. Given(ini, "width", 1640) \in Nat /\ Given(ini, "height", 922) \in Nat
        BY <2>1, <2>3 DEF Sizes
    <2>5. s.fps \in 0 .. Word - 1 /\ s.stream_fps \in 0 .. Word - 1
        <3>1. Given(ini, "fps", 10) \in Int /\ Given(ini, "stream_fps", 4) \in Int
            BY <2>1, <2>3 DEF Rates
        <3> QED BY <2>2, <3>1, UnsignedFacts
    <2>6. \A j \in 1 .. Len(given) : Unsigned(given[j]) \in 0 .. Word - 1
        <3>1. \A j \in 1 .. Len(given) : given[j] \in Int
            BY <2>0
        <3> HIDE DEF given
        <3> QED BY <3>1, UnsignedFacts
    <2>7. Len(given) \in Nat
        BY <2>0
    <2>8. s.motion_check_frequency \in 0 .. Word - 1
        <3>1. Unsigned(Given(ini, "motion_check_frequency", 3)) \in 0 .. Word - 1
            <4>1. Given(ini, "motion_check_frequency", 3) \in Int
                BY <2>1, <2>3 DEF Rates
            <4> QED BY <4>1, UnsignedFacts
        <3>2. Len(given) >= 5 => Unsigned(given[5]) \in 0 .. Word - 1
            BY <2>6, <2>7
        <3> QED BY <2>2, <3>1, <3>2 DEF motion_check_frequency
    <2>9. s.region \in [1 .. 4 -> 0 .. Word - 1]
        <3> DEFINE default == <<0, 0, 100, 100>>
        <3>1. s.region = [j \in 1 .. 4 |-> IF j <= Len(given) THEN Unsigned(given[j]) ELSE default[j]]
            BY <2>2 DEF Region
        <3>2. \A j \in 1 .. 4 : default[j] \in 0 .. Word - 1
            BY <1>1
        <3>3. \A j \in 1 .. 4 : j <= Len(given) => Unsigned(given[j]) \in 0 .. Word - 1
            BY <2>6, <2>7
        <3> HIDE DEF given, default
        <3> QED BY <3>1, <3>2, <3>3
    <2> QED BY <2>2, <2>4, <2>5, <2>8, <2>9
<1> QED BY <1>2, <1>3

\* The region's numbers are words, and its rows are counted as they are.
LEMMA RegionRows ==
    ASSUME TypeOK
    PROVE  /\ {x_start, y_start, x_end, y_end} \subseteq 0 .. Word - 1 /\ Word \in Nat
           /\ Height \in Nat /\ (MoreRows <=> row < Height)
           /\ Height > 0 => Unsigned(y_end - y_start) = Height /\ Height = y_end - y_start
<1>1. {x_start, y_start, x_end, y_end} \subseteq 0 .. Word - 1 /\ Word \in Nat
    BY LoadedSettings, SettingsConstants DEF TypeOK, x_start, y_start, x_end, y_end
<1>2. Height > 0 => Height = y_end - y_start /\ Height \in 0 .. Word - 1
    BY <1>1 DEF Height
<1>3. Height \in Nat /\ (MoreRows <=> row < Height)
    BY <1>1 DEF Height, MoreRows, TypeOK
<1>4. Height > 0 => Unsigned(y_end - y_start) = Height
    BY <1>2, UnsignedFacts
<1> QED BY <1>1, <1>2, <1>3, <1>4

\* The loop has written fewer triples than the whole table.
LEMMA AfterFits ==
    ASSUME TypeOK, batches # 0, RowsOfRegion, Buildable(Height, batches)
    PROVE  /\ After(row) \in Nat /\ After(row) <= Written(Height, batches) - 1
           /\ Written(Height, batches) \in Nat
           /\ row = Height => After(row) = Written(Height, batches) - 1
<1>1. row \in Nat /\ Height \in Nat /\ batches \in Nat \ {0} /\ row <= Height
    BY RegionRows DEF TypeOK, RowsOfRegion
<1> DEFINE h == Height
<1>2. CASE h = 0
    BY <1>1, <1>2 DEF After, Written, Separators
<1>3. CASE h > 0
    <2>1. h = rows
        BY <1>3, RegionRows DEF RowsOfRegion
    <2> HIDE DEF h
    <2>2. Batch \in Nat \ {0}
        <3>1. h \div batches \in Nat
            BY <1>1, SMTT(30) DEF h
        <3> QED BY <1>3, <2>1, <3>1 DEF Buildable, Batch, RowsPerBatch, h
    <2>3. Separators(h, batches) = h \div Batch
        BY <1>3, <2>1 DEF Separators, Batch
    <2>4. row \div Batch \in Nat /\ h \div Batch \in Nat /\ row \div Batch <= h \div Batch
        BY <1>1, <2>2, SMTT(30) DEF h
    <2>5. 0 \div Batch = 0
        BY <2>2, SMTT(30)
    <2> QED BY <1>1, <1>3, <2>3, <2>4, <2>5 DEF After, Written, h
<1> QED BY <1>1, <1>2, <1>3

LEMMA InvInit == Init => IInv
<1> SUFFICES ASSUME Init PROVE IInv
    OBVIOUS
<1>1. /\ settings = set_default_settings /\ batches = 0 /\ rows = 0 /\ row = 0
      /\ pointers = <<>> /\ phase = "defaults"
    BY DEF Init
<1>2. TypeOK
    BY <1>1 DEF TypeOK
<1> QED BY <1>1, <1>2 DEF IInv, TableAsDescribed

\* Nothing is written before the loop.
LEMMA InvStart ==
    ASSUME IInv, ReadSettings \/ detection_init \/ DivideRows PROVE IInv'
<1>0. TypeOK
    BY DEF IInv
<1>1. CASE ReadSettings
    <2>1. /\ phase = "defaults" /\ phase' = "init" /\ UNCHANGED <<batches, rows, row, pointers>>
          /\ settings' = settings \/ \E ini \in Inis : settings' = read_settings(ini)
        BY <1>1 DEF ReadSettings, table
    <2> QED BY <1>0, <2>1 DEF IInv, TypeOK, TableAsDescribed
<1>2. CASE detection_init
    <2>1. UNCHANGED <<settings, rows, row, pointers>> /\ phase = "init"
        BY <1>2 DEF detection_init, table
    <2>2. CASE settings.motion_check_frequency = 0 \/ settings.stream_fps = 0
        BY <1>0, <1>2, <2>1, <2>2 DEF detection_init, IInv, TypeOK, TableAsDescribed
    <2>3. CASE ~(settings.motion_check_frequency = 0 \/ settings.stream_fps = 0)
        <3>1. settings.fps \in Nat /\ settings.motion_check_frequency \in Nat \ {0}
            BY <1>0, <2>3, LoadedSettings, SettingsConstants DEF TypeOK
        <3>2. phase' = "region" /\ batches' = settings.fps \div settings.motion_check_frequency
            BY <1>2, <2>3 DEF detection_init
        <3> HIDE DEF IInv
        <3>3. batches' \in Nat
            <4> DEFINE f == settings.fps
                       m == settings.motion_check_frequency
            <4>1. f \in Nat /\ m \in Nat \ {0} /\ batches' = f \div m
                BY <3>1, <3>2
            <4> HIDE DEF f, m
            <4> QED BY <4>1, SMTT(30)
        <3> QED BY <1>0, <2>1, <3>2, <3>3 DEF IInv, TypeOK, TableAsDescribed
    <2> QED BY <2>2, <2>3
<1>3. CASE DivideRows
    <2>1. UNCHANGED <<settings, batches, row, pointers>> /\ phase = "region"
          /\ row = 0 /\ pointers = <<>> /\ rows = 0
        BY <1>3 DEF DivideRows, IInv
    <2>2. CASE batches = 0
        BY <1>0, <1>3, <2>1, <2>2 DEF DivideRows, IInv, TypeOK, TableAsDescribed
    <2>3. CASE batches # 0
        <3>1. phase' = "loop" /\ rows' = Unsigned(y_end - y_start)
            BY <1>3, <2>3 DEF DivideRows
        <3>2. y_end - y_start \in Int /\ Height \in Nat /\ Height' = Height
            BY <1>0, <2>1, RegionRows DEF Height, y_start, y_end
        <3>3. rows' \in Nat
            BY <3>1, <3>2, UnsignedFacts, SettingsConstants
        <3>4. RowsOfRegion'
            BY <2>1, <3>1, <3>2 DEF RowsOfRegion, y_start, y_end
        <3>5. TypeOK'
            BY <1>0, <2>1, <3>1, <3>3 DEF TypeOK
        <3>6. Looping'
            BY <2>1 DEF Looping, After
        <3> QED BY <2>1, <2>3, <3>1, <3>4, <3>5, <3>6 DEF IInv, TableAsDescribed
    <2> QED BY <2>2, <2>3
<1> QED BY <1>1, <1>2, <1>3

\* A row is written after the others.
LEMMA InvRow == ASSUME IInv, WriteRow PROVE IInv'
<1>1. /\ phase = "loop" /\ MoreRows /\ Batch > 0 /\ row' = row + 1
      /\ UNCHANGED <<settings, rows, batches, phase>>
      /\ pointers' = pointers \o (IF EndsBatch(row, Batch) THEN <<row, Null>> ELSE <<row>>)
    BY DEF WriteRow, Triples, Batch
<1>2. TypeOK /\ batches # 0 /\ RowsOfRegion /\ Len(pointers) = After(row)
      /\ \A i \in 1 .. Len(pointers) : pointers[i] = Triple(i - 1)
    BY <1>1 DEF IInv, Looping
<1>3. row \in Nat /\ rows \in Nat /\ pointers \in Seq(Nat \cup {Null}) /\ Null \in Int
    BY <1>2 DEF TypeOK, Null
<1> DEFINE n == After(row)
           t == IF EndsBatch(row, Batch) THEN <<row, Null>> ELSE <<row>>
<1>4. /\ n \in Nat /\ Triple(n) = row
      /\ EndsBatch(row, Batch) => Triple(n + 1) = Null /\ After(row + 1) = n + 2
      /\ ~EndsBatch(row, Batch) => After(row + 1) = n + 1
    BY <1>1, <1>2, RowTriples
<1>5. TypeOK'
    <2>1. t \in Seq(Nat \cup {Null})
        <3>1. row \in Nat \cup {Null} /\ Null \in Nat \cup {Null}
            BY <1>3
        <3>2. <<row, Null>> \in Seq(Nat \cup {Null}) /\ <<row>> \in Seq(Nat \cup {Null})
            BY <3>1
        <3> QED BY <3>2
    <2>2. row + 1 \in Nat
        BY <1>3
    <2>3. pointers \o t \in Seq(Nat \cup {Null})
        <3> HIDE DEF t
        <3> QED BY <1>3, <2>1
    <2> QED BY <1>1, <1>2, <2>2, <2>3 DEF TypeOK
<1>6. /\ Len(pointers') = After(row + 1)
      /\ \A i \in 1 .. Len(pointers') : pointers'[i] = Triple(i - 1)
    <2> HIDE DEF n
    <2>1. Len(pointers) = n
        BY <1>2 DEF n
    <2>2. CASE EndsBatch(row, Batch)
        <3>1. pointers' = pointers \o <<row, Null>>
            BY <1>1, <2>2
        <3>2. Len(pointers') = n + 2
            BY <1>3, <1>4, <2>1, <3>1
        <3>3. ASSUME NEW i \in 1 .. n + 2 PROVE pointers'[i] = Triple(i - 1)
            <4>1. CASE i \in 1 .. n
                BY <1>2, <1>3, <1>4, <2>1, <3>1, <4>1
            <4> DEFINE u == <<row, Null>>
            <4>2. u \in Seq(Nat \cup {Null}) /\ Len(u) = 2 /\ u[1] = row /\ u[2] = Null
                  /\ pointers' = pointers \o u /\ pointers \in Seq(Nat \cup {Null})
                BY <1>3, <3>1
            <4> HIDE DEF u
            <4>3. 1 \in 1 .. Len(u) /\ 2 \in 1 .. Len(u)
                BY <4>2
            <4>4. (pointers \o u)[Len(pointers) + 1] = u[1] /\ (pointers \o u)[Len(pointers) + 2] = u[2]
                <5>1. pointers \in Seq(Nat \cup {Null}) /\ u \in Seq(Nat \cup {Null})
                    BY <4>2
                <5>2. \A k \in 1 .. Len(u) : (pointers \o u)[Len(pointers) + k] = u[k]
                    BY <5>1, ConcatNext
                <5> QED BY <4>3, <5>2
            <4>5. pointers'[n + 1] = row /\ pointers'[n + 2] = Null
                BY <2>1, <4>2, <4>4
            <4>6. i \in 1 .. n \/ i = n + 1 \/ i = n + 2
                BY <1>4
            <4>7. (n + 1) - 1 = n /\ (n + 2) - 1 = n + 1
                BY <1>4
            <4> QED BY <1>4, <2>2, <4>1, <4>5, <4>6, <4>7
        <3> QED BY <1>4, <2>2, <3>2, <3>3
    <2>3. CASE ~EndsBatch(row, Batch)
        <3>1. pointers' = pointers \o <<row>>
            BY <1>1, <2>3
        <3>2. Len(pointers') = n + 1
            BY <1>3, <1>4, <2>1, <3>1
        <3>3. ASSUME NEW i \in 1 .. n + 1 PROVE pointers'[i] = Triple(i - 1)
            <4>1. CASE i \in 1 .. n
                BY <1>2, <1>3, <1>4, <2>1, <3>1, <4>1
            <4>2. CASE i = n + 1
                BY <1>3, <1>4, <2>1, <3>1, <4>2
            <4> QED BY <1>4, <3>3, <4>1, <4>2
        <3> QED BY <1>4, <2>3, <3>2, <3>3
    <2> QED BY <2>2, <2>3
<1>7. Batch' = Batch /\ phase' = "loop"
    BY <1>1 DEF Batch
<1>8. Looping'
    <2>1. After(row)' = After(row + 1)
        BY <1>1, <1>7 DEF After
    <2>2. \A i : Triple(i)' = Triple(i)
        BY <1>7 DEF Triple
    <2> QED BY <1>1, <1>6, <1>7, <2>1, <2>2 DEF Looping, Triple
<1>9. RowsOfRegion'
    <2> DEFINE A == (0 .. row' - 1) \cup {Null}
    <2>1. row \in A /\ Null \in A /\ pointers \in Seq(A)
        <3>1. (0 .. row - 1) \cup {Null} \subseteq A /\ row \in A /\ Null \in A
            BY <1>1, <1>3
        <3>2. pointers \in Seq((0 .. row - 1) \cup {Null})
            BY <1>2 DEF RowsOfRegion
        <3> HIDE DEF A
        <3> QED BY <3>1, <3>2
    <2>2. pointers' \in Seq(A)
        <3> HIDE DEF A
        <3>1. <<row, Null>> \in Seq(A) /\ <<row>> \in Seq(A)
            BY <2>1
        <3>2. CASE EndsBatch(row, Batch)
            BY <1>1, <2>1, <3>1, <3>2
        <3>3. CASE ~EndsBatch(row, Batch)
            BY <1>1, <2>1, <3>1, <3>3
        <3> QED BY <3>2, <3>3
    <2>3. row' <= Height'
        <3>1. row < Height /\ Height \in Nat
            BY <1>1, <1>2, RegionRows
        <3>2. Height' = Height
            BY <1>1 DEF Height, y_start, y_end
        <3> QED BY <1>1, <1>3, <3>1, <3>2
    <2> QED BY <1>1, <1>2, <2>2, <2>3 DEF RowsOfRegion, y_start, y_end
<1> QED BY <1>1, <1>2, <1>5, <1>7, <1>8, <1>9 DEF IInv, TableAsDescribed

\* After the last row comes the last separator.
LEMMA InvFinish == ASSUME IInv, Finish PROVE IInv'
<1>1. /\ phase = "loop" /\ ~MoreRows /\ phase' = "done"
      /\ UNCHANGED <<settings, rows, batches, row>>
      /\ pointers' = Append(pointers, Null) /\ TypeOK /\ Looping /\ RowsOfRegion /\ batches # 0
    BY DEF Finish, IInv
<1>2. row = Height /\ Height \in Nat /\ batches \in Nat \ {0} /\ pointers \in Seq(Nat \cup {Null})
      /\ row \in Nat /\ (Height > 0 => rows = Height)
    BY <1>1, RegionRows DEF TypeOK, RowsOfRegion
<1>3. Buildable(Height, batches)
    BY <1>1, <1>2 DEF Looping, Buildable, Batch
<1>4. Len(pointers) = Written(Height, batches) - 1 /\ Len(pointers) \in Nat
      /\ Written(Height, batches) = Len(pointers) + 1
    <2>1. After(row) = Written(Height, batches) - 1 /\ After(row) \in Nat /\ Len(pointers) = After(row)
        BY <1>1, <1>2, <1>3, AfterFits DEF Looping
    <2>2. Written(Height, batches) \in Nat
        BY <1>1, <1>3, AfterFits
    <2> QED BY <2>1, <2>2
<1>5. TypeOK'
    BY <1>1, <1>2 DEF TypeOK
<1>6. /\ Len(pointers') = Written(Height, batches)
      /\ \A i \in 1 .. Len(pointers') : pointers'[i] = Entry(Height, batches, i - 1)
    <2> DEFINE n == Len(pointers)
    <2>1. Len(pointers') = n + 1
        BY <1>1, <1>2
    <2>2. ASSUME NEW i \in 1 .. n PROVE pointers'[i] = Entry(Height, batches, i - 1)
        <3>1. pointers'[i] = Triple(i - 1)
            BY <1>1, <1>2, <2>2 DEF Looping
        <3>0. rows = Height
            <4>1. Height # 0
                <5> SUFFICES ASSUME Height = 0 PROVE FALSE
                    OBVIOUS
                <5>1. Written(Height, batches) = 1
                    BY DEF Written, Separators
                <5> QED BY <1>4, <2>2, <5>1
            <4> QED BY <1>2, <4>1
        <3>2. i - 1 # Written(Height, batches) - 1 /\ (i - 1) + 1 = i
            BY <1>4, <2>2
        <3> QED BY <3>0, <3>1, <3>2 DEF Triple, Entry, Batch
    <2>3. pointers'[n + 1] = Entry(Height, batches, n)
        <3>1. pointers'[n + 1] = Null
            BY <1>1, <1>2
        <3> QED BY <1>4, <3>1 DEF Entry
    <2>4. ASSUME NEW i \in 1 .. n + 1 PROVE i \in 1 .. n \/ (i = n + 1 /\ i - 1 = n)
        BY <1>4, <2>4
    <2> HIDE DEF n
    <2> QED BY <1>4, <2>1, <2>2, <2>3, <2>4 DEF n
<1>7. Height' = Height
    BY <1>1 DEF Height, y_start, y_end
<1>8. RowsOfRegion'
    <2> DEFINE A == (0 .. row - 1) \cup {Null}
    <2>1. pointers \in Seq(A) /\ Null \in A
        BY <1>1 DEF RowsOfRegion
    <2> HIDE DEF A
    <2>2. pointers' \in Seq(A)
        BY <1>1, <2>1
    <2> QED BY <1>1, <1>7, <2>2 DEF RowsOfRegion, A, y_start, y_end
<1> QED BY <1>1, <1>3, <1>5, <1>6, <1>7, <1>8 DEF IInv, TableAsDescribed

LEMMA InvStep == IInv /\ [Next]_vars => IInv'
<1> SUFFICES ASSUME IInv, [Next]_vars PROVE IInv'
    OBVIOUS
<1>1. CASE WriteRow
    BY <1>1, InvRow
<1>2. CASE DivideByZero \/ WriteOutside
    <2>1. /\ phase = "loop" /\ phase' = "trapped"
          /\ UNCHANGED <<settings, rows, batches, row, pointers>>
          /\ TypeOK /\ Looping /\ RowsOfRegion /\ batches # 0
        BY <1>2 DEF DivideByZero, WriteOutside, IInv, table
    <2> QED BY <2>1 DEF IInv, TypeOK, Looping, After, Triple, Batch, TableAsDescribed,
                        RowsOfRegion, Height, y_start, y_end
<1>3. CASE Finish
    BY <1>3, InvFinish
<1>4. CASE UNCHANGED vars
    <2>1. UNCHANGED <<settings, rows, batches, row, pointers, phase>>
        BY <1>4 DEF vars, table
    <2> QED BY <2>1 DEF IInv, TypeOK, Looping, After, Triple, Batch, TableAsDescribed,
                        RowsOfRegion, Height, y_start, y_end
<1>5. CASE ReadSettings \/ detection_init \/ DivideRows
    BY <1>5, InvStart
<1> QED BY <1>1, <1>2, <1>3, <1>4, <1>5 DEF Next

THEOREM Invariance == Spec => []IInv
BY InvInit, InvStep, PTL DEF Spec

-----------------------------------------------------------------------------
\* When region_reconfigure has come to its end, the loop has left the table that
\* the detection walks, whatever region settings.ini gives, one that ends before
\* it starts and one of more than four numbers included, and whatever the number
\* of batches (main.c 104-136 and 369-387).
THEOREM LoopBuildsTable == Spec => []TableAsDescribed
<1>1. IInv => TableAsDescribed
    BY DEF IInv
<1> QED BY <1>1, Invariance, PTL

\* Of a region tall enough, of which the number of bytes is what was meant, the
\* loop never writes outside its memory (main.c 88-97 against 104-136).
THEOREM LoopStaysInside == Spec => []TableFits
<1>1. IInv => TableFits
    <2> SUFFICES ASSUME IInv, TallEnough(rows, batches), ~Wraps
                 PROVE  Len(pointers) <= Capacity
        BY DEF TableFits
    <2>1. TypeOK /\ rows \in Nat /\ batches \in Nat /\ pointers \in Seq(Nat \cup {Null})
        BY DEF IInv, TypeOK
    <2>2. Capacity = Allocated(rows, batches) /\ Allocated(rows, batches) \in Nat
        <3> DEFINE a == Allocated(rows, batches)
        <3>1. a \in Nat
            BY <2>1 DEF Allocated
        <3> HIDE DEF a
        <3>2. Bytes = 12 * a
            BY DEF Bytes, TripleBytes, a
        <3>3. 12 * a \in 0 .. Word - 1
            BY <3>1, <3>2, SettingsConstants DEF Wraps
        <3>4. Unsigned(Bytes) = 12 * a
            BY <3>2, <3>3, UnsignedFacts
        <3>5. (12 * a) \div 12 = a
            BY <3>1, SMTT(30)
        <3> QED BY <3>1, <3>4, <3>5 DEF Capacity, TripleBytes, a
    <2>3. CASE pointers = <<>>
        BY <2>2, <2>3
    <2>4. CASE pointers # <<>>
        <3>1. batches \in Nat \ {0} /\ RowsOfRegion /\ (phase = "done" \/ Looping)
            BY <2>1, <2>4 DEF IInv, TypeOK
        <3>2. Height \in Nat /\ row \in Nat /\ row <= Height /\ (Height > 0 => rows = Height)
            BY <2>1, <3>1, RegionRows DEF RowsOfRegion, TypeOK
        <3>3. Buildable(Height, batches)
            <4>1. rows \div batches \in Nat
                BY <2>1, <3>1, SMTT(30)
            <4> QED BY <2>1, <3>1, <3>2, <4>1 DEF TallEnough, Buildable, RowsPerBatch
        <3>4. Len(pointers) \in Nat /\ Written(Height, batches) \in Nat
            BY <2>1, <3>1, <3>3, AfterFits
        <3>5. Len(pointers) <= Written(Height, batches)
            <4>1. CASE Looping
                BY <2>1, <3>1, <3>3, <3>4, <4>1, AfterFits DEF Looping
            <4>2. CASE phase = "done"
                BY <3>4, <4>2 DEF IInv, TableAsDescribed
            <4> QED BY <3>1, <4>1, <4>2
        <3>6. Written(Height, batches) <= Allocated(rows, batches)
            <4>1. CASE Height = 0
                BY <2>1, <4>1 DEF Written, Separators, Allocated
            <4>2. CASE Height > 0
                BY <2>1, <3>1, <3>2, <4>2, SeparatorsFit
            <4> QED BY <3>2, <4>1, <4>2
        <3> QED BY <2>2, <3>4, <3>5, <3>6
    <2> QED BY <2>3, <2>4
<1> QED BY <1>1, Invariance, PTL

-----------------------------------------------------------------------------
(* The picture *)

\* Aligned, a number has grown by less than what it is aligned to.
LEMMA Aligned ==
    ASSUME NEW n \in Nat, NEW to \in Nat \ {0}
    PROVE  /\ AlignUp(n, to) \in Nat /\ n <= AlignUp(n, to) /\ AlignUp(n, to) <= n + to - 1
           /\ n > 0 => AlignUp(n, to) >= to
<1> DEFINE q == (n + to - 1) \div to
           m == (n + to - 1) % to
<1>1. q \in Nat /\ m \in 0 .. to - 1 /\ n + to - 1 = q * to + m
    <2>1. n + to - 1 \in Nat
        OBVIOUS
    <2> QED BY <2>1, SMTT(30)
<1>2. AlignUp(n, to) = to * q
    BY DEF AlignUp
<1> HIDE DEF q, m
<1>3. to * q = q * to /\ q * to \in Nat
    BY <1>1, SMTT(30)
<1>4. n > 0 => q * to >= to
    <2> SUFFICES ASSUME n > 0 PROVE q * to >= to
        OBVIOUS
    <2>1. q # 0
        <3> SUFFICES ASSUME q = 0 PROVE FALSE
            OBVIOUS
        <3>1. q * to = 0
            OBVIOUS
        <3> QED BY <1>1, <3>1
    <2> QED BY <1>1, <2>1, SMTT(30)
<1> QED BY <1>1, <1>2, <1>3, <1>4

\* A row of a region inside the picture is examined inside its frame.
LEMMA RowInFrame ==
    ASSUME NEW w \in Nat, NEW h \in Nat, NEW r \in Nat,
           NEW x \in Nat, NEW y \in Nat, NEW xe \in Nat,
           x <= xe, xe <= w, y + r < h
    PROVE  (y * AlignUp(w, 32) + x) + AlignUp(w, 32) * r + AlignUp(xe - x, NeonBatch)
              <= y_length(AlignUp(w, 32), AlignUp(h, 16))
<1> DEFINE s == AlignUp(w, 32)
           t == AlignUp(h, 16)
           n == AlignUp(xe - x, NeonBatch)
<1>1. s \in Nat /\ w <= s /\ (w > 0 => s >= 32)
    <2>1. 32 \in Nat \ {0}
        OBVIOUS
    <2> QED BY <2>1, Aligned
<1>2. t \in Nat /\ h <= t /\ t >= 16
    <2>1. 16 \in Nat \ {0} /\ h > 0
        OBVIOUS
    <2> QED BY <2>1, Aligned
<1>3. n \in Nat /\ n <= (xe - x) + 15
    <2>1. xe - x \in Nat /\ 16 \in Nat \ {0}
        OBVIOUS
    <2> QED BY <2>1, Aligned DEF NeonBatch
<1>4. y_length(s, t) = (3 * (s * t)) \div 2
    BY DEF y_length
<1>5. CASE w = 0
    <2>1. x = 0 /\ xe = 0
        BY <1>5
    <2>2. s = 0 /\ n = 0
        BY <1>5, <2>1, SMTT(30) DEF AlignUp, NeonBatch
    <2> HIDE DEF s, t, n
    <2>3. y * s = 0 /\ s * r = 0 /\ s * t = 0
        BY <1>2, <2>2
    <2>4. (3 * 0) \div 2 = 0
        BY SMTT(30)
    <2>5. (y * s + x) + s * r + n = 0 /\ y_length(s, t) = 0
        BY <1>4, <2>1, <2>2, <2>3, <2>4
    <2> QED BY <2>5 DEF s, t, n
<1>6. CASE w > 0
    <2> HIDE DEF s, t, n
    <2>1. y * s + s * r = (y + r) * s
        BY <1>1, SMTT(30)
    <2>2. (y + r) * s <= (t - 1) * s /\ (t - 1) * s = s * t - s
        <3>1. y + r <= t - 1 /\ y + r \in Nat /\ t - 1 \in Nat
            BY <1>2
        <3>2. (y + r) * s <= (t - 1) * s
            BY <1>1, <3>1, SMTT(30)
        <3> QED BY <1>1, <1>2, <3>2, SMTT(30)
    <2>3. s * t \in Nat /\ s * t >= 512
        <3>1. s * t >= s * 16
            BY <1>1, <1>2, SMTT(30)
        <3>2. s * t \in Nat
            BY <1>1, <1>2, SMTT(30)
        <3> QED BY <1>1, <1>6, <3>1, <3>2
    <2>4. x + n <= s + 15
        BY <1>1, <1>3
    <2> DEFINE a == y * s
               b == s * r
               c == s * t
               d == (y + r) * s
               e == (t - 1) * s
    <2>5. a \in Nat /\ b \in Nat /\ d \in Nat /\ e \in Int
        BY <1>1, <1>2, SMTT(30)
    <2> HIDE DEF a, b, c, d, e
    <2>6. a + b = d /\ d <= e /\ e = c - s /\ c \in Nat /\ c >= 512
        BY <2>1, <2>2, <2>3 DEF a, b, c, d, e
    <2>7. (a + x) + b + n <= c + 15
        BY <1>1, <1>3, <2>4, <2>5, <2>6
    <2>8. c + 15 <= (3 * c) \div 2
        BY <2>6, SMTT(30)
    <2>9. (3 * c) \div 2 \in Int
        BY <2>6, SMTT(30)
    <2>10. (a + x) + b + n <= (3 * c) \div 2
        BY <1>1, <1>3, <2>5, <2>6, <2>7, <2>8, <2>9
    <2> QED BY <1>4, <2>10 DEF a, b, c, s, t, n
<1> QED BY <1>5, <1>6

\* The detection examines nothing outside the frame, whatever the size of the
\* picture and the region in it (main.c 113-122 and 348).
THEOREM DetectionReadsItsFrame == Spec => []RowsInsideFrame
<1>1. IInv => RowsInsideFrame
    <2> SUFFICES ASSUME IInv, InPicture, NEW i \in DOMAIN pointers, pointers[i] # Null
                 PROVE  ScanEnd(pointers[i]) <= settings.mjpeg.y_length
        BY DEF RowsInsideFrame
    <2>1. TypeOK
        BY DEF IInv
    <2>2. RowsOfRegion
        BY <2>1 DEF IInv, TypeOK
    <2> DEFINE r == pointers[i]
    <2>3. r \in 0 .. row - 1 /\ row \in Nat /\ row <= Height
        BY <2>1, <2>2 DEF RowsOfRegion, TypeOK
    <2> HIDE DEF r
    <2>4. PICK w \in Nat, h \in Nat : settings.mjpeg = Mjpeg(w, h)
        BY <2>1, LoadedSettings DEF TypeOK
    <2> DEFINE v == w \div streamDenominator
               u == h \div streamDenominator
               s == AlignUp(v, 32)
    <2>5. v \in Nat /\ u \in Nat
        BY SMTT(30) DEF streamDenominator
    <2>6. /\ settings.mjpeg.width = v /\ settings.mjpeg.height = u
          /\ stride = s
          /\ settings.mjpeg.y_length = y_length(s, AlignUp(u, 16))
        BY <2>4 DEF Mjpeg, stride
    <2>7. s \in Nat
        <3>1. 32 \in Nat \ {0}
            OBVIOUS
        <3> QED BY <2>5, <3>1, Aligned
    <2> HIDE DEF v, u, s
    <2>8. /\ x_start \in Nat /\ y_start \in Nat /\ x_end \in Nat /\ y_end \in Nat
          /\ Height \in Nat /\ (Height > 0 => Height = y_end - y_start)
        BY <2>1, RegionRows
    <2>9. x_start <= x_end /\ x_end <= v /\ y_end <= u
        BY <2>6 DEF InPicture
    <2>10. r \in Nat /\ y_start + r < u
        BY <2>3, <2>5, <2>8, <2>9
    <2>11. (y_start * s + x_start) + s * r + AlignUp(x_end - x_start, NeonBatch)
              <= y_length(s, AlignUp(u, 16))
        BY <2>5, <2>8, <2>9, <2>10, RowInFrame DEF s
    <2>12. row_offset(r) <= (y_start * s + x_start) + s * r /\ row_offset(r) \in Nat
        <3> DEFINE a == y_start * s + x_start
                   b == s * r
        <3>1. a \in Nat /\ b \in Nat
            BY <2>7, <2>8, <2>10, SMTT(30)
        <3>2. row_offset(r) = Unsigned(Unsigned(a) + b)
            BY <2>6 DEF row_offset, offset
        <3> HIDE DEF a, b
        <3>3. Unsigned(a) \in Nat /\ Unsigned(a) <= a
            BY <3>1, UnsignedFacts, SettingsConstants
        <3>4. /\ Unsigned(Unsigned(a) + b) <= Unsigned(a) + b
              /\ Unsigned(Unsigned(a) + b) \in Nat
            <4>1. Unsigned(a) + b \in Nat
                BY <3>1, <3>3
            <4> QED BY <4>1, UnsignedFacts, SettingsConstants
        <3>5. row_offset(r) <= a + b /\ row_offset(r) \in Nat
            BY <3>1, <3>2, <3>3, <3>4
        <3> QED BY <3>5 DEF a, b
    <2>13. /\ AlignUp(x_end - x_start, NeonBatch) \in Nat
           /\ (y_start * s + x_start) + s * r \in Nat
           /\ y_length(s, AlignUp(u, 16)) \in Int
        <3>1. x_end - x_start \in Nat /\ 16 \in Nat \ {0}
            BY <2>8, <2>9
        <3>2. AlignUp(x_end - x_start, NeonBatch) \in Nat /\ AlignUp(u, 16) \in Nat
            BY <2>5, <3>1, Aligned DEF NeonBatch
        <3>3. (3 * (s * AlignUp(u, 16))) \div 2 \in Int
            <4>1. s * AlignUp(u, 16) \in Nat
                BY <2>7, <3>2, SMTT(30)
            <4> QED BY <4>1, SMTT(30)
        <3> QED BY <2>7, <2>8, <2>10, <3>2, <3>3, SMTT(30) DEF y_length
    <2> QED BY <2>6, <2>11, <2>12, <2>13 DEF ScanEnd, r
<1> QED BY <1>1, Invariance, PTL
=============================================================================
