---------------------------- MODULE RegionTable -----------------------------
(***************************************************************************)
(* The start of the MMAL version as far as the detection goes: its         *)
(* settings are read, detection_init divides by them, and                  *)
(* region_reconfigure (mmal-version/src/main.c) writes, row by row, the    *)
(* table of RegionLayout into the memory malloc()ed for it.  The loop      *)
(* counts rows with the remainder of a division; that the table it leaves  *)
(* is the one RegionLayout describes, which Detection relies on, that it   *)
(* fits its memory, and that its pointers stay in the picture, is what is  *)
(* shown here.                                                             *)
(***************************************************************************)
EXTENDS RegionLayout, Settings

CONSTANTS
    Inis,       \* what settings.ini may hold
    Heap        \* triples of memory from the table on: malloc() of more fails,
                \* and what is written behind them traps

Sizes == {"width", "height"}
Rates == {"fps", "stream_fps", "motion_check_frequency"}

\* The picture's size is not negative.  The other numbers may be any, and the
\* region may have more of them than four, or end before it starts.
ASSUME RegionTableConstants ==
    /\ Heap \in Nat
    /\ \A ini \in Inis :
        /\ \A name \in Sizes : Given(ini, name, 0) \in Nat
        /\ \A name \in Rates : Given(ini, name, 0) \in Int
        /\ Given(ini, "region", <<>>) \in Seq(Int)

VARIABLES settings,
          batches,          \* processing.batches
          rows,             \* y_end - y_start, which wraps around
          row,              \* rows done
          pointers,         \* triples written so far
          phase             \* where main() is, or "trapped"

table == <<rows, row, pointers>>
vars  == <<settings, batches, table, phase>>

Init ==
    /\ settings = set_default_settings /\ batches = 0
    /\ rows = 0 /\ row = 0 /\ pointers = <<>> /\ phase = "defaults"

\* There may be no settings.ini.
ReadSettings ==
    /\ phase = "defaults" /\ phase' = "init"
    /\ \/ UNCHANGED settings
       \/ \E ini \in Inis : settings' = read_settings(ini)
    /\ UNCHANGED <<batches, table>>

\* The frames per check, and those per picture of the stream.
detection_init ==
    /\ phase = "init"
    /\ IF settings.motion_check_frequency = 0 \/ settings.stream_fps = 0
       THEN phase' = "trapped" /\ UNCHANGED batches
       ELSE phase' = "region" /\ batches' = settings.fps \div settings.motion_check_frequency
    /\ UNCHANGED <<settings, table>>

x_start == settings.region[1]
y_start == settings.region[2]
x_end   == settings.region[3]
y_end   == settings.region[4]

\* The bytes of a triple; the number of bytes malloc()ed wraps around as well.
TripleBytes == 12
Bytes == TripleBytes * Allocated(rows, batches)
Wraps == Bytes >= Word
Capacity == Unsigned(Bytes) \div TripleBytes

\* region_reconfigure up to the loop: the division into batches.
DivideRows ==
    /\ phase = "region"
    /\ IF batches = 0 THEN phase' = "trapped" /\ UNCHANGED rows
       ELSE phase' = "loop" /\ rows' = Unsigned(y_end - y_start)
    /\ UNCHANGED <<settings, batches, row, pointers>>

MoreRows == y_start + row < y_end

\* Mutants are named for the mistake.
EndsBatchOneRowEarly(r, width) == r % width = 0
EndsBatch(r, width) == (r + 1) % width = 0

\* The pointers of a row, then a separator if the row is the last of its batch.
Triples(width) == IF EndsBatch(row, width) THEN <<row, Null>> ELSE <<row>>

\* Whether so many triples more can be written: malloc() succeeded, its result is
\* not checked, and there is memory, if not all of it is the table's.
Writable(n) == Capacity <= Heap /\ Len(pointers) + n <= Heap

WriteRow ==
    LET width == RowsPerBatch(rows, batches)
    IN  /\ phase = "loop" /\ MoreRows /\ width > 0
        /\ Writable(Len(Triples(width)))
        /\ pointers' = pointers \o Triples(width)
        /\ row' = row + 1
        /\ UNCHANGED <<settings, rows, batches, phase>>

\* The final separator is always written, also after one of the loop's.
Finish ==
    /\ phase = "loop" /\ ~MoreRows
    /\ Writable(1)
    /\ pointers' = Append(pointers, Null)
    /\ phase' = "done"
    /\ UNCHANGED <<settings, rows, batches, row>>

\* Fewer rows than batches: the remainder by zero.
DivideByZero ==
    /\ phase = "loop" /\ MoreRows /\ RowsPerBatch(rows, batches) = 0
    /\ phase' = "trapped"
    /\ UNCHANGED <<settings, batches, table>>

\* malloc() failed, or there is no memory behind the table any more.
WriteOutside ==
    LET width == RowsPerBatch(rows, batches)
    IN  /\ phase = "loop"
        /\ IF MoreRows THEN width > 0 /\ ~Writable(Len(Triples(width))) ELSE ~Writable(1)
        /\ phase' = "trapped"
        /\ UNCHANGED <<settings, batches, table>>

Next ==
    \/ ReadSettings \/ detection_init \/ DivideRows
    \/ WriteRow \/ Finish \/ DivideByZero \/ WriteOutside

Spec == Init /\ [][Next]_vars

-----------------------------------------------------------------------------
(* What the pointers of a row point to *)

stride == settings.mjpeg.vcosWidth
offset == Unsigned(y_start * stride + x_start)
row_offset(r) == Unsigned(offset + stride * r)

\* detection_neon takes 16 pixels at a time, the last time past the row's end.
NeonBatch == 16
ScanEnd(r) == row_offset(r) + AlignUp(x_end - x_start, NeonBatch)

InPicture ==
    x_start <= x_end /\ x_end <= settings.mjpeg.width /\ y_end <= settings.mjpeg.height

-----------------------------------------------------------------------------
(* Properties *)

\* The rows the loop has: none of a region that ends before it starts.
Height == IF y_start < y_end THEN y_end - y_start ELSE 0

TypeOK ==
    /\ settings \in {set_default_settings} \cup {read_settings(ini) : ini \in Inis}
    /\ rows \in Nat /\ batches \in Nat /\ row \in Nat
    /\ pointers \in Seq(Nat \cup {Null})
    /\ phase \in {"defaults", "init", "region", "loop", "done", "trapped"}

\* The loop leaves the table RegionLayout describes: every row once, in order,
\* in batches of rows / batches rows (main.c 106-136).
TableAsDescribed ==
    phase = "done" =>
        /\ Len(pointers) = Written(Height, batches)
        /\ \A i \in 1 .. Len(pointers) : pointers[i] = Entry(Height, batches, i - 1)

\* Of a region tall enough nothing is written past the end of the memory: the
\* batch of rows left over by the division does not overrun the room of the
\* final separators, unless the number of bytes wraps around, as it does for a
\* region that ends just before it starts (main.c 78-97 against 129-136).
TableFits == TallEnough(rows, batches) /\ ~Wraps => Len(pointers) <= Capacity

\* Of a region inside the picture no row is examined past the end of the frame
\* that was copied, although a row is examined in steps of 16 pixels from where
\* it starts, and memory is for the aligned picture (main.c 113-122 and 348,
\* detection.c 116-118).
RowsInsideFrame ==
    InPicture =>
        \A i \in DOMAIN pointers :
            pointers[i] # Null => ScanEnd(pointers[i]) <= settings.mjpeg.y_length

\* What the comment on the allocation says, "NULL separators between each batch
\* of pointers" with room for one per batch, and the final ones (main.c 92-95):
\* the memory is enough for the table of any region.
SeparatorsFitTheirRoom == Len(pointers) <= Allocated(rows, batches)
=============================================================================
