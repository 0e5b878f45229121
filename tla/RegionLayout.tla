---------------------------- MODULE RegionLayout ----------------------------
(***************************************************************************)
(* The table of row pointers that region_reconfigure (mmal-version/src/    *)
(* main.c) builds and yuv_callback (detection.c) walks.                    *)
(*                                                                         *)
(* The table is an array of triples.  A triple holds the pointers of one   *)
(* row of the detection region, and is written here as the number of that  *)
(* row; or it is three NULLs, which end a batch of rows.  One callback     *)
(* examines one batch.  Positions in the table are counted in triples.     *)
(***************************************************************************)
EXTENDS Integers

Null == -1

RowsPerBatch(rows, batches) == rows \div batches

\* Triples malloc()ed; the first is a mutant, named for the mistake.
AllocatedWithoutEnd(rows, batches) == rows + batches
Allocated(rows, batches) == rows + batches + 3

\* After every RowsPerBatch rows comes a separator, and one more at the end.
\* With no row there is only that one.
Separators(rows, batches) == IF rows = 0 THEN 0 ELSE rows \div RowsPerBatch(rows, batches)
Written(rows, batches) == rows + Separators(rows, batches) + 1

\* What position i holds once the table is complete.
Entry(rows, batches, i) ==
    LET width == RowsPerBatch(rows, batches) + 1
    IN  IF i = Written(rows, batches) - 1 \/ (i + 1) % width = 0
        THEN Null ELSE i - (i \div width)

\* The table can be built: the loop divides by RowsPerBatch, and a division by
\* zero ends the process.
Buildable(rows, batches) == rows = 0 \/ RowsPerBatch(rows, batches) > 0

\* The region is tall enough for its separators to fit.
TallEnough(rows, batches) == rows = 0 \/ 3 * RowsPerBatch(rows, batches) >= batches
=============================================================================
