--------------------------- MODULE MCRegionTable ----------------------------
(* Files with regions of all heights up to 44 rows, at the right and lower edge
   of a picture of 64 x 48, and up to 10 batches, which is 30 frames a second and
   3 checks; both sides of the height at which the separators fit.  Files with a
   zero, which 0 or a word is read as, or a negative rate, and with a region of
   two numbers, or five.  And regions that end before they start, by less and by
   more than the memory for separators, or have a negative end: the memory wraps
   around, runs out, or is not there.  A word is shorter than the program's, as
   the numbers TLC computes with are. *)
EXTENDS RegionTable
Tall(height) == <<1, 48 - height, 64, 48>>
FilesWithRegions ==
    {[width |-> 192, height |-> 144, fps |-> f, region |-> Tall(h)] :
        f \in {3, 6, 9, 18, 21, 24, 30}, h \in 0 .. 44}
FilesWithoutRegion ==
    {[fps |-> f, stream_fps |-> s, motion_check_frequency |-> m] :
        f \in {0, 10, 29}, s \in {0, 4}, m \in {-1, 0, 3}}
OddRegions ==
    {<<96, 80>>, <<0, 0, 60, 40, 2>>, <<0, 0, 60, 40, 0>>, <<0, 0, 60, 40, -3, 7>>,
     <<0, 20, 60, 19>>, <<0, 20, 60, 14>>, <<0, 20, 60, 10>>, <<60, 10, 0, 40>>,
     <<0, 0, 60, -1>>, <<0, 0, 60, -9>>, <<-4, -2, 60, 2>>, <<0, -2, 60, -1>>}
FilesWithOddRegion == {[height |-> 1232, region |-> r] : r \in OddRegions}
SomeInis == FilesWithRegions \cup FilesWithoutRegion \cup FilesWithOddRegion
=============================================================================
