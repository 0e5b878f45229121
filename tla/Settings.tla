------------------------------ MODULE Settings ------------------------------
(***************************************************************************)
(* The settings of the MMAL version (mmal-version/src/main.c): what they   *)
(* are by default, and what settings.ini makes of them.  Only what the     *)
(* detection of motion is laid out by is here; a file is the function from *)
(* the names it gives to their values, after atoi().  A value may be       *)
(* negative; what it is stored in, or divided by, is unsigned.             *)
(***************************************************************************)
EXTENDS Integers, Sequences

CONSTANTS Word      \* an unsigned int, and a size_t, is less than this

ASSUME SettingsConstants == Word \in Nat /\ Word > 100

Unsigned(n) == n % Word

\* ALIGN_UP: the next multiple.
AlignUp(n, to) == to * ((n + to - 1) \div to)

\* The planes of a picture in YUV420; the first is a mutant, named for the mistake.
LumaOnly(width, height) == width * height
y_length(width, height) == (3 * (width * height)) \div 2

\* The picture of the stream, which is also looked at for motion.
streamDenominator == 3
Mjpeg(width, height) ==
    LET w == width \div streamDenominator
        h == height \div streamDenominator
        vcosWidth  == AlignUp(w, 32)
        vcosHeight == AlignUp(h, 16)
    IN  [width |-> w, height |-> h, vcosWidth |-> vcosWidth, vcosHeight |-> vcosHeight,
         y_length |-> y_length(vcosWidth, vcosHeight)]

set_default_settings ==
    [mjpeg |-> Mjpeg(1640, 922), region |-> <<0, 0, 100, 100>>,
     fps |-> 10, stream_fps |-> 4, motion_check_frequency |-> 3]

Given(ini, name, default) == IF name \in DOMAIN ini THEN ini[name] ELSE default

\* Of the region a file gives as many numbers as it likes, from the left, and
\* they are stored from region[0] on, whatever their number.
Region(ini, default) ==
    LET given == Given(ini, "region", <<>>)
    IN  [j \in 1 .. 4 |-> IF j <= Len(given) THEN Unsigned(given[j]) ELSE default[j]]

\* The next field of the struct takes a fifth number.  A sixth and those after it
\* overwrite fields that nothing here is laid out by.
motion_check_frequency(ini, default) ==
    LET given == Given(ini, "region", <<>>)
    IN  IF Len(given) >= 5 THEN Unsigned(given[5])
        ELSE Unsigned(Given(ini, "motion_check_frequency", default))

read_settings(ini) ==
    LET s == set_default_settings
    IN  [mjpeg |-> Mjpeg(Given(ini, "width", 1640), Given(ini, "height", 922)),
         region |-> Region(ini, s.region),
         fps |-> Unsigned(Given(ini, "fps", s.fps)),
         stream_fps |-> Unsigned(Given(ini, "stream_fps", s.stream_fps)),
         motion_check_frequency |-> motion_check_frequency(ini, s.motion_check_frequency)]
=============================================================================
