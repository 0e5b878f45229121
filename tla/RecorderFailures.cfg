CONSTANTS
    GOP = 2  Linger = 4  MinGap = 2  MotionLag = 2  Phase = 1  Word = 4
    KickoffSize = 128  ConfigLengths = {128, 200}  OpenMayFail = TRUE
    MaxFrame = 14  MaxSplits = 0  MaxStops = 1  MaxMotion = 7  MaxTorn = 2
SPECIFICATION Spec
CHECK_DEADLOCK FALSE
INVARIANTS FinishedFilesPlayable RingIsCurrentGroup
