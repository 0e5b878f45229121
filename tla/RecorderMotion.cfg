CONSTANTS
    GOP = 3  Linger = 6  MinGap = 3  MotionLag = 3  Phase = 1  Word = 1000
    KickoffSize = 128  ConfigLengths = {100}  OpenMayFail = FALSE
    MaxFrame = 17  MaxSplits = 1  MaxStops = 0  MaxMotion = 7  MaxTorn = 3
SPECIFICATION Spec
CHECK_DEADLOCK FALSE
INVARIANTS TypeOK NothingDueIsLost RingFits RecordingEndsInTime
PROPERTIES EveryRecordingIsPublished ArchiveSpec
