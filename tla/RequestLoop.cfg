CONSTANTS
    N = 3  DetectionSleep = 2  CooldownSleep = 1  MaxCancelled = 1  MaxSignals = 1
SPECIFICATION Spec
CHECK_DEADLOCK FALSE
INVARIANTS OneOwner MetricsCount RecordingsAreWhole StarvedOnlyByEncoder
PROPERTIES RecordingEnds SignalEndsProgram
