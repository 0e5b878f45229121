CONSTANTS
    Buffers = 2  Burst = 2  MaxFaults = 2
SPECIFICATION Spec
CHECK_DEADLOCK FALSE
INVARIANTS PicturesFlowThroughWholeChain PoolsOutliveBuffers StarvedOnlyByFailedSend
PROPERTIES SignalEndsProgram ComesUp
