CONSTANTS
    MaxClients = 2  Slots = 3  Room = 1  MaxMore = 0  MaxFailures = 0  HeartbeatFails = TRUE  SignalComes = TRUE
SPECIFICATION Spec
CHECK_DEADLOCK FALSE
PROPERTIES RequestIsAnswered GoneIsClosed ViewerIsServed SignalEndsProgram
