CONSTANTS
    MaxClients = 2  Slots = 3  Room = 1  MaxMore = 0  MaxFailures = 0  HeartbeatFails = FALSE  SignalComes = TRUE
SPECIFICATION Spec
CHECK_DEADLOCK FALSE
INVARIANT MjpegExitsGracefully
