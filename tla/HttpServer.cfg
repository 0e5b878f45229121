CONSTANTS
    MaxClients = 3  Slots = 3  Room = 1  MaxMore = 1  MaxFailures = 1  HeartbeatFails = FALSE  SignalComes = FALSE
SPECIFICATION Spec
CHECK_DEADLOCK FALSE
INVARIANTS TypeOK SlotsAreOpenSockets StreamsReachWhoAsked FrameWalksList
PROPERTIES AnswersAreWhole
