CONSTANTS
    v1 = v1  v2 = v2
    Videos <- TwoVideos  Content <- PersonAndShadow
    MaxFaults = 1  MaxPrunes = 2
SPECIFICATION Spec
INVARIANTS NothingIsLost MarkedWasScanned NothingLeftBehind
PROPERTIES EveryVideoIsListed
