CONSTANTS
    v1 = v1  v2 = v2
    Videos <- TwoVideos  Content <- PersonAndShadow
    MaxFaults = 0  MaxPrunes = 1
SPECIFICATION Spec
INVARIANTS MarkedIsDull
