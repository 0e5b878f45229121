CONSTANTS
    Batches = 2  Sleep = 10  Second = 20  Gaps = {4, 5}  Drops = {9}
    Regions <- SomeRegions
    MaxLate = 1  MaxPts = 31  MaxRequests = 2
SPECIFICATION Spec
CHECK_DEADLOCK FALSE
INVARIANTS ReadsOwnTable RegionInForce
PROPERTIES NoMotionMissed ReportsApartAndFresh RegionComesIntoForce
