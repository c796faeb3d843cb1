\* Every response with up to two entries a list, one at the innermost level.
SPECIFICATION ResponseSpec
CONSTANTS
    Absent = Absent
    NotAList = NotAList
    MaxEntries = 2
    MaxNested = 2
    MaxLeaves = 1
    Days <- MCDays
    Hour = 2
    MaxListed = 2
    MaxCompared = 3
INVARIANTS
    SkippedCountsOnce
    KeepsEverySound
    DynamicIffProducts
    IntervalsAreHalfOpen
    NextDueIsOpen
    SolarHoldsToBoundary
    PrimaryMeterKnowsMost
    OptimalCodeIsInWeek
\* A response is parsed once.
CHECK_DEADLOCK FALSE
