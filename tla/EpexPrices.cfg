\* Every feed of up to five entries over six instants.
SPECIFICATION EpexSpec
CONSTANTS
    Horizon = 5
    MaxEntries = 5
    Durations <- MCDurations
INVARIANTS
    SlotsAreSound
PROPERTIES
    BoundaryIsNextChange
    SleepsToTheEnd
\* The consumer stops when no boundary is left.
CHECK_DEADLOCK FALSE
