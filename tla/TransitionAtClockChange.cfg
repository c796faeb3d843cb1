\* The clock is put back between two asks.
SPECIFICATION TouSpec
CONSTANTS
    DayTicks = 8
    WeekLength = 2
    Horizon = 24
    Change = 12
    Shift = 2
    Times <- MCTimes
    MaxSlots = 2
    Clocks <- ClockBack
PROPERTY
    ReturnsNextTransition
\* The consumer stops at the horizon.
CHECK_DEADLOCK FALSE
