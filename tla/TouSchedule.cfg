\* A week of two days, every consistent schedule of up to two slots a day.
SPECIFICATION TouSpec
CONSTANTS
    DayTicks = 8
    WeekLength = 2
    Horizon = 24
    Change = 12
    Shift = 2
    Times <- MCTimes
    MaxSlots = 2
    Clocks <- AnyClock
INVARIANTS
    AnswersFromWeek
PROPERTIES
    NextTransitionIsAhead
    SlotHoldsUntilTransition
\* The consumer stops at the horizon.
CHECK_DEADLOCK FALSE
