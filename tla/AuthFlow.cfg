\* Two tasks submitting codes to one flow, and aborts from anywhere.
SPECIFICATION FlowSpec
CONSTANTS
    s1 = s1
    s2 = s2
    Submitters <- MCSubmitters
INVARIANTS
    FlowTypeOK
    SessionReleased
    SessionKept
\* A login that failed to start is over for good.
CHECK_DEADLOCK FALSE
PROPERTY
    LoginEnds
