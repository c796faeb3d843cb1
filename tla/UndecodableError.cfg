\* The token endpoint answers a refresh with an error page in another charset.
SPECIFICATION OutcomeSpec
CONSTANTS
    Statuses <- MCStatuses
    Calls <- MCCalls
    None = None
    NotAnInt = NotAnInt
INVARIANT
    LibraryErrorsOnly
\* The call ends.
CHECK_DEADLOCK FALSE
