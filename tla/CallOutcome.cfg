\* One call of each kind, with its arguments at their boundaries and every answer.
SPECIFICATION OutcomeSpec
CONSTANTS
    None = None
    NotAnInt = NotAnInt
    Statuses <- MCStatuses
    Calls <- MCCalls
INVARIANTS
    ReauthIffRefused
    NotPublishedIsThe404
    OutageNamesLastAnswer
    RefusedIffUnsendable
    SentAsMeant
    ActsAtMostOnce
\* The call ends.
CHECK_DEADLOCK FALSE
