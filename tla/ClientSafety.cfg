\* Two tasks making API calls, no callback, three pairs.
SPECIFICATION ClientSafety
CONSTANTS
    t1 = t1
    t2 = t2
    drainer = drainer
    Tasks <- MCTasks
    Drainer = drainer
    Notify = FALSE
    MaxPairs = 3
    MaxAged = 1
SYMMETRY CallerSymmetry
INVARIANTS
    ClientTypeOK
    RetryCarriesNewToken
    CredentialsFitEndpoint
PROPERTIES
    SilentAfterClose
    UsesStore
