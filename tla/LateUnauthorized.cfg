\* Two calls refused with the same token, one 401 read after the other's refresh.
SPECIFICATION ClientSafety
CONSTANTS
    t1 = t1
    t2 = t2
    drainer = drainer
    Tasks <- MCTasks
    Drainer = drainer
    Notify = FALSE
    MaxPairs = 3
    MaxAged = 1
PROPERTY
    OneRefreshPerRefusedToken
