\* The same system with fairness, three pairs.
SPECIFICATION Spec
CONSTANTS
    t1 = t1
    t2 = t2
    drainer = drainer
    Tasks <- MCTasks
    Drainer = drainer
    Notify = TRUE
    MaxPairs = 3
PROPERTIES
    CallsEnd
    DeliversNewest
