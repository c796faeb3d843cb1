\* Two callers, the callback calling back, four pairs: every interleaving.
SPECIFICATION Safety
CONSTANTS
    t1 = t1
    t2 = t2
    drainer = drainer
    Tasks <- MCTasks
    Drainer = drainer
    Notify = TRUE
    MaxPairs = 4
SYMMETRY CallerSymmetry
INVARIANTS
    TypeOK
    ExchangesSerialized
    TokenInFlightIsHeld
    HeldTokenWorks
    NothingLeftBehind
    DeliveryWaitIsSound
    StoreInv
PROPERTY
    DeliversInOrder
