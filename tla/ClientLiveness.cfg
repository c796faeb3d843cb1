\* One calling task and a callback that makes API calls of its own.
SPECIFICATION ClientSpec
CONSTANTS
    t1 = t1
    t2 = t2
    drainer = drainer
    Tasks <- MCOneCaller
    Drainer = drainer
    Notify = TRUE
    MaxPairs = 2
    MaxAged = 2
PROPERTY
    ApiCallsEnd
