SPECIFICATION Spec
CONSTANTS
    Jobs = {j1, j2}
    Mine = j1
    Feeds = {f1}
    Cap = 1
    MaxProgress = 1
PROPERTY StreamsEnd
PROPERTY KeepsPromise
CHECK_DEADLOCK FALSE
