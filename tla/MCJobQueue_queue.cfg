SPECIFICATION FairSpec
CONSTANTS
    Roots = {r1}
    Kinds = {"sweep", "probe", "analyze", "confirm", "merge", "apply"}
    Retirable = {"sweep"}
    MaxJobs = 2
    MaxEpoch = 2
    MaxPrio = 1
INVARIANT TypeOK
INVARIANT NoLostWakeup
INVARIANT OwnerRunsAlone
INVARIANT ApplyIsAttended
PROPERTY BacklogDrains
CHECK_DEADLOCK FALSE
