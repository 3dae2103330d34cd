SPECIFICATION FairSpec
CONSTANTS
    Files = {1, 2, 3}
    Size <- ThreeSizes
    Content <- TwinContent
    Io = {"i1", "i2"}
    Cpu = {"c1", "c2"}
    Budget = 2
    MaxFaults = 1
INVARIANT OneResultEach
INVARIANT BudgetHeld
PROPERTY EndsUnlessDeserted
CHECK_DEADLOCK FALSE
