SPECIFICATION Spec
CONSTANTS
    Files <- FourFiles
    Assets = {"a", "b", "c"}
    Libraries <- MixedCrash
    MaxJobs = 4
PROPERTY UserAlwaysDecides
CHECK_DEADLOCK FALSE
