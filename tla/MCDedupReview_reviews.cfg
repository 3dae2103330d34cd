SPECIFICATION Spec
CONSTANTS
    Files <- FourFiles
    Assets = {"a", "b", "c"}
    Libraries <- BothLibraries
    MaxJobs = 4
INVARIANT DiscardsAreRemembered
INVARIANT DeletesCountedOnce
PROPERTY UserDecides
PROPERTY RollbackSparesCommitted
PROPERTY StageOneSparesACopy
CHECK_DEADLOCK FALSE
