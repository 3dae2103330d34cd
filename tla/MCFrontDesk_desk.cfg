SPECIFICATION DeskSpec
CONSTANTS
    f1 = f1
    f2 = f2
    Shells = {sh}
    Commands <- MCCommands
    Menu <- MCMenu
    Files = {f1, f2}
    Broken = {f2}
    Alike = {f2}
    Presented = {f1}
    Stuck = {f1}
    Plan <- MCPlan
    MaxJobs = 3
    MaxMishaps = 1
INVARIANT ExitTellsTruth
PROPERTY CountIsHonoured
PROPERTY StageIsHonoured
CHECK_DEADLOCK FALSE
