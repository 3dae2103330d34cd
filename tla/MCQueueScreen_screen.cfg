SPECIFICATION ScreenSpec
CONSTANTS
    MaxJobs = 2
    Loads = {h1}
    Geometries <- SmallAndTall
    Reference <- Small
    Plans <- Sessions
INVARIANT LiveNeverTwice
PROPERTY CancelsTheNamed
PROPERTY LiveCatchesUp
