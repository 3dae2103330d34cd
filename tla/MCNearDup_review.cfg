SPECIFICATION NearSpec
CONSTANTS
    Collections <- Samples
    Configs <- TwoConfigs
    Video <- Knobs
INVARIANT GroupsAreComponents
INVARIANT LeadIsMaster
INVARIANT FiguresAddUp
INVARIANT PairsShownOnce
