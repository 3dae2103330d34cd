SPECIFICATION FairSpec
CONSTANTS
    Sources = {"A"}
    Rels = {1, 2, 3}
    Contents = {"a", "b", "c"}
    Settings <- BothSettings
    MaxSuffix = 3
INVARIANT CatalogTruth
INVARIANT OneCopyEach
PROPERTY CopiesLandSafely
PROPERTY DoneMeansCatalogued
PROPERTY RunCloses
