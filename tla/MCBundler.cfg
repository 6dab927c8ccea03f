SPECIFICATION BundleSpec
CONSTANTS
    Ref <- SevenRefs
    Graphs <- General
    Roots <- TwoRoots
    Seen <- SomeSeen
    Size <- Sizes
    Messages = 2
    Options <- Limited
INVARIANTS Complete WithinLimit
CHECK_DEADLOCK FALSE
