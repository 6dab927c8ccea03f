SPECIFICATION BundleSpec
CONSTANTS
    Ref <- SevenRefs
    Graphs <- Plain
    Roots <- TwoRoots
    Seen <- NoneSeen
    Size <- Sizes
    Messages = 1
    Options <- Unlimited
INVARIANT TypesFirst
CHECK_DEADLOCK FALSE
