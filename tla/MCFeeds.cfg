SPECIFICATION FeedsSpec
CONSTANTS
    H = H
    R = R
    k1 = k1
    k2 = k2
    Home = H
    Remotes <- MCRemotes
    Keys <- MCKeys
    MaxOps = 3
    MaxFeeds = 3
SYMMETRY Symmetry
CHECK_DEADLOCK FALSE
INVARIANTS
    ShownIsCurrent
    OpenIsSubscribed
    
