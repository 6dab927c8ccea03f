SPECIFICATION FairSpec
CONSTANTS
    m1 = m1
    Models <- MCModels
    ErrorModel = err
    FirstModel = m1
    MaxOps = 4
    MaxTabs = 3
    MaxWindows = 2
    MaxClicks = 3
CHECK_DEADLOCK FALSE
INVARIANTS
    ItemsMatchViews
    CommandsAreCurrent
    TreeFollows
PROPERTIES
    TrailIsKept
    SavedInTheEnd
