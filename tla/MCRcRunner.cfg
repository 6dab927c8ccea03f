SPECIFICATION RunnerFairSpec
CONSTANTS
    Module <- ThreeModules
    Item <- TwoItems
    Programs <- AllPrograms
    None = 0
    MaxJobs = 3
    ByName <- TargetsByName
    Job <- JobTarget
    Idle = idle
    Process = {"p", "q"}
    Cacheable <- ThreeModules
    MayFail = {2, 3}
    TestRetries = 2
    Options <- AllOptions
INVARIANTS Fixpoint TestedFirst EachJobOnce EndsComplete PoolInv
PROPERTY RunEnds
