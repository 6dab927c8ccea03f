SPECIFICATION Spec
CONSTANTS
    Thread <- TwoThreads
    Service <- ThreeServices
    Programs <- SomePrograms
    Main = "main"
    MaxCalls <- FewCalls
    None = "none"
INVARIANTS AloneIsSafe FinalizedInOrder
CHECK_DEADLOCK FALSE
