SPECIFICATION FairSpec
CONSTANTS
    Peer <- AllPeers
    Request <- Four
    Caller <- CallerFour
    Callee <- CalleeFour
    Parent <- ParentFour
    NoRequest = "none"
    Settings <- LossyAndPatient
INVARIANTS FailedOnlyByLoss InOnePlace
PROPERTIES KeepsPromise EachIsServed
CHECK_DEADLOCK FALSE
