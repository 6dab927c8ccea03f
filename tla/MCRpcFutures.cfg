SPECIFICATION FairSpec
CONSTANTS
    c1 = c1
    c2 = c2
    Call <- TwoCalls
    Untimed <- OneUntimed
    Stopper <- StopClose
INVARIANTS
    FailureOnlyWhenStopping
    RegisteredIsOpen
    OutcomeIsReply
PROPERTIES
    CallsAreReleased
CHECK_DEADLOCK FALSE
