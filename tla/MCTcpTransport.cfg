SPECIFICATION FairSpec
CONSTANTS
    Call <- TwoCalls
    Reply <- Replies
    MaxLost = 1
    None = 0
INVARIANTS FailsOnlyByOverlap DeliveredOnce ReplyHasRoute UnresolvedOnlyByLoss
PROPERTIES SentArrives
CHECK_DEADLOCK FALSE
