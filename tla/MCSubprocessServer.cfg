SPECIFICATION FairSpec
CONSTANTS
    s1 = s1
    s2 = s2
    Subprocess <- MCSubprocess
    Callers <- MCCallers
    Signal = sig
    MaxDeaths = 1
CHECK_DEADLOCK FALSE

    
PROPERTIES
    SentIsRead
    EndIsJoined
