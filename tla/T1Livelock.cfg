CONSTANTS
    CmdLen <- MCCmdLenTwo
    RspLen <- MCRspLenTwo
    MaxFaults = 1
    MaxErrors = 0
    Unlimited = FALSE
    DeafCard = TRUE
    SlowCard = FALSE
    CardS <- MCNoS
    MaxS = 0
    NoMemory = FALSE
    MustReset = TRUE
SPECIFICATION FairSpec
PROPERTY CallEnds
