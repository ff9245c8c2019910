CONSTANTS
    CmdLen <- MCCmdLens
    RspLen <- MCRspLens
    MaxFaults = 3
    MaxErrors = 1
    Unlimited = FALSE
    DeafCard = TRUE
    SlowCard = TRUE
    CardS <- MCAllS
    MaxS = 2
    NoMemory = TRUE
    MustReset = FALSE
SPECIFICATION Cards
INVARIANTS WithinBounds PromptCardRecovers
PROPERTY PromiseKept
