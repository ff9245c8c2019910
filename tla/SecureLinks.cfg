SPECIFICATION SecureLinks
CONSTANTS
    CmdLen <- MCCmdLenOne
    RspLen <- MCRspLenOne
    MaxFaults = 0
    MaxErrors = 0
    Unlimited = TRUE
    DeafCard = FALSE
    SlowCard = FALSE
    CardS <- MCNoS
    MaxS = 0
    NoMemory = TRUE
    MustReset = FALSE
    EvUsers = {u1, u2}
    EvNobody = EvNobody
    EvUserIds = {"NVM_READY"}
    EvMaxLife = 2
    EvMaxIrq = 2
    GlLen = 10
    GlMsgs = {2, 7, 12}
    GlMaxCrash = 1
    GlStaleKick = FALSE
PROPERTIES
    CallEnds EvHonest GlDelivers GlFlow
CHECK_DEADLOCK FALSE
