SPECIFICATION SecureProcessor
CONSTANTS
    Clients = {p1, p2}
    FileClients = {p1}
    Kinds = {"shared", "client", "server"}
    MaxReq = 2
    MaxCrash = 1
    MaxCrowd = 0
    MaxDrift = 0
    ReadsAgain = FALSE
    NoOne = NoOne
    n1 = n1
    TbNames = {n1, n2}
    TbProcs = {q1, q2}
    TbSlots = 2
    TbMaxRef = 2
    TbOnward = FALSE
    TbNo = TbNo
    DbBufs = {b1, b2}
    DbTees = {t1}
    DbProcs = {q1, q2}
    DbSlots = 2
    DbHabits = {}
    DbMaxOver = 1
    DbNone = DbNone
    SsMaxBoot = 2
    SsMaxErr = 2
    HpBlocks = {k1, k2}
    HpDevs = {d1, d2}
    HpCpus = {u1}
    HpMaxMap = 2
    HpNone = HpNone
INVARIANTS
    PacketsMatch  DbSafe SsVotesCounted HpSafe
PROPERTIES
    ChannelLocks  SsLifecycle
CHECK_DEADLOCK FALSE
