SPECIFICATION TbSpec
CONSTANTS
    TbNames = {n1, n2}
    TbProcs = {q1, q2}
    TbSlots = 2
    TbMaxRef = 2
    TbOnward = FALSE
    TbNo = TbNo
PROPERTIES TbEntryKept
CHECK_DEADLOCK FALSE
