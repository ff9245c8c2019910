SPECIFICATION PtFairSpec
CONSTANTS
    PtFifo = 1
    PtMaxFail = 0
PROPERTY PtSilenceEnds
CHECK_DEADLOCK FALSE
