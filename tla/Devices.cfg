SPECIFICATION Devices
CONSTANTS
    PdMaxPlug = 2
    PdMaxSwap = 2
    SrCmds <- MCSrCmds
    SrMaxAgain = 2
    SrLateWrite = FALSE
    SrNone = SrNone
    PtFifo = 2
    PtMaxFail = 1
    FpFiles = {f1, f2}
    FpMaxBind = 2
    PnLevels = {1, 2}
    PnFod = 9
    PnMaxFail = 2
    CmTop = 2
    CmMaxUsers = 1
    CmLines = {"reset"}
INVARIANTS
    PdFlagsClean SrSession SrResponse PtSafe FpSafe PnSafe CmSensorSafe
PROPERTIES
    PdSettles PdSwapInPlace PtTouchReturns PnBrightnessReturns CmFocusNotBlind
CHECK_DEADLOCK FALSE
