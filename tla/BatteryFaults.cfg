SPECIFICATION Spec
CONSTANTS
    Temps <- MCTempsCool
    MaxDrift = 0
    Contracts <- MCContracts
    Sources <- MCSources
    I2cFails = TRUE
    Callers = {"tcpm", "dc", "sysfs"}
INVARIANTS BoostImpliesQ4Open OtgFlagTracksBoost PdUpdateRespectsDirect
PROPERTIES ClosesAtLowInput
