SPECIFICATION DirectSpec
CONSTANTS
    Temps <- MCTempsCool
    MaxDrift = 0
    Contracts <- MCNoContracts
    Sources <- MCSources
    I2cFails = FALSE
    Callers = {"tcpm", "dc", "sysfs"}
    RefreshTicks = 2
    MaxFails = 2
    PumpI2cFails = FALSE
    TcpmFails = FALSE
INVARIANTS PumpGuarded RestoredAtRest
