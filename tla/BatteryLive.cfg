SPECIFICATION FairSpec
CONSTANTS
    Temps <- MCTempsBands
    MaxDrift = 35
    Contracts <- MCContracts
    Sources <- MCSources
    I2cFails = FALSE
    Callers = {"tcpm"}
INVARIANTS TypeOK ThermalBandObeyed MuicAutomaticAfterOtg
PROPERTIES RecoversCharging CallsReturn
