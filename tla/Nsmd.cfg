CONSTANTS
    temperature = temperature
    ecc = ecc
    retimer = retimer
    power = power
    NoSensor = NoSensor
    Devices <- TwoDevices
    Eids <- ThreeEids
    Uuids <- TwoUuids
    UuidOf <- UuidOfAll
    Identity <- IdentityOfBoth
    InstanceTable <- GpuTable
    UuidTable <- SwitchTable
    EidTable <- NoTable
    MaxSignals = 4
    MaxQueue = 3
    MaxFaults = 1
    Sensors <- FourSensors
    SensorsOf <- SensorsOfBoth
    Configured <- AllButEcc
    Static <- Retimer
    StandbyToDc <- Retimer
    Priority <- OnlyGpu
    LongRunning <- OnlyGpu
    MaxChanges = 2
SPECIFICATION MCSpec
CHECK_DEADLOCK FALSE
INVARIANTS TypeOK OnlineIsEnabled UsableUnlessFailed ReadinessIsTrue NoSensorForgotten
    CleanExchangeSucceeds SuccessMeansCurrent
PROPERTIES IdentifiedGetsOnline OnlineGetsReady
