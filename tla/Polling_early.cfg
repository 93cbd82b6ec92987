CONSTANTS
    gpu = gpu
    switch = switch
    temperature = temperature
    ecc = ecc
    retimer = retimer
    power = power
    NoSensor = NoSensor
    Devices <- TwoDevices
    Sensors <- FourSensors
    SensorsOf <- SensorsOfBoth
    Configured <- AllButEcc
    Static <- Retimer
    StandbyToDc <- Retimer
    EarlyStart = TRUE
    Priority <- Gpu
    LongRunning <- Gpu
    MaxChanges = 2
SPECIFICATION Spec
CHECK_DEADLOCK FALSE
INVARIANTS ReadyMeansRenewed
