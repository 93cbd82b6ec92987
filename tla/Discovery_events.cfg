CONSTANTS
    Eids <- OneEid
    Uuids <- OneUuid
    Devices <- OneDevice
    UuidOf <- UuidOfAll
    Identity <- IdentityOf
    InstanceTable <- Instances
    UuidTable <- UuidsInOrder
    EidTable <- NoTable
    MaxChanges = 3
    MaxQueue = 3
    MaxFaults = 0
SPECIFICATION FairSpec
CHECK_DEADLOCK FALSE
PROPERTIES SubscribedAgain
