CONSTANTS
    Eids <- ThreeEids
    Uuids <- TwoUuids
    Devices <- TwoDevices
    UuidOf <- UuidOfAll
    Identity <- IdentityOf
    InstanceTable <- Instances
    UuidTable <- UuidsInOrder
    EidTable <- NoTable
    MaxChanges = 5
    MaxQueue = 3
    MaxFaults = 1
SPECIFICATION FairSpec
CHECK_DEADLOCK FALSE
INVARIANTS TypeOK OnlineIsEnabled UsableUnlessFailed
PROPERTIES IdentifiedGetsOnline
