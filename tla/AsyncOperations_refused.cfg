CONSTANTS
    o1 = o1
    o2 = o2
    o3 = o3
    o4 = o4
    Operations <- FourOperations
    SensorSets <- ThreeSets
    IllTyped <- IllTypedOnes
    Others = Others
    Nobody = Nobody
    maxObjectCount = 3
SPECIFICATION Spec
CHECK_DEADLOCK FALSE
PROPERTY RefusedOnlyWhenAllRun
