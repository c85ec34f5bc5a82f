SPECIFICATION Spec
CONSTANTS
    MaxN = 3
    Name <- ThreeNames
    DefaultName <- ThreeDefaults
    NameLists <- ThreeLists
    Buffers <- ThreeBuffers
    Registries <- ThreeRegistries
    Classes = {"DAG"}
    Batches <- ThreeBatches
INVARIANT NoDistanceToItself
CHECK_DEADLOCK FALSE
