SPECIFICATION Spec
CONSTANTS
    MaxN = 2
    Name <- MCName
    DefaultName <- MCDefaultName
    NameLists <- MCNameLists
    Buffers <- MCBuffers
    Registries <- MCRegistries
    Classes = {"DAG", "UG", "AUTO"}
    Batches <- MCBatches
INVARIANTS CacheCoherent TrustedEdgesAreValid
PROPERTY ImplementsContract
CHECK_DEADLOCK FALSE
