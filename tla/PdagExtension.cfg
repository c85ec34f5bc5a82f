SPECIFICATION Spec
CONSTANTS
    Starts <- MCPdags
    MaxLatents = 0
    MaxSeeds = 0
    MaxEssential = 0
    DagArcs = {}
    OtherSize = 3
    AgEdges = 0
INVARIANT DagIsConsistentExtension
CHECK_DEADLOCK FALSE
