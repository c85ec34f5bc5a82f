SPECIFICATION Spec
CONSTANTS
    Starts <- MCStarts
    MaxLatents = 2
    MaxSeeds = 2
    MaxEssential = 3
    DagArcs <- MCLatentArcs
    OtherSize = 3
    AgEdges = 3
INVARIANTS DerivedSessionsOpen BucketsPackNeighbors RelationsFollowPaths TopologicalOrder BlanketShields
INVARIANTS MoralGraphsShowSeparation MarginsKeepSeparation LatentsCanBeNormalized
CHECK_DEADLOCK FALSE
