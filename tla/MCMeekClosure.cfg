SPECIFICATION Spec
CONSTANTS
    Size = 4
    MixedPairs = 3
    Pdags <- MCPdags
INVARIANTS ArcsStayAcyclic SkeletonKept ClosedWhenDone CpdagIsEssential NoExtensionIsLost
PROPERTY Terminates
CHECK_DEADLOCK FALSE
