SPECIFICATION Spec
CONSTANTS
    Graphs <- MCGraphs
    Size = 4
    AdmgEdges = 3
    AgEdges = {}
    MaxSize = 1
    MaxEnds = 2
INVARIANT AdmgSeparationIsSound
CHECK_DEADLOCK FALSE
