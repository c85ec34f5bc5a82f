SPECIFICATION Spec
CONSTANTS
    Graphs <- MCGraphs
    Size = 4
    AdmgEdges = 3
    AgEdges = {3, 5}
    MaxSize = 1
    MaxEnds = 3
INVARIANTS SeparationIsPathBlocking MinimalSeparatorIsMinimal MagIsMaximal
INVARIANTS BackdoorSetsArePearls ProposedSetsAdjust AdmgCriterionIsSound
CHECK_DEADLOCK FALSE
