SPECIFICATION MCSpec
CONSTANTS
    Size = 4
    ComponentSize = 5
INVARIANTS
    EarlierNeighboursFormClique
    ChordalIsAccepted
    AcceptedIsEssentialOfItsDags
    EssentialIsAccepted
CHECK_DEADLOCK FALSE
