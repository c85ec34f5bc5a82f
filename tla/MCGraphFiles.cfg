SPECIFICATION FilesSpec
CONSTANTS
    MaxTypes = 8
    UserSpecs <- MCUserSpecs
    Tables <- MCTables
    Foreign <- MCForeign
    Pieces <- MCPieces
INVARIANTS GlyphsAndCodesAgree OperatorsMatchTypes SnapshotCodesStillHold
INVARIANTS FilesAreReadBack ForeignDocumentsAreRead MetricsFollowNames
CHECK_DEADLOCK FALSE
