SPECIFICATION Spec
CONSTANTS
    Name = {"A", "B", "C"}
    Declared <- ThreeNames
    Tables <- MCTables
    SpecOfGlyph <- MCSpecs
    BuiltinGlyphs <- MCBuiltins
    UserGlyphs <- MCUserGlyphs
    Classes = {"AUTO", "DAG", "MPDAG", "ADMG"}
    Simples = {TRUE, FALSE}
    MaxEdges = 3
    MaxParallel = 2
INVARIANTS ObjectsCompile ObjectsAreInTheirClass
PROPERTIES VerbsKeepTheOtherRows SettingReplacesThePair
CHECK_DEADLOCK FALSE
