SPECIFICATION Spec
CONSTANTS
    MaxN = 2
    MaxOffered = 3
    Specs <- MCSpecs
INVARIANTS AcceptedAsDeclared AcceptedIsValid
PROPERTY FirstCore
CHECK_DEADLOCK FALSE
