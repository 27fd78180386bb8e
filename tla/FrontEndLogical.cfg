\* The logical operators on all values of three bits.
CONSTANTS
    Width = 3
    OverflowChecks = FALSE
    Items <- FewItems
    MaxItems = 4
SPECIFICATION Spec
INVARIANT LogicalAndMeansAnd
CHECK_DEADLOCK FALSE
