\* An initialiser that is a comparison of constants.
CONSTANTS
    Width = 3
    OverflowChecks = TRUE
    Items <- FewItems
    MaxItems = 4
SPECIFICATION Spec
INVARIANT Coerces
CHECK_DEADLOCK FALSE
