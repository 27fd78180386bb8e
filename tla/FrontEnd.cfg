\* Programs of up to six items over two names. A program is compiled once.
CONSTANTS
    Width = 3
    OverflowChecks = TRUE
    Items <- SomeItems
    MaxItems = 6
SPECIFICATION Spec
INVARIANTS
    TypeOK
    ReturnsMeaning
    ComparesMeaning
    OnlyDeclaredNames
    CheckSuffices
CHECK_DEADLOCK FALSE
