SPECIFICATION Spec
CONSTANTS
    Chars <- AllChars
    Slash = 2
    MaxLength = 4
    MaxTouched = 3
    WithRoot = FALSE
INVARIANTS IntendedIsDiscovered OnlyKnownFalsePositives
CHECK_DEADLOCK FALSE
