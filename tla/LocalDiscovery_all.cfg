SPECIFICATION Spec
CONSTANTS
    a = a
    b = b
    Paths <- MCPaths
    Scenarios <- CalmOrNot
SYMMETRY MCSymmetry
INVARIANTS
    TypeOK
    NoChangeForgotten
    EngineLooksWhereTrackerSays
    SettledIsLeftAlone
    NestingEnds
