SPECIFICATION Spec
CONSTANTS
    a = a
    b = b
    home = home
    Folders = {a, b}
    Accounts = {home}
    AccountOf <- OneAccount
    NoFolder = NoFolder
    MaxPosted = 1
    MaxListeners = 2
    Scenarios <- AnyScenario
SYMMETRY AnyFolder
INVARIANTS
    TypeOK
    QueueAgrees
    OnlyCurrentSyncs
    NoLostWakeUp
PROPERTIES
    TakenToBeSynced
    PausedStaysStill
CHECK_DEADLOCK FALSE
