SPECIFICATION Spec
CONSTANTS
    a = a
    b = b
    home = home
    Folders = {a, b}
    Accounts = {home}
    AccountOf <- OneAccount
    NoFolder = NoFolder
    MaxPosted = 1
    MaxListeners = 2
    Scenarios <- PausesFolders
INVARIANTS
    OneSyncAtATime
CHECK_DEADLOCK FALSE
