SPECIFICATION FairSpec
CONSTANTS
    a = a
    b = b
    home = home
    Folders = {a, b}
    Accounts = {home}
    AccountOf <- OneAccount
    NoFolder = NoFolder
    MaxPosted = 1
    MaxListeners = 2
    Scenarios <- Unattended
PROPERTIES
    HandlerReturns
    SyncsGoOn
CHECK_DEADLOCK FALSE
