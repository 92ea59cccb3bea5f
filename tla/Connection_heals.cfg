SPECIFICATION FairSpec
CONSTANTS
    settings = settings
    app = app
    account = account
    state = state
    Jobs = {settings, app}
    Guards = {account, state}
    Settings = settings
    AccountGuard = account
    StateGuard = state
    MaxRetryCount = 1
    TokenRefreshMaxRetries = 2
    MaxPosted = 2
    Scenarios <- NetworkHeals
PROPERTIES
    Recovers
