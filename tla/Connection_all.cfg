SPECIFICATION Spec
CONSTANTS
    settings = settings
    app = app
    account = account
    state = state
    Jobs = {settings, app}
    Guards = {account, state}
    Settings = settings
    AccountGuard = account
    StateGuard = state
    MaxRetryCount = 1
    TokenRefreshMaxRetries = 2
    MaxPosted = 2
    Scenarios <- AnythingHappens
INVARIANTS
    TypeOK
    WaitingEnds
    BlocksAreOwned
    NoneWaitsInOpenQueue
    MeteredPauses
PROPERTIES
    SignedOutStays
    SentWhenOpen
