SPECIFICATION Spec
CONSTANTS
    root = root  deletions = deletions  new = new  moved = moved
    kept = kept  gone = gone  up = up  down = down  copy = copy  noop = noop
    meta = meta  one = one  two = two  three = three  four = four
    clash = clash
    Dirs <- MixedDirs
    Items <- MixedItems
    Root = root
    Deletions = deletions
    Parent <- MixedParent
    Kind <- MixedKind
    Moves = {moved}
    Local = {gone}
    Downloads = {down}
    Uploads = {up, copy}
    Quick = {new}
    Useless = {noop}
    Spawns <- MixedSpawns
    ParallelNetworkJobs = 6
    BandwidthLimited = FALSE
    LocksFiles = TRUE
    Outcomes = {"Success", "Conflict", "Message", "Soft", "Fatal"}
    FirstOutcomes = {"Success", "Conflict", "Message", "Fatal"}
INVARIANTS
    TypeOK FirstBeforeChildren SavedEtagIsEarned SuccessIsTruthful
    RunningListsHoldRunning
PROPERTIES
    DeletionsLast MoveHoldsBackTheList DoneOnce
CHECK_DEADLOCK FALSE
