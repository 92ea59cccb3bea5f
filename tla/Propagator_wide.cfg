SPECIFICATION FairSpec
CONSTANTS
    root = root  deletions = deletions  new = new  moved = moved
    kept = kept  gone = gone  up = up  down = down  copy = copy  noop = noop
    meta = meta  one = one  two = two  three = three  four = four
    clash = clash
    Dirs <- WideDirs
    Items <- WideItems
    Root = root
    Deletions = deletions
    Parent <- WideParent
    Kind <- WideKind
    Moves = {}
    Local = {}
    Downloads = {three}
    Uploads = {two, four}
    Quick = {one}
    Useless = {}
    Spawns <- NoSpawns
    ParallelNetworkJobs = 6
    BandwidthLimited = TRUE
    LocksFiles = FALSE
    Outcomes = {"Success", "Soft", "Fatal"}
    FirstOutcomes = {"Success", "Soft"}
INVARIANTS
    NeverStuck ActiveJobsLimited
PROPERTIES
    EventuallyOver
CHECK_DEADLOCK FALSE
