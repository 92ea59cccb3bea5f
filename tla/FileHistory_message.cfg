SPECIFICATION HistorySpec
CONSTANTS
    None = None
    Unread = Unread
    MaxVersions = 2
    Etags = {1, 2, 3, 4, 5, 6, 7, 8, 9, 10, 11}
    Wait = 1
    Scenarios <- LockedScenes
INVARIANTS
    FoundIsKept
