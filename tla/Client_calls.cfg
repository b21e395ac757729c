SPECIFICATION Spec
CONSTANTS
    sync = sync
    tables = tables
    Threads = {sync, tables}
    Fetches <- MCFetches
    MinInterval = 1
    Jitter = 0
    Cooldown = 1
    MinCall = 1
    Timeout = 1
    Workers = 1
    Attempts = 2
    Wait = 1
    Pages = 2
    OrphanCap = 1
INVARIANTS ExecutorSound BanTouchedOnce
PROPERTIES SlotsPaced FetchEnds
