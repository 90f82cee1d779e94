SPECIFICATION FairSpec
CONSTANTS
    Worker = {w1, w2}
    FileEnabled = TRUE
    MemSize = 2
    Ivls = {1}
    Bad = {3}
    None = None
    MaxEntries = 3
    MaxTime = 1
    MaxUse = 1
    MaxClear = 1
    MaxShutdown = 1
    MaxRestart = 1
INVARIANTS TypeOK LogOrdered 
PROPERTIES FlushHappens LockReleased
