\* The threads may end, all of them: that is no deadlock.
SPECIFICATION FairSpec
CONSTANTS
    Threads = {t1, t2, t3}
    NoThread = NoThread
INVARIANTS TypeOK BroughtUpOnce NativeCodeIsThere AllOrNone
PROPERTIES RequestsEnd
CHECK_DEADLOCK FALSE
