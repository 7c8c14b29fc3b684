CONSTANTS
    Threads = {t1, t2, t3}
    Waiters = {t1, t2, t3}
    Contenders = {t1, t2, t3, t4}
    Initial = 1
    MaxCount = 2
    MaxRelease = 2
    Nobody = Nobody
    MaxDepth = 2
    Width = 5
    MaxWaits = 4
SPECIFICATION SyncSpec
INVARIANTS EnoughWakeups CounterIsWaits
PROPERTIES ImplementsSemaphore EventIsExact ImplementsMutex
CHECK_DEADLOCK FALSE
