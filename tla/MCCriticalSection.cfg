CONSTANTS
    Threads = {t1, t2, t3, t4}
    Nobody = Nobody
    MaxDepth = 3
SPECIFICATION SectionSpec
INVARIANTS MutualExclusion CounterExact NoLostWakeup RecursionExact
PROPERTIES ImplementsMutex SectionImplementsMutex WaitersServed
