SPECIFICATION FairSpec
CONSTANTS
    t1 = t1
    t2 = t2
    t3 = t3
    c1 = c1
    c2 = c2
    NULL = NULL
    Thread <- TwoThreads
    CPU <- TwoCPUs
    ResumeMembar = TRUE
INVARIANTS TypeOK MutualExclusion NoMissedWakeup NoPanic
PROPERTIES ImplementsLock SleepersWoken
