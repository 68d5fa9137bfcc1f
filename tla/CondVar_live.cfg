SPECIFICATION FairSpec
CONSTANTS
    t1 = t1
    t2 = t2
    t3 = t3
    NULL = NULL
    Thread <- TwoThreads
    CV_MAX_WAITERS = 2
    Routine <- All
    MaxTokens = 1
PROPERTY TimedWaitEnds
CHECK_DEADLOCK FALSE
