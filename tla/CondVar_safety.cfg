SPECIFICATION Spec
CONSTANTS
    t1 = t1
    t2 = t2
    t3 = t3
    NULL = NULL
    Thread <- ThreeThreads
    CV_MAX_WAITERS = 2
    Routine <- AllButStop
    MaxTokens = 2
SYMMETRY Symmetry
INVARIANTS TypeOK CountAgrees NoLostSignal NoOversleep NoStaleTimer
CHECK_DEADLOCK FALSE
