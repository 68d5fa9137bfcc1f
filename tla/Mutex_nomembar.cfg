SPECIFICATION Spec
CONSTANTS
    t1 = t1
    t2 = t2
    t3 = t3
    c1 = c1
    c2 = c2
    NULL = NULL
    Thread <- ThreeThreads
    CPU <- TwoCPUs
    ResumeMembar = FALSE
SYMMETRY Symmetry
INVARIANT NoMissedWakeup
