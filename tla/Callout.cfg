SPECIFICATION FairSpec
CONSTANTS
    t1 = t1
    t2 = t2
    e1 = e1
    e2 = e2
    i1 = i1
    i2 = i2
    c1 = c1
    c2 = c2
    NULL = NULL
    Client = {t1, t2}
    Executor = {e1, e2}
    ID = {i1, i2}
    CP = {c1, c2}
    Wrap = 16
    Delta <- Delays
    MaxLag = 1
VIEW Shifted
INVARIANTS TypeOK NoMissedCallout QuietAfterUntimeout OneExecutor NoMissedDone
PROPERTIES NotEarly Delivered
