SPECIFICATION FairSpec
CONSTANTS
    c1 = c1
    c2 = c2
    c3 = c3
    w1 = w1
    w2 = w2
    e1 = e1
    e2 = e2
    k1 = k1
    k2 = k2
    NULL = NULL
    Client = {c1, c2, c3}
    Worker = {w1}
    Ent = {e1, e2}
    Task = {k1}
    NBuckets = 1
    SearchDepth = 4
    MinAlloc = 1
    MaxAlloc = 1
    MaxSize = 1
    CreateFlags <- DynamicOnly
    DispatchFlags <- Sleep
PROPERTY WaitReturns
