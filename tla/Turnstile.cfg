SPECIFICATION FairSpec
CONSTANTS
    t1 = t1
    t2 = t2
    t3 = t3
    t4 = t4
    a = a
    b = b
    c = c
    NULL = NULL
    Thread <- Threads
    Lock = {a, b, c}
    Handoff = {c}
    Hash <- Chains
    NChains = 2
    Script <- Scripts
    Pri <- Pris
INVARIANTS TypeOK Inherited BoostJustified
PROPERTY Terminates
CHECK_DEADLOCK FALSE
