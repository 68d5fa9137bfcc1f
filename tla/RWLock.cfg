SPECIFICATION FairSpec
CONSTANTS
    t1 = t1
    t2 = t2
    t3 = t3
    NULL = NULL
    Thread = {t1, t2, t3}
    Role <- AnyRole
    InitPri <- LowPri
    NewPri <- TwoLevels
INVARIANTS TypeOK StateAgrees SleepersHaveHolder
PROPERTIES WriterPriorityPolicy ImplementsRW NoStarvation
