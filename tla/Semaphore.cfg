SPECIFICATION FairSpec
CONSTANTS
    t1 = t1
    t2 = t2
    t3 = t3
    t4 = t4
    Thread <- ThreeThreads
    Count = 1
    MaxCount = 2
    Pri <- TwoLevels
INVARIANTS TypeOK NoLostWakeup
PROPERTIES WakesHighest UnitsTaken
