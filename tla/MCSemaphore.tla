---------------------------- MODULE MCSemaphore ----------------------------
(* A semaphore with three threads. *)
EXTENDS Semaphore

CONSTANTS t1, t2, t3, t4

ThreeThreads == {t1, t2, t3}
FourThreads  == {t1, t2, t3, t4}
Symmetry     == Permutations(FourThreads)
OneLevel     == {0}
TwoLevels    == {0, 1}
=============================================================================
