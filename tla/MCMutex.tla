------------------------------ MODULE MCMutex ------------------------------
(* Two or three threads compete for one mutex on two CPUs. *)
EXTENDS Mutex, TLC

CONSTANTS t1, t2, t3, c1, c2

TwoThreads   == {t1, t2}
ThreeThreads == {t1, t2, t3}
TwoCPUs      == {c1, c2}
Symmetry     == Permutations(ThreeThreads) \cup Permutations(TwoCPUs)
=============================================================================
