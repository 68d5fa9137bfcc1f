----------------------------- MODULE MCCondVar -----------------------------
(* Small instances of CondVar. *)
EXTENDS CondVar, TLC

CONSTANTS t1, t2, t3

TwoThreads   == {t1, t2}
ThreeThreads == {t1, t2, t3}
All          == Kind
AllButStop   == Kind \ {"cv_wait_stop"}
Symmetry     == Permutations(ThreeThreads)
=============================================================================
