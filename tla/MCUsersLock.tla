---------------------------- MODULE MCUsersLock ----------------------------
(* Instances of UsersLock for TLC.                                         *)
EXTENDS UsersLock, TLC

CONSTANTS t1, t2, t3, t4

ThreeThreads == {t1, t2, t3}
FourThreads == {t1, t2, t3, t4}

(* The threads differ only in their names: used where no liveness is       *)
(* checked.                                                                *)
ThreadSymmetry == Permutations(Threads)
=============================================================================
