---------------------------- MODULE MCUploadQueue ----------------------------
(* Model values and symmetry for checking UploadQueue with TLC.            *)
EXTENDS UploadQueue

CONSTANTS t1, t2

TwoThreads == {t1, t2}
OneThread == {t1}
ThreadSymmetry == Permutations(TwoThreads)
=============================================================================
