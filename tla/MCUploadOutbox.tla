---------------------------- MODULE MCUploadOutbox ----------------------------
(* One thread at a time: jobs follow each other, as they do when items are *)
(* minutes apart and the network answers quickly.                          *)
EXTENDS UploadOutbox

CONSTANTS t1, t2

OneThread == {t1}
TwoThreads == {t1, t2}
=============================================================================
