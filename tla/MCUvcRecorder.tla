---------------------------- MODULE MCUvcRecorder ----------------------------
(* UvcRecorder for TLC: files and encoder threads are interchangeable.      *)
EXTENDS UvcRecorder, TLC

Symmetry == Permutations(Files) \cup Permutations(Encoders)

\* An encoder thread that is over and one that nothing can wake do the same.
Thread(e) == IF Available(e) THEN "over" ELSE <<encPc[e], stop[e], frame[e]>>

View == <<usbVars, activityVars, fileVars, outFile, checkVars, written, uiVars, inbox, cameraVars,
          viewEncoder, [e \in Encoders |-> Thread(e)], encFile, diskVars>>
=============================================================================
