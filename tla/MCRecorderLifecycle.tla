-------------------------- MODULE MCRecorderLifecycle --------------------------
(* Instances of RecorderLifecycle for TLC.                                 *)
EXTENDS RecorderLifecycle

AtMost(n, m) == IF n < m THEN n ELSE m

\* steady as far as a bound looks at it; what makes it look again sets steady to 0.
Counted ==
  CASE process # "up" -> 0
    [] line /\ working /\ dated -> AtMost(steady, StartBound)
    [] ~line /\ ~moving -> AtMost(steady, StopBound)
    [] OTHER -> 0

\* Two states are the same if they differ only in the count of changes (with
\* MaxChanges beyond the depth of the search its guard never bites, and the
\* surroundings change as often as they like), in the part of steady and offCount
\* that nothing looks at, or in what Restart forgets.
View ==
  IF process \in {"crashed", "ended"} THEN <<process, line, moving, working, postponed>>
  ELSE <<line, moving, working, dated, process, timer, shaken, shook, state,
         AtMost(offCount, OffDelay + 1), recCheck, posted, recorder, fault, Counted>>

\* Bound: put-off stops that are pending at a time.
FewRetries == Cardinality(timer["retry"]) + Cardinality(timer["late"]) =< 2
=============================================================================
