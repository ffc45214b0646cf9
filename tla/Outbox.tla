-------------------------------- MODULE Outbox --------------------------------
(***************************************************************************)
(* What an upload queue of Azure.java promises to the rest of the program: *)
(* an outbox with at-least-once delivery.  An item that has been saved is  *)
(* forgotten only after the server has it, or because it was discarded on  *)
(* purpose.  What has not been saved yet may be lost by a restart.         *)
(***************************************************************************)
CONSTANT Items

VARIABLES
  pending,    \* the items waiting in memory
  durable,    \* the items that a restart brings back
  delivered,  \* the items the server has processed, perhaps more than once
  discarded   \* the items dropped by eviction or by a command

vars == <<pending, durable, delivered, discarded>>

Init == pending = {} /\ durable = {} /\ delivered = {} /\ discarded = {}

Accept(i) ==
  /\ i \notin pending
  /\ pending' = pending \cup {i}
  /\ UNCHANGED <<durable, delivered, discarded>>

\* Storage catches up with memory.
Persist ==
  /\ durable' \in SUBSET (pending \cup delivered \cup discarded)
  /\ durable \ durable' \subseteq delivered \cup discarded
  /\ UNCHANGED <<pending, delivered, discarded>>

Deliver(i) ==
  /\ i \in pending
  /\ delivered' = delivered \cup {i}
  /\ UNCHANGED <<pending, durable, discarded>>

Forget(i) ==
  /\ i \in pending \cap (delivered \cup discarded)
  /\ pending' = pending \ {i}
  /\ UNCHANGED <<durable, delivered, discarded>>

\* Dropped on purpose, at once or when its turn comes.
Discard(S) ==
  /\ pending' \in {pending, pending \ S}
  /\ discarded' = discarded \cup S
  /\ UNCHANGED <<durable, delivered>>

Restart ==
  /\ pending' = durable
  /\ UNCHANGED <<durable, delivered, discarded>>

Next ==
  \/ \E i \in Items : Accept(i) \/ Deliver(i) \/ Forget(i)
  \/ \E S \in SUBSET pending : Discard(S)
  \/ Persist
  \/ Restart

Spec == Init /\ [][Next]_vars
=============================================================================
