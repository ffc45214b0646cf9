----------------------------- MODULE UploadOutbox -----------------------------
(* An upload queue whose jobs never overlap implements the outbox: the map *)
(* forgets threads, flags and order, and keeps which items are where.      *)
EXTENDS UploadQueue

Outbox == INSTANCE Outbox WITH
  pending <- ToSet(queue),
  durable <- ToSet(disk)

\* At-least-once delivery: every step of the queue is a step of the outbox, so
\* an item that was saved is removed only when delivered or discarded
\* (processStatusQueue removes the head it has sent, Azure.java:387-394).
AtLeastOnce == Outbox!Spec
=============================================================================
