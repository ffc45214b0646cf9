---------------------------- MODULE StreamContract ----------------------------
(***************************************************************************)
(* What libuvc promises to the program that shows a stream: the program's  *)
(* frame callback is called by another thread, one call at a time, until   *)
(* the stream has been stopped; the call that stops it returns, and after  *)
(* it the callback is never called again.  Nothing of it is promised once  *)
(* the device has gone or has refused a transfer.                          *)
(***************************************************************************)
VARIABLES
  state,     \* "idle", "streaming" or "stopping"
  calling,   \* the frame callback is running
  broken     \* the device has gone, or has refused a transfer

vars == <<state, calling, broken>>

Init == state = "idle" /\ calling = FALSE /\ broken = FALSE

Start == state = "idle" /\ state' = "streaming" /\ UNCHANGED <<calling, broken>>

Break == ~broken /\ broken' = TRUE /\ UNCHANGED <<state, calling>>

Call ==
  /\ state # "idle" /\ ~calling /\ calling' = TRUE
  /\ UNCHANGED <<state, broken>>

Return == calling /\ calling' = FALSE /\ UNCHANGED <<state, broken>>

Stop == state = "streaming" /\ state' = "stopping" /\ UNCHANGED <<calling, broken>>

Stopped ==
  /\ state = "stopping" /\ ~calling /\ state' = "idle"
  /\ UNCHANGED <<calling, broken>>

\* A stream that breaks may be closed at once, whoever still works for it.
Abandon ==
  /\ state = "streaming" /\ state' = "idle" /\ broken' = TRUE
  /\ UNCHANGED calling

Next == Start \/ Break \/ Call \/ Return \/ Stop \/ Stopped \/ Abandon

Spec ==
  /\ Init /\ [][Next]_vars
  /\ WF_vars(Return) /\ SF_vars(~broken /\ Stopped)
=============================================================================
