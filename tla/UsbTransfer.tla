----------------------------- MODULE UsbTransfer -----------------------------
(***************************************************************************)
(* What libusb promises to the owner of asynchronous transfers: a transfer *)
(* that was submitted is given back exactly once, through its callback,    *)
(* with a status.  It says that it was cancelled only if its owner asked   *)
(* for it, and that it timed out only if its time has run out.             *)
(***************************************************************************)
CONSTANT Transfers

VARIABLES
  state,    \* who has each transfer: its owner ("idle") or libusb
  outcome   \* transfer->status, as its callback finds it

vars == <<state, outcome>>

Statuses == {"completed", "error", "stall", "overflow", "noDevice", "cancelled", "timedOut"}

Init ==
  /\ state = [t \in Transfers |-> "idle"]
  /\ outcome = [t \in Transfers |-> "none"]

Submit(t) ==
  /\ state[t] = "idle"
  /\ state' = [state EXCEPT ![t] = "flying"]
  /\ outcome' = [outcome EXCEPT ![t] = "none"]

Cancel(t) ==
  /\ state[t] = "flying"
  /\ state' = [state EXCEPT ![t] = "cancelling"]
  /\ UNCHANGED outcome

Expire(t) ==
  /\ state[t] \in {"flying", "cancelling"}
  /\ state' = [state EXCEPT ![t] = "expired"]
  /\ UNCHANGED outcome

Complete(t) ==
  /\ state[t] # "idle"
  /\ state' = [state EXCEPT ![t] = "idle"]
  /\ \E s \in Statuses :
       /\ s = "cancelled" => state[t] = "cancelling"
       /\ s = "timedOut" => state[t] = "expired"
       /\ outcome' = [outcome EXCEPT ![t] = s]

Next == \E t \in Transfers : Submit(t) \/ Cancel(t) \/ Expire(t) \/ Complete(t)

Safe == Init /\ [][Next]_vars

GivenBack == \A t \in Transfers : WF_vars(Complete(t))

Spec == Safe /\ GivenBack
=============================================================================
