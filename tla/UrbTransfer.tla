----------------------------- MODULE UrbTransfer -----------------------------
(***************************************************************************)
(* One transfer of libusb on Android (os/android_usbfs.c): it is split     *)
(* into URBs, which the kernel completes, which the event thread reaps one *)
(* by one, and which are counted until the last one has come back.  Only   *)
(* then may the memory of the URBs be freed and the callback be called.    *)
(* What makes it hard is that a transfer may fail half-way through its     *)
(* submission, be cancelled by its owner or by its timeout while URBs are  *)
(* being reaped, and that discarded URBs come back in reverse order.       *)
(*                                                                         *)
(* itransfer->lock is held during the whole of a submission and while one  *)
(* URB is handled; it is not held between the two halves of a completion.  *)
(***************************************************************************)
EXTENDS Integers, Sequences, FiniteSets

CONSTANTS
  MaxUrbs,   \* bound: URBs of a transfer
  Kinds      \* the kinds of transfers looked at

AllKinds == {"iso", "control", "bulk", "split"}   \* "split": bulk without USBFS_CAP_BULK_CONTINUATION

ASSUME UrbAssumption ==
  /\ MaxUrbs \in Nat \ {0}
  /\ Kinds \subseteq AllKinds

VARIABLES
  kind,        \* transfer->type, and how bulk transfers are split
  num,         \* num_urbs
  phase,       \* "idle", "submitting" or "flying" (in flying_transfers)
  next,        \* the URB to be submitted next
  inKernel,    \* the URBs the kernel has
  reapable,    \* the URBs the kernel has completed, with their status
  disabled,    \* the kernel refuses further URBs of this bulk transfer
  gone,        \* the device has been unplugged
  allocated,   \* urbs or iso_urbs is not NULL
  action,      \* reap_action
  reapStatus,  \* reap_status
  retired,     \* num_retired
  timedOut,    \* USBI_TRANSFER_TIMED_OUT
  cancelling,  \* USBI_TRANSFER_CANCELLING
  evPc,        \* the event thread
  inHand,      \* the URB it has reaped, with its status
  verdict,     \* what it is about to report
  status       \* transfer->status

kernelVars == <<inKernel, reapable, disabled, gone>>
ownerVars == <<phase, next, timedOut, cancelling>>
privVars == <<allocated, action, reapStatus, retired>>
eventVars == <<evPc, inHand, verdict, status>>
vars == <<kind, num, kernelVars, ownerVars, privVars, eventVars>>

Bulk == kind \in {"bulk", "split"}
Urbs == 1 .. num
NoUrb == [urb |-> 0, status |-> "none"]

UrbStatuses == {"ok", "short", "stall", "overflow", "error", "gone", "cancelled"}
Actions == {"NORMAL", "SUBMIT_FAILED", "CANCELLED", "COMPLETED_EARLY", "ERROR"}
Results == {"completed", "error", "stall", "overflow", "noDevice", "cancelled", "timedOut"}

\* The URBs that are still to be handled.
Outstanding ==
  inKernel \cup {reapable[k].urb : k \in DOMAIN reapable}
           \cup (IF evPc = "reaped" THEN {inHand.urb} ELSE {})

TypeOK ==
  /\ kind \in Kinds /\ num \in 1 .. MaxUrbs
  /\ phase \in {"idle", "submitting", "flying"} /\ next \in Urbs
  /\ inKernel \subseteq Urbs
  /\ reapable \in Seq([urb : Urbs, status : UrbStatuses])
  /\ disabled \in BOOLEAN /\ gone \in BOOLEAN /\ allocated \in BOOLEAN
  /\ action \in Actions /\ reapStatus \in Results /\ retired \in 0 .. num
  /\ timedOut \in BOOLEAN /\ cancelling \in BOOLEAN
  /\ evPc \in {"idle", "reaped", "report", "completing"}
  /\ inHand \in [urb : Urbs, status : UrbStatuses] \cup {NoUrb}
  /\ verdict \in Results \cup {"none", "cancel", "action"}
  /\ status \in Results \cup {"none"}

Init ==
  /\ kind \in Kinds
  /\ num \in IF kind = "control" THEN {1} ELSE 1 .. MaxUrbs
  /\ phase = "idle" /\ next = 1
  /\ inKernel = {} /\ reapable = <<>> /\ disabled = FALSE /\ gone = FALSE
  /\ allocated = FALSE /\ action = "NORMAL" /\ reapStatus = "completed" /\ retired = 0
  /\ timedOut = FALSE /\ cancelling = FALSE
  /\ evPc = "idle" /\ inHand = NoUrb /\ verdict = "none" /\ status = "none"
-----------------------------------------------------------------------------
(* The kernel.                                                             *)

\* The ways to give back some URBs, all with the same status, in some order.
GivenBack(urbs, s) ==
  {q \in [1 .. Cardinality(urbs) -> [urb : urbs, status : {s}]] :
     urbs = {q[k].urb : k \in DOMAIN q}}

Ascending(q) == \A j, k \in DOMAIN q : j < k => q[j].urb < q[k].urb
Descending(q) == \A j, k \in DOMAIN q : j < k => q[j].urb > q[k].urb

\* discard_urbs goes from the last URB to the first, and each has been given
\* back when the call returns. The kernel may refuse any of them (EINVAL, on
\* non-rooted devices perhaps all): the code goes on as if they were on their
\* way, but they stay with the kernel until the device ends them.
Discarded(urbs) == {q \in GivenBack(urbs, "cancelled") : Descending(q)}
Discard(urbs) ==
  \E refused \in SUBSET (urbs \cap inKernel) :
    /\ inKernel' = (inKernel \ urbs) \cup refused
    /\ \E q \in Discarded((urbs \cap inKernel) \ refused) : reapable' = reapable \o q
    /\ UNCHANGED <<disabled, gone>>

\* How a URB may end by itself.  Too much data comes only at the end.
Endings(i) ==
  CASE kind = "iso" -> {"ok", "error"}
    [] kind = "control" -> {"ok", "stall", "overflow", "error"}
    [] OTHER -> {"ok", "short", "stall", "error"} \cup (IF i = num THEN {"overflow"} ELSE {})

\* URBs end in the order of their submission.  An error in a bulk transfer
\* submitted with BULK_CONTINUATION makes the kernel give back the rest.
KernelCompletes ==
  \E i \in inKernel : \E s \in Endings(i) :
    LET breaks == kind = "bulk" /\ s # "ok" /\ i < num
        rest == IF breaks THEN inKernel \ {i} ELSE {}
    IN /\ \A j \in inKernel : i <= j
       /\ \E q \in GivenBack(rest, "cancelled") :
            Ascending(q) /\ reapable' = Append(reapable, [urb |-> i, status |-> s]) \o q
       /\ inKernel' = inKernel \ ({i} \cup rest)
       /\ disabled' = (disabled \/ breaks)
       /\ UNCHANGED <<kind, num, gone, ownerVars, privVars, eventVars>>

Unplug ==
  /\ ~gone /\ gone' = TRUE
  /\ inKernel' = {}
  /\ \E q \in GivenBack(inKernel, "gone") : Ascending(q) /\ reapable' = reapable \o q
  /\ UNCHANGED <<kind, num, disabled, ownerVars, privVars, eventVars>>
-----------------------------------------------------------------------------
(* The owner of the transfer.                                              *)

\* libusb_submit_transfer, up to the loop that submits the URBs.
Submit ==
  /\ phase = "idle" /\ phase' = "submitting" /\ next' = 1
  /\ ~allocated /\ allocated' = TRUE
  /\ action' = "NORMAL" /\ reapStatus' = "completed" /\ retired' = 0
  /\ timedOut' = FALSE /\ cancelling' = FALSE
  /\ disabled' = FALSE
  /\ UNCHANGED <<kind, num, inKernel, reapable, gone, eventVars>>

SubmitUrb ==
  /\ phase = "submitting" /\ ~gone /\ ~disabled
  /\ inKernel' = inKernel \cup {next}
  /\ IF next = num THEN phase' = "flying" /\ UNCHANGED next
                   ELSE next' = next + 1 /\ UNCHANGED phase
  /\ UNCHANGED <<kind, num, reapable, disabled, gone, timedOut, cancelling, privVars, eventVars>>

\* The first URB fails: nothing is under way.
SubmitFails ==
  /\ phase = "submitting" /\ next = 1
  /\ phase' = "idle" /\ allocated' = FALSE
  /\ UNCHANGED <<kind, num, next, kernelVars, timedOut, cancelling, action, reapStatus, retired,
                 eventVars>>

\* Mutants: all URBs count as retired, or none.
SkipRestAll(why) ==
  /\ phase = "submitting" /\ next > 1 /\ phase' = "flying"
  /\ action' = why /\ retired' = num
  /\ UNCHANGED <<kind, num, next, timedOut, cancelling, allocated, reapStatus, eventVars>>

SkipRestNone(why) ==
  /\ phase = "submitting" /\ next > 1 /\ phase' = "flying"
  /\ action' = why
  /\ UNCHANGED <<kind, num, next, timedOut, cancelling, allocated, reapStatus, retired, eventVars>>

\* The URBs that were not submitted count as retired.
SkipRest(why) ==
  /\ phase = "submitting" /\ next > 1 /\ phase' = "flying"
  /\ action' = why /\ retired' = num - (next - 1)
  /\ UNCHANGED <<kind, num, next, timedOut, cancelling, allocated, reapStatus, eventVars>>

\* A later one fails: those before it are discarded.
SubmitFailsLater ==
  /\ SkipRest("SUBMIT_FAILED")
  /\ disabled => gone
  /\ Discard(1 .. next - 1)

\* EREMOTEIO: the transfer did not need all its URBs.
SubmitStopsEarly ==
  /\ SkipRest("COMPLETED_EARLY")
  /\ disabled /\ ~gone
  /\ UNCHANGED kernelVars

\* op_cancel_transfer
CancelUrbs ==
  /\ phase # "submitting"
  /\ action' = IF Bulk /\ action = "ERROR" THEN "ERROR" ELSE "CANCELLED"
  /\ IF allocated THEN Discard(Urbs) ELSE UNCHANGED kernelVars
  /\ cancelling' = TRUE
  /\ UNCHANGED <<kind, num, phase, next, allocated, reapStatus, retired, eventVars>>

Cancel == CancelUrbs /\ UNCHANGED timedOut

\* handle_timeout; any thread that handles events may find the timeout.
Timeout ==
  /\ phase = "flying" /\ ~timedOut /\ timedOut' = TRUE
  /\ CancelUrbs
-----------------------------------------------------------------------------
(* The event thread.                                                       *)

Reap ==
  /\ evPc = "idle" /\ reapable # <<>>
  /\ evPc' = "reaped" /\ inHand' = Head(reapable) /\ reapable' = Tail(reapable)
  /\ UNCHANGED <<kind, num, inKernel, disabled, gone, ownerVars, privVars, verdict, status>>

Report(what) == evPc' = "report" /\ allocated' = FALSE /\ verdict' = what
Wait == evPc' = "idle" /\ UNCHANGED <<allocated, verdict>>

Handle(types) ==
  /\ evPc = "reaped" /\ phase # "submitting" /\ kind \in types
  /\ inHand' = NoUrb
  /\ retired' = retired + 1
  /\ UNCHANGED <<kind, num, ownerVars, status>>

HandleIso ==
  /\ Handle({"iso"})
  /\ IF action # "NORMAL"
     THEN IF retired + 1 = num
          THEN Report(IF action = "CANCELLED" THEN "cancel" ELSE "error")
          ELSE Wait
     ELSE IF inHand.urb = num
          THEN Report(CASE inHand.status \in {"ok", "cancelled"} -> "completed"
                        [] inHand.status = "gone" -> "noDevice"
                        [] OTHER -> "error")
          ELSE Wait
  /\ UNCHANGED <<kernelVars, action, reapStatus>>

HandleControl ==
  /\ Handle({"control"})
  /\ Report(IF action = "CANCELLED" THEN "cancel"
            ELSE CASE inHand.status = "ok" -> "completed"
                   [] inHand.status = "gone" -> "noDevice"
                   [] OTHER -> inHand.status)
  /\ UNCHANGED <<kernelVars, action, reapStatus>>

\* Mutant: the first URB after a cancellation ends the transfer.
HandleBulkAbnormalAtOnce ==
  /\ Handle({"bulk", "split"}) /\ action # "NORMAL"
  /\ Report("action")
  /\ UNCHANGED <<kernelVars, action, reapStatus>>

\* A bulk URB after a cancellation, a failure or an early end: it only counts.
HandleBulkAbnormal ==
  /\ Handle({"bulk", "split"}) /\ action # "NORMAL"
  /\ IF retired + 1 = num
     THEN /\ Report("action")
          /\ reapStatus' = IF action # "COMPLETED_EARLY" /\ reapStatus = "completed"
                           THEN "error" ELSE reapStatus
     ELSE Wait /\ UNCHANGED reapStatus
  /\ UNCHANGED <<kernelVars, action>>

\* The status of the first URB that failed, except that "no device" prevails.
Remembered(s) ==
  CASE s = "gone" -> "noDevice"
    [] s \in {"stall", "overflow", "error"} /\ reapStatus = "completed" -> s
    [] OTHER -> reapStatus

HandleBulk ==
  LET s == inHand.status
      last == inHand.urb = num
      full == s \in {"ok", "short", "cancelled"}
  IN /\ Handle({"bulk", "split"}) /\ action = "NORMAL"
     /\ reapStatus' = Remembered(s)
     /\ action' = CASE s = "error" -> "ERROR"
                    [] s \in {"short", "cancelled"} /\ ~last -> "COMPLETED_EARLY"
                    [] OTHER -> "NORMAL"
     /\ IF s = "overflow" \/ (full /\ last) \/ (s # "ok" /\ retired + 1 = num)
        THEN Report("action") /\ UNCHANGED kernelVars
        ELSE Wait /\ IF s = "ok" THEN UNCHANGED kernelVars ELSE Discard(inHand.urb + 1 .. num)

\* Mutant: the flag that tells a timeout from a cancellation is not looked at.
LookBlind ==
  LET cancelled == verdict = "cancel" \/ (verdict = "action" /\ action = "CANCELLED")
  IN /\ evPc = "report" /\ phase # "submitting" /\ evPc' = "completing"
     /\ verdict' = IF cancelled THEN "cancelled"
                   ELSE IF verdict = "action" THEN reapStatus ELSE verdict
     /\ UNCHANGED <<kind, num, kernelVars, ownerVars, privVars, inHand, status>>

\* After itransfer->lock has been released the bulk path looks at reap_action
\* again, and usbi_handle_transfer_cancellation asks why it was cancelled.
Look ==
  LET cancelled == verdict = "cancel" \/ (verdict = "action" /\ action = "CANCELLED")
  IN /\ evPc = "report" /\ phase # "submitting" /\ evPc' = "completing"
     /\ verdict' = IF cancelled THEN IF timedOut THEN "timedOut" ELSE "cancelled"
                   ELSE IF verdict = "action" THEN reapStatus ELSE verdict
     /\ UNCHANGED <<kind, num, kernelVars, ownerVars, privVars, inHand, status>>

\* usbi_handle_transfer_completion: out of flying_transfers, and the callback.
Callback ==
  /\ evPc = "completing" /\ evPc' = "idle"
  /\ phase' = "idle"
  /\ status' = verdict /\ verdict' = "none"
  /\ UNCHANGED <<kind, num, kernelVars, next, timedOut, cancelling, privVars, inHand>>

\* usbi_handle_disconnect, on POLLERR.  The descriptor is not polled any more.
Disconnect ==
  /\ evPc = "idle" /\ gone /\ phase = "flying"
  /\ allocated' = FALSE /\ phase' = "idle" /\ status' = "noDevice"
  /\ reapable' = <<>>
  /\ UNCHANGED <<kind, num, inKernel, disabled, gone, next, timedOut, cancelling, action,
                 reapStatus, retired, evPc, inHand, verdict>>

HandleUrb == HandleIso \/ HandleControl \/ HandleBulkAbnormal \/ HandleBulk
SubmitStep == SubmitUrb \/ SubmitFails \/ SubmitFailsLater \/ SubmitStopsEarly

Next ==
  \/ Submit \/ SubmitStep \/ Cancel \/ Timeout
  \/ KernelCompletes \/ Unplug
  \/ Reap \/ HandleUrb \/ Look \/ Callback \/ Disconnect

(* Fairness: a submission comes to an end, the event thread handles what   *)
(* the kernel gives back, and timeouts are found when they have expired.   *)
(* Nothing is assumed of the device: it may never answer.                  *)
Spec ==
  /\ Init /\ [][Next]_vars
  /\ WF_vars(SubmitStep) /\ WF_vars(Timeout)
  /\ WF_vars(Reap) /\ WF_vars(HandleUrb) /\ WF_vars(Look) /\ WF_vars(Callback)
  /\ WF_vars(Disconnect)
-----------------------------------------------------------------------------
\* When the memory of the URBs is freed, and the callback is about to run, no
\* URB is left in the kernel or waiting to be reaped: each would be written or
\* looked at after it was freed (the counting in handle_bulk_completion and
\* handle_iso_completion). Not so for kind "split": after an error the URBs are
\* discarded last first while reap_action stays NORMAL, so the last one, which
\* ends the transfer (2684), is reaped before those in the middle.
NoUrbLeft == ~allocated => Outstanding = {}

\* num_retired counts exactly the URBs that are not outstanding, those that
\* were never submitted included.
RetiredIsCounted ==
  phase = "flying" /\ allocated => retired + Cardinality(Outstanding) = num

AtHome == phase = "idle" \/ (phase = "submitting" /\ next = 1)

\* A timeout that comes after "cancelled" has been chosen comes too late.
Expired == timedOut /\ ~(evPc = "completing" /\ verdict = "cancelled")

Contract == INSTANCE UsbTransfer WITH
  Transfers <- {1},
  state <- [t \in {1} |->
              IF AtHome THEN "idle"
              ELSE IF Expired THEN "expired"
              ELSE IF cancelling THEN "cancelling" ELSE "flying"],
  outcome <- [t \in {1} |-> IF AtHome THEN status ELSE "none"]

\* URBs that the kernel has kept although the transfer has timed out.
Refused == timedOut /\ inKernel # {}

\* A submitted transfer is given back once, and says that it was cancelled or
\* timed out only when it was asked to; and it is given back, unless the device
\* never ends a URB that the kernel refused to discard (android_usbfs.c:2097).
KeepsContract == Contract!Safe /\ ([]<>~Refused => Contract!GivenBack)
=============================================================================
