------------------------------ MODULE UsbEvents ------------------------------
(***************************************************************************)
(* Who handles the events of a libusb context (libusb/io.c, core.c and     *)
(* sync.c; libuvc/src/init.c and device.c).  Any thread that waits for a   *)
(* transfer may have to do it: the handler thread of libuvc, which does    *)
(* nothing else, and the threads in a synchronous request.  One of them    *)
(* holds events_lock and polls; the others sleep on event_waiters_cond.    *)
(* The thread that closes the device first drives them away from the poll, *)
(* with pollfd_modify and a byte in the control pipe.                      *)
(*                                                                         *)
(* A section under event_waiters_lock or pollfd_modify_lock is one step.   *)
(* events_lock is recursive.  event_handler_active is written without any  *)
(* other lock than events_lock, and read without that.                     *)
(***************************************************************************)
EXTENDS Naturals, FiniteSets

CONSTANTS
  Callers,      \* the threads that make synchronous requests
  MaxRequests   \* bound on the requests made in a run

Handler == "handler"
Closer == "closer"
Pollers == Callers \cup {Handler}

ASSUME EventsAssumption ==
  /\ Callers \cap {"handler", "closer", "none"} = {}
  /\ MaxRequests \in Nat \ {0}

VARIABLES
  pc,          \* what each thread is doing
  owner,       \* the thread that has events_lock, or "none"
  active,      \* event_handler_active
  modify,      \* pollfd_modify
  bytes,       \* bytes in the control pipe
  request,     \* of each caller: "none", "sent", "answered" or "completed"
  made,        \* requests made so far, for the bound
  killed,      \* kill_handler_thread
  closing,     \* the device is being closed; no more requests are made
  raced        \* history: see CloseReturns

lockVars == <<owner, active, modify, bytes>>
vars == <<pc, lockVars, request, made, killed, closing, raced>>

PollerPcs == {"top", "try", "trylock", "locked", "owner", "poll", "handle", "notify",
              "unlock", "release", "announce", "waiters", "asleep"}

TypeOK ==
  /\ \A t \in Callers : pc[t] \in PollerPcs \cup {"idle"}
  /\ pc[Handler] \in PollerPcs \cup {"ended"}
  /\ pc[Closer] \in {"idle", "kill", "modify", "write", "lock", "locked", "close", "unmodify",
                     "unlock", "release", "announce", "join", "closed"}
  /\ DOMAIN pc = Pollers \cup {Closer}
  /\ owner \in Pollers \cup {Closer, "none"}
  /\ active \in BOOLEAN /\ modify \in 0 .. 1 /\ bytes \in 0 .. 1
  /\ request \in [Callers -> {"none", "sent", "answered", "completed"}]
  /\ made \in 0 .. MaxRequests
  /\ killed \in BOOLEAN /\ closing \in BOOLEAN /\ raced \in BOOLEAN

Init ==
  /\ pc = [t \in Pollers \cup {Closer} |-> IF t = Handler THEN "top" ELSE "idle"]
  /\ owner = "none" /\ active = FALSE /\ modify = 0 /\ bytes = 0
  /\ request = [t \in Callers |-> "none"]
  /\ made = 0 /\ killed = FALSE /\ closing = FALSE /\ raced = FALSE

At(t, here) == pc[t] = here
Go(t, there) == pc' = [pc EXCEPT ![t] = there]

Completed(t) == t \in Callers /\ request[t] = "completed"
Answered == {t \in Callers : request[t] = "answered"}

\* usbi_cond_broadcast(&ctx->event_waiters_cond), by a thread that goes on to p
Broadcast(t, p) ==
  pc' = [u \in DOMAIN pc |-> IF u = t THEN p ELSE IF pc[u] = "asleep" THEN "top" ELSE pc[u]]
-----------------------------------------------------------------------------
(* libusb_control_transfer and the loops around handle_events.             *)

\* UVCCamera's lock and the order of stopPreview and uvc_close keep requests
\* and the closing of the device apart.
Request(t) ==
  /\ At(t, "idle") /\ ~closing /\ Go(t, "top")
  /\ made < MaxRequests /\ made' = made + 1
  /\ request' = [request EXCEPT ![t] = "sent"]
  /\ UNCHANGED <<lockVars, killed, closing, raced>>

\* sync_transfer_wait_for_completion and _uvc_handle_events
LoopTest(t) ==
  /\ At(t, "top")
  /\ IF Completed(t) THEN Go(t, "idle") /\ request' = [request EXCEPT ![t] = "none"]
     ELSE Go(t, IF t = Handler /\ killed THEN "ended" ELSE "try") /\ UNCHANGED request
  /\ UNCHANGED <<lockVars, made, killed, closing, raced>>

\* libusb_try_lock_events
TryLock(t) ==
  /\ \/ At(t, "try") /\ Go(t, IF modify > 0 THEN "waiters" ELSE "trylock")
        /\ UNCHANGED <<owner, active>>
     \/ At(t, "trylock") /\ owner = "none" /\ Go(t, "locked")
        /\ owner' = t /\ UNCHANGED active
     \/ At(t, "trylock") /\ owner # "none" /\ Go(t, "waiters")
        /\ UNCHANGED <<owner, active>>
     \/ At(t, "locked") /\ t # Closer /\ Go(t, "owner")
        /\ active' = TRUE /\ UNCHANGED owner
  /\ UNCHANGED <<modify, bytes, request, made, killed, closing, raced>>

\* The lock has been obtained: has the transfer been completed meanwhile?
OwnerTest(t) ==
  /\ At(t, "owner") /\ Go(t, IF Completed(t) THEN "unlock" ELSE "poll")
  /\ UNCHANGED <<lockVars, request, made, killed, closing, raced>>

\* Mutants: only the control pipe is polled, or only the device.
PollPipe(t) ==
  /\ At(t, "poll") /\ bytes > 0
  /\ Go(t, "handle")
  /\ UNCHANGED <<lockVars, request, made, killed, closing, raced>>

PollDevice(t) ==
  /\ At(t, "poll") /\ Answered # {}
  /\ Go(t, "handle")
  /\ UNCHANGED <<lockVars, request, made, killed, closing, raced>>

\* handle_events: poll returns for the control pipe or for URBs to be reaped, ...
Poll(t) ==
  /\ At(t, "poll") /\ (bytes > 0 \/ Answered # {})
  /\ Go(t, "handle")
  /\ UNCHANGED <<lockVars, request, made, killed, closing, raced>>

\* ... or after up to 60 s without either.
PollExpires(t) ==
  /\ At(t, "poll") /\ bytes = 0 /\ Answered = {} /\ Go(t, "unlock")
  /\ UNCHANGED <<lockVars, request, made, killed, closing, raced>>

\* op_handle_events: the callbacks, each followed by a broadcast, ...
Reap(t, u) ==
  /\ At(t, "handle") /\ u \in Answered /\ Go(t, "notify")
  /\ request' = [request EXCEPT ![u] = "completed"]
  /\ UNCHANGED <<lockVars, made, killed, closing, raced>>

\* ... until there is nothing left to be reaped.
NothingLeft(t) ==
  /\ At(t, "handle") /\ Answered = {} /\ Go(t, "unlock")
  /\ UNCHANGED <<lockVars, request, made, killed, closing, raced>>

Notify(t) ==
  /\ At(t, "notify") /\ Broadcast(t, "handle")
  /\ UNCHANGED <<lockVars, request, made, killed, closing, raced>>

\* Mutant: event_handler_active stays set.
UnlockKeepsActive(t) ==
  /\ \/ At(t, "unlock") /\ Go(t, "release") /\ UNCHANGED <<owner, active>>
     \/ At(t, "release") /\ owner' = "none" /\ Go(t, "announce") /\ UNCHANGED active
     \/ At(t, "announce") /\ Broadcast(t, IF t = Closer THEN "join" ELSE "top")
        /\ UNCHANGED <<owner, active>>
  /\ UNCHANGED <<modify, bytes, request, made, killed, closing, raced>>

\* libusb_unlock_events
Unlock(t) ==
  /\ \/ At(t, "unlock") /\ active' = FALSE /\ Go(t, "release") /\ UNCHANGED owner
     \/ At(t, "release") /\ owner' = "none" /\ Go(t, "announce") /\ UNCHANGED active
     \/ At(t, "announce") /\ Broadcast(t, IF t = Closer THEN "join" ELSE "top")
        /\ UNCHANGED <<owner, active>>
  /\ UNCHANGED <<modify, bytes, request, made, killed, closing, raced>>

\* Mutants: a thread waits without looking for somebody to wait for, or without
\* looking at its own transfer again.
WaitForNobody(t) ==
  /\ At(t, "waiters")
  /\ Go(t, IF Completed(t) THEN "top" ELSE "asleep")
  /\ UNCHANGED <<lockVars, request, made, killed, closing, raced>>

WaitWhenCompleted(t) ==
  /\ At(t, "waiters")
  /\ Go(t, IF modify > 0 \/ active THEN "asleep" ELSE "try")
  /\ UNCHANGED <<lockVars, request, made, killed, closing, raced>>

\* Under event_waiters_lock: libusb_event_handler_active says whether there is
\* somebody to wait for.
WaitForEvent(t) ==
  /\ At(t, "waiters")
  /\ Go(t, IF Completed(t) THEN "top" ELSE IF modify > 0 \/ active THEN "asleep" ELSE "try")
  /\ UNCHANGED <<lockVars, request, made, killed, closing, raced>>

WaitExpires(t) ==
  /\ At(t, "asleep") /\ Go(t, "top")
  /\ UNCHANGED <<lockVars, request, made, killed, closing, raced>>
-----------------------------------------------------------------------------
(* uvc_close and libusb_close.                                             *)

StartClose ==
  /\ At(Closer, "idle") /\ Go(Closer, "kill") /\ \A t \in Callers : At(t, "idle")
  /\ closing' = TRUE
  /\ UNCHANGED <<lockVars, request, made, killed, raced>>

Kill ==
  /\ At(Closer, "kill") /\ Go(Closer, "modify")
  /\ killed' = TRUE
  /\ raced' = (pc[Handler] \in {"try", "trylock", "waiters"})
  /\ UNCHANGED <<lockVars, request, made, closing>>

AnnounceModify ==
  /\ \/ At(Closer, "modify") /\ Go(Closer, "write") /\ modify' = modify + 1 /\ UNCHANGED bytes
     \/ At(Closer, "write") /\ Go(Closer, "lock") /\ bytes' = bytes + 1 /\ UNCHANGED modify
  /\ UNCHANGED <<owner, active, request, made, killed, closing, raced>>

LockEvents ==
  /\ \/ At(Closer, "lock") /\ owner = "none" /\ Go(Closer, "locked")
        /\ owner' = Closer /\ UNCHANGED <<active, bytes>>
     \/ At(Closer, "locked") /\ Go(Closer, "close")
        /\ active' = TRUE /\ bytes' = bytes - 1 /\ UNCHANGED owner
  /\ UNCHANGED <<modify, request, made, killed, closing, raced>>

\* do_close takes events_lock once more; giving it back clears the flag, and
\* wakes those who wait, while the lock is still held.
DoClose ==
  /\ At(Closer, "close") /\ Broadcast(Closer, "unmodify")
  /\ active' = FALSE
  /\ UNCHANGED <<owner, modify, bytes, request, made, killed, closing, raced>>

\* Mutant: the number of modifications is raised again.
EndModifyUp ==
  /\ At(Closer, "unmodify") /\ Go(Closer, "unlock") /\ modify' = modify + 1
  /\ UNCHANGED <<owner, active, bytes, request, made, killed, closing, raced>>

EndModify ==
  /\ At(Closer, "unmodify") /\ Go(Closer, "unlock") /\ modify' = modify - 1
  /\ UNCHANGED <<owner, active, bytes, request, made, killed, closing, raced>>

Join ==
  /\ At(Closer, "join") /\ At(Handler, "ended") /\ Go(Closer, "closed")
  /\ UNCHANGED <<lockVars, request, made, killed, closing, raced>>

CloseStep == Kill \/ AnnounceModify \/ LockEvents \/ DoClose \/ EndModify \/ Unlock(Closer) \/ Join
-----------------------------------------------------------------------------
\* The device answers, or the request's own timeout expires.
Answer(t) ==
  /\ request[t] = "sent" /\ request' = [request EXCEPT ![t] = "answered"]
  /\ UNCHANGED <<pc, lockVars, made, killed, closing, raced>>

Step(t) ==
  \/ LoopTest(t) \/ TryLock(t) \/ OwnerTest(t) \/ Poll(t) \/ NothingLeft(t) \/ Notify(t)
  \/ (\E u \in Callers : Reap(t, u)) \/ Unlock(t) \/ WaitForEvent(t)

Next ==
  \/ \E t \in Pollers : Step(t) \/ PollExpires(t) \/ WaitExpires(t)
  \/ \E t \in Callers : Request(t) \/ Answer(t)
  \/ StartClose \/ CloseStep

(* Fairness: threads go on, and requests are answered.  The 60 seconds     *)
(* after which a thread looks by itself are not counted on.                *)
Spec ==
  /\ Init /\ [][Next]_vars
  /\ \A t \in Pollers : WF_vars(Step(t))
  /\ \A t \in Callers : WF_vars(Answer(t))
  /\ WF_vars(CloseStep)
-----------------------------------------------------------------------------
\* event_handler_active is never left set by a thread that has gone: a waiter
\* that believed it would sleep for nobody.
ActiveIsLocked == active => owner # "none"

\* A thread sleeps only while another will wake it: the one that handles the
\* events, or that closes, or one that is about to announce that it has done.
NoSleepAlone ==
  (\E t \in Pollers : At(t, "asleep")) =>
    \/ owner # "none" \/ modify > 0 \/ \E t \in DOMAIN pc : At(t, "announce")

\* A completed request is never slept on: its callback is followed by a
\* broadcast, and the waiter looks at it under the same lock.
NoSleepWhenCompleted ==
  \A t \in Callers : At(t, "asleep") /\ Completed(t) => \E u \in Pollers : At(u, "notify")

\* "This allows for race free waiting for the completion of a specific
\* transfer": a request returns without anybody's 60 seconds.
SyncReturns == \A t \in Callers : request[t] = "sent" ~> At(t, "idle")

\* uvc_close returns without anybody's 60 seconds, unless the handler thread
\* had tested kill_handler_thread just before it was set.
CloseReturns == At(Closer, "kill") ~> (At(Closer, "closed") \/ raced)
=============================================================================
