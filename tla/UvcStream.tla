------------------------------ MODULE UvcStream ------------------------------
(***************************************************************************)
(* One stream of libuvc (libuvc/src/stream.c), from its opening to its     *)
(* closing, on top of libusb's transfers as UsbTransfer specifies them.    *)
(* Three threads work on it: the client that starts and stops the stream,  *)
(* the event thread that runs the transfers' callbacks, and the thread     *)
(* that hands the frames to the user's callback.  They share cb_mutex and  *)
(* cb_cond; but running, and hold_bfh_err once, are used outside them.     *)
(*                                                                         *)
(* A section under cb_mutex is one step.  The packets of a transfer are    *)
(* told apart by what they do to the frame that is being received: bring   *)
(* data, break it, or end it (the EOF bit, or a flip of the frame id).  A *)
(* packet whose header tells of an error is left out without a trace.      *)
(*                                                                         *)
(* When the handle has been freed, nothing more is said of what uses it.   *)
(***************************************************************************)
EXTENDS Naturals

CONSTANTS
  NumTransfers,   \* LIBUVC_NUM_TRANSFER_BUFS
  MaxFrames       \* bound: frames received

ASSUME StreamAssumption == NumTransfers \in Nat \ {0} /\ MaxFrames \in Nat

Bufs == 1 .. NumTransfers

VARIABLES
  usb, result,   \* the transfers, as UsbTransfer has them
  live,          \* the transfers that are allocated: transfers[i] # NULL
  running,       \* strmh->running
  client,        \* what the client is doing
  next,          \* the transfer that start submits next
  event,         \* what the event thread is doing, with which transfer
  out,           \* outbuf, got_bytes, seq, and bfh_err
  hold,          \* holdbuf, hold_seq and hold_bfh_err
  caller,        \* what the user caller thread is doing
  lastSeq,       \* its last_seq
  frame,         \* strmh->frame, with the hold_bfh_err it was copied with
  gone,          \* the device has been unplugged
  refused        \* libusb refused a transfer

usbVars == <<usb, result>>
clientVars == <<client, next>>
frameVars == <<out, hold>>
callerVars == <<caller, lastSeq, frame>>
vars == <<usbVars, live, running, clientVars, event, frameVars, callerVars, gone, refused>>

Usb == INSTANCE UsbTransfer WITH Transfers <- Bufs, state <- usb, outcome <- result

Quiet == [pc |-> "none", t |-> 0]

TypeOK ==
  /\ usb \in [Bufs -> {"idle", "flying", "cancelling", "expired"}]
  /\ result \in [Bufs -> Usb!Statuses \cup {"none"}]
  /\ live \subseteq Bufs /\ next \in Bufs
  /\ running \in BOOLEAN
  /\ client \in {"open", "starting", "started", "failed", "stopping", "waiting", "joining", "freed"}
  /\ event \in [pc : {"packets", "decide", "submit", "delete"}, t : Bufs] \cup {Quiet}
  /\ out \in [seq : 0 .. MaxFrames, got : BOOLEAN, err : BOOLEAN]
  /\ hold \in [seq : 0 .. MaxFrames, err : BOOLEAN]
  /\ caller \in {"none", "awake", "asleep", "chosen", "calling", "ended"}
  /\ lastSeq \in 0 .. MaxFrames
  /\ frame \in [seq : 0 .. MaxFrames, err : BOOLEAN]
  /\ gone \in BOOLEAN /\ refused \in BOOLEAN

NewFrame(n) == [seq |-> n, got |-> FALSE, err |-> FALSE]

Init ==
  /\ Usb!Init
  /\ live = {} /\ running = FALSE /\ client = "open" /\ next = 1 /\ event = Quiet
  /\ out = NewFrame(0) /\ hold = [seq |-> 0, err |-> FALSE]
  /\ caller = "none" /\ lastSeq = 0 /\ frame = [seq |-> 0, err |-> FALSE]
  /\ gone = FALSE /\ refused = FALSE

\* pthread_cond_broadcast(&strmh->cb_cond), of which the client needs nothing:
\* it waits in a loop for a condition that changes only before a broadcast.
Woken == IF caller = "asleep" THEN "awake" ELSE caller
-----------------------------------------------------------------------------
(* The client: uvc_stream_start_bandwidth and uvc_stream_close.            *)

\* Everything up to the loop that submits the transfers.
Start ==
  /\ client = "open" /\ client' = "starting"
  /\ running' = TRUE
  /\ live' = Bufs
  /\ out' = NewFrame(0)
  /\ caller' = "awake" /\ lastSeq' = 0
  /\ UNCHANGED <<usbVars, next, event, hold, frame, gone, refused>>

\* No descriptor, format, alternate setting or endpoint that fits.
StartFails ==
  /\ client = "open" /\ client' = "failed"
  /\ UNCHANGED <<usbVars, live, running, next, event, frameVars, callerVars, gone, refused>>

\* Mutant: the loop over the transfers goes one too far.
SubmitNextTooFar ==
  /\ client = "starting" /\ ~gone
  /\ Usb!Submit(next)
  /\ IF next > NumTransfers THEN client' = "started" /\ UNCHANGED next
                            ELSE next' = next + 1 /\ UNCHANGED client
  /\ UNCHANGED <<live, running, event, frameVars, callerVars, gone, refused>>

SubmitNext ==
  /\ client = "starting" /\ ~gone
  /\ Usb!Submit(next)
  /\ IF next = NumTransfers THEN client' = "started" /\ UNCHANGED next
                            ELSE next' = next + 1 /\ UNCHANGED client
  /\ UNCHANGED <<live, running, event, frameVars, callerVars, gone, refused>>

SubmitFails ==
  /\ client = "starting" /\ client' = "failed"
  /\ running' = FALSE /\ refused' = TRUE
  /\ UNCHANGED <<usbVars, live, next, event, frameVars, callerVars, gone>>

\* uvc_stream_close stops the stream only if it finds it running.
Stop ==
  /\ client = "started" /\ running
  /\ client' = "stopping" /\ running' = FALSE
  /\ UNCHANGED <<usbVars, live, next, event, frameVars, callerVars, gone, refused>>

\* Mutant: the transfers are freed as soon as they have been cancelled, which
\* the comment in uvc_stream_stop warns of.
CancelAllAndFree ==
  /\ client = "stopping" /\ client' = "waiting"
  /\ usb' = [t \in Bufs |-> IF t \in live /\ usb[t] = "flying" THEN "cancelling" ELSE usb[t]]
  /\ live' = {}
  /\ UNCHANGED <<result, running, next, event, frameVars, callerVars, gone, refused>>

CancelAll ==
  /\ client = "stopping" /\ client' = "waiting"
  /\ usb' = [t \in Bufs |-> IF t \in live /\ usb[t] = "flying" THEN "cancelling" ELSE usb[t]]
  /\ UNCHANGED <<result, live, running, next, event, frameVars, callerVars, gone, refused>>

\* Mutant: nobody waits for the callbacks of the cancelled transfers.
AllDeletedSoon ==
  /\ client = "waiting" /\ client' = "joining"
  /\ caller' = Woken
  /\ UNCHANGED <<usbVars, live, running, next, event, frameVars, lastSeq, frame, gone, refused>>

AllDeleted ==
  /\ client = "waiting" /\ live = {} /\ client' = "joining"
  /\ caller' = Woken
  /\ UNCHANGED <<usbVars, live, running, next, event, frameVars, lastSeq, frame, gone, refused>>

\* Mutant: the user caller thread is not joined.
JoinedNot == client = "joining"

Joined == client = "joining" /\ caller \in {"none", "ended"}

Close ==
  /\ \/ client = "started" /\ ~running
     \/ client = "failed"
     \/ Joined
  /\ client' = "freed"
  /\ UNCHANGED <<usbVars, live, running, next, event, frameVars, callerVars, gone, refused>>
-----------------------------------------------------------------------------
(* The event thread: _uvc_stream_callback.                                 *)

Callback(t) ==
  /\ event = Quiet /\ client # "freed"
  /\ Usb!Complete(t)
  /\ result'[t] = "noDevice" => gone
  /\ running' = IF result'[t] = "noDevice" THEN FALSE ELSE running
  /\ event' = [pc |-> CASE result'[t] = "completed" -> "packets"
                        [] result'[t] \in {"noDevice", "cancelled", "error"} -> "delete"
                        [] OTHER -> "decide",
               t |-> t]
  /\ UNCHANGED <<live, clientVars, frameVars, callerVars, gone, refused>>

At(pc) == event.pc = pc /\ client # "freed"
Go(pc) == event' = [event EXCEPT !.pc = pc]

DataPacket ==
  /\ At("packets") /\ out' = [out EXCEPT !.got = TRUE]
  /\ UNCHANGED <<usbVars, live, running, clientVars, event, hold, callerVars, gone, refused>>

BadPacket ==
  /\ At("packets") /\ out' = [out EXCEPT !.err = TRUE]
  /\ UNCHANGED <<usbVars, live, running, clientVars, event, hold, callerVars, gone, refused>>

\* _uvc_swap_buffers.  What it does after the unlock concerns nobody else.
Swap ==
  /\ hold' = [seq |-> out.seq, err |-> out.err]
  /\ out' = NewFrame(out.seq + 1)
  /\ caller' = Woken

EndFrame ==
  /\ At("packets") /\ out.got /\ out.seq < MaxFrames
  /\ Swap
  /\ UNCHANGED <<usbVars, live, running, clientVars, event, lastSeq, frame, gone, refused>>

NoMorePackets ==
  /\ At("packets") /\ Go("decide")
  /\ UNCHANGED <<usbVars, live, running, clientVars, frameVars, callerVars, gone, refused>>

Decide ==
  /\ At("decide") /\ Go(IF running THEN "submit" ELSE "delete")
  /\ UNCHANGED <<usbVars, live, running, clientVars, frameVars, callerVars, gone, refused>>

Resubmit ==
  /\ At("submit") /\ ~gone /\ Usb!Submit(event.t)
  /\ event' = Quiet
  /\ UNCHANGED <<live, running, clientVars, frameVars, callerVars, gone, refused>>

\* The result of libusb_submit_transfer is not looked at.
ResubmitFails ==
  /\ At("submit") /\ event' = Quiet /\ refused' = TRUE
  /\ UNCHANGED <<usbVars, live, running, clientVars, frameVars, callerVars, gone>>

\* _uvc_delete_transfer
Delete ==
  /\ At("delete") /\ event' = Quiet
  /\ live' = live \ {event.t}
  /\ result' = [result EXCEPT ![event.t] = "none"]
  /\ caller' = Woken
  /\ UNCHANGED <<usb, running, clientVars, frameVars, lastSeq, frame, gone, refused>>

EventStep == NoMorePackets \/ Decide \/ Resubmit \/ ResubmitFails \/ Delete
-----------------------------------------------------------------------------
(* The user caller thread: _uvc_user_caller.                               *)

Sleep ==
  /\ caller = "awake" /\ running /\ lastSeq = hold.seq
  /\ caller' = "asleep" /\ UNCHANGED <<lastSeq, frame>>

End ==
  /\ caller = "awake" /\ ~running
  /\ caller' = "ended" /\ UNCHANGED <<lastSeq, frame>>

\* Mutant: a broken frame is copied like any other.
PopulateAlways ==
  /\ caller = "awake" /\ running /\ lastSeq # hold.seq
  /\ caller' = "chosen" /\ lastSeq' = hold.seq
  /\ frame' = hold

\* A broken frame is not copied, ...
Populate ==
  /\ caller = "awake" /\ running /\ lastSeq # hold.seq
  /\ caller' = "chosen" /\ lastSeq' = hold.seq
  /\ frame' = IF hold.err THEN frame ELSE hold

\* ... and not handed over; but hold_bfh_err is read again, after the unlock.
CallUser ==
  /\ caller = "chosen"
  /\ caller' = IF hold.err THEN "awake" ELSE "calling"
  /\ UNCHANGED <<lastSeq, frame>>

CallerStep ==
  /\ client # "freed" /\ (Sleep \/ End \/ Populate \/ CallUser)
  /\ UNCHANGED <<usbVars, live, running, clientVars, event, frameVars, gone, refused>>

UserReturns ==
  /\ caller = "calling" /\ caller' = "awake"
  /\ UNCHANGED <<usbVars, live, running, clientVars, event, frameVars, lastSeq, frame, gone, refused>>
-----------------------------------------------------------------------------
(* The environment.                                                        *)

\* A transfer that takes more than its 5 seconds is cancelled by libusb.
TransferExpires(t) ==
  /\ Usb!Expire(t)
  /\ UNCHANGED <<live, running, clientVars, event, frameVars, callerVars, gone, refused>>

Unplug ==
  /\ ~gone /\ gone' = TRUE
  /\ UNCHANGED <<usbVars, live, running, clientVars, event, frameVars, callerVars, refused>>

ClientStep == Start \/ StartFails \/ SubmitNext \/ SubmitFails \/ CancelAll \/ AllDeleted \/ Close

Next ==
  \/ ClientStep \/ Stop
  \/ \E t \in Bufs : Callback(t) \/ TransferExpires(t)
  \/ DataPacket \/ BadPacket \/ EndFrame \/ EventStep
  \/ CallerStep \/ UserReturns \/ Unplug

(* Fairness: the threads go on, the user's callback returns, and libusb    *)
(* keeps its contract (UrbTransfer).  Nobody has to start or stop a stream *)
(* or to send a packet.                                                    *)
Spec ==
  /\ Init /\ [][Next]_vars
  /\ WF_vars(SubmitNext \/ SubmitFails) /\ WF_vars(CancelAll) /\ WF_vars(AllDeleted) /\ WF_vars(Close)
  /\ \A t \in Bufs : WF_vars(Callback(t))
  /\ WF_vars(EventStep) /\ WF_vars(CallerStep) /\ WF_vars(UserReturns)
-----------------------------------------------------------------------------
\* A transfer is freed only when libusb has given it back and its callback has
\* no more use for it (the comment in uvc_stream_stop tells of the crash).
FreedIsIdle ==
  \A t \in Bufs \ live : usb[t] = "idle" /\ event.t # t

\* No frame that bfh_err tells of is handed to the user, although the user caller
\* looks at hold_bfh_err a second time, without the lock, when the next frame may
\* have taken its place: it may then call with an earlier frame again, but not
\* with a broken one.
OnlyGoodFrames == caller = "calling" => ~frame.err

\* Once the client has gone through uvc_stream_stop, nothing of the stream is
\* in use any more when the handle is freed.
CloseIsFinal ==
  client = "freed" /\ ~gone /\ ~refused =>
    /\ caller \in {"none", "ended"} /\ event = Quiet
    /\ \A t \in Bufs : usb[t] = "idle" /\ t \notin live

Contract == INSTANCE StreamContract WITH
  state <- CASE client \in {"starting", "started"} \/ (client = "failed" /\ refused) -> "streaming"
             [] client \in {"stopping", "waiting", "joining"} -> "stopping"
             [] OTHER -> "idle",
  calling <- caller = "calling",
  broken <- gone \/ refused

\* The stream keeps what UvcPreview relies on: stopping it comes to an end, and
\* the user's callback is not called any more.
KeepsContract == Contract!Spec

\* "Closes all streams, ends threads and cancels pollers" (uvc_stop_streaming).
EndsThreads == client = "freed" /\ ~refused => caller \in {"none", "ended"}
=============================================================================
