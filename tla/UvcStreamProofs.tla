---------------------------- MODULE UvcStreamProofs ----------------------------
(***************************************************************************)
(* Theorems about a stream, for every number of transfers and of frames.   *)
(***************************************************************************)
EXTENDS UvcStream, TLAPS

\* A transfer whose callback runs is its owner's.
EventOwns == \A t \in Bufs : event.t = t => usb[t] = "idle"

\* The transfers that start has yet to submit are untouched.
YetToSubmit ==
  client = "starting" =>
    \A t \in Bufs : t >= next => t \in live /\ usb[t] = "idle" /\ event.t # t

\* Before the stream is started there is nothing of it.
NotStarted ==
  /\ client = "open" => ~refused
  /\ client = "open" \/ (client = "failed" /\ ~refused) => live = {} /\ caller = "none"

\* Only the loss of the device clears running before the client does.
WhoStopped == client \in {"starting", "started"} /\ ~running => gone

\* Nothing is allocated when the client joins the user caller thread.
AllFreed == client = "joining" => live = {}

\* A frame that was copied was a good one, whatever hold_bfh_err says by now.
GoodFrame == ~frame.err

IInv ==
  /\ TypeOK /\ FreedIsIdle /\ EventOwns /\ YetToSubmit
  /\ NotStarted /\ WhoStopped /\ AllFreed /\ GoodFrame /\ CloseIsFinal
--------------------------------------------------------------------------------
\* A stream that has not been opened satisfies the invariant.
LEMMA InitIInv == Init => IInv
<1> SUFFICES ASSUME Init PROVE IInv
  OBVIOUS
<1> USE StreamAssumption DEF Init, Usb!Init, Bufs, Quiet, NewFrame
<1>1. TypeOK
  <2>1. /\ usb \in [Bufs -> {"idle", "flying", "cancelling", "expired"}]
        /\ result \in [Bufs -> Usb!Statuses \cup {"none"}]
    OBVIOUS
  <2>2. /\ live \subseteq Bufs /\ next \in Bufs
        /\ event \in [pc : {"packets", "decide", "submit", "delete"}, t : Bufs] \cup {Quiet}
    OBVIOUS
  <2>3. /\ out \in [seq : 0 .. MaxFrames, got : BOOLEAN, err : BOOLEAN]
        /\ hold \in [seq : 0 .. MaxFrames, err : BOOLEAN]
        /\ lastSeq \in 0 .. MaxFrames
        /\ frame \in [seq : 0 .. MaxFrames, err : BOOLEAN]
    OBVIOUS
  <2>4. QED
    BY ONLY Init, <2>1, <2>2, <2>3 DEF TypeOK, Init
<1>2. FreedIsIdle /\ EventOwns
  BY DEF FreedIsIdle, EventOwns
<1>3. QED
  BY <1>1, <1>2 DEF IInv, YetToSubmit, NotStarted, WhoStopped, AllFreed, GoodFrame, CloseIsFinal

\* The client's steps that change nothing of the transfers and the callbacks,
\* the packets, and the user caller thread keep it directly; a step that hands a
\* transfer over, or takes one back, is looked at by itself.
LEMMA NextIInv == IInv /\ [Next]_vars => IInv'
<1> SUFFICES ASSUME IInv, [Next]_vars
             PROVE  IInv'
  OBVIOUS
<1> USE StreamAssumption
    DEF IInv, TypeOK, FreedIsIdle, EventOwns, YetToSubmit, NotStarted, WhoStopped, AllFreed,
        GoodFrame, CloseIsFinal, Bufs, Quiet, NewFrame, Usb!Statuses, At, Go, Woken,
        usbVars, clientVars, frameVars, callerVars
<1>1. CASE Start
  BY <1>1 DEF Start
<1>2. CASE StartFails
  BY <1>2 DEF StartFails
<1>3. CASE SubmitNext
  BY <1>3 DEF SubmitNext, Usb!Submit
<1>4. CASE SubmitFails
  BY <1>4 DEF SubmitFails
<1>5. CASE Stop
  <2>1. TypeOK'
    BY <1>5 DEF Stop
  <2>2. FreedIsIdle'
    BY <1>5 DEF Stop
  <2>3. EventOwns'
    BY <1>5 DEF Stop
  <2>4. YetToSubmit'
    BY <1>5 DEF Stop
  <2>5. NotStarted'
    BY <1>5 DEF Stop
  <2>6. WhoStopped'
    BY <1>5 DEF Stop
  <2>7. AllFreed'
    BY <1>5 DEF Stop
  <2>8. GoodFrame'
    BY <1>5 DEF Stop
  <2>9. CloseIsFinal'
    BY <1>5 DEF Stop
  <2>10. QED
    BY <2>1, <2>2, <2>3, <2>4, <2>5, <2>6, <2>7, <2>8, <2>9
<1>6. CASE CancelAll
  BY <1>6 DEF CancelAll
<1>7. CASE AllDeleted
  BY <1>7 DEF AllDeleted
<1>8. CASE Close
  BY <1>8 DEF Close, Joined
<1>9. ASSUME NEW t \in Bufs, Callback(t)
      PROVE  IInv'
  <2>1. TypeOK'
    <3>1. /\ usb' \in [Bufs -> {"idle", "flying", "cancelling", "expired"}]
          /\ result' \in [Bufs -> Usb!Statuses \cup {"none"}]
      BY <1>9 DEF Callback, Usb!Complete
    <3>2. event' \in [pc : {"packets", "decide", "submit", "delete"}, t : Bufs] \cup {Quiet}
      BY <1>9 DEF Callback
    <3>3. running' \in BOOLEAN
      BY <1>9 DEF Callback
    <3>4. UNCHANGED <<live, clientVars, frameVars, callerVars, gone, refused>>
      BY <1>9 DEF Callback
    <3>5. QED
      BY <3>1, <3>2, <3>3, <3>4
  <2>2. FreedIsIdle'
    BY <1>9 DEF Callback, Usb!Complete
  <2>3. EventOwns'
    BY <1>9 DEF Callback, Usb!Complete
  <2>4. YetToSubmit'
    BY <1>9 DEF Callback, Usb!Complete
  <2>5. NotStarted'
    BY <1>9 DEF Callback, Usb!Complete
  <2>6. WhoStopped'
    BY <1>9 DEF Callback, Usb!Complete
  <2>7. AllFreed'
    BY <1>9 DEF Callback, Usb!Complete
  <2>8. GoodFrame'
    BY <1>9 DEF Callback, Usb!Complete
  <2>9. CloseIsFinal'
    BY <1>9 DEF Callback, Usb!Complete
  <2>10. QED
    BY <2>1, <2>2, <2>3, <2>4, <2>5, <2>6, <2>7, <2>8, <2>9
<1>10. ASSUME NEW t \in Bufs, TransferExpires(t)
       PROVE  IInv'
  BY <1>10 DEF TransferExpires, Usb!Expire
<1>11. CASE DataPacket
  <2>1. TypeOK'
    BY <1>11 DEF DataPacket
  <2>2. FreedIsIdle'
    BY <1>11 DEF DataPacket
  <2>3. EventOwns'
    BY <1>11 DEF DataPacket
  <2>4. YetToSubmit'
    BY <1>11 DEF DataPacket
  <2>5. NotStarted'
    BY <1>11 DEF DataPacket
  <2>6. WhoStopped'
    BY <1>11 DEF DataPacket
  <2>7. AllFreed'
    BY <1>11 DEF DataPacket
  <2>8. GoodFrame'
    BY <1>11 DEF DataPacket
  <2>9. CloseIsFinal'
    BY <1>11 DEF DataPacket
  <2>10. QED
    BY <2>1, <2>2, <2>3, <2>4, <2>5, <2>6, <2>7, <2>8, <2>9
<1>12. CASE BadPacket
  <2>1. TypeOK'
    BY <1>12 DEF BadPacket
  <2>2. FreedIsIdle'
    BY <1>12 DEF BadPacket
  <2>3. EventOwns'
    BY <1>12 DEF BadPacket
  <2>4. YetToSubmit'
    BY <1>12 DEF BadPacket
  <2>5. NotStarted'
    BY <1>12 DEF BadPacket
  <2>6. WhoStopped'
    BY <1>12 DEF BadPacket
  <2>7. AllFreed'
    BY <1>12 DEF BadPacket
  <2>8. GoodFrame'
    BY <1>12 DEF BadPacket
  <2>9. CloseIsFinal'
    BY <1>12 DEF BadPacket
  <2>10. QED
    BY <2>1, <2>2, <2>3, <2>4, <2>5, <2>6, <2>7, <2>8, <2>9
<1>13. CASE EndFrame
  BY <1>13 DEF EndFrame, Swap
<1>14. CASE NoMorePackets
  BY <1>14 DEF NoMorePackets
<1>15. CASE Decide
  BY <1>15 DEF Decide
<1>16. CASE Resubmit
  BY <1>16 DEF Resubmit, Usb!Submit
<1>17. CASE ResubmitFails
  BY <1>17 DEF ResubmitFails
<1>18. CASE Delete
  <2>1. TypeOK'
    BY <1>18 DEF Delete
  <2>2. FreedIsIdle'
    BY <1>18 DEF Delete
  <2>3. EventOwns'
    BY <1>18 DEF Delete
  <2>4. YetToSubmit'
    BY <1>18 DEF Delete
  <2>5. NotStarted'
    BY <1>18 DEF Delete
  <2>6. WhoStopped'
    BY <1>18 DEF Delete
  <2>7. AllFreed'
    BY <1>18 DEF Delete
  <2>8. GoodFrame'
    BY <1>18 DEF Delete
  <2>9. CloseIsFinal'
    BY <1>18 DEF Delete
  <2>10. QED
    BY <2>1, <2>2, <2>3, <2>4, <2>5, <2>6, <2>7, <2>8, <2>9
<1>19. CASE CallerStep
  BY <1>19 DEF CallerStep, Sleep, End, Populate, CallUser
<1>20. CASE UserReturns
  BY <1>20 DEF UserReturns
<1>21. CASE Unplug
  BY <1>21 DEF Unplug
<1>22. CASE UNCHANGED vars
  BY <1>22 DEF vars
<1>23. QED
  BY <1>1, <1>2, <1>3, <1>4, <1>5, <1>6, <1>7, <1>8, <1>9, <1>10, <1>11, <1>12, <1>13, <1>14,
     <1>15, <1>16, <1>17, <1>18, <1>19, <1>20, <1>21, <1>22 DEF Next, ClientStep, EventStep

\* Type correctness of the stream.
THEOREM TypeCorrect == Spec => []TypeOK
<1>1. IInv => TypeOK
  BY DEF IInv
<1>2. QED
  BY InitIInv, NextIInv, <1>1, PTL DEF Spec

\* No transfer is freed while libusb, or its own callback, still has it.
THEOREM FreedOnlyIdle == Spec => []FreedIsIdle
<1>1. IInv => FreedIsIdle
  BY DEF IInv
<1>2. QED
  BY InitIInv, NextIInv, <1>1, PTL DEF Spec

\* The user's callback gets no broken frame, in spite of the look at hold_bfh_err
\* without the lock.
THEOREM NoBrokenFrame == Spec => []OnlyGoodFrames
<1>1. IInv => OnlyGoodFrames
  BY DEF IInv, GoodFrame, OnlyGoodFrames
<1>2. QED
  BY InitIInv, NextIInv, <1>1, PTL DEF Spec

\* A handle is freed with no thread, no callback and no transfer left, unless the
\* device has gone or libusb has refused a transfer.
THEOREM NothingAfterClose == Spec => []CloseIsFinal
<1>1. IInv => CloseIsFinal
  BY DEF IInv
<1>2. QED
  BY InitIInv, NextIInv, <1>1, PTL DEF Spec
--------------------------------------------------------------------------------
(* The stream implements what UvcPreview relies on.  Each step is one of   *)
(* the contract, or leaves its variables alone.                            *)
\* Each step of the stream is a step of the contract, or none.
LEMMA StepKeepsContract == IInv /\ [Next]_vars => [Contract!Next]_(Contract!vars)
<1> SUFFICES ASSUME IInv, [Next]_vars
             PROVE  [Contract!Next]_(Contract!vars)
  OBVIOUS
<1> USE DEF IInv, TypeOK, NotStarted, WhoStopped, CloseIsFinal, Woken,
        usbVars, clientVars, frameVars, callerVars,
        Contract!Next, Contract!vars, Contract!Start, Contract!Break, Contract!Call,
        Contract!Return, Contract!Stop, Contract!Stopped, Contract!Abandon
<1>1. CASE Start
  BY <1>1 DEF Start
<1>2. CASE StartFails
  BY <1>2 DEF StartFails
<1>3. CASE SubmitNext
  BY <1>3 DEF SubmitNext
<1>4. CASE SubmitFails
  BY <1>4 DEF SubmitFails
<1>5. CASE Stop
  BY <1>5 DEF Stop
<1>6. CASE CancelAll
  BY <1>6 DEF CancelAll
<1>7. CASE AllDeleted
  BY <1>7 DEF AllDeleted
<1>8. CASE Close
  BY <1>8 DEF Close, Joined
<1>9. ASSUME NEW t \in Bufs, Callback(t)
      PROVE  [Contract!Next]_(Contract!vars)
  BY <1>9 DEF Callback
<1>10. ASSUME NEW t \in Bufs, TransferExpires(t)
      PROVE  [Contract!Next]_(Contract!vars)
  BY <1>10 DEF TransferExpires
<1>11. CASE DataPacket
  BY <1>11 DEF DataPacket
<1>12. CASE BadPacket
  BY <1>12 DEF BadPacket
<1>13. CASE EndFrame
  BY <1>13 DEF EndFrame, Swap
<1>14. CASE NoMorePackets
  BY <1>14 DEF NoMorePackets
<1>15. CASE Decide
  BY <1>15 DEF Decide
<1>16. CASE Resubmit
  BY <1>16 DEF Resubmit
<1>17. CASE ResubmitFails
  <2>1. client \notin {"open", "freed"} /\ ~(client = "failed" /\ ~refused)
    BY <1>17 DEF ResubmitFails, At, FreedIsIdle, Quiet
  <2>2. QED
    BY <1>17, <2>1 DEF ResubmitFails
<1>18. CASE Delete
  BY <1>18 DEF Delete
<1>19. CASE CallerStep
  BY <1>19 DEF CallerStep, Sleep, End, Populate, CallUser
<1>20. CASE UserReturns
  BY <1>20 DEF UserReturns
<1>21. CASE Unplug
  BY <1>21 DEF Unplug
<1>22. CASE UNCHANGED vars
  BY <1>22 DEF vars
<1>23. QED
  BY <1>1, <1>2, <1>3, <1>4, <1>5, <1>6, <1>7, <1>8, <1>9, <1>10, <1>11, <1>12, <1>13, <1>14,
     <1>15, <1>16, <1>17, <1>18, <1>19, <1>20, <1>21, <1>22
  DEF Next, ClientStep, EventStep

\* The safety part of KeepsContract: the user's callback runs only while the
\* stream is not idle, and stopping waits for it, unless the stream is broken.
THEOREM ContractSteps == Spec => Contract!Init /\ [][Contract!Next]_(Contract!vars)
<1>1. Init => Contract!Init
  BY DEF Init, Contract!Init
<1>2. QED
  BY InitIInv, NextIInv, StepKeepsContract, <1>1, PTL DEF Spec
================================================================================
