---------------------------- MODULE UsbEventsProofs ----------------------------
(***************************************************************************)
(* Theorems about the handling of events, for every set of threads that    *)
(* make requests and every number of requests.                             *)
(***************************************************************************)
EXTENDS UsbEvents, TLAPS

\* Where a thread is while it has events_lock.
Inside == {"locked", "owner", "poll", "handle", "notify", "close", "unmodify", "unlock",
           "release"}

\* The threads, and the places of all of them.
Threads == Pollers \cup {Closer}

Places == PollerPcs \cup {"idle", "ended", "kill", "modify", "write", "lock", "close",
                          "unmodify", "join", "closed"}

\* events_lock belongs to the one thread that is inside.
OwnerInside == \A t \in Threads : owner = t <=> pc[t] \in Inside

\* event_handler_active is cleared before the lock is given back.
ActiveInside == active => owner # "none" /\ pc[owner] # "release"

\* pollfd_modify and the control pipe are Closer's, who puts back what it has
\* put in.
Modifying ==
  /\ modify = IF pc[Closer] \in {"write", "lock", "locked", "close", "unmodify"} THEN 1 ELSE 0
  /\ bytes = IF pc[Closer] \in {"lock", "locked"} THEN 1 ELSE 0

IInv ==
  /\ TypeOK /\ pc \in [Threads -> Places]
  /\ OwnerInside /\ ActiveInside /\ Modifying
  /\ NoSleepAlone /\ NoSleepWhenCompleted
--------------------------------------------------------------------------------
\* At the start nobody has the lock and nobody sleeps.
LEMMA InitIInv == Init => IInv
<1> SUFFICES ASSUME Init PROVE IInv
  OBVIOUS
<1> USE EventsAssumption DEF Init, Threads, Pollers, Handler, Closer, PollerPcs
<1>1. TypeOK
  <2>1. /\ \A t \in Callers : pc[t] = "idle"
        /\ pc[Handler] = "top" /\ pc[Closer] = "idle"
        /\ DOMAIN pc = Pollers \cup {Closer}
    OBVIOUS
  <2>2. /\ request \in [Callers -> {"none", "sent", "answered", "completed"}]
        /\ made \in 0 .. MaxRequests
    OBVIOUS
  <2>3. modify \in 0 .. 1 /\ bytes \in 0 .. 1
    OBVIOUS
  <2>4. QED
    BY ONLY Init, <2>1, <2>2, <2>3 DEF TypeOK, Init, PollerPcs
<1>2. pc \in [Threads -> Places]
  BY DEF Places
<1>3. OwnerInside /\ ActiveInside /\ Modifying
  <2>1. \A t \in Threads : pc[t] \notin Inside /\ t # "none"
    BY DEF Inside
  <2>2. OwnerInside
    BY <2>1 DEF OwnerInside
  <2>3. QED
    BY <2>2 DEF ActiveInside, Modifying
<1>4. NoSleepAlone /\ NoSleepWhenCompleted
  BY DEF NoSleepAlone, NoSleepWhenCompleted, At
<1>5. QED
  BY <1>1, <1>2, <1>3, <1>4 DEF IInv

\* A step changes the place of the thread that makes it only, or wakes those
\* who sleep as well; the four conjuncts that speak of the lock are kept by it.
LEMMA NextIInv == IInv /\ [Next]_vars => IInv'
<1> SUFFICES ASSUME IInv, [Next]_vars
             PROVE  IInv'
  OBVIOUS
<1> USE EventsAssumption
    DEF IInv, TypeOK, OwnerInside, ActiveInside, Modifying, NoSleepAlone,
        NoSleepWhenCompleted, Threads, Pollers, Handler, Closer, PollerPcs, Places, Inside,
        At, Go, Broadcast, Completed, Answered, lockVars
<1>1. ASSUME NEW t \in Pollers, LoopTest(t)
      PROVE  IInv'
  BY <1>1 DEF LoopTest
<1>2. ASSUME NEW t \in Pollers, TryLock(t)
      PROVE  IInv'
  <2>1. CASE At(t, "try")
    BY <1>2, <2>1 DEF TryLock
  <2>2. CASE At(t, "trylock") /\ owner = "none"
    <3>1. TypeOK' /\ pc' \in [Threads -> Places]
      BY <1>2, <2>2 DEF TryLock
    <3>2. OwnerInside' /\ ActiveInside' /\ Modifying'
      BY <1>2, <2>2 DEF TryLock
    <3>3. NoSleepAlone' /\ NoSleepWhenCompleted'
      BY <1>2, <2>2 DEF TryLock
    <3>4. QED
      BY <3>1, <3>2, <3>3
  <2>3. CASE At(t, "trylock") /\ owner # "none"
    BY <1>2, <2>3 DEF TryLock
  <2>4. CASE At(t, "locked")
    BY <1>2, <2>4 DEF TryLock
  <2>5. QED
    BY <1>2, <2>1, <2>2, <2>3, <2>4 DEF TryLock
<1>3. ASSUME NEW t \in Pollers, OwnerTest(t)
      PROVE  IInv'
  BY <1>3 DEF OwnerTest
<1>4. ASSUME NEW t \in Pollers, Poll(t)
      PROVE  IInv'
  BY <1>4 DEF Poll
<1>5. ASSUME NEW t \in Pollers, PollExpires(t)
      PROVE  IInv'
  BY <1>5 DEF PollExpires
<1>6. ASSUME NEW t \in Pollers, NEW u \in Callers, Reap(t, u)
      PROVE  IInv'
  BY <1>6 DEF Reap
<1>7. ASSUME NEW t \in Pollers, NothingLeft(t)
      PROVE  IInv'
  BY <1>7 DEF NothingLeft
<1>8. ASSUME NEW t \in Pollers, Notify(t)
      PROVE  IInv'
  BY <1>8 DEF Notify
<1>9. ASSUME NEW t \in Threads, Unlock(t)
      PROVE  IInv'
  <2>1. CASE At(t, "unlock")
    <3>0. /\ pc' = [pc EXCEPT ![t] = "release"] /\ active' = FALSE
          /\ UNCHANGED <<owner, modify, bytes, request, made, killed, closing, raced>>
      BY <1>9, <2>1 DEF Unlock
    <3>1. TypeOK' /\ pc' \in [Threads -> Places]
      BY <3>0, <2>1
    <3>2. OwnerInside' /\ ActiveInside' /\ Modifying'
      BY <3>0, <2>1
    <3>3. NoSleepAlone' /\ NoSleepWhenCompleted'
      BY <3>0, <2>1
    <3>4. QED
      BY <3>1, <3>2, <3>3
  <2>2. CASE At(t, "release")
    <3>0. /\ pc' = [pc EXCEPT ![t] = "announce"] /\ owner' = "none"
          /\ UNCHANGED <<active, modify, bytes, request, made, killed, closing, raced>>
      BY <1>9, <2>2 DEF Unlock
    <3>1. TypeOK' /\ pc' \in [Threads -> Places]
      BY <3>0
    <3>2. OwnerInside' /\ ActiveInside' /\ Modifying'
      BY <1>9, <2>2 DEF Unlock
    <3>3. NoSleepAlone' /\ NoSleepWhenCompleted'
      BY <1>9, <2>2 DEF Unlock
    <3>4. QED
      BY <3>1, <3>2, <3>3
  <2>3. CASE At(t, "announce")
    BY <1>9, <2>3 DEF Unlock
  <2>4. QED
    BY <1>9, <2>1, <2>2, <2>3 DEF Unlock
<1>10. ASSUME NEW t \in Pollers, WaitForEvent(t)
       PROVE  IInv'
  BY <1>10 DEF WaitForEvent
<1>11. ASSUME NEW t \in Pollers, WaitExpires(t)
       PROVE  IInv'
  BY <1>11 DEF WaitExpires
<1>12. ASSUME NEW t \in Callers, Request(t)
       PROVE  IInv'
  BY <1>12 DEF Request
<1>13. ASSUME NEW t \in Callers, Answer(t)
       PROVE  IInv'
  BY <1>13 DEF Answer
<1>14. CASE StartClose
  BY <1>14 DEF StartClose
<1>15. CASE Kill
  BY <1>15 DEF Kill
<1>16. CASE AnnounceModify
  BY <1>16 DEF AnnounceModify
<1>17. CASE LockEvents
  <2>1. CASE At(Closer, "lock")
    <3>1. TypeOK' /\ pc' \in [Threads -> Places]
      BY <1>17, <2>1 DEF LockEvents
    <3>2. OwnerInside' /\ ActiveInside' /\ Modifying'
      BY <1>17, <2>1 DEF LockEvents
    <3>3. NoSleepAlone' /\ NoSleepWhenCompleted'
      BY <1>17, <2>1 DEF LockEvents
    <3>4. QED
      BY <3>1, <3>2, <3>3
  <2>2. CASE At(Closer, "locked")
    BY <1>17, <2>2 DEF LockEvents
  <2>3. QED
    BY <1>17, <2>1, <2>2 DEF LockEvents
<1>18. CASE DoClose
  BY <1>18 DEF DoClose
<1>19. CASE EndModify
  BY <1>19 DEF EndModify
<1>20. CASE Join
  BY <1>20 DEF Join
<1>21. CASE UNCHANGED vars
  BY <1>21 DEF vars
<1>22. QED
  BY <1>1, <1>2, <1>3, <1>4, <1>5, <1>6, <1>7, <1>8, <1>9, <1>10, <1>11, <1>12, <1>13, <1>14,
     <1>15, <1>16, <1>17, <1>18, <1>19, <1>20, <1>21 DEF Next, Step, CloseStep

\* Type correctness of the threads, the lock and the requests.
THEOREM TypeCorrect == Spec => []TypeOK
<1>1. IInv => TypeOK
  BY DEF IInv
<1>2. QED
  BY InitIInv, NextIInv, <1>1, PTL DEF Spec

\* event_handler_active is set only while a thread has events_lock: clearing it
\* comes before giving back the lock, and no two threads are inside.
THEOREM ActiveLocked == Spec => []ActiveIsLocked
<1>1. IInv => ActiveIsLocked
  BY DEF IInv, ActiveInside, ActiveIsLocked
<1>2. QED
  BY InitIInv, NextIInv, <1>1, PTL DEF Spec

\* libusb_lock_events excludes: two threads are never both between taking the
\* lock and giving it back.
THEOREM OneHandler ==
  Spec => [](\A t, u \in Threads : pc[t] \in Inside /\ pc[u] \in Inside => t = u)
<1>1. IInv => \A t, u \in Threads : pc[t] \in Inside /\ pc[u] \in Inside => t = u
  BY DEF IInv, OwnerInside
<1>2. QED
  BY InitIInv, NextIInv, <1>1, PTL DEF Spec

\* No thread goes to sleep, and none is left asleep, without another that will
\* wake it.
THEOREM NobodySleepsAlone == Spec => []NoSleepAlone
<1>1. IInv => NoSleepAlone
  BY DEF IInv
<1>2. QED
  BY InitIInv, NextIInv, <1>1, PTL DEF Spec

\* A waiter whose transfer has been completed is awake or about to be woken.
THEOREM CompletionsWake == Spec => []NoSleepWhenCompleted
<1>1. IInv => NoSleepWhenCompleted
  BY DEF IInv
<1>2. QED
  BY InitIInv, NextIInv, <1>1, PTL DEF Spec
================================================================================
