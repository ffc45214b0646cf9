--------------------------- MODULE UploadQueueProofs ---------------------------
(***************************************************************************)
(* Theorems about the upload queues, for every kind of queue, every finite *)
(* set of threads and every capacity and limit.                            *)
(***************************************************************************)
EXTENDS UploadQueue, FiniteSetTheorems, SequenceTheorems, TLAPS

\* A thread that is sending, or about to remove, holds an item.
HeadHeld ==
  \A t \in Threads :
    \/ pc[t] \in {"call", "remove"}
    \/ PeeksBeforeClaim /\ pc[t] = "claim"
    => head[t] \in Items

\* The steps from a test to the last look at the counter belong to a
\* thread that processes the queue.
JobMatches ==
  \A t \in Threads :
    pc[t] \in {"ask", "fetch", "gate", "account", "look", "size", "first", "second",
              "prune", "test", "ready", "claim", "peek", "call", "remove", "release", "check"}
    => job[t] = "process"

IInv == TypeOK /\ HeadHeld /\ JobMatches
-------------------------------------------------------------------------------
LEMMA TailType ==
  ASSUME NEW q \in Seq(Items), q # <<>>
  PROVE  /\ Tail(q) \in Seq(Items)
         /\ q[1] \in Items
  BY HeadTailProperties

LEMMA ShortType ==
  ASSUME NEW s \in Seq(Items), NEW n \in 0 .. Len(s)
  PROVE  SubSeq(s, 1, n) \in Seq(Items)
<1>1. \A k \in 1 .. n : s[k] \in Items
  BY ElementOfSeq
<1>2. QED
  BY <1>1, SubSeqProperties

LEMMA RangeType ==
  ASSUME NEW q \in Seq(Items)
  PROVE  ToSet(q) \subseteq Items
  BY DEF ToSet

\* The initial state has the types and no thread in the middle of a job.
LEMMA InitIInv == Init => IInv
<1> SUFFICES ASSUME Init PROVE IInv
  OBVIOUS
<1>1. TypeOK
  <2>1. /\ queue \in Seq(Items) /\ prefs \in Seq(Items) /\ disk \in Seq(Items)
        /\ accepted \in Seq(Items)
    BY DEF Init
  <2>2. pc \in [Threads -> Labels]
    BY DEF Init, Labels
  <2>3. snap \in [Threads -> Seq(Items)]
    BY DEF Init
  <2>4. job \in [Threads -> {"add", "process", "prune", "command"}]
    BY DEF Init
  <2>5. /\ nextItem \in 1 .. MaxItems + 1
        /\ restarts \in 0 .. MaxRestarts
        /\ commands \in 0 .. MaxCommands
    BY ConstantsAssumption DEF Init
  <2>6. QED
    BY <2>1, <2>2, <2>3, <2>4, <2>5 DEF Init, TypeOK
<1>2. HeadHeld
  BY DEF Init, HeadHeld
<1>3. JobMatches
  BY DEF Init, JobMatches
<1>4. QED
  BY <1>1, <1>2, <1>3 DEF IInv

\* Every step keeps the types, the item a sending thread holds and its job.
LEMMA NextIInv == IInv /\ [Next]_vars => IInv'
<1> SUFFICES ASSUME IInv, [Next]_vars
             PROVE  IInv'
  OBVIOUS
<1> USE ConstantsAssumption
    DEF IInv, TypeOK, HeadHeld, JobMatches, Labels, Goto, Begin, Command, Discard, Fail,
        listVars, gateVars, flagVars, threadVars, historyVars, boundVars
<1>1. ASSUME NEW t \in Threads, Trim(t)
      PROVE  IInv'
  BY <1>1 DEF Trim
<1>2. ASSUME NEW t \in Threads, Evict(t)
      PROVE  IInv'
  BY TailType, <1>2 DEF Evict
<1>3. ASSUME NEW t \in Threads, SaveList(t)
      PROVE  IInv'
  BY <1>3 DEF SaveList
<1>4. ASSUME NEW t \in Threads, EndsShort(t)
      PROVE  IInv'
  BY ShortType, <1>4 DEF EndsShort
<1>5. ASSUME NEW t \in Threads, SaveFails(t)
      PROVE  IInv'
  BY <1>5 DEF SaveFails, Saved
<1>6. ASSUME NEW t \in Threads, ApplyList(t)
      PROVE  IInv'
  BY <1>6 DEF ApplyList, Saved
<1>7. ASSUME NEW t \in Threads, Enter(t)
      PROVE  IInv'
  BY <1>7 DEF Enter
<1>8. ASSUME NEW t \in Threads, Ask(t)
      PROVE  IInv'
  BY <1>8 DEF Ask
<1>9. ASSUME NEW t \in Threads, Fetch(t)
      PROVE  IInv'
  <2>1. TypeOK'
    BY <1>9 DEF Fetch
  <2>2. HeadHeld'
    BY <1>9 DEF Fetch
  <2>3. JobMatches'
    BY <1>9 DEF Fetch
  <2>4. QED
    BY <2>1, <2>2, <2>3
<1>10. ASSUME NEW t \in Threads, Gate(t)
      PROVE  IInv'
  BY <1>10 DEF Gate
<1>11. ASSUME NEW t \in Threads, Account(t)
      PROVE  IInv'
  BY <1>11 DEF Account
<1>12. ASSUME NEW t \in Threads, Look(t)
      PROVE  IInv'
  BY <1>12 DEF Look
<1>13. ASSUME NEW t \in Threads, Size(t)
      PROVE  IInv'
  BY <1>13 DEF Size
<1>14. ASSUME NEW t \in Threads, LookAtHead(t)
      PROVE  IInv'
  BY <1>14 DEF LookAtHead
<1>15. ASSUME NEW t \in Threads, Prune(t)
      PROVE  IInv'
  BY TailType, <1>15 DEF Prune
<1>16. ASSUME NEW t \in Threads, Test(t)
      PROVE  IInv'
  BY <1>16 DEF Test
<1>17. ASSUME NEW t \in Threads, Ready(t)
      PROVE  IInv'
  BY <1>17 DEF Ready
<1>18. ASSUME NEW t \in Threads, PeekFirst(t)
      PROVE  IInv'
  BY TailType, <1>18 DEF PeekFirst
<1>19. ASSUME NEW t \in Threads, Claim(t)
      PROVE  IInv'
  BY <1>19 DEF Claim
<1>20. ASSUME NEW t \in Threads, Peek(t)
      PROVE  IInv'
  BY TailType, <1>20 DEF Peek, Peekable
<1>21. ASSUME NEW t \in Threads, PeekFails(t)
      PROVE  IInv'
  BY <1>21 DEF PeekFails, Peekable
<1>22. ASSUME NEW t \in Threads, CallOk(t)
      PROVE  IInv'
  BY <1>22 DEF CallOk
<1>23. ASSUME NEW t \in Threads, CallFails(t)
      PROVE  IInv'
  BY <1>23 DEF CallFails
<1>24. ASSUME NEW t \in Threads, FileGone(t)
      PROVE  IInv'
  BY <1>24 DEF FileGone
<1>25. ASSUME NEW t \in Threads, RemoveHead(t)
      PROVE  IInv'
  BY TailType, <1>25 DEF RemoveHead
<1>26. ASSUME NEW t \in Threads, RemoveFails(t)
      PROVE  IInv'
  BY <1>26 DEF RemoveFails
<1>27. ASSUME NEW t \in Threads, Release(t)
      PROVE  IInv'
  BY <1>27 DEF Release
<1>28. ASSUME NEW t \in Threads, Check(t)
      PROVE  IInv'
  BY <1>28 DEF Check
<1>29. ASSUME NEW t \in Threads, RefreshDone(t)
      PROVE  IInv'
  BY <1>29 DEF RefreshDone
<1>30. ASSUME NEW t \in Threads, RemoveLoop(t)
      PROVE  IInv'
  BY <1>30 DEF RemoveLoop
<1>31. ASSUME NEW t \in Threads, RemoveOne(t)
      PROVE  IInv'
  BY TailType, <1>31 DEF RemoveOne
<1>32. ASSUME NEW t \in Threads, Add(t)
      PROVE  IInv'
  <2>1. nextItem \in Items
    BY <1>32 DEF Add, Items
  <2>2. /\ queue' \in Seq(Items) /\ accepted' \in Seq(Items)
        /\ nextItem' \in 1 .. MaxItems + 1
    BY <1>32, <2>1 DEF Add, Items
  <2>3. TypeOK'
    BY <1>32, <2>2 DEF Add
  <2>4. HeadHeld' /\ JobMatches'
    BY <1>32 DEF Add
  <2>5. QED
    BY <2>3, <2>4
<1>33. ASSUME NEW t \in Threads, Trigger(t)
      PROVE  IInv'
  BY <1>33 DEF Trigger
<1>34. ASSUME NEW t \in Threads, Login(t)
      PROVE  IInv'
  BY <1>34 DEF Login
<1>35. ASSUME NEW t \in Threads, Refresh(t)
      PROVE  IInv'
  BY <1>35 DEF Refresh
<1>36. ASSUME NEW t \in Threads, ClearQueue(t)
      PROVE  IInv'
  BY RangeType, <1>36 DEF ClearQueue
<1>37. ASSUME NEW t \in Threads, RemoveFromQueue(t)
      PROVE  IInv'
  BY <1>37 DEF RemoveFromQueue
<1>38. ASSUME NEW t \in Threads, Uncaught(t)
      PROVE  IInv'
  <2>1. /\ pc' \in [Threads -> Labels]
        /\ job' \in [Threads -> {"add", "process", "prune", "command"}]
        /\ head' \in [Threads -> Items \cup {0}]
        /\ snap' \in [Threads -> Seq(Items)]
    BY <1>38 DEF Uncaught, Reload
  <2>2. TypeOK'
    BY <1>38, <2>1 DEF Uncaught, Reload
  <2>3. HeadHeld' /\ JobMatches'
    BY <1>38 DEF Uncaught, Reload
  <2>4. QED
    BY <2>2, <2>3
<1>39. CASE Restart
  <2>1. restarts' \in 0 .. MaxRestarts
    BY <1>39 DEF Restart
  <2>2. TypeOK'
    <3>1. /\ pc' \in [Threads -> Labels]
          /\ job' \in [Threads -> {"add", "process", "prune", "command"}]
          /\ head' \in [Threads -> Items \cup {0}]
          /\ snap' \in [Threads -> Seq(Items)]
      BY <1>39 DEF Restart, Reload
    <3>2. QED
      BY <1>39, <2>1, <3>1 DEF Restart, Reload
  <2>3. HeadHeld' /\ JobMatches'
    BY <1>39 DEF Restart, Reload
  <2>4. QED
    BY <2>2, <2>3
<1>40. CASE Flush
  BY <1>40 DEF Flush
<1>41. CASE UNCHANGED vars
  BY <1>41 DEF vars
<1>42. QED
  BY <1>1, <1>2, <1>3, <1>4, <1>5, <1>6, <1>7, <1>8, <1>9, <1>10, <1>11, <1>12, <1>13, <1>14,
     <1>15, <1>16, <1>17, <1>18, <1>19, <1>20, <1>21, <1>22, <1>23, <1>24, <1>25, <1>26, <1>27,
     <1>28, <1>29, <1>30, <1>31, <1>32, <1>33, <1>34, <1>35, <1>36, <1>37, <1>38, <1>39, <1>40,
     <1>41
  DEF Next, Step, Start

\* Type correctness of the upload queues.
THEOREM TypeCorrect == Spec => []TypeOK
<1>1. IInv => TypeOK
  BY DEF IInv
<1>2. QED
  BY InitIInv, NextIInv, <1>1, PTL DEF Spec
-------------------------------------------------------------------------------
(* The flag.  A step of a thread that is not processing leaves the owner   *)
(* alone; a step of the owner keeps it in the section or clears the flag.  *)

LEMMA NextFlag == IInv /\ FlagHasOwner /\ [Next]_vars => FlagHasOwner'
<1> SUFFICES ASSUME IInv, FlagHasOwner, [Next]_vars, inProgress'
             PROVE  \E t \in Threads : Processing(t)'
  BY DEF FlagHasOwner
<1> USE DEF IInv, TypeOK, JobMatches, Processing, Goto, Begin, Command, Discard, Fail,
        listVars, gateVars, flagVars, threadVars, historyVars, boundVars
<1>0. ASSUME inProgress, NEW t \in Threads,
             \A u \in Threads \ {t} : pc'[u] = pc[u] /\ job'[u] = job[u],
             Processing(t) => Processing(t)'
      PROVE  \E u \in Threads : Processing(u)'
  <2>1. PICK u \in Threads : Processing(u)
    BY <1>0 DEF FlagHasOwner
  <2>2. Processing(u)'
    BY <1>0, <2>1
  <2>3. QED
    BY <2>2
<1>1. ASSUME NEW t \in Threads, Trim(t)
      PROVE  \E u \in Threads : Processing(u)'
  BY <1>0, <1>1 DEF Trim
<1>2. ASSUME NEW t \in Threads, Evict(t)
      PROVE  \E u \in Threads : Processing(u)'
  BY <1>0, <1>2 DEF Evict
<1>3. ASSUME NEW t \in Threads, SaveList(t)
      PROVE  \E u \in Threads : Processing(u)'
  BY <1>0, <1>3 DEF SaveList
<1>4. ASSUME NEW t \in Threads, EndsShort(t)
      PROVE  \E u \in Threads : Processing(u)'
  BY <1>0, <1>4 DEF EndsShort
<1>5. ASSUME NEW t \in Threads, SaveFails(t)
      PROVE  \E u \in Threads : Processing(u)'
  BY <1>0, <1>5 DEF SaveFails, Saved
<1>6. ASSUME NEW t \in Threads, ApplyList(t)
      PROVE  \E u \in Threads : Processing(u)'
  BY <1>0, <1>6 DEF ApplyList, Saved
<1>7. ASSUME NEW t \in Threads, Enter(t)
      PROVE  \E u \in Threads : Processing(u)'
  BY <1>0, <1>7 DEF Enter
<1>8. ASSUME NEW t \in Threads, Ask(t)
      PROVE  \E u \in Threads : Processing(u)'
  BY <1>0, <1>8 DEF Ask
<1>9. ASSUME NEW t \in Threads, Fetch(t)
      PROVE  \E u \in Threads : Processing(u)'
  BY <1>0, <1>9 DEF Fetch
<1>10. ASSUME NEW t \in Threads, Gate(t)
      PROVE  \E u \in Threads : Processing(u)'
  BY <1>0, <1>10 DEF Gate
<1>11. ASSUME NEW t \in Threads, Account(t)
      PROVE  \E u \in Threads : Processing(u)'
  BY <1>0, <1>11 DEF Account
<1>12. ASSUME NEW t \in Threads, Look(t)
      PROVE  \E u \in Threads : Processing(u)'
  BY <1>0, <1>12 DEF Look
<1>13. ASSUME NEW t \in Threads, Size(t)
      PROVE  \E u \in Threads : Processing(u)'
  BY <1>0, <1>13 DEF Size
<1>14. ASSUME NEW t \in Threads, LookAtHead(t)
      PROVE  \E u \in Threads : Processing(u)'
  BY <1>0, <1>14 DEF LookAtHead
<1>15. ASSUME NEW t \in Threads, Prune(t)
      PROVE  \E u \in Threads : Processing(u)'
  BY <1>0, <1>15 DEF Prune
<1>16. ASSUME NEW t \in Threads, Test(t)
      PROVE  \E u \in Threads : Processing(u)'
  BY <1>0, <1>16 DEF Test
<1>17. ASSUME NEW t \in Threads, Ready(t)
      PROVE  \E u \in Threads : Processing(u)'
  BY <1>0, <1>17 DEF Ready
<1>18. ASSUME NEW t \in Threads, PeekFirst(t)
      PROVE  \E u \in Threads : Processing(u)'
  BY <1>0, <1>18 DEF PeekFirst
<1>19. ASSUME NEW t \in Threads, Claim(t)
      PROVE  \E u \in Threads : Processing(u)'
  BY <1>19 DEF Claim
<1>20. ASSUME NEW t \in Threads, Peek(t)
      PROVE  \E u \in Threads : Processing(u)'
  BY <1>0, <1>20 DEF Peek
<1>21. ASSUME NEW t \in Threads, PeekFails(t)
      PROVE  \E u \in Threads : Processing(u)'
  BY <1>0, <1>21 DEF PeekFails
<1>22. ASSUME NEW t \in Threads, CallOk(t)
      PROVE  \E u \in Threads : Processing(u)'
  BY <1>0, <1>22 DEF CallOk
<1>23. ASSUME NEW t \in Threads, CallFails(t)
      PROVE  \E u \in Threads : Processing(u)'
  BY <1>0, <1>23 DEF CallFails
<1>24. ASSUME NEW t \in Threads, FileGone(t)
      PROVE  \E u \in Threads : Processing(u)'
  BY <1>0, <1>24 DEF FileGone
<1>25. ASSUME NEW t \in Threads, RemoveHead(t)
      PROVE  \E u \in Threads : Processing(u)'
  BY <1>0, <1>25 DEF RemoveHead
<1>26. ASSUME NEW t \in Threads, RemoveFails(t)
      PROVE  \E u \in Threads : Processing(u)'
  BY <1>0, <1>26 DEF RemoveFails
<1>27. ASSUME NEW t \in Threads, Release(t)
      PROVE  \E u \in Threads : Processing(u)'
  BY <1>0, <1>27 DEF Release
<1>28. ASSUME NEW t \in Threads, Check(t)
      PROVE  \E u \in Threads : Processing(u)'
  BY <1>0, <1>28 DEF Check
<1>29. ASSUME NEW t \in Threads, RefreshDone(t)
      PROVE  \E u \in Threads : Processing(u)'
  BY <1>0, <1>29 DEF RefreshDone
<1>30. ASSUME NEW t \in Threads, RemoveLoop(t)
      PROVE  \E u \in Threads : Processing(u)'
  BY <1>0, <1>30 DEF RemoveLoop
<1>31. ASSUME NEW t \in Threads, RemoveOne(t)
      PROVE  \E u \in Threads : Processing(u)'
  BY <1>0, <1>31 DEF RemoveOne
<1>32. ASSUME NEW t \in Threads, Add(t)
      PROVE  \E u \in Threads : Processing(u)'
  BY <1>0, <1>32 DEF Add
<1>33. ASSUME NEW t \in Threads, Trigger(t)
      PROVE  \E u \in Threads : Processing(u)'
  BY <1>0, <1>33 DEF Trigger
<1>34. ASSUME NEW t \in Threads, Login(t)
      PROVE  \E u \in Threads : Processing(u)'
  BY <1>0, <1>34 DEF Login
<1>35. ASSUME NEW t \in Threads, Refresh(t)
      PROVE  \E u \in Threads : Processing(u)'
  BY <1>0, <1>35 DEF Refresh
<1>36. ASSUME NEW t \in Threads, ClearQueue(t)
      PROVE  \E u \in Threads : Processing(u)'
  BY <1>0, <1>36 DEF ClearQueue
<1>37. ASSUME NEW t \in Threads, RemoveFromQueue(t)
      PROVE  \E u \in Threads : Processing(u)'
  BY <1>0, <1>37 DEF RemoveFromQueue
<1>38. ASSUME NEW t \in Threads, Uncaught(t)
      PROVE  \E u \in Threads : Processing(u)'
  BY <1>0, <1>38 DEF Uncaught, Reload
<1>39. CASE Restart
  BY <1>39 DEF Restart, Reload
<1>40. CASE Flush
  BY <1>40 DEF Flush, FlagHasOwner
<1>41. CASE UNCHANGED vars
  BY <1>41 DEF vars, FlagHasOwner
<1>42. QED
  BY <1>1, <1>2, <1>3, <1>4, <1>5, <1>6, <1>7, <1>8, <1>9, <1>10, <1>11, <1>12, <1>13, <1>14,
     <1>15, <1>16, <1>17, <1>18, <1>19, <1>20, <1>21, <1>22, <1>23, <1>24, <1>25, <1>26, <1>27,
     <1>28, <1>29, <1>30, <1>31, <1>32, <1>33, <1>34, <1>35, <1>36, <1>37, <1>38, <1>39, <1>40,
     <1>41
  DEF Next, Step, Start

\* The in-progress flag never outlives the threads that would clear it.
THEOREM FlagOwned == Spec => []FlagHasOwner
<1>1. Init => FlagHasOwner
  BY DEF Init, FlagHasOwner
<1>2. QED
  BY InitIInv, NextIInv, NextFlag, <1>1, PTL DEF Spec
-------------------------------------------------------------------------------
(* The retry budget.  A failure adds one to the counter and one thread to  *)
(* those that have not yet looked at it; the look that takes a thread away *)
(* leaves the counter within the limit.                                    *)

LEMMA UndecidedFinite ==
  /\ IsFiniteSet(Undecided) /\ Cardinality(Undecided) \in Nat
  /\ IsFiniteSet(Undecided') /\ Cardinality(Undecided') \in Nat
<1>1. IsFiniteSet(Undecided) /\ IsFiniteSet(Undecided')
  BY ConstantsAssumption, FS_Subset DEF Undecided
<1>2. QED
  BY <1>1, FS_CardinalityType

LEMMA NextBudget == IInv /\ RetryBudget /\ [Next]_vars => RetryBudget'
<1> SUFFICES ASSUME IInv, RetryBudget, [Next]_vars
             PROVE  tryCount' <= TryLimit + Cardinality(Undecided')
  BY DEF RetryBudget
<1> USE ConstantsAssumption, UndecidedFinite
<1> DEFINE Within == tryCount' <= TryLimit + Cardinality(Undecided')
<1>a. tryCount \in Nat /\ pc \in [Threads -> Labels]
  BY DEF IInv, TypeOK
<1>b. ASSUME tryCount' = tryCount, Undecided \subseteq Undecided'
      PROVE  Within
  <2>1. Cardinality(Undecided) <= Cardinality(Undecided')
    BY <1>b, FS_Subset
  <2>2. QED
    BY <1>a, <1>b, <2>1 DEF RetryBudget
<1>c. ASSUME tryCount' = 0 \/ tryCount' \in 0 .. TryLimit
      PROVE  Within
  BY <1>c
<1>d. ASSUME NEW t \in Threads, tryCount' = tryCount + 1, pc[t] \notin {"release", "check"},
             pc' = [pc EXCEPT ![t] = "release"]
      PROVE  Within
  <2>1. t \notin Undecided /\ Undecided' = Undecided \cup {t}
    BY <1>a, <1>d DEF Undecided
  <2>2. Cardinality(Undecided') = Cardinality(Undecided) + 1
    BY <2>1, FS_AddElement
  <2>3. QED
    BY <1>a, <1>d, <2>2 DEF RetryBudget
<1>e. ASSUME tryCount' = tryCount, NEW t \in Threads, NEW to, pc[t] # "check",
             pc' = [pc EXCEPT ![t] = to], pc[t] = "release" => to = "check"
      PROVE  Within
  <2>1. Undecided \subseteq Undecided'
    BY <1>a, <1>e DEF Undecided
  <2>2. QED
    BY <1>b, <2>1, <1>e
<1> HIDE DEF Within
<1> USE DEF Goto, Begin, Command, Discard, Fail,
        listVars, gateVars, flagVars, threadVars, historyVars, boundVars
<1>1. ASSUME NEW t \in Threads, Trim(t)
      PROVE  Within
  BY <1>e, <1>1 DEF Trim
<1>2. ASSUME NEW t \in Threads, Evict(t)
      PROVE  Within
  BY <1>e, <1>2 DEF Evict
<1>3. ASSUME NEW t \in Threads, SaveList(t)
      PROVE  Within
  BY <1>e, <1>3 DEF SaveList
<1>4. ASSUME NEW t \in Threads, EndsShort(t)
      PROVE  Within
  BY <1>e, <1>4 DEF EndsShort
<1>5. ASSUME NEW t \in Threads, SaveFails(t)
      PROVE  Within
  BY <1>c, <1>e, <1>5 DEF SaveFails, Saved
<1>6. ASSUME NEW t \in Threads, ApplyList(t)
      PROVE  Within
  BY <1>c, <1>e, <1>6 DEF ApplyList, Saved
<1>7. ASSUME NEW t \in Threads, Enter(t)
      PROVE  Within
  BY <1>e, <1>7 DEF Enter
<1>8. ASSUME NEW t \in Threads, Ask(t)
      PROVE  Within
  BY <1>e, <1>8 DEF Ask
<1>9. ASSUME NEW t \in Threads, Fetch(t)
      PROVE  Within
  BY <1>e, <1>9 DEF Fetch
<1>10. ASSUME NEW t \in Threads, Gate(t)
      PROVE  Within
  BY <1>e, <1>10 DEF Gate
<1>11. ASSUME NEW t \in Threads, Account(t)
      PROVE  Within
  BY <1>e, <1>11 DEF Account
<1>12. ASSUME NEW t \in Threads, Look(t)
      PROVE  Within
  BY <1>e, <1>12 DEF Look
<1>13. ASSUME NEW t \in Threads, Size(t)
      PROVE  Within
  BY <1>e, <1>13 DEF Size
<1>14. ASSUME NEW t \in Threads, LookAtHead(t)
      PROVE  Within
  BY <1>e, <1>14 DEF LookAtHead
<1>15. ASSUME NEW t \in Threads, Prune(t)
      PROVE  Within
  BY <1>e, <1>15 DEF Prune
<1>16. ASSUME NEW t \in Threads, Test(t)
      PROVE  Within
  BY <1>e, <1>16 DEF Test
<1>17. ASSUME NEW t \in Threads, Ready(t)
      PROVE  Within
  BY <1>e, <1>17 DEF Ready
<1>18. ASSUME NEW t \in Threads, PeekFirst(t)
      PROVE  Within
  BY <1>e, <1>18 DEF PeekFirst
<1>19. ASSUME NEW t \in Threads, Claim(t)
      PROVE  Within
  BY <1>e, <1>19 DEF Claim
<1>20. ASSUME NEW t \in Threads, Peek(t)
      PROVE  Within
  BY <1>e, <1>20 DEF Peek
<1>21. ASSUME NEW t \in Threads, PeekFails(t)
      PROVE  Within
  BY <1>d, <1>21 DEF PeekFails
<1>22. ASSUME NEW t \in Threads, CallOk(t)
      PROVE  Within
  BY <1>e, <1>22 DEF CallOk
<1>23. ASSUME NEW t \in Threads, CallFails(t)
      PROVE  Within
  BY <1>d, <1>23 DEF CallFails
<1>24. ASSUME NEW t \in Threads, FileGone(t)
      PROVE  Within
  BY <1>e, <1>24 DEF FileGone
<1>25. ASSUME NEW t \in Threads, RemoveHead(t)
      PROVE  Within
  BY <1>c, <1>e, <1>25 DEF RemoveHead
<1>26. ASSUME NEW t \in Threads, RemoveFails(t)
      PROVE  Within
  BY <1>d, <1>26 DEF RemoveFails
<1>27. ASSUME NEW t \in Threads, Release(t)
      PROVE  Within
  BY <1>e, <1>27 DEF Release
<1>28. ASSUME NEW t \in Threads, Check(t)
      PROVE  Within
  BY <1>a, <1>c, <1>28 DEF Check
<1>29. ASSUME NEW t \in Threads, RefreshDone(t)
      PROVE  Within
  BY <1>e, <1>29 DEF RefreshDone
<1>30. ASSUME NEW t \in Threads, RemoveLoop(t)
      PROVE  Within
  BY <1>e, <1>30 DEF RemoveLoop
<1>31. ASSUME NEW t \in Threads, RemoveOne(t)
      PROVE  Within
  BY <1>e, <1>31 DEF RemoveOne
<1>32. ASSUME NEW t \in Threads, Add(t)
      PROVE  Within
  BY <1>e, <1>32 DEF Add
<1>33. ASSUME NEW t \in Threads, Trigger(t)
      PROVE  Within
  BY <1>e, <1>33 DEF Trigger
<1>34. ASSUME NEW t \in Threads, Login(t)
      PROVE  Within
  BY <1>e, <1>34 DEF Login
<1>35. ASSUME NEW t \in Threads, Refresh(t)
      PROVE  Within
  BY <1>e, <1>35 DEF Refresh
<1>36. ASSUME NEW t \in Threads, ClearQueue(t)
      PROVE  Within
  BY <1>e, <1>36 DEF ClearQueue
<1>37. ASSUME NEW t \in Threads, RemoveFromQueue(t)
      PROVE  Within
  BY <1>e, <1>37 DEF RemoveFromQueue
<1>38. ASSUME NEW t \in Threads, Uncaught(t)
      PROVE  Within
  BY <1>c, <1>38 DEF Uncaught, Reload
<1>39. CASE Restart
  BY <1>c, <1>39 DEF Restart, Reload
<1>40. CASE Flush
  <2>1. tryCount' = tryCount /\ pc' = pc
    BY <1>40 DEF Flush
  <2>2. Undecided' = Undecided
    BY <2>1 DEF Undecided
  <2>3. QED
    BY <1>b, <2>1, <2>2 DEF Within
<1>41. CASE UNCHANGED vars
  <2>1. tryCount' = tryCount /\ pc' = pc
    BY <1>41 DEF vars
  <2>2. Undecided' = Undecided
    BY <2>1 DEF Undecided
  <2>3. QED
    BY <1>b, <2>1, <2>2 DEF Within
<1>42. Within
  BY <1>1, <1>2, <1>3, <1>4, <1>5, <1>6, <1>7, <1>8, <1>9, <1>10, <1>11, <1>12, <1>13, <1>14,
     <1>15, <1>16, <1>17, <1>18, <1>19, <1>20, <1>21, <1>22, <1>23, <1>24, <1>25, <1>26, <1>27,
     <1>28, <1>29, <1>30, <1>31, <1>32, <1>33, <1>34, <1>35, <1>36, <1>37, <1>38, <1>39, <1>40,
     <1>41
  DEF Next, Step, Start, Within
<1>43. QED
  BY <1>42 DEF Within

\* The shared failure counter passes the limit only by the threads that have
\* failed and not yet looked at it.
THEOREM BudgetKept == Spec => []RetryBudget
<1>1. Init => RetryBudget
  BY ConstantsAssumption, UndecidedFinite DEF Init, RetryBudget
<1>2. QED
  BY InitIInv, NextIInv, NextBudget, <1>1, PTL DEF Spec
-------------------------------------------------------------------------------
(* Order.  What the steps do to a list that is the newest part of another. *)

LEMMA NewestItself ==
  ASSUME NEW s \in Seq(Items)
  PROVE  IsNewest(s, s) /\ IsNewest(<<>>, s)
<1>1. s = SubSeq(s, 1, Len(s))
  BY SubSeqFull
<1>2. <<>> = SubSeq(s, Len(s) + 1, Len(s))
  BY SubSeqEmpty
<1>3. QED
  <2>1. \E i \in 0 .. Len(s) : s = SubSeq(s, i + 1, Len(s))
    <3> WITNESS 0 \in 0 .. Len(s)
    <3> QED
      BY <1>1
  <2>2. \E i \in 0 .. Len(s) : <<>> = SubSeq(s, i + 1, Len(s))
    <3> WITNESS Len(s) \in 0 .. Len(s)
    <3> QED
      BY <1>2
  <2>3. QED
    BY <2>1, <2>2 DEF IsNewest

LEMMA NewestElements ==
  ASSUME NEW all \in Seq(Items), NEW i \in 0 .. Len(all)
  PROVE  LET s == SubSeq(all, i + 1, Len(all))
         IN  /\ s \in Seq(Items)
             /\ Len(s) = Len(all) - i
             /\ \A k \in 1 .. Len(all) - i : s[k] = all[i + k]
<1>1. \A k \in i + 1 .. Len(all) : all[k] \in Items
  BY ElementOfSeq
<1>2. Len(all) \in Nat
  OBVIOUS
<1>3. /\ SubSeq(all, i + 1, Len(all)) \in Seq(Items)
      /\ Len(SubSeq(all, i + 1, Len(all))) = IF i + 1 <= Len(all) THEN Len(all) - (i + 1) + 1 ELSE 0
      /\ \A k \in 1 .. Len(all) - (i + 1) + 1 :
            SubSeq(all, i + 1, Len(all))[k] = all[(i + 1) + k - 1]
  BY <1>1, <1>2, SubSeqProperties
<1>4. QED
  BY <1>2, <1>3

LEMMA NewestTail ==
  ASSUME NEW all \in Seq(Items), NEW s \in Seq(Items), s # <<>>, IsNewest(s, all)
  PROVE  IsNewest(Tail(s), all)
<1>1. PICK i \in 0 .. Len(all) : s = SubSeq(all, i + 1, Len(all))
  BY DEF IsNewest
<1>2. /\ Len(s) = Len(all) - i
      /\ \A k \in 1 .. Len(all) - i : s[k] = all[i + k]
  BY <1>1, NewestElements
<1>3. i + 1 \in 0 .. Len(all)
  BY <1>2, EmptySeq
<1>4. /\ SubSeq(all, i + 2, Len(all)) \in Seq(Items)
      /\ Len(SubSeq(all, i + 2, Len(all))) = Len(all) - i - 1
      /\ \A k \in 1 .. Len(all) - i - 1 : SubSeq(all, i + 2, Len(all))[k] = all[i + 1 + k]
  <2>1. (i + 1) + 1 = i + 2
    OBVIOUS
  <2>2. QED
    BY <1>3, <2>1, NewestElements
<1>5. /\ Tail(s) \in Seq(Items) /\ Len(Tail(s)) = Len(s) - 1
      /\ \A k \in 1 .. Len(Tail(s)) : Tail(s)[k] = s[k + 1]
  BY HeadTailProperties
<1>6. Tail(s) = SubSeq(all, i + 2, Len(all))
  <2>1. \A k \in 1 .. Len(Tail(s)) : Tail(s)[k] = SubSeq(all, i + 2, Len(all))[k]
    BY <1>2, <1>3, <1>4, <1>5
  <2>2. QED
    BY <1>2, <1>4, <1>5, <2>1, SeqEqual
<1>7. QED
  <2>1. SubSeq(all, i + 2, Len(all)) = SubSeq(all, (i + 1) + 1, Len(all))
    OBVIOUS
  <2>2. QED
    BY <1>3, <1>6, <2>1 DEF IsNewest

LEMMA NewestAppend ==
  ASSUME NEW all \in Seq(Items), NEW s \in Seq(Items), NEW x \in Items, IsNewest(s, all)
  PROVE  IsNewest(Append(s, x), Append(all, x))
<1>1. PICK i \in 0 .. Len(all) : s = SubSeq(all, i + 1, Len(all))
  BY DEF IsNewest
<1>2. /\ Len(s) = Len(all) - i
      /\ \A k \in 1 .. Len(all) - i : s[k] = all[i + k]
  BY <1>1, NewestElements
<1>3. /\ Append(all, x) \in Seq(Items) /\ Len(Append(all, x)) = Len(all) + 1
      /\ \A k \in 1 .. Len(all) : Append(all, x)[k] = all[k]
      /\ Append(all, x)[Len(all) + 1] = x
  BY AppendProperties
<1>4. /\ Append(s, x) \in Seq(Items) /\ Len(Append(s, x)) = Len(s) + 1
      /\ \A k \in 1 .. Len(s) : Append(s, x)[k] = s[k]
      /\ Append(s, x)[Len(s) + 1] = x
  BY AppendProperties
<1>5. i \in 0 .. Len(Append(all, x))
  BY <1>3
<1> DEFINE longer == Append(all, x)
           w == SubSeq(longer, i + 1, Len(longer))
<1>6. /\ w \in Seq(Items)
      /\ Len(w) = Len(all) + 1 - i
      /\ \A k \in 1 .. Len(all) + 1 - i : w[k] = longer[i + k]
  <2>1. longer \in Seq(Items) /\ i \in 0 .. Len(longer) /\ Len(longer) = Len(all) + 1
    BY <1>3, <1>5
  <2> HIDE DEF longer
  <2>2. /\ w \in Seq(Items)
        /\ Len(w) = Len(longer) - i
        /\ \A k \in 1 .. Len(longer) - i : w[k] = longer[i + k]
    BY <2>1, NewestElements
  <2>3. QED
    BY <2>1, <2>2
<1>7. \A k \in 1 .. Len(Append(s, x)) : Append(s, x)[k] = w[k]
  <2> HIDE DEF w
  <2> TAKE k \in 1 .. Len(Append(s, x))
  <2>1. CASE k = Len(s) + 1
    BY <1>2, <1>3, <1>4, <1>6, <2>1
  <2>2. CASE k \in 1 .. Len(s)
    BY <1>2, <1>3, <1>4, <1>6, <2>2
  <2>3. QED
    BY <1>4, <2>1, <2>2
<1>8. Append(s, x) = w
  <2> HIDE DEF w
  <2> QED
    BY <1>2, <1>4, <1>6, <1>7, SeqEqual
<1>9. QED
  BY <1>5, <1>8 DEF IsNewest

(* Add appends the same item to the list and to the history.  Every other  *)
(* step removes the first item, empties the list, leaves both alone or     *)
(* makes both the saved list.                                              *)
LEMMA NextNewest ==
  ASSUME IInv, QueueIsNewest, [Next]_vars
  PROVE  QueueIsNewest'
<1> USE DEF Goto, Begin, Command, Discard, Fail, listVars, gateVars, flagVars,
            threadVars, historyVars, boundVars, QueueIsNewest
<1>1. /\ queue \in Seq(Items) /\ disk \in Seq(Items) /\ accepted \in Seq(Items)
      /\ nextItem \in 1 .. MaxItems + 1
  BY DEF IInv, TypeOK
<1>2. ASSUME NEW t \in Threads, Add(t)
      PROVE  QueueIsNewest'
  <2>1. nextItem \in Items
    BY <1>1, <1>2, ConstantsAssumption DEF Add, Items
  <2>2. queue' = Append(queue, nextItem) /\ accepted' = Append(accepted, nextItem)
    BY <1>2 DEF Add
  <2>3. IsNewest(Append(queue, nextItem), Append(accepted, nextItem))
    BY <1>1, <2>1, NewestAppend
  <2>4. QED
    BY <2>2, <2>3
<1>3. ASSUME queue # <<>>, queue' = Tail(queue), accepted' = accepted
      PROVE  QueueIsNewest'
  BY <1>1, <1>3, NewestTail
<1>4. ASSUME queue' = queue, accepted' = accepted
      PROVE  QueueIsNewest'
  BY <1>4
<1>5. CASE Reload
  BY <1>1, <1>5, NewestItself DEF Reload
<1>6. ASSUME NEW t \in Threads, ClearQueue(t)
      PROVE  QueueIsNewest'
  BY <1>1, <1>6, NewestItself DEF ClearQueue
<1>7. ASSUME NEW t \in Threads, Step(t)
      PROVE  QueueIsNewest'
  <2>1. CASE Evict(t) \/ Prune(t) \/ RemoveHead(t) \/ RemoveOne(t)
    <3>1. queue # <<>> /\ queue' = Tail(queue) /\ accepted' = accepted
      BY <2>1 DEF Evict, Prune, RemoveHead, RemoveOne
    <3>2. QED
      BY <1>3, <3>1
  <2>2. CASE \/ Trim(t) \/ SaveList(t) \/ EndsShort(t) \/ SaveFails(t) \/ ApplyList(t)
             \/ Enter(t) \/ Ask(t) \/ Fetch(t) \/ Gate(t) \/ Account(t) \/ Look(t)
             \/ Size(t) \/ LookAtHead(t) \/ Test(t) \/ Ready(t) \/ PeekFirst(t)
             \/ Claim(t) \/ Peek(t) \/ PeekFails(t) \/ CallOk(t) \/ CallFails(t)
             \/ FileGone(t) \/ RemoveFails(t) \/ Release(t) \/ Check(t)
             \/ RefreshDone(t) \/ RemoveLoop(t)
    <3>1. queue' = queue /\ accepted' = accepted
      BY <2>2 DEF Trim, SaveList, EndsShort, SaveFails, ApplyList, Enter, Ask, Fetch, Gate,
         Account, Look, Size, LookAtHead, Test, Ready, PeekFirst, Claim, Peek, PeekFails,
         CallOk, CallFails, FileGone, RemoveFails, Release, Check, RefreshDone, RemoveLoop
    <3>2. QED
      BY <1>4, <3>1
  <2>3. QED
    BY <1>7, <2>1, <2>2 DEF Step
<1>8. ASSUME NEW t \in Threads, Start(t)
      PROVE  QueueIsNewest'
  <2>1. CASE Trigger(t) \/ Login(t) \/ Refresh(t) \/ RemoveFromQueue(t)
    <3>1. queue' = queue /\ accepted' = accepted
      BY <2>1 DEF Trigger, Login, Refresh, RemoveFromQueue
    <3>2. QED
      BY <1>4, <3>1
  <2>2. QED
    BY <1>2, <1>6, <1>8, <2>1 DEF Start
<1>9. CASE Flush \/ UNCHANGED vars
  <2>1. queue' = queue /\ accepted' = accepted
    BY <1>9 DEF Flush, vars
  <2>2. QED
    BY <1>4, <2>1
<1>10. QED
  BY <1>5, <1>7, <1>8, <1>9 DEF Next, Restart, Uncaught

(* Whatever threads interleave and whatever fails, the list in memory is   *)
(* the newest part of what was loaded and added, in order: the remove(0)   *)
(* calls of Azure.java never drop a younger item before an older one.      *)
THEOREM OrderKept == Spec => []QueueIsNewest
<1>1. Init => QueueIsNewest
  BY NewestItself, EmptySeq DEF Init, QueueIsNewest
<1>2. QED
  BY InitIInv, NextIInv, NextNewest, <1>1, PTL DEF Spec
-------------------------------------------------------------------------------
(* What is saved.  A run of the history is a run of the longer history; the *)
(* list in memory, whenever its text is made, is such a run.                *)

LEMMA RunItself ==
  ASSUME NEW s \in Seq(Items)
  PROVE  IsRun(s, s) /\ IsRun(<<>>, s)
<1>1. Len(s) \in Nat /\ Len(<<>>) = 0
  BY EmptySeq
<1>2. IsRun(s, s)
  <2>1. s = SubSeq(s, 0 + 1, 0 + Len(s))
    BY <1>1, SubSeqFull
  <2>2. 0 \in 0 .. Len(s) - Len(s)
    BY <1>1
  <2>3. QED
    BY <2>1, <2>2 DEF IsRun
<1>3. IsRun(<<>>, s)
  <2>1. <<>> = SubSeq(s, 0 + 1, 0 + Len(<<>>))
    BY <1>1, SubSeqEmpty
  <2>2. 0 \in 0 .. Len(s) - Len(<<>>)
    BY <1>1
  <2>3. QED
    BY <2>1, <2>2 DEF IsRun
<1>4. QED
  BY <1>2, <1>3

LEMMA NewestIsRun ==
  ASSUME NEW all \in Seq(Items), NEW s \in Seq(Items), IsNewest(s, all)
  PROVE  IsRun(s, all)
<1>1. PICK i \in 0 .. Len(all) : s = SubSeq(all, i + 1, Len(all))
  BY DEF IsNewest
<1>2. Len(s) = Len(all) - i
  BY <1>1, NewestElements
<1>3. i \in 0 .. Len(all) - Len(s) /\ i + Len(s) = Len(all)
  BY <1>2
<1>4. QED
  BY <1>1, <1>3 DEF IsRun

LEMMA RunAppend ==
  ASSUME NEW all \in Seq(Items), NEW s \in Seq(Items), NEW x \in Items, IsRun(s, all)
  PROVE  IsRun(s, Append(all, x))
<1>1. PICK i \in 0 .. Len(all) - Len(s) : s = SubSeq(all, i + 1, i + Len(s))
  BY DEF IsRun
<1> DEFINE longer == Append(all, x)
           n == Len(s)
<1>2. /\ longer \in Seq(Items) /\ Len(longer) = Len(all) + 1
      /\ \A k \in 1 .. Len(all) : longer[k] = all[k]
  BY AppendProperties
<1>3. n \in Nat /\ i \in Nat /\ i + n <= Len(all) /\ Len(all) \in Nat
  BY <1>1
<1> HIDE DEF longer, n
<1>4. /\ \A k \in i + 1 .. i + n : all[k] \in Items /\ longer[k] = all[k]
  BY <1>2, <1>3, ElementOfSeq
<1>5. /\ SubSeq(all, i + 1, i + n) \in Seq(Items)
      /\ Len(SubSeq(all, i + 1, i + n)) = IF i + 1 <= i + n THEN (i + n) - (i + 1) + 1 ELSE 0
      /\ \A k \in 1 .. (i + n) - (i + 1) + 1 :
            SubSeq(all, i + 1, i + n)[k] = all[(i + 1) + k - 1]
  BY <1>3, <1>4, SubSeqProperties
<1>6. /\ SubSeq(longer, i + 1, i + n) \in Seq(Items)
      /\ Len(SubSeq(longer, i + 1, i + n)) = IF i + 1 <= i + n THEN (i + n) - (i + 1) + 1 ELSE 0
      /\ \A k \in 1 .. (i + n) - (i + 1) + 1 :
            SubSeq(longer, i + 1, i + n)[k] = longer[(i + 1) + k - 1]
  <2>1. \A k \in i + 1 .. i + n : longer[k] \in Items
    BY <1>4
  <2>2. QED
    BY <1>3, <2>1, SubSeqProperties
<1>7. SubSeq(longer, i + 1, i + n) = SubSeq(all, i + 1, i + n)
  <2>1. /\ Len(SubSeq(all, i + 1, i + n)) = n
        /\ Len(SubSeq(longer, i + 1, i + n)) = n
    BY <1>3, <1>5, <1>6
  <2>2. ASSUME NEW k \in 1 .. n
        PROVE  SubSeq(longer, i + 1, i + n)[k] = SubSeq(all, i + 1, i + n)[k]
    <3>1. (i + 1) + k - 1 \in i + 1 .. i + n /\ k \in 1 .. (i + n) - (i + 1) + 1
      BY <1>3
    <3>2. QED
      BY <1>4, <1>5, <1>6, <3>1
  <2>3. QED
    BY <1>5, <1>6, <2>1, <2>2, SeqEqual
<1>8. i \in 0 .. Len(longer) - n
  BY <1>2, <1>3
<1>9. QED
  BY <1>1, <1>7, <1>8 DEF IsRun, longer, n

\* A text that ends short is still a run.
LEMMA RunPrefix ==
  ASSUME NEW all \in Seq(Items), NEW s \in Seq(Items), IsRun(s, all), NEW n \in 0 .. Len(s)
  PROVE  IsRun(SubSeq(s, 1, n), all)
<1>1. PICK i \in 0 .. Len(all) - Len(s) : s = SubSeq(all, i + 1, i + Len(s))
  BY DEF IsRun
<1> DEFINE w == SubSeq(s, 1, n)
           v == SubSeq(all, i + 1, i + n)
<1>2. /\ i \in Nat /\ n \in Nat /\ Len(s) \in Nat /\ Len(all) \in Nat
      /\ n <= Len(s) /\ i + Len(s) <= Len(all)
  BY <1>1
<1>3. \A k \in i + 1 .. i + Len(s) : all[k] \in Items
  BY <1>2, ElementOfSeq
<1>4. \A k \in 1 .. Len(s) : s[k] = all[i + k]
  <2>1. \A k \in 1 .. (i + Len(s)) - (i + 1) + 1 :
           SubSeq(all, i + 1, i + Len(s))[k] = all[(i + 1) + k - 1]
    BY <1>2, <1>3, SubSeqProperties
  <2>2. QED
    BY <1>1, <1>2, <2>1
<1>5. /\ w \in Seq(Items) /\ Len(w) = n
      /\ \A k \in 1 .. n : w[k] = s[k]
  <2>1. \A k \in 1 .. n : s[k] \in Items
    BY <1>2, ElementOfSeq
  <2>2. /\ w \in Seq(Items)
        /\ Len(w) = IF 1 <= n THEN n - 1 + 1 ELSE 0
        /\ \A k \in 1 .. n - 1 + 1 : w[k] = s[1 + k - 1]
    BY <1>2, <2>1, SubSeqProperties
  <2>3. QED
    BY <1>2, <2>2
<1>6. /\ v \in Seq(Items) /\ Len(v) = n
      /\ \A k \in 1 .. n : v[k] = all[i + k]
  <2>1. \A k \in i + 1 .. i + n : all[k] \in Items
    BY <1>2, <1>3
  <2>2. /\ v \in Seq(Items)
        /\ Len(v) = IF i + 1 <= i + n THEN (i + n) - (i + 1) + 1 ELSE 0
        /\ \A k \in 1 .. (i + n) - (i + 1) + 1 : v[k] = all[(i + 1) + k - 1]
    BY <1>2, <2>1, SubSeqProperties
  <2>3. QED
    BY <1>2, <2>2
<1> HIDE DEF w, v
<1>7. w = v
  <2>1. ASSUME NEW k \in 1 .. n
        PROVE  w[k] = v[k]
    <3>1. k \in 1 .. Len(s)
      BY <1>2
    <3>2. w[k] = s[k] /\ s[k] = all[i + k] /\ v[k] = all[i + k]
      BY <1>4, <1>5, <1>6, <3>1
    <3>3. QED
      BY <3>2
  <2>2. QED
    BY <1>5, <1>6, <2>1, SeqEqual
<1>8. i \in 0 .. Len(all) - Len(w) /\ w = SubSeq(all, i + 1, i + Len(w))
  BY <1>2, <1>5, <1>7 DEF v
<1>9. QED
  BY <1>8 DEF IsRun, w

LEMMA InitSaved == Init => SavedIsRun
<1> SUFFICES ASSUME Init, NEW s \in {prefs, disk} \cup {snap[t] : t \in Threads}
             PROVE  IsRun(s, accepted)
  BY DEF SavedIsRun
<1>1. s = <<>> /\ accepted = <<>>
  BY DEF Init
<1>2. <<>> \in Seq(Items)
  BY EmptySeq
<1>3. QED
  BY <1>1, <1>2, RunItself

(* SaveList takes the list in memory, EndsShort a prefix of that, SaveFails *)
(* forgets it, ApplyList and Flush hand a text on,                          *)
(* Add makes the history longer, and a restart begins it anew with what is *)
(* saved.  Every other step leaves the texts and the history alone.        *)
LEMMA NextSaved ==
  ASSUME IInv, QueueIsNewest, SavedIsRun, [Next]_vars
  PROVE  SavedIsRun'
<1> USE DEF Goto, Begin, Command, Discard, Fail, listVars, gateVars, flagVars,
            threadVars, historyVars, boundVars
<1>1. /\ queue \in Seq(Items) /\ prefs \in Seq(Items) /\ disk \in Seq(Items)
      /\ accepted \in Seq(Items) /\ snap \in [Threads -> Seq(Items)]
      /\ nextItem \in 1 .. MaxItems + 1
  BY DEF IInv, TypeOK
<1>2. /\ IsRun(prefs, accepted) /\ IsRun(disk, accepted)
      /\ \A t \in Threads : IsRun(snap[t], accepted)
  BY DEF SavedIsRun
<1>3. IsRun(queue, accepted) /\ IsRun(<<>>, accepted)
  BY <1>1, NewestIsRun, RunItself DEF QueueIsNewest
<1>4. ASSUME IsRun(prefs', accepted'), IsRun(disk', accepted'),
             \A t \in Threads : IsRun(snap'[t], accepted')
      PROVE  SavedIsRun'
  BY <1>4 DEF SavedIsRun
<1>5. ASSUME prefs' = prefs, disk' = disk, snap' = snap, accepted' = accepted
      PROVE  SavedIsRun'
  BY <1>2, <1>4, <1>5
<1>6. ASSUME NEW t \in Threads, Add(t)
      PROVE  SavedIsRun'
  <2>1. nextItem \in Items
    BY <1>1, <1>6, ConstantsAssumption DEF Add, Items
  <2>2. /\ prefs' = prefs /\ disk' = disk /\ snap' = snap
        /\ accepted' = Append(accepted, nextItem)
    BY <1>6 DEF Add
  <2>3. /\ IsRun(prefs, accepted') /\ IsRun(disk, accepted')
        /\ \A u \in Threads : IsRun(snap[u], accepted')
    BY <1>1, <1>2, <2>1, <2>2, RunAppend
  <2>4. QED
    BY <1>4, <2>2, <2>3
<1>7. ASSUME NEW t \in Threads, SaveList(t)
      PROVE  SavedIsRun'
  <2>1. /\ prefs' = prefs /\ disk' = disk /\ accepted' = accepted
        /\ snap' = [snap EXCEPT ![t] = queue]
    BY <1>7 DEF SaveList
  <2>2. \A u \in Threads : snap'[u] \in {queue, snap[u]}
    BY <1>1, <2>1
  <2>3. \A u \in Threads : IsRun(snap'[u], accepted')
    BY <1>2, <1>3, <2>1, <2>2
  <2>4. QED
    BY <1>2, <1>4, <2>1, <2>3
<1>8. ASSUME NEW t \in Threads, ApplyList(t)
      PROVE  SavedIsRun'
  <2>1. /\ prefs' = snap[t] /\ disk' = disk /\ accepted' = accepted
        /\ snap' = [snap EXCEPT ![t] = <<>>]
    BY <1>8 DEF ApplyList, Saved
  <2>2. \A u \in Threads : snap'[u] \in {<<>>, snap[u]}
    BY <1>1, <2>1
  <2>3. \A u \in Threads : IsRun(snap'[u], accepted')
    BY <1>2, <1>3, <2>1, <2>2
  <2>4. QED
    BY <1>2, <1>4, <2>1, <2>3
<1>8a. ASSUME NEW t \in Threads, SaveFails(t)
      PROVE  SavedIsRun'
  <2>1. /\ prefs' = prefs /\ disk' = disk /\ accepted' = accepted
        /\ snap' = [snap EXCEPT ![t] = <<>>]
    BY <1>8a DEF SaveFails, Saved
  <2>2. \A u \in Threads : snap'[u] \in {<<>>, snap[u]}
    BY <1>1, <2>1
  <2>3. \A u \in Threads : IsRun(snap'[u], accepted')
    BY <1>2, <1>3, <2>1, <2>2
  <2>4. QED
    BY <1>2, <1>4, <2>1, <2>3
<1>8b. ASSUME NEW t \in Threads, EndsShort(t)
      PROVE  SavedIsRun'
  <2> DEFINE short == SubSeq(snap[t], 1, Len(queue))
  <2>1. /\ prefs' = prefs /\ disk' = disk /\ accepted' = accepted
        /\ snap' = [snap EXCEPT ![t] = short]
    BY <1>8b DEF EndsShort
  <2>2. IsRun(short, accepted)
    <3>1. snap[t] \in Seq(Items) /\ Len(queue) \in 0 .. Len(snap[t])
      BY <1>1, <1>8b DEF EndsShort
    <3>2. QED
      BY <1>1, <1>2, <3>1, RunPrefix
  <2> HIDE DEF short
  <2>3. \A u \in Threads : snap'[u] \in {short, snap[u]}
    BY <1>1, <2>1
  <2>4. \A u \in Threads : IsRun(snap'[u], accepted')
    BY <1>2, <2>1, <2>2, <2>3
  <2>5. QED
    BY <1>2, <1>4, <2>1, <2>4
<1>9. CASE Flush
  <2>1. /\ prefs' = prefs /\ disk' = prefs /\ accepted' = accepted
        /\ snap' = snap
    BY <1>9 DEF Flush
  <2>2. QED
    BY <1>2, <1>4, <2>1
<1>10. CASE Reload
  <2>1. /\ prefs' = disk /\ disk' = disk /\ accepted' = disk
        /\ \A u \in Threads : snap'[u] = <<>>
    BY <1>10 DEF Reload
  <2>2. IsRun(disk, disk) /\ IsRun(<<>>, disk)
    BY <1>1, RunItself
  <2>3. QED
    BY <1>4, <2>1, <2>2
<1>11. ASSUME NEW t \in Threads, Step(t)
      PROVE  SavedIsRun'
  <2>1. CASE \/ Trim(t) \/ Evict(t) \/ Enter(t) \/ Ask(t) \/ Fetch(t) \/ Gate(t)
             \/ Account(t) \/ Look(t) \/ Size(t) \/ LookAtHead(t) \/ Prune(t)
             \/ Test(t) \/ Ready(t) \/ PeekFirst(t) \/ Claim(t) \/ Peek(t)
             \/ PeekFails(t) \/ CallOk(t) \/ CallFails(t) \/ FileGone(t)
             \/ RemoveHead(t) \/ RemoveFails(t) \/ Release(t) \/ Check(t)
             \/ RefreshDone(t) \/ RemoveLoop(t) \/ RemoveOne(t)
    <3>1. prefs' = prefs /\ disk' = disk /\ snap' = snap /\ accepted' = accepted
      BY <2>1 DEF Trim, Evict, Enter, Ask, Fetch, Gate, Account, Look, Size, LookAtHead,
         Prune, Test, Ready, PeekFirst, Claim, Peek, PeekFails, CallOk, CallFails, FileGone,
         RemoveHead, RemoveFails, Release, Check, RefreshDone, RemoveLoop, RemoveOne
    <3>2. QED
      BY <1>5, <3>1
  <2>2. QED
    BY <1>7, <1>8, <1>8a, <1>8b, <1>11, <2>1 DEF Step
<1>12. ASSUME NEW t \in Threads, Start(t)
      PROVE  SavedIsRun'
  <2>1. CASE \/ Trigger(t) \/ Login(t) \/ Refresh(t) \/ ClearQueue(t)
             \/ RemoveFromQueue(t)
    <3>1. prefs' = prefs /\ disk' = disk /\ snap' = snap /\ accepted' = accepted
      BY <2>1 DEF Trigger, Login, Refresh, ClearQueue, RemoveFromQueue
    <3>2. QED
      BY <1>5, <3>1
  <2>2. QED
    BY <1>6, <1>12, <2>1 DEF Start
<1>13. CASE UNCHANGED vars
  <2>1. prefs' = prefs /\ disk' = disk /\ snap' = snap /\ accepted' = accepted
    BY <1>13 DEF vars
  <2>2. QED
    BY <1>5, <2>1
<1>14. QED
  BY <1>9, <1>10, <1>11, <1>12, <1>13 DEF Next, Restart, Uncaught

(* What is in the preferences, in their file or about to be put there is a *)
(* run of what was loaded and added, although the saves of the threads     *)
(* overtake each other and the process may die between any two of them.    *)
THEOREM SavedInOrder == Spec => []SavedIsRun
<1>1. Init => QueueIsNewest
  BY NewestItself, EmptySeq DEF Init, QueueIsNewest
<1>2. QED
  BY InitIInv, NextIInv, NextNewest, InitSaved, NextSaved, <1>1, PTL DEF Spec
-------------------------------------------------------------------------------
(* What is lost.  Items leave the front of a list kept in the order of     *)
(* their numbers, so the item that a thread holds stays the oldest of all  *)
(* or is gone.                                                             *)

Sorted(s) == \A i, j \in 1 .. Len(s) : i < j => s[i] < s[j]
Below(s, n) == \A i \in 1 .. Len(s) : s[i] < n

Holding(t) ==
  \/ pc[t] \in {"call", "remove"}
  \/ PeeksBeforeClaim /\ pc[t] = "claim"

Numbered == Sorted(accepted) /\ Below(accepted, nextItem)

HeadsOldest ==
  \A t \in Threads :
    Holding(t) => /\ head[t] < nextItem
                  /\ \A k \in 1 .. Len(queue) : head[t] <= queue[k]

HeadsSent == \A t \in Threads : pc[t] = "remove" => head[t] \in delivered \cup discarded

\* A thread removes the head after its own item was sent and has been removed by
\* another thread: two threads have claimed the queue (Azure.java:376-394).
RemovesAnother ==
  \E t \in Threads :
    /\ RemoveHead(t)
    /\ head[t] \in delivered \cup discarded
    /\ head[t] \notin ToSet(queue)

\* While the process lives, an item leaves the list only when the server has it or
\* it was dropped on purpose, or by a remove(0) that came after another thread's.
LostByOverlapOnly ==
  [][ \/ Reload
      \/ RemovesAnother
      \/ ToSet(queue) \ ToSet(queue') \subseteq delivered' \cup discarded' ]_vars

LEMMA RunSorted ==
  ASSUME NEW all \in Seq(Items), NEW s \in Seq(Items), IsRun(s, all), Sorted(all),
         NEW n \in Int, Below(all, n)
  PROVE  Sorted(s) /\ Below(s, n)
<1>1. PICK i \in 0 .. Len(all) - Len(s) : s = SubSeq(all, i + 1, i + Len(s))
  BY DEF IsRun
<1>2. /\ i \in Nat /\ Len(s) \in Nat /\ Len(all) \in Nat /\ i + Len(s) <= Len(all)
  BY <1>1
<1>3. \A k \in 1 .. Len(s) : s[k] = all[i + k] /\ i + k \in 1 .. Len(all)
  <2>1. \A k \in i + 1 .. i + Len(s) : all[k] \in Items
    BY <1>2, ElementOfSeq
  <2>2. \A k \in 1 .. (i + Len(s)) - (i + 1) + 1 :
           SubSeq(all, i + 1, i + Len(s))[k] = all[(i + 1) + k - 1]
    BY <1>2, <2>1, SubSeqProperties
  <2>3. QED
    BY <1>1, <1>2, <2>2
<1>4. Below(s, n)
  BY <1>3 DEF Below
<1>5. Sorted(s)
  <2> SUFFICES ASSUME NEW a \in 1 .. Len(s), NEW b \in 1 .. Len(s), a < b
               PROVE  s[a] < s[b]
    BY DEF Sorted
  <2>1. i + a < i + b
    BY <1>2
  <2>2. all[i + a] < all[i + b]
    BY <1>3, <2>1 DEF Sorted
  <2>3. QED
    BY <1>3, <2>2
<1>6. QED
  BY <1>4, <1>5

LEMMA QueueSorted ==
  ASSUME IInv, QueueIsNewest, Numbered
  PROVE  Sorted(queue) /\ Below(queue, nextItem)
<1>1. /\ queue \in Seq(Items) /\ accepted \in Seq(Items) /\ nextItem \in Int
  BY ConstantsAssumption DEF IInv, TypeOK
<1>2. IsRun(queue, accepted)
  BY <1>1, NewestIsRun DEF QueueIsNewest
<1>3. QED
  BY <1>1, <1>2, RunSorted DEF Numbered

LEMMA NextNumbered ==
  ASSUME IInv, SavedIsRun, Numbered, [Next]_vars
  PROVE  Numbered'
<1> USE DEF Goto, Begin, Command, Discard, Fail, Saved, listVars, gateVars, flagVars,
            threadVars, historyVars, boundVars
<1>1. /\ disk \in Seq(Items) /\ accepted \in Seq(Items) /\ nextItem \in 1 .. MaxItems + 1
      /\ nextItem \in Int
  BY ConstantsAssumption DEF IInv, TypeOK
<1>2. ASSUME accepted' = accepted, nextItem' = nextItem
      PROVE  Numbered'
  BY <1>2 DEF Numbered, Sorted, Below
<1>3. ASSUME NEW t \in Threads, Add(t)
      PROVE  Numbered'
  <2>1. nextItem \in Items
    BY <1>1, <1>3, ConstantsAssumption DEF Add, Items
  <2>2. /\ accepted' = Append(accepted, nextItem) /\ nextItem' = nextItem + 1
    BY <1>3 DEF Add
  <2>3. /\ Len(accepted') = Len(accepted) + 1
        /\ \A k \in 1 .. Len(accepted) : accepted'[k] = accepted[k]
        /\ accepted'[Len(accepted) + 1] = nextItem
    BY <1>1, <2>1, <2>2, AppendProperties
  <2>4. Len(accepted) \in Nat /\ \A k \in 1 .. Len(accepted) : accepted[k] \in Int
    <3>1. \A k \in 1 .. Len(accepted) : accepted[k] \in Items
      BY <1>1, ElementOfSeq
    <3>2. Items \subseteq Int
      BY DEF Items
    <3>3. Len(accepted) \in Nat
      BY <1>1
    <3>4. QED
      BY <3>1, <3>2, <3>3
  <2>5. Below(accepted', nextItem')
    <3> SUFFICES ASSUME NEW k \in 1 .. Len(accepted')
                 PROVE  accepted'[k] < nextItem'
      BY DEF Below
    <3>1. k = Len(accepted) + 1 \/ k \in 1 .. Len(accepted)
      BY <2>3, <2>4
    <3>2. QED
      BY <1>1, <2>2, <2>3, <2>4, <3>1 DEF Numbered, Below
  <2>6. Sorted(accepted')
    <3> SUFFICES ASSUME NEW a \in 1 .. Len(accepted'), NEW b \in 1 .. Len(accepted'), a < b
                 PROVE  accepted'[a] < accepted'[b]
      BY DEF Sorted
    <3>1. a \in 1 .. Len(accepted)
      BY <2>3, <2>4
    <3>2. CASE b \in 1 .. Len(accepted)
      BY <2>3, <3>1, <3>2 DEF Numbered, Sorted
    <3>3. CASE b = Len(accepted) + 1
      BY <2>3, <3>1, <3>3 DEF Numbered, Below
    <3>4. QED
      BY <2>3, <2>4, <3>2, <3>3
  <2>7. QED
    BY <2>5, <2>6 DEF Numbered
<1>4. CASE Reload
  <2>1. accepted' = disk /\ nextItem' = nextItem
    BY <1>4 DEF Reload
  <2>2. Sorted(disk) /\ Below(disk, nextItem)
    BY <1>1, RunSorted DEF Numbered, SavedIsRun
  <2>3. QED
    BY <2>1, <2>2 DEF Numbered, Sorted, Below
<1>5. ASSUME NEW t \in Threads, Step(t)
      PROVE  Numbered'
  BY <1>2, <1>5
  DEF Step, Trim, Evict, SaveList, EndsShort, SaveFails, ApplyList, Enter, Ask, Fetch, Gate,
      Account, Look, Size, LookAtHead, Prune, Test, Ready, PeekFirst, Claim, Peek, PeekFails,
      CallOk, CallFails, FileGone, RemoveHead, RemoveFails, Release, Check, RefreshDone,
      RemoveLoop, RemoveOne
<1>6. ASSUME NEW t \in Threads, Start(t)
      PROVE  Numbered'
  BY <1>2, <1>3, <1>6 DEF Start, Trigger, Login, Refresh, ClearQueue, RemoveFromQueue
<1>7. CASE Flush \/ UNCHANGED vars
  BY <1>2, <1>7 DEF Flush, vars
<1>8. QED
  BY <1>4, <1>5, <1>6, <1>7 DEF Next, Restart, Uncaught

\* The items of a tail are items of the list.
LEMMA TailItems ==
  ASSUME NEW q \in Seq(Items), q # <<>>
  PROVE  /\ \A k \in 1 .. Len(Tail(q)) : \E j \in 1 .. Len(q) : Tail(q)[k] = q[j]
         /\ ToSet(q) \subseteq {q[1]} \cup ToSet(Tail(q))
<1>1. /\ Tail(q) \in Seq(Items) /\ Len(Tail(q)) = Len(q) - 1
      /\ \A k \in 1 .. Len(Tail(q)) : Tail(q)[k] = q[k + 1]
  BY HeadTailProperties
<1>2. Len(q) \in Nat /\ Len(q) # 0
  BY EmptySeq
<1>3. \A k \in 1 .. Len(Tail(q)) : k + 1 \in 1 .. Len(q)
  BY <1>1, <1>2
<1>4. \A j \in 1 .. Len(q) : j = 1 \/ (j - 1 \in 1 .. Len(Tail(q)) /\ q[j] = Tail(q)[j - 1])
  BY <1>1, <1>2
<1>5. \A k \in 1 .. Len(Tail(q)) : \E j \in 1 .. Len(q) : Tail(q)[k] = q[j]
  BY <1>1, <1>3
<1>6. ToSet(q) \subseteq {q[1]} \cup ToSet(Tail(q))
  <2>1. ToSet(q) = {q[j] : j \in 1 .. Len(q)}
    BY <1>2 DEF ToSet
  <2>2. ToSet(Tail(q)) = {Tail(q)[k] : k \in 1 .. Len(Tail(q))}
    <3>1. ASSUME NEW r \in Seq(Items)
          PROVE  ToSet(r) = {r[k] : k \in 1 .. Len(r)}
      BY DEF ToSet
    <3>2. QED
      BY <1>1, <3>1
  <2>3. \A j \in 1 .. Len(q) : q[j] = q[1] \/ q[j] \in ToSet(Tail(q))
    BY <1>4, <2>2
  <2>4. QED
    BY <2>1, <2>3
<1>7. QED
  BY <1>5, <1>6

LEMMA NextHeads ==
  ASSUME IInv, QueueIsNewest, Numbered, HeadsOldest, [Next]_vars
  PROVE  HeadsOldest'
<1> USE DEF Goto, Begin, Command, Discard, Fail, Saved, listVars, gateVars, flagVars,
            threadVars, historyVars, boundVars
<1>1. /\ queue \in Seq(Items) /\ pc \in [Threads -> Labels]
      /\ head \in [Threads -> Items \cup {0}] /\ nextItem \in 1 .. MaxItems + 1
      /\ nextItem \in Int
  BY ConstantsAssumption DEF IInv, TypeOK
<1>2. /\ \A i, j \in 1 .. Len(queue) : i < j => queue[i] < queue[j]
      /\ \A i \in 1 .. Len(queue) : queue[i] < nextItem /\ queue[i] \in Int
  <2>1. \A i \in 1 .. Len(queue) : queue[i] \in Items
    BY <1>1, ElementOfSeq
  <2>2. QED
    BY <2>1, QueueSorted DEF Sorted, Below, Items
<1>3. Len(queue) \in Nat /\ (queue # <<>> => 1 \in 1 .. Len(queue))
  BY <1>1, EmptySeq
<1>4. ASSUME nextItem' = nextItem,
             \A t \in Threads : Holding(t)' => Holding(t) /\ head'[t] = head[t],
             \A k \in 1 .. Len(queue') : \E j \in 1 .. Len(queue) : queue'[k] = queue[j]
      PROVE  HeadsOldest'
  BY <1>4 DEF HeadsOldest
<1>5. ASSUME queue' = queue, nextItem' = nextItem,
             NEW t \in Threads, queue # <<>>, head' = [head EXCEPT ![t] = queue[1]],
             \A u \in Threads \ {t} : Holding(u)' => Holding(u)
      PROVE  HeadsOldest'
  <2> SUFFICES ASSUME NEW u \in Threads, Holding(u)'
               PROVE  /\ head'[u] < nextItem
                      /\ \A k \in 1 .. Len(queue) : head'[u] <= queue[k]
    BY <1>5 DEF HeadsOldest
  <2>1. CASE u = t
    <3>1. head'[u] = queue[1]
      BY <1>1, <1>5, <2>1
    <3>2. \A k \in 1 .. Len(queue) : queue[1] <= queue[k]
      <4> TAKE k \in 1 .. Len(queue)
      <4>1. k = 1 \/ 1 < k
        OBVIOUS
      <4>2. QED
        BY <1>2, <1>3, <1>5, <4>1
    <3>3. QED
      BY <1>2, <1>3, <1>5, <3>1, <3>2
  <2>2. CASE u # t
    <3>1. head'[u] = head[u] /\ Holding(u)
      BY <1>1, <1>5, <2>2
    <3>2. QED
      BY <3>1 DEF HeadsOldest
  <2>3. QED
    BY <2>1, <2>2
<1>6. ASSUME queue # <<>>, queue' = Tail(queue), nextItem' = nextItem,
             \A t \in Threads : Holding(t)' => Holding(t) /\ head'[t] = head[t]
      PROVE  HeadsOldest'
  BY <1>1, <1>4, <1>6, TailItems
<1>7. ASSUME queue' = queue, nextItem' = nextItem,
             \A t \in Threads : Holding(t)' => Holding(t) /\ head'[t] = head[t]
      PROVE  HeadsOldest'
  BY <1>4, <1>7
<1>8. ASSUME NEW t \in Threads, Add(t)
      PROVE  HeadsOldest'
  <2>1. nextItem \in Items
    BY <1>1, <1>8, ConstantsAssumption DEF Add, Items
  <2>2. /\ queue' = Append(queue, nextItem) /\ nextItem' = nextItem + 1 /\ head' = head
        /\ pc' = [pc EXCEPT ![t] = "trim"]
    BY <1>8 DEF Add
  <2>3. /\ Len(queue') = Len(queue) + 1
        /\ \A k \in 1 .. Len(queue) : queue'[k] = queue[k]
        /\ queue'[Len(queue) + 1] = nextItem
    BY <1>1, <2>1, <2>2, AppendProperties
  <2> SUFFICES ASSUME NEW u \in Threads, Holding(u)'
               PROVE  /\ head'[u] < nextItem'
                      /\ \A k \in 1 .. Len(queue') : head'[u] <= queue'[k]
    BY DEF HeadsOldest
  <2>4. Holding(u)
    BY <1>1, <2>2 DEF Holding
  <2>5. head[u] \in Int /\ head[u] < nextItem /\ \A k \in 1 .. Len(queue) : head[u] <= queue[k]
    BY <1>1, <2>4 DEF HeadsOldest, Items
  <2>6. ASSUME NEW k \in 1 .. Len(queue')
        PROVE  head[u] <= queue'[k]
    <3>1. k = Len(queue) + 1 \/ k \in 1 .. Len(queue)
      BY <1>3, <2>3
    <3>2. QED
      BY <1>1, <2>3, <2>5, <3>1
  <2>7. QED
    BY <1>1, <2>2, <2>5, <2>6
<1>9. CASE Reload
  BY <1>9 DEF Reload, HeadsOldest, Holding
<1>10. ASSUME NEW t \in Threads, Step(t)
       PROVE  HeadsOldest'
  <2>1. CASE Peek(t)
    BY <1>1, <1>5, <2>1 DEF Peek, Peekable, Holding
  <2>2. CASE PeekFirst(t) /\ queue # <<>>
    BY <1>1, <1>5, <2>2 DEF PeekFirst, Holding
  <2>3. CASE Evict(t) \/ Prune(t) \/ RemoveOne(t)
    BY <1>1, <1>6, <2>3 DEF Evict, Prune, RemoveOne, Holding
  <2>4. CASE RemoveHead(t)
    BY <1>1, <1>6, <2>4 DEF RemoveHead, Holding
  <2>5. CASE PeekFirst(t) /\ queue = <<>>
    BY <1>1, <1>7, <2>5 DEF PeekFirst, Holding
  <2>6. CASE PeekFails(t) \/ CallFails(t) \/ RemoveFails(t)
    BY <1>1, <1>7, <2>6 DEF PeekFails, CallFails, RemoveFails, Holding
  <2>7. CASE SaveFails(t) \/ ApplyList(t)
    <3>1. job[t] \in {"add", "process", "prune", "command"}
      BY DEF IInv, TypeOK
    <3>2. /\ queue' = queue /\ nextItem' = nextItem /\ head' = head
          /\ \E to \in {"enter", "release", "look", "idle"} : pc' = [pc EXCEPT ![t] = to]
      BY <2>7, <3>1 DEF SaveFails, ApplyList
    <3>3. QED
      BY <1>1, <1>7, <3>2 DEF Holding
  <2>8. CASE \/ Trim(t) \/ SaveList(t) \/ EndsShort(t) \/ Enter(t) \/ Ask(t) \/ Fetch(t)
             \/ Gate(t) \/ Account(t) \/ Look(t) \/ Size(t)
    BY <1>1, <1>7, <2>8
    DEF Trim, SaveList, EndsShort, Enter, Ask, Fetch, Gate, Account, Look, Size, Holding
  <2>9. CASE LookAtHead(t)
    BY <1>1, <1>7, <2>9 DEF LookAtHead, Holding
  <2>10. CASE \/ Test(t) \/ Release(t) \/ Check(t) \/ RefreshDone(t) \/ RemoveLoop(t)
    BY <1>1, <1>7, <2>10 DEF Test, Release, Check, RefreshDone, RemoveLoop, Holding
  <2>11. CASE Ready(t)
    BY <1>1, <1>7, <2>11 DEF Ready, Holding
  <2>12. CASE Claim(t) \/ CallOk(t) \/ FileGone(t)
    BY <1>1, <1>7, <2>12 DEF Claim, CallOk, FileGone, Holding
  <2>13. QED
    BY <1>10, <2>1, <2>2, <2>3, <2>4, <2>5, <2>6, <2>7, <2>8, <2>9, <2>10, <2>11, <2>12
    DEF Step
<1>11. ASSUME NEW t \in Threads, Start(t)
       PROVE  HeadsOldest'
  <2>1. CASE ClearQueue(t)
    <3>1. Len(queue') = 0
      BY <2>1, EmptySeq DEF ClearQueue
    <3>2. QED
      BY <1>1, <1>4, <2>1, <3>1 DEF ClearQueue, Holding
  <2>2. CASE Trigger(t) \/ Login(t) \/ Refresh(t) \/ RemoveFromQueue(t)
    BY <1>1, <1>7, <2>2 DEF Trigger, Login, Refresh, RemoveFromQueue, Holding
  <2>3. QED
    BY <1>8, <1>11, <2>1, <2>2 DEF Start
<1>12. CASE Flush \/ UNCHANGED vars
  BY <1>7, <1>12 DEF Flush, vars, Holding
<1>13. QED
  BY <1>9, <1>10, <1>11, <1>12 DEF Next, Restart, Uncaught

LEMMA NextSent ==
  ASSUME IInv, HeadsSent, [Next]_vars
  PROVE  HeadsSent'
<1> USE DEF Goto, Begin, Command, Discard, Fail, Saved, listVars, gateVars, flagVars,
            threadVars, historyVars, boundVars, HeadsSent
<1>1. pc \in [Threads -> Labels] /\ head \in [Threads -> Items \cup {0}]
  BY DEF IInv, TypeOK
<1>2. ASSUME delivered \subseteq delivered', discarded \subseteq discarded',
             \A t \in Threads : pc'[t] = "remove" =>
               \/ pc[t] = "remove" /\ head'[t] = head[t]
               \/ head'[t] \in delivered' \cup discarded'
      PROVE  HeadsSent'
  BY <1>2
<1>3. CASE Reload
  BY <1>3 DEF Reload
<1>4. ASSUME NEW t \in Threads, Step(t)
      PROVE  HeadsSent'
  <2>1. CASE CallOk(t) \/ FileGone(t)
    BY <1>1, <1>2, <2>1 DEF CallOk, FileGone
  <2>2. CASE Evict(t) \/ Prune(t) \/ RemoveOne(t)
    BY <1>1, <1>2, <2>2 DEF Evict, Prune, RemoveOne
  <2>3. CASE PeekFails(t) \/ CallFails(t) \/ RemoveFails(t) \/ RemoveHead(t)
    BY <1>1, <1>2, <2>3 DEF PeekFails, CallFails, RemoveFails, RemoveHead
  <2>4. CASE Peek(t) \/ PeekFirst(t)
    BY <1>1, <1>2, <2>4 DEF Peek, PeekFirst
  <2>5. CASE SaveFails(t) \/ ApplyList(t)
    <3>1. job[t] \in {"add", "process", "prune", "command"}
      BY DEF IInv, TypeOK
    <3>2. /\ head' = head /\ delivered' = delivered /\ discarded' = discarded
          /\ \E to \in {"enter", "release", "look", "idle"} : pc' = [pc EXCEPT ![t] = to]
      BY <2>5, <3>1 DEF SaveFails, ApplyList
    <3>3. QED
      BY <1>1, <1>2, <3>2
  <2>6. CASE \/ Trim(t) \/ SaveList(t) \/ EndsShort(t) \/ Enter(t) \/ Ask(t) \/ Fetch(t)
             \/ Gate(t) \/ Account(t) \/ Look(t) \/ Size(t) \/ LookAtHead(t)
    BY <1>1, <1>2, <2>6
    DEF Trim, SaveList, EndsShort, Enter, Ask, Fetch, Gate, Account, Look, Size, LookAtHead
  <2>7. CASE \/ Test(t) \/ Ready(t) \/ Claim(t) \/ Release(t) \/ Check(t)
             \/ RefreshDone(t) \/ RemoveLoop(t)
    BY <1>1, <1>2, <2>7 DEF Test, Ready, Claim, Release, Check, RefreshDone, RemoveLoop
  <2>8. QED
    BY <1>4, <2>1, <2>2, <2>3, <2>4, <2>5, <2>6, <2>7 DEF Step
<1>5. ASSUME NEW t \in Threads, Start(t)
      PROVE  HeadsSent'
  BY <1>1, <1>2, <1>5 DEF Start, Add, Trigger, Login, Refresh, ClearQueue, RemoveFromQueue
<1>6. CASE Flush \/ UNCHANGED vars
  BY <1>2, <1>6 DEF Flush, vars
<1>7. QED
  BY <1>3, <1>4, <1>5, <1>6 DEF Next, Restart, Uncaught

(* Only a remove(0) takes an item that was neither sent nor dropped, and   *)
(* then its thread's own item has gone before.                             *)
LEMMA StepLoses ==
  ASSUME IInv, QueueIsNewest, Numbered, HeadsOldest, HeadsSent, [Next]_vars
  PROVE  \/ Reload
         \/ RemovesAnother
         \/ ToSet(queue) \ ToSet(queue') \subseteq delivered' \cup discarded'
<1> DEFINE Kept == ToSet(queue) \ ToSet(queue') \subseteq delivered' \cup discarded'
<1> USE DEF Goto, Begin, Command, Discard, Fail, Saved, listVars, gateVars, flagVars,
            threadVars, historyVars, boundVars
<1>1. /\ queue \in Seq(Items) /\ pc \in [Threads -> Labels]
      /\ head \in [Threads -> Items \cup {0}]
  BY DEF IInv, TypeOK
<1>2. Len(queue) \in Nat /\ \A i \in 1 .. Len(queue) : queue[i] \in Int
  <2>1. \A i \in 1 .. Len(queue) : queue[i] \in Items
    BY <1>1, ElementOfSeq
  <2>2. QED
    BY <1>1, <2>1 DEF Items
<1>3. ASSUME queue' = queue
      PROVE  Kept
  BY <1>3
<1>4. ASSUME queue # <<>>, queue' = Tail(queue), queue[1] \in delivered' \cup discarded'
      PROVE  Kept
  BY <1>1, <1>4, TailItems
<1>5. ASSUME NEW t \in Threads, RemoveHead(t)
      PROVE  RemovesAnother \/ Kept
  <2>1. /\ queue # <<>> /\ queue' = Tail(queue) /\ pc[t] = "remove"
        /\ delivered' = delivered /\ discarded' = discarded
    BY <1>5 DEF RemoveHead
  <2>2. head[t] \in delivered \cup discarded
    BY <2>1 DEF HeadsSent
  <2>3. CASE head[t] = queue[1]
    BY <1>4, <2>1, <2>2, <2>3
  <2>4. CASE head[t] # queue[1]
    <3>1. head[t] \in Int /\ \A k \in 1 .. Len(queue) : head[t] <= queue[k]
      BY <1>1, <2>1 DEF HeadsOldest, Holding, Items
    <3>2. 1 \in 1 .. Len(queue)
      BY <1>1, <2>1, EmptySeq
    <3>3. \A k \in 1 .. Len(queue) : head[t] # queue[k]
      <4> SUFFICES ASSUME NEW k \in 1 .. Len(queue)
                   PROVE  head[t] < queue[k]
        BY <1>2, <3>1
      <4>1. head[t] < queue[1]
        BY <1>2, <2>4, <3>1, <3>2
      <4>2. k = 1 \/ queue[1] < queue[k]
        BY <3>2, QueueSorted DEF Sorted
      <4>3. QED
        BY <1>2, <3>1, <3>2, <4>1, <4>2
    <3>4. head[t] \notin ToSet(queue)
      BY <1>1, <3>3 DEF ToSet
    <3>5. QED
      BY <1>5, <2>2, <3>4 DEF RemovesAnother
  <2>5. QED
    BY <2>3, <2>4
<1>6. ASSUME NEW t \in Threads, Evict(t) \/ Prune(t) \/ RemoveOne(t)
      PROVE  Kept
  <2>1. queue # <<>> /\ queue' = Tail(queue) /\ discarded' = discarded \cup {queue[1]}
    BY <1>6 DEF Evict, Prune, RemoveOne
  <2>2. QED
    BY <1>4, <2>1
<1>7. ASSUME NEW t \in Threads, ClearQueue(t)
      PROVE  Kept
  BY <1>7 DEF ClearQueue
<1>8. ASSUME NEW t \in Threads, Add(t)
      PROVE  Kept
  <2>1. queue' = Append(queue, nextItem)
    BY <1>8 DEF Add
  <2>2. /\ Len(queue') = Len(queue) + 1
        /\ \A k \in 1 .. Len(queue) : queue'[k] = queue[k]
        /\ queue' \in Seq(Items)
    <3>1. nextItem \in Items
      BY <1>8, ConstantsAssumption DEF IInv, TypeOK, Add, Items
    <3>2. QED
      BY <1>1, <2>1, <3>1, AppendProperties
  <2>3. ToSet(queue) \subseteq ToSet(queue')
    <3>1. ToSet(queue) = {queue[k] : k \in 1 .. Len(queue)}
      BY <1>1 DEF ToSet
    <3>2. ToSet(queue') = {queue'[k] : k \in 1 .. Len(queue')}
      BY <2>2 DEF ToSet
    <3>3. \A k \in 1 .. Len(queue) : k \in 1 .. Len(queue')
      BY <1>2, <2>2
    <3>4. QED
      BY <2>2, <3>1, <3>2, <3>3
  <2>4. QED
    BY <2>3
<1>9. ASSUME NEW t \in Threads, Step(t) \/ Start(t)
      PROVE  RemovesAnother \/ Kept
  <2>1. CASE \/ Trim(t) \/ SaveList(t) \/ EndsShort(t) \/ SaveFails(t) \/ ApplyList(t)
             \/ Enter(t) \/ Ask(t) \/ Fetch(t) \/ Gate(t) \/ Account(t) \/ Look(t)
             \/ Size(t) \/ LookAtHead(t) \/ Test(t) \/ Ready(t) \/ PeekFirst(t)
             \/ Claim(t) \/ Peek(t) \/ PeekFails(t) \/ CallOk(t) \/ CallFails(t)
             \/ FileGone(t) \/ RemoveFails(t) \/ Release(t) \/ Check(t)
             \/ RefreshDone(t) \/ RemoveLoop(t)
    <3>1. queue' = queue
      BY <2>1 DEF Trim, SaveList, EndsShort, SaveFails, ApplyList, Enter, Ask, Fetch, Gate,
         Account, Look, Size, LookAtHead, Test, Ready, PeekFirst, Claim, Peek, PeekFails,
         CallOk, CallFails, FileGone, RemoveFails, Release, Check, RefreshDone, RemoveLoop
    <3>2. QED
      BY <1>3, <3>1
  <2>2. CASE Trigger(t) \/ Login(t) \/ Refresh(t) \/ RemoveFromQueue(t)
    <3>1. queue' = queue
      BY <2>2 DEF Trigger, Login, Refresh, RemoveFromQueue
    <3>2. QED
      BY <1>3, <3>1
  <2>3. QED
    BY <1>5, <1>6, <1>7, <1>8, <1>9, <2>1, <2>2 DEF Step, Start
<1>10. CASE Flush \/ UNCHANGED vars
  <2>1. queue' = queue
    BY <1>10 DEF Flush, vars
  <2>2. QED
    BY <1>3, <2>1
<1>11. QED
  BY <1>9, <1>10 DEF Next, Restart, Uncaught

(* For any number of threads: an item that was accepted leaves the list of a *)
(* living process only when the server has processed it, when it is dropped  *)
(* on purpose, or when two threads have sent the same item and the second    *)
(* remove(0) takes the next one (Azure.java:376-394, and its siblings).      *)
THEOREM NothingElseLost == Spec => LostByOverlapOnly
<1>1. Init => QueueIsNewest /\ Numbered /\ HeadsOldest /\ HeadsSent
  <2>1. Len(<<>>) = 0
    BY EmptySeq
  <2>2. Init => Numbered
    BY <2>1 DEF Init, Numbered, Sorted, Below
  <2>3. QED
    BY <2>2, NewestItself, EmptySeq DEF Init, QueueIsNewest, HeadsOldest, HeadsSent, Holding
<1>2. QED
  BY InitIInv, NextIInv, NextNewest, InitSaved, NextSaved, NextNumbered, NextHeads, NextSent,
     StepLoses, <1>1, PTL DEF Spec, LostByOverlapOnly
===============================================================================
