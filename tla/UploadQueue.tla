----------------------------- MODULE UploadQueue -----------------------------
(***************************************************************************)
(* The upload queues of io.kasava.utilities.Azure.  Six of them share one  *)
(* protocol: Status, JourneyLog, Event, Blob, HealthCheck and Cmd.  A      *)
(* timer or a callback adds an item, drops the oldest beyond the capacity, *)
(* saves the list in SharedPreferences and starts a thread that processes  *)
(* the queue.  The processing thread tests and sets a plain boolean flag,  *)
(* sends the head, removes the head, saves, clears the flag and calls      *)
(* itself again, up to four failures in a row.  Nothing is synchronized:   *)
(* every access to a shared field and every call of the list or of its     *)
(* iterator is a step of its own here.                                     *)
(*                                                                         *)
(* Items are numbered in the order in which they are added.                *)
(***************************************************************************)
EXTENDS Integers, Sequences, FiniteSets, SequencesExt

CONSTANTS
  Kind,         \* which of the queues: one of Kinds
  Threads,      \* the Java threads; one that has ended may start again
  MaxQueue,     \* capacity: MAX_STATUS_QUEUE, MAX_EVENT_QUEUE, ...
  TryLimit,     \* failures after which a thread still tries again (3)
  MaxItems,     \* bound: items added in a behaviour
  MaxRestarts,  \* bound: restarts of the process
  MaxCommands   \* bound: push commands and subscription refreshes

Kinds == {"Status", "JourneyLog", "Event", "Blob", "HealthCheck", "Cmd"}

ASSUME ConstantsAssumption ==
  /\ Kind \in Kinds
  /\ IsFiniteSet(Threads)
  /\ MaxQueue \in Nat \ {0}
  /\ TryLimit \in Nat
  /\ MaxItems \in Nat
  /\ MaxRestarts \in Nat
  /\ MaxCommands \in Nat

Items == 1 .. MaxItems

(* How the queues differ.                                                  *)

\* HealthCheck and Cmd live in memory only; the others are saved and loaded,
\* and obey the clearQueue and removeFromQueue commands.
Persistent == Kind \notin {"HealthCheck", "Cmd"}

\* Which queues wait for an account, and which dereference mSubscription while
\* they prepare the request.
AccountGate == Kind \in {"Status", "JourneyLog", "Event"}
ReadsSubscription == Kind \in {"Status", "Event", "HealthCheck"}

\* Only processStatusQueue fetches a missing subscription itself.
Refetches == Kind = "Status"

\* JourneyLog and Blob upload files with the storage key.  They need no token,
\* a file that no longer exists counts as uploaded, and get(0) and remove(0)
\* are outside any try block.
UploadsFiles == Kind \in {"JourneyLog", "Blob"}

\* processAllQueues leaves the health checks out: only an add processes them.
Triggered == Kind # "HealthCheck"

\* processBlobQueue gets the head before it starts the thread that sets the flag,
\* inside a try block; it alone has no loop that drops invalid items first.  The
\* conditions of that loop get the head twice in JourneyLog and Event.
PeeksBeforeClaim == Kind = "Blob"
PrunesFirst == ~PeeksBeforeClaim
LooksTwice == Kind \in {"JourneyLog", "Event"}

VARIABLES
  queue,         \* the ArrayList
  prefs,         \* the list in the SharedPreferences of this process
  disk,          \* the list in the preferences file
  inProgress,    \* mStatusUpdateInProgress, ...
  tryCount,      \* mStatusTryCount, ...
  token,         \* mToken # null
  subscription,  \* mSubscription: "null", "noAccount" or "ok"
  pc,            \* what each thread does next
  job,           \* why the thread runs: "add", "process", "prune" or "command"
  head,          \* the item each thread has got and sends, 0 for none
  snap,          \* the list whose JSON text each thread makes, then the text
  nextItem,      \* the number of the next item added
  accepted,      \* history: what was loaded at the start and added since
  delivered,     \* history: the items the server has processed
  discarded,     \* history: the items dropped by eviction or by a command
  restarts,      \* counts restarts, for the bound
  commands       \* counts commands, for the bound

listVars == <<queue, prefs, disk>>
gateVars == <<token, subscription>>
flagVars == <<inProgress, tryCount>>
threadVars == <<pc, job, head, snap>>
historyVars == <<nextItem, accepted, delivered, discarded>>
boundVars == <<restarts, commands>>
vars == <<listVars, gateVars, flagVars, threadVars, historyVars, boundVars>>

Labels == {"idle", "trim", "evict", "save", "write", "put", "enter", "ask", "fetch",
           "gate", "account", "look", "size", "first", "second", "prune", "test", "ready",
           "claim", "peek", "call", "remove", "release", "check", "refresh", "loop", "drop"}

TypeOK ==
  /\ queue \in Seq(Items) /\ prefs \in Seq(Items) /\ disk \in Seq(Items)
  /\ inProgress \in BOOLEAN
  /\ tryCount \in Nat
  /\ token \in BOOLEAN
  /\ subscription \in {"null", "noAccount", "ok"}
  /\ pc \in [Threads -> Labels]
  /\ job \in [Threads -> {"add", "process", "prune", "command"}]
  /\ head \in [Threads -> Items \cup {0}]
  /\ snap \in [Threads -> Seq(Items)]
  /\ nextItem \in 1 .. MaxItems + 1
  /\ accepted \in Seq(Items)
  /\ delivered \subseteq Items /\ discarded \subseteq Items
  /\ restarts \in 0 .. MaxRestarts
  /\ commands \in 0 .. MaxCommands
-----------------------------------------------------------------------------
(* The first start of the program: nothing saved, no login yet.  The saved *)
(* subscription is a Subscription object, with or without an account.      *)
Init ==
  /\ queue = <<>> /\ prefs = <<>> /\ disk = <<>>
  /\ inProgress = FALSE /\ tryCount = 0
  /\ token = FALSE /\ subscription \in {"noAccount", "ok"}
  /\ pc = [t \in Threads |-> "idle"]
  /\ job = [t \in Threads |-> "process"]
  /\ head = [t \in Threads |-> 0]
  /\ snap = [t \in Threads |-> <<>>]
  /\ nextItem = 1 /\ accepted = <<>>
  /\ delivered = {} /\ discarded = {}
  /\ restarts = 0 /\ commands = 0

Goto(t, from, to) ==
  /\ pc[t] = from
  /\ pc' = [pc EXCEPT ![t] = to]

\* A thread that is over starts again, for another reason.
Begin(t, why, to) ==
  /\ Goto(t, "idle", to)
  /\ job' = [job EXCEPT ![t] = why]

(* The process dies (System.exit, reboot, an uncaught exception) and is    *)
(* started again: Azure.start loads what the preferences file holds.  The  *)
(* loading thread ends long before the first item can be added (13 s).     *)
Reload ==
  /\ queue' = disk /\ prefs' = disk /\ accepted' = disk
  /\ inProgress' = FALSE /\ tryCount' = 0
  /\ token' = FALSE /\ subscription' \in {"noAccount", "ok"}
  /\ pc' = [t \in Threads |-> "idle"]
  /\ job' = [t \in Threads |-> "process"]
  /\ head' = [t \in Threads |-> 0]
  /\ snap' = [t \in Threads |-> <<>>]
  /\ UNCHANGED <<disk, nextItem, delivered, discarded, commands>>

Restart ==
  /\ restarts < MaxRestarts
  /\ restarts' = restarts + 1
  /\ Reload

\* SharedPreferences.apply() reaches the file some time after it returns.
Flush ==
  /\ disk # prefs
  /\ disk' = prefs
  /\ UNCHANGED <<queue, prefs, gateVars, flagVars, threadVars, historyVars, boundVars>>
-----------------------------------------------------------------------------
(* Adding an item: append, drop the oldest while there are too many, save, *)
(* and start a processing thread.  The adder itself is then finished, so   *)
(* the thread goes on as the one it has started.                           *)

\* Mutant: the new item goes to the front of the list.
AddInFront(t) ==
  /\ nextItem <= MaxItems
  /\ Begin(t, "add", "trim")
  /\ queue' = <<nextItem>> \o queue
  /\ accepted' = Append(accepted, nextItem)
  /\ nextItem' = nextItem + 1
  /\ UNCHANGED <<prefs, disk, gateVars, flagVars, head, snap, delivered, discarded, boundVars>>

Add(t) ==
  /\ nextItem <= MaxItems
  /\ Begin(t, "add", "trim")
  /\ queue' = Append(queue, nextItem)
  /\ accepted' = Append(accepted, nextItem)
  /\ nextItem' = nextItem + 1
  /\ UNCHANGED <<prefs, disk, gateVars, flagVars, head, snap, delivered, discarded, boundVars>>

Trim(t) ==
  /\ Goto(t, "trim", IF Len(queue) > MaxQueue THEN "evict"
                     ELSE IF Persistent THEN "save" ELSE "enter")
  /\ UNCHANGED <<listVars, gateVars, flagVars, job, head, snap, historyVars, boundVars>>

\* remove(0) by other than the processing thread: the item will not be sent.
Discard(item) ==
  /\ queue' = Tail(queue)
  /\ discarded' = discarded \cup {item}
  /\ UNCHANGED <<nextItem, accepted, delivered>>

\* Mutant: a full list drops its newest item, remove(size() - 1).
EvictNewest(t) ==
  /\ queue # <<>>
  /\ Goto(t, "evict", "trim")
  /\ queue' = SubSeq(queue, 1, Len(queue) - 1)
  /\ discarded' = discarded \cup {queue[Len(queue)]}
  /\ UNCHANGED <<prefs, disk, gateVars, flagVars, job, head, snap, nextItem, accepted, delivered,
                 boundVars>>

Evict(t) ==
  /\ queue # <<>>
  /\ Goto(t, "evict", "trim")
  /\ Discard(queue[1])
  /\ UNCHANGED <<prefs, disk, gateVars, flagVars, job, head, snap, boundVars>>

(* Utilities.saveListXxx: gson iterates over the list to make its text,    *)
(* and the text is put in the preferences afterwards.  The iterator throws *)
(* when the list was changed since it was made; but before it notices, it  *)
(* ends if it has returned as many items as the list still holds.          *)

SaveList(t) ==
  /\ Goto(t, "save", "write")
  /\ snap' = [snap EXCEPT ![t] = queue]
  /\ UNCHANGED <<listVars, gateVars, flagVars, job, head, historyVars, boundVars>>

\* hasNext() finds the size it has reached: the text lacks the last items.
EndsShort(t) ==
  /\ Len(queue) < Len(snap[t])
  /\ Goto(t, "write", "put")
  /\ snap' = [snap EXCEPT ![t] = SubSeq(@, 1, Len(queue))]
  /\ UNCHANGED <<listVars, gateVars, flagVars, job, head, historyVars, boundVars>>

\* Where a thread goes on after a save.
Saved(t) ==
  /\ pc' = [pc EXCEPT ![t] = CASE job[t] = "add" -> "enter"
                               [] job[t] = "process" -> "release"
                               [] job[t] = "prune" -> "look"
                               [] job[t] = "command" -> "idle"]
  /\ tryCount' = IF job[t] = "process" THEN 0 ELSE tryCount
  /\ snap' = [snap EXCEPT ![t] = <<>>]
  /\ job' = [job EXCEPT ![t] = IF @ = "prune" THEN "process" ELSE @]

\* The exception is caught and nothing is saved.
SaveFails(t) ==
  /\ pc[t] = "write" /\ queue # snap[t]
  /\ Saved(t)
  /\ UNCHANGED <<listVars, gateVars, inProgress, head, historyVars, boundVars>>

ApplyList(t) ==
  /\ pc[t] \in {"write", "put"}
  /\ Saved(t)
  /\ prefs' = snap[t]
  /\ UNCHANGED <<queue, disk, gateVars, inProgress, head, historyVars, boundVars>>
-----------------------------------------------------------------------------
(* Processing: the body of processStatusQueue and its five siblings.       *)

\* processAllQueues (the watchdog, a login) or the processQueue command.
Trigger(t) ==
  /\ Triggered
  /\ Begin(t, "process", "enter")
  /\ UNCHANGED <<listVars, gateVars, flagVars, head, snap, historyVars, boundVars>>

Enter(t) ==
  /\ Goto(t, "enter", IF Refetches /\ token /\ subscription = "null" THEN "ask"
                      ELSE IF AccountGate THEN "gate"
                      ELSE IF PrunesFirst THEN "look" ELSE "test")
  /\ job' = [job EXCEPT ![t] = "process"]
  /\ UNCHANGED <<listVars, gateVars, flagVars, head, snap, historyVars, boundVars>>

\* updateSubscription(false) forgets what another thread may have fetched.
Ask(t) ==
  /\ Goto(t, "ask", "fetch")
  /\ subscription' = "null"
  /\ UNCHANGED <<listVars, token, flagVars, job, head, snap, historyVars, boundVars>>

\* The answer: null after an exception or an empty one.
Fetch(t) ==
  /\ Goto(t, "fetch", "gate")
  /\ subscription' \in {"null", "noAccount", "ok"}
  /\ UNCHANGED <<listVars, token, flagVars, job, head, snap, historyVars, boundVars>>

\* mSubscription == null || mSubscription.accountId == null reads the field twice.
Gate(t) ==
  /\ Goto(t, "gate", IF subscription = "null" THEN "idle" ELSE "account")
  /\ UNCHANGED <<listVars, gateVars, flagVars, job, head, snap, historyVars, boundVars>>

Account(t) ==
  /\ subscription # "null"
  /\ Goto(t, "account", IF subscription = "ok" THEN "look" ELSE "idle")
  /\ UNCHANGED <<listVars, gateVars, flagVars, job, head, snap, historyVars, boundVars>>

(* The loop over invalid items, while (!flag && !isEmpty() && get(0)...).  *)
(* The only items that become invalid are journey logs: a deleted file.    *)

Look(t) ==
  /\ Goto(t, "look", IF inProgress THEN "test" ELSE "size")
  /\ UNCHANGED <<listVars, gateVars, flagVars, job, head, snap, historyVars, boundVars>>

Size(t) ==
  /\ Goto(t, "size", IF queue = <<>> THEN "test" ELSE "first")
  /\ UNCHANGED <<listVars, gateVars, flagVars, job, head, snap, historyVars, boundVars>>

LookAtHead(t) ==
  /\ PrunesFirst /\ queue # <<>>
  /\ \/ Goto(t, "first", IF LooksTwice THEN "second" ELSE "test")
     \/ Goto(t, "second", "test")
     \/ Kind = "JourneyLog" /\ Goto(t, "second", "prune")
  /\ UNCHANGED <<listVars, gateVars, flagVars, job, head, snap, historyVars, boundVars>>

Prune(t) ==
  /\ queue # <<>>
  /\ Goto(t, "prune", "save")
  /\ job' = [job EXCEPT ![t] = "prune"]
  /\ Discard(queue[1])
  /\ UNCHANGED <<prefs, disk, gateVars, flagVars, head, snap, boundVars>>

(* The test and set of the flag.                                           *)

Test(t) ==
  /\ Goto(t, "test", IF inProgress THEN "idle" ELSE "ready")
  /\ UNCHANGED <<listVars, gateVars, flagVars, job, head, snap, historyVars, boundVars>>

\* Mutant: the queue is sent only when it holds more than one item.
ReadyTwo(t) ==
  /\ Goto(t, "ready", IF Len(queue) < 2 \/ ~(UploadsFiles \/ token) THEN "idle"
                      ELSE IF PeeksBeforeClaim THEN "first" ELSE "claim")
  /\ UNCHANGED <<listVars, gateVars, flagVars, job, head, snap, historyVars, boundVars>>

\* A token once fetched stays, so it may be read together with the list.
Ready(t) ==
  /\ Goto(t, "ready", IF queue = <<>> \/ ~(UploadsFiles \/ token) THEN "idle"
                      ELSE IF PeeksBeforeClaim THEN "first" ELSE "claim")
  /\ UNCHANGED <<listVars, gateVars, flagVars, job, head, snap, historyVars, boundVars>>

\* The get(0) of processBlobQueue; its exception is caught and the thread ends.
PeekFirst(t) ==
  /\ PeeksBeforeClaim
  /\ \/ /\ queue # <<>>
        /\ Goto(t, "first", "claim")
        /\ head' = [head EXCEPT ![t] = queue[1]]
     \/ /\ queue = <<>>
        /\ Goto(t, "first", "idle")
        /\ UNCHANGED head
  /\ UNCHANGED <<listVars, gateVars, flagVars, job, snap, historyVars, boundVars>>

Claim(t) ==
  /\ Goto(t, "claim", IF PeeksBeforeClaim THEN "call" ELSE "peek")
  /\ inProgress' = TRUE
  /\ UNCHANGED <<listVars, gateVars, tryCount, job, head, snap, historyVars, boundVars>>

\* The preparation of the request: get(0) and mSubscription.accountId.
Peekable == queue # <<>> /\ (ReadsSubscription => subscription # "null")

Peek(t) ==
  /\ Peekable
  /\ Goto(t, "peek", "call")
  /\ head' = [head EXCEPT ![t] = queue[1]]
  /\ UNCHANGED <<listVars, gateVars, flagVars, job, snap, historyVars, boundVars>>

\* An exception in the try block, or a null response.
Fail(t, from) ==
  /\ Goto(t, from, "release")
  /\ tryCount' = tryCount + 1
  /\ head' = [head EXCEPT ![t] = 0]

PeekFails(t) ==
  /\ ~UploadsFiles /\ ~Peekable
  /\ Fail(t, "peek")
  /\ UNCHANGED <<listVars, gateVars, inProgress, job, snap, historyVars, boundVars>>

CallOk(t) ==
  /\ Goto(t, "call", "remove")
  /\ delivered' = delivered \cup {head[t]}
  /\ UNCHANGED <<listVars, gateVars, flagVars, job, head, snap, nextItem, accepted, discarded,
                 boundVars>>

\* Mutant: a failed call returns without clearing the flag.
CallFailsLeaks(t) ==
  /\ Goto(t, "call", "check")
  /\ tryCount' = tryCount + 1
  /\ head' = [head EXCEPT ![t] = 0]
  /\ delivered' \in {delivered, delivered \cup {head[t]}}
  /\ UNCHANGED <<listVars, gateVars, inProgress, job, snap, nextItem, accepted, discarded,
                 boundVars>>

\* Mutant: the head is removed whatever the call returned.
CallFailsRemoves(t) ==
  /\ Goto(t, "call", "remove")
  /\ tryCount' = tryCount + 1
  /\ delivered' \in {delivered, delivered \cup {head[t]}}
  /\ UNCHANGED <<listVars, gateVars, inProgress, job, head, snap, nextItem, accepted, discarded,
                 boundVars>>

\* Mutant: the tries are counted down instead of up.
CallFailsDown(t) ==
  /\ Goto(t, "call", "release")
  /\ tryCount' = tryCount - 1
  /\ head' = [head EXCEPT ![t] = 0]
  /\ delivered' \in {delivered, delivered \cup {head[t]}}
  /\ UNCHANGED <<listVars, gateVars, inProgress, job, snap, nextItem, accepted, discarded,
                 boundVars>>

\* The request never arrives, or it arrives and the response is lost.
CallFails(t) ==
  /\ Fail(t, "call")
  /\ delivered' \in {delivered, delivered \cup {head[t]}}
  /\ UNCHANGED <<listVars, gateVars, inProgress, job, snap, nextItem, accepted, discarded,
                 boundVars>>

\* uploadBlobToAzure finds no file and reports success.
FileGone(t) ==
  /\ UploadsFiles
  /\ Goto(t, "call", "remove")
  /\ discarded' = discarded \cup {head[t]}
  /\ UNCHANGED <<listVars, gateVars, flagVars, job, head, snap, nextItem, accepted, delivered,
                 boundVars>>

RemoveHead(t) ==
  /\ queue # <<>>
  /\ Goto(t, "remove", IF Persistent THEN "save" ELSE "release")
  /\ queue' = Tail(queue)
  /\ head' = [head EXCEPT ![t] = 0]
  /\ tryCount' = IF Persistent THEN tryCount ELSE 0
  /\ UNCHANGED <<prefs, disk, gateVars, inProgress, job, snap, historyVars, boundVars>>

RemoveFails(t) ==
  /\ ~UploadsFiles /\ queue = <<>>
  /\ Fail(t, "remove")
  /\ UNCHANGED <<listVars, gateVars, inProgress, job, snap, historyVars, boundVars>>

\* Mutant: the flag is cleared only after a success.
ReleaseOnSuccess(t) ==
  /\ Goto(t, "release", "check")
  /\ inProgress' = (tryCount > 0)
  /\ UNCHANGED <<listVars, gateVars, tryCount, job, head, snap, historyVars, boundVars>>

Release(t) ==
  /\ Goto(t, "release", "check")
  /\ inProgress' = FALSE
  /\ UNCHANGED <<listVars, gateVars, tryCount, job, head, snap, historyVars, boundVars>>

\* Mutant: giving up does not forget the failures.
CheckKeepsCount(t) ==
  /\ Goto(t, "check", IF tryCount > TryLimit THEN "idle" ELSE "enter")
  /\ UNCHANGED <<listVars, gateVars, flagVars, job, head, snap, historyVars, boundVars>>

\* Give up and forget the failures, or sleep and process the queue again.
Check(t) ==
  /\ Goto(t, "check", IF tryCount > TryLimit THEN "idle" ELSE "enter")
  /\ tryCount' = IF tryCount > TryLimit THEN 0 ELSE tryCount
  /\ UNCHANGED <<listVars, gateVars, inProgress, job, head, snap, historyVars, boundVars>>
-----------------------------------------------------------------------------
(* The connection to the server and the commands it pushes.                *)

Login(t) ==
  /\ ~token
  /\ Begin(t, "process", IF Triggered THEN "enter" ELSE "idle")
  /\ token' = TRUE
  /\ UNCHANGED <<listVars, subscription, flagVars, head, snap, historyVars, boundVars>>

Command(t, to) ==
  /\ commands < MaxCommands
  /\ commands' = commands + 1
  /\ Begin(t, "command", to)

\* updateSubscription(true) forgets the subscription before it asks again.
Refresh(t) ==
  /\ token
  /\ Command(t, "refresh")
  /\ subscription' = "null"
  /\ UNCHANGED <<listVars, token, flagVars, head, snap, historyVars, restarts>>

RefreshDone(t) ==
  /\ subscription' \in {"null", "noAccount", "ok"}
  /\ Goto(t, "refresh", IF subscription' = "ok" /\ Triggered THEN "enter" ELSE "idle")
  /\ UNCHANGED <<listVars, token, flagVars, job, head, snap, historyVars, boundVars>>

ClearQueue(t) ==
  /\ Persistent
  /\ Command(t, "save")
  /\ queue' = <<>>
  /\ discarded' = discarded \cup ToSet(queue)
  /\ UNCHANGED <<prefs, disk, gateVars, flagVars, head, snap, nextItem, accepted, delivered,
                 restarts>>

\* An operation of Azure.java and a broadcast of the service that no push
\* message reaches at present (PushReceiver.java:65 compares the whole text).
RemoveFromQueue(t) ==
  /\ Persistent
  /\ Command(t, "loop")
  /\ UNCHANGED <<listVars, gateVars, flagVars, head, snap, historyVars, restarts>>

\* The quantity is any number: the loop may end before any iteration.
RemoveLoop(t) ==
  /\ \/ Goto(t, "loop", "save")
     \/ queue # <<>> /\ Goto(t, "loop", "drop")
  /\ UNCHANGED <<listVars, gateVars, flagVars, job, head, snap, historyVars, boundVars>>

RemoveOne(t) ==
  /\ queue # <<>>
  /\ Goto(t, "drop", "loop")
  /\ Discard(queue[1])
  /\ UNCHANGED <<prefs, disk, gateVars, flagVars, job, head, snap, boundVars>>

(* remove(0) or get(0) on a list another thread has emptied, or the account *)
(* of a subscription another thread has forgotten, outside a try block: the *)
(* exception ends the process.                                              *)
Uncaught(t) ==
  /\ \/ queue = <<>> /\ pc[t] \in {"evict", "drop", "prune", "second"}
     \/ queue = <<>> /\ pc[t] = "first" /\ PrunesFirst
     \/ queue = <<>> /\ pc[t] \in {"peek", "remove"} /\ UploadsFiles
     \/ subscription = "null" /\ pc[t] = "account"
  /\ Reload
  /\ UNCHANGED restarts
-----------------------------------------------------------------------------
\* Whatever a running thread does next, whoever started it.
Step(t) ==
  \/ Trim(t) \/ Evict(t) \/ SaveList(t) \/ EndsShort(t) \/ SaveFails(t) \/ ApplyList(t)
  \/ Enter(t) \/ Ask(t) \/ Fetch(t) \/ Gate(t) \/ Account(t)
  \/ Look(t) \/ Size(t) \/ LookAtHead(t) \/ Prune(t)
  \/ Test(t) \/ Ready(t) \/ PeekFirst(t) \/ Claim(t)
  \/ Peek(t) \/ PeekFails(t) \/ CallOk(t) \/ CallFails(t) \/ FileGone(t)
  \/ RemoveHead(t) \/ RemoveFails(t) \/ Release(t) \/ Check(t)
  \/ RefreshDone(t) \/ RemoveLoop(t) \/ RemoveOne(t)

Start(t) ==
  \/ Add(t) \/ Trigger(t) \/ Login(t)
  \/ Refresh(t) \/ ClearQueue(t) \/ RemoveFromQueue(t)

Next ==
  \/ \E t \in Threads : Step(t) \/ Start(t) \/ Uncaught(t)
  \/ Restart
  \/ Flush

Spec == Init /\ [][Next]_vars

(* Fairness.  The scheduler runs every started thread, until it ends or an *)
(* exception ends the process, and every HTTP call returns or times out;   *)
(* login is retried every 30 s; the watchdog, the next item or the next    *)
(* command triggers the queue again; apply() reaches the file.  That a     *)
(* call tried for ever succeeds once is an assumption on the network,      *)
(* needed by Drains alone.                                                 *)
ThreadFairness ==
  /\ \A t \in Threads : WF_vars(Step(t) \/ Uncaught(t))
  /\ WF_vars(Flush)

NetworkFairness ==
  /\ SF_vars(\E t \in Threads : Login(t))
  /\ SF_vars(\E t \in Threads : Trigger(t))
  /\ \A t \in Threads : SF_vars(CallOk(t))

FairSpec == Spec /\ ThreadFairness
OnlineSpec == FairSpec /\ NetworkFairness
-----------------------------------------------------------------------------
(* Properties.                                                             *)

Processing(t) ==
  \/ pc[t] \in {"peek", "call", "remove", "release"}
  \/ job[t] = "process" /\ pc[t] \in {"save", "write", "put"}

\* The in-progress flag is never left set with no thread inside the section
\* that will clear it, whatever fails in between: a queue whose flag leaks is
\* not uploaded again until the program restarts.
FlagHasOwner == inProgress => \E t \in Threads : Processing(t)

\* The failure counter, shared by all processing threads, exceeds the limit
\* only by the threads that have failed and not yet looked at it, so a queue
\* never makes more attempts in a row than the code intends.
Undecided == {t \in Threads : pc[t] \in {"release", "check"}}
RetryBudget == tryCount <= TryLimit + Cardinality(Undecided)

IsNewest(s, all) == \E i \in 0 .. Len(all) : s = SubSeq(all, i + 1, Len(all))

\* Whoever removes items (processing, eviction, clearQueue, removeFromQueue)
\* takes the oldest: the list in memory is always the newest part of what was
\* loaded and added, in the order in which it was added.
QueueIsNewest == IsNewest(queue, accepted)

IsRun(s, all) ==
  \E i \in 0 .. Len(all) - Len(s) : s = SubSeq(all, i + 1, i + Len(s))

\* What is saved, or about to be, is a run of what was added with no gap and no
\* item out of order, although the list changes while its text is made and the
\* saves of different threads overtake each other (Utilities.java:1359-1371).
SavedIsRun ==
  \A s \in {prefs, disk} \cup {snap[t] : t \in Threads} : IsRun(s, accepted)

\* A claimed flag is cleared again, whatever the calls return.
FlagIsReleased == inProgress ~> ~inProgress

\* Once the account stays known, calls succeed again and again and no exception
\* ends the process any more, a queue that is no longer added to is emptied for
\* good, in spite of races, retries and attempts given up (Azure.java:358-427).
Dies == \E t \in Threads : Uncaught(t)
Drains ==
  /\ <>[](subscription = "ok")
  /\ <>[][~Dies]_vars
  => <>[](queue = <<>>)
=============================================================================
