------------------------- MODULE RecorderLifecycleProofs -------------------------
(***************************************************************************)
(* Theorems about when the camera records, for any number of changes, of   *)
(* live views and of stops put off, and for any delays that                *)
(* TicksAssumption allows: the types, one recorder at a time, no start     *)
(* without handlers and no restart without a fault; and that the camera    *)
(* stops and records in time if Android is as quick as QuickStop and Quick *)
(* say.                                                                    *)
(***************************************************************************)
EXTENDS RecorderLifecycle, TLAPS

(* The pending timers, and everything else.                                *)
TimerType == timer \in [Timers -> SUBSET (0..8)]
FlagType ==
  /\ line \in BOOLEAN /\ moving \in BOOLEAN /\ working \in BOOLEAN /\ dated \in BOOLEAN
  /\ shaken \in BOOLEAN /\ shook \in BOOLEAN /\ posted \in BOOLEAN
  /\ handlers \in BOOLEAN /\ live \in BOOLEAN /\ lateLive \in BOOLEAN
  /\ fault \in BOOLEAN
CountType ==
  /\ changes \in 0..MaxChanges
  /\ offCount \in Nat
  /\ recCheck \in 0..MaxRecCheck
  /\ postponed \in 0..2
  /\ steady \in 0..Longest
PlaceType ==
  /\ process \in {"up", "failing", "rebooting", "crashed", "ended"}
  /\ state \in {"NOT_RECORDING", "PREPARING", "RECORDING"}
  /\ activity \in {"none", "starting", "recording", "stopping"}
RestType == FlagType /\ CountType /\ PlaceType

LEMMA TypeParts == TypeOK <=> TimerType /\ RestType
  BY DEF TypeOK, TimerType, RestType, FlagType, CountType, PlaceType

\* Setting a timer, and taking those that are due.
LEMMA TimerSet ==
  ASSUME NEW f \in [Timers -> SUBSET (0..8)], NEW t \in Timers, NEW d \in 0..8
  PROVE  Set(f, t, d) \in [Timers -> SUBSET (0..8)]
  BY DEF Set

LEMMA TimerFired ==
  ASSUME TimerType, NEW t \in Timers
  PROVE  Fired(t) \in [Timers -> SUBSET (0..8)]
  BY DEF Fired, TimerType

LEMMA InitType == Init => TypeOK
<1> SUFFICES ASSUME Init PROVE TypeOK
  OBVIOUS
<1>1. TimerType
  BY DEF Init, TimerType, IgnitionInterval
<1>2. changes \in 0..MaxChanges
  BY TicksAssumption DEF Init
<1>3. RestType
  <2>1. CountType
    BY <1>2 DEF Init, CountType, MaxRecCheck, Longest
  <2>2. FlagType /\ PlaceType
    BY DEF Init, FlagType, PlaceType
  <2>3. QED
    BY <2>1, <2>2 DEF RestType
<1>4. QED
  BY <1>1, <1>3, TypeParts

\* stopRecording() sets at most one timer.
LEMMA StopKeepsTypes ==
  ASSUME RestType, NEW f \in [Timers -> SUBSET (0..8)], StopRecording(f)
  PROVE  /\ TimerType'
         /\ activity' \in {"none", "starting", "recording", "stopping"}
         /\ handlers' \in BOOLEAN /\ live' \in BOOLEAN /\ lateLive' \in BOOLEAN
         /\ postponed' \in 0..2
<1> USE DEF StopRecording, PutOff, RestType, FlagType, CountType, PlaceType
<1>1. timer' \in {f, Set(f, "retry", 6), Set(f, "close", CloseTicks)}
  OBVIOUS
<1>2. "retry" \in Timers /\ "close" \in Timers /\ 6 \in 0..8 /\ CloseTicks \in 0..8
  BY TicksAssumption DEF Timers
<1>3. TimerType'
  BY <1>1, <1>2, TimerSet DEF TimerType
<1>4. postponed' \in 0..2
  BY DEF StopRecording
<1>5. QED
  BY <1>3, <1>4

\* The timers stay within eight ticks.
LEMMA NextTimer == TypeOK /\ [Next]_vars => TimerType'
<1> SUFFICES ASSUME TypeOK, [Next]_vars PROVE TimerType'
  OBVIOUS
<1> USE DEF world, recorder
<1>0. TimerType /\ RestType
  BY TypeParts
<1>1. CASE Pass
  <2>1. timer' = [t \in Timers |-> {IF d = 0 THEN 0 ELSE d - 1 : d \in timer[t]}]
    BY <1>1 DEF Pass
  <2>2. ASSUME NEW t \in Timers
        PROVE  {IF d = 0 THEN 0 ELSE d - 1 : d \in timer[t]} \subseteq 0..8
    <3>1. timer[t] \subseteq 0..8
      BY <1>0 DEF TimerType
    <3>2. QED
      BY <3>1
  <2>3. QED
    BY <2>1, <2>2 DEF TimerType
<1>2. CASE Restart
  <2>1. timer' = [t \in Timers |-> IF t = "ignition" THEN {IgnitionInterval} ELSE {}]
    BY <1>2 DEF Restart
  <2>2. QED
    BY <2>1 DEF TimerType, IgnitionInterval
<1>3. CASE IgnitionBegin
  <2>1. timer' = [timer EXCEPT !["ignition"] = {IgnitionInterval}, !["sample"] = {1}]
    BY <1>3 DEF IgnitionBegin
  <2>2. {IgnitionInterval} \in SUBSET (0..8) /\ {1} \in SUBSET (0..8)
    BY DEF IgnitionInterval
  <2>3. QED
    BY <1>0, <2>1, <2>2 DEF TimerType
<1>4. CASE IgnitionDecide
  <2>1. {"sample", "confirm", "nap"} \subseteq Timers /\ {1, 6} \subseteq 0..8
    BY DEF Timers
  <2>2. Sampled \in [Timers -> SUBSET (0..8)]
    BY <1>0, <2>1, TimerFired, TimerSet DEF Sampled
  <2>3. \/ timer' = Sampled
        \/ \E d \in {1, 6} : timer' = Set(Sampled, "nap", d)
    BY <1>4 DEF IgnitionDecide, Fail
  <2>4. QED
    BY <2>1, <2>2, <2>3, TimerSet DEF TimerType
<1>5. CASE Confirm
  <2>1. {"confirm", "launch"} \subseteq Timers /\ WakeTicks \subseteq 0..8
    BY TicksAssumption DEF Timers
  <2>2. \/ timer' = Fired("confirm")
        \/ \E d \in WakeTicks : timer' = Set(Fired("confirm"), "launch", d)
    BY <1>5 DEF Confirm
  <2>3. "confirm" \in Timers /\ "launch" \in Timers /\ \A d \in WakeTicks : d \in 0..8
    BY <2>1
  <2>4. Fired("confirm") \in [Timers -> SUBSET (0..8)]
    BY <1>0, <2>3, TimerFired
  <2>5. QED
    BY <2>2, <2>3, <2>4, TimerSet DEF TimerType
<1>6. CASE Launch
  <2>1. "launch" \in Timers /\ "open" \in Timers /\ OpenTicks \in 0..8
    BY TicksAssumption DEF Timers
  <2>2. timer' = Set(Fired("launch"), "open", OpenTicks)
    BY <1>6 DEF Launch
  <2>3. QED
    BY <1>0, <2>1, <2>2, TimerFired, TimerSet DEF TimerType
<1>7. CASE OnStart
  <2>1. timer' = [timer EXCEPT !["open"] = {}, !["prepare"] = @ \cup {4}]
    BY <1>7 DEF OnStart
  <2>2. timer["prepare"] \cup {4} \subseteq 0..8
    BY <1>0 DEF TimerType, Timers
  <2>3. QED
    BY <1>0, <2>1, <2>2 DEF TimerType
<1>8. CASE Prepared
  <2>1. Fired("prepare") \in [Timers -> SUBSET (0..8)]
    BY <1>0, TimerFired DEF Timers
  <2>2. timer' = Fired("prepare") \/ StopRecording(Fired("prepare"))
    BY <1>8 DEF Prepared, StartRecording
  <2>3. QED
    BY <1>0, <2>1, <2>2, StopKeepsTypes DEF TimerType
<1>9. CASE Retry
  <2>1. Fired("retry") \in [Timers -> SUBSET (0..8)]
    BY <1>0, TimerFired DEF Timers
  <2>2. QED
    BY <1>0, <1>9, <2>1, StopKeepsTypes DEF Retry
<1>10. CASE HandleIgnitionOff
  <2>1. timer' = timer \/ StopRecording(timer)
    BY <1>10 DEF HandleIgnitionOff
  <2>2. QED
    BY <1>0, <2>1, StopKeepsTypes DEF TimerType
<1>11. CASE LateRetry
  <2>1. "late" \in Timers /\ 6 \in 0..8
    BY DEF Timers
  <2>2. timer' = Fired("late") \/ timer' = Set(Fired("late"), "late", 6)
    BY <1>11 DEF LateRetry
  <2>3. QED
    BY <1>0, <2>1, <2>2, TimerFired, TimerSet DEF TimerType
<1>12. CASE OnStop
  <2>1. timer' = [timer EXCEPT !["close"] = {}, !["retry"] = {},
                               !["late"] = @ \cup timer["retry"]]
    BY <1>12 DEF OnStop
  <2>2. timer["late"] \cup timer["retry"] \subseteq 0..8
    BY <1>0 DEF TimerType, Timers
  <2>3. QED
    BY <1>0, <2>1, <2>2 DEF TimerType
<1>13. CASE \/ Turn \/ Move \/ Break \/ SetDate \/ RebootCommand \/ EndProcess
            \/ LiveViewStart \/ LiveViewStop \/ UNCHANGED vars
  <2>1. timer' = timer
    BY <1>13 DEF Turn, Move, Break, SetDate, RebootCommand, EndProcess, Change, LiveViewStart,
       LiveViewStop, vars
  <2>2. QED
    BY <1>0, <2>1 DEF TimerType
<1>14. QED
  BY <1>1, <1>2, <1>3, <1>4, <1>5, <1>6, <1>7, <1>8, <1>9, <1>10, <1>11, <1>12, <1>13
     DEF Next

\* The other variables keep their types.
LEMMA NextRest == TypeOK /\ [Next]_vars => RestType'
<1> SUFFICES ASSUME TypeOK, [Next]_vars PROVE RestType'
  OBVIOUS
<1>0. TimerType /\ RestType
  BY TypeParts
<1> USE TicksAssumption DEF RestType, FlagType, CountType, PlaceType, MaxRecCheck, Longest,
   world, recorder
<1>1. CASE Pass
  <2>1. steady' \in 0..64 /\ recCheck' \in 0..8
    BY <1>0, <1>1 DEF Pass
  <2>2. fault' \in BOOLEAN /\ shaken' \in BOOLEAN
    BY <1>1 DEF Pass
  <2>3. UNCHANGED <<line, moving, working, dated, changes, process, shook, state, offCount,
                    posted, activity, handlers, live, lateLive,
                    postponed>>
    BY <1>1 DEF Pass
  <2>4. QED
    BY <1>0, <2>1, <2>2, <2>3
<1>2. CASE Turn \/ Move \/ Break
  <2>1. FlagType'
    <3>1. line' \in BOOLEAN /\ moving' \in BOOLEAN /\ working' \in BOOLEAN
      BY <1>0, <1>2 DEF Turn, Move, Break
    <3>2. UNCHANGED <<dated, shaken, shook, posted, handlers, live, lateLive, fault>>
      BY <1>2 DEF Turn, Move, Break, Change
    <3>3. QED
      BY <1>0, <3>1, <3>2
  <2>2. CountType'
    BY <1>0, <1>2 DEF Turn, Move, Break, Change
  <2>3. PlaceType'
    BY <1>0, <1>2 DEF Turn, Move, Break, Change
  <2>4. QED
    BY <2>1, <2>2, <2>3
<1>3. CASE SetDate \/ Restart
  <2>1. FlagType'
    BY <1>0, <1>3 DEF SetDate, Restart
  <2>2. CountType'
    BY <1>0, <1>3 DEF SetDate, Restart
  <2>3. PlaceType'
    BY <1>0, <1>3 DEF SetDate, Restart
  <2>4. QED
    BY <2>1, <2>2, <2>3
<1>4. CASE IgnitionBegin
  <2>1. FlagType'
    BY <1>0, <1>4 DEF IgnitionBegin
  <2>2. CountType'
    BY <1>0, <1>4 DEF IgnitionBegin
  <2>3. PlaceType'
    BY <1>0, <1>4 DEF IgnitionBegin
  <2>4. QED
    BY <2>1, <2>2, <2>3
<1>5. CASE IgnitionDecide
  <2>1. offCount' \in Nat
    BY <1>0, <1>5 DEF IgnitionDecide, OffCount
  <2>2. recCheck' \in 0..8
    <3>1. RecCheck \in Nat
      BY <1>0 DEF RecCheck
    <3>2. recCheck' = 0 \/ (RecCheck <= 8 /\ recCheck' = RecCheck)
      BY <1>5 DEF IgnitionDecide, Fail
    <3>3. QED
      BY <3>1, <3>2
  <2>3. process' \in {"up", "failing", "rebooting", "crashed", "ended"}
    BY <1>0, <1>5 DEF IgnitionDecide, Fail
  <2>4. posted' \in BOOLEAN /\ fault' \in BOOLEAN /\ shook' \in BOOLEAN
    BY <1>0, <1>5 DEF IgnitionDecide, Fail
  <2>5. UNCHANGED <<line, moving, working, dated, changes, shaken, state, activity, handlers,
                    live, lateLive, postponed, steady>>
    BY <1>5 DEF IgnitionDecide
  <2>6. QED
    BY <1>0, <2>1, <2>2, <2>3, <2>4, <2>5
<1>6. CASE Confirm \/ Launch
  <2>1. FlagType'
    <3>1. fault' \in BOOLEAN
      BY <1>0, <1>6 DEF Confirm, Launch
    <3>2. UNCHANGED <<world, shaken, shook, posted, recorder>>
      BY <1>6 DEF Confirm, Launch
    <3>3. QED
      BY <1>0, <3>1, <3>2
  <2>2. CountType'
    BY <1>0, <1>6 DEF Confirm, Launch
  <2>3. PlaceType'
    BY <1>0, <1>6 DEF Confirm, Launch
  <2>4. QED
    BY <2>1, <2>2, <2>3
<1>7. CASE RebootCommand
  <2>1. FlagType'
    BY <1>0, <1>7 DEF RebootCommand, Change
  <2>2. CountType'
    BY <1>0, <1>7 DEF RebootCommand, Change
  <2>3. PlaceType'
    BY <1>0, <1>7 DEF RebootCommand, Change
  <2>4. QED
    BY <2>1, <2>2, <2>3
<1>8. CASE EndProcess
  BY <1>0, <1>8 DEF EndProcess
<1>9. CASE OnStart
  <2>1. FlagType'
    BY <1>0, <1>9 DEF OnStart
  <2>2. CountType'
    BY <1>0, <1>9 DEF OnStart
  <2>3. PlaceType'
    BY <1>0, <1>9 DEF OnStart
  <2>4. QED
    BY <2>1, <2>2, <2>3
<1>10. CASE Prepared
  <2>1. Fired("prepare") \in [Timers -> SUBSET (0..8)]
    BY <1>0, TimerFired DEF Timers
  <2>2. fault' \in BOOLEAN
    BY <1>0, <1>10 DEF Prepared
  <2>3. UNCHANGED <<line, moving, working, dated, changes, shaken, shook, offCount, recCheck,
                    posted, steady>>
    BY <1>10 DEF Prepared
  <2>4. CASE StartRecording
    BY <1>0, <2>2, <2>3, <2>4 DEF StartRecording
  <2>5. CASE StopRecording(Fired("prepare")) /\ UNCHANGED <<process, state>>
    BY <1>0, <2>1, <2>2, <2>3, <2>5, StopKeepsTypes
  <2>6. QED
    BY <1>10, <2>4, <2>5 DEF Prepared
<1>11. CASE Retry
  <2>1. Fired("retry") \in [Timers -> SUBSET (0..8)]
    BY <1>0, TimerFired DEF Timers
  <2>2. /\ activity' \in {"none", "starting", "recording", "stopping"}
        /\ handlers' \in BOOLEAN /\ live' \in BOOLEAN /\ lateLive' \in BOOLEAN
        /\ postponed' \in 0..2
    BY <1>0, <1>11, <2>1, StopKeepsTypes DEF Retry
  <2>3. QED
    BY <1>0, <1>11, <2>2 DEF Retry
<1>12. CASE HandleIgnitionOff
  <2>1. /\ activity' \in {"none", "starting", "recording", "stopping"}
        /\ handlers' \in BOOLEAN /\ live' \in BOOLEAN /\ lateLive' \in BOOLEAN
        /\ postponed' \in 0..2
    BY <1>0, <1>12, StopKeepsTypes DEF HandleIgnitionOff, TimerType
  <2>2. QED
    BY <1>0, <1>12, <2>1 DEF HandleIgnitionOff
<1>13. CASE LiveViewStart
  BY <1>0, <1>13 DEF LiveViewStart
<1>14. CASE LiveViewStop \/ OnStop
  <2>1. FlagType'
    <3>1. handlers' \in BOOLEAN /\ live' \in BOOLEAN /\ lateLive' \in BOOLEAN
      BY <1>0, <1>14 DEF LiveViewStop, OnStop
    <3>2. UNCHANGED <<world, shaken, shook, posted, fault>>
      BY <1>14 DEF LiveViewStop, OnStop
    <3>3. QED
      BY <1>0, <3>1, <3>2
  <2>2. CountType'
    BY <1>0, <1>14 DEF LiveViewStop, OnStop
  <2>3. PlaceType'
    BY <1>0, <1>14 DEF LiveViewStop, OnStop
  <2>4. QED
    BY <2>1, <2>2, <2>3
<1>15. CASE LateRetry
  <2>1. FlagType'
    BY <1>0, <1>15 DEF LateRetry
  <2>2. CountType'
    BY <1>0, <1>15 DEF LateRetry, PutOff
  <2>3. PlaceType'
    BY <1>0, <1>15 DEF LateRetry
  <2>4. QED
    BY <2>1, <2>2, <2>3
<1>16. CASE UNCHANGED vars
  BY <1>0, <1>16 DEF vars
<1>17. QED
  BY <1>1, <1>2, <1>3, <1>4, <1>5, <1>6, <1>7, <1>8, <1>9, <1>10, <1>11, <1>12, <1>13, <1>14,
     <1>15, <1>16 DEF Next

\* Type correctness of the recorder's life cycle.
THEOREM TypeCorrect == Spec => []TypeOK
<1>1. TypeOK /\ [Next]_vars => TypeOK'
  <2> SUFFICES ASSUME TypeOK, [Next]_vars PROVE TypeOK'
    OBVIOUS
  <2>1. TimerType' /\ RestType'
    BY NextTimer, NextRest
  <2>2. QED
    BY <2>1 DEF TypeOK, TimerType, RestType, FlagType, CountType, PlaceType
<1>2. QED
  BY InitType, <1>1, PTL DEF Spec

-----------------------------------------------------------------------------
(***************************************************************************)
(* One recorder at a time, and no start without handlers.                  *)
(*                                                                         *)
(* No timer of the code is ever cancelled. That none of them meets the     *)
(* next activity follows from their delays, so the invariant relates what  *)
(* is left of each to the ignition checks, which come every eight ticks:   *)
(* a stop needs five of them, and a stop that a live view puts off is      *)
(* repeated six ticks later, two before the check that may start the next  *)
(* activity. A stop that is put off twice has no such place.               *)
(***************************************************************************)

\* The ticks left of a timer of which one at most is pending; -1 for none.
Only(S) == IF S = {} THEN -1 ELSE CHOOSE d \in S : TRUE
LeftOf(f, t) == Only(f[t])
Left(t) == LeftOf(timer, t)

\* The kinds of which one at most is pending: all but the end of an activity, the stops
\* put off and the sleep before the end of the process.
Singles == {"ignition", "sample", "confirm", "launch", "open", "prepare"}
Single(f) == \A t \in Singles : f[t] = {} \/ \E d \in 0..8 : f[t] = {d}

\* Ticks to the next decision about the ignition, and those that offCount stands for.
Ahead == IF Left("sample") >= 0 THEN Left("sample") ELSE Left("ignition") + 1
Dark == 8 * offCount + 8 - Ahead

\* One ignition check at a time, and the next one set when one begins.
Clock ==
  IF process = "up"
  THEN \/ Left("sample") = -1 /\ Left("ignition") \in 0..8
       \/ Left("sample") = 1 /\ Left("ignition") = 8
       \/ Left("sample") = 0 /\ Left("ignition") = 7
  ELSE process = "crashed" \/ Left("sample") = -1

\* Which timers are pending in which state of the recorder.
Places ==
  /\ state = "NOT_RECORDING" <=> activity = "none" /\ Left("launch") = -1 /\ Left("open") = -1
  /\ Left("confirm") >= 0 => state = "NOT_RECORDING"
  /\ Left("launch") >= 0 => activity = "none" /\ Left("open") = -1
  /\ Left("open") >= 0 => activity = "none"
  /\ Left("prepare") >= 0 => activity = "starting" /\ timer["retry"] = {}
  /\ timer["retry"] # {} => activity # "none"
  /\ timer["close"] # {} <=> activity = "stopping"
  /\ activity \in {"starting", "recording"} => handlers \/ postponed = 2
  /\ process = "crashed" => postponed = 2

\* The steps of a start come soon after a check that found the ignition on, so the
\* camera is prepared before a stop can be asked for.
Early == process = "up" =>
  /\ Left("confirm") >= 0 => offCount = 0 /\ Ahead = 7 + Left("confirm")
  /\ Left("launch") >= 0 => Dark + Left("launch") <= 9
  /\ Left("open") >= 0 => \/ Dark + Left("open") <= 17
                          \/ Left("open") = 0 /\ Ahead \in {0, 8} /\ Dark <= 18
  /\ Left("prepare") >= 0 => Dark + Left("prepare") <= 22
  /\ posted => Ahead = 8 /\ offCount >= 5

\* A stop that was put off once, because the ignition was off or the camera did not
\* work, is repeated before the next activity: in the first case before the next
\* ignition check, and in the second before the ignition can be off for long enough.
Once == postponed < 2 =>
  /\ postponed = 0 => timer["retry"] = {} /\ timer["late"] = {}
  /\ \A r, q \in timer["retry"] : r = q
  /\ process = "up" => \A r \in timer["retry"] :
       \/ r = Ahead - 2 /\ offCount >= 5
       \/ activity = "starting" /\ Dark + r <= 28
  /\ timer["late"] # {} =>
       /\ activity = "none"
       /\ Left("confirm") = -1 /\ Left("launch") = -1 /\ Left("open") = -1
       /\ process = "up" => offCount >= 5 /\ \A r \in timer["late"] : r = Ahead - 2

Timing == Clock /\ Places /\ Early /\ Once
IInv == TypeOK /\ Single(timer) /\ Timing

TimerFcn == [Timers -> SUBSET (0..8)]

\* The other timers are as before.
Others(f, g) == g["close"] = f["close"] /\ g["retry"] = f["retry"] /\ g["late"] = f["late"]

\* What is left of a timer of which one at most is pending.
LEMMA LeftInt ==
  ASSUME NEW f \in TimerFcn, Single(f), NEW t \in Singles
  PROVE  /\ LeftOf(f, t) \in -1..8
         /\ f[t] = {} <=> LeftOf(f, t) = -1
         /\ f[t] # {} => f[t] = {LeftOf(f, t)}
         /\ 0 \in f[t] <=> LeftOf(f, t) = 0
<1>1. CASE f[t] = {}
  BY <1>1 DEF LeftOf, Only
<1>2. CASE f[t] # {}
  <2>1. PICK d \in 0..8 : f[t] = {d}
    BY <1>2 DEF Single
  <2>2. LeftOf(f, t) = d
    BY <2>1 DEF LeftOf, Only
  <2>3. QED
    BY <2>1, <2>2
<1>3. QED
  BY <1>1, <1>2

\* Only the timer of one kind is set anew, or taken away.
LEMMA OneLeft ==
  ASSUME NEW f \in TimerFcn, Single(f), NEW t \in Singles, NEW d \in 0..8,
         NEW g \in TimerFcn, g[t] \in {{}, {d}}, \A u \in Timers \ {t} : g[u] = f[u]
  PROVE  /\ Single(g) /\ LeftOf(g, t) = IF g[t] = {} THEN -1 ELSE d
         /\ \A u \in Singles : u # t => LeftOf(g, u) = LeftOf(f, u)
         /\ Others(f, g)
<1> {"close", "retry", "late"} \subseteq Timers \ Singles /\ Singles \subseteq Timers
  BY DEF Singles, Timers
<1>1. Single(g)
  BY DEF Single
<1>2. LeftOf(g, t) = IF g[t] = {} THEN -1 ELSE d
  BY DEF LeftOf, Only
<1>3. \A u \in Singles : u # t => LeftOf(g, u) = LeftOf(f, u)
  BY DEF LeftOf
<1>4. Others(f, g)
  BY DEF Others
<1>5. QED
  BY <1>1, <1>2, <1>3, <1>4

\* A timer that was not pending is set.
LEMMA SetLeft ==
  ASSUME NEW f \in TimerFcn, Single(f), NEW t \in Singles, NEW d \in 0..8, LeftOf(f, t) = -1
  PROVE  /\ Set(f, t, d) \in TimerFcn /\ Single(Set(f, t, d)) /\ LeftOf(Set(f, t, d), t) = d
         /\ \A u \in Singles : u # t => LeftOf(Set(f, t, d), u) = LeftOf(f, u)
         /\ Others(f, Set(f, t, d))
<1> DEFINE g == Set(f, t, d)
<1>0. t \in Timers
  BY DEF Singles, Timers
<1>1. f[t] = {}
  BY LeftInt
<1>2. g \in TimerFcn /\ g[t] = {d} /\ \A u \in Timers \ {t} : g[u] = f[u]
  BY <1>0, <1>1 DEF Set, TimerFcn
<1> HIDE DEF g
<1>3. /\ Single(g) /\ LeftOf(g, t) = d
      /\ \A u \in Singles : u # t => LeftOf(g, u) = LeftOf(f, u)
      /\ Others(f, g)
  BY <1>2, OneLeft
<1>4. QED
  BY <1>2, <1>3 DEF g

\* A timer that is due is taken away.
LEMMA FireLeft ==
  ASSUME timer \in TimerFcn, Single(timer), NEW t \in Singles, Due(t)
  PROVE  /\ LeftOf(timer, t) = 0
         /\ Fired(t) \in TimerFcn /\ Single(Fired(t)) /\ LeftOf(Fired(t), t) = -1
         /\ \A u \in Singles : u # t => LeftOf(Fired(t), u) = LeftOf(timer, u)
         /\ Others(timer, Fired(t))
<1> DEFINE g == Fired(t)
<1>0. t \in Timers
  BY DEF Singles, Timers
<1>1. timer[t] = {0} /\ LeftOf(timer, t) = 0
  BY LeftInt DEF Due
<1>2. g \in TimerFcn /\ g[t] = {} /\ \A u \in Timers \ {t} : g[u] = timer[u]
  BY <1>0, <1>1 DEF Fired, TimerFcn
<1> HIDE DEF g
<1>3. /\ Single(g) /\ LeftOf(g, t) = -1
      /\ \A u \in Singles : u # t => LeftOf(g, u) = LeftOf(timer, u)
      /\ Others(timer, g)
  BY <1>2, OneLeft
<1>4. QED
  BY <1>1, <1>2, <1>3 DEF g

\* A timer of another kind, of which there may be more than one.
LEMMA OtherLeft ==
  ASSUME NEW f \in TimerFcn, Single(f), NEW t \in {"close", "retry", "late", "nap"},
         NEW g \in TimerFcn, \A u \in Timers \ {t} : g[u] = f[u]
  PROVE  /\ Single(g)
         /\ \A u \in Singles : LeftOf(g, u) = LeftOf(f, u)
         /\ \A u \in {"close", "retry", "late"} : u # t => g[u] = f[u]
<1> {"close", "retry", "late"} \subseteq Timers /\ Singles \subseteq Timers /\ t \notin Singles
  BY DEF Singles, Timers
<1>1. Single(g) /\ \A u \in Singles : LeftOf(g, u) = LeftOf(f, u)
  BY DEF Single, LeftOf
<1>2. QED
  BY <1>1

LEMMA OtherSet ==
  ASSUME NEW f \in TimerFcn, Single(f), NEW t \in {"close", "retry", "late", "nap"},
         NEW d \in 0..8
  PROVE  /\ Set(f, t, d) \in TimerFcn /\ Single(Set(f, t, d))
         /\ \A u \in Singles : LeftOf(Set(f, t, d), u) = LeftOf(f, u)
         /\ Set(f, t, d)[t] = f[t] \cup {d}
         /\ \A u \in {"close", "retry", "late"} : u # t => Set(f, t, d)[u] = f[u]
<1> DEFINE g == Set(f, t, d)
<1>1. t \in Timers
  BY DEF Timers
<1>2. g \in TimerFcn /\ g[t] = f[t] \cup {d} /\ \A u \in Timers \ {t} : g[u] = f[u]
  BY <1>1 DEF Set, TimerFcn
<1> HIDE DEF g
<1>3. /\ Single(g)
      /\ \A u \in Singles : LeftOf(g, u) = LeftOf(f, u)
      /\ \A u \in {"close", "retry", "late"} : u # t => g[u] = f[u]
  BY <1>2, OtherLeft
<1>4. QED
  BY <1>2, <1>3 DEF g

LEMMA OtherFired ==
  ASSUME timer \in TimerFcn, Single(timer), NEW t \in {"close", "retry", "late", "nap"}
  PROVE  /\ Fired(t) \in TimerFcn /\ Single(Fired(t))
         /\ \A u \in Singles : LeftOf(Fired(t), u) = LeftOf(timer, u)
         /\ Fired(t)[t] = timer[t] \ {0}
         /\ \A u \in {"close", "retry", "late"} : u # t => Fired(t)[u] = timer[u]
<1> DEFINE g == Fired(t)
<1>1. t \in Timers
  BY DEF Timers
<1>2. g \in TimerFcn /\ g[t] = timer[t] \ {0} /\ \A u \in Timers \ {t} : g[u] = timer[u]
  BY <1>1 DEF Fired, TimerFcn
<1> HIDE DEF g
<1>3. /\ Single(g)
      /\ \A u \in Singles : LeftOf(g, u) = LeftOf(timer, u)
      /\ \A u \in {"close", "retry", "late"} : u # t => g[u] = timer[u]
  BY <1>2, OtherLeft
<1>4. QED
  BY <1>2, <1>3 DEF g

\* The timer of a kind is set, or set anew; the timer of a kind is gone.
Put(f, t, d) == [f EXCEPT ![t] = {d}]
Clear(f, t) == [f EXCEPT ![t] = {}]

LEMMA PutLeft ==
  ASSUME NEW f \in TimerFcn, Single(f), NEW t \in Singles, NEW d \in 0..8
  PROVE  /\ Put(f, t, d) \in TimerFcn /\ Single(Put(f, t, d)) /\ LeftOf(Put(f, t, d), t) = d
         /\ \A u \in Singles : u # t => LeftOf(Put(f, t, d), u) = LeftOf(f, u)
         /\ Others(f, Put(f, t, d))
<1> DEFINE g == Put(f, t, d)
<1>1. t \in Timers
  BY DEF Singles, Timers
<1>2. g \in TimerFcn /\ g[t] = {d} /\ \A u \in Timers \ {t} : g[u] = f[u]
  BY <1>1 DEF TimerFcn, Put
<1> HIDE DEF g
<1>3. /\ Single(g) /\ LeftOf(g, t) = d
      /\ \A u \in Singles : u # t => LeftOf(g, u) = LeftOf(f, u)
      /\ Others(f, g)
  BY <1>2, OneLeft
<1>4. QED
  BY <1>2, <1>3 DEF g

LEMMA ClearLeft ==
  ASSUME NEW f \in TimerFcn, Single(f), NEW t \in Singles
  PROVE  /\ Clear(f, t) \in TimerFcn /\ Single(Clear(f, t)) /\ LeftOf(Clear(f, t), t) = -1
         /\ \A u \in Singles : u # t => LeftOf(Clear(f, t), u) = LeftOf(f, u)
         /\ Others(f, Clear(f, t))
<1> DEFINE g == Clear(f, t)
<1>1. t \in Timers /\ 0 \in 0..8
  BY DEF Singles, Timers
<1>2. g \in TimerFcn /\ g[t] = {} /\ \A u \in Timers \ {t} : g[u] = f[u]
  BY <1>1 DEF TimerFcn, Clear
<1> HIDE DEF g
<1>3. /\ Single(g) /\ LeftOf(g, t) = -1
      /\ \A u \in Singles : u # t => LeftOf(g, u) = LeftOf(f, u)
      /\ Others(f, g)
  BY <1>1, <1>2, OneLeft
<1>4. QED
  BY <1>2, <1>3 DEF g

\* A tick passes.
Tick(S) == {IF d = 0 THEN 0 ELSE d - 1 : d \in S}

LEMMA PassLeft ==
  ASSUME timer \in TimerFcn, Single(timer), Pass
  PROVE  /\ timer' \in TimerFcn /\ Single(timer')
         /\ \A u \in Singles : LeftOf(timer', u) =
              IF Left(u) = -1 THEN -1 ELSE IF Left(u) = 0 THEN 0 ELSE Left(u) - 1
         /\ \A u \in {"close", "retry", "late"} : timer'[u] = Tick(timer[u])
<1> {"close", "retry", "late"} \subseteq Timers /\ Singles \subseteq Timers
  BY DEF Singles, Timers
<1>1. timer' \in TimerFcn /\ \A u \in Timers : timer'[u] = Tick(timer[u])
  <2>1. \A u \in Timers : Tick(timer[u]) \in SUBSET (0..8)
    BY DEF TimerFcn, Tick
  <2>2. timer' = [t \in Timers |-> Tick(timer[t])]
    BY DEF Pass, Tick
  <2>3. QED
    BY <2>1, <2>2 DEF TimerFcn
<1>2. ASSUME NEW u \in Singles
      PROVE  /\ timer'[u] = {} \/ \E d \in 0..8 : timer'[u] = {d}
             /\ LeftOf(timer', u) =
                  IF Left(u) = -1 THEN -1 ELSE IF Left(u) = 0 THEN 0 ELSE Left(u) - 1
  <2>0. timer'[u] = Tick(timer[u])
    BY <1>1
  <2>1. CASE timer[u] = {}
    <3>1. timer'[u] = {}
      BY <2>0, <2>1 DEF Tick
    <3>2. LeftOf(timer', u) = -1 /\ Left(u) = -1
      BY <2>1, <3>1 DEF Left, LeftOf, Only
    <3>3. QED
      BY <3>1, <3>2
  <2>2. ASSUME NEW d \in 0..8, timer[u] = {d} PROVE <1>2!2
    <3>1. Left(u) = d
      BY <2>2 DEF Left, LeftOf, Only
    <3>2. timer'[u] = {IF d = 0 THEN 0 ELSE d - 1}
      BY <2>0, <2>2 DEF Tick
    <3>3. (IF d = 0 THEN 0 ELSE d - 1) \in 0..8
      OBVIOUS
    <3>4. LeftOf(timer', u) = IF d = 0 THEN 0 ELSE d - 1
      BY <3>2 DEF LeftOf, Only
    <3>5. QED
      BY <3>1, <3>2, <3>3, <3>4
  <2>3. QED
    BY <2>1, <2>2 DEF Single
<1>3. QED
  BY <1>1, <1>2 DEF Single

\* What the invariant says of the timers, for use in each step.
LEMMA Facts ==
  ASSUME IInv
  PROVE  /\ timer \in TimerFcn /\ Single(timer) /\ offCount \in Nat
         /\ \A t \in Singles : LeftOf(timer, t) \in -1..8
         /\ \A t \in Singles : Due(t) <=> LeftOf(timer, t) = 0
         /\ timer["close"] \subseteq 0..8 /\ timer["retry"] \subseteq 0..8
         /\ timer["late"] \subseteq 0..8
<1>1. timer \in TimerFcn /\ Single(timer) /\ offCount \in Nat
  BY DEF IInv, TypeOK, TimerFcn
<1>2. \A u \in {"close", "retry", "late"} : timer[u] \subseteq 0..8
  BY <1>1 DEF TimerFcn, Timers
<1>3. QED
  BY <1>1, <1>2, LeftInt DEF Due

\* The timers of the kinds S are as before.
Kept(S) == \A u \in S : LeftOf(timer', u) = LeftOf(timer, u)

\* The ignition timers do not change: what is read off them stays.
LEMMA ClocksStay ==
  ASSUME Kept({"ignition", "sample"}), offCount' = offCount
  PROVE  Ahead' = Ahead /\ Dark' = Dark
BY DEF Kept, Ahead, Dark, Left

\* The ignition checks go on as before.
LEMMA ClockStays ==
  ASSUME Clock, Kept({"ignition", "sample"}), UNCHANGED process
  PROVE  Clock'
BY DEF Kept, Clock, Left

-----------------------------------------------------------------------------
(* What each step does to the timers.                                      *)

\* What does not touch the timers.
LEMMA StillEffect ==
  ASSUME UNCHANGED <<timer, offCount>>
  PROVE  /\ \A t \in Singles : (Left(t))' = Left(t)
         /\ Ahead' = Ahead /\ Dark' = Dark
         /\ Others(timer, timer')
BY DEF Left, LeftOf, Ahead, Dark, Others

\* The stops put off come nearer: none of them is due before a tick.
Nearer(t) ==
  /\ \A r \in timer[t] : r \in 1..8 /\ r - 1 \in timer'[t]
  /\ \A r \in timer'[t] : r \in 0..7 /\ r + 1 \in timer[t]

\* A tick: what is left of every timer shrinks together, and nothing urgent is passed over.
LEMMA PassEffect ==
  ASSUME IInv, Pass
  PROVE  /\ UNCHANGED <<process, state, activity, handlers, live, postponed, offCount, posted>>
         /\ Single(timer') /\ Clock'
         /\ \A u \in {"confirm", "launch", "prepare"} :
              \/ Left(u) = -1 /\ (Left(u))' = -1
              \/ Left(u) \in 1..8 /\ (Left(u))' = Left(u) - 1
         /\ \/ Left("open") = -1 /\ Left("open")' = -1
            \/ Left("open") \in 1..8 /\ Left("open")' = Left("open") - 1
            \/ Left("open") = 0 /\ Left("open")' = 0 /\ (process = "up" => Ahead = 1)
         /\ Nearer("retry") /\ Nearer("late")
         /\ timer'["close"] = Tick(timer["close"])
         /\ timer["close"] \subseteq 0..8
         /\ process = "up" =>
              /\ Ahead \in 1..9 /\ Ahead' = Ahead - 1 /\ Dark' = Dark + 1 /\ Dark \in Int
              /\ ~posted
              /\ Left("sample") \in {-1, 1} /\ (Left("sample") = 1 => Ahead = 1)
              /\ Left("sample")' = IF Left("sample") = 1 THEN 0 ELSE -1
              /\ \A e \in timer["close"] :
                   \/ e \in 1..8 /\ e - 1 \in timer'["close"]
                   \/ e = 0 /\ e \in timer'["close"] /\ Ahead = 1
<1>1. /\ timer \in TimerFcn /\ Single(timer) /\ offCount \in Nat
      /\ \A t \in Singles : LeftOf(timer, t) \in -1..8
      /\ \A t \in Singles : Due(t) <=> LeftOf(timer, t) = 0
      /\ \A u \in {"close", "retry", "late"} : timer[u] \subseteq 0..8
  BY Facts
<1>2. /\ timer' \in TimerFcn /\ Single(timer')
      /\ \A u \in Singles : LeftOf(timer', u) =
           IF LeftOf(timer, u) = -1 THEN -1
           ELSE IF LeftOf(timer, u) = 0 THEN 0 ELSE LeftOf(timer, u) - 1
      /\ \A u \in {"close", "retry", "late"} : timer'[u] = Tick(timer[u])
  BY <1>1, PassLeft DEF Left
<1>3. /\ \A u \in {"sample", "confirm", "launch", "prepare"} : LeftOf(timer, u) # 0
      /\ UiFree => ~posted /\ LeftOf(timer, "ignition") # 0 /\ LeftOf(timer, "open") # 0
                   /\ 0 \notin timer["close"]
      /\ 0 \notin timer["retry"] /\ 0 \notin timer["late"]
  BY <1>1 DEF Pass, Urgent, Singles, Timers, Due
<1>4. UiFree <=> process = "up" /\ LeftOf(timer, "sample") = -1
  BY <1>1, LeftInt DEF UiFree, Singles
<1>5. UNCHANGED <<process, state, activity, handlers, live, postponed, offCount, posted>>
  BY DEF Pass, recorder
<1> HIDE DEF Singles
<1>6. Clock'
  BY <1>1, <1>2, <1>3, <1>4, <1>5 DEF IInv, Timing, Clock, Left, Singles
<1>7. \A u \in {"confirm", "launch", "prepare"} :
        \/ Left(u) = -1 /\ (Left(u))' = -1
        \/ Left(u) \in 1..8 /\ (Left(u))' = Left(u) - 1
  BY <1>1, <1>2, <1>3 DEF Left, Singles
<1>8. Nearer("retry") /\ Nearer("late")
  <2>1. ASSUME NEW t \in {"retry", "late"} PROVE Nearer(t)
    <3>1. timer[t] \subseteq 1..8 /\ timer'[t] = Tick(timer[t])
      <4>1. timer[t] \subseteq 0..8 /\ 0 \notin timer[t]
        BY <1>1, <1>3
      <4>2. QED
        BY <4>1, <1>2
    <3>2. \A r \in timer[t] : (IF r = 0 THEN 0 ELSE r - 1) = r - 1
      BY <3>1
    <3>3. QED
      BY <3>1, <3>2 DEF Nearer, Tick
  <2>2. QED
    BY <2>1
<1>9. ASSUME process = "up"
      PROVE  /\ Ahead \in 1..9 /\ Ahead' = Ahead - 1
             /\ Left("sample") \in {-1, 1} /\ (Left("sample") = 1 => Ahead = 1)
             /\ Left("sample")' = IF Left("sample") = 1 THEN 0 ELSE -1
  BY <1>1, <1>2, <1>3, <1>4, <1>5, <1>9 DEF IInv, Timing, Clock, Left, Singles, Ahead
<1>10. ASSUME process = "up"
       PROVE  Dark' = Dark + 1 /\ Dark \in Int
  BY <1>1, <1>5, <1>9, <1>10 DEF Dark
<1>11. UiFree \/ Ahead = 1 \/ process # "up"
  BY <1>4, <1>9 DEF Left
<1>12. \/ Left("open") = -1 /\ Left("open")' = -1
       \/ Left("open") \in 1..8 /\ Left("open")' = Left("open") - 1
       \/ Left("open") = 0 /\ Left("open")' = 0 /\ (process = "up" => Ahead = 1)
  BY <1>1, <1>2, <1>3, <1>11 DEF Left, Singles
<1>13. ASSUME process = "up"
       PROVE  /\ ~posted
              /\ \A e \in timer["close"] :
                   \/ e \in 1..8 /\ e - 1 \in timer'["close"]
                   \/ e = 0 /\ e \in timer'["close"] /\ Ahead = 1
  <2>1. ~posted
    BY <1>3, <1>11, <1>13 DEF IInv, Timing, Early
  <2>2. \A e \in timer["close"] :
          \/ e \in 1..8 /\ e - 1 \in timer'["close"]
          \/ e = 0 /\ e \in timer'["close"] /\ Ahead = 1
    <3> TAKE e \in timer["close"]
    <3>1. e \in 0..8 /\ (IF e = 0 THEN 0 ELSE e - 1) \in timer'["close"]
      BY <1>1, <1>2 DEF Tick
    <3>2. e # 0 => (IF e = 0 THEN 0 ELSE e - 1) = e - 1
      OBVIOUS
    <3>3. e = 0 => Ahead = 1
      BY <1>3, <1>11, <1>13
    <3>4. CASE e = 0
      BY <3>1, <3>3, <3>4
    <3>5. CASE e # 0
      <4>1. e \in 1..8
        BY <3>1, <3>5
      <4>2. e - 1 \in timer'["close"]
        BY <1>2, <3>2, <3>5 DEF Tick
      <4>3. QED
        BY <4>1, <4>2
    <3>6. QED
      BY <3>4, <3>5
  <2>3. QED
    BY <2>1, <2>2
<1>14. QED
  BY <1>1, <1>2, <1>5, <1>6, <1>7, <1>8, <1>9, <1>10, <1>12, <1>13

\* The sampling of the ignition begins.
LEMMA BeginEffect ==
  ASSUME IInv, IgnitionBegin
  PROVE  /\ UNCHANGED <<process, state, activity, handlers, live, postponed, posted, offCount>>
         /\ process = "up" /\ Left("sample") = -1 /\ Left("sample")' = 1
         /\ Single(timer') /\ Others(timer, timer') /\ Clock'
         /\ Ahead = 1 /\ Ahead' = Ahead /\ Dark' = Dark
         /\ \A u \in {"confirm", "launch", "open", "prepare"} :
              (Left(u))' = Left(u)
<1>1. /\ timer \in TimerFcn /\ Single(timer) /\ offCount \in Nat
      /\ \A t \in Singles : LeftOf(timer, t) \in -1..8
      /\ \A t \in Singles : Due(t) <=> LeftOf(timer, t) = 0
  BY Facts
<1>2. LeftOf(timer, "ignition") = 0 /\ LeftOf(timer, "sample") = -1 /\ process = "up"
  BY <1>1, LeftInt DEF IgnitionBegin, UiFree, Singles
<1> /\ "ignition" \in Singles /\ "sample" \in Singles /\ Singles \subseteq Timers
  BY DEF Singles, Timers
<1>3. /\ Single(timer') /\ Kept(Singles \ {"ignition", "sample"})
      /\ LeftOf(timer', "ignition") = 8 /\ LeftOf(timer', "sample") = 1
      /\ Others(timer, timer')
  <2> DEFINE f == Put(timer, "ignition", 8)
             g == Put(f, "sample", 1)
  <2>1. /\ f \in TimerFcn /\ Single(f) /\ LeftOf(f, "ignition") = 8 /\ Others(timer, f)
        /\ \A u \in Singles : u # "ignition" => LeftOf(f, u) = LeftOf(timer, u)
    BY <1>1, PutLeft
  <2>2. timer' = g
    BY DEF IgnitionBegin, IgnitionInterval, Put
  <2> HIDE DEF f
  <2>3. /\ Single(g) /\ LeftOf(g, "sample") = 1 /\ Others(f, g)
        /\ \A u \in Singles : u # "sample" => LeftOf(g, u) = LeftOf(f, u)
    BY <2>1, PutLeft
  <2> HIDE DEF g
  <2>4. QED
    BY <2>1, <2>2, <2>3 DEF Kept, Others
<1>4. UNCHANGED <<process, state, activity, handlers, live, postponed, posted, offCount>>
  BY DEF IgnitionBegin, recorder
<1>5. Ahead = 1 /\ Ahead' = Ahead /\ Dark' = Dark
  <2>1. Ahead' = 1 /\ Ahead = 1
    BY <1>2, <1>3 DEF Ahead, Left
  <2>2. QED
    BY <2>1, <1>3, <1>4 DEF Dark, Left, Kept
<1>6. Clock'
  BY <1>2, <1>3, <1>4 DEF Clock, Left
<1>7. \A u \in {"confirm", "launch", "open", "prepare"} : (Left(u))' = Left(u)
  BY <1>3 DEF Kept, Left, Singles
<1>8. QED
  BY <1>2, <1>3, <1>4, <1>5, <1>6, <1>7 DEF Left

\* The ignition is decided: eight ticks to the next decision.
LEMMA DecideEffect ==
  ASSUME IInv, IgnitionDecide
  PROVE  /\ process = "up" /\ Ahead = 0 /\ Left("sample") = 0 /\ Left("confirm") = -1 /\ ~posted
         /\ Single(timer') /\ Others(timer, timer') /\ Clock'
         /\ process' \in {"up", "failing"}
         /\ process' = "up" /\ posted' => StopAsked
         /\ offCount' = OffCount /\ UNCHANGED <<state, activity, handlers, live, postponed>>
         /\ Left("sample")' = -1 /\ Ahead' = 8
         /\ Left("confirm")' = IF LookAgain THEN 1 ELSE -1
         /\ \A u \in {"launch", "open", "prepare"} : (Left(u))' = Left(u)
<1>1. /\ timer \in TimerFcn /\ Single(timer) /\ offCount \in Nat
      /\ \A t \in Singles : LeftOf(timer, t) \in -1..8
      /\ \A t \in Singles : Due(t) <=> LeftOf(timer, t) = 0
  BY Facts
<1>2. LeftOf(timer, "sample") = 0 /\ LeftOf(timer, "ignition") = 7 /\ process = "up" /\ Ahead = 0
  BY <1>1 DEF IgnitionDecide, Singles, IInv, Timing, Clock, Left, Ahead
<1>3. LeftOf(timer, "confirm") = -1 /\ ~posted
  BY <1>1, <1>2 DEF IInv, Timing, Early, Left, Singles
<1>4. /\ Sampled \in TimerFcn /\ Single(Sampled) /\ Others(timer, Sampled)
      /\ LeftOf(Sampled, "sample") = -1
      /\ LeftOf(Sampled, "confirm") = IF LookAgain THEN 1 ELSE -1
      /\ \A u \in Singles \ {"sample", "confirm"} : LeftOf(Sampled, u) = LeftOf(timer, u)
  <2> DEFINE f == Fired("sample")
  <2>1. /\ f \in TimerFcn /\ Single(f) /\ LeftOf(f, "sample") = -1 /\ Others(timer, f)
        /\ \A u \in Singles : u # "sample" => LeftOf(f, u) = LeftOf(timer, u)
    BY <1>1, <1>2, FireLeft DEF Singles
  <2> HIDE DEF f
  <2> DEFINE g == Set(f, "confirm", 1)
  <2>2. /\ g \in TimerFcn /\ Single(g) /\ LeftOf(g, "confirm") = 1 /\ Others(f, g)
        /\ \A u \in Singles : u # "confirm" => LeftOf(g, u) = LeftOf(f, u)
    BY <2>1, <1>3, SetLeft DEF Singles
  <2>3. Sampled = IF LookAgain THEN g ELSE f
    BY DEF Sampled, f
  <2> HIDE DEF g
  <2>4. QED
    BY <2>1, <2>2, <2>3, <1>3 DEF Singles, Others
<1>5. /\ Single(timer') /\ Others(timer, timer')
      /\ \A u \in Singles : LeftOf(timer', u) = LeftOf(Sampled, u)
      /\ process' \in {"up", "failing"}
      /\ process' = "up" /\ posted' => StopAsked
  <2>1. CASE Fail
    <3>1. PICK d \in 0..8 : timer' = Set(Sampled, "nap", d)
      BY <2>1 DEF Fail
    <3>2. QED
      BY <3>1, <2>1, <1>4, OtherSet DEF Fail, Others
  <2>2. CASE timer' = Sampled /\ UNCHANGED process /\ posted' = (posted \/ StopAsked)
    BY <2>2, <1>2, <1>3, <1>4
  <2>3. QED
    BY <2>1, <2>2 DEF IgnitionDecide
<1>6. /\ offCount' = OffCount /\ UNCHANGED <<state, activity, handlers, live, postponed>>
  BY DEF IgnitionDecide, recorder
<1>7. /\ Left("sample")' = -1 /\ Left("ignition")' = 7 /\ Ahead' = 8
      /\ Left("confirm")' = IF LookAgain THEN 1 ELSE -1
     
      /\ \A u \in {"launch", "open", "prepare"} : (Left(u))' = Left(u)
  BY <1>2, <1>4, <1>5 DEF Left, Ahead, Singles
<1>8. Clock'
  BY <1>5, <1>7 DEF Clock
<1>9. QED
  BY <1>2, <1>3, <1>5, <1>6, <1>7, <1>8 DEF Left

\* The second look: the launch is at least a tick ahead.
LEMMA ConfirmEffect ==
  ASSUME IInv, Confirm
  PROVE  /\ Left("confirm") = 0 /\ state = "NOT_RECORDING" /\ activity = "none"
         /\ Left("launch") = -1 /\ Left("open") = -1 /\ Left("prepare") = -1
         /\ UNCHANGED <<process, offCount, posted, activity, handlers, live, postponed>>
         /\ Single(timer') /\ Others(timer, timer')
         /\ Ahead' = Ahead /\ Dark' = Dark /\ Kept({"ignition", "sample"})
         /\ \A u \in {"open", "prepare"} : (Left(u))' = Left(u)
         /\ Left("confirm")' = -1
         /\ \/ /\ line /\ dated /\ state' = "PREPARING" /\ Left("launch")' \in WakeTicks \cap 1..8
               /\ fault' = fault
            \/ state' = state /\ Left("launch")' = -1 /\ fault' = TRUE
<1>1. /\ timer \in TimerFcn /\ Single(timer)
      /\ \A t \in Singles : LeftOf(timer, t) \in -1..8
      /\ \A t \in Singles : Due(t) <=> LeftOf(timer, t) = 0
  BY Facts
<1> "confirm" \in Singles /\ "launch" \in Singles
  BY DEF Singles
<1>2. /\ Left("confirm") = 0 /\ state = "NOT_RECORDING" /\ activity = "none"
      /\ Left("launch") = -1 /\ Left("open") = -1 /\ Left("prepare") = -1
  BY <1>1 DEF Confirm, IInv, Timing, Places, Left, Singles
<1> DEFINE f == Fired("confirm")
<1>3. /\ f \in TimerFcn /\ Single(f) /\ LeftOf(f, "confirm") = -1 /\ Others(timer, f)
      /\ \A u \in Singles : u # "confirm" => LeftOf(f, u) = LeftOf(timer, u)
  BY <1>1, FireLeft DEF Confirm
<1>4. UNCHANGED <<process, offCount, posted, activity, handlers, live, postponed>>
  BY DEF Confirm, recorder
<1> HIDE DEF f
<1>5. /\ Single(timer') /\ Others(timer, timer')
      /\ Kept(Singles \ {"confirm", "launch"}) /\ Left("confirm")' = -1
      /\ \/ /\ line /\ dated /\ state' = "PREPARING" /\ Left("launch")' \in WakeTicks \cap 1..8
            /\ fault' = fault
         \/ state' = state /\ Left("launch")' = -1 /\ fault' = TRUE
  <2>1. CASE timer' = f /\ state' = state /\ fault' = TRUE
    BY <2>1, <1>2, <1>3 DEF Kept, Left
  <2>2. ASSUME NEW d \in WakeTicks, timer' = Set(f, "launch", d)
        PROVE  /\ Single(timer') /\ Others(timer, timer')
               /\ Kept(Singles \ {"confirm", "launch"}) /\ Left("confirm")' = -1
               /\ Left("launch")' \in WakeTicks \cap 1..8
    <3>1. d \in 1..8
      BY TicksAssumption DEF TicksAssumption
    <3>2. d \in 0..8 /\ LeftOf(f, "launch") = -1
      BY <3>1, <1>2, <1>3 DEF Left
    <3>3. /\ Single(timer') /\ LeftOf(timer', "launch") = d
          /\ \A u \in Singles : u # "launch" => LeftOf(timer', u) = LeftOf(f, u)
          /\ Others(timer, timer')
      BY <3>2, <1>3, <2>2, SetLeft DEF Others
    <3>4. QED
      BY <3>1, <3>3, <1>3 DEF Kept, Left
  <2>3. QED
    BY <2>1, <2>2 DEF Confirm, f
<1>6. /\ Ahead' = Ahead /\ Dark' = Dark /\ Kept({"ignition", "sample"})
      /\ \A u \in {"open", "prepare"} : (Left(u))' = Left(u)
  BY <1>5, <1>4, ClocksStay DEF Kept, Left, Singles
<1>7. QED
  BY <1>2, <1>4, <1>5, <1>6

\* The activity is asked for.
LEMMA LaunchEffect ==
  ASSUME IInv, Launch
  PROVE  /\ Left("launch") = 0 /\ activity = "none" /\ Left("open") = -1 /\ Left("prepare") = -1
         /\ Left("confirm") = -1
         /\ UNCHANGED <<process, offCount, posted, activity, handlers, live, postponed, state>>
         /\ Single(timer') /\ Others(timer, timer')
         /\ Ahead' = Ahead /\ Dark' = Dark /\ Kept({"ignition", "sample"})
         /\ \A u \in {"confirm", "prepare"} : (Left(u))' = Left(u)
         /\ Left("launch")' = -1 /\ Left("open")' = OpenTicks
<1>1. /\ timer \in TimerFcn /\ Single(timer)
      /\ \A t \in Singles : LeftOf(timer, t) \in -1..8
      /\ \A t \in Singles : Due(t) <=> LeftOf(timer, t) = 0
  BY Facts
<1> "launch" \in Singles /\ "open" \in Singles
  BY DEF Singles
<1>2. Left("launch") = 0 /\ activity = "none" /\ Left("open") = -1 /\ Left("prepare") = -1
  BY <1>1 DEF Launch, IInv, Timing, Places, Left, Singles
<1>3. Left("confirm") = -1
  <2>1. Left("confirm") \in -1..8
    BY <1>1 DEF Left, Singles
  <2>2. QED
    BY <1>2, <2>1 DEF IInv, Timing, Places
<1>4. UNCHANGED <<process, offCount, posted, activity, handlers, live, postponed, state>>
  BY DEF Launch, recorder
<1>5. /\ Single(timer') /\ LeftOf(timer', "open") = OpenTicks
      /\ LeftOf(timer', "launch") = -1
      /\ \A u \in Singles \ {"launch", "open"} : LeftOf(timer', u) = LeftOf(timer, u)
      /\ Others(timer, timer')
  <2> DEFINE f == Fired("launch")
  <2>1. /\ f \in TimerFcn /\ Single(f) /\ LeftOf(f, "launch") = -1 /\ Others(timer, f)
        /\ \A u \in Singles : u # "launch" => LeftOf(f, u) = LeftOf(timer, u)
    BY <1>1, FireLeft DEF Launch
  <2>2. timer' = Set(f, "open", OpenTicks)
    BY DEF Launch
  <2> HIDE DEF f
  <2>3. OpenTicks \in 0..8 /\ LeftOf(f, "open") = -1
    BY <2>1, <1>2, TicksAssumption DEF TicksAssumption, Left
  <2>4. /\ timer' \in TimerFcn /\ Single(timer') /\ LeftOf(timer', "open") = OpenTicks
        /\ \A u \in Singles : u # "open" => LeftOf(timer', u) = LeftOf(f, u)
        /\ Others(f, timer')
    BY <2>1, <2>2, <2>3, SetLeft
  <2>5. QED
    BY <2>1, <2>4 DEF Others
<1>6. /\ Ahead' = Ahead /\ Dark' = Dark /\ Kept({"ignition", "sample"})
      /\ \A u \in {"confirm", "prepare"} : (Left(u))' = Left(u)
      /\ Left("launch")' = -1 /\ Left("open")' = OpenTicks
  BY <1>4, <1>5, ClocksStay DEF Kept, Left, Singles
<1>7. QED
  BY <1>2, <1>3, <1>4, <1>5, <1>6

\* The activity starts: nothing is left of the last one.
LEMMA OnStartEffect ==
  ASSUME IInv, OnStart
  PROVE  /\ process = "up" /\ activity = "none" /\ state # "NOT_RECORDING"
         /\ Left("open") \in 0..8 /\ Left("launch") = -1 /\ Left("prepare") = -1
         /\ Left("confirm") = -1 /\ timer["retry"] = {}
         /\ postponed' = IF timer["late"] = {} THEN 0 ELSE postponed
         /\ UNCHANGED <<process, offCount, posted, state>>
         /\ activity' = "starting" /\ handlers' = TRUE /\ live' = FALSE
         /\ Single(timer') /\ Others(timer, timer')
         /\ Ahead' = Ahead /\ Dark' = Dark /\ Kept({"ignition", "sample"})
         /\ \A u \in {"confirm", "launch"} : (Left(u))' = Left(u)
         /\ Left("open")' = -1 /\ Left("prepare")' = 4
<1>1. /\ timer \in TimerFcn /\ Single(timer)
      /\ \A t \in Singles : LeftOf(timer, t) \in -1..8
  BY Facts
<1> "prepare" \in Singles /\ "open" \in Singles
  BY DEF Singles
<1>2. Left("open") \in 0..8 /\ process = "up"
  BY <1>1, LeftInt DEF OnStart, UiFree, Left
<1>3. /\ activity = "none" /\ Left("launch") = -1 /\ Left("prepare") = -1
      /\ timer["retry"] = {} /\ state # "NOT_RECORDING" /\ Left("confirm") = -1
  <2>1. \A u \in Singles : Left(u) \in -1..8
    BY <1>1 DEF Left
  <2>2. QED
    BY <1>2, <2>1 DEF IInv, Timing, Places, Singles
<1>4. /\ UNCHANGED <<process, offCount, posted, state>>
      /\ activity' = "starting" /\ handlers' = TRUE /\ live' = FALSE
      /\ postponed' = IF timer["late"] = {} THEN 0 ELSE postponed
  BY DEF OnStart
<1>5. /\ timer' \in TimerFcn /\ Single(timer') /\ LeftOf(timer', "open") = -1
      /\ LeftOf(timer', "prepare") = 4
      /\ \A u \in Singles \ {"prepare", "open"} : LeftOf(timer', u) = LeftOf(timer, u)
      /\ Others(timer, timer')
  <2> DEFINE f == Clear(timer, "open")
  <2>1. /\ f \in TimerFcn /\ Single(f) /\ LeftOf(f, "open") = -1 /\ Others(timer, f)
        /\ \A u \in Singles : u # "open" => LeftOf(f, u) = LeftOf(timer, u)
    BY <1>1, ClearLeft
  <2>2. timer' = Set(f, "prepare", 4)
    BY DEF OnStart, Clear, Set
  <2> HIDE DEF f
  <2>3. 4 \in 0..8 /\ LeftOf(f, "prepare") = -1
    BY <2>1, <1>3 DEF Left
  <2>4. /\ timer' \in TimerFcn /\ Single(timer') /\ LeftOf(timer', "prepare") = 4
        /\ \A u \in Singles : u # "prepare" => LeftOf(timer', u) = LeftOf(f, u)
        /\ Others(f, timer')
    BY <2>1, <2>2, <2>3, SetLeft
  <2>5. QED
    BY <2>1, <2>4 DEF Others
<1>6. /\ Ahead' = Ahead /\ Dark' = Dark /\ Kept({"ignition", "sample"})
      /\ \A u \in {"confirm", "launch"} : (Left(u))' = Left(u)
      /\ Left("open")' = -1 /\ Left("prepare")' = 4
  BY <1>4, <1>5, ClocksStay DEF Kept, Left, Singles
<1>7. QED
  BY <1>2, <1>3, <1>4, <1>5, <1>6

\* StopRecording during a live view is put off; R are the stops to be repeated before.
Delayed(R) ==
  /\ live /\ live' = FALSE /\ UNCHANGED <<activity, handlers>> /\ PutOff
  /\ timer'["retry"] = R \cup {6} /\ timer'["close"] = timer["close"]

\* ... and otherwise it ends the activity; the stops to be repeated stay pending.
Ended(R) ==
  /\ live = FALSE /\ live' = FALSE /\ handlers' = FALSE /\ UNCHANGED postponed
  /\ timer'["retry"] = R
  /\ activity' = IF activity = "none" THEN "none" ELSE "stopping"
  /\ timer'["close"] = timer["close"] \cup (IF activity = "none" THEN {} ELSE {CloseTicks})

LEMMA StopEffect ==
  ASSUME NEW f \in TimerFcn, Single(f), StopRecording(f), live \in BOOLEAN,
         f["close"] = timer["close"], f["late"] = timer["late"]
  PROVE  /\ Single(timer') /\ \A u \in Singles : LeftOf(timer', u) = LeftOf(f, u)
         /\ timer'["late"] = timer["late"]
         /\ Delayed(f["retry"]) \/ Ended(f["retry"])
<1>1. CASE live
  <2>1. live' = FALSE /\ timer' = Set(f, "retry", 6) /\ UNCHANGED <<activity, handlers>> /\ PutOff
    BY <1>1 DEF StopRecording
  <2>2. 6 \in 0..8
    OBVIOUS
  <2>3. /\ Single(timer') /\ \A u \in Singles : LeftOf(timer', u) = LeftOf(f, u)
        /\ timer'["retry"] = f["retry"] \cup {6}
        /\ \A u \in {"close", "late"} : timer'[u] = f[u]
    BY <2>1, <2>2, OtherSet
  <2>4. QED
    BY <1>1, <2>1, <2>3 DEF Delayed
<1>2. CASE live = FALSE
  <2>1. /\ UNCHANGED <<live, postponed>> /\ handlers' = FALSE
        /\ IF activity = "none" THEN timer' = f /\ UNCHANGED activity
           ELSE timer' = Set(f, "close", CloseTicks) /\ activity' = "stopping"
    BY <1>2 DEF StopRecording
  <2>2. /\ Single(timer') /\ \A u \in Singles : LeftOf(timer', u) = LeftOf(f, u)
        /\ timer'["close"] = timer["close"] \cup (IF activity = "none" THEN {} ELSE {CloseTicks})
        /\ timer'["retry"] = f["retry"] /\ timer'["late"] = f["late"]
    <3>1. CASE activity = "none"
      BY <3>1, <2>1
    <3>2. CASE activity # "none"
      <4>1. CloseTicks \in 0..8
        BY TicksAssumption DEF TicksAssumption
      <4>2. QED
        BY <3>2, <4>1, <2>1, OtherSet
    <3>3. QED
      BY <3>1, <3>2
  <2>3. QED
    BY <1>2, <2>1, <2>2 DEF Ended
<1>3. QED
  BY <1>1, <1>2

\* The camera is prepared, or stopped because it does not work. Without handlers the
\* process ends, and then a stop has been put off twice.
LEMMA PreparedEffect ==
  ASSUME IInv, Prepared
  PROVE  /\ Left("prepare") = 0 /\ activity = "starting" /\ state # "NOT_RECORDING"
         /\ Left("launch") = -1 /\ Left("open") = -1 /\ Left("confirm") = -1
         /\ timer["retry"] = {} /\ timer'["late"] = timer["late"]
         /\ UNCHANGED <<offCount, posted>> /\ Single(timer')
         /\ Ahead' = Ahead /\ Dark' = Dark /\ Kept({"ignition", "sample"})
         /\ \A u \in {"confirm", "launch", "open"} : (Left(u))' = Left(u)
         /\ Left("prepare")' = -1
         /\ \/ /\ working /\ state' = (IF dated THEN "RECORDING" ELSE state)
               /\ activity' = "recording" /\ UNCHANGED <<handlers, live, postponed>>
               /\ UNCHANGED process \/ (process' = "crashed" /\ postponed = 2)
               /\ timer'["retry"] = {} /\ timer'["close"] = timer["close"]
            \/ /\ ~working /\ state' = state /\ fault' = TRUE /\ UNCHANGED process
               /\ Delayed({}) \/ Ended({})
<1>1. /\ timer \in TimerFcn /\ Single(timer)
      /\ \A t \in Singles : LeftOf(timer, t) \in -1..8
      /\ \A t \in Singles : Due(t) <=> LeftOf(timer, t) = 0
  BY Facts
<1> "prepare" \in Singles
  BY DEF Singles
<1>2. /\ Left("prepare") = 0 /\ activity = "starting" /\ state # "NOT_RECORDING"
      /\ Left("launch") = -1 /\ Left("open") = -1 /\ Left("confirm") = -1
      /\ timer["retry"] = {} /\ (handlers \/ postponed = 2)
  <2>1. \A u \in Singles : Left(u) \in -1..8
    BY <1>1 DEF Left
  <2>2. QED
    BY <1>1, <2>1 DEF Prepared, IInv, Timing, Places, Left, Singles
<1> DEFINE f == Fired("prepare")
<1>3. /\ f \in TimerFcn /\ Single(f) /\ LeftOf(f, "prepare") = -1 /\ Others(timer, f)
      /\ \A u \in Singles : u # "prepare" => LeftOf(f, u) = LeftOf(timer, u)
  BY <1>1, FireLeft DEF Prepared
<1>4. UNCHANGED <<offCount, posted>>
  BY DEF Prepared
<1> HIDE DEF f
<1>5. f["close"] = timer["close"] /\ f["retry"] = {} /\ f["late"] = timer["late"]
  BY <1>2, <1>3 DEF Others
<1>6. /\ Single(timer') /\ \A u \in Singles : LeftOf(timer', u) = LeftOf(f, u)
      /\ timer'["late"] = timer["late"]
      /\ \/ /\ working /\ state' = (IF dated THEN "RECORDING" ELSE state)
            /\ activity' = "recording" /\ UNCHANGED <<handlers, live, postponed>>
            /\ UNCHANGED process \/ (process' = "crashed" /\ postponed = 2)
            /\ timer'["retry"] = {} /\ timer'["close"] = timer["close"]
         \/ /\ ~working /\ state' = state /\ fault' = TRUE /\ UNCHANGED process
            /\ Delayed({}) \/ Ended({})
  <2>1. CASE working /\ StartRecording
    <3>1. /\ timer' = f /\ activity' = "recording"
          /\ UNCHANGED process \/ (process' = "crashed" /\ postponed = 2)
          /\ state' = (IF dated THEN "RECORDING" ELSE state)
          /\ UNCHANGED <<handlers, live, postponed>>
      BY <2>1, <1>2 DEF StartRecording, f
    <3>2. QED
      BY <2>1, <3>1, <1>3, <1>5
  <2>2. CASE ~working /\ StopRecording(f) /\ UNCHANGED <<process, state>>
    <3>1. live \in BOOLEAN /\ fault' = TRUE
      BY <2>2 DEF IInv, TypeOK, Prepared
    <3>2. /\ Single(timer') /\ \A u \in Singles : LeftOf(timer', u) = LeftOf(f, u)
          /\ timer'["late"] = timer["late"]
          /\ Delayed({}) \/ Ended({})
      BY <2>2, <3>1, <1>3, <1>5, StopEffect
    <3>3. QED
      BY <2>2, <3>1, <3>2
  <2>3. QED
    BY <2>1, <2>2 DEF Prepared, f
<1>7. /\ Ahead' = Ahead /\ Dark' = Dark /\ Kept({"ignition", "sample"})
      /\ \A u \in {"confirm", "launch", "open"} : (Left(u))' = Left(u)
      /\ Left("prepare")' = -1
  BY <1>3, <1>4, <1>6, ClocksStay DEF Kept, Left, Singles
<1>8. QED
  BY <1>2, <1>4, <1>6, <1>7

\* A stop is repeated.
LEMMA RetryEffect ==
  ASSUME IInv, Retry
  PROVE  /\ 0 \in timer["retry"] /\ activity # "none" /\ timer'["late"] = timer["late"]
         /\ UNCHANGED <<offCount, posted, process, state>> /\ Single(timer')
         /\ fault' = (fault \/ live)
         /\ Ahead' = Ahead /\ Dark' = Dark /\ Kept({"ignition", "sample"})
         /\ \A u \in {"confirm", "launch", "open", "prepare"} : (Left(u))' = Left(u)
         /\ Delayed(timer["retry"] \ {0}) \/ Ended(timer["retry"] \ {0})
<1>1. timer \in TimerFcn /\ Single(timer)
  BY Facts
<1>2. 0 \in timer["retry"] /\ activity # "none"
  BY DEF Retry, Due, IInv, Timing, Places
<1> DEFINE f == Fired("retry")
<1>3. /\ f \in TimerFcn /\ Single(f)
      /\ f["retry"] = timer["retry"] \ {0}
      /\ f["close"] = timer["close"] /\ f["late"] = timer["late"]
      /\ \A u \in Singles : LeftOf(f, u) = LeftOf(timer, u)
  BY <1>1, OtherFired
<1>4. /\ UNCHANGED <<offCount, posted, process, state>> /\ StopRecording(f) /\ live \in BOOLEAN
      /\ fault' = (fault \/ live)
  BY DEF Retry, IInv, TypeOK
<1> HIDE DEF f
<1>5. /\ Single(timer') /\ \A u \in Singles : LeftOf(timer', u) = LeftOf(f, u)
      /\ timer'["late"] = timer["late"]
      /\ Delayed(timer["retry"] \ {0}) \/ Ended(timer["retry"] \ {0})
  BY <1>3, <1>4, StopEffect
<1>6. /\ Ahead' = Ahead /\ Dark' = Dark /\ Kept({"ignition", "sample"})
      /\ \A u \in {"confirm", "launch", "open", "prepare"} : (Left(u))' = Left(u)
  BY <1>3, <1>4, <1>5, ClocksStay DEF Kept, Left, Singles
<1>7. QED
  BY <1>2, <1>4, <1>5, <1>6

\* A stop of an earlier activity is repeated.
LEMMA LateEffect ==
  ASSUME IInv, LateRetry
  PROVE  /\ 0 \in timer["late"]
         /\ UNCHANGED <<offCount, posted, process, state, activity, live>> /\ Single(timer')
         /\ timer'["retry"] = timer["retry"] /\ timer'["close"] = timer["close"]
         /\ Ahead' = Ahead /\ Dark' = Dark /\ Kept({"ignition", "sample"})
         /\ \A u \in {"confirm", "launch", "open", "prepare"} : (Left(u))' = Left(u)
         /\ \/ /\ PutOff /\ UNCHANGED handlers
            \/ /\ handlers' = FALSE /\ UNCHANGED postponed
               /\ timer'["late"] = timer["late"] \ {0}
<1>1. timer \in TimerFcn /\ Single(timer) /\ 0 \in timer["late"]
  BY Facts DEF LateRetry, Due
<1> DEFINE f == Fired("late")
<1>2. /\ f \in TimerFcn /\ Single(f) /\ f["late"] = timer["late"] \ {0}
      /\ f["close"] = timer["close"] /\ f["retry"] = timer["retry"]
      /\ \A u \in Singles : LeftOf(f, u) = LeftOf(timer, u)
  BY <1>1, OtherFired
<1>3. UNCHANGED <<offCount, posted, process, state, activity, live>>
  BY DEF LateRetry
<1>4. /\ Single(timer') /\ \A u \in Singles : LeftOf(timer', u) = LeftOf(timer, u)
      /\ timer'["retry"] = timer["retry"] /\ timer'["close"] = timer["close"]
      /\ \/ /\ PutOff /\ UNCHANGED handlers
         \/ /\ handlers' = FALSE /\ UNCHANGED postponed
            /\ timer'["late"] = timer["late"] \ {0}
  <2>1. CASE PutOff /\ timer' = Set(f, "late", 6) /\ UNCHANGED handlers
    <3>1. 6 \in 0..8
      OBVIOUS
    <3> HIDE DEF f
    <3>2. QED
      BY <2>1, <3>1, <1>2, OtherSet
  <2>2. CASE handlers' = FALSE /\ UNCHANGED postponed /\ timer' = f
    BY <2>2, <1>2
  <2>3. QED
    BY <2>1, <2>2 DEF LateRetry
<1>5. /\ Ahead' = Ahead /\ Dark' = Dark /\ Kept({"ignition", "sample"})
      /\ \A u \in {"confirm", "launch", "open", "prepare"} : (Left(u))' = Left(u)
  BY <1>3, <1>4, ClocksStay DEF Kept, Left, Singles
<1>6. QED
  BY <1>1, <1>3, <1>4, <1>5

\* The activity hears of the ignition, in the tick of a check.
LEMMA HandleEffect ==
  ASSUME IInv, HandleIgnitionOff
  PROVE  /\ process = "up" /\ posted /\ posted' = FALSE /\ UNCHANGED <<process, state, offCount>>
         /\ Ahead = 8 /\ offCount \in Nat /\ offCount >= 5
         /\ Dark \in Int /\ Dark = 8 * offCount
         /\ Left("sample") = -1
         /\ Left("confirm") = -1 /\ Left("launch") = -1 /\ Left("open") = -1
         /\ Left("prepare") = -1
         /\ Single(timer') /\ timer'["late"] = timer["late"]
         /\ Ahead' = Ahead /\ Dark' = Dark /\ Kept({"ignition", "sample"})
         /\ \A u \in {"confirm", "launch", "open", "prepare"} : (Left(u))' = Left(u)
         /\ \/ activity = "none" /\ UNCHANGED <<timer, recorder>>
            \/ activity # "none" /\ Delayed(timer["retry"])
            \/ activity # "none" /\ Ended(timer["retry"])
<1>1. /\ timer \in TimerFcn /\ Single(timer) /\ offCount \in Nat
      /\ \A t \in Singles : LeftOf(timer, t) \in -1..8
  BY Facts
<1>2. /\ process = "up" /\ posted /\ posted' = FALSE /\ UNCHANGED <<process, state, offCount>>
      /\ Ahead = 8 /\ offCount >= 5 /\ live \in BOOLEAN
  BY DEF HandleIgnitionOff, UiFree, IInv, TypeOK, Timing, Early
<1>3. Dark \in Int /\ Dark = 8 * offCount /\ Dark >= 40
  BY <1>1, <1>2 DEF Dark
<1>4. Left("confirm") = -1 /\ Left("launch") = -1 /\ Left("open") = -1 /\ Left("prepare") = -1
  <2>1. \A u \in Singles : Left(u) \in -1..8
    BY <1>1 DEF Left
  <2>2. QED
    BY <1>2, <1>3, <2>1 DEF IInv, Timing, Early, Singles
<1>5. Left("sample") = -1
  BY <1>1, LeftInt DEF Left, Singles, HandleIgnitionOff, UiFree
<1>6. CASE activity = "none" /\ UNCHANGED <<timer, recorder>>
  <2>1. Kept(Singles) /\ timer'["late"] = timer["late"]
    BY <1>6 DEF Kept, LeftOf
  <2>2. /\ Ahead' = Ahead /\ Dark' = Dark /\ Kept({"ignition", "sample"})
        /\ \A u \in {"confirm", "launch", "open", "prepare"} : (Left(u))' = Left(u)
    BY <1>2, <2>1, ClocksStay DEF Kept, Left, Singles
  <2>3. Single(timer')
    BY <1>1, <1>6
  <2>4. QED
    BY <1>1, <1>2, <1>3, <1>4, <1>5, <1>6, <2>1, <2>2, <2>3
<1>7. CASE activity # "none" /\ StopRecording(timer)
  <2>1. /\ Single(timer') /\ \A u \in Singles : LeftOf(timer', u) = LeftOf(timer, u)
        /\ timer'["late"] = timer["late"]
        /\ Delayed(timer["retry"]) \/ Ended(timer["retry"])
    BY <1>1, <1>2, <1>7, StopEffect
  <2>2. /\ Ahead' = Ahead /\ Dark' = Dark /\ Kept({"ignition", "sample"})
        /\ \A u \in {"confirm", "launch", "open", "prepare"} : (Left(u))' = Left(u)
    BY <1>2, <2>1, ClocksStay DEF Kept, Left, Singles
  <2>3. QED
    BY <1>1, <1>2, <1>3, <1>4, <1>5, <1>7, <2>1, <2>2
<1>8. QED
  BY <1>6, <1>7 DEF HandleIgnitionOff

\* The activity has gone; the stops to be repeated stay pending.
LEMMA OnStopEffect ==
  ASSUME IInv, OnStop
  PROVE  /\ state' = "NOT_RECORDING" /\ activity' = "none" /\ handlers' = FALSE
         /\ UNCHANGED <<process, offCount, posted, postponed>> /\ process = "up"
         /\ activity = "stopping" /\ state # "NOT_RECORDING" /\ Left("confirm") = -1
         /\ Left("launch") = -1 /\ Left("open") = -1 /\ Left("prepare") = -1
         /\ timer'["close"] = {} /\ timer'["retry"] = {}
         /\ timer'["late"] = timer["late"] \cup timer["retry"] /\ Single(timer')
         /\ Ahead' = Ahead /\ Dark' = Dark /\ Kept({"ignition", "sample"})
         /\ \A u \in {"confirm", "launch", "open", "prepare"} : (Left(u))' = Left(u)
<1>1. /\ timer \in TimerFcn /\ Single(timer)
      /\ \A t \in Singles : LeftOf(timer, t) \in -1..8
  BY Facts
<1>2. /\ timer'["close"] = {} /\ timer'["retry"] = {}
      /\ timer'["late"] = timer["late"] \cup timer["retry"]
      /\ \A u \in Singles : timer'[u] = timer[u]
  BY <1>1 DEF OnStop, TimerFcn, Timers, Singles
<1>3. Single(timer') /\ \A u \in Singles : LeftOf(timer', u) = LeftOf(timer, u)
  BY <1>1, <1>2 DEF Single, LeftOf
<1>4. /\ state' = "NOT_RECORDING" /\ activity' = "none" /\ handlers' = FALSE
      /\ UNCHANGED <<process, offCount, posted, postponed>> /\ process = "up"
  BY DEF OnStop, UiFree
<1>5. /\ activity = "stopping" /\ state # "NOT_RECORDING" /\ Left("confirm") = -1
      /\ Left("launch") = -1 /\ Left("open") = -1 /\ Left("prepare") = -1
  <2>1. \A u \in Singles : Left(u) \in -1..8
    BY <1>1 DEF Left
  <2>2. QED
    BY <2>1 DEF OnStop, IInv, Timing, Places, Singles
<1>6. /\ Ahead' = Ahead /\ Dark' = Dark /\ Kept({"ignition", "sample"})
      /\ \A u \in {"confirm", "launch", "open", "prepare"} : (Left(u))' = Left(u)
  BY <1>3, <1>4, ClocksStay DEF Kept, Left, Singles
<1>7. QED
  BY <1>2, <1>3, <1>4, <1>5, <1>6

\* A new process.
LEMMA RestartEffect ==
  ASSUME Restart
  PROVE  /\ Single(timer') /\ Left("ignition")' = 8
         /\ timer'["close"] = {} /\ timer'["retry"] = {} /\ timer'["late"] = {}
         /\ \A t \in Singles : t # "ignition" => (Left(t))' = -1
<1>1. /\ timer'["ignition"] = {8}
      /\ timer'["close"] = {} /\ timer'["retry"] = {} /\ timer'["late"] = {}
      /\ \A t \in Singles : t # "ignition" => timer'[t] = {}
  BY DEF Restart, Singles, Timers, IgnitionInterval
<1>2. Single(timer')
  BY <1>1 DEF Single
<1>3. /\ Left("ignition")' = 8
      /\ \A t \in Singles : t # "ignition" => (Left(t))' = -1
  BY <1>1 DEF Left, LeftOf, Only
<1>4. QED
  BY <1>1, <1>2, <1>3
-----------------------------------------------------------------------------
(* The invariant is inductive.                                             *)

core == <<timer, state, activity, handlers, postponed, offCount>>

\* What does not touch the recorder, and the end of the process.
LEMMA StillTiming ==
  ASSUME IInv, TypeOK', UNCHANGED core,
         \/ UNCHANGED <<process, posted>>
         \/ process' \in {"ended", "rebooting"} /\ Left("sample") = -1
  PROVE  IInv'
<1>1. /\ \A t \in Singles : (Left(t))' = Left(t)
      /\ Ahead' = Ahead /\ Dark' = Dark
  BY StillEffect DEF core
<1>2. CASE UNCHANGED <<process, posted>>
  <2>1. Clock' /\ Early'
    BY <1>1, <1>2 DEF IInv, Timing, Clock, Early, core, Singles
  <2>2. Places'
    BY <1>1, <1>2 DEF IInv, Timing, Places, core, Singles
  <2>3. Once'
    BY <1>1, <1>2 DEF IInv, Timing, Once, core, Singles
  <2>4. QED
    BY <2>1, <2>2, <2>3 DEF IInv, Timing, Single, core
<1>3. CASE process' \in {"ended", "rebooting"} /\ Left("sample") = -1
  <2>1. Clock' /\ Early'
    BY <1>1, <1>3 DEF IInv, Timing, Clock, Early, core, Singles
  <2>2. Places'
    BY <1>1, <1>3 DEF IInv, Timing, Places, core, Singles
  <2>3. Once'
    BY <1>1, <1>3 DEF IInv, Timing, Once, core, Singles
  <2>4. QED
    BY <2>1, <2>2, <2>3 DEF IInv, Timing, Single, core
<1>4. QED
  BY <1>2, <1>3

\* The invariant holds when the service starts.
LEMMA InitIInv == Init => IInv
<1> SUFFICES ASSUME Init PROVE IInv
  OBVIOUS
<1>1. TypeOK
  BY InitType
<1>2. /\ timer["ignition"] = {8}
      /\ timer["close"] = {} /\ timer["retry"] = {} /\ timer["late"] = {}
      /\ \A t \in Singles : t # "ignition" => timer[t] = {}
  BY DEF Init, Singles, Timers, IgnitionInterval
<1>3. Single(timer)
  BY <1>2 DEF Single
<1>4. /\ LeftOf(timer, "ignition") = 8
      /\ \A t \in Singles : t # "ignition" => LeftOf(timer, t) = -1
  BY <1>2 DEF LeftOf, Only
<1>5. Clock /\ Places /\ Early /\ Once
  BY <1>2, <1>4 DEF Init, Singles, Left, Clock, Places, Early, Once
<1>6. QED
  BY <1>1, <1>3, <1>5 DEF IInv, Timing

\* A tick: the distances stay, and what they are measured from moves on together.
LEMMA PassTiming ==
  ASSUME IInv, TypeOK', Pass
  PROVE  IInv'
<1>1. /\ UNCHANGED <<process, state, activity, handlers, live, postponed, offCount, posted>>
      /\ Single(timer') /\ Clock'
      /\ \A u \in {"confirm", "launch", "prepare"} :
           \/ Left(u) = -1 /\ (Left(u))' = -1
           \/ Left(u) \in 1..8 /\ (Left(u))' = Left(u) - 1
      /\ \/ Left("open") = -1 /\ Left("open")' = -1
         \/ Left("open") \in 1..8 /\ Left("open")' = Left("open") - 1
         \/ Left("open") = 0 /\ Left("open")' = 0 /\ (process = "up" => Ahead = 1)
      /\ Nearer("retry") /\ Nearer("late")
      /\ timer'["close"] = Tick(timer["close"])
      /\ process = "up" =>
           /\ Ahead \in 1..9 /\ Ahead' = Ahead - 1 /\ Dark' = Dark + 1 /\ Dark \in Int
           /\ ~posted
  BY PassEffect
<1>2. /\ timer'["close"] = {} <=> timer["close"] = {}
      /\ timer'["retry"] = {} <=> timer["retry"] = {}
      /\ timer'["late"] = {} <=> timer["late"] = {}
  BY <1>1 DEF Tick, Nearer
<1>3. Places'
  BY <1>1, <1>2 DEF IInv, Timing, Places
<1>4. Early'
  BY <1>1 DEF IInv, Timing, Early
<1>5. Once'
  <2> SUFFICES ASSUME postponed < 2 PROVE Once'
    BY <1>1 DEF Once
  <2>1. (postponed = 0 => timer["retry"] = {} /\ timer["late"] = {})'
    BY <1>1, <1>2 DEF IInv, Timing, Once
  <2>2. \A r, q \in timer'["retry"] : r = q
    <3> TAKE r, q \in timer'["retry"]
    <3>1. r \in Int /\ q \in Int /\ r + 1 \in timer["retry"] /\ q + 1 \in timer["retry"]
      BY <1>1 DEF Nearer
    <3>2. r + 1 = q + 1
      BY <3>1 DEF IInv, Timing, Once
    <3>3. QED
      BY <3>1, <3>2
  <2>3. ASSUME process = "up", NEW r \in timer'["retry"]
        PROVE  (r = Ahead - 2 /\ offCount >= 5)' \/ (activity = "starting" /\ Dark + r <= 28)'
    <3>1. r \in Int /\ r + 1 \in timer["retry"]
      BY <1>1 DEF Nearer
    <3>2. \/ r + 1 = Ahead - 2 /\ offCount >= 5
          \/ activity = "starting" /\ Dark + (r + 1) <= 28
      BY <2>3, <3>1 DEF IInv, Timing, Once
    <3>3. Dark' = Dark + 1 /\ Ahead' = Ahead - 1 /\ Dark \in Int /\ Ahead \in Int
      BY <2>3, <1>1
    <3>4. UNCHANGED <<activity, offCount>>
      BY <1>1
    <3>5. CASE r + 1 = Ahead - 2 /\ offCount >= 5
      BY <3>1, <3>3, <3>4, <3>5
    <3>6. CASE activity = "starting" /\ Dark + (r + 1) <= 28
      BY <3>1, <3>3, <3>4, <3>6
    <3>7. QED
      BY <3>2, <3>5, <3>6
  <2>4. ASSUME timer["late"] # {}
        PROVE  /\ (activity = "none")'
               /\ (Left("confirm") = -1 /\ Left("launch") = -1 /\ Left("open") = -1)'
    BY <2>4, <1>1 DEF IInv, Timing, Once
  <2>5. ASSUME process = "up", NEW r \in timer'["late"]
        PROVE  offCount >= 5 /\ r = Ahead' - 2
    <3>1. r \in Int /\ r + 1 \in timer["late"]
      BY <1>1 DEF Nearer
    <3>2. offCount >= 5 /\ r + 1 = Ahead - 2
      BY <2>5, <3>1 DEF IInv, Timing, Once
    <3>3. QED
      BY <2>5, <3>1, <3>2, <1>1
  <2>6. QED
    BY <2>1, <2>2, <2>3, <2>4, <2>5, <1>1, <1>2 DEF Once
<1>6. QED
  BY <1>1, <1>3, <1>4, <1>5 DEF IInv, Timing

\* The sampling of the ignition begins.
LEMMA BeginTiming ==
  ASSUME IInv, TypeOK', IgnitionBegin
  PROVE  IInv'
<1>1. /\ UNCHANGED <<process, state, activity, handlers, live, postponed, posted, offCount>>
      /\ Single(timer') /\ Others(timer, timer') /\ Clock'
      /\ Ahead' = Ahead /\ Dark' = Dark
      /\ \A u \in {"confirm", "launch", "open", "prepare"} : (Left(u))' = Left(u)
  BY BeginEffect
<1>2. Places' /\ Early'
  BY <1>1 DEF IInv, Timing, Places, Early, Others
<1>3. Once'
  BY <1>1 DEF IInv, Timing, Once, Others
<1>4. QED
  BY <1>1, <1>2, <1>3 DEF IInv, Timing

\* The ignition is decided: eight ticks to the next decision. A stop that was put off
\* once because the ignition was off has been repeated.
LEMMA DecideTiming ==
  ASSUME IInv, TypeOK', IgnitionDecide
  PROVE  IInv'
<1>1. /\ process = "up" /\ Ahead = 0 /\ Left("confirm") = -1 /\ ~posted
      /\ Single(timer') /\ Others(timer, timer') /\ Clock'
      /\ process' \in {"up", "failing"}
      /\ process' = "up" /\ posted' => StopAsked
      /\ offCount' = OffCount /\ UNCHANGED <<state, activity, handlers, live, postponed>>
      /\ Ahead' = 8
      /\ Left("confirm")' = IF LookAgain THEN 1 ELSE -1
      /\ \A u \in {"launch", "open", "prepare"} : (Left(u))' = Left(u)
  BY DecideEffect
<1>2. /\ offCount \in Nat /\ \A u \in Singles : Left(u) \in -1..8
      /\ timer["retry"] \subseteq 0..8 /\ timer["late"] \subseteq 0..8
  BY Facts DEF Left
<1>3. Dark \in Int /\ Dark' \in Int /\ Dark' <= Dark /\ Dark >= 8
  BY <1>1, <1>2 DEF Dark, OffCount
<1>4. LookAgain => OffCount = 0 /\ state = "NOT_RECORDING"
  BY DEF LookAgain, OffCount
<1>5. Places'
  BY <1>1, <1>4 DEF IInv, Timing, Places, Others
<1>6. Early'
  <2> SUFFICES ASSUME process' = "up" PROVE Early'
    BY DEF Early
  <2>1. posted' => offCount' >= 5
    BY <1>1, <1>2 DEF StopAsked, OffDelay, OffCount
  <2>2. QED
    BY <2>1, <1>1, <1>2, <1>3, <1>4 DEF IInv, Timing, Early, Singles
<1>7. Once'
  <2> SUFFICES ASSUME postponed < 2 PROVE Once'
    BY <1>1 DEF Once
  <2>1. timer["late"] = {}
    BY <1>1, <1>2 DEF IInv, Timing, Once
  <2>2. ASSUME NEW r \in timer["retry"]
        PROVE  activity = "starting" /\ Dark' + r <= 28
    <3>1. r \in 0..8
      BY <1>2
    <3>2. activity = "starting" /\ Dark + r <= 28
      BY <3>1, <1>1 DEF IInv, Timing, Once
    <3>3. ASSUME NEW d \in Int, NEW e \in Int, e <= d, d + r <= 28
          PROVE  e + r <= 28
      BY <3>1, <3>3
    <3>4. QED
      BY <3>2, <3>3, <1>3
  <2>3. timer'["retry"] = timer["retry"] /\ timer'["late"] = {} /\ UNCHANGED <<activity, postponed>>
    BY <2>1, <1>1 DEF Others
  <2>4. QED
    BY <2>2, <2>3 DEF IInv, Timing, Once
<1>8. QED
  BY <1>1, <1>5, <1>6, <1>7 DEF IInv, Timing

\* The second look.
LEMMA ConfirmTiming ==
  ASSUME IInv, TypeOK', Confirm
  PROVE  IInv'
<1>1. /\ Left("confirm") = 0 /\ state = "NOT_RECORDING" /\ activity = "none"
      /\ Left("launch") = -1 /\ Left("open") = -1 /\ Left("prepare") = -1
      /\ UNCHANGED <<process, offCount, posted, activity, handlers, live, postponed>>
      /\ Single(timer') /\ Others(timer, timer')
      /\ Ahead' = Ahead /\ Dark' = Dark /\ Kept({"ignition", "sample"})
      /\ \A u \in {"open", "prepare"} : (Left(u))' = Left(u)
      /\ Left("confirm")' = -1
      /\ \/ state' = "PREPARING" /\ Left("launch")' \in 1..8
         \/ state' = state /\ Left("launch")' = -1
  BY ConfirmEffect
<1>2. Clock'
  BY <1>1, ClockStays DEF IInv, Timing
<1>3. Places'
  BY <1>1 DEF IInv, Timing, Places, Others
<1>4. process = "up" => offCount = 0 /\ Ahead = 7 /\ Dark = 1
  BY <1>1 DEF IInv, Timing, Early, Dark
<1>5. Early'
  BY <1>1, <1>4 DEF IInv, Timing, Early
<1>6. Once'
  <2>1. timer'["retry"] = {} /\ (postponed < 2 => timer'["late"] = {})
    BY <1>1 DEF IInv, Timing, Places, Once, Others
  <2>2. QED
    BY <2>1, <1>1 DEF Once
<1>7. QED
  BY <1>1, <1>2, <1>3, <1>5, <1>6 DEF IInv, Timing

\* The activity is asked for.
LEMMA LaunchTiming ==
  ASSUME IInv, TypeOK', Launch
  PROVE  IInv'
<1>1. /\ Left("launch") = 0 /\ activity = "none" /\ Left("open") = -1 /\ Left("prepare") = -1
      /\ Left("confirm") = -1
      /\ UNCHANGED <<process, offCount, posted, activity, handlers, live, postponed, state>>
      /\ Single(timer') /\ Others(timer, timer')
      /\ Ahead' = Ahead /\ Dark' = Dark /\ Kept({"ignition", "sample"})
      /\ \A u \in {"confirm", "prepare"} : (Left(u))' = Left(u)
      /\ Left("launch")' = -1 /\ Left("open")' = OpenTicks
  BY LaunchEffect
<1>2. Clock'
  BY <1>1, ClockStays DEF IInv, Timing
<1>3. OpenTicks \in 0..8 /\ Dark \in Int
  BY Facts, TicksAssumption DEF TicksAssumption, Dark, Ahead, Left, Singles
<1>4. Places'
  BY <1>1, <1>3 DEF IInv, Timing, Places, Others
<1>5. Early'
  BY <1>1, <1>3 DEF IInv, Timing, Early
<1>6. Once'
  <2>1. timer'["retry"] = {} /\ (postponed < 2 => timer'["late"] = {})
    BY <1>1 DEF IInv, Timing, Places, Once, Others
  <2>2. QED
    BY <2>1, <1>1 DEF Once
<1>7. QED
  BY <1>1, <1>2, <1>4, <1>5, <1>6 DEF IInv, Timing

\* The activity starts: of the last one nothing is left but a stop put off twice.
LEMMA OnStartTiming ==
  ASSUME IInv, TypeOK', OnStart
  PROVE  IInv'
<1>1. /\ process = "up" /\ activity = "none" /\ state # "NOT_RECORDING"
      /\ Left("open") \in 0..8 /\ Left("launch") = -1 /\ Left("prepare") = -1
      /\ Left("confirm") = -1 /\ timer["retry"] = {}
      /\ postponed' = IF timer["late"] = {} THEN 0 ELSE postponed
      /\ UNCHANGED <<process, offCount, posted, state>>
      /\ activity' = "starting" /\ handlers' = TRUE
      /\ Single(timer') /\ Others(timer, timer')
      /\ Ahead' = Ahead /\ Dark' = Dark /\ Kept({"ignition", "sample"})
      /\ \A u \in {"confirm", "launch"} : (Left(u))' = Left(u)
      /\ Left("open")' = -1 /\ Left("prepare")' = 4
  BY OnStartEffect
<1>2. Clock'
  BY <1>1, ClockStays DEF IInv, Timing
<1>3. Dark \in Int
  BY Facts DEF Dark, Ahead, Left, Singles
<1>4. Places'
  BY <1>1, <1>3 DEF IInv, Timing, Places, Others
<1>5. Early'
  BY <1>1, <1>3 DEF IInv, Timing, Early
<1>6. Once'
  <2>1. timer'["retry"] = {} /\ (postponed' < 2 => timer'["late"] = {})
    BY <1>1 DEF IInv, Timing, Once, Others
  <2>2. QED
    BY <2>1, <1>1 DEF Once
<1>7. QED
  BY <1>1, <1>2, <1>4, <1>5, <1>6 DEF IInv, Timing

\* The camera is prepared, or stopped because it does not work.
LEMMA PreparedTiming ==
  ASSUME IInv, TypeOK', Prepared
  PROVE  IInv'
<1>1. /\ Left("prepare") = 0 /\ activity = "starting" /\ state # "NOT_RECORDING"
      /\ Left("launch") = -1 /\ Left("open") = -1 /\ Left("confirm") = -1
      /\ timer["retry"] = {} /\ timer'["late"] = timer["late"]
      /\ UNCHANGED <<offCount, posted>> /\ Single(timer')
      /\ Ahead' = Ahead /\ Dark' = Dark /\ Kept({"ignition", "sample"})
      /\ \A u \in {"confirm", "launch", "open"} : (Left(u))' = Left(u)
      /\ Left("prepare")' = -1
      /\ \/ /\ state' \in {state, "RECORDING"} /\ activity' = "recording"
            /\ UNCHANGED <<handlers, live, postponed>>
            /\ UNCHANGED process \/ (process' = "crashed" /\ postponed = 2)
            /\ timer'["retry"] = {} /\ timer'["close"] = timer["close"]
         \/ state' = state /\ UNCHANGED process /\ (Delayed({}) \/ Ended({}))
  BY PreparedEffect
<1>2. /\ timer["close"] = {} /\ process # "crashed" /\ (handlers \/ postponed = 2)
      /\ (postponed < 2 => timer["late"] = {})
  BY <1>1 DEF IInv, Timing, Places, Once, Prepared, Alive
<1>3. Clock'
  <2>1. CASE process' = "crashed"
    <3>1. Left("sample") \in -1..8 /\ Left("ignition") \in -1..8
      BY Facts DEF Left, Singles
    <3>2. QED
      BY <2>1 DEF Clock
  <2>2. CASE UNCHANGED process
    BY <1>1, <2>2, ClockStays DEF IInv, Timing
  <2>3. QED
    BY <1>1, <2>1, <2>2
<1>4. Early'
  <2>1. CASE process' = "up"
    <3>1. process = "up"
      BY <1>1, <2>1
    <3>2. QED
      BY <1>1, <3>1 DEF IInv, Timing, Early
  <2>2. QED
    BY <2>1 DEF Early
<1>5. postponed \in 0..2
  BY DEF IInv, TypeOK
<1>6. Places'
  <2>1. CASE /\ state' \in {state, "RECORDING"} /\ activity' = "recording"
             /\ UNCHANGED <<handlers, live, postponed>>
             /\ UNCHANGED process \/ (process' = "crashed" /\ postponed = 2)
             /\ timer'["retry"] = {} /\ timer'["close"] = timer["close"]
    BY <1>1, <1>2, <2>1 DEF Places
  <2>2. CASE state' = state /\ UNCHANGED process /\ Delayed({})
    BY <1>1, <1>2, <1>5, <2>2 DEF Places, Delayed, PutOff
  <2>3. CASE state' = state /\ UNCHANGED process /\ Ended({})
    BY <1>1, <1>2, <2>3 DEF Places, Ended
  <2>4. QED
    BY <1>1, <2>1, <2>2, <2>3
<1>7. Once'
  <2>1. CASE timer'["retry"] = {} /\ UNCHANGED postponed
    BY <2>1, <1>1, <1>2 DEF Once
  <2>2. CASE UNCHANGED process /\ Delayed({})
    <3> SUFFICES ASSUME postponed' < 2 PROVE Once'
      BY DEF Once
    <3>1. postponed' = 1 /\ postponed < 2 /\ timer'["retry"] = {6} /\ activity' = "starting"
      BY <1>1, <1>5, <2>2 DEF Delayed, PutOff
    <3>2. process = "up" => Dark \in Int /\ Dark <= 22
      BY <1>1, Facts DEF IInv, Timing, Early, Dark, Ahead, Left, Singles
    <3>3. process' = "up" => (Dark + 6 <= 28)'
      BY <1>1, <2>2, <3>2
    <3>4. timer'["late"] = {}
      BY <1>1, <1>2, <3>1
    <3>5. QED
      BY <3>1, <3>3, <3>4 DEF Once
  <2>3. QED
    BY <1>1, <2>1, <2>2 DEF Ended
<1>8. QED
  BY <1>1, <1>3, <1>4, <1>6, <1>7 DEF IInv, Timing

\* A stop is repeated: if it was the first to be put off, it is the last.
LEMMA RetryTiming ==
  ASSUME IInv, TypeOK', Retry
  PROVE  IInv'
<1>1. /\ 0 \in timer["retry"] /\ activity # "none" /\ timer'["late"] = timer["late"]
      /\ UNCHANGED <<offCount, posted, process, state>> /\ Single(timer')
      /\ Ahead' = Ahead /\ Dark' = Dark /\ Kept({"ignition", "sample"})
      /\ \A u \in {"confirm", "launch", "open", "prepare"} : (Left(u))' = Left(u)
      /\ Delayed(timer["retry"] \ {0}) \/ Ended(timer["retry"] \ {0})
  BY RetryEffect
<1>2. /\ process # "crashed" /\ Left("prepare") \in -1..8 /\ postponed \in 0..2
      /\ \A u \in {"prepare", "launch", "open"} : Left(u) \in -1..8
  BY Facts DEF Retry, Alive, IInv, TypeOK, Left, Singles
<1>3. Left("prepare") = -1
  BY <1>1, <1>2 DEF IInv, Timing, Places
<1>4. Clock' /\ Early'
  BY <1>1, ClockStays DEF IInv, Timing, Early
<1>5. Places'
  <2>1. CASE Delayed(timer["retry"] \ {0})
    BY <1>1, <1>2, <1>3, <2>1 DEF IInv, Timing, Places, Delayed, PutOff
  <2>2. CASE Ended(timer["retry"] \ {0})
    BY <1>1, <1>2, <1>3, <2>2 DEF IInv, Timing, Places, Ended
  <2>3. QED
    BY <1>1, <2>1, <2>2
<1>6. Once'
  <2> SUFFICES ASSUME postponed' < 2 PROVE Once'
    BY DEF Once
  <2>1. Ended(timer["retry"] \ {0})
    <3>1. CASE Delayed(timer["retry"] \ {0})
      <4>1. postponed = 0
        BY <1>2, <3>1 DEF Delayed, PutOff
      <4>2. QED
        BY <4>1, <1>1 DEF IInv, Timing, Once
    <3>2. QED
      BY <1>1, <3>1
  <2>2. UNCHANGED postponed /\ timer'["retry"] = timer["retry"] \ {0}
    BY <2>1 DEF Ended
  <2>3. timer'["retry"] = {} /\ timer'["late"] = {}
    BY <1>1, <2>2 DEF IInv, Timing, Once
  <2>4. QED
    BY <2>3 DEF Once
<1>7. QED
  BY <1>1, <1>4, <1>5, <1>6 DEF IInv, Timing

\* A stop of an earlier activity is repeated: it meets the next one only if it was put
\* off twice.
LEMMA LateTiming ==
  ASSUME IInv, TypeOK', LateRetry
  PROVE  IInv'
<1>1. /\ 0 \in timer["late"]
      /\ UNCHANGED <<offCount, posted, process, state, activity, live>> /\ Single(timer')
      /\ timer'["retry"] = timer["retry"] /\ timer'["close"] = timer["close"]
      /\ Ahead' = Ahead /\ Dark' = Dark /\ Kept({"ignition", "sample"})
      /\ \A u \in {"confirm", "launch", "open", "prepare"} : (Left(u))' = Left(u)
      /\ \/ /\ PutOff /\ UNCHANGED handlers
         \/ /\ handlers' = FALSE /\ UNCHANGED postponed
            /\ timer'["late"] = timer["late"] \ {0}
  BY LateEffect
<1>2. process # "crashed" /\ postponed \in 0..2 /\ (postponed < 2 => activity = "none")
  BY <1>1 DEF LateRetry, Alive, IInv, TypeOK, Timing, Once
<1>3. Clock' /\ Early'
  BY <1>1, ClockStays DEF IInv, Timing, Early
<1>4. Places'
  BY <1>1, <1>2 DEF IInv, Timing, Places, PutOff
<1>5. Once'
  <2> SUFFICES ASSUME postponed' < 2 PROVE Once'
    BY DEF Once
  <2>1. UNCHANGED postponed /\ timer'["late"] = timer["late"] \ {0}
    <3>1. postponed # 0
      BY <1>1 DEF IInv, Timing, Once
    <3>2. QED
      BY <3>1, <1>1, <1>2 DEF PutOff
  <2>2. QED
    BY <1>1, <2>1 DEF IInv, Timing, Once
<1>6. QED
  BY <1>1, <1>3, <1>4, <1>5 DEF IInv, Timing

\* The activity hears of the ignition: a stop that is put off now is repeated two ticks
\* before the next check.
LEMMA HandleTiming ==
  ASSUME IInv, TypeOK', HandleIgnitionOff
  PROVE  IInv'
<1>1. /\ process = "up" /\ posted /\ posted' = FALSE /\ UNCHANGED <<process, state, offCount>>
      /\ Ahead = 8 /\ offCount \in Nat /\ offCount >= 5
      /\ Dark \in Int /\ Dark = 8 * offCount
      /\ Left("confirm") = -1 /\ Left("launch") = -1 /\ Left("open") = -1 /\ Left("prepare") = -1
      /\ Single(timer') /\ timer'["late"] = timer["late"]
      /\ Ahead' = Ahead /\ Dark' = Dark /\ Kept({"ignition", "sample"})
      /\ \A u \in {"confirm", "launch", "open", "prepare"} : (Left(u))' = Left(u)
      /\ \/ activity = "none" /\ UNCHANGED <<timer, recorder>>
         \/ activity # "none" /\ Delayed(timer["retry"])
         \/ activity # "none" /\ Ended(timer["retry"])
  BY HandleEffect
<1>2. Clock' /\ Early'
  BY <1>1, ClockStays DEF IInv, Timing, Early
<1>3. postponed \in 0..2 /\ timer["retry"] \subseteq 0..8
  BY Facts DEF IInv, TypeOK
<1>4. Places'
  <2>1. CASE activity = "none" /\ UNCHANGED <<timer, recorder>>
    BY <1>1, <2>1 DEF IInv, Timing, Places, recorder
  <2>2. CASE activity # "none" /\ Delayed(timer["retry"])
    BY <1>1, <1>3, <2>2 DEF IInv, Timing, Places, Delayed, PutOff
  <2>3. CASE activity # "none" /\ Ended(timer["retry"])
    BY <1>1, <2>3 DEF IInv, Timing, Places, Ended
  <2>4. QED
    BY <1>1, <2>1, <2>2, <2>3
<1>5. Once'
  <2> SUFFICES ASSUME postponed' < 2 PROVE Once'
    BY DEF Once
  <2>1. CASE activity = "none" /\ UNCHANGED <<timer, recorder>>
    BY <1>1, <2>1 DEF IInv, Timing, Once, recorder
  <2>2. CASE activity # "none" /\ Delayed(timer["retry"])
    <3>1. postponed = 0 /\ postponed' = 1 /\ timer'["retry"] = timer["retry"] \cup {6}
      BY <1>3, <2>2 DEF Delayed, PutOff
    <3>2. timer'["retry"] = {6} /\ timer'["late"] = {}
      BY <3>1, <1>1 DEF IInv, Timing, Once
    <3>3. (6 = Ahead - 2 /\ offCount >= 5)'
      BY <1>1
    <3>4. QED
      BY <3>1, <3>2, <3>3 DEF Once
  <2>3. CASE activity # "none" /\ Ended(timer["retry"])
    <3>1. postponed < 2 /\ UNCHANGED postponed /\ timer'["retry"] = timer["retry"]
      BY <2>3 DEF Ended
    <3>2. timer["late"] = {}
      BY <3>1, <2>3 DEF IInv, Timing, Once
    <3>3. ASSUME NEW r \in timer["retry"]
          PROVE  (r = Ahead - 2 /\ offCount >= 5)'
      <4>1. r \in 0..8 /\ ~(Dark + r <= 28)
        BY <1>1, <1>3
      <4>2. r = Ahead - 2
        BY <4>1, <3>1, <1>1 DEF IInv, Timing, Once
      <4>3. QED
        BY <4>2, <1>1
    <3>4. QED
      BY <3>1, <3>2, <3>3, <1>1 DEF IInv, Timing, Once
  <2>4. QED
    BY <1>1, <2>1, <2>2, <2>3
<1>6. QED
  BY <1>1, <1>2, <1>4, <1>5 DEF IInv, Timing

\* The activity has gone: a stop that was put off once comes before the next check.
LEMMA OnStopTiming ==
  ASSUME IInv, TypeOK', OnStop
  PROVE  IInv'
<1>1. /\ state' = "NOT_RECORDING" /\ activity' = "none" /\ handlers' = FALSE
      /\ UNCHANGED <<process, offCount, posted, postponed>> /\ process = "up"
      /\ activity = "stopping" /\ Left("confirm") = -1
      /\ Left("launch") = -1 /\ Left("open") = -1 /\ Left("prepare") = -1
      /\ timer'["close"] = {} /\ timer'["retry"] = {}
      /\ timer'["late"] = timer["late"] \cup timer["retry"] /\ Single(timer')
      /\ Ahead' = Ahead /\ Dark' = Dark /\ Kept({"ignition", "sample"})
      /\ \A u \in {"confirm", "launch", "open", "prepare"} : (Left(u))' = Left(u)
  BY OnStopEffect
<1>2. Clock'
  BY <1>1, ClockStays DEF IInv, Timing
<1>3. Places' /\ Early'
  BY <1>1 DEF IInv, Timing, Places, Early
<1>4. Once'
  <2> SUFFICES ASSUME postponed < 2 PROVE Once'
    BY <1>1 DEF Once
  <2>1. timer["late"] = {}
    BY <1>1 DEF IInv, Timing, Once
  <2>2. timer'["late"] = timer["retry"]
    BY <2>1, <1>1
  <2>3. \A r \in timer["retry"] : r = Ahead - 2 /\ offCount >= 5
    BY <1>1 DEF IInv, Timing, Once
  <2>4. QED
    BY <2>2, <2>3, <1>1 DEF IInv, Timing, Once
<1>5. QED
  BY <1>1, <1>2, <1>3, <1>4 DEF IInv, Timing

\* A new process.
LEMMA RestartTiming ==
  ASSUME IInv, TypeOK', Restart
  PROVE  IInv'
<1>1. /\ Single(timer') /\ Left("ignition")' = 8
      /\ timer'["close"] = {} /\ timer'["retry"] = {} /\ timer'["late"] = {}
      /\ \A t \in Singles : t # "ignition" => (Left(t))' = -1
  BY RestartEffect
<1>2. Clock' /\ Places' /\ Early' /\ Once'
  BY <1>1 DEF Restart, Singles, Clock, Places, Early, Once
<1>3. QED
  BY <1>1, <1>2 DEF IInv, Timing

\* Every step keeps the invariant.
LEMMA InductiveTiming ==
  ASSUME IInv, [Next]_vars
  PROVE  IInv'
<1>0. TypeOK'
  <2>1. TimerType' /\ RestType'
    BY NextTimer, NextRest DEF IInv
  <2>2. QED
    BY <2>1 DEF TypeOK, TimerType, RestType, FlagType, CountType, PlaceType
<1>1. CASE Pass
  BY <1>0, <1>1, PassTiming
<1>2. CASE Turn \/ Move \/ Break
  BY <1>0, <1>2, StillTiming DEF Turn, Move, Break, Change, core, recorder
<1>3. CASE SetDate
  BY <1>0, <1>3, StillTiming DEF SetDate, core, recorder
<1>4. CASE Restart
  BY <1>0, <1>4, RestartTiming
<1>5. CASE IgnitionBegin
  BY <1>0, <1>5, BeginTiming
<1>6. CASE IgnitionDecide
  BY <1>0, <1>6, DecideTiming
<1>7. CASE Confirm
  BY <1>0, <1>7, ConfirmTiming
<1>8. CASE Launch
  BY <1>0, <1>8, LaunchTiming
<1>9. CASE RebootCommand
  <2>1. process' = "rebooting" /\ Left("sample") = -1
    BY <1>9, Facts, LeftInt DEF RebootCommand, UiFree, Left, Singles
  <2>2. QED
    BY <1>0, <1>9, <2>1, StillTiming DEF RebootCommand, Change, core, recorder
<1>10. CASE EndProcess
  <2>1. process' = "ended" /\ Left("sample") = -1
    BY <1>10 DEF EndProcess, IInv, Timing, Clock
  <2>2. QED
    BY <1>0, <1>10, <2>1, StillTiming DEF EndProcess, core, recorder
<1>11. CASE OnStart
  BY <1>0, <1>11, OnStartTiming
<1>12. CASE Prepared
  BY <1>0, <1>12, PreparedTiming
<1>13. CASE Retry
  BY <1>0, <1>13, RetryTiming
<1>14. CASE LateRetry
  BY <1>0, <1>14, LateTiming
<1>15. CASE HandleIgnitionOff
  BY <1>0, <1>15, HandleTiming
<1>16. CASE LiveViewStart
  BY <1>0, <1>16, StillTiming DEF LiveViewStart, core
<1>17. CASE LiveViewStop
  BY <1>0, <1>17, StillTiming DEF LiveViewStop, core
<1>18. CASE OnStop
  BY <1>0, <1>18, OnStopTiming
<1>19. CASE UNCHANGED vars
  BY <1>0, <1>19, StillTiming DEF vars, core, recorder
<1>20. QED
  BY <1>1, <1>2, <1>3, <1>4, <1>5, <1>6, <1>7, <1>8, <1>9, <1>10, <1>11, <1>12, <1>13,
     <1>14, <1>15, <1>16, <1>17, <1>18, <1>19 DEF Next

LEMMA TimingHolds == Spec => []IInv
<1>1. IInv /\ [Next]_vars => IInv'
  BY InductiveTiming
<1>2. QED
  BY <1>1, InitIInv, PTL DEF Spec

\* When an activity is to start, the last one has gone and none of its timers is pending,
\* but for a stop that live views have put off twice (OneRecorder).
THEOREM OnlyOneRecorder == Spec => []OneRecorder
<1>1. IInv => OneRecorder
  <2> SUFFICES ASSUME IInv, timer["open"] # {} PROVE OneRecorder
    BY DEF OneRecorder
  <2>1. /\ \A t \in Singles : timer[t] = {} <=> Left(t) = -1
        /\ \A t \in Singles : Left(t) \in -1..8
    BY Facts, LeftInt DEF Left
  <2>2. Left("open") >= 0
    BY <2>1 DEF Singles
  <2>3. /\ activity = "none" /\ timer["close"] = {} /\ timer["retry"] = {}
        /\ Left("prepare") = -1 /\ Left("launch") = -1
        /\ postponed < 2 => timer["late"] = {}
    BY <2>1, <2>2 DEF IInv, Timing, Places, Once, Singles
  <2>4. QED
    BY <2>1, <2>3 DEF OneRecorder, Singles
<1>2. QED
  BY <1>1, TimingHolds, PTL

\* The recording is never started without the handlers that onStart made, unless live
\* views have put a stop off twice (StartHasHandlers).
THEOREM NoCrash == Spec => []StartHasHandlers
<1>1. IInv => StartHasHandlers
  BY DEF IInv, Timing, Places, StartHasHandlers
<1>2. QED
  BY <1>1, TimingHolds, PTL
-----------------------------------------------------------------------------
(***************************************************************************)
(* How soon the camera records, and stops, and that the service gives up   *)
(* only after a fault.                                                     *)
(*                                                                         *)
(* On top of Timing the invariant bounds, for each timer that may be       *)
(* pending in each phase of the activity, the ticks since the surroundings *)
(* last changed (steady) and those since recCheck began to count (Waited). *)
(* Such a bound holds with what is left of the timer added, so that a tick *)
(* does not change it, and the next phase begins with the sum.             *)
(***************************************************************************)

\* The state of a recorder that is being counted for a restart, that may record, and
\* that is to stop.
Counting == process = "up" /\ recCheck >= 1 /\ fault = FALSE
Ready == process = "up" /\ line /\ working /\ dated
Still == process = "up" /\ ~line /\ ~moving

\* The ticks that recCheck stands for.
Waited == 8 * recCheck - Ahead

\* The activity ends before x, counted in ticks, is beyond m, or just after: the UI
\* thread may be asleep for the tick that a sample of the ignition takes.
EndsBy(c, a, x, m) == \E e \in c : x + e <= m \/ (e = 0 /\ a \in {0, 8} /\ x <= m + 1)
Ends(x, m) == EndsBy(timer["close"], Ahead, x, m)

\* The activity has been asked to stop for want of ignition, and a live view put it off.
Asked == offCount >= 5 /\ ~(posted /\ offCount = 5)
Repeated == \E r \in timer["retry"] : steady + r <= 55 /\ (live => steady + r <= 6)

\* The activity goes from one phase to the next: in each of them something is pending.
Goes ==
  /\ activity = "starting" => Left("prepare") >= 0 \/ timer["retry"] # {}
  /\ \A r \in timer["retry"] : r <= 6
  /\ Left("prepare") <= 4
  /\ shook => Left("sample") >= 0
  /\ process = "up" =>
       /\ activity \in {"starting", "recording"} =>
            offCount <= 4 \/ timer["retry"] # {} \/ (posted /\ offCount = 5)
       /\ state # "NOT_RECORDING" => dated
       /\ activity = "recording" => state = "RECORDING"
       /\ line /\ posted => steady = 0

\* How long recCheck may have counted in each phase.
Waits == Counting =>
  /\ offCount = 0
  /\ \A r \in timer["retry"] : Waited + r <= 6
  /\ Left("confirm") >= 0 => Waited + Left("confirm") <= 33
  /\ state = "NOT_RECORDING" /\ Left("confirm") = -1 => recCheck <= 4
  /\ Left("launch") >= 0 => Waited + Left("launch") <= 41
  /\ Left("open") >= 0 => \/ Waited + Left("open") <= 49
                          \/ Left("open") = 0 /\ Ahead \in {0, 8} /\ Waited <= 50
  /\ Left("prepare") >= 0 => Waited + Left("prepare") <= 54
  /\ activity = "recording" => Waited <= 54
  /\ activity = "stopping" => Ends(Waited, 28)

\* How long the ignition may have been off, without motion, in each phase.
Stops == Still =>
  /\ shaken => steady + Ahead + (IF Left("sample") >= 0 THEN 8 ELSE 0) <= 9
  /\ shook => steady + Ahead <= 9
  /\ ~shaken /\ ~shook /\ state # "NOT_RECORDING" => steady <= 9 + Dark
  /\ activity \in {"starting", "recording"} /\ Asked => Repeated
  /\ activity = "stopping" => Ends(steady, 57)

\* How long the camera may have been ready to record in each phase.
Starts == Ready =>
  /\ \A r \in timer["retry"] : steady + r <= 12 /\ (live => steady + r <= 6)
  /\ Left("confirm") >= 0 => steady + Left("confirm") <= 24
  /\ state = "NOT_RECORDING" /\ Left("confirm") = -1 => steady + Ahead <= 23
  /\ Left("launch") >= 0 => steady + Left("launch") <= 30
  /\ Left("open") >= 0 => \/ steady + Left("open") <= 34
                          \/ Left("open") = 0 /\ Ahead \in {0, 8} /\ steady <= 35
  /\ Left("prepare") >= 0 => steady + Left("prepare") <= 39
  /\ activity = "stopping" => Ends(steady, 14)

\* The bounds on how long Android takes to start and to stop the activity.
QuickStop == CloseTicks <= 2
Quick == QuickStop /\ OpenTicks <= 4 /\ WakeTicks \subseteq 0..6

Soon == Goes /\ Waits /\ (QuickStop => Stops) /\ (Quick => Starts)

LEMMA Numbers ==
  ASSUME IInv
  PROVE  /\ steady \in 0..64 /\ recCheck \in 0..8 /\ offCount \in Nat
         /\ Ahead \in 0..9 /\ Dark \in Int /\ Waited \in Int
         /\ Left("confirm") \in -1..8 /\ Left("launch") \in -1..8 /\ Left("open") \in -1..8
         /\ Left("prepare") \in -1..8 /\ Left("sample") \in -1..8
         /\ timer["close"] \subseteq 0..8 /\ timer["retry"] \subseteq 0..8
<1>1. steady \in 0..64 /\ recCheck \in 0..8
  BY DEF IInv, TypeOK, Longest, MaxRecCheck
<1>2. \A t \in Singles : Left(t) \in -1..8
  BY Facts DEF Left
<1>3. Ahead \in 0..9
  BY <1>2 DEF Ahead, Singles
<1>4. offCount \in Nat /\ timer["close"] \subseteq 0..8 /\ timer["retry"] \subseteq 0..8
  BY Facts
<1>5. QED
  BY <1>1, <1>2, <1>3, <1>4 DEF Singles, Dark, Waited

\* When an activity must have ended, and that more ends of it change nothing.
LEMMA EndsBound ==
  ASSUME NEW c, c \subseteq 0..8, NEW a \in 0..9, NEW x \in Int, NEW m \in Int,
         EndsBy(c, a, x, m)
  PROVE  x <= m + 1 /\ (x <= m \/ a \in {0, 8})
BY DEF EndsBy

LEMMA EndsMore ==
  ASSUME NEW c, NEW d, c \subseteq d, NEW a, NEW x, NEW m, EndsBy(c, a, x, m)
  PROVE  EndsBy(d, a, x, m)
BY DEF EndsBy

LEMMA EndsNew ==
  ASSUME NEW d, NEW e \in d, e \in 0..8, NEW a, NEW x \in Int, NEW m \in Int, x + e <= m
  PROVE  EndsBy(d, a, x, m)
BY DEF EndsBy

\* The invariant holds when the service starts.
LEMMA InitSoon == Init => Soon
<1> SUFFICES ASSUME Init PROVE Soon
  OBVIOUS
<1>1. IInv
  BY InitIInv
<1>2. timer["retry"] = {} /\ \A t \in Singles : t # "ignition" => Left(t) = -1
  BY DEF Init, Singles, Timers, Left, LeftOf, Only
<1>3. Goes
  BY <1>2 DEF Init, Goes, Singles
<1>4. Waits /\ Stops /\ Starts
  BY <1>2 DEF Init, Waits, Stops, Starts, Counting, Ready, Singles
<1>5. QED
  BY <1>3, <1>4 DEF Soon

\* The surroundings change, or a live view begins: the time since then begins anew.
LEMMA FreshSoon ==
  ASSUME IInv, Soon,
         UNCHANGED <<timer, state, activity, offCount, recCheck, fault, shaken, shook>>,
         steady' = 0,
         \/ UNCHANGED <<process, posted>> /\ (dated => dated')
         \/ process' \notin {"up"}
  PROVE  Soon'
<1>1. /\ \A t \in Singles : (Left(t))' = Left(t)
      /\ Ahead' = Ahead /\ Dark' = Dark
      /\ timer'["close"] = timer["close"] /\ timer'["retry"] = timer["retry"]
  BY StillEffect
<1>2. /\ Left("confirm")' = Left("confirm") /\ Left("launch")' = Left("launch")
      /\ Left("open")' = Left("open") /\ Left("prepare")' = Left("prepare")
      /\ Left("sample")' = Left("sample")
  BY <1>1 DEF Singles
<1>3. /\ steady \in 0..64 /\ recCheck \in 0..8 /\ offCount \in Nat
      /\ Ahead \in 0..9 /\ Dark \in Int /\ Waited \in Int
      /\ Left("confirm") \in -1..8 /\ Left("launch") \in -1..8 /\ Left("open") \in -1..8
      /\ Left("prepare") \in -1..8 /\ Left("sample") \in -1..8
      /\ timer["close"] \subseteq 0..8 /\ timer["retry"] \subseteq 0..8
  BY Numbers
<1>4. Counting' => Counting /\ UNCHANGED process
  BY DEF Counting
<1>5. Waited' = Waited
  BY <1>1 DEF Waited
<1>6. Goes'
  BY <1>1, <1>2, <1>3 DEF Soon, Goes
<1>7. \A r \in timer["retry"] : r \in 0..6
  BY <1>3 DEF Soon, Goes
<1>8. Waits'
  <2> SUFFICES ASSUME Counting' PROVE Waits'
    BY DEF Waits
  <2>1. Ends(Waited, 28)' <=> Ends(Waited, 28)
    BY <1>1, <1>5 DEF Ends
  <2>2. QED
    BY <2>1, <1>1, <1>2, <1>4, <1>5 DEF Soon, Waits
<1>9. ASSUME process' = "up", activity = "stopping", NEW m \in {14, 57}
      PROVE  Ends(steady, m)'
  <2>1. PICK e \in timer["close"] : TRUE
    BY <1>9 DEF IInv, Timing, Places
  <2>2. e \in 0..8 /\ 0 + e <= m
    BY <1>3, <2>1
  <2>3. EndsBy(timer["close"], Ahead, 0, m)
    BY <2>1, <2>2, EndsNew
  <2>4. QED
    BY <2>3, <1>1 DEF Ends
<1>10. Stops'
  <2> SUFFICES ASSUME Still' PROVE Stops'
    BY DEF Stops
  <2>0. process' = "up" /\ UNCHANGED <<process, posted>>
    BY DEF Still
  <2>1. Left("sample") >= 0 => Ahead <= 1
    BY <2>0, <1>3 DEF IInv, Timing, Clock, Ahead
  <2>2. steady' <= 9 + Dark
    BY <1>3 DEF Dark
  <2>3. ASSUME activity \in {"starting", "recording"}, Asked' PROVE Repeated'
    <3>1. timer["retry"] # {}
      BY <2>0, <2>3, <1>3 DEF Asked, Soon, Goes
    <3>2. PICK r \in timer["retry"] : TRUE
      BY <3>1
    <3>3. r \in 0..6
      BY <3>2, <1>7
    <3>4. steady' + r <= 55 /\ steady' + r <= 6
      BY <3>3
    <3>5. QED
      BY <3>2, <3>4, <1>1 DEF Repeated
  <2>4. QED
    BY <2>0, <2>1, <2>2, <2>3, <1>1, <1>2, <1>3, <1>9 DEF Stops
<1>11. Starts'
  <2>1. \A r \in timer'["retry"] : steady' + r <= 12 /\ (live' => steady' + r <= 6)
    BY <1>1, <1>7
  <2>2. QED
    BY <2>1, <1>1, <1>2, <1>3, <1>9 DEF Starts, Ready
<1>12. QED
  BY <1>6, <1>8, <1>10, <1>11 DEF Soon

\* A tick: what is left of the timers goes down as the time goes up.
LEMMA PassSoon ==
  ASSUME IInv, Soon, Pass
  PROVE  Soon'
<1>1. /\ UNCHANGED <<process, state, activity, handlers, live, offCount, posted>>
      /\ \A u \in {"confirm", "launch", "prepare"} :
           \/ Left(u) = -1 /\ (Left(u))' = -1
           \/ Left(u) \in 1..8 /\ (Left(u))' = Left(u) - 1
      /\ \/ Left("open") = -1 /\ Left("open")' = -1
         \/ Left("open") \in 1..8 /\ Left("open")' = Left("open") - 1
         \/ Left("open") = 0 /\ Left("open")' = 0 /\ (process = "up" => Ahead = 1)
      /\ Nearer("retry") /\ timer["close"] \subseteq 0..8
      /\ process = "up" =>
           /\ Ahead \in 1..9 /\ Ahead' = Ahead - 1 /\ Dark' = Dark + 1 /\ Dark \in Int
           /\ ~posted
           /\ Left("sample") \in {-1, 1} /\ (Left("sample") = 1 => Ahead = 1)
           /\ Left("sample")' = IF Left("sample") = 1 THEN 0 ELSE -1
           /\ \A e \in timer["close"] :
                \/ e \in 1..8 /\ e - 1 \in timer'["close"]
                \/ e = 0 /\ e \in timer'["close"] /\ Ahead = 1
  BY PassEffect
<1>2. /\ UNCHANGED <<line, moving, working, dated, shook>>
      /\ steady \in 0..64 /\ steady' \in 0..65 /\ steady' <= steady + 1
      /\ steady \in Int /\ steady' \in Int
      /\ recCheck \in 0..8 /\ Waited \in Int
  BY Numbers DEF Pass, world, Longest
<1>3. Counting' => /\ Counting /\ recCheck' = recCheck /\ Waited' = Waited + 1
                   /\ activity # "recording"
  <2> SUFFICES ASSUME Counting' PROVE /\ Counting /\ recCheck' = recCheck /\ Waited' = Waited + 1
                                      /\ activity # "recording"
    OBVIOUS
  <2>0. recCheck' # 0 /\ ~fault'
    BY DEF Counting
  <2>1. recCheck' = recCheck /\ recCheck' # 0 /\ ~Frames /\ ~fault /\ working
    BY <2>0 DEF Pass
  <2>2. Counting /\ activity # "recording"
    BY <2>1, <1>1 DEF Counting, Frames, IInv, TypeOK
  <2>3. Waited' = Waited + 1
    BY <2>1, <2>2, <1>1, <1>2 DEF Waited, Counting
  <2>4. QED
    BY <2>1, <2>2, <2>3
<1>4. Still => (shaken' <=> shaken)
  BY DEF Still, Pass
<1>5. (Ready' <=> Ready) /\ (Still' <=> Still) /\ (Asked' <=> Asked)
  BY <1>1, <1>2 DEF Ready, Still, Asked
<1>6. /\ timer["retry"] # {} => timer'["retry"] # {}
      /\ \A r \in timer'["retry"] : r \in 0..5 /\ r + 1 \in timer["retry"]
      /\ \A r \in timer["retry"] : r \in 1..6 /\ r - 1 \in timer'["retry"]
  BY <1>1 DEF Soon, Goes, Nearer
<1>7. Goes'
  <2>1. (shook => Left("sample") >= 0)'
    <3>1. CASE process = "up"
      BY <3>1, <1>1, <1>2 DEF Soon, Goes
    <3>2. CASE process # "up"
      <4>1. process # "crashed" /\ Left("sample") \in -1..8
        BY Numbers DEF Pass, Alive
      <4>2. QED
        BY <3>2, <4>1, <1>2 DEF Soon, Goes, IInv, Timing, Clock
    <3>3. QED
      BY <3>1, <3>2
  <2>2. \A r \in timer'["retry"] : r <= 6
    BY <1>6
  <2>3. QED
    BY <2>1, <2>2, <1>1, <1>2, <1>6 DEF Soon, Goes
<1>8. ASSUME NEW x \in Int, NEW y \in Int, y <= x + 1, NEW m \in Int, process = "up",
             EndsBy(timer["close"], Ahead, x, m)
      PROVE  EndsBy(timer'["close"], Ahead', y, m)
  <2>1. PICK e \in timer["close"] : x + e <= m \/ (e = 0 /\ Ahead \in {0, 8} /\ x <= m + 1)
    BY <1>8 DEF EndsBy
  <2>2. CASE e \in 1..8 /\ e - 1 \in timer'["close"]
    <3>1. y + (e - 1) <= m
      BY <1>8, <2>1, <2>2
    <3>2. QED
      BY <3>1, <2>2, EndsNew
  <2>3. CASE e = 0 /\ e \in timer'["close"] /\ Ahead = 1
    <3>1. Ahead' = 0 /\ y <= m + 1
      BY <1>1, <1>8, <2>1, <2>3
    <3>2. QED
      BY <3>1, <2>3 DEF EndsBy
  <2>4. QED
    BY <1>1, <1>8, <2>2, <2>3
<1>9. ASSUME NEW x \in Int, NEW y \in Int, y <= x + 1, NEW m \in Int, NEW r \in Int,
             x + (r + 1) <= m
      PROVE  y + r <= m
  BY <1>9
<1>10. Waits'
  <2> SUFFICES ASSUME Counting' PROVE Waits'
    BY DEF Waits
  <2>1. process = "up" /\ Counting /\ recCheck' = recCheck /\ Waited' = Waited + 1
        /\ activity # "recording"
    BY <1>3 DEF Counting
  <2>2. activity = "stopping" => Ends(Waited, 28)'
    BY <2>1, <1>2, <1>8 DEF Soon, Waits, Ends
  <2>3. (Left("open") >= 0 => \/ Waited + Left("open") <= 49
                              \/ Left("open") = 0 /\ Ahead \in {0, 8} /\ Waited <= 50)'
    BY <2>1, <1>1, <1>2 DEF Soon, Waits
  <2>4. ASSUME NEW r \in timer'["retry"] PROVE Waited' + r <= 6
    <3>1. r \in 0..5 /\ Waited + (r + 1) <= 6
      BY <2>1, <2>4, <1>6 DEF Soon, Waits
    <3>2. QED
      BY <3>1, <2>1, <1>2
  <2>5. QED
    BY <2>1, <2>2, <2>3, <2>4, <1>1, <1>2 DEF Soon, Waits
<1>11. ASSUME Stops PROVE Stops'
  <2> SUFFICES ASSUME Still PROVE Stops'
    BY <1>5 DEF Stops
  <2>1. process = "up" /\ (shaken' <=> shaken)
    BY <1>4 DEF Still
  <2>2. (shaken => steady + Ahead + (IF Left("sample") >= 0 THEN 8 ELSE 0) <= 9)'
    BY <2>1, <1>1, <1>2, <1>11 DEF Stops
  <2>3. (shook => steady + Ahead <= 9)'
    BY <2>1, <1>1, <1>2, <1>11 DEF Stops
  <2>4. (~shaken /\ ~shook /\ state # "NOT_RECORDING" => steady <= 9 + Dark)'
    BY <2>1, <1>1, <1>2, <1>11 DEF Stops
  <2>5. ASSUME Repeated PROVE Repeated'
    <3>1. PICK r \in timer["retry"] : steady + r <= 55 /\ (live => steady + r <= 6)
      BY <2>5 DEF Repeated
    <3> DEFINE q == r - 1
    <3>2. q \in Int /\ q \in timer'["retry"] /\ r = q + 1
      BY <3>1, <1>6
    <3> HIDE DEF q
    <3>3. steady + (q + 1) <= 55 /\ (live => steady + (q + 1) <= 6)
      BY <3>1, <3>2
    <3>4. q \in Int /\ steady \in Int /\ steady' \in Int /\ steady' <= steady + 1
      BY <3>2, <1>2
    <3>5. steady' + q <= 55
      <4>1. \A x, y, d \in Int : y <= x + 1 /\ x + (d + 1) <= 55 => y + d <= 55
        OBVIOUS
      <4>2. steady + (q + 1) <= 55
        BY <3>3
      <4>3. QED
        BY <4>1, <4>2, <3>4
    <3>6. ASSUME live PROVE steady' + q <= 6
      <4>1. \A x, y, d \in Int : y <= x + 1 /\ x + (d + 1) <= 6 => y + d <= 6
        OBVIOUS
      <4>2. steady + (q + 1) <= 6
        BY <3>3, <3>6
      <4>3. QED
        BY <4>1, <4>2, <3>4
    <3>7. QED
      BY <3>2, <3>5, <3>6, <1>1 DEF Repeated
  <2>6. activity = "stopping" => Ends(steady, 57)'
    BY <2>1, <1>2, <1>8, <1>11 DEF Ends, Stops
  <2>7. QED
    BY <2>2, <2>3, <2>4, <2>5, <2>6, <1>1, <1>5, <1>11 DEF Stops
<1>12. ASSUME Starts PROVE Starts'
  <2> SUFFICES ASSUME Ready PROVE Starts'
    BY <1>5 DEF Starts
  <2>1. process = "up"
    BY DEF Ready
  <2>2. (Left("open") >= 0 => \/ steady + Left("open") <= 34
                              \/ Left("open") = 0 /\ Ahead \in {0, 8} /\ steady <= 35)'
    BY <2>1, <1>1, <1>2, <1>12 DEF Starts
  <2>3. activity = "stopping" => Ends(steady, 14)'
    BY <2>1, <1>2, <1>8, <1>12 DEF Ends, Starts
  <2>4. ASSUME NEW r \in timer'["retry"]
        PROVE  steady' + r <= 12 /\ (live' => steady' + r <= 6)
    <3>1. r \in Int /\ steady + (r + 1) <= 12 /\ (live => steady + (r + 1) <= 6)
      BY <2>4, <1>6, <1>12 DEF Starts
    <3>2. QED
      BY <3>1, <1>1, <1>2, <1>9, 12 \in Int, 6 \in Int
  <2>5. QED
    BY <2>1, <2>2, <2>3, <2>4, <1>1, <1>2, <1>12 DEF Starts
<1>13. QED
  BY <1>7, <1>10, <1>11, <1>12 DEF Soon

\* Nothing that the bounds are about changes, except that a live view may end.
LEMMA SameSoon ==
  ASSUME IInv,
         UNCHANGED <<process, state, activity, line, moving, working, dated, offCount, recCheck,
                     fault, posted, steady>>,
         live' \in BOOLEAN, live' => live, Ahead' = Ahead,
         timer'["close"] = timer["close"], timer'["retry"] = timer["retry"],
         \A u \in {"confirm", "launch", "open", "prepare"} : (Left(u))' = Left(u)
  PROVE  /\ (Still' <=> Still) /\ (Asked' <=> Asked) /\ (Repeated => Repeated')
         /\ Waits => Waits'
         /\ Starts => Starts'
<1>1. /\ (Still' <=> Still) /\ (Ready' <=> Ready) /\ (Counting' <=> Counting)
      /\ Waited' = Waited /\ (Asked' <=> Asked)
  BY DEF Still, Ready, Counting, Waited, Asked
<1>2. /\ Left("confirm")' = Left("confirm") /\ Left("launch")' = Left("launch")
      /\ Left("open")' = Left("open") /\ Left("prepare")' = Left("prepare")
  OBVIOUS
<1>3. Repeated => Repeated'
  BY DEF Repeated
<1>4. Waits => Waits'
  BY <1>1, <1>2 DEF Waits, Ends
<1>5. Starts => Starts'
  BY <1>1, <1>2 DEF Starts, Ends
<1>6. QED
  BY <1>1, <1>3, <1>4, <1>5

\* The ignition is sampled: what shook the accelerometer before goes into this check.
LEMMA BeginSoon ==
  ASSUME IInv, Soon, IgnitionBegin
  PROVE  Soon'
<1>1. /\ Left("sample") = -1 /\ Left("sample")' = 1
      /\ Others(timer, timer')
      /\ Ahead = 1 /\ Ahead' = Ahead /\ Dark' = Dark
      /\ \A u \in {"confirm", "launch", "open", "prepare"} : (Left(u))' = Left(u)
  BY BeginEffect
<1>2. /\ shook' = shaken /\ shaken' = FALSE
      /\ UNCHANGED <<process, state, activity, line, moving, working, dated, offCount, recCheck,
                     fault, posted, steady, live>>
      /\ timer'["close"] = timer["close"] /\ timer'["retry"] = timer["retry"]
  BY <1>1 DEF IgnitionBegin, world, recorder, Others
<1>3. steady \in 0..64 /\ Dark \in Int /\ live \in BOOLEAN
  BY Numbers DEF IInv, TypeOK
<1>4. /\ (Still' <=> Still) /\ (Asked' <=> Asked) /\ (Repeated => Repeated')
      /\ Waits => Waits'
      /\ Starts => Starts'
  BY <1>1, <1>2, <1>3, SameSoon
<1>5. Goes'
  BY <1>1, <1>2 DEF Soon, Goes
<1>6. Stops => Stops'
  BY <1>1, <1>2, <1>3, <1>4 DEF Soon, Goes, Stops, Ends
<1>7. QED
  BY <1>4, <1>5, <1>6 DEF Soon

\* A live view ends, or nothing happens.
LEMMA StillSoon ==
  ASSUME IInv, Soon, LiveViewStop \/ UNCHANGED vars
  PROVE  Soon'
<1>1. /\ UNCHANGED <<timer, process, state, activity, line, moving, working, dated, offCount,
                     recCheck, fault, posted, steady, shaken, shook>>
      /\ live' \in BOOLEAN /\ (live' => live)
  <2>1. CASE LiveViewStop
    <3>1. live \in BOOLEAN
      BY DEF IInv, TypeOK
    <3>2. live' = FALSE \/ live' = live
      BY <2>1 DEF LiveViewStop
    <3>3. UNCHANGED <<timer, process, state, activity, line, moving, working, dated, offCount,
                      recCheck, fault, posted, steady, shaken, shook>>
      BY <2>1 DEF LiveViewStop, world
    <3>4. live' \in BOOLEAN
      BY <3>1, <3>2
    <3>5. live' => live
      BY <3>1, <3>2
    <3>6. QED
      BY <3>3, <3>4, <3>5
  <2>2. CASE UNCHANGED vars
    BY <2>2 DEF vars, world, recorder, IInv, TypeOK
  <2>3. QED
    BY <2>1, <2>2
<1>2. /\ \A t \in Singles : (Left(t))' = Left(t)
      /\ Ahead' = Ahead /\ Dark' = Dark
      /\ timer'["close"] = timer["close"] /\ timer'["retry"] = timer["retry"]
  BY <1>1, StillEffect
<1>3. /\ \A u \in {"confirm", "launch", "open", "prepare"} : (Left(u))' = Left(u)
      /\ Left("sample")' = Left("sample") /\ Left("prepare")' = Left("prepare")
  BY <1>2 DEF Singles
<1>4. /\ (Still' <=> Still) /\ (Asked' <=> Asked) /\ (Repeated => Repeated')
      /\ Waits => Waits'
      /\ Starts => Starts'
  BY <1>1, <1>2, <1>3, SameSoon
<1>5. Goes'
  BY <1>1, <1>2, <1>3 DEF Soon, Goes
<1>6. Stops => Stops'
  BY <1>1, <1>2, <1>3, <1>4 DEF Stops, Ends
<1>7. QED
  BY <1>4, <1>5, <1>6 DEF Soon

\* A stop of an earlier activity is repeated: it may take the handlers, but no time.
LEMMA LateSoon ==
  ASSUME IInv, Soon, LateRetry
  PROVE  Soon'
<1>1. /\ UNCHANGED <<offCount, posted, process, state, activity, live>>
      /\ timer'["retry"] = timer["retry"] /\ timer'["close"] = timer["close"]
      /\ Ahead' = Ahead /\ Dark' = Dark
      /\ Left("sample")' = Left("sample") /\ Left("prepare")' = Left("prepare")
      /\ \A u \in {"confirm", "launch", "open", "prepare"} : (Left(u))' = Left(u)
  BY LateEffect DEF Kept, Left
<1>2. /\ UNCHANGED <<line, moving, working, dated, recCheck, fault, steady, shaken, shook>>
      /\ live \in BOOLEAN
  BY DEF LateRetry, world, IInv, TypeOK
<1>3. /\ (Still' <=> Still) /\ (Asked' <=> Asked) /\ (Repeated => Repeated')
      /\ Waits => Waits'
      /\ Starts => Starts'
  BY <1>1, <1>2, SameSoon
<1>4. Goes'
  BY <1>1, <1>2 DEF Soon, Goes
<1>5. Stops => Stops'
  BY <1>1, <1>2, <1>3 DEF Stops, Ends
<1>6. QED
  BY <1>3, <1>4, <1>5 DEF Soon

\* The process ends.
LEMMA EndSoon ==
  ASSUME IInv, Soon, EndProcess
  PROVE  Soon'
<1>1. process' = "ended" /\ UNCHANGED <<timer, activity, live, steady, shook, offCount>>
  BY DEF EndProcess, recorder
<1>2. Left("prepare")' = Left("prepare") /\ Left("sample")' = Left("sample")
  BY <1>1, StillEffect DEF Singles
<1>3. Goes'
  BY <1>1, <1>2 DEF Soon, Goes
<1>4. Waits' /\ Stops' /\ Starts'
  BY <1>1 DEF Waits, Stops, Starts, Counting, Ready, Still
<1>5. QED
  BY <1>3, <1>4 DEF Soon

\* The service begins: nothing is counted yet.
LEMMA RestartSoon ==
  ASSUME IInv, Soon, Restart
  PROVE  Soon'
<1>1. timer'["retry"] = {} /\ \A t \in Singles : t # "ignition" => (Left(t))' = -1
  BY RestartEffect
<1>2. /\ Left("confirm")' = -1 /\ Left("launch")' = -1 /\ Left("open")' = -1
      /\ Left("prepare")' = -1
  BY <1>1 DEF Singles
<1>3. /\ activity' = "none" /\ live' = FALSE /\ shook' = FALSE /\ shaken' = FALSE
      /\ state' = "NOT_RECORDING" /\ posted' = FALSE /\ recCheck' = 0 /\ dated' = FALSE
  BY DEF Restart
<1>4. Goes'
  BY <1>1, <1>2, <1>3 DEF Goes
<1>5. Waits' /\ Stops' /\ Starts'
  BY <1>2, <1>3 DEF Waits, Stops, Starts, Counting, Ready
<1>6. QED
  BY <1>4, <1>5 DEF Soon

\* The ignition is decided: recCheck and offCount take the ticks that have gone by.
LEMMA DecideSoon ==
  ASSUME IInv, Soon, IgnitionDecide
  PROVE  Soon'
<1>1. /\ process = "up" /\ Ahead = 0 /\ Left("sample") = 0 /\ Left("confirm") = -1 /\ ~posted
      /\ Others(timer, timer')
      /\ process' \in {"up", "failing"}
      /\ process' = "up" /\ posted' => StopAsked
      /\ offCount' = OffCount /\ UNCHANGED <<state, activity, handlers, live, postponed>>
      /\ Left("sample")' = -1 /\ Ahead' = 8
      /\ Left("confirm")' = IF LookAgain THEN 1 ELSE -1
      /\ \A u \in {"launch", "open", "prepare"} : (Left(u))' = Left(u)
  BY DecideEffect
<1>2. /\ Left("launch")' = Left("launch") /\ Left("open")' = Left("open")
      /\ Left("prepare")' = Left("prepare")
      /\ timer'["close"] = timer["close"] /\ timer'["retry"] = timer["retry"]
  BY <1>1 DEF Others
<1>3. /\ UNCHANGED <<line, moving, working, dated, shaken, steady>> /\ shook' = FALSE
      /\ process' = "up" => recCheck' = RecCheck /\ fault' = (RecCheck # 0 /\ fault)
  BY DEF IgnitionDecide, Fail, world
<1>4. /\ steady \in 0..64 /\ recCheck \in 0..8 /\ offCount \in Nat
      /\ Left("launch") \in -1..8 /\ Left("open") \in -1..8 /\ Left("prepare") \in -1..8
      /\ timer["close"] \subseteq 0..8 /\ timer["retry"] \subseteq 0..8
  BY Numbers
<1>5. /\ state = "NOT_RECORDING" <=> activity = "none" /\ Left("launch") = -1 /\ Left("open") = -1
      /\ timer["close"] # {} <=> activity = "stopping"
  BY DEF IInv, Timing, Places
<1>6. process' = "up" => (posted' <=> StopAsked)
  BY <1>1 DEF IgnitionDecide, Fail, StopAsked
<1>7. Goes'
  <2>1. ASSUME process' = "up"
        PROVE  /\ activity \in {"starting", "recording"} =>
                    offCount' <= 4 \/ timer["retry"] # {} \/ (posted' /\ offCount' = 5)
               /\ line /\ posted' => steady = 0
    <3>1. posted' <=> StopAsked
      BY <2>1, <1>6
    <3>2. line /\ posted' => steady = 0
      BY <3>1, <1>4 DEF StopAsked, OffCount, Ignition, OffDelay
    <3>3. ASSUME activity \in {"starting", "recording"}, timer["retry"] = {}
          PROVE  offCount' <= 4 \/ (posted' /\ offCount' = 5)
      <4>1. offCount <= 4
        BY <3>3, <1>1, <1>4 DEF Soon, Goes
      <4>2. state # "NOT_RECORDING"
        BY <3>3, <1>5
      <4>3. OffCount \in 0..5
        BY <4>1, <4>2, <1>4 DEF OffCount
      <4>4. OffCount = 5 => StopAsked
        BY <4>2 DEF StopAsked, OffDelay
      <4>5. QED
        BY <4>3, <4>4, <3>1, <1>1
    <3>4. QED
      BY <3>2, <3>3
  <2>2. QED
    BY <2>1, <1>1, <1>2, <1>3 DEF Soon, Goes
<1>8. ASSUME Counting'
      PROVE  /\ Ignition /\ offCount' = 0 /\ Waited' = Waited /\ Waited = 8 * recCheck
             /\ recCheck = 0 \/ Counting
  <2>1. process' = "up" /\ recCheck' >= 1 /\ ~fault'
    BY <1>8 DEF Counting
  <2>2. Ignition /\ recCheck' = recCheck + 1
    BY <2>1, <1>3 DEF RecCheck
  <2>3. recCheck = 0 \/ Counting
    BY <2>1, <2>2, <1>1, <1>3, <1>4 DEF Counting, RecCheck, IInv, TypeOK
  <2>4. QED
    BY <2>2, <2>3, <1>1, <1>4 DEF OffCount, Waited
<1>9. ASSUME process' = "up"
      PROVE  (Ready' <=> Ready) /\ (Still' <=> Still) /\ (Ready => Ignition)
  BY <1>1, <1>3, <1>9 DEF Ready, Still, Ignition
<1>10. Waits'
  <2> SUFFICES ASSUME Counting' PROVE Waits'
    BY DEF Waits
  <2>1. CASE recCheck = 0
    <3>1. Waited' = 0 /\ offCount' = 0 /\ Ignition
      BY <2>1, <1>8
    <3>2. activity = "stopping" => Ends(Waited, 28)'
      <4> SUFFICES ASSUME activity = "stopping" PROVE EndsBy(timer["close"], 8, 0, 28)
        BY <3>1, <1>1, <1>2 DEF Ends
      <4>1. PICK e \in timer["close"] : TRUE
        BY <1>5
      <4>2. e \in 0..8 /\ 0 + e <= 28
        BY <4>1, <1>4
      <4>3. QED
        BY <4>1, <4>2, EndsNew
    <3>3. \A r \in timer'["retry"] : Waited' + r <= 6
      BY <3>1, <1>2, <1>4 DEF Soon, Goes
    <3>4. QED
      BY <3>1, <3>2, <3>3, <1>1, <1>2, <1>4 DEF Waits, LookAgain
  <2>2. CASE Counting
    <3>1. Waited' = Waited /\ offCount' = 0 /\ Ignition /\ Waited = 8 * recCheck
      BY <1>8
    <3>2. activity = "stopping" => Ends(Waited, 28)'
      <4> SUFFICES ASSUME activity = "stopping" PROVE EndsBy(timer["close"], 8, Waited, 28)
        BY <3>1, <1>1, <1>2 DEF Ends
      <4>1. EndsBy(timer["close"], 0, Waited, 28)
        BY <2>2, <1>1 DEF Soon, Waits, Ends
      <4>2. QED
        BY <4>1 DEF EndsBy
    <3>3. QED
      BY <2>2, <3>1, <3>2, <1>1, <1>2, <1>4 DEF Soon, Waits, LookAgain
  <2>3. QED
    BY <2>1, <2>2, <1>8
<1>11. ASSUME NEW m, EndsBy(timer["close"], Ahead, steady, m)
       PROVE  Ends(steady, m)'
  BY <1>1, <1>2, <1>3, <1>11 DEF Ends, EndsBy
<1>12. ASSUME Stops PROVE Stops'
  <2> SUFFICES ASSUME Still' PROVE Stops'
    BY DEF Stops
  <2>1. Still /\ process' = "up"
    BY <1>9 DEF Still
  <2>2. (~shaken /\ ~shook /\ state # "NOT_RECORDING" => steady <= 9 + Dark)'
    <3> SUFFICES ASSUME ~shaken, state # "NOT_RECORDING" PROVE steady <= 9 + Dark'
      BY <1>1, <1>3
    <3>1. CASE Ignition
      <4>1. shook /\ steady <= 9
        BY <3>1, <2>1, <1>1, <1>4, <1>12 DEF Still, Ignition, Stops
      <4>2. Dark' = 0
        BY <3>1, <1>1 DEF Dark, OffCount
      <4>3. QED
        BY <4>1, <4>2
    <3>2. CASE ~Ignition
      <4>1. Dark' = Dark
        BY <3>2, <1>1, <1>4 DEF Dark, OffCount
      <4>2. QED
        BY <3>2, <4>1, <2>1, <1>12 DEF Ignition, Stops
    <3>3. QED
      BY <3>1, <3>2
  <2>3. activity = "stopping" => Ends(steady, 57)'
    BY <2>1, <1>11, <1>12 DEF Stops, Ends
  <2>4. ASSUME activity \in {"starting", "recording"}, Asked' PROVE Repeated'
    <3>1. offCount' >= 5 /\ ~(posted' /\ offCount' = 5)
      BY <2>4 DEF Asked
    <3>2. state # "NOT_RECORDING"
      BY <2>4, <1>5
    <3>3. offCount >= 5
      BY <3>1, <3>2, <2>1, <1>1, <1>4, <1>6 DEF OffCount, StopAsked, OffDelay
    <3>4. Repeated
      BY <3>3, <2>1, <2>4, <1>1, <1>12 DEF Stops, Asked
    <3>5. QED
      BY <3>4, <1>1, <1>2, <1>3 DEF Repeated
  <2>5. QED
    BY <2>1, <2>2, <2>3, <2>4, <1>1, <1>3, <1>4, <1>12 DEF Stops
<1>13. ASSUME Starts PROVE Starts'
  <2> SUFFICES ASSUME Ready' PROVE Starts'
    BY DEF Starts
  <2>1. Ready /\ Ignition
    BY <1>9 DEF Ready
  <2>2. activity = "stopping" => Ends(steady, 14)'
    BY <2>1, <1>11, <1>13 DEF Starts, Ends
  <2>3. \A r \in timer'["retry"] : steady' + r <= 12 /\ (live' => steady' + r <= 6)
    BY <2>1, <1>1, <1>2, <1>3, <1>13 DEF Starts
  <2>4. QED
    BY <2>1, <2>2, <2>3, <1>1, <1>2, <1>3, <1>4, <1>13 DEF Starts, LookAgain
<1>14. QED
  BY <1>7, <1>10, <1>12, <1>13 DEF Soon

\* The second look ends in the launch, or in a fault.
LEMMA ConfirmSoon ==
  ASSUME IInv, Soon, Confirm
  PROVE  Soon'
<1>1. /\ Left("confirm") = 0 /\ state = "NOT_RECORDING" /\ activity = "none"
      /\ Left("launch") = -1 /\ Left("open") = -1 /\ Left("prepare") = -1
      /\ UNCHANGED <<process, offCount, posted, activity, handlers, live>>
      /\ Others(timer, timer')
      /\ Ahead' = Ahead /\ Dark' = Dark
      /\ Left("sample")' = Left("sample") /\ Left("open")' = Left("open")
      /\ Left("prepare")' = Left("prepare") /\ Left("confirm")' = -1
  BY ConfirmEffect DEF Kept, Left
<1>2. /\ UNCHANGED <<line, moving, working, dated, shaken, shook, recCheck, steady>>
      /\ \/ /\ line /\ dated /\ state' = "PREPARING" /\ Left("launch")' \in WakeTicks \cap 1..8
            /\ fault' = fault
         \/ /\ ~(line /\ dated) /\ state' = state /\ Left("launch")' = -1 /\ fault' = TRUE
  <2>1. \/ /\ line /\ dated /\ state' = "PREPARING" /\ Left("launch")' \in WakeTicks \cap 1..8
           /\ fault' = fault
        \/ state' = state /\ Left("launch")' = -1 /\ fault' = TRUE
    BY ConfirmEffect
  <2>2. (line /\ dated => state' = "PREPARING") /\ UNCHANGED <<line, moving, working, dated,
           shaken, shook, recCheck, steady>>
    BY DEF Confirm, world
  <2>3. QED
    BY <1>1, <2>1, <2>2
<1>3. /\ steady \in 0..64 /\ recCheck \in 0..8 /\ Ahead \in 0..9 /\ Waited \in Int
  BY Numbers
<1>4. timer["retry"] = {} /\ timer'["retry"] = {}
  BY <1>1 DEF IInv, Timing, Places, Others
<1>5. Goes'
  BY <1>1, <1>2, <1>4 DEF Soon, Goes
<1>6. Waits'
  <2> SUFFICES ASSUME Counting' PROVE Waits'
    BY DEF Waits
  <2>1. fault' = FALSE
    BY DEF Counting
  <2>2. Counting /\ state' = "PREPARING" /\ Left("launch")' \in 1..8
    BY <2>1, <1>1, <1>2 DEF Counting
  <2>3. Waited' = Waited /\ Waited <= 33 /\ offCount = 0
    BY <2>2, <1>1, <1>2, <1>3 DEF Soon, Waits, Waited
  <2>4. QED
    BY <2>2, <2>3, <1>1, <1>3, <1>4 DEF Waits
<1>7. Stops => Stops'
  BY <1>1, <1>2 DEF Stops, Still
<1>8. ASSUME Quick PROVE Starts'
  <2> SUFFICES ASSUME Ready' PROVE Starts'
    BY DEF Starts
  <2>1. Ready /\ state' = "PREPARING" /\ Left("launch")' \in 0..6
    BY <1>1, <1>2, <1>8 DEF Ready, Quick
  <2>2. steady <= 24
    BY <2>1, <1>1, <1>3, <1>8 DEF Soon, Starts
  <2>3. QED
    BY <2>1, <2>2, <1>1, <1>2, <1>3, <1>4 DEF Starts
<1>9. QED
  BY <1>5, <1>6, <1>7, <1>8 DEF Soon

\* The activity is asked for.
LEMMA LaunchSoon ==
  ASSUME IInv, Soon, Launch
  PROVE  Soon'
<1>1. /\ Left("launch") = 0 /\ activity = "none" /\ Left("open") = -1 /\ Left("prepare") = -1
      /\ Left("confirm") = -1
      /\ UNCHANGED <<process, offCount, posted, activity, handlers, live, state>>
      /\ Others(timer, timer')
      /\ Ahead' = Ahead /\ Dark' = Dark
      /\ Left("sample")' = Left("sample") /\ Left("confirm")' = Left("confirm")
      /\ Left("prepare")' = Left("prepare")
      /\ Left("launch")' = -1 /\ Left("open")' = OpenTicks
  BY LaunchEffect DEF Kept, Left
<1>2. UNCHANGED <<line, moving, working, dated, shaken, shook, recCheck, fault, steady>>
  BY DEF Launch, world
<1>3. /\ steady \in 0..64 /\ recCheck \in 0..8 /\ Ahead \in 0..9 /\ Waited \in Int
      /\ OpenTicks \in 0..8
  BY Numbers, TicksAssumption DEF TicksAssumption
<1>4. /\ state # "NOT_RECORDING"
      /\ timer["retry"] = {} /\ timer'["retry"] = {}
  BY <1>1 DEF IInv, Timing, Places, Others
<1>5. Goes'
  BY <1>1, <1>2, <1>4 DEF Soon, Goes
<1>6. Waits'
  <2> SUFFICES ASSUME Counting' PROVE Waits'
    BY DEF Waits
  <2>1. Counting
    BY <1>1, <1>2 DEF Counting
  <2>2. Waited' = Waited /\ Waited <= 41 /\ offCount = 0
    BY <2>1, <1>1, <1>2, <1>3 DEF Soon, Waits, Waited
  <2>3. QED
    BY <2>2, <1>1, <1>3, <1>4 DEF Waits
<1>7. Stops => Stops'
  BY <1>1, <1>2 DEF Stops, Still
<1>8. ASSUME Quick PROVE Starts'
  <2> SUFFICES ASSUME Ready' PROVE Starts'
    BY DEF Starts
  <2>1. Ready /\ OpenTicks <= 4
    BY <1>1, <1>2, <1>8 DEF Ready, Quick
  <2>2. steady <= 30
    BY <2>1, <1>1, <1>3, <1>8 DEF Soon, Starts
  <2>3. QED
    BY <2>1, <2>2, <1>1, <1>2, <1>3, <1>4 DEF Starts
<1>9. QED
  BY <1>5, <1>6, <1>7, <1>8 DEF Soon

\* The activity starts, long before it can be asked to stop.
LEMMA OnStartSoon ==
  ASSUME IInv, Soon, OnStart
  PROVE  Soon'
<1>1. /\ process = "up" /\ activity = "none" /\ state # "NOT_RECORDING"
      /\ Left("open") \in 0..8 /\ Left("launch") = -1 /\ timer["retry"] = {}
      /\ Left("confirm") = -1
      /\ UNCHANGED <<process, offCount, posted, state>>
      /\ activity' = "starting" /\ live' = FALSE
      /\ Others(timer, timer')
      /\ Ahead' = Ahead /\ Dark' = Dark
      /\ Left("sample")' = Left("sample")
      /\ Left("confirm")' = -1 /\ Left("launch")' = -1
      /\ Left("open")' = -1 /\ Left("prepare")' = 4
  BY OnStartEffect DEF Kept, Left
<1>2. /\ UNCHANGED <<line, moving, working, dated, shaken, shook, recCheck, fault, steady>>
      /\ timer'["retry"] = {}
  BY <1>1 DEF OnStart, world, Others
<1>3. /\ steady \in 0..64 /\ recCheck \in 0..8 /\ Ahead \in 0..9 /\ Waited \in Int
      /\ offCount \in Nat
  BY Numbers
<1>4. offCount <= 2
  <2>1. Dark <= 18
    BY <1>1, <1>3 DEF IInv, Timing, Early, Dark
  <2>2. QED
    BY <2>1, <1>3 DEF Dark
<1>5. Goes'
  BY <1>1, <1>2, <1>3, <1>4 DEF Soon, Goes
<1>6. Waits'
  <2> SUFFICES ASSUME Counting' PROVE Waits'
    BY DEF Waits
  <2>1. Counting
    BY <1>1, <1>2 DEF Counting
  <2>2. Waited' = Waited /\ Waited <= 50 /\ offCount = 0
    BY <2>1, <1>1, <1>2, <1>3 DEF Soon, Waits, Waited
  <2>3. QED
    BY <2>2, <1>1, <1>2, <1>3 DEF Waits
<1>7. ASSUME Stops PROVE Stops'
  <2>1. ~Asked'
    BY <1>1, <1>3, <1>4 DEF Asked
  <2>2. QED
    BY <2>1, <1>1, <1>2, <1>7 DEF Stops, Still
<1>8. ASSUME Quick PROVE Starts'
  <2> SUFFICES ASSUME Ready' PROVE Starts'
    BY DEF Starts
  <2>1. Ready
    BY <1>1, <1>2 DEF Ready
  <2>2. steady <= 35
    BY <2>1, <1>1, <1>3, <1>8 DEF Soon, Starts
  <2>3. QED
    BY <2>1, <2>2, <1>1, <1>2, <1>3 DEF Starts
<1>9. QED
  BY <1>5, <1>6, <1>7, <1>8 DEF Soon

\* The activity has gone: the checks of the ignition start the next one.
LEMMA OnStopSoon ==
  ASSUME IInv, Soon, OnStop
  PROVE  Soon'
<1>1. /\ state' = "NOT_RECORDING" /\ activity' = "none" /\ timer'["retry"] = {}
      /\ UNCHANGED <<process, offCount, posted>>
      /\ activity = "stopping" /\ Left("confirm") = -1
      /\ Left("launch") = -1 /\ Left("open") = -1 /\ Left("prepare") = -1
      /\ Ahead' = Ahead
      /\ Left("sample")' = Left("sample") /\ Left("confirm")' = Left("confirm")
      /\ Left("launch")' = Left("launch") /\ Left("open")' = Left("open")
      /\ Left("prepare")' = Left("prepare")
  BY OnStopEffect DEF Kept, Left
<1>2. UNCHANGED <<line, moving, working, dated, shaken, shook, recCheck, fault, steady>>
  BY DEF OnStop, world
<1>3. /\ steady \in 0..64 /\ recCheck \in 0..8 /\ Ahead \in 0..9 /\ Waited \in Int
      /\ timer["close"] \subseteq 0..8
  BY Numbers
<1>4. Goes'
  BY <1>1, <1>2 DEF Soon, Goes
<1>5. Waits'
  <2> SUFFICES ASSUME Counting' PROVE Waits'
    BY DEF Waits
  <2>1. Counting
    BY <1>1, <1>2 DEF Counting
  <2>2. EndsBy(timer["close"], Ahead, Waited, 28) /\ offCount = 0
    BY <2>1, <1>1 DEF Soon, Waits, Ends
  <2>3. Waited <= 28 + 1
    BY <2>2, <1>3, EndsBound, 28 \in Int
  <2>4. recCheck <= 4
    BY <2>3, <1>3 DEF Waited
  <2>5. QED
    BY <2>2, <2>4, <1>1, <1>2 DEF Waits
<1>6. Stops => Stops'
  BY <1>1, <1>2 DEF Stops, Still
<1>7. ASSUME Quick PROVE Starts'
  <2> SUFFICES ASSUME Ready' PROVE Starts'
    BY DEF Starts
  <2>1. Ready
    BY <1>1, <1>2 DEF Ready
  <2>2. EndsBy(timer["close"], Ahead, steady, 14)
    BY <2>1, <1>1, <1>7 DEF Soon, Starts, Ends
  <2>3. steady <= 14 + 1 /\ (steady <= 14 \/ Ahead \in {0, 8})
    BY <2>2, <1>3, EndsBound, 14 \in Int, steady \in Int
  <2>4. steady + Ahead <= 23
    BY <2>3, <1>3
  <2>5. QED
    BY <2>4, <1>1, <1>2 DEF Starts
<1>8. QED
  BY <1>4, <1>5, <1>6, <1>7 DEF Soon

\* The camera is prepared, or it does not work: that is a fault, and the activity ends.
LEMMA PreparedSoon ==
  ASSUME IInv, Soon, Prepared
  PROVE  Soon'
<1>1. /\ Left("prepare") = 0 /\ activity = "starting" /\ state # "NOT_RECORDING"
      /\ UNCHANGED <<offCount, posted>>
      /\ Ahead' = Ahead /\ Dark' = Dark
      /\ Left("sample")' = Left("sample") /\ Left("confirm")' = -1 /\ Left("launch")' = -1
      /\ Left("open")' = -1 /\ Left("prepare")' = -1
      /\ \/ /\ working /\ state' = (IF dated THEN "RECORDING" ELSE state)
            /\ activity' = "recording" /\ UNCHANGED live
            /\ UNCHANGED process \/ process' = "crashed"
            /\ timer'["retry"] = {}
         \/ /\ ~working /\ state' = state /\ fault' = TRUE /\ UNCHANGED process
            /\ Delayed({}) \/ Ended({})
  BY PreparedEffect DEF Kept, Left
<1>2. /\ UNCHANGED <<line, moving, working, dated, shaken, shook, recCheck, steady>>
      /\ fault' = (fault \/ ~working) /\ fault \in BOOLEAN
  BY DEF Prepared, world, IInv, TypeOK
<1>3. /\ steady \in 0..64 /\ recCheck \in 0..8 /\ Ahead \in 0..9 /\ Waited \in Int
      /\ offCount \in Nat /\ Dark \in Int
  BY Numbers
<1>4. process = "up" => Dark <= 22 /\ offCount <= 2
  <2>1. process = "up" => Dark <= 22
    BY <1>1, <1>3 DEF IInv, Timing, Early
  <2>2. QED
    BY <2>1, <1>3 DEF Dark
<1>5. process' = "up" => process = "up" /\ ~Asked'
  BY <1>1, <1>3, <1>4 DEF Asked
<1>6. CASE working /\ activity' = "recording" /\ timer'["retry"] = {}
  <2>1. UNCHANGED <<live, fault>> /\ (process' = "up" => state' = "RECORDING" /\ dated)
    BY <1>1, <1>2, <1>5, <1>6 DEF Soon, Goes, Delayed, Ended
  <2>2. Goes'
    <3>1. process' = "up" => (line /\ posted => steady = 0)
      BY <1>5 DEF Soon, Goes
    <3>2. shook' => Left("sample")' >= 0
      BY <1>1, <1>2 DEF Soon, Goes
    <3>3. process' = "up" => offCount' <= 4
      BY <1>1, <1>3, <1>4, <1>5
    <3>4. timer'["retry"] = {} /\ Left("prepare")' = -1 /\ activity' = "recording"
      BY <1>1, <1>6
    <3>5. process' = "up" =>
            /\ activity' \in {"starting", "recording"} =>
                 offCount' <= 4 \/ timer'["retry"] # {} \/ (posted' /\ offCount' = 5)
            /\ state' # "NOT_RECORDING" => dated'
            /\ activity' = "recording" => state' = "RECORDING"
            /\ line' /\ posted' => steady' = 0
      BY <3>1, <3>3, <2>1, <1>1, <1>2
    <3>6. QED
      BY <3>2, <3>4, <3>5 DEF Goes
  <2>3. Waits'
    <3> SUFFICES ASSUME Counting' PROVE Waits'
      BY DEF Waits
    <3>1. Counting /\ Waited' = Waited /\ state' = "RECORDING"
      BY <2>1, <1>1, <1>2, <1>5 DEF Counting, Waited
    <3>2. Waited <= 54 /\ offCount = 0
      BY <3>1, <1>1, <1>3 DEF Soon, Waits
    <3>3. QED
      BY <3>1, <3>2, <1>1, <1>6 DEF Waits
  <2>4. Stops => Stops'
    BY <1>1, <1>2, <1>5, <1>6 DEF Stops, Still
  <2>5. Starts'
    BY <1>1, <1>6 DEF Starts, Ready
  <2>6. QED
    BY <2>2, <2>3, <2>4, <2>5 DEF Soon
<1>7. CASE ~working /\ Delayed({})
  <2>1. /\ activity' = "starting" /\ timer'["retry"] = {6} /\ state' = state /\ UNCHANGED process
        /\ fault' = TRUE
    BY <1>1, <1>7 DEF Delayed
  <2>2. Goes'
    BY <2>1, <1>1, <1>2 DEF Soon, Goes
  <2>3. Waits' /\ Starts'
    BY <2>1, <1>2, <1>7 DEF Waits, Starts, Counting, Ready
  <2>4. Stops => Stops'
    BY <2>1, <1>1, <1>2, <1>5 DEF Stops, Still
  <2>5. QED
    BY <2>2, <2>3, <2>4 DEF Soon
<1>8. CASE ~working /\ Ended({})
  <2>1. /\ activity' = "stopping" /\ timer'["retry"] = {} /\ state' = state /\ UNCHANGED process
        /\ fault' = TRUE /\ CloseTicks \in timer'["close"] /\ CloseTicks \in 0..8
    BY <1>1, <1>8, TicksAssumption DEF Ended, TicksAssumption
  <2>2. Goes'
    BY <2>1, <1>1, <1>2 DEF Soon, Goes
  <2>3. Waits' /\ Starts'
    BY <2>1, <1>2, <1>8 DEF Waits, Starts, Counting, Ready
  <2>4. ASSUME QuickStop PROVE Stops'
    <3> SUFFICES ASSUME Still' PROVE Stops'
      BY DEF Stops
    <3>1. Still /\ Stops /\ CloseTicks <= 2 /\ process = "up"
      BY <2>1, <2>4, <1>1, <1>2 DEF Still, QuickStop, Soon
    <3>2. Dark <= 22
      BY <3>1, <1>4
    <3>3. steady <= 31
      BY <3>1, <3>2, <1>1, <1>3 DEF Stops
    <3>4. steady + CloseTicks <= 57
      BY <2>1, <3>1, <3>3, <1>3
    <3>5. Ends(steady, 57)'
      BY <3>4, <2>1, <1>1, <1>2, <1>3, EndsNew DEF Ends
    <3>6. QED
      BY <3>1, <3>5, <2>1, <1>1, <1>2 DEF Stops
  <2>5. QED
    BY <2>2, <2>3, <2>4 DEF Soon, Quick
<1>9. QED
  BY <1>1, <1>6, <1>7, <1>8

\* How long the ignition was off when the activity is stopped: if it has been asked to,
\* until the stop that a live view put off, and else until the fifth check.
LEMMA OffFor ==
  ASSUME IInv, Still, Stops, activity \in {"starting", "recording"}
  PROVE  steady <= 55
<1>1. /\ steady \in 0..64 /\ Ahead \in 0..9 /\ Dark \in Int /\ offCount \in Nat
      /\ Left("sample") \in -1..8 /\ timer["retry"] \subseteq 0..8
  BY Numbers
<1>2. CASE shaken \/ shook
  BY <1>1, <1>2 DEF Stops
<1>3. CASE Asked
  <2>1. PICK r \in timer["retry"] : steady + r <= 55
    BY <1>3 DEF Stops, Repeated
  <2>2. r \in 0..8
    BY <1>1
  <2>3. QED
    BY <2>1, <2>2, <1>1
<1>4. CASE ~shaken /\ ~shook /\ ~Asked
  <2>1. offCount <= 4 \/ (offCount = 5 /\ Ahead = 8)
    BY <1>1, <1>4 DEF Asked, Still, IInv, Timing, Early
  <2>2. Dark <= 40
    BY <2>1, <1>1 DEF Dark
  <2>3. steady <= 9 + Dark
    BY <1>4 DEF Stops, IInv, Timing, Places
  <2>4. QED
    BY <2>2, <2>3, <1>1
<1>5. QED
  BY <1>2, <1>3, <1>4

\* A stop is repeated: a live view puts it off, the bounds with it, or the activity ends.
LEMMA RetrySoon ==
  ASSUME IInv, Soon, Retry
  PROVE  Soon'
<1>1. /\ 0 \in timer["retry"] /\ activity # "none"
      /\ UNCHANGED <<offCount, posted, process, state>>
      /\ fault' = (fault \/ live)
      /\ Ahead' = Ahead /\ Dark' = Dark
      /\ Left("sample")' = Left("sample") /\ Left("confirm")' = Left("confirm")
      /\ Left("launch")' = Left("launch") /\ Left("open")' = Left("open")
      /\ Left("prepare")' = Left("prepare")
      /\ Delayed(timer["retry"] \ {0}) \/ Ended(timer["retry"] \ {0})
  BY RetryEffect DEF Kept, Left
<1>2. UNCHANGED <<line, moving, working, dated, shaken, shook, recCheck, steady>>
  BY DEF Retry, world
<1>3. /\ steady \in 0..64 /\ recCheck \in 0..8 /\ Ahead \in 0..9 /\ Waited \in Int
      /\ timer["close"] \subseteq 0..8 /\ timer["retry"] \subseteq 0..8 /\ CloseTicks \in 0..8
      /\ fault \in BOOLEAN /\ live \in BOOLEAN
  BY Numbers, TicksAssumption DEF TicksAssumption, IInv, TypeOK
<1>4. /\ (Counting' => Counting /\ ~live) /\ (Ready' <=> Ready) /\ (Still' <=> Still)
      /\ Waited' = Waited /\ (Asked' <=> Asked)
  BY <1>1, <1>2, <1>3 DEF Counting, Ready, Still, Waited, Asked
<1>5. CASE Delayed(timer["retry"] \ {0})
  <2>1. /\ live /\ live' = FALSE /\ activity' = activity
        /\ timer'["retry"] = (timer["retry"] \ {0}) \cup {6}
        /\ timer'["close"] = timer["close"]
    BY <1>5 DEF Delayed
  <2>2. Goes'
    BY <2>1, <1>1, <1>2 DEF Soon, Goes
  <2>3. Waits'
    BY <2>1, <1>4 DEF Waits
  <2>4. ASSUME Repeated PROVE Repeated'
    <3>1. PICK r \in timer["retry"] : steady + r <= 6
      BY <2>1, <2>4 DEF Repeated
    <3>2. r \in 0..8
      BY <1>3
    <3>3. steady' + 6 <= 55
      BY <3>1, <3>2, <1>2, <1>3
    <3>4. QED
      BY <3>3, <2>1 DEF Repeated
  <2>5. Stops => Stops'
    BY <2>1, <2>4, <1>1, <1>2, <1>4 DEF Stops, Ends
  <2>6. ASSUME Starts PROVE Starts'
    <3>1. ASSUME Ready, NEW r \in timer'["retry"]
          PROVE  steady' + r <= 12
      <4>1. CASE r = 6
        <5>1. steady + 0 <= 6
          BY <3>1, <2>1, <2>6, <1>1 DEF Starts
        <5>2. QED
          BY <4>1, <5>1, <1>2, <1>3
      <4>2. CASE r \in timer["retry"]
        BY <3>1, <4>2, <2>6, <1>2 DEF Starts
      <4>3. QED
        BY <3>1, <4>1, <4>2, <2>1
    <3>2. QED
      BY <3>1, <2>1, <2>6, <1>1, <1>2, <1>4 DEF Starts, Ends
  <2>7. QED
    BY <2>2, <2>3, <2>5, <2>6 DEF Soon
<1>6. CASE Ended(timer["retry"] \ {0})
  <2>1. /\ live' = FALSE /\ activity' = "stopping"
        /\ timer'["retry"] = timer["retry"] \ {0}
        /\ timer["close"] \subseteq timer'["close"] /\ CloseTicks \in timer'["close"]
    BY <1>1, <1>6 DEF Ended
  <2>2. Goes'
    BY <2>1, <1>1, <1>2 DEF Soon, Goes
  <2>3. activity \in {"starting", "recording", "stopping"}
    BY <1>1 DEF IInv, TypeOK
  <2>4. ASSUME NEW x \in Int, NEW m \in Int,
               EndsBy(timer["close"], Ahead, x, m) \/ x + CloseTicks <= m
        PROVE  EndsBy(timer'["close"], Ahead, x, m)
    <3>1. CASE EndsBy(timer["close"], Ahead, x, m)
      BY <3>1, <2>1, EndsMore
    <3>2. CASE x + CloseTicks <= m
      BY <3>2, <2>1, <1>3, EndsNew
    <3>3. QED
      BY <2>4, <3>1, <3>2
  <2>5. Waits'
    <3> SUFFICES ASSUME Counting, Counting' PROVE Waits'
      BY <1>4 DEF Waits
    <3>1. Waited + 0 <= 6
      BY <1>1 DEF Soon, Waits
    <3>2. Waited + CloseTicks <= 28
      BY <3>1, <1>3
    <3>3. Ends(Waited, 28)'
      BY <3>2, <2>4, <1>1, <1>3, <1>4, 28 \in Int DEF Ends
    <3>4. \A r \in timer'["retry"] : Waited' + r <= 6
      BY <2>1, <1>4 DEF Soon, Waits
    <3>5. QED
      BY <3>3, <3>4, <2>1, <1>1, <1>2, <1>4 DEF Soon, Waits
  <2>6. ASSUME QuickStop PROVE Stops'
    <3> SUFFICES ASSUME Still PROVE Stops'
      BY <1>4 DEF Stops
    <3>1. Stops /\ CloseTicks <= 2
      BY <2>6 DEF QuickStop, Soon
    <3>2. EndsBy(timer["close"], Ahead, steady, 57) \/ steady + CloseTicks <= 57
      <4>1. CASE activity = "stopping"
        BY <3>1, <4>1 DEF Stops, Ends
      <4>2. CASE activity \in {"starting", "recording"}
        <5>1. steady <= 55
          BY <3>1, <4>2, OffFor
        <5>2. QED
          BY <3>1, <5>1, <1>3
      <4>3. QED
        BY <2>3, <4>1, <4>2
    <3>3. Ends(steady, 57)'
      BY <3>2, <2>4, <1>1, <1>2, <1>3, 57 \in Int, steady \in Int DEF Ends
    <3>4. QED
      BY <3>1, <3>3, <2>1, <1>1, <1>2 DEF Stops
  <2>7. ASSUME Quick PROVE Starts'
    <3> SUFFICES ASSUME Ready PROVE Starts'
      BY <1>4 DEF Starts
    <3>1. Starts /\ CloseTicks <= 2
      BY <2>7 DEF Quick, QuickStop, Soon
    <3>2. steady + 0 <= 12
      BY <3>1, <1>1 DEF Starts
    <3>3. steady + CloseTicks <= 14
      BY <3>1, <3>2, <1>3
    <3>4. Ends(steady, 14)'
      BY <3>3, <2>4, <1>1, <1>2, <1>3, 14 \in Int, steady \in Int DEF Ends
    <3>5. \A r \in timer'["retry"] : steady' + r <= 12 /\ (live' => steady' + r <= 6)
      BY <3>1, <2>1, <1>2 DEF Starts
    <3>6. QED
      BY <3>1, <3>4, <3>5, <2>1, <1>1, <1>2 DEF Starts
  <2>8. QED
    BY <2>2, <2>5, <2>6, <2>7 DEF Soon
<1>7. QED
  BY <1>1, <1>5, <1>6

\* The activity hears that the ignition is off, which it has been for five checks.
LEMMA HandleSoon ==
  ASSUME IInv, Soon, HandleIgnitionOff
  PROVE  Soon'
<1>1. /\ process = "up" /\ posted /\ posted' = FALSE /\ UNCHANGED <<process, state, offCount>>
      /\ Ahead = 8 /\ offCount \in Nat /\ offCount >= 5
      /\ Dark \in Int /\ Dark = 8 * offCount
      /\ Left("confirm") = -1 /\ Left("launch") = -1 /\ Left("open") = -1
      /\ Left("prepare") = -1
      /\ Ahead' = Ahead /\ Dark' = Dark
      /\ Left("sample")' = Left("sample") /\ Left("confirm")' = Left("confirm")
      /\ Left("launch")' = Left("launch") /\ Left("open")' = Left("open")
      /\ Left("prepare")' = Left("prepare")
      /\ \/ activity = "none" /\ UNCHANGED <<timer, recorder>>
         \/ activity # "none" /\ Delayed(timer["retry"])
         \/ activity # "none" /\ Ended(timer["retry"])
  BY HandleEffect DEF Kept, Left
<1>2. UNCHANGED <<line, moving, working, dated, shaken, shook, recCheck, fault, steady>>
  BY DEF HandleIgnitionOff, world
<1>3. /\ steady \in 0..64
      /\ timer["close"] \subseteq 0..8 /\ timer["retry"] \subseteq 0..8 /\ CloseTicks \in 0..8
  BY Numbers, TicksAssumption DEF TicksAssumption
<1>4. (Ready' <=> Ready) /\ (Still' <=> Still)
  BY <1>1, <1>2 DEF Ready, Still
<1>5. Waits'
  <2>1. ~Counting
    BY <1>1 DEF Soon, Waits
  <2>2. ~Counting'
    BY <2>1, <1>1, <1>2 DEF Counting
  <2>3. QED
    BY <2>2 DEF Waits
<1>6. line => steady = 0
  BY <1>1 DEF Soon, Goes
<1>7. CASE activity = "none" /\ UNCHANGED <<timer, recorder>>
  <2>1. UNCHANGED <<activity, live>> /\ timer' = timer
    BY <1>7 DEF recorder
  <2>2. Goes'
    BY <2>1, <1>1, <1>2, <1>7 DEF Soon, Goes
  <2>3. (Stops => Stops') /\ (Starts => Starts')
    BY <2>1, <1>1, <1>2, <1>4, <1>7 DEF Stops, Starts
  <2>4. QED
    BY <2>2, <2>3, <1>5 DEF Soon
<1>8. CASE activity # "none" /\ Delayed(timer["retry"])
  <2>1. /\ live /\ live' = FALSE /\ activity' = activity
        /\ timer'["retry"] = timer["retry"] \cup {6}
        /\ timer'["close"] = timer["close"]
    BY <1>8 DEF Delayed
  <2>2. Goes'
    BY <2>1, <1>1, <1>2 DEF Soon, Goes
  <2>3. ASSUME Stops PROVE Stops'
    <3> SUFFICES ASSUME Still PROVE Stops'
      BY <1>4 DEF Stops
    <3>1. ASSUME activity \in {"starting", "recording"} PROVE Repeated'
      <4>1. steady <= 49
        <5>1. CASE Asked
          <6>1. PICK r \in timer["retry"] : steady + r <= 6
            BY <3>1, <5>1, <2>1, <2>3 DEF Stops, Repeated
          <6>2. r \in 0..8
            BY <1>3
          <6>3. QED
            BY <6>1, <6>2, <1>3
        <5>2. CASE shaken \/ shook
          BY <5>2, <2>3, <1>1, <1>3, Numbers DEF Stops
        <5>3. CASE ~Asked /\ ~shaken /\ ~shook
          <6>1. Dark = 40
            BY <5>3, <1>1 DEF Asked
          <6>2. steady <= 9 + Dark
            BY <5>3, <3>1, <2>3 DEF Stops, IInv, Timing, Places
          <6>3. QED
            BY <6>1, <6>2, <1>3
        <5>4. QED
          BY <5>1, <5>2, <5>3
      <4>2. steady' + 6 <= 55
        BY <4>1, <1>2, <1>3
      <4>3. QED
        BY <4>2, <2>1 DEF Repeated
    <3>2. QED
      BY <3>1, <2>1, <2>3, <1>1, <1>2 DEF Stops, Ends
  <2>4. ASSUME Starts PROVE Starts'
    <3> SUFFICES ASSUME Ready PROVE Starts'
      BY <1>4 DEF Starts
    <3>1. steady = 0 /\ steady' = 0
      BY <1>2, <1>6 DEF Ready
    <3>2. \A r \in timer'["retry"] : steady' + r <= 12
      BY <3>1, <2>1, <1>3
    <3>3. QED
      BY <3>1, <3>2, <2>1, <2>4, <1>1, <1>2 DEF Starts, Ends
  <2>5. QED
    BY <2>2, <2>3, <2>4, <1>5 DEF Soon
<1>9. CASE activity # "none" /\ Ended(timer["retry"])
  <2>1. /\ live' = FALSE /\ timer'["retry"] = timer["retry"] /\ activity' = "stopping"
        /\ timer["close"] \subseteq timer'["close"] /\ CloseTicks \in timer'["close"]
    BY <1>9 DEF Ended
  <2>2. Goes'
    BY <2>1, <1>1, <1>2 DEF Soon, Goes
  <2>3. activity \in {"starting", "recording", "stopping"}
    BY <1>9 DEF IInv, TypeOK
  <2>4. ASSUME QuickStop PROVE Stops'
    <3> SUFFICES ASSUME Still PROVE Stops'
      BY <1>4 DEF Stops
    <3>1. Stops /\ CloseTicks <= 2
      BY <2>4 DEF QuickStop, Soon
    <3>2. EndsBy(timer'["close"], Ahead, steady, 57)
      <4>1. CASE activity = "stopping"
        BY <3>1, <4>1, <2>1, EndsMore DEF Stops, Ends
      <4>2. CASE activity \in {"starting", "recording"}
        <5>1. steady <= 55
          BY <3>1, <4>2, OffFor
        <5>2. steady + CloseTicks <= 57
          BY <3>1, <5>1, <1>3
        <5>3. QED
          BY <5>2, <2>1, <1>3, EndsNew, 57 \in Int, steady \in Int
      <4>3. QED
        BY <2>3, <4>1, <4>2
    <3>3. QED
      BY <3>1, <3>2, <2>1, <1>1, <1>2 DEF Stops, Ends
  <2>5. ASSUME Quick PROVE Starts'
    <3> SUFFICES ASSUME Ready PROVE Starts'
      BY <1>4 DEF Starts
    <3>1. Starts /\ CloseTicks <= 2 /\ steady = 0
      BY <2>5, <1>6 DEF Quick, QuickStop, Soon, Ready
    <3>2. steady + CloseTicks <= 14
      BY <3>1, <1>3
    <3>3. EndsBy(timer'["close"], Ahead, steady, 14)
      BY <3>2, <2>1, <1>3, EndsNew, 14 \in Int, steady \in Int
    <3>4. \A r \in timer'["retry"] : steady' + r <= 12 /\ (live' => steady' + r <= 6)
      BY <3>1, <2>1, <1>2 DEF Starts
    <3>5. state # "NOT_RECORDING"
      BY <1>9 DEF IInv, Timing, Places
    <3>6. QED
      BY <3>1, <3>3, <3>4, <3>5, <2>1, <1>1, <1>2 DEF Starts, Ends
  <2>6. QED
    BY <2>2, <2>4, <2>5, <1>5 DEF Soon
<1>10. QED
  BY <1>1, <1>7, <1>8, <1>9

\* Every step keeps the bounds.
LEMMA InductiveSoon ==
  ASSUME IInv, Soon, [Next]_vars
  PROVE  Soon'
<1>1. CASE Pass
  BY <1>1, PassSoon
<1>2. CASE Turn \/ Move \/ Break
  BY <1>2, FreshSoon DEF Turn, Move, Break, Change, recorder
<1>3. CASE SetDate
  BY <1>3, FreshSoon DEF SetDate, recorder
<1>4. CASE RebootCommand
  BY <1>4, FreshSoon DEF RebootCommand, Change, recorder
<1>5. CASE LiveViewStart
  BY <1>5, FreshSoon DEF LiveViewStart
<1>6. CASE Restart \/ EndProcess \/ LiveViewStop \/ UNCHANGED vars
  BY <1>6, RestartSoon, EndSoon, StillSoon
<1>7. CASE IgnitionBegin \/ IgnitionDecide
  BY <1>7, BeginSoon, DecideSoon
<1>8. CASE Confirm \/ Launch \/ OnStart \/ OnStop
  BY <1>8, ConfirmSoon, LaunchSoon, OnStartSoon, OnStopSoon
<1>9. CASE Prepared \/ Retry \/ LateRetry \/ HandleIgnitionOff
  BY <1>9, PreparedSoon, RetrySoon, LateSoon, HandleSoon
<1>10. QED
  BY <1>1, <1>2, <1>3, <1>4, <1>5, <1>6, <1>7, <1>8, <1>9 DEF Next

LEMMA SoonHolds == Spec => [](IInv /\ Soon)
<1>1. Init => IInv /\ Soon
  BY InitIInv, InitSoon
<1>2. IInv /\ Soon /\ [Next]_vars => (IInv /\ Soon)'
  BY InductiveTiming, InductiveSoon
<1>3. QED
  BY <1>1, <1>2, PTL DEF Spec

\* The service gives up, for want of frames, only after a fault (FailureHasFault): no
\* bound on how long Android or a live view takes is needed, other than TicksAssumption.
\* In each phase recCheck has counted for less than eight checks.
THEOREM GivesUpAfterFault == Spec => FailureHasFault
<1>1. ASSUME IInv, Soon, [Next]_vars
      PROVE  [process = "up" /\ process' = "failing" => fault]_vars
  <2> SUFFICES ASSUME process = "up", process' = "failing", ~fault PROVE FALSE
    OBVIOUS
  <2>1. IgnitionDecide /\ Fail /\ RecCheck > MaxRecCheck
    <3>1. ~UNCHANGED process
      OBVIOUS
    <3>2. ~(Pass \/ Turn \/ Move \/ Break \/ SetDate \/ Restart \/ RebootCommand \/ EndProcess
            \/ UNCHANGED vars)
      BY <3>1 DEF Pass, Turn, Move, Break, SetDate, Restart, RebootCommand, EndProcess, vars
    <3>3. ~(IgnitionBegin \/ Confirm \/ Launch \/ OnStart \/ Retry \/ LateRetry
            \/ HandleIgnitionOff \/ LiveViewStart \/ LiveViewStop \/ OnStop)
      BY <3>1 DEF IgnitionBegin, Confirm, Launch, OnStart, Retry, LateRetry,
                  HandleIgnitionOff, LiveViewStart, LiveViewStop, OnStop
    <3>4. ~Prepared
      BY <3>1 DEF Prepared, StartRecording
    <3>5. IgnitionDecide
      BY <1>1, <3>2, <3>3, <3>4 DEF Next
    <3>6. QED
      BY <3>1, <3>5 DEF IgnitionDecide
  <2>2. recCheck \in 0..8 /\ Waited \in Int /\ fault = FALSE
    BY <1>1, Numbers DEF IInv, TypeOK
  <2>3. recCheck = 8 /\ Counting
    BY <2>1, <2>2 DEF RecCheck, MaxRecCheck, Counting
  <2>4. Left("confirm") = -1 /\ Ahead = 0 /\ Waited = 64
    BY <1>1, <2>1, <2>3, DecideEffect DEF Waited
  <2>5. Waits
    BY <1>1 DEF Soon
  <2>6. state # "NOT_RECORDING" /\ activity \notin {"recording", "stopping"}
    <3>1. EndsBy(timer["close"], 0, 64, 28) => FALSE
      <4>1. \A e \in timer["close"] : e \in 0..8
        BY <1>1, Numbers
      <4>2. QED
        BY <4>1 DEF EndsBy
    <3>2. QED
      BY <3>1, <2>2, <2>3, <2>4, <2>5 DEF Waits, Ends
  <2>7. Left("launch") < 0 /\ Left("open") < 0 /\ Left("prepare") < 0
    BY <1>1, <2>2, <2>3, <2>4, <2>5, Numbers DEF Waits
  <2>8. activity = "starting"
    BY <1>1, <2>6, <2>7, Numbers DEF IInv, TypeOK, Timing, Places
  <2>9. PICK r \in timer["retry"] : Waited + r <= 6
    <3>1. timer["retry"] # {}
      BY <1>1, <2>7, <2>8, Numbers DEF Soon, Goes
    <3>2. QED
      BY <3>1, <2>3, <2>5 DEF Waits
  <2>10. r \in 0..8
    BY <1>1, <2>9, Numbers
  <2>11. QED
    BY <2>4, <2>9, <2>10
<1>2. QED
  BY <1>1, SoonHolds, PTL DEF Spec, FailureHasFault

\* With the ignition off and no motion the recording has stopped in time (StopsSoon), if
\* Android ends an activity within 1 s, however slowly it starts one and however often
\* and however long there are live views.
THEOREM StopsInTime ==
  ASSUME QuickStop PROVE Spec => []StopsSoon
<1>1. IInv /\ Soon => StopsSoon
  <2> SUFFICES ASSUME IInv, Soon, Still, steady >= 59
               PROVE  state = "NOT_RECORDING" /\ activity = "none"
    BY DEF StopsSoon, StopBound, Still
  <2>1. /\ steady \in 0..64 /\ offCount \in Nat /\ Ahead \in 0..9 /\ Dark \in Int
        /\ Left("launch") \in -1..8 /\ Left("open") \in -1..8
        /\ Left("prepare") \in -1..8 /\ Left("sample") \in -1..8
        /\ timer["close"] \subseteq 0..8 /\ timer["retry"] \subseteq 0..8
    BY Numbers
  <2>2. process = "up" /\ Stops
    BY DEF Still, Soon
  <2> SUFFICES ASSUME state # "NOT_RECORDING" PROVE FALSE
    BY DEF IInv, Timing, Places
  <2>3. ~shaken /\ ~shook /\ Dark >= 50
    BY <2>1, <2>2 DEF Stops
  <2>4. Left("launch") = -1 /\ Left("open") = -1
    BY <2>1, <2>2, <2>3 DEF IInv, Timing, Early
  <2>5. activity # "none"
    BY <2>4 DEF IInv, Timing, Places
  <2>6. Asked
    BY <2>1, <2>3 DEF Asked, Dark
  <2>7. activity # "stopping"
    <3> SUFFICES ASSUME activity = "stopping" PROVE FALSE
      OBVIOUS
    <3>1. steady <= 57 + 1
      BY <2>1, <2>2, EndsBound, 57 \in Int, steady \in Int DEF Ends, Stops
    <3>2. QED
      BY <3>1, <2>1
  <2>8. activity \in {"starting", "recording"}
    BY <2>5, <2>7 DEF IInv, TypeOK
  <2>9. PICK r \in timer["retry"] : steady + r <= 55
    BY <2>2, <2>6, <2>8 DEF Stops, Repeated
  <2>10. r \in 0..8
    BY <2>1, <2>9
  <2>11. QED
    BY <2>1, <2>9, <2>10
<1>2. QED
  BY <1>1, SoonHolds, PTL

\* With the ignition on, the date known and a working camera, the camera records in time
\* (RecordsSoon), if Android starts an activity within 2 s and ends it within 1 s, and
\* the delay of the recorder is 3 s at most.
THEOREM RecordsInTime ==
  ASSUME Quick PROVE Spec => []RecordsSoon
<1>1. IInv /\ Soon => RecordsSoon
  <2> SUFFICES ASSUME IInv, Soon, Ready, steady >= 40
               PROVE  /\ state = "RECORDING" /\ activity = "recording"
                      /\ handlers \/ postponed = 2
    BY DEF RecordsSoon, StartBound, Ready
  <2>1. /\ steady \in 0..64 /\ Ahead \in 0..9
        /\ Left("confirm") \in -1..8 /\ Left("launch") \in -1..8 /\ Left("open") \in -1..8
        /\ Left("prepare") \in -1..8
        /\ timer["close"] \subseteq 0..8 /\ timer["retry"] \subseteq 0..8
    BY Numbers
  <2>2. process = "up" /\ Starts
    BY DEF Ready, Soon
  <2>3. /\ Left("confirm") = -1 /\ Left("launch") = -1 /\ Left("open") = -1
        /\ Left("prepare") = -1 /\ state # "NOT_RECORDING"
    BY <2>1, <2>2 DEF Starts
  <2>4. activity # "none"
    BY <2>3 DEF IInv, Timing, Places
  <2>5. activity # "stopping"
    <3> SUFFICES ASSUME activity = "stopping" PROVE FALSE
      OBVIOUS
    <3>1. steady <= 14 + 1
      BY <2>1, <2>2, EndsBound, 14 \in Int, steady \in Int DEF Ends, Starts
    <3>2. QED
      BY <3>1, <2>1
  <2>6. activity # "starting"
    <3> SUFFICES ASSUME activity = "starting" PROVE FALSE
      OBVIOUS
    <3>1. PICK r \in timer["retry"] : steady + r <= 12
      BY <2>2, <2>3 DEF Soon, Goes, Starts
    <3>2. r \in 0..8
      BY <2>1, <3>1
    <3>3. QED
      BY <2>1, <3>1, <3>2
  <2>7. activity = "recording"
    BY <2>4, <2>5, <2>6 DEF IInv, TypeOK
  <2>8. QED
    BY <2>2, <2>7 DEF Soon, Goes, IInv, Timing, Places
<1>2. QED
  BY <1>1, SoonHolds, PTL
=============================================================================
