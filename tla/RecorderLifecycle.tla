--------------------------- MODULE RecorderLifecycle ---------------------------
(***************************************************************************)
(* When the camera records: KdcService reads the ignition every 4 seconds, *)
(* starts RecorderActivity when it is on, asks it to stop after five times *)
(* off, and ends the process when no frames come (cameras of type KDC).    *)
(*                                                                         *)
(* Almost every step of the code is a one-shot java.util.Timer that is     *)
(* never cancelled, so what happens depends on how the delays interleave.  *)
(* Time is therefore explicit: a tick of the clock is half a second, and   *)
(* timer[t] is the set of the times left of the pending timers of kind t.  *)
(* Timer threads and the UI thread run in any order within a tick; the UI  *)
(* thread sleeps while it samples the ignition and before a restart.       *)
(***************************************************************************)
EXTENDS Integers, FiniteSets

CONSTANTS
  WakeTicks,    \* recorderDelay: 1 s, or 3 s with the screen off
  OpenTicks,    \* bound: ticks Android takes to start the activity
  CloseTicks,   \* bound: ticks from stopRecording to onStop (200 ms and more)
  MaxChanges    \* bound: how often the surroundings change

ASSUME TicksAssumption ==
  /\ WakeTicks \subseteq 1..8 /\ WakeTicks # {}
  /\ OpenTicks \in 0..8 /\ CloseTicks \in 0..8
  /\ MaxChanges \in Nat

VARIABLES
  line,         \* the ignition line
  moving,       \* the accelerometer finds new maxima
  working,      \* the MIPI camera prepares and delivers frames
  dated,        \* mCamStartDate # null
  changes,      \* counts changes of the four, and live views, for the bound
  process,      \* the process of the service and the activity
  timer,        \* the pending timers
  shaken,       \* the maxima differ from those of the last ignition check
  shook,        \* ... when the running ignition check began
  state,        \* mRecorderState
  offCount,     \* mIgnOffCount
  recCheck,     \* mIgnRecCheck
  posted,       \* a broadcast ignitionOff waits for the UI thread
  activity,     \* RecorderActivity
  handlers,     \* its static handlers are not null
  live,         \* mLiveViewInProgress
  lateLive,     \* ... of the activity that has ended
  postponed,    \* stops that live views have put off, as far as any of an earlier
                \* activity may still be pending; counts up to 2 (history)
  fault,        \* since mIgnRecCheck was 0: no camera, no date, a second look that
                \* found the ignition off, or a stop put off twice (history)
  steady        \* ticks since the surroundings last changed (history)

world == <<line, moving, working, dated, changes>>
recorder == <<activity, handlers, live, lateLive, postponed>>
vars == <<world, process, timer, shaken, shook, state, offCount, recCheck,
          posted, recorder, fault, steady>>

IgnitionInterval == 8
OffDelayNone == 0
OffDelayLong == 15   \* the delay of models KXB4 and KXB5
OffDelay == 4
MaxRecCheck == 8

Timers == {"ignition", "sample", "confirm", "launch", "open", "prepare",
           "retry", "late", "close", "nap"}

Longest == 64   \* history: steady counts no further

TypeOK ==
  /\ line \in BOOLEAN /\ moving \in BOOLEAN /\ working \in BOOLEAN
  /\ dated \in BOOLEAN /\ changes \in 0..MaxChanges
  /\ process \in {"up", "failing", "rebooting", "crashed", "ended"}
  /\ timer \in [Timers -> SUBSET (0..8)]
  /\ shaken \in BOOLEAN /\ shook \in BOOLEAN
  /\ state \in {"NOT_RECORDING", "PREPARING", "RECORDING"}
  /\ offCount \in Nat
  /\ recCheck \in 0..MaxRecCheck
  /\ posted \in BOOLEAN
  /\ activity \in {"none", "starting", "recording", "stopping"}
  /\ handlers \in BOOLEAN /\ live \in BOOLEAN /\ lateLive \in BOOLEAN
  /\ postponed \in 0..2
  /\ fault \in BOOLEAN /\ steady \in 0..Longest

-----------------------------------------------------------------------------
(* The clock. *)

Due(t) == 0 \in timer[t]
Fired(t) == [timer EXCEPT ![t] = @ \ {0}]
Set(f, t, d) == [f EXCEPT ![t] = @ \cup {d}]

Alive == process \in {"up", "failing", "rebooting"}

\* The UI thread sleeps while it samples the ignition and before a restart.
UiFree == process = "up" /\ timer["sample"] = {}

\* Something is to be done before time goes on.
Urgent ==
  \/ \E t \in Timers \ {"ignition", "open", "close"} : Due(t)
  \/ UiFree /\ (posted \/ \E t \in {"ignition", "open", "close"} : Due(t))

FramesUnseen == FALSE

Frames == activity = "recording" /\ working

Pass ==
  /\ Alive /\ ~Urgent
  /\ timer' = [t \in Timers |-> {IF d = 0 THEN 0 ELSE d - 1 : d \in timer[t]}]
  /\ recCheck' = IF Frames THEN 0 ELSE recCheck
  /\ fault' = (recCheck' # 0 /\ (fault \/ ~working \/ ~dated))
  /\ shaken' = (shaken \/ (moving /\ state # "NOT_RECORDING"))
  /\ steady' = IF steady = Longest THEN steady ELSE steady + 1
  /\ UNCHANGED <<world, process, shook, state, offCount, posted, recorder>>

-----------------------------------------------------------------------------
(* The surroundings. *)

Change ==
  /\ changes < MaxChanges
  /\ changes' = changes + 1
  /\ steady' = 0
  /\ UNCHANGED <<timer, shaken, shook, state, offCount, recCheck, fault>>

Turn == Change /\ line' = ~line /\ UNCHANGED <<moving, working, dated, process, posted, recorder>>
Move == Change /\ moving' = ~moving /\ UNCHANGED <<line, working, dated, process, posted, recorder>>
Break == Change /\ working' = ~working /\ UNCHANGED <<line, moving, dated, process, posted, recorder>>

\* The time server or GPS gives the date.
SetDate ==
  /\ process = "up" /\ ~dated
  /\ dated' = TRUE
  /\ steady' = 0
  /\ UNCHANGED <<line, moving, working, changes, process, timer, shaken, shook, state,
                 offCount, recCheck, posted, recorder, fault>>

-----------------------------------------------------------------------------
(* The service. *)

Init ==
  /\ line \in BOOLEAN /\ moving = FALSE /\ working \in BOOLEAN /\ dated = FALSE
  /\ changes = 0
  /\ process = "up"
  /\ timer = [t \in Timers |-> IF t = "ignition" THEN {IgnitionInterval} ELSE {}]
  /\ shaken = FALSE /\ shook = FALSE
  /\ state = "NOT_RECORDING" /\ offCount = 0 /\ recCheck = 0 /\ posted = FALSE
  /\ activity = "none" /\ handlers = FALSE /\ live = FALSE /\ lateLive = FALSE
  /\ postponed = 0 /\ fault = FALSE /\ steady = 0

\* Android starts the service again (START_STICKY, or after the boot).
Restart ==
  /\ process \in {"crashed", "ended"}
  /\ process' = "up"
  /\ dated' = FALSE
  /\ timer' = [t \in Timers |-> IF t = "ignition" THEN {IgnitionInterval} ELSE {}]
  /\ shaken' = FALSE /\ shook' = FALSE
  /\ state' = "NOT_RECORDING" /\ offCount' = 0 /\ recCheck' = 0 /\ posted' = FALSE
  /\ activity' = "none" /\ handlers' = FALSE /\ live' = FALSE /\ lateLive' = FALSE
  /\ postponed' = 0 /\ fault' = FALSE /\ steady' = 0
  /\ UNCHANGED <<line, moving, working, changes>>

IgnitionBegin ==
  /\ UiFree /\ Due("ignition")
  /\ timer' = [timer EXCEPT !["ignition"] = {IgnitionInterval}, !["sample"] = {1}]
  /\ shook' = shaken
  /\ shaken' = FALSE
  /\ UNCHANGED <<world, process, state, offCount, recCheck, posted, recorder, fault, steady>>

Ignition == shook \/ line

OffCount ==
  IF Ignition THEN 0
  ELSE IF state # "NOT_RECORDING" THEN offCount + 1 ELSE offCount

RecCheck == IF Ignition THEN recCheck + 1 ELSE 0

StopAsked == OffCount > OffDelay /\ state # "NOT_RECORDING"

LookAgainAlways == Ignition /\ state # "RECORDING"

\* A second look 600 ms later, in case the PIC has only woken the camera up.
LookAgain == Ignition /\ state = "NOT_RECORDING"

Sampled == IF LookAgain THEN Set(Fired("sample"), "confirm", 1) ELSE Fired("sample")

FailKeepsCount ==
  /\ recCheck' = RecCheck /\ fault' = FALSE
  /\ process' = "failing"
  /\ posted' = TRUE
  /\ \E d \in {1, 6} : timer' = Set(Sampled, "nap", d)

\* handleRecordingFailure: the broadcast, a sleep of 0.5 s or (if the last failure
\* is less than a minute ago) of 3 s, and the end of the process.
Fail ==
  /\ recCheck' = 0 /\ fault' = FALSE
  /\ process' = "failing"
  /\ posted' = TRUE
  /\ \E d \in {1, 6} : timer' = Set(Sampled, "nap", d)

\* ignitionRunner, once it has the samples.
IgnitionDecide ==
  /\ process = "up" /\ Due("sample")
  /\ offCount' = OffCount
  /\ \/ /\ RecCheck > MaxRecCheck
        /\ Fail
     \/ /\ RecCheck <= MaxRecCheck
        /\ recCheck' = RecCheck
        /\ fault' = (RecCheck # 0 /\ fault)
        /\ posted' = (posted \/ StopAsked)
        /\ timer' = Sampled
        /\ UNCHANGED process
  /\ shook' = FALSE
  /\ UNCHANGED <<world, shaken, state, recorder, steady>>

ConfirmUndated ==
  /\ Alive /\ Due("confirm")
  /\ state' = IF line THEN "PREPARING" ELSE state
  /\ \/ /\ line /\ dated
        /\ \E d \in WakeTicks : timer' = Set(Fired("confirm"), "launch", d)
        /\ UNCHANGED fault
     \/ /\ ~(line /\ dated)
        /\ timer' = Fired("confirm")
        /\ fault' = TRUE
  /\ UNCHANGED <<world, process, shaken, shook, offCount, recCheck, posted, recorder, steady>>

\* setRecorderState(PREPARING), if the ignition is still on and the date is known.
Confirm ==
  /\ Alive /\ Due("confirm")
  /\ \/ /\ line /\ dated
        /\ state' = "PREPARING"
        /\ \E d \in WakeTicks : timer' = Set(Fired("confirm"), "launch", d)
        /\ UNCHANGED fault
     \/ /\ ~(line /\ dated)
        /\ timer' = Fired("confirm")
        /\ fault' = TRUE
        /\ UNCHANGED state
  /\ UNCHANGED <<world, process, shaken, shook, offCount, recCheck, posted, recorder, steady>>

\* recorderActivity() asks Android for the activity.
Launch ==
  /\ Alive /\ Due("launch")
  /\ timer' = Set(Fired("launch"), "open", OpenTicks)
  /\ UNCHANGED <<world, process, shaken, shook, state, offCount, recCheck, posted,
                 recorder, fault, steady>>

\* The push command reboot.
RebootCommand ==
  /\ UiFree
  /\ Change
  /\ dated' = FALSE
  /\ process' = "rebooting"
  /\ posted' = TRUE
  /\ UNCHANGED <<line, moving, working, recorder>>

\* The sleep before System.exit or the reboot is over.
EndProcess ==
  /\ \/ process = "failing" /\ Due("nap")
     \/ process = "rebooting"
  /\ process' = "ended"
  /\ UNCHANGED <<world, timer, shaken, shook, state, offCount, recCheck, posted,
                 recorder, fault, steady>>

-----------------------------------------------------------------------------
(* RecorderActivity. *)

\* onStart makes the handlers; 2 s later a timer prepares the camera.
OnStart ==
  /\ UiFree /\ timer["open"] # {}
  /\ timer' = [timer EXCEPT !["open"] = {}, !["prepare"] = @ \cup {4}]
  /\ activity' = "starting" /\ handlers' = TRUE /\ live' = FALSE
  /\ postponed' = IF timer["late"] = {} THEN 0 ELSE postponed
  /\ UNCHANGED <<world, process, shaken, shook, state, offCount, recCheck, posted, lateLive,
                 fault, steady>>

PutOff == postponed' = IF postponed = 2 THEN 2 ELSE postponed + 1

\* A live view in progress is stopped first, and the recording 3 s later.
StopRecording(f) ==
  /\ \/ /\ live
        /\ live' = FALSE
        /\ PutOff
        /\ timer' = Set(f, "retry", 6)
        /\ UNCHANGED <<activity, handlers>>
     \/ /\ ~live
        /\ handlers' = FALSE
        /\ IF activity = "none"
           THEN timer' = f /\ UNCHANGED activity
           ELSE timer' = Set(f, "close", CloseTicks) /\ activity' = "stopping"
        /\ UNCHANGED <<live, postponed>>
  /\ UNCHANGED lateLive

\* startRecording() needs the handlers that onStart made; without them it ends the
\* process with a NullPointerException.
StartRecording ==
  /\ process' = IF handlers THEN process ELSE "crashed"
  /\ state' = IF dated THEN "RECORDING" ELSE state
  /\ activity' = "recording"
  /\ timer' = Fired("prepare")
  /\ UNCHANGED <<handlers, live, lateLive, postponed>>

Prepared ==
  /\ Alive /\ Due("prepare")
  /\ \/ working /\ StartRecording
     \/ ~working /\ StopRecording(Fired("prepare")) /\ UNCHANGED <<process, state>>
  /\ fault' = (fault \/ ~working)
  /\ UNCHANGED <<world, shaken, shook, offCount, recCheck, posted, steady>>

Retry ==
  /\ Alive /\ Due("retry")
  /\ StopRecording(Fired("retry"))
  /\ fault' = (fault \/ live)
  /\ UNCHANGED <<world, process, shaken, shook, state, offCount, recCheck, posted, steady>>

\* The same timer of an activity that has ended: its flag is its own, the handlers
\* are static.
LateRetry ==
  /\ Alive /\ Due("late")
  /\ \/ /\ lateLive
        /\ PutOff
        /\ timer' = Set(Fired("late"), "late", 6)
        /\ UNCHANGED handlers
     \/ /\ ~lateLive
        /\ handlers' = FALSE
        /\ timer' = Fired("late")
        /\ UNCHANGED postponed
  /\ lateLive' = FALSE
  /\ UNCHANGED <<world, process, shaken, shook, state, offCount, recCheck, posted,
                 activity, live, fault, steady>>

\* The broadcast ignitionOff; nobody listens to it before onCreate or after onStop.
HandleIgnitionOff ==
  /\ UiFree /\ posted
  /\ posted' = FALSE
  /\ \/ activity = "none" /\ UNCHANGED <<timer, recorder>>
     \/ activity # "none" /\ StopRecording(timer)
  /\ UNCHANGED <<world, process, shaken, shook, state, offCount, recCheck, fault, steady>>

\* The two-minute live view or a push command, for any time and as often as it likes.
LiveViewStart ==
  /\ UiFree /\ activity # "none"
  /\ changes < MaxChanges
  /\ changes' = changes + 1
  /\ live' = TRUE
  /\ steady' = 0
  /\ UNCHANGED <<line, moving, working, dated, process, timer, shaken, shook, state, offCount,
                 recCheck, posted, activity, handlers, lateLive, postponed, fault>>

LiveViewStop ==
  /\ Alive
  /\ \/ live /\ live' = FALSE /\ UNCHANGED lateLive
     \/ lateLive /\ lateLive' = FALSE /\ UNCHANGED live
  /\ UNCHANGED <<world, process, timer, shaken, shook, state, offCount, recCheck, posted,
                 activity, handlers, postponed, fault, steady>>

\* finish() leads to onStop (setRecorderState(NOT_RECORDING)) and onDestroy.
OnStop ==
  /\ UiFree /\ timer["close"] # {}
  /\ timer' = [timer EXCEPT !["close"] = {}, !["retry"] = {}, !["late"] = @ \cup timer["retry"]]
  /\ state' = "NOT_RECORDING"
  /\ activity' = "none" /\ handlers' = FALSE
  /\ lateLive' = live /\ live' = FALSE
  /\ UNCHANGED <<world, process, shaken, shook, offCount, recCheck, posted, postponed, fault,
                 steady>>

Next ==
  \/ Pass \/ Turn \/ Move \/ Break \/ SetDate \/ Restart
  \/ IgnitionBegin \/ IgnitionDecide \/ Confirm \/ Launch
  \/ RebootCommand \/ EndProcess
  \/ OnStart \/ Prepared \/ Retry \/ LateRetry \/ HandleIgnitionOff
  \/ LiveViewStart \/ LiveViewStop \/ OnStop

Spec == Init /\ [][Next]_vars

-----------------------------------------------------------------------------
(* Properties. *)

\* Nothing of an earlier activity is left when the next one starts: not the
\* activity, which holds the camera, not its timers, which nothing cancels; and not
\* a stop that was put off, unless that has happened twice, since it works on the
\* static handlers of the next activity (RecorderActivity.java:294 and 701-711).
OneRecorder ==
  timer["open"] # {} =>
    /\ activity = "none"
    /\ \A t \in {"prepare", "retry", "close", "launch"} : timer[t] = {}
    /\ postponed < 2 => timer["late"] = {}

\* startRecording() never runs on handlers that a stop has thrown away, although the
\* timer that starts the recording 2 s after onStart is not cancelled by a stop; only
\* a stop that live views have put off twice can end the process in this way.
StartHasHandlers == process = "crashed" => postponed = 2

\* With the ignition on, the date known and a working camera, the camera records
\* after at most StartBound ticks, whatever was going on before: an activity
\* that was stopping, a postponed stop, a restart of the service.
StartBound == 40
RecordsSoon ==
  process = "up" /\ line /\ working /\ dated /\ steady >= StartBound
    => /\ state = "RECORDING" /\ activity = "recording"
       /\ handlers \/ postponed = 2

\* With the ignition off and no motion, the recording has stopped after at most
\* StopBound ticks, even if a live view postponed the stop or the broadcast
\* came before the activity was there to hear it.
StopBound == 59
StopsSoon ==
  process = "up" /\ ~line /\ ~moving /\ steady >= StopBound
    => state = "NOT_RECORDING" /\ activity = "none"

\* The service ends its process for want of frames only after a fault: since the
\* counter last was 0, the camera did not work, the date was not known, live views
\* put a stop off a second time, or a second look found that the PIC had only woken
\* the camera up (the counter went up all the same). A slow start, a stop in
\* progress or one put off once is no reason.
FailureHasFault == [][process = "up" /\ process' = "failing" => fault]_vars

\* "Don't lose any journey information so try a safe recorder stop"
\* (KdcService.java:913): when the process ends, the recorder has been stopped.
SafeStop ==
  [][process = "failing" /\ process' = "ended" => activity \notin {"starting", "recording"}]_vars

=============================================================================
