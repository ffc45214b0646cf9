------------------------------ MODULE UvcPreview ------------------------------
(***************************************************************************)
(* The native preview of a UVC camera (UVCCamera/UVCPreview.cpp), between  *)
(* the Java object that starts and stops it and libuvc, of which it uses   *)
(* what StreamContract promises.  Frames go from the stream's callback     *)
(* through previewFrames to the preview thread, which draws them, and      *)
(* through captureQueu to the capture thread; their memory comes from a    *)
(* pool and goes back to it.  The program never sets a capture window or   *)
(* a frame callback, so the capture thread only gives frames back.         *)
(*                                                                         *)
(* A section under preview_mutex, capture_mutex or pool_mutex is a step.   *)
(* mIsRunning is read and written, and the conditions are signalled by     *)
(* stopPreview, without any of them.  Frames are counted, not told apart.  *)
(***************************************************************************)
EXTENDS Naturals, FiniteSets

CONSTANTS
  MAX_FRAME,      \* the places of previewFrames
  FRAME_POOL_SZ,  \* the places of the pool
  MaxStarts       \* bound: calls of startPreview

ASSUME PreviewAssumption ==
  MAX_FRAME \in Nat /\ FRAME_POOL_SZ \in Nat /\ MaxStarts \in Nat

VARIABLES
  state, calling, broken,     \* the stream, as StreamContract has it
  isRunning, isCapturing,
  starts,                     \* calls of startPreview that made a thread
  client,                     \* the thread that starts and stops the preview
  preview,                    \* the preview thread
  hand,                       \* how many frames it holds
  capture,                    \* the capture thread of each start
  captureThread,              \* the member of this name: a start, or 0 if it names no thread
  callback,                   \* the stream's callback
  allocated,                  \* frames that have been allocated and not freed
  pool, previewFrames,        \* sizes
  captureQueu,                \* 1 if it holds a frame
  raced, stale                \* history: see StopWakes and StopJoins

streamVars == <<state, calling, broken>>
flagVars == <<isRunning, isCapturing>>
threadVars == <<client, preview, hand, capture, captureThread, callback>>
frameVars == <<allocated, pool, previewFrames, captureQueu>>
vars == <<streamVars, flagVars, starts, threadVars, frameVars, raced, stale>>

Starts == 1 .. MaxStarts
Stream == INSTANCE StreamContract

TypeOK ==
  /\ state \in {"idle", "streaming", "stopping"} /\ calling \in BOOLEAN /\ broken \in BOOLEAN
  /\ isRunning \in BOOLEAN /\ isCapturing \in BOOLEAN
  /\ starts \in 0 .. MaxStarts
  /\ client \in {"idle", "signalPreview", "signalCapture", "joinCapture", "joinPreview",
                 "clear", "aborted"}
  /\ preview \in {"none", "prepare", "opening", "opened", "loop", "enter", "waiting", "woken",
                  "got", "decoding", "decoded", "drawn", "signal", "stop", "stopping", "ended"}
  /\ hand \in 0 .. 2
  /\ capture \in [Starts -> {"none", "clear", "top", "test", "enter", "waiting", "woken",
                             "got", "ended"}]
  /\ captureThread \in 0 .. MaxStarts
  /\ callback \in {"none", "called", "copied", "full"}
  /\ allocated \in Nat
  /\ pool \in 0 .. FRAME_POOL_SZ /\ previewFrames \in 0 .. MAX_FRAME /\ captureQueu \in 0 .. 1
  /\ raced \in BOOLEAN /\ stale \in BOOLEAN

Init ==
  /\ Stream!Init
  /\ isRunning = FALSE /\ isCapturing = FALSE /\ starts = 0
  /\ client = "idle" /\ preview = "none" /\ hand = 0
  /\ capture = [s \in Starts |-> "none"] /\ captureThread = 0 /\ callback = "none"
  /\ allocated = 0 /\ pool = 0 /\ previewFrames = 0 /\ captureQueu = 0
  /\ raced = FALSE /\ stale = FALSE
-----------------------------------------------------------------------------
\* get_frame
GetFrame ==
  IF pool > 0 THEN pool' = pool - 1 /\ UNCHANGED allocated
              ELSE allocated' = allocated + 1 /\ UNCHANGED pool

\* Mutant: the pool has no limit.
RecycleAll(n) == pool' = pool + n /\ UNCHANGED allocated

\* recycle_frame, n times: what the pool has no place for is freed.
Recycle(n) ==
  LET kept == IF pool + n > FRAME_POOL_SZ THEN FRAME_POOL_SZ - pool ELSE n
  IN pool' = pool + kept /\ allocated' = allocated - (n - kept)

\* get_frame and then recycle_frame, as draw_preview_one does.
BorrowFrame ==
  IF pool > 0 \/ FRAME_POOL_SZ = 0 THEN UNCHANGED <<pool, allocated>>
              ELSE pool' = 1 /\ allocated' = allocated + 1

\* A signal finds nobody, or wakes the thread that waits.
SignalPreview == preview' = IF preview = "waiting" THEN "woken" ELSE preview

Waiting == {s \in Starts : capture[s] = "waiting"}
WakeCapture(woken) == capture' = [s \in Starts |-> IF s \in woken THEN "woken" ELSE capture[s]]
SignalCapture ==
  IF Waiting = {} THEN UNCHANGED capture ELSE \E s \in Waiting : WakeCapture({s})
-----------------------------------------------------------------------------
(* The client, a Java thread that holds the lock of the UVCCamera object.  *)

StartPreview ==
  /\ client = "idle" /\ ~isRunning /\ starts < MaxStarts
  /\ starts' = starts + 1 /\ isRunning' = TRUE
  /\ preview' = "prepare"
  /\ raced' = FALSE
  /\ UNCHANGED <<streamVars, isCapturing, client, hand, capture, captureThread, callback, frameVars,
                 stale>>

\* A thread that has tested mIsRunning and not yet begun to wait.
Deaf == preview = "enter" \/ \E s \in Starts : capture[s] = "enter"

StopPreview ==
  /\ client = "idle" /\ isRunning
  /\ isRunning' = FALSE /\ client' = "signalPreview"
  /\ raced' = Deaf
  /\ UNCHANGED <<streamVars, isCapturing, starts, preview, hand, capture, captureThread, callback,
                 frameVars, stale>>

\* Mutant: the preview thread is not signalled.
StopSignalsNobody ==
  /\ client = "signalPreview" /\ client' = "signalCapture"
  /\ UNCHANGED <<streamVars, flagVars, starts, preview, hand, capture, captureThread, callback,
                 frameVars, raced, stale>>

StopSignalsPreview ==
  /\ client = "signalPreview" /\ client' = "signalCapture"
  /\ SignalPreview
  /\ UNCHANGED <<streamVars, flagVars, starts, hand, capture, captureThread, callback, frameVars,
                 raced, stale>>

StopSignalsCapture ==
  /\ client = "signalCapture" /\ client' = "joinCapture"
  /\ SignalCapture
  /\ UNCHANGED <<streamVars, flagVars, starts, preview, hand, captureThread, callback, frameVars,
                 raced, stale>>

\* Mutant: the capture thread is not waited for.
JoinCaptureNot ==
  /\ client = "joinCapture" /\ client' = "joinPreview"
  /\ captureThread # 0 /\ captureThread' = 0
  /\ UNCHANGED <<streamVars, flagVars, starts, preview, hand, capture, callback, frameVars, raced, stale>>

JoinCapture ==
  /\ client = "joinCapture" /\ client' = "joinPreview"
  /\ captureThread # 0 /\ capture[captureThread] = "ended"
  /\ captureThread' = 0
  /\ UNCHANGED <<streamVars, flagVars, starts, preview, hand, capture, callback, frameVars, raced, stale>>

\* captureThread was never set, or names a thread that has been joined: the
\* behaviour of pthread_join is undefined; it fails or the process is aborted.
JoinNothing ==
  /\ client = "joinCapture" /\ client' \in {"joinPreview", "aborted"}
  /\ captureThread = 0
  /\ stale' = TRUE
  /\ UNCHANGED <<streamVars, flagVars, starts, preview, hand, capture, captureThread, callback,
                 frameVars, raced>>

JoinPreview ==
  /\ client = "joinPreview" /\ client' = "clear"
  /\ preview = "ended" /\ preview' = "none"
  /\ UNCHANGED <<streamVars, flagVars, starts, hand, capture, captureThread, callback, frameVars,
                 raced, stale>>

ClearPreviewFrame == Recycle(previewFrames) /\ previewFrames' = 0 /\ UNCHANGED captureQueu
ClearCaptureFrame == Recycle(captureQueu) /\ captureQueu' = 0 /\ UNCHANGED previewFrames

\* clearPreviewFrame and clearCaptureFrame
StopClears ==
  /\ client = "clear" /\ client' = "idle"
  /\ Recycle(previewFrames + captureQueu) /\ previewFrames' = 0 /\ captureQueu' = 0
  /\ UNCHANGED <<streamVars, flagVars, starts, preview, hand, capture, captureThread, callback,
                 raced, stale>>

\* setCaptureDisplay(NULL), from the encoder's thread or the camera thread.
StopCapture ==
  /\ isRunning /\ isCapturing /\ isCapturing' = FALSE
  /\ UNCHANGED <<streamVars, isRunning, starts, threadVars, frameVars, raced, stale>>
-----------------------------------------------------------------------------
(* The stream's callback: uvc_preview_frame_callback.                      *)

Call ==
  /\ Stream!Call /\ callback' = "called"
  /\ UNCHANGED <<flagVars, starts, client, preview, hand, capture, captureThread, frameVars, raced, stale>>

CallbackReturns == callback' = "none" /\ Stream!Return

\* The preview does not run, or the frame is broken.
CallbackIgnores ==
  /\ callback = "called" /\ CallbackReturns
  /\ UNCHANGED <<flagVars, starts, client, preview, hand, capture, captureThread,
                 frameVars, raced, stale>>

CallbackCopies ==
  /\ callback = "called" /\ isRunning /\ GetFrame
  /\ callback' \in {"copied", "full"}                \* uvc_duplicate_frame may fail
  /\ UNCHANGED <<streamVars, flagVars, starts, client, preview, hand, capture, captureThread,
                 previewFrames, captureQueu, raced, stale>>

\* Mutant: a frame for which there is no place is forgotten.
AddPreviewFrameLeaks ==
  /\ callback = "copied" /\ CallbackReturns
  /\ IF isRunning /\ previewFrames < MAX_FRAME
     THEN previewFrames' = previewFrames + 1 /\ SignalPreview
     ELSE UNCHANGED <<previewFrames, preview>>
  /\ UNCHANGED <<flagVars, starts, client, hand, capture, captureThread, allocated, pool,
                 captureQueu, raced, stale>>

AddPreviewFrame ==
  /\ callback = "copied"
  /\ IF isRunning /\ previewFrames < MAX_FRAME
     THEN previewFrames' = previewFrames + 1 /\ SignalPreview /\ CallbackReturns
     ELSE callback' = "full" /\ UNCHANGED <<streamVars, previewFrames, preview>>
  /\ UNCHANGED <<flagVars, starts, client, hand, capture, captureThread, allocated, pool,
                 captureQueu, raced, stale>>

CallbackRecycles ==
  /\ callback = "full" /\ CallbackReturns /\ Recycle(1)
  /\ UNCHANGED <<flagVars, starts, client, preview, hand, capture, captureThread,
                 previewFrames, captureQueu, raced, stale>>

CallbackStep == CallbackIgnores \/ CallbackCopies \/ AddPreviewFrame \/ CallbackRecycles
-----------------------------------------------------------------------------
(* The preview thread: preview_thread_func.                                *)

PreviewAt(here, there) == preview = here /\ preview' = there

\* prepare_preview, the calls of libuvc, and the signal after the loop.
PreviewControls ==
  /\ \/ PreviewAt("prepare", "opening") /\ Stream!Start /\ UNCHANGED capture
     \/ PreviewAt("prepare", "ended") /\ UNCHANGED <<streamVars, capture>>
     \/ PreviewAt("opening", "opened") /\ UNCHANGED <<streamVars, capture>>
     \/ PreviewAt("opening", "ended") /\ Stream!Abandon /\ UNCHANGED capture
     \/ PreviewAt("signal", "stop") /\ SignalCapture /\ UNCHANGED streamVars
     \/ PreviewAt("stop", "stopping") /\ Stream!Stop /\ UNCHANGED capture
     \/ PreviewAt("stop", "ended") /\ broken /\ Stream!Abandon /\ UNCHANGED capture
  /\ UNCHANGED <<flagVars, starts, client, hand, captureThread, callback, frameVars, raced, stale>>

StreamStops ==
  /\ PreviewAt("stopping", "ended") /\ Stream!Stopped
  /\ UNCHANGED <<flagVars, starts, client, hand, capture, captureThread, callback, frameVars, raced, stale>>

CreateCapture ==
  /\ PreviewAt("opened", "loop") /\ ClearPreviewFrame
  /\ captureThread' = starts /\ capture' = [capture EXCEPT ![starts] = "clear"]
  /\ UNCHANGED <<streamVars, flagVars, starts, client, hand, callback, raced, stale>>

Loop ==
  /\ PreviewAt("loop", IF isRunning THEN "enter" ELSE "signal")
  /\ UNCHANGED <<streamVars, flagVars, starts, client, hand, capture, captureThread, callback, frameVars,
                 raced, stale>>

\* waitPreviewFrame: it waits once, and whatever woke it, it looks again.
WaitPreviewFrame ==
  /\ \/ preview = "enter" /\ previewFrames = 0
        /\ preview' = "waiting" /\ UNCHANGED <<hand, previewFrames>>
     \/ /\ preview = "woken" \/ (preview = "enter" /\ previewFrames > 0)
        /\ IF isRunning /\ previewFrames > 0
           THEN preview' = "got" /\ hand' = 1 /\ previewFrames' = previewFrames - 1
           ELSE preview' = "loop" /\ UNCHANGED <<hand, previewFrames>>
  /\ UNCHANGED <<streamVars, flagVars, starts, client, capture, captureThread, callback, allocated, pool,
                 captureQueu, raced, stale>>

\* Decode the frame into another one and draw that through a third; or (YUYV mode,
\* frameMode 0) draw the frame itself. The mode is the same for all frames of a
\* preview, but as nothing else depends on it the choice is left open.
Decode ==
  /\ \/ PreviewAt("got", "drawn") /\ UNCHANGED hand /\ BorrowFrame
     \/ PreviewAt("got", "decoding") /\ hand' = 2 /\ GetFrame
     \/ PreviewAt("decoding", "decoded") /\ hand' = 1 /\ Recycle(1)
     \/ PreviewAt("decoded", "loop") /\ hand' = 0 /\ Recycle(1)      \* uvc_mjpeg2yuyv failed
     \/ PreviewAt("decoded", "drawn") /\ UNCHANGED hand /\ BorrowFrame
  /\ UNCHANGED <<streamVars, flagVars, starts, client, capture, captureThread, callback,
                 previewFrames, captureQueu, raced, stale>>

\* When the preview does not run any more the frame is kept by nobody.
AddCaptureFrame ==
  /\ PreviewAt("drawn", "loop") /\ hand' = 0
  /\ IF isRunning
     THEN Recycle(captureQueu) /\ captureQueu' = 1 /\ WakeCapture(Waiting)
     ELSE UNCHANGED <<capture, allocated, pool, captureQueu>>
  /\ UNCHANGED <<streamVars, flagVars, starts, client, captureThread, callback, previewFrames, raced, stale>>

PreviewStep ==
  \/ PreviewControls \/ StreamStops \/ CreateCapture \/ Loop
  \/ WaitPreviewFrame \/ Decode \/ AddCaptureFrame
-----------------------------------------------------------------------------
(* The capture threads: do_capture.                                        *)

CaptureAt(s, here, there) == capture[s] = here /\ capture' = [capture EXCEPT ![s] = there]

CaptureControls(s) ==
  /\ \/ CaptureAt(s, "top", IF isRunning THEN "enter" ELSE "ended")
        /\ isCapturing' = (isCapturing \/ isRunning)
     \/ CaptureAt(s, "test", "enter") /\ isRunning /\ isCapturing /\ UNCHANGED isCapturing
     \/ /\ capture[s] = "test" /\ ~(isRunning /\ isCapturing) /\ UNCHANGED isCapturing
        /\ capture' = [t \in Starts |-> IF t = s THEN "top"
                                        ELSE IF t \in Waiting THEN "woken" ELSE capture[t]]
  /\ UNCHANGED <<streamVars, isRunning, starts, client, preview, hand, captureThread, callback,
                 frameVars, raced, stale>>

\* waitCaptureFrame
WaitCaptureFrame(s) ==
  /\ \/ captureQueu = 0 /\ CaptureAt(s, "enter", "waiting") /\ UNCHANGED captureQueu
     \/ /\ capture[s] = "woken" \/ (capture[s] = "enter" /\ captureQueu = 1)
        /\ IF isRunning /\ captureQueu = 1
           THEN capture' = [capture EXCEPT ![s] = "got"] /\ captureQueu' = 0
           ELSE capture' = [capture EXCEPT ![s] = "test"] /\ UNCHANGED captureQueu
  /\ UNCHANGED <<streamVars, flagVars, starts, client, preview, hand, captureThread, callback,
                 allocated, pool, previewFrames, raced, stale>>

\* clearCaptureFrame and do_capture_callback
CaptureRecycles(s) ==
  /\ \/ CaptureAt(s, "clear", "top") /\ ClearCaptureFrame
     \/ CaptureAt(s, "got", "test") /\ Recycle(1) /\ UNCHANGED <<previewFrames, captureQueu>>
  /\ UNCHANGED <<streamVars, flagVars, starts, client, preview, hand, captureThread, callback, raced, stale>>

CaptureStep(s) == CaptureControls(s) \/ WaitCaptureFrame(s) \/ CaptureRecycles(s)
-----------------------------------------------------------------------------
StreamBreaks ==
  /\ Stream!Break
  /\ UNCHANGED <<flagVars, starts, threadVars, frameVars, raced, stale>>

StopStep ==
  StopSignalsPreview \/ StopSignalsCapture \/ JoinCapture \/ JoinNothing \/ JoinPreview \/ StopClears

Next ==
  /\ client # "aborted"
  /\ \/ StartPreview \/ StopPreview \/ StopStep \/ StopCapture
     \/ Call \/ CallbackStep \/ PreviewStep
     \/ \E s \in Starts : CaptureStep(s)
     \/ StreamBreaks

Spec == Init /\ [][Next]_vars
-----------------------------------------------------------------------------
\* Every frame that is allocated is in one place; stopping a preview may lose
\* one, the frame that addCaptureFrame finds too late, and no more.
Places ==
  pool + previewFrames + captureQueu + hand
    + (IF callback \in {"copied", "full"} THEN 1 ELSE 0)
    + Cardinality({s \in Starts : capture[s] = "got"})

FramesAreKept == allocated \in Places .. Places + starts

\* Nobody sleeps through a stop: while stopPreview waits for its threads to
\* end neither waits for a frame, unless it stood between its test of mIsRunning
\* and its wait when the flag was cleared, so that the signal came before the wait.
StopWakes ==
  client \in {"joinCapture", "joinPreview"} /\ ~raced /\ ~stale =>
    preview # "waiting" /\ Waiting = {}

\* When stopPreview has returned, its two threads have ended and the stream's
\* callback is over, unless it joined a capture thread that did not exist yet.
StopJoins ==
  client = "clear" /\ ~stale =>
    /\ preview = "none" /\ \A s \in Starts : capture[s] \in {"none", "ended"}
    /\ callback = "none" \/ broken
=============================================================================
