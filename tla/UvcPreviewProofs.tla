--------------------------- MODULE UvcPreviewProofs ---------------------------
(***************************************************************************)
(* Theorems about the native preview, for every size of the pool and of    *)
(* previewFrames and every number of starts.                               *)
(***************************************************************************)
EXTENDS UvcPreview, FiniteSetTheorems, TLAPS

\* The frames that capture threads hold.
Got == {s \in Starts : capture[s] = "got"}

\* The preview thread holds a frame while it works on one, and two while it
\* decodes one into the other.
HandMatches ==
  hand = IF preview = "decoding" THEN 2
         ELSE IF preview \in {"got", "decoded", "drawn"} THEN 1 ELSE 0

\* How many frames the preview thread may still lose: it loses one only after
\* mIsRunning has been cleared, and then finds so at the top of its loop.
Losable ==
  IF \/ preview \in {"prepare", "opening", "opened", "enter", "waiting", "woken", "got",
                     "decoding", "decoded", "drawn"}
     \/ preview = "loop" /\ isRunning
  THEN 1 ELSE 0

LossBounded == allocated + Losable <= Places + starts

\* The frames outside the pool, as they were counted and where they are, how many
\* have been lost, and how many starts have lost none and will not.
Out == allocated - pool

InCallback == IF callback \in {"copied", "full"} THEN 1 ELSE 0

Held == previewFrames + captureQueu + hand + InCallback + Cardinality(Got)

Lost == Out - Held

Room == starts - Losable

\* A start comes after the preview thread of the last one has been joined.
OnePreview ==
  /\ client # "idle" => ~isRunning
  /\ client = "idle" /\ ~isRunning => preview = "none"
  /\ client = "clear" => preview = "none"
  /\ preview # "none" => starts > 0

\* The capture threads of later starts do not exist, that of this one not yet.
CaptureOfStart ==
  /\ captureThread <= starts
  /\ \A s \in Starts : s > starts => capture[s] = "none"
  /\ preview \in {"prepare", "opening", "opened"} => capture[starts] = "none"

\* Unless a thread was joined that did not exist, captureThread names the only
\* capture thread that may still run, from its creation until it is joined.
OneCapture ==
  ~stale =>
    /\ \A s \in Starts : s # captureThread => capture[s] \in {"none", "ended"}
    /\ preview \in {"none", "prepare", "opening", "opened"} => captureThread = 0
    /\ client = "joinPreview" =>
         captureThread = 0 /\ preview \notin {"none", "prepare", "opening", "opened"}

\* The stream follows the preview thread, and the callback follows the stream.
StreamFollows ==
  /\ state = IF preview \in {"none", "prepare", "ended"} THEN "idle"
             ELSE IF preview = "stopping" THEN "stopping" ELSE "streaming"
  /\ calling <=> callback # "none"
  /\ state = "idle" => ~calling \/ broken

\* Once mIsRunning is clear, and nobody stood between the test and the wait,
\* nobody begins to wait.
StopHeard ==
  client \in {"signalPreview", "signalCapture", "joinCapture", "joinPreview"} /\ ~raced =>
    /\ ~Deaf
    /\ client # "signalPreview" => preview # "waiting"

IInv ==
  /\ TypeOK /\ FramesAreKept /\ HandMatches /\ LossBounded
  /\ OnePreview /\ CaptureOfStart /\ OneCapture /\ StreamFollows
  /\ StopHeard /\ StopWakes
-------------------------------------------------------------------------------
(* The pool.  Taking a frame and giving it back keeps the frames that are  *)
(* allocated in step with those that are in the pool.                      *)

LEMMA GetFrameKeeps ==
  ASSUME TypeOK, GetFrame
  PROVE  pool' \in 0 .. FRAME_POOL_SZ /\ allocated' \in Nat /\ Out' = Out + 1
BY PreviewAssumption DEF TypeOK, GetFrame, Out

LEMMA RecycleKeeps ==
  ASSUME NEW n \in Nat, TypeOK, n <= Out, Recycle(n)
  PROVE  pool' \in 0 .. FRAME_POOL_SZ /\ allocated' \in Nat /\ Out' = Out - n
<1> DEFINE kept == IF pool + n > FRAME_POOL_SZ THEN FRAME_POOL_SZ - pool ELSE n
<1>1. kept \in 0 .. n /\ pool + kept \in 0 .. FRAME_POOL_SZ
  BY PreviewAssumption DEF TypeOK
<1>2. pool' = pool + kept /\ allocated' = allocated - (n - kept)
  BY DEF Recycle
<1>3. QED
  BY <1>1, <1>2, PreviewAssumption DEF TypeOK, Out

LEMMA BorrowFrameKeeps ==
  ASSUME TypeOK, BorrowFrame
  PROVE  pool' \in 0 .. FRAME_POOL_SZ /\ allocated' \in Nat /\ Out' = Out
BY PreviewAssumption DEF TypeOK, BorrowFrame, Out

\* The capture threads that hold a frame can be counted, and a thread that
\* takes or gives back one makes a difference of one.
LEMMA GotCounted ==
  /\ IsFiniteSet(Got) /\ Cardinality(Got) \in Nat
  /\ \A s \in Starts \ Got : Cardinality(Got \cup {s}) = Cardinality(Got) + 1
  /\ \A s \in Got : Cardinality(Got \ {s}) = Cardinality(Got) - 1
<1>1. IsFiniteSet(Starts)
  BY PreviewAssumption, FS_Interval DEF Starts
<1>2. IsFiniteSet(Got)
  BY <1>1, FS_Subset DEF Got
<1>3. QED
  BY <1>2, FS_CardinalityType, FS_AddElement, FS_RemoveElement

LEMMA GotRest == \A s \in Got : Cardinality(Got) >= 1
<1>1. SUFFICES ASSUME NEW s \in Got PROVE Cardinality(Got) >= 1
  OBVIOUS
<1>2. Got # {} /\ IsFiniteSet(Got) /\ Cardinality(Got) \in Nat
  BY GotCounted
<1>3. QED
  BY <1>2, FS_EmptySet

\* Nothing is allocated at the start.
LEMMA InitIInv == Init => IInv
<1> SUFFICES ASSUME Init PROVE IInv
  OBVIOUS
<1> USE PreviewAssumption DEF Init, Stream!Init
<1>1. Got = {} /\ Cardinality(Got) = 0
  BY FS_EmptySet DEF Got
<1>2. TypeOK
  <2>1. /\ capture \in [Starts -> {"none", "clear", "top", "test", "enter", "waiting", "woken",
                                    "got", "ended"}]
        /\ starts \in 0 .. MaxStarts /\ captureThread \in 0 .. MaxStarts
    OBVIOUS
  <2>2. /\ pool \in 0 .. FRAME_POOL_SZ /\ previewFrames \in 0 .. MAX_FRAME
        /\ captureQueu \in 0 .. 1 /\ hand \in 0 .. 2 /\ allocated \in Nat
    OBVIOUS
  <2>3. QED
    BY ONLY Init, <2>1, <2>2 DEF TypeOK, Init, Stream!Init
<1>3. Places = 0
  BY <1>1 DEF Places, Got
<1>4. FramesAreKept /\ HandMatches /\ LossBounded
  BY <1>3 DEF FramesAreKept, HandMatches, LossBounded, Losable
<1>5. OnePreview /\ CaptureOfStart /\ OneCapture /\ StreamFollows
  BY DEF OnePreview, CaptureOfStart, OneCapture, StreamFollows
<1>6. StopHeard /\ StopWakes
  BY DEF StopHeard, StopWakes
<1>7. QED
  BY <1>2, <1>4, <1>5, <1>6 DEF IInv
-------------------------------------------------------------------------------
(* The threads.                                                            *)

Control == OnePreview /\ CaptureOfStart /\ OneCapture /\ StreamFollows /\ StopHeard /\ StopWakes

\* Every step keeps the threads, the stream and the signals in order.
LEMMA NextControl == IInv /\ [Next]_vars => Control'
<1> SUFFICES ASSUME IInv, [Next]_vars
             PROVE  Control'
  OBVIOUS
<1> USE PreviewAssumption
    DEF IInv, TypeOK, Control, OnePreview, CaptureOfStart, OneCapture, StreamFollows, StopHeard,
        StopWakes, Deaf, Waiting, Starts, PreviewAt,
        streamVars, flagVars, threadVars, frameVars,
        Stream!Start, Stream!Break, Stream!Call, Stream!Return, Stream!Stop, Stream!Stopped,
        Stream!Abandon
<1>1. CASE StartPreview
  BY <1>1 DEF StartPreview
<1>2. CASE StopPreview
  BY <1>2 DEF StopPreview
<1>3. CASE StopSignalsPreview
  BY <1>3 DEF StopSignalsPreview, SignalPreview
<1>4. CASE StopSignalsCapture
  BY <1>4 DEF StopSignalsCapture, SignalCapture, WakeCapture, Waiting
<1>5. CASE JoinCapture
  BY <1>5 DEF JoinCapture
<1>6. CASE JoinNothing
  BY <1>6 DEF JoinNothing
<1>7. CASE JoinPreview
  BY <1>7 DEF JoinPreview
<1>8. CASE StopClears
  BY <1>8 DEF StopClears
<1>9. CASE StopCapture
  BY <1>9 DEF StopCapture
<1>10. CASE Call
  BY <1>10 DEF Call
<1>11. CASE CallbackIgnores
  BY <1>11 DEF CallbackIgnores, CallbackReturns
<1>12. CASE CallbackCopies
  BY <1>12 DEF CallbackCopies
<1>13. CASE AddPreviewFrame
  BY <1>13 DEF AddPreviewFrame, CallbackReturns, SignalPreview
<1>14. CASE CallbackRecycles
  BY <1>14 DEF CallbackRecycles, CallbackReturns
<1>15. CASE PreviewControls
  BY <1>15 DEF PreviewControls, SignalCapture, WakeCapture, Waiting
<1>16. CASE StreamStops
  BY <1>16 DEF StreamStops
<1>17. CASE CreateCapture
  BY <1>17 DEF CreateCapture, ClearPreviewFrame
<1>18. CASE Loop
  BY <1>18 DEF Loop
<1>19. CASE WaitPreviewFrame
  BY <1>19 DEF WaitPreviewFrame
<1>20. CASE Decode
  BY <1>20 DEF Decode
<1>21. CASE AddCaptureFrame
  BY <1>21 DEF AddCaptureFrame, WakeCapture, Waiting
<1>22. ASSUME NEW s \in Starts, CaptureControls(s)
      PROVE  Control'
  BY <1>22 DEF CaptureControls, CaptureAt, Waiting
<1>23. ASSUME NEW s \in Starts, WaitCaptureFrame(s)
      PROVE  Control'
  BY <1>23 DEF WaitCaptureFrame, CaptureAt
<1>24. ASSUME NEW s \in Starts, CaptureRecycles(s)
      PROVE  Control'
  BY <1>24 DEF CaptureRecycles, CaptureAt, ClearCaptureFrame
<1>25. CASE StreamBreaks
  BY <1>25 DEF StreamBreaks
<1>26. CASE UNCHANGED vars
  BY <1>26 DEF vars
<1>27. QED
  BY <1>1, <1>2, <1>3, <1>4, <1>5, <1>6, <1>7, <1>8, <1>9, <1>10, <1>11, <1>12, <1>13, <1>14,
     <1>15, <1>16, <1>17, <1>18, <1>19, <1>20, <1>21, <1>22, <1>23, <1>24, <1>25, <1>26
  DEF Next, StopStep, CallbackStep, PreviewStep, CaptureStep
-------------------------------------------------------------------------------
(* The frames.                                                             *)

Frames == TypeOK /\ FramesAreKept /\ HandMatches /\ LossBounded

\* The bounds on the frames, by how many have been lost.
LEMMA FramesMeasured ==
  ASSUME TypeOK
  PROVE  /\ Out \in Int /\ Held \in Nat /\ Lost \in Int /\ Room \in Int /\ Losable \in 0 .. 1
         /\ FramesAreKept /\ LossBounded <=> Lost >= 0 /\ Lost <= Room
<1>1. Held \in Nat /\ Places = pool + Held
  BY PreviewAssumption, GotCounted DEF TypeOK, Held, InCallback, Places, Got
<1>2. Losable \in 0 .. 1
  BY DEF Losable
<1>3. allocated \in Nat /\ pool \in Nat /\ starts \in Nat
  BY PreviewAssumption DEF TypeOK
<1>4. Out \in Int /\ Lost \in Int /\ Room \in Int
  BY <1>1, <1>2, <1>3 DEF Out, Lost, Room
<1>5. Lost = allocated - Places
  BY <1>1, <1>3 DEF Out, Lost
<1>6. Places \in Nat
  BY <1>1, <1>3
<1>7. FramesAreKept <=> Lost \in 0 .. starts
  BY <1>3, <1>5, <1>6 DEF FramesAreKept
<1>8. LossBounded <=> Lost <= Room
  BY <1>2, <1>3, <1>5, <1>6 DEF LossBounded, Room
<1>9. Room <= starts
  BY <1>2, <1>3 DEF Room
<1>10. QED
  BY <1>1, <1>2, <1>3, <1>4, <1>7, <1>8, <1>9

\* What a step has to respect: it loses no frame but the one of this start.
LEMMA FramesMove ==
  ASSUME TypeOK, FramesAreKept, LossBounded, TypeOK',
         \/ Lost' = Lost /\ Room' >= Room
         \/ Lost' = Lost + 1 /\ Room' = Room + 1
  PROVE  FramesAreKept' /\ LossBounded'
<1>1. /\ Lost \in Int /\ Room \in Int
      /\ Lost >= 0 /\ Lost <= Room
  BY FramesMeasured
<1>2. (TypeOK => Room \in Int)'
  BY FramesMeasured, PTL
<1>3. (TypeOK => (FramesAreKept /\ LossBounded <=> Lost >= 0 /\ Lost <= Room))'
  BY FramesMeasured, PTL
<1>4. QED
  BY <1>1, <1>2, <1>3

LEMMA FramesStay ==
  ASSUME TypeOK, FramesAreKept, LossBounded, TypeOK',
         Got' = Got, UNCHANGED <<frameVars, hand, InCallback>>, Room' >= Room
  PROVE  FramesAreKept' /\ LossBounded'
<1>1. Lost' = Lost
  BY DEF Lost, Out, Held, frameVars
<1>2. QED
  BY <1>1, FramesMove

\* Every step keeps the types and moves frames from one place to another; only
\* addCaptureFrame may lose one, and only once in a start.
LEMMA NextFrames == IInv /\ [Next]_vars => Frames'
<1> SUFFICES ASSUME IInv, [Next]_vars
             PROVE  Frames'
  OBVIOUS
<1> USE DEF PreviewAt, streamVars, flagVars, threadVars, frameVars,
        Stream!Start, Stream!Break, Stream!Call, Stream!Return, Stream!Stop, Stream!Stopped,
        Stream!Abandon
<1>inv. /\ TypeOK /\ FramesAreKept /\ LossBounded
        /\ HandMatches /\ OnePreview /\ CaptureOfStart /\ StreamFollows
  BY DEF IInv
<1>nat. /\ previewFrames \in Nat /\ captureQueu \in Nat /\ hand \in Nat /\ InCallback \in Nat
        /\ Cardinality(Got) \in Nat
  BY <1>inv, GotCounted, PreviewAssumption DEF TypeOK, InCallback
<1>out. /\ Out \in Int /\ Held \in Nat /\ Lost \in Int /\ Room \in Int /\ Held <= Out
  BY <1>inv, FramesMeasured DEF Lost
<1>each. /\ previewFrames <= Out /\ captureQueu <= Out /\ previewFrames + captureQueu <= Out
         /\ hand <= Out /\ InCallback <= Out /\ Cardinality(Got) <= Out
  <2>1. /\ previewFrames <= Held /\ captureQueu <= Held /\ previewFrames + captureQueu <= Held
        /\ hand <= Held /\ InCallback <= Held /\ Cardinality(Got) <= Held
    BY <1>nat DEF Held
  <2>2. QED
    BY <2>1, <1>nat, <1>out
<1>1. CASE StartPreview
  <2>1. starts' \in 0 .. MaxStarts /\ preview' = "prepare"
    BY <1>inv, <1>1, PreviewAssumption DEF TypeOK, Deaf, StartPreview
  <2>2. /\ isRunning' \in BOOLEAN /\ raced' \in BOOLEAN
    BY <1>inv, <2>1, <1>1, PreviewAssumption DEF TypeOK, Deaf, StartPreview
  <2>3. UNCHANGED <<streamVars, isCapturing, client, hand, capture, captureThread, callback,
                    frameVars, stale>>
    BY <1>1 DEF StartPreview
  <2>4. TypeOK'
    BY <1>inv, <2>1, <2>2, <2>3 DEF TypeOK
  <2>5. HandMatches'
    BY <1>inv, <1>1 DEF HandMatches, OnePreview, StartPreview
  <2>6. Got' = Got
    BY <1>inv, <1>1 DEF Got, CaptureOfStart, OnePreview, TypeOK, StartPreview
  <2>7. UNCHANGED <<frameVars, hand, InCallback>>
    BY <1>inv, <1>1 DEF InCallback, HandMatches, StreamFollows, StartPreview
  <2>8. Room' >= Room
    BY <1>inv, <1>1, PreviewAssumption DEF Room, Losable, TypeOK, OnePreview, StartPreview
  <2>9. QED
    BY <1>inv, <2>4, <2>5, <2>6, <2>7, <2>8, FramesStay DEF Frames
<1>2. CASE StopPreview
  <2>1. isRunning' \in BOOLEAN /\ client' = "signalPreview" /\ raced' \in BOOLEAN
    BY <1>inv, <1>2, PreviewAssumption DEF TypeOK, Deaf, StopPreview
  <2>2. UNCHANGED <<streamVars, isCapturing, starts, preview, hand, capture, captureThread,
                    callback, frameVars, stale>>
    BY <1>2 DEF StopPreview
  <2>3. TypeOK'
    BY <1>inv, <2>1, <2>2 DEF TypeOK
  <2>4. HandMatches'
    BY <1>inv, <1>2 DEF HandMatches, OnePreview, StopPreview
  <2>5. Got' = Got
    BY <1>inv, <1>2 DEF Got, CaptureOfStart, OnePreview, TypeOK, StopPreview
  <2>6. UNCHANGED <<frameVars, hand, InCallback>>
    BY <1>inv, <1>2 DEF InCallback, HandMatches, StreamFollows, StopPreview
  <2>7. Room' >= Room
    BY <1>inv, <1>2, PreviewAssumption DEF Room, Losable, TypeOK, OnePreview, StopPreview
  <2>8. QED
    BY <1>inv, <2>3, <2>4, <2>5, <2>6, <2>7, FramesStay DEF Frames
<1>3. CASE StopSignalsPreview
  <2>1. TypeOK'
    BY <1>inv, <1>3, PreviewAssumption DEF TypeOK, StopSignalsPreview, SignalPreview
  <2>2. HandMatches'
    BY <1>inv, <1>3 DEF HandMatches, OnePreview, StopSignalsPreview, SignalPreview
  <2>3. Got' = Got
    BY <1>inv, <1>3 DEF Got, CaptureOfStart, OnePreview, TypeOK, StopSignalsPreview, SignalPreview
  <2>4. UNCHANGED <<frameVars, hand, InCallback>>
    BY <1>inv, <1>3 DEF InCallback, HandMatches, StreamFollows, StopSignalsPreview, SignalPreview
  <2>5. Room' >= Room
    BY <1>inv, <1>3, PreviewAssumption DEF Room, Losable, TypeOK, OnePreview,
       StopSignalsPreview, SignalPreview
  <2>6. QED
    BY <1>inv, <2>1, <2>2, <2>3, <2>4, <2>5, FramesStay DEF Frames
<1>4. CASE StopSignalsCapture
  <2>1. TypeOK'
    BY <1>inv, <1>4, PreviewAssumption DEF TypeOK, StopSignalsCapture, SignalCapture,
       WakeCapture, Waiting
  <2>2. HandMatches'
    BY <1>inv, <1>4 DEF HandMatches, OnePreview, StopSignalsCapture, SignalCapture, WakeCapture,
       Waiting
  <2>3. Got' = Got
    BY <1>inv, <1>4 DEF Got, CaptureOfStart, OnePreview, TypeOK, StopSignalsCapture,
       SignalCapture, WakeCapture, Waiting
  <2>4. UNCHANGED <<frameVars, hand, InCallback>>
    BY <1>inv, <1>4 DEF InCallback, HandMatches, StreamFollows, StopSignalsCapture,
       SignalCapture, WakeCapture, Waiting
  <2>5. Room' >= Room
    BY <1>inv, <1>4, PreviewAssumption DEF Room, Losable, TypeOK, OnePreview,
       StopSignalsCapture, SignalCapture, WakeCapture, Waiting
  <2>6. QED
    BY <1>inv, <2>1, <2>2, <2>3, <2>4, <2>5, FramesStay DEF Frames
<1>5. CASE JoinCapture
  <2>1. TypeOK'
    BY <1>inv, <1>5, PreviewAssumption DEF TypeOK, JoinCapture
  <2>2. HandMatches'
    BY <1>inv, <1>5 DEF HandMatches, OnePreview, JoinCapture
  <2>3. Got' = Got
    BY <1>inv, <1>5 DEF Got, CaptureOfStart, OnePreview, TypeOK, JoinCapture
  <2>4. UNCHANGED <<frameVars, hand, InCallback>>
    BY <1>inv, <1>5 DEF InCallback, HandMatches, StreamFollows, JoinCapture
  <2>5. Room' >= Room
    BY <1>inv, <1>5, PreviewAssumption DEF Room, Losable, TypeOK, OnePreview, JoinCapture
  <2>6. QED
    BY <1>inv, <2>1, <2>2, <2>3, <2>4, <2>5, FramesStay DEF Frames
<1>6. CASE JoinNothing
  <2>1. TypeOK'
    BY <1>inv, <1>6, PreviewAssumption DEF TypeOK, JoinNothing
  <2>2. HandMatches'
    BY <1>inv, <1>6 DEF HandMatches, OnePreview, JoinNothing
  <2>3. Got' = Got
    BY <1>inv, <1>6 DEF Got, CaptureOfStart, OnePreview, TypeOK, JoinNothing
  <2>4. UNCHANGED <<frameVars, hand, InCallback>>
    BY <1>inv, <1>6 DEF InCallback, HandMatches, StreamFollows, JoinNothing
  <2>5. Room' >= Room
    BY <1>inv, <1>6, PreviewAssumption DEF Room, Losable, TypeOK, OnePreview, JoinNothing
  <2>6. QED
    BY <1>inv, <2>1, <2>2, <2>3, <2>4, <2>5, FramesStay DEF Frames
<1>7. CASE JoinPreview
  <2>1. TypeOK'
    BY <1>inv, <1>7, PreviewAssumption DEF TypeOK, JoinPreview
  <2>2. HandMatches'
    BY <1>inv, <1>7 DEF HandMatches, OnePreview, JoinPreview
  <2>3. Got' = Got
    BY <1>inv, <1>7 DEF Got, CaptureOfStart, OnePreview, TypeOK, JoinPreview
  <2>4. UNCHANGED <<frameVars, hand, InCallback>>
    BY <1>inv, <1>7 DEF InCallback, HandMatches, StreamFollows, JoinPreview
  <2>5. Room' >= Room
    BY <1>inv, <1>7, PreviewAssumption DEF Room, Losable, TypeOK, OnePreview, JoinPreview
  <2>6. QED
    BY <1>inv, <2>1, <2>2, <2>3, <2>4, <2>5, FramesStay DEF Frames
<1>8. CASE StopClears
  <2>1. /\ pool' \in 0 .. FRAME_POOL_SZ /\ allocated' \in Nat
        /\ Out' = Out - (previewFrames + captureQueu)
    BY <1>inv, <1>nat, <1>each, <1>8, RecycleKeeps DEF StopClears
  <2>2. TypeOK'
    BY <1>inv, <2>1, <1>8, PreviewAssumption DEF TypeOK, StopClears
  <2>3. HandMatches'
    BY <1>inv, <1>8 DEF HandMatches, OnePreview, StopClears
  <2>4. Got' = Got
    BY <1>inv, <1>8 DEF Got, CaptureOfStart, OnePreview, TypeOK, StopClears
  <2>5. previewFrames' = 0 /\ captureQueu' = 0 /\ UNCHANGED <<hand, InCallback>>
    BY <1>inv, <1>8 DEF InCallback, HandMatches, StreamFollows, StopClears
  <2>6. Held' = Held - (previewFrames + captureQueu)
    BY <1>nat, <2>4, <2>5 DEF Held
  <2>7. Room' >= Room
    BY <1>inv, <1>8, PreviewAssumption DEF Room, Losable, TypeOK, OnePreview, StopClears
  <2>8. Lost' = Lost
    BY <1>out, <1>nat, <2>1, <2>6 DEF Lost
  <2>9. QED
    BY <1>inv, <2>2, <2>3, <2>7, <2>8, FramesMove DEF Frames
<1>9. CASE StopCapture
  <2>1. isCapturing' \in BOOLEAN
    BY <1>inv, <1>9, PreviewAssumption DEF TypeOK, Deaf, StopCapture
  <2>2. UNCHANGED <<streamVars, isRunning, starts, threadVars, frameVars, raced, stale>>
    BY <1>9 DEF StopCapture
  <2>3. TypeOK'
    BY <1>inv, <2>1, <2>2 DEF TypeOK
  <2>4. HandMatches'
    BY <1>inv, <1>9 DEF HandMatches, OnePreview, StopCapture
  <2>5. Got' = Got
    BY <1>inv, <1>9 DEF Got, CaptureOfStart, OnePreview, TypeOK, StopCapture
  <2>6. UNCHANGED <<frameVars, hand, InCallback>>
    BY <1>inv, <1>9 DEF InCallback, HandMatches, StreamFollows, StopCapture
  <2>7. Room' >= Room
    BY <1>inv, <1>9, PreviewAssumption DEF Room, Losable, TypeOK, OnePreview, StopCapture
  <2>8. QED
    BY <1>inv, <2>3, <2>4, <2>5, <2>6, <2>7, FramesStay DEF Frames
<1>10. CASE Call
  <2>1. TypeOK'
    BY <1>inv, <1>10, PreviewAssumption DEF TypeOK, Call
  <2>2. HandMatches'
    BY <1>inv, <1>10 DEF HandMatches, OnePreview, Call
  <2>3. Got' = Got
    BY <1>inv, <1>10 DEF Got, CaptureOfStart, OnePreview, TypeOK, Call
  <2>4. UNCHANGED <<frameVars, hand, InCallback>>
    BY <1>inv, <1>10 DEF InCallback, HandMatches, StreamFollows, Call
  <2>5. Room' >= Room
    BY <1>inv, <1>10, PreviewAssumption DEF Room, Losable, TypeOK, OnePreview, Call
  <2>6. QED
    BY <1>inv, <2>1, <2>2, <2>3, <2>4, <2>5, FramesStay DEF Frames
<1>11. CASE CallbackIgnores
  <2>1. callback' = "none" /\ calling' \in BOOLEAN
    BY <1>inv, <1>11, PreviewAssumption DEF TypeOK, Deaf, CallbackIgnores, CallbackReturns
  <2>2. UNCHANGED <<state, broken, flagVars, starts, client, preview, hand, capture,
                    captureThread, frameVars, raced, stale>>
    BY <1>11 DEF CallbackIgnores, CallbackReturns
  <2>3. TypeOK'
    BY <1>inv, <2>1, <2>2 DEF TypeOK
  <2>4. HandMatches'
    BY <1>inv, <1>11 DEF HandMatches, OnePreview, CallbackIgnores, CallbackReturns
  <2>5. Got' = Got
    BY <1>inv, <1>11 DEF Got, CaptureOfStart, OnePreview, TypeOK, CallbackIgnores, CallbackReturns
  <2>6. UNCHANGED <<frameVars, hand, InCallback>>
    BY <1>inv, <1>11 DEF InCallback, HandMatches, StreamFollows, CallbackIgnores, CallbackReturns
  <2>7. Room' >= Room
    BY <1>inv, <1>11, PreviewAssumption DEF Room, Losable, TypeOK, OnePreview, CallbackIgnores,
       CallbackReturns
  <2>8. QED
    BY <1>inv, <2>3, <2>4, <2>5, <2>6, <2>7, FramesStay DEF Frames
<1>12. CASE CallbackCopies
  <2>1. /\ pool' \in 0 .. FRAME_POOL_SZ /\ allocated' \in Nat
        /\ Out' = Out + 1
    BY <1>inv, <1>nat, <1>each, <1>12, GetFrameKeeps DEF CallbackCopies
  <2>2. TypeOK'
    BY <1>inv, <2>1, <1>12, PreviewAssumption DEF TypeOK, CallbackCopies
  <2>3. HandMatches'
    BY <1>inv, <1>12 DEF HandMatches, OnePreview, CallbackCopies
  <2>4. Got' = Got
    BY <1>inv, <1>12 DEF Got, CaptureOfStart, OnePreview, TypeOK, CallbackCopies
  <2>5. InCallback = 0 /\ InCallback' = 1 /\ UNCHANGED <<previewFrames, captureQueu, hand>>
    BY <1>inv, <1>12 DEF InCallback, HandMatches, StreamFollows, CallbackCopies
  <2>6. Held' = Held + 1
    BY <1>nat, <2>4, <2>5 DEF Held
  <2>7. Room' >= Room
    BY <1>inv, <1>12, PreviewAssumption DEF Room, Losable, TypeOK, OnePreview, CallbackCopies
  <2>8. Lost' = Lost
    BY <1>out, <1>nat, <2>1, <2>6 DEF Lost
  <2>9. QED
    BY <1>inv, <2>2, <2>3, <2>7, <2>8, FramesMove DEF Frames
<1>13. CASE AddPreviewFrame
  <2>1. CASE isRunning /\ previewFrames < MAX_FRAME
    <3>1. Out' = Out
      BY <1>13, <2>1 DEF AddPreviewFrame, CallbackReturns, SignalPreview, Out
    <3>2. calling' \in BOOLEAN
      BY <1>inv, <1>13, <2>1, PreviewAssumption DEF TypeOK, Deaf, AddPreviewFrame,
         CallbackReturns, SignalPreview
    <3>3. /\ callback' = "none" /\ previewFrames' \in 0 .. MAX_FRAME
          /\ preview' \in {preview, "woken"}
      BY <1>inv, <3>2, <1>13, <2>1, PreviewAssumption DEF TypeOK, Deaf, AddPreviewFrame,
         CallbackReturns, SignalPreview
    <3>4. UNCHANGED <<state, broken, flagVars, starts, client, hand, capture, captureThread,
                      allocated, pool, captureQueu, raced, stale>>
      BY <1>13, <2>1 DEF AddPreviewFrame, CallbackReturns, SignalPreview
    <3>5. TypeOK'
      BY <1>inv, <3>2, <3>3, <3>4 DEF TypeOK
    <3>6. HandMatches'
      BY <1>inv, <1>13, <2>1 DEF HandMatches, OnePreview, AddPreviewFrame, CallbackReturns,
         SignalPreview
    <3>7. Got' = Got
      BY <1>inv, <1>13, <2>1 DEF Got, CaptureOfStart, OnePreview, TypeOK, AddPreviewFrame,
         CallbackReturns, SignalPreview
    <3>8. /\ InCallback = 1 /\ InCallback' = 0 /\ previewFrames' = previewFrames + 1
          /\ UNCHANGED <<captureQueu, hand>>
      BY <1>inv, <1>13, <2>1 DEF InCallback, HandMatches, StreamFollows, AddPreviewFrame,
         CallbackReturns, SignalPreview
    <3>9. Held' = Held
      BY <1>nat, <3>7, <3>8 DEF Held
    <3>10. Room' >= Room
      BY <1>inv, <1>13, <2>1, PreviewAssumption DEF Room, Losable, TypeOK, OnePreview,
         AddPreviewFrame, CallbackReturns, SignalPreview
    <3>11. Lost' = Lost
      BY <1>out, <1>nat, <3>1, <3>9 DEF Lost
    <3>12. QED
      BY <1>inv, <3>5, <3>6, <3>10, <3>11, FramesMove DEF Frames
  <2>2. CASE ~(isRunning /\ previewFrames < MAX_FRAME)
    <3>1. TypeOK'
      BY <1>inv, <1>13, <2>2, PreviewAssumption DEF TypeOK, AddPreviewFrame
    <3>2. HandMatches'
      BY <1>inv, <1>13, <2>2 DEF HandMatches, OnePreview, AddPreviewFrame
    <3>3. Got' = Got
      BY <1>inv, <1>13, <2>2 DEF Got, CaptureOfStart, OnePreview, TypeOK, AddPreviewFrame
    <3>4. UNCHANGED <<frameVars, hand, InCallback>>
      BY <1>inv, <1>13, <2>2 DEF InCallback, HandMatches, StreamFollows, AddPreviewFrame
    <3>5. Room' >= Room
      BY <1>inv, <1>13, <2>2, PreviewAssumption DEF Room, Losable, TypeOK, OnePreview,
         AddPreviewFrame
    <3>6. QED
      BY <1>inv, <3>1, <3>2, <3>3, <3>4, <3>5, FramesStay DEF Frames
  <2>3. QED
    BY <2>1, <2>2
<1>14. CASE CallbackRecycles
  <2>1. /\ pool' \in 0 .. FRAME_POOL_SZ /\ allocated' \in Nat
        /\ Out' = Out - 1
    BY <1>inv, <1>nat, <1>each, <1>14, RecycleKeeps DEF CallbackRecycles, InCallback
  <2>2. callback' = "none" /\ calling' \in BOOLEAN
    BY <1>inv, <2>1, <1>14, PreviewAssumption DEF TypeOK, Deaf, CallbackRecycles, CallbackReturns
  <2>3. UNCHANGED <<state, broken, flagVars, starts, client, preview, hand, capture,
                    captureThread, previewFrames, captureQueu, raced, stale>>
    BY <1>14 DEF CallbackRecycles, CallbackReturns
  <2>4. TypeOK'
    BY <1>inv, <2>1, <2>2, <2>3 DEF TypeOK
  <2>5. HandMatches'
    BY <1>inv, <1>14 DEF HandMatches, OnePreview, CallbackRecycles, CallbackReturns
  <2>6. Got' = Got
    BY <1>inv, <1>14 DEF Got, CaptureOfStart, OnePreview, TypeOK, CallbackRecycles,
       CallbackReturns
  <2>7. InCallback = 1 /\ InCallback' = 0 /\ UNCHANGED <<previewFrames, captureQueu, hand>>
    BY <1>inv, <1>14 DEF InCallback, HandMatches, StreamFollows, CallbackRecycles, CallbackReturns
  <2>8. Held' = Held - 1
    BY <1>nat, <2>6, <2>7 DEF Held
  <2>9. Room' >= Room
    BY <1>inv, <1>14, PreviewAssumption DEF Room, Losable, TypeOK, OnePreview, CallbackRecycles,
       CallbackReturns
  <2>10. Lost' = Lost
    BY <1>out, <1>nat, <2>1, <2>8 DEF Lost
  <2>11. QED
    BY <1>inv, <2>4, <2>5, <2>9, <2>10, FramesMove DEF Frames
<1>15. CASE PreviewControls
  <2>1. /\ state' \in {"idle", "streaming", "stopping"}
        /\ broken' \in BOOLEAN /\ calling' \in BOOLEAN
        /\ preview' \in {"opening", "ended", "opened", "stop", "stopping"}
        /\ capture' \in [Starts -> {"none", "clear", "top", "test", "enter", "waiting", "woken",
                                   "got", "ended"}]
    BY <1>inv, <1>15, PreviewAssumption DEF TypeOK, Deaf, PreviewControls, SignalCapture,
       WakeCapture, Waiting
  <2>2. UNCHANGED <<flagVars, starts, client, hand, captureThread, callback, frameVars, raced,
                    stale>>
    BY <1>15 DEF PreviewControls, SignalCapture, WakeCapture, Waiting
  <2>3. TypeOK'
    BY <1>inv, <2>1, <2>2 DEF TypeOK
  <2>4. HandMatches'
    BY <1>inv, <1>15 DEF HandMatches, OnePreview, PreviewControls, SignalCapture, WakeCapture,
       Waiting
  <2>5. Got' = Got
    BY <1>inv, <1>15 DEF Got, CaptureOfStart, OnePreview, TypeOK, PreviewControls,
       SignalCapture, WakeCapture, Waiting
  <2>6. UNCHANGED <<frameVars, hand, InCallback>>
    BY <1>inv, <1>15 DEF InCallback, HandMatches, StreamFollows, PreviewControls, SignalCapture,
       WakeCapture, Waiting
  <2>7. Room' >= Room
    BY <1>inv, <1>15, PreviewAssumption DEF Room, Losable, TypeOK, OnePreview, PreviewControls,
       SignalCapture, WakeCapture, Waiting
  <2>8. QED
    BY <1>inv, <2>3, <2>4, <2>5, <2>6, <2>7, FramesStay DEF Frames
<1>16. CASE StreamStops
  <2>1. TypeOK'
    BY <1>inv, <1>16, PreviewAssumption DEF TypeOK, StreamStops
  <2>2. HandMatches'
    BY <1>inv, <1>16 DEF HandMatches, OnePreview, StreamStops
  <2>3. Got' = Got
    BY <1>inv, <1>16 DEF Got, CaptureOfStart, OnePreview, TypeOK, StreamStops
  <2>4. UNCHANGED <<frameVars, hand, InCallback>>
    BY <1>inv, <1>16 DEF InCallback, HandMatches, StreamFollows, StreamStops
  <2>5. Room' >= Room
    BY <1>inv, <1>16, PreviewAssumption DEF Room, Losable, TypeOK, OnePreview, StreamStops
  <2>6. QED
    BY <1>inv, <2>1, <2>2, <2>3, <2>4, <2>5, FramesStay DEF Frames
<1>17. CASE CreateCapture
  <2>1. /\ pool' \in 0 .. FRAME_POOL_SZ /\ allocated' \in Nat
        /\ Out' = Out - previewFrames
    BY <1>inv, <1>nat, <1>each, <1>17, RecycleKeeps DEF CreateCapture, ClearPreviewFrame
  <2>2. captureThread' \in 0 .. MaxStarts
    BY <1>inv, <2>1, <1>17, PreviewAssumption DEF TypeOK, Deaf, CreateCapture, ClearPreviewFrame
  <2>3. previewFrames' \in 0 .. MAX_FRAME /\ preview' = "loop"
    BY <1>inv, <2>1, <2>2, <1>17, PreviewAssumption DEF TypeOK, Deaf, CreateCapture,
       ClearPreviewFrame
  <2>4. capture' \in [Starts -> {"none", "clear", "top", "test", "enter", "waiting", "woken",
     "got", "ended"}]
    BY <1>inv, <2>1, <2>2, <2>3, <1>17, PreviewAssumption DEF TypeOK, Deaf, CreateCapture,
       ClearPreviewFrame
  <2>5. UNCHANGED <<streamVars, flagVars, starts, client, hand, callback, captureQueu, raced,
                    stale>>
    BY <1>17 DEF CreateCapture, ClearPreviewFrame
  <2>6. TypeOK'
    BY <1>inv, <2>1, <2>2, <2>3, <2>4, <2>5 DEF TypeOK
  <2>7. HandMatches'
    BY <1>inv, <1>17 DEF HandMatches, OnePreview, CreateCapture, ClearPreviewFrame
  <2>8. Got' = Got
    BY <1>inv, <1>17 DEF Got, CaptureOfStart, OnePreview, TypeOK, CreateCapture, ClearPreviewFrame
  <2>9. previewFrames' = 0 /\ UNCHANGED <<captureQueu, hand, InCallback>>
    BY <1>inv, <1>17 DEF InCallback, HandMatches, StreamFollows, CreateCapture, ClearPreviewFrame
  <2>10. Held' = Held - previewFrames
    BY <1>nat, <2>8, <2>9 DEF Held
  <2>11. Room' >= Room
    BY <1>inv, <1>17, PreviewAssumption DEF Room, Losable, TypeOK, OnePreview, CreateCapture,
       ClearPreviewFrame
  <2>12. Lost' = Lost
    BY <1>out, <1>nat, <2>1, <2>10 DEF Lost
  <2>13. QED
    BY <1>inv, <2>6, <2>7, <2>11, <2>12, FramesMove DEF Frames
<1>18. CASE Loop
  <2>1. TypeOK'
    BY <1>inv, <1>18, PreviewAssumption DEF TypeOK, Loop
  <2>2. HandMatches'
    BY <1>inv, <1>18 DEF HandMatches, OnePreview, Loop
  <2>3. Got' = Got
    BY <1>inv, <1>18 DEF Got, CaptureOfStart, OnePreview, TypeOK, Loop
  <2>4. UNCHANGED <<frameVars, hand, InCallback>>
    BY <1>inv, <1>18 DEF InCallback, HandMatches, StreamFollows, Loop
  <2>5. Room' >= Room
    BY <1>inv, <1>18, PreviewAssumption DEF Room, Losable, TypeOK, OnePreview, Loop
  <2>6. QED
    BY <1>inv, <2>1, <2>2, <2>3, <2>4, <2>5, FramesStay DEF Frames
<1>19. CASE WaitPreviewFrame
  <2>1. CASE preview' = "got"
    <3>1. Out' = Out
      BY <1>19, <2>1 DEF WaitPreviewFrame, Out
    <3>2. TypeOK'
      BY <1>inv, <1>19, <2>1, PreviewAssumption DEF TypeOK, WaitPreviewFrame
    <3>3. HandMatches'
      BY <1>inv, <1>19, <2>1 DEF HandMatches, OnePreview, WaitPreviewFrame
    <3>4. Got' = Got
      BY <1>inv, <1>19, <2>1 DEF Got, CaptureOfStart, OnePreview, TypeOK, WaitPreviewFrame
    <3>5. /\ previewFrames > 0 /\ previewFrames' = previewFrames - 1
          /\ hand = 0 /\ hand' = 1 /\ UNCHANGED <<captureQueu, InCallback>>
      BY <1>inv, <1>19, <2>1 DEF InCallback, HandMatches, StreamFollows, WaitPreviewFrame
    <3>6. Held' = Held
      BY <1>nat, <3>4, <3>5 DEF Held
    <3>7. Room' >= Room
      BY <1>inv, <1>19, <2>1, PreviewAssumption DEF Room, Losable, TypeOK, OnePreview,
         WaitPreviewFrame
    <3>8. Lost' = Lost
      BY <1>out, <1>nat, <3>1, <3>6 DEF Lost
    <3>9. QED
      BY <1>inv, <3>2, <3>3, <3>7, <3>8, FramesMove DEF Frames
  <2>2. CASE preview' # "got"
    <3>1. TypeOK'
      BY <1>inv, <1>19, <2>2, PreviewAssumption DEF TypeOK, WaitPreviewFrame
    <3>2. HandMatches'
      BY <1>inv, <1>19, <2>2 DEF HandMatches, OnePreview, WaitPreviewFrame
    <3>3. Got' = Got
      BY <1>inv, <1>19, <2>2 DEF Got, CaptureOfStart, OnePreview, TypeOK, WaitPreviewFrame
    <3>4. UNCHANGED <<frameVars, hand, InCallback>>
      BY <1>inv, <1>19, <2>2 DEF InCallback, HandMatches, StreamFollows, WaitPreviewFrame
    <3>5. Room' >= Room
      BY <1>inv, <1>19, <2>2, PreviewAssumption DEF Room, Losable, TypeOK, OnePreview,
         WaitPreviewFrame
    <3>6. QED
      BY <1>inv, <3>1, <3>2, <3>3, <3>4, <3>5, FramesStay DEF Frames
  <2>3. QED
    BY <2>1, <2>2
<1>20. CASE Decode
  <2>1. CASE preview = "got" /\ preview' = "decoding"
    <3>1. /\ pool' \in 0 .. FRAME_POOL_SZ /\ allocated' \in Nat
          /\ Out' = Out + 1
      BY <1>inv, <1>nat, <1>each, <1>20, <2>1, GetFrameKeeps DEF Decode
    <3>2. TypeOK'
      BY <1>inv, <3>1, <1>20, <2>1, PreviewAssumption DEF TypeOK, Decode
    <3>3. HandMatches'
      BY <1>inv, <1>20, <2>1 DEF HandMatches, OnePreview, Decode
    <3>4. Got' = Got
      BY <1>inv, <1>20, <2>1 DEF Got, CaptureOfStart, OnePreview, TypeOK, Decode
    <3>5. hand = 1 /\ hand' = 2 /\ UNCHANGED <<previewFrames, captureQueu, InCallback>>
      BY <1>inv, <1>20, <2>1 DEF InCallback, HandMatches, StreamFollows, Decode
    <3>6. Held' = Held + 1
      BY <1>nat, <3>4, <3>5 DEF Held
    <3>7. Room' >= Room
      BY <1>inv, <1>20, <2>1, PreviewAssumption DEF Room, Losable, TypeOK, OnePreview, Decode
    <3>8. Lost' = Lost
      BY <1>out, <1>nat, <3>1, <3>6 DEF Lost
    <3>9. QED
      BY <1>inv, <3>2, <3>3, <3>7, <3>8, FramesMove DEF Frames
  <2>2. CASE preview \in {"decoding", "decoded"} /\ preview' # "drawn"
    <3>a. 1 <= Out
      BY <1>inv, <1>nat, <1>out, <1>each, <2>2 DEF HandMatches
    <3>1. /\ pool' \in 0 .. FRAME_POOL_SZ /\ allocated' \in Nat
          /\ Out' = Out - 1
      BY <1>inv, <1>nat, <3>a, <1>20, <2>2, RecycleKeeps DEF Decode, HandMatches
    <3>2. TypeOK'
      BY <1>inv, <3>1, <1>20, <2>2, PreviewAssumption DEF TypeOK, Decode
    <3>3. HandMatches'
      BY <1>inv, <1>20, <2>2 DEF HandMatches, OnePreview, Decode
    <3>4. Got' = Got
      BY <1>inv, <1>20, <2>2 DEF Got, CaptureOfStart, OnePreview, TypeOK, Decode
    <3>5. hand >= 1 /\ hand' = hand - 1 /\ UNCHANGED <<previewFrames, captureQueu, InCallback>>
      BY <1>inv, <1>20, <2>2 DEF InCallback, HandMatches, StreamFollows, Decode
    <3>6. Held' = Held - 1
      BY <1>nat, <3>4, <3>5 DEF Held
    <3>7. Room' >= Room
      BY <1>inv, <1>20, <2>2, PreviewAssumption DEF Room, Losable, TypeOK, OnePreview, Decode
    <3>8. Lost' = Lost
      BY <1>out, <1>nat, <3>1, <3>6 DEF Lost
    <3>9. QED
      BY <1>inv, <3>2, <3>3, <3>7, <3>8, FramesMove DEF Frames
  <2>3. CASE preview \in {"got", "decoded"} /\ preview' = "drawn"
    <3>1. /\ pool' \in 0 .. FRAME_POOL_SZ /\ allocated' \in Nat
          /\ Out' = Out
      BY <1>inv, <1>nat, <1>each, <1>20, <2>3, BorrowFrameKeeps DEF Decode
    <3>2. TypeOK'
      BY <1>inv, <3>1, <1>20, <2>3, PreviewAssumption DEF TypeOK, Decode
    <3>3. HandMatches'
      BY <1>inv, <1>20, <2>3 DEF HandMatches, OnePreview, Decode
    <3>4. Got' = Got
      BY <1>inv, <1>20, <2>3 DEF Got, CaptureOfStart, OnePreview, TypeOK, Decode
    <3>5. UNCHANGED <<previewFrames, captureQueu, hand, InCallback>>
      BY <1>inv, <1>20, <2>3 DEF InCallback, HandMatches, StreamFollows, Decode
    <3>6. Held' = Held
      BY <1>nat, <3>4, <3>5 DEF Held
    <3>7. Room' >= Room
      BY <1>inv, <1>20, <2>3, PreviewAssumption DEF Room, Losable, TypeOK, OnePreview, Decode
    <3>8. Lost' = Lost
      BY <1>out, <1>nat, <3>1, <3>6 DEF Lost
    <3>9. QED
      BY <1>inv, <3>2, <3>3, <3>7, <3>8, FramesMove DEF Frames
  <2>4. QED
    BY <1>20, <2>1, <2>2, <2>3 DEF Decode
<1>21. CASE AddCaptureFrame
  <2>1. CASE isRunning
    <3>1. /\ pool' \in 0 .. FRAME_POOL_SZ /\ allocated' \in Nat
          /\ Out' = Out - captureQueu
      BY <1>inv, <1>nat, <1>each, <1>21, <2>1, RecycleKeeps DEF AddCaptureFrame
    <3>2. TypeOK'
      BY <1>inv, <3>1, <1>21, <2>1, PreviewAssumption DEF TypeOK, AddCaptureFrame, WakeCapture,
         Waiting
    <3>3. HandMatches'
      BY <1>inv, <1>21, <2>1 DEF HandMatches, OnePreview, AddCaptureFrame, WakeCapture, Waiting
    <3>4. Got' = Got
      BY <1>inv, <1>21, <2>1 DEF Got, CaptureOfStart, OnePreview, TypeOK, AddCaptureFrame,
         WakeCapture, Waiting
    <3>5. /\ hand = 1 /\ hand' = 0 /\ captureQueu' = 1
          /\ UNCHANGED <<previewFrames, InCallback>>
      BY <1>inv, <1>21, <2>1 DEF InCallback, HandMatches, StreamFollows, AddCaptureFrame,
         WakeCapture, Waiting
    <3>6. Held' = Held - captureQueu
      BY <1>nat, <3>4, <3>5 DEF Held
    <3>7. Room' >= Room
      BY <1>inv, <1>21, <2>1, PreviewAssumption DEF Room, Losable, TypeOK, OnePreview,
         AddCaptureFrame, WakeCapture, Waiting
    <3>8. Lost' = Lost
      BY <1>out, <1>nat, <3>1, <3>6 DEF Lost
    <3>9. QED
      BY <1>inv, <3>2, <3>3, <3>7, <3>8, FramesMove DEF Frames
  <2>2. CASE ~isRunning
    <3>1. Out' = Out
      BY <1>21, <2>2 DEF AddCaptureFrame, Out
    <3>2. TypeOK'
      BY <1>inv, <1>21, <2>2, PreviewAssumption DEF TypeOK, AddCaptureFrame
    <3>3. HandMatches'
      BY <1>inv, <1>21, <2>2 DEF HandMatches, OnePreview, AddCaptureFrame
    <3>4. Got' = Got
      BY <1>inv, <1>21, <2>2 DEF Got, CaptureOfStart, OnePreview, TypeOK, AddCaptureFrame
    <3>5. hand = 1 /\ hand' = 0 /\ UNCHANGED <<previewFrames, captureQueu, InCallback>>
      BY <1>inv, <1>21, <2>2 DEF InCallback, HandMatches, StreamFollows, AddCaptureFrame
    <3>6. Held' = Held - 1
      BY <1>nat, <3>4, <3>5 DEF Held
    <3>7. Room' = Room + 1
      BY <1>inv, <1>21, <2>2, PreviewAssumption DEF Room, Losable, TypeOK, AddCaptureFrame
    <3>8. Lost' = Lost + 1
      BY <1>out, <3>1, <3>6 DEF Lost
    <3>9. QED
      BY <1>inv, <3>2, <3>3, <3>7, <3>8, FramesMove DEF Frames
  <2>3. QED
    BY <2>1, <2>2
<1>22. ASSUME NEW s \in Starts, CaptureControls(s)
      PROVE  Frames'
  <2>1. TypeOK'
    BY <1>inv, <1>22, PreviewAssumption DEF TypeOK, CaptureControls, CaptureAt, Waiting
  <2>2. HandMatches'
    BY <1>inv, <1>22 DEF HandMatches, OnePreview, CaptureControls, CaptureAt, Waiting
  <2>3. Got' = Got
    BY <1>inv, <1>22 DEF Got, CaptureOfStart, OnePreview, TypeOK, CaptureControls, CaptureAt,
       Waiting
  <2>4. UNCHANGED <<frameVars, hand, InCallback>>
    BY <1>inv, <1>22 DEF InCallback, HandMatches, StreamFollows, CaptureControls, CaptureAt,
       Waiting
  <2>5. Room' >= Room
    BY <1>inv, <1>22, PreviewAssumption DEF Room, Losable, TypeOK, OnePreview, CaptureControls,
       CaptureAt, Waiting
  <2>6. QED
    BY <1>inv, <2>1, <2>2, <2>3, <2>4, <2>5, FramesStay DEF Frames
<1>23. ASSUME NEW s \in Starts, WaitCaptureFrame(s)
      PROVE  Frames'
  <2>1. CASE UNCHANGED captureQueu
    <3>1. TypeOK'
      BY <1>inv, <1>23, <2>1, PreviewAssumption DEF TypeOK, WaitCaptureFrame, CaptureAt
    <3>2. HandMatches'
      BY <1>inv, <1>23, <2>1 DEF HandMatches, OnePreview, WaitCaptureFrame, CaptureAt
    <3>3. Got' = Got
      BY <1>inv, <1>23, <2>1 DEF Got, CaptureOfStart, OnePreview, TypeOK, WaitCaptureFrame,
         CaptureAt
    <3>4. UNCHANGED <<frameVars, hand, InCallback>>
      BY <1>inv, <1>23, <2>1 DEF InCallback, HandMatches, StreamFollows, WaitCaptureFrame,
         CaptureAt
    <3>5. Room' >= Room
      BY <1>inv, <1>23, <2>1, PreviewAssumption DEF Room, Losable, TypeOK, OnePreview,
         WaitCaptureFrame, CaptureAt
    <3>6. QED
      BY <1>inv, <3>1, <3>2, <3>3, <3>4, <3>5, FramesStay DEF Frames
  <2>2. CASE captureQueu' # captureQueu
    <3>a. /\ capture[s] # "got" /\ capture' = [capture EXCEPT ![s] = "got"]
          /\ captureQueu = 1 /\ captureQueu' = 0
      BY <1>23, <2>2 DEF WaitCaptureFrame
    <3>b. s \in Starts \ Got /\ Got' = Got \cup {s}
      BY <3>a, <1>inv DEF Got, TypeOK
    <3>c. Cardinality(Got') = Cardinality(Got) + 1
      BY <3>b, GotCounted
    <3>1. Out' = Out
      BY <1>23, <2>2 DEF WaitCaptureFrame, CaptureAt, Out
    <3>2. TypeOK'
      BY <1>inv, <1>23, <2>2, PreviewAssumption DEF TypeOK, WaitCaptureFrame, CaptureAt
    <3>3. HandMatches'
      BY <1>inv, <1>23, <2>2 DEF HandMatches, OnePreview, WaitCaptureFrame, CaptureAt
    <3>4. /\ captureQueu = 1 /\ captureQueu' = 0
          /\ UNCHANGED <<previewFrames, hand, InCallback>>
      BY <1>inv, <1>23, <2>2 DEF InCallback, HandMatches, StreamFollows, WaitCaptureFrame,
         CaptureAt
    <3>5. Held' = Held
      BY <1>nat, <3>c, <3>4 DEF Held
    <3>6. Room' >= Room
      BY <1>inv, <1>23, <2>2, PreviewAssumption DEF Room, Losable, TypeOK, OnePreview,
         WaitCaptureFrame, CaptureAt
    <3>7. Lost' = Lost
      BY <1>out, <1>nat, <3>1, <3>5 DEF Lost
    <3>8. QED
      BY <1>inv, <3>2, <3>3, <3>6, <3>7, FramesMove DEF Frames
  <2>3. QED
    BY <2>1, <2>2
<1>24. ASSUME NEW s \in Starts, CaptureRecycles(s)
      PROVE  Frames'
  <2>1. CASE capture[s] = "clear"
    <3>1. /\ pool' \in 0 .. FRAME_POOL_SZ /\ allocated' \in Nat
          /\ Out' = Out - captureQueu
      BY <1>inv, <1>nat, <1>each, <1>24, <2>1, RecycleKeeps DEF CaptureRecycles, CaptureAt,
         ClearCaptureFrame
    <3>2. TypeOK'
      BY <1>inv, <3>1, <1>24, <2>1, PreviewAssumption DEF TypeOK, CaptureRecycles, CaptureAt,
         ClearCaptureFrame
    <3>3. HandMatches'
      BY <1>inv, <1>24, <2>1 DEF HandMatches, OnePreview, CaptureRecycles, CaptureAt,
         ClearCaptureFrame
    <3>4. Got' = Got
      BY <1>inv, <1>24, <2>1 DEF Got, CaptureOfStart, OnePreview, TypeOK, CaptureRecycles,
         CaptureAt, ClearCaptureFrame
    <3>5. captureQueu' = 0 /\ UNCHANGED <<previewFrames, hand, InCallback>>
      BY <1>inv, <1>24, <2>1 DEF InCallback, HandMatches, StreamFollows, CaptureRecycles,
         CaptureAt, ClearCaptureFrame
    <3>6. Held' = Held - captureQueu
      BY <1>nat, <3>4, <3>5 DEF Held
    <3>7. Room' >= Room
      BY <1>inv, <1>24, <2>1, PreviewAssumption DEF Room, Losable, TypeOK, OnePreview,
         CaptureRecycles, CaptureAt, ClearCaptureFrame
    <3>8. Lost' = Lost
      BY <1>out, <1>nat, <3>1, <3>6 DEF Lost
    <3>9. QED
      BY <1>inv, <3>2, <3>3, <3>7, <3>8, FramesMove DEF Frames
  <2>2. CASE capture[s] = "got"
    <3>a. s \in Got /\ Got' = Got \ {s}
      BY <1>24, <2>2, <1>inv DEF CaptureRecycles, CaptureAt, Got, TypeOK
    <3>b. Cardinality(Got') = Cardinality(Got) - 1 /\ Cardinality(Got) >= 1
      BY <3>a, GotCounted, GotRest
    <3>1. /\ pool' \in 0 .. FRAME_POOL_SZ /\ allocated' \in Nat
          /\ Out' = Out - 1
      BY <1>inv, <1>nat, <1>each, <1>24, <2>2, <3>b, <1>out, RecycleKeeps
         DEF CaptureRecycles, CaptureAt
    <3>2. TypeOK'
      BY <1>inv, <3>1, <1>24, <2>2, PreviewAssumption DEF TypeOK, CaptureRecycles, CaptureAt
    <3>3. HandMatches'
      BY <1>inv, <1>24, <2>2 DEF HandMatches, OnePreview, CaptureRecycles, CaptureAt
    <3>4. UNCHANGED <<previewFrames, captureQueu, hand, InCallback>>
      BY <1>inv, <1>24, <2>2 DEF InCallback, HandMatches, StreamFollows, CaptureRecycles,
         CaptureAt
    <3>5. Held' = Held - 1
      BY <1>nat, <3>b, <3>4 DEF Held
    <3>6. Room' >= Room
      BY <1>inv, <1>24, <2>2, PreviewAssumption DEF Room, Losable, TypeOK, OnePreview,
         CaptureRecycles, CaptureAt
    <3>7. Lost' = Lost
      BY <1>out, <1>nat, <3>1, <3>5 DEF Lost
    <3>8. QED
      BY <1>inv, <3>2, <3>3, <3>6, <3>7, FramesMove DEF Frames
  <2>3. QED
    BY <1>24, <2>1, <2>2 DEF CaptureRecycles, CaptureAt
<1>25. CASE StreamBreaks
  <2>1. TypeOK'
    BY <1>inv, <1>25, PreviewAssumption DEF TypeOK, StreamBreaks
  <2>2. HandMatches'
    BY <1>inv, <1>25 DEF HandMatches, OnePreview, StreamBreaks
  <2>3. Got' = Got
    BY <1>inv, <1>25 DEF Got, CaptureOfStart, OnePreview, TypeOK, StreamBreaks
  <2>4. UNCHANGED <<frameVars, hand, InCallback>>
    BY <1>inv, <1>25 DEF InCallback, HandMatches, StreamFollows, StreamBreaks
  <2>5. Room' >= Room
    BY <1>inv, <1>25, PreviewAssumption DEF Room, Losable, TypeOK, OnePreview, StreamBreaks
  <2>6. QED
    BY <1>inv, <2>1, <2>2, <2>3, <2>4, <2>5, FramesStay DEF Frames
<1>26. CASE UNCHANGED vars
  <2>1. TypeOK'
    BY <1>inv, <1>26, PreviewAssumption DEF TypeOK, vars
  <2>2. HandMatches'
    BY <1>inv, <1>26 DEF HandMatches, OnePreview, vars
  <2>3. Got' = Got
    BY <1>inv, <1>26 DEF Got, CaptureOfStart, OnePreview, TypeOK, vars
  <2>4. UNCHANGED <<frameVars, hand, InCallback>>
    BY <1>inv, <1>26 DEF InCallback, HandMatches, StreamFollows, vars
  <2>5. Room' >= Room
    BY <1>inv, <1>26, PreviewAssumption DEF Room, Losable, TypeOK, OnePreview, vars
  <2>6. QED
    BY <1>inv, <2>1, <2>2, <2>3, <2>4, <2>5, FramesStay DEF Frames
<1>27. QED
  BY <1>1, <1>2, <1>3, <1>4, <1>5, <1>6, <1>7, <1>8, <1>9, <1>10, <1>11, <1>12, <1>13, <1>14,
     <1>15, <1>16, <1>17, <1>18, <1>19, <1>20, <1>21, <1>22, <1>23, <1>24, <1>25, <1>26
  DEF Next, StopStep, CallbackStep, PreviewStep, CaptureStep
-------------------------------------------------------------------------------
LEMMA NextIInv == IInv /\ [Next]_vars => IInv'
BY NextControl, NextFrames DEF IInv, Control, Frames

\* Type correctness of the preview.
THEOREM TypeCorrect == Spec => []TypeOK
<1>1. IInv => TypeOK
  BY DEF IInv
<1>2. QED
  BY InitIInv, NextIInv, <1>1, PTL DEF Spec

\* No frame is lost or given back twice, but for one frame of each start, which
\* addCaptureFrame drops when the preview has been stopped meanwhile.
THEOREM FramesKept == Spec => []FramesAreKept
<1>1. IInv => FramesAreKept
  BY DEF IInv
<1>2. QED
  BY InitIInv, NextIInv, <1>1, PTL DEF Spec

\* stopPreview wakes both of its threads, unless one stood between its test of
\* mIsRunning and its wait.
THEOREM StopsWake == Spec => []StopWakes
<1>1. IInv => StopWakes
  BY DEF IInv
<1>2. QED
  BY InitIInv, NextIInv, <1>1, PTL DEF Spec

\* stopPreview returns when its threads and the stream's callback have ended.
THEOREM StopsJoin == Spec => []StopJoins
<1>1. ASSUME IInv, client = "clear", ~stale
      PROVE  /\ preview = "none" /\ \A s \in Starts : capture[s] \in {"none", "ended"}
             /\ callback = "none" \/ broken
  <2>1. preview = "none" /\ captureThread = 0
    BY <1>1 DEF IInv, OnePreview, OneCapture
  <2>2. \A s \in Starts : capture[s] \in {"none", "ended"}
    BY <1>1, <2>1, PreviewAssumption DEF IInv, OneCapture, Starts
  <2>3. callback = "none" \/ broken
    BY <1>1, <2>1 DEF IInv, StreamFollows
  <2>4. QED
    BY <2>1, <2>2, <2>3
<1>2. IInv => StopJoins
  BY <1>1 DEF StopJoins
<1>3. QED
  BY InitIInv, NextIInv, <1>2, PTL DEF Spec
===============================================================================
