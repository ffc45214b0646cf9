----------------------------- MODULE UvcRecorder -----------------------------
(***************************************************************************)
(* Recording from one USB camera: UvcDevice, the handler and camera thread *)
(* of AbstractUVCCameraHandler, and the encoder threads of MediaEncoder.   *)
(* The UI thread calls UvcDevice (new files, the file check, a detached    *)
(* camera); it sends messages to the camera thread, which starts and stops *)
(* encoders; a stopping encoder calls back onStopRecording, which starts   *)
(* the next file.  mFile, mFileLast and mUvcOutputFile are plain fields    *)
(* that the three kinds of threads read and write.                         *)
(*                                                                         *)
(* A completed file is announced to the camera thread a second later; what *)
(* that does once the activity has been destroyed (it closes the camera and *)
(* ends the thread) is not modelled.                                       *)
(*                                                                         *)
(* Files and Encoders are names: a name that nothing refers to any more is *)
(* used again, for the next file or encoder thread.                        *)
(***************************************************************************)
EXTENDS Integers, Sequences, FiniteSets, SequencesExt

CONSTANTS
  Files,        \* bound: recording files the state can refer to
  Encoders,     \* bound: encoder threads alive at the same time
  None,         \* null
  MaxInbox,     \* bound: messages waiting for the camera thread
  MaxDetach     \* bound: times the camera is unplugged

ASSUME ConstantsAssumption ==
  /\ None \notin Files \cup Encoders
  /\ MaxInbox \in Nat
  /\ MaxDetach \in Nat

VARIABLES
  plugged,      \* the camera is on the USB bus
  counted,      \* USBMonitor has counted the device (mDeviceCounts)
  detaches,     \* counts detaches, for the bound
  linkPc,       \* the thread of USBMonitor in onConnect
  valid,        \* mCtrlBlock belongs to the present connection
  callback,     \* cameraHandlerCallback is registered
  begun,        \* the activity has started the recording
  usb,          \* the activity knows the camera as a USB camera (mModeCam)
  ended,        \* the activity has stopped the recording
  ready,        \* a broadcast uvcCameraReady is on its way
  reopen,       \* the 500 ms timer that opens the camera again
  file,         \* mFile
  fileLast,     \* mFileLast
  outFile,      \* mUvcOutputFile
  checking,     \* fileCheckRunner is posted
  checkFile,    \* mFileCheckFile
  written,      \* the files that have grown since the last file check
  uiPc,         \* the UI thread
  task,         \* why it stops the recording
  inbox,        \* messages of the camera thread
  camPc,        \* the camera thread
  camera,       \* mUVCCamera # null
  previewing,   \* mIsPreviewing
  muxer,        \* the encoder of mMuxer
  fresh,        \* the encoder the camera thread is starting or stopping
  viewEncoder,  \* the encoder that gets the frames of the camera view
  encPc,        \* the encoder threads
  encFile,      \* the file each of them writes
  stop,         \* mRequestStop
  frame,        \* mRequestDrain > 0
  name,         \* how each file is called
  finished      \* the files whose muxer has been stopped

usbVars == <<plugged, counted, detaches, linkPc, valid, callback>>
activityVars == <<begun, usb, ended, ready, reopen>>
fileVars == <<file, fileLast>>
checkVars == <<checking, checkFile>>
uiVars == <<uiPc, task>>
cameraVars == <<camPc, camera, previewing, muxer, fresh>>
encoderVars == <<encPc, encFile, stop, frame>>
diskVars == <<name, finished>>
vars == <<usbVars, activityVars, fileVars, outFile, checkVars, written, uiVars, inbox,
          cameraVars, viewEncoder, encoderVars, diskVars>>

Messages == {"OPEN", "CLOSE", "PREVIEW_START", "PREVIEW_STOP", "START", "STOP"}
UiLabels == {"idle", "test", "begin", "halt", "closing", "stopPreview", "stopAgain", "preview",
             "wait"}
CamLabels == {"idle", "view", "ask", "close", "lost", "preparing", "starting"}
EncLabels == {"free", "read", "window", "wait", "lost", "failed", "stopped", "sleep", "send",
              "rename", "finish"}

TypeOK ==
  /\ plugged \in BOOLEAN /\ counted \in BOOLEAN /\ detaches \in 0 .. MaxDetach
  /\ linkPc \in {"idle", "register"} /\ valid \in BOOLEAN /\ callback \in BOOLEAN
  /\ begun \in BOOLEAN /\ usb \in BOOLEAN
  /\ ended \in BOOLEAN /\ ready \in BOOLEAN /\ reopen \in BOOLEAN
  /\ file \in Files \cup {None} /\ fileLast \in Files \cup {None} /\ outFile \in Files \cup {None}
  /\ checking \in BOOLEAN /\ checkFile \in Files \cup {None} /\ written \subseteq Files
  /\ uiPc \in UiLabels /\ task \in {"set", "check", "recover", "drop"}
  /\ inbox \in Seq(Messages)
  /\ camPc \in CamLabels
  /\ camera \in BOOLEAN /\ previewing \in BOOLEAN
  /\ muxer \in Encoders \cup {None} /\ fresh \in Encoders \cup {None}
  /\ viewEncoder \in Encoders \cup {None}
  /\ encPc \in [Encoders -> EncLabels] /\ encFile \in [Encoders -> Files \cup {None}]
  /\ stop \in [Encoders -> BOOLEAN] /\ frame \in [Encoders -> BOOLEAN]
  /\ name \in [Files -> {"none", "cam", "mp4"}] /\ finished \subseteq Files
-----------------------------------------------------------------------------
\* registerUsbListener has just been called with the camera plugged in or not.
Init ==
  /\ plugged \in BOOLEAN /\ counted = FALSE /\ detaches = 0
  /\ linkPc = "idle" /\ valid = FALSE /\ callback = FALSE
  /\ begun = FALSE /\ usb = FALSE /\ ended = FALSE /\ ready = FALSE /\ reopen = FALSE
  /\ file = None /\ fileLast = None /\ outFile = None
  /\ checking = FALSE /\ checkFile = None /\ written = {}
  /\ uiPc = "idle" /\ task = "set" /\ inbox = <<>>
  /\ camPc = "idle" /\ camera = FALSE /\ previewing = FALSE
  /\ muxer = None /\ fresh = None /\ viewEncoder = None
  /\ encPc = [e \in Encoders |-> "free"] /\ encFile = [e \in Encoders |-> None]
  /\ stop = [e \in Encoders |-> FALSE] /\ frame = [e \in Encoders |-> FALSE]
  /\ name = [f \in Files |-> "none"] /\ finished = {}

Send(message) ==
  /\ Len(inbox) < MaxInbox
  /\ inbox' = Append(inbox, message)

\* removeMessages: the messages of another kind, in their order.
Without(messages, message) ==
  LET kept == {i \in DOMAIN messages : messages[i] # message}
      places == 1 .. Cardinality(kept)
  IN  {[k \in places |-> messages[f[k]]] :
        f \in {f \in [places -> kept] : \A j, k \in places : j < k => f[j] < f[k]}}

Alive(e) == encPc[e] # "free"

\* The number of a thread that is over, or that nothing can wake, is used again.
Available(e) == encPc[e] \in {"free", "lost", "failed"}

\* A file name that nothing refers to stands for a file not yet created.
Unused(f) ==
  /\ f \notin {file, fileLast, outFile, checkFile}
  /\ \A e \in Encoders : Alive(e) => encFile[e] # f

(* Timing.  New files come every five minutes and file checks every ten    *)
(* or thirty seconds: whatever is under way is over by then, and a         *)
(* recording that gets frames has written some.  The timer of Reopen is    *)
(* longer than the sleep of a stopping encoder.                            *)
Settled(e) ==
  \/ encPc[e] \in {"free", "wait", "lost", "failed"}
  \/ encPc[e] \in {"read", "window"} /\ ~stop[e]
Flowing == \E e \in Encoders :
  /\ viewEncoder = e /\ muxer = e /\ encFile[e] = file
  /\ plugged /\ camera /\ previewing /\ ~stop[e]
Rested ==
  /\ uiPc = "idle" /\ inbox = <<>> /\ camPc = "idle" /\ linkPc = "idle"
  /\ ~ready /\ ~reopen
  /\ \A e \in Encoders : Settled(e)
  /\ Flowing => file \in written
-----------------------------------------------------------------------------
(* The USB bus and USBMonitor.                                             *)

Plug ==
  /\ ~plugged /\ plugged' = TRUE
  /\ UNCHANGED <<counted, detaches, linkPc, valid, callback, activityVars, fileVars, outFile,
                 checkVars, written, uiVars, inbox, cameraVars, viewEncoder, encoderVars, diskVars>>

\* ACTION_USB_DEVICE_DETACHED arrives at the UI thread, which disconnects if
\* there is a connection.
Unplug ==
  /\ plugged /\ uiPc = "idle" /\ linkPc = "idle"
  /\ detaches < MaxDetach /\ detaches' = detaches + 1
  /\ plugged' = FALSE /\ valid' = FALSE
  /\ IF valid
     THEN \* onDisconnect; the count is reset when it is over
          /\ fileLast' = file /\ outFile' = None
          /\ uiPc' = "halt" /\ task' = "drop"
          /\ UNCHANGED counted
     ELSE /\ counted' = FALSE
          /\ UNCHANGED <<fileLast, outFile, uiPc, task>>
  /\ UNCHANGED <<linkPc, callback, activityVars, file, checkVars, written, inbox, cameraVars,
                 viewEncoder, encoderVars, diskVars>>

\* A device that was not counted before is reported once: onAttach connects to
\* it unless the camera is open, and onConnect then asks to open it.
Connect ==
  /\ plugged /\ ~counted /\ linkPc = "idle"
  /\ counted' = TRUE
  /\ IF camera
     THEN UNCHANGED <<inbox, linkPc, valid>>
     ELSE Send("OPEN") /\ linkPc' = "register" /\ valid' = TRUE
  /\ UNCHANGED <<plugged, detaches, callback, activityVars, fileVars, outFile, checkVars,
                 written, uiVars, cameraVars, viewEncoder, encoderVars, diskVars>>

AddCallback ==
  /\ linkPc = "register" /\ linkPc' = "idle"
  /\ callback' = TRUE
  /\ UNCHANGED <<plugged, counted, detaches, valid, activityVars, fileVars, outFile, checkVars,
                 written, uiVars, inbox, cameraVars, viewEncoder, encoderVars, diskVars>>
-----------------------------------------------------------------------------
(* The UI thread.  setFile: set the fields, look at the camera thread, then *)
(* start the recording or stop it, for the callback to start the next one. *)

SetFile(f) ==
  /\ fileLast' = file /\ file' = f
  /\ uiPc' = "test" /\ task' = "set"

\* setCameraFile of RecorderActivity: create the file and set it.  After
\* stopRecording its handlers are null and it would end the process.
SetCameraFile ==
  /\ uiPc = "idle" /\ ~ended
  /\ \E f \in Files :
       /\ Unused(f)
       /\ name' = [name EXCEPT ![f] = "cam"]
       /\ finished' = finished \ {f} /\ written' = written \ {f}
       /\ SetFile(f)
  /\ UNCHANGED <<usbVars, ended, reopen, outFile, checkVars, inbox, cameraVars, viewEncoder,
                 encoderVars>>

\* startRecording, two seconds after the activity has started.
StartRecording ==
  /\ ~begun /\ begun' = TRUE
  /\ usb' = (usb \/ camera)
  /\ IF usb' THEN SetCameraFile
     ELSE UNCHANGED <<usbVars, ended, reopen, outFile, checkVars, inbox, cameraVars, viewEncoder,
                      encoderVars, fileVars, uiVars, written, diskVars>>
  /\ UNCHANGED ready

CameraReady ==
  /\ ready /\ ready' = FALSE
  /\ usb' = TRUE
  /\ SetCameraFile
  /\ UNCHANGED begun

\* newCam1FileRunner, five minutes after the last file.
NextFile ==
  /\ usb /\ begun /\ Rested
  /\ SetCameraFile
  /\ UNCHANGED <<begun, usb, ready>>

\* stopRecording of RecorderActivity.
StopRecording ==
  /\ uiPc = "idle" /\ ~ended
  /\ ended' = TRUE
  /\ SetFile(None)
  /\ UNCHANGED <<usbVars, begun, usb, ready, reopen, outFile, checkVars, written, inbox, cameraVars,
                 viewEncoder, encoderVars, diskVars>>

SetFileTest ==
  /\ uiPc = "test"
  /\ IF ~camera THEN uiPc' = "idle" /\ UNCHANGED outFile
     ELSE IF muxer = None THEN uiPc' = "begin" /\ outFile' = file
     ELSE uiPc' = "halt" /\ outFile' = None
  /\ UNCHANGED <<usbVars, activityVars, fileVars, checkVars, written, task, inbox, cameraVars,
                 viewEncoder, encoderVars, diskVars>>

SetFileBegin ==
  /\ uiPc = "begin" /\ uiPc' = "idle"
  /\ Send("START")
  /\ checking' = TRUE
  /\ UNCHANGED <<usbVars, activityVars, fileVars, outFile, checkFile, written, task, cameraVars,
                 viewEncoder, encoderVars, diskVars>>

\* The message of stopRecording, whoever called it.
Halt ==
  /\ uiPc = "halt"
  /\ Send("STOP")
  /\ uiPc' = CASE task = "set" -> "idle" [] task = "check" -> "stopPreview" [] OTHER -> "closing"
  /\ UNCHANGED <<usbVars, activityVars, fileVars, outFile, checkVars, written, task, cameraVars,
                 viewEncoder, encoderVars, diskVars>>

\* fileCheckRunner: the file has not grown since the last check.
Stuck == file = checkFile /\ file \notin written

\* Mutant: mFile is not reset, which "Stops auto attempt at restarting".
FileCheckRestarts ==
  /\ uiPc = "idle" /\ checking /\ Rested
  /\ file # None
  /\ IF Stuck
     THEN outFile' = None /\ uiPc' = "halt" /\ task' = "check"
     ELSE UNCHANGED <<outFile, uiPc, task>>
  /\ checkFile' = file
  /\ written' = {}
  /\ UNCHANGED <<usbVars, activityVars, fileVars, checking, inbox, cameraVars, viewEncoder,
                 encoderVars, diskVars>>

FileCheck ==
  /\ uiPc = "idle" /\ checking /\ Rested
  /\ file # None
  /\ IF Stuck
     THEN file' = None /\ outFile' = None /\ uiPc' = "halt" /\ task' = "check"
     ELSE UNCHANGED <<file, outFile, uiPc, task>>
  /\ checkFile' = file'
  /\ written' = {}
  /\ UNCHANGED <<usbVars, activityVars, fileLast, checking, inbox, cameraVars, viewEncoder,
                 encoderVars, diskVars>>


\* What comes after close(): the file check ends and a timer opens the camera
\* again; USBMonitor forgets the device that is gone.
AfterClose ==
  /\ uiPc' = "idle"
  /\ reopen' = (reopen \/ task = "recover")
  /\ checking' = (checking /\ task # "recover")
  /\ counted' = (counted /\ task # "drop")

\* close() of an open camera begins with stopPreview().
Closing ==
  /\ uiPc = "closing"
  /\ IF camera THEN uiPc' = "stopPreview" /\ UNCHANGED <<reopen, checking, counted>>
     ELSE AfterClose
  /\ UNCHANGED <<plugged, detaches, linkPc, valid, callback, begun, usb, ended, ready, fileVars,
                 outFile,
                 checkFile, written, task, inbox, cameraVars, viewEncoder, encoderVars, diskVars>>

StopPreview ==
  /\ uiPc = "stopPreview" /\ uiPc' = "stopAgain"
  /\ inbox' \in Without(inbox, "PREVIEW_START")
  /\ outFile' = None
  /\ UNCHANGED <<usbVars, activityVars, fileVars, checkVars, written, task, cameraVars,
                 viewEncoder, encoderVars, diskVars>>

StopAgain ==
  /\ uiPc = "stopAgain" /\ uiPc' = "preview"
  /\ Send("STOP")
  /\ UNCHANGED <<usbVars, activityVars, fileVars, outFile, checkVars, written, task, cameraVars,
                 viewEncoder, encoderVars, diskVars>>

\* Wait until the camera thread has stopped the preview, if there is one.
WaitPreview ==
  /\ uiPc = "preview" /\ camera /\ previewing
  /\ uiPc' = "wait"
  /\ Send("PREVIEW_STOP")
  /\ UNCHANGED <<usbVars, activityVars, fileVars, outFile, checkVars, written, task, cameraVars,
                 viewEncoder, encoderVars, diskVars>>

\* The file check closes after it has stopped the preview; close() sends CLOSE.
PreviewStopped ==
  /\ uiPc = "preview" /\ ~(camera /\ previewing)
  /\ IF task = "check"
     THEN /\ task' = "recover" /\ uiPc' = "closing"
          /\ UNCHANGED <<inbox, reopen, checking, counted>>
     ELSE Send("CLOSE") /\ AfterClose /\ UNCHANGED task
  /\ UNCHANGED <<plugged, detaches, linkPc, valid, callback, begun, usb, ended, ready, fileVars,
                 outFile,
                 checkFile, written, cameraVars, viewEncoder, encoderVars, diskVars>>

Reopen ==
  /\ reopen /\ reopen' = FALSE
  /\ \A e \in Encoders : Settled(e)
  /\ Send("OPEN")
  /\ UNCHANGED <<usbVars, begun, usb, ended, ready, fileVars, outFile, checkVars, written, uiVars,
                 cameraVars,
                 viewEncoder, encoderVars, diskVars>>
-----------------------------------------------------------------------------
(* The camera thread.  A message stays at the head of the inbox while its   *)
(* handler is under way.                                                    *)

Handling(messages) == inbox # <<>> /\ Head(inbox) \in messages

Receive(message) ==
  /\ camPc = "idle" /\ Handling({message})
  /\ inbox' = Tail(inbox)

\* Mutant: mMuxer is read after it has been set to null.
StopForgets ==
  /\ camPc = "idle" /\ camPc' = "view"
  /\ Handling({"STOP", "CLOSE", "OPEN"})
  /\ muxer' = None /\ fresh' = muxer'
  /\ UNCHANGED <<usbVars, activityVars, fileVars, outFile, checkVars, written, uiVars, inbox,
                 camera, previewing, viewEncoder, encoderVars, diskVars>>

\* handleStopRecording forgets the muxer, takes the encoder from the camera view
\* and asks it to stop.  handleClose begins with it, handleOpen with handleClose.
HandleStopRecording ==
  /\ camPc = "idle" /\ camPc' = "view"
  /\ Handling({"STOP", "CLOSE", "OPEN"})
  /\ muxer' = None /\ fresh' = muxer
  /\ UNCHANGED <<usbVars, activityVars, fileVars, outFile, checkVars, written, uiVars, inbox,
                 camera, previewing, viewEncoder, encoderVars, diskVars>>

\* The rest of the handler, when there is no encoder to ask or it has been asked.
AfterStop ==
  IF Handling({"STOP"})
  THEN inbox' = Tail(inbox) /\ camPc' = "idle"
  ELSE camPc' = "close" /\ UNCHANGED inbox

ToEncoder == IF fresh = None THEN AfterStop ELSE camPc' = "ask" /\ UNCHANGED inbox

\* Mutant: the camera view keeps its encoder.
KeepView ==
  /\ camPc = "view" /\ ToEncoder
  /\ UNCHANGED <<usbVars, activityVars, fileVars, outFile, checkVars, written, uiVars,
                 camera, previewing, muxer, fresh, viewEncoder, encoderVars, diskVars>>

ClearView ==
  /\ camPc = "view" /\ ToEncoder
  /\ viewEncoder' = None
  /\ UNCHANGED <<usbVars, activityVars, fileVars, outFile, checkVars, written, uiVars,
                 camera, previewing, muxer, fresh, encoderVars, diskVars>>

AskToStop ==
  /\ camPc = "ask" /\ AfterStop
  /\ fresh' = None
  /\ stop' = [stop EXCEPT ![fresh] = TRUE]
  /\ encPc' = [encPc EXCEPT ![fresh] = IF @ = "wait" THEN "read" ELSE @]
  /\ UNCHANGED <<usbVars, activityVars, fileVars, outFile, checkVars, written, uiVars, camera,
                 previewing, muxer, viewEncoder, encFile, frame, diskVars>>

\* Mutant: the preview is over as well, whoever waits for its end.
CloseEndsPreview ==
  /\ camPc = "close" /\ camera
  /\ camera' = FALSE /\ camPc' = "lost" /\ previewing' = FALSE
  /\ UNCHANGED <<usbVars, activityVars, fileVars, outFile, checkVars, written, uiVars, inbox,
                 muxer, fresh, viewEncoder, encoderVars, diskVars>>

HandleClose ==
  /\ camPc = "close" /\ camera
  /\ camera' = FALSE /\ camPc' = "lost"
  /\ UNCHANGED <<usbVars, activityVars, fileVars, outFile, checkVars, written, uiVars, inbox,
                 previewing, muxer, fresh, viewEncoder, encoderVars, diskVars>>

\* Destroying the camera closes its control block, whose listener is
\* onDisconnect once more; the camera is not open any longer.
HandleLost ==
  /\ camPc = "lost"
  /\ fileLast' = file /\ outFile' = None
  /\ IF Handling({"CLOSE"})
     THEN inbox' = Append(Tail(inbox), "STOP") /\ camPc' = "idle"
     ELSE Send("STOP") /\ camPc' = "close"
  /\ UNCHANGED <<usbVars, activityVars, file, checkVars, written, uiVars, camera, previewing, muxer,
                 fresh, viewEncoder, encoderVars, diskVars>>

\* onOpen starts the preview, if the callback is there to be called.
HandleOpen ==
  /\ camPc = "close" /\ ~camera /\ camPc' = "idle"
  /\ Handling({"OPEN"}) /\ plugged /\ valid
  /\ camera' = TRUE
  /\ inbox' = Tail(inbox) \o IF callback THEN <<"PREVIEW_START">> ELSE <<>>
  /\ UNCHANGED <<usbVars, activityVars, fileVars, outFile, checkVars, written, uiVars,
                 previewing, muxer, fresh, viewEncoder, encoderVars, diskVars>>

\* The camera was closed, or cannot be opened.
HandleClosed ==
  /\ camPc = "close" /\ ~camera /\ camPc' = "idle"
  /\ Handling({"CLOSE", "OPEN"}) /\ inbox' = Tail(inbox)
  /\ Handling({"OPEN"}) => ~(plugged /\ valid)
  /\ UNCHANGED <<usbVars, activityVars, fileVars, outFile, checkVars, written, uiVars, camera,
                 previewing, muxer, fresh, viewEncoder, encoderVars, diskVars>>

HandleNothing ==
  /\ \/ Receive("PREVIEW_START") /\ (~camera \/ previewing)
     \/ Receive("PREVIEW_STOP") /\ ~previewing
     \/ Receive("START") /\ (outFile = None \/ ~camera \/ muxer # None)
  /\ UNCHANGED <<usbVars, activityVars, fileVars, outFile, checkVars, written, uiVars, cameraVars,
                 viewEncoder, encoderVars, diskVars>>

HandleStartPreview ==
  /\ Receive("PREVIEW_START") /\ camera /\ ~previewing
  /\ previewing' = TRUE
  /\ ready' = TRUE
  /\ UNCHANGED <<usbVars, begun, usb, ended, reopen, fileVars, outFile, checkVars, written, uiVars,
                 camPc, camera, muxer, fresh, viewEncoder, encoderVars, diskVars>>

HandleStopPreview ==
  /\ Receive("PREVIEW_STOP") /\ previewing
  /\ previewing' = FALSE
  /\ uiPc' = IF uiPc = "wait" THEN "preview" ELSE uiPc
  /\ UNCHANGED <<usbVars, activityVars, fileVars, outFile, checkVars, written, task, camPc, camera,
                 muxer, fresh, viewEncoder, encoderVars, diskVars>>

\* handleStartRecording creates the file, the encoder and its thread.
CreateEncoder ==
  /\ \E e \in Encoders :
       /\ Available(e)
       /\ fresh' = e
       /\ encPc' = [encPc EXCEPT ![e] = "read"]
       /\ encFile' = [encFile EXCEPT ![e] = outFile]
       /\ stop' = [stop EXCEPT ![e] = FALSE]
       /\ frame' = [frame EXCEPT ![e] = FALSE]
  /\ name' = [name EXCEPT ![outFile] = IF @ = "none" THEN "cam" ELSE @]
  /\ finished' = finished \ {outFile}
  /\ camPc' = "preparing"
  /\ UNCHANGED <<usbVars, activityVars, fileVars, outFile, checkVars, written, uiVars, camera,
                 previewing, muxer, viewEncoder>>

\* Mutants: no test for a null path, for the camera.
HandleStartNull == Receive("START") /\ camera /\ muxer = None /\ CreateEncoder
HandleStartClosed == Receive("START") /\ outFile # None /\ muxer = None /\ CreateEncoder

HandleStart ==
  /\ Receive("START") /\ outFile # None /\ camera /\ muxer = None
  /\ CreateEncoder

\* The file cannot be created: there is no encoder yet.
CreateFails ==
  /\ Receive("START") /\ outFile # None /\ camera /\ muxer = None
  /\ UNCHANGED <<usbVars, activityVars, fileVars, outFile, checkVars, written, uiVars, cameraVars,
                 viewEncoder, encoderVars, diskVars>>

\* prepare() gives the encoder to the camera view: frames arrive before the
\* muxer is known to the other threads.
Prepared ==
  /\ camPc = "preparing" /\ camPc' = "starting"
  /\ viewEncoder' = fresh
  /\ encPc' = [encPc EXCEPT ![fresh] = IF @ = "wait" THEN "read" ELSE @]
  /\ UNCHANGED <<usbVars, activityVars, fileVars, outFile, checkVars, written, uiVars, inbox,
                 camera,
                 previewing, muxer, fresh, encFile, stop, frame, diskVars>>

\* There is no codec to be had: the thread of the encoder waits for ever.
PrepareFails ==
  /\ camPc = "preparing" /\ camPc' = "idle"
  /\ fresh' = None
  /\ encPc' = [encPc EXCEPT ![fresh] = "failed"]
  /\ encFile' = [encFile EXCEPT ![fresh] = None]
  /\ UNCHANGED <<usbVars, activityVars, fileVars, outFile, checkVars, written, uiVars, inbox,
                 camera,
                 previewing, muxer, viewEncoder, stop, frame, diskVars>>

Started ==
  /\ camPc = "starting" /\ camPc' = "idle"
  /\ muxer' = fresh /\ fresh' = None
  /\ UNCHANGED <<usbVars, activityVars, fileVars, outFile, checkVars, written, uiVars, inbox,
                 camera,
                 previewing, viewEncoder, encoderVars, diskVars>>
-----------------------------------------------------------------------------
(* The encoder threads and onStopRecording.                                *)

EncGoto(e, from, to) ==
  /\ encPc[e] = from
  /\ encPc' = [encPc EXCEPT ![e] = to]

\* frameAvailableSoon, called by the renderer of the camera view.
Frame(e) ==
  /\ viewEncoder = e /\ plugged /\ camera /\ previewing /\ ~stop[e]
  /\ frame[e] => encPc[e] = "wait"
  /\ frame' = [frame EXCEPT ![e] = TRUE]
  /\ encPc' = [encPc EXCEPT ![e] = IF @ = "wait" THEN "read" ELSE @]
  /\ UNCHANGED <<usbVars, activityVars, fileVars, outFile, checkVars, written, uiVars, inbox,
                 cameraVars, viewEncoder, encFile, stop, diskVars>>

\* The first synchronized block of the loop; draining writes to the file.
Read(e) ==
  /\ EncGoto(e, "read", IF stop[e] THEN "stopped" ELSE IF frame[e] THEN "read" ELSE "window")
  /\ frame' = [frame EXCEPT ![e] = FALSE]
  /\ written' = IF frame[e] THEN written \cup {encFile[e]} ELSE written
  /\ UNCHANGED <<usbVars, activityVars, fileVars, outFile, checkVars, uiVars, inbox, cameraVars,
                 viewEncoder, encFile, stop, diskVars>>

\* The second one waits, whatever has been requested since the first: once it is
\* to stop no call notifies it any more.
Wait(e) ==
  /\ EncGoto(e, "window", IF stop[e] THEN "lost" ELSE "wait")
  /\ encFile' = [encFile EXCEPT ![e] = IF stop[e] THEN None ELSE @]
  /\ UNCHANGED <<usbVars, activityVars, fileVars, outFile, checkVars, written, uiVars, inbox,
                 cameraVars, viewEncoder, stop, frame, diskVars>>

\* onStopped takes the encoder, any encoder, from the view.
OnStopped(e) ==
  /\ EncGoto(e, "stopped", IF callback THEN "sleep" ELSE "finish")
  /\ viewEncoder' = None
  /\ UNCHANGED <<usbVars, activityVars, fileVars, outFile, checkVars, written, uiVars, inbox,
                 cameraVars, encFile, stop, frame, diskVars>>

OnStopRecording(e) ==
  /\ EncGoto(e, "sleep", IF file # None THEN "send" ELSE "rename")
  /\ outFile' = IF file # None THEN file ELSE outFile
  /\ UNCHANGED <<usbVars, activityVars, fileVars, checkVars, written, uiVars, inbox, cameraVars,
                 viewEncoder, encFile, stop, frame, diskVars>>

SendNext(e) ==
  /\ EncGoto(e, "send", "rename")
  /\ Send("START")
  /\ UNCHANGED <<usbVars, activityVars, fileVars, outFile, checkVars, written, uiVars, cameraVars,
                 viewEncoder, encFile, stop, frame, diskVars>>

Rename(e) ==
  /\ EncGoto(e, "rename", "finish")
  /\ name' = [f \in Files |-> IF f = fileLast /\ name[f] = "cam" THEN "mp4" ELSE name[f]]
  /\ UNCHANGED <<usbVars, activityVars, fileVars, outFile, checkVars, written, uiVars, inbox,
                 cameraVars, viewEncoder, encFile, stop, frame, finished>>

\* The codec is released and the muxer stopped, which completes the file.
Finish(e) ==
  /\ EncGoto(e, "finish", "free")
  /\ finished' = finished \cup {encFile[e]}
  /\ encFile' = [encFile EXCEPT ![e] = None]
  /\ UNCHANGED <<usbVars, activityVars, fileVars, outFile, checkVars, written, uiVars, inbox,
                 cameraVars, viewEncoder, stop, frame, name>>
-----------------------------------------------------------------------------
Usb == Plug \/ Unplug \/ Connect \/ AddCallback

Ui ==
  \/ SetFileTest \/ SetFileBegin \/ Halt \/ Closing
  \/ StopPreview \/ StopAgain \/ WaitPreview \/ PreviewStopped

StartFails == CreateFails \/ PrepareFails

CameraThread ==
  \/ HandleStopRecording \/ ClearView \/ AskToStop
  \/ HandleClose \/ HandleLost \/ HandleOpen \/ HandleClosed \/ HandleNothing
  \/ HandleStartPreview \/ HandleStopPreview
  \/ HandleStart \/ Prepared \/ Started \/ StartFails

Encoder(e) ==
  \/ Read(e) \/ Wait(e) \/ OnStopped(e) \/ OnStopRecording(e)
  \/ SendNext(e) \/ Rename(e) \/ Finish(e)

Next ==
  \/ Usb \/ Ui \/ CameraThread
  \/ StartRecording \/ CameraReady \/ NextFile \/ StopRecording \/ FileCheck \/ Reopen
  \/ \E e \in Encoders : Encoder(e) \/ Frame(e)

Spec == Init /\ [][Next]_vars

(* Fairness: every thread with something to do runs, timers fire, and a    *)
(* camera that is on delivers frames.                                      *)
Fairness ==
  /\ WF_vars(Connect) /\ WF_vars(AddCallback) /\ WF_vars(Reopen)
  /\ WF_vars(Ui) /\ WF_vars(CameraThread)
  /\ SF_vars(CameraReady) /\ SF_vars(FileCheck)
  /\ WF_vars(StartRecording)
  /\ \A e \in Encoders : WF_vars(Encoder(e)) /\ WF_vars(Frame(e))

FairSpec == Spec /\ Fairness
-----------------------------------------------------------------------------
(* Properties.                                                             *)

\* While there is a muxer the camera is open, until its encoder has been asked to
\* stop: handleStopRecording, which dereferences the camera of a muxer it finds,
\* does not end the process, however detaching, reopening and new files interleave.
MuxerHasCamera == muxer # None \/ fresh # None => camera

\* A file that is complete is not opened again: MediaMuxer would overwrite it.
NoOverwrite == [][\A e \in Encoders :
  encFile[e] # encFile'[e] /\ encFile'[e] # None => encFile'[e] \notin finished]_vars

\* An encoder thread that nobody has asked to stop is the one recording, or the one
\* the camera thread is starting or stopping: starting over a recording never
\* leaves an encoder running for ever.  The one that is left behind is an encoder
\* whose prepare() failed, after its thread had been started.
NoOrphan == \A e \in Encoders :
  Alive(e) /\ ~stop[e] => e \in {muxer, fresh} \/ encPc[e] = "failed"

\* The camera view never feeds an encoder of an earlier recording.
FramesGoToRecorder == viewEncoder # None => viewEncoder \in {muxer, fresh}

\* The UI thread does not wait in stopPreview for ever: while it waits, the message
\* whose handler notifies it is still in the inbox and the handler will not find
\* the preview stopped already, whatever is handled first (a close, a camera opened
\* again) and however often the camera is unplugged meanwhile.
UiIsWoken == uiPc = "wait" => previewing /\ Contains(inbox, "PREVIEW_STOP")

=============================================================================
