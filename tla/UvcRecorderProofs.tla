--------------------------- MODULE UvcRecorderProofs ---------------------------
(***************************************************************************)
(* Theorems about recording from a USB camera, for any files, any encoder  *)
(* threads and any number of waiting messages and of detaches.             *)
(***************************************************************************)
EXTENDS UvcRecorder, FiniteSetTheorems, SequenceTheorems, TLAPS

\* Where the camera thread has an encoder in hand, to start or to stop it: the
\* camera is open then and there is no muxer, and from the moment it has been taken
\* from the camera view, or before it is given to it, the view has none.
InHand ==
  /\ camPc \in {"ask", "preparing", "starting"} => fresh # None
  /\ fresh # None => camPc \in {"view", "ask", "preparing", "starting"} /\ muxer = None
  /\ camPc \in {"view", "close", "lost"} => muxer = None
  /\ camPc \in {"ask", "preparing"} => viewEncoder = None

\* An encoder thread that runs has a file to write.
Writing ==
  \A e \in Encoders : encPc[e] \notin {"free", "lost", "failed"} => encFile[e] # None

IInv ==
  /\ TypeOK /\ InHand /\ Writing
  /\ MuxerHasCamera /\ NoOrphan /\ FramesGoToRecorder /\ UiIsWoken

(* The types, in the groups that the actions change.                       *)
UsbTypes ==
  /\ plugged \in BOOLEAN /\ counted \in BOOLEAN /\ detaches \in 0 .. MaxDetach
  /\ linkPc \in {"idle", "register"} /\ valid \in BOOLEAN /\ callback \in BOOLEAN
ActivityTypes ==
  /\ begun \in BOOLEAN /\ usb \in BOOLEAN
  /\ ended \in BOOLEAN /\ ready \in BOOLEAN /\ reopen \in BOOLEAN
FileTypes ==
  file \in Files \cup {None} /\ fileLast \in Files \cup {None} /\ outFile \in Files \cup {None}
CheckTypes ==
  checking \in BOOLEAN /\ checkFile \in Files \cup {None} /\ written \subseteq Files
UiTypes == uiPc \in UiLabels /\ task \in {"set", "check", "recover", "drop"}
InboxType == inbox \in Seq(Messages)
CameraTypes ==
  /\ camPc \in CamLabels
  /\ camera \in BOOLEAN /\ previewing \in BOOLEAN
  /\ muxer \in Encoders \cup {None} /\ fresh \in Encoders \cup {None}
  /\ viewEncoder \in Encoders \cup {None}
EncoderTypes ==
  /\ encPc \in [Encoders -> EncLabels] /\ encFile \in [Encoders -> Files \cup {None}]
  /\ stop \in [Encoders -> BOOLEAN] /\ frame \in [Encoders -> BOOLEAN]
DiskTypes == name \in [Files -> {"none", "cam", "mp4"}] /\ finished \subseteq Files
-------------------------------------------------------------------------------
LEMMA TypesTogether ==
  ASSUME UsbTypes', ActivityTypes', FileTypes', CheckTypes', UiTypes', InboxType',
         CameraTypes', EncoderTypes', DiskTypes'
  PROVE  TypeOK'
  BY DEF TypeOK, UsbTypes, ActivityTypes, FileTypes, CheckTypes, UiTypes, InboxType, CameraTypes,
     EncoderTypes, DiskTypes

\* removeMessages leaves a sequence of messages.
LEMMA WithoutType ==
  ASSUME NEW q \in Seq(Messages), NEW m \in Messages, NEW r \in Without(q, m)
  PROVE  r \in Seq(Messages)
<1> DEFINE kept == {i \in DOMAIN q : q[i] # m}
           n == Cardinality(kept)
<1>1. n \in Nat
  <2>1. IsFiniteSet(1 .. Len(q))
    BY FS_Interval
  <2>2. kept \subseteq 1 .. Len(q)
    OBVIOUS
  <2>3. QED
    BY <2>1, <2>2, FS_Subset, FS_CardinalityType
<1>2. PICK f \in [1 .. n -> kept] : r = [k \in 1 .. n |-> q[f[k]]]
  BY DEF Without
<1>3. \A k \in 1 .. n : q[f[k]] \in Messages
  BY <1>2, ElementOfSeq
<1> HIDE DEF n, kept
<1>4. QED
  BY <1>1, <1>2, <1>3

LEMMA InitIInv == Init => IInv
<1> SUFFICES ASSUME Init PROVE IInv
  OBVIOUS
<1>1. UsbTypes /\ InboxType
  <2>1. detaches \in 0 .. MaxDetach
    BY ConstantsAssumption DEF Init
  <2>2. inbox \in Seq(Messages)
    BY EmptySeq DEF Init
  <2>3. QED
    BY <2>1, <2>2 DEF Init, UsbTypes, InboxType
<1>2. CameraTypes
  BY DEF Init, CameraTypes, CamLabels
<1>3. /\ EncoderTypes /\ DiskTypes
      /\ ActivityTypes /\ FileTypes /\ CheckTypes /\ UiTypes
  BY DEF Init, EncoderTypes, DiskTypes, EncLabels, ActivityTypes, FileTypes, CheckTypes,
     UiTypes, UiLabels
<1>4. TypeOK
  BY <1>1, <1>2, <1>3 DEF TypeOK, UsbTypes, ActivityTypes, FileTypes, CheckTypes, UiTypes,
     InboxType,
     CameraTypes, EncoderTypes, DiskTypes
<1>5. QED
  BY <1>4 DEF Init, IInv, InHand, Writing, MuxerHasCamera, NoOrphan, FramesGoToRecorder, Alive,
     UiIsWoken

\* Every step keeps the types.
LEMMA NextType == TypeOK /\ InHand /\ Writing /\ [Next]_vars => TypeOK'
<1> SUFFICES ASSUME TypeOK, InHand, Writing, [Next]_vars
             PROVE  TypeOK'
  OBVIOUS
<1> USE ConstantsAssumption
    DEF TypeOK, InHand, Writing, UiLabels, CamLabels, EncLabels, Messages, Send, usbVars,
       activityVars,
    fileVars, checkVars,
        uiVars, cameraVars, encoderVars, diskVars
<1>0. inbox # <<>> => Tail(inbox) \in Seq(Messages)
  BY HeadTailProperties
<1>1. CASE Plug
  BY <1>1 DEF Plug, TypeOK, UsbTypes, ActivityTypes, FileTypes, CheckTypes, UiTypes, InboxType,
     CameraTypes, EncoderTypes, DiskTypes
<1>2. CASE Unplug
  <2>1. UsbTypes'
    <3>1. detaches' \in 0 .. MaxDetach
      BY <1>2 DEF Unplug
    <3>2. plugged' \in BOOLEAN /\ valid' \in BOOLEAN /\ counted' \in BOOLEAN
      BY <1>2 DEF Unplug
    <3>3. QED
      BY <1>2, <3>1, <3>2 DEF Unplug, UsbTypes
  <2>2. FileTypes'
    BY <1>2 DEF Unplug, FileTypes
  <2>3. UiTypes'
    BY <1>2 DEF Unplug, UiTypes
  <2>4. ActivityTypes' /\ CheckTypes' /\ InboxType' /\ CameraTypes' /\ EncoderTypes' /\ DiskTypes'
    BY <1>2 DEF Unplug, ActivityTypes, CheckTypes, InboxType, CameraTypes, EncoderTypes, DiskTypes
  <2>5. QED
    BY <2>1, <2>2, <2>3, <2>4, TypesTogether
<1>3. CASE Connect
  <2>1. UsbTypes'
    BY <1>3 DEF Connect, UsbTypes
  <2>2. InboxType'
    BY <1>3 DEF Connect, InboxType
  <2>3. /\ ActivityTypes' /\ FileTypes' /\ CheckTypes' /\ UiTypes'
        /\ CameraTypes' /\ EncoderTypes' /\ DiskTypes'
    BY <1>3 DEF Connect, ActivityTypes, FileTypes, CheckTypes, UiTypes, CameraTypes,
       EncoderTypes, DiskTypes
  <2>4. QED
    BY <2>1, <2>2, <2>3, TypesTogether
<1>4. CASE AddCallback
  BY <1>4 DEF AddCallback, TypeOK, UsbTypes, ActivityTypes, FileTypes, CheckTypes, UiTypes,
     InboxType, CameraTypes, EncoderTypes, DiskTypes
<1>5. CASE SetFileTest
  BY <1>5 DEF SetFileTest, TypeOK, UsbTypes, ActivityTypes, FileTypes, CheckTypes, UiTypes,
     InboxType, CameraTypes, EncoderTypes, DiskTypes
<1>6. CASE SetFileBegin
  BY <1>6 DEF SetFileBegin, TypeOK, UsbTypes, ActivityTypes, FileTypes, CheckTypes, UiTypes,
     InboxType, CameraTypes, EncoderTypes, DiskTypes
<1>7. CASE Halt
  BY <1>7 DEF Halt, TypeOK, UsbTypes, ActivityTypes, FileTypes, CheckTypes, UiTypes, InboxType,
     CameraTypes, EncoderTypes, DiskTypes
<1>8. CASE Closing
  <2>1. UsbTypes'
    BY <1>8 DEF Closing, AfterClose, UsbTypes
  <2>2. ActivityTypes'
    BY <1>8 DEF Closing, AfterClose, ActivityTypes
  <2>3. CheckTypes'
    BY <1>8 DEF Closing, AfterClose, CheckTypes
  <2>4. UiTypes'
    BY <1>8 DEF Closing, AfterClose, UiTypes
  <2>5. FileTypes' /\ InboxType' /\ CameraTypes' /\ EncoderTypes' /\ DiskTypes'
    BY <1>8 DEF Closing, AfterClose, FileTypes, InboxType, CameraTypes, EncoderTypes, DiskTypes
  <2>6. QED
    BY <2>1, <2>2, <2>3, <2>4, <2>5, TypesTogether
<1>9. CASE StopPreview
  <2>1. InboxType'
    BY WithoutType, <1>9 DEF StopPreview, InboxType
  <2>2. FileTypes'
    BY <1>9 DEF StopPreview, FileTypes
  <2>3. /\ UsbTypes' /\ ActivityTypes' /\ CheckTypes' /\ UiTypes'
        /\ CameraTypes' /\ EncoderTypes' /\ DiskTypes'
    BY <1>9 DEF StopPreview, UsbTypes, ActivityTypes, CheckTypes, UiTypes, CameraTypes,
       EncoderTypes, DiskTypes
  <2>4. QED
    BY <2>1, <2>2, <2>3, TypesTogether
<1>10. CASE StopAgain
  BY <1>10 DEF StopAgain, TypeOK, UsbTypes, ActivityTypes, FileTypes, CheckTypes, UiTypes,
     InboxType, CameraTypes, EncoderTypes, DiskTypes
<1>11. CASE WaitPreview
  BY <1>11 DEF WaitPreview, TypeOK, UsbTypes, ActivityTypes, FileTypes, CheckTypes, UiTypes,
     InboxType, CameraTypes, EncoderTypes, DiskTypes
<1>12. CASE PreviewStopped
  <2>1. UsbTypes'
    BY <1>12 DEF PreviewStopped, AfterClose, UsbTypes
  <2>2. ActivityTypes'
    BY <1>12 DEF PreviewStopped, AfterClose, ActivityTypes
  <2>3. CheckTypes'
    BY <1>12 DEF PreviewStopped, AfterClose, CheckTypes
  <2>4. UiTypes'
    BY <1>12 DEF PreviewStopped, AfterClose, UiTypes
  <2>5. InboxType'
    BY <1>12 DEF PreviewStopped, AfterClose, InboxType
  <2>6. FileTypes' /\ CameraTypes' /\ EncoderTypes' /\ DiskTypes'
    BY <1>12 DEF PreviewStopped, AfterClose, FileTypes, CameraTypes, EncoderTypes, DiskTypes
  <2>7. QED
    BY <2>1, <2>2, <2>3, <2>4, <2>5, <2>6, TypesTogether
<1>13. CASE HandleStopRecording
  <2>1. CameraTypes'
    BY <1>13 DEF HandleStopRecording, Receive, AfterStop, ToEncoder, Handling, CreateEncoder,
       Available, CameraTypes
  <2>2. /\ UsbTypes' /\ ActivityTypes' /\ FileTypes' /\ CheckTypes'
        /\ UiTypes' /\ InboxType' /\ EncoderTypes' /\ DiskTypes'
    BY <1>13 DEF HandleStopRecording, Receive, AfterStop, ToEncoder, Handling, CreateEncoder,
       UsbTypes, ActivityTypes, FileTypes, CheckTypes, UiTypes, InboxType, EncoderTypes, DiskTypes
  <2>3. QED
    BY <2>1, <2>2, TypesTogether
<1>14. CASE ClearView
  <2>1. InboxType'
    <3>1. inbox' = inbox \/ (inbox # <<>> /\ inbox' = Tail(inbox))
      BY <1>14 DEF ClearView, Receive, AfterStop, ToEncoder, Handling
    <3>2. QED
      BY <1>0, <3>1 DEF InboxType
  <2>2. CameraTypes'
    BY <1>14 DEF ClearView, Receive, AfterStop, ToEncoder, Handling, CreateEncoder, Available,
       CameraTypes
  <2>3. /\ UsbTypes' /\ ActivityTypes' /\ FileTypes' /\ CheckTypes'
        /\ UiTypes' /\ EncoderTypes' /\ DiskTypes'
    BY <1>14 DEF ClearView, Receive, AfterStop, ToEncoder, Handling, CreateEncoder, UsbTypes,
       ActivityTypes, FileTypes, CheckTypes, UiTypes, EncoderTypes, DiskTypes
  <2>4. QED
    BY <2>1, <2>2, <2>3, TypesTogether
<1>15. CASE AskToStop
  <2>1. InboxType'
    <3>1. inbox' = inbox \/ (inbox # <<>> /\ inbox' = Tail(inbox))
      BY <1>15 DEF AskToStop, Receive, AfterStop, ToEncoder, Handling
    <3>2. QED
      BY <1>0, <3>1 DEF InboxType
  <2>2. CameraTypes'
    BY <1>15 DEF AskToStop, Receive, AfterStop, ToEncoder, Handling, CreateEncoder, Available,
       CameraTypes
  <2>3. EncoderTypes'
    BY <1>15 DEF AskToStop, Receive, AfterStop, ToEncoder, Handling, CreateEncoder, Available,
       EncoderTypes, FileTypes
  <2>4. /\ UsbTypes' /\ ActivityTypes' /\ FileTypes' /\ CheckTypes'
        /\ UiTypes' /\ DiskTypes'
    BY <1>15 DEF AskToStop, Receive, AfterStop, ToEncoder, Handling, CreateEncoder, UsbTypes,
       ActivityTypes, FileTypes, CheckTypes, UiTypes, DiskTypes
  <2>5. QED
    BY <2>1, <2>2, <2>3, <2>4, TypesTogether
<1>16. CASE HandleClose
  <2>1. CameraTypes'
    BY <1>16 DEF HandleClose, Receive, AfterStop, ToEncoder, Handling, CreateEncoder, Available,
       CameraTypes
  <2>2. /\ UsbTypes' /\ ActivityTypes' /\ FileTypes' /\ CheckTypes'
        /\ UiTypes' /\ InboxType' /\ EncoderTypes' /\ DiskTypes'
    BY <1>16 DEF HandleClose, Receive, AfterStop, ToEncoder, Handling, CreateEncoder, UsbTypes,
       ActivityTypes, FileTypes, CheckTypes, UiTypes, InboxType, EncoderTypes, DiskTypes
  <2>3. QED
    BY <2>1, <2>2, TypesTogether
<1>17. CASE HandleLost
  <2>1. InboxType'
    <3>1. \/ inbox # <<>> /\ inbox' = Append(Tail(inbox), "STOP")
          \/ inbox' = Append(inbox, "STOP")
      BY <1>17 DEF HandleLost, Handling
    <3>2. ASSUME NEW q \in Seq(Messages)
          PROVE  Append(q, "STOP") \in Seq(Messages)
      OBVIOUS
    <3>3. PICK q \in Seq(Messages) : inbox' = Append(q, "STOP")
      BY <1>0, <3>1
    <3>4. inbox' \in Seq(Messages)
      BY <3>2, <3>3
    <3>5. QED
      BY <3>4 DEF InboxType
  <2>2. CameraTypes'
    BY <1>17 DEF HandleLost, Receive, AfterStop, ToEncoder, Handling, CreateEncoder, Available,
       CameraTypes
  <2>3. FileTypes'
    BY <1>17 DEF HandleLost, Receive, AfterStop, ToEncoder, Handling, CreateEncoder, Available,
       FileTypes
  <2>4. /\ UsbTypes' /\ ActivityTypes' /\ CheckTypes' /\ UiTypes'
        /\ EncoderTypes' /\ DiskTypes'
    BY <1>17 DEF HandleLost, Receive, AfterStop, ToEncoder, Handling, CreateEncoder, UsbTypes,
       ActivityTypes, CheckTypes, UiTypes, EncoderTypes, DiskTypes
  <2>5. QED
    BY <2>1, <2>2, <2>3, <2>4, TypesTogether
<1>18. CASE HandleOpen
  <2>1. CameraTypes'
    BY <1>18 DEF HandleOpen, CameraTypes
  <2>2. InboxType'
    <3>1. Tail(inbox) \in Seq(Messages)
      BY <1>0, <1>18 DEF HandleOpen, Handling
    <3>2. <<"PREVIEW_START">> \in Seq(Messages) /\ <<>> \in Seq(Messages)
      OBVIOUS
    <3>3. inbox' \in Seq(Messages)
      BY <3>1, <3>2, <1>18, ConcatProperties DEF HandleOpen
    <3>4. QED
      BY <3>3 DEF InboxType
  <2>3. /\ UsbTypes' /\ ActivityTypes' /\ FileTypes' /\ CheckTypes'
        /\ UiTypes' /\ EncoderTypes' /\ DiskTypes'
    BY <1>18 DEF HandleOpen, UsbTypes, ActivityTypes, FileTypes, CheckTypes, UiTypes,
       EncoderTypes, DiskTypes
  <2>4. QED
    BY <2>1, <2>2, <2>3, TypesTogether
<1>19. CASE HandleClosed
  <2>1. InboxType'
    <3>1. inbox' = inbox \/ (inbox # <<>> /\ inbox' = Tail(inbox))
      BY <1>19 DEF HandleClosed, Receive, AfterStop, ToEncoder, Handling
    <3>2. QED
      BY <1>0, <3>1 DEF InboxType
  <2>2. CameraTypes'
    BY <1>19 DEF HandleClosed, Receive, AfterStop, ToEncoder, Handling, CreateEncoder, Available,
       CameraTypes
  <2>3. /\ UsbTypes' /\ ActivityTypes' /\ FileTypes' /\ CheckTypes'
        /\ UiTypes' /\ EncoderTypes' /\ DiskTypes'
    BY <1>19 DEF HandleClosed, Receive, AfterStop, ToEncoder, Handling, CreateEncoder, UsbTypes,
       ActivityTypes, FileTypes, CheckTypes, UiTypes, EncoderTypes, DiskTypes
  <2>4. QED
    BY <2>1, <2>2, <2>3, TypesTogether
<1>20. CASE HandleNothing
  <2>1. InboxType'
    <3>1. inbox # <<>> /\ inbox' \in {inbox, Tail(inbox)}
      BY <1>20 DEF HandleNothing, Receive, Handling
    <3>2. QED
      BY <1>0, <3>1 DEF InboxType
  <2>2. /\ UsbTypes' /\ ActivityTypes' /\ FileTypes' /\ CheckTypes'
        /\ UiTypes' /\ CameraTypes' /\ EncoderTypes' /\ DiskTypes'
    BY <1>20 DEF HandleNothing, Receive, Handling, UsbTypes, ActivityTypes, FileTypes, CheckTypes,
       UiTypes, CameraTypes, EncoderTypes, DiskTypes
  <2>3. QED
    BY <2>1, <2>2, TypesTogether
<1>21. CASE HandleStartPreview
  BY <1>21 DEF HandleStartPreview, Receive, Handling, TypeOK, UsbTypes, ActivityTypes, FileTypes,
     CheckTypes, UiTypes, InboxType, CameraTypes, EncoderTypes, DiskTypes
<1>22. CASE HandleStopPreview
  <2>1. InboxType'
    BY <1>22 DEF HandleStopPreview, Receive, Handling, InboxType
  <2>2. CameraTypes'
    BY <1>22 DEF HandleStopPreview, Receive, Handling, CameraTypes
  <2>3. UiTypes'
    BY <1>22 DEF HandleStopPreview, Receive, Handling, UiTypes
  <2>4. UsbTypes' /\ ActivityTypes' /\ FileTypes' /\ CheckTypes' /\ EncoderTypes' /\ DiskTypes'
    BY <1>22 DEF HandleStopPreview, Receive, Handling, UsbTypes, ActivityTypes, FileTypes,
       CheckTypes,
       EncoderTypes, DiskTypes
  <2>5. QED
    BY <2>1, <2>2, <2>3, <2>4, TypesTogether
<1>23. CASE HandleStart
  <2>1. InboxType'
    BY <1>23 DEF HandleStart, Receive, Handling, CreateEncoder, Available, InboxType
  <2>2. CameraTypes'
    BY <1>23 DEF HandleStart, Receive, Handling, CreateEncoder, Available, CameraTypes
  <2>3. EncoderTypes'
    BY <1>23 DEF HandleStart, Receive, Handling, CreateEncoder, Available, EncoderTypes, FileTypes
  <2>4. DiskTypes'
    BY <1>23 DEF HandleStart, Receive, Handling, CreateEncoder, Available, DiskTypes
  <2>5. UsbTypes' /\ ActivityTypes' /\ FileTypes' /\ CheckTypes' /\ UiTypes'
    BY <1>23 DEF HandleStart, Receive, Handling, CreateEncoder, Available, UsbTypes, ActivityTypes,
       FileTypes, CheckTypes, UiTypes
  <2>6. QED
    BY <2>1, <2>2, <2>3, <2>4, <2>5, TypesTogether
<1>24. CASE Prepared
  <2>1. CameraTypes'
    BY <1>24 DEF Prepared, Receive, AfterStop, ToEncoder, Handling, CreateEncoder, Available,
       CameraTypes
  <2>2. EncoderTypes'
    BY <1>24 DEF Prepared, Receive, AfterStop, ToEncoder, Handling, CreateEncoder, Available,
       EncoderTypes, FileTypes
  <2>3. /\ UsbTypes' /\ ActivityTypes' /\ FileTypes' /\ CheckTypes'
        /\ UiTypes' /\ InboxType' /\ DiskTypes'
    BY <1>24 DEF Prepared, Receive, AfterStop, ToEncoder, Handling, CreateEncoder, UsbTypes,
       ActivityTypes, FileTypes, CheckTypes, UiTypes, InboxType, DiskTypes
  <2>4. QED
    BY <2>1, <2>2, <2>3, TypesTogether
<1>25. CASE Started
  BY <1>25 DEF Started, TypeOK, UsbTypes, ActivityTypes, FileTypes, CheckTypes, UiTypes,
     InboxType, CameraTypes, EncoderTypes, DiskTypes
<1>26. CASE CreateFails
  <2>1. InboxType'
    <3>1. inbox' = inbox \/ (inbox # <<>> /\ inbox' = Tail(inbox))
      BY <1>26 DEF CreateFails, Receive, AfterStop, ToEncoder, Handling
    <3>2. QED
      BY <1>0, <3>1 DEF InboxType
  <2>2. /\ UsbTypes' /\ ActivityTypes' /\ FileTypes' /\ CheckTypes'
        /\ UiTypes' /\ CameraTypes' /\ EncoderTypes' /\ DiskTypes'
    BY <1>26 DEF CreateFails, Receive, AfterStop, ToEncoder, Handling, CreateEncoder, UsbTypes,
       ActivityTypes, FileTypes, CheckTypes, UiTypes, CameraTypes, EncoderTypes, DiskTypes
  <2>3. QED
    BY <2>1, <2>2, TypesTogether
<1>27. CASE PrepareFails
  <2>1. CameraTypes'
    BY <1>27 DEF PrepareFails, Receive, AfterStop, ToEncoder, Handling, CreateEncoder, Available,
       CameraTypes
  <2>2. EncoderTypes'
    BY <1>27 DEF PrepareFails, Receive, AfterStop, ToEncoder, Handling, CreateEncoder, Available,
       EncoderTypes, FileTypes
  <2>3. /\ UsbTypes' /\ ActivityTypes' /\ FileTypes' /\ CheckTypes'
        /\ UiTypes' /\ InboxType' /\ DiskTypes'
    BY <1>27 DEF PrepareFails, Receive, AfterStop, ToEncoder, Handling, CreateEncoder, UsbTypes,
       ActivityTypes, FileTypes, CheckTypes, UiTypes, InboxType, DiskTypes
  <2>4. QED
    BY <2>1, <2>2, <2>3, TypesTogether
<1>28. CASE StartRecording
  <2>1. ActivityTypes'
    BY <1>28 DEF StartRecording, SetCameraFile, SetFile, ActivityTypes
  <2>2. FileTypes'
    BY <1>28 DEF StartRecording, SetCameraFile, SetFile, FileTypes
  <2>3. CheckTypes'
    BY <1>28 DEF StartRecording, SetCameraFile, SetFile, CheckTypes
  <2>4. UiTypes'
    BY <1>28 DEF StartRecording, SetCameraFile, SetFile, UiTypes
  <2>5. DiskTypes'
    BY <1>28 DEF StartRecording, SetCameraFile, SetFile, DiskTypes
  <2>6. UsbTypes' /\ InboxType' /\ CameraTypes' /\ EncoderTypes'
    BY <1>28 DEF StartRecording, SetCameraFile, SetFile, UsbTypes, InboxType, CameraTypes,
       EncoderTypes
  <2>7. QED
    BY <2>1, <2>2, <2>3, <2>4, <2>5, <2>6, TypesTogether
<1>29. CASE CameraReady
  <2>1. ActivityTypes'
    BY <1>29 DEF CameraReady, SetCameraFile, SetFile, ActivityTypes
  <2>2. FileTypes'
    BY <1>29 DEF CameraReady, SetCameraFile, SetFile, FileTypes
  <2>3. CheckTypes'
    BY <1>29 DEF CameraReady, SetCameraFile, SetFile, CheckTypes
  <2>4. UiTypes'
    BY <1>29 DEF CameraReady, SetCameraFile, SetFile, UiTypes
  <2>5. DiskTypes'
    BY <1>29 DEF CameraReady, SetCameraFile, SetFile, DiskTypes
  <2>6. UsbTypes' /\ InboxType' /\ CameraTypes' /\ EncoderTypes'
    BY <1>29 DEF CameraReady, SetCameraFile, SetFile, UsbTypes, InboxType, CameraTypes,
       EncoderTypes
  <2>7. QED
    BY <2>1, <2>2, <2>3, <2>4, <2>5, <2>6, TypesTogether
<1>30. CASE NextFile
  <2>1. FileTypes'
    BY <1>30 DEF NextFile, SetCameraFile, SetFile, FileTypes
  <2>2. CheckTypes'
    BY <1>30 DEF NextFile, SetCameraFile, SetFile, CheckTypes
  <2>3. UiTypes'
    BY <1>30 DEF NextFile, SetCameraFile, SetFile, UiTypes
  <2>4. DiskTypes'
    BY <1>30 DEF NextFile, SetCameraFile, SetFile, DiskTypes
  <2>5. UsbTypes' /\ ActivityTypes' /\ InboxType' /\ CameraTypes' /\ EncoderTypes'
    BY <1>30 DEF NextFile, SetCameraFile, SetFile, UsbTypes, ActivityTypes, InboxType,
       CameraTypes, EncoderTypes
  <2>6. QED
    BY <2>1, <2>2, <2>3, <2>4, <2>5, TypesTogether
<1>31. CASE StopRecording
  BY <1>31 DEF StopRecording, SetFile, TypeOK, UsbTypes, ActivityTypes, FileTypes, CheckTypes,
     UiTypes, InboxType, CameraTypes, EncoderTypes, DiskTypes
<1>32. CASE FileCheck
  BY <1>32 DEF FileCheck, TypeOK, UsbTypes, ActivityTypes, FileTypes, CheckTypes, UiTypes,
     InboxType, CameraTypes, EncoderTypes, DiskTypes
<1>33. CASE Reopen
  <2>1. ActivityTypes'
    BY <1>33 DEF Reopen, ActivityTypes
  <2>2. InboxType'
    BY <1>33 DEF Reopen, InboxType
  <2>3. /\ UsbTypes' /\ FileTypes' /\ CheckTypes' /\ UiTypes'
        /\ CameraTypes' /\ EncoderTypes' /\ DiskTypes'
    BY <1>33 DEF Reopen, UsbTypes, FileTypes, CheckTypes, UiTypes, CameraTypes, EncoderTypes,
       DiskTypes
  <2>4. QED
    BY <2>1, <2>2, <2>3, TypesTogether
<1>34. ASSUME NEW e \in Encoders, Read(e)
      PROVE  TypeOK'
  <2>1. CheckTypes'
    BY <1>34 DEF Read, EncGoto, CheckTypes
  <2>2. EncoderTypes'
    BY <1>34 DEF Read, EncGoto, EncoderTypes
  <2>3. /\ UsbTypes' /\ ActivityTypes' /\ FileTypes' /\ UiTypes'
        /\ InboxType' /\ CameraTypes' /\ DiskTypes'
    BY <1>34 DEF Read, EncGoto, UsbTypes, ActivityTypes, FileTypes, UiTypes, InboxType,
       CameraTypes, DiskTypes
  <2>4. QED
    BY <2>1, <2>2, <2>3, TypesTogether
<1>35. ASSUME NEW e \in Encoders, Wait(e)
      PROVE  TypeOK'
  <2>1. EncoderTypes'
    BY <1>35 DEF Wait, EncGoto, EncoderTypes
  <2>2. /\ UsbTypes' /\ ActivityTypes' /\ FileTypes' /\ CheckTypes'
        /\ UiTypes' /\ InboxType' /\ CameraTypes' /\ DiskTypes'
    BY <1>35 DEF Wait, EncGoto, UsbTypes, ActivityTypes, FileTypes, CheckTypes, UiTypes,
       InboxType, CameraTypes, DiskTypes
  <2>3. QED
    BY <2>1, <2>2, TypesTogether
<1>36. ASSUME NEW e \in Encoders, OnStopped(e)
      PROVE  TypeOK'
  BY <1>36 DEF OnStopped, EncGoto, TypeOK, UsbTypes, ActivityTypes, FileTypes, CheckTypes,
     UiTypes, InboxType, CameraTypes, EncoderTypes, DiskTypes
<1>37. ASSUME NEW e \in Encoders, OnStopRecording(e)
      PROVE  TypeOK'
  BY <1>37 DEF OnStopRecording, EncGoto, TypeOK, UsbTypes, ActivityTypes, FileTypes, CheckTypes,
     UiTypes, InboxType, CameraTypes, EncoderTypes, DiskTypes
<1>38. ASSUME NEW e \in Encoders, SendNext(e)
      PROVE  TypeOK'
  <2>1. InboxType'
    BY <1>38 DEF SendNext, EncGoto, InboxType
  <2>2. EncoderTypes'
    BY <1>38 DEF SendNext, EncGoto, EncoderTypes
  <2>3. /\ UsbTypes' /\ ActivityTypes' /\ FileTypes' /\ CheckTypes'
        /\ UiTypes' /\ CameraTypes' /\ DiskTypes'
    BY <1>38 DEF SendNext, EncGoto, UsbTypes, ActivityTypes, FileTypes, CheckTypes, UiTypes,
       CameraTypes, DiskTypes
  <2>4. QED
    BY <2>1, <2>2, <2>3, TypesTogether
<1>39. ASSUME NEW e \in Encoders, Rename(e)
      PROVE  TypeOK'
  BY <1>39 DEF Rename, EncGoto, TypeOK, UsbTypes, ActivityTypes, FileTypes, CheckTypes, UiTypes,
     InboxType, CameraTypes, EncoderTypes, DiskTypes
<1>40. ASSUME NEW e \in Encoders, Finish(e)
      PROVE  TypeOK'
  <2>1. EncoderTypes'
    BY <1>40 DEF Finish, EncGoto, EncoderTypes
  <2>2. DiskTypes'
    BY <1>40 DEF Finish, EncGoto, DiskTypes
  <2>3. /\ UsbTypes' /\ ActivityTypes' /\ FileTypes' /\ CheckTypes'
        /\ UiTypes' /\ InboxType' /\ CameraTypes'
    BY <1>40 DEF Finish, EncGoto, UsbTypes, ActivityTypes, FileTypes, CheckTypes, UiTypes,
       InboxType, CameraTypes
  <2>4. QED
    BY <2>1, <2>2, <2>3, TypesTogether
<1>41. ASSUME NEW e \in Encoders, Frame(e)
      PROVE  TypeOK'
  BY <1>41 DEF Frame, TypeOK, UsbTypes, ActivityTypes, FileTypes, CheckTypes, UiTypes,
     InboxType, CameraTypes, EncoderTypes, DiskTypes
<1>42. CASE UNCHANGED vars
  BY <1>42 DEF vars, TypeOK, UsbTypes, ActivityTypes, FileTypes, CheckTypes, UiTypes, InboxType,
     CameraTypes, EncoderTypes, DiskTypes
<1>43. QED
  BY <1>1, <1>2, <1>3, <1>4, <1>5, <1>6, <1>7, <1>8, <1>9, <1>10, <1>11, <1>12, <1>13, <1>14,
     <1>15, <1>16, <1>17, <1>18, <1>19, <1>20, <1>21, <1>22, <1>23, <1>24, <1>25, <1>26, <1>27,
     <1>28, <1>29, <1>30, <1>31, <1>32, <1>33, <1>34, <1>35, <1>36, <1>37, <1>38, <1>39, <1>40,
     <1>41, <1>42
  DEF Next, Usb, Ui, CameraThread, StartFails, Encoder
-------------------------------------------------------------------------------
(* The actions that leave the camera thread's variables and the encoder    *)
(* threads alone.                                                          *)
LEMMA Elsewhere ==
  ASSUME \/ Usb \/ Ui \/ HandleNothing \/ HandleStartPreview
         \/ StartRecording \/ CameraReady \/ NextFile \/ StopRecording \/ FileCheck \/ Reopen
  PROVE  /\ UNCHANGED <<camPc, muxer, fresh, viewEncoder, encPc, encFile, stop>>
         /\ UNCHANGED camera
<1> USE DEF cameraVars, encoderVars
<1>1. CASE Usb
  BY <1>1 DEF Usb, Plug, Unplug, Connect, AddCallback
<1>2. CASE Ui
  BY <1>2 DEF Ui, SetFileTest, SetFileBegin, Halt, Closing, StopPreview, StopAgain, WaitPreview,
     PreviewStopped
<1>3. CASE HandleNothing
  BY <1>3 DEF HandleNothing
<1>4. CASE HandleStartPreview
  BY <1>4 DEF HandleStartPreview
<1>5. CASE StartRecording
  BY <1>5 DEF StartRecording, SetCameraFile
<1>6. CASE CameraReady \/ NextFile
  BY <1>6 DEF CameraReady, NextFile, SetCameraFile
<1>7. CASE StopRecording \/ FileCheck \/ Reopen
  BY <1>7 DEF StopRecording, FileCheck, Reopen
<1>8. QED
  BY <1>1, <1>2, <1>3, <1>4, <1>5, <1>6, <1>7

(* An encoder thread leaves what the camera thread has in hand alone, but  *)
(* may take the encoder from the camera view.                              *)
LEMMA EncoderElsewhere ==
  ASSUME NEW e \in Encoders, Encoder(e) \/ Frame(e)
  PROVE  /\ UNCHANGED <<camPc, camera, muxer, fresh, stop, previewing, uiPc>>
         /\ viewEncoder' = viewEncoder \/ viewEncoder' = None
  BY DEF Encoder, Read, Wait, OnStopped, OnStopRecording, SendNext, Rename, Finish, Frame,
     cameraVars, uiVars

(* Starting and stopping an encoder take several steps of the camera       *)
(* thread, and nothing else opens or closes the camera.                    *)
LEMMA NextInHand ==
  TypeOK /\ InHand /\ MuxerHasCamera /\ FramesGoToRecorder /\ [Next]_vars => InHand'
<1> SUFFICES ASSUME TypeOK, InHand, MuxerHasCamera, FramesGoToRecorder, [Next]_vars
             PROVE  InHand'
  OBVIOUS
<1> USE ConstantsAssumption DEF InHand, FramesGoToRecorder, cameraVars
<1>1. muxer \in Encoders \cup {None} /\ fresh \in Encoders \cup {None}
  BY DEF TypeOK
<1>2. CASE UNCHANGED <<camPc, muxer, fresh, viewEncoder>>
  BY <1>2
<1>3. CASE HandleStopRecording
  BY <1>3 DEF HandleStopRecording
<1>4. CASE ClearView
  BY <1>4 DEF ClearView, ToEncoder, AfterStop
<1>5. CASE AskToStop
  BY <1>5 DEF AskToStop, AfterStop
<1>6. CASE HandleClose \/ HandleLost \/ HandleOpen \/ HandleClosed
  BY <1>6 DEF HandleClose, HandleLost, HandleOpen, HandleClosed
<1>7. CASE HandleStopPreview \/ CreateFails
  BY <1>2, <1>7 DEF HandleStopPreview, CreateFails
<1>8. CASE HandleStart
  <2>1. camPc = "idle" /\ muxer = None /\ fresh = None /\ viewEncoder = None
    BY <1>8 DEF HandleStart, Receive
  <2>2. camPc' = "preparing" /\ muxer' = muxer /\ fresh' \in Encoders /\ viewEncoder' = viewEncoder
    BY <1>8 DEF HandleStart, CreateEncoder
  <2>3. QED
    BY <2>1, <2>2
<1>9. CASE Prepared \/ PrepareFails \/ Started
  BY <1>9 DEF Prepared, PrepareFails, Started
<1>10. ASSUME NEW e \in Encoders, Encoder(e) \/ Frame(e)
       PROVE  InHand'
  BY <1>10, EncoderElsewhere
<1>11. CASE UNCHANGED vars
  BY <1>2, <1>11 DEF vars
<1>12. QED
  BY <1>2, <1>3, <1>4, <1>5, <1>6, <1>7, <1>8, <1>9, <1>10, <1>11, Elsewhere
  DEF Next, CameraThread, StartFails

\* An encoder thread is started with the file at hand, and gives it up only when
\* it is over, lost or was never prepared.
LEMMA NextWriting == TypeOK /\ InHand /\ Writing /\ [Next]_vars => Writing'
<1> DEFINE Over == {"free", "lost", "failed"}
<1> SUFFICES ASSUME TypeOK, InHand, Writing, [Next]_vars, NEW e \in Encoders, encPc'[e] \notin Over
             PROVE  encFile'[e] # None
  BY DEF Writing
<1>1. /\ encPc \in [Encoders -> EncLabels] /\ encFile \in [Encoders -> Files \cup {None}]
      /\ encPc[e] \notin Over => encFile[e] # None
  BY DEF TypeOK, Writing
<1>2. ASSUME encFile'[e] = encFile[e], encPc[e] \in Over => encPc'[e] = encPc[e]
      PROVE  encFile'[e] # None
  BY <1>1, <1>2
<1>3. CASE UNCHANGED <<encPc, encFile>>
  BY <1>2, <1>3
<1>4. CASE HandleStart
  <2>1. PICK d \in Encoders : /\ encPc' = [encPc EXCEPT ![d] = "read"]
                              /\ encFile' = [encFile EXCEPT ![d] = outFile]
    BY <1>4 DEF HandleStart, CreateEncoder
  <2>2. outFile # None
    BY <1>4 DEF HandleStart
  <2>3. CASE e = d
    BY <1>1, <2>1, <2>2, <2>3
  <2>4. CASE e # d
    <3>1. encPc'[e] = encPc[e] /\ encFile'[e] = encFile[e]
      BY <1>1, <2>1, <2>4
    <3>2. QED
      BY <1>2, <3>1
  <2>5. QED
    BY <2>3, <2>4
<1>5. CASE AskToStop \/ Prepared
  <2>1. /\ encPc' = [encPc EXCEPT ![fresh] = IF @ = "wait" THEN "read" ELSE @]
        /\ encFile' = encFile
    BY <1>5 DEF AskToStop, Prepared
  <2>2. encPc[e] \in Over => encPc'[e] = encPc[e]
    BY <1>1, <2>1
  <2>3. QED
    BY <1>2, <2>1, <2>2
<1>6. CASE PrepareFails
  <2>1. /\ encPc' = [encPc EXCEPT ![fresh] = "failed"]
        /\ encFile' = [encFile EXCEPT ![fresh] = None]
    BY <1>6 DEF PrepareFails
  <2>2. e # fresh
    BY <1>1, <2>1
  <2>3. encPc'[e] = encPc[e] /\ encFile'[e] = encFile[e]
    BY <1>1, <2>1, <2>2
  <2>4. QED
    BY <1>2, <2>3
<1>7. CASE \/ HandleStopRecording \/ ClearView \/ HandleClose \/ HandleLost \/ HandleOpen
           \/ HandleClosed \/ HandleStopPreview \/ CreateFails \/ Started
  BY <1>3, <1>7 DEF HandleStopRecording, ClearView, HandleClose, HandleLost, HandleOpen,
     HandleClosed, HandleStopPreview, CreateFails, Started, encoderVars
<1>8. ASSUME NEW d \in Encoders, Encoder(d)
      PROVE  encFile'[e] # None
  <2>1. CASE Wait(d)
    BY <1>1, <2>1 DEF Wait, EncGoto
  <2>2. CASE Finish(d)
    BY <1>1, <2>2 DEF Finish, EncGoto
  <2>3. CASE Read(d) \/ OnStopped(d) \/ OnStopRecording(d) \/ SendNext(d) \/ Rename(d)
    <3>1. encFile' = encFile /\ encPc[d] \notin Over /\ (e # d => encPc'[e] = encPc[e])
      BY <1>1, <2>3 DEF Read, OnStopped, OnStopRecording, SendNext, Rename, EncGoto
    <3>2. QED
      BY <1>2, <3>1
  <2>4. QED
    BY <1>8, <2>1, <2>2, <2>3 DEF Encoder
<1>9. ASSUME NEW d \in Encoders, Frame(d)
      PROVE  encFile'[e] # None
  <2>1. encFile' = encFile /\ encPc' = [encPc EXCEPT ![d] = IF @ = "wait" THEN "read" ELSE @]
    BY <1>9 DEF Frame
  <2>2. encPc[e] \in Over => encPc'[e] = encPc[e]
    BY <1>1, <2>1
  <2>3. QED
    BY <1>2, <2>1, <2>2
<1>10. CASE UNCHANGED vars
  BY <1>3, <1>10 DEF vars, encoderVars
<1>11. QED
  BY <1>3, <1>4, <1>5, <1>6, <1>7, <1>8, <1>9, <1>10, Elsewhere
  DEF Next, CameraThread, StartFails

\* The muxer comes from an encoder started while the camera was open, and the camera
\* is closed only when its encoder has been asked to stop.
LEMMA NextMuxer == InHand /\ MuxerHasCamera /\ [Next]_vars => MuxerHasCamera'
<1> SUFFICES ASSUME InHand, MuxerHasCamera, [Next]_vars
             PROVE  MuxerHasCamera'
  OBVIOUS
<1> USE DEF InHand, MuxerHasCamera, cameraVars
<1>1. CASE UNCHANGED <<muxer, fresh, camera>>
  BY <1>1
<1>2. CASE HandleStopRecording \/ AskToStop
  BY <1>2 DEF HandleStopRecording, AskToStop
<1>3. CASE HandleClose
  BY <1>3 DEF HandleClose
<1>4. CASE HandleOpen
  BY <1>4 DEF HandleOpen
<1>5. CASE HandleStart
  BY <1>5 DEF HandleStart, CreateEncoder
<1>6. CASE PrepareFails \/ Started
  BY <1>6 DEF PrepareFails, Started
<1>7. CASE ClearView \/ HandleLost \/ HandleClosed \/ HandleStopPreview \/ CreateFails \/ Prepared
  BY <1>1, <1>7 DEF ClearView, HandleLost, HandleClosed, HandleStopPreview, CreateFails, Prepared
<1>8. ASSUME NEW e \in Encoders, Encoder(e) \/ Frame(e)
      PROVE  UNCHANGED <<muxer, fresh, camera>>
  BY <1>8, EncoderElsewhere
<1>9. CASE UNCHANGED vars
  BY <1>1, <1>9 DEF vars
<1>10. QED
  BY <1>1, <1>2, <1>3, <1>4, <1>5, <1>6, <1>7, <1>8, <1>9, Elsewhere
  DEF Next, CameraThread, StartFails

\* Whoever takes the muxer away keeps its encoder in hand until it has been asked to
\* stop, and a new encoder is started only when there is none.
LEMMA NextOrphan == TypeOK /\ InHand /\ NoOrphan /\ [Next]_vars => NoOrphan'
<1> SUFFICES ASSUME TypeOK, InHand, NoOrphan, [Next]_vars, NEW e \in Encoders,
                    encPc'[e] # "free", ~stop'[e]
             PROVE  e \in {muxer', fresh'} \/ encPc'[e] = "failed"
  BY DEF NoOrphan, Alive
<1> USE ConstantsAssumption
<1>1. /\ encPc \in [Encoders -> EncLabels] /\ stop \in [Encoders -> BOOLEAN]
      /\ encPc[e] # "free" /\ ~stop[e] => e \in {muxer, fresh} \/ encPc[e] = "failed"
  BY DEF TypeOK, NoOrphan, Alive
<1>2. ASSUME stop'[e] = stop[e], encPc[e] \in {"free", "failed"} => encPc'[e] = encPc[e],
             e \in {muxer, fresh} => e \in {muxer', fresh'} \/ encPc'[e] = "failed"
      PROVE  e \in {muxer', fresh'} \/ encPc'[e] = "failed"
  BY <1>1, <1>2
<1>3. CASE UNCHANGED <<encPc, stop, muxer, fresh>>
  BY <1>2, <1>3
<1>4. CASE HandleStart
  <2>1. PICK d \in Encoders : /\ encPc' = [encPc EXCEPT ![d] = "read"] /\ fresh' = d
                              /\ stop' = [stop EXCEPT ![d] = FALSE]
    BY <1>4 DEF HandleStart, CreateEncoder
  <2>2. muxer = None /\ fresh = None
    BY <1>4 DEF HandleStart, Receive, InHand
  <2>3. CASE e # d
    <3>1. encPc'[e] = encPc[e] /\ stop'[e] = stop[e]
      BY <1>1, <2>1, <2>3
    <3>2. QED
      BY <1>1, <2>2, <3>1
  <2>4. QED
    BY <2>1, <2>3
<1>5. CASE HandleStopRecording
  <2>1. muxer' = None /\ fresh' = muxer /\ encPc' = encPc /\ stop' = stop /\ fresh = None
    BY <1>5 DEF HandleStopRecording, InHand, encoderVars
  <2>2. QED
    BY <1>2, <2>1
<1>6. CASE AskToStop
  <2>1. /\ encPc' = [encPc EXCEPT ![fresh] = IF @ = "wait" THEN "read" ELSE @]
        /\ stop' = [stop EXCEPT ![fresh] = TRUE]
        /\ muxer = None
    BY <1>6 DEF AskToStop, InHand
  <2>2. e # fresh
    BY <1>1, <2>1
  <2>3. encPc'[e] = encPc[e] /\ stop'[e] = stop[e]
    BY <1>1, <2>1, <2>2
  <2>4. QED
    BY <1>1, <2>1, <2>2, <2>3
<1>7. CASE Prepared
  <2>1. /\ encPc' = [encPc EXCEPT ![fresh] = IF @ = "wait" THEN "read" ELSE @]
        /\ stop' = stop /\ muxer' = muxer /\ fresh' = fresh
    BY <1>7 DEF Prepared
  <2>2. encPc[e] \in {"free", "failed"} => encPc'[e] = encPc[e]
    BY <1>1, <2>1
  <2>3. QED
    BY <1>2, <2>1, <2>2
<1>8. CASE PrepareFails
  <2>1. /\ encPc' = [encPc EXCEPT ![fresh] = "failed"]
        /\ stop' = stop /\ muxer' = muxer /\ muxer = None
    BY <1>8 DEF PrepareFails, InHand
  <2>2. CASE e = fresh
    BY <1>1, <2>1, <2>2
  <2>3. CASE e # fresh
    <3>1. encPc'[e] = encPc[e]
      BY <1>1, <2>1, <2>3
    <3>2. QED
      BY <1>1, <2>1, <2>3, <3>1
  <2>4. QED
    BY <2>2, <2>3
<1>9. CASE Started
  <2>1. muxer' = fresh /\ encPc' = encPc /\ stop' = stop /\ muxer = None
    BY <1>9 DEF Started, InHand, encoderVars
  <2>2. QED
    BY <1>1, <2>1
<1>10. CASE \/ ClearView \/ HandleClose \/ HandleLost \/ HandleOpen \/ HandleClosed
            \/ HandleStopPreview \/ CreateFails
  BY <1>3, <1>10 DEF ClearView, HandleClose, HandleLost, HandleOpen, HandleClosed,
     HandleStopPreview, CreateFails, cameraVars, encoderVars
<1>11. ASSUME NEW d \in Encoders, Encoder(d)
       PROVE  e \in {muxer', fresh'} \/ encPc'[e] = "failed"
  <2>1. /\ stop' = stop /\ muxer' = muxer /\ fresh' = fresh
        /\ encPc[d] \notin {"free", "failed"} /\ (e # d => encPc'[e] = encPc[e])
    BY <1>1, <1>11 DEF Encoder, Read, Wait, OnStopped, OnStopRecording, SendNext, Rename, Finish,
       EncGoto, cameraVars
  <2>2. QED
    BY <1>2, <2>1
<1>12. ASSUME NEW d \in Encoders, Frame(d)
       PROVE  e \in {muxer', fresh'} \/ encPc'[e] = "failed"
  <2>1. /\ stop' = stop /\ muxer' = muxer /\ fresh' = fresh
        /\ encPc' = [encPc EXCEPT ![d] = IF @ = "wait" THEN "read" ELSE @]
    BY <1>12 DEF Frame, cameraVars
  <2>2. encPc[e] \in {"free", "failed"} => encPc'[e] = encPc[e]
    BY <1>1, <2>1
  <2>3. QED
    BY <1>2, <2>1, <2>2
<1>13. CASE UNCHANGED vars
  BY <1>3, <1>13 DEF vars, cameraVars, encoderVars
<1>14. QED
  BY <1>3, <1>4, <1>5, <1>6, <1>7, <1>8, <1>9, <1>10, <1>11, <1>12, <1>13, Elsewhere
  DEF Next, CameraThread, StartFails

\* The view gets the encoder that is being started, and loses it before that encoder
\* is asked to stop.
LEMMA NextFrames == InHand /\ FramesGoToRecorder /\ [Next]_vars => FramesGoToRecorder'
<1> SUFFICES ASSUME InHand, FramesGoToRecorder, [Next]_vars
             PROVE  FramesGoToRecorder'
  OBVIOUS
<1> USE DEF InHand, FramesGoToRecorder, cameraVars
<1>1. CASE UNCHANGED <<viewEncoder, muxer, fresh>>
  BY <1>1
<1>2. CASE HandleStart
  BY <1>2 DEF HandleStart, Receive, CreateEncoder
<1>3. CASE HandleStopRecording
  BY <1>3 DEF HandleStopRecording
<1>4. CASE ClearView
  BY <1>4 DEF ClearView
<1>5. CASE AskToStop \/ Prepared \/ PrepareFails \/ Started
  BY <1>5 DEF AskToStop, Prepared, PrepareFails, Started
<1>6. CASE \/ HandleClose \/ HandleLost \/ HandleOpen \/ HandleClosed \/ HandleStopPreview
           \/ CreateFails
  BY <1>1, <1>6 DEF HandleClose, HandleLost, HandleOpen, HandleClosed, HandleStopPreview,
     CreateFails
<1>7. ASSUME NEW e \in Encoders, Encoder(e) \/ Frame(e)
      PROVE  FramesGoToRecorder'
  BY <1>7, EncoderElsewhere
<1>8. CASE UNCHANGED vars
  BY <1>1, <1>8 DEF vars
<1>9. QED
  BY <1>1, <1>2, <1>3, <1>4, <1>5, <1>6, <1>7, <1>8, Elsewhere
  DEF Next, CameraThread, StartFails
-------------------------------------------------------------------------------
(* The message that wakes the UI thread.                                   *)

LEMMA StaysBehind ==
  ASSUME NEW q \in Seq(Messages), NEW r \in Seq(Messages), NEW m, Contains(q, m)
  PROVE  Contains(q \o r, m)
<1>1. PICK i \in 1 .. Len(q) : q[i] = m
  BY DEF Contains
<1>2. i \in 1 .. Len(q \o r) /\ (q \o r)[i] = m
  BY <1>1
<1>3. QED
  BY <1>2 DEF Contains

LEMMA StaysAfterSend ==
  ASSUME NEW q \in Seq(Messages), NEW n \in Messages, NEW m, Contains(q, m)
  PROVE  Contains(Append(q, n), m)
<1>1. PICK i \in 1 .. Len(q) : q[i] = m
  BY DEF Contains
<1>2. i \in 1 .. Len(Append(q, n)) /\ Append(q, n)[i] = m
  BY <1>1
<1>3. QED
  BY <1>2 DEF Contains

LEMMA ComesForward ==
  ASSUME NEW q \in Seq(Messages), NEW m, Contains(q, m), q # <<>>, Head(q) # m
  PROVE  Contains(Tail(q), m)
<1>1. PICK i \in 1 .. Len(q) : q[i] = m
  BY DEF Contains
<1>2. i # 1
  BY <1>1
<1>3. i - 1 \in 1 .. Len(Tail(q)) /\ Tail(q)[i - 1] = m
  BY <1>1, <1>2
<1>4. QED
  BY <1>3 DEF Contains

LEMMA Arrives ==
  ASSUME NEW q \in Seq(Messages), NEW m \in Messages
  PROVE  Contains(Append(q, m), m)
<1>1. Len(q) + 1 \in 1 .. Len(Append(q, m)) /\ Append(q, m)[Len(q) + 1] = m
  OBVIOUS
<1>2. QED
  BY <1>1 DEF Contains

(* Only the UI thread can begin to wait, with the message it has just sent; *)
(* every other thread appends to the inbox or takes the message at its head *)
(* away, and the one that handles PREVIEW_STOP wakes the UI thread.         *)
LEMMA NextWoken == TypeOK /\ UiIsWoken /\ [Next]_vars => UiIsWoken'
<1> SUFFICES ASSUME TypeOK, UiIsWoken, [Next]_vars, uiPc' = "wait"
             PROVE  previewing' /\ Contains(inbox', "PREVIEW_STOP")
  BY DEF UiIsWoken
<1> USE DEF Messages, usbVars, activityVars, uiVars, cameraVars
<1>0. /\ inbox \in Seq(Messages)
      /\ uiPc = "wait" => previewing /\ Contains(inbox, "PREVIEW_STOP")
      /\ <<"PREVIEW_START">> \in Seq(Messages) /\ <<>> \in Seq(Messages)
  BY DEF TypeOK, UiIsWoken
<1>1. CASE WaitPreview
  <2>1. previewing' /\ inbox' = Append(inbox, "PREVIEW_STOP")
    BY <1>1 DEF WaitPreview, Send
  <2>2. QED
    BY <1>0, <2>1, Arrives
<1>2. ASSUME uiPc = "wait", previewing' = previewing,
             \/ inbox' = inbox
             \/ \E m \in Messages : inbox' = Append(inbox, m)
             \/ \E m \in Messages :
                  /\ inbox # <<>> /\ Head(inbox) = m /\ m # "PREVIEW_STOP"
                  /\ inbox' = Tail(inbox)
      PROVE  previewing' /\ Contains(inbox', "PREVIEW_STOP")
  BY <1>0, <1>2, StaysAfterSend, ComesForward
<1>3. CASE Usb
  <2>1. uiPc = "wait" /\ previewing' = previewing
    BY <1>3 DEF Usb, Plug, Unplug, Connect, AddCallback
  <2>2. inbox' = inbox \/ inbox' = Append(inbox, "OPEN")
    BY <1>3 DEF Usb, Plug, Unplug, Connect, AddCallback, Send
  <2>3. QED
    BY <1>2, <2>1, <2>2
<1>4. CASE \/ SetFileTest \/ SetFileBegin \/ Halt \/ Closing \/ StopPreview \/ StopAgain
           \/ PreviewStopped
  BY <1>4 DEF SetFileTest, SetFileBegin, Halt, Closing, AfterClose, StopPreview, StopAgain,
     PreviewStopped
<1>5. CASE StartRecording \/ CameraReady \/ NextFile \/ StopRecording \/ FileCheck
  <2>1. uiPc' # uiPc \/ uiPc = "wait"
    OBVIOUS
  <2>2. CASE StartRecording
    <3>1. uiPc' \in {uiPc, "test"} /\ inbox' = inbox /\ previewing' = previewing
      BY <2>2 DEF StartRecording, SetCameraFile, SetFile
    <3>2. QED
      BY <1>2, <3>1
  <2>3. CASE CameraReady \/ NextFile \/ StopRecording
    BY <2>3 DEF CameraReady, NextFile, StopRecording, SetCameraFile, SetFile
  <2>4. CASE FileCheck
    BY <2>4 DEF FileCheck
  <2>5. QED
    BY <1>5, <2>2, <2>3, <2>4
<1>6. CASE Reopen
  <2>1. uiPc = "wait" /\ previewing' = previewing /\ inbox' = Append(inbox, "OPEN")
    BY <1>6 DEF Reopen, Send
  <2>2. QED
    BY <1>2, <2>1
<1>7. CASE HandleStopRecording \/ HandleClose \/ Prepared \/ PrepareFails \/ Started
  <2>1. uiPc = "wait" /\ previewing' = previewing /\ inbox' = inbox
    BY <1>7 DEF HandleStopRecording, HandleClose, Prepared, PrepareFails, Started
  <2>2. QED
    BY <1>2, <2>1
<1>8. CASE ClearView \/ AskToStop
  <2>1. uiPc = "wait" /\ previewing' = previewing
    BY <1>8 DEF ClearView, AskToStop
  <2>2. inbox' = inbox \/ (inbox # <<>> /\ Head(inbox) = "STOP" /\ inbox' = Tail(inbox))
    BY <1>8 DEF ClearView, AskToStop, ToEncoder, AfterStop, Handling
  <2>3. QED
    BY <1>2, <2>1, <2>2
<1>9. CASE HandleLost
  <2>1. uiPc = "wait" /\ previewing' = previewing
    BY <1>9 DEF HandleLost
  <2>2. CASE inbox' = Append(inbox, "STOP")
    BY <1>2, <2>1, <2>2
  <2>3. CASE inbox # <<>> /\ Head(inbox) = "CLOSE" /\ inbox' = Append(Tail(inbox), "STOP")
    <3>1. Contains(Tail(inbox), "PREVIEW_STOP")
      BY <1>0, <2>1, <2>3, ComesForward
    <3>2. Tail(inbox) \in Seq(Messages)
      BY <1>0, <2>3, HeadTailProperties
    <3>3. QED
      BY <1>0, <2>1, <2>3, <3>1, <3>2, StaysAfterSend
  <2>4. QED
    BY <1>9, <2>2, <2>3 DEF HandleLost, Handling, Send
<1>10. CASE HandleOpen
  <2>1. uiPc = "wait" /\ previewing' = previewing /\ inbox # <<>> /\ Head(inbox) = "OPEN"
    BY <1>10 DEF HandleOpen, Handling
  <2>2. PICK r \in Seq(Messages) : inbox' = Tail(inbox) \o r
    BY <1>0, <1>10 DEF HandleOpen
  <2>3. Contains(Tail(inbox), "PREVIEW_STOP") /\ Tail(inbox) \in Seq(Messages)
    BY <1>0, <2>1, ComesForward, HeadTailProperties
  <2>4. QED
    BY <1>0, <2>1, <2>2, <2>3, StaysBehind
<1>11. CASE HandleClosed
  <2>1. uiPc = "wait" /\ previewing' = previewing
    BY <1>11 DEF HandleClosed
  <2>2. inbox # <<>> /\ Head(inbox) \in {"CLOSE", "OPEN"} /\ inbox' = Tail(inbox)
    BY <1>11 DEF HandleClosed, Handling
  <2>3. QED
    BY <1>2, <2>1, <2>2
<1>12. CASE HandleNothing
  <2>1. uiPc = "wait" /\ previewing' = previewing
    BY <1>12 DEF HandleNothing
  <2>2. inbox # <<>> /\ Head(inbox) \in {"PREVIEW_START", "START"} /\ inbox' = Tail(inbox)
    BY <1>0, <1>12, <2>1 DEF HandleNothing, Receive, Handling
  <2>3. QED
    BY <1>2, <2>1, <2>2
<1>13. CASE HandleStartPreview
  BY <1>0, <1>13 DEF HandleStartPreview
<1>14. CASE HandleStopPreview
  BY <1>14 DEF HandleStopPreview
<1>15. CASE HandleStart \/ CreateFails
  <2>1. uiPc = "wait" /\ previewing' = previewing
    BY <1>15 DEF HandleStart, CreateEncoder, CreateFails
  <2>2. inbox # <<>> /\ Head(inbox) = "START" /\ inbox' = Tail(inbox)
    BY <1>15 DEF HandleStart, CreateFails, Receive, Handling
  <2>3. QED
    BY <1>2, <2>1, <2>2
<1>16. ASSUME NEW e \in Encoders, Encoder(e) \/ Frame(e)
       PROVE  previewing' /\ Contains(inbox', "PREVIEW_STOP")
  <2>1. inbox' = inbox \/ inbox' = Append(inbox, "START")
    BY <1>16 DEF Encoder, Read, Wait, OnStopped, OnStopRecording, SendNext, Rename, Finish, Frame,
       Send
  <2>2. QED
    BY <1>2, <1>16, <2>1, EncoderElsewhere
<1>17. CASE UNCHANGED vars
  BY <1>2, <1>17 DEF vars
<1>18. QED
  BY <1>1, <1>3, <1>4, <1>5, <1>6, <1>7, <1>8, <1>9, <1>10, <1>11, <1>12, <1>13, <1>14, <1>15,
     <1>16, <1>17
  DEF Next, Ui, CameraThread, StartFails

LEMMA NextIInv == IInv /\ [Next]_vars => IInv'
  BY NextType, NextInHand, NextWriting, NextMuxer, NextOrphan, NextFrames, NextWoken DEF IInv
-------------------------------------------------------------------------------
\* Type correctness of recording from a USB camera.
THEOREM TypeCorrect == Spec => []TypeOK
<1>1. IInv => TypeOK
  BY DEF IInv
<1>2. QED
  BY InitIInv, NextIInv, <1>1, PTL DEF Spec

(* handleStopRecording dereferences mUVCCamera whenever it has found a     *)
(* muxer: the camera is still open then, however often it is unplugged.    *)
THEOREM MuxerNeedsCamera == Spec => []MuxerHasCamera
<1>1. IInv => MuxerHasCamera
  BY DEF IInv
<1>2. QED
  BY InitIInv, NextIInv, <1>1, PTL DEF Spec

(* No encoder thread records for ever unseen: every one that has not been  *)
(* asked to stop is the muxer's, or the one the camera thread is starting  *)
(* or stopping, or one whose prepare() threw (handleStartRecording catches *)
(* the exception and forgets the encoder, whose thread runs already).      *)
THEOREM NobodyOrphaned == Spec => []NoOrphan
<1>1. IInv => NoOrphan
  BY DEF IInv
<1>2. QED
  BY InitIInv, NextIInv, <1>1, PTL DEF Spec

(* setVideoEncoder never leaves the camera view with the encoder of an     *)
(* earlier recording.                                                      *)
THEOREM FramesArrive == Spec => []FramesGoToRecorder
<1>1. IInv => FramesGoToRecorder
  BY DEF IInv
<1>2. QED
  BY InitIInv, NextIInv, <1>1, PTL DEF Spec

(* stopPreview does not leave the UI thread waiting for ever: the message  *)
(* that wakes it is on its way as long as it waits, whatever the camera    *)
(* thread handles before, closing and opening the camera included.         *)
THEOREM UiWoken == Spec => []UiIsWoken
<1>1. IInv => UiIsWoken
  BY DEF IInv
<1>2. QED
  BY InitIInv, NextIInv, <1>1, PTL DEF Spec
===============================================================================
