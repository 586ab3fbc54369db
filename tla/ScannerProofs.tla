---------------------------- MODULE ScannerProofs ----------------------------
(***************************************************************************)
(* Proofs about Scanner, for every set of codes and pictures and any       *)
(* number of queued frames: types, one decode at a time, a page that waits *)
(* for its image, controls that tell the truth, a hidden page without a    *)
(* camera, and the refinement of DecodeSlot.                               *)
(***************************************************************************)
EXTENDS Scanner, SequenceTheorems, TLAPS

-----------------------------------------------------------------------------
\* What the operations on jobs do when there is at most one job.

LEMMA QueueJob ==
    ASSUME NEW s \in Seq(Jobs), s = <<>>, NEW j \in Jobs
    PROVE  /\ Append(s, j) \in Seq(Jobs)
           /\ Len(Append(s, j)) = 1
           /\ Append(s, j) # <<>>
           /\ Append(s, j)[1] = j
OBVIOUS

LEMMA OnlyIndex ==
    ASSUME NEW n \in Nat, n <= 1, NEW i \in 1 .. n
    PROVE  n = 1 /\ i = 1
OBVIOUS

LEMMA RemoveOnlyJob ==
    ASSUME NEW s \in Seq(Jobs), Len(s) <= 1, NEW i \in 1 .. Len(s)
    PROVE  i = 1 /\ Without(s, i) = <<>>
<1>0. Len(s) \in Nat
  BY LenProperties
<1>1. Len(s) = 1 /\ i = 1
  BY <1>0, OnlyIndex
<1>2. SubSeq(s, 1, 0) = <<>> /\ SubSeq(s, 2, 1) = <<>>
  BY SubSeqEmpty
<1>3. Without(s, i) = SubSeq(s, 1, 0) \o SubSeq(s, 2, 1)
  BY <1>1 DEF Without
<1>4. Without(s, i) = <<>>
  BY <1>2, <1>3
<1>5. QED
  BY <1>1, <1>4

LEMMA DecodedType ==
    ASSUME NEW picture \in Pictures
    PROVE  Decode(picture) \in Outcomes
BY PicturesAssumption DEF Decode, Outcomes, Unread

\* A decoded code is neither of the two ends without a code.
LEMMA CodesAreTexts == \A c \in Codes : c \notin {"", "error", "pending"}
BY CodesAssumption

-----------------------------------------------------------------------------
(* The inductive invariant.                                                *)

LEMMA InitIInv == Init => IInv
<1> SUFFICES ASSUME Init PROVE IInv
  OBVIOUS
<1>1. 0 \in 0 .. MaxFrames /\ <<>> \in Seq(Jobs)
  BY MaxFramesAssumption
<1>2. FlagsTypeOK
  BY DEF Init, FlagsTypeOK
<1>3. DataTypeOK
  BY <1>1 DEF Init, DataTypeOK
<1>4. OneDecode /\ ImageKeepsPageWaiting
  <2>1. jobs = <<>> /\ busy = FALSE
    BY DEF Init
  <2>2. Len(jobs) = 0
    BY <2>1
  <2>3. QED
    BY <2>1, <2>2 DEF OneDecode, ImageKeepsPageWaiting
<1>5. ControlsTellTruth /\ CameraAllowed
  BY DEF Init, ControlsTellTruth, CameraAllowed
<1>6. QED
  BY <1>2, <1>3, <1>4, <1>5 DEF IInv, TypeOK

\* The actions of the user and the platform that leave the decoder alone.
PageAction ==
    \/ Activate \/ AnswerPermission \/ TurnOff \/ ToggleTorch
    \/ RevertTorch \/ FailCamera \/ PlugCamera \/ ChooseImage
    \/ CancelImage \/ Navigate \/ CloseDialog \/ ActivateEntry \/ ToggleSetting

\* Types, the decoder's conjuncts and the camera's, one action at a time.
LEMMA PageFlags ==
    FlagsTypeOK /\ PageAction => FlagsTypeOK'
<1> SUFFICES ASSUME FlagsTypeOK, PageAction PROVE FlagsTypeOK'
  OBVIOUS
<1> USE DEF FlagsTypeOK, StartCamera, StopCamera, LeavePage, camera, access,
        decoder, settings, results
<1>1. CASE Activate
  BY <1>1 DEF Activate
<1>2. CASE AnswerPermission
  BY <1>2 DEF AnswerPermission
<1>3. CASE TurnOff
  BY <1>3 DEF TurnOff
<1>4. CASE ToggleTorch
  BY <1>4 DEF ToggleTorch
<1>5. CASE RevertTorch
  BY <1>5 DEF RevertTorch
<1>6. CASE FailCamera
  BY <1>6 DEF FailCamera
<1>7. CASE PlugCamera
  BY <1>7 DEF PlugCamera
<1>8. CASE ChooseImage
  BY <1>8 DEF ChooseImage
<1>9. CASE CancelImage
  BY <1>9 DEF CancelImage
<1>10. CASE Navigate
  BY <1>10 DEF Navigate
<1>11. CASE CloseDialog
  BY <1>11 DEF CloseDialog
<1>12. CASE ActivateEntry
  BY <1>12 DEF ActivateEntry
<1>13. CASE ToggleSetting
  BY <1>13 DEF ToggleSetting
<1>14. QED
  BY <1>1, <1>2, <1>3, <1>4, <1>5, <1>6, <1>7, <1>8, <1>9, <1>10, <1>11,
     <1>12, <1>13 DEF PageAction

LEMMA PageData ==
    DataTypeOK /\ PageAction => DataTypeOK'
<1> SUFFICES ASSUME DataTypeOK, PageAction PROVE DataTypeOK'
  OBVIOUS
<1> USE DEF DataTypeOK, decoder, results
<1>1. CASE Activate
  BY <1>1 DEF Activate
<1>2. CASE AnswerPermission
  BY <1>2 DEF AnswerPermission
<1>3. CASE TurnOff
  BY <1>3 DEF TurnOff
<1>4. CASE ToggleTorch
  BY <1>4 DEF ToggleTorch
<1>5. CASE RevertTorch
  BY <1>5 DEF RevertTorch
<1>6. CASE FailCamera
  BY <1>6 DEF FailCamera
<1>7. CASE PlugCamera
  BY <1>7 DEF PlugCamera
<1>8. CASE ChooseImage
  BY <1>8 DEF ChooseImage
<1>9. CASE CancelImage
  BY <1>9 DEF CancelImage
<1>10. CASE Navigate
  BY <1>10 DEF Navigate
<1>11. CASE CloseDialog
  BY <1>11 DEF CloseDialog
<1>12. CASE ActivateEntry
  BY <1>12 DEF ActivateEntry
<1>13. CASE ToggleSetting
  BY <1>13 DEF ToggleSetting
<1>14. QED
  BY <1>1, <1>2, <1>3, <1>4, <1>5, <1>6, <1>7, <1>8, <1>9, <1>10, <1>11,
     <1>12, <1>13 DEF PageAction

LEMMA PageDecoder ==
    OneDecode /\ ImageKeepsPageWaiting /\ PageAction => OneDecode' /\ ImageKeepsPageWaiting'
<1> SUFFICES ASSUME OneDecode, ImageKeepsPageWaiting, PageAction PROVE OneDecode' /\ ImageKeepsPageWaiting'
  OBVIOUS
<1> USE DEF OneDecode, ImageKeepsPageWaiting, decoder
<1>1. CASE Activate
  BY <1>1 DEF Activate
<1>2. CASE AnswerPermission
  BY <1>2 DEF AnswerPermission
<1>3. CASE TurnOff
  BY <1>3 DEF TurnOff
<1>4. CASE ToggleTorch
  BY <1>4 DEF ToggleTorch
<1>5. CASE RevertTorch
  BY <1>5 DEF RevertTorch
<1>6. CASE FailCamera
  BY <1>6 DEF FailCamera
<1>7. CASE PlugCamera
  BY <1>7 DEF PlugCamera
<1>8. CASE ChooseImage
  BY <1>8 DEF ChooseImage
<1>9. CASE CancelImage
  BY <1>9 DEF CancelImage
<1>10. CASE Navigate
  BY <1>10 DEF Navigate
<1>11. CASE CloseDialog
  BY <1>11 DEF CloseDialog
<1>12. CASE ActivateEntry
  BY <1>12 DEF ActivateEntry
<1>13. CASE ToggleSetting
  BY <1>13 DEF ToggleSetting
<1>14. QED
  BY <1>1, <1>2, <1>3, <1>4, <1>5, <1>6, <1>7, <1>8, <1>9, <1>10, <1>11,
     <1>12, <1>13 DEF PageAction

LEMMA PageControls ==
    FlagsTypeOK /\ ControlsTellTruth /\ CameraAllowed /\ PageAction => ControlsTellTruth' /\ CameraAllowed'
<1> SUFFICES ASSUME FlagsTypeOK, ControlsTellTruth, CameraAllowed, PageAction PROVE ControlsTellTruth' /\ CameraAllowed'
  OBVIOUS
<1> USE DEF FlagsTypeOK, ControlsTellTruth, CameraAllowed, StartCamera,
        StopCamera, LeavePage, camera, access, ButtonsEnabled
<1>1. CASE Activate
  BY <1>1 DEF Activate
<1>2. CASE AnswerPermission
  BY <1>2 DEF AnswerPermission
<1>3. CASE TurnOff
  BY <1>3 DEF TurnOff
<1>4. CASE ToggleTorch
  BY <1>4 DEF ToggleTorch
<1>5. CASE RevertTorch
  BY <1>5 DEF RevertTorch
<1>6. CASE FailCamera
  BY <1>6 DEF FailCamera
<1>7. CASE PlugCamera
  BY <1>7 DEF PlugCamera
<1>8. CASE ChooseImage
  BY <1>8 DEF ChooseImage
<1>9. CASE CancelImage
  BY <1>9 DEF CancelImage
<1>10. CASE Navigate
  BY <1>10 DEF Navigate
<1>11. CASE CloseDialog
  BY <1>11 DEF CloseDialog
<1>12. CASE ActivateEntry
  BY <1>12 DEF ActivateEntry
<1>13. CASE ToggleSetting
  BY <1>13 DEF ToggleSetting
<1>14. QED
  BY <1>1, <1>2, <1>3, <1>4, <1>5, <1>6, <1>7, <1>8, <1>9, <1>10, <1>11,
     <1>12, <1>13 DEF PageAction

LEMMA PageIInv == IInv /\ PageAction => IInv'
BY PageFlags, PageData, PageDecoder, PageControls DEF IInv, TypeOK

\* The actions of the decoder.

LEMMA AcceptIInv == IInv /\ AcceptImage => IInv'
<1> SUFFICES ASSUME IInv, AcceptImage PROVE IInv'
  OBVIOUS
<1> USE DEF AcceptImage, StartJob, decoder, camera, access, results, settings
<1>1. FlagsTypeOK /\ DataTypeOK /\ OneDecode /\ ImageKeepsPageWaiting
  BY DEF IInv, TypeOK
<1>2. FlagsTypeOK'
  BY <1>1 DEF FlagsTypeOK
<1>3. ControlsTellTruth' /\ CameraAllowed'
  BY DEF IInv, ControlsTellTruth, CameraAllowed
<1>4. CASE UNCHANGED decoder
  BY <1>1, <1>2, <1>3, <1>4
     DEF IInv, TypeOK, DataTypeOK, OneDecode, ImageKeepsPageWaiting
<1>5. CASE ~busy /\ StartJob("image")
  <2>1. jobs = <<>> /\ jobs \in Seq(Jobs)
    BY <1>1, <1>5 DEF OneDecode, DataTypeOK
  <2>2. [kind |-> "image", out |-> "pending"] \in Jobs
    BY DEF Jobs
  <2>3. /\ jobs' \in Seq(Jobs)
        /\ Len(jobs') = 1
        /\ jobs' # <<>>
    BY <1>5, <2>1, <2>2, QueueJob
  <2>4. DataTypeOK'
    BY <1>1, <2>3 DEF DataTypeOK
  <2>5. OneDecode' /\ ImageKeepsPageWaiting'
    BY <1>5, <2>3 DEF OneDecode, ImageKeepsPageWaiting
  <2>6. QED
    BY <1>2, <1>3, <2>4, <2>5 DEF IInv, TypeOK
<1>6. QED
  BY <1>4, <1>5

LEMMA FrameIInv == IInv /\ (QueueFrame \/ HandleFrame) => IInv'
<1> SUFFICES ASSUME IInv, QueueFrame \/ HandleFrame PROVE IInv'
  OBVIOUS
<1> USE DEF QueueFrame, HandleFrame, StartJob, Accepts, decoder, camera, access,
        results, settings
<1>1. FlagsTypeOK /\ DataTypeOK /\ OneDecode /\ ImageKeepsPageWaiting
  BY DEF IInv, TypeOK
<1>2. FlagsTypeOK'
  BY <1>1 DEF FlagsTypeOK
<1>3. ControlsTellTruth' /\ CameraAllowed'
  BY DEF IInv, ControlsTellTruth, CameraAllowed
<1>4. frames' \in 0 .. MaxFrames
  <2>1. frames \in 0 .. MaxFrames
    BY <1>1 DEF DataTypeOK
  <2>2. CASE QueueFrame
    BY <2>1, <2>2, MaxFramesAssumption
  <2>3. CASE HandleFrame
    BY <2>1, <2>3, MaxFramesAssumption
  <2>4. QED
    BY <2>2, <2>3
<1>5. CASE UNCHANGED decoder
  <2>1. jobs' = jobs /\ busy' = busy /\ dialog' = dialog
        /\ recorded' = recorded /\ imageDecoding' = imageDecoding
    BY <1>5
  <2>2. DataTypeOK'
    BY <1>1, <1>4, <2>1 DEF DataTypeOK
  <2>3. OneDecode' /\ ImageKeepsPageWaiting'
    BY <1>1, <2>1 DEF OneDecode, ImageKeepsPageWaiting
  <2>4. QED
    BY <1>2, <1>3, <2>2, <2>3 DEF IInv, TypeOK
<1>6. CASE ~busy /\ StartJob("frame") /\ HandleFrame
  <2>1. jobs = <<>> /\ jobs \in Seq(Jobs)
    BY <1>1, <1>6 DEF OneDecode, DataTypeOK
  <2>2. [kind |-> "frame", out |-> "pending"] \in Jobs
    BY DEF Jobs
  <2>3. /\ jobs' \in Seq(Jobs)
        /\ Len(jobs') = 1
        /\ jobs' # <<>>
        /\ jobs'[1].kind = "frame"
    BY <1>6, <2>1, <2>2, QueueJob
  <2>4. DataTypeOK'
    BY <1>1, <1>4, <1>6, <2>3 DEF DataTypeOK
  <2>5. OneDecode'
    BY <1>6, <2>3 DEF OneDecode
  <2>6. ImageKeepsPageWaiting'
    <3>1. \A i \in 1 .. Len(jobs') : i = 1
      BY <2>3
    <3>2. QED
      BY <2>3, <3>1 DEF ImageKeepsPageWaiting
  <2>7. QED
    BY <1>2, <1>3, <2>4, <2>5, <2>6 DEF IInv, TypeOK
<1>7. QED
  BY <1>5, <1>6

LEMMA DecodeIInv ==
    ASSUME IInv, NEW i \in Nat, DecodePicture(i)
    PROVE  IInv'
<1> USE DEF DecodePicture, camera, access, results, settings
<1>1. FlagsTypeOK /\ DataTypeOK /\ OneDecode /\ ImageKeepsPageWaiting
  BY DEF IInv, TypeOK
<1>2. FlagsTypeOK'
  BY <1>1 DEF FlagsTypeOK
<1>3. ControlsTellTruth' /\ CameraAllowed'
  BY DEF IInv, ControlsTellTruth, CameraAllowed
<1>4. PICK picture \in Pictures : jobs' = [jobs EXCEPT ![i].out = Decode(picture)]
  OBVIOUS
<1>5. /\ jobs' \in Seq(Jobs)
      /\ Len(jobs') = Len(jobs)
      /\ \A j \in 1 .. Len(jobs) : jobs'[j].kind = jobs[j].kind
  <2>0. jobs \in Seq(Jobs)
    BY <1>1 DEF DataTypeOK
  <2>1. jobs \in Seq(Jobs) /\ i \in 1 .. Len(jobs) /\ jobs[i] \in Jobs
    BY <2>0, ElementOfSeq
  <2>2. [jobs[i] EXCEPT !.out = Decode(picture)] \in Jobs
    BY <2>1, DecodedType DEF Jobs
  <2>3. [jobs[i] EXCEPT !.out = Decode(picture)].kind = jobs[i].kind
    BY <2>1 DEF Jobs
  <2>4. jobs' = [jobs EXCEPT ![i] = [jobs[i] EXCEPT !.out = Decode(picture)]]
    BY <1>4, <2>1
  <2>5. QED
    BY <2>1, <2>2, <2>3, <2>4
<1>6. DataTypeOK'
  BY <1>1, <1>5 DEF DataTypeOK
<1>7. OneDecode'
  BY <1>1, <1>5, EmptySeq DEF OneDecode, DataTypeOK
<1>8. ImageKeepsPageWaiting'
  BY <1>1, <1>5 DEF ImageKeepsPageWaiting
<1>9. QED
  BY <1>2, <1>3, <1>6, <1>7, <1>8 DEF IInv, TypeOK

LEMMA FinishIInv ==
    ASSUME IInv, NEW i \in Nat, FinishDecode(i)
    PROVE  IInv'
<1>1. FlagsTypeOK /\ DataTypeOK /\ OneDecode /\ ControlsTellTruth /\ CameraAllowed
  BY DEF IInv, TypeOK
<1>2. jobs' = <<>> /\ busy' = FALSE
  BY <1>1, RemoveOnlyJob DEF OneDecode, DataTypeOK, FinishDecode, Release
<1>3. FlagsTypeOK'
  BY <1>1 DEF FlagsTypeOK, FinishDecode, Release, Succeeded, Failed, StopCamera,
     camera, access, settings
<1>4. DataTypeOK'
  <2>1. <<>> \in Seq(Jobs)
    BY EmptySeq
  <2>2. recorded' \in SUBSET Codes /\ dialog' \in Codes \cup {""}
    BY <1>1 DEF DataTypeOK, FinishDecode, Succeeded, results
  <2>3. frames' = frames
    BY DEF FinishDecode
  <2>4. QED
    BY <1>1, <1>2, <2>1, <2>2, <2>3 DEF DataTypeOK
<1>5. OneDecode' /\ ImageKeepsPageWaiting'
  <2>1. Len(jobs') = 0
    BY <1>2, EmptySeq
  <2>2. 1 .. Len(jobs') = {}
    BY <2>1
  <2>3. OneDecode'
    BY <1>2, <2>1 DEF OneDecode
  <2>4. QED
    BY <2>2, <2>3 DEF ImageKeepsPageWaiting
<1>6. ControlsTellTruth' /\ CameraAllowed'
  <2>1. UNCHANGED <<hasCamera, permission, asking>>
    BY DEF FinishDecode, access
  <2>2. StopCamera \/ UNCHANGED camera
    BY DEF FinishDecode, Succeeded
  <2>3. CASE StopCamera
    BY <1>1, <2>1, <2>3
       DEF FlagsTypeOK, ControlsTellTruth, CameraAllowed, StopCamera
  <2>4. CASE UNCHANGED camera
    BY <1>1, <2>1, <2>4 DEF ControlsTellTruth, CameraAllowed, camera
  <2>5. QED
    BY <2>2, <2>3, <2>4
<1>7. QED
  BY <1>3, <1>4, <1>5, <1>6 DEF IInv, TypeOK

LEMMA NextIInv == IInv /\ [Next]_vars => IInv'
<1> SUFFICES ASSUME IInv, [Next]_vars PROVE IInv'
  OBVIOUS
<1>1. CASE PageAction
  BY <1>1, PageIInv
<1>2. CASE AcceptImage
  BY <1>2, AcceptIInv
<1>3. CASE QueueFrame \/ HandleFrame
  BY <1>3, FrameIInv
<1>4. CASE \E i \in 1 .. MaxFrames + 1 : DecodePicture(i) \/ FinishDecode(i)
  <2>1. PICK i \in 1 .. MaxFrames + 1 : DecodePicture(i) \/ FinishDecode(i)
    BY <1>4
  <2>2. i \in Nat
    BY <2>1, MaxFramesAssumption
  <2>3. QED
    BY <2>1, <2>2, DecodeIInv, FinishIInv
<1>5. CASE UNCHANGED vars
  <2>1. FlagsTypeOK' /\ DataTypeOK'
    BY <1>5 DEF vars, access, camera, decoder, results, settings, IInv, TypeOK,
       FlagsTypeOK, DataTypeOK
  <2>2. QED
    BY <1>5, <2>1 DEF vars, access, camera, decoder, IInv, TypeOK, OneDecode,
       ImageKeepsPageWaiting, ControlsTellTruth, CameraAllowed
<1>6. QED
  BY <1>1, <1>2, <1>3, <1>4, <1>5 DEF Next, PageAction

\* The inductive invariant holds in every reachable state.
THEOREM Invariance == Spec => []IInv
<1>1. Init => IInv
  BY InitIInv
<1>2. IInv /\ [Next]_vars => IInv'
  BY NextIInv
<1>3. QED
  BY <1>1, <1>2, PTL DEF Spec

-----------------------------------------------------------------------------
(* The properties the runs check.                                          *)

\* Types.
THEOREM TypeCorrect == Spec => []TypeOK
<1>1. IInv => TypeOK
  BY DEF IInv
<1>2. QED
  BY <1>1, Invariance, PTL

\* Live frames and chosen images never make two decodes run at once, and m_busy
\* says exactly whether one runs.
THEOREM OneDecodeAtATime == Spec => []OneDecode
<1>1. IInv => OneDecode
  BY DEF IInv
<1>2. QED
  BY <1>1, Invariance, PTL

\* The page waits for as long as its image is being decoded.
THEOREM PageWaitsForImage == Spec => []ImageKeepsPageWaiting
<1>1. IInv => ImageKeepsPageWaiting
  BY DEF IInv
<1>2. QED
  BY <1>1, Invariance, PTL

\* Button and flashlight show what the camera does, and no camera that is off
\* has its flashlight on.
THEOREM ControlsAreTrue == Spec => []ControlsTellTruth
<1>1. IInv => ControlsTellTruth
  BY DEF IInv
<1>2. QED
  BY <1>1, Invariance, PTL

\* A camera runs on a hidden page only if it did so before, or if a permission
\* was granted after the user had left.
CameraStaysOff ==
    ~visible' /\ cameraActive' => AnswerPermission \/ (~visible /\ cameraActive)

LEMMA NextHidden == IInv /\ [Next]_vars => CameraStaysOff \/ UNCHANGED vars
<1> SUFFICES ASSUME IInv, Next PROVE CameraStaysOff
  OBVIOUS
<1> USE DEF CameraStaysOff, camera
<1>1. visible \in BOOLEAN
  BY DEF IInv, TypeOK, FlagsTypeOK
<1>2. CASE Activate
  BY <1>2 DEF Activate, ButtonsEnabled
<1>3. CASE AnswerPermission
  BY <1>3
<1>4. CASE Navigate
  BY <1>1, <1>4 DEF Navigate, LeavePage, StopCamera
<1>5. CASE TurnOff \/ FailCamera \/ ChooseImage
  BY <1>5 DEF TurnOff, FailCamera, ChooseImage, StopCamera
<1>6. CASE ToggleTorch \/ RevertTorch
  BY <1>6 DEF ToggleTorch, RevertTorch
<1>7. CASE \/ PlugCamera \/ AcceptImage \/ CancelImage \/ CloseDialog
           \/ ActivateEntry \/ ToggleSetting
  BY <1>7 DEF PlugCamera, AcceptImage, CancelImage, CloseDialog, ActivateEntry,
     ToggleSetting
<1>8. CASE QueueFrame \/ HandleFrame
  BY <1>8 DEF QueueFrame, HandleFrame
<1>9. CASE \E i \in 1 .. MaxFrames + 1 : DecodePicture(i) \/ FinishDecode(i)
  <2>1. PICK i \in 1 .. MaxFrames + 1 : DecodePicture(i) \/ FinishDecode(i)
    BY <1>9
  <2>2. CASE DecodePicture(i)
    BY <2>2 DEF DecodePicture
  <2>3. CASE FinishDecode(i)
    BY <2>3 DEF FinishDecode, Succeeded, StopCamera
  <2>4. QED
    BY <2>1, <2>2, <2>3
<1>10. QED
  BY <1>2, <1>3, <1>4, <1>5, <1>6, <1>7, <1>8, <1>9 DEF Next

\* No way of leaving the page leaves the camera on.
THEOREM HiddenPageHasNoCamera == Spec => HiddenPageCameraOff
<1>1. QED
  BY Invariance, NextHidden, PTL DEF Spec, HiddenPageCameraOff, CameraStaysOff

-----------------------------------------------------------------------------
(* The refinement of DecodeSlot.                                           *)

LEMMA SlotInit == Init => Slot!Init
BY DEF Init, Slot!Init

\* Neither the kind of the job in the decoder nor the dialog changes.
LEMMA SlotStutter ==
    ASSUME jobs' = jobs, dialog' = dialog
    PROVE  UNCHANGED Slot!slotVars
BY DEF Slot!slotVars

LEMMA SlotBegin ==
    ASSUME DataTypeOK, OneDecode, ~busy, NEW kind \in {"frame", "image"},
           StartJob(kind), dialog' = dialog
    PROVE  Slot!Begin(kind)
<1>1. jobs = <<>> /\ jobs \in Seq(Jobs)
  BY DEF OneDecode, DataTypeOK
<1>2. [kind |-> kind, out |-> "pending"] \in Jobs
  BY DEF Jobs
<1>3. jobs' # <<>> /\ jobs'[1].kind = kind
  BY <1>1, <1>2, QueueJob DEF StartJob
<1>4. QED
  BY <1>1, <1>3 DEF Slot!Begin

LEMMA SlotDecode ==
    ASSUME DataTypeOK, NEW i \in Nat, DecodePicture(i)
    PROVE  UNCHANGED Slot!slotVars
<1>1. jobs \in Seq(Jobs) /\ i \in 1 .. Len(jobs)
  BY DEF DecodePicture, DataTypeOK
<1>2. PICK picture \in Pictures :
        jobs' = [jobs EXCEPT ![i] = [jobs[i] EXCEPT !.out = Decode(picture)]]
  BY DEF DecodePicture
<1>3. jobs[i] \in Jobs /\ jobs # <<>> /\ 1 \in 1 .. Len(jobs)
  BY <1>1, ElementOfSeq, EmptySeq, LenProperties
<1>4. [jobs[i] EXCEPT !.out = Decode(picture)].kind = jobs[i].kind
  BY <1>3 DEF Jobs
<1>5. Len(jobs') = Len(jobs) /\ jobs'[1].kind = jobs[1].kind
  BY <1>1, <1>2, <1>3, <1>4
<1>6. jobs' # <<>>
  BY <1>1, <1>3, <1>5, EmptySeq
<1>7. dialog' = dialog
  BY DEF DecodePicture, results
<1>8. QED
  BY <1>3, <1>5, <1>6, <1>7 DEF Slot!slotVars

LEMMA SlotFinish ==
    ASSUME DataTypeOK, OneDecode, NEW i \in Nat, FinishDecode(i)
    PROVE  Slot!GiveUp \/ \E code \in Codes : Slot!Find(code)
<1>1. jobs \in Seq(Jobs) /\ Len(jobs) <= 1 /\ i \in 1 .. Len(jobs)
  BY DEF FinishDecode, OneDecode, DataTypeOK
<1>2. i = 1 /\ jobs' = <<>>
  BY <1>1, RemoveOnlyJob DEF FinishDecode
<1>3. jobs # <<>> /\ jobs[1] \in Jobs
  BY <1>1, <1>2, ElementOfSeq, EmptySeq
<1>4. jobs[1].kind # ""
  BY <1>3 DEF Jobs
<1>5. CASE jobs[i].out \in Codes /\ Succeeded(jobs[i].out)
  BY <1>2, <1>3, <1>4, <1>5 DEF Succeeded, Slot!Find
<1>6. CASE UNCHANGED results
  BY <1>2, <1>3, <1>4, <1>6 DEF results, Slot!GiveUp
<1>7. QED
  BY <1>5, <1>6 DEF FinishDecode

LEMMA SlotNext == IInv /\ [Next]_vars => [Slot!Next]_(Slot!slotVars)
<1> SUFFICES ASSUME IInv, [Next]_vars PROVE [Slot!Next]_(Slot!slotVars)
  OBVIOUS
<1>1. DataTypeOK /\ OneDecode
  BY DEF IInv, TypeOK
<1>2. CASE AcceptImage
  <2>1. CASE UNCHANGED decoder
    BY <1>2, <2>1, SlotStutter DEF AcceptImage, decoder, results
  <2>2. CASE ~busy /\ StartJob("image")
    BY <1>1, <1>2, <2>2, SlotBegin DEF AcceptImage, results, Slot!Next
  <2>3. QED
    BY <1>2, <2>1, <2>2 DEF AcceptImage
<1>3. CASE HandleFrame
  <2>1. CASE UNCHANGED decoder
    BY <1>3, <2>1, SlotStutter DEF HandleFrame, decoder, results
  <2>2. CASE Accepts /\ StartJob("frame")
    BY <1>1, <1>3, <2>2, SlotBegin DEF HandleFrame, Accepts, results, Slot!Next
  <2>3. QED
    BY <1>3, <2>1, <2>2 DEF HandleFrame
<1>4. CASE CloseDialog
  BY <1>4 DEF CloseDialog, decoder, Slot!Next, Slot!Close
<1>5. CASE \E i \in 1 .. MaxFrames + 1 : DecodePicture(i) \/ FinishDecode(i)
  <2>1. PICK i \in 1 .. MaxFrames + 1 : DecodePicture(i) \/ FinishDecode(i)
    BY <1>5
  <2>2. i \in Nat
    BY <2>1, MaxFramesAssumption
  <2>3. QED
    BY <1>1, <2>1, <2>2, SlotDecode, SlotFinish DEF Slot!Next
<1>6. CASE UNCHANGED vars
  BY <1>6, SlotStutter DEF vars, decoder, results
<1>7. CASE ActivateEntry
  BY <1>7 DEF ActivateEntry, decoder, Slot!Next, Slot!Open
<1>8. CASE \/ Activate \/ AnswerPermission \/ TurnOff \/ ToggleTorch \/ RevertTorch
           \/ FailCamera \/ PlugCamera \/ ChooseImage \/ CancelImage \/ Navigate
           \/ ToggleSetting \/ QueueFrame
  <2>1. jobs' = jobs /\ dialog' = dialog
    BY <1>8 DEF Activate, AnswerPermission, TurnOff, ToggleTorch, RevertTorch,
       FailCamera, PlugCamera, ChooseImage, CancelImage, Navigate,
       ToggleSetting, QueueFrame, decoder, results
  <2>2. QED
    BY <2>1, SlotStutter
<1>9. QED
  BY <1>2, <1>3, <1>4, <1>5, <1>6, <1>7, <1>8 DEF Next

\* The scanner decodes one picture at a time and ends every decode once; it shows
\* a new code when a decode has found it and when the user opens one, and what
\* the user opens disturbs no decode.
THEOREM ImplementsDecodeSlot == Spec => ImplementsSlot
<1>1. QED
  BY Invariance, SlotInit, SlotNext, PTL DEF Spec, ImplementsSlot, Slot!Spec
=============================================================================
