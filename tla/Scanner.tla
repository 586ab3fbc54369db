------------------------------ MODULE Scanner ------------------------------
(***************************************************************************)
(* Scanning: the Scanner page (qml/views/ScannerPage.qml), the decoder it  *)
(* shares between live frames and chosen images (src/core/qrdecoder.cpp)   *)
(* and what the rest of the window does with a result (qml/main.qml).      *)
(*                                                                         *)
(* Actors: the user; the GUI thread, which runs one handler at a time; the *)
(* camera, whose frames queue up for the GUI thread; the thread pool,      *)
(* which decodes one picture per job and queues a finished() event; and    *)
(* the platform, which answers the permission prompt, takes the camera     *)
(* away and reverts the flashlight.                                        *)
(*                                                                         *)
(* A picture is what can be read in it. Texts matter here only as codes    *)
(* the history's Wi-Fi exclusion does or does not recognise.               *)
(***************************************************************************)
EXTENDS Naturals, Sequences

CONSTANTS
    Codes,              \* the texts QR codes hold
    WifiCodes,          \* those that begin with "WIFI:", in capitals
    Pictures,           \* what a frame or an image may show
    InvalidUrls,        \* the picker may give a URL that is not valid
    MaxFrames           \* bound: frames queued for the GUI thread

Unread == {"nothing", "garbled"}    \* no QR code; one that is not UTF-8
ASSUME WifiAssumption == WifiCodes \subseteq Codes
ASSUME CodesAssumption == {"", "error", "pending"} \cap Codes = {}
ASSUME PicturesAssumption == Pictures \subseteq Codes \cup Unread \cup {""}
ASSUME InvalidUrlsAssumption == InvalidUrls \in BOOLEAN
ASSUME MaxFramesAssumption == MaxFrames \in Nat

VARIABLES
    \* The platform.
    hasCamera,          \* mediaDevices.videoInputs is not empty
    permission,         \* cameraPermission.status
    asking,             \* the permission prompt is up
    cameraActive,       \* camera.active
    torch,              \* camera.torchMode is TorchOn
    frames,             \* frames queued for the GUI thread
    \* QrDecoder.
    busy,               \* m_busy
    jobs,               \* its jobs in the pool: running, or finished and queued
    \* ScannerPage.
    visible,            \* the page is the current one
    cameraRequested,
    torchOn,
    imageDecoding,
    errorShown,         \* errorMessage is not empty
    picker,             \* the image picker is open
    \* Window, settings, history.
    dialog,             \* the code in the result dialog, "" when closed
    historyEnabled,     \* appSettings.historyEnabled
    excludeWifi,        \* appSettings.historyExcludeWifiPassword
    recorded            \* the codes given to scanHistory.addEntry

camera == <<cameraActive, torch, cameraRequested, torchOn>>
access == <<permission, asking>>
decoder == <<busy, jobs>>
settings == <<historyEnabled, excludeWifi>>
results == <<dialog, recorded>>
vars == <<hasCamera, access, camera, frames, decoder, visible, imageDecoding,
          errorShown, picker, results, settings>>

-----------------------------------------------------------------------------
(* The decoder.                                                            *)

Outcomes == Codes \cup {"", "error"}
Jobs == [kind : {"frame", "image"}, out : Outcomes \cup {"pending"}]
Without(s, i) == SubSeq(s, 1, i - 1) \o SubSeq(s, i + 1, Len(s))

\* decodeLum(): the text read, or an error when there is no QR code or the
\* bytes of the code are not UTF-8; and a variant without the second check.
DecodeUnchecked(picture) == IF picture = "nothing" THEN "error" ELSE picture

Decode(picture) == IF picture \in Unread THEN "error" ELSE picture

\* if (m_busy) return, on an arriving frame, and a variant without it.
AcceptsAlways == TRUE

Accepts == ~busy

StartJob(kind) ==
    /\ busy' = TRUE
    /\ jobs' = Append(jobs, [kind |-> kind, out |-> "pending"])

\* setBusy(false), first thing in finishDecode(), and a variant that only the
\* way past the early returns reaches.
ReleaseAtEnd(out) == busy' = (busy /\ out \notin Codes)

Release(out) == busy' = FALSE

-----------------------------------------------------------------------------
(* The page's functions.                                                   *)

StartCamera ==
    /\ UNCHANGED <<torch, torchOn>>
    /\ \/ /\ hasCamera
          /\ cameraRequested' = TRUE
          /\ errorShown' = FALSE
          /\ cameraActive' = TRUE
       \/ /\ ~hasCamera
          /\ cameraRequested' = FALSE
          /\ errorShown' = TRUE
          /\ UNCHANGED cameraActive

\* stopCamera(), and a variant that leaves the flashlight as it is.
StopCameraOnly ==
    /\ cameraRequested' = FALSE
    /\ cameraActive' = FALSE
    /\ UNCHANGED <<torchOn, torch>>

StopCamera ==
    /\ cameraRequested' = FALSE
    /\ torchOn' = FALSE
    /\ torch' = IF torchOn THEN FALSE ELSE torch
    /\ cameraActive' = FALSE

\* onVisibleChanged, and a variant that does nothing.
LeaveNothing == UNCHANGED camera

LeavePage == StopCamera

\* onDecodeFailed, and a variant that only shows the reason.
FailedShowOnly == errorShown' = TRUE /\ UNCHANGED imageDecoding

Failed == errorShown' = TRUE /\ imageDecoding' = FALSE

\* const excludedWifi = ... text.startsWith("WIFI:"): capitals only.
ExcludedWifi(code) == excludeWifi /\ code \in WifiCodes

\* onDecodeSucceeded of the page and of the window.
Succeeded(code) ==
    /\ imageDecoding' = FALSE
    /\ StopCamera
    /\ recorded' = IF historyEnabled /\ ~ExcludedWifi(code)
                   THEN recorded \cup {code}
                   ELSE recorded
    /\ dialog' = code
    /\ UNCHANGED errorShown

-----------------------------------------------------------------------------
Init ==
    /\ hasCamera \in BOOLEAN
    /\ permission \in {"undetermined", "granted", "denied"}
    /\ asking = FALSE
    /\ cameraActive = FALSE /\ torch = FALSE
    /\ cameraRequested = FALSE /\ torchOn = FALSE
    /\ frames = 0
    /\ busy = FALSE /\ jobs = <<>>
    /\ visible = TRUE
    /\ imageDecoding = FALSE
    /\ errorShown = FALSE
    /\ picker = FALSE
    /\ dialog = ""
    /\ historyEnabled \in BOOLEAN
    /\ excludeWifi \in BOOLEAN
    /\ recorded = {}

\* The picker is modal; both buttons are disabled while an image is decoded.
ButtonsEnabled == visible /\ ~picker /\ ~imageDecoding

\* activate(): a tap on "Turn on camera" or on the frame.
Activate ==
    /\ ButtonsEnabled /\ ~cameraRequested
    /\ \/ /\ hasCamera /\ permission = "granted"
          /\ StartCamera
          /\ UNCHANGED asking
       \/ /\ hasCamera /\ permission = "undetermined"
          /\ asking' = TRUE
          /\ UNCHANGED <<camera, errorShown>>
       \/ /\ ~hasCamera \/ permission = "denied"
          /\ errorShown' = TRUE
          /\ UNCHANGED <<camera, asking>>
    /\ UNCHANGED <<hasCamera, permission, frames, decoder, visible,
                   imageDecoding, picker, results, settings>>

\* The platform answers the prompt: onStatusChanged, on whatever page the user
\* is by then.
AnswerPermission ==
    /\ asking
    /\ asking' = FALSE
    /\ \/ permission' = "granted" /\ StartCamera
       \/ permission' = "denied" /\ errorShown' = TRUE /\ UNCHANGED camera
    /\ UNCHANGED <<hasCamera, frames, decoder, visible, imageDecoding, picker,
                   results, settings>>

TurnOff ==
    /\ ButtonsEnabled /\ cameraRequested
    /\ StopCamera
    /\ UNCHANGED <<hasCamera, access, frames, decoder, visible, imageDecoding,
                   errorShown, picker, results, settings>>

\* The flashlight button, there when the active camera supports a torch.
ToggleTorch ==
    /\ visible /\ ~picker /\ cameraActive
    /\ torchOn' = ~torchOn
    /\ torch' = torchOn'
    /\ UNCHANGED <<hasCamera, access, cameraActive, cameraRequested, frames,
                   decoder, visible, imageDecoding, errorShown, picker,
                   results, settings>>

\* The camera reverts the torch: onTorchModeChanged.
RevertTorch ==
    /\ torch
    /\ torch' = FALSE
    /\ torchOn' = FALSE
    /\ UNCHANGED <<hasCamera, access, cameraActive, cameraRequested, frames,
                   decoder, visible, imageDecoding, errorShown, picker,
                   results, settings>>

\* The active camera fails, unplugged perhaps: onErrorOccurred.
FailCamera ==
    /\ cameraActive
    /\ hasCamera' \in BOOLEAN
    /\ StopCamera
    /\ errorShown' = TRUE
    /\ UNCHANGED <<access, frames, decoder, visible, imageDecoding, picker,
                   results, settings>>

\* An idle camera is plugged in or out.
PlugCamera ==
    /\ ~cameraActive
    /\ hasCamera' = ~hasCamera
    /\ UNCHANGED <<access, camera, frames, decoder, visible, imageDecoding,
                   errorShown, picker, results, settings>>

\* chooseImage()
ChooseImage ==
    /\ ButtonsEnabled
    /\ StopCamera
    /\ picker' = TRUE
    /\ UNCHANGED <<hasCamera, access, frames, decoder, visible, imageDecoding,
                   errorShown, results, settings>>

\* The picker's onAccepted: decodeImageAt(), which decodeImageFile() leaves at
\* once, without a word, when the decoder is busy or the URL is not valid.
AcceptImage ==
    /\ picker
    /\ picker' = FALSE
    /\ imageDecoding' = TRUE
    /\ errorShown' = FALSE
    /\ \/ (busy \/ InvalidUrls) /\ UNCHANGED decoder
       \/ ~busy /\ StartJob("image")
    /\ UNCHANGED <<hasCamera, access, camera, frames, visible, results, settings>>

CancelImage ==
    /\ picker
    /\ picker' = FALSE
    /\ UNCHANGED <<hasCamera, access, camera, frames, decoder, visible,
                   imageDecoding, errorShown, results, settings>>

\* navigateTo(): another page, or back. The image picker blocks the bars.
Navigate ==
    /\ ~picker
    /\ visible' = ~visible
    /\ IF visible THEN LeavePage ELSE UNCHANGED camera
    /\ UNCHANGED <<hasCamera, access, frames, decoder, imageDecoding,
                   errorShown, picker, results, settings>>

CloseDialog ==
    /\ dialog # ""
    /\ dialog' = ""
    /\ UNCHANGED <<hasCamera, access, camera, frames, decoder, visible,
                   imageDecoding, errorShown, picker, recorded, settings>>

\* Another page is the current one, History perhaps: a tap on an entry, which
\* may be a created code or of an earlier run, shows it whatever is shown.
ActivateEntry ==
    /\ ~visible
    /\ \E code \in Codes : dialog' = code
    /\ UNCHANGED <<hasCamera, access, camera, frames, decoder, visible,
                   imageDecoding, errorShown, picker, recorded, settings>>

\* The two switches of the Settings page; the second works while the first is on.
ToggleSetting ==
    /\ ~visible
    /\ \/ historyEnabled' = ~historyEnabled /\ UNCHANGED excludeWifi
       \/ historyEnabled /\ excludeWifi' = ~excludeWifi /\ UNCHANGED historyEnabled
    /\ UNCHANGED <<hasCamera, access, camera, frames, decoder, visible,
                   imageDecoding, errorShown, picker, results>>

-----------------------------------------------------------------------------
(* Frames and jobs.                                                        *)

\* The camera's thread hands a frame to the sink.
QueueFrame ==
    /\ cameraActive
    /\ frames < MaxFrames
    /\ frames' = frames + 1
    /\ UNCHANGED <<hasCamera, access, camera, decoder, visible, imageDecoding,
                   errorShown, picker, results, settings>>

\* The videoFrameChanged handler. An invalid frame, or one within 250 ms of the
\* last accepted, is dropped too.
HandleFrame ==
    /\ frames > 0
    /\ frames' = frames - 1
    /\ \/ Accepts /\ StartJob("frame")
       \/ UNCHANGED decoder
    /\ UNCHANGED <<hasCamera, access, camera, visible, imageDecoding,
                   errorShown, picker, results, settings>>

\* A pool thread decodes a picture.
DecodePicture(i) ==
    /\ i \in 1 .. Len(jobs)
    /\ jobs[i].out = "pending"
    /\ \E picture \in Pictures : jobs' = [jobs EXCEPT ![i].out = Decode(picture)]
    /\ UNCHANGED <<hasCamera, access, camera, frames, busy, visible,
                   imageDecoding, errorShown, picker, results, settings>>

\* The finished() handler: finishDecode(). A frame without a code and an empty
\* code say nothing.
FinishDecode(i) ==
    /\ i \in 1 .. Len(jobs)
    /\ jobs[i].out # "pending"
    /\ Release(jobs[i].out)
    /\ jobs' = Without(jobs, i)
    /\ \/ /\ jobs[i].out \in Codes
          /\ Succeeded(jobs[i].out)
       \/ /\ jobs[i].out = "error" /\ jobs[i].kind = "image"
          /\ Failed
          /\ UNCHANGED <<camera, results>>
       \/ /\ jobs[i].out = "" \/ (jobs[i].out = "error" /\ jobs[i].kind = "frame")
          /\ UNCHANGED <<camera, imageDecoding, errorShown, results>>
    /\ UNCHANGED <<hasCamera, access, frames, visible, picker, settings>>

Next ==
    \/ Activate
    \/ AnswerPermission
    \/ TurnOff
    \/ ToggleTorch
    \/ RevertTorch
    \/ FailCamera
    \/ PlugCamera
    \/ ChooseImage
    \/ AcceptImage
    \/ CancelImage
    \/ Navigate
    \/ CloseDialog
    \/ ActivateEntry
    \/ ToggleSetting
    \/ QueueFrame
    \/ HandleFrame
    \/ \E i \in 1 .. MaxFrames + 1 : DecodePicture(i) \/ FinishDecode(i)

\* A picture is decoded in the end and a queued event handled; the user, the
\* camera and the platform owe nothing.
Fairness ==
    /\ WF_vars(HandleFrame)
    /\ WF_vars(DecodePicture(1))
    /\ WF_vars(FinishDecode(1))

Spec == Init /\ [][Next]_vars /\ Fairness

-----------------------------------------------------------------------------
FlagsTypeOK ==
    /\ {hasCamera, asking, cameraActive, torch} \subseteq BOOLEAN
    /\ {visible, cameraRequested, torchOn, imageDecoding} \subseteq BOOLEAN
    /\ {busy, errorShown, picker, historyEnabled, excludeWifi} \subseteq BOOLEAN
    /\ permission \in {"undetermined", "granted", "denied"}

DataTypeOK ==
    /\ frames \in 0 .. MaxFrames
    /\ jobs \in Seq(Jobs)
    /\ dialog \in Codes \cup {""}
    /\ recorded \in SUBSET Codes

TypeOK == FlagsTypeOK /\ DataTypeOK

\* Live frames and chosen images share one decoder: whatever arrives while it
\* works, there is one job at most, and m_busy says exactly whether there is.
OneDecode ==
    /\ Len(jobs) <= 1
    /\ busy <=> jobs # <<>>

\* While a chosen image is being decoded the page says so, and so keeps its
\* buttons disabled: no late frame ends the wait of an image it is not.
ImageKeepsPageWaiting ==
    \A i \in 1 .. Len(jobs) : jobs[i].kind = "image" => imageDecoding

\* The button's label and the flashlight's fill tell the truth through errors,
\* results, late answers and the camera's own reverts, and the flashlight is
\* never left burning by a camera that is off.
ControlsTellTruth ==
    /\ cameraRequested <=> cameraActive
    /\ torchOn <=> torch
    /\ torch => cameraActive

\* The inductive invariant the proofs use: the above, and when the camera and
\* the permission prompt may be on.
CameraAllowed ==
    /\ cameraActive => hasCamera /\ permission = "granted"
    /\ asking => permission = "undetermined"

IInv ==
    /\ TypeOK
    /\ OneDecode
    /\ ImageKeepsPageWaiting
    /\ ControlsTellTruth
    /\ CameraAllowed

\* "started and stopped with explicit buttons" (CHANGELOG.md:32): a hidden page
\* has its camera off, the one exception being a permission granted after the
\* user has left, and even then it is not left running by leaving the page.
HiddenPageCameraOff ==
    [][~visible' /\ cameraActive' => AnswerPermission \/ (~visible /\ cameraActive)]_vars

\* Whatever a picture holds, the decoder is free again in the end.
DecodeEnds == busy ~> ~busy

\* A chosen image that reached the decoder is answered, with its code or with an
\* error, unless its code is empty.
DecodedImageAnswered ==
    (\E i \in 1 .. Len(jobs) : jobs[i].kind = "image" /\ jobs[i].out \in Codes \cup {"error"})
        ~> ~imageDecoding

\* The abstract decoder this module implements.
Slot == INSTANCE DecodeSlot
    WITH slot <- IF jobs = <<>> THEN "" ELSE jobs[1].kind,
         shown <- dialog, Kinds <- {"frame", "image"}, Nothing <- ""

ImplementsSlot == Slot!Spec

\* "Scanner errors (no QR found in a chosen image, ...) are now shown instead of
\* being silently dropped" (CHANGELOG.md:40): the page stops waiting for every
\* chosen image.
ChosenImageAnswered == imageDecoding ~> ~imageDecoding
=============================================================================
