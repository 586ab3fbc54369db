---------------------------- MODULE CreatePage ----------------------------
(***************************************************************************)
(* The Create page (qml/views/GeneratorPage.qml) up to the moment a code   *)
(* is saved or shared, with the image provider that draws its preview      *)
(* (src/ui/qrimageprovider.cpp). What happens to the file is module        *)
(* SaveFiles.                                                              *)
(*                                                                         *)
(* Actors: the user; the debounce timer of the GUI thread; the thread      *)
(* pool, which draws one image per request; and the reader thread of Qt    *)
(* Quick, which creates a response for each new image source, cancels the  *)
(* one it supersedes, and shows the image of a response that finishes.     *)
(*                                                                         *)
(* A form is the selected type and the payload its fields build (module    *)
(* Payloads); a look is the error correction and the colours.              *)
(***************************************************************************)
EXTENDS Naturals, Sequences

CONSTANTS
    Forms,          \* records [type, payload]; payload "" for empty fields
    Looks,
    TooLarge,       \* pairs <<payload, look>> no QR version can hold
    WifiPayloads,   \* the payloads that start with "WIFI:"
    MaxResponses    \* bound: image responses alive at once

Nothing == [payload |-> ""]      \* no picture; no entry
Payloads == {f.payload : f \in Forms}
Contents == [payload : Payloads \ {""}, look : Looks]
ASSUME FormsAssumption == \A f \in Forms : f = [type |-> f.type, payload |-> f.payload]
ASSUME LooksAssumption == Looks # {}
ASSUME MaxResponsesAssumption == MaxResponses \in Nat

VARIABLES
    form,           \* typeSelector and the fields
    look,           \* eccLevel, fgColor, bgColor
    timer,          \* previewTimer.running
    currentPayload,
    fits,           \* capacity.fits
    source,         \* what qrImage.source asks for
    image,          \* what qrImage shows
    responses,      \* the provider's responses, oldest first
    picker,         \* "closed", or open: whether the preview was up to date
    historyEnabled, \* appSettings.historyEnabled
    excludeWifi,    \* appSettings.historyExcludeWifiPassword
    entry           \* the last entry given to scanHistory; its payload is
                    \* lastRecordedPayload
fields == <<form, look>>
preview == <<currentPayload, fits, source>>
drawing == <<image, responses>>
settings == <<historyEnabled, excludeWifi>>
vars == <<fields, timer, preview, drawing, picker, settings, entry>>

-----------------------------------------------------------------------------
(* The page's functions.                                                   *)

\* capacityInfo(): an empty page has no capacity to speak of.
Fits(payload, l) == payload # "" /\ <<payload, l>> \notin TooLarge

\* The preview refreshNow() asks for.
Picture(input) ==
    IF Fits(input[1].payload, input[2])
    THEN [payload |-> input[1].payload, look |-> input[2]]
    ELSE Nothing

\* Qt Quick, on a new source: the response under way is cancelled, the image is
\* cleared, and a response is asked for the new source.
Cancelled(r) == [r EXCEPT !.cancelled = TRUE]

Load(new) ==
    IF new = source
    THEN UNCHANGED <<image, responses>>
    ELSE /\ image' = Nothing
         /\ LET old == [i \in DOMAIN responses |-> Cancelled(responses[i])]
            IN responses' = IF new = Nothing THEN old
                            ELSE Append(old, [of |-> new, drawn |-> FALSE, cancelled |-> FALSE])

\* refresh()
Refresh == timer' = TRUE

\* refreshNow(), and a variant that leaves the picture of the previous text on
\* screen when the new one is too large.
RefreshNowKeepsOld ==
    /\ currentPayload' = form.payload
    /\ fits' = Fits(form.payload, look)
    /\ source' = IF fits' \/ form.payload = "" THEN Picture(fields) ELSE source
    /\ Load(source')

RefreshNow ==
    /\ currentPayload' = form.payload
    /\ fits' = Fits(form.payload, look)
    /\ source' = Picture(fields)
    /\ Load(source')

\* recordInHistory(), a variant that takes the fields for the preview, and one
\* that records an empty page.
RecordFields ==
    entry' = IF historyEnabled /\ form.payload # "" THEN form ELSE entry

RecordEmpty ==
    entry' = IF historyEnabled THEN [type |-> form.type, payload |-> currentPayload] ELSE entry

RecordInHistory ==
    entry' = IF /\ currentPayload \notin {"", entry.payload}
                /\ historyEnabled
                /\ ~(excludeWifi /\ currentPayload \in WifiPayloads)
             THEN [type |-> form.type, payload |-> currentPayload]
             ELSE entry

-----------------------------------------------------------------------------
Init ==
    /\ form \in {f \in Forms : f.payload = ""}
    /\ look \in Looks
    /\ timer = FALSE
    /\ currentPayload = "" /\ fits = FALSE /\ source = Nothing
    /\ image = Nothing /\ responses = <<>>
    /\ picker = "closed"
    /\ historyEnabled \in BOOLEAN /\ excludeWifi \in BOOLEAN
    /\ entry = Nothing

\* The user changes a field or the type. The picker is modal.
EditForm ==
    /\ picker = "closed"
    /\ \E f \in Forms \ {form} : form' = f
    /\ Refresh
    /\ UNCHANGED <<look, preview, drawing, picker, settings, entry>>

\* The user changes the error correction or a colour; and a variant that does not
\* refresh.
EditLookSilent ==
    /\ picker = "closed"
    /\ look' \in Looks \ {look}
    /\ UNCHANGED <<form, timer, preview, drawing, picker, settings, entry>>

EditLook ==
    /\ picker = "closed"
    /\ \E l \in Looks \ {look} : look' = l
    /\ Refresh
    /\ UNCHANGED <<form, preview, drawing, picker, settings, entry>>

\* previewTimer.onTriggered, 250 ms after the last edit, also behind the picker.
PreviewTimer ==
    /\ timer
    /\ Len(responses) < MaxResponses
    /\ timer' = FALSE
    /\ RefreshNow
    /\ UNCHANGED <<fields, picker, settings, entry>>

\* Both buttons: enabled: page.hasQr && page.capacity.fits
ButtonsEnabled == picker = "closed" /\ source # Nothing /\ fits

ClickSave ==
    /\ ButtonsEnabled
    /\ picker' = IF timer THEN "late" ELSE "settled"
    /\ UNCHANGED <<fields, timer, preview, drawing, settings, entry>>

\* savePngTo(): the code is recorded, then handed to requestSavePng.
AcceptSave ==
    /\ picker # "closed"
    /\ picker' = "closed"
    /\ RecordInHistory
    /\ UNCHANGED <<fields, timer, preview, drawing, settings>>

CancelSave ==
    /\ picker # "closed"
    /\ picker' = "closed"
    /\ UNCHANGED <<fields, timer, preview, drawing, settings, entry>>

\* shareBtn.onClicked, on Android and elsewhere.
ClickShare ==
    /\ ButtonsEnabled
    /\ RecordInHistory
    /\ UNCHANGED <<fields, timer, preview, drawing, picker, settings>>

\* The two history switches of the Settings page.
ToggleSetting ==
    /\ picker = "closed"
    /\ \/ historyEnabled' = ~historyEnabled /\ UNCHANGED excludeWifi
       \/ historyEnabled /\ excludeWifi' = ~excludeWifi /\ UNCHANGED historyEnabled
    /\ UNCHANGED <<fields, timer, preview, drawing, picker, entry>>

\* The pool draws the image of a response.
Draw(i) ==
    /\ i \in DOMAIN responses
    /\ ~responses[i].drawn
    /\ responses' = [responses EXCEPT ![i].drawn = TRUE]
    /\ UNCHANGED <<fields, timer, preview, image, picker, settings, entry>>

\* if (m_cancelled) return, and a variant with the test the wrong way round.
DropsDrawn(r) == ~r.cancelled

Drops(r) == r.cancelled

\* The watcher's finished() handler. (A response that drops its image does not
\* emit finished() either, and so is never freed; what it holds is left out.)
Respond(i) ==
    /\ i \in DOMAIN responses
    /\ responses[i].drawn
    /\ responses' = SubSeq(responses, 1, i - 1) \o SubSeq(responses, i + 1, Len(responses))
    /\ image' = IF Drops(responses[i]) THEN image ELSE responses[i].of
    /\ UNCHANGED <<fields, timer, preview, picker, settings, entry>>

Next ==
    \/ EditForm
    \/ EditLook
    \/ PreviewTimer
    \/ ClickSave
    \/ AcceptSave
    \/ CancelSave
    \/ ClickShare
    \/ ToggleSetting
    \/ \E i \in 1 .. MaxResponses : Draw(i) \/ Respond(i)

\* A started timer fires (the user pauses now and then), the pool draws what it
\* was given and queued events are handled; the user owes nothing.
Fairness ==
    /\ WF_vars(PreviewTimer)
    /\ WF_vars(Draw(1)) /\ WF_vars(Respond(1))
    /\ \A i \in 2 .. MaxResponses : WF_vars(Draw(i)) /\ WF_vars(Respond(i))

Spec == Init /\ [][Next]_vars /\ Fairness

-----------------------------------------------------------------------------
TypeOK ==
    /\ form \in Forms
    /\ look \in Looks
    /\ {timer, fits, historyEnabled, excludeWifi} \subseteq BOOLEAN
    /\ currentPayload \in Payloads \cup {""}
    /\ source \in Contents \cup {Nothing}
    /\ image \in Contents \cup {Nothing}
    /\ responses \in Seq([of : Contents, drawn : BOOLEAN, cancelled : BOOLEAN])
    /\ picker \in {"closed", "settled", "late"}
    /\ entry \in [type : {f.type : f \in Forms}, payload : Payloads \ {""}] \cup {Nothing}

\* Every edit, of any field, of the type or of the look, reaches the preview:
\* once no refresh is pending, payload, capacity and picture are those of the
\* fields. An edit that forgets to refresh would leave Save and Share on a code
\* the page no longer shows, or could not encode.
QuietPreviewIsCurrent ==
    ~timer => /\ currentPayload = form.payload
              /\ fits = Fits(form.payload, look)
              /\ source = Picture(fields)

\* A save begun on an up-to-date preview saves that very picture, whatever time
\* the user takes in the picker: requestSavePng takes the payload and the look
\* at the end, not those of the click.
SavesWhatWasShown ==
    picker = "settled" =>
        /\ ~timer
        /\ source = [payload |-> currentPayload, look |-> look]
        /\ fits

\* Only a response that was superseded is cancelled: the youngest one draws what
\* the page asks for now, and no response shows a picture the page has left.
OnlyStaleCancelled ==
    \A i \in DOMAIN responses :
        /\ ~responses[i].cancelled => i = Len(responses) /\ responses[i].of = source
        /\ image # Nothing => responses[i].cancelled

\* The inductive invariant the proofs use.
IInv ==
    /\ TypeOK
    /\ QuietPreviewIsCurrent
    /\ SavesWhatWasShown
    /\ OnlyStaleCancelled

\* Created codes follow "the same settings as scans" (CHANGELOG.md:23), and an
\* entry made while the preview is up to date has the type the code was made as.
EntryFollowsRules ==
    [][entry' # entry =>
        /\ historyEnabled
        /\ excludeWifi => entry'.payload \notin WifiPayloads
        /\ entry'.payload = currentPayload
        /\ ~timer => entry' = form]_vars

\* A picture asked for is shown, unless the page asks for another.
PictureShown ==
    \A c \in Contents : source = c ~> (image = c \/ source # c)

\* The abstract preview this module implements.
Live == INSTANCE LivePreview
    WITH Inputs <- Forms \X Looks, input <- fields, view <- source

ImplementsPreview == Live!Spec
=============================================================================
