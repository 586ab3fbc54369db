-------------------------- MODULE CreatePageProofs --------------------------
(***************************************************************************)
(* Theorems about CreatePage, for every set of forms and looks, whatever   *)
(* fits, and however many image responses: the preview at rest is that of  *)
(* the fields, a save saves what was shown, only superseded responses are  *)
(* cancelled, entries follow the settings, and the page implements the     *)
(* live preview.                                                           *)
(***************************************************************************)
EXTENDS CreatePage, SequenceLemmas

Response == [of : Contents, drawn : BOOLEAN, cancelled : BOOLEAN]

-----------------------------------------------------------------------------
(* What the page's functions give.                                         *)

\* A form is the record of its type and its payload.
LEMMA FormParts ==
    ASSUME NEW f \in Forms
    PROVE  f.payload \in Payloads /\ f = [type |-> f.type, payload |-> f.payload]
  BY FormsAssumption DEF Payloads

\* The picture of the fields is a picture, or none.
LEMMA PictureType ==
    ASSUME NEW f \in Forms, NEW l \in Looks
    PROVE  /\ Picture(<<f, l>>) \in Contents \cup {Nothing}
           /\ Fits(f.payload, l) \in BOOLEAN
           /\ Picture(<<f, l>>) # Nothing =>
                 Picture(<<f, l>>) = [payload |-> f.payload, look |-> l] /\ Fits(f.payload, l)
<1>1. f.payload \in Payloads
  BY FormParts
<1>2. Fits(f.payload, l) \in BOOLEAN
  BY DEF Fits
<1>3. CASE Fits(f.payload, l)
  <2>1. Picture(<<f, l>>) = [payload |-> f.payload, look |-> l]
    BY <1>3 DEF Picture
  <2>2. f.payload \in Payloads \ {""}
    BY <1>1, <1>3 DEF Fits
  <2> QED
    <3>1. \A p \in Payloads \ {""} : [payload |-> p, look |-> l] \in Contents
      BY DEF Contents
    <3>2. Picture(<<f, l>>) \in Contents
      BY <2>1, <2>2, <3>1
    <3> QED
      BY <1>2, <1>3, <2>1, <3>2
<1>4. CASE ~Fits(f.payload, l)
  BY <1>2, <1>4 DEF Picture
<1> QED
  BY <1>3, <1>4

\* A new source cancels what is under way and asks for its own picture.
LEMMA LoadKeeps ==
    ASSUME TypeOK, OnlyStaleCancelled, source' \in Contents \cup {Nothing}, Load(source')
    PROVE  /\ image' \in Contents \cup {Nothing}
           /\ responses' \in Seq(Response)
           /\ OnlyStaleCancelled'
<1>1. responses \in Seq(Response) /\ image \in Contents \cup {Nothing}
  BY DEF TypeOK, Response
<1>2. CASE source' = source
  BY <1>1, <1>2 DEF Load, OnlyStaleCancelled
<1>3. CASE source' # source
  <2> DEFINE old == [i \in DOMAIN responses |-> Cancelled(responses[i])]
             asked == [of |-> source', drawn |-> FALSE, cancelled |-> FALSE]
  <2>1. \A r \in Response : Cancelled(r) \in Response /\ Cancelled(r).cancelled
    BY DEF Cancelled, Response
  <2>2. \A i \in 1 .. Len(responses) : responses[i] \in Response
    BY <1>1
  <2>3. \A i \in 1 .. Len(responses) :
            Cancelled(responses[i]) \in Response /\ Cancelled(responses[i]).cancelled
    BY <2>1, <2>2
  <2>4. /\ old \in Seq(Response) /\ Len(old) = Len(responses)
        /\ \A i \in DOMAIN old : old[i].cancelled
    <3>1. DOMAIN responses = 1 .. Len(responses) /\ Len(responses) \in Nat
      BY <1>1
    <3>2. old \in [1 .. Len(responses) -> Response]
      BY <2>3, <3>1
    <3>3. old \in Seq(Response)
      BY <3>1, <3>2, SeqDef
    <3> QED
      BY <2>3, <3>1, <3>2, <3>3
  <2>5. image' = Nothing
    BY <1>3 DEF Load
  <2>6. CASE source' = Nothing
    <3>1. responses' = old
      BY <1>3, <2>6 DEF Load
    <3> HIDE DEF old
    <3> QED
      BY <2>4, <2>5, <3>1 DEF OnlyStaleCancelled
  <2>7. CASE source' # Nothing
    <3>1. responses' = Append(old, asked)
      BY <1>3, <2>7 DEF Load
    <3>2. asked \in Response /\ asked.of = source' /\ ~asked.cancelled
      BY <2>7 DEF Response
    <3> HIDE DEF old, asked
    <3>3. /\ responses' \in Seq(Response) /\ Len(responses') = Len(old) + 1
          /\ \A i \in DOMAIN old : responses'[i] = old[i]
          /\ responses'[Len(old) + 1] = asked
          /\ \A i \in DOMAIN responses' : i \in DOMAIN old \/ i = Len(old) + 1
      BY <2>4, <3>1, <3>2, Appended
    <3> QED
      BY <2>4, <2>5, <3>2, <3>3 DEF OnlyStaleCancelled
  <2> QED
    BY <2>6, <2>7
<1> QED
  BY <1>2, <1>3

\* What is recorded is a form's type with a payload that is not empty.
LEMMA RecordType ==
    ASSUME TypeOK, RecordInHistory
    PROVE  entry' \in [type : {f.type : f \in Forms}, payload : Payloads \ {""}] \cup {Nothing}
  BY DEF TypeOK, RecordInHistory

-----------------------------------------------------------------------------
(* The invariant.                                                          *)

\* The page starts empty and with an empty preview.
LEMMA InitHolds == Init => IInv
<1> SUFFICES ASSUME Init PROVE IInv
  OBVIOUS
<1>1. form \in Forms /\ form.payload = "" /\ look \in Looks
  BY DEF Init
<1>2. timer = FALSE /\ currentPayload = "" /\ fits = FALSE /\ source = Nothing /\ picker = "closed"
  BY DEF Init
<1>3. image = Nothing /\ responses = <<>> /\ entry = Nothing
  BY DEF Init
<1>4. TypeOK
  <2>1. {timer, fits, historyEnabled, excludeWifi} \subseteq BOOLEAN
    BY <1>2 DEF Init
  <2>2. responses \in Seq([of : Contents, drawn : BOOLEAN, cancelled : BOOLEAN])
    BY <1>3
  <2> QED
    BY <1>1, <1>2, <1>3, <2>1, <2>2 DEF TypeOK
<1>5. QuietPreviewIsCurrent
  BY <1>1, <1>2 DEF QuietPreviewIsCurrent, Fits, Picture, fields
<1>6. SavesWhatWasShown
  BY <1>2 DEF SavesWhatWasShown
<1>7. OnlyStaleCancelled
  <2>1. DOMAIN responses = {}
    BY <1>3
  <2> QED
    BY <2>1 DEF OnlyStaleCancelled
<1> QED
  BY <1>4, <1>5, <1>6, <1>7 DEF IInv

\* An edit leaves the preview behind, and starts the timer that brings it back.
LEMMA EditHolds == IInv /\ (EditForm \/ EditLook) => IInv'
<1> SUFFICES ASSUME IInv, EditForm \/ EditLook PROVE IInv'
  OBVIOUS
<1>1. timer' = TRUE /\ picker = "closed" /\ picker' = "closed"
  BY DEF EditForm, EditLook, Refresh
<1>2. form' \in Forms /\ look' \in Looks
  BY DEF IInv, TypeOK, EditForm, EditLook
<1>3. UNCHANGED <<preview, drawing, settings, entry>>
  BY DEF EditForm, EditLook
<1>4. TypeOK'
  BY <1>1, <1>2, <1>3 DEF IInv, TypeOK, preview, drawing, settings
<1> QED
  BY <1>1, <1>3, <1>4
     DEF IInv, QuietPreviewIsCurrent, SavesWhatWasShown, OnlyStaleCancelled, preview, drawing

\* The timer brings the preview up to date; no settled save is open while it runs.
LEMMA PreviewTimerHolds == IInv /\ PreviewTimer => IInv'
<1> SUFFICES ASSUME IInv, PreviewTimer PROVE IInv'
  OBVIOUS
<1>1. timer /\ timer' = FALSE /\ UNCHANGED <<form, look, picker, historyEnabled, excludeWifi, entry>>
  BY DEF PreviewTimer, fields, settings
<1>2. /\ currentPayload' = form.payload /\ fits' = Fits(form.payload, look)
      /\ source' = Picture(<<form, look>>) /\ Load(source')
  BY DEF PreviewTimer, RefreshNow, fields
<1>3. form \in Forms /\ look \in Looks
  BY DEF IInv, TypeOK
<1>4. source' \in Contents \cup {Nothing} /\ fits' \in BOOLEAN /\ form.payload \in Payloads
  BY <1>2, <1>3, PictureType, FormParts
<1>5. /\ image' \in Contents \cup {Nothing} /\ responses' \in Seq(Response)
      /\ OnlyStaleCancelled'
  BY <1>2, <1>4, LoadKeeps DEF IInv
<1>6. TypeOK'
  BY <1>1, <1>2, <1>4, <1>5 DEF IInv, TypeOK, Response
<1>7. QuietPreviewIsCurrent'
  BY <1>1, <1>2 DEF QuietPreviewIsCurrent, fields
<1>8. SavesWhatWasShown'
  BY <1>1 DEF IInv, SavesWhatWasShown
<1> QED
  BY <1>5, <1>6, <1>7, <1>8 DEF IInv

\* A save begun with no refresh pending shows the picture of the fields.
LEMMA ClickSaveHolds == IInv /\ ClickSave => IInv'
<1> SUFFICES ASSUME IInv, ClickSave PROVE IInv'
  OBVIOUS
<1>1. /\ source # Nothing /\ fits /\ picker' = IF timer THEN "late" ELSE "settled"
      /\ UNCHANGED <<form, look, timer, preview, drawing, settings, entry>>
  BY DEF ClickSave, ButtonsEnabled, fields
<1>2. TypeOK'
  BY <1>1 DEF IInv, TypeOK, preview, drawing, settings
<1>3. SavesWhatWasShown'
  <2>1. CASE timer
    BY <1>1, <2>1 DEF SavesWhatWasShown
  <2>2. CASE ~timer
    <3>1. source = Picture(<<form, look>>) /\ currentPayload = form.payload
      BY <2>2 DEF IInv, QuietPreviewIsCurrent, fields
    <3>2. source = [payload |-> currentPayload, look |-> look]
      BY <1>1, <3>1, PictureType DEF IInv, TypeOK
    <3> QED
      BY <1>1, <2>2, <3>2 DEF SavesWhatWasShown, preview
  <2> QED
    BY <2>1, <2>2
<1> QED
  BY <1>1, <1>2, <1>3
     DEF IInv, QuietPreviewIsCurrent, OnlyStaleCancelled, preview, drawing, fields

\* The end of a save, a share and the settings leave preview and pictures alone.
LEMMA ButtonsHold ==
    IInv /\ (AcceptSave \/ CancelSave \/ ClickShare \/ ToggleSetting) => IInv'
<1> SUFFICES ASSUME IInv, AcceptSave \/ CancelSave \/ ClickShare \/ ToggleSetting PROVE IInv'
  OBVIOUS
<1>1. UNCHANGED <<form, look, timer, preview, drawing>>
  BY DEF AcceptSave, CancelSave, ClickShare, ToggleSetting, fields
<1>2. picker' = "closed"
  BY DEF AcceptSave, CancelSave, ClickShare, ButtonsEnabled, ToggleSetting
<1>3. historyEnabled' \in BOOLEAN /\ excludeWifi' \in BOOLEAN
  BY DEF AcceptSave, CancelSave, ClickShare, ToggleSetting, settings, IInv, TypeOK
<1>4. entry' \in [type : {f.type : f \in Forms}, payload : Payloads \ {""}] \cup {Nothing}
  <2>1. RecordInHistory \/ entry' = entry
    BY DEF AcceptSave, CancelSave, ClickShare, ToggleSetting
  <2> QED
    BY <2>1, RecordType DEF IInv, TypeOK
<1>5. TypeOK'
  BY <1>1, <1>2, <1>3, <1>4 DEF IInv, TypeOK, preview, drawing
<1> QED
  BY <1>1, <1>2, <1>5
     DEF IInv, QuietPreviewIsCurrent, SavesWhatWasShown, OnlyStaleCancelled, preview, drawing, fields

\* A drawn image changes nothing about which response is the current one.
LEMMA DrawHolds ==
    ASSUME IInv, NEW i \in 1 .. MaxResponses, Draw(i)
    PROVE  IInv'
<1>1. i \in DOMAIN responses /\ responses \in Seq(Response) /\ responses[i] \in Response
  <2>1. responses \in Seq(Response)
    BY DEF IInv, TypeOK, Response
  <2>2. i \in DOMAIN responses
    BY DEF Draw
  <2> QED
    BY <2>1, <2>2
<1>2. UNCHANGED <<fields, timer, preview, image, picker, settings, entry>>
  BY DEF Draw
<1> DEFINE e == [responses[i] EXCEPT !.drawn = TRUE]
<1>3. e \in Response /\ e.of = responses[i].of /\ e.cancelled = responses[i].cancelled
  BY <1>1 DEF Response
<1>4. responses' = [responses EXCEPT ![i] = e]
  BY DEF Draw
<1> HIDE DEF e
<1>5. /\ responses' \in Seq(Response) /\ DOMAIN responses' = DOMAIN responses
      /\ responses'[i] = e /\ \A j \in DOMAIN responses \ {i} : responses'[j] = responses[j]
  BY <1>1, <1>3, <1>4, Changed
<1>6. Len(responses') = Len(responses)
  BY <1>1, <1>5
<1>7. OnlyStaleCancelled'
  BY <1>2, <1>3, <1>5, <1>6 DEF IInv, OnlyStaleCancelled, preview
<1>8. TypeOK'
  BY <1>2, <1>5 DEF IInv, TypeOK, Response, fields, preview, settings
<1> QED
  BY <1>2, <1>7, <1>8
     DEF IInv, QuietPreviewIsCurrent, SavesWhatWasShown, fields, preview

\* The response that shows its image is the youngest, and all others are cancelled.
LEMMA RespondHolds ==
    ASSUME IInv, NEW i \in 1 .. MaxResponses, Respond(i)
    PROVE  IInv'
<1>1. i \in DOMAIN responses /\ responses \in Seq(Response) /\ responses[i] \in Response
  <2>1. responses \in Seq(Response)
    BY DEF IInv, TypeOK, Response
  <2>2. i \in DOMAIN responses
    BY DEF Respond
  <2> QED
    BY <2>1, <2>2
<1>2. UNCHANGED <<fields, timer, preview, picker, settings, entry>>
  BY DEF Respond
<1>3. /\ responses' = SubSeq(responses, 1, i - 1) \o SubSeq(responses, i + 1, Len(responses))
      /\ image' = IF responses[i].cancelled THEN image ELSE responses[i].of
  BY DEF Respond, Drops
<1>4. /\ responses' \in Seq(Response) /\ Len(responses') = Len(responses) - 1
      /\ \A j \in DOMAIN responses' :
            responses'[j] = IF j < i THEN responses[j] ELSE responses[j + 1]
  BY <1>1, <1>3, TakenOut
<1>5. \A j \in DOMAIN responses' : \E k \in DOMAIN responses \ {i} :
          responses'[j] = responses[k] /\ k = IF j < i THEN j ELSE j + 1
  BY <1>1, <1>4
<1>6. image' \in Contents \cup {Nothing}
  BY <1>1, <1>3 DEF IInv, TypeOK, Response
<1>7. OnlyStaleCancelled'
  <2> SUFFICES ASSUME NEW j \in DOMAIN responses'
               PROVE  /\ ~responses'[j].cancelled => j = Len(responses') /\ responses'[j].of = source'
                      /\ image' # Nothing => responses'[j].cancelled
    BY DEF OnlyStaleCancelled
  <2>1. PICK k \in DOMAIN responses \ {i} :
            responses'[j] = responses[k] /\ k = IF j < i THEN j ELSE j + 1
    BY <1>5
  <2>2. /\ ~responses[k].cancelled => k = Len(responses) /\ responses[k].of = source
        /\ image # Nothing => responses[k].cancelled
        /\ ~responses[i].cancelled => i = Len(responses)
    BY <1>1, <2>1 DEF IInv, OnlyStaleCancelled
  <2>3. source' = source
    BY <1>2 DEF preview
  <2>4. i \in 1 .. Len(responses) /\ k \in 1 .. Len(responses) /\ j \in 1 .. Len(responses) - 1
    BY <1>1, <1>4, <2>1
  <2>5. k = Len(responses) => j = Len(responses')
    BY <1>4, <2>1, <2>4
  <2>6. ~responses[i].cancelled => responses[k].cancelled
    BY <2>1, <2>2, <2>4
  <2> QED
    BY <1>3, <2>1, <2>2, <2>3, <2>5, <2>6
<1>8. TypeOK'
  BY <1>2, <1>4, <1>6 DEF IInv, TypeOK, Response, fields, preview, settings
<1> QED
  BY <1>2, <1>7, <1>8
     DEF IInv, QuietPreviewIsCurrent, SavesWhatWasShown, fields, preview

\* A step that changes nothing keeps the invariant.
LEMMA StutterHolds == IInv /\ UNCHANGED vars => IInv'
<1> SUFFICES ASSUME IInv, UNCHANGED vars PROVE IInv'
  OBVIOUS
<1> USE DEF vars, fields, preview, drawing, settings
<1>1. TypeOK'
  BY DEF IInv, TypeOK
<1>2. QuietPreviewIsCurrent' /\ SavesWhatWasShown'
  BY DEF IInv, QuietPreviewIsCurrent, SavesWhatWasShown
<1>3. OnlyStaleCancelled'
  BY DEF IInv, OnlyStaleCancelled
<1> QED
  BY <1>1, <1>2, <1>3 DEF IInv

\* Every step keeps the invariant.
LEMMA StepHolds == IInv /\ [Next]_vars => IInv'
  BY EditHolds, PreviewTimerHolds, ClickSaveHolds, ButtonsHold, DrawHolds, RespondHolds,
     StutterHolds DEF Next

-----------------------------------------------------------------------------
\* The inductive invariant of the page.
THEOREM Invariance == Spec => []IInv
<1>1. Init => IInv
  BY InitHolds
<1>2. IInv /\ [Next]_vars => IInv'
  BY StepHolds
<1> QED
  BY <1>1, <1>2, PTL DEF Spec

\* The page is well typed.
THEOREM TypeCorrect == Spec => []TypeOK
<1>1. IInv => TypeOK
  BY DEF IInv
<1> QED
  BY <1>1, Invariance, PTL

\* With no refresh pending, payload, capacity and picture are those of the fields
\* (refreshNow() in GeneratorPage.qml, and every edit that starts its timer).
THEOREM PreviewIsCurrent == Spec => []QuietPreviewIsCurrent
<1>1. IInv => QuietPreviewIsCurrent
  BY DEF IInv
<1> QED
  BY <1>1, Invariance, PTL

\* A save begun on an up-to-date preview saves that picture, however long the
\* picker is open (savePngTo() in GeneratorPage.qml).
THEOREM SaveIsWhatWasShown == Spec => []SavesWhatWasShown
<1>1. IInv => SavesWhatWasShown
  BY DEF IInv
<1> QED
  BY <1>1, Invariance, PTL

\* Whatever the order in which the pool draws, the response that is not cancelled
\* is the youngest and draws what the page asks for (qrimageprovider.cpp).
THEOREM StaleIsCancelled == Spec => []OnlyStaleCancelled
<1>1. IInv => OnlyStaleCancelled
  BY DEF IInv
<1> QED
  BY <1>1, Invariance, PTL

\* What is recorded obeys both history settings, is the payload of the preview,
\* and has the type it was made as when the preview is up to date
\* (recordInHistory() in GeneratorPage.qml).
THEOREM RecordsByTheRules == Spec => EntryFollowsRules
<1> DEFINE Rules ==
        entry' # entry =>
            /\ historyEnabled
            /\ excludeWifi => entry'.payload \notin WifiPayloads
            /\ entry'.payload = currentPayload
            /\ ~timer => entry' = form
<1>1. ASSUME IInv, [Next]_vars PROVE Rules
  <2> SUFFICES ASSUME entry' # entry PROVE Rules
    OBVIOUS
  <2>1. ~EditForm /\ ~EditLook /\ ~PreviewTimer /\ ~ClickSave /\ ~CancelSave /\ ~ToggleSetting
    BY DEF EditForm, EditLook, PreviewTimer, ClickSave, CancelSave, ToggleSetting
  <2>2. ~UNCHANGED vars /\ \A i \in 1 .. MaxResponses : ~Draw(i) /\ ~Respond(i)
    BY DEF vars, Draw, Respond
  <2>3. RecordInHistory
    BY <1>1, <2>1, <2>2 DEF Next, AcceptSave, ClickShare
  <2>4. /\ historyEnabled /\ ~(excludeWifi /\ currentPayload \in WifiPayloads)
        /\ entry' = [type |-> form.type, payload |-> currentPayload]
    BY <2>3 DEF RecordInHistory
  <2>5. ~timer => entry' = form
    BY <1>1, <2>4, FormParts DEF IInv, TypeOK, QuietPreviewIsCurrent
  <2> QED
    BY <2>4, <2>5
<1>2. []IInv /\ [][Next]_vars => [][Rules]_vars
  BY <1>1, PTL
<1> QED
  BY <1>2, Invariance, PTL DEF Spec, EntryFollowsRules

-----------------------------------------------------------------------------
(* The refinement.                                                         *)

\* The empty page shows the picture of its fields.
LEMMA LiveInit == Init => Live!Init
<1> SUFFICES ASSUME Init PROVE Live!Init
  OBVIOUS
<1>1. IInv /\ timer = FALSE /\ form \in Forms /\ look \in Looks
  BY InitHolds DEF Init
<1> QED
  BY <1>1 DEF IInv, QuietPreviewIsCurrent, Live!Init, fields

\* An edit changes the input, the timer updates the view, and nothing else does.
LEMMA LiveStep == IInv /\ [Next]_vars => [Live!Next]_<<fields, source>>
<1> SUFFICES ASSUME IInv, [Next]_vars PROVE [Live!Next]_<<fields, source>>
  OBVIOUS
<1>1. CASE EditForm \/ EditLook
  <2>1. form' \in Forms /\ look' \in Looks /\ source' = source
    BY <1>1 DEF EditForm, EditLook, IInv, TypeOK, preview
  <2> QED
    BY <2>1 DEF Live!Next, Live!Edit, fields
<1>2. CASE PreviewTimer
  <2>1. source' = Picture(fields) /\ fields' = fields
    BY <1>2 DEF PreviewTimer, RefreshNow
  <2> QED
    BY <2>1 DEF Live!Next, Live!Update
<1>3. CASE ClickSave \/ AcceptSave \/ CancelSave \/ ClickShare \/ ToggleSetting \/ UNCHANGED vars
  BY <1>3 DEF ClickSave, AcceptSave, CancelSave, ClickShare, ToggleSetting, vars, preview
<1>4. ASSUME NEW i \in 1 .. MaxResponses, Draw(i) \/ Respond(i) PROVE UNCHANGED <<fields, source>>
  BY <1>4 DEF Draw, Respond, preview
<1> QED
  BY <1>1, <1>2, <1>3, <1>4 DEF Next

\* Refinement, safety part: the picture asked for lags behind the fields, and is
\* never anything else than the picture of fields.
THEOREM ImplementsLivePreview == Spec => Live!Safety
  BY LiveInit, LiveStep, Invariance, PTL DEF Spec, Live!Safety
=============================================================================
