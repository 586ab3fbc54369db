---------------------------- MODULE MakeAndScan ----------------------------
(***************************************************************************)
(* A code made on the Create page, with the command line tool, by sealing  *)
(* a text (src/services/cryptohelper.cpp) or by another program, scanned   *)
(* and shown in the result dialog (qml/views/SafePreviewDialog.qml), among *)
(* other codes. What is between the maker and the scanner (image, camera,  *)
(* decoder) keeps the text; a sealed one may have been tampered with.      *)
(*                                                                         *)
(* Actors: the user, and the decoder, which may show the next code at any  *)
(* time, also while a file dialog of the previous one is open. The dialog  *)
(* keeps the result of each parser in a property: a parser that throws     *)
(* leaves the property on what it said of the previous code.               *)
(***************************************************************************)
EXTENDS CommandLine, Cipher, HandOver

CONSTANTS
    Forms,          \* what the user may enter on the Create page
    CommandLines,   \* how the user may call the command line tool
    ForeignForms,   \* what other programs may make a code of
    SecretForms,    \* what may be sealed: a plaintext and a passphrase
    Salts, Nonces,  \* what randomBytes() may return
    Tampered(_),    \* what may be made of a sealed text
    Passphrases,    \* what may be tried to open it with
    OtherCodes      \* codes of unknown origin

\* A network is of texts, whatever they hold; the other programs make none. A
\* contact of the page is of texts of one line; that of another program has a last
\* name.
IsText(s) == s \in Seq(Range(s))
IsLine(s) == IsText(s) /\ ~Contains(s, "\n")
IsNetwork(f) ==
    /\ IsText(f.ssid) /\ IsText(f.password)
    /\ f.auth \in {"WPA", "WEP", "nopass"} /\ f.hidden \in BOOLEAN

IsContact(f) ==
    /\ "last" \notin DOMAIN f
    /\ IsLine(f.name) /\ IsLine(f.org) /\ IsLine(f.cc) /\ IsLine(f.number) /\ IsLine(f.email) /\ IsLine(f.url)

ASSUME NetworksEntered ==
    /\ \A f \in Forms : f.type = "wifi" => IsNetwork(f)
    /\ \A args \in CommandLines : \A option \in DOMAIN args \cap {"wifi-ssid", "wifi-password"} : IsText(args[option])
    /\ \A f \in ForeignForms \cup SecretForms : f.type # "wifi"

ASSUME ContactsEntered ==
    /\ \A f \in Forms : f.type = "vcard" => IsContact(f)
    /\ \A f \in ForeignForms \cup SecretForms : f.type = "vcard" => "last" \in DOMAIN f

VARIABLES
    form,           \* the form the code was made from, NoForm before that
    made,           \* the text of the code made, <<>> before that
    exit,           \* the exit code of the command line tool, 0 before it runs
    content,        \* dialog.content
    parsed,         \* wifi, emailData, sms, geo, vcard, otp and calendar
    pending,        \* pendingName, pendingPhone, pendingEmail
    saveDialog,     \* the one open of contactSaveDialog and calendarSaveDialog
    card,           \* the last .vcf file written
    event,          \* the last .ics file written
    askedFor        \* history variable: the code whose contact is being saved

making == <<form, made, exit>>
saving == <<pending, saveDialog, card, event, askedFor>>
vars == <<making, content, parsed, saving>>

NoForm == [type |-> "none"]
Sealed == "passphrase" \in DOMAIN form

-----------------------------------------------------------------------------
Parse(s) == [wifi |-> ParseWifi(s), email |-> ParseEmail(s), sms |-> ParseSms(s),
             geo |-> ParseGeo(s), vcard |-> ParseVCard(s), otp |-> ParseOtp(s),
             calendar |-> ParseCalendar(s)]

\* The contact the Add contact button takes.
Contact(text, vcard) ==
    IF DetectKind(text) = "vcard" THEN vcard ELSE [NoContact EXCEPT !.phone = Tail(text)]

\* The tests of ScannerPage.classifyType(), which are to mirror the dialog's, and a
\* variant that was not given those for WhatsApp.
ClassesNoWhatsapp == SelectSeq(Recognisers, LAMBDA r : r.kind # "whatsapp")

Classes == <<
    Rule("wifi", {<<"WIFI:">>}),
    Rule("email", {<<"mailto:">>, <<"MATMSG:">>}),
    AddressRule,
    Rule("tel", {<<"tel:">>}),
    Rule("sms", {<<"sms:">>, <<"smsto:">>}),
    Rule("geo", {<<"geo:">>}),
    Rule("vcard", {<<"BEGIN:VCARD">>, <<"MECARD:">>}),
    Rule("otp", {<<"otpauth", "://">>}),
    Rule("calendar", {<<"BEGIN:VCALENDAR">>}),
    Rule("sepa", {<<"BCD", "\n">>}),
    Rule("whatsapp", {<<"whatsapp", "://">>}),
    Rule("whatsapp", {<<"https", "://", "wa.me/">>, <<"https", "://", "api.whatsapp.com/">>}),
    Rule("telegram", {<<"tg", "://">>}),
    Rule("telegram", {<<"https", "://", "t.me/">>}),
    Rule("signal", {<<"sgnl", "://">>}),
    Rule("signal", {<<"https", "://", "signal.me/">>}),
    Rule("facetime", {<<"facetime:">>, <<"facetime-audio:">>}),
    Rule("messenger", {<<"fb-messenger", "://">>}),
    Rule("bitcoin", {<<"bitcoin:">>}),
    Rule("ethereum", {<<"ethereum:">>}),
    Rule("upi", {<<"upi", "://">>}),
    Rule("paypal", {<<"https", "://", "paypal.me/">>, <<"https", "://", "www.paypal.me/">>}),
    Rule("store", {<<"market", "://">>}),
    Rule("store", {<<web, "://", shop>> : web \in {"https", "http"},
                       shop \in {"play.google.com/", "apps.apple.com/", "itunes.apple.com/"}}),
    Rule("url", {<<"https", "://">>, <<"http", "://">>}),
    Rule("encrypted", {<<"ENC", ":", "1">>}) >>

ClassifyType(s) ==
    LET fitting == {i \in DOMAIN Classes : Fits(s, Classes[i])}
    IN IF fitting = {} THEN "text" ELSE Classes[Min(fitting)].kind

\* saveTextFile(): a file that cannot be opened stays as it is.
SaveTextFile(file, text, opened) == IF opened THEN text ELSE file

-----------------------------------------------------------------------------
Init ==
    /\ form = NoForm
    /\ made = <<>>
    /\ exit = 0
    /\ content = <<>>
    /\ parsed = [wifi |-> NoWifi, email |-> Email(<<>>, <<>>, <<>>), sms |-> NoSms, geo |-> NoPlace,
                 vcard |-> NoContact, otp |-> NoOtp, calendar |-> NoEvent]
    /\ pending = NoContact
    /\ saveDialog = "none"
    /\ card = <<>>
    /\ event = <<>>
    /\ askedFor = <<>>

\* Bound: a behaviour makes one code, at a time of its own; who uses the command
\* line stays with it.
Made(f, text) ==
    /\ made = <<>> /\ text # <<>>
    /\ form' = f
    /\ made' = text

MakeOnPage ==
    \E f \in Forms :
        /\ exit = 0 /\ Made(f, BuildPayload(f))
        /\ UNCHANGED <<exit, content, parsed, saving>>

\* main(): a code is written when, and only when, it ends with 0. The image is
\* the part of QrGenerator; whether the text fits is a choice.
RunCommand ==
    \E args \in CommandLines, fits, opened, saved \in BOOLEAN :
        /\ made = <<>>
        /\ exit' = ExitCode(args, fits, opened, saved)
        /\ IF exit' = 0 THEN Made(FormOf(args), Payload(FormOf(args))) ELSE UNCHANGED <<form, made>>
        /\ UNCHANGED <<content, parsed, saving>>

MakeElsewhere ==
    \E f \in ForeignForms :
        /\ exit = 0 /\ Made(f, ForeignPayload(f))
        /\ UNCHANGED <<exit, content, parsed, saving>>

\* encryptText(), which no page calls yet.
MakeSealed ==
    \E f \in SecretForms, salt \in Salts, nonce \in Nonces :
        /\ exit = 0 /\ Made(f, EncryptText(f.plain, f.passphrase, salt, nonce))
        /\ UNCHANGED <<exit, content, parsed, saving>>

\* show(): every parser runs again on the new content.
Show(text) ==
    /\ content' = text
    /\ \E results \in {Parse(text)} :
          parsed' = [p \in DOMAIN parsed |->
                        IF results[p] = {} THEN parsed[p] ELSE CHOOSE r \in results[p] : TRUE]
    /\ UNCHANGED <<making, saving>>

ScanMade == made # <<>> /\ Show(made)

ScanOther == \E text \in OtherCodes : Show(text)

\* Bound: at most one tampered text, before any other code.
ScanTampered ==
    /\ Sealed /\ content = <<>>
    /\ \E text \in Tampered(made) : Show(text)

\* addContact() where the system has no contact screen; the dialog is modal.
AddContact ==
    /\ DetectKind(content) \in {"tel", "vcard"} /\ saveDialog = "none"
    /\ pending' = Contact(content, parsed.vcard)
    /\ saveDialog' = "contact"
    /\ askedFor' = content
    /\ UNCHANGED <<making, content, parsed, card, event>>

\* contactSaveDialog.onAccepted, and a variant that reads the dialog anew.
SaveContact(c) ==
    /\ saveDialog = "contact"
    /\ saveDialog' = "none"
    /\ \E opened \in BOOLEAN :
          card' = SaveTextFile(card, VCard(c.name, <<>>, c.phone, c.email, <<>>), opened)
    /\ UNCHANGED <<making, content, parsed, pending, event, askedFor>>

AcceptContactShown == SaveContact(Contact(content, parsed.vcard))

AcceptContact == SaveContact(pending)

\* calendarBtn.onClicked where the system has no calendar screen.
AddToCalendar ==
    /\ DetectKind(content) = "calendar" /\ saveDialog = "none"
    /\ saveDialog' = "calendar"
    /\ askedFor' = content
    /\ UNCHANGED <<making, content, parsed, pending, card, event>>

\* calendarSaveDialog.onAccepted: the text saved is the one shown by then.
AcceptEvent ==
    /\ saveDialog = "calendar"
    /\ saveDialog' = "none"
    /\ \E opened \in BOOLEAN : event' = SaveTextFile(event, content, opened)
    /\ UNCHANGED <<making, content, parsed, pending, card, askedFor>>

CancelSave ==
    /\ saveDialog # "none"
    /\ saveDialog' = "none"
    /\ UNCHANGED <<making, content, parsed, pending, card, event, askedFor>>

Next ==
    \/ MakeOnPage
    \/ RunCommand
    \/ MakeElsewhere
    \/ MakeSealed
    \/ ScanMade
    \/ ScanOther
    \/ ScanTampered
    \/ AddContact
    \/ AcceptContact
    \/ AddToCalendar
    \/ AcceptEvent
    \/ CancelSave

Spec == Init /\ [][Next]_vars

-----------------------------------------------------------------------------
\* What the dialog says is said of the code it shows, whatever was scanned before:
\* a parser that throws leaves what it said of an earlier one, and no other does.
SaysWhatIsShown ==
    content # <<>> => \A p \in DOMAIN Parse(content) :
        parsed[p] \in Parse(content)[p] \/ Parse(content)[p] = {}

\* The contact to be saved is the one of the code shown when it was asked for.
PendingIsAskedFor ==
    saveDialog = "contact" => \E c \in ParseVCard(askedFor) : pending = Contact(askedFor, c)

\* The invariant that the steps keep. The contact parser never throws, and has
\* nothing to say of no code.
IInv ==
    /\ DOMAIN parsed = DOMAIN Parse(content)
    /\ parsed.vcard \in ParseVCard(content)
    /\ SaysWhatIsShown
    /\ PendingIsAskedFor

\* What the dialog should say of a code made from the form.
Entered ==
    CASE form.type = "wifi" ->
            [ssid |-> form.ssid, security |-> <<form.auth>>, hidden |-> form.hidden,
             password |-> IF form.auth = "nopass" THEN <<>> ELSE form.password]
      [] form.type = "email" -> Email(form.text, form.subject, form.body)
      [] form.type = "sms" ->
            [number |-> NoSpaces(CombinedNumber(form.cc, form.number)), message |-> form.body]
      [] form.type = "geo" ->
            IF form.mode = "address"
            THEN [lat |-> <<SixDecimals["0"]>>, lon |-> <<SixDecimals["0"]>>,
                  label |-> ComposedAddress(form)]
            ELSE [lat |-> <<SixDecimals[form.lat]>>, lon |-> <<SixDecimals[form.lon]>>,
                  label |-> <<>>]
      [] form.type = "vcard" ->
            [name |-> IF "last" \in DOMAIN form THEN Trimmed(form.first \o <<" ">> \o form.last)
                      ELSE Trimmed(form.name),
             phone |-> CombinedNumber(form.cc, form.number), email |-> Trimmed(form.email)]
      [] form.type = "otp" ->
            [NoOtp EXCEPT !.type = <<form.mode>>, !.account = form.account, !.issuer = form.issuer,
                          !.secret = form.secret, !.digits = form.digits]
      [] form.type = "calendar" ->
            [title |-> form.title, description |-> <<>>, location |-> form.location,
             start |-> Millis[form.start], end |-> Millis[form.end]]

\* A code, scanned, is recognised as what it was made as (the Create page uses
\* "the scanner's categories", GeneratorPage.qml:141) and says what was entered:
\* no field swallows, cuts or invents part of another, whatever the fields hold,
\* whatever was scanned before, and whoever made it.
ComesBackAsEntered ==
    made # <<>> /\ content = made =>
        /\ DetectKind(content) = form.type
        /\ form.type \in DOMAIN parsed => parsed[form.type] = Entered

\* The history gives a scanned code the kind the dialog shows, "the same
\* categories the scan result dialog recognises" (ScannerPage.qml:36), with the
\* one exception of encrypted texts, which the dialog shows as texts.
HistoryAgreesWithDialog ==
    content # <<>> => \/ ClassifyType(content) = DetectKind(content)
                      \/ ClassifyType(content) = "encrypted" /\ DetectKind(content) = "text"

\* The buttons hand on what was entered: a draft, a message, a place, a number, a
\* contact, an event or a network says it in the words of the program that gets
\* it, after the code's own format was taken apart. Two things are not part of it:
\* ConnectToWifi suggests WPA2 for WEP; and on a Linux desktop ComposeEmail takes a
\* percent sign with a code after it, in a subject or body, for that code.
HandsOverWhatWasEntered ==
    made # <<>> /\ content = made =>
        CASE form.type = "email" ->
                /\ ReadMailto(BuildMailto(parsed.email)) = {Entered}
                /\ Coded(form.subject) \cup Coded(form.body) = {} =>
                       ReadMailto(ComposeEmail(parsed.email)) = {Entered}
          [] form.type = "sms" -> ReadSms(OpenSms(parsed.sms)) = {Entered}
          [] form.type = "geo" ->
                \A isMobile \in BOOLEAN :
                    ReadMap(OpenMap(content, parsed.geo, isMobile))
                        = {IF Entered.label # <<>> THEN Entered.label
                           ELSE Entered.lat \o <<",">> \o Entered.lon}
          [] form.type = "tel" ->
                Tail(Dial(content, parsed.vcard)) = NoSpaces(CombinedNumber(form.cc, form.number))
          [] form.type = "vcard" ->
                /\ Tail(Dial(content, parsed.vcard)) = Entered.phone
                /\ InsertContact(parsed.vcard)
                       = Restrict(Entered, {k \in DOMAIN Entered : Entered[k] # <<>>})
          [] form.type = "calendar" ->
                InsertEvent(parsed.calendar)
                    = (IF form.title = <<>> THEN <<>> ELSE "title" :> form.title)
                      @@ (IF form.location = <<>> THEN <<>> ELSE "eventLocation" :> form.location)
                      @@ ("beginTime" :> Entered.start) @@ ("endTime" :> Entered.end)
          [] form.type = "wifi" ->
                LET put == ConnectToWifi(parsed.wifi)
                IN CASE form.ssid = <<>> -> put = NoIntent
                     [] form.ssid # <<>> /\ form.auth = "WEP" -> TRUE
                     [] OTHER ->
                           put = ("ssid" :> form.ssid)
                                 @@ (IF Entered.password = <<>> THEN <<>> ELSE "wpa2" :> form.password)
                                 @@ (IF form.hidden THEN "hidden" :> TRUE ELSE <<>>)
          [] OTHER -> TRUE

\* A tampered text that is still the sealed one: another spelling of the same
\* number of iterations, or characters of the tag that decoding does not see.
StillSealed(text) ==
    LET parts == Split(text, ":")
        sealed == Split(made, ":")
    IN /\ Len(parts) = Len(sealed)
       /\ \A i \in DOMAIN parts \ {4, 8} : parts[i] = sealed[i]
       /\ Iterations(parts[4]) = Iterations(sealed[4])
       /\ Decoded(parts[8]) = Decoded(sealed[8])

\* A sealed text opens with its passphrase, as what was sealed, and with no
\* other; a text put together from it in any other way, also from pieces of
\* other sealed texts, does not open at all (tests/unit/tst_cryptohelper.cpp:
\* encryptRoundTrip, rejectWrongPassphrase, rejectTamperedPayload and
\* rejectMalformedPayload try one text each). The exception: a text that begins
\* with a byte-order mark is sealed and never opens again.
OpensAsSealed ==
    content # <<>> =>
        \A passphrase \in Passphrases :
            DecryptText(content, passphrase) =
                {IF Sealed /\ passphrase = form.passphrase /\ StillSealed(content)
                    /\ ~Starts(form.plain, {<<"BOM">>})
                 THEN form.plain ELSE <<>>}

\* The contact saved is the one shown when Add contact was pressed, although the
\* decoder may show another code before the file dialog is answered; and the card
\* says of it what the code said.
SavedContactIsAskedFor ==
    [][card' # card =>
        \E new \in {card'}, c \in ParseVCard(askedFor) :
            ParseVCard(new) = {Contact(askedFor, c)}]_vars
=============================================================================
