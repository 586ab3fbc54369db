------------------------------ MODULE Payloads ------------------------------
(***************************************************************************)
(* What a QR code says: how the Create page builds it                      *)
(* (src/core/qrdata.cpp, qml/views/GeneratorPage.qml), and how a scanned   *)
(* one is recognised and taken apart (qml/views/SafePreviewDialog.qml,     *)
(* qml/views/ScannerPage.qml).                                             *)
(*                                                                         *)
(* A text is a sequence of symbols: single characters, and the fixed words *)
(* of the formats ("WIFI:", "subject=", "51.500000"), in any case where    *)
(* the code reads them in any; "\n" is a line break of either kind. A form *)
(* is a record of the selected type, under its name in the history, and    *)
(* its fields.                                                             *)
(***************************************************************************)
EXTENDS Naturals, Sequences, SequencesExt

-----------------------------------------------------------------------------
(* Texts.                                                                  *)

\* trimmed(), and simplified().remove(' ').
Trimmed(s) ==
    LET ink == {i \in DOMAIN s : s[i] # " "}
    IN IF ink = {} THEN <<>> ELSE SubSeq(s, Min(ink), Max(ink))

NoSpaces(s) == SelectSeq(s, LAMBDA c : c # " ")

Place(s, c) == SelectInSeq(s, LAMBDA d : d = c)
Before(s, c) == IF Contains(s, c) THEN SubSeq(s, 1, Place(s, c) - 1) ELSE s
After(s, c) == IF Contains(s, c) THEN SubSeq(s, Place(s, c) + 1, Len(s)) ELSE <<>>

\* The first of some pieces begins with one more symbol.
Begun(c, pieces) == [pieces EXCEPT ![1] = <<c>> \o @]

\* The pieces of s between the symbols c; from[k] are those of what is left at k.
Split(s, c) ==
    LET from[k \in 1 .. Len(s) + 1] ==
            CASE k > Len(s) -> << <<>> >>
              [] k <= Len(s) /\ s[k] = c -> << <<>> >> \o from[k + 1]
              [] OTHER -> Begun(s[k], from[k + 1])
    IN from[1]

\* Percent encoding: "%" and the symbol's code for all but the unreserved.
Hex == (" " :> "20") @@ ("%" :> "25") @@ ("&" :> "26") @@ ("+" :> "2B")
       @@ ("," :> "2C") @@ (":" :> "3A") @@ (";" :> "3B") @@ ("?" :> "3F")
       @@ ("@" :> "40") @@ ("\\" :> "5C") @@ ("body=" :> "body3D")

PercentEncoded(s) ==
    FlattenSeq([i \in DOMAIN s |-> IF s[i] \in DOMAIN Hex THEN <<"%", Hex[s[i]]>> ELSE <<s[i]>>])

\* decodeURIComponent(): it throws at a "%" without a code. What may throw is a
\* set, empty when it does.
DecodedPiece(t) ==
    {<<c>> \o Tail(t) : c \in {d \in DOMAIN Hex : t # <<>> /\ Hex[d] = t[1]}}

PercentDecoded(s) ==
    LET pieces == Split(s, "%")
        codes == {i \in 2 .. Len(pieces) : DecodedPiece(pieces[i]) = {}}
    IN IF codes # {} THEN {}
       ELSE {FlattenSeq([i \in DOMAIN pieces |->
                IF i = 1 THEN pieces[1] ELSE CHOOSE t \in DecodedPiece(pieces[i]) : TRUE])}

-----------------------------------------------------------------------------
(* QrData.                                                                 *)

Escaped(s, specials) ==
    FlattenSeq([i \in DOMAIN s |-> IF s[i] \in specials THEN <<"\\", s[i]>> ELSE <<s[i]>>])

\* escapeMecard(), and a variant that forgets the escape character itself.
EscapeMecardNoBackslash(s) == Escaped(s, {";", ",", ":", "\""})

EscapeMecard(s) == Escaped(s, {"\\", ";", ",", ":", "\""})

\* escapeVCard()
EscapeVCard(s) ==
    FlattenSeq([i \in DOMAIN s |-> IF s[i] \in {"\\", ";", ","} THEN <<"\\", s[i]>>
                                  ELSE IF s[i] = "\n" THEN <<"\\", "n">> ELSE <<s[i]>>])

\* combinedNumber()
CombinedNumber(cc, num) ==
    LET c == Trimmed(cc)
    IN (IF c # <<>> /\ c[1] # "+" THEN <<"+">> ELSE <<>>) \o c \o Trimmed(num)

\* Items joined as in QStringList::join.
Joined(parts, sep) ==
    LET items == SelectSeq(parts, LAMBDA p : p # <<>>)
    IN FlattenSeq([i \in DOMAIN items |-> IF i = 1 THEN items[1] ELSE sep \o items[i]])

\* composedAddress()
ComposedAddress(f) ==
    Joined(<<Trimmed(Trimmed(f.street) \o <<" ">> \o Trimmed(f.building)),
             Trimmed(Trimmed(f.postal) \o <<" ">> \o Trimmed(f.city)),
             Trimmed(f.country)>>, <<",", " ">>)

\* QString::number(parseFloat(text || "0"), 'f', 6), for the numbers entered.
SixDecimals == ("0" :> "0.000000") @@ ("51.5" :> "51.500000") @@ ("0.1234567" :> "0.123457")

WithQuery(start, key, text) ==
    IF text = <<>> THEN start ELSE start \o <<"?", key>> \o PercentEncoded(text)

UrlPayload(f) ==
    LET t == Trimmed(f.text)
    IN IF t = <<>> \/ Contains(t, "://") THEN t ELSE <<"https", "://">> \o t

EmailPayload(f) ==
    LET query == Joined(<<IF f.subject = <<>> THEN <<>> ELSE <<"subject=">> \o PercentEncoded(f.subject),
                          IF f.body = <<>> THEN <<>> ELSE <<"body=">> \o PercentEncoded(f.body)>>, <<"&">>)
    IN <<"mailto:">> \o f.text \o (IF query = <<>> THEN <<>> ELSE <<"?">> \o query)

PhonePayload(f) == <<"tel:">> \o NoSpaces(CombinedNumber(f.cc, f.number))

SmsPayload(f) ==
    <<"smsto:">> \o NoSpaces(CombinedNumber(f.cc, f.number))
    \o (IF f.body = <<>> THEN <<>> ELSE <<":">> \o f.body)

WhatsappPayload(f) ==
    WithQuery(<<"https", "://", "wa.me/">> \o
                  SelectSeq(CombinedNumber(f.cc, f.number), LAMBDA c : c \in {"1", "2"}),
              "text=", f.body)

WifiPayload(f) ==
    <<"WIFI:", "S", ":">> \o EscapeMecard(f.ssid) \o <<";", "T", ":", f.auth, ";">>
    \o (IF f.auth # "nopass" /\ f.password # <<>>
        THEN <<"P", ":">> \o EscapeMecard(f.password) \o <<";">> ELSE <<>>)
    \o (IF f.hidden THEN <<"H", ":", "true", ";">> ELSE <<>>)
    \o <<";">>

GeoPayload(f) ==
    IF f.mode = "address"
    THEN WithQuery(<<"geo:", SixDecimals["0"], ",", SixDecimals["0"]>>, "q=", ComposedAddress(f))
    ELSE <<"geo:", SixDecimals[f.lat], ",", SixDecimals[f.lon]>>

Line(key, s) == IF s = <<>> THEN <<>> ELSE <<key, ":">> \o EscapeVCard(s) \o <<"\n">>

VCard(name, org, phone, email, url) ==
    <<"BEGIN:VCARD", "\n", "VERSION", ":", "3.0", "\n", "N", ":">> \o EscapeVCard(name)
    \o <<"\n", "FN", ":">> \o EscapeVCard(name) \o <<"\n">>
    \o Line("ORG", org) \o Line("TEL", phone) \o Line("EMAIL", email) \o Line("URL", url)
    \o <<"END:VCARD">>

ContactPayload(f) ==
    VCard(Trimmed(f.name), Trimmed(f.org), CombinedNumber(f.cc, f.number),
          Trimmed(f.email), Trimmed(f.url))

-----------------------------------------------------------------------------
(* GeneratorPage: inputEmpty() and buildPayload().                         *)

Blank(s) == Trimmed(s) = <<>>

InputEmpty(f) ==
    CASE f.type \in {"text", "url", "email"} -> Blank(f.text)
      [] f.type \in {"tel", "whatsapp"} -> Blank(f.number)
      [] f.type = "sms" -> Blank(f.number) /\ Blank(f.body)
      [] f.type = "vcard" -> Blank(f.name) /\ Blank(f.number) /\ Blank(f.email)
      [] f.type = "wifi" -> Blank(f.ssid)
      [] f.type = "geo" ->
            IF f.mode = "address" THEN ComposedAddress(f) = <<>> ELSE "" \in {f.lat, f.lon}

Payload(f) ==
    CASE f.type = "text" -> f.text
      [] f.type = "url" -> UrlPayload(f)
      [] f.type = "email" -> EmailPayload(f)
      [] f.type = "tel" -> PhonePayload(f)
      [] f.type = "sms" -> SmsPayload(f)
      [] f.type = "whatsapp" -> WhatsappPayload(f)
      [] f.type = "vcard" -> ContactPayload(f)
      [] f.type = "wifi" -> WifiPayload(f)
      [] f.type = "geo" -> GeoPayload(f)

BuildPayload(f) == IF InputEmpty(f) THEN <<>> ELSE Payload(f)

-----------------------------------------------------------------------------
(* SafePreviewDialog: what kind of code it is.                             *)

\* /^[^\s@]+@[^\s@]+\.[^\s@]+$/
BareAddress(s) ==
    /\ ~Contains(s, " ") /\ ~Contains(s, "\n")
    /\ Before(s, "@") # <<>>
    /\ LET host == After(s, "@")
       IN /\ ~Contains(host, "@")
          /\ \E i \in 2 .. Len(host) - 1 : host[i] = "."

Starts(s, words) ==
    \E w \in words : Len(w) <= Len(s) /\ SubSeq(s, 1, Len(w)) = w

\* A rule is the kind it gives and how a text must start; the third one, without
\* a start, looks for a bare address.
Rule(kind, words) == [kind |-> kind, starts |-> words]
AddressRule == Rule("email", {})

Fits(s, rule) == IF rule = AddressRule THEN BareAddress(s) ELSE Starts(s, rule.starts)

\* recognisers
Recognisers == <<
    Rule("wifi", {<<"WIFI:">>}),
    Rule("email", {<<"mailto:">>, <<"MATMSG:">>}),
    AddressRule,
    Rule("tel", {<<"tel:">>}),
    Rule("sms", {<<"sms:">>, <<"smsto:">>}),
    Rule("geo", {<<"geo:">>}),
    Rule("vcard", {<<"BEGIN:VCARD">>, <<"MECARD:">>}),
    Rule("otp", {<<"otpauth", "://">>}),
    Rule("calendar", {<<"BEGIN:VCALENDAR">>}),
    Rule("sepa", {<<"BCD", "\n">>}),
    Rule("whatsapp", {<<"whatsapp", "://">>}),
    Rule("whatsapp", {<<"https", "://", "wa.me/">>, <<"https", "://", "api.whatsapp.com/">>}),
    Rule("telegram", {<<"tg", "://">>}),
    Rule("telegram", {<<"https", "://", "t.me/">>}),
    Rule("signal", {<<"sgnl", "://">>}),
    Rule("signal", {<<"https", "://", "signal.me/">>}),
    Rule("facetime", {<<"facetime:">>, <<"facetime-audio:">>}),
    Rule("messenger", {<<"fb-messenger", "://">>}),
    Rule("bitcoin", {<<"bitcoin:">>}),
    Rule("ethereum", {<<"ethereum:">>}),
    Rule("upi", {<<"upi", "://">>}),
    Rule("paypal", {<<"https", "://", "paypal.me/">>, <<"https", "://", "www.paypal.me/">>}),
    Rule("store", {<<"market", "://">>}),
    Rule("store", {<<web, "://", shop>> : web \in {"https", "http"},
                       shop \in {"play.google.com/", "apps.apple.com/", "itunes.apple.com/"}}),
    Rule("url", {<<"https", "://">>, <<"http", "://">>}) >>

\* detectKind()
DetectKind(s) ==
    LET fitting == {i \in DOMAIN Recognisers : Fits(s, Recognisers[i])}
    IN IF fitting = {} THEN "text" ELSE Recognisers[Min(fitting)].kind

-----------------------------------------------------------------------------
(* SafePreviewDialog: what a code says. A parser gives the set of its      *)
(* result, empty when decodeURIComponent() throws.                         *)

\* match(/key([^&]*)/) of a query.
Param(query, key) == Before(After(query, key), "&")
PlusToSpace(s) == ReplaceAll(s, "+", " ")

\* The fields of a "WIFI:" body: a backslash takes the next symbol as it is, a
\* semicolon ends a field, and what is left at the end is one if it is not empty.
FieldPieces(body) ==
    LET from[k \in 1 .. Len(body) + 1] ==
            CASE k > Len(body) -> << <<>> >>
              [] k < Len(body) /\ body[k] = "\\" -> Begun(body[k + 1], from[k + 2])
              [] k <= Len(body) /\ body[k] = ";" -> << <<>> >> \o from[k + 1]
              [] OTHER -> Begun(body[k], from[k + 1])
    IN from[1]

Fields(body) ==
    LET pieces == FieldPieces(body)
    IN IF Last(pieces) = <<>> THEN Front(pieces) ELSE pieces

FirstField(s) == LET fields == Fields(s) IN IF fields = <<>> THEN <<>> ELSE fields[1]

NoWifi == [ssid |-> <<>>, security |-> <<>>, password |-> <<>>, hidden |-> FALSE]

\* The value of the last field with this key.
LastValue(fields, key) ==
    LET with == {i \in DOMAIN fields : Len(fields[i]) >= 2 /\ SubSeq(fields[i], 1, 2) = <<key, ":">>}
    IN IF with = {} THEN <<>> ELSE SubSeq(fields[Max(with)], 3, Len(fields[Max(with)]))

ParseWifi(s) ==
    IF ~Starts(s, {<<"WIFI:">>}) THEN {NoWifi}
    ELSE LET fields == Fields(Tail(s))
         IN {[ssid |-> LastValue(fields, "S"), security |-> LastValue(fields, "T"),
              password |-> LastValue(fields, "P"), hidden |-> LastValue(fields, "H") = <<"true">>]}

\* What parseEmail() returns.
Email(address, subject, body) == [address |-> address, subject |-> subject, body |-> body]

\* p.match(/key:((?:\\.|[^;])*)/) of a "MATMSG:", with its escapes undone.
MatMsgField(s, key) ==
    LET at == {i \in 1 .. Len(s) - 1 : s[i] = key /\ s[i + 1] = ":"}
    IN IF at = {} THEN <<>> ELSE FirstField(SubSeq(s, Min(at) + 2, Len(s)))

ParseEmail(s) ==
    LET t == Trimmed(s)
        query == After(Tail(t), "?")
    IN IF Starts(t, {<<"mailto:">>})
       THEN {Email(a, u, b) : a \in PercentDecoded(Before(Tail(t), "?")),
                              u \in PercentDecoded(PlusToSpace(Param(query, "subject="))),
                              b \in PercentDecoded(PlusToSpace(Param(query, "body=")))}
       ELSE IF Starts(t, {<<"MATMSG:">>})
       THEN {Email(MatMsgField(t, "TO"), MatMsgField(t, "SUB"), MatMsgField(t, "BODY"))}
       ELSE {Email(IF BareAddress(t) THEN t ELSE <<>>, <<>>, <<>>)}

NoSms == [number |-> <<>>, message |-> <<>>]

ParseSms(s) ==
    CASE Starts(s, {<<"smsto:">>}) ->
            {[number |-> Before(Tail(s), ":"), message |-> After(Tail(s), ":")]}
      [] Starts(s, {<<"sms:">>}) ->
            {[number |-> Before(Tail(s), "?"), message |-> m] :
                m \in PercentDecoded(PlusToSpace(Param(After(Tail(s), "?"), "body=")))}
      [] OTHER -> {NoSms}

NoPlace == [lat |-> <<>>, lon |-> <<>>, label |-> <<>>]

ParseGeo(s) ==
    LET place == Before(Tail(s), "?")
    IN IF ~Starts(s, {<<"geo:">>}) THEN {NoPlace}
       ELSE {[lat |-> IF Contains(place, ",") THEN Before(place, ",") ELSE <<>>,
              lon |-> Before(After(place, ","), ","), label |-> l] :
                l \in PercentDecoded(PlusToSpace(Param(After(Tail(s), "?"), "q=")))}

\* val.replace(/\\([;,\\])/g, "$1")
UnescapeVCard(s) ==
    LET from[k \in 1 .. Len(s) + 1] ==
            CASE k > Len(s) -> <<>>
              [] k < Len(s) /\ s[k] = "\\" /\ s[k + 1] \in {";", ",", "\\"} -> <<s[k + 1]>> \o from[k + 2]
              [] OTHER -> <<s[k]>> \o from[k + 1]
    IN from[1]

NoContact == [name |-> <<>>, phone |-> <<>>, email |-> <<>>]

\* The value of the first line, or field, with this key that has one.
FirstValue(keys, values, key) ==
    LET with == {i \in DOMAIN keys : keys[i] = <<key>> /\ values[i] # <<>>}
    IN IF with = {} THEN <<>> ELSE values[Min(with)]

\* "Last,First" in reading order.
ReadingOrder(name) ==
    LET parts == Split(name, ",")
    IN IF Len(parts) > 1 THEN Trimmed(parts[2] \o <<" ">> \o parts[1]) ELSE Trimmed(name)

ParseMecard(s) ==
    LET fields == Fields(Tail(s))
        keys == [i \in DOMAIN fields |-> Before(fields[i], ":")]
        values == [i \in DOMAIN fields |-> After(fields[i], ":")]
    IN [name |-> FirstValue(keys, [i \in DOMAIN fields |-> ReadingOrder(values[i])], "N"),
        phone |-> FirstValue(keys, values, "TEL"), email |-> FirstValue(keys, values, "EMAIL")]

\* Of a key only its beginning counts, not its parameters: indexOf() === 0.
ParseVCard(s) ==
    LET lines == Split(s, "\n")
        keys == [i \in DOMAIN lines |-> SubSeq(Before(lines[i], ":"), 1, 1)]
        values == [i \in DOMAIN lines |-> UnescapeVCard(After(lines[i], ":"))]
    IN CASE Starts(s, {<<"MECARD:">>}) -> {ParseMecard(s)}
         [] Starts(s, {<<"BEGIN:VCARD">>}) ->
               {[name |-> FirstValue(keys, values, "FN"), phone |-> FirstValue(keys, values, "TEL"),
                 email |-> FirstValue(keys, values, "EMAIL")]}
         [] OTHER -> {NoContact}

\* parseOtp(): the label names issuer and account; of a parameter given twice
\* the last counts.
OtpKeys == {"secret", "issuer", "algorithm", "digits", "period"}
NoOtp == [k \in OtpKeys \cup {"type", "account"} |-> <<>>]

ParseOtp(s) ==
    LET rest == SubSeq(s, 3, Len(s))
        path == Before(rest, "?")
        params == Split(After(rest, "?"), "&")
        value(i) == PercentDecoded(PlusToSpace(After(params[i], "=")))
        with(k) == {i \in DOMAIN params : Contains(params[i], "=") /\ Before(params[i], "=") = <<k>>}
        label == IF Contains(path, "/") THEN PercentDecoded(After(path, "/")) ELSE {<<>>}
        named(l) == [k \in {"type", "issuer", "account"} |->
                        CASE k = "type" -> IF Contains(path, "/") THEN Before(path, "/") ELSE <<>>
                          [] k = "issuer" -> IF Contains(l, ":") THEN Before(l, ":") ELSE <<>>
                          [] k = "account" -> IF Contains(l, ":") THEN After(l, ":") ELSE l]
    IN IF ~Starts(s, {<<"otpauth", "://">>}) THEN {NoOtp}
       ELSE IF \E i \in DOMAIN params : Contains(params[i], "=") /\ value(i) = {} THEN {}
       ELSE {[k \in DOMAIN NoOtp |->
                IF k \in OtpKeys /\ with(k) # {} THEN CHOOSE v \in value(Max(with(k))) : TRUE
                ELSE IF k \in DOMAIN named(l) THEN named(l)[k] ELSE <<>>] : l \in label}

\* icalToMillis(), for the dates used: a moment, or 0.
Millis == ("20260116T090000Z" :> 1) @@ ("20260117" :> 2)
IcalToMillis(value) ==
    IF value # <<>> /\ value = <<value[1]>> /\ value[1] \in DOMAIN Millis THEN Millis[value[1]] ELSE 0

NoEvent == [title |-> <<>>, description |-> <<>>, location |-> <<>>, start |-> 0, end |-> 0]

\* A line that begins with a space continues the one before it; a key ends at
\* its parameters.
ParseCalendar(s) ==
    LET unfolded == FlattenSeq(LET pieces == Split(s, "\n")
                               IN [i \in DOMAIN pieces |->
                                     IF i > 1 /\ pieces[i] # <<>> /\ pieces[i][1] = " " THEN Tail(pieces[i])
                                     ELSE (IF i = 1 THEN <<>> ELSE <<"\n">>) \o pieces[i]])
        lines == SelectSeq(Split(unfolded, "\n"), LAMBDA l : Contains(l, ":"))
        keys == [i \in DOMAIN lines |-> Before(Before(lines[i], ":"), ";")]
        values == [i \in DOMAIN lines |-> Trimmed(After(lines[i], ":"))]
        date(key) ==
            LET with == {i \in DOMAIN keys : keys[i] = <<key>> /\ IcalToMillis(values[i]) # 0}
            IN IF with = {} THEN 0 ELSE IcalToMillis(values[Min(with)])
    IN IF ~Starts(s, {<<"BEGIN:VCALENDAR">>}) THEN {NoEvent}
       ELSE {[title |-> FirstValue(keys, values, "SUMMARY"),
              description |-> FirstValue(keys, values, "DESCRIPTION"),
              location |-> FirstValue(keys, values, "LOCATION"),
              start |-> date("DTSTART"), end |-> date("DTEND")]}

-----------------------------------------------------------------------------
(* What other programs make of a form, in the formats the Create page does *)
(* not write; Folded is the line folding of iCalendar.                     *)

MatMsg(f) ==
    <<"MATMSG:", "TO", ":">> \o EscapeMecard(f.text) \o <<";", "SUB", ":">> \o EscapeMecard(f.subject)
    \o <<";", "BODY", ":">> \o EscapeMecard(f.body) \o <<";", ";">>

SmsUri(f) == WithQuery(<<"sms:">> \o f.number, "body=", f.body)

Mecard(f) ==
    <<"MECARD:", "N", ":">> \o EscapeMecard(f.last)
    \o (IF f.first = <<>> THEN <<>> ELSE <<",">> \o EscapeMecard(f.first))
    \o <<";", "TEL", ":">> \o EscapeMecard(f.number) \o <<";", "EMAIL", ":">> \o EscapeMecard(f.email)
    \o <<";", ";">>

\* A card with parameters in its keys, and a name twice: family;given, and formatted.
TypedCard(f) ==
    <<"BEGIN:VCARD", "\n", "VERSION", ":", "3.0", "\n", "N", ":">> \o EscapeVCard(f.last) \o <<";">> \o EscapeVCard(f.first)
    \o <<"\n", "FN", ";", "CHARSET", ":">> \o EscapeVCard(Trimmed(f.first \o <<" ">> \o f.last))
    \o <<"\n", "TEL", ";", "TYPE", ":">> \o EscapeVCard(f.number)
    \o <<"\n", "EMAIL", ";", "TYPE", ":">> \o EscapeVCard(f.email) \o <<"\n", "END:VCARD">>

OtpUri(f) ==
    <<"otpauth", "://", f.mode, "/">> \o (IF f.issuer = <<>> THEN <<>> ELSE PercentEncoded(f.issuer) \o <<":">>)
    \o PercentEncoded(f.account) \o <<"?", "secret", "=">> \o f.secret
    \o (IF f.issuer = <<>> THEN <<>> ELSE <<"&", "issuer", "=">> \o PercentEncoded(f.issuer))
    \o (IF f.digits = <<>> THEN <<>> ELSE <<"&", "digits", "=">> \o f.digits)

Folded(s) == FlattenSeq([i \in DOMAIN s |-> <<s[i], "\n", " ">>])

ICalendar(f) ==
    <<"BEGIN:VCALENDAR", "\n", "SUMMARY", ":">> \o Folded(f.title)
    \o <<"\n", "LOCATION", ";", "LANGUAGE", ":">> \o f.location
    \o <<"\n", "DTSTART", ";", "VALUE", ":", f.start, "\n", "DTEND", ":", f.end, "\n", "END:VCALENDAR">>

ForeignPayload(f) ==
    CASE f.type = "email" -> MatMsg(f)
      [] f.type = "sms" -> SmsUri(f)
      [] f.type = "vcard" -> IF f.typed THEN TypedCard(f) ELSE Mecard(f)
      [] f.type = "otp" -> OtpUri(f)
      [] f.type = "calendar" -> ICalendar(f)
      [] OTHER -> f.text
=============================================================================
