------------------------------ MODULE HandOver ------------------------------
(***************************************************************************)
(* What the buttons of the result dialog (qml/views/SafePreviewDialog.qml) *)
(* hand to the system: a link to open, or on Android an intent             *)
(* (src/platform/platformbridge.cpp). A request changes nothing in this    *)
(* program, so it is the value of an operator and not a state. An intent   *)
(* is a function from the extras put to their values; NoIntent is a call   *)
(* that returns false.                                                     *)
(***************************************************************************)
EXTENDS Payloads

NoIntent == <<>>

\* encodeURIComponent() of the dialog: as the query of the Create page.
Encoded(s) == PercentEncoded(s)

\* "key=" and the encoded text, unless it is empty.
QueryItem(key, s) == IF s = <<>> THEN <<>> ELSE <<key>> \o Encoded(s)

-----------------------------------------------------------------------------
(* Links.                                                                  *)

\* "%" and the code of the symbols that are not allowed as they are.
EncodedBut(s, disallowed) ==
    FlattenSeq([i \in DOMAIN s |-> IF i \in disallowed THEN <<"%", Hex[s[i]]>> ELSE <<s[i]>>])

\* The percent signs of s with a code after them.
Coded(s) == {i \in 1 .. Len(s) - 1 : s[i] = "%" /\ \E c \in DOMAIN Hex : s[i + 1] = Hex[c]}

\* QUrl::setPath() takes a text, QUrlQuery::addQueryItem() one that is already
\* percent-encoded and completes what is missing.
UrlPath(s) == EncodedBut(s, {i \in DOMAIN s : s[i] \in {" ", "%", "?", "\\"}})
QueryValue(s) == EncodedBut(s, {i \in DOMAIN s : s[i] \in {" ", "&", "\\"} \/ (s[i] = "%" /\ i \notin Coded(s))})

\* PlatformBridge.composeEmail(): the draft a mail program of a Linux desktop gets.
ComposeEmail(d) ==
    LET query == Joined(<<IF d.subject = <<>> THEN <<>> ELSE <<"subject=">> \o QueryValue(d.subject),
                          IF d.body = <<>> THEN <<>> ELSE <<"body=">> \o QueryValue(d.body)>>, <<"&">>)
    IN <<"mailto:">> \o UrlPath(d.address) \o (IF query = <<>> THEN <<>> ELSE <<"?">> \o query)

\* buildMailto(), everywhere else or if that fails, and a variant that does not encode.
BuildMailtoRaw(d) == <<"mailto:">> \o d.address \o <<"?", "subject=">> \o d.subject \o <<"&", "body=">> \o d.body

BuildMailto(d) ==
    LET query == Joined(<<QueryItem("subject=", d.subject), QueryItem("body=", d.body)>>, <<"&">>)
    IN <<"mailto:">> \o d.address \o (IF query = <<>> THEN <<>> ELSE <<"?">> \o query)

OpenSms(sms) ==
    <<"sms:">> \o Encoded(sms.number)
    \o (IF sms.message = <<>> THEN <<>> ELSE <<"?", "body=">> \o Encoded(sms.message))

\* parseFloat() of a coordinate is 0.
IsZero(s) == s = <<SixDecimals["0"]>>

\* openMap(): on a phone the code itself, on a desktop a link to a map.
OpenMap(content, geo, isMobile) ==
    LET place == <<"https", "://", "maps", "?", "q=">> \o geo.lat \o <<",">> \o geo.lon
        located == geo.lat # <<>> /\ geo.lon # <<>> /\ ~(IsZero(geo.lat) /\ IsZero(geo.lon))
    IN CASE isMobile -> content
         [] ~isMobile /\ ~located /\ geo.label # <<>> ->
               <<"https", "://", "maps", "?", "query=">> \o Encoded(geo.label)
         [] OTHER -> place

\* telNumber, and the number Dial calls.
TelNumber(content) == Tail(content)
Dial(content, vcard) ==
    <<"tel:">> \o (IF DetectKind(content) = "tel" THEN TelNumber(content) ELSE vcard.phone)

-----------------------------------------------------------------------------
(* Intents.                                                                *)

Extra(key, value) == IF value = <<>> THEN NoIntent ELSE key :> value
Moment(key, millis) == IF millis > 0 THEN key :> millis ELSE NoIntent

\* connectToWifi(). The passphrase is put as that of WPA2 for every security that
\* is not WPA3 or open; WEP, which Android cannot suggest, included.
ConnectToWifi(wifi) ==
    IF wifi.ssid = <<>> THEN NoIntent
    ELSE ("ssid" :> wifi.ssid)
         @@ (IF wifi.password # <<>> /\ wifi.security \notin {<<"nopass">>, <<"NONE">>}
             THEN Extra(IF wifi.security \in {<<"SAE">>, <<"WPA3">>} THEN "wpa3" ELSE "wpa2", wifi.password)
             ELSE NoIntent)
         @@ (IF wifi.hidden THEN "hidden" :> TRUE ELSE NoIntent)

InsertContact(c) == Extra("name", c.name) @@ Extra("phone", c.phone) @@ Extra("email", c.email)

InsertEvent(c) ==
    Extra("title", c.title) @@ Extra("description", c.description) @@ Extra("eventLocation", c.location)
    @@ Moment("beginTime", c.start) @@ Moment("endTime", c.end)

-----------------------------------------------------------------------------
(* What the programs that get a link read in it. A query is not a form:    *)
(* "+" stands for itself.                                                  *)

Reads(query, key) ==
    LET items == Split(query, "&")
        with == {i \in DOMAIN items : Starts(items[i], {<<key>>})}
    IN IF with = {} THEN {<<>>} ELSE PercentDecoded(Tail(items[Min(with)]))

ReadMailto(uri) ==
    LET query == After(Tail(uri), "?")
    IN {Email(a, u, b) : a \in PercentDecoded(Before(Tail(uri), "?")),
                         u \in Reads(query, "subject="), b \in Reads(query, "body=")}

ReadSms(uri) ==
    LET query == After(Tail(uri), "?")
    IN {[number |-> n, message |-> m] : n \in PercentDecoded(Before(Tail(uri), "?")), m \in Reads(query, "body=")}

\* The place a map shows: one searched for by name, or one on the earth.
ReadMap(uri) ==
    LET query == After(uri, "?")
    IN IF Starts(uri, {<<"geo:">>})
       THEN {IF l = <<>> THEN Before(Tail(uri), "?") ELSE l : l \in Reads(query, "q=")}
       ELSE Reads(query, IF Contains(query, "query=") THEN "query=" ELSE "q=")
=============================================================================
