----------------------------- MODULE FileNames -----------------------------
(***************************************************************************)
(* The name the Create page proposes for a saved code                      *)
(* (qml/views/GeneratorPage.qml), a text like those of Payloads, made from *)
(* a form of Payloads.                                                     *)
(***************************************************************************)
EXTENDS Payloads

MaxName == 30

\* The prefixes and their widths; every other symbol counts as one character.
Width == [text |-> 4, url |-> 3, email |-> 5, wifi |-> 4, phone |-> 5, contact |-> 7,
          whatsapp |-> 8, sms |-> 3, gps |-> 3]

\* filenameTimestamp()
Timestamp == "YYYYMMDD_HHMMSS"

Control == {"\n"}
Illegal == {"\\", "/", ":", "*", "?", "\"", "<", ">", "|", "://"}
Small == "X" :> "x"

WithoutTail(s, c) ==
    LET rest == {i \in DOMAIN s : s[i] # c}
    IN IF rest = {} THEN <<>> ELSE SubSeq(s, 1, Max(rest))

\* The characters kept, one "_" for several, none at either end, no dot at the end.
Sanitized(raw, preserveCase) ==
    LET legal == SelectSeq(raw, LAMBDA c : c \notin Control \cup Illegal \cup {" "})
        cased == [i \in DOMAIN legal |->
                    IF ~preserveCase /\ legal[i] \in DOMAIN Small THEN Small[legal[i]] ELSE legal[i]]
        words == SelectSeq(Split(cased, "_"), LAMBDA w : w # <<>>)
    IN WithoutTail(Joined(words, <<"_">>), ".")

FirstWord(raw) == Before(Trimmed(raw), " ")

CapName(prefix, rest) ==
    <<prefix, "_">> \o SubSeq(rest, 1, Min({Len(rest), MaxName - Width[prefix] - 1}))

MakeBaseName(prefix, rest) ==
    IF rest = <<>> THEN <<prefix, "_", Timestamp>> ELSE CapName(prefix, rest)

\* The main label of a link's domain: scheme, "www." and path go.
DomainMainLabel(raw) ==
    LET s == Trimmed(raw)
        host == IF Len(s) > 1 /\ s[2] = "://" THEN SubSeq(s, 3, Len(s)) ELSE s
        bare == IF Len(host) > 1 /\ host[1] = "www" /\ host[2] = "." THEN SubSeq(host, 3, Len(host)) ELSE host
    IN Before(Before(Before(Before(bare, "/"), "?"), "#"), ".")

EmailLocalPart(raw) ==
    LET s == Trimmed(raw)
    IN IF Contains(s, "@") /\ s[1] # "@" THEN Before(s, "@") ELSE FirstWord(s)

\* The coordinates as they were typed.
Typed == ("0" :> <<"0">>) @@ ("51.5" :> <<"51", ".", "5">>) @@ ("0.1234567" :> <<"0", ".", "1234567">>)

\* Several types make their name of two parts, either of which may be empty.
TwoParts(prefix, a, b) == MakeBaseName(prefix, Joined(<<a, b>>, <<"_">>))

SuggestedBaseName(f) ==
    CASE f.type = "text" -> MakeBaseName("text", Sanitized(FirstWord(f.text), FALSE))
      [] f.type = "url" -> MakeBaseName("url", Sanitized(DomainMainLabel(f.text), FALSE))
      [] f.type = "email" ->
            TwoParts("email", Sanitized(EmailLocalPart(f.text), FALSE),
                     Sanitized(FirstWord(IF f.subject = <<>> THEN f.body ELSE f.subject), FALSE))
      [] f.type = "wifi" -> MakeBaseName("wifi", Sanitized(f.ssid, TRUE))
      [] f.type = "tel" -> MakeBaseName("phone", Sanitized(f.number, TRUE))
      [] f.type = "vcard" ->
            MakeBaseName("contact", Sanitized(IF Blank(f.name) THEN f.number ELSE f.name, TRUE))
      [] f.type = "whatsapp" -> MakeBaseName("whatsapp", Sanitized(f.number, TRUE))
      [] f.type = "sms" -> TwoParts("sms", Sanitized(f.number, TRUE), Sanitized(FirstWord(f.body), FALSE))
      [] f.type = "geo" /\ f.mode = "address" ->
            TwoParts("gps", Sanitized(f.street, FALSE), Sanitized(f.building, FALSE))
      [] f.type = "geo" /\ f.mode = "coordinates" ->
            TwoParts("gps", Sanitized(Typed[f.lat], FALSE), Sanitized(Typed[f.lon], FALSE))

\* What the page wants of a proposal: a name every platform takes, not longer than
\* the cap, and never the prefix alone.
IsProposal(name) ==
    /\ Len(name) > 2 /\ name[1] \in DOMAIN Width /\ name[2] = "_"
    /\ \A i \in DOMAIN name : name[i] \notin Control \cup Illegal \cup {" "}
    /\ name[3] = Timestamp \/ Width[name[1]] + Len(name) - 1 <= MaxName
=============================================================================
