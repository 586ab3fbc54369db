--------------------------- MODULE MCMakeAndScan ---------------------------
(***************************************************************************)
(* TLC instances of MakeAndScan. Texts of up to three symbols over the     *)
(* characters that mean something in the format concerned, and one that    *)
(* means nothing: an escape, what it escapes, and a neighbour.             *)
(***************************************************************************)
EXTENDS MakeAndScan

Texts(symbols, n) == UNION {[1 .. k -> symbols] : k \in 0 .. n}

Address == <<"x", "@", "y", ".", "y">>
CountryCodes == {<<>>, <<"1">>, <<"+", "1">>}

WifiForms == [type : {"wifi"}, ssid : Texts({";", "\\", "P", ":"}, 3), password : Texts({"x", ";"}, 1),
              auth : {"WPA", "nopass"}, hidden : BOOLEAN]
        \cup [type : {"wifi"}, ssid : {<<"x">>}, password : Texts({"x", ";", "\\", ":"}, 2),
              auth : {"WPA", "WEP", "nopass"}, hidden : {TRUE}]
EmailForms == [type : {"email"}, text : {Address}, subject : Texts({"x", "&", "body="}, 2) \cup {<<"%", "20">>},
               body : Texts({"x", "%", "+", " "}, 2) \cup {<<"%", "26">>}]
SmsForms == [type : {"sms"}, cc : CountryCodes, number : {<<>>, <<"2", " ", "1">>},
             body : Texts({"x", ":", " "}, 2)]
PhoneForms == [type : {"tel"}, cc : CountryCodes, number : {<<>>, <<"2", " ", "1">>}]
WhatsappForms == [type : {"whatsapp"}, cc : CountryCodes, number : {<<"2", " ", "1">>},
                  body : {<<>>, Address, <<"x", " ", "&">>}]
ContactForms == [type : {"vcard"}, name : Texts({"x", ",", "\\"}, 2), org : {<<>>, <<";">>}, cc : {<<>>},
                 number : {<<>>, <<"2", ";">>}, email : {<<>>, Address}, url : {<<>>, <<"x", ".", "y">>}]
Coordinates == DOMAIN SixDecimals \cup {""}
GeoForms == [type : {"geo"}, mode : {"address"}, street : Texts({"x", " "}, 1), building : {<<>>, <<"1">>},
             postal : {<<>>, <<"2">>}, city : Texts({"y", "&", "+"}, 1), country : {<<>>, <<"x">>}]
       \cup [type : {"geo"}, mode : {"coordinates"}, lat : Coordinates, lon : Coordinates]
UrlForms == [type : {"url"}, text : Texts({"x", ".", " "}, 2) \cup {<<"http", "://", "x">>}]
TextForms == [type : {"text"}, text : {<<"x">>, <<"x", " ", "@", "y">>}]

MCForms == WifiForms \cup EmailForms \cup SmsForms \cup PhoneForms \cup WhatsappForms
           \cup ContactForms \cup GeoForms \cup UrlForms \cup TextForms

\* Command lines of every source, with the ways to get them wrong: no source, two
\* of them, a place of one part, an empty link, a word that is no level, colour
\* or format, and a png without a file.
Contents == {[text |-> <<"x">>], [stdin |-> <<"x", "\n">>], [url |-> <<>>], [url |-> <<" ", "x">>],
           [phone |-> <<"2", " ", "1">>], [email |-> Address],
           [email |-> Address, subject |-> <<"&">>, body |-> <<"%", " ">>],
           [sms |-> <<"1", " ">>], [sms |-> <<"1">>, message |-> <<":", "x">>],
           [geo |-> <<"51.5", ",", " ", "0.1234567">>], [geo |-> <<"x", ",", "0">>], [geo |-> <<"51.5">>],
           [geo |-> <<"0", ",", "0", ",", "0">>], [text |-> <<"x">>, url |-> <<"x">>], [ecc |-> "L"]}
Written == {[output |-> "x.png"], [output |-> "x.svg"], [output |-> "-", format |-> "SVG"], [format |-> "svg"],
            [output |-> "-"], [output |-> "x.png", format |-> "gif"], [output |-> "x.png", ecc |-> "x"],
            [output |-> "x.png", fg |-> "not a colour"]}

WifiArgs == {("wifi-ssid" :> n) @@ ("wifi-password" :> <<"x", ";">>) @@ auth @@ hidden :
                n \in {<<>>, <<"x", ":">>}, auth \in {<<>>, "wifi-auth" :> "WEP", "wifi-auth" :> "Nopass"},
                hidden \in {<<>>, "wifi-hidden" :> TRUE}}

MCCommandLines == {given @@ written : given \in Contents \cup WifiArgs, written \in Written}

\* Links that open an app.
DeepLinks ==
    [type : {"whatsapp"}, text : {<<"whatsapp", "://", "x">>, <<"https", "://", "api.whatsapp.com/", "x">>}]
    \cup [type : {"telegram"}, text : {<<"tg", "://", "x">>, <<"https", "://", "t.me/", "x">>}]
    \cup [type : {"signal"}, text : {<<"sgnl", "://", "x">>, <<"https", "://", "signal.me/", "x">>}]
    \cup [type : {"facetime"}, text : {<<"facetime:", "1">>, <<"facetime-audio:", "1">>}]
    \cup [type : {"store"}, text : {<<"market", "://", "x">>, <<"http", "://", "apps.apple.com/", "x">>}]
    \cup {[type |-> "messenger", text |-> <<"fb-messenger", "://", "x">>],
          [type |-> "bitcoin", text |-> <<"bitcoin:", "x", "?", "y">>], [type |-> "ethereum", text |-> <<"ethereum:", "x">>],
          [type |-> "upi", text |-> <<"upi", "://", "x">>], [type |-> "sepa", text |-> <<"BCD", "\n", "x">>],
          [type |-> "paypal", text |-> <<"https", "://", "www.paypal.me/", "x">>]}

\* Codes of other programs: what the standard of each escapes is in the fields.
MCForeignForms ==
         [type : {"email"}, text : {Address}, subject : Texts({"x", ";", "\\", ":"}, 2), body : Texts({"x", ";"}, 2)]
    \cup [type : {"sms"}, cc : {<<>>}, number : {<<"+", "1">>, <<"2">>}, body : Texts({"x", "%", "+", " ", "&"}, 2)]
    \cup [type : {"vcard"}, last : Texts({"x", ";", "\\", ":"}, 2) \ {<<>>}, first : {<<>>, <<"y">>}, cc : {<<>>},
          number : {<<>>, <<"1", ";">>}, email : {<<>>, <<"z", "\\">>}, typed : BOOLEAN]
    \cup [type : {"otp"}, mode : {"totp", "hotp"}, issuer : Texts({"x", "&", " "}, 2), account : Texts({"x", "?", "%", "+"}, 2),
          secret : {<<"x">>}, digits : {<<>>, <<"2">>}]
    \cup [type : {"calendar"}, title : {<<>>, <<"x">>, <<"x", " ", ":">>, <<"x", ";", "y">>}, location : {<<>>, <<"y", ":", "1">>},
          start : DOMAIN Millis, end : DOMAIN Millis]
    \cup DeepLinks

\* Texts to seal, passphrases and random bytes. A sealed text is tampered with by
\* taking parts of another one, in every mixture that is not the other; by emptying,
\* doubling or respelling a part, or replacing the count; or by dropping or adding
\* one.
MCPassphrases == {<<>>, <<"a">>, <<"b">>}
MCSecretForms == [type : {"text"}, plain : {<<>>, <<"x">>, <<"x", ":">>, <<"BOM", "x">>}, passphrase : MCPassphrases]
MCSalts == {"salt1", "salt2"}
MCNonces == {"nonce1", "nonce2"}

Strangers == {EncryptText(<<"y">>, p, "salt2", "nonce2") : p \in {<<"a">>, <<"b">>}}

Glued(parts) == Tail(FlattenSeq([i \in DOMAIN parts |-> <<":">> \o parts[i]]))

Changes(part) ==
    {<<>>, part \o part, part \o <<"~">>, <<"~">>, <<"1">>, <<"x">>, <<"0">> \o part, <<"+">> \o part, <<"-">> \o part}

MCTampered(text) ==
    LET parts == Split(text, ":")
        mixed(other) == {Glued([i \in 1 .. 8 |-> IF i \in from THEN Split(other, ":")[i] ELSE parts[i]]) :
                            from \in SUBSET (5 .. 8)}
    IN ((UNION {mixed(other) : other \in Strangers}) \ Strangers)
       \cup {Glued([parts EXCEPT ![i] = c]) : i \in 1 .. 8, c \in UNION {Changes(parts[j]) : j \in 1 .. 8}}
       \cup {Glued(Front(parts)), Glued(Append(parts, <<"x">>))}

\* A mail whose address is not percent-encoded, a number, and an encrypted text.
MCOtherCodes == {<<"mailto:", "x", "%", "x">>, <<"tel:", "1", ";">>, <<"ENC", ":", "1">>}

\* MCMakeAndScanKind.cfg: an address inside a message or a link.
MCFormsKind == [type : {"sms"}, cc : {<<>>}, number : {<<"1">>}, body : {<<"x">>, Address}]
          \cup [type : {"url"}, text : {<<"https", "://", "x", "/", "@", "1", ".", "2">>}]
          \cup [type : {"email"}, text : {Address, <<"x", "%", "x", "@", "y", ".", "y">>},
                subject : Texts({"x", "&"}, 2), body : Texts({"x", "&"}, 2)]
MCNone == {}
=============================================================================
