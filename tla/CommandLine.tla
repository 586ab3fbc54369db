---------------------------- MODULE CommandLine ----------------------------
(***************************************************************************)
(* cloakqr, the command line tool (src/cli/main.cpp): what it encodes and  *)
(* the exit code it ends with. A command line is a function from the       *)
(* options given to their values; for "stdin" the value is the text read.  *)
(***************************************************************************)
EXTENDS Payloads, FiniteSets

Sources == {"stdin", "text", "url", "email", "phone", "sms", "geo", "wifi-ssid"}

\* addOptions(): the values of options that are not given.
Default ==
    [k \in {"subject", "body", "message", "wifi-password", "output", "format", "wifi-auth", "ecc", "fg", "bg"} |->
        CASE k \in {"subject", "body", "message", "wifi-password"} -> <<>>
          [] k \in {"output", "format"} -> ""
          [] k = "wifi-auth" -> "WPA"
          [] k = "ecc" -> "M"
          [] k = "fg" -> "black"
          [] k = "bg" -> "white"]

Value(args, option) == IF option \in DOMAIN args THEN args[option] ELSE Default[option]

Lower == ("WEP" :> "wep") @@ ("NONE" :> "none") @@ ("Nopass" :> "nopass") @@ ("SVG" :> "svg")
LowerCase(word) == IF word \in DOMAIN Lower THEN Lower[word] ELSE word

WifiAuthFrom(word) ==
    CASE LowerCase(word) = "wep" -> "WEP"
      [] LowerCase(word) \in {"none", "nopass"} -> "nopass"
      [] OTHER -> "WPA"

\* trimmed().toDouble(): what is no number is 0.
Number(s) == IF Len(Trimmed(s)) = 1 /\ Trimmed(s)[1] \in DOMAIN SixDecimals THEN Trimmed(s)[1] ELSE "0"

\* The fields of the one source given, as those of a form.
CommandForm(args, source) ==
    LET v(option) == Value(args, option)
    IN CASE source \in {"stdin", "text"} -> [type |-> "text", text |-> v(source)]
         [] source = "url" -> [type |-> "url", text |-> v("url")]
         [] source = "email" ->
               [type |-> "email", text |-> v("email"), subject |-> v("subject"), body |-> v("body")]
         [] source = "phone" -> [type |-> "tel", cc |-> <<>>, number |-> v("phone")]
         [] source = "sms" -> [type |-> "sms", cc |-> <<>>, number |-> v("sms"), body |-> v("message")]
         [] source = "geo" ->
               LET parts == Split(v("geo"), ",")
               IN [type |-> "geo", mode |-> "coordinates", lat |-> Number(parts[1]),
                   lon |-> Number(parts[2])]
         [] source = "wifi-ssid" ->
               [type |-> "wifi", ssid |-> v("wifi-ssid"), password |-> v("wifi-password"),
                auth |-> WifiAuthFrom(v("wifi-auth")), hidden |-> "wifi-hidden" \in DOMAIN args]

Given(args) == DOMAIN args \cap Sources

FormOf(args) == CommandForm(args, CHOOSE s \in Given(args) : TRUE)

\* The format, else what the suffix of the output file says.
Format(args) ==
    IF Value(args, "format") # "" THEN LowerCase(Value(args, "format"))
    ELSE IF Value(args, "output") = "x.svg" THEN "svg" ELSE "png"

ToStdout(args) == Value(args, "output") \in {"", "-"}

\* Every way to end with 2, in any order: the code is the same.
BadUsage(args) ==
    \/ "geo" \in DOMAIN args /\ Len(Split(args.geo, ",")) # 2
    \/ Cardinality(Given(args)) # 1
    \/ Payload(FormOf(args)) = <<>>
    \/ Value(args, "ecc") \notin {"L", "M", "Q", "H", "l", "m", "q", "h"}
    \/ "not a colour" \in {Value(args, "fg"), Value(args, "bg")}
    \/ Format(args) \notin {"png", "svg"}

\* fits: a symbol can hold the text. opened: so could the file be. saved: what
\* QImage::save() says of it; of an SVG nobody asks.
ExitCode(args, fits, opened, saved) ==
    CASE BadUsage(args) -> 2
      [] ~BadUsage(args) /\ ~fits -> 1
      [] ~BadUsage(args) /\ fits /\ ToStdout(args) -> IF Format(args) = "png" THEN 2 ELSE 0
      [] OTHER -> IF opened /\ (saved \/ Format(args) = "svg") THEN 0 ELSE 1
=============================================================================
