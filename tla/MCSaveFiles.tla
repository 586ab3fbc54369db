---------------------------- MODULE MCSaveFiles ----------------------------
(***************************************************************************)
(* TLC instances of SaveFiles, with the names FileNames proposes. Two jobs *)
(* at once are enough for two saves of one name, and for a save beside a   *)
(* share; two copies, so that a copy is found taken; two codes that fit,   *)
(* so that one is shared over the other, and one that does not.            *)
(***************************************************************************)
EXTENDS SaveFiles

Propose == INSTANCE FileNames
ProposalsFor(forms) == {Propose!SuggestedBaseName(f) : f \in forms}

\* Fields of every type; TLC evaluates the assumption at the start of each run.
Field == UNION {[1 .. n -> {"X", "/", " ", "_", ".", "@"}] : n \in 0 .. 2} \cup {[i \in 1 .. 30 |-> "x"]}
Few == {<<>>, <<" ">>, <<"x">>, <<"x", ":">>, <<"_", "/", "_">>}
Forms == [type : {"text", "url"}, text : Field]
    \cup [type : {"email"}, text : Field, subject : Few, body : Few]
    \cup [type : {"wifi"}, ssid : Field]
    \cup [type : {"tel", "whatsapp"}, number : Field]
    \cup [type : {"vcard"}, name : Few, number : Field]
    \cup [type : {"sms"}, number : Few, body : Field]
    \cup [type : {"geo"}, mode : {"address"}, street : Field, building : Few]
    \cup [type : {"geo"}, mode : {"coordinates"}, lat : DOMAIN Propose!SixDecimals, lon : DOMAIN Propose!SixDecimals]
ASSUME ProposalsAreNames == \A name \in ProposalsFor(Forms) : Propose!IsProposal(name)

MCPlatforms == {"desktop", "android"}
MCCodes == {"A", "B", "C"}
MCTooLarge == {"C"}
\* One proposal will do, as ProposalsAreNames covers the others: made from a name
\* with separators, spaces and a dot at the end.
MCProposals == ProposalsFor({
    [type |-> "wifi", ssid |-> <<"X", "/", "_", " ", "_", "\\", "x", "_", ".">>]})
MCTypedNames == {<<>>}
MCMaxCopy == 2
MCMaxJobs == 2

\* MCSaveFilesDots.cfg: the in-app picker, the names proposed are taken as they
\* are, and an address and a place have a dot in theirs.
MCDesktop == {"desktop"}
MCFormsDots == {
    [type |-> "email", text |-> <<"x", ".", "z", "@", "y", ".", "y">>, subject |-> <<>>, body |-> <<>>],
    [type |-> "geo", mode |-> "coordinates", lat |-> "51.5", lon |-> "0"]}
MCProposalsDots == ProposalsFor(MCFormsDots)
MCNone == {}
=============================================================================
