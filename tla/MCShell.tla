------------------------------ MODULE MCShell ------------------------------
(***************************************************************************)
(* TLC instance of Shell: two languages, one written from right to left,   *)
(* and a platform whose own has no translation; two prompts, so that one   *)
(* replaces the other while callbacks and results of the first are still   *)
(* queued; the two switches that depend on each other (highContrast is     *)
(* like historyEnabled).                                                   *)
(***************************************************************************)
EXTENDS Shell

MCLanguages == {"en", "ar"}
MCSystemLanguage == "de"
MCRightToLeft == {"ar"}
MCSwitches == {"historyEnabled", "historyExcludeWifiPassword"}
MCScales == {10, 20}
MCMaxPrompts == 2
MCMaxQueue == 2
=============================================================================
