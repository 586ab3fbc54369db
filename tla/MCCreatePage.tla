--------------------------- MODULE MCCreatePage ---------------------------
(***************************************************************************)
(* TLC instances of CreatePage: a text and a Wi-Fi network, each also with *)
(* its fields empty; the network does not fit with high error correction.  *)
(* Two responses: the current one, and one that was superseded; a third is *)
(* one more superseded, and is handled like that.                          *)
(***************************************************************************)
EXTENDS CreatePage

MCForms == [type : {"text"}, payload : {"", "T"}] \cup [type : {"wifi"}, payload : {"", "WIFI:W"}]
MCLooks == {"low", "high"}
MCTooLarge == {<<"WIFI:W", "high">>}
MCWifi == {"WIFI:W"}
MCMaxResponses == 2
=============================================================================
