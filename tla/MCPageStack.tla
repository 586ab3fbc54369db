---------------------------- MODULE MCPageStack ----------------------------
(***************************************************************************)
(* TLC instance of PageStack. The Create and the About page differ from the*)
(* Scanner and the Settings page only in asking for nothing. The cap is 2  *)
(* in place of 1000: the records overfill it from every load state, and a  *)
(* third row of an old table overfills it on the first load. Ids are       *)
(* compared, so no symmetry.                                               *)
(***************************************************************************)
EXTENDS PageStack

MCTabs == {"scan", "history"}
MCSubPages == {"settings", "about"}
MCCap == 2
MCMaxId == 5
MCOldRows == 3
=============================================================================
