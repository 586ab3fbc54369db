--------------------------- MODULE MCScanHistory ---------------------------
(***************************************************************************)
(* TLC instance of ScanHistory on its own, for the claim about the cap:    *)
(* nothing fails and the first table is new, so that the shortest way over *)
(* the cap (2 in place of 1000) is one of records and restarts only.       *)
(***************************************************************************)
EXTENDS ScanHistory

MCCap == 2
MCMaxIdCap == 3
MCOldRowsCap == 0
=============================================================================
