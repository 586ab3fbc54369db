---------------------------- MODULE HistoryLog ----------------------------
(***************************************************************************)
(* What the scan history promises its user, without databases, loads or    *)
(* threads: a durable log of records, newest first, and a view of it.      *)
(*                                                                         *)
(*   - the view always shows the newest records of the log, in order, and  *)
(*     nothing else (it may show fewer than there are);                    *)
(*   - a record gets an identifier that no record had before;              *)
(*   - records leave the log in three ways only: the user deletes one the  *)
(*     view shows, the user clears the log, or the cap evicts the oldest   *)
(*     while the Cap newest stay.                                          *)
(*                                                                         *)
(* ScanHistory implements this module with log <- db, view <- entries.     *)
(***************************************************************************)
EXTENDS Naturals, Sequences

CONSTANT Cap            \* kMaxHistoryEntries

VARIABLES
    log,                \* identifiers of the saved records, newest first
    lastId,             \* the largest identifier ever given
    view                \* what the History page lists

logVars == <<log, lastId, view>>

\* The first n elements of s.
Newest(s, n) == SubSeq(s, 1, n)

\* s without its i-th element.
Without(s, i) == SubSeq(s, 1, i - 1) \o SubSeq(s, i + 1, Len(s))

\* The view that shows some number of the newest records of l.
ShowsNewest(v, l) ==
    /\ Len(v) <= Len(l)
    /\ \A i \in 1 .. Len(v) : v[i] = l[i]

\* Some log is on the disk; nothing has been shown yet.
Init ==
    /\ \A i, j \in 1 .. Len(log) : i < j => log[i] > log[j]
    /\ \A i \in 1 .. Len(log) : log[i] <= lastId
    /\ view = <<>>

\* A new record, shown on top at once.
Record ==
    /\ lastId' = lastId + 1
    /\ log' = <<lastId'>> \o log
    /\ view' = <<lastId'>> \o view

\* The cap: the newest Cap records stay, in the log and in the view.
Evict ==
    /\ Len(view) > Cap
    /\ log' = Newest(log, Cap)
    /\ view' = Newest(view, Cap)
    /\ UNCHANGED lastId

\* The user deletes the i-th record shown.
Delete(i) ==
    /\ log' = Without(log, i)
    /\ view' = Without(view, i)
    /\ UNCHANGED lastId

\* The user clears the history.
ClearAll ==
    /\ log' = <<>>
    /\ view' = <<>>
    /\ UNCHANGED lastId

\* The view is loaded, reloaded, or lost with the process: the log stays.
Refresh ==
    /\ ShowsNewest(view', log)
    /\ UNCHANGED <<log, lastId>>

Next ==
    \/ Record
    \/ Evict
    \/ \E i \in 1 .. Len(view) : Delete(i)
    \/ ClearAll
    \/ Refresh

Spec == Init /\ [][Next]_logVars
=============================================================================
