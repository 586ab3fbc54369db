---------------------------- MODULE ScanHistory ----------------------------
(***************************************************************************)
(* ScanHistoryModel (src/services/scanhistorymodel.cpp): the list of       *)
(* scanned and created codes, kept in memory for the History page and in   *)
(* an SQLite file that outlives the process.                               *)
(*                                                                         *)
(* Actors: the GUI thread, which runs every public function to completion  *)
(* (addEntry is two database transactions, so it is two steps here); one   *)
(* pool thread, which reads the whole table on a connection of its own     *)
(* while the GUI thread goes on; and the system, which may end the process *)
(* between any two steps.                                                  *)
(*                                                                         *)
(* A record is its identifier: nothing here depends on what a record says. *)
(* The table is the sequence a SELECT ... ORDER BY id DESC returns.        *)
(***************************************************************************)
EXTENDS Naturals, Sequences

CONSTANTS
    Cap,                \* kMaxHistoryEntries
    MaxId,              \* bound: records ever inserted
    OldRows,            \* bound: rows in a table left by an older build
    MayFail             \* whether SQLite calls may fail and the process crash

ASSUME CapAssumption == Cap \in Nat \ {0}
ASSUME MaxIdAssumption == MaxId \in Nat
ASSUME OldRowsAssumption == OldRows \in 0 .. MaxId
ASSUME MayFailAssumption == MayFail \in BOOLEAN

VARIABLES
    \* On the disk.
    db,                 \* the table's ids, descending
    lastId,             \* the AUTOINCREMENT counter (sqlite_sequence)
    schema,             \* "none", "old" (no origin column) or "current"
    \* In the process.
    dbOpen,             \* m_dbOpen
    loaded,             \* m_loaded
    loadInFlight,       \* m_loadInFlight
    dirty,              \* m_dirty
    entries,            \* m_entries: the ids shown, newest first
    \* Threads.
    adding,             \* the GUI thread is inside addEntry, past its INSERT
    worker,             \* the pool thread: "off", "running" or "done"
    rows,               \* what the pool thread's future holds when "done"
    \* History variable.
    partial             \* this session's last read of the table missed rows

disk == <<db, lastId, schema>>
flags == <<dbOpen, loaded, loadInFlight, dirty>>
load == <<worker, rows, partial>>
vars == <<db, lastId, schema, dbOpen, loaded, loadInFlight, dirty, entries,
          adding, worker, rows, partial>>

-----------------------------------------------------------------------------
\* The first n elements of s, and s without its i-th element.
Newest(s, n) == SubSeq(s, 1, n)
Without(s, i) == SubSeq(s, 1, i - 1) \o SubSeq(s, i + 1, Len(s))

\* DELETE FROM scan_history WHERE id = x
DeleteById(s, x) ==
    IF \E i \in 1 .. Len(s) : s[i] = x
    THEN Without(s, CHOOSE i \in 1 .. Len(s) : s[i] = x)
    ELSE s

\* DELETE ... WHERE id NOT IN (SELECT id ... ORDER BY id DESC LIMIT Cap), and a
\* variant that orders the sub-query the wrong way. (Variants hold a plausible
\* bug: the properties below are checked to notice each of them.)
EvictOrderedWrong(s) == SubSeq(s, Len(s) - Cap + 1, Len(s))

EvictRows(s) == IF Len(s) > Cap THEN Newest(s, Cap) ELSE s

\* lastInsertId(), and a variant that reads it from a query without one.
NewIdUnread == 0

NewId == lastId + 1

\* if (m_loadInFlight) m_dirty = true, and a variant that forgets it.
MarkDirtyForgotten == UNCHANGED dirty

MarkDirty == dirty' = (dirty \/ loadInFlight)

\* if (m_dirty) in the finished() handler, and a variant that never reloads.
MustReloadNever == FALSE

MustReload == dirty

\* m_dirty = false in the finished() handler.
ResetDirty == dirty' = FALSE

\* What a SELECT over the table may return: every row, or, when opening the
\* connection, the query or a step of it fails, the rows before the failure.
ReadOutcomes == IF MayFail THEN {Newest(db, n) : n \in 0 .. Len(db)} ELSE {db}

\* ensureDbOpen(): opens the file, creates the table and adds the origin column
\* that tables of older builds lack. A failure may leave the table created.
EnsureDbOpen(ok) ==
    \/ dbOpen /\ ok /\ UNCHANGED <<dbOpen, schema>>
    \/ ~dbOpen /\ ok /\ dbOpen' = TRUE /\ schema' = "current"
    \/ /\ ~dbOpen /\ ~ok /\ MayFail
       /\ schema' \in {schema, IF schema = "none" THEN "current" ELSE schema}
       /\ UNCHANGED dbOpen

-----------------------------------------------------------------------------
\* First start: no file yet, or the table an older build left, without the
\* origin column and, before the cap was introduced, of any size.
Init ==
    /\ \/ schema = "none" /\ lastId = 0
       \/ schema = "old" /\ lastId \in 0 .. OldRows
    /\ db = [i \in 1 .. lastId |-> lastId + 1 - i]
    /\ dbOpen = FALSE
    /\ loaded = FALSE
    /\ loadInFlight = FALSE
    /\ dirty = FALSE
    /\ entries = <<>>
    /\ adding = FALSE
    /\ worker = "off"
    /\ rows = <<>>
    /\ partial = FALSE

\* The process ends and starts anew: constructor and setDbPath(), nothing
\* opened, nothing loaded, a running load forgotten.
StartOver ==
    /\ dbOpen' = FALSE
    /\ loaded' = FALSE
    /\ loadInFlight' = FALSE
    /\ dirty' = FALSE
    /\ entries' = <<>>
    /\ adding' = FALSE
    /\ worker' = "off"
    /\ rows' = <<>>
    /\ partial' = FALSE
    /\ UNCHANGED disk

\* ensureLoaded(): every visit of the History or the Settings page. A database
\* that cannot be opened counts as loaded.
EnsureLoaded ==
    /\ ~adding
    /\ ~loaded /\ ~loadInFlight
    /\ \/ /\ EnsureDbOpen(TRUE)
          /\ loadInFlight' = TRUE
          /\ worker' = "running"
          /\ UNCHANGED <<loaded, partial>>
       \/ /\ EnsureDbOpen(FALSE)
          /\ loaded' = TRUE
          /\ partial' = TRUE
          /\ UNCHANGED <<loadInFlight, worker>>
    /\ UNCHANGED <<db, lastId, dirty, entries, adding, rows>>

\* The pool thread's function: one SELECT, a snapshot of the table.
WorkerRead ==
    /\ worker = "running"
    /\ rows' \in ReadOutcomes
    /\ partial' = (rows' # db)
    /\ worker' = "done"
    /\ UNCHANGED <<disk, flags, entries, adding>>

\* The finished() handler, queued to the GUI thread. A write since the load
\* began throws the snapshot away and reads again; an empty snapshot leaves
\* the list as it is.
FinishLoad ==
    /\ ~adding
    /\ worker = "done"
    /\ IF MustReload
       THEN /\ worker' = "running"
            /\ UNCHANGED <<loaded, loadInFlight, entries>>
       ELSE /\ worker' = "off"
            /\ loadInFlight' = FALSE
            /\ loaded' = TRUE
            /\ entries' = IF rows = <<>> THEN entries ELSE rows
    /\ ResetDirty
    /\ rows' = <<>>
    /\ UNCHANGED <<disk, dbOpen, adding, partial>>

\* open(): opens and reads on the calling thread, on a fresh model (tests, CLI).
Open ==
    /\ ~adding /\ ~dbOpen /\ ~loaded /\ ~loadInFlight /\ entries = <<>>
    /\ \/ /\ EnsureDbOpen(TRUE)
          /\ loaded' = TRUE
          /\ entries' \in ReadOutcomes
          /\ partial' = (entries' # db)
       \/ /\ EnsureDbOpen(FALSE)
          /\ UNCHANGED <<loaded, entries, partial>>
    /\ UNCHANGED <<db, lastId, loadInFlight, dirty, adding, worker, rows>>

\* addEntry(), first transaction: INSERT, then the new row on top of the list.
\* A failed open or INSERT drops the record without a word.
BeginAdd ==
    /\ ~adding
    /\ lastId < MaxId
    /\ \/ /\ EnsureDbOpen(TRUE)
          /\ lastId' = lastId + 1
          /\ db' = <<lastId + 1>> \o db
          /\ entries' = <<NewId>> \o entries
          /\ adding' = TRUE
       \/ /\ MayFail
          /\ \E ok \in BOOLEAN : EnsureDbOpen(ok)
          /\ UNCHANGED <<db, lastId, entries, adding>>
    /\ UNCHANGED <<loaded, loadInFlight, dirty, load>>

\* addEntry(), second transaction: when the LIST is over the cap, the table is
\* cut to its newest Cap rows, and the list with it if that worked.
FinishAdd ==
    /\ adding
    /\ adding' = FALSE
    /\ \/ /\ Len(entries) > Cap
          /\ db' = EvictRows(db)
          /\ entries' = Newest(entries, Cap)
       \/ /\ Len(entries) <= Cap \/ MayFail
          /\ UNCHANGED <<db, entries>>
    /\ MarkDirty
    /\ UNCHANGED <<lastId, schema, dbOpen, loaded, loadInFlight, load>>

\* clear(): confirmed in the History or the Settings page.
Clear ==
    /\ ~adding
    /\ \/ /\ EnsureDbOpen(TRUE)
          /\ db' = <<>>
          /\ entries' = <<>>
          /\ MarkDirty
       \/ /\ MayFail
          /\ \E ok \in BOOLEAN : EnsureDbOpen(ok)
          /\ UNCHANGED <<db, entries, dirty>>
    /\ UNCHANGED <<lastId, loaded, loadInFlight, adding, load>>

\* removeEntry(row), row counted from 1 here. A failed DELETE changes nothing.
RemoveEntry(row) ==
    /\ ~adding
    /\ row \in 1 .. Len(entries)
    /\ \/ /\ EnsureDbOpen(TRUE)
          /\ db' = DeleteById(db, entries[row])
          /\ entries' = Without(entries, row)
          /\ MarkDirty
       \/ /\ MayFail
          /\ \E ok \in BOOLEAN : EnsureDbOpen(ok)
          /\ UNCHANGED <<db, entries, dirty>>
    /\ UNCHANGED <<lastId, loaded, loadInFlight, adding, load>>

\* The application is closed and started again.
Restart ==
    /\ ~adding
    /\ StartOver

\* The process dies between addEntry's two transactions (at any other point a
\* crash leaves what Restart leaves) and is started again.
Crash ==
    /\ MayFail /\ adding
    /\ StartOver

Next ==
    \/ EnsureLoaded
    \/ Open
    \/ WorkerRead
    \/ FinishLoad
    \/ BeginAdd
    \/ FinishAdd
    \/ Clear
    \/ \E row \in 1 .. MaxId : RemoveEntry(row)
    \/ Restart
    \/ Crash

\* A started function returns, a started query ends and a queued handler runs;
\* the user and the system owe nothing.
Fairness ==
    /\ WF_vars(FinishAdd)
    /\ WF_vars(WorkerRead)
    /\ WF_vars(FinishLoad)

Spec == Init /\ [][Next]_vars /\ Fairness

-----------------------------------------------------------------------------
Ids == 1 .. MaxId

TypeOK ==
    /\ db \in Seq(Ids)
    /\ lastId \in 0 .. MaxId
    /\ schema \in {"none", "old", "current"}
    /\ dbOpen \in BOOLEAN
    /\ loaded \in BOOLEAN
    /\ loadInFlight \in BOOLEAN
    /\ dirty \in BOOLEAN
    /\ entries \in Seq(Ids)
    /\ adding \in BOOLEAN
    /\ worker \in {"off", "running", "done"}
    /\ rows \in Seq(Ids)
    /\ partial \in BOOLEAN

IsPrefixOf(s, t) ==
    /\ Len(s) <= Len(t)
    /\ \A i \in 1 .. Len(s) : s[i] = t[i]

\* What the page lists are the newest rows of the table, in order, whatever
\* has been loaded, written, refused or lost so far: no row that was deleted,
\* no row twice, no gap.
ShowsNewestRows == IsPrefixOf(entries, db)

\* Once a load has ended that read every row, the page lists the whole table,
\* and goes on doing so through every later write of the session, although
\* writes and the load's snapshot race.
LoadedShowsAll == loaded /\ ~partial => entries = db

\* The snapshot the finished() handler is about to show is the table as it is
\* now (its first rows, if the read failed midway): whatever was written since
\* the SELECT has set m_dirty.
SnapshotFresh ==
    worker = "done" /\ ~dirty /\ ~adding =>
        IsPrefixOf(rows, db) /\ (~partial => rows = db)

\* The inductive invariant the proofs use: the above, the ids' order (so that
\* DELETE ... WHERE id = ? hits the row shown and no other) and how the flags
\* hang together.
IdsDescend ==
    /\ \A i, j \in 1 .. Len(db) : i < j => db[i] > db[j]
    /\ \A i \in 1 .. Len(db) : db[i] <= lastId

FlagsAgree ==
    /\ loadInFlight <=> worker # "off"
    /\ loadInFlight => ~loaded
    /\ dirty => loadInFlight
    /\ entries # <<>> => dbOpen
    /\ loadInFlight => dbOpen

IInv ==
    /\ TypeOK
    /\ IdsDescend
    /\ FlagsAgree
    /\ ShowsNewestRows
    /\ LoadedShowsAll
    /\ SnapshotFresh

\* The writes the user asks for.
Write == BeginAdd \/ Clear \/ \E row \in 1 .. MaxId : RemoveEntry(row)

\* A load that was begun ends, in this session or with it, once the user stops
\* writing: the reload after a concurrent write does not go on for ever.
LoadEnds == <>[][~Write]_vars => (loadInFlight ~> ~loadInFlight)

\* The abstract history this model implements.
Log == INSTANCE HistoryLog WITH log <- db, view <- entries

LogSpec == Log!Spec

\* "the oldest entries are silently evicted once this limit is exceeded"
\* (scanhistorymodel.h:29): the table never holds more than the cap between
\* two calls.
TableWithinCap == ~adding => Len(db) <= Cap
=============================================================================
