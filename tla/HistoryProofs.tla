--------------------------- MODULE HistoryProofs ---------------------------
(***************************************************************************)
(* Theorems about ScanHistory, for every cap, every number of records and  *)
(* with or without failures: type correctness, the two promises of the     *)
(* History page, and that the model implements HistoryLog. Then about      *)
(* PageStack: the pages only call what ScanHistory offers, so PageStack    *)
(* implements ScanHistory, fairness included, and every theorem about the  *)
(* history holds in the window too; and the bookkeeping of pages and       *)
(* loaders.                                                                *)
(***************************************************************************)
EXTENDS PageStack, SequenceTheorems, TLAPS


-----------------------------------------------------------------------------
\* What the operations on sequences do to length and elements.

LEMMA EmptyFacts ==
    ASSUME NEW S
    PROVE  <<>> \in Seq(S) /\ Len(<<>>) = 0
OBVIOUS

LEMMA NewestFacts ==
    ASSUME NEW S, NEW s \in Seq(S), NEW n \in 0 .. Len(s)
    PROVE  /\ Newest(s, n) \in Seq(S)
           /\ Len(Newest(s, n)) = n
           /\ \A j \in 1 .. n : Newest(s, n)[j] = s[j]
BY DEF Newest

LEMMA PrependFacts ==
    ASSUME NEW S, NEW s \in Seq(S), NEW x \in S
    PROVE  /\ <<x>> \o s \in Seq(S)
           /\ Len(<<x>> \o s) = Len(s) + 1
           /\ \A j \in 1 .. Len(s) + 1 :
                 (<<x>> \o s)[j] = IF j = 1 THEN x ELSE s[j - 1]
OBVIOUS

LEMMA WithoutFacts ==
    ASSUME NEW S, NEW s \in Seq(S), NEW i \in 1 .. Len(s)
    PROVE  /\ Without(s, i) \in Seq(S)
           /\ Len(Without(s, i)) = Len(s) - 1
           /\ \A j \in 1 .. Len(s) - 1 :
                 Without(s, i)[j] = IF j < i THEN s[j] ELSE s[j + 1]
<1> DEFINE left == SubSeq(s, 1, i - 1)
           right == SubSeq(s, i + 1, Len(s))
<1>1. /\ left \in Seq(S)
      /\ Len(left) = i - 1
      /\ \A j \in 1 .. i - 1 : left[j] = s[j]
  OBVIOUS
<1>2. /\ right \in Seq(S)
      /\ Len(right) = Len(s) - i
      /\ \A j \in 1 .. Len(s) - i : right[j] = s[j + i]
  OBVIOUS
<1>3. Without(s, i) = left \o right
  BY DEF Without
<1> HIDE DEF left, right
<1>4. /\ left \o right \in Seq(S)
      /\ Len(left \o right) = Len(s) - 1
      /\ \A j \in 1 .. Len(s) - 1 :
            (left \o right)[j] = IF j < i THEN left[j] ELSE right[j - (i - 1)]
  <2>1. /\ left \o right \in Seq(S)
        /\ Len(left \o right) = Len(left) + Len(right)
        /\ \A j \in 1 .. Len(left) + Len(right) :
              (left \o right)[j] = IF j <= Len(left) THEN left[j]
                                   ELSE right[j - Len(left)]
    BY <1>1, <1>2, ConcatProperties
  <2>2. QED
    BY <1>1, <1>2, <2>1
<1>5. QED
  BY <1>1, <1>2, <1>3, <1>4

-----------------------------------------------------------------------------
\* A prefix stays a prefix when both sequences change alike.

LEMMA PrefixPrepend ==
    ASSUME NEW S, NEW s \in Seq(S), NEW t \in Seq(S), NEW x \in S,
           IsPrefixOf(s, t)
    PROVE  IsPrefixOf(<<x>> \o s, <<x>> \o t)
<1>1. /\ Len(<<x>> \o s) = Len(s) + 1
      /\ \A j \in 1 .. Len(s) + 1 :
            (<<x>> \o s)[j] = IF j = 1 THEN x ELSE s[j - 1]
  BY PrependFacts
<1>2. /\ Len(<<x>> \o t) = Len(t) + 1
      /\ \A j \in 1 .. Len(t) + 1 :
            (<<x>> \o t)[j] = IF j = 1 THEN x ELSE t[j - 1]
  BY PrependFacts
<1>3. QED
  BY <1>1, <1>2 DEF IsPrefixOf

LEMMA PrefixNewest ==
    ASSUME NEW S, NEW s \in Seq(S), NEW t \in Seq(S), NEW n \in 0 .. Len(s),
           IsPrefixOf(s, t)
    PROVE  IsPrefixOf(Newest(s, n), Newest(t, n))
<1>1. n \in 0 .. Len(t)
  BY DEF IsPrefixOf
<1>2. /\ Len(Newest(s, n)) = n
      /\ \A j \in 1 .. n : Newest(s, n)[j] = s[j]
  BY NewestFacts
<1>3. /\ Len(Newest(t, n)) = n
      /\ \A j \in 1 .. n : Newest(t, n)[j] = t[j]
  BY <1>1, NewestFacts
<1>4. QED
  BY <1>2, <1>3 DEF IsPrefixOf

LEMMA PrefixWithout ==
    ASSUME NEW S, NEW s \in Seq(S), NEW t \in Seq(S), NEW i \in 1 .. Len(s),
           IsPrefixOf(s, t)
    PROVE  IsPrefixOf(Without(s, i), Without(t, i))
<1>1. i \in 1 .. Len(t)
  BY DEF IsPrefixOf
<1>2. /\ Len(Without(s, i)) = Len(s) - 1
      /\ \A j \in 1 .. Len(s) - 1 :
            Without(s, i)[j] = IF j < i THEN s[j] ELSE s[j + 1]
  BY WithoutFacts
<1>3. /\ Len(Without(t, i)) = Len(t) - 1
      /\ \A j \in 1 .. Len(t) - 1 :
            Without(t, i)[j] = IF j < i THEN t[j] ELSE t[j + 1]
  BY <1>1, WithoutFacts
<1>4. Len(s) \in Nat /\ Len(t) \in Nat /\ Len(s) <= Len(t) /\ \A j \in 1 .. Len(s) : s[j] = t[j]
  BY DEF IsPrefixOf
<1>5. ASSUME NEW j \in 1 .. Len(s) - 1
      PROVE  Without(s, i)[j] = Without(t, i)[j]
  <2>1. j \in 1 .. Len(t) - 1 /\ j \in 1 .. Len(s) /\ j + 1 \in 1 .. Len(s)
    BY <1>4
  <2>2. s[j] = t[j] /\ s[j + 1] = t[j + 1]
    BY <1>4, <2>1
  <2> QED
    BY <1>2, <1>3, <2>1, <2>2
<1>6. QED
  BY <1>2, <1>3, <1>4, <1>5 DEF IsPrefixOf

LEMMA PrefixOfEmpty ==
    ASSUME NEW S, NEW s \in Seq(S), IsPrefixOf(s, <<>>)
    PROVE  s = <<>>
BY DEF IsPrefixOf

\* DELETE ... WHERE id = ?, bound to the id shown in a row, removes the table's
\* row of the same number: ids are unique and the list is the table's top.
LEMMA DeletesRowShown ==
    ASSUME TypeOK, IdsDescend, ShowsNewestRows, NEW row \in 1 .. Len(entries)
    PROVE  /\ row \in 1 .. Len(db)
           /\ DeleteById(db, entries[row]) = Without(db, row)
<1>1. row \in 1 .. Len(db) /\ entries[row] = db[row]
  BY DEF ShowsNewestRows, IsPrefixOf, TypeOK
<1>2. \A i \in 1 .. Len(db) : db[i] = db[row] => i = row
  <2>1. \A i \in 1 .. Len(db) : db[i] \in Nat
    BY MaxIdAssumption DEF TypeOK, Ids
  <2>2. QED
    BY <1>1, <2>1 DEF IdsDescend, TypeOK
<1>3. (CHOOSE i \in 1 .. Len(db) : db[i] = entries[row]) = row
  BY <1>1, <1>2
<1>4. QED
  BY <1>1, <1>3 DEF DeleteById

-----------------------------------------------------------------------------
\* The inductive invariant, one lemma per kind of step.

LEMMA InitIInv == Init => IInv
<1> SUFFICES ASSUME Init PROVE IInv
  OBVIOUS
<1> USE MaxIdAssumption, OldRowsAssumption
<1>1. lastId \in 0 .. MaxId
  BY DEF Init
<1>2. /\ db \in Seq(Ids)
      /\ Len(db) = lastId
      /\ \A i \in 1 .. lastId : db[i] = lastId + 1 - i
  BY <1>1 DEF Init, Ids
<1>3. TypeOK
  BY <1>1, <1>2, EmptyFacts DEF Init, TypeOK
<1>4. IdsDescend
  BY <1>1, <1>2 DEF IdsDescend
<1>5. FlagsAgree /\ ShowsNewestRows /\ LoadedShowsAll /\ SnapshotFresh
  BY <1>2 DEF Init, FlagsAgree, ShowsNewestRows, IsPrefixOf, LoadedShowsAll,
              SnapshotFresh
<1>6. QED
  BY <1>3, <1>4, <1>5 DEF IInv

\* A fresh process shows nothing, which is a prefix of any table.
LEMMA StartOverIInv == IInv /\ StartOver => IInv'
<1> SUFFICES ASSUME IInv, StartOver PROVE IInv'
  OBVIOUS
<1> USE DEF IInv, StartOver, disk
<1>1. TypeOK'
  BY EmptyFacts DEF TypeOK
<1>2. IdsDescend'
  BY DEF IdsDescend
<1>3. (FlagsAgree /\ ShowsNewestRows /\ LoadedShowsAll /\ SnapshotFresh)'
  BY DEF FlagsAgree, ShowsNewestRows, IsPrefixOf, LoadedShowsAll, SnapshotFresh,
         TypeOK
<1>4. QED
  BY <1>1, <1>2, <1>3

\* What a read returns is a prefix of the table.
LEMMA ReadOutcomesArePrefixes ==
    ASSUME TypeOK, NEW r \in ReadOutcomes
    PROVE  r \in Seq(Ids) /\ IsPrefixOf(r, db)
<1>1. CASE r = db
  BY <1>1 DEF TypeOK, IsPrefixOf
<1>2. CASE \E n \in 0 .. Len(db) : r = Newest(db, n)
  <2>1. PICK n \in 0 .. Len(db) : r = Newest(db, n)
    BY <1>2
  <2>2. /\ Newest(db, n) \in Seq(Ids)
        /\ Len(Newest(db, n)) = n
        /\ \A j \in 1 .. n : Newest(db, n)[j] = db[j]
    BY NewestFacts DEF TypeOK
  <2>3. QED
    BY <2>1, <2>2 DEF IsPrefixOf, TypeOK
<1>3. QED
  BY <1>1, <1>2 DEF ReadOutcomes

LEMMA LoadIInv ==
    IInv /\ (EnsureLoaded \/ Open \/ WorkerRead \/ FinishLoad) => IInv'
<1> SUFFICES ASSUME IInv,
                    EnsureLoaded \/ Open \/ WorkerRead \/ FinishLoad
             PROVE  IInv'
  OBVIOUS
<1> USE DEF IInv, disk, flags, load, MustReload, ResetDirty
<1>1. CASE EnsureLoaded
  <2> USE <1>1 DEF EnsureLoaded, EnsureDbOpen
  <2>1. TypeOK' /\ IdsDescend'
    BY DEF TypeOK, IdsDescend
  <2>2. FlagsAgree' /\ ShowsNewestRows'
    BY DEF FlagsAgree, ShowsNewestRows, IsPrefixOf
  <2>3. LoadedShowsAll' /\ SnapshotFresh'
    BY DEF FlagsAgree, LoadedShowsAll, SnapshotFresh
  <2>4. QED
    BY <2>1, <2>2, <2>3
<1>2. CASE Open
  <2> USE <1>2 DEF Open, EnsureDbOpen
  <2>1. entries' \in Seq(Ids) /\ IsPrefixOf(entries', db)
    BY ReadOutcomesArePrefixes DEF ShowsNewestRows, TypeOK
  <2>2. TypeOK' /\ IdsDescend'
    BY <2>1 DEF TypeOK, IdsDescend
  <2>3. FlagsAgree'
    BY <2>1 DEF FlagsAgree
  <2>4. ShowsNewestRows'
    BY <2>1 DEF ShowsNewestRows, IsPrefixOf
  <2>5. LoadedShowsAll'
    BY DEF LoadedShowsAll
  <2>6. SnapshotFresh'
    BY DEF FlagsAgree, SnapshotFresh
  <2>7. QED
    BY <2>2, <2>3, <2>4, <2>5, <2>6
<1>3. CASE WorkerRead
  <2> USE <1>3 DEF WorkerRead
  <2>1. rows' \in Seq(Ids) /\ IsPrefixOf(rows', db)
    BY ReadOutcomesArePrefixes
  <2>2. TypeOK' /\ IdsDescend'
    BY <2>1 DEF TypeOK, IdsDescend
  <2>3. FlagsAgree' /\ ShowsNewestRows'
    BY DEF FlagsAgree, ShowsNewestRows, IsPrefixOf
  <2>4. LoadedShowsAll'
    BY DEF FlagsAgree, LoadedShowsAll
  <2>5. SnapshotFresh'
    BY <2>1 DEF SnapshotFresh, IsPrefixOf
  <2>6. QED
    BY <2>2, <2>3, <2>4, <2>5
<1>4. CASE FinishLoad
  <2> USE <1>4 DEF FinishLoad
  <2>1. TypeOK' /\ IdsDescend'
    BY EmptyFacts DEF TypeOK, IdsDescend
  <2>2. FlagsAgree' /\ SnapshotFresh'
    BY DEF FlagsAgree, SnapshotFresh
  <2>3. ShowsNewestRows'
    BY DEF ShowsNewestRows, IsPrefixOf, SnapshotFresh
  <2>4. LoadedShowsAll'
    <3>1. CASE dirty
      BY <3>1 DEF LoadedShowsAll, FlagsAgree
    <3>2. CASE ~dirty /\ rows # <<>>
      BY <3>2 DEF LoadedShowsAll, SnapshotFresh
    <3>3. CASE ~dirty /\ rows = <<>>
      \* Nothing read: with a complete read the table, hence the list, is empty.
      <4>1. ~partial => db = <<>>
        BY <3>3 DEF SnapshotFresh
      <4>2. ~partial => entries = <<>>
        BY <4>1, PrefixOfEmpty DEF ShowsNewestRows, TypeOK
      <4>3. QED
        BY <3>3, <4>1, <4>2 DEF LoadedShowsAll
    <3>4. QED
      BY <3>1, <3>2, <3>3
  <2>5. QED
    BY <2>1, <2>2, <2>3, <2>4
<1>5. QED
  BY <1>1, <1>2, <1>3, <1>4

\* A failed call: at most the database was opened.
LEMMA FailedCallIInv ==
    ASSUME IInv, ~adding, NEW ok \in BOOLEAN, EnsureDbOpen(ok),
           UNCHANGED <<db, lastId, loaded, loadInFlight, dirty, entries, adding,
                       worker, rows, partial>>
    PROVE  IInv'
<1> USE DEF IInv, EnsureDbOpen
<1>1. TypeOK' /\ IdsDescend'
  BY DEF TypeOK, IdsDescend
<1>2. FlagsAgree' /\ ShowsNewestRows'
  BY DEF FlagsAgree, ShowsNewestRows, IsPrefixOf
<1>3. LoadedShowsAll' /\ SnapshotFresh'
  BY DEF LoadedShowsAll, SnapshotFresh
<1>4. QED
  BY <1>1, <1>2, <1>3

LEMMA AddIInv == IInv /\ (BeginAdd \/ FinishAdd) => IInv'
<1> SUFFICES ASSUME IInv, BeginAdd \/ FinishAdd PROVE IInv'
  OBVIOUS
<1> USE CapAssumption, MaxIdAssumption DEF load, NewId, MarkDirty, EvictRows
<1>0. /\ TypeOK /\ IdsDescend /\ FlagsAgree /\ ShowsNewestRows
      /\ LoadedShowsAll /\ SnapshotFresh
  BY DEF IInv
<1>1. CASE /\ ~adding /\ lastId < MaxId
           /\ EnsureDbOpen(TRUE)
           /\ lastId' = lastId + 1
           /\ db' = <<lastId + 1>> \o db
           /\ entries' = <<NewId>> \o entries
           /\ adding' = TRUE
           /\ UNCHANGED <<loaded, loadInFlight, dirty, load>>
  <2> USE <1>0, <1>1
  <2>1. lastId' \in Ids
    BY DEF TypeOK, Ids
  <2>2. /\ db' \in Seq(Ids)
        /\ Len(db') = Len(db) + 1
        /\ \A j \in 1 .. Len(db) + 1 :
              db'[j] = IF j = 1 THEN lastId' ELSE db[j - 1]
    BY <2>1, PrependFacts DEF TypeOK
  <2>3. /\ entries' \in Seq(Ids)
        /\ entries' # <<>>
    BY <2>1, PrependFacts DEF TypeOK
  <2>4. dbOpen' = TRUE /\ schema' \in {"none", "old", "current"}
    BY DEF EnsureDbOpen, TypeOK
  <2>5. TypeOK'
    BY <2>1, <2>2, <2>3, <2>4 DEF TypeOK, Ids
  <2>6. IdsDescend'
    <3>1. \A j \in 1 .. Len(db) : db[j] \in Nat
      BY DEF TypeOK, Ids
    <3>2. lastId \in Nat
      BY DEF TypeOK
    <3>3. \A i \in 1 .. Len(db') : db'[i] <= lastId'
      <4>1. SUFFICES ASSUME NEW i \in 1 .. Len(db')
                     PROVE  db'[i] <= lastId'
        OBVIOUS
      <4>2. CASE i = 1
        BY <2>2, <3>2, <4>2 DEF TypeOK
      <4>3. CASE i # 1
        <5>1. i - 1 \in 1 .. Len(db) /\ db'[i] = db[i - 1]
          BY <2>2, <4>1, <4>3 DEF TypeOK
        <5>2. db[i - 1] <= lastId /\ db[i - 1] \in Nat
          BY <3>1, <5>1 DEF IdsDescend
        <5>3. lastId' = lastId + 1
          OBVIOUS
        <5>4. db[i - 1] <= lastId + 1
          BY <3>2, <5>2
        <5>5. QED
          BY <5>1, <5>3, <5>4
      <4>4. QED
        BY <4>2, <4>3
    <3>4. \A i, j \in 1 .. Len(db') : i < j => db'[i] > db'[j]
      <4>1. SUFFICES ASSUME NEW i \in 1 .. Len(db'), NEW j \in 1 .. Len(db'),
                            i < j
                     PROVE  db'[i] > db'[j]
        OBVIOUS
      <4>2. j - 1 \in 1 .. Len(db) /\ db'[j] = db[j - 1]
        BY <2>2, <4>1 DEF TypeOK
      <4>3. CASE i = 1
        BY <2>2, <3>1, <3>2, <4>2, <4>3 DEF IdsDescend
      <4>4. CASE i # 1
        <5>1. i - 1 \in 1 .. Len(db) /\ db'[i] = db[i - 1]
          BY <2>2, <4>1, <4>4 DEF TypeOK
        <5>2. i - 1 < j - 1
          BY <4>1
        <5>3. db[i - 1] > db[j - 1]
          BY <4>2, <5>1, <5>2 DEF IdsDescend
        <5>4. QED
          BY <4>2, <5>1, <5>3
      <4>5. QED
        BY <4>3, <4>4
    <3>5. QED
      BY <3>3, <3>4 DEF IdsDescend
  <2>7. FlagsAgree'
    BY <2>3, <2>4 DEF FlagsAgree
  <2>8. ShowsNewestRows'
    BY <2>1, PrefixPrepend DEF ShowsNewestRows, TypeOK
  <2>9. LoadedShowsAll' /\ SnapshotFresh'
    BY DEF LoadedShowsAll, SnapshotFresh
  <2>10. QED
    BY <2>5, <2>6, <2>7, <2>8, <2>9 DEF IInv
<1>2. CASE /\ ~adding
           /\ \E ok \in BOOLEAN : EnsureDbOpen(ok)
           /\ UNCHANGED <<db, lastId, entries, adding>>
           /\ UNCHANGED <<loaded, loadInFlight, dirty, load>>
  BY <1>2, FailedCallIInv
<1>3. CASE FinishAdd
  <2> USE <1>0, <1>3 DEF FinishAdd
  <2>1. CASE /\ Len(entries) > Cap
             /\ db' = EvictRows(db)
             /\ entries' = Newest(entries, Cap)
    <3>1. Cap \in 0 .. Len(entries) /\ Cap \in 0 .. Len(db) /\ Len(db) > Cap
      BY <2>1 DEF ShowsNewestRows, IsPrefixOf, TypeOK
    <3>2. db' = Newest(db, Cap)
      BY <2>1, <3>1
    <3>3. /\ db' \in Seq(Ids)
          /\ Len(db') = Cap
          /\ \A j \in 1 .. Cap : db'[j] = db[j]
      BY <3>1, <3>2, NewestFacts DEF TypeOK
    <3>4. /\ entries' \in Seq(Ids)
          /\ IsPrefixOf(entries', db')
      BY <2>1, <3>1, <3>2, NewestFacts, PrefixNewest DEF TypeOK, ShowsNewestRows
    <3>5. TypeOK'
      BY <3>3, <3>4 DEF TypeOK
    <3>6. IdsDescend'
      BY <3>1, <3>3 DEF IdsDescend
    <3>7. FlagsAgree'
      BY <2>1, EmptyFacts DEF FlagsAgree, TypeOK
    <3>8. ShowsNewestRows'
      BY <3>4 DEF ShowsNewestRows, IsPrefixOf
    <3>9. LoadedShowsAll'
      BY <2>1, <3>2 DEF LoadedShowsAll, load
    <3>10. SnapshotFresh'
      BY DEF SnapshotFresh, FlagsAgree, load
    <3>11. QED
      BY <3>5, <3>6, <3>7, <3>8, <3>9, <3>10 DEF IInv
  <2>2. CASE UNCHANGED <<db, entries>>
    <3>1. TypeOK' /\ IdsDescend'
      BY <2>2 DEF TypeOK, IdsDescend
    <3>2. FlagsAgree' /\ ShowsNewestRows'
      BY <2>2 DEF FlagsAgree, ShowsNewestRows, IsPrefixOf
    <3>3. LoadedShowsAll' /\ SnapshotFresh'
      BY <2>2 DEF LoadedShowsAll, SnapshotFresh, FlagsAgree
    <3>4. QED
      BY <3>1, <3>2, <3>3 DEF IInv
  <2>3. QED
    BY <2>1, <2>2
<1>4. QED
  BY <1>1, <1>2, <1>3 DEF BeginAdd

LEMMA ClearIInv == IInv /\ Clear => IInv'
<1> SUFFICES ASSUME IInv, Clear PROVE IInv'
  OBVIOUS
<1>0. /\ TypeOK /\ IdsDescend /\ FlagsAgree /\ ShowsNewestRows
      /\ LoadedShowsAll /\ SnapshotFresh
  BY DEF IInv
<1>1. CASE /\ EnsureDbOpen(TRUE)
           /\ db' = <<>>
           /\ entries' = <<>>
           /\ MarkDirty
  <2> USE <1>0, <1>1
  <2>0. /\ UNCHANGED <<lastId, loaded, loadInFlight, adding, worker, rows, partial>>
        /\ dirty' \in BOOLEAN
    BY DEF Clear, load, TypeOK, MarkDirty
  <2>1. dbOpen' = TRUE /\ schema' \in {"none", "old", "current"}
    BY DEF EnsureDbOpen, TypeOK
  <2>2. TypeOK'
    BY <2>0, <2>1, EmptyFacts DEF TypeOK
  <2>3. IdsDescend'
    BY <2>0, EmptyFacts DEF IdsDescend
  <2>4. FlagsAgree'
    BY <2>0, <2>1 DEF FlagsAgree, MarkDirty
  <2>5. ShowsNewestRows'
    BY EmptyFacts DEF ShowsNewestRows, IsPrefixOf
  <2>6. LoadedShowsAll' /\ SnapshotFresh'
    BY <2>0 DEF LoadedShowsAll, SnapshotFresh, FlagsAgree, MarkDirty
  <2>7. QED
    BY <2>2, <2>3, <2>4, <2>5, <2>6 DEF IInv
<1>2. CASE /\ \E ok \in BOOLEAN : EnsureDbOpen(ok)
           /\ UNCHANGED <<db, entries, dirty>>
  BY <1>2, FailedCallIInv DEF Clear, load
<1>3. QED
  BY <1>1, <1>2 DEF Clear

LEMMA RemoveIInv ==
    ASSUME IInv, NEW row \in 1 .. MaxId, RemoveEntry(row)
    PROVE  IInv'
<1>0. /\ TypeOK /\ IdsDescend /\ FlagsAgree /\ ShowsNewestRows
      /\ LoadedShowsAll /\ SnapshotFresh
  BY DEF IInv
<1>1. CASE /\ EnsureDbOpen(TRUE)
           /\ db' = DeleteById(db, entries[row])
           /\ entries' = Without(entries, row)
           /\ MarkDirty
  <2> USE <1>0, <1>1, MaxIdAssumption
  <2>0. /\ row \in 1 .. Len(entries)
        /\ UNCHANGED <<lastId, loaded, loadInFlight, adding, worker, rows, partial>>
        /\ dirty' \in BOOLEAN
    BY DEF RemoveEntry, load, TypeOK, MarkDirty
  <2>1. row \in 1 .. Len(db) /\ db' = Without(db, row)
    BY <2>0, DeletesRowShown
  <2>2. /\ db' \in Seq(Ids)
        /\ Len(db') = Len(db) - 1
        /\ \A j \in 1 .. Len(db) - 1 :
              db'[j] = IF j < row THEN db[j] ELSE db[j + 1]
    BY <2>1, WithoutFacts DEF TypeOK
  <2>3. entries' \in Seq(Ids) /\ IsPrefixOf(entries', db')
    BY <2>0, <2>1, WithoutFacts, PrefixWithout DEF TypeOK, ShowsNewestRows
  <2>4. dbOpen' = TRUE /\ schema' \in {"none", "old", "current"}
    BY DEF EnsureDbOpen, TypeOK
  <2>5. TypeOK'
    BY <2>0, <2>2, <2>3, <2>4 DEF TypeOK
  <2>6. IdsDescend'
    \* Row j of the shorter table was row old(j) of the longer one.
    <3> DEFINE old(j) == IF j < row THEN j ELSE j + 1
    <3>1. \A j \in 1 .. Len(db') : old(j) \in 1 .. Len(db) /\ db'[j] = db[old(j)]
      BY <2>1, <2>2 DEF TypeOK
    <3>2. \A i, j \in 1 .. Len(db') : i < j => old(i) < old(j)
      BY <2>1, <2>2 DEF TypeOK
    <3> HIDE DEF old
    <3>3. QED
      BY <2>0, <3>1, <3>2 DEF IdsDescend
  <2>7. FlagsAgree'
    BY <2>0, <2>4 DEF FlagsAgree, MarkDirty
  <2>8. ShowsNewestRows'
    BY <2>3 DEF ShowsNewestRows, IsPrefixOf
  <2>9. LoadedShowsAll'
    BY <2>0, <2>1 DEF LoadedShowsAll
  <2>10. SnapshotFresh'
    BY <2>0 DEF SnapshotFresh, FlagsAgree, MarkDirty
  <2>11. QED
    BY <2>5, <2>6, <2>7, <2>8, <2>9, <2>10 DEF IInv
<1>2. CASE /\ \E ok \in BOOLEAN : EnsureDbOpen(ok)
           /\ UNCHANGED <<db, entries, dirty>>
  BY <1>2, FailedCallIInv DEF RemoveEntry, load
<1>3. QED
  BY <1>1, <1>2 DEF RemoveEntry

LEMMA StutterIInv == IInv /\ UNCHANGED vars => IInv'
<1> SUFFICES ASSUME IInv, UNCHANGED vars PROVE IInv'
  OBVIOUS
<1> USE DEF IInv, vars
<1>1. TypeOK' /\ IdsDescend'
  BY DEF TypeOK, IdsDescend
<1>2. FlagsAgree' /\ ShowsNewestRows'
  BY DEF FlagsAgree, ShowsNewestRows, IsPrefixOf
<1>3. LoadedShowsAll' /\ SnapshotFresh'
  BY DEF LoadedShowsAll, SnapshotFresh
<1>4. QED
  BY <1>1, <1>2, <1>3

LEMMA NextIInv == IInv /\ [Next]_vars => IInv'
<1> SUFFICES ASSUME IInv, [Next]_vars PROVE IInv'
  OBVIOUS
<1>1. CASE EnsureLoaded \/ Open \/ WorkerRead \/ FinishLoad
  BY <1>1, LoadIInv
<1>2. CASE BeginAdd \/ FinishAdd
  BY <1>2, AddIInv
<1>3. CASE Clear
  BY <1>3, ClearIInv
<1>4. CASE \E row \in 1 .. MaxId : RemoveEntry(row)
  BY <1>4, RemoveIInv
<1>5. CASE Restart \/ Crash
  BY <1>5, StartOverIInv DEF Restart, Crash
<1>6. CASE UNCHANGED vars
  BY <1>6, StutterIInv
<1>7. QED
  BY <1>1, <1>2, <1>3, <1>4, <1>5, <1>6 DEF Next

-----------------------------------------------------------------------------
\* The invariant holds of every behaviour.
THEOREM Invariance == Spec => []IInv
<1>1. QED
  BY InitIInv, NextIInv, PTL DEF Spec

\* Every variable keeps its type (and every id its range).
THEOREM TypeCorrect == Spec => []TypeOK
<1>1. IInv => TypeOK
  BY DEF IInv
<1>2. QED
  BY <1>1, Invariance, PTL

\* scanhistorymodel.cpp: the History page lists the newest rows of the table,
\* in order, at every moment.
THEOREM ListIsTopOfTable == Spec => []ShowsNewestRows
<1>1. IInv => ShowsNewestRows
  BY DEF IInv
<1>2. QED
  BY <1>1, Invariance, PTL

\* scanhistorymodel.cpp:135-150: the m_dirty protocol is enough for a load that
\* read everything to end with the whole table on the page, for good.
THEOREM ListIsWholeTable == Spec => []LoadedShowsAll
<1>1. IInv => LoadedShowsAll
  BY DEF IInv
<1>2. QED
  BY <1>1, Invariance, PTL

\* No snapshot older than a write is ever applied.
THEOREM NoStaleSnapshot == Spec => []SnapshotFresh
<1>1. IInv => SnapshotFresh
  BY DEF IInv
<1>2. QED
  BY <1>1, Invariance, PTL

-----------------------------------------------------------------------------
\* The detailed model implements the abstract history.

LEMMA LogInit == Init => Log!Init
<1> SUFFICES ASSUME Init PROVE Log!Init
  OBVIOUS
<1>1. IdsDescend
  BY InitIInv DEF IInv
<1>2. entries = <<>>
  BY DEF Init
<1>3. QED
  BY <1>1, <1>2 DEF IdsDescend, Log!Init

LEMMA LogRefresh ==
    ASSUME IInv, IInv', UNCHANGED <<db, lastId>>
    PROVE  Log!Refresh
<1>1. ShowsNewestRows'
  BY DEF IInv
<1>2. QED
  BY <1>1 DEF ShowsNewestRows, IsPrefixOf, Log!Refresh, Log!ShowsNewest

LEMMA LogNext == IInv /\ IInv' /\ [Next]_vars => [Log!Next]_Log!logVars
<1> SUFFICES ASSUME IInv, IInv', [Next]_vars
             PROVE  [Log!Next]_Log!logVars
  OBVIOUS
<1> USE DEF Log!Next, Log!logVars
<1>1. CASE UNCHANGED <<db, lastId>>
  BY <1>1, LogRefresh
<1>2. CASE BeginAdd
  BY <1>2, <1>1 DEF BeginAdd, NewId, Log!Record
<1>3. CASE FinishAdd
  <2>1. Len(entries) <= Len(db) /\ Len(db) \in Nat /\ Len(entries) \in Nat
    BY DEF IInv, TypeOK, ShowsNewestRows, IsPrefixOf
  <2>2. CASE /\ Len(entries) > Cap
             /\ db' = EvictRows(db)
             /\ entries' = Newest(entries, Cap)
    BY <1>3, <2>1, <2>2, CapAssumption
       DEF FinishAdd, EvictRows, Newest, Log!Evict, Log!Newest
  <2>3. CASE UNCHANGED <<db, entries>>
    BY <1>3, <2>3 DEF FinishAdd
  <2>4. QED
    BY <1>3, <2>2, <2>3 DEF FinishAdd
<1>4. CASE Clear
  BY <1>4, <1>1 DEF Clear, Log!ClearAll
<1>5. CASE \E row \in 1 .. MaxId : RemoveEntry(row)
  <2>1. PICK row \in 1 .. MaxId : RemoveEntry(row)
    BY <1>5
  <2>2. /\ row \in 1 .. Len(entries)
        /\ UNCHANGED lastId
        /\ \/ /\ db' = DeleteById(db, entries[row])
              /\ entries' = Without(entries, row)
           \/ UNCHANGED <<db, entries>>
    BY <2>1 DEF RemoveEntry
  <2>3. DeleteById(db, entries[row]) = Without(db, row)
    BY <2>2, DeletesRowShown DEF IInv
  <2>4. CASE db' = Without(db, row) /\ entries' = Without(entries, row)
    BY <2>2, <2>4 DEF Without, Log!Delete, Log!Without
  <2>5. QED
    BY <2>2, <2>3, <2>4
<1>6. CASE EnsureLoaded \/ Open \/ WorkerRead \/ FinishLoad \/ Restart \/ Crash
           \/ UNCHANGED vars
  <2>1. UNCHANGED <<db, lastId>>
    BY <1>6 DEF EnsureLoaded, Open, WorkerRead, FinishLoad, Restart, Crash,
                StartOver, disk, vars
  <2>2. QED
    BY <2>1, <1>1
<1>7. QED
  BY <1>2, <1>3, <1>4, <1>5, <1>6 DEF Next

\* Whatever the database, the loads and the crashes do, what is saved and what
\* is shown behave as HistoryLog promises.
THEOREM ImplementsLog == Spec => LogSpec
<1>1. QED
  BY Invariance, LogInit, LogNext, PTL DEF Spec, LogSpec, Log!Spec

-----------------------------------------------------------------------------
(* PageStack.                                                              *)

\* A call of ensureLoaded() from a page is one of the history's, or nothing.
LEMMA EnsureIsAStep ==
    ASSUME NEW shown, EnsureLoadedIf(shown)
    PROVE  [Next]_vars
  BY DEF EnsureLoadedIf, Next

LEMMA NavigateIsAStep ==
    ASSUME NEW p, NavigateTo(p)
    PROVE  [Next]_vars
  BY EnsureIsAStep DEF NavigateTo

\* Every step of the window is a step of the history, or leaves it alone.
LEMMA StepSimulated == [PNext]_allVars => [Next]_vars
<1> SUFFICES ASSUME [PNext]_allVars PROVE [Next]_vars
  OBVIOUS
<1>1. CASE \E p \in Pages : NavigateTo(p) \/ PageReady(p)
  <2>1. PICK p \in Pages : NavigateTo(p) \/ PageReady(p)
    BY <1>1
  <2>2. CASE NavigateTo(p)
    BY <2>2, NavigateIsAStep
  <2>3. CASE PageReady(p)
    BY <2>3, EnsureIsAStep DEF PageReady, Completed
  <2> QED
    BY <2>1, <2>2, <2>3
<1>2. CASE Back
  BY <1>2, NavigateIsAStep DEF Back
<1>3. CASE OpenConfirm \/ CancelConfirm
  BY <1>3 DEF OpenConfirm, CancelConfirm
<1>4. CASE Confirmed
  BY <1>4 DEF Confirmed, Next
<1>5. CASE \E row \in 1 .. MaxId : DeleteRow(row)
  BY <1>5 DEF DeleteRow, Next
<1>6. CASE Behind
  BY <1>6 DEF Behind, Next
<1>7. CASE StartAgain
  BY <1>7 DEF StartAgain, Next
<1>8. CASE UNCHANGED allVars
  BY <1>8 DEF allVars
<1> QED
  BY <1>1, <1>2, <1>3, <1>4, <1>5, <1>6, <1>7, <1>8 DEF PNext

\* Refinement: what the window does with the history is a behaviour of it, with
\* its fairness, for every set of pages.
THEOREM PagesUseHistory == PSpec => Spec
  BY StepSimulated, PTL DEF PSpec, PInit, Spec

\* So the history keeps its invariant under the pages: the list is the top of the
\* table, and the whole of it after a complete load.
THEOREM HistoryUnderPages == PSpec => []IInv
  BY PagesUseHistory, Invariance, PTL

\* The visible page was visited, a page is there only if it was, Back leads to a
\* tab, and a confirmation is on a page that lists or counts the history.
THEOREM PagesInOrder == PSpec => []PagesAgree
<1>1. PInit => PagesAgree
  BY TabsAssumption DEF PInit, StackInit, PagesAgree, Pages
<1>2. PagesAgree /\ [PNext]_allVars => PagesAgree'
  <2> SUFFICES ASSUME PagesAgree, [PNext]_allVars PROVE PagesAgree'
    OBVIOUS
  <2> USE TabsAssumption, PagesAssumption DEF PagesAgree, Pages
  <2>1. ASSUME NEW p \in Pages, NavigateTo(p) PROVE PagesAgree'
    BY <2>1 DEF NavigateTo
  <2>2. ASSUME NEW p \in Pages, PageReady(p) PROVE PagesAgree'
    BY <2>2 DEF PageReady
  <2>3. CASE Back
    BY <2>3, <2>1 DEF Back
  <2>4. CASE OpenConfirm \/ Confirmed \/ CancelConfirm
    BY <2>4 DEF OpenConfirm, Confirmed, CancelConfirm
  <2>5. CASE \E row \in 1 .. MaxId : DeleteRow(row)
    BY <2>5 DEF DeleteRow, pageVars
  <2>6. CASE Behind
    BY <2>6 DEF Behind, pageVars
  <2>7. CASE StartAgain
    BY <2>7 DEF StartAgain
  <2>8. CASE UNCHANGED allVars
    BY <2>8 DEF allVars, pageVars
  <2> QED
    BY <2>1, <2>2, <2>3, <2>4, <2>5, <2>6, <2>7, <2>8 DEF PNext
<1> QED
  BY <1>1, <1>2, PTL DEF PSpec
=============================================================================
