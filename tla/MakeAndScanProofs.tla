------------------------- MODULE MakeAndScanProofs -------------------------
(***************************************************************************)
(* Theorems about MakeAndScan, for every form, command line and text, also *)
(* of unknown origin: history and dialog agree on the kind of a code, the  *)
(* dialog says nothing of an earlier code but what a parser that throws    *)
(* leaves, networks come back and are handed over as they were entered,    *)
(* contacts of the page come back as they were entered, and the card saved *)
(* is of the contact that was asked for and says the same.                 *)
(***************************************************************************)
EXTENDS MakeAndScan, SequenceLemmas, FiniteSetTheorems

-----------------------------------------------------------------------------
(* The kind of a code.                                                     *)

\* The test that the history has and the dialog has not.
EncryptedRule == Rule("encrypted", {<<"ENC", ":", "1">>})

\* The two tables, written apart, have the same rules in the same order, and the
\* history one more.
LEMMA OneRuleMore ==
    /\ DOMAIN Recognisers = 1 .. 25
    /\ DOMAIN Classes = 1 .. 26
    /\ \A i \in 1 .. 25 : Classes[i] = Recognisers[i]
    /\ Classes[26] = EncryptedRule
<1>1. DOMAIN Recognisers = 1 .. 25
  BY DEF Recognisers
<1>2. DOMAIN Classes = 1 .. 26
  BY DEF Classes
<1>3. \A i \in 1 .. 25 : Classes[i] = Recognisers[i]
  BY DEF Recognisers, Classes
<1>4. Classes[26] = EncryptedRule
  BY DEF Classes, EncryptedRule
<1> QED
  BY <1>1, <1>2, <1>3, <1>4, Zenon

\* Of one text both say the same, or the history that it is encrypted and the
\* dialog that it is a text: the first rule that fits is the same, if one fits.
LEMMA AgreeOnEveryText ==
    ASSUME NEW s
    PROVE  \/ ClassifyType(s) = DetectKind(s)
           \/ ClassifyType(s) = "encrypted" /\ DetectKind(s) = "text"
<1> DEFINE dialog == {i \in 1 .. 25 : Fits(s, Recognisers[i])}
           history == {i \in 1 .. 26 : Fits(s, Classes[i])}
<1>1. /\ DetectKind(s) = IF dialog = {} THEN "text" ELSE Recognisers[Min(dialog)].kind
      /\ ClassifyType(s) = IF history = {} THEN "text" ELSE Classes[Min(history)].kind
  BY OneRuleMore DEF DetectKind, ClassifyType
<1>2. /\ dialog \in SUBSET (1 .. 25) /\ dialog \subseteq history
      /\ history \in SUBSET (1 .. 26) /\ \A i \in history : i # 26 => i \in dialog
  BY OneRuleMore
<1>3. dialog # {} => Min(dialog) \in dialog /\ \A i \in dialog : Min(dialog) <= i
  <2> HIDE DEF dialog
  <2> QED
    BY <1>2, MinIsIn
<1>4. history # {} => Min(history) \in history /\ \A i \in history : Min(history) <= i
  <2> HIDE DEF history
  <2> QED
    BY <1>2, MinIsIn
<1> HIDE DEF dialog, history
<1>5. CASE dialog # {}
  <2> DEFINE d == Min(dialog)
             h == Min(history)
  <2>1. d \in dialog /\ d \in 1 .. 25 /\ d \in history /\ history # {}
    BY <1>2, <1>3, <1>5
  <2>2. h \in history /\ h \in 1 .. 26 /\ h <= d
    BY <1>2, <1>4, <2>1
  <2>3. h \in dialog
    <3> HIDE DEF d, h
    <3> QED
      BY <1>2, <2>1, <2>2
  <2>4. d <= h
    BY <1>3, <1>5, <2>3
  <2>5. h = d /\ d \in 1 .. 25 /\ history # {}
    <3> HIDE DEF d, h
    <3> QED
      BY <2>1, <2>2, <2>4
  <2> QED
    BY <1>1, <1>5, <2>5, OneRuleMore
<1>6. CASE dialog = {} /\ history # {}
  <2>1. Min(history) = 26
    BY <1>2, <1>4, <1>6
  <2> QED
    BY <1>1, <1>6, <2>1, OneRuleMore DEF EncryptedRule, Rule
<1>7. CASE dialog = {} /\ history = {}
  BY <1>1, <1>7
<1> QED
  BY <1>5, <1>6, <1>7

\* History and dialog agree on the kind of every code shown.
THEOREM HistoryAgrees == Spec => []HistoryAgreesWithDialog
<1>1. HistoryAgreesWithDialog
  BY AgreeOnEveryText DEF HistoryAgreesWithDialog
<1> QED
  BY <1>1, PTL

-----------------------------------------------------------------------------
(* What the dialog says, and what is saved of it.                          *)

\* The contact parser has one answer.
LEMMA ContactIsParsed ==
    ASSUME NEW s
    PROVE  \E c : ParseVCard(s) = {c}
<1> DEFINE lines == Split(s, "\n")
           keys == [i \in DOMAIN lines |-> SubSeq(Before(lines[i], ":"), 1, 1)]
           values == [i \in DOMAIN lines |-> UnescapeVCard(After(lines[i], ":"))]
           contact == [name |-> FirstValue(keys, values, "FN"), phone |-> FirstValue(keys, values, "TEL"),
                    email |-> FirstValue(keys, values, "EMAIL")]
           mecard == Starts(s, {<<"MECARD:">>})
           vcard == Starts(s, {<<"BEGIN:VCARD">>})
<1>1. ParseVCard(s) = CASE mecard -> {ParseMecard(s)} [] vcard -> {contact} [] OTHER -> {NoContact}
  BY DEF ParseVCard
<1>2. ~(mecard /\ vcard)
  BY DEF Starts
<1> HIDE DEF contact, mecard, vcard
<1> QED
  BY <1>1, <1>2

\* Of no code it says that there is no contact.
LEMMA NoCodeNoContact == ParseVCard(<<>>) = {NoContact}
<1>1. ~Starts(<<>>, {<<"MECARD:">>}) /\ ~Starts(<<>>, {<<"BEGIN:VCARD">>})
  BY DEF Starts
<1> QED
  BY <1>1 DEF ParseVCard

\* Every parser has a property of its own.
LEMMA SameParsers ==
    ASSUME NEW s, NEW t
    PROVE  DOMAIN Parse(s) = DOMAIN Parse(t)
  BY DEF Parse

\* A code shown: every property is its parser's answer, or what it was.
LEMMA ShowKeepsIInv ==
    ASSUME IInv, NEW t, Show(t)
    PROVE  IInv'
<1> DEFINE answers == Parse(t)
<1>1. /\ content' = t /\ UNCHANGED <<making, saving>>
      /\ parsed' = [p \in DOMAIN parsed |->
                      IF answers[p] = {} THEN parsed[p] ELSE CHOOSE r \in answers[p] : TRUE]
  BY DEF Show
<1>2. DOMAIN parsed' = DOMAIN answers /\ DOMAIN parsed = DOMAIN answers
  BY <1>1, SameParsers DEF IInv
<1>3. \A p \in DOMAIN answers : answers[p] # {} => parsed'[p] \in answers[p]
  <2> HIDE DEF answers
  <2> QED
    BY <1>1, <1>2
<1>4. "vcard" \in DOMAIN answers /\ answers.vcard = ParseVCard(t) /\ answers.vcard # {}
  BY ContactIsParsed DEF Parse
<1>5. parsed.vcard' \in ParseVCard(t)
  BY <1>3, <1>4
<1>6. SaysWhatIsShown'
  BY <1>1, <1>2, <1>3 DEF SaysWhatIsShown
<1>7. PendingIsAskedFor'
  BY <1>1 DEF IInv, PendingIsAskedFor, saving
<1> QED
  BY <1>1, <1>2, <1>5, <1>6, <1>7 DEF IInv

\* The steps that show no code keep what the dialog says.
LEMMA StepKeepsIInv == IInv /\ [Next]_vars => IInv'
<1> SUFFICES ASSUME IInv, [Next]_vars PROVE IInv'
  OBVIOUS
<1> USE DEF IInv, SaysWhatIsShown, PendingIsAskedFor, making, saving
<1>1. CASE MakeOnPage \/ RunCommand \/ MakeElsewhere \/ MakeSealed
  <2>1. UNCHANGED <<content, parsed, saving>>
    BY <1>1 DEF MakeOnPage, RunCommand, MakeElsewhere, MakeSealed
  <2> QED
    BY <2>1
<1>2. CASE ScanMade \/ ScanOther \/ ScanTampered
  BY <1>2, ShowKeepsIInv DEF ScanMade, ScanOther, ScanTampered
<1>3. CASE AddContact
  <2>1. pending' = Contact(content, parsed.vcard) /\ askedFor' = content /\ UNCHANGED <<content, parsed>>
    BY <1>3 DEF AddContact
  <2> QED
    BY <2>1
<1>4. CASE AcceptContact
  BY <1>4 DEF AcceptContact, SaveContact
<1>5. CASE AddToCalendar
  BY <1>5 DEF AddToCalendar
<1>6. CASE AcceptEvent
  BY <1>6 DEF AcceptEvent
<1>7. CASE CancelSave
  BY <1>7 DEF CancelSave
<1>8. CASE UNCHANGED vars
  BY <1>8 DEF vars
<1> QED
  BY <1>1, <1>2, <1>3, <1>4, <1>5, <1>6, <1>7, <1>8 DEF Next

\* The invariant holds.
THEOREM Invariance == Spec => []IInv
<1>1. Init => IInv
  <2> SUFFICES ASSUME Init PROVE IInv
    OBVIOUS
  <2>1. content = <<>> /\ saveDialog = "none" /\ DOMAIN parsed = DOMAIN Parse(<<>>)
        /\ parsed.vcard = NoContact
    BY DEF Init, Parse
  <2> QED
    BY <2>1, NoCodeNoContact DEF IInv, SaysWhatIsShown, PendingIsAskedFor
<1> QED
  BY <1>1, StepKeepsIInv, PTL DEF Spec

\* The dialog says of a code what its parsers make of it, whatever was scanned
\* before; only a parser that throws leaves what it said of an earlier one.
THEOREM NothingStale == Spec => []SaysWhatIsShown
  BY Invariance, PTL DEF IInv

\* The card written is that of the contact of the code shown when Add contact was
\* pressed, whatever the decoder has shown since.
THEOREM CardOfAskedFor ==
    Spec => [][card' # card => \E c \in ParseVCard(askedFor) :
                  LET contact == Contact(askedFor, c)
                  IN card' = VCard(contact.name, <<>>, contact.phone, contact.email, <<>>)]_vars
<1> DEFINE Written == card' # card => \E c \in ParseVCard(askedFor) :
                  LET contact == Contact(askedFor, c)
                  IN card' = VCard(contact.name, <<>>, contact.phone, contact.email, <<>>)
<1>1. ASSUME IInv, [Next]_vars
      PROVE  Written
  <2> USE DEF making, saving
  <2>1. CASE AcceptContact
    <3>1. PICK c \in ParseVCard(askedFor) : pending = Contact(askedFor, c)
      BY <1>1, <2>1 DEF IInv, PendingIsAskedFor, AcceptContact, SaveContact
    <3>2. card' \in {card, VCard(pending.name, <<>>, pending.phone, pending.email, <<>>)}
      BY <2>1 DEF AcceptContact, SaveContact, SaveTextFile
    <3> QED
      BY <3>1, <3>2
  <2>2. CASE ~AcceptContact
    <3>1. card' = card
      BY <1>1, <2>2 DEF Next, MakeOnPage, RunCommand, MakeElsewhere, MakeSealed, ScanMade, ScanOther,
           ScanTampered, Show, AddContact, AddToCalendar, AcceptEvent, CancelSave, vars
    <3> QED
      BY <3>1
  <2> QED
    BY <2>1, <2>2
<1>2. []IInv /\ [][Next]_vars => [][Written]_vars
  BY <1>1, PTL
<1> QED
  BY <1>2, Invariance, PTL DEF Spec
-----------------------------------------------------------------------------
(* Texts, and what Split makes of them.                                    *)

\* One element before the others.
LEMMA OneBefore ==
    ASSUME NEW A, NEW x \in A, NEW t \in Seq(A)
    PROVE  /\ Cons(x, t) \in Seq(A)
           /\ Cons(x, t) # <<>>
           /\ Len(Cons(x, t)) = Len(t) + 1
           /\ Cons(x, t)[1] = x
           /\ \A k \in 1 .. Len(t) : Cons(x, t)[k + 1] = t[k]
<1>1. <<x>> \in Seq(A) /\ Len(<<x>>) = 1 /\ <<x>>[1] = x
  OBVIOUS
<1>2. /\ <<x>> \o t \in Seq(A) /\ Len(<<x>> \o t) = Len(<<x>>) + Len(t)
      /\ \A i \in 1 .. Len(<<x>>) + Len(t) :
            (<<x>> \o t)[i] = IF i <= Len(<<x>>) THEN <<x>>[i] ELSE t[i - Len(<<x>>)]
  BY <1>1, ConcatProperties
<1>3. Len(t) \in Nat
  OBVIOUS
<1> DEFINE s == <<x>> \o t
<1>4. s \in Seq(A) /\ Len(s) = Len(t) + 1 /\ \A i \in 1 .. Len(t) + 1 : s[i] = IF i <= 1 THEN x ELSE t[i - 1]
  BY <1>1, <1>2, <1>3
<1> HIDE DEF s
<1>5. s[1] = x /\ \A k \in 1 .. Len(t) : s[k + 1] = t[k]
  BY <1>3, <1>4
<1> QED
  BY <1>3, <1>4, <1>5 DEF s, Cons

\* A sequence that is not empty is its first element before the others.
LEMMA FirstAndRest ==
    ASSUME NEW A, NEW t \in Seq(A), t # <<>>
    PROVE  /\ t[1] \in A /\ Tail(t) \in Seq(A) /\ Len(Tail(t)) = Len(t) - 1
           /\ t = Cons(t[1], Tail(t))
<1>1. t[1] \in A /\ Tail(t) \in Seq(A) /\ Len(Tail(t)) = Len(t) - 1 /\ Len(t) \in Nat \ {0}
  BY EmptySeq
<1> DEFINE a == t[1]
           r == Tail(t)
           u == Cons(a, r)
<1>2. \A k \in 1 .. Len(t) - 1 : r[k] = t[k + 1]
  BY <1>1
<1> HIDE DEF a, r
<1>3. a \in A /\ r \in Seq(A) /\ Len(r) = Len(t) - 1
  BY <1>1 DEF a, r
<1>6. /\ u \in Seq(A) /\ Len(u) = Len(r) + 1 /\ u[1] = a
      /\ \A k \in 1 .. Len(r) : u[k + 1] = r[k]
  BY <1>3, OneBefore
<1> HIDE DEF u
<1>4. \A i \in 1 .. Len(t) : u[i] = t[i]
  <2> TAKE i \in 1 .. Len(t)
  <2>1. CASE i = 1
    BY <1>6, <2>1 DEF a
  <2>2. CASE i # 1
    <3>1. i - 1 \in 1 .. Len(t) - 1 /\ (i - 1) + 1 = i
      BY <1>1, <2>2
    <3>2. u[(i - 1) + 1] = t[(i - 1) + 1]
      BY <1>2, <1>3, <1>6, <3>1
    <3> QED
      BY <3>1, <3>2
  <2> QED
    BY <2>1, <2>2
<1>5. u = t
  BY <1>1, <1>3, <1>4, <1>6, SeqEqual
<1> QED
  BY <1>1, <1>5 DEF u, a, r

\* The first element changed.
LEMMA FirstChanged ==
    ASSUME NEW A, NEW h \in A, NEW e \in A, NEW t \in Seq(A)
    PROVE  [Cons(h, t) EXCEPT ![1] = e] = Cons(e, t)
<1> DEFINE s == Cons(h, t)
           u == Cons(e, t)
           v == [s EXCEPT ![1] = e]
<1>1. /\ s \in Seq(A) /\ Len(s) = Len(t) + 1 /\ s[1] = h
      /\ \A k \in 1 .. Len(t) : s[k + 1] = t[k]
  BY OneBefore
<1>2. /\ u \in Seq(A) /\ Len(u) = Len(t) + 1 /\ u[1] = e
      /\ \A k \in 1 .. Len(t) : u[k + 1] = t[k]
  BY OneBefore
<1>3. Len(t) \in Nat
  OBVIOUS
<1> HIDE DEF s, u
<1>4. v \in Seq(A) /\ Len(v) = Len(s) /\ \A j \in 1 .. Len(s) : v[j] = IF j = 1 THEN e ELSE s[j]
  BY <1>1, <1>3, ExceptSeq
<1> HIDE DEF v
<1>5. \A i \in 1 .. Len(u) : u[i] = v[i]
  <2> TAKE i \in 1 .. Len(u)
  <2>1. CASE i = 1
    BY <1>1, <1>2, <1>3, <1>4, <2>1
  <2>2. CASE i # 1
    <3>1. i - 1 \in 1 .. Len(t) /\ (i - 1) + 1 = i /\ i \in 1 .. Len(s)
      BY <1>1, <1>2, <1>3, <2>2
    <3>2. u[(i - 1) + 1] = s[(i - 1) + 1]
      BY <1>1, <1>2, <3>1
    <3> QED
      BY <1>4, <2>2, <3>1, <3>2
  <2> QED
    BY <2>1, <2>2
<1>6. u = v
  BY <1>1, <1>2, <1>4, <1>5, SeqEqual
<1> QED
  BY <1>6 DEF s, u, v

\* Induction, over the sequences: one element more at the front.
LEMMA SequenceInduction ==
    ASSUME NEW A, NEW S, <<>> \in S, \A x \in A, t \in Seq(A) : t \in S => Cons(x, t) \in S
    PROVE  Seq(A) \subseteq S
<1> DEFINE T == {n \in Nat : \A t \in Seq(A) : Len(t) = n => t \in S}
<1>1. 0 \in T
  <2>1. \A t \in Seq(A) : Len(t) = 0 => t = <<>>
    BY EmptySeq
  <2> QED
    BY <2>1
<1>2. ASSUME NEW n \in Nat, n \in T PROVE n + 1 \in T
  <2> SUFFICES ASSUME NEW t \in Seq(A), Len(t) = n + 1 PROVE t \in S
    OBVIOUS
  <2>1. t # <<>>
    OBVIOUS
  <2>2. t[1] \in A /\ Tail(t) \in Seq(A) /\ Len(Tail(t)) = n /\ t = Cons(t[1], Tail(t))
    BY <2>1, FirstAndRest
  <2>3. Cons(t[1], Tail(t)) \in S
    BY <1>2, <2>2
  <2> QED
    BY <2>2, <2>3
<1> HIDE DEF T
<1>3. Nat \subseteq T
  BY <1>1, <1>2, Upward
<1> QED
  BY <1>3 DEF T

\* The texts over some symbols, lists of them, and what a text may be split into:
\* a list that is not empty.
Text(A) == Seq(A)
List(A) == Seq(Text(A))
Pieces(A) == List(A) \ {<<>>}

\* What there is to texts: none, one symbol more, one after another.
LEMMA NoText == ASSUME NEW A PROVE <<>> \in Text(A) /\ <<>> \in List(A)
  BY DEF Text, List

\* One symbol more.
LEMMA LongerText ==
    ASSUME NEW A, NEW x \in A, NEW t \in Text(A)
    PROVE  Cons(x, t) \in Text(A) /\ Cons(x, t) # <<>>
  BY OneBefore DEF Text

\* One text after another.
LEMMA TextAfterText ==
    ASSUME NEW A, NEW t \in Text(A), NEW r \in Text(A)
    PROVE  t \o r \in Text(A) /\ <<>> \o r = r /\ r \o <<>> = r
  BY ConcatProperties, ConcatEmptySeq DEF Text

\* A symbol put before the first of two texts is before both.
LEMMA ConsConcat ==
    ASSUME NEW A, NEW x \in A, NEW t \in Text(A), NEW r \in Text(A)
    PROVE  Cons(x, t) \o r = Cons(x, t \o r)
  BY ConcatAssociative DEF Cons, Text

\* Three texts, put together in either order.
LEMMA ConcatConcat ==
    ASSUME NEW A, NEW s \in Text(A), NEW t \in Text(A), NEW r \in Text(A)
    PROVE  (s \o t) \o r = s \o (t \o r)
  BY ConcatAssociative DEF Text

PutTogether(A) == \A s \in Text(A), t \in Text(A), r \in Text(A) : (s \o t) \o r = s \o (t \o r)

\* The same of all texts at once.
LEMMA ThreeTogether ==
    ASSUME NEW A
    PROVE  PutTogether(A)
  BY ConcatConcat DEF PutTogether

PutBefore(A) == \A y \in A, a \in Text(A), b \in Text(A) : Cons(y, a) \o b = Cons(y, a \o b)

\* An element put before a text, before another text is put after it.
LEMMA OneBeforeBoth ==
    ASSUME NEW A
    PROVE  PutBefore(A)
  BY ConsConcat DEF PutBefore

\* Induction, over the texts.
LEMMA TextInduction ==
    ASSUME NEW A, NEW S, <<>> \in S, \A x \in A, t \in Text(A) : t \in S => Cons(x, t) \in S
    PROVE  Text(A) \subseteq S
  BY SequenceInduction DEF Text

\* A list of pieces: the first one, and the others.
LEMMA PiecesAre ==
    ASSUME NEW A
    PROVE  /\ \A h \in Text(A), q \in List(A) : Cons(h, q) \in Pieces(A)
           /\ \A p \in Pieces(A) : \E h \in Text(A), q \in List(A) : p = Cons(h, q)
<1>1. ASSUME NEW h \in Text(A), NEW q \in List(A) PROVE Cons(h, q) \in Pieces(A)
  BY OneBefore DEF Pieces, List
<1>2. ASSUME NEW p \in Pieces(A) PROVE \E h \in Text(A), q \in List(A) : p = Cons(h, q)
  <2>1. p \in List(A) /\ p # <<>>
    BY DEF Pieces
  <2>2. p[1] \in Text(A) /\ Tail(p) \in List(A) /\ p = Cons(p[1], Tail(p))
    BY <2>1, FirstAndRest DEF List
  <2> QED
    BY <2>2
<1> QED
  BY <1>1, <1>2

\* One more symbol before the first piece.
LEMMA BegunIs ==
    ASSUME NEW A, NEW x \in A, NEW h \in Text(A), NEW q \in List(A)
    PROVE  Begun(x, Cons(h, q)) = Cons(Cons(x, h), q)
<1> DEFINE e == Cons(x, h)
           p == Cons(h, q)
<1>1. e \in Text(A) /\ p[1] = h
  BY OneBefore DEF Text, List
<1>2. [p EXCEPT ![1] = e] = Cons(e, q)
  <2> HIDE DEF e
  <2> QED
    BY <1>1, FirstChanged DEF List
<1>3. Begun(x, p) = [p EXCEPT ![1] = e]
  <2> HIDE DEF p
  <2> QED
    BY <1>1 DEF Begun, Cons
<1> QED
  BY <1>2, <1>3

\* A symbol put into the first piece leaves a list of pieces.
LEMMA BegunType ==
    ASSUME NEW A, NEW x \in A, NEW p \in Pieces(A)
    PROVE  Begun(x, p) \in Pieces(A)
<1>1. PICK h \in Text(A), q \in List(A) : p = Cons(h, q)
  BY PiecesAre
<1>2. Cons(x, h) \in Text(A)
  BY LongerText
<1> QED
  BY <1>1, <1>2, BegunIs, PiecesAre

\* A new, empty piece before the others.
LEMMA OneMore ==
    ASSUME NEW A, NEW p \in Pieces(A)
    PROVE  Cons(<<>>, p) \in Pieces(A)
  BY NoText, PiecesAre DEF Pieces

\* The step of the recursion of Split.
SplitStep(s, c, f, k) ==
    CASE k > Len(s) -> << <<>> >>
      [] k <= Len(s) /\ s[k] = c -> Cons(<<>>, f[k + 1])
      [] OTHER -> Begun(s[k], f[k + 1])

\* The step makes pieces of pieces.
LEMMA SplitStepType ==
    ASSUME NEW A, NEW s \in Text(A), NEW c, NEW f, NEW k \in 1 .. Len(s) + 1,
           k <= Len(s) => f[k + 1] \in Pieces(A)
    PROVE  SplitStep(s, c, f, k) \in Pieces(A)
<1>1. CASE k > Len(s)
  <2>1. << <<>> >> \in Pieces(A)
    BY DEF Pieces, List, Text
  <2> QED
    BY <1>1, <2>1 DEF SplitStep
<1>2. CASE k <= Len(s)
  <2>1. f[k + 1] \in Pieces(A) /\ s[k] \in A /\ ~(k > Len(s))
    BY <1>2 DEF Text
  <2> QED
    BY <2>1, <1>2, OneMore, BegunType DEF SplitStep
<1> QED
  BY <1>1, <1>2

\* f is the function of the recursion: what is left at each place, in pieces.
SplitsAs(f, s, c, A) ==
    /\ f \in [1 .. Len(s) + 1 -> Pieces(A)]
    /\ \A k \in 1 .. Len(s) + 1 : f[k] = SplitStep(s, c, f, k)
    /\ Split(s, c) = f[1]

\* There is a function as Split's recursion asks for, and it is of pieces.
LEMMA SplitRecursion ==
    ASSUME NEW A, NEW s \in Text(A), NEW c
    PROVE  \E f : SplitsAs(f, s, c, A)
<1> DEFINE n == Len(s) + 1
           X == Pieces(A)
           F == [f \in [1 .. n -> X] |-> [k \in 1 .. n |-> SplitStep(s, c, f, k)]]
<1>1. n \in Nat /\ Len(s) \in Nat
  BY DEF Text
<1>2. F \in [[1 .. n -> X] -> [1 .. n -> X]]
  <2>1. \A f \in [1 .. n -> X], k \in 1 .. n : SplitStep(s, c, f, k) \in X
    BY SplitStepType
  <2> HIDE DEF X
  <2> QED
    BY <2>1
<1>3. << <<>> >> \in X
  BY DEF Pieces, List, Text
<1>4. \A f, g \in [1 .. n -> X], k \in 1 .. n :
          (\A j \in 1 .. n : k < j => f[j] = g[j]) => F[f][k] = F[g][k]
  BY DEF SplitStep
<1>5. \E f \in [1 .. n -> X] : f = F[f]
  <2> HIDE DEF n, X, F
  <2>1. LooksAhead(F, n, X)
    BY <1>2, <1>4 DEF LooksAhead
  <2> QED
    BY <1>1, <1>3, <2>1, RecursionFromTheEnd
<1> DEFINE Is(f) == f = [k \in 1 .. n |-> SplitStep(s, c, f, k)]
           from == CHOOSE f : Is(f)
<1>6. \E f : Is(f)
  BY <1>5
<1>7. Is(from)
  <2> HIDE DEF Is
  <2> QED
    BY <1>6
<1>8. Split(s, c) = from[1]
  BY Zenon DEF Split, SplitStep, Cons
<1> HIDE DEF from
<1>9. \A k \in 1 .. n : from[k] \in X
  <2> DEFINE T == {i \in 1 .. n : from[i] \in X}
  <2>1. ASSUME NEW k \in 1 .. n, \A j \in 1 .. n : k < j => j \in T PROVE k \in T
    <3>1. k <= Len(s) => k + 1 \in 1 .. n /\ k < k + 1
      OBVIOUS
    <3>2. k <= Len(s) => from[k + 1] \in Pieces(A)
      BY <2>1, <3>1
    <3>3. SplitStep(s, c, from, k) \in X
      BY <3>2, SplitStepType
    <3> QED
      BY <1>7, <3>3
  <2> HIDE DEF T, n
  <2>2. 1 .. n \subseteq T
    BY <1>1, <2>1, FromTheEnd
  <2> QED
    BY <2>2 DEF T
<1>10. from \in [1 .. n -> X] /\ \A k \in 1 .. n : from[k] = SplitStep(s, c, from, k)
  BY <1>7, <1>9
<1> QED
  BY <1>8, <1>10 DEF SplitsAs

\* Split, symbol by symbol.
LEMMA SplitNothing ==
    ASSUME NEW c
    PROVE  Split(<<>>, c) = << <<>> >>
<1>1. <<>> \in Text({}) /\ Len(<<>>) = 0
  BY NoText
<1>2. PICK f : SplitsAs(f, <<>>, c, {})
  BY <1>1, SplitRecursion
<1>3. f[1] = SplitStep(<<>>, c, f, 1) /\ Split(<<>>, c) = f[1]
  BY <1>1, <1>2 DEF SplitsAs
<1> QED
  BY <1>1, <1>2, <1>3 DEF SplitStep

\* Split of one symbol more: a mark begins a new piece, any other symbol goes
\* into the first one.
LEMMA SplitNext ==
    ASSUME NEW A, NEW x \in A, NEW t \in Text(A), NEW c
    PROVE  /\ Split(t, c) \in Pieces(A)
           /\ Split(Cons(x, t), c) = IF x = c THEN Cons(<<>>, Split(t, c)) ELSE Begun(x, Split(t, c))
<1> DEFINE s == Cons(x, t)
           n == Len(t) + 1
<1>1. s \in Text(A) /\ Len(s) = n /\ s[1] = x /\ \A k \in 1 .. Len(t) : s[k + 1] = t[k]
  BY OneBefore DEF Text
<1> HIDE DEF s
<1>a. PICK g : SplitsAs(g, s, c, A)
  BY <1>1, SplitRecursion
<1>b. PICK h : SplitsAs(h, t, c, A)
  BY SplitRecursion
<1>2. /\ g \in [1 .. Len(s) + 1 -> Pieces(A)]
      /\ \A k \in 1 .. Len(s) + 1 : g[k] = SplitStep(s, c, g, k)
      /\ Split(s, c) = g[1]
  BY <1>a DEF SplitsAs
<1>3. /\ h \in [1 .. Len(t) + 1 -> Pieces(A)]
      /\ \A k \in 1 .. Len(t) + 1 : h[k] = SplitStep(t, c, h, k)
      /\ Split(t, c) = h[1]
  BY <1>b DEF SplitsAs
<1> DEFINE Same == {k \in 1 .. n : g[k + 1] = h[k]}
<1>4. n \in Nat /\ 1 \in 1 .. n /\ Len(t) \in Nat
  BY DEF Text
<1>5. ASSUME NEW k \in 1 .. n, \A j \in 1 .. n : k < j => j \in Same PROVE k \in Same
  <2>1. /\ h[k] = SplitStep(t, c, h, k) /\ g[k + 1] = SplitStep(s, c, g, k + 1)
        /\ k + 1 \in 1 .. Len(s) + 1 /\ (k > Len(t) <=> k + 1 > Len(s))
    BY <1>1, <1>2, <1>3, <1>4
  <2>2. CASE k > Len(t)
    BY <1>1, <2>1, <2>2 DEF SplitStep
  <2>3. CASE ~(k > Len(t))
    <3>1. k \in 1 .. Len(t) /\ k + 1 \in 1 .. Len(s) /\ k + 1 \in 1 .. n /\ s[k + 1] = t[k]
      BY <1>1, <1>4, <2>3
    <3>2. g[k + 1 + 1] = h[k + 1]
      BY <1>5, <3>1
    <3>3. SplitStep(t, c, h, k) = IF t[k] = c THEN Cons(<<>>, h[k + 1]) ELSE Begun(t[k], h[k + 1])
      BY <3>1, <1>4 DEF SplitStep
    <3>4. SplitStep(s, c, g, k + 1) =
              IF s[k + 1] = c THEN Cons(<<>>, g[k + 1 + 1]) ELSE Begun(s[k + 1], g[k + 1 + 1])
      BY <3>1, <1>1, <1>4 DEF SplitStep
    <3> QED
      BY <2>1, <3>1, <3>2, <3>3, <3>4
  <2> QED
    BY <2>2, <2>3
<1> HIDE DEF Same, n
<1>7. 1 \in Same
  <2>1. 1 .. n \subseteq Same
    BY <1>4, <1>5, FromTheEnd
  <2> QED
    BY <1>4, <2>1
<1>8. g[2] = h[1]
  BY <1>7 DEF Same
<1>9. g[1] = SplitStep(s, c, g, 1) /\ 1 <= Len(s) /\ ~(1 > Len(s))
  BY <1>1, <1>2, <1>4
<1>10. Split(s, c) = IF x = c THEN Cons(<<>>, h[1]) ELSE Begun(x, h[1])
  BY <1>1, <1>2, <1>8, <1>9 DEF SplitStep
<1>11. h[1] \in Pieces(A)
  BY <1>3, <1>4 DEF n
<1> QED
  BY <1>3, <1>10, <1>11 DEF s

\* Whether a symbol is in a text.
LEMMA ContainsNext ==
    ASSUME NEW A, NEW x \in A, NEW t \in Text(A), NEW c
    PROVE  /\ ~Contains(<<>>, c)
           /\ Contains(Cons(x, t), c) <=> x = c \/ Contains(t, c)
<1> DEFINE s == Cons(x, t)
<1>1. /\ s \in Text(A) /\ Len(s) = Len(t) + 1 /\ s[1] = x
      /\ \A k \in 1 .. Len(t) : s[k + 1] = t[k]
  BY OneBefore DEF Text
<1> HIDE DEF s
<1>2. Len(t) \in Nat
  BY DEF Text
<1>3. ASSUME Contains(s, c) PROVE x = c \/ Contains(t, c)
  <2>1. PICK i \in 1 .. Len(t) + 1 : s[i] = c
    BY <1>1, <1>3 DEF Contains
  <2>2. CASE i = 1
    BY <1>1, <2>1, <2>2
  <2>3. CASE i # 1
    <3>1. i - 1 \in 1 .. Len(t) /\ (i - 1) + 1 = i
      BY <1>2, <2>3
    <3>2. t[i - 1] = c
      BY <1>1, <2>1, <3>1
    <3> QED
      BY <3>1, <3>2 DEF Contains
  <2> QED
    BY <2>2, <2>3
<1>4. ASSUME x = c \/ Contains(t, c) PROVE Contains(s, c)
  <2>1. CASE x = c
    <3>1. 1 \in 1 .. Len(s)
      BY <1>1, <1>2
    <3> QED
      BY <1>1, <2>1, <3>1 DEF Contains
  <2>2. CASE Contains(t, c)
    <3>1. PICK k \in 1 .. Len(t) : t[k] = c
      BY <2>2 DEF Contains
    <3>2. k + 1 \in 1 .. Len(s) /\ s[k + 1] = c
      BY <1>1, <1>2, <3>1
    <3> QED
      BY <3>2 DEF Contains
  <2> QED
    BY <1>4, <2>1, <2>2
<1>5. ~Contains(<<>>, c)
  BY DEF Contains
<1> QED
  BY <1>3, <1>4, <1>5 DEF s

\* A text without the symbol goes before the first piece of what follows.
LEMMA SplitFree ==
    ASSUME NEW A, NEW t \in Text(A), NEW r \in Text(A), NEW c, ~Contains(t, c),
           NEW h \in Text(A), NEW q \in List(A), Split(r, c) = Cons(h, q)
    PROVE  Split(t \o r, c) = Cons(t \o h, q)
<1> DEFINE S == {u \in Text(A) : Contains(u, c) \/ Split(u \o r, c) = Cons(u \o h, q)}
<1>1. <<>> \in S
  <2>1. <<>> \o r = r /\ <<>> \o h = h /\ <<>> \in Text(A)
    BY NoText, TextAfterText
  <2> QED
    BY <2>1
<1>2. ASSUME NEW x \in A, NEW u \in Text(A), u \in S PROVE Cons(x, u) \in S
  <2> DEFINE s == Cons(x, u)
             v == u \o r
             w == u \o h
  <2>1. s \in Text(A) /\ (Contains(s, c) <=> x = c \/ Contains(u, c))
    BY LongerText, ContainsNext
  <2>2. v \in Text(A) /\ w \in Text(A)
    BY TextAfterText
  <2>9. Cons(x, u) \o r = Cons(x, u \o r) /\ Cons(x, u) \o h = Cons(x, u \o h)
    <3>1. PutBefore(A)
      BY OneBeforeBoth
    <3> HIDE DEF S, s, v, w
    <3> QED
      BY <3>1, Zenon DEF PutBefore
  <2>3. s \o r = Cons(x, v)
    BY <2>9, Zenon
  <2>8. s \o h = Cons(x, w)
    BY <2>9, Zenon
  <2> HIDE DEF s, v, w
  <2>4. x # c => Split(Cons(x, v), c) = Begun(x, Split(v, c))
    BY <2>2, SplitNext
  <2>5. Begun(x, Cons(w, q)) = Cons(Cons(x, w), q)
    BY <2>2, BegunIs
  <2>6. Contains(u, c) \/ Split(v, c) = Cons(w, q)
    BY <1>2 DEF v, w
  <2>7. Contains(s, c) \/ Split(s \o r, c) = Cons(s \o h, q)
    BY <2>1, <2>3, <2>4, <2>5, <2>6, <2>8, Zenon
  <2> QED
    BY <2>1, <2>7 DEF s
<1> HIDE DEF S
<1>3. Text(A) \subseteq S
  BY <1>1, <1>2, TextInduction
<1> QED
  BY <1>3 DEF S

\* The first piece, and the rest.
LEMMA SplitOff ==
    ASSUME NEW A, NEW t \in Text(A), NEW r \in Text(A), NEW c \in A, ~Contains(t, c)
    PROVE  /\ Split(t, c) = <<t>>
           /\ Split(t \o (Cons(c, r)), c) = Cons(t, Split(r, c))
<1> DEFINE e == <<>>
           u == Cons(c, r)
           p == Split(r, c)
<1>1. e \in Text(A) /\ e \in List(A) /\ u \in Text(A)
  BY NoText, LongerText
<1>7. t \o e = t /\ Cons(t, e) = <<t>>
  BY TextAfterText DEF Cons
<1>2. Split(e, c) = Cons(e, e)
  BY SplitNothing DEF Cons
<1>3. p \in List(A) /\ Split(u, c) = Cons(e, p)
  BY SplitNext DEF Pieces
<1> HIDE DEF e, u, p
<1>4. Split(t \o e, c) = Cons(t \o e, e)
  BY <1>1, <1>2, SplitFree
<1>5. Split(t \o u, c) = Cons(t \o e, p)
  BY <1>1, <1>3, SplitFree
<1>6. Split(t, c) = <<t>> /\ Split(t \o u, c) = Cons(t, p)
  BY <1>7, <1>4, <1>5, Zenon
<1> QED
  BY <1>6 DEF u, p

-----------------------------------------------------------------------------
(* The fields of a text, as parseWifi() takes it apart.                    *)

\* The step of the recursion of FieldPieces, with names for the two symbols that mean
\* something.
FieldStep(esc, sep, s, f, k) ==
    CASE k > Len(s) -> << <<>> >>
      [] k < Len(s) /\ s[k] = esc -> Begun(s[k + 1], f[k + 2])
      [] k <= Len(s) /\ s[k] = sep -> Cons(<<>>, f[k + 1])
      [] OTHER -> Begun(s[k], f[k + 1])

\* The step makes fields of fields.
LEMMA FieldStepType ==
    ASSUME NEW esc, NEW sep, sep # esc, NEW A, NEW s \in Text(A), NEW f, NEW k \in 1 .. Len(s) + 1,
           k <= Len(s) => f[k + 1] \in Pieces(A), k < Len(s) => f[k + 2] \in Pieces(A)
    PROVE  FieldStep(esc, sep, s, f, k) \in Pieces(A)
<1>0. Len(s) \in Nat
  BY DEF Text
<1>1. CASE k > Len(s)
  <2>1. << <<>> >> \in Pieces(A)
    BY DEF Pieces, List, Text
  <2> QED
    BY <1>0, <1>1, <2>1 DEF FieldStep
<1>2. CASE k <= Len(s) /\ k < Len(s) /\ s[k] = esc
  <2>1. f[k + 2] \in Pieces(A) /\ s[k + 1] \in A /\ ~(k > Len(s)) /\ s[k] # sep
    BY <1>0, <1>2 DEF Text
  <2>2. Begun(s[k + 1], f[k + 2]) \in Pieces(A)
    BY <2>1, BegunType
  <2> QED
    BY <2>1, <2>2, <1>2 DEF FieldStep
<1>3. CASE k <= Len(s) /\ s[k] = sep
  <2>1. f[k + 1] \in Pieces(A) /\ ~(k > Len(s)) /\ s[k] # esc
    BY <1>0, <1>3
  <2> QED
    BY <2>1, <1>3, OneMore DEF FieldStep
<1>4. CASE k <= Len(s) /\ s[k] # sep /\ ~(k < Len(s) /\ s[k] = esc)
  <2>1. f[k + 1] \in Pieces(A) /\ s[k] \in A /\ ~(k > Len(s))
    BY <1>0, <1>4 DEF Text
  <2> QED
    BY <2>1, <1>4, BegunType DEF FieldStep
<1> QED
  BY <1>0, <1>1, <1>2, <1>3, <1>4

FieldsBy(esc, sep, s) ==
    LET from == CHOOSE f : f = [k \in 1 .. Len(s) + 1 |-> FieldStep(esc, sep, s, f, k)]
    IN from[1]

\* FieldPieces is that recursion, with its two symbols.
LEMMA FieldPiecesAre ==
    ASSUME NEW s
    PROVE  FieldPieces(s) = FieldsBy("\\", ";", s)
  BY Zenon DEF FieldPieces, FieldsBy, FieldStep, Cons

\* f is the function of that recursion: the fields of what is left at each place.
FieldsAs(esc, sep, f, s, A) ==
    /\ f \in [1 .. Len(s) + 1 -> Pieces(A)]
    /\ \A k \in 1 .. Len(s) + 1 : f[k] = FieldStep(esc, sep, s, f, k)
    /\ FieldsBy(esc, sep, s) = f[1]

\* There is a function as the recursion asks for, and it is of fields.
LEMMA FieldRecursion ==
    ASSUME NEW esc, NEW sep, sep # esc, NEW A, NEW s \in Text(A)
    PROVE  \E f : FieldsAs(esc, sep, f, s, A)
<1> DEFINE n == Len(s) + 1
           X == Pieces(A)
           F == [f \in [1 .. n -> X] |-> [k \in 1 .. n |-> FieldStep(esc, sep, s, f, k)]]
<1>1. n \in Nat /\ Len(s) \in Nat
  BY DEF Text
<1>2. F \in [[1 .. n -> X] -> [1 .. n -> X]]
  <2>1. \A f \in [1 .. n -> X], k \in 1 .. n : FieldStep(esc, sep, s, f, k) \in X
    <3> TAKE f \in [1 .. n -> X], k \in 1 .. n
    <3>1. (k <= Len(s) => f[k + 1] \in Pieces(A)) /\ (k < Len(s) => f[k + 2] \in Pieces(A))
      BY <1>1
    <3> QED
      BY <3>1, FieldStepType
  <2> HIDE DEF X
  <2> QED
    BY <2>1
<1>3. << <<>> >> \in X
  BY DEF Pieces, List, Text
<1>4. \A f, g \in [1 .. n -> X], k \in 1 .. n :
          (\A j \in 1 .. n : k < j => f[j] = g[j]) => F[f][k] = F[g][k]
  <2> TAKE f, g \in [1 .. n -> X], k \in 1 .. n
  <2> HAVE \A j \in 1 .. n : k < j => f[j] = g[j]
  <2>1. (k <= Len(s) => f[k + 1] = g[k + 1]) /\ (k < Len(s) => f[k + 2] = g[k + 2])
    BY <1>1
  <2>2. FieldStep(esc, sep, s, f, k) = FieldStep(esc, sep, s, g, k)
    <3>1. CASE k > Len(s)
      BY <1>1, <3>1 DEF FieldStep
    <3>2. CASE ~(k > Len(s))
      BY <1>1, <2>1, <3>2 DEF FieldStep
    <3> QED
      BY <3>1, <3>2
  <2> QED
    BY <2>2
<1>5. \E f \in [1 .. n -> X] : f = F[f]
  <2> HIDE DEF n, X, F
  <2>1. LooksAhead(F, n, X)
    BY <1>2, <1>4 DEF LooksAhead
  <2> QED
    BY <1>1, <1>3, <2>1, RecursionFromTheEnd
<1> DEFINE Is(f) == f = [k \in 1 .. n |-> FieldStep(esc, sep, s, f, k)]
           from == CHOOSE f : Is(f)
<1>6. \E f : Is(f)
  BY <1>5
<1>7. Is(from)
  <2> HIDE DEF Is
  <2> QED
    BY <1>6
<1>8. FieldsBy(esc, sep, s) = from[1]
  BY DEF FieldsBy
<1> HIDE DEF from
<1>9. \A k \in 1 .. n : from[k] \in X
  <2> DEFINE T == {i \in 1 .. n : from[i] \in X}
  <2>1. ASSUME NEW k \in 1 .. n, \A j \in 1 .. n : k < j => j \in T PROVE k \in T
    <3>1. /\ k <= Len(s) => k + 1 \in 1 .. n /\ k < k + 1
          /\ k < Len(s) => k + 2 \in 1 .. n /\ k < k + 2
      BY <1>1
    <3>2. (k <= Len(s) => from[k + 1] \in Pieces(A)) /\ (k < Len(s) => from[k + 2] \in Pieces(A))
      BY <2>1, <3>1
    <3>3. FieldStep(esc, sep, s, from, k) \in X
      BY <3>2, FieldStepType
    <3> QED
      BY <1>7, <3>3
  <2> HIDE DEF T, n
  <2>2. 1 .. n \subseteq T
    BY <1>1, <2>1, FromTheEnd
  <2> QED
    BY <2>2 DEF T
<1>10. from \in [1 .. n -> X] /\ \A k \in 1 .. n : from[k] = FieldStep(esc, sep, s, from, k)
  BY <1>7, <1>9
<1> QED
  BY <1>8, <1>10 DEF FieldsAs

\* With one more symbol in front, the same is left one place further on.
LEMMA FieldsFurtherOn ==
    ASSUME NEW esc, NEW sep, sep # esc, NEW A, NEW x \in A, NEW t \in Text(A), NEW g, NEW h,
           FieldsAs(esc, sep, g, Cons(x, t), A), FieldsAs(esc, sep, h, t, A)
    PROVE  \A k \in 1 .. Len(t) + 1 : g[k + 1] = h[k]
<1> DEFINE s == Cons(x, t)
           n == Len(t) + 1
<1>1. s \in Text(A) /\ Len(s) = n /\ s[1] = x /\ \A k \in 1 .. Len(t) : s[k + 1] = t[k]
  BY OneBefore DEF Text
<1>2. \A k \in 1 .. Len(s) + 1 : g[k] = FieldStep(esc, sep, s, g, k)
  BY DEF FieldsAs
<1>3. \A k \in 1 .. Len(t) + 1 : h[k] = FieldStep(esc, sep, t, h, k)
  BY DEF FieldsAs
<1> HIDE DEF s
<1> DEFINE Same == {k \in 1 .. n : g[k + 1] = h[k]}
<1>4. n \in Nat /\ Len(t) \in Nat
  BY DEF Text
<1>5. ASSUME NEW k \in 1 .. n, \A j \in 1 .. n : k < j => j \in Same PROVE k \in Same
  <2>1. /\ h[k] = FieldStep(esc, sep, t, h, k) /\ g[k + 1] = FieldStep(esc, sep, s, g, k + 1)
        /\ k + 1 \in 1 .. Len(s) + 1 /\ (k > Len(t) <=> k + 1 > Len(s))
        /\ (k < Len(t) <=> k + 1 < Len(s)) /\ (k <= Len(t) <=> k + 1 <= Len(s))
    BY <1>1, <1>2, <1>3, <1>4
  <2>2. CASE k > Len(t)
    <3>1. FieldStep(esc, sep, t, h, k) = << <<>> >>
      BY <1>4, <2>2 DEF FieldStep
    <3>2. FieldStep(esc, sep, s, g, k + 1) = << <<>> >>
      BY <1>1, <1>4, <2>1, <2>2 DEF FieldStep
    <3> QED
      BY <2>1, <3>1, <3>2
  <2>3. CASE ~(k > Len(t))
    <3>1. k \in 1 .. Len(t) /\ k + 1 \in 1 .. Len(s) /\ k + 1 \in 1 .. n /\ s[k + 1] = t[k]
      BY <1>1, <1>4, <2>3
    <3>2. g[k + 1 + 1] = h[k + 1]
      BY <1>5, <3>1
    <3>3. k < Len(t) => g[k + 1 + 2] = h[k + 2] /\ s[k + 1 + 1] = t[k + 1]
      <4> SUFFICES ASSUME k < Len(t) PROVE g[k + 1 + 2] = h[k + 2] /\ s[k + 1 + 1] = t[k + 1]
        OBVIOUS
      <4>1. k + 2 \in 1 .. n /\ k < k + 2 /\ k + 1 \in 1 .. Len(t) /\ (k + 2) + 1 = k + 1 + 2
        BY <1>4
      <4> QED
        BY <1>1, <1>5, <4>1
    <3>4. FieldStep(esc, sep, t, h, k) =
              IF k < Len(t) /\ t[k] = esc THEN Begun(t[k + 1], h[k + 2])
              ELSE IF t[k] = sep THEN Cons(<<>>, h[k + 1]) ELSE Begun(t[k], h[k + 1])
      BY <3>1, <1>4 DEF FieldStep
    <3>5. FieldStep(esc, sep, s, g, k + 1) =
              IF k + 1 < Len(s) /\ s[k + 1] = esc THEN Begun(s[k + 1 + 1], g[k + 1 + 2])
              ELSE IF s[k + 1] = sep THEN Cons(<<>>, g[k + 1 + 1]) ELSE Begun(s[k + 1], g[k + 1 + 1])
      BY <3>1, <1>1, <1>4 DEF FieldStep
    <3>6. FieldStep(esc, sep, s, g, k + 1) = FieldStep(esc, sep, t, h, k)
      BY <2>1, <3>1, <3>2, <3>3, <3>4, <3>5
    <3> QED
      BY <2>1, <3>6
  <2> QED
    BY <2>2, <2>3
<1> HIDE DEF Same, n
<1>6. 1 .. n \subseteq Same
  BY <1>4, <1>5, FromTheEnd
<1> QED
  BY <1>6 DEF Same, n

\* FieldPieces, symbol by symbol.
LEMMA FieldsOfNothing ==
    ASSUME NEW esc, NEW sep, sep # esc
    PROVE  FieldsBy(esc, sep, <<>>) = << <<>> >>
<1>1. <<>> \in Text({}) /\ Len(<<>>) = 0
  BY NoText
<1>2. PICK f : FieldsAs(esc, sep, f, <<>>, {})
  BY <1>1, FieldRecursion
<1>3. f[1] = FieldStep(esc, sep, <<>>, f, 1) /\ FieldsBy(esc, sep, <<>>) = f[1]
  BY <1>1, <1>2 DEF FieldsAs
<1> QED
  BY <1>1, <1>3 DEF FieldStep

\* A text has fields, at least one.
LEMMA FieldsType ==
    ASSUME NEW esc, NEW sep, sep # esc, NEW A, NEW t \in Text(A)
    PROVE  FieldsBy(esc, sep, t) \in Pieces(A)
<1>1. PICK f : FieldsAs(esc, sep, f, t, A)
  BY FieldRecursion
<1>2. 1 \in 1 .. Len(t) + 1
  BY DEF Text
<1> QED
  BY <1>1, <1>2 DEF FieldsAs

\* A mark begins a new field, any other symbol that does not escape goes into
\* the first one.
LEMMA FieldsNext ==
    ASSUME NEW esc, NEW sep, sep # esc, NEW A, NEW x \in A, NEW t \in Text(A), x # esc
    PROVE  FieldsBy(esc, sep, Cons(x, t)) =
               IF x = sep THEN Cons(<<>>, FieldsBy(esc, sep, t)) ELSE Begun(x, FieldsBy(esc, sep, t))
<1> DEFINE s == Cons(x, t)
<1>1. s \in Text(A) /\ Len(s) = Len(t) + 1 /\ s[1] = x /\ Len(t) \in Nat
  BY OneBefore DEF Text
<1>2. PICK g : FieldsAs(esc, sep, g, s, A)
  BY <1>1, FieldRecursion
<1>3. PICK h : FieldsAs(esc, sep, h, t, A)
  BY FieldRecursion
<1>4. g[2] = h[1]
  <2>1. \A k \in 1 .. Len(t) + 1 : g[k + 1] = h[k]
    BY <1>2, <1>3, FieldsFurtherOn
  <2> QED
    BY <1>1, <2>1
<1> HIDE DEF s
<1>5. FieldsBy(esc, sep, s) = FieldStep(esc, sep, s, g, 1) /\ FieldsBy(esc, sep, t) = h[1]
  BY <1>1, <1>2, <1>3 DEF FieldsAs
<1>6. FieldStep(esc, sep, s, g, 1) = IF x = sep THEN Cons(<<>>, g[2]) ELSE Begun(x, g[2])
  BY <1>1 DEF FieldStep
<1> QED
  BY <1>4, <1>5, <1>6 DEF s

\* An escaped symbol goes into the first field, whatever it is.
LEMMA FieldsEscape ==
    ASSUME NEW A, NEW esc \in A, NEW sep, sep # esc, NEW x \in A, NEW t \in Text(A)
    PROVE  FieldsBy(esc, sep, Cons(esc, Cons(x, t))) = Begun(x, FieldsBy(esc, sep, t))
<1>1. PICK u \in Text(A) : u = Cons(x, t) /\ Len(u) = Len(t) + 1 /\ u[1] = x /\ Len(t) \in Nat
  BY OneBefore DEF Text
<1>2. PICK s \in Text(A) : /\ s = Cons(esc, u) /\ Len(s) = Len(u) + 1 /\ s[1] = esc
                           /\ \A k \in 1 .. Len(u) : s[k + 1] = u[k]
  BY OneBefore DEF Text
<1>10. s[2] = x
  <2>1. s[1 + 1] = u[1]
    BY <1>1, <1>2
  <2> QED
    BY <1>1, <2>1
<1>3. PICK g : FieldsAs(esc, sep, g, s, A)
  BY <1>2, FieldRecursion
<1>4. PICK f : FieldsAs(esc, sep, f, u, A)
  BY <1>1, FieldRecursion
<1>5. PICK h : FieldsAs(esc, sep, h, t, A)
  BY FieldRecursion
<1>6. g[3] = f[2]
  <2>1. \A k \in 1 .. Len(u) + 1 : g[k + 1] = f[k]
    BY <1>2, <1>3, <1>4, FieldsFurtherOn
  <2>2. g[2 + 1] = f[2]
    BY <1>1, <2>1
  <2> QED
    BY <2>2
<1>7. f[2] = h[1]
  <2>1. \A k \in 1 .. Len(t) + 1 : f[k + 1] = h[k]
    BY <1>1, <1>4, <1>5, FieldsFurtherOn
  <2> QED
    BY <1>1, <2>1
<1>8. FieldsBy(esc, sep, s) = FieldStep(esc, sep, s, g, 1) /\ FieldsBy(esc, sep, t) = h[1]
  BY <1>1, <1>2, <1>3, <1>5 DEF FieldsAs
<1>9. FieldStep(esc, sep, s, g, 1) = Begun(x, g[3])
  BY <1>1, <1>2, <1>10 DEF FieldStep
<1> QED
  BY <1>1, <1>2, <1>6, <1>7, <1>8, <1>9

-----------------------------------------------------------------------------
(* Unescaping.                                                             *)

\* The step of the recursion of UnescapeVCard, with names for the symbol that
\* escapes and those it escapes.
UnescapeStep(esc, specials, s, f, k) ==
    CASE k > Len(s) -> <<>>
      [] k < Len(s) /\ s[k] = esc /\ s[k + 1] \in specials -> Cons(s[k + 1], f[k + 2])
      [] OTHER -> Cons(s[k], f[k + 1])

\* The step makes texts of texts.
LEMMA UnescapeStepType ==
    ASSUME NEW esc, NEW specials, NEW A, NEW s \in Text(A), NEW f, NEW k \in 1 .. Len(s) + 1,
           k <= Len(s) => f[k + 1] \in Text(A), k < Len(s) => f[k + 2] \in Text(A)
    PROVE  UnescapeStep(esc, specials, s, f, k) \in Text(A)
<1>0. Len(s) \in Nat
  BY DEF Text
<1>1. CASE k > Len(s)
  BY <1>0, <1>1, NoText DEF UnescapeStep
<1>2. CASE k <= Len(s) /\ k < Len(s) /\ s[k] = esc /\ s[k + 1] \in specials
  <2>1. f[k + 2] \in Text(A) /\ s[k + 1] \in A /\ ~(k > Len(s))
    BY <1>0, <1>2 DEF Text
  <2>2. Cons(s[k + 1], f[k + 2]) \in Text(A)
    BY <2>1, LongerText
  <2> QED
    BY <2>1, <2>2, <1>2 DEF UnescapeStep
<1>3. CASE k <= Len(s) /\ ~(k < Len(s) /\ s[k] = esc /\ s[k + 1] \in specials)
  <2>1. f[k + 1] \in Text(A) /\ s[k] \in A /\ ~(k > Len(s))
    BY <1>0, <1>3 DEF Text
  <2>2. Cons(s[k], f[k + 1]) \in Text(A)
    BY <2>1, LongerText
  <2> QED
    BY <2>1, <2>2, <1>3 DEF UnescapeStep
<1> QED
  BY <1>0, <1>1, <1>2, <1>3

Unescape(esc, specials, s) ==
    LET from == CHOOSE f : f = [k \in 1 .. Len(s) + 1 |-> UnescapeStep(esc, specials, s, f, k)]
    IN from[1]

\* UnescapeVCard is that recursion, with its symbols.
LEMMA UnescapeVCardIs ==
    ASSUME NEW s
    PROVE  UnescapeVCard(s) = Unescape("\\", {";", ",", "\\"}, s)
  BY Zenon DEF UnescapeVCard, Unescape, UnescapeStep, Cons

\* f is the function of that recursion: what is left at each place,
\* unescaped.
UnescapesAs(esc, specials, f, s, A) ==
    /\ f \in [1 .. Len(s) + 1 -> Text(A)]
    /\ \A k \in 1 .. Len(s) + 1 : f[k] = UnescapeStep(esc, specials, s, f, k)
    /\ Unescape(esc, specials, s) = f[1]

\* There is a function as the recursion asks for, and it is of texts.
LEMMA UnescapeRecursion ==
    ASSUME NEW esc, NEW specials, NEW A, NEW s \in Text(A)
    PROVE  \E f : UnescapesAs(esc, specials, f, s, A)
<1> DEFINE n == Len(s) + 1
           X == Text(A)
           F == [f \in [1 .. n -> X] |-> [k \in 1 .. n |-> UnescapeStep(esc, specials, s, f, k)]]
<1>1. n \in Nat /\ Len(s) \in Nat
  BY DEF Text
<1>2. F \in [[1 .. n -> X] -> [1 .. n -> X]]
  <2>1. \A f \in [1 .. n -> X], k \in 1 .. n : UnescapeStep(esc, specials, s, f, k) \in X
    <3> TAKE f \in [1 .. n -> X], k \in 1 .. n
    <3>1. (k <= Len(s) => f[k + 1] \in Text(A)) /\ (k < Len(s) => f[k + 2] \in Text(A))
      BY <1>1
    <3> QED
      BY <3>1, UnescapeStepType
  <2> HIDE DEF X
  <2> QED
    BY <2>1
<1>3. <<>> \in X
  BY NoText
<1>4. \A f, g \in [1 .. n -> X], k \in 1 .. n :
          (\A j \in 1 .. n : k < j => f[j] = g[j]) => F[f][k] = F[g][k]
  <2> TAKE f, g \in [1 .. n -> X], k \in 1 .. n
  <2> HAVE \A j \in 1 .. n : k < j => f[j] = g[j]
  <2>1. (k <= Len(s) => f[k + 1] = g[k + 1]) /\ (k < Len(s) => f[k + 2] = g[k + 2])
    BY <1>1
  <2>2. UnescapeStep(esc, specials, s, f, k) = UnescapeStep(esc, specials, s, g, k)
    <3>1. CASE k > Len(s)
      BY <1>1, <3>1 DEF UnescapeStep
    <3>2. CASE ~(k > Len(s))
      BY <1>1, <2>1, <3>2 DEF UnescapeStep
    <3> QED
      BY <3>1, <3>2
  <2> QED
    BY <2>2
<1>5. \E f \in [1 .. n -> X] : f = F[f]
  <2> HIDE DEF n, X, F
  <2>1. LooksAhead(F, n, X)
    BY <1>2, <1>4 DEF LooksAhead
  <2> QED
    BY <1>1, <1>3, <2>1, RecursionFromTheEnd
<1> DEFINE Is(f) == f = [k \in 1 .. n |-> UnescapeStep(esc, specials, s, f, k)]
           from == CHOOSE f : Is(f)
<1>6. \E f : Is(f)
  BY <1>5
<1>7. Is(from)
  <2> HIDE DEF Is
  <2> QED
    BY <1>6
<1>8. Unescape(esc, specials, s) = from[1]
  BY DEF Unescape
<1> HIDE DEF from
<1>9. \A k \in 1 .. n : from[k] \in X
  <2> DEFINE T == {i \in 1 .. n : from[i] \in X}
  <2>1. ASSUME NEW k \in 1 .. n, \A j \in 1 .. n : k < j => j \in T PROVE k \in T
    <3>1. /\ k <= Len(s) => k + 1 \in 1 .. n /\ k < k + 1
          /\ k < Len(s) => k + 2 \in 1 .. n /\ k < k + 2
      BY <1>1
    <3>2. (k <= Len(s) => from[k + 1] \in Text(A)) /\ (k < Len(s) => from[k + 2] \in Text(A))
      BY <2>1, <3>1
    <3>3. UnescapeStep(esc, specials, s, from, k) \in X
      BY <3>2, UnescapeStepType
    <3> QED
      BY <1>7, <3>3
  <2> HIDE DEF T, n
  <2>2. 1 .. n \subseteq T
    BY <1>1, <2>1, FromTheEnd
  <2> QED
    BY <2>2 DEF T
<1>10. from \in [1 .. n -> X] /\ \A k \in 1 .. n : from[k] = UnescapeStep(esc, specials, s, from, k)
  BY <1>7, <1>9
<1> QED
  BY <1>8, <1>10 DEF UnescapesAs

\* With one more symbol in front, the same is left one place further on.
LEMMA UnescapeFurtherOn ==
    ASSUME NEW esc, NEW specials, NEW A, NEW x \in A, NEW t \in Text(A), NEW g, NEW h,
           UnescapesAs(esc, specials, g, Cons(x, t), A), UnescapesAs(esc, specials, h, t, A)
    PROVE  \A k \in 1 .. Len(t) + 1 : g[k + 1] = h[k]
<1> DEFINE s == Cons(x, t)
           n == Len(t) + 1
<1>1. s \in Text(A) /\ Len(s) = n /\ s[1] = x /\ \A k \in 1 .. Len(t) : s[k + 1] = t[k]
  BY OneBefore DEF Text
<1>2. \A k \in 1 .. Len(s) + 1 : g[k] = UnescapeStep(esc, specials, s, g, k)
  BY DEF UnescapesAs
<1>3. \A k \in 1 .. Len(t) + 1 : h[k] = UnescapeStep(esc, specials, t, h, k)
  BY DEF UnescapesAs
<1> HIDE DEF s
<1> DEFINE Same == {k \in 1 .. n : g[k + 1] = h[k]}
<1>4. n \in Nat /\ Len(t) \in Nat
  BY DEF Text
<1>5. ASSUME NEW k \in 1 .. n, \A j \in 1 .. n : k < j => j \in Same PROVE k \in Same
  <2>1. /\ h[k] = UnescapeStep(esc, specials, t, h, k) /\ g[k + 1] = UnescapeStep(esc, specials, s, g, k + 1)
        /\ k + 1 \in 1 .. Len(s) + 1 /\ (k > Len(t) <=> k + 1 > Len(s))
        /\ (k < Len(t) <=> k + 1 < Len(s)) /\ (k <= Len(t) <=> k + 1 <= Len(s))
    BY <1>1, <1>2, <1>3, <1>4
  <2>2. CASE k > Len(t)
    <3>1. UnescapeStep(esc, specials, t, h, k) = <<>>
      BY <1>4, <2>2 DEF UnescapeStep
    <3>2. UnescapeStep(esc, specials, s, g, k + 1) = <<>>
      BY <1>1, <1>4, <2>1, <2>2 DEF UnescapeStep
    <3> QED
      BY <2>1, <3>1, <3>2
  <2>3. CASE ~(k > Len(t))
    <3>1. k \in 1 .. Len(t) /\ k + 1 \in 1 .. Len(s) /\ k + 1 \in 1 .. n /\ s[k + 1] = t[k]
      BY <1>1, <1>4, <2>3
    <3>2. g[k + 1 + 1] = h[k + 1]
      BY <1>5, <3>1
    <3>3. k < Len(t) => g[k + 1 + 2] = h[k + 2] /\ s[k + 1 + 1] = t[k + 1]
      <4> SUFFICES ASSUME k < Len(t) PROVE g[k + 1 + 2] = h[k + 2] /\ s[k + 1 + 1] = t[k + 1]
        OBVIOUS
      <4>1. k + 2 \in 1 .. n /\ k < k + 2 /\ k + 1 \in 1 .. Len(t) /\ (k + 2) + 1 = k + 1 + 2
        BY <1>4
      <4> QED
        BY <1>1, <1>5, <4>1
    <3>4. UnescapeStep(esc, specials, t, h, k) =
              IF k < Len(t) /\ t[k] = esc /\ t[k + 1] \in specials
              THEN Cons(t[k + 1], h[k + 2]) ELSE Cons(t[k], h[k + 1])
      BY <3>1, <1>4 DEF UnescapeStep
    <3>5. UnescapeStep(esc, specials, s, g, k + 1) =
              IF k + 1 < Len(s) /\ s[k + 1] = esc /\ s[k + 1 + 1] \in specials
              THEN Cons(s[k + 1 + 1], g[k + 1 + 2]) ELSE Cons(s[k + 1], g[k + 1 + 1])
      BY <3>1, <1>1, <1>4 DEF UnescapeStep
    <3>6. UnescapeStep(esc, specials, s, g, k + 1) = UnescapeStep(esc, specials, t, h, k)
      BY <2>1, <3>1, <3>2, <3>3, <3>4, <3>5
    <3> QED
      BY <2>1, <3>6
  <2> QED
    BY <2>2, <2>3
<1> HIDE DEF Same, n
<1>6. 1 .. n \subseteq Same
  BY <1>4, <1>5, FromTheEnd
<1> QED
  BY <1>6 DEF Same, n

\* UnescapeVCard, symbol by symbol.
LEMMA UnescapeNothing ==
    ASSUME NEW esc, NEW specials
    PROVE  Unescape(esc, specials, <<>>) = <<>>
<1>1. <<>> \in Text({}) /\ Len(<<>>) = 0
  BY NoText
<1>2. PICK f : UnescapesAs(esc, specials, f, <<>>, {})
  BY <1>1, UnescapeRecursion
<1>3. f[1] = UnescapeStep(esc, specials, <<>>, f, 1) /\ Unescape(esc, specials, <<>>) = f[1]
  BY <1>1, <1>2 DEF UnescapesAs
<1> QED
  BY <1>1, <1>3 DEF UnescapeStep

\* What is unescaped is a text.
LEMMA UnescapeType ==
    ASSUME NEW esc, NEW specials, NEW A, NEW t \in Text(A)
    PROVE  Unescape(esc, specials, t) \in Text(A)
<1>1. PICK f : UnescapesAs(esc, specials, f, t, A)
  BY UnescapeRecursion
<1>2. 1 \in 1 .. Len(t) + 1
  BY DEF Text
<1> QED
  BY <1>1, <1>2 DEF UnescapesAs

\* A symbol that does not escape stays.
LEMMA UnescapeNext ==
    ASSUME NEW esc, NEW specials, NEW A, NEW x \in A, NEW t \in Text(A), x # esc
    PROVE  Unescape(esc, specials, Cons(x, t)) = Cons(x, Unescape(esc, specials, t))
<1> DEFINE s == Cons(x, t)
<1>1. s \in Text(A) /\ Len(s) = Len(t) + 1 /\ s[1] = x /\ Len(t) \in Nat
  BY OneBefore DEF Text
<1>2. PICK g : UnescapesAs(esc, specials, g, s, A)
  BY <1>1, UnescapeRecursion
<1>3. PICK h : UnescapesAs(esc, specials, h, t, A)
  BY UnescapeRecursion
<1>4. g[2] = h[1]
  <2>1. \A k \in 1 .. Len(t) + 1 : g[k + 1] = h[k]
    BY <1>2, <1>3, UnescapeFurtherOn
  <2> QED
    BY <1>1, <2>1
<1> HIDE DEF s
<1>5. Unescape(esc, specials, s) = UnescapeStep(esc, specials, s, g, 1) /\ Unescape(esc, specials, t) = h[1]
  BY <1>1, <1>2, <1>3 DEF UnescapesAs
<1>6. UnescapeStep(esc, specials, s, g, 1) = Cons(x, g[2])
  BY <1>1 DEF UnescapeStep
<1> QED
  BY <1>4, <1>5, <1>6 DEF s

\* A symbol that was escaped stays, without the one that escaped it.
LEMMA UnescapeEscape ==
    ASSUME NEW A, NEW esc \in A, NEW specials, NEW x \in A, x \in specials, NEW t \in Text(A)
    PROVE  Unescape(esc, specials, Cons(esc, Cons(x, t))) = Cons(x, Unescape(esc, specials, t))
<1>1. PICK u \in Text(A) : u = Cons(x, t) /\ Len(u) = Len(t) + 1 /\ u[1] = x /\ Len(t) \in Nat
  BY OneBefore DEF Text
<1>2. PICK s \in Text(A) : /\ s = Cons(esc, u) /\ Len(s) = Len(u) + 1 /\ s[1] = esc
                           /\ \A k \in 1 .. Len(u) : s[k + 1] = u[k]
  BY OneBefore DEF Text
<1>10. s[2] = x
  <2>1. s[1 + 1] = u[1]
    BY <1>1, <1>2
  <2> QED
    BY <1>1, <2>1
<1>3. PICK g : UnescapesAs(esc, specials, g, s, A)
  BY <1>2, UnescapeRecursion
<1>4. PICK f : UnescapesAs(esc, specials, f, u, A)
  BY <1>1, UnescapeRecursion
<1>5. PICK h : UnescapesAs(esc, specials, h, t, A)
  BY UnescapeRecursion
<1>6. g[3] = f[2]
  <2>1. \A k \in 1 .. Len(u) + 1 : g[k + 1] = f[k]
    BY <1>2, <1>3, <1>4, UnescapeFurtherOn
  <2>2. g[2 + 1] = f[2]
    BY <1>1, <2>1
  <2> QED
    BY <2>2
<1>7. f[2] = h[1]
  <2>1. \A k \in 1 .. Len(t) + 1 : f[k + 1] = h[k]
    BY <1>1, <1>4, <1>5, UnescapeFurtherOn
  <2> QED
    BY <1>1, <2>1
<1>8. Unescape(esc, specials, s) = UnescapeStep(esc, specials, s, g, 1) /\ Unescape(esc, specials, t) = h[1]
  BY <1>1, <1>2, <1>3, <1>5 DEF UnescapesAs
<1>9. UnescapeStep(esc, specials, s, g, 1) = Cons(x, g[3])
  BY <1>1, <1>2, <1>10 DEF UnescapeStep
<1> QED
  BY <1>1, <1>2, <1>6, <1>7, <1>8, <1>9

-----------------------------------------------------------------------------
(* Escaping, and texts put together.                                       *)

\* The step of the recursion of FlattenSeq, and its function.
FlattenStep(q, f, i) == IF i = 1 THEN q[i] ELSE f[i - 1] \o q[i]

FlattensAs(f, q, A) ==
    /\ f \in [1 .. Len(q) -> Text(A)]
    /\ \A i \in 1 .. Len(q) : f[i] = FlattenStep(q, f, i)
    /\ FlattenSeq(q) = f[Len(q)]

\* There is a function as the recursion of FlattenSeq asks for.
LEMMA FlattenRecursion ==
    ASSUME NEW A, NEW q \in List(A), q # <<>>
    PROVE  \E f : FlattensAs(f, q, A)
<1> DEFINE n == Len(q)
           X == Text(A)
           F == [f \in [1 .. n -> X] |-> [i \in 1 .. n |-> FlattenStep(q, f, i)]]
<1>1. n \in Nat /\ n # 0 /\ \A i \in 1 .. n : q[i] \in X
  BY EmptySeq DEF List
<1>2. F \in [[1 .. n -> X] -> [1 .. n -> X]]
  <2>1. \A f \in [1 .. n -> X], i \in 1 .. n : FlattenStep(q, f, i) \in X
    <3> TAKE f \in [1 .. n -> X], i \in 1 .. n
    <3>1. CASE i = 1
      BY <1>1, <3>1 DEF FlattenStep
    <3>2. CASE i # 1
      <4>1. i - 1 \in 1 .. n
        BY <1>1, <3>2
      <4>2. f[i - 1] \in Text(A) /\ q[i] \in Text(A)
        BY <1>1, <4>1
      <4>3. f[i - 1] \o q[i] \in Text(A)
        BY <4>2, TextAfterText
      <4> QED
        BY <3>2, <4>3 DEF FlattenStep
    <3> QED
      BY <3>1, <3>2
  <2> HIDE DEF X, n
  <2> QED
    BY <2>1
<1>3. <<>> \in X
  BY NoText
<1>4. \A f, g \in [1 .. n -> X], i \in 1 .. n :
          (\A j \in 1 .. n : j < i => f[j] = g[j]) => F[f][i] = F[g][i]
  <2> TAKE f, g \in [1 .. n -> X], i \in 1 .. n
  <2> HAVE \A j \in 1 .. n : j < i => f[j] = g[j]
  <2>1. i # 1 => f[i - 1] = g[i - 1]
    BY <1>1
  <2>2. FlattenStep(q, f, i) = FlattenStep(q, g, i)
    BY <2>1 DEF FlattenStep
  <2> QED
    BY <2>2
<1>5. \E f \in [1 .. n -> X] : f = F[f]
  <2> HIDE DEF n, X, F
  <2>1. LooksBack(F, n, X)
    BY <1>2, <1>4 DEF LooksBack
  <2> QED
    BY <1>1, <1>3, <2>1, RecursionFromTheStart
<1> DEFINE Is(f) == f = [i \in 1 .. n |-> FlattenStep(q, f, i)]
           flatten == CHOOSE f : Is(f)
<1>6. \E f : Is(f)
  BY <1>5
<1>7. Is(flatten)
  <2> HIDE DEF Is
  <2> QED
    BY <1>6
<1>8. FlattenSeq(q) = flatten[n]
  BY <1>1, Zenon DEF FlattenSeq, FlattenStep
<1> HIDE DEF flatten
<1>9. \A i \in 1 .. n : flatten[i] \in X
  <2> DEFINE T == {i \in Nat : i + 1 \in 1 .. n => flatten[i + 1] \in X}
  <2>1. 0 \in T
    BY <1>1, <1>7 DEF FlattenStep
  <2>2. ASSUME NEW i \in Nat, i \in T PROVE i + 1 \in T
    <3> SUFFICES ASSUME i + 1 + 1 \in 1 .. n PROVE flatten[i + 1 + 1] \in X
      OBVIOUS
    <3>1. i + 1 \in 1 .. n /\ i + 1 + 1 # 1 /\ (i + 1 + 1) - 1 = i + 1
      BY <1>1
    <3>2. flatten[i + 1] \in Text(A) /\ q[i + 1 + 1] \in Text(A)
      BY <1>1, <2>2, <3>1
    <3>3. flatten[i + 1] \o q[i + 1 + 1] \in Text(A)
      BY <3>2, TextAfterText
    <3>4. flatten[i + 1 + 1] = flatten[i + 1] \o q[i + 1 + 1]
      BY <1>7, <3>1 DEF FlattenStep
    <3> QED
      BY <3>3, <3>4
  <2> HIDE DEF T
  <2>3. Nat \subseteq T
    BY <2>1, <2>2, Upward
  <2> TAKE i \in 1 .. n
  <2>4. i - 1 \in T /\ (i - 1) + 1 = i
    BY <1>1, <2>3
  <2> QED
    BY <2>4 DEF T
<1>10. flatten \in [1 .. n -> X] /\ \A i \in 1 .. n : flatten[i] = FlattenStep(q, flatten, i)
  BY <1>7, <1>9
<1> QED
  BY <1>8, <1>10 DEF FlattensAs

\* FlattenSeq, text by text.
LEMMA FlattenNothing == FlattenSeq(<<>>) = <<>>
  BY DEF FlattenSeq

\* Texts one after another are a text.
LEMMA FlattenType ==
    ASSUME NEW A, NEW q \in List(A)
    PROVE  FlattenSeq(q) \in Text(A)
<1>1. CASE q = <<>>
  BY <1>1, FlattenNothing, NoText
<1>2. CASE q # <<>>
  <2>1. PICK f : FlattensAs(f, q, A)
    BY <1>2, FlattenRecursion
  <2>2. Len(q) \in 1 .. Len(q)
    BY <1>2, EmptySeq DEF List
  <2> QED
    BY <2>1, <2>2 DEF FlattensAs
<1> QED
  BY <1>1, <1>2

\* One text more at the front.
LEMMA FlattenNext ==
    ASSUME NEW A, NEW t \in Text(A), NEW q \in List(A)
    PROVE  FlattenSeq(Cons(t, q)) = t \o FlattenSeq(q)
<1>0. \A a \in Text(A), b \in Text(A) : (t \o a) \o b = t \o (a \o b)
  BY ConcatConcat
<1>1. PICK p \in List(A) : /\ p = Cons(t, q) /\ p # <<>> /\ Len(p) = Len(q) + 1 /\ p[1] = t
                           /\ \A k \in 1 .. Len(q) : p[k + 1] = q[k]
  BY OneBefore DEF List
<1>2. PICK g : FlattensAs(g, p, A)
  BY <1>1, FlattenRecursion
<1>3. /\ \A i \in 1 .. Len(p) : g[i] = FlattenStep(p, g, i)
      /\ FlattenSeq(p) = g[Len(p)]
  BY <1>2 DEF FlattensAs
<1>4. Len(q) \in Nat /\ \A i \in 1 .. Len(q) : q[i] \in Text(A)
  BY DEF List
<1>5. g[1] = t
  BY <1>1, <1>3, <1>4 DEF FlattenStep
<1>6. CASE q = <<>>
  <2>1. Len(p) = 1
    BY <1>1, <1>6
  <2>2. FlattenSeq(p) = t /\ FlattenSeq(q) = <<>>
    BY <1>3, <1>5, <1>6, <2>1, FlattenNothing
  <2>3. t \o <<>> = t
    BY TextAfterText
  <2> QED
    BY <1>1, <2>2, <2>3
<1>7. CASE q # <<>>
  <2>1. PICK h : FlattensAs(h, q, A)
    BY <1>7, FlattenRecursion
  <2>2. /\ \A i \in 1 .. Len(q) : h[i] \in Text(A) /\ h[i] = FlattenStep(q, h, i)
        /\ FlattenSeq(q) = h[Len(q)]
    BY <2>1 DEF FlattensAs
  <2> DEFINE T == {i \in Nat : i + 1 \in 1 .. Len(q) => g[i + 1 + 1] = t \o h[i + 1]}
  <2>3. 0 \in T
    <3> SUFFICES ASSUME 1 \in 1 .. Len(q) PROVE g[2] = t \o h[1]
      OBVIOUS
    <3>1. 2 \in 1 .. Len(p) /\ p[1 + 1] = q[1]
      BY <1>1, <1>4
    <3>2. g[2] = FlattenStep(p, g, 2) /\ h[1] = FlattenStep(q, h, 1)
      BY <1>3, <2>2, <3>1
    <3>3. FlattenStep(p, g, 2) = g[1] \o p[2]
      <4>1. 2 # 1 /\ 2 - 1 = 1
        OBVIOUS
      <4> QED
        BY <4>1, Zenon DEF FlattenStep
    <3>4. h[1] = q[1] /\ p[2] = q[1]
      BY <3>1, <3>2 DEF FlattenStep
    <3> QED
      BY <1>5, <3>2, <3>3, <3>4, Zenon
  <2>4. ASSUME NEW i \in Nat, i \in T PROVE i + 1 \in T
    <3> SUFFICES ASSUME i + 1 + 1 \in 1 .. Len(q) PROVE g[i + 1 + 1 + 1] = t \o h[i + 1 + 1]
      OBVIOUS
    <3> DEFINE k == i + 1 + 1
    <3>1. /\ i + 1 \in 1 .. Len(q) /\ k # 1 /\ k - 1 = i + 1 /\ k \in 1 .. Len(q)
          /\ k + 1 \in 1 .. Len(p) /\ k + 1 # 1 /\ (k + 1) - 1 = k /\ p[k + 1] = q[k]
      BY <1>1, <1>4
    <3>2. g[k] = t \o h[i + 1]
      BY <2>4, <3>1
    <3> HIDE DEF k
    <3>3. g[k + 1] = g[k] \o q[k]
      BY <1>3, <3>1 DEF FlattenStep
    <3>4. h[k] = h[i + 1] \o q[k]
      BY <2>2, <3>1 DEF FlattenStep
    <3>5. (t \o h[i + 1]) \o q[k] = t \o (h[i + 1] \o q[k])
      <4>1. PICK a \in Text(A), b \in Text(A) : a = h[i + 1] /\ b = q[k]
        BY <1>4, <2>2, <3>1
      <4>2. (t \o a) \o b = t \o (a \o b)
        BY <1>0, Zenon
      <4> QED
        BY <4>1, <4>2, Zenon
    <3>6. g[k + 1] = t \o h[k]
      BY <3>2, <3>3, <3>4, <3>5
    <3> QED
      BY <3>6 DEF k
  <2> HIDE DEF T
  <2>5. Nat \subseteq T
    BY <2>3, <2>4, Upward
  <2>6. Len(q) - 1 \in T /\ (Len(q) - 1) + 1 = Len(q) /\ Len(q) \in 1 .. Len(q)
    <3>1. Len(q) # 0
      BY <1>7, EmptySeq DEF List
    <3> QED
      BY <1>4, <2>5, <3>1
  <2>7. g[Len(q) + 1] = t \o h[Len(q)]
    BY <2>6 DEF T
  <2> QED
    BY <1>1, <1>3, <2>2, <2>7
<1> QED
  BY <1>6, <1>7

\* Some symbols before a text.
LEMMA TwoBefore ==
    ASSUME NEW A, NEW x \in A, NEW y \in A, NEW t \in Text(A)
    PROVE  <<x, y>> \o t = Cons(x, Cons(y, t))
<1>1. <<x>> \in Text(A) /\ <<y>> \in Text(A)
  BY DEF Text
<1>4. <<x, y>> = <<x>> \o <<y>>
  <2>4. <<y>> \in Seq(A) /\ Len(<<y>>) = 1 /\ <<y>>[1] = y
    OBVIOUS
  <2>1. PICK b \in Seq(A) : b = <<y>> /\ Len(b) = 1 /\ b[1] = y
    BY <2>4
  <2>2. PICK c \in Seq(A) : c = Cons(x, b) /\ Len(c) = 2 /\ c[1] = x /\ c[2] = y
    <3>1. /\ Cons(x, b) \in Seq(A) /\ Len(Cons(x, b)) = Len(b) + 1 /\ Cons(x, b)[1] = x
          /\ \A k \in 1 .. Len(b) : Cons(x, b)[k + 1] = b[k]
      BY OneBefore
    <3>2. Cons(x, b)[1 + 1] = b[1]
      BY <2>1, <3>1
    <3> QED
      BY <2>1, <3>1, <3>2
  <2>3. c = <<x, y>>
    BY <2>2
  <2> QED
    BY <2>1, <2>2, <2>3 DEF Cons
<1>2. PICK a \in Text(A), b \in Text(A) : a = <<x>> /\ b = <<y>> /\ <<x, y>> = a \o b
  BY <1>1, <1>4, Zenon
<1>3. (a \o b) \o t = a \o (b \o t)
  BY ConcatConcat
<1> QED
  BY <1>2, <1>3, Zenon DEF Cons

\* Three symbols before a text.
LEMMA ThreeBefore ==
    ASSUME NEW A, NEW x \in A, NEW y \in A, NEW z \in A, NEW t \in Text(A)
    PROVE  <<x, y, z>> \o t = Cons(x, Cons(y, Cons(z, t)))
<1>1. <<x>> \in Text(A) /\ <<y, z>> \in Text(A) /\ <<x, y, z>> = <<x>> \o <<y, z>>
  BY DEF Text
<1>2. PICK a \in Text(A), b \in Text(A) : a = <<x>> /\ b = <<y, z>> /\ <<x, y, z>> = a \o b
  BY <1>1
<1>3. (a \o b) \o t = a \o (b \o t)
  BY ConcatConcat
<1>4. b \o t = Cons(y, Cons(z, t))
  BY <1>2, TwoBefore
<1> QED
  BY <1>2, <1>3, <1>4, Zenon DEF Cons

\* Four symbols before a text.
LEMMA FourBefore ==
    ASSUME NEW A, NEW x \in A, NEW y \in A, NEW z \in A, NEW w \in A, NEW t \in Text(A)
    PROVE  <<x, y, z, w>> \o t = Cons(x, Cons(y, Cons(z, Cons(w, t))))
<1>1. <<x, y>> \in Text(A) /\ <<z, w>> \in Text(A) /\ <<x, y, z, w>> = <<x, y>> \o <<z, w>>
  BY DEF Text
<1>2. PICK a \in Text(A), b \in Text(A) : a = <<x, y>> /\ b = <<z, w>> /\ <<x, y, z, w>> = a \o b
  BY <1>1
<1>3. (a \o b) \o t = a \o (b \o t)
  BY ConcatConcat
<1>4. b \o t = Cons(z, Cons(w, t))
  BY <1>2, TwoBefore
<1>5. PICK u \in Text(A) : u = Cons(z, Cons(w, t))
  BY LongerText
<1>6. <<x, y>> \o u = Cons(x, Cons(y, u))
  BY TwoBefore
<1> QED
  BY <1>2, <1>3, <1>4, <1>5, <1>6, Zenon

\* Five symbols before a text.
LEMMA FiveBefore ==
    ASSUME NEW A, NEW v \in A, NEW x \in A, NEW y \in A, NEW z \in A, NEW w \in A, NEW t \in Text(A)
    PROVE  <<v, x, y, z, w>> \o t = Cons(v, Cons(x, Cons(y, Cons(z, Cons(w, t)))))
<1>1. <<v>> \in Text(A) /\ <<x, y, z, w>> \in Text(A) /\ <<v, x, y, z, w>> = <<v>> \o <<x, y, z, w>>
  BY DEF Text
<1>2. PICK a \in Text(A), b \in Text(A) : a = <<v>> /\ b = <<x, y, z, w>> /\ <<v, x, y, z, w>> = a \o b
  BY <1>1
<1>3. (a \o b) \o t = a \o (b \o t)
  BY ConcatConcat
<1>4. b \o t = Cons(x, Cons(y, Cons(z, Cons(w, t))))
  BY <1>2, FourBefore
<1> QED
  BY <1>2, <1>3, <1>4, Zenon DEF Cons

\* Escaped, with a name for the symbol that escapes.
EscapedBy(esc, s, specials) ==
    FlattenSeq([i \in DOMAIN s |-> IF s[i] \in specials THEN <<esc, s[i]>> ELSE <<s[i]>>])

\* Escaped is EscapedBy with the backslash.
LEMMA EscapedIs ==
    ASSUME NEW s, NEW specials
    PROVE  Escaped(s, specials) = EscapedBy("\\", s, specials)
  BY Zenon DEF Escaped, EscapedBy

\* Nothing to escape.
LEMMA EscapedNothing ==
    ASSUME NEW esc, NEW specials
    PROVE  EscapedBy(esc, <<>>, specials) = <<>>
<1>1. [i \in DOMAIN <<>> |-> IF <<>>[i] \in specials THEN <<esc, <<>>[i]>> ELSE <<<<>>[i]>>] = <<>>
  OBVIOUS
<1> QED
  BY <1>1, FlattenNothing DEF EscapedBy

\* Escaped, symbol by symbol.
LEMMA EscapedNext ==
    ASSUME NEW A, NEW esc \in A, NEW specials, NEW x \in A, NEW t \in Text(A)
    PROVE  /\ EscapedBy(esc, t, specials) \in Text(A)
           /\ EscapedBy(esc, Cons(x, t), specials) =
                 IF x \in specials THEN Cons(esc, Cons(x, EscapedBy(esc, t, specials)))
                 ELSE Cons(x, EscapedBy(esc, t, specials))
<1> DEFINE One(y) == IF y \in specials THEN <<esc, y>> ELSE <<y>>
           All(s) == [i \in DOMAIN s |-> One(s[i])]
<1>1. \A y \in A : One(y) \in Text(A)
  BY DEF Text
<1> HIDE DEF One
<1>2. \A s \in Text(A) : All(s) \in List(A)
  <2> TAKE s \in Text(A)
  <2>1. Len(s) \in Nat /\ DOMAIN s = 1 .. Len(s) /\ \A i \in 1 .. Len(s) : One(s[i]) \in Text(A)
    BY <1>1 DEF Text
  <2>2. All(s) \in [1 .. Len(s) -> Text(A)]
    BY <2>1
  <2> HIDE DEF All
  <2> QED
    BY <2>1, <2>2 DEF List
<1>3. All(t) \in List(A)
  BY <1>2
<1>4. PICK s \in Text(A) : /\ s = Cons(x, t) /\ Len(s) = Len(t) + 1 /\ s[1] = x
                           /\ \A k \in 1 .. Len(t) : s[k + 1] = t[k]
  BY OneBefore DEF Text
<1>5. All(s) = Cons(One(x), All(t))
  <2> DEFINE a == All(s)
             b == All(t)
  <2>1. a \in Seq(Text(A)) /\ Len(a) = Len(s) /\ \A i \in 1 .. Len(s) : a[i] = One(s[i])
    BY <1>2 DEF Text, List
  <2>2. b \in Seq(Text(A)) /\ Len(b) = Len(t) /\ (\A i \in 1 .. Len(t) : b[i] = One(t[i])) /\ Len(t) \in Nat
    BY <1>2 DEF Text, List
  <2> HIDE DEF a, b
  <2>6. PICK o \in Text(A) : o = One(x)
    BY <1>1
  <2>7. PICK bb \in Seq(Text(A)) : bb = b
    BY <2>2
  <2>8. PICK c \in Seq(Text(A)) : /\ c = Cons(o, bb) /\ Len(c) = Len(bb) + 1 /\ c[1] = o
                                 /\ \A k \in 1 .. Len(bb) : c[k + 1] = bb[k]
    BY OneBefore
  <2>3. Len(c) = Len(b) + 1 /\ c[1] = One(x) /\ \A k \in 1 .. Len(b) : c[k + 1] = b[k]
    BY <2>6, <2>7, <2>8
  <2>4. \A i \in 1 .. Len(c) : a[i] = c[i]
    <3> TAKE i \in 1 .. Len(c)
    <3>1. CASE i = 1
      BY <1>4, <2>1, <2>2, <2>3, <3>1
    <3>2. CASE i # 1
      <4>1. i - 1 \in 1 .. Len(t) /\ (i - 1) + 1 = i /\ i \in 1 .. Len(s)
        BY <1>4, <2>2, <2>3, <3>2
      <4>2. s[(i - 1) + 1] = t[i - 1] /\ c[(i - 1) + 1] = b[i - 1]
        BY <1>4, <2>2, <2>3, <4>1
      <4> QED
        BY <2>1, <2>2, <4>1, <4>2
    <3> QED
      BY <3>1, <3>2
  <2>5. a = c
    BY <1>4, <2>1, <2>2, <2>3, <2>4, SeqEqual
  <2> QED
    BY <2>5, <2>6, <2>7, <2>8 DEF a, b
<1>6. EscapedBy(esc, s, specials) = FlattenSeq(All(s)) /\ EscapedBy(esc, t, specials) = FlattenSeq(All(t))
  BY Zenon DEF EscapedBy, One
<1> DEFINE e == FlattenSeq(All(t))
<1>7. FlattenSeq(All(s)) = One(x) \o e /\ e \in Text(A)
  <2>1. One(x) \in Text(A)
    BY <1>1
  <2> HIDE DEF All
  <2> QED
    BY <1>3, <1>5, <2>1, FlattenNext, FlattenType
<1> HIDE DEF e
<1>8. One(x) \o e = IF x \in specials THEN Cons(esc, Cons(x, e)) ELSE Cons(x, e)
  <2>1. <<esc, x>> \o e = Cons(esc, Cons(x, e))
    BY <1>7, TwoBefore
  <2> QED
    BY <2>1 DEF One, Cons
<1> QED
  BY <1>4, <1>6, <1>7, <1>8 DEF e

\* What is escaped is a text.
LEMMA EscapedType ==
    ASSUME NEW A, NEW esc \in A, NEW specials, NEW t \in Text(A)
    PROVE  EscapedBy(esc, t, specials) \in Text(A)
  BY EscapedNext

-----------------------------------------------------------------------------
(* What is escaped and what takes it apart.                                *)

\* Before fields: a symbol that means nothing, and an escaped text.
LEMMA FieldsPlain ==
    ASSUME NEW A, NEW esc \in A, NEW sep, sep # esc, NEW x \in A, x # esc, x # sep, NEW r \in Text(A),
           NEW h \in Text(A), NEW q \in List(A), FieldsBy(esc, sep, r) = Cons(h, q)
    PROVE  FieldsBy(esc, sep, Cons(x, r)) = Cons(Cons(x, h), q)
<1>1. FieldsBy(esc, sep, Cons(x, r)) = Begun(x, Cons(h, q))
  BY FieldsNext
<1> QED
  BY <1>1, BegunIs

\* An escaped text goes before the first field, whole and without its escapes: no
\* symbol of it ends the field (payload::escapeWifi() and parseWifi()).
LEMMA FieldsEscaped ==
    ASSUME NEW A, NEW esc \in A, NEW sep, sep # esc, NEW specials, esc \in specials, sep \in specials,
           NEW t \in Text(A), NEW r \in Text(A),
           NEW h \in Text(A), NEW q \in List(A), FieldsBy(esc, sep, r) = Cons(h, q)
    PROVE  FieldsBy(esc, sep, EscapedBy(esc, t, specials) \o r) = Cons(t \o h, q)
<1> DEFINE S == {u \in Text(A) :
                    FieldsBy(esc, sep, EscapedBy(esc, u, specials) \o r) = Cons(u \o h, q)}
<1>4. \A y \in A, a \in Text(A), b \in Text(A) : Cons(y, a) \o b = Cons(y, a \o b)
  <2>1. PutBefore(A)
    BY OneBeforeBoth
  <2> QED
    BY <2>1 DEF PutBefore
<1>5. \A y \in A, a \in Text(A) : Cons(y, a) \o r = Cons(y, a \o r)
  <2> HIDE DEF S
  <2> QED
    BY <1>4
<1>6. \A y \in A, a \in Text(A) : Cons(y, a) \o h = Cons(y, a \o h)
  <2> HIDE DEF S
  <2> QED
    BY <1>4
<1>1. <<>> \in S
  <2>1. <<>> \in Text(A) /\ <<>> \o r = r /\ <<>> \o h = h /\ EscapedBy(esc, <<>>, specials) = <<>>
    BY NoText, TextAfterText, EscapedNothing
  <2> QED
    BY <2>1
<1>2. ASSUME NEW x \in A, NEW u \in Text(A), u \in S PROVE Cons(x, u) \in S
  <2>1. PICK e \in Text(A) : /\ e = EscapedBy(esc, u, specials)
                             /\ EscapedBy(esc, Cons(x, u), specials) =
                                   IF x \in specials THEN Cons(esc, Cons(x, e)) ELSE Cons(x, e)
    BY EscapedNext
  <2>2. PICK v \in Text(A), w \in Text(A) : v = e \o r /\ w = u \o h
    BY TextAfterText
  <2>3. FieldsBy(esc, sep, v) = Cons(w, q)
    BY <1>2, <2>1, <2>2
  <2>4. Cons(x, u) \in Text(A) /\ Cons(x, e) \in Text(A)
    BY LongerText
  <2>5. Cons(x, u) \o h = Cons(x, w)
    <3> HIDE DEF S
    <3>1. Cons(x, u) \o h = Cons(x, u \o h)
      BY <1>6, Zenon
    <3> QED
      BY <2>2, <3>1, Zenon
  <2>6. Cons(x, e) \o r = Cons(x, v)
    <3> HIDE DEF S
    <3>1. Cons(x, e) \o r = Cons(x, e \o r)
      BY <1>5, Zenon
    <3> QED
      BY <2>2, <3>1, Zenon
  <2>7. Cons(esc, Cons(x, e)) \o r = Cons(esc, Cons(x, v))
    <3> HIDE DEF S
    <3>1. PICK y \in Text(A) : y = Cons(x, e)
      BY <2>4
    <3>2. Cons(esc, y) \o r = Cons(esc, y \o r)
      BY <1>5, Zenon
    <3> QED
      BY <2>6, <3>1, <3>2, Zenon
  <2>8. CASE x \in specials
    <3>1. FieldsBy(esc, sep, Cons(esc, Cons(x, v))) = Begun(x, FieldsBy(esc, sep, v))
      BY FieldsEscape
    <3>2. Begun(x, Cons(w, q)) = Cons(Cons(x, w), q)
      BY BegunIs
    <3>3. EscapedBy(esc, Cons(x, u), specials) \o r = Cons(esc, Cons(x, v))
      BY <2>1, <2>7, <2>8, Zenon
    <3>4. FieldsBy(esc, sep, EscapedBy(esc, Cons(x, u), specials) \o r) = Cons(Cons(x, u) \o h, q)
      BY <2>3, <2>5, <3>1, <3>2, <3>3, Zenon
    <3> QED
      BY <2>4, <3>4
  <2>9. CASE x \notin specials
    <3>1. x # esc /\ x # sep
      BY <2>9
    <3>2. FieldsBy(esc, sep, Cons(x, v)) = Cons(Cons(x, w), q)
      BY <2>3, <3>1, FieldsPlain
    <3>3. EscapedBy(esc, Cons(x, u), specials) \o r = Cons(x, v)
      BY <2>1, <2>6, <2>9, Zenon
    <3>4. FieldsBy(esc, sep, EscapedBy(esc, Cons(x, u), specials) \o r) = Cons(Cons(x, u) \o h, q)
      BY <2>5, <3>2, <3>3, Zenon
    <3> QED
      BY <2>4, <3>4
  <2> QED
    BY <2>8, <2>9
<1> HIDE DEF S
<1>3. Text(A) \subseteq S
  BY <1>1, <1>2, TextInduction
<1> QED
  BY <1>3 DEF S

\* What is escaped comes back.
LEMMA UnescapeEscaped ==
    ASSUME NEW A, NEW esc \in A, NEW specials, esc \in specials, NEW t \in Text(A)
    PROVE  Unescape(esc, specials, EscapedBy(esc, t, specials)) = t
<1> DEFINE S == {u \in Text(A) : Unescape(esc, specials, EscapedBy(esc, u, specials)) = u}
<1>1. <<>> \in S
  <2>1. <<>> \in Text(A) /\ EscapedBy(esc, <<>>, specials) = <<>> /\ Unescape(esc, specials, <<>>) = <<>>
    BY NoText, EscapedNothing, UnescapeNothing
  <2> QED
    BY <2>1
<1>2. ASSUME NEW x \in A, NEW u \in Text(A), u \in S PROVE Cons(x, u) \in S
  <2>1. PICK e \in Text(A) : /\ e = EscapedBy(esc, u, specials)
                             /\ EscapedBy(esc, Cons(x, u), specials) =
                                   IF x \in specials THEN Cons(esc, Cons(x, e)) ELSE Cons(x, e)
    BY EscapedNext
  <2>2. Unescape(esc, specials, e) = u
    BY <1>2, <2>1
  <2>3. Cons(x, u) \in Text(A)
    BY LongerText
  <2>4. x \in specials => Unescape(esc, specials, Cons(esc, Cons(x, e))) = Cons(x, u)
    BY <2>2, UnescapeEscape
  <2>5. x \notin specials => Unescape(esc, specials, Cons(x, e)) = Cons(x, u)
    BY <2>2, UnescapeNext
  <2>6. Unescape(esc, specials, EscapedBy(esc, Cons(x, u), specials)) = Cons(x, u)
    BY <2>1, <2>4, <2>5
  <2> QED
    BY <2>3, <2>6
<1> HIDE DEF S
<1>3. Text(A) \subseteq S
  BY <1>1, <1>2, TextInduction
<1> QED
  BY <1>3 DEF S

-----------------------------------------------------------------------------
(* Fields with keys.                                                       *)

\* A part of a sequence, and all of it but the last element.
LEMMA PartIs ==
    ASSUME NEW A, NEW s \in Seq(A), NEW m \in 1 .. Len(s) + 1, NEW n \in 0 .. Len(s), m <= n + 1
    PROVE  /\ SubSeq(s, m, n) \in Seq(A)
           /\ Len(SubSeq(s, m, n)) = n - m + 1
           /\ \A i \in 1 .. n - m + 1 : SubSeq(s, m, n)[i] = s[m + i - 1]
<1>1. m \in Int /\ n \in Int /\ \A i \in m .. n : s[i] \in A
  OBVIOUS
<1> QED
  BY <1>1, SubSeqProperties

\* All but the last element.
LEMMA FrontIs ==
    ASSUME NEW A, NEW s \in Seq(A), s # <<>>
    PROVE  /\ Front(s) \in Seq(A)
           /\ Len(Front(s)) = Len(s) - 1
           /\ \A i \in 1 .. Len(s) - 1 : Front(s)[i] = s[i]
<1>1. Len(s) \in Nat \ {0}
  BY EmptySeq
<1>0. Len(s) - 1 \in 0 .. Len(s)
  BY <1>1
<1>2. PICK n \in 0 .. Len(s) : n = Len(s) - 1
  BY <1>0, Zenon
<1>3. 1 \in 1 .. Len(s) + 1 /\ 1 <= n + 1
  BY <1>1
<1>4. /\ SubSeq(s, 1, n) \in Seq(A)
      /\ Len(SubSeq(s, 1, n)) = n - 1 + 1
      /\ \A i \in 1 .. n - 1 + 1 : SubSeq(s, 1, n)[i] = s[1 + i - 1]
  BY <1>3, PartIs
<1>5. Front(s) = SubSeq(s, 1, n)
  BY <1>2 DEF Front
<1> HIDE DEF Front
<1>6. n - 1 + 1 = n /\ \A i \in 1 .. n : 1 + i - 1 = i
  OBVIOUS
<1> QED
  BY <1>2, <1>4, <1>5, <1>6

\* What is kept of the pieces: the last one only if it is not empty.
Kept(pieces) == IF Last(pieces) = <<>> THEN Front(pieces) ELSE pieces

\* One more piece at the front is kept.
LEMMA KeptFurther ==
    ASSUME NEW A, NEW f \in Text(A), NEW q \in Pieces(A)
    PROVE  Kept(Cons(f, q)) = Cons(f, Kept(q)) /\ Kept(q) \in List(A)
<1> DEFINE X == Text(A)
<1>1. q \in Seq(X) /\ q # <<>> /\ Len(q) \in Nat \ {0}
  BY EmptySeq DEF Pieces, List
<1> HIDE DEF X
<1>2. PICK s \in Seq(X) : /\ s = Cons(f, q) /\ Len(s) = Len(q) + 1 /\ s[1] = f
                          /\ \A k \in 1 .. Len(q) : s[k + 1] = q[k]
  BY <1>1, OneBefore DEF X
<1>3. Last(s) = Last(q)
  BY <1>1, <1>2 DEF Last
<1>4. PICK r \in Seq(X) : /\ r = Front(q) /\ Len(r) = Len(q) - 1 /\ \A k \in 1 .. Len(r) : r[k] = q[k]
  BY <1>1, FrontIs
<1>5. PICK u \in Seq(X) : /\ u = Front(s) /\ Len(u) = Len(q) /\ \A k \in 1 .. Len(u) : u[k] = s[k]
  <2>1. s # <<>>
    BY <1>1, <1>2, EmptySeq
  <2> QED
    BY <1>1, <1>2, <2>1, FrontIs
<1>6. PICK v \in Seq(X) : /\ v = Cons(f, r) /\ Len(v) = Len(r) + 1 /\ v[1] = f
                          /\ \A k \in 1 .. Len(r) : v[k + 1] = r[k]
  BY OneBefore DEF X
<1>7. \A i \in 1 .. Len(v) : u[i] = v[i]
  <2> TAKE i \in 1 .. Len(v)
  <2>1. CASE i = 1
    BY <1>1, <1>2, <1>4, <1>5, <1>6, <2>1
  <2>2. CASE i # 1
    <3>1. i - 1 \in 1 .. Len(r) /\ i - 1 \in 1 .. Len(q) /\ (i - 1) + 1 = i /\ i \in 1 .. Len(u)
      BY <1>1, <1>4, <1>5, <1>6, <2>2
    <3>2. v[(i - 1) + 1] = q[i - 1] /\ s[(i - 1) + 1] = q[i - 1]
      BY <1>2, <1>4, <1>6, <3>1
    <3> QED
      BY <1>5, <3>1, <3>2
  <2> QED
    BY <2>1, <2>2
<1>8. u = v
  BY <1>1, <1>4, <1>5, <1>6, <1>7, SeqEqual
<1>9. Kept(q) \in Seq(X) /\ Kept(q) = IF Last(q) = <<>> THEN r ELSE q
  BY <1>1, <1>4 DEF Kept
<1>10. Kept(s) = IF Last(q) = <<>> THEN u ELSE s
  BY <1>3, <1>5, Zenon DEF Kept
<1>11. Kept(s) = Cons(f, Kept(q))
  BY <1>2, <1>6, <1>8, <1>9, <1>10, Zenon
<1> QED
  BY <1>2, <1>9, <1>11 DEF List, X

\* Of nothing after the last mark, only the nothing before it is kept.
LEMMA KeptAtTheEnd ==
    ASSUME NEW A, NEW e \in A
    PROVE  Last(Cons(e, <<e>>)) = e /\ Front(Cons(e, <<e>>)) = <<e>>
<1>1. <<e>> \in Seq(A) /\ Len(<<e>>) = 1 /\ <<e>>[1] = e
  OBVIOUS
<1>2. PICK q \in Seq(A) : q = <<e>> /\ Len(q) = 1 /\ q[1] = e
  BY <1>1
<1>3. /\ Cons(e, q) \in Seq(A) /\ Cons(e, q) # <<>> /\ Len(Cons(e, q)) = Len(q) + 1
      /\ Cons(e, q)[1] = e /\ \A k \in 1 .. Len(q) : Cons(e, q)[k + 1] = q[k]
  BY OneBefore
<1>4. PICK s \in Seq(A) : s = Cons(e, q) /\ s # <<>> /\ Len(s) = 2 /\ s[1] = e /\ s[2] = e
  <2>1. Cons(e, q)[1 + 1] = q[1] /\ Len(Cons(e, q)) = 2
    BY <1>2, <1>3
  <2> QED
    BY <1>2, <1>3, <2>1
<1>5. Last(s) = e
  BY <1>4 DEF Last
<1>6. Front(s) \in Seq(A) /\ Len(Front(s)) = 1 /\ Front(s)[1] = e
  <2>1. s # <<>> /\ Len(s) - 1 = 1
    BY <1>4
  <2>2. /\ Front(s) \in Seq(A) /\ Len(Front(s)) = Len(s) - 1
        /\ \A i \in 1 .. Len(s) - 1 : Front(s)[i] = s[i]
    BY <2>1, FrontIs
  <2> HIDE DEF Front
  <2> QED
    BY <1>4, <2>1, <2>2
<1>7. Front(s) = <<e>>
  <2>1. PICK r \in Seq(A) : r = Front(s) /\ Len(r) = 1 /\ r[1] = e
    BY <1>6
  <2>2. r = q
    BY <1>2, <2>1, SeqEqual
  <2> QED
    BY <1>2, <2>1, <2>2
<1> QED
  BY <1>2, <1>4, <1>5, <1>7

\* A field with a key, the key looked for, and the value of the last that has it.
HasKey(field, key, colon) == Len(field) >= 2 /\ SubSeq(field, 1, 2) = <<key, colon>>
KeyedBy(fields, key, colon) == {i \in DOMAIN fields : HasKey(fields[i], key, colon)}
ValueOf(fields, key, colon) ==
    IF KeyedBy(fields, key, colon) = {} THEN <<>>
    ELSE SubSeq(fields[Max(KeyedBy(fields, key, colon))], 3, Len(fields[Max(KeyedBy(fields, key, colon))]))

\* A field has its key and its value.
LEMMA KeyAndValue ==
    ASSUME NEW A, NEW k \in A, NEW colon \in A, NEW t \in Text(A), NEW key
    PROVE  LET f == Cons(k, Cons(colon, t))
           IN f \in Text(A) /\ (HasKey(f, key, colon) <=> k = key) /\ SubSeq(f, 3, Len(f)) = t
<1>1. PICK g \in Seq(A) : g = Cons(colon, t) /\ Len(g) = Len(t) + 1 /\ g[1] = colon
                          /\ \A i \in 1 .. Len(t) : g[i + 1] = t[i]
  BY OneBefore DEF Text
<1>2. PICK f \in Seq(A) : f = Cons(k, g) /\ Len(f) = Len(g) + 1 /\ f[1] = k
                          /\ \A i \in 1 .. Len(g) : f[i + 1] = g[i]
  BY OneBefore
<1>3. Len(t) \in Nat /\ t \in Seq(A)
  BY DEF Text
<1>4. f[2] = colon
  <2>1. f[1 + 1] = g[1]
    BY <1>1, <1>2, <1>3
  <2> QED
    BY <1>1, <2>1
<1>5. HasKey(f, key, colon) <=> k = key
  <2>1. Len(f) >= 2
    BY <1>1, <1>2, <1>3
  <2>2. SubSeq(f, 1, 2) = <<f[1], f[2]>>
    <3>1. PICK u \in Seq(A) : u = SubSeq(f, 1, 2) /\ Len(u) = 2 /\ u[1] = f[1] /\ u[2] = f[2]
      <4>0. 1 \in 1 .. Len(f) + 1 /\ 2 \in 0 .. Len(f) /\ 1 <= 2 + 1
        BY <2>1
      <4>1. PICK n \in 0 .. Len(f), m \in 1 .. Len(f) + 1 : n = 2 /\ m = 1
        BY <4>0
      <4>2. /\ SubSeq(f, m, n) \in Seq(A) /\ Len(SubSeq(f, m, n)) = n - m + 1
            /\ \A i \in 1 .. n - m + 1 : SubSeq(f, m, n)[i] = f[m + i - 1]
        BY <4>1, PartIs
      <4>3. PICK u \in Seq(A) : u = SubSeq(f, m, n) /\ Len(u) = n - m + 1
                                /\ \A i \in 1 .. n - m + 1 : u[i] = f[m + i - 1]
        BY <4>2
      <4>4. Len(u) = 2 /\ u[1] = f[1 + 1 - 1] /\ u[2] = f[1 + 2 - 1]
        BY <4>1, <4>3
      <4>5. u = SubSeq(f, 1, 2)
        BY <4>1, <4>3, Zenon
      <4>6. Len(u) = 2 /\ u[1] = f[1] /\ u[2] = f[2]
        BY <4>4
      <4> QED
        BY <4>5, <4>6
    <3>2. u = <<f[1], f[2]>>
      <4>1. f[1] \in A /\ f[2] \in A
        BY <2>1
      <4>2. PICK y \in A, z \in A : y = f[1] /\ z = f[2]
        BY <4>1
      <4>3. u = <<y, z>>
        <5>1. <<y, z>> \in Seq(A) /\ Len(<<y, z>>) = 2 /\ <<y, z>>[1] = y /\ <<y, z>>[2] = z
          OBVIOUS
        <5>2. PICK v \in Seq(A) : v = <<y, z>> /\ Len(v) = 2 /\ v[1] = y /\ v[2] = z
          BY <5>1
        <5>3. Len(u) = Len(v) /\ \A i \in 1 .. Len(v) : u[i] = v[i]
          BY <3>1, <4>2, <5>2
        <5>4. u = v
          BY <5>3, SeqEqual
        <5> QED
          BY <5>2, <5>4
      <4> QED
        BY <4>2, <4>3
    <3> QED
      BY <3>1, <3>2
  <2> QED
    BY <1>2, <1>4, <2>1, <2>2 DEF HasKey
<1>6. SubSeq(f, 3, Len(f)) = t
  <2>1. PICK u \in Seq(A) : /\ u = SubSeq(f, 3, Len(f)) /\ Len(u) = Len(t)
                            /\ \A i \in 1 .. Len(u) : u[i] = f[i + 2]
    <3>1. Len(f) = Len(t) + 2 /\ Len(f) \in Nat
      BY <1>1, <1>2, <1>3
    <3>2. PICK n \in 0 .. Len(f), m \in 1 .. Len(f) + 1 : n = Len(f) /\ m = 3 /\ m <= n + 1
      BY <1>3, <3>1
    <3>3. /\ SubSeq(f, m, n) \in Seq(A) /\ Len(SubSeq(f, m, n)) = n - m + 1
          /\ \A i \in 1 .. n - m + 1 : SubSeq(f, m, n)[i] = f[m + i - 1]
      BY <3>2, PartIs
    <3>4. PICK u \in Seq(A) : u = SubSeq(f, m, n) /\ Len(u) = n - m + 1
                              /\ \A i \in 1 .. n - m + 1 : u[i] = f[m + i - 1]
      BY <3>3
    <3>5. Len(u) = Len(t) /\ u = SubSeq(f, 3, Len(f))
      BY <1>3, <3>1, <3>2, <3>4
    <3>6. \A i \in 1 .. Len(u) : u[i] = f[i + 2]
      <4> TAKE i \in 1 .. Len(u)
      <4>1. i \in 1 .. n - m + 1 /\ m + i - 1 = i + 2
        BY <1>3, <3>1, <3>2, <3>5
      <4> QED
        BY <3>4, <4>1
    <3> QED
      BY <3>5, <3>6
  <2>2. \A i \in 1 .. Len(u) : u[i] = t[i]
    <3> TAKE i \in 1 .. Len(u)
    <3>1. i \in 1 .. Len(t) /\ i + 1 \in 1 .. Len(g) /\ (i + 1) + 1 = i + 2
      BY <1>1, <1>3, <2>1
    <3>2. f[(i + 1) + 1] = g[i + 1] /\ g[i + 1] = t[i]
      BY <1>1, <1>2, <3>1
    <3> QED
      BY <2>1, <3>1, <3>2
  <2> QED
    BY <1>3, <2>1, <2>2, SeqEqual
<1> QED
  BY <1>1, <1>2, <1>5, <1>6 DEF Text

\* One field more at the front is the one with the key, if it has it and no other
\* does; if it has another key, nothing changes.
LEMMA ValueNext ==
    ASSUME NEW A, NEW k \in A, NEW colon \in A, NEW t \in Text(A), NEW q \in List(A), NEW key
    PROVE  LET p == Cons(Cons(k, Cons(colon, t)), q)
           IN /\ k # key => /\ ValueOf(p, key, colon) = ValueOf(q, key, colon)
                            /\ KeyedBy(q, key, colon) = {} => KeyedBy(p, key, colon) = {}
              /\ k = key /\ KeyedBy(q, key, colon) = {} => ValueOf(p, key, colon) = t
<1>1. PICK f \in Text(A) : /\ f = Cons(k, Cons(colon, t)) /\ (HasKey(f, key, colon) <=> k = key)
                           /\ SubSeq(f, 3, Len(f)) = t
  BY KeyAndValue
<1>2. q \in Seq(Text(A)) /\ Len(q) \in Nat /\ DOMAIN q = 1 .. Len(q)
  BY DEF List
<1>3. PICK p \in Seq(Text(A)) : /\ p = Cons(f, q) /\ Len(p) = Len(q) + 1 /\ p[1] = f
                                /\ \A i \in 1 .. Len(q) : p[i + 1] = q[i]
  <2> DEFINE X == Text(A)
  <2> HIDE DEF X
  <2>1. f \in X /\ q \in Seq(X)
    BY <1>2 DEF X
  <2>2. /\ Cons(f, q) \in Seq(X) /\ Len(Cons(f, q)) = Len(q) + 1 /\ Cons(f, q)[1] = f
        /\ \A i \in 1 .. Len(q) : Cons(f, q)[i + 1] = q[i]
    BY <2>1, OneBefore
  <2> QED
    BY <2>2 DEF X
<1>4. DOMAIN p = 1 .. Len(q) + 1
  BY <1>2, <1>3
<1> DEFINE K == KeyedBy(p, key, colon)
           M == KeyedBy(q, key, colon)
<1>5. K \subseteq 1 .. Len(q) + 1 /\ M \subseteq 1 .. Len(q)
  BY <1>2, <1>4 DEF KeyedBy
<1>6. 1 \in K <=> k = key
  BY <1>1, <1>2, <1>3, <1>4 DEF KeyedBy
<1>7. \A i \in 1 .. Len(q) : i + 1 \in K <=> i \in M
  BY <1>2, <1>3, <1>4 DEF KeyedBy
<1>8. /\ ValueOf(p, key, colon) = IF K = {} THEN <<>> ELSE SubSeq(p[Max(K)], 3, Len(p[Max(K)]))
      /\ ValueOf(q, key, colon) = IF M = {} THEN <<>> ELSE SubSeq(q[Max(M)], 3, Len(q[Max(M)]))
  BY Zenon DEF ValueOf
<1> HIDE DEF K, M
<1>9. \A i \in K : i = 1 \/ (i - 1 \in M /\ i - 1 \in 1 .. Len(q))
  <2> TAKE i \in K
  <2>1. CASE i # 1
    <3>1. i - 1 \in 1 .. Len(q) /\ (i - 1) + 1 = i
      BY <1>2, <1>5, <2>1
    <3> QED
      BY <1>7, <3>1
  <2> QED
    BY <2>1
<1>10. CASE k # key
  <2>1. M = {} => K = {}
    BY <1>6, <1>9, <1>10
  <2>2. CASE M # {}
    <3>1. PICK m \in M : m = Max(M) /\ \A i \in M : i <= m
      <4>1. M \in SUBSET (0 .. Len(q))
        BY <1>2, <1>5
      <4> QED
        BY <1>2, <2>2, <4>1, MaxIsIn
    <3>2. m \in 1 .. Len(q) /\ m + 1 \in K
      BY <1>5, <1>7, <3>1
    <3>3. PICK n \in K : n = Max(K) /\ \A i \in K : i <= n
      <4>1. K \in SUBSET (0 .. Len(q) + 1) /\ Len(q) + 1 \in Nat
        BY <1>2, <1>5
      <4> QED
        BY <3>2, <4>1, MaxIsIn
    <3>4. n = m + 1
      <4>1. n \in 1 .. Len(q) + 1 /\ m + 1 <= n /\ n # 1
        BY <1>2, <1>5, <1>6, <1>10, <3>2, <3>3
      <4>2. n - 1 \in M
        BY <1>9, <3>3, <4>1
      <4>3. n - 1 <= m
        BY <3>1, <4>2
      <4> QED
        BY <1>2, <3>2, <4>1, <4>3
    <3>5. p[n] = q[m]
      BY <1>3, <3>2, <3>4
    <3>6. K # {}
      BY <3>2
    <3> QED
      BY <1>1, <1>3, <1>8, <1>10, <2>2, <3>1, <3>3, <3>5, <3>6, Zenon DEF K, M
  <2> QED
    BY <1>1, <1>3, <1>8, <1>10, <2>1, <2>2, Zenon DEF K, M
<1>11. CASE k = key /\ M = {}
  <2>1. K = {1}
    BY <1>6, <1>9, <1>11
  <2>2. PICK n \in K : n = Max(K)
    <3>1. K \in SUBSET (0 .. 1) /\ K # {} /\ 1 \in Nat
      BY <2>1
    <3> QED
      BY <3>1, MaxIsIn
  <2>3. p[Max(K)] = f
    BY <1>3, <2>1, <2>2
  <2>4. ValueOf(p, key, colon) = t
    BY <1>1, <1>8, <2>1, <2>3
  <2> QED
    BY <1>1, <1>3, <1>11, <2>4, Zenon
<1> QED
  BY <1>1, <1>3, <1>10, <1>11, Zenon DEF M

\* Texts put together from the left are so from the right.
Texts(A, t1, t2, t3, t4, t5, t6) ==
    t1 \in Text(A) /\ t2 \in Text(A) /\ t3 \in Text(A) /\ t4 \in Text(A) /\ t5 \in Text(A) /\ t6 \in Text(A)
Regrouped(t1, t2, t3, t4, t5, t6) ==
    ((((t1 \o t2) \o t3) \o t4) \o t5) \o t6 = t1 \o (t2 \o (t3 \o (t4 \o (t5 \o t6))))

\* Six texts, put together in either order.
LEMMA SixInARow ==
    ASSUME NEW A, NEW t1, NEW t2, NEW t3, NEW t4, NEW t5, NEW t6, Texts(A, t1, t2, t3, t4, t5, t6)
    PROVE  Regrouped(t1, t2, t3, t4, t5, t6)
<1>1. t1 \in Text(A)
  BY DEF Texts
<1>2. t2 \in Text(A)
  BY DEF Texts
<1>3. t3 \in Text(A)
  BY DEF Texts
<1>4. t4 \in Text(A)
  BY DEF Texts
<1>5. t5 \in Text(A)
  BY DEF Texts
<1>6. t6 \in Text(A)
  BY DEF Texts
<1>7. t1 \o t2 \in Text(A)
  BY <1>1, <1>2, TextAfterText
<1>8. (t1 \o t2) \o t3 \in Text(A)
  BY <1>3, <1>7, TextAfterText
<1>9. ((t1 \o t2) \o t3) \o t4 \in Text(A)
  BY <1>4, <1>8, TextAfterText
<1>10. t5 \o t6 \in Text(A)
  BY <1>5, <1>6, TextAfterText
<1>11. t4 \o (t5 \o t6) \in Text(A)
  BY <1>4, <1>10, TextAfterText
<1>12. t3 \o (t4 \o (t5 \o t6)) \in Text(A)
  BY <1>3, <1>11, TextAfterText
<1>0. PutTogether(A)
  BY ThreeTogether
<1>13. ((((t1 \o t2) \o t3) \o t4) \o t5) \o t6 = (((t1 \o t2) \o t3) \o t4) \o (t5 \o t6)
  BY <1>0, <1>5, <1>6, <1>9, Zenon DEF PutTogether
<1>14. (((t1 \o t2) \o t3) \o t4) \o (t5 \o t6) = ((t1 \o t2) \o t3) \o (t4 \o (t5 \o t6))
  BY <1>0, <1>4, <1>8, <1>10, Zenon DEF PutTogether
<1>15. ((t1 \o t2) \o t3) \o (t4 \o (t5 \o t6)) = (t1 \o t2) \o (t3 \o (t4 \o (t5 \o t6)))
  BY <1>0, <1>3, <1>7, <1>11, Zenon DEF PutTogether
<1>16. (t1 \o t2) \o (t3 \o (t4 \o (t5 \o t6))) = t1 \o (t2 \o (t3 \o (t4 \o (t5 \o t6))))
  BY <1>0, <1>1, <1>2, <1>12, Zenon DEF PutTogether
<1> QED
  BY <1>13, <1>14, <1>15, <1>16, Zenon DEF Regrouped

\* Some symbols before a text, of any kind.
ThreeFirst(x, y, z, t) == <<x, y, z>> \o t = Cons(x, Cons(y, Cons(z, t)))
FourFirst(x, y, z, w, t) == <<x, y, z, w>> \o t = Cons(x, Cons(y, Cons(z, Cons(w, t))))
FiveFirst(v, x, y, z, w, t) == <<v, x, y, z, w>> \o t = Cons(v, Cons(x, Cons(y, Cons(z, Cons(w, t)))))

\* Some symbols before a text, whether or not they are of its symbols.
LEMMA SymbolsBefore ==
    ASSUME NEW A, NEW t \in Text(A), NEW v, NEW w, NEW x, NEW y, NEW z
    PROVE  ThreeFirst(x, y, z, t) /\ FourFirst(x, y, z, w, t) /\ FiveFirst(v, x, y, z, w, t)
<1> DEFINE B == A \cup {v, w, x, y, z}
<1>1. A \subseteq B /\ v \in B /\ w \in B /\ x \in B /\ y \in B /\ z \in B
  OBVIOUS
<1> HIDE DEF B
<1>2. t \in Text(B)
  BY <1>1, SeqMonotonic DEF Text
<1>3. <<x, y, z>> \o t = Cons(x, Cons(y, Cons(z, t)))
  BY <1>1, <1>2, ThreeBefore
<1>4. <<x, y, z, w>> \o t = Cons(x, Cons(y, Cons(z, Cons(w, t))))
  BY <1>1, <1>2, FourBefore
<1>5. <<v, x, y, z, w>> \o t = Cons(v, Cons(x, Cons(y, Cons(z, Cons(w, t)))))
  BY <1>1, <1>2, FiveBefore
<1> QED
  BY <1>3, <1>4, <1>5, Zenon DEF ThreeFirst, FourFirst, FiveFirst

\* The rest of a text.
LEMMA RestOfText ==
    ASSUME NEW A, NEW x \in A, NEW t \in Text(A)
    PROVE  Tail(Cons(x, t)) = t
<1>1. PICK s \in Seq(A) : /\ s = Cons(x, t) /\ s # <<>> /\ Len(s) = Len(t) + 1
                          /\ \A i \in 1 .. Len(t) : s[i + 1] = t[i]
  BY OneBefore DEF Text
<1>2. t \in Seq(A) /\ Len(t) \in Nat
  BY DEF Text
<1>3. Tail(s) \in Seq(A) /\ Len(Tail(s)) = Len(t) /\ \A i \in 1 .. Len(t) : Tail(s)[i] = s[i + 1]
  BY <1>1, <1>2
<1>4. Tail(s) = t
  BY <1>1, <1>2, <1>3, SeqEqual
<1> QED
  BY <1>1, <1>4

\* A field as it is written: key, colon, the text escaped, and the mark at its end.
Field(esc, sep, colon, specials, k, t, r) ==
    Cons(k, Cons(colon, EscapedBy(esc, t, specials) \o Cons(sep, r)))

\* A field is read as it was written, before the others.
LEMMA FieldOff ==
    ASSUME NEW A, NEW esc \in A, NEW sep \in A, sep # esc, NEW specials, esc \in specials, sep \in specials,
           NEW colon \in A, colon # esc, colon # sep, NEW k \in A, k # esc, k # sep,
           NEW t \in Text(A), NEW r \in Text(A)
    PROVE  /\ Field(esc, sep, colon, specials, k, t, r) \in Text(A)
           /\ Kept(FieldsBy(esc, sep, r)) \in List(A)
           /\ Kept(FieldsBy(esc, sep, Field(esc, sep, colon, specials, k, t, r))) =
                 Cons(Cons(k, Cons(colon, t)), Kept(FieldsBy(esc, sep, r)))
<1>1. PICK q \in Pieces(A) : q = FieldsBy(esc, sep, r)
  BY FieldsType
<1>2. q \in List(A)
  BY DEF Pieces
<1>3. PICK s \in Text(A) : s = Cons(sep, r)
  BY LongerText
<1>4. FieldsBy(esc, sep, s) = Cons(<<>>, q)
  BY <1>1, <1>3, FieldsNext
<1>5. PICK h \in Text(A) : h = <<>> /\ t \o h = t
  BY NoText, TextAfterText
<1>6. PICK e \in Text(A) : e = EscapedBy(esc, t, specials) \o s
  <2>1. PICK u \in Text(A) : u = EscapedBy(esc, t, specials)
    BY EscapedType
  <2>2. u \o s \in Text(A)
    BY TextAfterText
  <2> QED
    BY <2>1, <2>2
<1>7. FieldsBy(esc, sep, e) = Cons(t, q)
  <2>1. FieldsBy(esc, sep, s) = Cons(h, q)
    BY <1>4, <1>5, Zenon
  <2>2. FieldsBy(esc, sep, EscapedBy(esc, t, specials) \o s) = Cons(t \o h, q)
    BY <1>2, <2>1, FieldsEscaped
  <2> QED
    BY <1>5, <1>6, <2>2, Zenon
<1>8. PICK e2 \in Text(A), t2 \in Text(A) : e2 = Cons(colon, e) /\ t2 = Cons(colon, t)
  BY LongerText
<1>9. FieldsBy(esc, sep, e2) = Cons(t2, q)
  <2>1. FieldsBy(esc, sep, Cons(colon, e)) = Cons(Cons(colon, t), q)
    BY <1>2, <1>7, FieldsPlain
  <2> QED
    BY <1>8, <2>1, Zenon
<1>10. PICK e3 \in Text(A), t3 \in Text(A) : e3 = Cons(k, e2) /\ t3 = Cons(k, t2)
  BY LongerText
<1>11. FieldsBy(esc, sep, e3) = Cons(t3, q)
  <2>1. FieldsBy(esc, sep, Cons(k, e2)) = Cons(Cons(k, t2), q)
    BY <1>2, <1>9, FieldsPlain
  <2> QED
    BY <1>10, <2>1, Zenon
<1>12. Kept(Cons(t3, q)) = Cons(t3, Kept(q)) /\ Kept(q) \in List(A)
  BY KeptFurther
<1>13. e3 = Field(esc, sep, colon, specials, k, t, r) /\ t3 = Cons(k, Cons(colon, t))
  BY <1>3, <1>6, <1>8, <1>10, Zenon DEF Field
<1> QED
  BY <1>1, <1>11, <1>12, <1>13, Zenon

\* A format: what escapes, what ends a field, what ends its key, what is escaped;
\* and a key of it.
MarksOf(A, esc, sep, colon, specials) ==
    /\ esc \in A /\ sep \in A /\ colon \in A
    /\ sep # esc /\ colon # esc /\ colon # sep
    /\ esc \in specials /\ sep \in specials

Plain(A, k, specials) == k \in A /\ k \notin specials

ValueIn(esc, sep, colon, r, key) == ValueOf(Kept(FieldsBy(esc, sep, r)), key, colon)
Lacks(esc, sep, colon, r, key) == KeyedBy(Kept(FieldsBy(esc, sep, r)), key, colon) = {}

\* The field written first is read, and the others are as without it.
LEMMA FieldIsRead ==
    ASSUME NEW A, NEW esc, NEW sep, NEW colon, NEW specials, MarksOf(A, esc, sep, colon, specials),
           NEW k, Plain(A, k, specials), NEW t \in Text(A), NEW r \in Text(A)
    PROVE  /\ Field(esc, sep, colon, specials, k, t, r) \in Text(A)
           /\ Lacks(esc, sep, colon, r, k) =>
                 ValueIn(esc, sep, colon, Field(esc, sep, colon, specials, k, t, r), k) = t
           /\ \A key : key # k =>
                 /\ ValueIn(esc, sep, colon, Field(esc, sep, colon, specials, k, t, r), key) =
                       ValueIn(esc, sep, colon, r, key)
                 /\ Lacks(esc, sep, colon, r, key) =>
                       Lacks(esc, sep, colon, Field(esc, sep, colon, specials, k, t, r), key)
<1>1. /\ esc \in A /\ sep \in A /\ colon \in A /\ sep # esc /\ colon # esc /\ colon # sep
      /\ esc \in specials /\ sep \in specials
  BY DEF MarksOf
<1>2. k \in A /\ k # esc /\ k # sep
  BY <1>1 DEF Plain
<1>3. PICK q \in List(A) : q = Kept(FieldsBy(esc, sep, r))
  BY <1>1, <1>2, FieldOff
<1> DEFINE s == Field(esc, sep, colon, specials, k, t, r)
<1>4. s \in Text(A)
  BY <1>1, <1>2, FieldOff
<1>5. Kept(FieldsBy(esc, sep, s)) = Cons(Cons(k, Cons(colon, t)), q)
  BY <1>1, <1>2, <1>3, FieldOff
<1>6. ASSUME NEW key
      PROVE  LET p == Cons(Cons(k, Cons(colon, t)), q)
             IN /\ k # key => /\ ValueOf(p, key, colon) = ValueOf(q, key, colon)
                              /\ KeyedBy(q, key, colon) = {} => KeyedBy(p, key, colon) = {}
                /\ k = key /\ KeyedBy(q, key, colon) = {} => ValueOf(p, key, colon) = t
  BY <1>1, <1>2, ValueNext
<1> HIDE DEF s
<1>7. ASSUME NEW key, key # k
      PROVE  /\ ValueIn(esc, sep, colon, s, key) = ValueIn(esc, sep, colon, r, key)
             /\ Lacks(esc, sep, colon, r, key) => Lacks(esc, sep, colon, s, key)
  BY <1>3, <1>5, <1>6, <1>7, Zenon DEF ValueIn, Lacks
<1>8. Lacks(esc, sep, colon, r, k) => ValueIn(esc, sep, colon, s, k) = t
  BY <1>3, <1>5, <1>6, Zenon DEF ValueIn, Lacks
<1>9. \A key : key # k =>
         /\ ValueIn(esc, sep, colon, s, key) = ValueIn(esc, sep, colon, r, key)
         /\ Lacks(esc, sep, colon, r, key) => Lacks(esc, sep, colon, s, key)
  BY <1>7
<1> QED
  BY <1>4, <1>8, <1>9, Zenon DEF s

\* After the last field there is none.
LEMMA NoFieldLeft ==
    ASSUME NEW A, NEW esc, NEW sep, NEW colon, NEW specials, MarksOf(A, esc, sep, colon, specials), NEW key
    PROVE  /\ <<sep>> \in Text(A)
           /\ Lacks(esc, sep, colon, <<sep>>, key)
           /\ ValueIn(esc, sep, colon, <<sep>>, key) = <<>>
<1>1. esc \in A /\ sep \in A /\ sep # esc
  BY DEF MarksOf
<1>2. <<sep>> \in Text(A) /\ <<sep>> = Cons(sep, <<>>)
  <2>1. <<sep>> \in Seq(A)
    BY <1>1
  <2>2. <<sep>> \o <<>> = <<sep>>
    BY <2>1, ConcatEmptySeq
  <2> QED
    BY <2>1, <2>2 DEF Text, Cons
<1>3. FieldsBy(esc, sep, <<sep>>) = Cons(<<>>, << <<>> >>)
  <2>1. PICK e \in Text(A) : e = <<>>
    BY NoText
  <2>2. FieldsBy(esc, sep, Cons(sep, e)) = Cons(<<>>, FieldsBy(esc, sep, e))
    BY <1>1, FieldsNext
  <2>3. FieldsBy(esc, sep, <<>>) = << <<>> >>
    BY <1>1, FieldsOfNothing
  <2> QED
    BY <1>2, <2>1, <2>2, <2>3, Zenon
<1>4. Kept(FieldsBy(esc, sep, <<sep>>)) = << <<>> >>
  <2>1. PICK e \in Text(A) : e = <<>>
    BY NoText
  <2>2. Last(Cons(e, <<e>>)) = e /\ Front(Cons(e, <<e>>)) = <<e>>
    BY KeptAtTheEnd
  <2> QED
    BY <1>3, <2>1, <2>2, Zenon DEF Kept
<1>5. KeyedBy(<< <<>> >>, key, colon) = {}
  <2>1. ~HasKey(<<>>, key, colon)
    BY DEF HasKey
  <2>2. \A i \in DOMAIN << <<>> >> : << <<>> >>[i] = <<>>
    OBVIOUS
  <2> QED
    BY <2>1, <2>2, Zenon DEF KeyedBy
<1>6. ValueOf(<< <<>> >>, key, colon) = <<>>
  BY <1>5, Zenon DEF ValueOf
<1> QED
  BY <1>2, <1>4, <1>5, <1>6, Zenon DEF Lacks, ValueIn

-----------------------------------------------------------------------------
(* The fields of a network.                                                *)

\* A text of one symbol that needs no escape.
LEMMA OneSymbol ==
    ASSUME NEW A, NEW esc \in A, NEW specials, NEW x \in A, x \notin specials
    PROVE  /\ <<x>> \in Text(A) /\ <<x>> = Cons(x, <<>>)
           /\ EscapedBy(esc, <<x>>, specials) = <<x>>
           /\ \A r \in Text(A) : <<x>> \o r = Cons(x, r)
<1>1. <<x>> \in Text(A) /\ <<x>> = Cons(x, <<>>)
  <2>1. <<x>> \in Seq(A)
    OBVIOUS
  <2>2. <<x>> \o <<>> = <<x>>
    BY <2>1, ConcatEmptySeq
  <2> QED
    BY <2>1, <2>2 DEF Text, Cons
<1>2. EscapedBy(esc, <<x>>, specials) = <<x>>
  <2>1. PICK e \in Text(A) : e = <<>>
    BY NoText
  <2>2. EscapedBy(esc, Cons(x, e), specials) = Cons(x, EscapedBy(esc, e, specials))
    BY EscapedNext
  <2>3. EscapedBy(esc, <<>>, specials) = <<>>
    BY EscapedNothing
  <2> QED
    BY <1>1, <2>1, <2>2, <2>3, Zenon
<1> QED
  BY <1>1, <1>2, Zenon DEF Cons

\* The fields of a network, the last two of which may be missing.
HiddenPart(esc, sep, colon, specials, H, yes, h) ==
    IF h THEN Field(esc, sep, colon, specials, H, <<yes>>, <<sep>>) ELSE <<sep>>
PasswordPart(esc, sep, colon, specials, P, p, pw, r) ==
    IF p THEN Field(esc, sep, colon, specials, P, pw, r) ELSE r
NetworkFields(esc, sep, colon, specials, S, T, ssid, auth, r) ==
    Field(esc, sep, colon, specials, S, ssid, Field(esc, sep, colon, specials, T, <<auth>>, r))

Keys(A, specials, S, T, P, H) ==
    /\ Plain(A, S, specials) /\ Plain(A, T, specials) /\ Plain(A, P, specials) /\ Plain(A, H, specials)
    /\ S # T /\ S # P /\ S # H /\ T # P /\ T # H /\ P # H

\* The last field, written or not, is read as it was written, and it is the only one.
LEMMA HiddenIsRead ==
    ASSUME NEW A, NEW esc, NEW sep, NEW colon, NEW specials, MarksOf(A, esc, sep, colon, specials),
           NEW H, Plain(A, H, specials), NEW yes \in A, NEW h \in BOOLEAN
    PROVE  LET r == HiddenPart(esc, sep, colon, specials, H, yes, h)
           IN /\ r \in Text(A)
              /\ ValueIn(esc, sep, colon, r, H) = IF h THEN <<yes>> ELSE <<>>
              /\ \A key : key # H => /\ Lacks(esc, sep, colon, r, key)
                                     /\ ValueIn(esc, sep, colon, r, key) = <<>>
<1>1. PICK z \in Text(A) : z = <<sep>>
  BY NoFieldLeft
<1>2. \A key : Lacks(esc, sep, colon, z, key) /\ ValueIn(esc, sep, colon, z, key) = <<>>
  BY <1>1, NoFieldLeft
<1>3. PICK y \in Text(A) : y = <<yes>>
  <2>1. <<yes>> \in Seq(A)
    OBVIOUS
  <2> QED
    BY <2>1 DEF Text
<1>4. /\ Field(esc, sep, colon, specials, H, y, z) \in Text(A)
      /\ Lacks(esc, sep, colon, z, H) =>
            ValueIn(esc, sep, colon, Field(esc, sep, colon, specials, H, y, z), H) = y
      /\ \A key : key # H =>
            /\ ValueIn(esc, sep, colon, Field(esc, sep, colon, specials, H, y, z), key) =
                  ValueIn(esc, sep, colon, z, key)
            /\ Lacks(esc, sep, colon, z, key) =>
                  Lacks(esc, sep, colon, Field(esc, sep, colon, specials, H, y, z), key)
  BY FieldIsRead
<1>5. CASE h
  BY <1>1, <1>2, <1>3, <1>4, <1>5, Zenon DEF HiddenPart
<1>6. CASE ~h
  BY <1>1, <1>2, <1>6, Zenon DEF HiddenPart
<1> QED
  BY <1>5, <1>6

\* The field before it, written or not, is read as it was written, and no other.
LEMMA PasswordIsRead ==
    ASSUME NEW A, NEW esc, NEW sep, NEW colon, NEW specials, MarksOf(A, esc, sep, colon, specials),
           NEW P, Plain(A, P, specials), NEW p \in BOOLEAN, NEW pw \in Text(A), NEW r \in Text(A),
           Lacks(esc, sep, colon, r, P), ValueIn(esc, sep, colon, r, P) = <<>>
    PROVE  LET s == PasswordPart(esc, sep, colon, specials, P, p, pw, r)
           IN /\ s \in Text(A)
              /\ ValueIn(esc, sep, colon, s, P) = IF p THEN pw ELSE <<>>
              /\ \A key : key # P =>
                    /\ ValueIn(esc, sep, colon, s, key) = ValueIn(esc, sep, colon, r, key)
                    /\ Lacks(esc, sep, colon, r, key) => Lacks(esc, sep, colon, s, key)
<1>1. /\ Field(esc, sep, colon, specials, P, pw, r) \in Text(A)
      /\ Lacks(esc, sep, colon, r, P) =>
            ValueIn(esc, sep, colon, Field(esc, sep, colon, specials, P, pw, r), P) = pw
      /\ \A key : key # P =>
            /\ ValueIn(esc, sep, colon, Field(esc, sep, colon, specials, P, pw, r), key) =
                  ValueIn(esc, sep, colon, r, key)
            /\ Lacks(esc, sep, colon, r, key) =>
                  Lacks(esc, sep, colon, Field(esc, sep, colon, specials, P, pw, r), key)
  BY FieldIsRead
<1>2. CASE p
  BY <1>1, <1>2, Zenon DEF PasswordPart
<1>3. CASE ~p
  BY <1>3, Zenon DEF PasswordPart
<1> QED
  BY <1>2, <1>3

\* A network is read as it was written.
LEMMA NetworkIsRead ==
    ASSUME NEW A, NEW esc, NEW sep, NEW colon, NEW specials, MarksOf(A, esc, sep, colon, specials),
           NEW S, NEW T, NEW P, NEW H, Keys(A, specials, S, T, P, H), NEW yes \in A, NEW h \in BOOLEAN,
           NEW p \in BOOLEAN, NEW pw \in Text(A), NEW ssid \in Text(A), NEW auth \in A
    PROVE  LET r2 == HiddenPart(esc, sep, colon, specials, H, yes, h)
               r1 == PasswordPart(esc, sep, colon, specials, P, p, pw, r2)
               body == NetworkFields(esc, sep, colon, specials, S, T, ssid, auth, r1)
           IN /\ body \in Text(A)
              /\ ValueIn(esc, sep, colon, body, S) = ssid
              /\ ValueIn(esc, sep, colon, body, T) = <<auth>>
              /\ ValueIn(esc, sep, colon, body, P) = IF p THEN pw ELSE <<>>
              /\ ValueIn(esc, sep, colon, body, H) = IF h THEN <<yes>> ELSE <<>>
<1> DEFINE r2 == HiddenPart(esc, sep, colon, specials, H, yes, h)
           r1 == PasswordPart(esc, sep, colon, specials, P, p, pw, r2)
           r0 == Field(esc, sep, colon, specials, T, <<auth>>, r1)
           body == NetworkFields(esc, sep, colon, specials, S, T, ssid, auth, r1)
           V(r, key) == ValueIn(esc, sep, colon, r, key)
           L(r, key) == Lacks(esc, sep, colon, r, key)
<1>1. /\ Plain(A, S, specials) /\ Plain(A, T, specials) /\ Plain(A, P, specials) /\ Plain(A, H, specials)
      /\ S # T /\ S # P /\ S # H /\ T # P /\ T # H /\ P # H
  BY DEF Keys
<1>2. /\ r2 \in Text(A)
      /\ V(r2, H) = IF h THEN <<yes>> ELSE <<>>
      /\ \A key : key # H => L(r2, key) /\ V(r2, key) = <<>>
  BY <1>1, HiddenIsRead
<1> HIDE DEF r2
<1>3. /\ r1 \in Text(A)
      /\ V(r1, P) = IF p THEN pw ELSE <<>>
      /\ \A key : key # P => V(r1, key) = V(r2, key) /\ (L(r2, key) => L(r1, key))
  <2>1. L(r2, P) /\ V(r2, P) = <<>>
    BY <1>1, <1>2
  <2> QED
    BY <1>1, <1>2, <2>1, PasswordIsRead
<1> HIDE DEF r1
<1>4. <<auth>> \in Text(A)
  <2>1. <<auth>> \in Seq(A)
    OBVIOUS
  <2> QED
    BY <2>1 DEF Text
<1>5. /\ r0 \in Text(A)
      /\ L(r1, T) => V(r0, T) = <<auth>>
      /\ \A key : key # T => V(r0, key) = V(r1, key) /\ (L(r1, key) => L(r0, key))
  BY <1>1, <1>3, <1>4, FieldIsRead
<1> HIDE DEF r0
<1>6. /\ Field(esc, sep, colon, specials, S, ssid, r0) \in Text(A)
      /\ L(r0, S) => V(Field(esc, sep, colon, specials, S, ssid, r0), S) = ssid
      /\ \A key : key # S => V(Field(esc, sep, colon, specials, S, ssid, r0), key) = V(r0, key)
  BY <1>1, <1>5, FieldIsRead
<1>7. body = Field(esc, sep, colon, specials, S, ssid, r0)
  BY DEF NetworkFields, r0
<1> HIDE DEF body, V, L
<1>8. L(r1, T) /\ L(r1, S) /\ L(r0, S)
  BY <1>1, <1>2, <1>3, <1>5
<1>9. V(body, S) = ssid /\ V(body, T) = <<auth>>
  BY <1>1, <1>5, <1>6, <1>7, <1>8
<1>10. V(body, P) = V(r1, P) /\ V(body, H) = V(r2, H)
  BY <1>1, <1>3, <1>5, <1>6, <1>7
<1> QED
  BY <1>2, <1>3, <1>6, <1>7, <1>9, <1>10 DEF V, body, r1, r2

-----------------------------------------------------------------------------
(* The text of a network, as it is written.                                *)

\* The parts of a network that may be missing, as they are written.
PasswordText(esc, sep, colon, specials, P, p, pw) ==
    IF p THEN <<P, colon>> \o EscapedBy(esc, pw, specials) \o <<sep>> ELSE <<>>
HiddenText(sep, colon, H, yes, h) == IF h THEN <<H, colon, yes, sep>> ELSE <<>>

\* A network as the Create page writes it.
WifiText(esc, sep, colon, specials, w, S, T, P, H, yes, ssid, auth, p, pw, h) ==
    <<w, S, colon>> \o EscapedBy(esc, ssid, specials) \o <<sep, T, colon, auth, sep>>
    \o PasswordText(esc, sep, colon, specials, P, p, pw) \o HiddenText(sep, colon, H, yes, h) \o <<sep>>

\* The part with the password, before another.
LEMMA PasswordIsWritten ==
    ASSUME NEW A, NEW esc, NEW sep, NEW colon, NEW specials, MarksOf(A, esc, sep, colon, specials),
           NEW P \in A, NEW p \in BOOLEAN, NEW pw \in Text(A), NEW r \in Text(A)
    PROVE  /\ PasswordText(esc, sep, colon, specials, P, p, pw) \in Text(A)
           /\ PasswordText(esc, sep, colon, specials, P, p, pw) \o r =
                 PasswordPart(esc, sep, colon, specials, P, p, pw, r)
<1>1. esc \in A /\ sep \in A /\ colon \in A
  BY DEF MarksOf
<1> DEFINE u == EscapedBy(esc, pw, specials)
<1>2. u \in Text(A)
  BY <1>1, EscapedType
<1> HIDE DEF u
<1>3. <<sep>> \in Text(A) /\ \A s \in Text(A) : <<sep>> \o s = Cons(sep, s)
  <2>1. <<sep>> \in Seq(A)
    BY <1>1
  <2> QED
    BY <2>1 DEF Text, Cons
<1>4. <<P, colon>> \in Text(A)
  <2>1. <<P, colon>> \in Seq(A)
    BY <1>1
  <2> QED
    BY <2>1 DEF Text
<1>5. \A s \in Text(A) : <<P, colon>> \o s = Cons(P, Cons(colon, s))
  <2> TAKE s \in Text(A)
  <2> QED
    BY <1>1, TwoBefore
<1>6. <<P, colon>> \o u \in Text(A)
  BY <1>2, <1>4, TextAfterText
<1>7. (<<P, colon>> \o u) \o <<sep>> \in Text(A)
  BY <1>3, <1>6, TextAfterText
<1>8. ((<<P, colon>> \o u) \o <<sep>>) \o r = Cons(P, Cons(colon, u \o Cons(sep, r)))
  <2>0. PutTogether(A)
    BY ThreeTogether
  <2>1. ((<<P, colon>> \o u) \o <<sep>>) \o r = (<<P, colon>> \o u) \o (<<sep>> \o r)
    BY <1>3, <1>6, <2>0, Zenon DEF PutTogether
  <2>2. <<sep>> \o r \in Text(A)
    BY <1>3, TextAfterText
  <2>3. (<<P, colon>> \o u) \o (<<sep>> \o r) = <<P, colon>> \o (u \o (<<sep>> \o r))
    BY <1>2, <1>4, <2>0, <2>2, Zenon DEF PutTogether
  <2>4. u \o (<<sep>> \o r) \in Text(A)
    BY <1>2, <2>2, TextAfterText
  <2>5. <<P, colon>> \o (u \o (<<sep>> \o r)) = Cons(P, Cons(colon, u \o (<<sep>> \o r)))
    BY <1>5, <2>4, Zenon
  <2>6. <<sep>> \o r = Cons(sep, r)
    BY <1>3, Zenon
  <2> QED
    BY <2>1, <2>3, <2>5, <2>6, Zenon
<1>9. CASE p
  BY <1>7, <1>8, <1>9, Zenon DEF u, PasswordPart, PasswordText, Field
<1>10. CASE ~p
  <2>1. <<>> \in Text(A) /\ <<>> \o r = r
    BY NoText, TextAfterText
  <2> QED
    BY <1>10, <2>1, Zenon DEF PasswordPart, PasswordText
<1> QED
  BY <1>9, <1>10

\* The part that says that the network is hidden, and the end.
HiddenWritten(A, esc, sep, colon, specials, H, yes, h) ==
    /\ HiddenText(sep, colon, H, yes, h) \in Text(A)
    /\ HiddenText(sep, colon, H, yes, h) \o <<sep>> = HiddenPart(esc, sep, colon, specials, H, yes, h)
    /\ HiddenPart(esc, sep, colon, specials, H, yes, h) \in Text(A)

\* It is written as it is read.
LEMMA HiddenIsWritten ==
    ASSUME NEW A, NEW esc, NEW sep, NEW colon, NEW specials, MarksOf(A, esc, sep, colon, specials),
           NEW H \in A, NEW yes \in A, yes \notin specials, NEW h \in BOOLEAN
    PROVE  HiddenWritten(A, esc, sep, colon, specials, H, yes, h)
<1>1. esc \in A /\ sep \in A /\ colon \in A
  BY DEF MarksOf
<1>2. <<sep>> \in Text(A)
  <2>1. <<sep>> \in Seq(A)
    BY <1>1
  <2> QED
    BY <2>1 DEF Text
<1>3. <<H, colon, yes, sep>> \in Text(A)
  <2>1. <<H, colon, yes, sep>> \in Seq(A)
    BY <1>1
  <2> QED
    BY <2>1 DEF Text
<1>4. <<H, colon, yes, sep>> \o <<sep>> = Cons(H, Cons(colon, Cons(yes, Cons(sep, <<sep>>))))
  <2>1. FourFirst(H, colon, yes, sep, <<sep>>)
    BY <1>2, SymbolsBefore
  <2> QED
    BY <2>1, Zenon DEF FourFirst
<1>5. EscapedBy(esc, <<yes>>, specials) = <<yes>>
  BY <1>1, OneSymbol
<1>6. Cons(sep, <<sep>>) \in Text(A)
  BY <1>1, <1>2, LongerText
<1>7. <<yes>> \o Cons(sep, <<sep>>) = Cons(yes, Cons(sep, <<sep>>))
  BY Zenon DEF Cons
<1>8. <<H, colon, yes, sep>> \o <<sep>> = Field(esc, sep, colon, specials, H, <<yes>>, <<sep>>)
  BY <1>4, <1>5, <1>7, Zenon DEF Field
<1>9. <<H, colon, yes, sep>> \o <<sep>> \in Text(A)
  BY <1>2, <1>3, TextAfterText
<1>10. CASE h
  BY <1>3, <1>8, <1>9, <1>10, Zenon DEF HiddenPart, HiddenText, HiddenWritten
<1>11. CASE ~h
  <2>1. <<>> \in Text(A) /\ <<>> \o <<sep>> = <<sep>>
    BY <1>2, NoText, TextAfterText
  <2> QED
    BY <1>2, <1>11, <2>1, Zenon DEF HiddenPart, HiddenText, HiddenWritten
<1> QED
  BY <1>10, <1>11

\* All of it: the mark of the format, and the fields.
LEMMA NetworkIsWritten ==
    ASSUME NEW A, NEW esc, NEW sep, NEW colon, NEW specials, MarksOf(A, esc, sep, colon, specials),
           NEW S, NEW T, NEW P, NEW H, Keys(A, specials, S, T, P, H), NEW w \in A,
           NEW yes, Plain(A, yes, specials), NEW auth, Plain(A, auth, specials),
           NEW h \in BOOLEAN, NEW p \in BOOLEAN, NEW pw \in Text(A), NEW ssid \in Text(A)
    PROVE  LET r2 == HiddenPart(esc, sep, colon, specials, H, yes, h)
               r1 == PasswordPart(esc, sep, colon, specials, P, p, pw, r2)
               body == NetworkFields(esc, sep, colon, specials, S, T, ssid, auth, r1)
           IN WifiText(esc, sep, colon, specials, w, S, T, P, H, yes, ssid, auth, p, pw, h) = Cons(w, body)
<1>1. esc \in A /\ sep \in A /\ colon \in A
  BY DEF MarksOf
<1>2. S \in A /\ T \in A /\ P \in A /\ H \in A /\ yes \in A /\ auth \in A /\ yes \notin specials /\ auth \notin specials
  BY DEF Keys, Plain
<1> DEFINE r2 == HiddenPart(esc, sep, colon, specials, H, yes, h)
           r1 == PasswordPart(esc, sep, colon, specials, P, p, pw, r2)
           t1 == <<w, S, colon>>
           t2 == EscapedBy(esc, ssid, specials)
           t3 == <<sep, T, colon, auth, sep>>
           t4 == PasswordText(esc, sep, colon, specials, P, p, pw)
           t5 == HiddenText(sep, colon, H, yes, h)
           t6 == <<sep>>
<1>3. t5 \in Text(A) /\ t5 \o t6 = r2 /\ r2 \in Text(A)
  <2>1. H \in A /\ yes \in A /\ yes \notin specials
    BY <1>2
  <2>2. HiddenWritten(A, esc, sep, colon, specials, H, yes, h)
    BY <2>1, HiddenIsWritten
  <2> QED
    BY <2>2, Zenon DEF HiddenWritten
<1>4. t4 \in Text(A) /\ t4 \o r2 = r1
  <2> HIDE DEF r2
  <2> QED
    BY <1>2, <1>3, PasswordIsWritten
<1>5. t2 \in Text(A)
  BY <1>1, EscapedType
<1>6. t1 \in Text(A)
  <2>1. <<w, S, colon>> \in Seq(A)
    BY <1>1, <1>2
  <2> QED
    BY <2>1 DEF Text
<1>7. t3 \in Text(A)
  <2>1. <<sep, T, colon, auth, sep>> \in Seq(A)
    BY <1>1, <1>2
  <2> QED
    BY <2>1 DEF Text
<1>8. t6 \in Text(A)
  <2>1. <<sep>> \in Seq(A)
    BY <1>1
  <2> QED
    BY <2>1 DEF Text
<1>9. WifiText(esc, sep, colon, specials, w, S, T, P, H, yes, ssid, auth, p, pw, h) =
          ((((t1 \o t2) \o t3) \o t4) \o t5) \o t6
  BY Zenon DEF WifiText
<1> HIDE DEF t1, t2, t3, t4, t5, t6, r1, r2
<1>10. ((((t1 \o t2) \o t3) \o t4) \o t5) \o t6 = t1 \o (t2 \o (t3 \o (t4 \o (t5 \o t6))))
  <2>1. Texts(A, t1, t2, t3, t4, t5, t6)
    BY <1>3, <1>4, <1>5, <1>6, <1>7, <1>8 DEF Texts
  <2>2. Regrouped(t1, t2, t3, t4, t5, t6)
    BY <2>1, SixInARow
  <2> QED
    BY <2>2, Zenon DEF Regrouped
<1>11. r1 \in Text(A)
  BY <1>3, <1>4, TextAfterText
<1>12. t3 \o r1 = Cons(sep, Cons(T, Cons(colon, Cons(auth, Cons(sep, r1)))))
  <2>1. FiveFirst(sep, T, colon, auth, sep, r1)
    BY <1>11, SymbolsBefore
  <2> QED
    BY <2>1, Zenon DEF FiveFirst, t3
<1> DEFINE r0 == Field(esc, sep, colon, specials, T, <<auth>>, r1)
<1>13. t3 \o r1 = Cons(sep, r0)
  <2>1. EscapedBy(esc, <<auth>>, specials) = <<auth>> 
    BY <1>1, <1>2, OneSymbol
  <2>3. <<auth>> \o Cons(sep, r1) = Cons(auth, Cons(sep, r1))
    BY Zenon DEF Cons
  <2> QED
    BY <1>12, <2>1, <2>3, Zenon DEF Field
<1>14. t2 \o (t3 \o r1) \in Text(A)
  <2>1. t3 \o r1 \in Text(A)
    BY <1>7, <1>11, TextAfterText
  <2> QED
    BY <1>5, <2>1, TextAfterText
<1>15. t1 \o (t2 \o (t3 \o r1)) = Cons(w, Cons(S, Cons(colon, t2 \o (t3 \o r1))))
  <2>1. ThreeFirst(w, S, colon, t2 \o (t3 \o r1))
    BY <1>14, SymbolsBefore
  <2> QED
    BY <2>1, Zenon DEF ThreeFirst, t1
<1>16. t1 \o (t2 \o (t3 \o r1)) = Cons(w, NetworkFields(esc, sep, colon, specials, S, T, ssid, auth, r1))
  BY <1>13, <1>15, Zenon DEF t2, NetworkFields, Field
<1> QED
  BY <1>3, <1>4, <1>9, <1>10, <1>16, Zenon DEF r1, r2

-----------------------------------------------------------------------------
(* A network comes back.                                                   *)

\* The marks of a format differ, and its words need no escape.
Marks(esc, sep, colon, specials) ==
    /\ sep # esc /\ colon # esc /\ colon # sep
    /\ esc \in specials /\ sep \in specials
Words(specials, S, T, P, H, yes, auth) ==
    /\ S \notin specials /\ T \notin specials /\ P \notin specials /\ H \notin specials
    /\ yes \notin specials /\ auth \notin specials
    /\ S # T /\ S # P /\ S # H /\ T # P /\ T # H /\ P # H

\* A text that starts with a symbol.
LEMMA StartsWithIt ==
    ASSUME NEW A, NEW x \in A, NEW t \in Text(A)
    PROVE  /\ Cons(x, t) # <<>>
           /\ Len(<<x>>) <= Len(Cons(x, t)) /\ SubSeq(Cons(x, t), 1, Len(<<x>>)) = <<x>>
<1>1. PICK s \in Seq(A) : s = Cons(x, t) /\ s # <<>> /\ Len(s) = Len(t) + 1 /\ s[1] = x
  BY OneBefore DEF Text
<1>2. Len(t) \in Nat
  BY DEF Text
<1>3. <<x>> \in Seq(A) /\ Len(<<x>>) = 1 /\ <<x>>[1] = x
  OBVIOUS
<1>4. PICK o \in Seq(A) : o = <<x>> /\ Len(o) = 1 /\ o[1] = x
  BY <1>3
<1>5. PICK n \in 0 .. Len(s), m \in 1 .. Len(s) + 1 : n = 1 /\ m = 1 /\ m <= n + 1
  BY <1>1, <1>2
<1>6. /\ SubSeq(s, m, n) \in Seq(A) /\ Len(SubSeq(s, m, n)) = n - m + 1
      /\ \A i \in 1 .. n - m + 1 : SubSeq(s, m, n)[i] = s[m + i - 1]
  BY <1>5, PartIs
<1>7. PICK u \in Seq(A) : u = SubSeq(s, m, n) /\ Len(u) = n - m + 1 /\ \A i \in 1 .. n - m + 1 : u[i] = s[m + i - 1]
  BY <1>6
<1>8. Len(u) = 1 /\ u[1] = x
  <2>1. Len(u) = 1 /\ u[1] = s[1 + 1 - 1]
    BY <1>5, <1>7
  <2> QED
    BY <1>1, <2>1
<1>9. u = o
  BY <1>4, <1>8, SeqEqual
<1>10. u = SubSeq(s, 1, Len(o))
  BY <1>4, <1>5, <1>7, Zenon
<1>11. Len(o) <= Len(s)
  BY <1>1, <1>2, <1>4
<1> QED
  BY <1>1, <1>4, <1>9, <1>10, <1>11, Zenon

\* A network comes back as it was written: whatever its name and password are.
NetworkComesBack(esc, sep, colon, w, S, T, P, H, yes, ssid, auth, p, pw, h, s) ==
    /\ s # <<>> /\ Len(<<w>>) <= Len(s) /\ SubSeq(s, 1, Len(<<w>>)) = <<w>>
    /\ ValueIn(esc, sep, colon, Tail(s), S) = ssid
    /\ ValueIn(esc, sep, colon, Tail(s), T) = <<auth>>
    /\ ValueIn(esc, sep, colon, Tail(s), P) = IF p THEN pw ELSE <<>>
    /\ ValueIn(esc, sep, colon, Tail(s), H) = IF h THEN <<yes>> ELSE <<>>

\* The same, of the symbols of the format.
LEMMA NetworkBack ==
    ASSUME NEW A, NEW ssid \in Text(A), NEW pw \in Text(A), NEW p \in BOOLEAN, NEW h \in BOOLEAN,
           NEW esc, NEW sep, NEW colon, NEW specials, Marks(esc, sep, colon, specials),
           NEW w, NEW S, NEW T, NEW P, NEW H, NEW yes, NEW auth, Words(specials, S, T, P, H, yes, auth)
    PROVE  NetworkComesBack(esc, sep, colon, w, S, T, P, H, yes, ssid, auth, p, pw, h,
               WifiText(esc, sep, colon, specials, w, S, T, P, H, yes, ssid, auth, p, pw, h))
<1> DEFINE B == A \cup {esc, sep, colon, w, S, T, P, H, yes, auth}
<1>1. /\ A \subseteq B /\ esc \in B /\ sep \in B /\ colon \in B /\ w \in B
      /\ S \in B /\ T \in B /\ P \in B /\ H \in B /\ yes \in B /\ auth \in B
  OBVIOUS
<1> HIDE DEF B
<1>2. ssid \in Text(B) /\ pw \in Text(B)
  BY <1>1, SeqMonotonic DEF Text
<1>3. MarksOf(B, esc, sep, colon, specials)
  BY <1>1 DEF MarksOf, Marks
<1>4. Keys(B, specials, S, T, P, H) /\ Plain(B, yes, specials) /\ Plain(B, auth, specials)
  BY <1>1 DEF Keys, Plain, Words
<1> DEFINE r2 == HiddenPart(esc, sep, colon, specials, H, yes, h)
           r1 == PasswordPart(esc, sep, colon, specials, P, p, pw, r2)
           body == NetworkFields(esc, sep, colon, specials, S, T, ssid, auth, r1)
           s == WifiText(esc, sep, colon, specials, w, S, T, P, H, yes, ssid, auth, p, pw, h)
<1>5. s = Cons(w, body)
  BY <1>1, <1>2, <1>3, <1>4, NetworkIsWritten
<1>6. /\ body \in Text(B)
      /\ ValueIn(esc, sep, colon, body, S) = ssid
      /\ ValueIn(esc, sep, colon, body, T) = <<auth>>
      /\ ValueIn(esc, sep, colon, body, P) = IF p THEN pw ELSE <<>>
      /\ ValueIn(esc, sep, colon, body, H) = IF h THEN <<yes>> ELSE <<>>
  BY <1>1, <1>2, <1>3, <1>4, NetworkIsRead
<1> HIDE DEF body, s
<1>7. Tail(Cons(w, body)) = body
  BY <1>1, <1>6, RestOfText
<1>8. /\ Cons(w, body) # <<>>
      /\ Len(<<w>>) <= Len(Cons(w, body)) /\ SubSeq(Cons(w, body), 1, Len(<<w>>)) = <<w>>
  BY <1>1, <1>6, StartsWithIt
<1>9. NetworkComesBack(esc, sep, colon, w, S, T, P, H, yes, ssid, auth, p, pw, h, s)
  BY <1>5, <1>6, <1>7, <1>8, Zenon DEF NetworkComesBack
<1> QED
  BY <1>9 DEF s

\* The text of a network, and what the dialog's parser makes of a text.
LEMMA WifiTextIs ==
    ASSUME NEW f
    PROVE  WifiPayload(f) =
             WifiText("\\", ";", ":", {"\\", ";", ",", ":", "\""}, "WIFI:", "S", "T", "P", "H", "true",
                      f.ssid, f.auth, f.auth # "nopass" /\ f.password # <<>>, f.password, f.hidden)
  BY Zenon DEF WifiPayload, WifiText, PasswordText, HiddenText, EscapeMecard, Escaped, EscapedBy

\* parseWifi() of the text of a network.
LEMMA WifiIsParsed ==
    ASSUME NEW s, Starts(s, {<<"WIFI:">>})
    PROVE  ParseWifi(s) = {[ssid |-> ValueIn("\\", ";", ":", Tail(s), "S"),
                            security |-> ValueIn("\\", ";", ":", Tail(s), "T"),
                            password |-> ValueIn("\\", ";", ":", Tail(s), "P"),
                            hidden |-> ValueIn("\\", ";", ":", Tail(s), "H") = <<"true">>]}
<1>1. Fields(Tail(s)) = Kept(FieldsBy("\\", ";", Tail(s)))
  BY FieldPiecesAre, Zenon DEF Fields, Kept
<1>2. \A fields, key : LastValue(fields, key) = ValueOf(fields, key, ":")
  BY Zenon DEF LastValue, ValueOf, KeyedBy, HasKey
<1>3. \A key : LastValue(Fields(Tail(s)), key) = ValueIn("\\", ";", ":", Tail(s), key)
  BY <1>1, <1>2, Zenon DEF ValueIn
<1>4. ParseWifi(s) = {[ssid |-> LastValue(Fields(Tail(s)), "S"), security |-> LastValue(Fields(Tail(s)), "T"),
                       password |-> LastValue(Fields(Tail(s)), "P"),
                       hidden |-> LastValue(Fields(Tail(s)), "H") = <<"true">>]}
  BY Zenon DEF ParseWifi
<1> QED
  BY <1>3, <1>4, Zenon

\* The code of a network is recognised, and says what was entered.
LEMMA WifiRoundTrip ==
    ASSUME NEW f, IsNetwork(f)
    PROVE  /\ WifiPayload(f) # <<>>
           /\ Starts(WifiPayload(f), {<<"WIFI:">>})
           /\ ParseWifi(WifiPayload(f)) =
                {[ssid |-> f.ssid, security |-> <<f.auth>>, hidden |-> f.hidden,
                  password |-> IF f.auth = "nopass" THEN <<>> ELSE f.password]}
<1> DEFINE specials == {"\\", ";", ",", ":", "\""}
           p == f.auth # "nopass" /\ f.password # <<>>
           s == WifiPayload(f)
           A == Range(f.ssid) \cup Range(f.password)
<1>1. f.ssid \in Text(A) /\ f.password \in Text(A)
  BY SeqMonotonic DEF IsNetwork, IsText, Text
<1>2. p \in BOOLEAN /\ f.hidden \in BOOLEAN
  BY DEF IsNetwork
<1>3. Marks("\\", ";", ":", specials)
  BY Zenon DEF Marks
<1>4. Words(specials, "S", "T", "P", "H", "true", f.auth)
  <2>1. f.auth \in {"WPA", "WEP", "nopass"}
    BY Zenon DEF IsNetwork
  <2> QED
    BY <2>1, Zenon DEF Words
<1>5. s = WifiText("\\", ";", ":", specials, "WIFI:", "S", "T", "P", "H", "true",
                   f.ssid, f.auth, p, f.password, f.hidden)
  BY WifiTextIs, Zenon
<1>6. NetworkComesBack("\\", ";", ":", "WIFI:", "S", "T", "P", "H", "true", f.ssid, f.auth, p, f.password, f.hidden, s)
  <2> HIDE DEF A, p, s, specials
  <2>1. PICK ssid \in Text(A), pw \in Text(A) : ssid = f.ssid /\ pw = f.password
    BY <1>1
  <2>5. PICK q \in BOOLEAN : q = p
    BY <1>2, Zenon
  <2>6. PICK h \in BOOLEAN : h = f.hidden
    BY <1>2, Zenon
  <2>7. PICK auth : auth = f.auth
    BY Zenon
  <2>2. PICK esc, sep, colon, sp, w, S, T, P, H, yes :
            /\ esc = "\\" /\ sep = ";" /\ colon = ":" /\ sp = specials /\ w = "WIFI:"
            /\ S = "S" /\ T = "T" /\ P = "P" /\ H = "H" /\ yes = "true"
    BY Zenon
  <2>3. Marks(esc, sep, colon, sp) /\ Words(sp, S, T, P, H, yes, auth)
    BY <1>3, <1>4, <2>2, <2>7, Zenon
  <2>4. NetworkComesBack(esc, sep, colon, w, S, T, P, H, yes, ssid, auth, q, pw, h,
            WifiText(esc, sep, colon, sp, w, S, T, P, H, yes, ssid, auth, q, pw, h))
    BY <2>3, NetworkBack
  <2> QED
    BY <1>5, <2>1, <2>2, <2>4, <2>5, <2>6, <2>7, Zenon
<1> HIDE DEF s
<1>7. s # <<>> /\ Starts(s, {<<"WIFI:">>})
  BY <1>6, Zenon DEF NetworkComesBack, Starts
<1>8. ParseWifi(s) = {[ssid |-> ValueIn("\\", ";", ":", Tail(s), "S"),
                       security |-> ValueIn("\\", ";", ":", Tail(s), "T"),
                       password |-> ValueIn("\\", ";", ":", Tail(s), "P"),
                       hidden |-> ValueIn("\\", ";", ":", Tail(s), "H") = <<"true">>]}
  BY <1>7, WifiIsParsed, Zenon
<1>9. ValueIn("\\", ";", ":", Tail(s), "S") = f.ssid /\ ValueIn("\\", ";", ":", Tail(s), "T") = <<f.auth>>
  BY <1>6, Zenon DEF NetworkComesBack
<1>10. ValueIn("\\", ";", ":", Tail(s), "P") = IF f.auth = "nopass" THEN <<>> ELSE f.password
  <2>1. ValueIn("\\", ";", ":", Tail(s), "P") = IF p THEN f.password ELSE <<>>
    BY <1>6, Zenon DEF NetworkComesBack
  <2> QED
    BY <2>1, Zenon
<1>11. (ValueIn("\\", ";", ":", Tail(s), "H") = <<"true">>) = f.hidden
  <2>1. ValueIn("\\", ";", ":", Tail(s), "H") = IF f.hidden THEN <<"true">> ELSE <<>>
    BY <1>6, Zenon DEF NetworkComesBack
  <2>2. <<"true">> # <<>>
    BY SMT
  <2> QED
    BY <1>2, <2>1, <2>2, Zenon
<1>12. ParseWifi(s) = {[ssid |-> f.ssid, security |-> <<f.auth>>,
                        password |-> IF f.auth = "nopass" THEN <<>> ELSE f.password, hidden |-> f.hidden]}
  BY <1>8, <1>9, <1>10, <1>11, Zenon
<1>13. ParseWifi(s) = {[ssid |-> f.ssid, security |-> <<f.auth>>, hidden |-> f.hidden,
                        password |-> IF f.auth = "nopass" THEN <<>> ELSE f.password]}
  BY <1>12
<1> QED
  BY <1>7, <1>13 DEF s

\* A text that starts as a network is one: that rule is the first.
LEMMA WifiIsRecognised ==
    ASSUME NEW s, Starts(s, {<<"WIFI:">>})
    PROVE  DetectKind(s) = "wifi"
<1> DEFINE fitting == {i \in DOMAIN Recognisers : Fits(s, Recognisers[i])}
<1>1. Recognisers[1] = Rule("wifi", {<<"WIFI:">>}) /\ DOMAIN Recognisers = 1 .. 25
  BY OneRuleMore DEF Recognisers
<1>2. Rule("wifi", {<<"WIFI:">>}) # AddressRule /\ Rule("wifi", {<<"WIFI:">>}).starts = {<<"WIFI:">>}
      /\ Rule("wifi", {<<"WIFI:">>}).kind = "wifi"
  BY DEF Rule, AddressRule
<1>3. 1 \in fitting
  BY <1>1, <1>2 DEF Fits
<1>4. Min(fitting) \in fitting /\ \A i \in fitting : Min(fitting) <= i
  <2>1. fitting \in SUBSET Nat /\ fitting # {}
    BY <1>1, <1>3
  <2> HIDE DEF fitting
  <2> QED
    BY <2>1, MinIsIn
<1>5. Min(fitting) = 1
  <2>1. fitting \subseteq 1 .. 25
    BY <1>1
  <2> HIDE DEF fitting
  <2>2. PICK m : m = Min(fitting)
    OBVIOUS
  <2>3. m \in fitting /\ m <= 1
    BY <1>3, <1>4, <2>2, Zenon
  <2>4. m = 1
    BY <2>1, <2>3
  <2> QED
    BY <2>2, <2>4, Zenon
<1>6. DetectKind(s) = Recognisers[Min(fitting)].kind
  BY <1>3, Zenon DEF DetectKind
<1> QED
  BY <1>1, <1>2, <1>5, <1>6

-----------------------------------------------------------------------------
(* Networks, in every behaviour.                                           *)

\* What was made is the text of what was entered.
NetworkMade == made # <<>> /\ form.type = "wifi" => IsNetwork(form) /\ made = WifiPayload(form)

\* Every source but a network gives a form of another kind, and none a contact.
LEMMA OtherSources ==
    ASSUME NEW args, NEW source \in Sources, source # "wifi-ssid"
    PROVE  CommandForm(args, source).type \notin {"wifi", "vcard"}
<1> DEFINE v(option) == Value(args, option)
           parts == Split(v("geo"), ",")
<1>1. CASE source \in {"stdin", "text"}
  <2>1. CommandForm(args, source) = [type |-> "text", text |-> v(source)]
    BY <1>1, Zenon DEF CommandForm
  <2> QED
    BY <2>1
<1>2. CASE source = "url"
  <2>1. CommandForm(args, source) = [type |-> "url", text |-> v("url")]
    BY <1>2, Zenon DEF CommandForm
  <2> QED
    BY <2>1
<1>3. CASE source = "email"
  <2>1. CommandForm(args, source) = [type |-> "email", text |-> v("email"), subject |-> v("subject"), body |-> v("body")]
    BY <1>3, Zenon DEF CommandForm
  <2> QED
    BY <2>1
<1>4. CASE source = "phone"
  <2>1. CommandForm(args, source) = [type |-> "tel", cc |-> <<>>, number |-> v("phone")]
    BY <1>4, Zenon DEF CommandForm
  <2> QED
    BY <2>1
<1>5. CASE source = "sms"
  <2>1. CommandForm(args, source) = [type |-> "sms", cc |-> <<>>, number |-> v("sms"), body |-> v("message")]
    BY <1>5, Zenon DEF CommandForm
  <2> QED
    BY <2>1
<1>6. CASE source = "geo"
  <2>1. CommandForm(args, source) = [type |-> "geo", mode |-> "coordinates", lat |-> Number(parts[1]), lon |-> Number(parts[2])]
    BY <1>6, Zenon DEF CommandForm
  <2> HIDE DEF parts
  <2> QED
    BY <2>1
<1> QED
  BY <1>1, <1>2, <1>3, <1>4, <1>5, <1>6 DEF Sources

\* The command line gives a network, or another kind of form.
LEMMA CommandIsNetwork ==
    ASSUME NEW args \in CommandLines, ~BadUsage(args), FormOf(args).type = "wifi"
    PROVE  IsNetwork(FormOf(args))
<1> DEFINE source == CHOOSE s \in Given(args) : TRUE
<1>1. source \in Given(args)
  <2>1. Cardinality(Given(args)) = 1
    BY DEF BadUsage
  <2>2. Given(args) # {}
    BY <2>1, FS_EmptySet
  <2> QED
    BY <2>2
<1>2. FormOf(args) = CommandForm(args, source)
  BY Zenon DEF FormOf
<1>3. source \in Sources /\ source \in DOMAIN args
  BY <1>1 DEF Given
<1> HIDE DEF source
<1>4. source = "wifi-ssid"
  BY <1>2, <1>3, OtherSources DEF Sources
<1>5. FormOf(args) = [type |-> "wifi", ssid |-> Value(args, "wifi-ssid"), password |-> Value(args, "wifi-password"),
                      auth |-> WifiAuthFrom(Value(args, "wifi-auth")), hidden |-> "wifi-hidden" \in DOMAIN args]
  BY <1>2, <1>4, Zenon DEF CommandForm
<1>6. IsText(Value(args, "wifi-ssid"))
  BY <1>3, <1>4, NetworksEntered DEF Value
<1>7. IsText(Value(args, "wifi-password"))
  <2>1. CASE "wifi-password" \in DOMAIN args
    BY <2>1, NetworksEntered DEF Value
  <2>2. CASE "wifi-password" \notin DOMAIN args
    <3>1. Default["wifi-password"] = <<>>
      BY DEF Default
    <3>2. IsText(<<>>)
      BY DEF IsText
    <3> QED
      BY <2>2, <3>1, <3>2 DEF Value
  <2> QED
    BY <2>1, <2>2
<1>8. WifiAuthFrom(Value(args, "wifi-auth")) \in {"WPA", "WEP", "nopass"}
  BY DEF WifiAuthFrom
<1> QED
  BY <1>5, <1>6, <1>7, <1>8 DEF IsNetwork

\* Every step keeps it: a code is made once, of one form.
LEMMA NetworkMadeStep == NetworkMade /\ [Next]_vars => NetworkMade'
<1> SUFFICES ASSUME NetworkMade, [Next]_vars PROVE NetworkMade'
  OBVIOUS
<1>1. CASE MakeOnPage
  <2>1. PICK f \in Forms : Made(f, BuildPayload(f))
    BY <1>1 DEF MakeOnPage
  <2>2. form' = f /\ made' = BuildPayload(f) /\ made' # <<>>
    BY <2>1 DEF Made
  <2>3. made' = Payload(f)
    BY <2>2 DEF BuildPayload
  <2>4. f.type = "wifi" => IsNetwork(f) /\ Payload(f) = WifiPayload(f)
    BY NetworksEntered DEF Payload
  <2> QED
    BY <2>2, <2>3, <2>4 DEF NetworkMade
<1>2. CASE RunCommand
  <2>1. PICK args \in CommandLines, fits \in BOOLEAN, opened \in BOOLEAN, saved \in BOOLEAN :
            /\ made = <<>> /\ exit' = ExitCode(args, fits, opened, saved)
            /\ IF exit' = 0 THEN Made(FormOf(args), Payload(FormOf(args))) ELSE UNCHANGED <<form, made>>
    BY <1>2 DEF RunCommand
  <2>2. CASE exit' = 0
    <3>1. ~BadUsage(args)
      BY <2>1, <2>2 DEF ExitCode
    <3>2. form' = FormOf(args) /\ made' = Payload(FormOf(args))
      BY <2>1, <2>2 DEF Made
    <3>3. FormOf(args).type = "wifi" => IsNetwork(FormOf(args)) /\ Payload(FormOf(args)) = WifiPayload(FormOf(args))
      BY <3>1, CommandIsNetwork DEF Payload
    <3> QED
      BY <3>2, <3>3 DEF NetworkMade
  <2>3. CASE exit' # 0
    BY <2>1, <2>3 DEF NetworkMade
  <2> QED
    BY <2>2, <2>3
<1>3. CASE MakeElsewhere \/ MakeSealed
  <2>1. form' \in ForeignForms \cup SecretForms
    BY <1>3 DEF MakeElsewhere, MakeSealed, Made
  <2> QED
    BY <2>1, NetworksEntered DEF NetworkMade
<1>4. CASE ScanMade \/ ScanOther \/ ScanTampered \/ AddContact \/ AcceptContact \/ AddToCalendar \/ AcceptEvent
           \/ CancelSave \/ UNCHANGED vars
  <2>1. UNCHANGED <<form, made>>
    BY <1>4 DEF ScanMade, ScanOther, ScanTampered, Show, AddContact, AcceptContact, SaveContact, AddToCalendar,
         AcceptEvent, CancelSave, vars, making
  <2> QED
    BY <2>1 DEF NetworkMade
<1> QED
  BY <1>1, <1>2, <1>3, <1>4 DEF Next

\* A network made is recognised, and the dialog says what was entered.
LEMMA NetworkIsSaid ==
    ASSUME IInv, NetworkMade, made # <<>>, content = made, form.type = "wifi"
    PROVE  /\ IsNetwork(form) /\ DetectKind(content) = "wifi"
           /\ parsed.wifi = Entered
<1>1. IsNetwork(form) /\ made = WifiPayload(form)
  BY DEF NetworkMade
<1>2. /\ made # <<>> /\ Starts(made, {<<"WIFI:">>})
      /\ ParseWifi(made) =
                {[ssid |-> form.ssid, security |-> <<form.auth>>, hidden |-> form.hidden,
                  password |-> IF form.auth = "nopass" THEN <<>> ELSE form.password]}
  BY <1>1, WifiRoundTrip, Zenon
<1>3. Entered = [ssid |-> form.ssid, security |-> <<form.auth>>, hidden |-> form.hidden,
                 password |-> IF form.auth = "nopass" THEN <<>> ELSE form.password]
  BY DEF Entered
<1>4. "wifi" \in DOMAIN Parse(content) /\ Parse(content).wifi = ParseWifi(content)
  BY DEF Parse
<1>5. parsed.wifi \in ParseWifi(content) \/ ParseWifi(content) = {}
  BY <1>2, <1>4 DEF IInv, SaysWhatIsShown
<1>6. parsed.wifi = Entered
  BY <1>2, <1>3, <1>5
<1> QED
  BY <1>1, <1>2, <1>6, WifiIsRecognised

\* A network comes back as it was entered, whatever its fields hold and whatever
\* was scanned before.
THEOREM NetworksComeBack == Spec => [](form.type = "wifi" => ComesBackAsEntered)
<1>1. Init => NetworkMade
  BY DEF Init, NetworkMade
<1>2. IInv /\ NetworkMade => (form.type = "wifi" => ComesBackAsEntered)
  BY NetworkIsSaid DEF ComesBackAsEntered
<1> QED
  BY <1>1, <1>2, Invariance, NetworkMadeStep, PTL DEF Spec

\* What the system is asked for is what was entered, as the dialog has it.
EnteredPassword(f) == IF f.auth = "nopass" THEN <<>> ELSE f.password
NetworkOf(f) ==
    [ssid |-> f.ssid, security |-> <<f.auth>>, hidden |-> f.hidden, password |-> EnteredPassword(f)]
ConnectsTo(f) ==
    ConnectToWifi(NetworkOf(f))
        = ("ssid" :> f.ssid)
             @@ (IF EnteredPassword(f) = <<>> THEN <<>> ELSE "wpa2" :> f.password)
             @@ (IF f.hidden THEN "hidden" :> TRUE ELSE <<>>)

\* The intent of a network puts what was entered.
LEMMA ConnectsAsEntered ==
    ASSUME NEW f, f.auth \in {"WPA", "nopass"}, f.ssid # <<>>
    PROVE  ConnectsTo(f)
<1> DEFINE wifi == NetworkOf(f)
           put == IF wifi.password # <<>> /\ wifi.security \notin {<<"nopass">>, <<"NONE">>}
                  THEN Extra(IF wifi.security \in {<<"SAE">>, <<"WPA3">>} THEN "wpa3" ELSE "wpa2", wifi.password)
                  ELSE NoIntent
           hide == IF f.hidden THEN "hidden" :> TRUE ELSE <<>>
<1>1. ConnectToWifi(wifi) =
          IF wifi.ssid = <<>> THEN NoIntent
          ELSE ("ssid" :> wifi.ssid) @@ put @@ (IF wifi.hidden THEN "hidden" :> TRUE ELSE NoIntent)
  BY Zenon DEF ConnectToWifi
<1>2. wifi.ssid = f.ssid /\ wifi.security = <<f.auth>> /\ wifi.password = EnteredPassword(f)
  BY DEF NetworkOf
<1>3. (IF wifi.hidden THEN "hidden" :> TRUE ELSE NoIntent) = hide
  <2>1. PICK hidden : hidden = f.hidden
    OBVIOUS
  <2>2. wifi = [ssid |-> f.ssid, security |-> <<f.auth>>, hidden |-> hidden, password |-> EnteredPassword(f)]
    BY <2>1, Zenon DEF NetworkOf
  <2>3. wifi.hidden = hidden
    <3> HIDE DEF wifi
    <3> QED
      BY <2>2
  <2> QED
    BY <2>1, <2>3, Zenon DEF NoIntent
<1>4. <<f.auth>> \notin {<<"SAE">>, <<"WPA3">>, <<"NONE">>} /\ (<<f.auth>> = <<"nopass">> <=> f.auth = "nopass")
  OBVIOUS
<1>5. put = IF EnteredPassword(f) = <<>> THEN <<>> ELSE "wpa2" :> f.password
  <2>1. CASE EnteredPassword(f) = <<>>
    BY <1>2, <2>1 DEF NoIntent
  <2>2. CASE EnteredPassword(f) # <<>>
    <3>1. f.auth # "nopass" /\ EnteredPassword(f) = f.password
      BY <2>2 DEF EnteredPassword
    <3>2. put = Extra("wpa2", f.password)
      BY <1>2, <1>4, <2>2, <3>1
    <3> QED
      BY <2>2, <3>1, <3>2 DEF Extra
  <2> QED
    BY <2>1, <2>2
<1> HIDE DEF put, hide, wifi
<1>6. ConnectToWifi(wifi) = ("ssid" :> f.ssid) @@ put @@ hide
  BY <1>1, <1>2, <1>3, Zenon
<1>7. ConnectToWifi(wifi) = ("ssid" :> f.ssid) @@ (IF EnteredPassword(f) = <<>> THEN <<>> ELSE "wpa2" :> f.password) @@ hide
  BY <1>5, <1>6, Zenon
<1> QED
  BY <1>7, Zenon DEF wifi, hide, ConnectsTo

\* The system is asked for the network that was entered.
THEOREM NetworksHandedOver == Spec => [](form.type = "wifi" => HandsOverWhatWasEntered)
<1>1. Init => NetworkMade
  BY DEF Init, NetworkMade
<1>2. ASSUME IInv, NetworkMade, form.type = "wifi", made # <<>>, content = made,
             form.ssid # <<>>, form.auth # "WEP"
      PROVE  ConnectToWifi(parsed.wifi) =
                  ("ssid" :> form.ssid)
                        @@ (IF Entered.password = <<>> THEN <<>> ELSE "wpa2" :> form.password)
                        @@ (IF form.hidden THEN "hidden" :> TRUE ELSE <<>>)
  <2>1. parsed.wifi = Entered /\ form.auth \in {"WPA", "nopass"}
    BY <1>2, NetworkIsSaid DEF IsNetwork
  <2>2. Entered = NetworkOf(form)
    BY <1>2 DEF Entered, NetworkOf, EnteredPassword
  <2>3. Entered.password = EnteredPassword(form)
    BY <2>2 DEF NetworkOf
  <2>4. ConnectsTo(form)
    BY <1>2, <2>1, ConnectsAsEntered
  <2>5. ConnectToWifi(NetworkOf(form)) =
            ("ssid" :> form.ssid)
                 @@ (IF EnteredPassword(form) = <<>> THEN <<>> ELSE "wpa2" :> form.password)
                 @@ (IF form.hidden THEN "hidden" :> TRUE ELSE <<>>)
    BY <2>4, Zenon DEF ConnectsTo
  <2> QED
    BY <2>1, <2>2, <2>3, <2>5, Zenon
<1>3. ASSUME IInv, NetworkMade, form.type = "wifi", made # <<>>, content = made, form.ssid = <<>>
      PROVE  ConnectToWifi(parsed.wifi) = NoIntent
  <2>1. parsed.wifi = Entered
    BY <1>3, NetworkIsSaid
  <2>2. Entered.ssid = <<>>
    BY <1>3 DEF Entered
  <2> QED
    BY <2>1, <2>2, Zenon DEF ConnectToWifi
<1>4. ASSUME form.type = "wifi",
             made # <<>> /\ content = made =>
                 CASE form.ssid = <<>> -> ConnectToWifi(parsed.wifi) = NoIntent
                   [] form.ssid # <<>> /\ form.auth = "WEP" -> TRUE
                   [] OTHER ->
                         ConnectToWifi(parsed.wifi) = ("ssid" :> form.ssid)
                               @@ (IF Entered.password = <<>> THEN <<>> ELSE "wpa2" :> form.password)
                               @@ (IF form.hidden THEN "hidden" :> TRUE ELSE <<>>)
      PROVE  HandsOverWhatWasEntered
  BY <1>4 DEF HandsOverWhatWasEntered
<1>5. IInv /\ NetworkMade => (form.type = "wifi" => HandsOverWhatWasEntered)
  BY <1>2, <1>3, <1>4
<1> QED
  BY <1>1, <1>5, Invariance, NetworkMadeStep, PTL DEF Spec

-----------------------------------------------------------------------------
(* The lines of a card, as parseVCard() takes it apart.                    *)

\* A text over some symbols does not have another one in it.
LEMMA NotInText ==
    ASSUME NEW A, NEW c, c \notin A, NEW t \in Text(A)
    PROVE  ~Contains(t, c)
<1>1. \A i \in 1 .. Len(t) : t[i] \in A
  BY DEF Text
<1> QED
  BY <1>1 DEF Contains

\* A text that does not have a symbol in it is over the others.
LEMMA TextWithout ==
    ASSUME NEW A, NEW c, NEW t \in Text(A), ~Contains(t, c)
    PROVE  t \in Text(A \ {c})
<1>1. t \in Seq(A) /\ Len(t) \in Nat /\ \A i \in 1 .. Len(t) : t[i] \in A /\ t[i] # c
  BY DEF Text, Contains
<1>2. t \in [1 .. Len(t) -> A \ {c}]
  BY <1>1
<1> QED
  BY <1>1, <1>2 DEF Text

\* What Split makes of a text does not have the mark in it.
LEMMA PiecesWithout ==
    ASSUME NEW A, NEW c, NEW t \in Text(A)
    PROVE  Split(t, c) \in Pieces(A \ {c})
<1> DEFINE B == A \ {c}
           S == {u \in Text(A) : Split(u, c) \in Pieces(B)}
<1>1. <<>> \in S
  <2>1. << <<>> >> \in Pieces(B)
    BY DEF Pieces, List, Text
  <2> QED
    BY <2>1, SplitNothing, NoText
<1>2. ASSUME NEW x \in A, NEW u \in Text(A), u \in S PROVE Cons(x, u) \in S
  <2>1. Split(u, c) \in Pieces(B)
    BY <1>2
  <2> HIDE DEF B
  <2>2. Cons(<<>>, Split(u, c)) \in Pieces(B)
    BY <2>1, OneMore
  <2>3. x # c => Begun(x, Split(u, c)) \in Pieces(B)
    <3>1. x # c => x \in B
      BY DEF B
    <3> QED
      BY <2>1, <3>1, BegunType
  <2>4. Split(Cons(x, u), c) = IF x = c THEN Cons(<<>>, Split(u, c)) ELSE Begun(x, Split(u, c))
    BY SplitNext
  <2>5. Cons(x, u) \in Text(A)
    BY LongerText
  <2> QED
    BY <2>2, <2>3, <2>4, <2>5
<1> HIDE DEF S
<1>3. Text(A) \subseteq S
  BY <1>1, <1>2, TextInduction
<1> QED
  BY <1>3 DEF S

\* The first place of a symbol.
LEMMA PlaceIs ==
    ASSUME NEW A, NEW t \in Text(A), NEW c, Contains(t, c)
    PROVE  /\ Place(t, c) \in 1 .. Len(t) /\ t[Place(t, c)] = c
           /\ \A i \in 1 .. Len(t) : t[i] = c => Place(t, c) <= i
<1> DEFINE I == {i \in 1 .. Len(t) : t[i] = c}
<1>1. Place(t, c) = IF I # {} THEN Min(I) ELSE 0
  BY Zenon DEF Place, SelectInSeq
<1>2. I # {} /\ I \in SUBSET Nat
  BY DEF Contains, Text
<1> HIDE DEF I
<1>3. Min(I) \in I /\ \A i \in I : Min(I) <= i
  BY <1>2, MinIsIn
<1>4. Place(t, c) \in I /\ \A i \in I : Place(t, c) <= i
  BY <1>1, <1>2, <1>3
<1> QED
  BY <1>4 DEF I

\* Before and after a symbol are texts.
LEMMA BeforeAndAfter ==
    ASSUME NEW A, NEW t \in Text(A), NEW c
    PROVE  Before(t, c) \in Text(A) /\ After(t, c) \in Text(A)
<1>1. CASE ~Contains(t, c)
  BY <1>1, NoText DEF Before, After
<1>2. CASE Contains(t, c)
  <2>1. PICK i \in 1 .. Len(t) : i = Place(t, c)
    BY <1>2, PlaceIs
  <2>2. Before(t, c) = SubSeq(t, 1, i - 1) /\ After(t, c) = SubSeq(t, i + 1, Len(t))
    BY <1>2, <2>1 DEF Before, After
  <2>3. Len(t) \in Nat /\ t \in Seq(A)
    BY DEF Text
  <2>4. SubSeq(t, 1, i - 1) \in Seq(A)
    <3>1. 1 \in 1 .. Len(t) + 1 /\ i - 1 \in 0 .. Len(t) /\ 1 <= i - 1 + 1
      BY <2>3
    <3> QED
      BY <2>3, <3>1, PartIs
  <2>5. SubSeq(t, i + 1, Len(t)) \in Seq(A)
    <3>1. i + 1 \in 1 .. Len(t) + 1 /\ Len(t) \in 0 .. Len(t) /\ i + 1 <= Len(t) + 1
      BY <2>3
    <3> QED
      BY <2>3, <3>1, PartIs
  <2> QED
    BY <2>2, <2>4, <2>5 DEF Text
<1> QED
  BY <1>1, <1>2

\* A line has its key before the colon and its value after it; one without a colon
\* is a key.
LEMMA LineParts ==
    ASSUME NEW A, NEW k \in A, NEW colon \in A, k # colon, NEW t \in Text(A)
    PROVE  LET l == Cons(k, Cons(colon, t))
           IN l \in Text(A) /\ Before(l, colon) = <<k>> /\ After(l, colon) = t
<1>1. PICK g \in Text(A) : g = Cons(colon, t) /\ Len(g) = Len(t) + 1 /\ g[1] = colon
                           /\ \A i \in 1 .. Len(t) : g[i + 1] = t[i]
  BY OneBefore DEF Text
<1>2. PICK l \in Text(A) : l = Cons(k, g) /\ Len(l) = Len(g) + 1 /\ l[1] = k
                           /\ \A i \in 1 .. Len(g) : l[i + 1] = g[i]
  BY OneBefore DEF Text
<1>3. Len(t) \in Nat /\ t \in Seq(A) /\ l \in Seq(A) /\ Len(l) = Len(t) + 2
  BY <1>1, <1>2 DEF Text
<1>4. 2 \in 1 .. Len(l) /\ l[2] = colon
  <2>1. 1 \in 1 .. Len(g)
    BY <1>1, <1>3
  <2>2. l[1 + 1] = g[1]
    BY <1>2, <2>1
  <2> QED
    BY <1>1, <1>3, <2>2
<1>5. Contains(l, colon)
  BY <1>4 DEF Contains
<1>6. PICK i \in 1 .. Len(l) : i = Place(l, colon) /\ l[i] = colon /\ i <= 2
  BY <1>4, <1>5, PlaceIs
<1>7. i = 2
  BY <1>2, <1>3, <1>6
<1>8. Before(l, colon) = <<k>>
  <2>1. PICK n \in 0 .. Len(l), m \in 1 .. Len(l) + 1 : n = i - 1 /\ m = 1 /\ m <= n + 1 /\ n = 1
    BY <1>3, <1>7
  <2>9. /\ SubSeq(l, m, n) \in Seq(A) /\ Len(SubSeq(l, m, n)) = n - m + 1
        /\ \A j \in 1 .. n - m + 1 : SubSeq(l, m, n)[j] = l[m + j - 1]
    BY <1>3, <2>1, PartIs
  <2>2. PICK u \in Seq(A) : u = SubSeq(l, m, n) /\ Len(u) = n - m + 1 /\ \A j \in 1 .. n - m + 1 : u[j] = l[m + j - 1]
    BY <2>9
  <2>3. Len(u) = 1 /\ u[1] = l[1 + 1 - 1]
    BY <2>1, <2>2
  <2>4. <<k>> \in Seq(A) /\ Len(<<k>>) = 1 /\ <<k>>[1] = k
    OBVIOUS
  <2>5. PICK o \in Seq(A) : o = <<k>> /\ Len(o) = 1 /\ o[1] = k
    BY <2>4
  <2>6. u = o
    BY <1>2, <2>3, <2>5, SeqEqual
  <2> QED
    BY <1>5, <1>6, <2>1, <2>2, <2>5, <2>6, Zenon DEF Before
<1>9. After(l, colon) = t
  <2>1. PICK n \in 0 .. Len(l), m \in 1 .. Len(l) + 1 : n = Len(l) /\ m = i + 1 /\ m <= n + 1
    BY <1>3, <1>7
  <2>9. /\ SubSeq(l, m, n) \in Seq(A) /\ Len(SubSeq(l, m, n)) = n - m + 1
        /\ \A j \in 1 .. n - m + 1 : SubSeq(l, m, n)[j] = l[m + j - 1]
    BY <1>3, <2>1, PartIs
  <2>2. PICK u \in Seq(A) : u = SubSeq(l, m, n) /\ Len(u) = n - m + 1 /\ \A j \in 1 .. n - m + 1 : u[j] = l[m + j - 1]
    BY <2>9
  <2>3. Len(u) = Len(t)
    BY <1>3, <1>7, <2>1, <2>2
  <2>4. \A j \in 1 .. Len(u) : u[j] = t[j]
    <3> TAKE j \in 1 .. Len(u)
    <3>1. j \in 1 .. Len(t) /\ j \in 1 .. n - m + 1 /\ m + j - 1 = (j + 1) + 1 /\ j + 1 \in 1 .. Len(g)
      BY <1>1, <1>3, <1>7, <2>1, <2>2, <2>3
    <3>2. u[j] = l[(j + 1) + 1]
      BY <2>2, <3>1, Zenon
    <3>3. l[(j + 1) + 1] = g[j + 1]
      BY <1>2, <3>1, Zenon
    <3>4. g[j + 1] = t[j]
      BY <1>1, <3>1, Zenon
    <3> QED
      BY <3>2, <3>3, <3>4, Zenon
  <2>5. u = t
    BY <1>3, <2>3, <2>4, SeqEqual
  <2> QED
    BY <1>5, <1>6, <2>1, <2>2, <2>5, Zenon DEF After
<1> QED
  BY <1>1, <1>2, <1>8, <1>9, Zenon

\* A line that is a word has no value.
LEMMA WordAlone ==
    ASSUME NEW A, NEW w \in A, NEW colon, w # colon
    PROVE  <<w>> \in Text(A) /\ Before(<<w>>, colon) = <<w>> /\ After(<<w>>, colon) = <<>>
<1>1. <<w>> \in Text(A) /\ <<w>> \in Text({w})
  BY DEF Text
<1>2. ~Contains(<<w>>, colon)
  BY <1>1, NotInText
<1> QED
  BY <1>1, <1>2, Zenon DEF Before, After

\* The value of the first element that is one of K.
FirstOf(p, K, value) ==
    LET with == {i \in DOMAIN p : p[i] \in K}
    IN IF with = {} THEN <<>> ELSE value[p[Min(with)]]

\* One element more, before the others.
LEMMA FirstOfNext ==
    ASSUME NEW X, NEW h \in X, NEW q \in Seq(X), NEW K, NEW value
    PROVE  /\ FirstOf(<<>>, K, value) = <<>>
           /\ FirstOf(Cons(h, q), K, value) = IF h \in K THEN value[h] ELSE FirstOf(q, K, value)
<1>1. PICK p \in Seq(X) : /\ p = Cons(h, q) /\ Len(p) = Len(q) + 1 /\ p[1] = h
                          /\ \A i \in 1 .. Len(q) : p[i + 1] = q[i]
  BY OneBefore
<1>2. Len(q) \in Nat /\ DOMAIN q = 1 .. Len(q) /\ DOMAIN p = 1 .. Len(q) + 1
  BY <1>1
<1> DEFINE P == {i \in DOMAIN p : p[i] \in K}
           Q == {i \in DOMAIN q : q[i] \in K}
<1>3. /\ FirstOf(p, K, value) = IF P = {} THEN <<>> ELSE value[p[Min(P)]]
      /\ FirstOf(q, K, value) = IF Q = {} THEN <<>> ELSE value[q[Min(Q)]]
  BY Zenon DEF FirstOf
<1>4. P \subseteq 1 .. Len(q) + 1 /\ Q \subseteq 1 .. Len(q) /\ (1 \in P <=> h \in K)
  BY <1>1, <1>2
<1>5. \A i \in 1 .. Len(q) : i + 1 \in P <=> i \in Q
  BY <1>1, <1>2
<1> HIDE DEF P, Q
<1>6. \A i \in P : i = 1 \/ (i - 1 \in Q /\ i - 1 \in 1 .. Len(q))
  <2> TAKE i \in P
  <2>1. CASE i # 1
    <3>1. i - 1 \in 1 .. Len(q) /\ (i - 1) + 1 = i
      BY <1>2, <1>4, <2>1
    <3> QED
      BY <1>5, <3>1
  <2> QED
    BY <2>1
<1>7. P # {} => Min(P) \in P /\ \A i \in P : Min(P) <= i
  <2>1. P \in SUBSET Nat
    BY <1>4
  <2> QED
    BY <2>1, MinIsIn
<1>11. FirstOf(<<>>, K, value) = <<>>
  BY DEF FirstOf
<1>8. CASE h \in K
  <2>0. PICK n \in P : n = Min(P) /\ \A i \in P : n <= i
    BY <1>4, <1>7, <1>8
  <2>1. Min(P) = 1 /\ P # {}
    BY <1>2, <1>4, <1>8, <2>0
  <2> QED
    BY <1>1, <1>3, <1>8, <2>1 DEF FirstOf
<1>9. CASE h \notin K /\ Q = {}
  <2>1. P = {}
    BY <1>4, <1>6, <1>9
  <2> QED
    BY <1>1, <1>3, <1>9, <2>1 DEF FirstOf
<1>10. CASE h \notin K /\ Q # {}
  <2>1. PICK m \in Q : m = Min(Q) /\ \A i \in Q : m <= i
    <3>1. Q \in SUBSET Nat
      BY <1>4
    <3> QED
      BY <1>10, <3>1, MinIsIn
  <2>2. m \in 1 .. Len(q) /\ m + 1 \in P
    BY <1>4, <1>5, <2>1
  <2>3. PICK n \in P : n = Min(P) /\ \A i \in P : n <= i
    BY <1>7, <2>2
  <2>4. n = m + 1
    <3>1. n \in 1 .. Len(q) + 1 /\ n <= m + 1 /\ n # 1
      BY <1>2, <1>4, <1>10, <2>2, <2>3
    <3>2. n - 1 \in Q
      BY <1>6, <2>3, <3>1
    <3>3. m <= n - 1
      BY <2>1, <3>2
    <3> QED
      BY <1>2, <2>2, <3>1, <3>3
  <2>5. p[n] = q[m]
    BY <1>1, <2>2, <2>4
  <2> QED
    BY <1>1, <1>3, <1>10, <2>1, <2>2, <2>3, <2>5 DEF FirstOf
<1> QED
  BY <1>1, <1>8, <1>9, <1>10, <1>11

\* A card: what escapes, what ends a line, what ends its key, what is escaped.
CardMarks(B, esc, nl, colon, specials) ==
    /\ esc \in B /\ nl \in B /\ colon \in B
    /\ nl # esc /\ colon # nl /\ esc \in specials

\* The value read of a line, what it takes to have a key, the lines that have a key
\* and a value, and what is read of a text under a key.
LineValue(esc, colon, specials, l) == Unescape(esc, specials, After(l, colon))
KeyIs(colon, l, key) == SubSeq(Before(l, colon), 1, 1) = <<key>>
LinesWith(B, esc, colon, specials, key) ==
    {l \in Text(B) : KeyIs(colon, l, key) /\ LineValue(esc, colon, specials, l) # <<>>}
ReadIn(B, esc, nl, colon, specials, s, key) ==
    FirstOf(Split(s, nl), LinesWith(B, esc, colon, specials, key), [l \in Text(B) |-> LineValue(esc, colon, specials, l)])

\* A key of one symbol is that one.
LEMMA OneSymbolKey ==
    ASSUME NEW colon, NEW l, NEW k, Before(l, colon) = <<k>>, NEW key
    PROVE  KeyIs(colon, l, key) <=> k = key
<1>1. SubSeq(<<k>>, 1, 1) = <<k>>
  <2> DEFINE A == {k}
  <2>1. k \in A
    OBVIOUS
  <2> HIDE DEF A
  <2>3. <<k>> \in Seq(A)
    BY <2>1
  <2>4. Len(<<k>>) = 1
    OBVIOUS
  <2>5. SubSeq(<<k>>, 1, Len(<<k>>)) = <<k>>
    BY <2>3, SubSeqFull, Zenon
  <2> QED
    BY <2>4, <2>5, Zenon
<1>2. <<k>> = <<key>> <=> k = key
  OBVIOUS
<1> QED
  BY <1>1, <1>2, Zenon DEF KeyIs

\* The first line of a text is the one read, or what follows is.
LEMMA FirstLine ==
    ASSUME NEW B, NEW esc, NEW nl \in B, NEW colon, NEW specials, NEW key,
           NEW l \in Text(B), ~Contains(l, nl), NEW r \in Text(B)
    PROVE  /\ ReadIn(B, esc, nl, colon, specials, l \o Cons(nl, r), key) =
                 IF KeyIs(colon, l, key) /\ LineValue(esc, colon, specials, l) # <<>>
                 THEN LineValue(esc, colon, specials, l) ELSE ReadIn(B, esc, nl, colon, specials, r, key)
           /\ ReadIn(B, esc, nl, colon, specials, l, key) =
                 IF KeyIs(colon, l, key) THEN LineValue(esc, colon, specials, l) ELSE <<>>
<1> DEFINE K == LinesWith(B, esc, colon, specials, key)
           value == [x \in Text(B) |-> LineValue(esc, colon, specials, x)]
           v == LineValue(esc, colon, specials, l)
           has == KeyIs(colon, l, key)
<1>1. value[l] = v /\ (l \in K <=> has /\ v # <<>>)
  BY DEF LinesWith
<1>2. \A s : ReadIn(B, esc, nl, colon, specials, s, key) = FirstOf(Split(s, nl), K, value)
  BY Zenon DEF ReadIn
<1> HIDE DEF K, value, v, has
<1>3. Split(l, nl) = <<l>> /\ Split(l \o Cons(nl, r), nl) = Cons(l, Split(r, nl))
  BY SplitOff
<1>4. PICK q \in List(B) : q = Split(r, nl)
  BY SplitNext DEF Pieces
<1>5. PICK e \in List(B) : e = <<>> /\ Cons(l, e) = <<l>>
  <2>1. PICK e \in List(B) : e = <<>>
    BY NoText
  <2>2. <<l>> \o e = <<l>>
    BY <2>1
  <2> QED
    BY <2>1, <2>2, Zenon DEF Cons
<1>6. FirstOf(Cons(l, q), K, value) = IF l \in K THEN value[l] ELSE FirstOf(q, K, value)
  BY FirstOfNext DEF List
<1>7. FirstOf(Cons(l, e), K, value) = IF l \in K THEN value[l] ELSE <<>>
  <2>1. FirstOf(Cons(l, e), K, value) = IF l \in K THEN value[l] ELSE FirstOf(e, K, value)
    BY FirstOfNext DEF List
  <2>2. FirstOf(<<>>, K, value) = <<>>
    BY DEF FirstOf
  <2> QED
    BY <1>5, <2>1, <2>2, Zenon
<1>8. ReadIn(B, esc, nl, colon, specials, l \o Cons(nl, r), key) =
          IF has /\ v # <<>> THEN v ELSE ReadIn(B, esc, nl, colon, specials, r, key)
  BY <1>1, <1>2, <1>3, <1>4, <1>6, Zenon
<1>9. ReadIn(B, esc, nl, colon, specials, l, key) = IF has THEN v ELSE <<>>
  BY <1>1, <1>2, <1>3, <1>5, <1>7, Zenon
<1> QED
  BY <1>8, <1>9, Zenon DEF has, v

\* A line as it is written, and what follows it.
CardLine(esc, nl, colon, specials, k, t, r) == Cons(k, Cons(colon, EscapedBy(esc, t, specials))) \o Cons(nl, r)

\* A line written first is the one read, if it has the key and says something.
LEMMA LineIsRead ==
    ASSUME NEW B, NEW esc, NEW nl, NEW colon, NEW specials, CardMarks(B, esc, nl, colon, specials), NEW key,
           NEW k \in B, k # colon, k # nl, NEW t \in Text(B \ {nl}), NEW r \in Text(B)
    PROVE  /\ CardLine(esc, nl, colon, specials, k, t, r) \in Text(B)
           /\ ReadIn(B, esc, nl, colon, specials, CardLine(esc, nl, colon, specials, k, t, r), key) =
                 IF k = key /\ t # <<>> THEN t ELSE ReadIn(B, esc, nl, colon, specials, r, key)
<1> DEFINE A == B \ {nl}
<1>1. A \subseteq B /\ nl \notin A /\ esc \in A /\ colon \in A /\ k \in A /\ nl \in B /\ esc \in specials
  BY DEF CardMarks
<1> HIDE DEF A
<1>2. t \in Text(A)
  BY DEF A
<1>3. PICK e \in Text(A) : e = EscapedBy(esc, t, specials) /\ Unescape(esc, specials, e) = t
  <2>1. EscapedBy(esc, t, specials) \in Text(A)
    BY <1>1, <1>2, EscapedType
  <2>2. Unescape(esc, specials, EscapedBy(esc, t, specials)) = t
    BY <1>1, <1>2, UnescapeEscaped
  <2> QED
    BY <2>1, <2>2
<1>4. PICK l \in Text(A) : l = Cons(k, Cons(colon, e)) /\ Before(l, colon) = <<k>> /\ After(l, colon) = e
  <2>1. /\ Cons(k, Cons(colon, e)) \in Text(A)
        /\ Before(Cons(k, Cons(colon, e)), colon) = <<k>> /\ After(Cons(k, Cons(colon, e)), colon) = e
    BY <1>1, LineParts
  <2> QED
    BY <2>1
<1>5. ~Contains(l, nl) /\ l \in Text(B)
  BY <1>1, NotInText, SeqMonotonic DEF Text
<1>6. LineValue(esc, colon, specials, l) = t
  BY <1>3, <1>4, Zenon DEF LineValue
<1>7. ReadIn(B, esc, nl, colon, specials, l \o Cons(nl, r), key) =
          IF KeyIs(colon, l, key) /\ LineValue(esc, colon, specials, l) # <<>>
          THEN LineValue(esc, colon, specials, l) ELSE ReadIn(B, esc, nl, colon, specials, r, key)
  BY <1>1, <1>5, FirstLine
<1>8. KeyIs(colon, l, key) <=> k = key
  BY <1>4, OneSymbolKey
<1>9. CardLine(esc, nl, colon, specials, k, t, r) = l \o Cons(nl, r)
  BY <1>3, <1>4, Zenon DEF CardLine
<1>10. l \o Cons(nl, r) \in Text(B)
  BY <1>1, <1>5, LongerText, TextAfterText
<1> QED
  BY <1>4, <1>6, <1>7, <1>8, <1>9, <1>10, Zenon

\* What is read is that of the text after a word on a line of its own.
Unread(B, esc, nl, colon, specials, key, w, r) ==
    ReadIn(B, esc, nl, colon, specials, Cons(w, Cons(nl, r)), key) = ReadIn(B, esc, nl, colon, specials, r, key)

\* A word on a line of its own says nothing.
LEMMA WordIsNotRead ==
    ASSUME NEW B, NEW esc, NEW nl, NEW colon, NEW specials, CardMarks(B, esc, nl, colon, specials), NEW key,
           NEW w \in B, w # colon, w # nl, NEW r \in Text(B)
    PROVE  /\ Cons(w, Cons(nl, r)) \in Text(B)
           /\ Unread(B, esc, nl, colon, specials, key, w, r)
           /\ ReadIn(B, esc, nl, colon, specials, <<w>>, key) = <<>>
<1>1. nl \in B /\ nl # w
  BY DEF CardMarks
<1>2. PICK l \in Text(B) : l = <<w>> /\ Before(l, colon) = <<w>> /\ After(l, colon) = <<>>
  BY WordAlone
<1>3. ~Contains(l, nl)
  <2>1. <<w>> \in Text({w}) /\ nl \notin {w}
    BY <1>1 DEF Text
  <2> QED
    BY <1>2, <2>1, NotInText
<1>4. LineValue(esc, colon, specials, l) = <<>>
  BY <1>2, UnescapeNothing, Zenon DEF LineValue
<1>5. PICK s \in Text(B) : s = Cons(nl, r)
  BY <1>1, LongerText
<1>6. l \o s = Cons(w, s) /\ Cons(w, s) \in Text(B)
  <2>1. l \o s = Cons(w, s)
    BY <1>2, Zenon DEF Cons
  <2> QED
    BY <2>1, LongerText
<1>7. /\ ReadIn(B, esc, nl, colon, specials, l \o Cons(nl, r), key) =
            IF KeyIs(colon, l, key) /\ LineValue(esc, colon, specials, l) # <<>>
            THEN LineValue(esc, colon, specials, l) ELSE ReadIn(B, esc, nl, colon, specials, r, key)
      /\ ReadIn(B, esc, nl, colon, specials, l, key) =
            IF KeyIs(colon, l, key) THEN LineValue(esc, colon, specials, l) ELSE <<>>
  BY <1>1, <1>3, FirstLine
<1> QED
  BY <1>2, <1>4, <1>5, <1>6, <1>7, Zenon DEF Unread

\* Texts one after another, and symbols before them, of any kind.
ConsFirst(x, t, r) == Cons(x, t) \o r = Cons(x, t \o r)
ConcatFirst(s, t, r) == (s \o t) \o r = s \o (t \o r)
TwoFirst(x, y, t) == <<x, y>> \o t = Cons(x, Cons(y, t))

\* It makes no difference what is put together first.
LEMMA FirstTogether ==
    ASSUME NEW A, NEW s \in Text(A), NEW t \in Text(A), NEW r \in Text(A), NEW x, NEW y
    PROVE  ConcatFirst(s, t, r) /\ ConsFirst(x, t, r) /\ TwoFirst(x, y, t)
<1>1. (s \o t) \o r = s \o (t \o r)
  BY ConcatConcat
<1> DEFINE B == A \cup {x, y}
<1>2. A \subseteq B /\ x \in B /\ y \in B
  OBVIOUS
<1> HIDE DEF B
<1>3. t \in Text(B) /\ r \in Text(B)
  BY <1>2, SeqMonotonic DEF Text
<1>4. Cons(x, t) \o r = Cons(x, t \o r)
  BY <1>2, <1>3, ConsConcat
<1>5. <<x, y>> \o t = Cons(x, Cons(y, t))
  BY <1>2, <1>3, TwoBefore
<1> QED
  BY <1>1, <1>4, <1>5, Zenon DEF ConcatFirst, ConsFirst, TwoFirst

\* A line that is left out when it says nothing.
LineText(esc, nl, colon, specials, k, t) ==
    IF t = <<>> THEN <<>> ELSE (<<k, colon>> \o EscapedBy(esc, t, specials)) \o <<nl>>

\* It is read, if it has the key and says something.
LEMMA LineMayBeRead ==
    ASSUME NEW B, NEW esc, NEW nl, NEW colon, NEW specials, CardMarks(B, esc, nl, colon, specials), NEW key,
           NEW k \in B, k # colon, k # nl, NEW t \in Text(B \ {nl}), NEW r \in Text(B)
    PROVE  /\ LineText(esc, nl, colon, specials, k, t) \in Text(B)
           /\ LineText(esc, nl, colon, specials, k, t) \o r \in Text(B)
           /\ ReadIn(B, esc, nl, colon, specials, LineText(esc, nl, colon, specials, k, t) \o r, key) =
                 IF k = key /\ t # <<>> THEN t ELSE ReadIn(B, esc, nl, colon, specials, r, key)
<1>1. CASE t = <<>>
  <2>1. LineText(esc, nl, colon, specials, k, t) = <<>>
    BY <1>1 DEF LineText
  <2>2. PICK u \in Text(B) : u = <<>> /\ u \o r = r
    BY NoText, TextAfterText
  <2> QED
    BY <1>1, <2>1, <2>2, Zenon
<1>2. CASE t # <<>>
  <2>1. esc \in B /\ nl \in B /\ colon \in B
    BY DEF CardMarks
  <2>2. t \in Text(B)
    BY SeqMonotonic DEF Text
  <2>3. PICK e \in Text(B) : e = EscapedBy(esc, t, specials)
    BY <2>1, <2>2, EscapedType
  <2>4. PICK a \in Text(B), n \in Text(B) : a = <<k, colon>> /\ n = <<nl>>
    <3>1. <<k, colon>> \in Seq(B) /\ <<nl>> \in Seq(B)
      BY <2>1
    <3> QED
      BY <3>1 DEF Text
  <2>5. LineText(esc, nl, colon, specials, k, t) = (a \o e) \o n
    BY <1>2, <2>3, <2>4, Zenon DEF LineText
  <2>6. a \o e \in Text(B) /\ n \o r \in Text(B) /\ n \o r = Cons(nl, r)
    <3>1. a \o e \in Text(B) /\ n \o r \in Text(B)
      BY TextAfterText
    <3> QED
      BY <3>1, <2>4, Zenon DEF Cons
  <2>7. (a \o e) \o n \in Text(B) /\ ((a \o e) \o n) \o r \in Text(B)
    <3>1. (a \o e) \o n \in Text(B)
      BY <2>6, TextAfterText
    <3> QED
      BY <3>1, TextAfterText
  <2>8. ((a \o e) \o n) \o r = (a \o e) \o (n \o r)
    <3>1. PICK ae \in Text(B) : ae = a \o e
      BY <2>6
    <3>2. ConcatFirst(ae, n, r)
      BY FirstTogether
    <3> QED
      BY <3>1, <3>2, Zenon DEF ConcatFirst
  <2>9. a \o e = Cons(k, Cons(colon, e))
    <3>1. TwoFirst(k, colon, e)
      BY FirstTogether
    <3> QED
      BY <2>4, <3>1, Zenon DEF TwoFirst
  <2>10. ((a \o e) \o n) \o r = CardLine(esc, nl, colon, specials, k, t, r)
    BY <2>3, <2>6, <2>8, <2>9, Zenon DEF CardLine
  <2>11. ReadIn(B, esc, nl, colon, specials, CardLine(esc, nl, colon, specials, k, t, r), key) =
            IF k = key /\ t # <<>> THEN t ELSE ReadIn(B, esc, nl, colon, specials, r, key)
    BY LineIsRead
  <2> QED
    BY <2>5, <2>7, <2>10, <2>11, Zenon
<1> QED
  BY <1>1, <1>2

\* The lines of a card that may be left out, and its end.
CardRest(esc, nl, colon, specials, ORG, TEL, EMAIL, URL, end, org, phone, email, url) ==
    LineText(esc, nl, colon, specials, ORG, org)
    \o (LineText(esc, nl, colon, specials, TEL, phone)
    \o (LineText(esc, nl, colon, specials, EMAIL, email)
    \o (LineText(esc, nl, colon, specials, URL, url) \o <<end>>)))

\* A key of a card, and what is on one line of it.
LineWord(B, nl, colon, k) == k \in B /\ k # colon /\ k # nl
OneLine(B, nl, t) == t \in Text(B \ {nl})

\* Of these lines, those with the key are read.
LEMMA RestIsRead ==
    ASSUME NEW B, NEW esc, NEW nl, NEW colon, NEW specials, CardMarks(B, esc, nl, colon, specials), NEW key,
           NEW ORG, NEW TEL, NEW EMAIL, NEW URL, NEW end,
           LineWord(B, nl, colon, ORG), LineWord(B, nl, colon, TEL), LineWord(B, nl, colon, EMAIL),
           LineWord(B, nl, colon, URL), LineWord(B, nl, colon, end),
           NEW org, NEW phone, NEW email, NEW url,
           OneLine(B, nl, org), OneLine(B, nl, phone), OneLine(B, nl, email), OneLine(B, nl, url),
           key # ORG, key # URL
    PROVE  LET rest == CardRest(esc, nl, colon, specials, ORG, TEL, EMAIL, URL, end, org, phone, email, url)
           IN /\ rest \in Text(B)
              /\ ReadIn(B, esc, nl, colon, specials, rest, key) =
                    IF TEL = key /\ phone # <<>> THEN phone ELSE IF EMAIL = key THEN email ELSE <<>>
<1> DEFINE R(s) == ReadIn(B, esc, nl, colon, specials, s, key)
           L(k, t) == LineText(esc, nl, colon, specials, k, t)
<1>0. ASSUME NEW k, LineWord(B, nl, colon, k), NEW t, OneLine(B, nl, t), NEW r \in Text(B)
      PROVE  L(k, t) \o r \in Text(B) /\ R(L(k, t) \o r) = IF k = key /\ t # <<>> THEN t ELSE R(r)
  <2>1. k \in B /\ k # colon /\ k # nl /\ t \in Text(B \ {nl})
    BY <1>0 DEF LineWord, OneLine
  <2> QED
    BY <1>0, <2>1, LineMayBeRead
<1>1. PICK r0 \in Text(B) : r0 = <<end>> /\ R(r0) = <<>>
  <2>1. end \in B /\ end # colon /\ end # nl
    BY DEF LineWord
  <2>2. <<end>> \in Text(B)
    BY <2>1 DEF Text
  <2>3. PICK u \in Text(B) : u = <<>>
    BY NoText
  <2>4. R(<<end>>) = <<>>
    BY <2>1, <2>3, WordIsNotRead
  <2> QED
    BY <2>2, <2>4
<1> HIDE DEF R, L
<1>2. PICK r1 \in Text(B) : r1 = L(URL, url) \o r0 /\ R(r1) = <<>>
  <2>1. L(URL, url) \o r0 \in Text(B) /\ R(L(URL, url) \o r0) = IF URL = key /\ url # <<>> THEN url ELSE R(r0)
    BY <1>0
  <2> QED
    BY <1>1, <2>1
<1>3. PICK r2 \in Text(B) : r2 = L(EMAIL, email) \o r1 /\ R(r2) = IF EMAIL = key THEN email ELSE <<>>
  <2>1. L(EMAIL, email) \o r1 \in Text(B)
        /\ R(L(EMAIL, email) \o r1) = IF EMAIL = key /\ email # <<>> THEN email ELSE R(r1)
    BY <1>0
  <2> QED
    BY <1>2, <2>1
<1>4. PICK r3 \in Text(B) : r3 = L(TEL, phone) \o r2 /\ R(r3) = IF TEL = key /\ phone # <<>> THEN phone ELSE R(r2)
  BY <1>0
<1>5. PICK r4 \in Text(B) : r4 = L(ORG, org) \o r3 /\ R(r4) = R(r3)
  <2>1. L(ORG, org) \o r3 \in Text(B)
        /\ R(L(ORG, org) \o r3) = IF ORG = key /\ org # <<>> THEN org ELSE R(r3)
    BY <1>0
  <2> QED
    BY <2>1
<1>6. r4 = CardRest(esc, nl, colon, specials, ORG, TEL, EMAIL, URL, end, org, phone, email, url)
  BY <1>1, <1>2, <1>3, <1>4, <1>5, Zenon DEF CardRest, L
<1>7. R(r4) = IF TEL = key /\ phone # <<>> THEN phone ELSE IF EMAIL = key THEN email ELSE <<>>
  BY <1>3, <1>4, <1>5, Zenon
<1> QED
  BY <1>6, <1>7, Zenon DEF R

\* The lines that every card has, before the others.
CardHead(esc, nl, colon, specials, begin, version, number, N, FN, name, rest) ==
    Cons(begin, Cons(nl,
        CardLine(esc, nl, colon, specials, version, <<number>>,
            CardLine(esc, nl, colon, specials, N, name,
                CardLine(esc, nl, colon, specials, FN, name, rest)))))

\* Of these lines, the one of the name in reading order is read.
LEMMA HeadIsRead ==
    ASSUME NEW B, NEW esc, NEW nl, NEW colon, NEW specials, CardMarks(B, esc, nl, colon, specials), NEW key,
           NEW begin, NEW version, NEW number, NEW N, NEW FN,
           LineWord(B, nl, colon, begin), LineWord(B, nl, colon, version), LineWord(B, nl, colon, number),
           LineWord(B, nl, colon, N), LineWord(B, nl, colon, FN),
           NEW name, OneLine(B, nl, name), NEW rest \in Text(B),
           key # version, key # N
    PROVE  LET body == CardLine(esc, nl, colon, specials, version, <<number>>,
                           CardLine(esc, nl, colon, specials, N, name,
                               CardLine(esc, nl, colon, specials, FN, name, rest)))
               s == CardHead(esc, nl, colon, specials, begin, version, number, N, FN, name, rest)
           IN /\ body \in Text(B) /\ Cons(nl, body) \in Text(B) /\ s = Cons(begin, Cons(nl, body)) /\ s \in Text(B)
              /\ ReadIn(B, esc, nl, colon, specials, s, key) =
                    IF FN = key /\ name # <<>> THEN name ELSE ReadIn(B, esc, nl, colon, specials, rest, key)
<1> DEFINE R(s) == ReadIn(B, esc, nl, colon, specials, s, key)
           C(k, t, r) == CardLine(esc, nl, colon, specials, k, t, r)
<1>0. ASSUME NEW k, LineWord(B, nl, colon, k), NEW t, OneLine(B, nl, t), NEW r \in Text(B)
      PROVE  C(k, t, r) \in Text(B) /\ R(C(k, t, r)) = IF k = key /\ t # <<>> THEN t ELSE R(r)
  <2>1. k \in B /\ k # colon /\ k # nl /\ t \in Text(B \ {nl})
    BY <1>0 DEF LineWord, OneLine
  <2> QED
    BY <1>0, <2>1, LineIsRead
<1>1. nl \in B /\ begin \in B /\ begin # colon /\ begin # nl
  BY DEF CardMarks, LineWord
<1>2. OneLine(B, nl, <<number>>)
  BY DEF LineWord, OneLine, Text
<1>3. ASSUME NEW r \in Text(B)
      PROVE  Cons(nl, r) \in Text(B) /\ Cons(begin, Cons(nl, r)) \in Text(B) /\ R(Cons(begin, Cons(nl, r))) = R(r)
  <2>1. Cons(nl, r) \in Text(B)
    BY <1>1, LongerText
  <2>2. PICK u \in Text(B) : u = Cons(nl, r)
    BY <2>1
  <2>3. Cons(begin, u) \in Text(B)
    BY <1>1, LongerText
  <2>4. ReadIn(B, esc, nl, colon, specials, Cons(begin, Cons(nl, r)), key) =
            ReadIn(B, esc, nl, colon, specials, r, key)
    <3>1. Unread(B, esc, nl, colon, specials, key, begin, r)
      BY <1>1, WordIsNotRead
    <3> QED
      BY <3>1, Zenon DEF Unread
  <2>5. R(Cons(begin, Cons(nl, r))) = R(r)
    BY <2>4, Zenon DEF R
  <2> QED
    BY <2>1, <2>2, <2>3, <2>5
<1> HIDE DEF R, C
<1>4. PICK r1 \in Text(B) : r1 = C(FN, name, rest) /\ R(r1) = IF FN = key /\ name # <<>> THEN name ELSE R(rest)
  BY <1>0
<1>5. PICK r2 \in Text(B) : r2 = C(N, name, r1) /\ R(r2) = R(r1)
  <2>1. C(N, name, r1) \in Text(B) /\ R(C(N, name, r1)) = IF N = key /\ name # <<>> THEN name ELSE R(r1)
    BY <1>0
  <2> QED
    BY <2>1
<1>6. PICK r3 \in Text(B) : r3 = C(version, <<number>>, r2) /\ R(r3) = R(r2)
  <2>1. C(version, <<number>>, r2) \in Text(B)
        /\ R(C(version, <<number>>, r2)) = IF version = key /\ <<number>> # <<>> THEN <<number>> ELSE R(r2)
    BY <1>0, <1>2
  <2> QED
    BY <2>1
<1>7. PICK r4 \in Text(B) : r4 = Cons(begin, Cons(nl, r3)) /\ R(r4) = R(r3) /\ Cons(nl, r3) \in Text(B)
  BY <1>3
<1>8. r4 = CardHead(esc, nl, colon, specials, begin, version, number, N, FN, name, rest)
  BY <1>4, <1>5, <1>6, <1>7, Zenon DEF CardHead, C
<1>9. R(r4) = IF FN = key /\ name # <<>> THEN name ELSE R(rest)
  BY <1>4, <1>5, <1>6, <1>7, Zenon
<1> QED
  BY <1>4, <1>5, <1>6, <1>7, <1>8, <1>9, Zenon DEF R, C

\* A line as it is written, symbol by symbol.
LEMMA CardLineIs ==
    ASSUME NEW B, NEW esc, NEW nl, NEW colon, NEW specials, CardMarks(B, esc, nl, colon, specials),
           NEW k \in B, NEW t \in Text(B), NEW r \in Text(B)
    PROVE  CardLine(esc, nl, colon, specials, k, t, r) = Cons(k, Cons(colon, EscapedBy(esc, t, specials) \o Cons(nl, r)))
<1>1. esc \in B /\ nl \in B /\ colon \in B
  BY DEF CardMarks
<1>2. PICK e \in Text(B), s \in Text(B) : e = EscapedBy(esc, t, specials) /\ s = Cons(nl, r)
  BY <1>1, EscapedType, LongerText
<1>3. PICK f \in Text(B) : f = Cons(colon, e)
  BY <1>1, LongerText
<1>4. ConsFirst(k, f, s) /\ ConsFirst(colon, e, s)
  BY FirstTogether
<1> QED
  BY <1>2, <1>3, <1>4, Zenon DEF CardLine, ConsFirst

\* Eight symbols before a text.
EightFirst(a1, a2, a3, a4, a5, a6, a7, a8, t) ==
    <<a1, a2, a3, a4, a5, a6, a7, a8>> \o t =
        Cons(a1, Cons(a2, Cons(a3, Cons(a4, Cons(a5, Cons(a6, Cons(a7, Cons(a8, t))))))))

\* They come one by one.
LEMMA EightBefore ==
    ASSUME NEW A, NEW a1 \in A, NEW a2 \in A, NEW a3 \in A, NEW a4 \in A,
           NEW a5 \in A, NEW a6 \in A, NEW a7 \in A, NEW a8 \in A, NEW t \in Text(A)
    PROVE  EightFirst(a1, a2, a3, a4, a5, a6, a7, a8, t)
<1>1. /\ <<a1, a2, a3, a4>> \in Text(A) /\ <<a5, a6, a7, a8>> \in Text(A)
      /\ <<a1, a2, a3, a4, a5, a6, a7, a8>> = <<a1, a2, a3, a4>> \o <<a5, a6, a7, a8>>
  BY DEF Text
<1>2. PICK a \in Text(A), b \in Text(A) :
          /\ a = <<a1, a2, a3, a4>> /\ b = <<a5, a6, a7, a8>>
          /\ <<a1, a2, a3, a4, a5, a6, a7, a8>> = a \o b
  BY <1>1
<1>3. (a \o b) \o t = a \o (b \o t)
  BY ConcatConcat
<1>4. b \o t = Cons(a5, Cons(a6, Cons(a7, Cons(a8, t))))
  <2>1. FourFirst(a5, a6, a7, a8, t)
    BY SymbolsBefore
  <2> QED
    BY <1>2, <2>1, Zenon DEF FourFirst
<1>5. PICK u \in Text(A) : u = b \o t
  BY TextAfterText
<1>6. a \o u = Cons(a1, Cons(a2, Cons(a3, Cons(a4, u))))
  <2>1. FourFirst(a1, a2, a3, a4, u)
    BY SymbolsBefore
  <2> QED
    BY <1>2, <2>1, Zenon DEF FourFirst
<1> QED
  BY <1>2, <1>3, <1>4, <1>5, <1>6, Zenon DEF EightFirst

\* All of a card: its text, with names for its symbols.
CardText(esc, nl, colon, specials, begin, version, number, N, FN, ORG, TEL, EMAIL, URL, end,
         name, org, phone, email, url) ==
    <<begin, nl, version, colon, number, nl, N, colon>> \o EscapedBy(esc, name, specials)
    \o <<nl, FN, colon>> \o EscapedBy(esc, name, specials) \o <<nl>>
    \o LineText(esc, nl, colon, specials, ORG, org) \o LineText(esc, nl, colon, specials, TEL, phone)
    \o LineText(esc, nl, colon, specials, EMAIL, email) \o LineText(esc, nl, colon, specials, URL, url)
    \o <<end>>

\* The text of a card is its lines.
CardWritten(esc, nl, colon, specials, begin, version, number, N, FN, ORG, TEL, EMAIL, URL, end,
            name, org, phone, email, url) ==
    CardText(esc, nl, colon, specials, begin, version, number, N, FN, ORG, TEL, EMAIL, URL, end,
             name, org, phone, email, url)
      = CardHead(esc, nl, colon, specials, begin, version, number, N, FN, name,
            CardRest(esc, nl, colon, specials, ORG, TEL, EMAIL, URL, end, org, phone, email, url))

\* It is, symbol by symbol.
LEMMA CardIsWritten ==
    ASSUME NEW B, NEW esc, NEW nl, NEW colon, NEW specials, CardMarks(B, esc, nl, colon, specials),
           NEW begin \in B, NEW version \in B, NEW number \in B, NEW N \in B, NEW FN \in B,
           NEW ORG, NEW TEL, NEW EMAIL, NEW URL, NEW end \in B,
           LineWord(B, nl, colon, ORG), LineWord(B, nl, colon, TEL), LineWord(B, nl, colon, EMAIL),
           LineWord(B, nl, colon, URL), number \notin specials,
           NEW name, NEW org, NEW phone, NEW email, NEW url, OneLine(B, nl, name),
           OneLine(B, nl, org), OneLine(B, nl, phone), OneLine(B, nl, email), OneLine(B, nl, url)
    PROVE  CardWritten(esc, nl, colon, specials, begin, version, number, N, FN, ORG, TEL, EMAIL, URL, end,
                       name, org, phone, email, url)
<1>1. esc \in B /\ nl \in B /\ colon \in B
  BY DEF CardMarks
<1>2. name \in Text(B)
  BY SeqMonotonic DEF OneLine, Text
<1> DEFINE L(k, t) == LineText(esc, nl, colon, specials, k, t)
           C(k, t, r) == CardLine(esc, nl, colon, specials, k, t, r)
<1>3. ASSUME NEW k, LineWord(B, nl, colon, k), NEW t, OneLine(B, nl, t) PROVE L(k, t) \in Text(B)
  <2>1. k \in B /\ k # colon /\ k # nl /\ t \in Text(B \ {nl})
    BY <1>3 DEF LineWord, OneLine
  <2>2. PICK u \in Text(B) : u = <<>>
    BY NoText
  <2> QED
    BY <2>1, <2>2, LineMayBeRead
<1>c. ASSUME NEW k \in B, NEW t \in Text(B), NEW r \in Text(B)
      PROVE  C(k, t, r) \in Text(B) /\ C(k, t, r) = Cons(k, Cons(colon, EscapedBy(esc, t, specials) \o Cons(nl, r)))
  <2>1. EscapedBy(esc, t, specials) \in Text(B) /\ Cons(nl, r) \in Text(B)
    BY <1>1, EscapedType, LongerText
  <2>2. Cons(k, Cons(colon, EscapedBy(esc, t, specials))) \in Text(B)
    BY <1>1, <2>1, LongerText
  <2>3. C(k, t, r) \in Text(B)
    BY <2>1, <2>2, TextAfterText DEF CardLine
  <2> QED
    BY <2>3, CardLineIs
<1> HIDE DEF L, C
<1>4. PICK e \in Text(B) : e = EscapedBy(esc, name, specials)
  BY <1>1, <1>2, EscapedType
<1>5. PICK t6 \in Text(B), t7 \in Text(B), t8 \in Text(B), t9 \in Text(B) :
          t6 = L(ORG, org) /\ t7 = L(TEL, phone) /\ t8 = L(EMAIL, email) /\ t9 = L(URL, url)
  BY <1>3
<1>6. PICK t1 \in Text(B), t3 \in Text(B), t5 \in Text(B), t10 \in Text(B) :
          /\ t1 = <<begin, nl, version, colon, number, nl, N, colon>>
          /\ t3 = <<nl, FN, colon>> /\ t5 = <<nl>> /\ t10 = <<end>>
  <2>1. <<begin, nl, version, colon, number, nl, N, colon>> \in Seq(B)
    BY <1>1
  <2>2. <<nl, FN, colon>> \in Seq(B) /\ <<nl>> \in Seq(B) /\ <<end>> \in Seq(B)
    BY <1>1
  <2> QED
    BY <2>1, <2>2, Zenon DEF Text
<1> DEFINE s == CardText(esc, nl, colon, specials, begin, version, number, N, FN, ORG, TEL, EMAIL, URL, end,
                    name, org, phone, email, url)
<1>7. s = ((((((((t1 \o e) \o t3) \o e) \o t5) \o t6) \o t7) \o t8) \o t9) \o t10
  BY <1>4, <1>5, <1>6, Zenon DEF CardText, L
<1> HIDE DEF s
<1>8. PICK p \in Text(B) : p = (((t1 \o e) \o t3) \o e) \o t5
  <2>1. t1 \o e \in Text(B)
    BY TextAfterText
  <2>2. (t1 \o e) \o t3 \in Text(B)
    BY <2>1, TextAfterText
  <2>3. ((t1 \o e) \o t3) \o e \in Text(B)
    BY <2>2, TextAfterText
  <2>4. (((t1 \o e) \o t3) \o e) \o t5 \in Text(B)
    BY <2>3, TextAfterText
  <2> QED
    BY <2>4
<1>9. PICK rest \in Text(B) : rest = t6 \o (t7 \o (t8 \o (t9 \o t10)))
  <2>1. t9 \o t10 \in Text(B)
    BY TextAfterText
  <2>2. t8 \o (t9 \o t10) \in Text(B)
    BY <2>1, TextAfterText
  <2>3. t7 \o (t8 \o (t9 \o t10)) \in Text(B)
    BY <2>2, TextAfterText
  <2>4. t6 \o (t7 \o (t8 \o (t9 \o t10))) \in Text(B)
    BY <2>3, TextAfterText
  <2> QED
    BY <2>4
<1>10. s = p \o rest
  <2>1. Texts(B, p, t6, t7, t8, t9, t10)
    BY DEF Texts
  <2>2. Regrouped(p, t6, t7, t8, t9, t10)
    BY <2>1, SixInARow
  <2> QED
    BY <1>7, <1>8, <1>9, <2>2, Zenon DEF Regrouped
<1>11. p \o rest = t1 \o (e \o (t3 \o (e \o (t5 \o rest))))
  <2>1. Texts(B, t1, e, t3, e, t5, rest)
    BY DEF Texts
  <2>2. Regrouped(t1, e, t3, e, t5, rest)
    BY <2>1, SixInARow
  <2> QED
    BY <1>8, <2>2, Zenon DEF Regrouped
<1>12. t5 \o rest = Cons(nl, rest)
  BY <1>6, Zenon DEF Cons
<1>13. PICK r1 \in Text(B) : r1 = C(FN, name, rest) /\ t3 \o (e \o (t5 \o rest)) = Cons(nl, r1)
  <2>1. C(FN, name, rest) \in Text(B) /\ C(FN, name, rest) = Cons(FN, Cons(colon, e \o Cons(nl, rest)))
    BY <1>2, <1>4, <1>c
  <2>2. PICK u \in Text(B) : u = e \o Cons(nl, rest)
    BY <1>1, LongerText, TextAfterText
  <2>3. ThreeFirst(nl, FN, colon, u)
    BY SymbolsBefore
  <2> QED
    BY <1>6, <1>12, <2>1, <2>2, <2>3, Zenon DEF ThreeFirst
<1>14. PICK r2 \in Text(B) : r2 = C(N, name, r1) /\ r2 = Cons(N, Cons(colon, e \o Cons(nl, r1)))
  BY <1>2, <1>4, <1>c
<1>15. PICK r3 \in Text(B) : r3 = C(version, <<number>>, r2) /\ r3 = Cons(version, Cons(colon, Cons(number, Cons(nl, r2))))
  <2>1. EscapedBy(esc, <<number>>, specials) = <<number>>
    BY <1>1, OneSymbol
  <2>2. <<number>> \in Text(B)
    BY DEF Text
  <2>3. <<number>> \o Cons(nl, r2) = Cons(number, Cons(nl, r2))
    BY Zenon DEF Cons
  <2>4. C(version, <<number>>, r2) \in Text(B)
        /\ C(version, <<number>>, r2) = Cons(version, Cons(colon, EscapedBy(esc, <<number>>, specials) \o Cons(nl, r2)))
    BY <2>2, <1>c
  <2> QED
    BY <2>1, <2>3, <2>4, Zenon
<1>16. PICK u \in Text(B) : u = e \o Cons(nl, r1)
  BY <1>1, LongerText, TextAfterText
<1>17. EightFirst(begin, nl, version, colon, number, nl, N, colon, u)
  BY <1>1, EightBefore
<1>18. s = Cons(begin, Cons(nl, r3))
  BY <1>6, <1>10, <1>11, <1>13, <1>14, <1>15, <1>16, <1>17, Zenon DEF EightFirst
<1>19. rest = CardRest(esc, nl, colon, specials, ORG, TEL, EMAIL, URL, end, org, phone, email, url)
  BY <1>5, <1>6, <1>9, Zenon DEF CardRest, L
<1> QED
  BY <1>13, <1>14, <1>15, <1>18, <1>19, Zenon DEF CardWritten, CardHead, C, s

\* The marks and the words of a card: none ends a line or a key, and the keys
\* that are read differ from the others.
CardWords(B, esc, nl, colon, specials, begin, version, number, N, FN, ORG, TEL, EMAIL, URL, end) ==
    /\ CardMarks(B, esc, nl, colon, specials)
    /\ LineWord(B, nl, colon, begin) /\ LineWord(B, nl, colon, version) /\ LineWord(B, nl, colon, number)
    /\ LineWord(B, nl, colon, N) /\ LineWord(B, nl, colon, FN) /\ LineWord(B, nl, colon, ORG)
    /\ LineWord(B, nl, colon, TEL) /\ LineWord(B, nl, colon, EMAIL) /\ LineWord(B, nl, colon, URL)
    /\ LineWord(B, nl, colon, end)
    /\ number \notin specials
    /\ FN # version /\ FN # N /\ FN # ORG /\ FN # URL /\ FN # TEL /\ FN # EMAIL
    /\ TEL # version /\ TEL # N /\ TEL # ORG /\ TEL # URL /\ TEL # EMAIL
    /\ EMAIL # version /\ EMAIL # N /\ EMAIL # ORG /\ EMAIL # URL

\* A card comes back as it was written.
CardComesBack(B, esc, nl, colon, specials, begin, FN, TEL, EMAIL, name, phone, email, s) ==
    /\ s \in Text(B) /\ s # <<>> /\ Contains(s, nl)
    /\ Len(<<begin>>) <= Len(s) /\ SubSeq(s, 1, Len(<<begin>>)) = <<begin>>
    /\ ReadIn(B, esc, nl, colon, specials, s, FN) = name
    /\ ReadIn(B, esc, nl, colon, specials, s, TEL) = phone
    /\ ReadIn(B, esc, nl, colon, specials, s, EMAIL) = email

\* Whatever its fields hold, as long as each is one line.
LEMMA CardBack ==
    ASSUME NEW B, NEW esc, NEW nl, NEW colon, NEW specials, NEW begin, NEW version, NEW number, NEW N, NEW FN,
           NEW ORG, NEW TEL, NEW EMAIL, NEW URL, NEW end,
           CardWords(B, esc, nl, colon, specials, begin, version, number, N, FN, ORG, TEL, EMAIL, URL, end),
           NEW name, NEW org, NEW phone, NEW email, NEW url, OneLine(B, nl, name),
           OneLine(B, nl, org), OneLine(B, nl, phone), OneLine(B, nl, email), OneLine(B, nl, url)
    PROVE  CardComesBack(B, esc, nl, colon, specials, begin, FN, TEL, EMAIL, name, phone, email,
               CardText(esc, nl, colon, specials, begin, version, number, N, FN, ORG, TEL, EMAIL, URL, end,
                        name, org, phone, email, url))
<1> DEFINE rest == CardRest(esc, nl, colon, specials, ORG, TEL, EMAIL, URL, end, org, phone, email, url)
           body == CardLine(esc, nl, colon, specials, version, <<number>>,
                       CardLine(esc, nl, colon, specials, N, name,
                           CardLine(esc, nl, colon, specials, FN, name, rest)))
           s == CardHead(esc, nl, colon, specials, begin, version, number, N, FN, name, rest)
           t == CardText(esc, nl, colon, specials, begin, version, number, N, FN, ORG, TEL, EMAIL, URL, end,
                         name, org, phone, email, url)
           R(u, key) == ReadIn(B, esc, nl, colon, specials, u, key)
<1>1. /\ CardMarks(B, esc, nl, colon, specials) /\ number \notin specials
      /\ LineWord(B, nl, colon, begin) /\ LineWord(B, nl, colon, version) /\ LineWord(B, nl, colon, number)
      /\ LineWord(B, nl, colon, N) /\ LineWord(B, nl, colon, FN) /\ LineWord(B, nl, colon, ORG)
      /\ LineWord(B, nl, colon, TEL) /\ LineWord(B, nl, colon, EMAIL) /\ LineWord(B, nl, colon, URL)
      /\ LineWord(B, nl, colon, end)
  BY DEF CardWords
<1>2. begin \in B /\ version \in B /\ number \in B /\ N \in B /\ FN \in B /\ end \in B /\ nl \in B
  BY <1>1 DEF LineWord, CardMarks
<1>3. t = s
  <2>1. CardWritten(esc, nl, colon, specials, begin, version, number, N, FN, ORG, TEL, EMAIL, URL, end,
                    name, org, phone, email, url)
    <3> HIDE DEF rest, body, s, t, R
    <3> QED
      BY <1>1, <1>2, CardIsWritten
  <2> QED
    BY <2>1, Zenon DEF CardWritten
<1>4. ASSUME NEW key, key # ORG, key # URL
      PROVE  rest \in Text(B) /\ R(rest, key) = IF TEL = key /\ phone # <<>> THEN phone ELSE IF EMAIL = key THEN email ELSE <<>>
  BY <1>1, <1>4, RestIsRead
<1>5. rest \in Text(B)
  BY <1>4 DEF CardWords
<1>6. ASSUME NEW key, key # version, key # N
      PROVE  /\ body \in Text(B) /\ Cons(nl, body) \in Text(B) /\ s = Cons(begin, Cons(nl, body)) /\ s \in Text(B)
             /\ R(s, key) = IF FN = key /\ name # <<>> THEN name ELSE R(rest, key)
  BY <1>1, <1>5, <1>6, HeadIsRead
<1> HIDE DEF rest, body, s, t, R
<1>7. R(s, FN) = name
  <2>1. R(s, FN) = IF FN = FN /\ name # <<>> THEN name ELSE R(rest, FN)
    BY <1>6 DEF CardWords
  <2>2. R(rest, FN) = IF TEL = FN /\ phone # <<>> THEN phone ELSE IF EMAIL = FN THEN email ELSE <<>>
    BY <1>4 DEF CardWords
  <2> QED
    BY <2>1, <2>2 DEF CardWords
<1>8. R(s, TEL) = phone
  <2>1. R(s, TEL) = IF FN = TEL /\ name # <<>> THEN name ELSE R(rest, TEL)
    BY <1>6 DEF CardWords
  <2>2. R(rest, TEL) = IF TEL = TEL /\ phone # <<>> THEN phone ELSE IF EMAIL = TEL THEN email ELSE <<>>
    BY <1>4 DEF CardWords
  <2> QED
    BY <2>1, <2>2 DEF CardWords
<1>9. R(s, EMAIL) = email
  <2>1. R(s, EMAIL) = IF FN = EMAIL /\ name # <<>> THEN name ELSE R(rest, EMAIL)
    BY <1>6 DEF CardWords
  <2>2. R(rest, EMAIL) = IF TEL = EMAIL /\ phone # <<>> THEN phone ELSE IF EMAIL = EMAIL THEN email ELSE <<>>
    BY <1>4 DEF CardWords
  <2> QED
    BY <2>1, <2>2 DEF CardWords
<1>10. PICK u \in Text(B) : u = Cons(nl, body) /\ s = Cons(begin, u) /\ s \in Text(B)
  <2>1. Cons(nl, body) \in Text(B) /\ s = Cons(begin, Cons(nl, body)) /\ s \in Text(B)
    BY <1>6 DEF CardWords
  <2> QED
    BY <2>1
<1>11. /\ Cons(begin, u) # <<>>
       /\ Len(<<begin>>) <= Len(Cons(begin, u)) /\ SubSeq(Cons(begin, u), 1, Len(<<begin>>)) = <<begin>>
  BY <1>2, StartsWithIt
<1>12. Contains(s, nl)
  <2>1. PICK b \in Text(B) : u = Cons(nl, b)
    <3>1. body \in Text(B)
      BY <1>6 DEF CardWords
    <3> QED
      BY <1>10, <3>1
  <2>2. Contains(u, nl)
    BY <1>2, <2>1, ContainsNext
  <2> QED
    BY <1>2, <1>10, <2>2, ContainsNext
<1>13. CardComesBack(B, esc, nl, colon, specials, begin, FN, TEL, EMAIL, name, phone, email, s)
  BY <1>7, <1>8, <1>9, <1>10, <1>11, <1>12, Zenon DEF CardComesBack, R
<1> QED
  BY <1>3, <1>13, Zenon DEF t

\* FirstValue for the keys of lines, with a name for the mark that ends a key.
FirstValueBy(colon, lines, values, key) ==
    LET with == {i \in DOMAIN lines : KeyIs(colon, lines[i], key) /\ values[i] # <<>>}
    IN IF with = {} THEN <<>> ELSE values[Min(with)]

\* It is FirstValue of their keys.
LEMMA KeysOfLines ==
    ASSUME NEW colon, NEW lines, NEW values, NEW key
    PROVE  FirstValue([i \in DOMAIN lines |-> SubSeq(Before(lines[i], colon), 1, 1)], values, key)
             = FirstValueBy(colon, lines, values, key)
<1> DEFINE keys == [i \in DOMAIN lines |-> SubSeq(Before(lines[i], colon), 1, 1)]
<1>1. DOMAIN keys = DOMAIN lines /\ \A i \in DOMAIN lines : keys[i] = <<key>> <=> KeyIs(colon, lines[i], key)
  BY DEF KeyIs
<1> HIDE DEF keys
<1>2. {i \in DOMAIN keys : keys[i] = <<key>> /\ values[i] # <<>>}
        = {i \in DOMAIN lines : KeyIs(colon, lines[i], key) /\ values[i] # <<>>}
  BY <1>1
<1>3. FirstValue(keys, values, key) = FirstValueBy(colon, lines, values, key)
  BY <1>2, Zenon DEF FirstValue, FirstValueBy
<1> QED
  BY <1>3 DEF keys

\* The first value of the lines is the one that is read.
LEMMA FirstValueIs ==
    ASSUME NEW B, NEW esc, NEW colon, NEW specials, NEW p \in List(B), NEW key
    PROVE  FirstValueBy(colon, p, [i \in DOMAIN p |-> LineValue(esc, colon, specials, p[i])], key) =
             FirstOf(p, LinesWith(B, esc, colon, specials, key), [l \in Text(B) |-> LineValue(esc, colon, specials, l)])
<1> DEFINE values == [i \in DOMAIN p |-> LineValue(esc, colon, specials, p[i])]
           value == [l \in Text(B) |-> LineValue(esc, colon, specials, l)]
           K == LinesWith(B, esc, colon, specials, key)
           here == {i \in DOMAIN p : KeyIs(colon, p[i], key) /\ values[i] # <<>>}
           there == {i \in DOMAIN p : p[i] \in K}
<1>1. DOMAIN p = 1 .. Len(p) /\ Len(p) \in Nat /\ \A i \in DOMAIN p : p[i] \in Text(B)
  BY DEF List
<1>2. \A i \in DOMAIN p : values[i] = LineValue(esc, colon, specials, p[i])
  OBVIOUS
<1>3. \A l \in Text(B) : value[l] = LineValue(esc, colon, specials, l)
  OBVIOUS
<1>4. \A l \in Text(B) : l \in K <=> KeyIs(colon, l, key) /\ LineValue(esc, colon, specials, l) # <<>>
  BY Zenon DEF LinesWith
<1> HIDE DEF values, value, K
<1>5. here = there
  BY <1>1, <1>2, <1>4
<1>6. here # {} => Min(here) \in DOMAIN p
  <2>1. here \in SUBSET Nat
    BY <1>1
  <2>2. here # {} => Min(here) \in here
    <3> HIDE DEF here
    <3> QED
      BY <2>1, MinIsIn
  <2> QED
    BY <2>2
<1>7. FirstValueBy(colon, p, values, key) = IF here = {} THEN <<>> ELSE values[Min(here)]
  BY Zenon DEF FirstValueBy
<1>8. FirstOf(p, K, value) = IF there = {} THEN <<>> ELSE value[p[Min(there)]]
  BY Zenon DEF FirstOf
<1>9. here # {} => values[Min(here)] = value[p[Min(there)]]
  <2> HIDE DEF here, there
  <2> QED
    BY <1>1, <1>2, <1>3, <1>5, <1>6
<1> HIDE DEF here, there
<1>10. FirstValueBy(colon, p, values, key) = FirstOf(p, K, value)
  BY <1>5, <1>7, <1>8, <1>9, Zenon
<1> QED
  BY <1>10, Zenon DEF values, value, K

\* A text escaped symbol by symbol, but for the line break that is written otherwise.
BrokenBy(esc, nl, w, t, specials) ==
    FlattenSeq([i \in DOMAIN t |-> IF t[i] \in specials THEN <<esc, t[i]>> ELSE IF t[i] = nl THEN w ELSE <<t[i]>>])

\* A text without a line break is only escaped.
LEMMA NothingToBreak ==
    ASSUME NEW t, NEW esc, NEW nl, NEW specials, NEW w, IsText(t), ~Contains(t, nl)
    PROVE  BrokenBy(esc, nl, w, t, specials) = EscapedBy(esc, t, specials)
<1>1. \A i \in DOMAIN t : t[i] # nl
  BY DEF IsText, Contains
<1>2. [i \in DOMAIN t |-> IF t[i] \in specials THEN <<esc, t[i]>> ELSE IF t[i] = nl THEN w ELSE <<t[i]>>]
        = [i \in DOMAIN t |-> IF t[i] \in specials THEN <<esc, t[i]>> ELSE <<t[i]>>]
  BY <1>1
<1> QED
  BY <1>2, Zenon DEF BrokenBy, EscapedBy

\* So one line is escaped in a card as it is in a network, but for which symbols.
LEMMA EscapeVCardIs ==
    ASSUME NEW s, IsLine(s)
    PROVE  EscapeVCard(s) = Escaped(s, {"\\", ";", ","})
<1> DEFINE specials == {"\\", ";", ","}
<1>1. IsText(s) /\ ~Contains(s, "\n")
  BY Zenon DEF IsLine
<1>2. EscapeVCard(s) = BrokenBy("\\", "\n", <<"\\", "n">>, s, specials)
  BY Zenon DEF EscapeVCard, BrokenBy
<1>3. Escaped(s, specials) = EscapedBy("\\", s, specials)
  BY EscapedIs, Zenon
<1> HIDE DEF specials
<1>4. \A esc, nl, w : ~Contains(s, nl) => BrokenBy(esc, nl, w, s, specials) = EscapedBy(esc, s, specials)
  BY <1>1, NothingToBreak, Zenon
<1>5. Escaped(s, specials) = EscapeVCard(s)
  BY <1>1, <1>2, <1>3, <1>4, Zenon
<1> QED
  BY <1>5, Zenon DEF specials

\* The text of a card, and what the dialog's parser makes of a text.
LEMMA VCardIs ==
    ASSUME NEW name, NEW org, NEW phone, NEW email, NEW url,
           IsLine(name), IsLine(org), IsLine(phone), IsLine(email), IsLine(url)
    PROVE  VCard(name, org, phone, email, url) =
             CardText("\\", "\n", ":", {"\\", ";", ","}, "BEGIN:VCARD", "VERSION", "3.0", "N", "FN",
                      "ORG", "TEL", "EMAIL", "URL", "END:VCARD", name, org, phone, email, url)
<1> DEFINE specials == {"\\", ";", ","}
<1>1. \A t : IsLine(t) => EscapeVCard(t) = EscapedBy("\\", t, specials)
  BY EscapeVCardIs, EscapedIs, Zenon
<1> HIDE DEF specials
<1>2. \A key, t : IsLine(t) => Line(key, t) = LineText("\\", "\n", ":", specials, key, t)
  BY <1>1, Zenon DEF Line, LineText
<1>3. VCard(name, org, phone, email, url) =
             CardText("\\", "\n", ":", specials, "BEGIN:VCARD", "VERSION", "3.0", "N", "FN",
                      "ORG", "TEL", "EMAIL", "URL", "END:VCARD", name, org, phone, email, url)
  BY <1>1, <1>2, Zenon DEF VCard, CardText
<1> QED
  BY <1>3 DEF specials

\* A text starts with one symbol.
LEMMA OneStart ==
    ASSUME NEW s, NEW x, NEW y, Starts(s, {<<x>>}), Starts(s, {<<y>>})
    PROVE  x = y
<1>1. Len(<<x>>) = 1 /\ Len(<<y>>) = 1
  OBVIOUS
<1>2. SubSeq(s, 1, Len(<<x>>)) = <<x>> /\ SubSeq(s, 1, Len(<<y>>)) = <<y>>
  BY Zenon DEF Starts
<1>3. <<x>> = <<y>>
  BY <1>1, <1>2, Zenon
<1>4. <<x>>[1] = x /\ <<y>>[1] = y
  OBVIOUS
<1> QED
  BY <1>3, <1>4, Zenon

\* parseVCard() of the text of a card.
LEMMA CardIsParsed ==
    ASSUME NEW B, "\n" \in B, NEW s \in Text(B), Starts(s, {<<"BEGIN:VCARD">>})
    PROVE  ParseVCard(s) = {[name |-> ReadIn(B, "\\", "\n", ":", {"\\", ";", ","}, s, "FN"),
                             phone |-> ReadIn(B, "\\", "\n", ":", {"\\", ";", ","}, s, "TEL"),
                             email |-> ReadIn(B, "\\", "\n", ":", {"\\", ";", ","}, s, "EMAIL")]}
<1> DEFINE lines == Split(s, "\n")
           keys == [i \in DOMAIN lines |-> SubSeq(Before(lines[i], ":"), 1, 1)]
           values == [i \in DOMAIN lines |-> UnescapeVCard(After(lines[i], ":"))]
<1>1. ~Starts(s, {<<"MECARD:">>})
  <2>1. "MECARD:" # "BEGIN:VCARD"
    OBVIOUS
  <2> QED
    BY <2>1, OneStart
<1>2. ParseVCard(s) =
               {[name |-> FirstValue(keys, values, "FN"), phone |-> FirstValue(keys, values, "TEL"),
                 email |-> FirstValue(keys, values, "EMAIL")]}
  BY <1>1, Zenon DEF ParseVCard
<1>3. lines \in List(B)
  <2>1. PICK c : c = "\n"
    OBVIOUS
  <2>3. c \in B
    BY <2>1
  <2> HIDE DEF lines, values
  <2>2. Split(s, c) \in List(B)
    BY <2>3, SplitNext DEF Pieces
  <2> QED
    BY <2>1, <2>2, Zenon DEF lines
<1>4. {";", ",", "\\"} = {"\\", ";", ","}
  BY Zenon
<1>5. \A x : UnescapeVCard(x) = Unescape("\\", {"\\", ";", ","}, x)
  BY <1>4, UnescapeVCardIs, Zenon
<1>6. values = [i \in DOMAIN lines |-> LineValue("\\", ":", {"\\", ";", ","}, lines[i])]
  BY <1>5, Zenon DEF LineValue
<1>7. keys = [i \in DOMAIN lines |-> SubSeq(Before(lines[i], ":"), 1, 1)]
  OBVIOUS
<1> HIDE DEF lines, values, keys
<1>8. ASSUME NEW key
      PROVE  FirstValue(keys, values, key) = ReadIn(B, "\\", "\n", ":", {"\\", ";", ","}, s, key)
  <2>1. FirstValue(keys, values, key) = FirstValueBy(":", lines, values, key)
    BY <1>7, KeysOfLines, Zenon
  <2>2. PICK esc, colon, specials : esc = "\\" /\ colon = ":" /\ specials = {"\\", ";", ","}
    BY Zenon
  <2>3. FirstValueBy(colon, lines, [i \in DOMAIN lines |-> LineValue(esc, colon, specials, lines[i])], key) =
             FirstOf(lines, LinesWith(B, esc, colon, specials, key), [l \in Text(B) |-> LineValue(esc, colon, specials, l)])
    BY <1>3, FirstValueIs
  <2>4. FirstValueBy(":", lines, values, key) =
             FirstOf(lines, LinesWith(B, "\\", ":", {"\\", ";", ","}, key),
                     [l \in Text(B) |-> LineValue("\\", ":", {"\\", ";", ","}, l)])
    BY <1>6, <2>2, <2>3, Zenon
  <2> QED
    BY <2>1, <2>4, Zenon DEF ReadIn, lines
<1>9. /\ FirstValue(keys, values, "FN") = ReadIn(B, "\\", "\n", ":", {"\\", ";", ","}, s, "FN")
      /\ FirstValue(keys, values, "TEL") = ReadIn(B, "\\", "\n", ":", {"\\", ";", ","}, s, "TEL")
      /\ FirstValue(keys, values, "EMAIL") = ReadIn(B, "\\", "\n", ":", {"\\", ";", ","}, s, "EMAIL")
  BY <1>8, Zenon
<1> QED
  BY <1>2, <1>9, Zenon

\* The card of a contact says what was written.
CardSays(name, org, phone, email, url) ==
    LET s == VCard(name, org, phone, email, url)
    IN /\ s # <<>> /\ Contains(s, "\n")
       /\ Starts(s, {<<"BEGIN:VCARD">>})
       /\ ParseVCard(s) = {[name |-> name, phone |-> phone, email |-> email]}

\* It does, whatever its fields hold, as long as each is one line.
LEMMA CardRoundTrip ==
    ASSUME NEW name, NEW org, NEW phone, NEW email, NEW url,
           IsLine(name), IsLine(org), IsLine(phone), IsLine(email), IsLine(url)
    PROVE  CardSays(name, org, phone, email, url)
<1> DEFINE specials == {"\\", ";", ","}
           words == {"BEGIN:VCARD", "VERSION", "3.0", "N", "FN", "ORG", "TEL", "EMAIL", "URL", "END:VCARD"}
           s == VCard(name, org, phone, email, url)
           A == Range(name) \cup Range(org) \cup Range(phone) \cup Range(email) \cup Range(url)
           B == A \cup {"\\", "\n", ":"} \cup words
<1>1. OneLine(B, "\n", name) /\ OneLine(B, "\n", org) /\ OneLine(B, "\n", phone) /\ OneLine(B, "\n", email)
      /\ OneLine(B, "\n", url)
  <2>1. Range(name) \subseteq B /\ Range(org) \subseteq B /\ Range(phone) \subseteq B /\ Range(email) \subseteq B
        /\ Range(url) \subseteq B
    BY Zenon
  <2>2. PICK c : c = "\n"
    OBVIOUS
  <2> HIDE DEF B
  <2>3. ASSUME NEW t, IsText(t), ~Contains(t, c), Range(t) \subseteq B
        PROVE  OneLine(B, c, t)
    <3>1. t \in Text(B)
      BY <2>3, SeqMonotonic DEF IsText, Text
    <3> QED
      BY <2>3, <3>1, TextWithout DEF OneLine
  <2> QED
    BY <2>1, <2>2, <2>3, Zenon DEF IsLine
<1>2. CardWords(B, "\\", "\n", ":", specials, "BEGIN:VCARD", "VERSION", "3.0", "N", "FN",
                "ORG", "TEL", "EMAIL", "URL", "END:VCARD")
  <2>1. /\ "\\" \in B /\ "\n" \in B /\ ":" \in B /\ "BEGIN:VCARD" \in B /\ "VERSION" \in B /\ "3.0" \in B /\ "N" \in B
        /\ "FN" \in B /\ "ORG" \in B /\ "TEL" \in B /\ "EMAIL" \in B /\ "URL" \in B /\ "END:VCARD" \in B
    BY Zenon
  <2> HIDE DEF B
  <2>2. "\\" \in specials /\ "3.0" \notin specials /\ "\n" # "\\" /\ ":" # "\n"
    BY Zenon
  <2> HIDE DEF specials
  <2>3. CardMarks(B, "\\", "\n", ":", specials)
    BY <2>1, <2>2, Zenon DEF CardMarks
  <2>4. /\ LineWord(B, "\n", ":", "BEGIN:VCARD") /\ LineWord(B, "\n", ":", "VERSION") /\ LineWord(B, "\n", ":", "3.0")
        /\ LineWord(B, "\n", ":", "N") /\ LineWord(B, "\n", ":", "FN") /\ LineWord(B, "\n", ":", "ORG")
        /\ LineWord(B, "\n", ":", "TEL") /\ LineWord(B, "\n", ":", "EMAIL") /\ LineWord(B, "\n", ":", "URL")
        /\ LineWord(B, "\n", ":", "END:VCARD")
    BY <2>1, Zenon DEF LineWord
  <2> QED
    BY <2>2, <2>3, <2>4, Zenon DEF CardWords
<1>3. CardComesBack(B, "\\", "\n", ":", specials, "BEGIN:VCARD", "FN", "TEL", "EMAIL", name, phone, email, s)
  <2>1. s = CardText("\\", "\n", ":", specials, "BEGIN:VCARD", "VERSION", "3.0", "N", "FN",
                      "ORG", "TEL", "EMAIL", "URL", "END:VCARD", name, org, phone, email, url)
    BY VCardIs, Zenon
  <2> HIDE DEF B, s, specials
  <2>2. PICK esc, nl, colon, sp, begin, version, number, N, FN, ORG, TEL, EMAIL, URL, end :
            /\ esc = "\\" /\ nl = "\n" /\ colon = ":" /\ sp = specials /\ begin = "BEGIN:VCARD"
            /\ version = "VERSION" /\ number = "3.0" /\ N = "N" /\ FN = "FN" /\ ORG = "ORG" /\ TEL = "TEL"
            /\ EMAIL = "EMAIL" /\ URL = "URL" /\ end = "END:VCARD"
    BY Zenon
  <2>3. CardWords(B, esc, nl, colon, sp, begin, version, number, N, FN, ORG, TEL, EMAIL, URL, end)
    BY <1>2, <2>2, Zenon
  <2>4. OneLine(B, nl, name) /\ OneLine(B, nl, org) /\ OneLine(B, nl, phone) /\ OneLine(B, nl, email) /\ OneLine(B, nl, url)
    BY <1>1, <2>2, Zenon
  <2>5. CardComesBack(B, esc, nl, colon, sp, begin, FN, TEL, EMAIL, name, phone, email,
               CardText(esc, nl, colon, sp, begin, version, number, N, FN, ORG, TEL, EMAIL, URL, end,
                        name, org, phone, email, url))
    BY <2>3, <2>4, CardBack
  <2> QED
    BY <2>1, <2>2, <2>5, Zenon
<1> HIDE DEF s, B
<1>4. s # <<>> /\ Contains(s, "\n") /\ s \in Text(B) /\ "\n" \in B
  <2>1. "\n" \in B
    BY Zenon DEF B
  <2> QED
    BY <1>3, <2>1, Zenon DEF CardComesBack
<1>5. Starts(s, {<<"BEGIN:VCARD">>})
  BY <1>3, Zenon DEF CardComesBack, Starts
<1>6. ParseVCard(s) = {[name |-> ReadIn(B, "\\", "\n", ":", specials, s, "FN"),
                        phone |-> ReadIn(B, "\\", "\n", ":", specials, s, "TEL"),
                        email |-> ReadIn(B, "\\", "\n", ":", specials, s, "EMAIL")]}
  BY <1>4, <1>5, CardIsParsed, Zenon
<1>7. /\ ReadIn(B, "\\", "\n", ":", specials, s, "FN") = name
      /\ ReadIn(B, "\\", "\n", ":", specials, s, "TEL") = phone
      /\ ReadIn(B, "\\", "\n", ":", specials, s, "EMAIL") = email
  BY <1>3, Zenon DEF CardComesBack
<1>8. ParseVCard(s) = {[name |-> name, phone |-> phone, email |-> email]}
  BY <1>6, <1>7, Zenon
<1> QED
  BY <1>4, <1>5, <1>8, Zenon DEF s, CardSays

-----------------------------------------------------------------------------
(* The card saved, of a contact on lines of its own.                       *)

\* A text over symbols that do not end a line is one.
LEMMA TextIsLine ==
    ASSUME NEW A, "\n" \notin A, NEW t \in Text(A)
    PROVE  IsLine(t)
<1>1. t \in Seq(Range(t))
  <2>1. t \in [1 .. Len(t) -> Range(t)] /\ Len(t) \in Nat
    BY DEF Text, Range
  <2> QED
    BY <2>1
<1>2. PICK c : c = "\n"
  OBVIOUS
<1>3. ~Contains(t, c)
  BY <1>2, NotInText
<1> QED
  BY <1>1, <1>2, <1>3, Zenon DEF IsLine, IsText

\* Trimmed, with a name for the blank.
TrimmedBy(blank, s) ==
    LET ink == {i \in DOMAIN s : s[i] # blank}
    IN IF ink = {} THEN <<>> ELSE SubSeq(s, Min(ink), Max(ink))

\* What is trimmed is a text over the same symbols.
LEMMA TrimmedByType ==
    ASSUME NEW blank, NEW A, NEW t \in Text(A)
    PROVE  TrimmedBy(blank, t) \in Text(A)
<1> DEFINE ink == {i \in DOMAIN t : t[i] # blank}
<1>1. t \in Seq(A) /\ Len(t) \in Nat /\ ink \in SUBSET (1 .. Len(t))
  BY DEF Text
<1>2. TrimmedBy(blank, t) = IF ink = {} THEN <<>> ELSE SubSeq(t, Min(ink), Max(ink))
  BY Zenon DEF TrimmedBy
<1> HIDE DEF ink
<1>3. CASE ink = {}
  BY <1>2, <1>3, NoText
<1>4. CASE ink # {}
  <2>1. Min(ink) \in ink /\ \A y \in ink : Min(ink) <= y
    <3>1. ink \in SUBSET Nat
      BY <1>1
    <3> QED
      BY <1>4, <3>1, MinIsIn
  <2>2. Max(ink) \in ink
    <3>1. ink \in SUBSET (0 .. Len(t))
      BY <1>1
    <3> QED
      BY <1>1, <1>4, <3>1, MaxIsIn
  <2>5. Min(ink) \in 1 .. Len(t) /\ Max(ink) \in 1 .. Len(t) /\ Min(ink) <= Max(ink)
    BY <1>1, <2>1, <2>2
  <2>6. PICK m, n : m = Min(ink) /\ n = Max(ink)
    OBVIOUS
  <2>3. m \in 1 .. Len(t) + 1 /\ n \in 0 .. Len(t) /\ m <= n + 1
    BY <1>1, <2>5, <2>6
  <2>4. SubSeq(t, m, n) \in Seq(A)
    BY <1>1, <2>3, PartIs
  <2> QED
    BY <1>2, <1>4, <2>6, <2>4 DEF Text
<1> QED
  BY <1>3, <1>4

\* The same of Trimmed.
LEMMA TrimmedType ==
    ASSUME NEW A, NEW t \in Text(A)
    PROVE  Trimmed(t) \in Text(A)
<1>1. PICK blank : blank = " "
  BY Zenon
<1>2. TrimmedBy(blank, t) \in Text(A)
  BY TrimmedByType
<1>3. Trimmed(t) = TrimmedBy(" ", t)
  BY Zenon DEF Trimmed, TrimmedBy
<1> QED
  BY <1>1, <1>2, <1>3, Zenon

\* So is the first value of a list of them.
LEMMA FirstValueType ==
    ASSUME NEW A, NEW n \in Nat, NEW keys, NEW values, DOMAIN keys = 1 .. n,
           \A i \in 1 .. n : values[i] \in Text(A), NEW key
    PROVE  FirstValue(keys, values, key) \in Text(A)
<1> DEFINE here == {i \in DOMAIN keys : keys[i] = <<key>> /\ values[i] # <<>>}
<1>1. here \in SUBSET (1 .. n) /\ here \in SUBSET Nat
  OBVIOUS
<1>2. FirstValue(keys, values, key) = IF here = {} THEN <<>> ELSE values[Min(here)]
  BY Zenon DEF FirstValue
<1> HIDE DEF here
<1>3. here # {} => Min(here) \in here
  BY <1>1, MinIsIn
<1> QED
  BY <1>1, <1>2, <1>3, NoText

\* What is kept of the pieces is a list.
LEMMA KeptType ==
    ASSUME NEW A, NEW q \in Pieces(A)
    PROVE  Kept(q) \in List(A)
<1>1. PICK e \in Text(A) : e = <<>>
  BY NoText
<1> QED
  BY <1>1, KeptFurther

\* ReadingOrder, with names for the blank and the comma.
ReadingOrderBy(blank, comma, name) ==
    LET parts == Split(name, comma)
    IN IF Len(parts) > 1 THEN TrimmedBy(blank, parts[2] \o <<blank>> \o parts[1]) ELSE TrimmedBy(blank, name)

\* A name in reading order is a text, too.
LEMMA ReadingOrderByType ==
    ASSUME NEW A, NEW blank \in A, NEW comma, NEW t \in Text(A)
    PROVE  ReadingOrderBy(blank, comma, t) \in Text(A)
<1> DEFINE parts == Split(t, comma)
<1>1. ReadingOrderBy(blank, comma, t) =
          IF Len(parts) > 1 THEN TrimmedBy(blank, parts[2] \o <<blank>> \o parts[1]) ELSE TrimmedBy(blank, t)
  BY Zenon DEF ReadingOrderBy
<1>2. parts \in List(A)
  BY SplitNext DEF Pieces
<1> HIDE DEF parts
<1>3. <<blank>> \in Text(A)
  BY DEF Text
<1>4. PICK b \in Text(A) : b = <<blank>>
  BY <1>3
<1>5. Len(parts) > 1 => parts[2] \o <<blank>> \o parts[1] \in Text(A)
  <2> SUFFICES ASSUME Len(parts) > 1 PROVE parts[2] \o <<blank>> \o parts[1] \in Text(A)
    OBVIOUS
  <2>1. PICK p \in Text(A), q \in Text(A) : p = parts[1] /\ q = parts[2]
    <3>1. Len(parts) \in Nat /\ 1 \in 1 .. Len(parts) /\ 2 \in 1 .. Len(parts)
      BY <1>2 DEF List
    <3>2. \A i \in 1 .. Len(parts) : parts[i] \in Text(A)
      BY <1>2 DEF List
    <3> QED
      BY <3>1, <3>2
  <2>2. q \o b \in Text(A)
    BY TextAfterText
  <2>3. (q \o b) \o p \in Text(A)
    BY <2>2, TextAfterText
  <2> QED
    BY <1>4, <2>1, <2>3, Zenon
<1> QED
  BY <1>1, <1>5, TrimmedByType

\* The same of ReadingOrder.
LEMMA ReadingOrderType ==
    ASSUME NEW A, NEW blank \in A, blank = " ", NEW t \in Text(A)
    PROVE  ReadingOrder(t) \in Text(A)
<1>0. PICK comma, r : comma = "," /\ r = ReadingOrderBy(" ", ",", t)
  BY Zenon
<1>1. PICK sp \in A : sp = " " /\ comma = "," /\ r = ReadingOrderBy(" ", ",", t)
  BY <1>0, Zenon
<1>2. ReadingOrderBy(sp, comma, t) \in Text(A)
  BY ReadingOrderByType
<1>3. ReadingOrder(t) = r
  BY <1>1, Zenon DEF ReadingOrder, ReadingOrderBy, Trimmed, TrimmedBy
<1> QED
  BY <1>1, <1>2, <1>3, Zenon

\* The codes whose contact is on lines of its own: a card, or a code of one line.
OneLineEach(s) == IsText(s) /\ (Starts(s, {<<"BEGIN:VCARD">>}) \/ ~Contains(s, "\n"))

\* A contact, each field of which is one line.
OnLines(c) ==
    /\ c = [name |-> c.name, phone |-> c.phone, email |-> c.email]
    /\ IsLine(c.name) /\ IsLine(c.phone) /\ IsLine(c.email)

\* Nothing is one line.
LEMMA NothingIsLine == IsLine(<<>>)
  BY DEF IsLine, IsText, Contains

\* A text that starts with a word has something to it.
LEMMA StartedIsText ==
    ASSUME NEW s, IsText(s), NEW x, Starts(s, {<<x>>})
    PROVE  s # <<>> /\ Tail(s) \in Text(Range(s))
<1>1. Len(<<x>>) = 1
  OBVIOUS
<1>2. Len(<<x>>) <= Len(s)
  BY Zenon DEF Starts
<1>3. s # <<>> /\ Len(s) \in Nat /\ 1 <= Len(s)
  BY <1>1, <1>2 DEF IsText
<1> QED
  BY <1>3 DEF IsText, Text

\* The fields of a MECARD of one line are on lines of their own.
LEMMA MecardOnLines ==
    ASSUME NEW s, IsText(s), ~Contains(s, "\n"), s # <<>>
    PROVE  OnLines(ParseMecard(s))
<1> DEFINE A == (Range(s) \ {"\n"}) \cup {" "}
           fields == Fields(Tail(s))
           keys == [i \in DOMAIN fields |-> Before(fields[i], ":")]
           values == [i \in DOMAIN fields |-> After(fields[i], ":")]
           names == [i \in DOMAIN fields |-> ReadingOrder(values[i])]
<1>1. "\n" \notin A /\ " " \in A
  BY Zenon
<1>2. Tail(s) \in Text(A)
  <2>1. PICK c : c = "\n"
    OBVIOUS
  <2>2. s \in Text(Range(s))
    BY DEF IsText, Text
  <2>3. s \in Text(Range(s) \ {c})
    BY <2>1, <2>2, TextWithout
  <2>4. s \in Seq(A)
    <3>1. Range(s) \ {c} \subseteq A
      BY <2>1
    <3> QED
      BY <2>3, <3>1, SeqMonotonic DEF Text
  <2> HIDE DEF A
  <2> QED
    BY <2>4 DEF Text
<1> HIDE DEF A
<1>3. fields \in List(A)
  <2>0. ";" # "\\"
    BY Zenon
  <2>1. PICK esc, sep : esc = "\\" /\ sep = ";" /\ sep # esc
    BY <2>0, Zenon
  <2>2. FieldsBy(esc, sep, Tail(s)) \in Pieces(A)
    BY <1>2, <2>1, FieldsType
  <2>3. Kept(FieldsBy(esc, sep, Tail(s))) \in List(A)
    BY <2>2, KeptType
  <2> QED
    BY <2>1, <2>3, FieldPiecesAre, Zenon DEF Fields, Kept
<1> HIDE DEF fields
<1>4. PICK n \in Nat : DOMAIN fields = 1 .. n /\ \A i \in 1 .. n : fields[i] \in Text(A)
  BY <1>3 DEF List
<1>5. \A i \in 1 .. n : values[i] \in Text(A)
  <2>1. PICK c : c = ":"
    OBVIOUS
  <2>2. \A i \in 1 .. n : After(fields[i], c) \in Text(A)
    BY <1>4, BeforeAndAfter
  <2> QED
    BY <1>4, <2>1, <2>2, Zenon
<1>6. \A i \in 1 .. n : names[i] \in Text(A)
  <2> HIDE DEF values
  <2>1. \A t \in Text(A) : ReadingOrder(t) \in Text(A)
    BY <1>1, ReadingOrderType, Zenon
  <2> QED
    BY <1>4, <1>5, <2>1
<1>10. DOMAIN keys = 1 .. n
  BY <1>4
<1> HIDE DEF keys, values, names
<1>7. \A key : FirstValue(keys, values, key) \in Text(A) /\ FirstValue(keys, names, key) \in Text(A)
  BY <1>5, <1>6, <1>10, FirstValueType
<1>8. \A key : IsLine(FirstValue(keys, values, key)) /\ IsLine(FirstValue(keys, names, key))
  BY <1>1, <1>7, TextIsLine
<1>9. PICK a, b, c : /\ IsLine(a) /\ IsLine(b) /\ IsLine(c)
                     /\ ParseMecard(s) = [name |-> a, phone |-> b, email |-> c]
  <2>1. ParseMecard(s) = [name |-> FirstValue(keys, names, "N"), phone |-> FirstValue(keys, values, "TEL"),
                          email |-> FirstValue(keys, values, "EMAIL")]
    BY Zenon DEF ParseMecard, fields, keys, names, values
  <2> QED
    BY <1>8, <2>1, Zenon
<1> QED
  BY <1>9 DEF OnLines

\* Those of a card always are.
LEMMA CardOnLines ==
    ASSUME NEW s, IsText(s), Starts(s, {<<"BEGIN:VCARD">>}), NEW c \in ParseVCard(s)
    PROVE  OnLines(c)
<1> DEFINE A == Range(s) \ {"\n"}
           lines == Split(s, "\n")
           keys == [i \in DOMAIN lines |-> SubSeq(Before(lines[i], ":"), 1, 1)]
           values == [i \in DOMAIN lines |-> UnescapeVCard(After(lines[i], ":"))]
<1>1. "\n" \notin A
  OBVIOUS
<1>2. lines \in List(A)
  <2>1. PICK nl : nl = "\n"
    OBVIOUS
  <2>2. s \in Text(Range(s))
    BY DEF IsText, Text
  <2>3. Split(s, nl) \in List(Range(s) \ {nl})
    <3> HIDE DEF A, lines, values
    <3> QED
      BY <2>2, PiecesWithout DEF Pieces
  <2> QED
    BY <2>1, <2>3, Zenon
<1> HIDE DEF A, lines, keys
<1>3. PICK n \in Nat : DOMAIN lines = 1 .. n /\ \A i \in 1 .. n : lines[i] \in Text(A)
  BY <1>2 DEF List
<1>4. \A i \in 1 .. n : values[i] \in Text(A)
  <2>1. PICK colon, esc, specials : colon = ":" /\ esc = "\\" /\ specials = {";", ",", "\\"}
    BY Zenon
  <2>2. \A i \in 1 .. n : After(lines[i], colon) \in Text(A)
    BY <1>3, BeforeAndAfter
  <2>3. \A i \in 1 .. n : Unescape(esc, specials, After(lines[i], colon)) \in Text(A)
    BY <2>2, UnescapeType
  <2> QED
    BY <1>3, <2>1, <2>3, UnescapeVCardIs, Zenon
<1>8. DOMAIN keys = 1 .. n
  BY <1>3 DEF keys
<1> HIDE DEF keys, values
<1>5. \A key : IsLine(FirstValue(keys, values, key))
  <2>1. \A key : FirstValue(keys, values, key) \in Text(A)
    BY <1>4, <1>8, FirstValueType
  <2> QED
    BY <1>1, <2>1, TextIsLine
<1>6. ~Starts(s, {<<"MECARD:">>})
  <2>1. "MECARD:" # "BEGIN:VCARD"
    OBVIOUS
  <2> QED
    BY <2>1, OneStart
<1>7. PICK x, y, z : IsLine(x) /\ IsLine(y) /\ IsLine(z) /\ c = [name |-> x, phone |-> y, email |-> z]
  <2>1. ParseVCard(s) =
               {[name |-> FirstValue(keys, values, "FN"), phone |-> FirstValue(keys, values, "TEL"),
                 email |-> FirstValue(keys, values, "EMAIL")]}
    BY <1>6, Zenon DEF ParseVCard, lines, keys, values
  <2> QED
    BY <1>5, <2>1, Zenon
<1> QED
  BY <1>7 DEF OnLines

\* So are those of any code with a contact on lines of its own.
LEMMA ContactOnLines ==
    ASSUME NEW s, OneLineEach(s), NEW c \in ParseVCard(s)
    PROVE  OnLines(c)
<1>1. CASE Starts(s, {<<"BEGIN:VCARD">>})
  BY <1>1, CardOnLines DEF OneLineEach
<1>2. CASE Starts(s, {<<"MECARD:">>}) /\ ~Starts(s, {<<"BEGIN:VCARD">>})
  <2>1. IsText(s) /\ ~Contains(s, "\n") /\ s # <<>>
    BY <1>2, StartedIsText, Zenon DEF OneLineEach
  <2>2. ParseVCard(s) = {ParseMecard(s)}
    BY <1>2, Zenon DEF ParseVCard
  <2> QED
    BY <2>1, <2>2, MecardOnLines
<1>3. CASE ~Starts(s, {<<"MECARD:">>}) /\ ~Starts(s, {<<"BEGIN:VCARD">>})
  <2>1. ParseVCard(s) = {NoContact}
    BY <1>3, Zenon DEF ParseVCard
  <2> QED
    BY <2>1, NothingIsLine DEF OnLines, NoContact
<1> QED
  BY <1>1, <1>2, <1>3

\* A number is recognised by how it starts.
LEMMA TelIs ==
    ASSUME NEW s, DetectKind(s) = "tel"
    PROVE  Starts(s, {<<"tel:">>})
<1> DEFINE fitting == {i \in DOMAIN Recognisers : Fits(s, Recognisers[i])}
<1>1. DOMAIN Recognisers = 1 .. 25
  BY OneRuleMore
<1>2. \A i \in 1 .. 25 : Recognisers[i].kind = "tel" => i = 4
  BY DEF Recognisers, Rule, AddressRule
<1>3. Recognisers[4] = Rule("tel", {<<"tel:">>})
  BY DEF Recognisers
<1>4. DetectKind(s) = IF fitting = {} THEN "text" ELSE Recognisers[Min(fitting)].kind
  BY Zenon DEF DetectKind
<1>5. fitting # {}
  BY <1>4
<1>6. Min(fitting) \in fitting
  <2>1. fitting \in SUBSET Nat
    BY <1>1
  <2> HIDE DEF fitting
  <2> QED
    BY <1>5, <2>1, MinIsIn
<1>7. Min(fitting) = 4
  BY <1>1, <1>2, <1>4, <1>5, <1>6
<1>8. Fits(s, Recognisers[4])
  BY <1>6, <1>7
<1>9. Recognisers[4] # AddressRule /\ Recognisers[4].starts = {<<"tel:">>}
  BY <1>3 DEF Rule, AddressRule
<1> QED
  BY <1>8, <1>9 DEF Fits

\* The contact of a number or a card, on lines of its own.
LEMMA ContactIsOnLines ==
    ASSUME NEW s, DetectKind(s) \in {"tel", "vcard"}, OneLineEach(s), NEW c \in ParseVCard(s)
    PROVE  OnLines(Contact(s, c))
<1>1. CASE DetectKind(s) = "vcard"
  BY <1>1, ContactOnLines DEF Contact
<1>2. CASE DetectKind(s) # "vcard"
  <2>1. Starts(s, {<<"tel:">>})
    BY <1>2, TelIs
  <2>2. ~Starts(s, {<<"BEGIN:VCARD">>})
    <3>1. "tel:" # "BEGIN:VCARD"
      OBVIOUS
    <3> QED
      BY <2>1, <3>1, OneStart
  <2>3. IsText(s) /\ ~Contains(s, "\n")
    BY <2>2, Zenon DEF OneLineEach
  <2>4. Tail(s) \in Text(Range(s) \ {"\n"})
    <3>1. PICK nl : nl = "\n"
      OBVIOUS
    <3>2. s # <<>>
      BY <2>1, <2>3, StartedIsText
    <3>3. s \in Text(Range(s) \ {nl})
      <4>1. s \in Text(Range(s)) /\ ~Contains(s, nl)
        BY <2>3, <3>1 DEF IsText, Text
      <4> QED
        BY <4>1, TextWithout
    <3> QED
      BY <3>1, <3>2, <3>3 DEF Text
  <2>5. IsLine(Tail(s))
    BY <2>4, TextIsLine
  <2>6. PICK t : t = Tail(s)
    OBVIOUS
  <2>7. Contact(s, c) = [name |-> <<>>, phone |-> t, email |-> <<>>]
    BY <1>2, <2>6 DEF Contact, NoContact
  <2> QED
    BY <2>5, <2>6, <2>7, NothingIsLine DEF OnLines
<1> QED
  BY <1>1, <1>2

\* The contact to be saved is that of a number or a card.
KindAskedFor == saveDialog = "contact" => DetectKind(askedFor) \in {"tel", "vcard"}

\* Every step keeps it: the button is only there for these.
LEMMA KindAskedForStep == KindAskedFor /\ [Next]_vars => KindAskedFor'
<1> SUFFICES ASSUME KindAskedFor, [Next]_vars PROVE KindAskedFor'
  OBVIOUS
<1>1. CASE AddContact
  BY <1>1 DEF AddContact, KindAskedFor
<1>2. CASE AcceptContact \/ AddToCalendar \/ AcceptEvent \/ CancelSave
  BY <1>2 DEF AcceptContact, SaveContact, AddToCalendar, AcceptEvent, CancelSave, KindAskedFor
<1>3. CASE MakeOnPage \/ RunCommand \/ MakeElsewhere \/ MakeSealed \/ ScanMade \/ ScanOther \/ ScanTampered
           \/ UNCHANGED vars
  <2>1. UNCHANGED saving
    BY <1>3 DEF MakeOnPage, RunCommand, MakeElsewhere, MakeSealed, ScanMade, ScanOther, ScanTampered, Show, vars
  <2> QED
    BY <2>1 DEF saving, KindAskedFor
<1> QED
  BY <1>1, <1>2, <1>3 DEF Next

\* The card written says of the contact what the code said that was shown when Add
\* contact was pressed, whatever the decoder has shown since, if the contact is on
\* lines of its own: escapeVCard() writes a line feed in a way that parseVCard()
\* does not undo.
THEOREM CardSaysWhatWasAskedFor ==
    Spec => [][card' # card /\ OneLineEach(askedFor) =>
                  \E new \in {card'}, c \in ParseVCard(askedFor) :
                      ParseVCard(new) = {Contact(askedFor, c)}]_vars
<1> DEFINE Says == card' # card /\ OneLineEach(askedFor) =>
                       \E new \in {card'}, c \in ParseVCard(askedFor) :
                           ParseVCard(new) = {Contact(askedFor, c)}
<1>1. ASSUME IInv, KindAskedFor, [Next]_vars
      PROVE  Says
  <2> SUFFICES ASSUME card' # card, OneLineEach(askedFor)
               PROVE  \E c \in ParseVCard(askedFor) : ParseVCard(card') = {Contact(askedFor, c)}
    OBVIOUS
  <2>1. AcceptContact
    BY <1>1 DEF Next, MakeOnPage, RunCommand, MakeElsewhere, MakeSealed, ScanMade, ScanOther,
       ScanTampered, Show, AddContact, AddToCalendar, AcceptEvent, CancelSave, vars, making, saving
  <2>2. saveDialog = "contact"
    BY <2>1 DEF AcceptContact, SaveContact
  <2>3. PICK c \in ParseVCard(askedFor) : pending = Contact(askedFor, c)
    BY <1>1, <2>2 DEF IInv, PendingIsAskedFor
  <2>4. card' = VCard(pending.name, <<>>, pending.phone, pending.email, <<>>)
    BY <2>1 DEF AcceptContact, SaveContact, SaveTextFile
  <2>5. OnLines(pending)
    BY <1>1, <2>2, <2>3, ContactIsOnLines DEF KindAskedFor
  <2>6. ParseVCard(VCard(pending.name, <<>>, pending.phone, pending.email, <<>>)) = {pending}
    <3>1. PICK p : p = pending
      OBVIOUS
    <3>2. /\ IsLine(p.name) /\ IsLine(p.phone) /\ IsLine(p.email) /\ IsLine(<<>>)
          /\ p = [name |-> p.name, phone |-> p.phone, email |-> p.email]
      BY <2>5, <3>1, NothingIsLine, Zenon DEF OnLines
    <3>3. ParseVCard(VCard(p.name, <<>>, p.phone, p.email, <<>>)) = {[name |-> p.name, phone |-> p.phone, email |-> p.email]}
      <4>1. PICK a, b, d, e : a = p.name /\ b = p.phone /\ d = p.email /\ e = <<>>
        OBVIOUS
      <4>2. IsLine(a) /\ IsLine(b) /\ IsLine(d) /\ IsLine(e)
        BY <3>2, <4>1, Zenon
      <4> HIDE DEF Says
      <4>3. CardSays(a, e, b, d, e)
        BY <4>2, CardRoundTrip
      <4> QED
        BY <4>1, <4>3, Zenon DEF CardSays
    <3> QED
      BY <3>1, <3>2, <3>3, Zenon
  <2> QED
    BY <2>3, <2>4, <2>6, Zenon
<1>2. []IInv /\ []KindAskedFor /\ [][Next]_vars => [][Says]_vars
  BY <1>1, PTL
<1>3. Init => KindAskedFor
  BY DEF Init, KindAskedFor
<1>4. Spec => []KindAskedFor
  BY <1>3, KindAskedForStep, PTL DEF Spec
<1> QED
  BY <1>2, <1>4, Invariance, PTL DEF Spec

\* So the contact saved is the one that was asked for, as long as the contacts that
\* are asked for are on lines of their own.
THEOREM SavedAsAskedFor == Spec /\ []OneLineEach(askedFor) => SavedContactIsAskedFor
<1> DEFINE P == \E new \in {card'}, c \in ParseVCard(askedFor) : ParseVCard(new) = {Contact(askedFor, c)}
           W == card' # card
           O == OneLineEach(askedFor)
<1>1. Spec => [][W /\ O => P]_vars
  BY CardSaysWhatWasAskedFor
<1>2. SavedContactIsAskedFor <=> [][W => P]_vars
  BY DEF SavedContactIsAskedFor
<1> HIDE DEF P, W, O
<1>3. [][W /\ O => P]_vars /\ []O => [][W => P]_vars
  BY PTL
<1> QED
  BY <1>1, <1>2, <1>3, PTL DEF O

-----------------------------------------------------------------------------
(* Contacts, in every behaviour.                                           *)

\* Lines put together, or trimmed, are lines.
LEMMA LinesTogether ==
    ASSUME NEW s, NEW t, IsLine(s), IsLine(t)
    PROVE  IsLine(s \o t) /\ IsLine(Trimmed(s))
<1> DEFINE A == (Range(s) \cup Range(t)) \ {"\n"}
<1>1. "\n" \notin A
  OBVIOUS
<1>2. s \in Text(A) /\ t \in Text(A)
  <2>1. PICK c : c = "\n"
    OBVIOUS
  <2>2. ~Contains(s, c) /\ ~Contains(t, c) /\ s \in Text(Range(s)) /\ t \in Text(Range(t))
    BY <2>1 DEF IsLine, IsText, Text
  <2>3. Range(s) \ {c} \subseteq A /\ Range(t) \ {c} \subseteq A
    BY <2>1
  <2> HIDE DEF A
  <2>4. s \in Text(Range(s) \ {c}) /\ t \in Text(Range(t) \ {c})
    BY <2>2, TextWithout
  <2> QED
    BY <2>3, <2>4, SeqMonotonic DEF Text
<1> HIDE DEF A
<1>3. s \o t \in Text(A) /\ Trimmed(s) \in Text(A)
  BY <1>2, TextAfterText, TrimmedType
<1> QED
  BY <1>1, <1>3, TextIsLine

\* A number put together is one line.
LEMMA NumberIsLine ==
    ASSUME NEW cc, NEW num, IsLine(cc), IsLine(num)
    PROVE  IsLine(CombinedNumber(cc, num))
<1>1. PICK c, n : c = Trimmed(cc) /\ n = Trimmed(num)
  OBVIOUS
<1>2. IsLine(c) /\ IsLine(n)
  BY <1>1, LinesTogether
<1>3. PICK plus : plus = (IF c # <<>> /\ c[1] # "+" THEN <<"+">> ELSE <<>>)
  OBVIOUS
<1>4. IsLine(plus)
  <2>1. IsLine(<<"+">>)
    <3>1. <<"+">> \in Text({"+"}) /\ "\n" \notin {"+"}
      BY DEF Text
    <3> QED
      BY <3>1, TextIsLine
  <2> QED
    BY <1>3, <2>1, NothingIsLine
<1>5. IsLine(plus \o c)
  BY <1>2, <1>4, LinesTogether
<1>6. IsLine((plus \o c) \o n)
  BY <1>2, <1>5, LinesTogether
<1>7. CombinedNumber(cc, num) = (plus \o c) \o n
  BY <1>1, <1>3, Zenon DEF CombinedNumber
<1> QED
  BY <1>6, <1>7

\* The code of a contact is recognised, and says what was entered.
LEMMA ContactRoundTrip ==
    ASSUME NEW f, IsContact(f)
    PROVE  LET s == ContactPayload(f)
           IN /\ s # <<>> /\ Contains(s, "\n")
              /\ Starts(s, {<<"BEGIN:VCARD">>})
              /\ ParseVCard(s) = {[name |-> Trimmed(f.name), phone |-> CombinedNumber(f.cc, f.number),
                                   email |-> Trimmed(f.email)]}
<1>1. PICK name, org, phone, email, url :
          /\ name = Trimmed(f.name) /\ org = Trimmed(f.org) /\ phone = CombinedNumber(f.cc, f.number)
          /\ email = Trimmed(f.email) /\ url = Trimmed(f.url)
  OBVIOUS
<1>2. IsLine(name) /\ IsLine(org) /\ IsLine(phone) /\ IsLine(email) /\ IsLine(url)
  <2>1. IsLine(f.name) /\ IsLine(f.org) /\ IsLine(f.cc) /\ IsLine(f.number) /\ IsLine(f.email) /\ IsLine(f.url)
    BY Zenon DEF IsContact
  <2>2. IsLine(Trimmed(f.name)) /\ IsLine(Trimmed(f.org)) /\ IsLine(Trimmed(f.email)) /\ IsLine(Trimmed(f.url))
    BY <2>1, LinesTogether
  <2>3. IsLine(CombinedNumber(f.cc, f.number))
    BY <2>1, NumberIsLine
  <2> QED
    BY <1>1, <2>2, <2>3, Zenon
<1>3. CardSays(name, org, phone, email, url)
  BY <1>2, CardRoundTrip
<1>4. ContactPayload(f) = VCard(name, org, phone, email, url)
  BY <1>1, Zenon DEF ContactPayload
<1> QED
  BY <1>1, <1>3, <1>4, Zenon DEF CardSays

\* A text that starts as a card, and has lines, is one: no rule before fits.
LEMMA CardIsRecognised ==
    ASSUME NEW s, Starts(s, {<<"BEGIN:VCARD">>}), Contains(s, "\n")
    PROVE  DetectKind(s) = "vcard"
<1> DEFINE fitting == {i \in DOMAIN Recognisers : Fits(s, Recognisers[i])}
<1>1. DOMAIN Recognisers = 1 .. 25
  BY OneRuleMore
<1>2. /\ Recognisers[1] = Rule("wifi", {<<"WIFI:">>})
      /\ Recognisers[2] = Rule("email", {<<"mailto:">>, <<"MATMSG:">>})
      /\ Recognisers[3] = AddressRule
      /\ Recognisers[4] = Rule("tel", {<<"tel:">>})
      /\ Recognisers[5] = Rule("sms", {<<"sms:">>, <<"smsto:">>})
      /\ Recognisers[6] = Rule("geo", {<<"geo:">>})
      /\ Recognisers[7] = Rule("vcard", {<<"BEGIN:VCARD">>, <<"MECARD:">>})
  BY DEF Recognisers
<1>3. \A i \in {1, 2, 4, 5, 6, 7} : Recognisers[i] # AddressRule
  <2>1. AddressRule.kind = "email" /\ AddressRule.starts = {}
    BY DEF Rule, AddressRule
  <2>2. Recognisers[1].kind = "wifi" /\ Recognisers[4].kind = "tel" /\ Recognisers[5].kind = "sms"
        /\ Recognisers[6].kind = "geo" /\ Recognisers[7].kind = "vcard"
    BY <1>2 DEF Rule
  <2>3. Recognisers[2].starts # {}
    <3>1. Recognisers[2].starts = {<<"mailto:">>, <<"MATMSG:">>}
      BY <1>2 DEF Rule
    <3> QED
      BY <3>1, Zenon
  <2>4. /\ Recognisers[1] # AddressRule /\ Recognisers[2] # AddressRule /\ Recognisers[4] # AddressRule
        /\ Recognisers[5] # AddressRule /\ Recognisers[6] # AddressRule /\ Recognisers[7] # AddressRule
    BY <2>1, <2>2, <2>3
  <2> QED
    BY <2>4
<1>4. /\ Recognisers[1].starts = {<<"WIFI:">>} /\ Recognisers[2].starts = {<<"mailto:">>, <<"MATMSG:">>}
      /\ Recognisers[4].starts = {<<"tel:">>} /\ Recognisers[5].starts = {<<"sms:">>, <<"smsto:">>}
      /\ Recognisers[6].starts = {<<"geo:">>} /\ Recognisers[7].starts = {<<"BEGIN:VCARD">>, <<"MECARD:">>}
      /\ Recognisers[7].kind = "vcard"
  BY <1>2 DEF Rule
<1>5. ASSUME NEW W, NEW x, NEW y, W \subseteq {<<x>>, <<y>>}, x # "BEGIN:VCARD", y # "BEGIN:VCARD"
      PROVE  ~Starts(s, W)
  <2>1. ASSUME Starts(s, W) PROVE FALSE
    <3>1. Starts(s, {<<x>>}) \/ Starts(s, {<<y>>})
      BY <1>5, <2>1, Zenon DEF Starts
    <3> QED
      BY <1>5, <3>1, OneStart
  <2> QED
    BY <2>1
<1>6. ~BareAddress(s)
  BY Zenon DEF BareAddress
<1>7. ~Fits(s, Recognisers[1]) /\ ~Fits(s, Recognisers[4]) /\ ~Fits(s, Recognisers[6])
  <2>1. ~Starts(s, {<<"WIFI:">>}) /\ ~Starts(s, {<<"tel:">>}) /\ ~Starts(s, {<<"geo:">>})
    <3>1. "WIFI:" # "BEGIN:VCARD" /\ "tel:" # "BEGIN:VCARD" /\ "geo:" # "BEGIN:VCARD"
      OBVIOUS
    <3> QED
      BY <3>1, OneStart
  <2> QED
    BY <1>3, <1>4, <2>1 DEF Fits
<1>8. ~Fits(s, Recognisers[2]) /\ ~Fits(s, Recognisers[5])
  <2>1. ~Starts(s, {<<"mailto:">>, <<"MATMSG:">>}) /\ ~Starts(s, {<<"sms:">>, <<"smsto:">>})
    BY <1>5
  <2> QED
    BY <1>3, <1>4, <2>1 DEF Fits
<1>9. ~Fits(s, Recognisers[3])
  BY <1>2, <1>6 DEF Fits
<1>10. Fits(s, Recognisers[7])
  <2>1. Starts(s, {<<"BEGIN:VCARD">>, <<"MECARD:">>})
    BY Zenon DEF Starts
  <2> QED
    BY <1>3, <1>4, <2>1 DEF Fits
<1>11. 7 \in fitting /\ \A i \in fitting : i >= 7
  <2>1. \A i \in 1 .. 6 : i = 1 \/ i = 2 \/ i = 3 \/ i = 4 \/ i = 5 \/ i = 6
    OBVIOUS
  <2>2. \A i \in 1 .. 6 : i \notin fitting
    BY <1>7, <1>8, <1>9, <2>1
  <2> QED
    BY <1>1, <1>10, <2>2
<1>12. Min(fitting) \in fitting /\ \A i \in fitting : Min(fitting) <= i
  <2>1. fitting \in SUBSET Nat /\ fitting # {}
    BY <1>1, <1>11
  <2> HIDE DEF fitting
  <2> QED
    BY <2>1, MinIsIn
<1>13. Min(fitting) = 7
  <2>1. Min(fitting) \in 1 .. 25
    BY <1>1, <1>12
  <2> HIDE DEF fitting
  <2> QED
    BY <1>11, <1>12, <2>1
<1>14. DetectKind(s) = Recognisers[Min(fitting)].kind
  BY <1>11, Zenon DEF DetectKind
<1> QED
  BY <1>4, <1>13, <1>14

\* What was made is the text of the contact entered, unless another program made it.
ContactMade ==
    made # <<>> /\ form.type = "vcard" /\ "last" \notin DOMAIN form => IsContact(form) /\ made = ContactPayload(form)

\* The command line makes no contact.
LEMMA CommandIsNoContact ==
    ASSUME NEW args, ~BadUsage(args)
    PROVE  FormOf(args).type # "vcard"
<1> DEFINE source == CHOOSE s \in Given(args) : TRUE
<1>1. source \in Given(args)
  <2>1. Cardinality(Given(args)) = 1
    BY DEF BadUsage
  <2>2. Given(args) # {}
    BY <2>1, FS_EmptySet
  <2> QED
    BY <2>2
<1>2. FormOf(args) = CommandForm(args, source) /\ source \in Sources
  BY <1>1, Zenon DEF FormOf, Given
<1> HIDE DEF source
<1>3. CASE source = "wifi-ssid"
  <2>1. FormOf(args) = [type |-> "wifi", ssid |-> Value(args, "wifi-ssid"), password |-> Value(args, "wifi-password"),
                        auth |-> WifiAuthFrom(Value(args, "wifi-auth")), hidden |-> "wifi-hidden" \in DOMAIN args]
    BY <1>2, <1>3, Zenon DEF CommandForm
  <2>2. PICK hidden : hidden = ("wifi-hidden" \in DOMAIN args)
    BY Zenon
  <2>3. FormOf(args) = [type |-> "wifi", ssid |-> Value(args, "wifi-ssid"), password |-> Value(args, "wifi-password"),
                        auth |-> WifiAuthFrom(Value(args, "wifi-auth")), hidden |-> hidden]
    BY <2>1, <2>2, Zenon
  <2> QED
    BY <2>3
<1>4. CASE source # "wifi-ssid"
  BY <1>2, <1>4, OtherSources
<1> QED
  BY <1>3, <1>4

\* Every step keeps it.
LEMMA ContactMadeStep == ContactMade /\ [Next]_vars => ContactMade'
<1> SUFFICES ASSUME ContactMade, [Next]_vars PROVE ContactMade'
  OBVIOUS
<1>1. CASE MakeOnPage
  <2>1. PICK f \in Forms : Made(f, BuildPayload(f))
    BY <1>1 DEF MakeOnPage
  <2>2. form' = f /\ made' = BuildPayload(f) /\ made' # <<>>
    BY <2>1 DEF Made
  <2>3. made' = Payload(f)
    BY <2>2 DEF BuildPayload
  <2>4. f.type = "vcard" => IsContact(f) /\ Payload(f) = ContactPayload(f)
    BY ContactsEntered DEF Payload
  <2> QED
    BY <2>2, <2>3, <2>4 DEF ContactMade
<1>2. CASE RunCommand
  <2>1. PICK args \in CommandLines, fits \in BOOLEAN, opened \in BOOLEAN, saved \in BOOLEAN :
            /\ made = <<>> /\ exit' = ExitCode(args, fits, opened, saved)
            /\ IF exit' = 0 THEN Made(FormOf(args), Payload(FormOf(args))) ELSE UNCHANGED <<form, made>>
    BY <1>2 DEF RunCommand
  <2>2. CASE exit' = 0
    <3>1. ~BadUsage(args)
      BY <2>1, <2>2 DEF ExitCode
    <3>2. form' = FormOf(args)
      BY <2>1, <2>2 DEF Made
    <3> QED
      BY <3>1, <3>2, CommandIsNoContact DEF ContactMade
  <2>3. CASE exit' # 0
    BY <2>1, <2>3 DEF ContactMade
  <2> QED
    BY <2>2, <2>3
<1>3. CASE MakeElsewhere \/ MakeSealed
  <2>1. form' \in ForeignForms \cup SecretForms
    BY <1>3 DEF MakeElsewhere, MakeSealed, Made
  <2> QED
    BY <2>1, ContactsEntered DEF ContactMade
<1>4. CASE ScanMade \/ ScanOther \/ ScanTampered \/ AddContact \/ AcceptContact \/ AddToCalendar \/ AcceptEvent
           \/ CancelSave \/ UNCHANGED vars
  <2>1. UNCHANGED <<form, made>>
    BY <1>4 DEF ScanMade, ScanOther, ScanTampered, Show, AddContact, AcceptContact, SaveContact, AddToCalendar,
         AcceptEvent, CancelSave, vars, making
  <2> QED
    BY <2>1 DEF ContactMade
<1> QED
  BY <1>1, <1>2, <1>3, <1>4 DEF Next

\* A contact made on the page comes back as it was entered, whatever its fields
\* hold and whatever was scanned before.
THEOREM ContactsComeBack ==
    Spec => [](form.type = "vcard" /\ "last" \notin DOMAIN form => ComesBackAsEntered)
<1>1. Init => ContactMade
  BY DEF Init, ContactMade
<1>2. ASSUME IInv, ContactMade, form.type = "vcard", "last" \notin DOMAIN form, made # <<>>, content = made
      PROVE  DetectKind(content) = "vcard" /\ parsed.vcard = Entered
  <2>1. IsContact(form) /\ made = ContactPayload(form)
    BY <1>2 DEF ContactMade
  <2>2. /\ Contains(content, "\n") /\ Starts(content, {<<"BEGIN:VCARD">>})
        /\ ParseVCard(content) = {[name |-> Trimmed(form.name), phone |-> CombinedNumber(form.cc, form.number),
                                   email |-> Trimmed(form.email)]}
    BY <1>2, <2>1, ContactRoundTrip, Zenon
  <2>3. DetectKind(content) = "vcard"
    BY <2>2, CardIsRecognised, Zenon
  <2>4. Entered = [name |-> Trimmed(form.name), phone |-> CombinedNumber(form.cc, form.number),
                   email |-> Trimmed(form.email)]
    BY <1>2 DEF Entered
  <2>5. parsed.vcard \in ParseVCard(content)
    BY <1>2 DEF IInv
  <2>6. parsed.vcard = Entered
    BY <2>2, <2>4, <2>5, Zenon
  <2> QED
    BY <2>3, <2>6
<1>3. IInv /\ ContactMade => (form.type = "vcard" /\ "last" \notin DOMAIN form => ComesBackAsEntered)
  BY <1>2 DEF ComesBackAsEntered
<1> QED
  BY <1>1, <1>3, Invariance, ContactMadeStep, PTL DEF Spec
=============================================================================
