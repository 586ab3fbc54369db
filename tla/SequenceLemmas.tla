--------------------------- MODULE SequenceLemmas ---------------------------
(***************************************************************************)
(* What the operations on queues give that the components' actions use:    *)
(* one more element, one element changed, and one element taken out. And   *)
(* that what a minimum or maximum is taken of has one.                     *)
(***************************************************************************)
EXTENDS Integers, Sequences, FiniteSetsExt, SequenceTheorems, WellFoundedInduction, TLAPS

\* One more element.
LEMMA Appended ==
    ASSUME NEW S, NEW s \in Seq(S), NEW e \in S
    PROVE  /\ Append(s, e) \in Seq(S)
           /\ DOMAIN Append(s, e) = 1 .. Len(s) + 1
           /\ \A i \in DOMAIN s : i \in DOMAIN Append(s, e) /\ Append(s, e)[i] = s[i]
           /\ Append(s, e)[Len(s) + 1] = e
           /\ \A i \in DOMAIN Append(s, e) : i \in DOMAIN s \/ i = Len(s) + 1
  OBVIOUS

\* One element changed.
LEMMA Changed ==
    ASSUME NEW S, NEW s \in Seq(S), NEW p \in DOMAIN s, NEW e \in S
    PROVE  /\ [s EXCEPT ![p] = e] \in Seq(S)
           /\ DOMAIN [s EXCEPT ![p] = e] = DOMAIN s
           /\ [s EXCEPT ![p] = e][p] = e
           /\ \A q \in DOMAIN s \ {p} : [s EXCEPT ![p] = e][q] = s[q]
  OBVIOUS

\* One element taken out: those after it move up.
LEMMA TakenOut ==
    ASSUME NEW S, NEW s \in Seq(S), NEW i \in DOMAIN s
    PROVE  LET t == SubSeq(s, 1, i - 1) \o SubSeq(s, i + 1, Len(s))
           IN /\ t \in Seq(S)
              /\ Len(t) = Len(s) - 1
              /\ \A j \in DOMAIN t : t[j] = IF j < i THEN s[j] ELSE s[j + 1]
<1> DEFINE left == SubSeq(s, 1, i - 1)
           right == SubSeq(s, i + 1, Len(s))
<1>1. /\ left \in Seq(S) /\ Len(left) = i - 1
      /\ \A j \in 1 .. i - 1 : left[j] = s[j]
  OBVIOUS
<1>2. /\ right \in Seq(S) /\ Len(right) = Len(s) - i
      /\ \A j \in 1 .. Len(s) - i : right[j] = s[j + i]
  OBVIOUS
<1>3. i \in 1 .. Len(s) /\ Len(s) \in Nat
  OBVIOUS
<1> HIDE DEF left, right
<1>4. /\ left \o right \in Seq(S) /\ Len(left \o right) = Len(left) + Len(right)
      /\ \A j \in 1 .. Len(left) + Len(right) :
            (left \o right)[j] = IF j <= Len(left) THEN left[j] ELSE right[j - Len(left)]
  BY <1>1, <1>2, ConcatProperties
<1>5. \A j \in 1 .. Len(s) - 1 :
          (left \o right)[j] = IF j < i THEN s[j] ELSE s[j + 1]
  <2> TAKE j \in 1 .. Len(s) - 1
  <2>1. (left \o right)[j] = IF j <= i - 1 THEN left[j] ELSE right[j - (i - 1)]
    <3>1. Len(left) + Len(right) = Len(s) - 1 /\ Len(left) = i - 1
      BY <1>1, <1>2, <1>3
    <3>2. \A k \in 1 .. Len(s) - 1 :
              (left \o right)[k] = IF k <= i - 1 THEN left[k] ELSE right[k - (i - 1)]
      BY <1>4, <3>1, Zenon
    <3> QED
      BY <3>2
  <2>2. CASE j < i
    BY <1>1, <1>3, <2>1, <2>2
  <2>3. CASE ~(j < i)
    <3>1. j - (i - 1) \in 1 .. Len(s) - i /\ (j - (i - 1)) + i = j + 1
      BY <1>3, <2>3
    <3>2. right[j - (i - 1)] = s[j + 1]
      BY <1>2, <3>1
    <3>3. ~(j <= i - 1)
      BY <1>3, <2>3
    <3> QED
      BY <2>1, <2>3, <3>2, <3>3
  <2> QED
    BY <2>2, <2>3
<1>6. DOMAIN (left \o right) = 1 .. Len(s) - 1 /\ Len(left \o right) = Len(s) - 1
  <2>1. Len(left) + Len(right) = Len(s) - 1
    BY <1>1, <1>2, <1>3
  <2>2. PICK t \in Seq(S) : t = left \o right
    BY <1>4, Zenon
  <2>3. DOMAIN t = 1 .. Len(t)
    OBVIOUS
  <2> QED
    BY <1>4, <2>1, <2>2, <2>3, Zenon
<1>7. \A j \in DOMAIN (left \o right) :
          (left \o right)[j] = IF j < i THEN s[j] ELSE s[j + 1]
  BY <1>5, <1>6
<1> QED
  BY <1>4, <1>6, <1>7, Zenon DEF left, right

\* Where an element of what is left came from: its place before, in the old order.
LEMMA CameFrom ==
    ASSUME NEW S, NEW s \in Seq(S), NEW i \in DOMAIN s
    PROVE  LET t == SubSeq(s, 1, i - 1) \o SubSeq(s, i + 1, Len(s))
           IN \A j \in DOMAIN t : \E k \in DOMAIN s \ {i} :
                 t[j] = s[k] /\ k = IF j < i THEN j ELSE j + 1
<1> DEFINE t == SubSeq(s, 1, i - 1) \o SubSeq(s, i + 1, Len(s))
<1>1. /\ t \in Seq(S) /\ Len(t) = Len(s) - 1
      /\ \A j \in DOMAIN t : t[j] = IF j < i THEN s[j] ELSE s[j + 1]
  BY TakenOut
<1> HIDE DEF t
<1>2. \A j \in DOMAIN t : \E k \in DOMAIN s \ {i} :
          t[j] = s[k] /\ k = IF j < i THEN j ELSE j + 1
  BY <1>1
<1> QED
  BY <1>2 DEF t

\* A set of numbers that is not empty has a smallest.
LEMMA MinIsIn ==
    ASSUME NEW S \in SUBSET Nat, S # {}
    PROVE  Min(S) \in S /\ \A y \in S : Min(S) <= y
<1>1. PICK x \in S : \A y \in S : ~(<<y, x>> \in OpToRel(<, Nat))
  BY NatLessThanWellFounded, WFMin, Zenon
<1>2. \A y \in S : ~(y < x)
  BY <1>1, Zenon DEF OpToRel
<1>3. \A y \in S : x <= y
  <2> TAKE y \in S
  <2>1. ~(y < x) /\ x \in Nat /\ y \in Nat
    BY <1>2
  <2> QED
    BY <2>1
<1> QED
  BY <1>3, Zenon DEF Min

\* And, where none is over a bound, a greatest.
LEMMA MaxIsIn ==
    ASSUME NEW n \in Nat, NEW S \in SUBSET (0 .. n), S # {}
    PROVE  Max(S) \in S /\ \A y \in S : y <= Max(S)
<1> DEFINE T == {n - x : x \in S}
<1>1. T \in SUBSET Nat /\ T # {}
  <2>1. \A x \in S : n - x \in Nat
    <3> TAKE x \in S
    <3>1. x \in 0 .. n
      OBVIOUS
    <3> QED
      BY <3>1
  <2> QED
    BY <2>1
<1>2. Min(T) \in T /\ \A y \in T : Min(T) <= y
  <2> HIDE DEF T
  <2> QED
    BY <1>1, MinIsIn
<1>3. PICK x \in S : Min(T) = n - x
  BY <1>2
<1>4. \A y \in S : n - x <= n - y
  BY <1>2, <1>3
<1>5. \A y \in S : x >= y
  BY <1>4
<1>6. Max(S) \in S /\ \A y \in S : Max(S) >= y
  BY <1>5, Zenon DEF Max
<1> QED
  BY <1>6
-----------------------------------------------------------------------------
(* Induction and recursion over numbers.                                   *)

\* Induction, over a set of numbers: upwards without end, and downwards from a
\* bound.
LEMMA Upward ==
    ASSUME NEW S, 0 \in S, \A k \in Nat : k \in S => k + 1 \in S
    PROVE  Nat \subseteq S
<1> DEFINE T == Nat \ S
<1>1. SUFFICES ASSUME T # {} PROVE FALSE
  OBVIOUS
<1>2. T \in SUBSET Nat
  OBVIOUS
<1> HIDE DEF T
<1>3. PICK m \in T : \A k \in T : m <= k
  BY <1>1, <1>2, MinIsIn
<1>4. m \in Nat /\ m # 0 /\ m - 1 \in Nat /\ ~(m <= m - 1)
  <2>1. m \in Nat /\ m # 0
    BY <1>3 DEF T
  <2> QED
    BY <2>1
<1>5. m - 1 \in S
  BY <1>3, <1>4 DEF T
<1>6. (m - 1) + 1 = m
  BY <1>4
<1> QED
  BY <1>3, <1>4, <1>5, <1>6 DEF T

\* Downwards, from the bound: every number comes after the one above it.
LEMMA Downward ==
    ASSUME NEW n \in Nat, NEW S, n \in S, \A k \in 0 .. n : k < n /\ k + 1 \in S => k \in S
    PROVE  0 .. n \subseteq S
<1> DEFINE T == {i \in Nat : n - i \in S \/ i > n}
<1>1. 0 \in T
  OBVIOUS
<1>2. ASSUME NEW i \in Nat, i \in T PROVE i + 1 \in T
  <2>1. CASE i + 1 > n
    BY <2>1
  <2>2. CASE ~(i + 1 > n)
    <3> DEFINE k == n - (i + 1)
    <3>1. k \in 0 .. n /\ k < n /\ k + 1 = n - i
      BY <2>2
    <3>2. k + 1 \in S
      BY <1>2, <2>2, <3>1
    <3> HIDE DEF k
    <3>3. k \in S
      BY <3>1, <3>2
    <3> QED
      BY <3>3 DEF k
  <2> QED
    BY <2>1, <2>2
<1> HIDE DEF T
<1>3. Nat \subseteq T
  BY <1>1, <1>2, Upward
<1>4. ASSUME NEW k \in 0 .. n PROVE k \in S
  <2>1. n - k \in T
    BY <1>3
  <2>2. n - (n - k) = k /\ ~(n - k > n)
    OBVIOUS
  <2> QED
    BY <2>1, <2>2 DEF T
<1> QED
  BY <1>4

\* Downwards, where a number may need all the later ones.
LEMMA FromTheEnd ==
    ASSUME NEW n \in Nat, NEW S, \A k \in 1 .. n : (\A j \in 1 .. n : k < j => j \in S) => k \in S
    PROVE  1 .. n \subseteq S
<1> DEFINE T == {k \in 0 .. n : \A j \in 1 .. n : k < j => j \in S}
<1>1. n \in T
  OBVIOUS
<1>2. ASSUME NEW k \in 0 .. n, k < n, k + 1 \in T PROVE k \in T
  <2>1. k + 1 \in 1 .. n /\ \A j \in 1 .. n : k < j => j = k + 1 \/ k + 1 < j
    BY <1>2
  <2> QED
    BY <1>2, <2>1
<1> HIDE DEF T
<1>3. 0 .. n \subseteq T
  BY <1>1, <1>2, Downward
<1>4. 0 \in T
  BY <1>3
<1> QED
  BY <1>4 DEF T

\* F makes of a function on 1 .. n another one, whose value at a place depends on
\* the values at later places only.
LooksAhead(F, n, X) ==
    /\ F \in [[1 .. n -> X] -> [1 .. n -> X]]
    /\ \A f, g \in [1 .. n -> X], k \in 1 .. n :
          (\A j \in 1 .. n : k < j => f[j] = g[j]) => F[f][k] = F[g][k]

\* So there is a function by recursion from the end.
LEMMA RecursionFromTheEnd ==
    ASSUME NEW n \in Nat, NEW X, NEW F, LooksAhead(F, n, X), NEW x \in X
    PROVE  \E f \in [1 .. n -> X] : f = F[f]
<1>0. /\ F \in [[1 .. n -> X] -> [1 .. n -> X]]
      /\ \A f, g \in [1 .. n -> X], k \in 1 .. n :
            (\A j \in 1 .. n : k < j => f[j] = g[j]) => F[f][k] = F[g][k]
  BY DEF LooksAhead
<1> DEFINE Upto(f, i) == \A k \in 1 .. n : i < k => f[k] = F[f][k]
           S == {i \in 0 .. n : \E f \in [1 .. n -> X] : Upto(f, i)}
<1>1. n \in S
  <2>1. [k \in 1 .. n |-> x] \in [1 .. n -> X]
    OBVIOUS
  <2>2. Upto([k \in 1 .. n |-> x], n) /\ n \in 0 .. n
    OBVIOUS
  <2> QED
    BY <2>1, <2>2
<1>2. ASSUME NEW i \in 0 .. n, i < n, i + 1 \in S PROVE i \in S
  <2>1. PICK f \in [1 .. n -> X] : Upto(f, i + 1)
    BY <1>2
  <2> DEFINE g == [f EXCEPT ![i + 1] = F[f][i + 1]]
  <2>2. i + 1 \in 1 .. n /\ F[f] \in [1 .. n -> X]
    BY <1>0, <1>2
  <2>3. /\ g \in [1 .. n -> X] /\ g[i + 1] = F[f][i + 1]
        /\ \A k \in 1 .. n : i + 1 < k => g[k] = f[k]
    BY <2>2
  <2> HIDE DEF g
  <2>4. \A k \in 1 .. n : i < k => F[g][k] = F[f][k]
    <3> TAKE k \in 1 .. n
    <3> HAVE i < k
    <3>1. \A j \in 1 .. n : k < j => i + 1 < j
      BY <1>2
    <3> QED
      BY <1>0, <2>1, <2>3, <3>1
  <2>5. Upto(g, i)
    <3> SUFFICES ASSUME NEW k \in 1 .. n, i < k PROVE g[k] = F[g][k]
      OBVIOUS
    <3>1. k = i + 1 \/ i + 1 < k
      BY <1>2
    <3> QED
      BY <2>1, <2>3, <2>4, <3>1
  <2> QED
    BY <2>3, <2>5
<1> HIDE DEF S
<1>3. 0 .. n \subseteq S
  BY <1>1, <1>2, Downward
<1>4. 0 \in S
  BY <1>3
<1>5. PICK f \in [1 .. n -> X] : Upto(f, 0)
  BY <1>4 DEF S
<1>6. f = F[f]
  BY <1>0, <1>5
<1> QED
  BY <1>6

\* The other way round: values depend on the values at earlier places only.
LooksBack(F, n, X) ==
    /\ F \in [[1 .. n -> X] -> [1 .. n -> X]]
    /\ \A f, g \in [1 .. n -> X], k \in 1 .. n :
          (\A j \in 1 .. n : j < k => f[j] = g[j]) => F[f][k] = F[g][k]

\* So there is a function by recursion from the start.
LEMMA RecursionFromTheStart ==
    ASSUME NEW n \in Nat, NEW X, NEW F, LooksBack(F, n, X), NEW x \in X
    PROVE  \E f \in [1 .. n -> X] : f = F[f]
<1>0. /\ F \in [[1 .. n -> X] -> [1 .. n -> X]]
      /\ \A f, g \in [1 .. n -> X], k \in 1 .. n :
            (\A j \in 1 .. n : j < k => f[j] = g[j]) => F[f][k] = F[g][k]
  BY DEF LooksBack
<1> DEFINE Upto(f, i) == \A k \in 1 .. n : k <= i => f[k] = F[f][k]
           S == {i \in Nat : \E f \in [1 .. n -> X] : Upto(f, i)}
<1>1. 0 \in S
  <2>1. [k \in 1 .. n |-> x] \in [1 .. n -> X]
    OBVIOUS
  <2>2. Upto([k \in 1 .. n |-> x], 0)
    OBVIOUS
  <2> QED
    BY <2>1, <2>2
<1>2. ASSUME NEW i \in Nat, i \in S PROVE i + 1 \in S
  <2>1. PICK f \in [1 .. n -> X] : Upto(f, i)
    BY <1>2
  <2>2. CASE i + 1 > n
    <3>1. Upto(f, i + 1)
      BY <2>1, <2>2
    <3> QED
      BY <3>1
  <2>3. CASE ~(i + 1 > n)
    <3> DEFINE g == [f EXCEPT ![i + 1] = F[f][i + 1]]
    <3>1. i + 1 \in 1 .. n /\ F[f] \in [1 .. n -> X]
      BY <1>0, <2>3
    <3>2. /\ g \in [1 .. n -> X] /\ g[i + 1] = F[f][i + 1]
          /\ \A k \in 1 .. n : k <= i => g[k] = f[k]
      BY <3>1
    <3> HIDE DEF g
    <3>3. \A k \in 1 .. n : k <= i + 1 => F[g][k] = F[f][k]
      <4> TAKE k \in 1 .. n
      <4> HAVE k <= i + 1
      <4>1. \A j \in 1 .. n : j < k => j <= i
        OBVIOUS
      <4> QED
        BY <1>0, <2>1, <3>2, <4>1
    <3>4. Upto(g, i + 1)
      <4> SUFFICES ASSUME NEW k \in 1 .. n, k <= i + 1 PROVE g[k] = F[g][k]
        OBVIOUS
      <4>1. k = i + 1 \/ k <= i
        OBVIOUS
      <4> QED
        BY <2>1, <3>2, <3>3, <4>1
    <3> QED
      BY <3>2, <3>4
  <2> QED
    BY <2>2, <2>3
<1> HIDE DEF S
<1>3. n \in S
  BY <1>1, <1>2, Upward
<1>4. PICK f \in [1 .. n -> X] : Upto(f, n)
  BY <1>3 DEF S
<1>5. f = F[f]
  BY <1>0, <1>4
<1> QED
  BY <1>5
=============================================================================
