----------------------------- MODULE MCQrSymbol -----------------------------
(***************************************************************************)
(* QrSymbol for TLC. "1", "A", "a" and e-acute (two bytes of UTF-8) stand  *)
(* for the three modes; the longer texts are chosen by the code's own      *)
(* capacities.                                                             *)
(***************************************************************************)
EXTENDS QrSymbol

Run(char, n) == [i \in 1 .. n |-> char]
Strings(chars, n) == UNION {[1 .. k -> chars] : k \in 1 .. n}

\* The last text of version 9 and the first of version 10 at level High, where
\* the field of the count grows; the blocks of both are of two lengths.
Boundary == ByteModeCapacity(9, "High")

MCTexts ==
    {<<>>}
    \cup Strings({49, 65, 97, 233}, 2)
    \cup {SubSeq(<<49, 50, 51, 52, 53>>, 1, n) : n \in 1 .. 5}
    \cup {<<65, 49, 58>>, Run(97, Boundary), Run(97, Boundary + 1)}
    \* every version, chosen and not drawn; the last text fits none
    \cup {Run(97, ByteModeCapacity(v, "Low")) : v \in 11 .. 40}
    \cup {Run(97, ByteModeCapacity(40, "Low") + 1)}
MCMaxDrawn == 10

\* Less than a symbol needs, and twice the smallest and a little more.
MCTargetSizes == {10, 60}

\* "47" in the digits of Arabic.
MCArabicTexts == {<<1636, 1639>>}
MCSmallestOnly == 1
=============================================================================
