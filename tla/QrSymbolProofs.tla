--------------------------- MODULE QrSymbolProofs ---------------------------
(***************************************************************************)
(* Theorems about QrSymbol, for every text, version and width asked: the   *)
(* trials of the masks leave no trace in the symbol, an image or SVG of it *)
(* shows its modules, and the version chosen is the one that the capacity  *)
(* promised to callers names.                                              *)
(***************************************************************************)
EXTENDS QrSymbol, SequenceLemmas

-----------------------------------------------------------------------------
(* Drawing twice.                                                          *)

\* A mask over a mask is none: applyMask() undoes itself.
LEMMA MaskTwice ==
    ASSUME NEW s, NEW path, NEW m
    PROVE  ApplyMask(ApplyMask(s, path, m), path, m) = s
<1> DEFINE inverted == {path[i] : i \in {i \in DOMAIN path : Inverts(m, path[i][1], path[i][2])}}
<1>1. \A a : Xor(Xor(a, inverted), inverted) = a
  <2> HIDE DEF inverted
  <2> QED
    BY DEF Xor
<1> QED
  BY <1>1 DEF ApplyMask

\* Of two formats drawn the second stays: all have one place, whatever they say.
LEMMA LastFormatStays ==
    ASSUME NEW s, NEW v, NEW e, NEW m, NEW n
    PROVE  DrawFormatBits(DrawFormatBits(s, v, e, m), v, e, n) = DrawFormatBits(s, v, e, n)
<1> DEFINE both(bits) == {FirstCopy(i) : i \in bits} \cup {SecondCopy(v, i) : i \in bits} \cup {<<8, Size(v) - 8>>}
           area == both(0 .. 14)
           first == both(FormatBits(e, m) \cap (0 .. 14))
           second == both(FormatBits(e, n) \cap (0 .. 14))
<1>1. first \subseteq area
  <2>1. \A bits : bits \cap (0 .. 14) \subseteq 0 .. 14
    OBVIOUS
  <2>2. \A bits \in SUBSET (0 .. 14) : both(bits) \subseteq both(0 .. 14)
    OBVIOUS
  <2> QED
    BY <2>1, <2>2
<1>2. /\ FormatPattern(v, e, m).area = area /\ FormatPattern(v, e, m).dark = first
      /\ FormatPattern(v, e, n).area = area /\ FormatPattern(v, e, n).dark = second
  BY DEF FormatPattern
<1> HIDE DEF area, first, second
<1>3. (((s \ area) \cup first) \ area) \cup second = (s \ area) \cup second
  BY <1>1
<1> QED
  BY <1>2, <1>3 DEF DrawFormatBits, Over

\* A trial changes the format, and nothing else.
LEMMA TrialLeavesFormat ==
    ASSUME NEW s
    PROVE  AfterTrial(s) = DrawFormatBits(s, version, ecc, mask)
  BY MaskTwice DEF AfterTrial

-----------------------------------------------------------------------------
(* The version.                                                            *)

\* What minimumVersion() returns: a version, or that there is none.
LEMMA VersionChosen ==
    ASSUME NEW t, NEW e
    PROVE  MinimumVersion(t, e) \in Versions \cup {-1}
<1> DEFINE mode == DetectMode(t)
           fitting == {v \in Versions :
               4 + CharCountBits(mode, v) + DataBitLength(t, mode) <= NumDataCodewords(v, e) * 8}
<1>1. fitting # {} => Min(fitting) \in fitting
  <2>1. fitting \in SUBSET Nat
    BY DEF Versions
  <2> HIDE DEF fitting
  <2> QED
    BY <2>1, MinIsIn
<1>2. fitting \subseteq Versions
  OBVIOUS
<1>3. MinimumVersion(t, e) = IF fitting = {} THEN -1 ELSE Min(fitting)
  BY DEF MinimumVersion
<1> HIDE DEF fitting
<1> QED
  BY <1>1, <1>2, <1>3

-----------------------------------------------------------------------------
(* Pictures.                                                               *)

\* A quotient is known by what it leaves over.
LEMMA QuotientIs ==
    ASSUME NEW b \in Nat \ {0}, NEW q \in Nat, NEW r \in 0 .. b - 1
    PROVE  (q * b + r) \div b = q
  OBVIOUS

\* The middle of the m-th of d modules of a size is in the picture, and is a point
\* of the m-th module.
LEMMA MiddleOfModule ==
    ASSUME NEW side \in Nat \ {0}, NEW d \in Nat, NEW m \in 0 .. d - 1
    PROVE  /\ m * side + side \div 2 \in 0 .. d * side - 1
           /\ (m * side + side \div 2) \div side = m
<1>1. side \div 2 \in 0 .. side - 1
  OBVIOUS
<1>2. (m * side + side \div 2) \div side = m
  BY <1>1, QuotientIs
<1>3. m * side \in Nat /\ m * side + side <= d * side
  OBVIOUS
<1> QED
  BY <1>1, <1>2, <1>3

\* What a reader sees in a picture whose points are the modules drawn to a size.
LEMMA SampledScale ==
    ASSUME NEW d \in Nat, NEW side \in Nat \ {0}, NEW S
    PROVE  Sampled([width |-> d * side,
                    dark |-> {p \in Grid(d * side) : <<p[1] \div side - 4, p[2] \div side - 4>> \in S}], side)
             = {m \in Grid(d) : <<m[1] - 4, m[2] - 4>> \in S}
<1> DEFINE p == [width |-> d * side,
                 dark |-> {q \in Grid(d * side) : <<q[1] \div side - 4, q[2] \div side - 4>> \in S}]
           at(m) == <<m[1] * side + side \div 2, m[2] * side + side \div 2>>
<1>1. (d * side + 0) \div side = d /\ d * side + 0 = d * side
  BY QuotientIs
<1>2. ASSUME NEW m \in Grid(d)
      PROVE  at(m) \in p.dark <=> <<m[1] - 4, m[2] - 4>> \in S
  <2>1. m[1] \in 0 .. d - 1 /\ m[2] \in 0 .. d - 1
    BY DEF Grid
  <2>2. /\ at(m)[1] \in 0 .. d * side - 1 /\ at(m)[1] \div side = m[1]
        /\ at(m)[2] \in 0 .. d * side - 1 /\ at(m)[2] \div side = m[2]
    BY <2>1, MiddleOfModule
  <2>3. at(m) \in Grid(d * side)
    BY <2>2 DEF Grid
  <2> QED
    BY <2>2, <2>3
<1>3. p.width \div side = d
  BY <1>1
<1> QED
  BY <1>2, <1>3 DEF Sampled

\* Four light modules around it: the symbol moved into its picture.
LEMMA SymbolMoved ==
    ASSUME version \in Versions
    PROVE  {m \in Grid(Dim) : <<m[1] - QuietZone, m[2] - QuietZone>> \in Modules}
             = {<<m[1] + QuietZone, m[2] + QuietZone>> : m \in Modules}
<1>1. Size(version) \in Nat /\ Dim = Size(version) + 8 /\ QuietZone = 4
  BY DEF Versions, Size, Dim, QuietZone
<1>2. \A m \in Modules : /\ m = <<m[1], m[2]>>
                         /\ m[1] \in 0 .. Size(version) - 1 /\ m[2] \in 0 .. Size(version) - 1
  BY DEF Modules, Points, Grid
<1>3. \A m \in Grid(Dim) : m = <<m[1], m[2]>> /\ m[1] \in Int /\ m[2] \in Int
  BY <1>1 DEF Grid
<1>4. ASSUME NEW m \in Modules
      PROVE  /\ <<m[1] + 4, m[2] + 4>> \in Grid(Dim)
             /\ <<(m[1] + 4) - 4, (m[2] + 4) - 4>> = m
  <2>1. /\ m[1] + 4 \in 0 .. Dim - 1 /\ (m[1] + 4) - 4 = m[1]
        /\ m[2] + 4 \in 0 .. Dim - 1 /\ (m[2] + 4) - 4 = m[2]
    BY <1>1, <1>2
  <2> QED
    BY <1>2, <2>1 DEF Grid
<1>5. ASSUME NEW m \in Grid(Dim), <<m[1] - 4, m[2] - 4>> \in Modules
      PROVE  \E n \in Modules : m = <<n[1] + 4, n[2] + 4>>
  BY <1>3, <1>5
<1> QED
  BY <1>1, <1>4, <1>5

\* renderImage(), of any width.
LEMMA ImageShowsSymbol ==
    ASSUME version \in Versions, NEW target \in Nat
    PROVE  LET p == RenderImage(target)
               side == Max({1, target \div Dim})
           IN /\ side \in 1 .. p.width /\ p.width = Dim * side
              /\ Sampled(p, side) = {<<m[1] + QuietZone, m[2] + QuietZone>> : m \in Modules}
<1> DEFINE sizes == {1, target \div Dim}
           side == Max(sizes)
           p == RenderImage(target)
<1>1. Dim \in Nat \ {0} /\ QuietZone = 4
  BY DEF Versions, Size, Dim, QuietZone
<1>2. target \div Dim \in 0 .. target
  BY <1>1
<1>3. side \in Nat \ {0}
  <2> DEFINE bound == target + 1
  <2>1. bound \in Nat /\ sizes \in SUBSET (0 .. bound) /\ sizes # {} /\ 1 \in sizes
    BY <1>2
  <2> HIDE DEF sizes, bound
  <2>2. side \in sizes /\ \A y \in sizes : y <= side
    BY <2>1, MaxIsIn
  <2>3. side \in 0 .. bound /\ 1 <= side
    BY <2>1, <2>2
  <2> HIDE DEF side
  <2> QED
    BY <2>1, <2>3
<1> HIDE DEF sizes, side
<1>4. p = [width |-> Dim * side,
           dark |-> {q \in Grid(Dim * side) : <<q[1] \div side - 4, q[2] \div side - 4>> \in Modules}]
  BY <1>1 DEF RenderImage, side, sizes
<1>5. Sampled(p, side) = {m \in Grid(Dim) : <<m[1] - QuietZone, m[2] - QuietZone>> \in Modules}
  BY <1>1, <1>3, <1>4, SampledScale
<1>6. p.width = Dim * side /\ side \in 1 .. Dim * side
  BY <1>1, <1>3, <1>4
<1> QED
  BY <1>5, <1>6, SymbolMoved DEF side, sizes

\* How long the run from a dark module is: all are dark before its end, and its
\* end is not.
LEMMA RunEnds ==
    ASSUME version \in Versions, NEW q \in Modules
    PROVE  LET k == Min({k \in 1 .. Size(version) : <<q[1] + k, q[2]>> \notin Modules})
           IN /\ k \in 1 .. Size(version)
              /\ <<q[1] + k, q[2]>> \notin Modules
              /\ \A j \in 0 .. k - 1 : <<q[1] + j, q[2]>> \in Modules
<1> DEFINE n == Size(version)
           ends == {k \in 1 .. n : <<q[1] + k, q[2]>> \notin Modules}
           k == Min(ends)
<1>1. n \in Nat \ {0}
  BY DEF Versions, Size
<1>2. q = <<q[1], q[2]>> /\ q[1] \in 0 .. n - 1 /\ q[2] \in 0 .. n - 1
  BY DEF Modules, Points, Grid
<1>3. n - q[1] \in ends
  <2>1. n - q[1] \in 1 .. n /\ q[1] + (n - q[1]) = n
    BY <1>1, <1>2
  <2>2. <<n, q[2]>> \notin Modules
    BY <1>1 DEF Modules, Points, Grid
  <2> QED
    BY <2>1, <2>2
<1>4. k \in ends /\ \A y \in ends : k <= y
  <2>1. ends \in SUBSET Nat /\ ends # {}
    BY <1>1, <1>3
  <2> HIDE DEF ends
  <2> QED
    BY <2>1, MinIsIn
<1> HIDE DEF k
<1>5. ASSUME NEW j \in 0 .. k - 1
      PROVE  <<q[1] + j, q[2]>> \in Modules
  <2>1. CASE j = 0
    BY <1>2, <2>1
  <2>2. CASE j # 0
    BY <1>1, <1>4, <2>2
  <2> QED
    BY <2>1, <2>2
<1> QED
  BY <1>4, <1>5 DEF k

\* Where the run of a dark module begins.
LEMMA RunBegins ==
    ASSUME version \in Versions, NEW q \in Modules
    PROVE  \E a \in 0 .. q[1] : /\ <<a - 1, q[2]>> \notin Modules
                                /\ \A b \in a .. q[1] : <<b, q[2]>> \in Modules
<1> DEFINE starts == {a \in 0 .. q[1] : <<a - 1, q[2]>> \notin Modules}
<1>1. q = <<q[1], q[2]>> /\ q[1] \in Nat /\ q[2] \in Nat
  BY DEF Modules, Points, Grid, Versions, Size
<1>2. 0 \in starts
  BY <1>1 DEF Modules, Points, Grid
<1>3. Max(starts) \in starts /\ \A y \in starts : y <= Max(starts)
  <2>1. starts \in SUBSET (0 .. q[1]) /\ starts # {}
    BY <1>2
  <2> HIDE DEF starts
  <2> QED
    BY <1>1, <2>1, MaxIsIn
<1>4. PICK a \in starts : \A y \in starts : y <= a
  BY <1>3
<1>5. ASSUME NEW b \in a .. q[1]
      PROVE  <<b, q[2]>> \in Modules
  <2>1. CASE b = q[1]
    BY <1>1, <2>1
  <2>2. CASE b # q[1]
    <3>1. b + 1 \in 0 .. q[1] /\ (b + 1) - 1 = b /\ ~(b + 1 <= a)
      BY <1>1, <1>4, <2>2
    <3>2. b + 1 \notin starts
      BY <1>4, <3>1
    <3> QED
      BY <3>1, <3>2
  <2> QED
    BY <2>1, <2>2
<1> QED
  BY <1>4, <1>5

\* The path of generateSvg() covers the dark modules and nothing else.
LEMMA SvgCovers ==
    ASSUME version \in Versions
    PROVE  GenerateSvg.dark = {<<m[1] + QuietZone, m[2] + QuietZone>> : m \in Modules}
<1> DEFINE n == Size(version)
           length(q) == Min({k \in 1 .. n : <<q[1] + k, q[2]>> \notin Modules})
           from == {q \in Modules : <<q[1] - 1, q[2]>> \notin Modules}
           moved == {<<run[1] + QuietZone, run[2] + QuietZone, run[3]>> : run \in Runs}
           stretch(r) == (r[1] .. r[1] + r[3] - 1) \X {r[2]}
           shown == UNION {stretch(r) : r \in moved}
<1>0. n \in Nat /\ QuietZone = 4
  BY DEF Versions, Size, QuietZone
<1>1. Runs = {<<q[1], q[2], length(q)>> : q \in from}
  BY DEF Runs
<1>2. GenerateSvg.dark = shown
  BY DEF GenerateSvg
<1>3. \A q \in Modules : q = <<q[1], q[2]>> /\ q[1] \in Nat /\ q[2] \in Nat
  BY <1>0 DEF Modules, Points, Grid
<1>4. \A q \in from : /\ q \in Modules /\ length(q) \in Nat
                      /\ <<q[1] + length(q), q[2]>> \notin Modules
                      /\ \A j \in 0 .. length(q) - 1 : <<q[1] + j, q[2]>> \in Modules
  BY <1>0, RunEnds
<1>5. moved = {<<q[1] + 4, q[2] + 4, length(q)>> : q \in from}
  <2> DEFINE triple(q) == <<q[1], q[2], length(q)>>
             move(r) == <<r[1] + 4, r[2] + 4, r[3]>>
  <2> HIDE DEF length, from
  <2>1. \A q : move(triple(q)) = <<q[1] + 4, q[2] + 4, length(q)>>
    OBVIOUS
  <2>2. Runs = {triple(q) : q \in from} /\ moved = {move(r) : r \in Runs}
    BY <1>0, <1>1
  <2> HIDE DEF triple, move, moved
  <2>3. moved = {move(triple(q)) : q \in from}
    BY <2>2
  <2> QED
    BY <2>1, <2>3, Zenon
<1> HIDE DEF length, moved
<1>6. \A p : p \in shown <=> \E q \in from : p \in ((q[1] + 4) .. (q[1] + 4 + length(q) - 1)) \X {q[2] + 4}
  <2> DEFINE first(q) == <<q[1] + 4, q[2] + 4, length(q)>>
             drawn(q) == ((q[1] + 4) .. (q[1] + 4 + length(q) - 1)) \X {q[2] + 4}
  <2>1. moved = {first(q) : q \in from}
    BY <1>5
  <2>2. \A q : stretch(first(q)) = drawn(q)
    OBVIOUS
  <2> HIDE DEF stretch, from, first, drawn
  <2>3. \A p : p \in shown <=> \E q \in from : p \in stretch(first(q))
    BY <2>1
  <2>4. \A p : p \in shown <=> \E q \in from : p \in drawn(q)
    BY <2>2, <2>3
  <2> QED
    BY <2>4, Zenon DEF drawn
<1>7. ASSUME NEW q \in from, NEW p \in ((q[1] + 4) .. (q[1] + 4 + length(q) - 1)) \X {q[2] + 4}
      PROVE  \E m \in Modules : p = <<m[1] + 4, m[2] + 4>>
  <2> DEFINE j == p[1] - (q[1] + 4)
  <2>0. q[1] \in Nat /\ length(q) \in Nat
    BY <1>3, <1>4
  <2>1. p = <<p[1], p[2]>> /\ p[2] = q[2] + 4 /\ j \in 0 .. length(q) - 1 /\ p[1] = (q[1] + j) + 4
    <3>1. p = <<p[1], p[2]>> /\ p[2] = q[2] + 4 /\ p[1] \in (q[1] + 4) .. (q[1] + 4 + length(q) - 1)
      OBVIOUS
    <3> QED
      BY <2>0, <3>1
  <2>2. <<q[1] + j, q[2]>> \in Modules
    BY <1>4, <2>1
  <2> QED
    BY <2>1, <2>2
<1>8. ASSUME NEW m \in Modules
      PROVE  \E q \in from : <<m[1] + 4, m[2] + 4>> \in ((q[1] + 4) .. (q[1] + 4 + length(q) - 1)) \X {q[2] + 4}
  <2>1. PICK a \in 0 .. m[1] : /\ <<a - 1, m[2]>> \notin Modules
                               /\ \A b \in a .. m[1] : <<b, m[2]>> \in Modules
    BY RunBegins
  <2> DEFINE q == <<a, m[2]>>
  <2>2. q \in from /\ q[1] = a /\ q[2] = m[2]
    BY <1>3, <2>1
  <2>3. a + length(q) > m[1]
    <3>1. length(q) \in Nat /\ <<a + length(q), m[2]>> \notin Modules
      BY <1>4, <2>2
    <3> QED
      BY <1>3, <2>1, <3>1
  <2>4. m[1] + 4 \in (a + 4) .. (a + 4 + length(q) - 1)
    <3>1. length(q) \in Nat /\ m[1] \in Nat
      BY <1>3, <1>4, <2>2
    <3> HIDE DEF q
    <3> QED
      BY <2>3, <3>1
  <2>5. <<m[1] + 4, m[2] + 4>> \in ((q[1] + 4) .. (q[1] + 4 + length(q) - 1)) \X {q[2] + 4}
    BY <2>2, <2>4
  <2> QED
    BY <2>2, <2>5
<1>9. \A p : p \in shown <=> p \in {<<m[1] + 4, m[2] + 4>> : m \in Modules}
  <2> HIDE DEF shown, from
  <2> QED
    BY <1>6, <1>7, <1>8
<1> QED
  BY <1>0, <1>2, <1>9

\* generateSvg().
LEMMA SvgShowsSymbol ==
    ASSUME version \in Versions
    PROVE  /\ 1 \in 1 .. GenerateSvg.width /\ GenerateSvg.width = Dim * 1
           /\ Sampled(GenerateSvg, 1) = {<<m[1] + QuietZone, m[2] + QuietZone>> : m \in Modules}
<1> DEFINE shown == {<<m[1] + QuietZone, m[2] + QuietZone>> : m \in Modules}
<1>1. Dim \in Nat \ {0} /\ GenerateSvg.width = Dim
  BY DEF Versions, Size, Dim, QuietZone, GenerateSvg
<1>2. GenerateSvg.dark = shown /\ shown \subseteq Grid(Dim)
  BY SvgCovers, SymbolMoved
<1> HIDE DEF shown
<1>3. Dim \div 1 = Dim /\ 1 \div 2 = 0 /\ Dim * 1 = Dim
  BY <1>1
<1>4. \A m \in Grid(Dim) : <<m[1] * 1 + 0, m[2] * 1 + 0>> = m
  BY <1>1 DEF Grid
<1>5. Sampled(GenerateSvg, 1) = {m \in Grid(Dim) : m \in shown}
  BY <1>1, <1>2, <1>3, <1>4 DEF Sampled
<1> QED
  BY <1>1, <1>2, <1>3, <1>5 DEF shown

-----------------------------------------------------------------------------
(* The invariant.                                                          *)

\* What is drawn of unchanged blocks is unchanged.
LEMMA SameDrawn ==
    ASSUME UNCHANGED <<version, ecc, blocks>>
    PROVE  Drawn' = Drawn /\ Path' = Path
  BY DEF Drawn, Path

\* The steps keep the version.
LEMMA VersionKept ==
    ASSUME IInv, [Next]_vars
    PROVE  VersionFits'
<1> USE DEF VersionFits, input, division, drawing
<1>1. CASE ChooseVersion
  <2>1. version' \in Versions \cup {-1} /\ stage' = IF version' < 0 THEN "invalid" ELSE "version"
    BY <1>1, VersionChosen DEF ChooseVersion
  <2>2. \A v \in Versions : ~(v < 0)
    BY DEF Versions
  <2> QED
    BY <2>1, <2>2
<1>2. CASE StartDivisor
  BY <1>2 DEF IInv, StartDivisor
<1>3. CASE DivideRound
  BY <1>3 DEF IInv, DivideRound
<1>4. CASE StartBlocks
  BY <1>4 DEF IInv, StartBlocks
<1>5. CASE ReadByte
  BY <1>5 DEF IInv, ReadByte
<1>6. CASE EndBlock
  BY <1>6 DEF IInv, EndBlock
<1>7. CASE Draw
  BY <1>7 DEF IInv, Draw
<1>8. CASE TryMask
  BY <1>8 DEF IInv, TryMask
<1>9. CASE UseBestMask
  BY <1>9 DEF IInv, UseBestMask
<1>10. CASE Picture
  BY <1>10 DEF IInv, Picture
<1>11. CASE UNCHANGED vars
  BY <1>11 DEF IInv, vars
<1> QED
  BY <1>1, <1>2, <1>3, <1>4, <1>5, <1>6, <1>7, <1>8, <1>9, <1>10, <1>11 DEF Next

\* The steps take every trial back.
LEMMA TrialsKept ==
    ASSUME IInv, [Next]_vars
    PROVE  TrialsLeaveNoTrace'
<1> USE DEF TrialsLeaveNoTrace, input, division, drawing
<1>1. CASE ChooseVersion
  <2>1. stage' \in {"invalid", "version"}
    BY <1>1 DEF ChooseVersion
  <2> QED
    BY <1>1, <2>1 DEF IInv, ChooseVersion
<1>2. CASE StartDivisor
  BY <1>2 DEF IInv, StartDivisor
<1>3. CASE DivideRound
  BY <1>3 DEF IInv, DivideRound
<1>4. CASE StartBlocks
  BY <1>4 DEF IInv, StartBlocks
<1>5. CASE ReadByte
  BY <1>5 DEF IInv, ReadByte
<1>6. CASE EndBlock
  BY <1>6 DEF IInv, EndBlock
<1>7. CASE Draw
  <2>1. dark' = Drawn /\ Drawn' = Drawn
    BY <1>7, SameDrawn DEF Draw, Drawn
  <2> QED
    BY <1>7, <2>1 DEF IInv, Draw
<1>8. CASE TryMask
  <2>1. Drawn' = Drawn /\ version' = version /\ ecc' = ecc
    BY <1>8, SameDrawn DEF TryMask
  <2>2. dark' = DrawFormatBits(dark, version, ecc, mask)
    BY <1>8, TrialLeavesFormat DEF TryMask
  <2>3. mask \in 0 .. 7 /\ mask' = mask + 1 /\ mask' - 1 = mask
    BY <1>8 DEF IInv, TryMask
  <2>4. dark' = DrawFormatBits(Drawn, version, ecc, mask)
    BY <1>8, <2>2, LastFormatStays DEF IInv, TryMask
  <2>5. dark' = IF mask' = 0 THEN Drawn' ELSE DrawFormatBits(Drawn', version', ecc', mask' - 1)
    BY <2>1, <2>3, <2>4
  <2>6. bestMask' \in 0 .. 7 /\ stage' = "masks"
    BY <1>8, <2>3 DEF IInv, TryMask
  <2> QED
    BY <2>1, <2>3, <2>5, <2>6 DEF IInv
<1>9. CASE UseBestMask
  <2>1. Drawn' = Drawn /\ Path' = Path
    BY <1>9, SameDrawn DEF UseBestMask
  <2>2. dark = DrawFormatBits(Drawn, version, ecc, 7)
    BY <1>9 DEF IInv, UseBestMask
  <2>3. dark' = ApplyMask(DrawFormatBits(Drawn, version, ecc, bestMask), Path, bestMask)
    BY <1>9, <2>2, LastFormatStays DEF UseBestMask
  <2> QED
    BY <1>9, <2>1, <2>3 DEF IInv, UseBestMask
<1>10. CASE Picture
  <2>1. Drawn' = Drawn /\ Path' = Path
    BY <1>10, SameDrawn DEF Picture
  <2> QED
    BY <1>10, <2>1 DEF IInv, Picture
<1>11. CASE UNCHANGED vars
  <2>1. Drawn' = Drawn /\ Path' = Path
    BY <1>11, SameDrawn DEF vars
  <2> QED
    BY <1>11, <2>1 DEF IInv, vars
<1> QED
  BY <1>1, <1>2, <1>3, <1>4, <1>5, <1>6, <1>7, <1>8, <1>9, <1>10, <1>11 DEF Next

\* The picture taken shows the symbol, and no step after it changes either.
LEMMA PictureKept ==
    ASSUME IInv, [Next]_vars
    PROVE  PictureShowsSymbol'
<1> USE DEF input, division, drawing
<1>1. CASE Picture
  <2>1. version \in Versions
    BY <1>1 DEF IInv, VersionFits, Picture
  <2>2. \E side \in 1 .. picture'.width :
          /\ picture'.width = Dim * side
          /\ Sampled(picture', side) = {<<m[1] + QuietZone, m[2] + QuietZone>> : m \in Modules}
    <3>1. CASE \E target \in TargetSizes : picture' = RenderImage(target)
      BY <2>1, <3>1, ImageShowsSymbol, TargetSizesAssumption
    <3>2. CASE picture' = GenerateSvg
      BY <2>1, <3>2, SvgShowsSymbol
    <3> QED
      BY <1>1, <3>1, <3>2 DEF Picture
  <2>3. Dim' = Dim /\ Modules' = Modules
    BY <1>1 DEF Picture, Dim, Modules, Points
  <2> QED
    BY <2>2, <2>3 DEF PictureShowsSymbol, Sampled
<1>2. CASE UNCHANGED vars
  BY <1>2 DEF IInv, vars, PictureShowsSymbol, Sampled, Dim, Modules, Points
<1>3. CASE Next /\ ~Picture
  <2>1. stage' # "picture"
    BY <1>3 DEF Next, ChooseVersion, StartDivisor, DivideRound, StartBlocks, ReadByte, EndBlock,
                Draw, TryMask, UseBestMask
  <2> QED
    BY <2>1 DEF PictureShowsSymbol
<1> QED
  BY <1>1, <1>2, <1>3 DEF Next

\* The invariant holds.
THEOREM Invariance == Spec => []IInv
<1>1. Init => IInv
  BY DEF Init, IInv, VersionFits, TrialsLeaveNoTrace, PictureShowsSymbol
<1>2. IInv /\ [Next]_vars => IInv'
  BY VersionKept, TrialsKept, PictureKept DEF IInv
<1> QED
  BY <1>1, <1>2, PTL DEF Spec

\* The trials of selectMask(), drawn into the symbol itself and taken back, leave
\* no trace: when it is done, the format of the mask that has won and that one mask
\* are all that was added to what draw() had left.
THEOREM TrialsTakenBack == Spec => []TrialsLeaveNoTrace
  BY Invariance, PTL DEF IInv

\* An image of any width asked for, and the runs of the SVG path, show the modules
\* of the symbol, all of one size, in a margin of four, and nothing else.
THEOREM PictureIsOfSymbol == Spec => []PictureShowsSymbol
  BY Invariance, PTL DEF IInv

\* No version is drawn but one of the forty, and none larger than the bound.
THEOREM VersionIsDrawable == Spec => []VersionFits
  BY Invariance, PTL DEF IInv

-----------------------------------------------------------------------------
(* The version and its capacity.                                           *)

\* Every level has a number of codewords for every version.
LEMMA CodewordsAreNumbers ==
    ASSUME NEW e \in Eccs, NEW v \in Versions
    PROVE  NumDataCodewords(v, e) \in Int
<1>1. e \in {"Low", "Medium", "Quartile", "High"}
  BY DEF Eccs, ToEcc
<1>2. EccCodewordsPerBlock[e][v] \in Int
  BY <1>1 DEF EccCodewordsPerBlock, Versions
<1>3. NumErrorCorrectionBlocks[e][v] \in Int
  BY <1>1 DEF NumErrorCorrectionBlocks, Versions
<1>4. RawCodewords(v) \in Int
  BY DEF RawCodewords, NumRawDataModules, Versions
<1> QED
  BY <1>2, <1>3, <1>4 DEF NumDataCodewords

\* The smallest symbol holds the empty text.
LEMMA SmallestHoldsNothing ==
    ASSUME NEW e \in Eccs
    PROVE  4 + CharCountBits(Byte, 1) <= NumDataCodewords(1, e) * 8
<1>1. e \in {"Low", "Medium", "Quartile", "High"}
  BY DEF Eccs, ToEcc
<1>2. EccCodewordsPerBlock[e][1] <= 17 /\ EccCodewordsPerBlock[e][1] \in Int /\ NumErrorCorrectionBlocks[e][1] = 1
  BY <1>1 DEF EccCodewordsPerBlock, NumErrorCorrectionBlocks
<1>3. RawCodewords(1) = 26
  BY DEF RawCodewords, NumRawDataModules
<1>4. CharCountBits(Byte, 1) = 8
  BY DEF CharCountBits, Byte, Numeric, Alphanumeric
<1> QED
  BY <1>2, <1>3, <1>4 DEF NumDataCodewords

\* So many bytes fit a version as its capacity says.
LEMMA FitsAsPromised ==
    ASSUME NEW n \in Nat, NEW e \in Eccs, NEW v \in Versions
    PROVE  /\ 4 + CharCountBits(Byte, v) + n * 8 <= NumDataCodewords(v, e) * 8 => n <= ByteModeCapacity(v, e)
           /\ n > 0 /\ n <= ByteModeCapacity(v, e) => 4 + CharCountBits(Byte, v) + n * 8 <= NumDataCodewords(v, e) * 8
<1>1. CharCountBits(Byte, v) \in Nat
  BY DEF CharCountBits, Byte, Numeric, Alphanumeric, Versions
<1>2. PICK d \in Int, c \in Nat : d = NumDataCodewords(v, e) /\ c = CharCountBits(Byte, v)
  BY <1>1, CodewordsAreNumbers
<1>3. ByteModeCapacity(v, e) = IF d * 8 - (4 + c) > 0 THEN (d * 8 - (4 + c)) \div 8 ELSE 0
  BY <1>2, Zenon DEF ByteModeCapacity
<1> QED
  BY <1>2, <1>3

\* The version below one of them.
LEMMA OneVersionLess ==
    ASSUME NEW v \in Versions, v > 1
    PROVE  v - 1 \in Versions /\ ~(v <= v - 1)
  BY DEF Versions

\* A text of bytes gets the version that the capacity promises.
LEMMA ChosenAsPromised ==
    ASSUME NEW t, Len(Utf8(t)) \in Nat, DetectMode(t) = Byte, NEW e \in Eccs,
           NEW v \in Versions, v = MinimumVersion(t, e)
    PROVE  /\ Len(Utf8(t)) <= ByteModeCapacity(v, e)
           /\ v > 1 => Len(Utf8(t)) > ByteModeCapacity(v - 1, e)
<1>1. PICK n \in Nat : n = Len(Utf8(t))
  OBVIOUS
<1> DEFINE fitting == {u \in Versions : 4 + CharCountBits(Byte, u) + n * 8 <= NumDataCodewords(u, e) * 8}
<1>2. DataBitLength(t, Byte) = n * 8
  BY <1>1 DEF DataBitLength, Byte, Numeric, Alphanumeric
<1>3. MinimumVersion(t, e) = IF fitting = {} THEN -1 ELSE Min(fitting)
  BY <1>2, Zenon DEF MinimumVersion
<1>4. fitting \subseteq Versions /\ fitting \in SUBSET Nat
  <2>1. fitting \subseteq Versions
    BY Zenon
  <2> HIDE DEF fitting
  <2> QED
    BY <2>1 DEF Versions
<1>5. fitting # {} /\ v = Min(fitting)
  BY <1>3 DEF Versions
<1>6. v \in fitting /\ \A u \in fitting : v <= u
  <2> HIDE DEF fitting
  <2> QED
    BY <1>4, <1>5, MinIsIn
<1>7. n <= ByteModeCapacity(v, e)
  BY <1>6, FitsAsPromised
<1>8. ASSUME v > 1 PROVE n > ByteModeCapacity(v - 1, e)
  <2>1. v - 1 \in Versions /\ v - 1 \notin fitting
    <3> HIDE DEF fitting
    <3>1. v - 1 \in Versions /\ ~(v <= v - 1)
      BY <1>8, OneVersionLess
    <3> QED
      BY <1>6, <3>1
  <2>2. n > 0
    <3>1. CASE n = 0
      <4>1. 1 \in fitting
        BY <3>1, SmallestHoldsNothing DEF Versions, CharCountBits, Byte, Numeric, Alphanumeric
      <4> QED
        BY <1>6, <1>8, <4>1 DEF Versions
    <3> QED
      BY <3>1
  <2>3. ByteModeCapacity(v - 1, e) \in Int
    <3>1. PICK w \in Versions : w = v - 1
      BY <2>1
    <3>2. CharCountBits(Byte, w) \in Int
      BY DEF CharCountBits, Byte, Numeric, Alphanumeric, Versions
    <3>3. NumDataCodewords(w, e) \in Int
      BY CodewordsAreNumbers
    <3> QED
      BY <3>1, <3>2, <3>3 DEF ByteModeCapacity
  <2>4. ~(n <= ByteModeCapacity(v - 1, e))
    BY <2>1, <2>2, FitsAsPromised
  <2> QED
    BY <2>3, <2>4
<1> QED
  BY <1>1, <1>7, <1>8

\* Until the version is drawn it is the one chosen for the text.
Chosen ==
    /\ text \in Texts
    /\ stage = "version" => version = MinimumVersion(text, ecc)

\* The steps keep it.
LEMMA ChosenKept ==
    ASSUME Chosen, [Next]_vars
    PROVE  Chosen'
<1> USE DEF Chosen, input, division, drawing
<1>1. CASE ChooseVersion
  BY <1>1 DEF ChooseVersion
<1>2. CASE UNCHANGED vars
  BY <1>2 DEF vars
<1>3. CASE Next /\ ~ChooseVersion
  <2>1. stage' # "version" /\ text' = text
    BY <1>3 DEF Next, StartDivisor, DivideRound, StartBlocks, ReadByte, EndBlock,
                Draw, TryMask, UseBestMask, Picture
  <2> QED
    BY <2>1
<1> QED
  BY <1>1, <1>2, <1>3 DEF Next

\* The version chosen holds as many bytes as the capacity promises, and the one
\* below it does not.
THEOREM VersionKeepsPromise == Spec => []VersionAsPromised
<1>1. Init => Chosen
  BY DEF Init, Chosen
<1>2. IInv /\ Chosen => VersionAsPromised
  <2> SUFFICES ASSUME IInv, Chosen, stage = "version", DetectMode(text) = Byte
               PROVE  /\ Len(Utf8(text)) <= ByteModeCapacity(version, ecc)
                      /\ version > 1 => Len(Utf8(text)) > ByteModeCapacity(version - 1, ecc)
    BY DEF VersionAsPromised
  <2>1. ecc \in Eccs /\ version \in Versions /\ version = MinimumVersion(text, ecc) /\ Len(Utf8(text)) \in Nat
    BY TextsAssumption DEF IInv, VersionFits, TrialsLeaveNoTrace, Chosen
  <2> QED
    BY <2>1, ChosenAsPromised
<1> QED
  BY <1>1, <1>2, Invariance, ChosenKept, PTL DEF Spec
=============================================================================
