----------------------------- MODULE QrEncoder -----------------------------
(***************************************************************************)
(* The functions of the encoder (src/core/qrencoder.cpp): from a text to   *)
(* the data codewords of the smallest version that holds it, to the blocks *)
(* with their error correction, to the modules of the symbol. Module       *)
(* QrSymbol runs them.                                                     *)
(*                                                                         *)
(* A character is its Unicode number (below 2048), a text a sequence of    *)
(* them. A codeword, and every other value that is shifted and xored, is   *)
(* the set of its one bits. A symbol is the set of its dark modules, a     *)
(* module a pair <<x, y>>.                                                 *)
(***************************************************************************)
EXTENDS Integers, Sequences, FiniteSetsExt

\* toEcc()
ToEcc(eccLevel) ==
    CASE eccLevel = 0 -> "Low" [] eccLevel = 2 -> "Quartile" [] eccLevel = 3 -> "High" [] OTHER -> "Medium"

Eccs == {ToEcc(eccLevel) : eccLevel \in -1 .. 4}
Versions == 1 .. 40
Numeric == "numeric"
Alphanumeric == "alphanumeric"
Byte == "byte"

EccCodewordsPerBlock == [
    Low |-> <<7, 10, 15, 20, 26, 18, 20, 24, 30, 18, 20, 24, 26, 30, 22, 24, 28, 30, 28, 28, 28, 28,
              30, 30, 26, 28, 30, 30, 30, 30, 30, 30, 30, 30, 30, 30, 30, 30, 30, 30>>,
    Medium |-> <<10, 16, 26, 18, 24, 16, 18, 22, 22, 26, 30, 22, 22, 24, 24, 28, 28, 26, 26, 26, 26,
              28, 28, 28, 28, 28, 28, 28, 28, 28, 28, 28, 28, 28, 28, 28, 28, 28, 28, 28>>,
    Quartile |-> <<13, 22, 18, 26, 18, 24, 18, 22, 20, 24, 28, 26, 24, 20, 30, 24, 28, 28, 26, 30,
              28, 30, 30, 30, 30, 28, 30, 30, 30, 30, 30, 30, 30, 30, 30, 30, 30, 30, 30, 30>>,
    High |-> <<17, 28, 22, 16, 22, 28, 26, 26, 24, 28, 24, 28, 22, 24, 24, 30, 28, 28, 26, 28, 30,
              24, 30, 30, 30, 30, 30, 30, 30, 30, 30, 30, 30, 30, 30, 30, 30, 30, 30, 30>>]

NumErrorCorrectionBlocks == [
    Low |-> <<1, 1, 1, 1, 1, 2, 2, 2, 2, 4, 4, 4, 4, 4, 6, 6, 6, 6, 7, 8, 8, 9, 9, 10, 12, 12, 12,
              13, 14, 15, 16, 17, 18, 19, 19, 20, 21, 22, 24, 25>>,
    Medium |-> <<1, 1, 1, 2, 2, 4, 4, 4, 5, 5, 5, 8, 9, 9, 10, 10, 11, 13, 14, 16, 17, 17, 18, 20,
              21, 23, 25, 26, 28, 29, 31, 33, 35, 37, 38, 40, 43, 45, 47, 49>>,
    Quartile |-> <<1, 1, 2, 2, 4, 4, 6, 6, 8, 8, 8, 10, 12, 16, 12, 17, 16, 18, 21, 20, 23, 23, 25,
              27, 29, 34, 34, 35, 38, 40, 43, 45, 48, 51, 53, 56, 59, 62, 65, 68>>,
    High |-> <<1, 1, 2, 4, 4, 4, 5, 6, 8, 8, 11, 11, 16, 16, 18, 16, 19, 21, 25, 25, 25, 34, 30, 32,
              35, 37, 40, 42, 45, 48, 51, 54, 57, 60, 63, 66, 70, 74, 77, 81>>]

-----------------------------------------------------------------------------
(* Sizes.                                                                  *)

NumRawDataModules(v) ==
    LET align == v \div 7 + 2
    IN (16 * v + 128) * v + 64
       - (IF v >= 2 THEN (25 * align - 10) * align - 55 ELSE 0)
       - (IF v >= 7 THEN 36 ELSE 0)

RawCodewords(v) == NumRawDataModules(v) \div 8

NumDataCodewords(v, ecc) ==
    RawCodewords(v) - EccCodewordsPerBlock[ecc][v] * NumErrorCorrectionBlocks[ecc][v]

CharCountBits(mode, v) ==
    LET group == IF v <= 9 THEN 1 ELSE IF v <= 26 THEN 2 ELSE 3
    IN CASE mode = Numeric -> <<10, 12, 14>>[group]
         [] mode = Alphanumeric -> <<9, 11, 13>>[group]
         [] mode = Byte -> <<8, 16, 16>>[group]

ByteModeCapacity(v, ecc) ==
    IF v \notin Versions THEN 0
    ELSE LET available == NumDataCodewords(v, ecc) * 8 - (4 + CharCountBits(Byte, v))
         IN IF available > 0 THEN available \div 8 ELSE 0

-----------------------------------------------------------------------------
(* The segment.                                                            *)

\* QChar::isDigit(): the decimal digits of every script, of which three here.
Digits(zero) == zero .. zero + 9
IsDigit(c) == c \in Digits(48) \cup Digits(1632) \cup Digits(1776)

\* kAlphanumericCharset, "0123456789ABCDEFGHIJKLMNOPQRSTUVWXYZ $%*+-./:"
Charset == [i \in 1 .. 45 |->
    IF i <= 10 THEN 47 + i ELSE IF i <= 36 THEN 54 + i
    ELSE <<32, 36, 37, 42, 43, 45, 46, 47, 58>>[i - 36]]

AlphanumericValue(c) == (CHOOSE i \in DOMAIN Charset : Charset[i] = c) - 1

DetectMode(text) ==
    IF text = <<>> THEN Byte
    ELSE IF \A i \in DOMAIN text : IsDigit(text[i]) THEN Numeric
    ELSE IF \A i \in DOMAIN text : \E k \in DOMAIN Charset : Charset[k] = text[i] THEN Alphanumeric
    ELSE Byte

\* toUtf8()
Utf8(text) ==
    LET byte(k) ==
            LET c == text[(k + 1) \div 2]
            IN CASE k % 2 = 1 -> IF c < 128 THEN c ELSE 192 + c \div 64
                 [] k % 2 = 0 -> IF c < 128 THEN 256 ELSE 128 + (c % 64)
    IN SelectSeq([k \in 1 .. 2 * Len(text) |-> byte(k)], LAMBDA b : b < 256)

DataBitLength(text, mode) ==
    LET n == Len(text)
    IN CASE mode = Numeric -> (n \div 3) * 10 + <<0, 4, 7>>[(n % 3) + 1]
         [] mode = Alphanumeric -> (n \div 2) * 11 + (n % 2) * 6
         [] mode = Byte -> Len(Utf8(text)) * 8

CharCount(text, mode) == IF mode = Byte THEN Len(Utf8(text)) ELSE Len(text)

MinimumVersion(text, ecc) ==
    LET mode == DetectMode(text)
        bits == DataBitLength(text, mode)
        fitting == {v \in Versions : 4 + CharCountBits(mode, v) + bits <= NumDataCodewords(v, ecc) * 8}
    IN IF fitting = {} THEN -1 ELSE Min(fitting)

\* appendBits(): value in so many bits, the highest first.
Bits(value, length) == [k \in 1 .. length |-> (value \div 2 ^ (length - k)) % 2]

\* QString::toInt(), which knows the digits of the C locale only.
ToInt(s) ==
    IF \A i \in DOMAIN s : s[i] \in Digits(48)
    THEN CASE Len(s) = 1 -> s[1] - 48
           [] Len(s) = 2 -> 10 * (s[1] - 48) + s[2] - 48
           [] Len(s) = 3 -> 100 * (s[1] - 48) + 10 * (s[2] - 48) + s[3] - 48
    ELSE 0

\* How many characters an appendBits call of the segment takes, and its bits.
Take(mode) == CASE mode = Numeric -> 3 [] mode = Alphanumeric -> 2 [] mode = Byte -> 1
ChunkBits(mode, s) ==
    CASE mode = Numeric -> Bits(ToInt(s), Len(s) * 3 + 1)
      [] mode = Alphanumeric ->
            IF Len(s) = 2 THEN Bits(AlphanumericValue(s[1]) * 45 + AlphanumericValue(s[2]), 11)
            ELSE Bits(AlphanumericValue(s[1]), 6)
      [] mode = Byte -> Bits(s[1], 8)

SegmentBits(text, mode) ==
    LET chars == IF mode = Byte THEN Utf8(text) ELSE text
        take == Take(mode)
        width == CASE mode = Numeric -> 10 [] mode = Alphanumeric -> 11 [] mode = Byte -> 8
        chunks == [c \in 1 .. (Len(chars) + take - 1) \div take |->
                     ChunkBits(mode, SubSeq(chars, (c - 1) * take + 1, Min({c * take, Len(chars)})))]
    IN [k \in 1 .. DataBitLength(text, mode) |-> chunks[(k - 1) \div width + 1][((k - 1) % width) + 1]]

\* The data codewords of encodeText(): the segment behind its header, the
\* terminator, and padding.
DataCodewords(text, v, ecc) ==
    LET mode == DetectMode(text)
        indicator == CASE mode = Numeric -> 1 [] mode = Alphanumeric -> 2 [] mode = Byte -> 4
        segment == Bits(indicator, 4) \o Bits(CharCount(text, mode), CharCountBits(mode, v))
                   \o SegmentBits(text, mode)
        total == NumDataCodewords(v, ecc)
        end == Len(segment) + Min({4, total * 8 - Len(segment)})
        used == (end + 7) \div 8
        bit(k) == IF k <= Len(segment) THEN segment[k] ELSE 0
    IN [i \in 1 .. total |->
          CASE i <= used -> {b \in 0 .. 7 : bit(8 * i - b) = 1}
            [] i > used /\ (i - used) % 2 = 1 -> {7, 6, 5, 3, 2}    \* 0xEC
            [] i > used /\ (i - used) % 2 = 0 -> {4, 0}]            \* 0x11

-----------------------------------------------------------------------------
(* Error correction.                                                       *)

Xor(a, b) == (a \ b) \cup (b \ a)

\* One step of a division by a polynomial: shifted, and reduced.
TimesX(z, degree, polynomial) ==
    LET s == {b + 1 : b \in z}
    IN IF degree \in s THEN Xor(s, polynomial) ELSE s

\* gfMultiply()
GfMultiply(x, y) ==
    LET z[i \in 0 .. 8] ==
            IF i = 8 THEN {}
            ELSE Xor(TimesX(z[i + 1], 8, {8, 4, 3, 2, 0}), IF i \in y THEN x ELSE {})
    IN IF x = {} \/ y = {} THEN {} ELSE z[0]

\* One round of reedSolomonDivisor(), a variant that shifts in the wrong order,
\* and one byte of reedSolomonRemainder().
DivisorRoundLate(divisor, root) ==
    [j \in DOMAIN divisor |->
        GfMultiply(Xor(divisor[j], IF j < Len(divisor) THEN divisor[j + 1] ELSE {}), root)]

DivisorRound(divisor, root) ==
    [j \in DOMAIN divisor |->
        Xor(GfMultiply(divisor[j], root), IF j < Len(divisor) THEN divisor[j + 1] ELSE {})]

RemainderByte(rem, byte, divisor) ==
    LET factor == Xor(byte, rem[1])
    IN [j \in DOMAIN rem |->
          Xor(IF j < Len(rem) THEN rem[j + 1] ELSE {}, GfMultiply(divisor[j], factor))]

\* addEccAndInterleave(): how the data is split.
ShortBlockData(v, ecc) ==
    RawCodewords(v) \div NumErrorCorrectionBlocks[ecc][v] - EccCodewordsPerBlock[ecc][v]

NumShortBlocks(v, ecc) ==
    LET n == NumErrorCorrectionBlocks[ecc][v] IN n - (RawCodewords(v) % n)

BlockData(v, ecc, i) == ShortBlockData(v, ecc) + IF i <= NumShortBlocks(v, ecc) THEN 0 ELSE 1

\* Where the data of the i-th block begins.
BlockStart(v, ecc, i) ==
    (i - 1) * ShortBlockData(v, ecc) + Max({0, i - 1 - NumShortBlocks(v, ecc)})

\* The columns of the blocks, one after the other, without the padding.
Interleave(blocks, v, ecc) ==
    LET n == Len(blocks)
        cells == [k \in 1 .. n * Len(blocks[1]) |-> <<((k - 1) % n) + 1, (k - 1) \div n + 1>>]
        kept == SelectSeq(cells, LAMBDA c : c[2] # ShortBlockData(v, ecc) + 1 \/ c[1] > NumShortBlocks(v, ecc))
    IN [k \in DOMAIN kept |-> blocks[kept[k][1]][kept[k][2]]]

-----------------------------------------------------------------------------
(* The symbol.                                                             *)

Size(v) == v * 4 + 17
Grid(n) == (0 .. n - 1) \X (0 .. n - 1)
Points(v) == Grid(Size(v))

\* setFunctionModule() over a pattern: area is taken, dark of it is dark.
Over(s, pattern) == (s \ pattern.area) \cup pattern.dark
Together(patterns) == [area |-> UNION {p.area : p \in patterns}, dark |-> UNION {p.dark : p \in patterns}]

Distance(p, c) == Max({p[1] - c[1], c[1] - p[1], p[2] - c[2], c[2] - p[2]})
Square(v, c, r) == {p \in ((c[1] - r) .. (c[1] + r)) \X ((c[2] - r) .. (c[2] + r)) : p \in Points(v)}

Timing(v) ==
    LET line(s) == {<<6, i>> : i \in s} \cup {<<i, 6>> : i \in s}
    IN [area |-> line(0 .. Size(v) - 1), dark |-> line({i \in 0 .. Size(v) - 1 : i % 2 = 0})]

FinderPattern(v, c) ==
    [area |-> Square(v, c, 4), dark |-> {p \in Square(v, c, 4) : Distance(p, c) \notin {2, 4}}]

AlignmentPattern(v, c) ==
    [area |-> Square(v, c, 2), dark |-> {p \in Square(v, c, 2) : Distance(p, c) # 1}]

AlignmentPatternPositions(v) ==
    IF v = 1 THEN <<>>
    ELSE LET n == v \div 7 + 2
             step == IF v = 32 THEN 26 ELSE ((v * 4 + n * 2 + 1) \div (n * 2 - 2)) * 2
         IN [k \in 1 .. n |-> IF k = 1 THEN 6 ELSE Size(v) - 7 - (n - k) * step]


OverlapsFinder(i, j, n) == (i = 1 /\ j = 1) \/ (i = 1 /\ j = n) \/ (i = n /\ j = 1)

AlignmentCentres(v) ==
    LET at == AlignmentPatternPositions(v)
    IN {<<at[ij[1]], at[ij[2]]>> :
          ij \in {ij \in (1 .. Len(at)) \X (1 .. Len(at)) : ~OverlapsFinder(ij[1], ij[2], Len(at))}}

\* The value and its remainder after so many steps.
WithRemainder(value, degree, polynomial) ==
    LET r[i \in 0 .. degree] == IF i = 0 THEN value ELSE TimesX(r[i - 1], degree, polynomial)
    IN {b + degree : b \in value} \cup r[degree]

BitSet(n) == {b \in 0 .. 7 : (n \div 2 ^ b) % 2 = 1}

EccFormatBits == [Low |-> 1, Medium |-> 0, Quartile |-> 3, High |-> 2]

\* drawFormatBits(): two copies of fifteen bits, and the module always dark.
FormatBits(ecc, mask) ==
    Xor(WithRemainder(BitSet(EccFormatBits[ecc] * 8 + mask), 10, {10, 8, 5, 4, 2, 1, 0}),
        {14, 12, 10, 4, 1})

FirstCopy(i) ==
    CASE i <= 5 -> <<8, i>> [] i = 6 -> <<8, 7>> [] i = 7 -> <<8, 8>> [] i = 8 -> <<7, 8>>
      [] i >= 9 -> <<14 - i, 8>>
SecondCopy(v, i) == IF i < 8 THEN <<Size(v) - 1 - i, 8>> ELSE <<8, Size(v) - 15 + i>>

FormatPattern(v, ecc, mask) ==
    LET both(bits) == {FirstCopy(i) : i \in bits} \cup {SecondCopy(v, i) : i \in bits} \cup {<<8, Size(v) - 8>>}
    IN [area |-> both(0 .. 14), dark |-> both(FormatBits(ecc, mask) \cap (0 .. 14))]

DrawFormatBits(s, v, ecc, mask) == Over(s, FormatPattern(v, ecc, mask))

VersionPattern(v) ==
    LET at(i) == <<Size(v) - 11 + (i % 3), i \div 3>>
        both(bits) == {at(i) : i \in bits} \cup {<<at(i)[2], at(i)[1]>> : i \in bits}
    IN IF v < 7 THEN [area |-> {}, dark |-> {}]
       ELSE [area |-> both(0 .. 17),
             dark |-> both(WithRemainder(BitSet(v), 12, {12, 11, 10, 9, 8, 5, 2, 0}))]

Finders(v) ==
    Together({FinderPattern(v, c) : c \in {<<3, 3>>, <<Size(v) - 4, 3>>, <<3, Size(v) - 4>>}})
Alignments(v) == Together({AlignmentPattern(v, c) : c \in AlignmentCentres(v)})

FunctionModules(v) ==
    UNION {Timing(v).area, Finders(v).area, Alignments(v).area,
           FormatPattern(v, "Low", 0).area, VersionPattern(v).area}

\* drawFunctionPatterns()
FunctionPatterns(v, ecc) ==
    Over(DrawFormatBits(Over(Over(Over({}, Timing(v)), Finders(v)), Alignments(v)), v, ecc, 0),
         VersionPattern(v))

\* The order in which drawCodewords() visits the modules: pairs of columns from
\* the right, but for the sixth, up and down in turn.
ScanPath(v) ==
    LET size == Size(v)
        at(k) ==
            LET pair == k \div (2 * size)
                right == size - 1 - 2 * pair - (IF size - 1 - 2 * pair <= 6 THEN 1 ELSE 0)
                vert == (k % (2 * size)) \div 2
            IN <<right - (k % 2), IF ((right + 1) \div 2) % 2 = 0 THEN size - 1 - vert ELSE vert>>
    IN [k \in 1 .. size * (size - 1) |-> at(k - 1)]

DataPath(v) ==
    LET taken == FunctionModules(v) IN SelectSeq(ScanPath(v), LAMBDA p : p \notin taken)

DrawCodewords(s, path, data) ==
    LET places == 1 .. Min({Len(path), Len(data) * 8})
    IN (s \ {path[i] : i \in places})
       \cup {path[i] : i \in {i \in places : 7 - ((i - 1) % 8) \in data[(i - 1) \div 8 + 1]}}

\* applyMask()
Inverts(mask, x, y) ==
    CASE mask = 0 -> (x + y) % 2 = 0
      [] mask = 1 -> y % 2 = 0
      [] mask = 2 -> x % 3 = 0
      [] mask = 3 -> (x + y) % 3 = 0
      [] mask = 4 -> (x \div 3 + y \div 2) % 2 = 0
      [] mask = 5 -> ((x * y) % 2) + ((x * y) % 3) = 0
      [] mask = 6 -> (((x * y) % 2) + ((x * y) % 3)) % 2 = 0
      [] mask = 7 -> (((x + y) % 2) + ((x * y) % 3)) % 2 = 0

ApplyMask(s, path, mask) ==
    Xor(s, {path[i] : i \in {i \in DOMAIN path : Inverts(mask, path[i][1], path[i][2])}})
=============================================================================
