------------------------------ MODULE QrSymbol ------------------------------
(***************************************************************************)
(* QrEncoder::encodeText() at work (src/core/qrencoder.cpp): the version,  *)
(* the loops of the Reed-Solomon division, the drawing, and the trial of   *)
(* the eight masks, in which the symbol itself is the scratch pad: every   *)
(* trial is drawn into it and taken back. The penalty only picks a mask;   *)
(* any may win here. Then the picture: QrGenerator draws the symbol as an  *)
(* image or as an SVG path (src/core/qrgenerator.cpp).                     *)
(*                                                                         *)
(* Below the line, what a reader does by the standard (ISO 18004): from    *)
(* a symbol alone it finds level and mask, takes the mask off, gathers the *)
(* blocks and reads the text. It shares with the encoder the places of the *)
(* modules, the masks and the words of the format; the text it finds its   *)
(* own way.                                                                *)
(***************************************************************************)
EXTENDS QrEncoder

CONSTANTS
    Texts,
    MaxDrawn,       \* bound: versions drawn; larger ones end when chosen
    TargetSizes     \* widths asked of an image, in pixels

ASSUME MaxDrawnAssumption == MaxDrawn \in Versions
ASSUME TargetSizesAssumption == TargetSizes \subseteq Nat
ASSUME TextsAssumption == \A t \in Texts : Len(Utf8(t)) \in Nat

VARIABLES
    text, ecc,      \* encodeText()'s arguments
    stage,          \* "text", "version", "divisor", "blocks", "masks", "done",
                    \* "picture", or "invalid": QrCode()
    version,
    divisor,        \* reedSolomonDivisor()'s result
    root,           \* its root, and how many rounds it has made
    blocks,         \* the blocks of addEccAndInterleave() so far
    rem,            \* reedSolomonRemainder()'s result for the next one
    used,           \* the bytes of that block it has read
    dark,           \* m_modules
    mask,           \* the masks tried
    bestMask,
    picture         \* its width and its dark points

input == <<text, ecc>>
division == <<divisor, root, blocks, rem, used>>
drawing == <<dark, mask, bestMask>>
vars == <<input, stage, version, division, drawing, picture>>

Path == DataPath(version)
Data == DataCodewords(text, version, ecc)
Degree == EccCodewordsPerBlock[ecc][version]
Zeros == [i \in 1 .. Degree |-> {}]

-----------------------------------------------------------------------------
Init ==
    /\ text \in Texts
    /\ ecc \in Eccs
    /\ stage = "text"
    /\ version = 0
    /\ divisor = <<>> /\ root = [value |-> {0}, rounds |-> 0]
    /\ blocks = <<>> /\ rem = <<>> /\ used = 0
    /\ dark = {}
    /\ mask = 0 /\ bestMask = 0
    /\ picture = [width |-> 0, dark |-> {}]

ChooseVersion ==
    /\ stage = "text"
    /\ version' = MinimumVersion(text, ecc)
    /\ stage' = IF version' < 0 THEN "invalid" ELSE "version"
    /\ UNCHANGED <<input, division, drawing, picture>>

\* reedSolomonDivisor() begins: result[degree - 1] = 1.
StartDivisor ==
    /\ stage = "version" /\ version <= MaxDrawn
    /\ stage' = "divisor"
    /\ divisor' = [Zeros EXCEPT ![Degree] = {0}]
    /\ UNCHANGED <<input, version, root, blocks, rem, used, drawing, picture>>

DivideRound ==
    /\ stage = "divisor"
    /\ root.rounds < Degree
    /\ divisor' = DivisorRound(divisor, root.value)
    /\ root' = [value |-> GfMultiply(root.value, {1}), rounds |-> root.rounds + 1]
    /\ UNCHANGED <<input, stage, version, blocks, rem, used, drawing, picture>>

StartBlocks ==
    /\ stage = "divisor"
    /\ root.rounds = Degree
    /\ stage' = "blocks"
    /\ rem' = Zeros
    /\ UNCHANGED <<input, version, divisor, root, blocks, used, drawing, picture>>

\* The block being divided, and its data.
Current == Len(blocks) + 1
CurrentData ==
    SubSeq(Data, BlockStart(version, ecc, Current) + 1,
           BlockStart(version, ecc, Current) + BlockData(version, ecc, Current))

ReadByte ==
    /\ stage = "blocks" /\ Current <= NumErrorCorrectionBlocks[ecc][version]
    /\ used < Len(CurrentData)
    /\ rem' = RemainderByte(rem, CurrentData[used + 1], divisor)
    /\ used' = used + 1
    /\ UNCHANGED <<input, stage, version, divisor, root, blocks, drawing, picture>>

\* A short block gets a byte of padding, "to equalise interleaving columns".
EndBlock ==
    /\ stage = "blocks" /\ Current <= NumErrorCorrectionBlocks[ecc][version]
    /\ used = Len(CurrentData)
    /\ blocks' = Append(blocks, CurrentData
                    \o (IF Current <= NumShortBlocks(version, ecc) THEN <<{}>> ELSE <<>>) \o rem)
    /\ rem' = Zeros
    /\ used' = 0
    /\ UNCHANGED <<input, stage, version, divisor, root, drawing, picture>>

\* draw(): function patterns and codewords.
Draw ==
    /\ stage = "blocks" /\ Current > NumErrorCorrectionBlocks[ecc][version]
    /\ stage' = "masks"
    /\ dark' = DrawCodewords(FunctionPatterns(version, ecc), Path,
                             Interleave(blocks, version, ecc))
    /\ UNCHANGED <<input, version, division, mask, bestMask, picture>>

\* What a trial leaves behind, and a variant that does not take the mask back.
AfterTrialMasked(s) == ApplyMask(DrawFormatBits(s, version, ecc, mask), Path, mask)

AfterTrial(s) ==
    LET path == Path
    IN ApplyMask(ApplyMask(DrawFormatBits(s, version, ecc, mask), path, mask), path, mask)

\* One round of selectMask().
TryMask ==
    /\ stage = "masks" /\ mask < 8
    /\ dark' = AfterTrial(dark)
    /\ bestMask' \in IF mask = 0 THEN {0} ELSE {bestMask, mask}
    /\ mask' = mask + 1
    /\ UNCHANGED <<input, stage, version, division, picture>>

UseBestMask ==
    /\ stage = "masks" /\ mask = 8
    /\ stage' = "done"
    /\ dark' = ApplyMask(DrawFormatBits(dark, version, ecc, bestMask), Path, bestMask)
    /\ UNCHANGED <<input, version, division, mask, bestMask, picture>>

-----------------------------------------------------------------------------
(* QrGenerator.                                                            *)

QuietZone == 4
Dim == Size(version) + 2 * QuietZone

\* QrCode::module(), over the symbol.
Modules == dark \cap Points(version)

\* renderImage(): one pixel per module, scaled by a whole number.
RenderImage(target) ==
    LET side == Max({1, target \div Dim})
    IN [width |-> Dim * side,
        dark |-> {p \in Grid(Dim * side) : <<p[1] \div side - QuietZone, p[2] \div side - QuietZone>> \in Modules}]

\* The path of generateSvg(): in each row, every run of dark modules.
Runs ==
    {<<p[1], p[2], Min({k \in 1 .. Size(version) : <<p[1] + k, p[2]>> \notin Modules})>> :
        p \in {q \in Modules : <<q[1] - 1, q[2]>> \notin Modules}}

GenerateSvg ==
    [width |-> Dim,
     dark |-> UNION {(r[1] .. r[1] + r[3] - 1) \X {r[2]} :
                        r \in {<<run[1] + QuietZone, run[2] + QuietZone, run[3]>> : run \in Runs}}]

Picture ==
    /\ stage = "done"
    /\ stage' = "picture"
    /\ \/ \E target \in TargetSizes : picture' = RenderImage(target)
       \/ picture' = GenerateSvg
    /\ UNCHANGED <<input, version, division, drawing>>

Next ==
    \/ ChooseVersion
    \/ StartDivisor
    \/ DivideRound
    \/ StartBlocks
    \/ ReadByte
    \/ EndBlock
    \/ Draw
    \/ TryMask
    \/ UseBestMask
    \/ Picture

Spec == Init /\ [][Next]_vars

-----------------------------------------------------------------------------
(* A reader.                                                               *)

Powers(n) == LET a[i \in 0 .. n] == IF i = 0 THEN {0} ELSE TimesX(a[i - 1], 8, {8, 4, 3, 2, 0}) IN a[n]

\* The value of a polynomial, the highest coefficient first.
ValueAt(poly, x) ==
    LET h[i \in 0 .. Len(poly)] == IF i = 0 THEN {} ELSE Xor(GfMultiply(h[i - 1], x), poly[i])
    IN h[Len(poly)]

Vanishes(poly, degree) ==
    \A x \in {Powers(i) : i \in 0 .. degree - 1} : ValueAt(poly, x) = {}

\* The fifteen bits beside the upper left finder name the level and the mask.
ReadFormat(s) ==
    LET bits == {i \in 0 .. 14 : FirstCopy(i) \in s}
    IN {em \in Eccs \X (0 .. 7) : bits = FormatBits(em[1], em[2])}

\* The codewords of a symbol: the data, block by block.
ReadCodewords(s, v, level, m) ==
    LET path == DataPath(v)
        plain == ApplyMask(s, path, m)
        codeword(i) == {b \in 0 .. 7 : path[8 * i - b] \in plain}
        n == NumErrorCorrectionBlocks[level][v]
        total == RawCodewords(v) - n * EccCodewordsPerBlock[level][v]
        short == total \div n
        long == total % n
        place(b, p) == IF p <= short THEN (p - 1) * n + b ELSE short * n + b - (n - long)
        cell(k) == IF k <= (n - long) * short
                   THEN <<((k - 1) \div short) + 1, ((k - 1) % short) + 1>>
                   ELSE LET j == k - (n - long) * short - 1
                        IN <<n - long + 1 + (j \div (short + 1)), (j % (short + 1)) + 1>>
    IN [k \in 1 .. total |-> codeword(place(cell(k)[1], cell(k)[2]))]

\* The bits of the count behind a mode indicator, by the standard's table.
CountField(indicator, v) ==
    LET range == CHOOSE k \in 1 .. 3 : v \in <<1 .. 9, 10 .. 26, 27 .. 40>>[k]
    IN CASE indicator = 1 -> 8 + 2 * range
         [] indicator = 2 -> 7 + 2 * range
         [] indicator = 4 -> IF range = 1 THEN 8 ELSE 16

\* The text of a stream of codewords.
ReadText(data, v) ==
    LET bit(k) ==
            IF k <= 8 * Len(data) /\ 7 - ((k - 1) % 8) \in data[((k - 1) \div 8) + 1] THEN 1 ELSE 0
        number(from, length) ==
            LET sum[i \in 0 .. length] == IF i = 0 THEN 0 ELSE 2 * sum[i - 1] + bit(from + i - 1) IN sum[length]
        header == CountField(number(1, 4), v)
        n == number(5, header)
        start == 5 + header
        digit(i) ==
            LET group == (i - 1) \div 3
                size == Min({3, n - 3 * group})
            IN 48 + ((number(start + 10 * group, 3 * size + 1) \div 10 ^ (size - 1 - ((i - 1) % 3))) % 10)
        sign(i) ==
            LET pair == number(start + 11 * ((i - 1) \div 2), 11)
            IN Charset[1 + ((IF i = n /\ n % 2 = 1 THEN number(start + 11 * (n \div 2), 6)
                             ELSE IF i % 2 = 1 THEN pair \div 45 ELSE pair) % 45)]
        byte(i) == number(start + 8 * (i - 1), 8)
        leads == SelectSeq([i \in 1 .. n |-> i], LAMBDA i : byte(i) \notin 128 .. 191)
        char(i) == IF byte(i) < 128 THEN byte(i) ELSE (byte(i) - 192) * 64 + byte(i + 1) - 128
    IN CASE number(1, 4) = 1 -> [i \in 1 .. n |-> digit(i)]
         [] number(1, 4) = 2 -> [i \in 1 .. n |-> sign(i)]
         [] number(1, 4) = 4 -> [i \in DOMAIN leads |-> char(leads[i])]
         [] OTHER -> <<0>>      \* unreadable

\* The modules of a picture, each by the point in its middle.
Sampled(p, side) ==
    {m \in Grid(p.width \div side) : <<m[1] * side + side \div 2, m[2] * side + side \div 2>> \in p.dark}

Read(s, v) ==
    {ReadText(data, v) : data \in {ReadCodewords(s, v, em[1], em[2]) : em \in ReadFormat(s)}}

-----------------------------------------------------------------------------
\* What version a symbol has: one of the forty, and no larger than are drawn.
VersionFits ==
    /\ stage \in {"text", "version", "divisor", "blocks", "masks", "done", "picture", "invalid"}
    /\ stage \notin {"text", "invalid"} => version \in Versions
    /\ stage \notin {"text", "invalid", "version"} => version <= MaxDrawn

\* The symbol before a mask is tried.
Drawn ==
    DrawCodewords(FunctionPatterns(version, ecc), Path, Interleave(blocks, version, ecc))

\* Between two trials of selectMask() the symbol is what draw() left, but for the
\* format of the last mask tried; when it is done, the format and the one mask
\* that has won are all that was added. No trial leaves anything else behind.
TrialsLeaveNoTrace ==
    /\ ecc \in Eccs /\ mask \in 0 .. 8 /\ bestMask \in 0 .. 7
    /\ stage \in {"text", "version", "divisor", "blocks"} => mask = 0
    /\ stage = "masks" =>
          dark = IF mask = 0 THEN Drawn ELSE DrawFormatBits(Drawn, version, ecc, mask - 1)
    /\ stage \in {"done", "picture"} =>
          dark = ApplyMask(DrawFormatBits(Drawn, version, ecc, bestMask), Path, bestMask)

\* In a picture, image or SVG, a reader finds the modules of the symbol and no
\* others, all of one size, and four of them light on every side.
PictureShowsSymbol ==
    stage = "picture" => \E side \in 1 .. picture.width :
        /\ picture.width = Dim * side
        /\ Sampled(picture, side) = {<<m[1] + QuietZone, m[2] + QuietZone>> : m \in Modules}

\* The invariant that the steps keep.
IInv == VersionFits /\ TrialsLeaveNoTrace /\ PictureShowsSymbol

\* A symbol says what was encoded, whatever mask has won and whatever the trials
\* of the others left behind: of a "standards-compliant QR Code encoder"
\* (qrencoder.h:52), any reader reads every symbol; and so it is with a picture.
ReadsBack ==
    /\ stage = "done" => dark \subseteq Points(version) /\ Read(dark, version) = {text}
    /\ PictureShowsSymbol

\* The division keeps its promise in every round: the divisor so far vanishes at
\* the roots so far, and the bytes read so far with their remainder are a
\* codeword; so every block is one, which is what lets a reader repair it.
BlocksAreCodewords ==
    /\ stage = "divisor" =>
          LET poly == IF root.rounds = Degree THEN <<{0}>> \o divisor ELSE divisor
          IN Vanishes(poly, root.rounds)
    /\ stage = "blocks" /\ used > 0 => Vanishes(SubSeq(CurrentData, 1, used) \o rem, Degree)

\* The version chosen is the one the capacity read-out promises for a text of so
\* many bytes.
VersionAsPromised ==
    stage = "version" /\ DetectMode(text) = Byte =>
        /\ Len(Utf8(text)) <= ByteModeCapacity(version, ecc)
        /\ version > 1 => Len(Utf8(text)) > ByteModeCapacity(version - 1, ecc)

\* At every version the count is as wide as a reader takes it to be, in each mode, and
\* the count of the text is not wider.
CountsAgree ==
    stage = "version" =>
        /\ \A m \in {<<Numeric, 1>>, <<Alphanumeric, 2>>, <<Byte, 4>>} :
              CharCountBits(m[1], version) = CountField(m[2], version)
        /\ CharCount(text, DetectMode(text)) < 2 ^ CharCountBits(DetectMode(text), version)

=============================================================================
