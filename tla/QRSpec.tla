------------------------------- MODULE QRSpec -------------------------------
(***************************************************************************)
(* The tables of libqrencode (qrspec.c for QR, mqrspec.c for Micro QR) and *)
(* the operators that read them: how many codewords a version holds, how   *)
(* they are cut into Reed-Solomon blocks, how long a length indicator is,  *)
(* which cells of an empty symbol belong to function patterns.             *)
(*                                                                         *)
(* A byte of a frame is abstracted to its bit 0 (dark); its bit 7 (function*)
(* pattern) is membership in the domain of the frame, so that an absent    *)
(* cell is a free one.  A cell is <<x, y>>.                                *)
(***************************************************************************)
EXTENDS Integers, Sequences, FiniteSets, FiniteSetsExt

Levels      == {"L", "M", "Q", "H"}
Splittable  == {"num", "an", "byte", "kanji"}
Modes       == Splittable \union {"structure", "eci", "fnc1first", "fnc1second"}
VersionMax  == 40
MVersionMax == 4
Versions    == 1..VersionMax
MVersions   == 1..MVersionMax

Xor(a, b) == (a \ b) \union (b \ a)   \* words are the sets of their one bits

(***************************************************************************)
(* Version and capacity.                                                   *)
(***************************************************************************)
LevelIndex(level) == CASE level = "L" -> 1 [] level = "M" -> 2
                       [] level = "Q" -> 3 [] level = "H" -> 4

capacityWords ==
  <<26, 44, 70, 100, 134, 172, 196, 242, 292, 346, 404, 466, 532, 581, 655,
    733, 815, 901, 991, 1085, 1156, 1258, 1364, 1474, 1588, 1706, 1828, 1921,
    2051, 2185, 2323, 2465, 2611, 2761, 2876, 3034, 3196, 3362, 3532, 3706>>

capacityEcc ==
  <<<<7, 10, 13, 17>>, <<10, 16, 22, 28>>, <<15, 26, 36, 44>>, <<20, 36, 52, 64>>,
    <<26, 48, 72, 88>>, <<36, 64, 96, 112>>, <<40, 72, 108, 130>>, <<48, 88, 132, 156>>,
    <<60, 110, 160, 192>>, <<72, 130, 192, 224>>, <<80, 150, 224, 264>>,
    <<96, 176, 260, 308>>, <<104, 198, 288, 352>>, <<120, 216, 320, 384>>,
    <<132, 240, 360, 432>>, <<144, 280, 408, 480>>, <<168, 308, 448, 532>>,
    <<180, 338, 504, 588>>, <<196, 364, 546, 650>>, <<224, 416, 600, 700>>,
    <<224, 442, 644, 750>>, <<252, 476, 690, 816>>, <<270, 504, 750, 900>>,
    <<300, 560, 810, 960>>, <<312, 588, 870, 1050>>, <<336, 644, 952, 1110>>,
    <<360, 700, 1020, 1200>>, <<390, 728, 1050, 1260>>, <<420, 784, 1140, 1350>>,
    <<450, 812, 1200, 1440>>, <<480, 868, 1290, 1530>>, <<510, 924, 1350, 1620>>,
    <<540, 980, 1440, 1710>>, <<570, 1036, 1530, 1800>>, <<570, 1064, 1590, 1890>>,
    <<600, 1120, 1680, 1980>>, <<630, 1204, 1770, 2100>>, <<660, 1260, 1860, 2220>>,
    <<720, 1316, 1950, 2310>>, <<750, 1372, 2040, 2430>>>>

Width(version) == 17 + 4 * version

Remainder(version) == CASE version \in 2..6                 -> 7
                        [] version \in 14..20 \union 28..34 -> 3
                        [] version \in 21..27               -> 4
                        [] OTHER                            -> 0

ECCLength(version, level)  == capacityEcc[version][LevelIndex(level)]
DataLength(version, level) == capacityWords[version] - ECCLength(version, level)

\* A version that is filled to the last byte is passed over.
MinimumVersion_Strict(size, level) ==
  LET fits == {v \in Versions : DataLength(v, level) > size}
  IN  IF fits = {} THEN -1 ELSE Min(fits)

\* QRspec_getMinimumVersion: the first version that holds size bytes, or -1.
MinimumVersion(size, level) ==
  LET fits == {v \in Versions : DataLength(v, level) >= size}
  IN  IF fits = {} THEN -1 ELSE Min(fits)

(***************************************************************************)
(* Length indicators.                                                      *)
(***************************************************************************)
lengthTableBits == [num |-> <<10, 12, 14>>, an    |-> <<9, 11, 13>>,
                    byte |-> <<8, 16, 16>>,  kanji |-> <<8, 10, 12>>]

VersionRange(version) == IF version <= 9 THEN 1 ELSE IF version <= 26 THEN 2 ELSE 3

LengthIndicator(mode, version) ==
  IF mode \in Splittable THEN lengthTableBits[mode][VersionRange(version)] ELSE 0

\* The most an entry may hold, in bytes: a kanji counts for two.
MaximumWords(mode, version) ==
  IF mode \in Splittable
  THEN (2 ^ LengthIndicator(mode, version) - 1) * (IF mode = "kanji" THEN 2 ELSE 1)
  ELSE 0

(***************************************************************************)
(* Reed-Solomon blocks: eccTable gives for each version and level the      *)
(* number of blocks of the short and of the long kind.                     *)
(***************************************************************************)
eccTable ==
  <<<<<<1,0>>,<<1,0>>,<<1,0>>,<<1,0>>>>, <<<<1,0>>,<<1,0>>,<<1,0>>,<<1,0>>>>,
    <<<<1,0>>,<<1,0>>,<<2,0>>,<<2,0>>>>, <<<<1,0>>,<<2,0>>,<<2,0>>,<<4,0>>>>,
    <<<<1,0>>,<<2,0>>,<<2,2>>,<<2,2>>>>, <<<<2,0>>,<<4,0>>,<<4,0>>,<<4,0>>>>,
    <<<<2,0>>,<<4,0>>,<<2,4>>,<<4,1>>>>, <<<<2,0>>,<<2,2>>,<<4,2>>,<<4,2>>>>,
    <<<<2,0>>,<<3,2>>,<<4,4>>,<<4,4>>>>, <<<<2,2>>,<<4,1>>,<<6,2>>,<<6,2>>>>,
    <<<<4,0>>,<<1,4>>,<<4,4>>,<<3,8>>>>, <<<<2,2>>,<<6,2>>,<<4,6>>,<<7,4>>>>,
    <<<<4,0>>,<<8,1>>,<<8,4>>,<<12,4>>>>, <<<<3,1>>,<<4,5>>,<<11,5>>,<<11,5>>>>,
    <<<<5,1>>,<<5,5>>,<<5,7>>,<<11,7>>>>, <<<<5,1>>,<<7,3>>,<<15,2>>,<<3,13>>>>,
    <<<<1,5>>,<<10,1>>,<<1,15>>,<<2,17>>>>, <<<<5,1>>,<<9,4>>,<<17,1>>,<<2,19>>>>,
    <<<<3,4>>,<<3,11>>,<<17,4>>,<<9,16>>>>, <<<<3,5>>,<<3,13>>,<<15,5>>,<<15,10>>>>,
    <<<<4,4>>,<<17,0>>,<<17,6>>,<<19,6>>>>, <<<<2,7>>,<<17,0>>,<<7,16>>,<<34,0>>>>,
    <<<<4,5>>,<<4,14>>,<<11,14>>,<<16,14>>>>, <<<<6,4>>,<<6,14>>,<<11,16>>,<<30,2>>>>,
    <<<<8,4>>,<<8,13>>,<<7,22>>,<<22,13>>>>, <<<<10,2>>,<<19,4>>,<<28,6>>,<<33,4>>>>,
    <<<<8,4>>,<<22,3>>,<<8,26>>,<<12,28>>>>, <<<<3,10>>,<<3,23>>,<<4,31>>,<<11,31>>>>,
    <<<<7,7>>,<<21,7>>,<<1,37>>,<<19,26>>>>, <<<<5,10>>,<<19,10>>,<<15,25>>,<<23,25>>>>,
    <<<<13,3>>,<<2,29>>,<<42,1>>,<<23,28>>>>, <<<<17,0>>,<<10,23>>,<<10,35>>,<<19,35>>>>,
    <<<<17,1>>,<<14,21>>,<<29,19>>,<<11,46>>>>, <<<<13,6>>,<<14,23>>,<<44,7>>,<<59,1>>>>,
    <<<<12,7>>,<<12,26>>,<<39,14>>,<<22,41>>>>, <<<<6,14>>,<<6,34>>,<<46,10>>,<<2,64>>>>,
    <<<<17,4>>,<<29,14>>,<<49,10>>,<<24,46>>>>, <<<<4,18>>,<<13,32>>,<<48,14>>,<<42,32>>>>,
    <<<<20,4>>,<<40,7>>,<<43,22>>,<<10,67>>>>, <<<<19,6>>,<<18,31>>,<<34,34>>,<<20,61>>>>>>

\* QRspec_getEccSpec: b1 blocks of d1 data bytes, b2 of d2, e ECC bytes in each.
EccSpec(version, level) ==
  LET b == eccTable[version][LevelIndex(level)]
      n == b[1] + b[2]
      d == DataLength(version, level) \div n
  IN  [b1 |-> b[1], d1 |-> d, e |-> ECCLength(version, level) \div n,
       b2 |-> b[2], d2 |-> IF b[2] = 0 THEN 0 ELSE d + 1]

(***************************************************************************)
(* Version and format information: 18 and 15 bit words, as sets of bits.   *)
(***************************************************************************)
Word(n) == {i \in 0..17 : (n \div 2 ^ i) % 2 = 1}

versionPattern ==
  <<31892, 34236, 39577, 42195, 48118, 51042, 55367, 58893, 63784, 68472, 70749,
    76311, 79154, 84390, 87683, 92361, 96236, 102084, 102881, 110507, 110734,
    117786, 119615, 126325, 127568, 133589, 136944, 141498, 145311, 150283,
    152622, 158308, 161089, 167017>>

VersionPattern(version) == IF version < 7 THEN {} ELSE Word(versionPattern[version - 6])

formatInfo ==
  [L |-> <<30660, 29427, 32170, 30877, 26159, 25368, 27713, 26998>>,
   M |-> <<21522, 20773, 24188, 23371, 17913, 16590, 20375, 19104>>,
   Q |-> <<13663, 12392, 16177, 14854, 9396, 8579, 11994, 11245>>,
   H |-> <<5769, 5054, 7399, 6608, 1890, 597, 3340, 2107>>]

FormatInfo(mask, level) == Word(formatInfo[level][mask + 1])

(***************************************************************************)
(* The frame of a QR symbol.                                               *)
(***************************************************************************)
Block(x, y, w, h) == (x..(x + w - 1)) \X (y..(y + h - 1))
Cells(width)      == Block(0, 0, width, width)
Uniform(cells, dark) == [c \in cells |-> dark]
Dist(a, b)        == Max({a - b, b - a})
\* The number of the square ring around centre that c is on.
Ring(centre, c)   == Max({Dist(c[1], centre[1]), Dist(c[2], centre[2])})

\* What f and g draw together, f over g.
f ++ g == [c \in DOMAIN f \union DOMAIN g |-> IF c \in DOMAIN f THEN f[c] ELSE g[c]]

FinderPattern(ox, oy) == [c \in Block(ox, oy, 7, 7) |-> Ring(<<ox + 3, oy + 3>>, c) # 2]

alignmentPattern ==
  <<<<0,0>>, <<18,0>>, <<22,0>>, <<26,0>>, <<30,0>>, <<34,0>>, <<22,38>>, <<24,42>>,
    <<26,46>>, <<28,50>>, <<30,54>>, <<32,58>>, <<34,62>>, <<26,46>>, <<26,48>>,
    <<26,50>>, <<30,54>>, <<30,56>>, <<30,58>>, <<34,62>>, <<28,50>>, <<26,50>>,
    <<30,54>>, <<28,54>>, <<32,58>>, <<30,58>>, <<34,62>>, <<26,50>>, <<30,54>>,
    <<26,52>>, <<30,56>>, <<34,60>>, <<30,58>>, <<34,62>>, <<30,54>>, <<24,50>>,
    <<28,54>>, <<32,58>>, <<26,54>>, <<30,58>>>>

\* QRspec_putAlignmentPattern: where the markers are centred.
AlignmentCentres(version) ==
  LET first == alignmentPattern[version][1]
      d     == alignmentPattern[version][2] - first
      w     == IF d < 0 THEN 2 ELSE (Width(version) - first) \div d + 2
      at(i) == first + i * d
  IN  CASE version < 2 -> {}
        [] version >= 2 /\ w = 2 -> {<<first, first>>}
        [] OTHER -> {<<6, at(i)>> : i \in 0..(w - 3)} \union
                    {<<at(i), 6>> : i \in 0..(w - 3)} \union
                    {<<at(i), at(j)>> : i, j \in 0..(w - 2)}

AlignmentPattern(version) ==
  LET centres == AlignmentCentres(version)
  IN  [c \in UNION {Block(a[1] - 2, a[2] - 2, 5, 5) : a \in centres} |->
         \E a \in centres : Ring(a, c) \in {0, 2}]

TimingPattern(first, last, line) ==
  [c \in (Block(first, line, last - first + 1, 1) \union
          Block(line, first, 1, last - first + 1)) |-> (c[1] + c[2] - line) % 2 = 0]

\* Bit 3x + y is at column x of the lower block and at row x of the right one.
VersionArea(version) ==
  LET w == Width(version)
  IN  IF version < 7 THEN << >>
      ELSE [c \in Block(0, w - 11, 6, 3) |->
              3 * c[1] + (c[2] - (w - 11)) \in VersionPattern(version)]
           ++ [c \in Block(w - 11, 0, 3, 6) |->
                 3 * c[2] + (c[1] - (w - 11)) \in VersionPattern(version)]

Separator(w) == Uniform(Block(7, 0, 1, 8) \union Block(0, 7, 8, 1) \union
                     Block(w - 8, 0, 1, 8) \union Block(w - 8, 7, 8, 1) \union
                     Block(7, w - 8, 1, 8) \union Block(0, w - 8, 8, 1), FALSE)

FormatArea(w) == Uniform(Block(0, 8, 9, 1) \union Block(w - 8, 8, 8, 1) \union
                      Block(8, 0, 1, 8) \union Block(8, w - 7, 1, 7), FALSE)

\* QRspec_createFrame writes the patterns from the last of these lines to the first.
Frame(version) ==
  LET w == Width(version)
  IN  Uniform({<<8, w - 8>>}, TRUE)
      ++ VersionArea(version)
      ++ AlignmentPattern(version)
      ++ TimingPattern(8, w - 9, 6)
      ++ FormatArea(w)
      ++ Separator(w)
      ++ FinderPattern(0, 0) ++ FinderPattern(w - 7, 0) ++ FinderPattern(0, w - 7)

(***************************************************************************)
(* Micro QR (mqrspec.c).                                                   *)
(***************************************************************************)
MWidth(version) == 9 + 2 * version

mqrspecEcc == <<<<2, 0, 0, 0>>, <<5, 6, 0, 0>>, <<6, 8, 0, 0>>, <<8, 10, 14, 0>>>>

MECCLength(version, level) == mqrspecEcc[version][LevelIndex(level)]

MDataLengthBit(version, level) ==
  LET w == MWidth(version) - 1 IN
  IF MECCLength(version, level) = 0 THEN 0 ELSE w * w - 64 - MECCLength(version, level) * 8

\* Versions 1 and 3 end with a codeword of four bits.
MDataLength(version, level) == (MDataLengthBit(version, level) + 4) \div 8

mlengthTableBits == [num |-> <<3, 4, 5, 6>>, an    |-> <<0, 3, 4, 5>>,
                     byte |-> <<0, 0, 4, 5>>, kanji |-> <<0, 0, 3, 4>>]

MLengthIndicator(mode, version) == mlengthTableBits[mode][version]

mformatInfo ==
  <<<<17477, 21934, 26515, 30328, 1758, 5941, 9480, 13539>>,
    <<16754, 20633, 25252, 29519, 1001, 4610, 8255, 12756>>,
    <<20011, 24512, 28157, 31766, 3248, 7515, 12134, 16013>>,
    <<19228, 23287, 26826, 31009, 2439, 6252, 10833, 15290>>>>

typeTable == <<<<0, -1, -1>>, <<1, 2, -1>>, <<3, 4, -1>>, <<5, 6, 7>>>>

MFormatInfo(mask, version, level) ==
  LET type == IF level = "H" THEN -1 ELSE typeTable[version][LevelIndex(level)]
  IN  IF type < 0 THEN {} ELSE Word(mformatInfo[mask + 1][type + 1])

MFormatArea == Uniform(Block(1, 8, 8, 1) \union Block(8, 1, 1, 7), FALSE)

\* MQRspec_createFrame.
MFrame(version) ==
  LET w == MWidth(version)
  IN  TimingPattern(8, w - 1, 0)
      ++ MFormatArea
      ++ Uniform(Block(7, 0, 1, 8) \union Block(0, 7, 8, 1), FALSE)
      ++ FinderPattern(0, 0)
=============================================================================
