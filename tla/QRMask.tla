------------------------------- MODULE QRMask -------------------------------
(***************************************************************************)
(* Masking (mask.c for QR, mmask.c for Micro QR).  A symbol of side w is   *)
(* the set of its dark cells; fn is the set of its function cells, which a *)
(* mask leaves alone.                                                      *)
(***************************************************************************)
EXTENDS Integers, Sequences, FiniteSets, QRSpec

Masks  == 0..7
MMasks == 0..3

\* The cells a mask inverts: where the expression given to MASKMAKER is zero.
MaskBit(mask, c) ==
  LET x == c[1]
      y == c[2]
  IN  CASE mask = 0 -> (x + y) % 2 = 0
        [] mask = 1 -> y % 2 = 0
        [] mask = 2 -> x % 3 = 0
        [] mask = 3 -> (x + y) % 3 = 0
        [] mask = 4 -> ((y \div 2) + (x \div 3)) % 2 = 0
        [] mask = 5 -> ((x * y) % 2) + ((x * y) % 3) = 0
        [] mask = 6 -> (((x * y) % 2) + ((x * y) % 3)) % 2 = 0
        [] mask = 7 -> (((x * y) % 3) + ((x + y) % 2)) % 2 = 0

MMaskBit(mask, c) == MaskBit(<<1, 4, 6, 7>>[mask + 1], c)

Apply(inverted, fn, symbol, w) ==
  {c \in Cells(w) : IF c \in fn THEN c \in symbol ELSE (c \in symbol) # (c \in inverted)}

\* The second copy runs over the timing pattern.
FormatCells_OverTiming(w, i) ==
  LET k == i - 8 IN
  IF i < 8 THEN <<<<w - 1 - i, 8>>, <<8, i>>>>
           ELSE <<<<8, w - 7 + k>>, <<IF k = 0 THEN 7 ELSE 6 - k, 8>>>>

(***************************************************************************)
(* Format information: bit i of the word goes to two cells (one in Micro   *)
(* QR).                                                                    *)
(***************************************************************************)
FormatCells(w, i) ==
  LET k == i - 8 IN
  IF i < 8 THEN <<<<w - 1 - i, 8>>, <<8, IF i < 6 THEN i ELSE i + 1>>>>
           ELSE <<<<8, w - 7 + k>>, <<IF k = 0 THEN 7 ELSE 6 - k, 8>>>>

MFormatCells(w, i) == IF i < 8 THEN <<<<8, i + 1>>>> ELSE <<<<15 - i, 8>>>>

\* cells[i] are the copies of bit i.
WriteFormat(symbol, cells, word) ==
  LET copies(bits) == UNION {{cells[i][n] : n \in DOMAIN cells[i]} : i \in bits}
  IN  (symbol \ copies(0..14)) \union copies(word)

\* Mask_makeMask and MMask_makeMask.
MakeMask(version, fn, symbol, mask, level) ==
  LET w == Width(version)
  IN  WriteFormat(Apply({c \in Cells(w) : MaskBit(mask, c)}, fn, symbol, w),
                  [i \in 0..14 |-> FormatCells(w, i)], FormatInfo(mask, level))

MMakeMask(version, fn, symbol, mask, level) ==
  LET w == MWidth(version)
  IN  WriteFormat(Apply({c \in Cells(w) : MMaskBit(mask, c)}, fn, symbol, w),
                  [i \in 0..14 |-> MFormatCells(w, i)], MFormatInfo(mask, version, level))

(***************************************************************************)
(* Demerits.                                                               *)
(***************************************************************************)
N1 == 3
N2 == 3
N3 == 40
N4 == 10

\* Mask_calcRunLength: the lengths of the runs of a line; the light ones have
\* the odd places, and a line that starts dark gets a run of -1 before it.
RunLengths(line) ==
  LET w      == Len(line)
      starts == Append(SelectSeq([i \in 1..w |-> i],
                                 LAMBDA i : i = 1 \/ line[i] # line[i - 1]), w + 1)
  IN  (IF line[1] THEN <<-1>> ELSE << >>)
      \o [k \in 1..(Len(starts) - 1) |-> starts[k + 1] - starts[k]]

\* The border after the symbol is not taken for light.
LikeFinder_NoQuietZone(run, i) ==
  LET fact == run[i] \div 3 IN
  /\ i % 2 = 0 /\ i >= 4 /\ i < Len(run) - 1 /\ run[i] % 3 = 0
  /\ \A j \in {i - 2, i - 1, i + 1, i + 2} : run[j] = fact
  /\ \/ i = 4 \/ run[i - 3] >= 4 * fact
     \/ i + 3 <= Len(run) /\ run[i + 3] >= 4 * fact

\* A run of three units among four of one, with four light units beside it.
LikeFinder(run, i) ==
  LET fact == run[i] \div 3 IN
  /\ i % 2 = 0 /\ i >= 4 /\ i < Len(run) - 1 /\ run[i] % 3 = 0
  /\ \A j \in {i - 2, i - 1, i + 1, i + 2} : run[j] = fact
  /\ \/ i = 4 \/ run[i - 3] >= 4 * fact
     \/ i + 3 >= Len(run) \/ run[i + 3] >= 4 * fact

CalcN1N3(run) ==
  MapThenSumSet(LAMBDA i : IF run[i] >= 5 THEN N1 + run[i] - 5 ELSE 0, DOMAIN run)
  + N3 * Cardinality({i \in DOMAIN run : LikeFinder(run, i)})

CalcN2(w, symbol) ==
  N2 * Cardinality({c \in Block(1, 1, w - 1, w - 1) :
         LET square == Block(c[1] - 1, c[2] - 1, 2, 2)
         IN  square \subseteq symbol \/ square \intersect symbol = {}})

Row(w, symbol, y)    == [x \in 1..w |-> <<x - 1, y>> \in symbol]
Column(w, symbol, x) == [y \in 1..w |-> <<x, y - 1>> \in symbol]
Line(w, symbol, i)   == IF i <= w THEN Row(w, symbol, i - 1) ELSE Column(w, symbol, i - w - 1)

EvaluateSymbol(w, symbol) ==
  CalcN2(w, symbol)
  + MapThenSumSet(LAMBDA i : CalcN1N3(RunLengths(Line(w, symbol, i))), 1..(2 * w))

\* Mask_mask: the demerit of a masked symbol.
Demerit(w, symbol) ==
  LET blacks == Cardinality(symbol)
      w2     == w * w
      bratio == ((200 * blacks + w2) \div w2) \div 2
  IN  (Dist(bratio, 50) \div 5) * N4 + EvaluateSymbol(w, symbol)

\* MMask_evaluateSymbol: the dark cells of the two sides without a pattern.
Score(w, symbol) ==
  LET sum1 == Cardinality({x \in 1..(w - 1) : <<x, w - 1>> \in symbol})
      sum2 == Cardinality({y \in 1..(w - 1) : <<w - 1, y>> \in symbol})
  IN  IF sum1 <= sum2 THEN sum1 * 16 + sum2 ELSE sum2 * 16 + sum1
=============================================================================
