--------------------------- MODULE QRSymbolProofs ---------------------------
(***************************************************************************)
(* Five theorems about every symbol there is. ReadingOrder: whatever the   *)
(* function cells are, the frame filler takes the cells in the order of a  *)
(* reader, each once. BlocksEncoded: whatever the data, every block that   *)
(* the Reed-Solomon encoder makes is a word of the code. BitsAllLaid: when *)
(* the last bit is laid no cell of the frame is free, and every bit of     *)
(* every codeword has been laid. AlwaysMade: no step gives up.             *)
(* SymbolReadable: what is returned has every pattern a reader looks for   *)
(* and, under the mask it names, every bit.                                *)
(*                                                                         *)
(* They rest on facts that TLC evaluates for the field and the tables there*)
(* are: PrimitiveAssumption and GeneratorAssumption for the code, and      *)
(* FramesAssumption, that the frame of each version has as many free cells *)
(* as its capacity table has bits.  Words are judged by Horner's rule; a   *)
(* turn of the encoder adds a multiple of the generator to the word, moved *)
(* up by one place.                                                        *)
(***************************************************************************)
EXTENDS QRSymbol, FiniteSetTheorems, WellFoundedInduction, TLAPS

-----------------------------------------------------------------------------
(* The path of the frame filler.                                           *)

\* The column of a cell when the vertical timing pattern is no column.
Col(x, mqr) == IF ~mqr /\ x < 6 THEN x + 1 ELSE x

\* The filler is in pair q of columns (from the right), in the right column when
\* its bit is 0, and goes up in the even pairs.
On(f, w, mqr, q) ==
  /\ f.bit \in {0, 1} /\ f.y \in 0 .. w - 1 /\ f.x \in Nat
  /\ ~mqr => f.x # 6
  /\ Col(f.x, mqr) = w - 1 - 2 * q - f.bit
  /\ f.dir = IF q % 2 = 0 THEN -1 ELSE 1

\* Rows in the order they are read in.
Nth(f, w) == IF f.dir < 0 THEN w - 1 - f.y ELSE f.y

\* Quotient and remainder of a column's distance from the right.
LEMMA Halves2 ==
  ASSUME NEW q \in Nat, NEW b \in {0, 1}
  PROVE  (2 * q + b) \div 2 = q /\ (2 * q + b) % 2 = b
OBVIOUS

\* Pairs go up and down in turn.
LEMMA NextParity ==
  ASSUME NEW q \in Nat
  PROVE  ((q + 1) % 2 = 0) <=> (q % 2 # 0)
OBVIOUS

\* Every width is odd and leaves room for the timing column.
LEMMA WidthOf ==
  ASSUME KindsAssumption, kind \in Kinds
  PROVE  /\ kind.mqr \in BOOLEAN
         /\ SymbolWidth(kind) \in Nat
         /\ ~kind.mqr => SymbolWidth(kind) >= 21
         /\ SymbolWidth(kind) >= 11
         /\ \E h \in Nat : SymbolWidth(kind) = 2 * h + 1
<1>1. kind.mqr \in BOOLEAN /\ kind.version \in IF kind.mqr THEN MVersions ELSE Versions
  BY KindsAssumption
<1>2. CASE kind.mqr
  <2>1. kind.version \in 1 .. 4 /\ SymbolWidth(kind) = 9 + 2 * kind.version
    BY <1>1, <1>2 DEF SymbolWidth, MWidth, MVersions, MVersionMax
  <2>2. 4 + kind.version \in Nat /\ SymbolWidth(kind) = 2 * (4 + kind.version) + 1
    BY <2>1
  <2>3. QED
    BY <1>1, <1>2, <2>1, <2>2
<1>3. CASE ~kind.mqr
  <2>1. kind.version \in 1 .. 40 /\ SymbolWidth(kind) = 17 + 4 * kind.version
    BY <1>1, <1>3 DEF SymbolWidth, Width, Versions, VersionMax
  <2>2. 8 + 2 * kind.version \in Nat /\ SymbolWidth(kind) = 2 * (8 + 2 * kind.version) + 1
    BY <2>1
  <2>3. QED
    BY <1>1, <1>3, <2>1, <2>2
<1>4. QED
  BY <1>1, <1>2, <1>3

\* The rank of the cell the filler is on.
LEMMA RankOf ==
  ASSUME kind.mqr \in BOOLEAN, SymbolWidth(kind) \in Nat,
         NEW q \in Nat, NEW f, On(f, SymbolWidth(kind), kind.mqr, q)
  PROVE  ReadingRank(Cell(f)) = (q * SymbolWidth(kind) + Nth(f, SymbolWidth(kind))) * 2 + f.bit
<1> DEFINE w == SymbolWidth(kind)
           x == Col(f.x, kind.mqr)
<1>1. x \in Int /\ w - 1 - x = 2 * q + f.bit /\ f.bit \in {0, 1}
  BY DEF On, Col
<1>2. (w - 1 - x) \div 2 = q /\ (w - 1 - x) % 2 = f.bit
  BY <1>1, Halves2
<1>3. Cell(f)[1] = f.x /\ Cell(f)[2] = f.y
  BY DEF Cell
<1>4. ReadingRank(Cell(f)) =
        (((w - 1 - x) \div 2) * w
           + IF ((w - 1 - x) \div 2) % 2 = 0 THEN w - 1 - f.y ELSE f.y) * 2
        + ((w - 1 - x) % 2)
  BY <1>3 DEF ReadingRank, Col
<1>5. (IF q % 2 = 0 THEN w - 1 - f.y ELSE f.y) = Nth(f, w)
  BY DEF On, Nth
<1>6. QED
  BY <1>2, <1>4, <1>5

\* Where a turn leads from there: to the left cell of the row, to the next row of
\* the pair, or into the next pair.
LEMMA TurnOn ==
  ASSUME NEW w \in Nat, NEW h \in Nat, w = 2 * h + 1, NEW mqr \in BOOLEAN,
         w >= 11, ~mqr => w >= 21,
         NEW q \in Nat, NEW f, On(f, w, mqr, q),
         NEW g, g = Turn(f, w, mqr), g.x >= 0
  PROVE  \/ /\ On(g, w, mqr, q)
            /\ Nth(g, w) * 2 + g.bit > Nth(f, w) * 2 + f.bit
         \/ On(g, w, mqr, q + 1)
<1> DEFINE x1   == IF f.bit = 0 THEN f.x - 1 ELSE f.x + 1
           y1   == IF f.bit = 0 THEN f.y ELSE f.y + f.dir
           ends == (f.dir < 0 /\ y1 < 0) \/ (f.dir > 0 /\ y1 = w)
           x2   == IF ends THEN x1 - 2 ELSE x1
           skip == ends /\ ~mqr /\ x2 = 6
<1>1. /\ f.bit \in {0, 1} /\ f.y \in 0 .. w - 1 /\ f.x \in Nat /\ (~mqr => f.x # 6)
      /\ Col(f.x, mqr) = w - 1 - 2 * q - f.bit
      /\ f.dir = IF q % 2 = 0 THEN -1 ELSE 1
  BY DEF On
<1>2. /\ g.x = (IF skip THEN 5 ELSE x2)
      /\ g.y = (IF ~ends THEN y1
                ELSE IF f.dir < 0 THEN (IF skip THEN 9 ELSE 0)
                                  ELSE (IF skip THEN w - 9 ELSE w - 1))
      /\ g.dir = (IF ends THEN -f.dir ELSE f.dir)
      /\ g.bit = 1 - f.bit
  BY <1>1 DEF Turn
<1>3. CASE f.bit = 0
  <2>1. ~ends /\ x2 = f.x - 1
    BY <1>1, <1>3
  <2>2. g.x = f.x - 1 /\ g.y = f.y /\ g.dir = f.dir /\ g.bit = 1
    BY <1>2, <1>3, <2>1
  <2>3. ~mqr => g.x # 6 /\ f.x # 6
    BY <1>1, <1>3, <2>2 DEF Col
  <2>4. Col(g.x, mqr) = w - 1 - 2 * q - 1
    BY <1>1, <1>3, <2>2, <2>3 DEF Col
  <2>5. g.x \in Nat
    BY <1>1, <2>2
  <2>6. Nth(g, w) = Nth(f, w) /\ Nth(f, w) \in Int
    BY <1>1, <2>2 DEF Nth
  <2>7. On(g, w, mqr, q)
    BY <1>1, <2>2, <2>3, <2>4, <2>5 DEF On
  <2>8. QED
    BY <1>3, <2>2, <2>6, <2>7
<1>4. CASE f.bit = 1 /\ ~ends
  <2>1. g.x = f.x + 1 /\ g.y = f.y + f.dir /\ g.dir = f.dir /\ g.bit = 0
    BY <1>2, <1>4
  <2>2. ~mqr => g.x # 6
    BY <1>1, <1>4, <2>1 DEF Col
  <2>3. Col(g.x, mqr) = w - 1 - 2 * q
    BY <1>1, <1>4, <2>1, <2>2 DEF Col
  <2>4. g.x \in Nat /\ g.y \in 0 .. w - 1
    BY <1>1, <1>4, <2>1
  <2>5. Nth(g, w) = Nth(f, w) + 1 /\ Nth(f, w) \in Int
    BY <1>1, <2>1 DEF Nth
  <2>6. On(g, w, mqr, q)
    BY <1>1, <2>1, <2>2, <2>3, <2>4 DEF On
  <2>7. QED
    BY <1>4, <2>1, <2>5, <2>6
<1>5. CASE f.bit = 1 /\ ends
  <2>1. x2 = f.x - 1 /\ g.bit = 0 /\ g.dir = -f.dir
    BY <1>1, <1>2, <1>5
  <2>2. g.dir = IF (q + 1) % 2 = 0 THEN -1 ELSE 1
    BY <1>1, <2>1, NextParity
  <2>3. g.y \in 0 .. w - 1
    BY <1>1, <1>2, <1>5
  <2>4. g.x = (IF skip THEN 5 ELSE f.x - 1)
    BY <1>2, <2>1
  <2>5. skip <=> ~mqr /\ f.x = 7
    BY <1>1, <1>5, <2>1
  <2>6. ~mqr => g.x # 6
    BY <1>1, <2>4, <2>5
  <2>7. Col(g.x, mqr) = w - 1 - 2 * (q + 1)
    BY <1>1, <1>5, <2>4, <2>5, <2>6 DEF Col
  <2>8. g.x \in Nat
    BY <1>1, <2>4
  <2>9. QED
    BY <2>1, <2>2, <2>3, <2>6, <2>7, <2>8 DEF On
<1>6. QED
  BY <1>1, <1>3, <1>4, <1>5

\* Hence a turn leads to a cell that is read later.
LEMMA TurnLater ==
  ASSUME KindsAssumption, kind \in Kinds,
         NEW q \in Nat, NEW f, On(f, SymbolWidth(kind), kind.mqr, q),
         NEW g, g = Turn(f, SymbolWidth(kind), kind.mqr), g.x >= 0
  PROVE  /\ \E r \in Nat : On(g, SymbolWidth(kind), kind.mqr, r)
         /\ ReadingRank(Cell(g)) > ReadingRank(Cell(f))
         /\ ReadingRank(Cell(f)) \in Int /\ ReadingRank(Cell(g)) \in Int
<1> DEFINE w == SymbolWidth(kind)
           m == kind.mqr
<1>1. m \in BOOLEAN /\ w \in Nat /\ (~m => w >= 21) /\ w >= 11
  BY WidthOf
<1>2. PICK h \in Nat : w = 2 * h + 1
  BY WidthOf
<1>3. \/ On(g, w, m, q) /\ Nth(g, w) * 2 + g.bit > Nth(f, w) * 2 + f.bit
      \/ On(g, w, m, q + 1)
  <2>1. On(f, w, m, q) /\ g = Turn(f, w, m) /\ g.x >= 0
    OBVIOUS
  <2> HIDE DEF w, m
  <2>2. QED
    BY <1>1, <1>2, <2>1, TurnOn
<1>4. ReadingRank(Cell(f)) = (q * w + Nth(f, w)) * 2 + f.bit
  BY <1>1, RankOf
<1>5. Nth(f, w) \in 0 .. w - 1 /\ f.bit \in {0, 1}
  BY <1>1 DEF On, Nth
<1>6. CASE On(g, w, m, q) /\ Nth(g, w) * 2 + g.bit > Nth(f, w) * 2 + f.bit
  <2>1. ReadingRank(Cell(g)) = (q * w + Nth(g, w)) * 2 + g.bit
    BY <1>1, <1>6, RankOf
  <2>2. Nth(g, w) \in 0 .. w - 1 /\ g.bit \in {0, 1}
    BY <1>1, <1>6 DEF On, Nth
  <2> DEFINE P == q * w
             a == Nth(f, w)
             b == Nth(g, w)
  <2>3. /\ P \in Int /\ a \in Int /\ b \in Int /\ f.bit \in Int /\ g.bit \in Int
        /\ ReadingRank(Cell(f)) = (P + a) * 2 + f.bit
        /\ ReadingRank(Cell(g)) = (P + b) * 2 + g.bit
        /\ b * 2 + g.bit > a * 2 + f.bit
    BY <1>1, <1>4, <1>5, <1>6, <2>1, <2>2
  <2> HIDE DEF P, a, b
  <2>4. ReadingRank(Cell(g)) > ReadingRank(Cell(f))
        /\ ReadingRank(Cell(f)) \in Int /\ ReadingRank(Cell(g)) \in Int
    BY <2>3
  <2>5. QED
    BY <1>6, <2>4
<1>7. CASE On(g, w, m, q + 1)
  <2>1. ReadingRank(Cell(g)) = ((q + 1) * w + Nth(g, w)) * 2 + g.bit
    BY <1>1, <1>7, RankOf
  <2>2. Nth(g, w) \in 0 .. w - 1 /\ g.bit \in {0, 1}
    BY <1>1, <1>7 DEF On, Nth
  <2>3. q * w \in Int /\ (q + 1) * w = q * w + w
    BY <1>1
  <2>4. QED
    BY <1>1, <1>4, <1>5, <1>7, <2>1, <2>2, <2>3
<1>8. QED
  BY <1>3, <1>6, <1>7

-----------------------------------------------------------------------------
\* What is laid was laid on the way here.
Path ==
  /\ kind \in Kinds
  /\ filler.bit = -1 => placed = << >> /\ On([filler EXCEPT !.bit = 0], SymbolWidth(kind), kind.mqr, 0)
  /\ filler.bit # -1 =>
       /\ \E q \in Nat : On(filler, SymbolWidth(kind), kind.mqr, q)
       /\ \A c \in DOMAIN placed : /\ ReadingRank(c) \in Int
                                   /\ ReadingRank(c) <= ReadingRank(Cell(filler))

\* The filler starts below the last cell of the last row, where the first bit goes.
LEMMA PathInit == ASSUME KindsAssumption, Init PROVE Path
<1> DEFINE w == SymbolWidth(kind)
           f == [x |-> w - 1, y |-> w - 1, dir |-> -1, bit |-> 0]
<1>1. /\ kind \in Kinds /\ placed = << >> /\ filler = [x |-> w - 1, y |-> w - 1, dir |-> -1, bit |-> -1]
  BY DEF Init
<1>2. w \in Nat /\ w >= 11 /\ (~kind.mqr => w >= 21)
  BY <1>1, WidthOf
<1>3. [filler EXCEPT !.bit = 0] = f
  BY <1>1
<1>4. On(f, w, kind.mqr, 0)
  BY <1>2 DEF On, Col
<1>5. QED
  BY <1>1, <1>3, <1>4 DEF Path

\* A turn that does not leave the frame, from the start and from any cell.
LEMMA LayBitMoves ==
  ASSUME KindsAssumption, Path, LayBit, filler' # filler
  PROVE  /\ \E q \in Nat : On(filler', SymbolWidth(kind), kind.mqr, q)
         /\ ReadingRank(Cell(filler')) \in Int
         /\ placed' # placed => DOMAIN placed' = DOMAIN placed \union {Cell(filler')}
         /\ filler.bit # -1 => /\ ReadingRank(Cell(filler')) > ReadingRank(Cell(filler))
                               /\ ReadingRank(Cell(filler)) \in Int
                               /\ placed' # placed => Cell(filler') \notin function[kind]
<1> DEFINE w == SymbolWidth(kind)
           f == Turn(filler, w, kind.mqr)
           out  == f.x < 0 \/ f.y < 0
           skip == filler.bit # -1 /\ Cell(f) \in function[kind]
<1>1. /\ filler' = IF out THEN filler ELSE f
      /\ placed' = IF out \/ skip THEN placed
                   ELSE [c \in DOMAIN placed \union {Cell(f)} |->
                           IF c = Cell(f) THEN <<count, bit>> ELSE placed[c]]
  BY DEF LayBit
<1>2. filler' = f /\ ~out
  BY <1>1
<1>3. placed' # placed => DOMAIN placed' = DOMAIN placed \union {Cell(f)} /\ ~skip
  BY <1>1
<1>4. kind \in Kinds /\ kind.mqr \in BOOLEAN /\ w \in Nat
  BY WidthOf DEF Path
<1>5. CASE filler.bit = -1
  <2>1. f = [filler EXCEPT !.bit = 0]
    BY <1>5 DEF Turn
  <2>2. On(f, w, kind.mqr, 0)
    BY <1>5, <2>1 DEF Path
  <2>3. ReadingRank(Cell(f)) = (0 * w + Nth(f, w)) * 2 + f.bit
    BY <1>4, <2>2, RankOf
  <2>4. Nth(f, w) \in Int /\ f.bit \in Int
    BY <1>4, <2>2 DEF Nth, On
  <2>5. ReadingRank(Cell(f)) \in Int
    <3> HIDE DEF f, w
    <3>1. QED
      BY <1>4, <2>3, <2>4
  <2>6. QED
    BY <1>2, <1>3, <1>5, <2>2, <2>5
<1>6. CASE filler.bit # -1
  <2>1. PICK q \in Nat : On(filler, w, kind.mqr, q)
    BY <1>6 DEF Path
  <2>2. f.x >= 0
    <3>1. f.x \in Int
      BY <1>4, <2>1 DEF Turn, On
    <3>2. QED
      BY <1>2, <3>1
  <2>3. /\ \E r \in Nat : On(f, w, kind.mqr, r)
        /\ ReadingRank(Cell(f)) > ReadingRank(Cell(filler))
        /\ ReadingRank(Cell(filler)) \in Int /\ ReadingRank(Cell(f)) \in Int
    <3> HIDE DEF f, out, skip
    <3>1. f = Turn(filler, SymbolWidth(kind), kind.mqr)
      BY DEF f
    <3>2. QED
      BY <1>4, <2>1, <2>2, <3>1, TurnLater
  <2>4. QED
    BY <1>2, <1>3, <1>6, <2>3
<1>7. QED
  BY <1>5, <1>6

\* Other steps leave the filler alone.
LEMMA OthersStay ==
  ASSUME [Next]_vars, ~LayBit
  PROVE  UNCHANGED <<kind, filler, placed>>
BY DEF Next, FormGenerator, Encode, EndFill, TryMask, Judge, Return, vars, rs, lay, mask

\* Every step lays a bit on a cell that is read later than all cells laid so far.
LEMMA PathStep == ASSUME KindsAssumption, Path, [Next]_vars PROVE Path'
<1>1. CASE UNCHANGED <<kind, filler, placed>>
  BY <1>1 DEF Path, ReadingRank, SymbolWidth
<1>2. CASE LayBit /\ filler' # filler
  <2>1. kind' = kind
    BY <1>2 DEF LayBit
  <2> DEFINE w == SymbolWidth(kind)
  <2>2. PICK q \in Nat : On(filler', w, kind.mqr, q)
    BY <1>2, LayBitMoves
  <2>3. filler'.bit # -1
    BY <2>2 DEF On
  <2>4. \A c : ReadingRank(c)' = ReadingRank(c)
    BY <2>1 DEF ReadingRank
  <2>5. Cell(filler)' = Cell(filler')
    BY DEF Cell
  <2>6. ASSUME NEW c \in DOMAIN placed'
        PROVE  ReadingRank(c) \in Int /\ ReadingRank(c) <= ReadingRank(Cell(filler'))
    <3>1. c = Cell(filler') \/ c \in DOMAIN placed
      BY <1>2, LayBitMoves
    <3>2. CASE c = Cell(filler')
      BY <1>2, <3>2, LayBitMoves
    <3>3. CASE c \in DOMAIN placed
      <4>1. filler.bit # -1
        BY <3>3 DEF Path
      <4>2. QED
        BY <1>2, <3>3, <4>1, LayBitMoves DEF Path
    <3>4. QED
      BY <3>1, <3>2, <3>3
  <2>7. QED
    BY <2>1, <2>2, <2>3, <2>4, <2>6 DEF Path
<1>3. CASE LayBit /\ filler' = filler
  <2>1. PICK q \in Nat : filler.bit # -1 => On(filler, SymbolWidth(kind), kind.mqr, q)
    BY DEF Path
  <2>2. Turn(filler, SymbolWidth(kind), kind.mqr) # filler
    <3>1. CASE filler.bit = -1
      <4>1. Turn(filler, SymbolWidth(kind), kind.mqr).bit \in {0, 1}
        BY <3>1 DEF Turn, Path, On
      <4>2. QED
        BY <3>1, <4>1
    <3>2. CASE filler.bit # -1
      <4>1. filler.bit \in {0, 1}
        BY <2>1, <3>2 DEF On
      <4>2. Turn(filler, SymbolWidth(kind), kind.mqr).bit = 1 - filler.bit
        BY <3>2 DEF Turn
      <4>3. 1 - filler.bit # filler.bit
        BY <4>1
      <4>4. QED
        BY <4>2, <4>3
    <3>3. QED
      BY <3>1, <3>2
  <2>3. UNCHANGED <<kind, filler, placed>>
    BY <1>3, <2>2 DEF LayBit
  <2>4. QED
    BY <1>1, <2>3
<1>4. QED
  BY <1>1, <1>2, <1>3, OthersStay

\* FrameFiller_next goes over the cells in the order of a reader, for every
\* version and kind of symbol: it returns no function cell and none twice, and
\* never comes back to where it was.
THEOREM ReadingOrder == Spec => LaidInReadingOrder
<1> USE KindsAssumption
<1>1. Init => Path
  BY PathInit
<1>2. Path /\ [Next]_vars => Path'
  BY PathStep
<1>3. Path /\ [Next]_vars =>
        [filler' # filler /\ filler.bit # -1 =>
           /\ ReadingRank(Cell(filler')) > ReadingRank(Cell(filler))
           /\ placed' # placed => /\ Cell(filler') \notin function[kind]
                                  /\ Cell(filler') \notin DOMAIN placed]_vars
  <2> SUFFICES ASSUME Path, [Next]_vars, filler' # filler, filler.bit # -1
               PROVE  /\ ReadingRank(Cell(filler')) > ReadingRank(Cell(filler))
                      /\ placed' # placed => /\ Cell(filler') \notin function[kind]
                                             /\ Cell(filler') \notin DOMAIN placed
    OBVIOUS
  <2>1. LayBit
    BY OthersStay
  <2>2. /\ ReadingRank(Cell(filler')) > ReadingRank(Cell(filler))
        /\ ReadingRank(Cell(filler')) \in Int /\ ReadingRank(Cell(filler)) \in Int
        /\ placed' # placed => Cell(filler') \notin function[kind]
    BY <2>1, LayBitMoves
  <2>3. Cell(filler') \notin DOMAIN placed
    BY <2>2 DEF Path
  <2>4. QED
    BY <2>2, <2>3
<1>4. QED
  BY <1>1, <1>2, <1>3, PTL DEF Spec, LaidInReadingOrder

-----------------------------------------------------------------------------
(* Symbols.                                                                *)

\* A symbol fits a byte, so NN is at most 255.
LEMMA FieldSize == NN \in 1 .. 255 /\ SymSize \in 1..8
<1>1. SymSize \in 1..8
  BY FieldAssumption
<1>2. 2^1 = 2 /\ 2^2 = 4 /\ 2^3 = 8 /\ 2^4 = 16 /\ 2^5 = 32 /\ 2^6 = 64 /\ 2^7 = 128 /\ 2^8 = 256
  OBVIOUS
<1> DEFINE p == 2 ^ SymSize
<1>3. p \in {2^1, 2^2, 2^3, 2^4, 2^5, 2^6, 2^7, 2^8}
  <2>1. SymSize \in {1, 2, 3, 4, 5, 6, 7, 8}
    BY <1>1
  <2>2. QED
    BY <2>1
<1>4. NN = p - 1
  BY DEF NN
<1> HIDE DEF p
<1>5. p \in 2 .. 256
  BY <1>2, <1>3
<1>6. QED
  BY <1>1, <1>4, <1>5

\* Exclusive or.
LEMMA XorSymbols ==
  ASSUME NEW a \in Symbols, NEW b \in Symbols
  PROVE  /\ Xor(a, b) \in Symbols
         /\ Xor(a, a) = {} /\ Xor(a, {}) = a /\ Xor({}, a) = a
         /\ Xor(a, b) = Xor(b, a)
         /\ Xor(a, b) = {} => a = b
         /\ \A c \in Symbols : Xor(Xor(a, b), c) = Xor(a, Xor(b, c))
<1>1. Xor(a, b) \in Symbols
  BY DEF Xor, Symbols
<1>2. /\ Xor(a, a) = {} /\ Xor(a, {}) = a /\ Xor({}, a) = a
      /\ Xor(a, b) = Xor(b, a)
      /\ Xor(a, b) = {} => a = b
  BY DEF Xor
<1>3. ASSUME NEW c \in Symbols PROVE Xor(Xor(a, b), c) = Xor(a, Xor(b, c))
  BY DEF Xor
<1>4. QED
  BY <1>1, <1>2, <1>3

\* The two facts of XorSymbols that are needed for every pair.
LEMMA XorIn == \A a, b \in Symbols : Xor(a, b) \in Symbols
BY XorSymbols

LEMMA XorZero == \A a \in Symbols : Xor(a, a) = {} /\ Xor(a, {}) = a /\ Xor({}, a) = a
BY XorSymbols

\* One turn of the table loop stays among the symbols and distributes over exclusive
\* or: the reduction by the field's polynomial is linear.
LEMMA DoubleLinear ==
  ASSUME NEW a \in Symbols, NEW b \in Symbols
  PROVE  /\ Double(a) \in Symbols
         /\ Double(Xor(a, b)) = Xor(Double(a), Double(b))
<1>1. SymSize \in 1..8 /\ GfPoly \subseteq 0..SymSize
  BY FieldAssumption
<1> DEFINE In(k, s) == /\ k \in 0..(SymSize - 1)
                       /\ ~((k # 0 /\ k - 1 \in s) <=> (SymSize - 1 \in s /\ k \in GfPoly))
<1>2. ASSUME NEW s \in Symbols, NEW k PROVE k \in Double(s) <=> In(k, s)
  <2> DEFINE shifted == {i + 1 : i \in s}
  <2>1. \A i \in s : i \in 0..(SymSize - 1)
    BY DEF Symbols
  <2>2. SymSize \in shifted <=> SymSize - 1 \in s
    BY <1>1, <2>1
  <2>3. \A m \in 0..SymSize : m \in shifted <=> m # 0 /\ m - 1 \in s
    BY <1>1, <2>1
  <2>4. \A m \in shifted : m \in 0..SymSize
    BY <1>1, <2>1
  <2>5. Double(s) = (IF SymSize \in shifted THEN Xor(shifted, GfPoly) ELSE shifted) \ {SymSize}
    BY DEF Double
  <2> HIDE DEF shifted
  <2>6. CASE SymSize \in shifted
    <3>1. k \in Double(s) <=> k # SymSize /\ ~(k \in shifted <=> k \in GfPoly)
      BY <2>5, <2>6 DEF Xor
    <3>2. CASE k \in 0..(SymSize - 1)
      <4>1. k \in 0..SymSize /\ k # SymSize
        BY <1>1, <3>2
      <4>2. k \in shifted <=> k # 0 /\ k - 1 \in s
        BY <2>3, <4>1
      <4>3. QED
        BY <2>2, <2>6, <3>1, <3>2, <4>1, <4>2
    <3>3. CASE k \notin 0..(SymSize - 1)
      <4>1. k \notin 0..SymSize \/ k = SymSize
        BY <1>1, <3>3
      <4>2. QED
        BY <1>1, <2>4, <3>1, <3>3, <4>1
    <3>4. QED
      BY <3>2, <3>3
  <2>7. CASE SymSize \notin shifted
    BY <1>1, <2>2, <2>3, <2>4, <2>5, <2>7
  <2>8. QED
    BY <2>6, <2>7
<1>3. \A s \in Symbols : Double(s) \in Symbols
  BY <1>2 DEF Symbols
<1>4. Xor(a, b) \in Symbols
  BY DEF Xor, Symbols
<1>5. ASSUME NEW k PROVE k \in Double(Xor(a, b)) <=> k \in Xor(Double(a), Double(b))
  <2>1. k \in Double(Xor(a, b)) <=> In(k, Xor(a, b))
    BY <1>2, <1>4
  <2>2. k \in Double(a) <=> In(k, a)
    BY <1>2
  <2>3. k \in Double(b) <=> In(k, b)
    BY <1>2
  <2>4. \A m : m \in Xor(a, b) <=> ~(m \in a <=> m \in b)
    BY DEF Xor
  <2>5. k \in Xor(Double(a), Double(b)) <=> ~(k \in Double(a) <=> k \in Double(b))
    BY DEF Xor
  <2>6. QED
    BY <2>1, <2>2, <2>3, <2>4, <2>5
<1>6. QED
  BY <1>3, <1>5

-----------------------------------------------------------------------------
(* Recursions.  A function with a step per number is taken here as one that *)
(* satisfies the steps: it exists, and there is one only.                  *)

\* A set of numbers that is not empty has a least one.
LEMMA LeastElement ==
  ASSUME NEW T \in SUBSET Nat, T # {}
  PROVE  \E m \in T : \A x \in T : m <= x
<1> DEFINE R == OpToRel(<, Nat)
<1>1. IsWellFoundedOn(R, Nat)
  BY NatLessThanWellFounded
<1>2. \E m \in T : \A x \in T : ~ (<<x, m>> \in R)
  <2> HIDE DEF R
  <2>1. T \subseteq Nat
    OBVIOUS
  <2> QED
    BY <1>1, <2>1, WFMin
<1>3. \A x, m \in Nat : x < m => <<x, m>> \in R
  BY DEF OpToRel
<1> HIDE DEF R
<1>4. PICK m \in T : \A x \in T : ~ (<<x, m>> \in R)
  BY <1>2
<1>5. \A x \in T : ~(x < m)
  BY <1>3, <1>4
<1>6. QED
  BY <1>4, <1>5

\* What holds of 0, and of a number if it holds of the one before, holds of all.
LEMMA UpTo ==
  ASSUME NEW n \in Nat, NEW T, 0 \in T, \A i \in 1..n : i - 1 \in T => i \in T
  PROVE  \A i \in 0..n : i \in T
<1> DEFINE Others == {i \in 0..n : i \notin T}
<1>1. ASSUME NEW i \in Others, \A x \in Others : i <= x PROVE FALSE
  <2>1. i # 0 /\ i \in 1..n
    OBVIOUS
  <2>2. i - 1 \in 0..n /\ ~(i <= i - 1)
    BY <2>1
  <2>3. i - 1 \in T
    BY <1>1, <2>2
  <2>4. QED
    BY <2>1, <2>3
<1>2. Others = {}
  <2>1. Others \in SUBSET Nat
    OBVIOUS
  <2> HIDE DEF Others
  <2>2. QED
    BY <1>1, <2>1, LeastElement
<1>3. QED
  BY <1>2

\* The same for all numbers.
LEMMA UpNat ==
  ASSUME NEW T, 0 \in T, \A i \in Nat : i \in T => i + 1 \in T
  PROVE  \A i \in Nat : i \in T
<1>1. ASSUME NEW n \in Nat PROVE n \in T
  <2>1. ASSUME NEW i \in 1..n, i - 1 \in T PROVE i \in T
    <3>1. i - 1 \in Nat /\ (i - 1) + 1 = i
      OBVIOUS
    <3>2. QED
      BY <2>1, <3>1
  <2>2. \A i \in 0..n : i \in T
    BY <2>1, UpTo
  <2>3. QED
    BY <2>2
<1>2. QED
  BY <1>1

\* The recursion over 0..n from a, whose step i is the function h[i] on V.
Steps(f, n, V, a, h) ==
  f \in [0..n -> V] /\ f[0] = a /\ \A i \in 1..n : f[i] = h[i][f[i - 1]]

\* There is one, since h stays in V.
LEMMA StepsExist ==
  ASSUME NEW n \in Nat, NEW V, NEW a \in V, NEW h, \A i \in 1..n : \A x \in V : h[i][x] \in V
  PROVE  \E f : Steps(f, n, V, a, h)
<1> DEFINE T == {m \in 0..n : \E f : Steps(f, m, V, a, h)}
<1>1. 0 \in T
  <2>1. Steps([i \in 0..0 |-> a], 0, V, a, h)
    BY DEF Steps
  <2>2. QED
    BY <2>1
<1>2. ASSUME NEW m \in 1..n, m - 1 \in T PROVE m \in T
  <2>1. PICK f : Steps(f, m - 1, V, a, h)
    BY <1>2
  <2>2. m - 1 \in 0..(m - 1) /\ m \in 0..n
    OBVIOUS
  <2>3. f \in [0..(m - 1) -> V] /\ f[0] = a /\ \A i \in 1..(m - 1) : f[i] = h[i][f[i - 1]]
    BY <2>1 DEF Steps
  <2> DEFINE v == h[m][f[m - 1]]
             g == [i \in 0..m |-> IF i = m THEN v ELSE f[i]]
  <2>4. v \in V
    BY <2>2, <2>3
  <2> HIDE DEF v
  <2>5. \A i \in 0..m : i # m => i \in 0..(m - 1)
    OBVIOUS
  <2>6. g \in [0..m -> V]
    BY <2>3, <2>4, <2>5
  <2>7. g[0] = a
    BY <2>3
  <2>8. ASSUME NEW i \in 1..m PROVE g[i] = h[i][g[i - 1]]
    <3>1. i - 1 \in 0..m /\ i - 1 # m /\ i \in 0..m
      OBVIOUS
    <3>2. g[i - 1] = f[i - 1]
      BY <3>1
    <3>3. CASE i = m
      BY <3>1, <3>2, <3>3 DEF v
    <3>4. CASE i # m
      <4>1. i \in 1..(m - 1)
        BY <3>4
      <4>2. QED
        BY <2>3, <3>1, <3>2, <3>4, <4>1
    <3>5. QED
      BY <3>3, <3>4
  <2> HIDE DEF g
  <2>9. Steps(g, m, V, a, h)
    BY <2>6, <2>7, <2>8 DEF Steps
  <2>10. QED
    BY <2>2, <2>9
<1>3. \A m \in 0..n : m \in T
  <2> HIDE DEF T
  <2>1. QED
    BY <1>1, <1>2, UpTo
<1>4. n \in 0..n
  OBVIOUS
<1>5. QED
  BY <1>3, <1>4

\* Two such functions agree where both are defined.
LEMMA StepsAgree ==
  ASSUME NEW n \in Nat, NEW m \in Nat, NEW V, NEW a, NEW h,
         NEW f, Steps(f, n, V, a, h), NEW g, Steps(g, m, V, a, h),
         NEW k \in 0..n, k \in 0..m
  PROVE  f[k] = g[k]
<1> DEFINE T == {i \in 0..k : f[i] = g[i]}
<1>1. 0 \in T
  BY DEF Steps
<1>2. ASSUME NEW i \in 1..k, i - 1 \in T PROVE i \in T
  <2>1. i \in 1..n /\ i \in 1..m /\ i \in 0..k
    OBVIOUS
  <2>2. f[i] = h[i][f[i - 1]] /\ g[i] = h[i][g[i - 1]]
    BY <2>1 DEF Steps
  <2>3. QED
    BY <1>2, <2>1, <2>2
<1>3. \A i \in 0..k : i \in T
  <2> HIDE DEF T
  <2>1. k \in Nat
    OBVIOUS
  <2>2. QED
    BY <1>1, <1>2, <2>1, UpTo
<1>4. QED
  BY <1>3

\* A function that takes the steps as long as it stays in V stays in V.
LEMMA StepsStay ==
  ASSUME NEW n \in Nat, NEW V, NEW a \in V, NEW h, \A i \in 1..n : \A x \in V : h[i][x] \in V,
         NEW f, f = [i \in 0..n |-> f[i]], f[0] = a,
         \A i \in 1..n : f[i - 1] \in V => f[i] = h[i][f[i - 1]]
  PROVE  Steps(f, n, V, a, h)
<1> DEFINE T == {i \in 0..n : f[i] \in V}
<1>1. \A i \in 0..n : i \in T
  <2>1. 0 \in T
    OBVIOUS
  <2>2. ASSUME NEW i \in 1..n, i - 1 \in T PROVE i \in T
    <3>1. f[i - 1] \in V /\ i \in 0..n
      BY <2>2
    <3>2. f[i] = h[i][f[i - 1]]
      BY <3>1
    <3>3. QED
      BY <3>1, <3>2
  <2> HIDE DEF T
  <2>3. QED
    BY <2>1, <2>2, UpTo
<1>2. f \in [0..n -> V]
  BY <1>1
<1>3. \A i \in 1..n : i - 1 \in 0..n
  OBVIOUS
<1>4. QED
  BY <1>1, <1>2, <1>3 DEF Steps

-----------------------------------------------------------------------------
(* The field.                                                              *)

\* A symbol after n turns of the loop that makes the tables: times alpha^n.
T(n, s) == Turns(n)[s]

\* What Turns computes is such a recursion.
LEMMA TurnsAre ==
  ASSUME NEW s \in Symbols, NEW n \in Nat
  PROVE  \E f : /\ Steps(f, n, Symbols, s, [i \in 1..n |-> [x \in Symbols |-> Double(x)]])
                /\ T(n, s) = f[n]
<1> DEFINE h == [i \in 1..n |-> [x \in Symbols |-> Double(x)]]
           sr == CHOOSE sr : sr = [i \in 0..n |-> IF i = 0 THEN s ELSE Double(sr[i - 1])]
<1>1. \A i \in 1..n : \A x \in Symbols : h[i][x] = Double(x) /\ h[i][x] \in Symbols
  BY DoubleLinear
<1>2. PICK f : Steps(f, n, Symbols, s, h)
  <2> HIDE DEF h
  <2>1. QED
    BY <1>1, StepsExist
<1> HIDE DEF h
<1>3. f = [i \in 0..n |-> IF i = 0 THEN s ELSE Double(f[i - 1])]
  <2>1. f \in [0..n -> Symbols] /\ f[0] = s /\ \A i \in 1..n : f[i] = h[i][f[i - 1]]
    BY <1>2 DEF Steps
  <2>2. \A i \in 0..n : i # 0 => i \in 1..n /\ i - 1 \in 0..n
    OBVIOUS
  <2>3. QED
    BY <1>1, <2>1, <2>2
<1>4. sr = [i \in 0..n |-> IF i = 0 THEN s ELSE Double(sr[i - 1])]
  BY <1>3
<1>5. T(n, s) = sr[n]
  BY DEF T, Turns
<1> HIDE DEF sr
<1>6. Steps(sr, n, Symbols, s, h)
  <2>1. sr = [i \in 0..n |-> sr[i]] /\ sr[0] = s
    BY <1>4
  <2>2. ASSUME NEW i \in 1..n, sr[i - 1] \in Symbols PROVE sr[i] = h[i][sr[i - 1]]
    <3>1. i \in 0..n /\ i # 0
      OBVIOUS
    <3>2. sr[i] = Double(sr[i - 1])
      BY <1>4, <3>1
    <3>3. QED
      BY <1>1, <2>2, <3>2
  <2>3. QED
    BY <1>1, <2>1, <2>2, StepsStay
<1>7. QED
  BY <1>5, <1>6 DEF h

\* One turn more doubles once more.
LEMMA TurnsNext ==
  ASSUME NEW s \in Symbols
  PROVE  /\ T(0, s) = s
         /\ \A n \in Nat : T(n, s) \in Symbols /\ T(n + 1, s) = Double(T(n, s))
<1>1. T(0, s) = s
  <2>1. PICK f : /\ Steps(f, 0, Symbols, s, [i \in 1..0 |-> [x \in Symbols |-> Double(x)]])
                 /\ T(0, s) = f[0]
    BY TurnsAre
  <2>2. QED
    BY <2>1 DEF Steps
<1>2. ASSUME NEW n \in Nat PROVE T(n, s) \in Symbols /\ T(n + 1, s) = Double(T(n, s))
  <2> DEFINE h == [i \in 1..(n + 1) |-> [x \in Symbols |-> Double(x)]]
             k == [i \in 1..n |-> [x \in Symbols |-> Double(x)]]
  <2>1. PICK f : Steps(f, n, Symbols, s, k) /\ T(n, s) = f[n]
    BY TurnsAre
  <2>2. PICK g : Steps(g, n + 1, Symbols, s, h) /\ T(n + 1, s) = g[n + 1]
    <3>1. n + 1 \in Nat
      OBVIOUS
    <3>2. QED
      BY <3>1, TurnsAre
  <2>3. \A i \in 1..n : i \in 1..(n + 1) /\ h[i] = k[i]
    OBVIOUS
  <2>4. n + 1 \in 1..(n + 1) /\ \A x \in Symbols : h[n + 1][x] = Double(x)
    OBVIOUS
  <2> HIDE DEF h, k
  <2>5. /\ f \in [0..n -> Symbols] /\ g \in [0..(n + 1) -> Symbols]
        /\ g[n + 1] = h[n + 1][g[n]]
    <3>1. (n + 1) - 1 = n
      OBVIOUS
    <3>2. QED
      BY <2>1, <2>2, <2>4, <3>1 DEF Steps
  <2>6. Steps(f, n, Symbols, s, h)
    BY <2>1, <2>3 DEF Steps
  <2>7. n \in 0..n /\ n \in 0..(n + 1) /\ n + 1 \in Nat
    OBVIOUS
  <2>8. f[n] = g[n]
    BY <2>2, <2>6, <2>7, StepsAgree
  <2>9. QED
    BY <2>1, <2>2, <2>4, <2>5, <2>7, <2>8
<1>3. QED
  BY <1>1, <1>2

\* So many turns and then so many more.
LEMMA TurnsAdd ==
  ASSUME NEW s \in Symbols, NEW m \in Nat
  PROVE  \A n \in Nat : T(n + m, s) = T(n, T(m, s))
<1> DEFINE S == {n \in Nat : T(n + m, s) = T(n, T(m, s))}
<1>1. T(m, s) \in Symbols
  BY TurnsNext
<1>2. 0 \in S
  <2>1. 0 + m = m
    OBVIOUS
  <2>2. QED
    BY <1>1, <2>1, TurnsNext
<1>3. ASSUME NEW n \in Nat, n \in S PROVE n + 1 \in S
  <2>1. (n + 1) + m = (n + m) + 1 /\ n + m \in Nat /\ n + 1 \in Nat
    OBVIOUS
  <2>2. T(n + m + 1, s) = Double(T(n + m, s))
    BY <2>1, TurnsNext
  <2>3. T(n + 1, T(m, s)) = Double(T(n, T(m, s)))
    BY <1>1, TurnsNext
  <2>4. T((n + 1) + m, s) = T(n + m + 1, s)
    BY <2>1
  <2>5. QED
    BY <1>3, <2>1, <2>2, <2>3, <2>4
<1>4. \A n \in Nat : n \in S
  <2> HIDE DEF S
  <2>1. QED
    BY <1>2, <1>3, UpNat
<1>5. QED
  BY <1>4

LEMMA TurnsCommute ==
  ASSUME NEW s \in Symbols, NEW m \in Nat, NEW n \in Nat
  PROVE  T(n, T(m, s)) = T(m, T(n, s))
<1>1. T(n + m, s) = T(n, T(m, s)) /\ T(m + n, s) = T(m, T(n, s))
  BY TurnsAdd
<1>2. n + m = m + n
  OBVIOUS
<1>3. QED
  BY <1>1, <1>2

\* All turns are linear, as one is.
LEMMA TurnsLinear ==
  ASSUME NEW n \in Nat, NEW a \in Symbols, NEW b \in Symbols
  PROVE  T(n, Xor(a, b)) = Xor(T(n, a), T(n, b)) /\ T(n, {}) = {}
<1> DEFINE S == {i \in Nat : \A x, y \in Symbols : T(i, Xor(x, y)) = Xor(T(i, x), T(i, y))}
<1>1. 0 \in S
  BY XorSymbols, TurnsNext
<1>2. ASSUME NEW i \in Nat, i \in S PROVE i + 1 \in S
  <2>1. ASSUME NEW x \in Symbols, NEW y \in Symbols
        PROVE  T(i + 1, Xor(x, y)) = Xor(T(i + 1, x), T(i + 1, y))
    <3>1. Xor(x, y) \in Symbols
      BY XorSymbols
    <3>2. T(i, x) \in Symbols /\ T(i, y) \in Symbols /\ T(i, Xor(x, y)) = Xor(T(i, x), T(i, y))
      BY <1>2, TurnsNext
    <3>3. T(i + 1, x) = Double(T(i, x)) /\ T(i + 1, y) = Double(T(i, y))
          /\ T(i + 1, Xor(x, y)) = Double(T(i, Xor(x, y)))
      BY <3>1, TurnsNext
    <3>4. QED
      BY <3>2, <3>3, DoubleLinear
  <2>2. i + 1 \in Nat
    OBVIOUS
  <2>3. QED
    BY <2>1, <2>2
<1>3. \A i \in Nat : i \in S
  <2> HIDE DEF S
  <2>1. QED
    BY <1>1, <1>2, UpNat
<1>4. \A x, y \in Symbols : T(n, Xor(x, y)) = Xor(T(n, x), T(n, y))
  BY <1>3
<1>5. T(n, {}) = {}
  <2>1. {} \in Symbols
    BY DEF Symbols
  <2>2. T(n, Xor({}, {})) = Xor(T(n, {}), T(n, {}))
    BY <1>4, <2>1
  <2>3. T(n, {}) \in Symbols /\ Xor({}, {}) = {}
    BY <2>1, TurnsNext, XorSymbols
  <2>4. QED
    BY <2>2, <2>3, XorSymbols
<1>6. QED
  BY <1>4, <1>5

-----------------------------------------------------------------------------
(* The tables, and products by them.                                       *)

\* The table of powers, taken by sixteens, is that of the loop.
LEMMA PowersAre == \A i \in 0..NN : powers[i] = T(i, {0})
<1> DEFINE N == NN \div 16
           row == CHOOSE row : row = [n \in 0..N |-> IF n = 0 THEN {0} ELSE sixteen[row[n - 1]]]
           h == [i \in 1..N |-> sixteen]
           one == {0}
<1>1. NN \in 1..255 /\ N \in Nat
  BY FieldSize
<1>2. one \in Symbols
  BY FieldSize DEF Symbols
<1>3. \A s \in Symbols : sixteen[s] = T(16, s) /\ T(16, s) \in Symbols
  BY TurnsNext DEF sixteen, T
<1>4. powers = [i \in 0..NN |-> Turns(i % 16)[row[i \div 16]]]
  BY DEF powers
<1> HIDE DEF N
<1>5. \A i \in 1..N : \A x \in Symbols : h[i][x] = sixteen[x] /\ h[i][x] \in Symbols
  BY <1>3
<1> HIDE DEF h
<1>6. PICK f : Steps(f, N, Symbols, one, h)
  BY <1>1, <1>2, <1>5, StepsExist
<1>7. f = [n \in 0..N |-> IF n = 0 THEN {0} ELSE sixteen[f[n - 1]]]
  <2>1. f \in [0..N -> Symbols] /\ f[0] = one /\ \A i \in 1..N : f[i] = h[i][f[i - 1]]
    BY <1>6 DEF Steps
  <2>2. \A i \in 0..N : i # 0 => i \in 1..N /\ i - 1 \in 0..N
    BY <1>1
  <2>3. QED
    BY <1>5, <2>1, <2>2
<1>8. row = [n \in 0..N |-> IF n = 0 THEN {0} ELSE sixteen[row[n - 1]]]
  BY <1>7
<1> HIDE DEF row
<1> DEFINE S == {n \in 0..N : row[n] = T(16 * n, one)}
<1>9. \A n \in 0..N : n \in S
  <2>1. 0 \in S
    <3>1. row[0] = one /\ 0 \in 0..N /\ 16 * 0 = 0
      BY <1>1, <1>8
    <3>2. QED
      BY <1>2, <3>1, TurnsNext
  <2>2. ASSUME NEW n \in 1..N, n - 1 \in S PROVE n \in S
    <3>1. n \in 0..N /\ n # 0 /\ 16 * n = 16 + 16 * (n - 1) /\ 16 * (n - 1) \in Nat
      OBVIOUS
    <3>2. row[n] = sixteen[T(16 * (n - 1), one)]
      BY <1>8, <2>2, <3>1
    <3>3. T(16 * (n - 1), one) \in Symbols
      BY <1>2, <3>1, TurnsNext
    <3>4. T(16 + 16 * (n - 1), one) = T(16, T(16 * (n - 1), one))
      BY <1>2, <3>1, TurnsAdd
    <3>5. QED
      BY <1>3, <3>1, <3>2, <3>3, <3>4
  <2> HIDE DEF S
  <2>3. QED
    BY <1>1, <2>1, <2>2, UpTo
<1>10. ASSUME NEW i \in 0..NN PROVE powers[i] = T(i, one)
  <2>1. i % 16 \in Nat /\ i \div 16 \in 0..N /\ i = (i % 16) + 16 * (i \div 16) /\ 16 * (i \div 16) \in Nat
    BY <1>1 DEF N
  <2>2. powers[i] = T(i % 16, row[i \div 16])
    BY <1>4 DEF T
  <2>3. row[i \div 16] = T(16 * (i \div 16), one)
    BY <1>9, <2>1
  <2>4. T((i % 16) + 16 * (i \div 16), one) = T(i % 16, T(16 * (i \div 16), one))
    BY <1>2, <2>1, TurnsAdd
  <2>5. QED
    BY <2>1, <2>2, <2>3, <2>4
<1>11. QED
  BY <1>10

\* A remainder is the only number below N that a multiple of N is away.
LEMMA RemainderIs ==
  ASSUME NEW N \in Nat \ {0}, NEW q \in Int, NEW r \in 0..(N - 1)
  PROVE  (q * N + r) % N = r
<1> DEFINE x == q * N + r
           p == x \div N
           m == x % N
<1>1. x \in Int /\ q * N \in Int
  OBVIOUS
<1>2. m \in 0..(N - 1) /\ p \in Int
  BY <1>1
<1>3. x = N * p + m
  BY <1>1
<1>4. N * (p - q) = r - m
  <2>1. N * (p - q) = N * p - q * N
    BY <1>2
  <2>2. N * p \in Int
    BY <1>2
  <2> HIDE DEF m, p
  <2>3. QED
    BY <1>1, <1>2, <1>3, <2>1, <2>2
<1> DEFINE d == p - q
<1>5. d \in Int /\ N * d < N /\ N * d > -N
  <2>1. d \in Int /\ N * d = r - m
    BY <1>2, <1>4
  <2> HIDE DEF d, m, p
  <2>2. QED
    BY <1>2, <2>1
<1>6. d = 0
  <2> HIDE DEF d
  <2>1. CASE d >= 1
    <3>1. N * d >= N
      BY <1>5, <2>1
    <3>2. QED
      BY <1>5, <3>1
  <2>2. CASE d <= -1
    <3>1. N * d <= -N
      BY <1>5, <2>2
    <3>2. QED
      BY <1>5, <3>1
  <2>3. QED
    BY <1>5, <2>1, <2>2
<1>7. QED
  <2>1. N * 0 = 0
    OBVIOUS
  <2>2. r - m = 0
    BY <1>4, <1>6, <2>1
  <2> HIDE DEF m
  <2>3. QED
    BY <1>2, <2>2 DEF m

\* What folding the bits above SymSize leaves.
LEMMA Folded ==
  ASSUME NEW N \in Nat \ {0}, NEW x \in Nat, x >= N
  PROVE  LET y == x - N
             z == (y \div (N + 1)) + (y % (N + 1))
         IN  z \in Nat /\ z < x /\ z % N = x % N
<1> DEFINE y == x - N
           q == y \div (N + 1)
           t == y % (N + 1)
           z == q + t
<1>1. y \in Nat /\ q \in Nat /\ t \in Nat
  OBVIOUS
<1>2. y = (N + 1) * q + t
  OBVIOUS
<1>3. N * q \in Nat /\ (N + 1) * q = N * q + q
  BY <1>1
<1>4. x = N * q + z + N
  <2> HIDE DEF q, t
  <2>1. QED
    BY <1>1, <1>2, <1>3
<1>5. z \in Nat /\ z < x
  <2> HIDE DEF q, t
  <2>1. QED
    BY <1>1, <1>3, <1>4
<1> HIDE DEF q, t
<1> DEFINE r == z % N
           p == z \div N
<1>6. r \in 0..(N - 1) /\ p \in Int /\ z = N * p + r
  <2> HIDE DEF z
  <2>1. QED
    BY <1>5
<1>7. x = (p + q + 1) * N + r
  <2>1. (p + q + 1) * N = N * p + N * q + N
    BY <1>1, <1>6
  <2>2. N * p \in Int
    BY <1>6
  <2> HIDE DEF z, r, p
  <2>3. QED
    BY <1>1, <1>3, <1>4, <1>6, <2>1, <2>2
<1>8. x % N = r
  <2>1. p + q + 1 \in Int
    BY <1>1, <1>6
  <2> HIDE DEF z, r, p
  <2>2. QED
    BY <1>6, <1>7, <2>1, RemainderIs
<1>9. QED
  BY <1>5, <1>8 DEF q, t

\* modnn is the remainder: the folds never lose a multiple of NN.
LEMMA ModnnIs == \A x \in Nat : modnn[x] = x % NN
<1> DEFINE fold(x) == ((x - NN) \div (NN + 1)) + ((x - NN) % (NN + 1))
           g == [x \in Nat |-> x % NN]
<1>1. NN \in Nat \ {0}
  BY FieldSize
<1>2. ASSUME NEW x \in Nat, x < NN PROVE x % NN = x
  <2> DEFINE N == NN
  <2>1. N \in Nat \ {0} /\ x \in 0..(N - 1) /\ 0 * N + x = x /\ 0 \in Int
    BY <1>1, <1>2
  <2> HIDE DEF N
  <2>2. (0 * N + x) % N = x
    BY <2>1, RemainderIs
  <2>3. x % N = x
    BY <2>1, <2>2
  <2>4. QED
    BY <2>3 DEF N
<1>3. ASSUME NEW x \in Nat, ~(x < NN)
      PROVE  fold(x) \in Nat /\ fold(x) < x /\ fold(x) % NN = x % NN
  <2>1. x >= NN
    BY <1>1, <1>3
  <2>2. QED
    BY <1>1, <2>1, Folded
<1> HIDE DEF fold
<1>4. g = [x \in Nat |-> IF x < NN THEN x ELSE g[fold(x)]]
  BY <1>2, <1>3
<1>5. modnn = [x \in Nat |-> IF x < NN THEN x ELSE modnn[fold(x)]]
  <2>1. modnn = CHOOSE m : m = [x \in Nat |-> IF x < NN THEN x ELSE m[fold(x)]]
    BY DEF modnn, fold
  <2>2. QED
    BY <1>4, <2>1
<1> DEFINE Others == {x \in Nat : modnn[x] # x % NN}
<1>6. ASSUME NEW x \in Others, \A z \in Others : x <= z PROVE FALSE
  <2>1. CASE x < NN
    BY <1>2, <1>5, <2>1
  <2>2. CASE ~(x < NN)
    <3>1. modnn[x] = modnn[fold(x)]
      BY <1>5, <2>2
    <3>2. fold(x) \in Nat /\ fold(x) < x /\ fold(x) % NN = x % NN
      BY <1>3, <2>2
    <3>3. fold(x) \notin Others
      BY <1>6, <3>2
    <3>4. QED
      BY <3>1, <3>2, <3>3
  <2>3. QED
    BY <2>1, <2>2
<1>7. Others = {}
  <2>1. Others \in SUBSET Nat
    OBVIOUS
  <2> HIDE DEF Others
  <2>2. QED
    BY <1>6, <2>1, LeastElement
<1>8. QED
  BY <1>7

one == {0}

LEMMA OneIsSymbol == one \in Symbols /\ one # {} /\ {} \in Symbols
BY FieldSize DEF one, Symbols

\* alpha to a power that is a multiple of NN larger is the same.
LEMMA Period == \A x \in Nat : powers[x % NN] = T(x, one)
<1> DEFINE N == NN
<1>1. N \in Nat \ {0} /\ one \in Symbols
  BY FieldSize, OneIsSymbol
<1>2. T(N, one) = one
  <2>1. powers[NN] = one /\ NN \in 0..NN
    BY PrimitiveAssumption, FieldSize DEF Primitive, one
  <2>2. QED
    BY <2>1, PowersAre DEF one
<1> HIDE DEF N
<1> DEFINE S == {q \in Nat : \A r \in Nat : T(r + q * N, one) = T(r, one)}
<1>3. \A q \in Nat : q \in S
  <2>1. 0 \in S
    <3>1. \A r \in Nat : r + 0 * N = r
      BY <1>1
    <3>2. QED
      BY <3>1
  <2>2. ASSUME NEW q \in Nat, q \in S PROVE q + 1 \in S
    <3>1. ASSUME NEW r \in Nat PROVE T(r + (q + 1) * N, one) = T(r, one)
      <4>1. q * N \in Nat /\ (q + 1) * N = q * N + N
        BY <1>1
      <4>2. r + (q + 1) * N = (r + q * N) + N /\ r + q * N \in Nat
        BY <1>1, <4>1
      <4>3. T((r + q * N) + N, one) = T(r + q * N, T(N, one))
        BY <1>1, <4>2, TurnsAdd
      <4>4. T(r + q * N, one) = T(r, one)
        BY <2>2
      <4>5. QED
        BY <1>2, <4>2, <4>3, <4>4
    <3>2. QED
      BY <3>1
  <2> HIDE DEF S
  <2>3. QED
    BY <2>1, <2>2, UpNat
<1>4. ASSUME NEW x \in Nat PROVE powers[x % NN] = T(x, one)
  <2> DEFINE r == x % N
             q == x \div N
  <2>1. r \in 0..(N - 1) /\ q \in Nat /\ x = N * q + r
    BY <1>1
  <2>2. N * q = q * N /\ q * N \in Int
    BY <1>1, <2>1
  <2> HIDE DEF r, q
  <2>3. x = r + q * N /\ r \in Nat /\ r \in 0..N
    BY <1>1, <2>1, <2>2
  <2>4. T(r + q * N, one) = T(r, one)
    BY <1>3, <2>1, <2>3
  <2>5. powers[r] = T(r, one)
    BY <2>3, PowersAre DEF N, one
  <2>6. QED
    BY <2>3, <2>4, <2>5 DEF r, N
<1>5. QED
  BY <1>4

\* ALPHA_TO and INDEX_OF.
LEMMA AlphaTo ==
  ASSUME NEW x \in Nat
  PROVE  ALPHA_TO[modnn[x]] = T(x, one)
<1> DEFINE N == NN
           m == x % N
<1>1. N \in Nat \ {0}
  BY FieldSize
<1>2. m \in 0..(N - 1)
  BY <1>1
<1>3. modnn[x] = m
  BY ModnnIs
<1>4. powers[m] = T(x, one)
  BY Period
<1> HIDE DEF m
<1>5. m \in 0..NN /\ m # A0
  BY <1>1, <1>2 DEF A0, N
<1>6. ALPHA_TO[m] = powers[m]
  BY <1>5 DEF ALPHA_TO
<1>7. QED
  BY <1>3, <1>4, <1>6

\* The index of a symbol that is not zero is the power of alpha it is.
LEMMA IndexOf ==
  ASSUME NEW s \in Symbols, s # {}
  PROVE  /\ INDEX_OF[s] \in 0..(NN - 1) /\ INDEX_OF[s] # A0
         /\ T(INDEX_OF[s], one) = s
<1> DEFINE k == CHOOSE i \in 0..(NN - 1) : powers[i] = s
<1>1. NN \in 1..255
  BY FieldSize
<1>2. INDEX_OF[s] = k
  BY DEF INDEX_OF
<1>3. \E i \in 0..(NN - 1) : powers[i] = s
  BY PrimitiveAssumption
<1>4. k \in 0..(NN - 1) /\ powers[k] = s
  BY <1>3
<1> HIDE DEF k
<1>5. k \in 0..NN /\ k # NN
  BY <1>1, <1>4
<1>6. QED
  BY <1>2, <1>4, <1>5, PowersAre DEF A0, one

\* The index NN stands for zero.
LEMMA IndexOfZero == INDEX_OF[{}] = A0
BY OneIsSymbol DEF INDEX_OF

\* The product by a power of alpha, and by any symbol.
LEMMA TimesAlphaIs ==
  ASSUME NEW s \in Symbols, NEW i \in Nat
  PROVE  TimesAlpha(s, i) = T(i, s)
<1>1. CASE s = {}
  <2>1. T(i, {}) = {}
    BY OneIsSymbol, TurnsLinear
  <2>2. QED
    BY <1>1, <2>1 DEF TimesAlpha
<1>2. CASE s # {}
  <2> DEFINE k == INDEX_OF[s]
  <2>1. k \in Nat /\ T(k, one) = s /\ one \in Symbols
    BY <1>2, IndexOf, FieldSize, OneIsSymbol
  <2>2. TimesAlpha(s, i) = ALPHA_TO[modnn[k + i]]
    BY <1>2 DEF TimesAlpha
  <2> HIDE DEF k
  <2>3. k + i \in Nat /\ k + i = i + k
    BY <2>1
  <2>4. ALPHA_TO[modnn[k + i]] = T(k + i, one)
    BY <2>3, AlphaTo
  <2>5. T(i + k, one) = T(i, T(k, one))
    BY <2>1, TurnsAdd
  <2>6. QED
    BY <2>1, <2>2, <2>3, <2>4, <2>5
<1>3. QED
  BY <1>1, <1>2

\* The product of two symbols by their indices is turns of the second.
LEMMA ProductIs ==
  ASSUME NEW f \in Symbols, f # {}, NEW g \in Symbols, g # {}
  PROVE  /\ INDEX_OF[f] # A0 /\ INDEX_OF[f] \in Nat
         /\ ALPHA_TO[modnn[INDEX_OF[f] + INDEX_OF[g]]] = T(INDEX_OF[f], g)
<1> DEFINE a == INDEX_OF[f]
           b == INDEX_OF[g]
<1>1. a \in Nat /\ b \in Nat /\ a # A0 /\ T(b, one) = g /\ one \in Symbols
  BY IndexOf, FieldSize, OneIsSymbol
<1> HIDE DEF a, b
<1>2. a + b \in Nat
  BY <1>1
<1>3. ALPHA_TO[modnn[a + b]] = T(a + b, one)
  BY <1>2, AlphaTo
<1>4. T(a + b, one) = T(a, T(b, one))
  BY <1>1, TurnsAdd
<1>5. QED
  BY <1>1, <1>3, <1>4 DEF a, b

-----------------------------------------------------------------------------
(* Words.  v holds the values at alpha^r of all beginnings of the word w.  *)

IsHorner(v, w, n, r) ==
  /\ v \in [0..n -> Symbols]
  /\ v[0] = {}
  /\ \A j \in 1..n : v[j] = Xor(T(r, v[j - 1]), w[j])

Vanishes(w, r) == \E v : IsHorner(v, w, Len(w), r) /\ v[Len(w)] = {}

\* ValueAt takes Horner's steps.
LEMMA ValueIs ==
  ASSUME NEW w \in Seq(Symbols), NEW r \in Nat
  PROVE  \E v : IsHorner(v, w, Len(w), r) /\ ValueAt(w, r) = v[Len(w)]
<1> DEFINE n == Len(w)
           V == CHOOSE v : v = [j \in 0..n |-> IF j = 0 THEN {} ELSE Xor(Turns(r)[v[j - 1]], w[j])]
           h == [j \in 1..n |-> [x \in Symbols |-> Xor(Turns(r)[x], w[j])]]
<1>1. n \in Nat /\ \A j \in 1..n : w[j] \in Symbols
  OBVIOUS
<1>2. \A x \in Symbols : Turns(r)[x] = T(r, x) /\ T(r, x) \in Symbols
  BY TurnsNext DEF T
<1>3. ValueAt(w, r) = V[n]
  BY DEF ValueAt
<1> HIDE DEF n
<1>4. \A j \in 1..n : \A x \in Symbols : h[j][x] = Xor(Turns(r)[x], w[j]) /\ h[j][x] \in Symbols
  BY <1>1, <1>2, XorIn
<1> HIDE DEF h
<1>5. PICK f : Steps(f, n, Symbols, {}, h)
  BY <1>1, <1>4, OneIsSymbol, StepsExist
<1>6. f = [j \in 0..n |-> IF j = 0 THEN {} ELSE Xor(Turns(r)[f[j - 1]], w[j])]
  <2>1. f \in [0..n -> Symbols] /\ f[0] = {} /\ \A i \in 1..n : f[i] = h[i][f[i - 1]]
    BY <1>5 DEF Steps
  <2>2. \A i \in 0..n : i # 0 => i \in 1..n /\ i - 1 \in 0..n
    BY <1>1
  <2>3. QED
    BY <1>4, <2>1, <2>2
<1>7. V = [j \in 0..n |-> IF j = 0 THEN {} ELSE Xor(Turns(r)[V[j - 1]], w[j])]
  BY <1>6
<1> HIDE DEF V
<1>8. \A j \in 1..n : V[j] = Xor(Turns(r)[V[j - 1]], w[j])
  <2>1. \A j \in 1..n : j \in 0..n /\ j # 0
    OBVIOUS
  <2>2. QED
    BY <1>7, <2>1
<1>9. Steps(V, n, Symbols, {}, h)
  <2>1. V = [j \in 0..n |-> V[j]] /\ V[0] = {}
    BY <1>1, <1>7
  <2>2. ASSUME NEW i \in 1..n, V[i - 1] \in Symbols PROVE V[i] = h[i][V[i - 1]]
    BY <1>4, <1>8, <2>2
  <2>3. QED
    BY <1>1, <1>4, <2>1, <2>2, OneIsSymbol, StepsStay
<1>10. IsHorner(V, w, n, r)
  <2>1. V \in [0..n -> Symbols] /\ V[0] = {}
    BY <1>9 DEF Steps
  <2>2. \A j \in 1..n : j - 1 \in 0..n
    BY <1>1
  <2>3. QED
    BY <1>2, <1>8, <2>1, <2>2 DEF IsHorner
<1>11. QED
  BY <1>3, <1>10 DEF n

\* There is one sequence of values only.
LEMMA HornerAgree ==
  ASSUME NEW w, NEW n \in Nat, NEW r \in Nat,
         NEW v, IsHorner(v, w, n, r), NEW u, IsHorner(u, w, n, r)
  PROVE  v[n] = u[n]
<1> DEFINE S == {j \in 0..n : v[j] = u[j]}
<1>1. \A j \in 0..n : j \in S
  <2>1. 0 \in S
    <3>1. v[0] = {} /\ u[0] = {} /\ 0 \in 0..n
      BY DEF IsHorner
    <3>2. QED
      BY <3>1
  <2>2. ASSUME NEW j \in 1..n, j - 1 \in S PROVE j \in S
    <3>1. j \in 0..n /\ v[j - 1] = u[j - 1]
      BY <2>2
    <3>2. QED
      BY <3>1 DEF IsHorner
  <2> HIDE DEF S
  <2>3. QED
    BY <2>1, <2>2, UpTo
<1>2. QED
  BY <1>1

\* So a word that vanishes has the value zero.
LEMMA ValueVanishes ==
  ASSUME NEW w \in Seq(Symbols), NEW r \in Nat, Vanishes(w, r)
  PROVE  ValueAt(w, r) = {}
<1>1. PICK v : IsHorner(v, w, Len(w), r) /\ ValueAt(w, r) = v[Len(w)]
  BY ValueIs
<1>2. PICK u : IsHorner(u, w, Len(w), r) /\ u[Len(w)] = {}
  BY DEF Vanishes
<1>3. Len(w) \in Nat
  OBVIOUS
<1>4. QED
  BY <1>1, <1>2, <1>3, HornerAgree

-----------------------------------------------------------------------------
(* The generator.                                                          *)

\* A polynomial from its highest coefficient down, as a word.
Word1(g) == [j \in 1..Len(g) |-> g[Len(g) + 1 - j]]

\* The coefficients of the product by (x - alpha^p).
LEMMA FactorIs ==
  ASSUME NEW g \in Seq(Symbols), NEW p \in Nat
  PROVE  LET n == Len(g)
             t == TimesFactor(g, p)
         IN  /\ t \in Seq(Symbols) /\ Len(t) = n + 1
             /\ t[n + 1] = one
             /\ n > 0 => t[1] = T(p, g[1])
             /\ \A j \in 2..n : t[j] = Xor(g[j - 1], T(p, g[j]))
<1> DEFINE n == Len(g)
           s == [j \in 1..n |-> Xor(IF j = 1 THEN {} ELSE g[j - 1], TimesAlpha(g[j], p))]
<1>1. n \in Nat /\ \A j \in 1..n : g[j] \in Symbols
  OBVIOUS
<1>2. \A j \in 1..n : TimesAlpha(g[j], p) = T(p, g[j]) /\ T(p, g[j]) \in Symbols
  BY <1>1, TimesAlphaIs, TurnsNext
<1>3. \A j \in 1..n : j # 1 => j - 1 \in 1..n
  BY <1>1
<1>4. \A j \in 1..n : s[j] \in Symbols
  <2>1. ASSUME NEW j \in 1..n PROVE s[j] \in Symbols
    <3>1. s[j] = Xor(IF j = 1 THEN {} ELSE g[j - 1], T(p, g[j]))
      BY <1>2
    <3>2. (IF j = 1 THEN {} ELSE g[j - 1]) \in Symbols /\ T(p, g[j]) \in Symbols
      BY <1>1, <1>2, <1>3, OneIsSymbol
    <3> HIDE DEF s
    <3>3. QED
      BY <3>1, <3>2, XorIn
  <2> HIDE DEF s
  <2>2. QED
    BY <2>1
<1>5. TimesFactor(g, p) = Append(s, {0})
  BY DEF TimesFactor
<1>6. s \in Seq(Symbols) /\ Len(s) = n
  BY <1>1, <1>4
<1>7. \A j \in 1..n : s[j] = Xor(IF j = 1 THEN {} ELSE g[j - 1], T(p, g[j]))
  BY <1>2
<1> HIDE DEF s
<1>8. \A j \in 1..n : TimesFactor(g, p)[j] = s[j]
  BY <1>1, <1>5, <1>6
<1>9. TimesFactor(g, p) \in Seq(Symbols) /\ Len(TimesFactor(g, p)) = n + 1
      /\ TimesFactor(g, p)[n + 1] = one
  BY <1>1, <1>5, <1>6, OneIsSymbol DEF one
<1>10. n > 0 => TimesFactor(g, p)[1] = T(p, g[1])
  <2>1. SUFFICES ASSUME n > 0 PROVE TimesFactor(g, p)[1] = T(p, g[1])
    OBVIOUS
  <2>2. 1 \in 1..n
    BY <1>1, <2>1
  <2>3. TimesFactor(g, p)[1] = Xor({}, T(p, g[1])) /\ T(p, g[1]) \in Symbols
    BY <1>2, <1>7, <1>8, <2>2
  <2>4. QED
    BY <2>3, XorSymbols
<1>11. \A j \in 2..n : TimesFactor(g, p)[j] = Xor(g[j - 1], T(p, g[j]))
  <2>1. \A j \in 2..n : j \in 1..n /\ j # 1
    BY <1>1
  <2>2. QED
    BY <1>7, <1>8, <2>1
<1>12. QED
  BY <1>9, <1>10, <1>11

\* The values of a product by (x - alpha^p): zero where the polynomial is, and
\* at alpha^p.
LEMMA FactorVanishes ==
  ASSUME NEW g \in Seq(Symbols), Len(g) > 0, g[Len(g)] = one, NEW p \in Nat, NEW r \in Nat,
         r = p \/ Vanishes(Word1(g), r)
  PROVE  Vanishes(Word1(TimesFactor(g, p)), r)
<1> DEFINE n == Len(g)
           c == Word1(g)
           t == TimesFactor(g, p)
           d == Word1(t)
<1>1. n \in Nat /\ n > 0 /\ \A j \in 1..n : g[j] \in Symbols
  OBVIOUS
<1>2. c \in Seq(Symbols) /\ Len(c) = n /\ \A j \in 1..n : c[j] = g[n + 1 - j] /\ c[j] \in Symbols
  <2>1. \A j \in 1..n : n + 1 - j \in 1..n
    BY <1>1
  <2>2. QED
    BY <1>1, <2>1 DEF Word1
<1>3. Len(t) = n + 1 /\ t[n + 1] = one /\ t[1] = T(p, g[1])
      /\ \A j \in 2..n : t[j] = Xor(g[j - 1], T(p, g[j]))
  BY <1>1, FactorIs
<1> HIDE DEF t
<1>4. Len(d) = n + 1 /\ \A j \in 1..(n + 1) : d[j] = t[n + 2 - j]
  <2>1. d = [j \in 1..(n + 1) |-> t[(n + 1) + 1 - j]]
    BY <1>3 DEF Word1
  <2>2. \A j \in 1..(n + 1) : (n + 1) + 1 - j = n + 2 - j
    BY <1>1
  <2>3. n + 1 \in Nat
    BY <1>1
  <2> HIDE DEF n
  <2>4. QED
    BY <2>1, <2>2, <2>3
<1>5. d[1] = one /\ d[n + 1] = T(p, c[n]) /\ c[1] = one
  <2>1. 1 \in 1..(n + 1) /\ n + 1 \in 1..(n + 1) /\ n + 2 - 1 = n + 1 /\ n + 2 - (n + 1) = 1
        /\ 1 \in 1..n /\ n \in 1..n /\ n + 1 - n = 1 /\ n + 1 - 1 = n
    BY <1>1
  <2>2. QED
    BY <1>2, <1>3, <1>4, <2>1
<1>6. \A j \in 2..n : d[j] = Xor(c[j], T(p, c[j - 1]))
  <2>1. ASSUME NEW j \in 2..n PROVE d[j] = Xor(c[j], T(p, c[j - 1]))
    <3>1. /\ j \in 1..(n + 1) /\ n + 2 - j \in 2..n /\ (n + 2 - j) - 1 = n + 1 - j
          /\ j \in 1..n /\ j - 1 \in 1..n /\ n + 1 - (j - 1) = n + 2 - j
      BY <1>1
    <3> HIDE DEF n, c, d
    <3>2. d[j] = t[n + 2 - j]
      BY <1>4, <3>1
    <3>3. t[n + 2 - j] = Xor(g[n + 1 - j], T(p, g[n + 2 - j]))
      BY <1>3, <3>1
    <3>4. c[j] = g[n + 1 - j] /\ c[j - 1] = g[n + 2 - j]
      BY <1>2, <3>1
    <3>5. QED
      BY <3>2, <3>3, <3>4
  <2>2. QED
    BY <2>1
<1>7. PICK v : IsHorner(v, c, n, r) /\ (r = p \/ v[n] = {})
  <2>1. CASE r = p
    BY <1>2, <2>1, ValueIs
  <2>2. CASE Vanishes(c, r)
    BY <1>2, <2>2 DEF Vanishes
  <2>3. QED
    BY <2>1, <2>2
<1> HIDE DEF n, c, d
<1>8. /\ \A j \in 0..n : v[j] \in Symbols
      /\ v[0] = {}
      /\ \A j \in 1..n : v[j] = Xor(T(r, v[j - 1]), c[j])
  BY <1>7 DEF IsHorner
<1> DEFINE last == Xor(T(r, v[n]), T(p, v[n]))
           u == [j \in 0..(n + 1) |-> IF j = 0 THEN {}
                                      ELSE IF j <= n THEN Xor(v[j], T(p, v[j - 1])) ELSE last]
<1>9. \A j \in 0..n : T(r, v[j]) \in Symbols /\ T(p, v[j]) \in Symbols
                      /\ T(r, T(p, v[j])) = T(p, T(r, v[j]))
                      /\ T(r, T(p, v[j])) \in Symbols
  BY <1>8, TurnsNext, TurnsCommute
<1>10. last \in Symbols
  BY <1>1, <1>9, XorSymbols
<1>11. \A j \in 1..n : j - 1 \in 0..n /\ j \in 0..n
  BY <1>1
<1>12. \A j \in 1..n : Xor(v[j], T(p, v[j - 1])) \in Symbols
  BY <1>8, <1>9, <1>11, XorSymbols
<1> HIDE DEF last
<1>13. u \in [0..(n + 1) -> Symbols]
  <2>1. \A j \in 0..(n + 1) : j # 0 /\ j <= n => j \in 1..n
    BY <1>1
  <2>2. QED
    BY <1>10, <1>12, <2>1, OneIsSymbol
<1>14. u[0] = {}
  BY <1>1
<1>15. u[n + 1] = last /\ \A j \in 1..n : u[j] = Xor(v[j], T(p, v[j - 1]))
  BY <1>1
<1>16. u[1] = Xor(T(r, u[0]), d[1])
  <2>1. 1 \in 1..n /\ 1 - 1 = 0
    BY <1>1
  <2>2. u[1] = Xor(v[1], T(p, {})) /\ v[1] = Xor(T(r, {}), c[1]) /\ v[1] \in Symbols
    BY <1>8, <1>11, <1>15, <2>1
  <2>3. T(r, {}) = {} /\ T(p, {}) = {}
    BY OneIsSymbol, TurnsLinear
  <2>4. QED
    BY <1>5, <1>14, <2>2, <2>3, OneIsSymbol, XorZero
<1>17. ASSUME NEW j \in 2..n PROVE u[j] = Xor(T(r, u[j - 1]), d[j])
  <2>1. j \in 1..n /\ j - 1 \in 1..n /\ j - 2 \in 0..n /\ (j - 1) - 1 = j - 2 /\ j - 1 \in 0..n
    BY <1>1
  <2> DEFINE a == T(r, v[j - 1])
             b == T(r, T(p, v[j - 2]))
             e == c[j]
             f == T(p, c[j - 1])
  <2>2. c[j - 1] \in Symbols /\ c[j] \in Symbols
    BY <1>2, <2>1
  <2>3. a \in Symbols /\ b \in Symbols /\ e \in Symbols /\ f \in Symbols
    BY <1>9, <2>1, <2>2, TurnsNext
  <2>4. T(r, u[j - 1]) = Xor(a, b)
    <3>1. u[j - 1] = Xor(v[j - 1], T(p, v[j - 2]))
      BY <1>15, <2>1
    <3>2. v[j - 1] \in Symbols /\ T(p, v[j - 2]) \in Symbols
      BY <1>8, <1>9, <2>1
    <3>3. QED
      BY <3>1, <3>2, TurnsLinear
  <2>5. d[j] = Xor(e, f)
    BY <1>6
  <2>6. v[j] = Xor(a, e)
    BY <1>8, <2>1
  <2>7. T(p, v[j - 1]) = Xor(b, f)
    <3>1. v[j - 1] = Xor(T(r, v[j - 2]), c[j - 1])
      BY <1>8, <2>1
    <3>2. T(r, v[j - 2]) \in Symbols /\ T(p, T(r, v[j - 2])) = b
      BY <1>9, <2>1
    <3>3. QED
      BY <2>2, <3>1, <3>2, TurnsLinear
  <2>8. u[j] = Xor(Xor(a, e), Xor(b, f))
    BY <1>15, <2>1, <2>6, <2>7
  <2> HIDE DEF a, b, e, f
  <2>9. Xor(Xor(a, e), Xor(b, f)) = Xor(Xor(a, b), Xor(e, f))
    BY DEF Xor
  <2>10. QED
    BY <2>4, <2>5, <2>8, <2>9
<1>18. u[n + 1] = Xor(T(r, u[n]), d[n + 1])
  <2>1. n \in 1..n /\ n - 1 \in 0..n /\ n \in 0..n
    BY <1>1
  <2> DEFINE a == T(r, v[n])
             b == T(r, T(p, v[n - 1]))
             f == T(p, c[n])
  <2>2. c[n] \in Symbols
    BY <1>2, <2>1
  <2>3. a \in Symbols /\ b \in Symbols /\ f \in Symbols
    BY <1>9, <2>1, <2>2, TurnsNext
  <2>4. T(r, u[n]) = Xor(a, b)
    <3>1. u[n] = Xor(v[n], T(p, v[n - 1]))
      BY <1>15, <2>1
    <3>2. v[n] \in Symbols /\ T(p, v[n - 1]) \in Symbols
      BY <1>8, <1>9, <2>1
    <3>3. QED
      BY <3>1, <3>2, TurnsLinear
  <2>5. T(p, v[n]) = Xor(b, f)
    <3>1. v[n] = Xor(T(r, v[n - 1]), c[n])
      BY <1>8, <2>1
    <3>2. T(r, v[n - 1]) \in Symbols /\ T(p, T(r, v[n - 1])) = b
      BY <1>9, <2>1
    <3>3. QED
      BY <2>2, <3>1, <3>2, TurnsLinear
  <2>6. u[n + 1] = Xor(a, Xor(b, f))
    BY <1>15, <2>5 DEF last
  <2> HIDE DEF a, b, f
  <2>7. Xor(a, Xor(b, f)) = Xor(Xor(a, b), f)
    BY <2>3, XorSymbols
  <2>8. QED
    BY <1>5, <2>4, <2>6, <2>7 DEF f
<1>19. \A j \in 1..(n + 1) : u[j] = Xor(T(r, u[j - 1]), d[j])
  <2>1. \A j \in 1..(n + 1) : j = 1 \/ j \in 2..n \/ j = n + 1
    BY <1>1
  <2>2. 1 - 1 = 0 /\ (n + 1) - 1 = n
    BY <1>1
  <2> HIDE DEF u
  <2>3. QED
    BY <1>16, <1>17, <1>18, <2>1, <2>2
<1>20. u[n + 1] = {}
  <2>1. n \in 0..n
    BY <1>1
  <2>2. CASE r = p
    BY <1>9, <1>15, <2>1, <2>2, XorSymbols DEF last
  <2>3. CASE v[n] = {}
    <3>1. T(r, {}) = {} /\ T(p, {}) = {}
      BY OneIsSymbol, TurnsLinear
    <3>2. QED
      BY <1>15, <2>3, <3>1, OneIsSymbol, XorZero DEF last
  <2>4. QED
    BY <1>7, <2>2, <2>3
<1> HIDE DEF u
<1>21. IsHorner(u, d, n + 1, r)
  BY <1>13, <1>14, <1>19 DEF IsHorner
<1>22. QED
  BY <1>4, <1>20, <1>21 DEF Vanishes, d, t

\* A recursion over all numbers.
Stays(V, h) == \A i \in Nat \ {0} : \A x \in V : h[i][x] \in V

Forever(f, V, a, h) ==
  f \in [Nat -> V] /\ f[0] = a /\ \A i \in Nat \ {0} : f[i] = h[i][f[i - 1]]

\* It exists: the recursions up to each number agree.
LEMMA StepsForever ==
  ASSUME NEW V, NEW a \in V, NEW h, Stays(V, h)
  PROVE  \E f : Forever(f, V, a, h)
<1> USE DEF Stays, Forever
<1> DEFINE F(n) == CHOOSE f : Steps(f, n, V, a, h)
           G == [n \in Nat |-> F(n)[n]]
<1>1. ASSUME NEW n \in Nat PROVE Steps(F(n), n, V, a, h)
  <2>1. \A i \in 1..n : i \in Nat \ {0}
    OBVIOUS
  <2>2. \E f : Steps(f, n, V, a, h)
    BY <2>1, StepsExist
  <2>3. QED
    BY <2>2
<1> HIDE DEF F
<1>2. G \in [Nat -> V]
  <2>1. \A n \in Nat : n \in 0..n /\ F(n) \in [0..n -> V]
    BY <1>1 DEF Steps
  <2>2. QED
    BY <2>1
<1>3. G[0] = a
  BY <1>1 DEF Steps
<1>4. ASSUME NEW i \in Nat \ {0} PROVE G[i] = h[i][G[i - 1]]
  <2>1. i - 1 \in Nat /\ i \in 1..i /\ i - 1 \in 0..i /\ i - 1 \in 0..(i - 1) /\ i \in Nat
    OBVIOUS
  <2>2. F(i)[i] = h[i][F(i)[i - 1]]
    BY <1>1, <2>1 DEF Steps
  <2>3. Steps(F(i), i, V, a, h) /\ Steps(F(i - 1), i - 1, V, a, h)
    BY <1>1, <2>1
  <2>4. F(i)[i - 1] = F(i - 1)[i - 1]
    BY <2>1, <2>3, StepsAgree
  <2>5. QED
    BY <2>1, <2>2, <2>4
<1> HIDE DEF G
<1>5. QED
  BY <1>2, <1>3, <1>4

\* Generator is such a recursion.
LEMMA GeneratorIs ==
  /\ Generator[0] = <<one>>
  /\ \A n \in Nat : /\ Generator[n] \in Seq(Symbols)
                    /\ Generator[n + 1] = TimesFactor(Generator[n], (Fcr + n) * Prim)
<1> DEFINE V == Seq(Symbols)
           R(n) == (Fcr + n - 1) * Prim
           h == [n \in Nat \ {0} |-> [g \in V |-> TimesFactor(g, R(n))]]
<1>1. Fcr \in Nat /\ Prim \in Nat
  BY FieldAssumption
<1>2. \A n \in Nat \ {0} : R(n) \in Nat
  <2>1. ASSUME NEW n \in Nat \ {0} PROVE R(n) \in Nat
    <3>1. Fcr + n - 1 \in Nat
      BY <1>1
    <3>2. QED
      BY <1>1, <3>1
  <2>2. QED
    BY <2>1
<1>3. \A n \in Nat \ {0} : \A g \in V : h[n][g] = TimesFactor(g, R(n)) /\ h[n][g] \in V
  <2>1. ASSUME NEW n \in Nat \ {0}, NEW g \in V PROVE TimesFactor(g, R(n)) \in V
    BY <1>2, FactorIs
  <2> HIDE DEF V, R
  <2>2. QED
    BY <2>1
<1>4. <<one>> \in V
  BY OneIsSymbol
<1> HIDE DEF h, V
<1>5. PICK f : /\ f \in [Nat -> V] /\ f[0] = <<one>>
               /\ \A i \in Nat \ {0} : f[i] = h[i][f[i - 1]]
  <2>1. Stays(V, h)
    BY <1>3 DEF Stays
  <2>2. \E f : Forever(f, V, <<one>>, h)
    BY <1>4, <2>1, StepsForever
  <2>3. QED
    BY <2>2 DEF Forever
<1>6. f = [n \in Nat |-> IF n = 0 THEN <<{0}>> ELSE TimesFactor(f[n - 1], R(n))]
  <2>1. \A n \in Nat : n # 0 => n \in Nat \ {0} /\ n - 1 \in Nat
    OBVIOUS
  <2> HIDE DEF R
  <2>2. QED
    BY <1>3, <1>5, <2>1 DEF one
<1>7. Generator = [n \in Nat |-> IF n = 0 THEN <<{0}>> ELSE TimesFactor(Generator[n - 1], R(n))]
  <2>1. Generator = CHOOSE G :
          G = [n \in Nat |-> IF n = 0 THEN <<{0}>> ELSE TimesFactor(G[n - 1], R(n))]
    BY DEF Generator, R
  <2> HIDE DEF R
  <2>2. QED
    BY <1>6, <2>1
<1>8. ASSUME NEW n \in Nat PROVE Generator[n + 1] = TimesFactor(Generator[n], (Fcr + n) * Prim)
  <2>1. n + 1 \in Nat /\ n + 1 # 0 /\ (n + 1) - 1 = n /\ Fcr + (n + 1) - 1 = Fcr + n
    BY <1>1
  <2>2. R(n + 1) = (Fcr + n) * Prim
    BY <2>1
  <2> HIDE DEF R
  <2>3. QED
    BY <1>7, <2>1, <2>2
<1>9. Generator[0] = <<one>>
  BY <1>7 DEF one
<1> DEFINE S == {n \in Nat : Generator[n] \in V}
<1>10. \A n \in Nat : n \in S
  <2>1. 0 \in S
    BY <1>4, <1>9
  <2>2. ASSUME NEW n \in Nat, n \in S PROVE n + 1 \in S
    <3>1. (Fcr + n) * Prim \in Nat /\ n + 1 \in Nat
      BY <1>1
    <3>2. TimesFactor(Generator[n], (Fcr + n) * Prim) \in V
      BY <2>2, <3>1, FactorIs DEF V
    <3>3. QED
      BY <1>8, <3>1, <3>2
  <2> HIDE DEF S
  <2>3. QED
    BY <2>1, <2>2, UpNat
<1>11. QED
  BY <1>8, <1>9, <1>10 DEF V

\* The generator has its roots.
LEMMA GeneratorVanishes ==
  ASSUME NEW n \in Nat
  PROVE  /\ Generator[n] \in Seq(Symbols) /\ Len(Generator[n]) = n + 1
         /\ Generator[n][n + 1] = one
         /\ \A i \in 0..(n - 1) : Vanishes(Word1(Generator[n]), (Fcr + i) * Prim)
<1> DEFINE S == {m \in Nat : /\ Len(Generator[m]) = m + 1
                             /\ Generator[m][m + 1] = one
                             /\ \A i \in 0..(m - 1) : Vanishes(Word1(Generator[m]), (Fcr + i) * Prim)}
<1>1. 0 \in S
  <2>1. Len(Generator[0]) = 0 + 1 /\ Generator[0][0 + 1] = one
    BY GeneratorIs
  <2>2. 0..(0 - 1) = {}
    OBVIOUS
  <2>3. QED
    BY <2>1, <2>2
<1>2. ASSUME NEW m \in Nat, m \in S PROVE m + 1 \in S
  <2> DEFINE g == Generator[m]
             p == (Fcr + m) * Prim
             t == Generator[m + 1]
  <2>1. g \in Seq(Symbols) /\ Len(g) = m + 1 /\ g[Len(g)] = one /\ Len(g) > 0
        /\ \A i \in 0..(m - 1) : Vanishes(Word1(g), (Fcr + i) * Prim)
    <3>1. g \in Seq(Symbols)
      BY GeneratorIs
    <3>2. /\ Len(g) = m + 1 /\ g[m + 1] = one
          /\ \A i \in 0..(m - 1) : Vanishes(Word1(g), (Fcr + i) * Prim)
      BY <1>2
    <3> HIDE DEF g
    <3>3. QED
      BY <3>1, <3>2
  <2>2. p \in Nat /\ \A i \in Nat : (Fcr + i) * Prim \in Nat
    <3>1. Fcr \in Nat /\ Prim \in Nat
      BY FieldAssumption
    <3>2. ASSUME NEW i \in Nat PROVE (Fcr + i) * Prim \in Nat
      BY <3>1
    <3>3. QED
      BY <3>2
  <2>3. t = TimesFactor(g, p)
    BY GeneratorIs
  <2> HIDE DEF g, p, t
  <2>4. Len(t) = (m + 1) + 1 /\ t[(m + 1) + 1] = one
    BY <2>1, <2>2, <2>3, FactorIs
  <2>5. ASSUME NEW i \in 0..((m + 1) - 1) PROVE Vanishes(Word1(t), (Fcr + i) * Prim)
    <3>1. i \in Nat
      OBVIOUS
    <3>2. (Fcr + i) * Prim = p \/ Vanishes(Word1(g), (Fcr + i) * Prim)
      <4>1. i = m \/ i \in 0..(m - 1)
        OBVIOUS
      <4>2. QED
        BY <2>1, <4>1 DEF p
    <3> DEFINE r == (Fcr + i) * Prim
    <3>3. r \in Nat /\ (r = p \/ Vanishes(Word1(g), r))
      BY <2>2, <3>1, <3>2
    <3> HIDE DEF r
    <3>4. Vanishes(Word1(TimesFactor(g, p)), r)
      BY <2>1, <2>2, <3>3, FactorVanishes
    <3>5. QED
      BY <2>3, <3>4 DEF r
  <2>6. m + 1 \in Nat
    OBVIOUS
  <2>7. QED
    BY <2>4, <2>5, <2>6 DEF t
<1>3. \A m \in Nat : m \in S
  <2> HIDE DEF S
  <2>1. QED
    BY <1>1, <1>2, UpNat
<1>4. QED
  BY <1>3, GeneratorIs

-----------------------------------------------------------------------------
(* The parity.                                                             *)

\* f times s, with f in index form unless it is zero.
Scaled(f, s) == IF f = {} THEN {} ELSE T(INDEX_OF[f], s)

\* Scaling stays among the symbols, distributes and commutes with turns.
LEMMA ScaledIs ==
  ASSUME NEW f \in Symbols
  PROVE  /\ \A s \in Symbols : Scaled(f, s) \in Symbols
         /\ Scaled(f, {}) = {} /\ Scaled(f, one) = f
         /\ \A s, t \in Symbols : Scaled(f, Xor(s, t)) = Xor(Scaled(f, s), Scaled(f, t))
         /\ \A s \in Symbols : \A r \in Nat : T(r, Scaled(f, s)) = Scaled(f, T(r, s))
<1>1. CASE f = {}
  <2>1. \A s : Scaled(f, s) = {}
    BY <1>1 DEF Scaled
  <2>2. \A r \in Nat : T(r, {}) = {}
    BY OneIsSymbol, TurnsLinear
  <2>3. {} \in Symbols /\ Xor({}, {}) = {}
    BY OneIsSymbol, XorZero
  <2>4. QED
    BY <1>1, <2>1, <2>2, <2>3
<1>2. CASE f # {}
  <2> DEFINE a == INDEX_OF[f]
  <2>1. a \in Nat /\ T(a, one) = f
    BY <1>2, IndexOf, FieldSize
  <2>2. \A s : Scaled(f, s) = T(a, s)
    BY <1>2 DEF Scaled
  <2> HIDE DEF a
  <2>3. \A s \in Symbols : T(a, s) \in Symbols
    BY <2>1, TurnsNext
  <2>4. \A s, t \in Symbols : T(a, Xor(s, t)) = Xor(T(a, s), T(a, t))
    BY <2>1, TurnsLinear
  <2>5. T(a, {}) = {}
    BY <2>1, OneIsSymbol, TurnsLinear
  <2>6. \A s \in Symbols : \A r \in Nat : T(r, T(a, s)) = T(a, T(r, s))
    BY <2>1, TurnsCommute
  <2>7. QED
    BY <2>1, <2>2, <2>3, <2>4, <2>5, <2>6
<1>3. QED
  BY <1>1, <1>2

\* The items of a concatenation.
LEMMA ConcatAt ==
  ASSUME NEW S, NEW a \in Seq(S), NEW b \in Seq(S)
  PROVE  /\ a \o b \in Seq(S) /\ Len(a \o b) = Len(a) + Len(b)
         /\ \A j \in 1..Len(a) : (a \o b)[j] = a[j]
         /\ \A j \in 1..Len(b) : (a \o b)[Len(a) + j] = b[j]
OBVIOUS

\* The parity after p, for feedback f.
IsNext(next, g, p, f, n) ==
  /\ next \in Seq(Symbols) /\ Len(next) = n
  /\ next[n] = Scaled(f, g[1])
  /\ \A j \in 1..(n - 1) : next[j] = Xor(p[j + 1], Scaled(f, g[n - j + 1]))

\* A turn of the encoder, with its test for a feedback of zero, is this.
LEMMA EncodeSymbolIs ==
  ASSUME NEW n \in Nat \ {0}, NEW g \in Seq(Symbols), Len(g) = n + 1,
         \A j \in 1..(n + 1) : g[j] # {},
         NEW p \in Seq(Symbols), Len(p) = n, NEW d \in Symbols
  PROVE  Xor(d, p[1]) \in Symbols /\ IsNext(EncodeSymbol(g, p, d), g, p, Xor(d, p[1]), n)
<1> DEFINE f == Xor(d, p[1])
           feedback == INDEX_OF[f]
           term(j) == IF feedback = A0 THEN {} ELSE ALPHA_TO[modnn[feedback + INDEX_OF[g[j]]]]
           next == [j \in 1..n |-> IF j = n THEN term(1) ELSE Xor(p[j + 1], term(n - j + 1))]
<1>1. \A j \in 1..(n + 1) : g[j] \in Symbols
  OBVIOUS
<1>2. \A j \in 1..n : p[j] \in Symbols
  OBVIOUS
<1>3. f \in Symbols
  <2>1. 1 \in 1..n
    OBVIOUS
  <2>2. QED
    BY <1>2, <2>1, XorIn
<1>4. EncodeSymbol(g, p, d) = next
  BY DEF EncodeSymbol
<1> HIDE DEF f
<1>5. ASSUME NEW j \in 1..(n + 1) PROVE term(j) = Scaled(f, g[j])
  <2>1. CASE f = {}
    BY <2>1, IndexOfZero DEF Scaled
  <2>2. CASE f # {}
    <3>1. g[j] \in Symbols /\ g[j] # {}
      BY <1>1
    <3>2. INDEX_OF[f] # A0 /\ ALPHA_TO[modnn[INDEX_OF[f] + INDEX_OF[g[j]]]] = T(INDEX_OF[f], g[j])
      BY <1>3, <2>2, <3>1, ProductIs
    <3>3. QED
      BY <2>2, <3>2 DEF Scaled
  <2>3. QED
    BY <2>1, <2>2
<1> HIDE DEF term
<1>6. n \in 1..n /\ 1 \in 1..(n + 1)
  OBVIOUS
<1>7. next[n] = Scaled(f, g[1])
  BY <1>5, <1>6
<1>8. ASSUME NEW j \in 1..(n - 1) PROVE next[j] = Xor(p[j + 1], Scaled(f, g[n - j + 1]))
  <2>1. j \in 1..n /\ j # n /\ n - j + 1 \in 1..(n + 1)
    OBVIOUS
  <2>2. QED
    BY <1>5, <2>1
<1>9. ASSUME NEW j \in 1..n PROVE next[j] \in Symbols
  <2>1. CASE j = n
    BY <1>1, <1>3, <1>6, <1>7, <2>1, ScaledIs
  <2>2. CASE j # n
    <3>1. j \in 1..(n - 1) /\ j + 1 \in 1..n /\ n - j + 1 \in 1..(n + 1)
      BY <2>2
    <3>2. p[j + 1] \in Symbols /\ Scaled(f, g[n - j + 1]) \in Symbols
      BY <1>1, <1>2, <1>3, <3>1, ScaledIs
    <3> HIDE DEF next
    <3>3. QED
      BY <1>8, <3>1, <3>2, XorIn
  <2>3. QED
    BY <2>1, <2>2
<1>10. next \in Seq(Symbols) /\ Len(next) = n
  <2>1. next = [j \in 1..n |-> next[j]]
    OBVIOUS
  <2> HIDE DEF next
  <2>2. next \in [1..n -> Symbols]
    BY <1>9, <2>1
  <2>3. QED
    BY <2>2
<1> HIDE DEF next
<1>11. QED
  BY <1>3, <1>4, <1>7, <1>8, <1>10 DEF f, IsNext

\* What a turn of the encoder makes vanishes where the word before did, if the
\* generator vanishes there.
LEMMA EncodeVanishes ==
  ASSUME NEW n \in Nat \ {0}, NEW g \in Seq(Symbols), Len(g) = n + 1, g[n + 1] = one,
         \A j \in 1..(n + 1) : g[j] # {},
         NEW data \in Seq(Symbols), NEW p \in Seq(Symbols), Len(p) = n, NEW d \in Symbols,
         NEW r \in Nat, Vanishes(Word1(g), r), Vanishes(data \o p, r)
  PROVE  Vanishes(Append(data, d) \o EncodeSymbol(g, p, d), r)
<1> DEFINE m == Len(data)
           c == Word1(g)
           w == data \o p
           next == EncodeSymbol(g, p, d)
           W == Append(data, d) \o next
           f == Xor(d, p[1])
<1>1. m \in Nat /\ (\A j \in 1..(n + 1) : g[j] \in Symbols) /\ (\A j \in 1..n : p[j] \in Symbols)
  OBVIOUS
<1>2. f \in Symbols /\ IsNext(next, g, p, f, n)
  BY EncodeSymbolIs
<1>3. Len(c) = n + 1 /\ \A j \in 1..(n + 1) : c[j] = g[n + 2 - j] /\ c[j] \in Symbols
  <2>1. c = [j \in 1..(n + 1) |-> g[(n + 1) + 1 - j]]
    BY DEF Word1
  <2>2. \A j \in 1..(n + 1) : (n + 1) + 1 - j = n + 2 - j /\ n + 2 - j \in 1..(n + 1)
    OBVIOUS
  <2>3. QED
    BY <1>1, <2>1, <2>2
<1> HIDE DEF c, next, f
<1> DEFINE K(s) == Scaled(f, s)
<1>22. /\ next \in Seq(Symbols) /\ Len(next) = n
       /\ next[n] = K(g[1])
       /\ \A j \in 1..(n - 1) : next[j] = Xor(p[j + 1], K(g[n - j + 1]))
  BY <1>2 DEF IsNext
<1>4. /\ Len(w) = m + n
      /\ \A j \in 1..m : w[j] = data[j]
      /\ \A j \in 1..n : w[m + j] = p[j]
  OBVIOUS
<1>5. /\ Len(W) = m + n + 1
      /\ \A j \in 1..m : W[j] = data[j]
      /\ W[m + 1] = d
      /\ \A j \in 1..n : W[m + 1 + j] = next[j]
  <2> DEFINE D == Append(data, d)
  <2>1. D \in Seq(Symbols) /\ Len(D) = m + 1 /\ D[m + 1] = d /\ \A j \in 1..m : D[j] = data[j]
    OBVIOUS
  <2>2. W = D \o next
    OBVIOUS
  <2> HIDE DEF D, W, m
  <2>3. /\ Len(W) = (m + 1) + n
        /\ \A j \in 1..(m + 1) : W[j] = D[j]
        /\ \A j \in 1..n : W[(m + 1) + j] = next[j]
    <3>1. D \in Seq(Symbols) /\ next \in Seq(Symbols)
      BY <1>22, <2>1
    <3>2. /\ Len(D \o next) = Len(D) + Len(next)
          /\ \A j \in 1..Len(D) : (D \o next)[j] = D[j]
          /\ \A j \in 1..Len(next) : (D \o next)[Len(D) + j] = next[j]
      BY <3>1, ConcatAt
    <3>3. Len(D) = m + 1 /\ Len(next) = n
      BY <1>22, <2>1
    <3>4. QED
      BY <2>2, <3>2, <3>3
  <2>4. \A j \in 1..m : j \in 1..(m + 1)
    BY <1>1
  <2>5. m + 1 \in 1..(m + 1) /\ (m + 1) + n = m + n + 1
    BY <1>1
  <2>6. QED
    BY <2>1, <2>3, <2>4, <2>5
<1>6. PICK v : IsHorner(v, w, m + n, r) /\ v[m + n] = {}
  BY <1>4 DEF Vanishes
<1>7. PICK k : IsHorner(k, c, n + 1, r) /\ k[n + 1] = {}
  <2>1. Vanishes(c, r)
    BY DEF c
  <2>2. QED
    BY <1>3, <2>1 DEF Vanishes
<1> HIDE DEF m, w, W
<1>8. /\ \A j \in 0..(m + n) : v[j] \in Symbols
      /\ v[0] = {}
      /\ \A j \in 1..(m + n) : v[j] = Xor(T(r, v[j - 1]), w[j])
  BY <1>6 DEF IsHorner
<1>9. /\ \A j \in 0..(n + 1) : k[j] \in Symbols
      /\ k[0] = {}
      /\ \A j \in 1..(n + 1) : k[j] = Xor(T(r, k[j - 1]), c[j])
  BY <1>7 DEF IsHorner
<1>10. /\ \A s \in Symbols : K(s) \in Symbols
       /\ K({}) = {} /\ K(one) = f
       /\ \A s, t \in Symbols : K(Xor(s, t)) = Xor(K(s), K(t))
       /\ \A s \in Symbols : T(r, K(s)) = K(T(r, s))
       /\ \A s \in Symbols : T(r, s) \in Symbols
       /\ \A s, t \in Symbols : T(r, Xor(s, t)) = Xor(T(r, s), T(r, t))
       /\ T(r, {}) = {}
  <2>1. \A s \in Symbols : T(r, s) \in Symbols
    BY TurnsNext
  <2>2. \A s, t \in Symbols : T(r, Xor(s, t)) = Xor(T(r, s), T(r, t))
    BY TurnsLinear
  <2>3. T(r, {}) = {}
    BY OneIsSymbol, TurnsLinear
  <2>4. \A s \in Symbols : K(s) \in Symbols
    BY <1>2, ScaledIs
  <2>5. K({}) = {} /\ K(one) = f
    BY <1>2, ScaledIs
  <2>6. \A s, t \in Symbols : K(Xor(s, t)) = Xor(K(s), K(t))
    BY <1>2, ScaledIs
  <2>7. \A s \in Symbols : T(r, K(s)) = K(T(r, s))
    BY <1>2, ScaledIs
  <2> HIDE DEF K
  <2>8. QED
    BY <2>1, <2>2, <2>3, <2>4, <2>5, <2>6, <2>7
<1> HIDE DEF K
<1>11. \A j \in 1..(n + 1) : K(k[j]) = Xor(T(r, K(k[j - 1])), K(c[j]))
  <2>1. ASSUME NEW j \in 1..(n + 1) PROVE K(k[j]) = Xor(T(r, K(k[j - 1])), K(c[j]))
    <3>1. k[j - 1] \in Symbols /\ c[j] \in Symbols
      BY <1>3, <1>9
    <3>2. k[j] = Xor(T(r, k[j - 1]), c[j])
      BY <1>9
    <3>3. T(r, k[j - 1]) \in Symbols
      BY <1>10, <3>1
    <3>4. K(k[j]) = Xor(K(T(r, k[j - 1])), K(c[j]))
      <4>1. K(Xor(T(r, k[j - 1]), c[j])) = Xor(K(T(r, k[j - 1])), K(c[j]))
        BY <1>10, <3>1, <3>3, Zenon
      <4>2. QED
        BY <3>2, <4>1
    <3>5. K(T(r, k[j - 1])) = T(r, K(k[j - 1]))
      BY <1>10, <3>1
    <3>6. QED
      BY <3>4, <3>5
  <2>2. QED
    BY <2>1
<1> DEFINE u == [j \in 0..(m + n + 1) |-> IF j <= m THEN v[j]
                                          ELSE IF j <= m + n THEN Xor(v[j], K(k[j - m])) ELSE {}]
<1>12. u \in [0..(m + n + 1) -> Symbols]
  <2>1. ASSUME NEW j \in 0..(m + n + 1) PROVE u[j] \in Symbols
    <3>1. CASE j <= m
      BY <1>1, <1>8, <3>1
    <3>2. CASE j > m /\ j <= m + n
      <4>1. j \in 0..(m + n) /\ j - m \in 0..(n + 1)
        BY <1>1, <3>2
      <4>2. v[j] \in Symbols /\ K(k[j - m]) \in Symbols
        BY <1>8, <1>9, <1>10, <4>1
      <4>3. u[j] = Xor(v[j], K(k[j - m]))
        BY <1>1, <3>2
      <4> HIDE DEF u
      <4>4. QED
        BY <4>2, <4>3, XorIn
    <3>3. CASE j > m + n
      BY <1>1, <3>3, OneIsSymbol
    <3>4. QED
      BY <1>1, <3>1, <3>2, <3>3
  <2>2. u = [j \in 0..(m + n + 1) |-> u[j]]
    OBVIOUS
  <2> HIDE DEF u
  <2>3. QED
    BY <2>1, <2>2
<1>13. /\ \A j \in 0..m : u[j] = v[j]
       /\ \A j \in 1..n : u[m + j] = Xor(v[m + j], K(k[j]))
       /\ u[m + n + 1] = {}
  <2>1. \A j \in 0..m : u[j] = v[j]
    BY <1>1
  <2>2. ASSUME NEW j \in 1..n PROVE u[m + j] = Xor(v[m + j], K(k[j]))
    <3>1. m + j \in 0..(m + n + 1) /\ ~(m + j <= m) /\ m + j <= m + n /\ (m + j) - m = j
      BY <1>1
    <3>2. u[m + j] = Xor(v[m + j], K(k[(m + j) - m]))
      BY <3>1
    <3>3. QED
      BY <3>1, <3>2
  <2>3. u[m + n + 1] = {}
    BY <1>1
  <2> HIDE DEF u
  <2>4. QED
    BY <2>1, <2>2, <2>3
<1> HIDE DEF u
<1>14. ASSUME NEW j \in 1..m PROVE u[j] = Xor(T(r, u[j - 1]), W[j])
  <2>1. j \in 0..m /\ j - 1 \in 0..m /\ j \in 1..(m + n)
    BY <1>1
  <2>2. u[j] = v[j] /\ u[j - 1] = v[j - 1]
    BY <1>13, <2>1
  <2>3. v[j] = Xor(T(r, v[j - 1]), w[j])
    BY <1>8, <2>1
  <2>4. w[j] = W[j]
    BY <1>4, <1>5
  <2>5. QED
    BY <2>2, <2>3, <2>4
<1>15. u[m + 1] = Xor(T(r, u[m]), W[m + 1])
  <2>1. 1 \in 1..n /\ 1 \in 1..(n + 1) /\ m \in 0..m /\ m + 1 \in 1..(m + n) /\ (m + 1) - 1 = m /\ 1 - 1 = 0
        /\ m \in 0..(m + n) /\ n + 2 - 1 = n + 1
    <3>1. 1 \in 1..n /\ 1 \in 1..(n + 1) /\ 1 - 1 = 0 /\ n + 2 - 1 = n + 1
      OBVIOUS
    <3>2. m \in 0..m /\ (m + 1) - 1 = m /\ m \in 0..(m + n)
      BY <1>1
    <3>3. m + 1 \in 1..(m + n)
      BY <1>1
    <3>4. QED
      BY <3>1, <3>2, <3>3
  <2> DEFINE a == T(r, v[m])
             b == p[1]
  <2>2. a \in Symbols /\ b \in Symbols
    BY <1>1, <1>8, <1>10, <2>1
  <2>3. v[m + 1] = Xor(a, b)
    BY <1>4, <1>8, <2>1
  <2>4. K(k[1]) = f
    <3>1. c[1] = one
      BY <1>3, <2>1
    <3>2. K(k[1]) = Xor(T(r, K({})), K(one))
      BY <1>9, <1>11, <2>1, <3>1
    <3>3. K(k[1]) = Xor({}, f)
      BY <1>10, <3>2
    <3>4. QED
      BY <1>2, <3>3, XorZero
  <2>5. u[m + 1] = Xor(Xor(a, b), Xor(d, b))
    BY <1>13, <2>1, <2>3, <2>4 DEF f
  <2>6. u[m] = v[m] /\ W[m + 1] = d
    BY <1>5, <1>13, <2>1
  <2> HIDE DEF a, b
  <2>7. Xor(Xor(a, b), Xor(d, b)) = Xor(a, d)
    BY DEF Xor
  <2>8. QED
    BY <2>5, <2>6, <2>7 DEF a
<1>16. ASSUME NEW j \in 2..n PROVE u[m + j] = Xor(T(r, u[m + j - 1]), W[m + j])
  <2>1. /\ j \in 1..n /\ j - 1 \in 1..n /\ j - 1 \in 1..(n - 1) /\ j \in 1..(n + 1) /\ j - 1 \in 0..(n + 1)
        /\ m + (j - 1) = m + j - 1 /\ m + 1 + (j - 1) = m + j
        /\ m + j \in 1..(m + n) /\ (m + j) - 1 = m + j - 1 /\ m + j - 1 \in 0..(m + n)
        /\ (j - 1) + 1 = j /\ n - (j - 1) + 1 = n + 2 - j
    BY <1>1
  <2> DEFINE a == T(r, v[m + j - 1])
             b == T(r, K(k[j - 1]))
             e == p[j]
             h == K(c[j])
  <2>2. W[m + j] = Xor(e, h)
    <3>1. W[m + 1 + (j - 1)] = next[j - 1]
      BY <1>5, <2>1
    <3>2. next[j - 1] = Xor(p[(j - 1) + 1], K(g[n - (j - 1) + 1]))
      BY <1>22, <2>1 DEF K
    <3>3. c[j] = g[n + 2 - j]
      BY <1>3, <2>1
    <3>4. QED
      BY <2>1, <3>1, <3>2, <3>3
  <2>3. T(r, u[m + j - 1]) = Xor(a, b)
    <3>1. u[m + (j - 1)] = Xor(v[m + (j - 1)], K(k[j - 1]))
      BY <1>13, <2>1
    <3>2. v[m + j - 1] \in Symbols /\ K(k[j - 1]) \in Symbols
      BY <1>8, <1>9, <1>10, <2>1
    <3>3. u[m + j - 1] = Xor(v[m + j - 1], K(k[j - 1]))
      BY <2>1, <3>1
    <3>4. T(r, Xor(v[m + j - 1], K(k[j - 1]))) = Xor(T(r, v[m + j - 1]), T(r, K(k[j - 1])))
      BY <1>10, <3>2, Zenon
    <3>5. QED
      BY <3>3, <3>4
  <2>4. v[m + j] = Xor(a, e)
    BY <1>4, <1>8, <2>1
  <2>5. K(k[j]) = Xor(b, h)
    BY <1>11, <2>1
  <2>6. u[m + j] = Xor(Xor(a, e), Xor(b, h))
    BY <1>13, <2>1, <2>4, <2>5
  <2> HIDE DEF a, b, e, h
  <2>7. Xor(Xor(a, e), Xor(b, h)) = Xor(Xor(a, b), Xor(e, h))
    BY DEF Xor
  <2>8. QED
    BY <2>2, <2>3, <2>6, <2>7
<1>17. u[m + n + 1] = Xor(T(r, u[m + n]), W[m + n + 1])
  <2>1. /\ n \in 1..n /\ n + 1 \in 1..(n + 1) /\ (n + 1) - 1 = n /\ n + 2 - (n + 1) = 1 /\ n \in 0..(n + 1)
        /\ m + 1 + n = m + n + 1 /\ m + n \in 0..(m + n)
    BY <1>1
  <2>2. u[m + n] = Xor({}, K(k[n])) /\ K(k[n]) \in Symbols
    BY <1>6, <1>9, <1>10, <1>13, <2>1
  <2>3. u[m + n] = K(k[n])
    BY <2>2, XorZero
  <2>4. W[m + n + 1] = K(c[n + 1])
    <3>1. W[m + 1 + n] = next[n]
      BY <1>5, <2>1
    <3>2. next[n] = K(g[1])
      BY <1>22 DEF K
    <3>3. c[n + 1] = g[1]
      BY <1>3, <2>1
    <3>4. QED
      BY <2>1, <3>1, <3>2, <3>3
  <2>5. K(k[n + 1]) = Xor(T(r, K(k[n])), K(c[n + 1]))
    BY <1>11, <2>1
  <2>6. K(k[n + 1]) = {}
    BY <1>7, <1>10
  <2>7. QED
    BY <1>13, <2>3, <2>4, <2>5, <2>6
<1>18. \A j \in 1..(m + n + 1) : u[j] = Xor(T(r, u[j - 1]), W[j])
  <2>1. ASSUME NEW j \in 1..(m + n + 1) PROVE u[j] = Xor(T(r, u[j - 1]), W[j])
    <3>1. CASE j <= m
      <4>1. j \in 1..m
        BY <1>1, <3>1
      <4>2. QED
        BY <1>14, <4>1
    <3>2. CASE j = m + 1
      <4>1. j - 1 = m
        BY <1>1, <3>2
      <4>2. QED
        BY <1>15, <3>2, <4>1
    <3>3. CASE j > m + 1 /\ j <= m + n
      <4>1. j - m \in 2..n /\ m + (j - m) = j
        BY <1>1, <3>3
      <4>3. m + (j - m) - 1 = j - 1
        BY <1>1
      <4>2. u[m + (j - m)] = Xor(T(r, u[m + (j - m) - 1]), W[m + (j - m)])
        BY <1>16, <4>1
      <4>4. QED
        BY <4>1, <4>2, <4>3
    <3>4. CASE j = m + n + 1
      <4>1. j - 1 = m + n
        BY <1>1, <3>4
      <4>2. QED
        BY <1>17, <3>4, <4>1
    <3>5. QED
      BY <1>1, <3>1, <3>2, <3>3, <3>4
  <2>2. QED
    BY <2>1
<1>19. u[0] = {}
  <2>1. 0 \in 0..m
    BY <1>1
  <2>2. QED
    BY <1>8, <1>13, <2>1
<1>20. IsHorner(u, W, m + n + 1, r)
  BY <1>12, <1>18, <1>19 DEF IsHorner
<1>21. QED
  BY <1>5, <1>13, <1>20 DEF Vanishes, W, next

-----------------------------------------------------------------------------
(* Blocks.                                                                 *)

\* The block table cuts the data of version v at level number i: the long
\* blocks, one byte longer, are as many as the bytes left over.
Fits(v, i) ==
  LET b == eccTable[v][i]
      n == b[1] + b[2]
      D == capacityWords[v] - capacityEcc[v][i]
  IN  /\ b[1] \in Nat /\ b[2] \in Nat /\ D \in Nat /\ n \in 1..D /\ D % n = b[2]
      /\ capacityEcc[v][i] \in Nat

\* So it is for all forty versions, at the four levels.
LEMMA TableFits == \A v \in Versions : \A i \in 1..4 : Fits(v, i)
<1>1. \A i \in 1..4 : Fits(1, i)
  BY SMTT(30) DEF Fits, eccTable, capacityWords, capacityEcc
<1>2. \A i \in 1..4 : Fits(2, i)
  BY SMTT(30) DEF Fits, eccTable, capacityWords, capacityEcc
<1>3. \A i \in 1..4 : Fits(3, i)
  BY SMTT(30) DEF Fits, eccTable, capacityWords, capacityEcc
<1>4. \A i \in 1..4 : Fits(4, i)
  BY SMTT(30) DEF Fits, eccTable, capacityWords, capacityEcc
<1>5. \A i \in 1..4 : Fits(5, i)
  BY SMTT(30) DEF Fits, eccTable, capacityWords, capacityEcc
<1>6. \A i \in 1..4 : Fits(6, i)
  BY SMTT(30) DEF Fits, eccTable, capacityWords, capacityEcc
<1>7. \A i \in 1..4 : Fits(7, i)
  BY SMTT(30) DEF Fits, eccTable, capacityWords, capacityEcc
<1>8. \A i \in 1..4 : Fits(8, i)
  BY SMTT(30) DEF Fits, eccTable, capacityWords, capacityEcc
<1>9. \A i \in 1..4 : Fits(9, i)
  BY SMTT(30) DEF Fits, eccTable, capacityWords, capacityEcc
<1>10. \A i \in 1..4 : Fits(10, i)
  BY SMTT(30) DEF Fits, eccTable, capacityWords, capacityEcc
<1>11. \A i \in 1..4 : Fits(11, i)
  BY SMTT(30) DEF Fits, eccTable, capacityWords, capacityEcc
<1>12. \A i \in 1..4 : Fits(12, i)
  BY SMTT(30) DEF Fits, eccTable, capacityWords, capacityEcc
<1>13. \A i \in 1..4 : Fits(13, i)
  BY SMTT(30) DEF Fits, eccTable, capacityWords, capacityEcc
<1>14. \A i \in 1..4 : Fits(14, i)
  BY SMTT(30) DEF Fits, eccTable, capacityWords, capacityEcc
<1>15. \A i \in 1..4 : Fits(15, i)
  BY SMTT(30) DEF Fits, eccTable, capacityWords, capacityEcc
<1>16. \A i \in 1..4 : Fits(16, i)
  BY SMTT(30) DEF Fits, eccTable, capacityWords, capacityEcc
<1>17. \A i \in 1..4 : Fits(17, i)
  BY SMTT(30) DEF Fits, eccTable, capacityWords, capacityEcc
<1>18. \A i \in 1..4 : Fits(18, i)
  BY SMTT(30) DEF Fits, eccTable, capacityWords, capacityEcc
<1>19. \A i \in 1..4 : Fits(19, i)
  BY SMTT(30) DEF Fits, eccTable, capacityWords, capacityEcc
<1>20. \A i \in 1..4 : Fits(20, i)
  BY SMTT(30) DEF Fits, eccTable, capacityWords, capacityEcc
<1>21. \A i \in 1..4 : Fits(21, i)
  BY SMTT(30) DEF Fits, eccTable, capacityWords, capacityEcc
<1>22. \A i \in 1..4 : Fits(22, i)
  BY SMTT(30) DEF Fits, eccTable, capacityWords, capacityEcc
<1>23. \A i \in 1..4 : Fits(23, i)
  BY SMTT(30) DEF Fits, eccTable, capacityWords, capacityEcc
<1>24. \A i \in 1..4 : Fits(24, i)
  BY SMTT(30) DEF Fits, eccTable, capacityWords, capacityEcc
<1>25. \A i \in 1..4 : Fits(25, i)
  BY SMTT(30) DEF Fits, eccTable, capacityWords, capacityEcc
<1>26. \A i \in 1..4 : Fits(26, i)
  BY SMTT(30) DEF Fits, eccTable, capacityWords, capacityEcc
<1>27. \A i \in 1..4 : Fits(27, i)
  BY SMTT(30) DEF Fits, eccTable, capacityWords, capacityEcc
<1>28. \A i \in 1..4 : Fits(28, i)
  BY SMTT(30) DEF Fits, eccTable, capacityWords, capacityEcc
<1>29. \A i \in 1..4 : Fits(29, i)
  BY SMTT(30) DEF Fits, eccTable, capacityWords, capacityEcc
<1>30. \A i \in 1..4 : Fits(30, i)
  BY SMTT(30) DEF Fits, eccTable, capacityWords, capacityEcc
<1>31. \A i \in 1..4 : Fits(31, i)
  BY SMTT(30) DEF Fits, eccTable, capacityWords, capacityEcc
<1>32. \A i \in 1..4 : Fits(32, i)
  BY SMTT(30) DEF Fits, eccTable, capacityWords, capacityEcc
<1>33. \A i \in 1..4 : Fits(33, i)
  BY SMTT(30) DEF Fits, eccTable, capacityWords, capacityEcc
<1>34. \A i \in 1..4 : Fits(34, i)
  BY SMTT(30) DEF Fits, eccTable, capacityWords, capacityEcc
<1>35. \A i \in 1..4 : Fits(35, i)
  BY SMTT(30) DEF Fits, eccTable, capacityWords, capacityEcc
<1>36. \A i \in 1..4 : Fits(36, i)
  BY SMTT(30) DEF Fits, eccTable, capacityWords, capacityEcc
<1>37. \A i \in 1..4 : Fits(37, i)
  BY SMTT(30) DEF Fits, eccTable, capacityWords, capacityEcc
<1>38. \A i \in 1..4 : Fits(38, i)
  BY SMTT(30) DEF Fits, eccTable, capacityWords, capacityEcc
<1>39. \A i \in 1..4 : Fits(39, i)
  BY SMTT(30) DEF Fits, eccTable, capacityWords, capacityEcc
<1>40. \A i \in 1..4 : Fits(40, i)
  BY SMTT(30) DEF Fits, eccTable, capacityWords, capacityEcc
<1>41. Versions = {1, 2, 3, 4, 5, 6, 7, 8, 9, 10, 11, 12, 13, 14, 15, 16, 17, 18, 19, 20,
                    21, 22, 23, 24, 25, 26, 27, 28, 29, 30, 31, 32, 33, 34, 35, 36, 37, 38, 39, 40}
  BY DEF Versions, VersionMax
<1>42. QED
  BY <1>1, <1>2, <1>3, <1>4, <1>5, <1>6, <1>7, <1>8, <1>9, <1>10, <1>11,
     <1>12, <1>13, <1>14, <1>15, <1>16, <1>17, <1>18, <1>19, <1>20, <1>21, <1>22, <1>23,
     <1>24, <1>25, <1>26, <1>27, <1>28, <1>29, <1>30, <1>31, <1>32, <1>33, <1>34, <1>35,
     <1>36, <1>37, <1>38, <1>39, <1>40, <1>41

\* n blocks, the last b of them one longer, take D bytes and no more.
LEMMA Layout ==
  ASSUME NEW a \in Nat, NEW b \in Nat, NEW D \in Nat, a + b \in 1..D, D % (a + b) = b
  PROVE  LET d == D \div (a + b)
         IN  /\ d \in Nat \ {0}
             /\ \A r \in 0..(a - 1) : r * d \in Nat /\ r * d + d <= D
             /\ \A r \in a..(a + b - 1) : /\ a * d + (r - a) * (d + 1) \in Nat
                                         /\ a * d + (r - a) * (d + 1) + (d + 1) <= D
<1> DEFINE n == a + b
           d == D \div n
<1>1. n \in Nat \ {0} /\ d \in Nat /\ D = n * d + b /\ d >= 1
  <2>1. n \in Nat \ {0} /\ d \in Nat /\ D = n * d + (D % n) /\ D >= n
    OBVIOUS
  <2> HIDE DEF d
  <2>2. b < n \/ d >= 1
    BY <2>1
  <2>3. d # 0
    <3>1. ASSUME d = 0 PROVE FALSE
      <4>1. D = D % n /\ D % n < n
        BY <2>1, <3>1
      <4>2. QED
        BY <2>1, <4>1
    <3>2. QED
      BY <3>1
  <2>4. QED
    BY <2>1, <2>3
<1>2. n * d = a * d + b * d
  BY <1>1
<1> HIDE DEF d
<1>3. ASSUME NEW r \in 0..(a - 1) PROVE r * d \in Nat /\ r * d + d <= D
  <2>1. r * d \in Nat /\ (a - 1 - r) * d \in Nat /\ b * d \in Nat
    BY <1>1
  <2>2. a * d = r * d + d + (a - 1 - r) * d
    BY <1>1
  <2>3. QED
    BY <1>1, <1>2, <2>1, <2>2
<1>4. ASSUME NEW r \in a..(a + b - 1)
      PROVE  /\ a * d + (r - a) * (d + 1) \in Nat
             /\ a * d + (r - a) * (d + 1) + (d + 1) <= D
  <2>1. PICK q \in 0..(b - 1) : q = r - a
    OBVIOUS
  <2>2. a * d \in Nat /\ q * (d + 1) \in Nat /\ (b - 1 - q) * (d + 1) \in Nat
    BY <1>1, <2>1
  <2>3. b * d + b = q * (d + 1) + (d + 1) + (b - 1 - q) * (d + 1)
    BY <1>1, <2>1
  <2>4. QED
    BY <1>1, <1>2, <2>1, <2>2, <2>3
<1>5. QED
  BY <1>1, <1>3, <1>4 DEF d

\* Block r lies in the data.
BlockIn(k, r) == /\ BlockStart(k, r) \in Nat /\ BlockLength(k, r) \in Nat \ {0}
                 /\ BlockStart(k, r) + BlockLength(k, r) <= DataLen(k)

\* The blocks of a symbol lie in its data, and there is one at least.
LEMMA BlocksIn ==
  ASSUME NEW k \in Kinds
  PROVE  /\ DataLen(k) \in Nat
         /\ EccPerBlock(k) \in Nat /\ EccPerBlock(k) \in EccLengths
         /\ EccPerBlock(k) # 0 =>
              /\ Blocks(k) \in Nat \ {0}
              /\ \A r \in 0..(Blocks(k) - 1) : BlockIn(k, r)
<1> DEFINE i == LevelIndex(k.level)
<1>1. /\ k.mqr \in BOOLEAN /\ k.level \in Levels
      /\ k.mqr => k.version \in MVersions
      /\ ~k.mqr => k.version \in Versions
  BY KindsAssumption
<1>2. i \in 1..4
  BY <1>1 DEF LevelIndex, Levels
<1>3. CASE ~k.mqr
  <2> DEFINE a == eccTable[k.version][i][1]
             b == eccTable[k.version][i][2]
             D == capacityWords[k.version] - capacityEcc[k.version][i]
             E == capacityEcc[k.version][i]
             d == D \div (a + b)
  <2>1. a \in Nat /\ b \in Nat /\ D \in Nat /\ a + b \in 1..D
         /\ D % (a + b) = b /\ E \in Nat
    BY <1>1, <1>2, <1>3, TableFits DEF Fits
  <2>2. D = DataLen(k)
    BY <1>3 DEF DataLen, DataLength, ECCLength
  <2>3. Spec5(k) = [b1 |-> a, d1 |-> d, e |-> E \div (a + b), b2 |-> b,
                    d2 |-> IF b = 0 THEN 0 ELSE d + 1]
    BY <1>3 DEF Spec5, EccSpec, DataLength, ECCLength
  <2>4. EccPerBlock(k) \in EccLengths
    BY <1>1, <1>3 DEF EccPerBlock, Spec5, EccLengths
  <2> HIDE DEF a, b, D, E, i
  <2>5. D \in Nat
    BY <2>1
  <2>6. EccPerBlock(k) \in Nat
    BY <2>1, <2>3 DEF EccPerBlock
  <2>7. Blocks(k) = a + b
    BY <2>3 DEF Blocks
  <2>8. /\ d \in Nat \ {0}
        /\ \A r \in 0..(a - 1) : r * d \in Nat /\ r * d + d <= D
        /\ \A r \in a..(a + b - 1) : /\ a * d + (r - a) * (d + 1) \in Nat
                                    /\ a * d + (r - a) * (d + 1) + (d + 1) <= D
    BY <2>1, <2>5, Layout
  <2> HIDE DEF d
  <2>9. ASSUME NEW r \in 0..(a + b - 1) PROVE BlockIn(k, r)
    <3>1. CASE r < a
      <4>1. BlockStart(k, r) = r * d /\ BlockLength(k, r) = d
        BY <2>3, <3>1 DEF BlockStart, BlockLength
      <4>2. r \in 0..(a - 1)
        BY <2>1, <3>1
      <4>3. QED
        BY <2>2, <2>8, <4>1, <4>2 DEF BlockIn
    <3>2. CASE ~(r < a)
      <4>1. r \in a..(a + b - 1) /\ b # 0
        BY <2>1, <3>2
      <4>2. BlockStart(k, r) = a * d + (r - a) * (d + 1) /\ BlockLength(k, r) = d + 1
        BY <2>3, <3>2, <4>1 DEF BlockStart, BlockLength
      <4>3. QED
        BY <2>2, <2>8, <4>1, <4>2 DEF BlockIn
    <3>3. QED
      BY <3>1, <3>2
  <2>10. QED
    BY <2>1, <2>2, <2>4, <2>5, <2>6, <2>7, <2>9
<1>4. CASE k.mqr
  <2> DEFINE D == MDataLength(k.version, k.level)
             E == MECCLength(k.version, k.level)
  <2>1. D \in Nat /\ E \in Nat /\ (E # 0 => D # 0)
    <3>1. k.version \in {1, 2, 3, 4}
      BY <1>1, <1>4 DEF MVersions, MVersionMax
    <3>2. QED
      BY <1>2, <3>1 DEF MDataLength, MDataLengthBit, MECCLength, mqrspecEcc, MWidth
  <2>2. DataLen(k) = D /\ EccLen(k) = E
    BY <1>4 DEF DataLen, EccLen
  <2>3. Spec5(k) = [b1 |-> 1, d1 |-> D, e |-> E, b2 |-> 0, d2 |-> 0]
    BY <1>4, <2>2 DEF Spec5
  <2>4. E \in EccLengths
    BY <1>1, <1>4 DEF EccLengths
  <2> HIDE DEF D, E
  <2>5. EccPerBlock(k) = E /\ Blocks(k) = 1
    BY <2>3 DEF EccPerBlock, Blocks
  <2>6. ASSUME E # 0, NEW r \in 0..0 PROVE BlockIn(k, r)
    <3>1. BlockStart(k, r) = 0 /\ BlockLength(k, r) = D
      <4>1. r = 0
        OBVIOUS
      <4>2. QED
        BY <2>1, <2>3, <4>1 DEF BlockStart, BlockLength
    <3>2. QED
      BY <2>1, <2>2, <2>6, <3>1 DEF BlockIn
  <2>7. QED
    BY <2>1, <2>2, <2>4, <2>5, <2>6
<1>5. QED
  BY <1>1, <1>3, <1>4

-----------------------------------------------------------------------------
(* The words the encoder makes.                                            *)

\* Every block encoded so far, in every state.
EveryBlockDone ==
  EccPerBlock(kind) # 0 =>
    \A r \in 0..(Len(ecccode) - 1) : IsCodeword(DataOf(r) \o ecccode[r + 1], EccPerBlock(kind))

\* The inductive invariant.  The generator has the roots taken so far, and all of
\* them once encoding starts; the data fed and the parity are then a word of the
\* code, whatever the data.  A block without error correction would have no roots,
\* and nothing is said of it; no kind of symbol has one.
Encoding ==
  /\ kind \in Kinds
  /\ datacode \in [1..DataLen(kind) -> Symbols]
  /\ EccPerBlock(kind) # 0 =>
       /\ Len(gen) \in 1..(EccPerBlock(kind) + 1) /\ gen = Generator[Len(gen) - 1]
       /\ pc = "generator" => fed = 0 /\ parity = Zeros(kind) /\ ecccode = << >>
       /\ pc = "encode" =>
            LET start == BlockStart(kind, Len(ecccode))
            IN  /\ Len(gen) = EccPerBlock(kind) + 1
                /\ Len(ecccode) < Blocks(kind)
                /\ fed \in 0..(BlockLength(kind, Len(ecccode)) - 1)
                /\ parity \in Seq(Symbols) /\ Len(parity) = EccPerBlock(kind)
                /\ IsCodeword(SubSeq(datacode, start + 1, start + fed) \o parity,
                              EccPerBlock(kind))
       /\ ecccode \in Seq(Seq(Symbols))
       /\ EveryBlockDone

\* The half codeword of Micro QR is a symbol too.
LEMMA SymbolsAreSets == {} \in Symbols /\ \A s \in Symbols : \A t : s \intersect t \in Symbols
BY DEF Symbols

\* The stream repeats the payload.
LEMMA StreamIs ==
  ASSUME NEW k \in Kinds, NEW p \in Payloads
  PROVE  Stream(k, p) \in [1..DataLen(k) -> Symbols]
<1>1. p \in Seq(Symbols) /\ p # << >>
  BY PayloadsAssumption
<1>2. Len(p) \in Nat \ {0}
  BY <1>1
<1>3. DataLen(k) \in Nat
  BY BlocksIn
<1>4. ASSUME NEW i \in 1..DataLen(k) PROVE p[((i - 1) % Len(p)) + 1] \in Symbols
  <2>1. i - 1 \in Nat
    BY <1>3
  <2>2. (i - 1) % Len(p) \in 0..(Len(p) - 1)
    BY <1>2, <2>1
  <2>3. ((i - 1) % Len(p)) + 1 \in 1..Len(p)
    BY <1>2, <2>2
  <2>4. QED
    BY <1>1, <2>3
<1> DEFINE byte(i) == p[((i - 1) % Len(p)) + 1]
<1> HIDE DEF byte
<1>5. ASSUME NEW i \in 1..DataLen(k), NEW t PROVE byte(i) \in Symbols /\ byte(i) \intersect t \in Symbols
  BY <1>4, SymbolsAreSets DEF byte
<1>6. Stream(k, p) = [i \in 1..DataLen(k) |->
         IF i = DataLen(k) /\ OddBits(k) # 0 THEN byte(i) \intersect 0..(OddBits(k) - 1) ELSE byte(i)]
  BY DEF Stream, byte
<1>7. QED
  BY <1>5, <1>6

\* A word of zeros vanishes everywhere.
LEMMA ZerosVanish ==
  ASSUME NEW w \in Seq(Symbols), \A j \in 1..Len(w) : w[j] = {}, NEW r \in Nat
  PROVE  Vanishes(w, r)
<1> DEFINE n == Len(w)
           v == [j \in 0..n |-> {}]
<1>1. n \in Nat
  OBVIOUS
<1>2. T(r, {}) = {}
  BY OneIsSymbol, TurnsLinear
<1>3. \A j \in 1..n : v[j] = {} /\ v[j - 1] = {}
  BY <1>1
<1>4. v \in [0..n -> Symbols] /\ v[0] = {} /\ v[n] = {}
  BY <1>1, OneIsSymbol
<1> HIDE DEF v
<1>5. \A j \in 1..n : v[j] = Xor(T(r, v[j - 1]), w[j])
  BY <1>2, <1>3, OneIsSymbol, XorZero
<1>6. QED
  BY <1>4, <1>5 DEF IsHorner, Vanishes

\* A word whose value is zero vanishes, and the other way round.
LEMMA CodewordIs ==
  ASSUME NEW w \in Seq(Symbols), NEW n \in Nat
  PROVE  /\ \A i \in 0..(n - 1) : (Fcr + i) * Prim \in Nat
         /\ IsCodeword(w, n) <=> \A i \in 0..(n - 1) : Vanishes(w, (Fcr + i) * Prim)
<1>1. ASSUME NEW i \in 0..(n - 1) PROVE (Fcr + i) * Prim \in Nat
  <2>1. Fcr + i \in Nat /\ Prim \in Nat
    BY FieldAssumption
  <2>2. QED
    BY <2>1
<1>2. ASSUME NEW i \in 0..(n - 1)
      PROVE  ValueAt(w, (Fcr + i) * Prim) = {} <=> Vanishes(w, (Fcr + i) * Prim)
  <2> DEFINE r == (Fcr + i) * Prim
  <2>1. r \in Nat
    BY <1>1
  <2> HIDE DEF r
  <2>2. ValueAt(w, r) = {} => Vanishes(w, r)
    BY <2>1, ValueIs DEF Vanishes
  <2>3. Vanishes(w, r) => ValueAt(w, r) = {}
    BY <2>1, ValueVanishes
  <2>4. QED
    BY <2>2, <2>3 DEF r
<1>3. QED
  BY <1>1, <1>2 DEF IsCodeword

\* A cut of the data of a block.
LEMMA CutIs ==
  ASSUME NEW n \in Nat, NEW s \in [1..n -> Symbols], NEW a \in Nat, NEW c \in Nat, a + c <= n
  PROVE  /\ SubSeq(s, a + 1, a + c) \in Seq(Symbols) /\ Len(SubSeq(s, a + 1, a + c)) = c
         /\ \A j \in 1..c : SubSeq(s, a + 1, a + c)[j] = s[a + j]
         /\ a + c + 1 <= n =>
              /\ s[a + c + 1] \in Symbols
              /\ SubSeq(s, a + 1, a + (c + 1)) = Append(SubSeq(s, a + 1, a + c), s[a + c + 1])
<1>1. s \in Seq(Symbols) /\ Len(s) = n
  OBVIOUS
<1>2. /\ SubSeq(s, a + 1, a + c) \in Seq(Symbols) /\ Len(SubSeq(s, a + 1, a + c)) = c
      /\ \A j \in 1..c : SubSeq(s, a + 1, a + c)[j] = s[a + j]
  BY <1>1
<1>3. ASSUME a + c + 1 <= n
      PROVE  /\ s[a + c + 1] \in Symbols
             /\ SubSeq(s, a + 1, a + (c + 1)) = Append(SubSeq(s, a + 1, a + c), s[a + c + 1])
  <2> DEFINE u == SubSeq(s, a + 1, a + (c + 1))
             t == Append(SubSeq(s, a + 1, a + c), s[a + c + 1])
  <2>1. s[a + c + 1] \in Symbols
    BY <1>1, <1>3
  <2>2. u \in Seq(Symbols) /\ Len(u) = c + 1 /\ \A j \in 1..(c + 1) : u[j] = s[a + j]
    BY <1>1, <1>3
  <2>3. t \in Seq(Symbols) /\ Len(t) = c + 1
    BY <1>2, <2>1
  <2>4. \A j \in 1..(c + 1) : t[j] = s[a + j]
    <3>1. ASSUME NEW j \in 1..(c + 1) PROVE t[j] = s[a + j]
      <4>1. CASE j = c + 1
        BY <1>2, <2>1, <4>1
      <4>2. CASE j # c + 1
        <5>1. j \in 1..c
          BY <4>2
        <5>2. QED
          BY <1>2, <2>1, <5>1
      <4>3. QED
        BY <4>1, <4>2
    <3>2. QED
      BY <3>1
  <2> HIDE DEF u, t
  <2>5. u = t
    BY <2>2, <2>3, <2>4
  <2>6. QED
    BY <2>1, <2>5 DEF u, t
<1>4. QED
  BY <1>2, <1>3

\* The roots of the generator are those a word of the code needs, and no
\* coefficient of it is zero.
LEMMA GeneratorOf ==
  ASSUME NEW k \in Kinds, EccPerBlock(k) # 0
  PROVE  LET E == EccPerBlock(k)
             g == Generator[E]
         IN  /\ g \in Seq(Symbols) /\ Len(g) = E + 1 /\ g[E + 1] = one
             /\ \A j \in 1..(E + 1) : g[j] # {}
             /\ \A i \in 0..(E - 1) : Vanishes(Word1(g), (Fcr + i) * Prim)
<1>1. EccPerBlock(k) \in Nat /\ EccPerBlock(k) \in EccLengths
  BY BlocksIn
<1>2. QED
  BY <1>1, GeneratorVanishes, GeneratorAssumption

\* Parity starts as zeros, which are a word of the code.
LEMMA ZerosAre ==
  ASSUME NEW k \in Kinds
  PROVE  /\ Zeros(k) \in Seq(Symbols) /\ Len(Zeros(k)) = EccPerBlock(k)
         /\ \A s \in [1..DataLen(k) -> Symbols] : \A a \in 0..DataLen(k) :
              IsCodeword(SubSeq(s, a + 1, a + 0) \o Zeros(k), EccPerBlock(k))
<1> DEFINE E == EccPerBlock(k)
           z == Zeros(k)
<1>1. E \in Nat /\ DataLen(k) \in Nat
  BY BlocksIn
<1>2. z = [i \in 1..E |-> {}]
  BY DEF Zeros
<1> HIDE DEF E, z
<1>3. z \in Seq(Symbols) /\ Len(z) = E /\ \A j \in 1..Len(z) : z[j] = {}
  BY <1>1, <1>2, OneIsSymbol
<1>4. ASSUME NEW s \in [1..DataLen(k) -> Symbols], NEW a \in 0..DataLen(k)
      PROVE  IsCodeword(SubSeq(s, a + 1, a + 0) \o z, E)
  <2>1. SubSeq(s, a + 1, a + 0) = << >>
    <3>1. SubSeq(s, a + 1, a + 0) \in Seq(Symbols) /\ Len(SubSeq(s, a + 1, a + 0)) = 0
      BY <1>1, CutIs
    <3>2. QED
      BY <3>1
  <2>2. SubSeq(s, a + 1, a + 0) \o z = z
    BY <1>3, <2>1
  <2>3. \A i \in 0..(E - 1) : (Fcr + i) * Prim \in Nat
    BY <1>1, <1>3, CodewordIs
  <2>4. \A i \in 0..(E - 1) : Vanishes(z, (Fcr + i) * Prim)
    BY <1>3, <2>3, ZerosVanish
  <2>5. QED
    BY <1>1, <1>3, <2>2, <2>4, CodewordIs
<1>5. QED
  BY <1>3, <1>4 DEF E, z

LEMMA EncodingInit == Init => Encoding
<1> SUFFICES ASSUME Init PROVE Encoding
  OBVIOUS
<1> USE DEF Init
<1>1. kind \in Kinds /\ datacode \in [1..DataLen(kind) -> Symbols]
  BY StreamIs
<1>2. EccPerBlock(kind) \in Nat
  BY <1>1, BlocksIn
<1>3. gen = <<one>> /\ Len(gen) = 1
  BY DEF one
<1>4. Len(gen) \in 1..(EccPerBlock(kind) + 1) /\ gen = Generator[Len(gen) - 1]
  <2>1. Len(gen) - 1 = 0 /\ Len(gen) = 1
    BY <1>3
  <2>2. 1 \in 1..(EccPerBlock(kind) + 1)
    BY <1>2
  <2>3. gen = Generator[0]
    BY <1>3, GeneratorIs
  <2>4. QED
    BY <2>1, <2>2, <2>3
<1>5. ecccode \in Seq(Seq(Symbols)) /\ Len(ecccode) = 0
  OBVIOUS
<1>6. EveryBlockDone
  BY <1>5 DEF EveryBlockDone
<1>7. pc = "generator" /\ fed = 0 /\ parity = Zeros(kind) /\ ecccode = << >>
  OBVIOUS
<1>8. QED
  BY <1>1, <1>4, <1>5, <1>6, <1>7 DEF Encoding

\* A factor more, or the first block begins.
LEMMA EncodingGenerator ==
  ASSUME Encoding, FormGenerator
  PROVE  Encoding'
<1> DEFINE E == EccPerBlock(kind)
<1>1. /\ kind \in Kinds /\ datacode \in [1..DataLen(kind) -> Symbols]
      /\ kind' = kind /\ datacode' = datacode
      /\ fed' = fed /\ parity' = parity /\ ecccode' = ecccode /\ pc = "generator"
  BY DEF Encoding, FormGenerator, lay, mask
<1>2. CASE E = 0
  BY <1>1, <1>2 DEF Encoding
<1>3. CASE E # 0
  <2>1. /\ E \in Nat \ {0} /\ Blocks(kind) \in Nat \ {0}
        /\ BlockIn(kind, 0) /\ DataLen(kind) \in Nat
    BY <1>1, <1>3, BlocksIn
  <2>2. /\ Len(gen) \in 1..(E + 1) /\ gen = Generator[Len(gen) - 1]
        /\ fed = 0 /\ parity = Zeros(kind) /\ ecccode = << >>
        /\ ecccode \in Seq(Seq(Symbols)) /\ EveryBlockDone
    BY <1>1, <1>3 DEF Encoding
  <2>3. EveryBlockDone'
    BY <1>1, <2>2 DEF EveryBlockDone, DataOf
  <2>4. CASE Len(gen) <= E
    <3>1. gen' = TimesFactor(gen, (Fcr + Len(gen) - 1) * Prim) /\ pc' = pc
      BY <2>4 DEF FormGenerator
    <3>2. PICK n \in Nat : n = Len(gen) - 1
      BY <2>2
    <3>3. Fcr + Len(gen) - 1 = Fcr + n /\ n + 1 <= E
      BY <2>1, <2>4, <3>2, FieldAssumption
    <3>4. gen' = Generator[n + 1]
      BY <2>2, <3>1, <3>2, <3>3, GeneratorIs
    <3>5. n + 1 \in Nat /\ Len(gen') = (n + 1) + 1
      BY <3>4, GeneratorVanishes
    <3>6. Len(gen') \in 1..(E + 1) /\ gen' = Generator[Len(gen') - 1]
      BY <2>1, <3>2, <3>3, <3>4, <3>5
    <3>7. QED
      BY <1>1, <2>2, <2>3, <3>1, <3>6 DEF Encoding
  <2>5. CASE ~(Len(gen) <= E)
    <3>1. gen' = gen /\ pc' \in {"encode", "null"} /\ Len(gen) = E + 1
      BY <2>1, <2>2, <2>5 DEF FormGenerator
    <3>2. Len(ecccode) = 0
      BY <2>2
    <3>3. /\ Len(ecccode) < Blocks(kind)
          /\ fed \in 0..(BlockLength(kind, Len(ecccode)) - 1)
          /\ BlockStart(kind, Len(ecccode)) \in 0..DataLen(kind)
      BY <2>1, <2>2, <3>2 DEF BlockIn
    <3>4. parity \in Seq(Symbols) /\ Len(parity) = E
      BY <1>1, <2>2, ZerosAre
    <3>5. IsCodeword(SubSeq(datacode, BlockStart(kind, Len(ecccode)) + 1,
                            BlockStart(kind, Len(ecccode)) + fed) \o parity, E)
      BY <1>1, <2>2, <3>3, ZerosAre
    <3>6. QED
      BY <1>1, <2>2, <2>3, <3>1, <3>3, <3>4, <3>5 DEF Encoding
  <2>6. QED
    BY <2>4, <2>5
<1>4. QED
  BY <1>2, <1>3

\* c symbols of the data, from after the first a.
Cut(s, a, c) == SubSeq(s, a + 1, a + c)

\* The turn of the encoder, for any block and any number of symbols fed.
LEMMA EncodeTurn ==
  ASSUME NEW k \in Kinds, EccPerBlock(k) # 0,
         NEW s \in [1..DataLen(k) -> Symbols], NEW a \in Nat, NEW c \in Nat, a + c + 1 <= DataLen(k),
         NEW p \in Seq(Symbols), Len(p) = EccPerBlock(k),
         IsCodeword(Cut(s, a, c) \o p, EccPerBlock(k))
  PROVE  LET next == EncodeSymbol(Generator[EccPerBlock(k)], p, s[a + c + 1])
         IN  /\ next \in Seq(Symbols) /\ Len(next) = EccPerBlock(k)
             /\ IsCodeword(Cut(s, a, c + 1) \o next, EccPerBlock(k))
<1> DEFINE E == EccPerBlock(k)
           g == Generator[E]
           d == s[a + c + 1]
           w == Cut(s, a, c)
           next == EncodeSymbol(g, p, d)
<1>1. E \in Nat \ {0} /\ DataLen(k) \in Nat
  BY BlocksIn
<1>2. /\ g \in Seq(Symbols) /\ Len(g) = E + 1 /\ g[E + 1] = one
      /\ \A j \in 1..(E + 1) : g[j] # {}
      /\ \A i \in 0..(E - 1) : Vanishes(Word1(g), (Fcr + i) * Prim)
  BY GeneratorOf
<1>3. /\ w \in Seq(Symbols) /\ d \in Symbols
      /\ Cut(s, a, c + 1) = Append(w, d)
  <2>1. a + c \in Nat /\ a + c <= DataLen(k)
    BY <1>1
  <2>2. DataLen(k) \in Nat /\ a + c + 1 <= DataLen(k)
    BY <1>1
  <2>3. w \in Seq(Symbols)
    BY <2>1, <2>2, CutIs DEF Cut
  <2>4. d \in Symbols
    BY <2>1, <2>2, CutIs DEF Cut
  <2>5. Cut(s, a, c + 1) = Append(w, d)
    BY <2>1, <2>2, CutIs DEF Cut
  <2>6. QED
    BY <2>3, <2>4, <2>5
<1>4. IsCodeword(w \o p, E) /\ Len(p) = E
  OBVIOUS
<1> HIDE DEF E, g, d, w
<1>5. IsNext(next, g, p, Xor(d, p[1]), E)
  BY <1>1, <1>2, <1>3, <1>4, EncodeSymbolIs
<1>6. next \in Seq(Symbols) /\ Len(next) = E
  BY <1>5 DEF IsNext
<1>7. w \o p \in Seq(Symbols) /\ Append(w, d) \o next \in Seq(Symbols)
  BY <1>3, <1>6
<1>8. ASSUME NEW i \in 0..(E - 1)
      PROVE  Vanishes(Append(w, d) \o next, (Fcr + i) * Prim)
  <2>1. (Fcr + i) * Prim \in Nat /\ Vanishes(w \o p, (Fcr + i) * Prim)
    BY <1>1, <1>4, <1>7, CodewordIs
  <2>2. Vanishes(Word1(g), (Fcr + i) * Prim)
    BY <1>2
  <2>3. QED
    BY <1>1, <1>2, <1>3, <1>4, <2>1, <2>2, EncodeVanishes
<1>9. IsCodeword(Append(w, d) \o next, E)
  BY <1>1, <1>7, <1>8, CodewordIs
<1>10. QED
  BY <1>3, <1>6, <1>9 DEF E, g, d, w

\* A turn of the encoder, in a block or at its end.
LEMMA EncodingEncode ==
  ASSUME Encoding, Encode
  PROVE  Encoding'
<1> DEFINE E == EccPerBlock(kind)
           r == Len(ecccode)
           a == BlockStart(kind, r)
           n == BlockLength(kind, r)
           next == EncodeSymbol(gen, parity, datacode[a + fed + 1])
<1>1. /\ kind \in Kinds /\ datacode \in [1..DataLen(kind) -> Symbols]
      /\ kind' = kind /\ datacode' = datacode /\ gen' = gen /\ pc = "encode"
  BY DEF Encoding, Encode
<1>2. CASE E = 0
  BY <1>1, <1>2 DEF Encoding
<1>3. CASE E # 0
  <2>1. /\ Len(gen) = E + 1 /\ gen = Generator[Len(gen) - 1]
        /\ r < Blocks(kind) /\ fed \in 0..(n - 1)
        /\ parity \in Seq(Symbols) /\ Len(parity) = E
        /\ IsCodeword(SubSeq(datacode, a + 1, a + fed) \o parity, E)
        /\ ecccode \in Seq(Seq(Symbols)) /\ EveryBlockDone
    BY <1>1, <1>3 DEF Encoding
  <2>2. E \in Nat \ {0} /\ Blocks(kind) \in Nat \ {0} /\ DataLen(kind) \in Nat
    BY <1>1, <1>3, BlocksIn
  <2>3. r \in 0..(Blocks(kind) - 1)
    BY <2>1, <2>2
  <2>4. a \in Nat /\ n \in Nat \ {0} /\ a + n <= DataLen(kind)
    BY <1>1, <1>3, <2>3, BlocksIn DEF BlockIn
  <2>5. fed \in Nat /\ a + fed + 1 <= DataLen(kind)
    BY <2>1, <2>2, <2>4
  <2>6. gen = Generator[E]
    BY <2>1, <2>2
  <2>7. /\ next \in Seq(Symbols) /\ Len(next) = E
        /\ IsCodeword(SubSeq(datacode, a + 1, a + (fed + 1)) \o next, E)
    <3>1. IsCodeword(Cut(datacode, a, fed) \o parity, E)
      BY <2>1 DEF Cut
    <3>2. parity \in Seq(Symbols) /\ Len(parity) = E
      BY <2>1
    <3> HIDE DEF a, n, r
    <3>3. /\ EncodeSymbol(Generator[E], parity, datacode[a + fed + 1]) \in Seq(Symbols)
          /\ Len(EncodeSymbol(Generator[E], parity, datacode[a + fed + 1])) = E
          /\ IsCodeword(Cut(datacode, a, fed + 1)
                          \o EncodeSymbol(Generator[E], parity, datacode[a + fed + 1]), E)
      <4>1. kind \in Kinds /\ datacode \in [1..DataLen(kind) -> Symbols] /\ EccPerBlock(kind) # 0
        BY <1>1, <1>3
      <4>2. a \in Nat /\ fed \in Nat /\ a + fed + 1 <= DataLen(kind)
        BY <2>4, <2>5
      <4>3. parity \in Seq(Symbols) /\ Len(parity) = EccPerBlock(kind)
        BY <3>2
      <4>4. IsCodeword(Cut(datacode, a, fed) \o parity, EccPerBlock(kind))
        BY <3>1
      <4>5. QED
        BY <4>1, <4>2, <4>3, <4>4, EncodeTurn, ZenonT(30)
    <3>4. QED
      BY <2>6, <3>3 DEF Cut
  <2>8. /\ Len(gen) \in 1..(E + 1)
    BY <2>1, <2>2
  <2>9. /\ pc = "encode" /\ gen' = gen
        /\ IF fed + 1 < n
           THEN fed' = fed + 1 /\ parity' = next /\ ecccode' = ecccode /\ pc' = pc
           ELSE /\ fed' = 0 /\ parity' = Zeros(kind) /\ ecccode' = Append(ecccode, next)
                /\ pc' = IF r + 1 = Blocks(kind) THEN "fill" ELSE pc
    BY DEF Encode
  <2> HIDE DEF next
  <2>10. CASE fed + 1 < n
    <3>1. fed' = fed + 1 /\ parity' = next /\ ecccode' = ecccode /\ pc' = "encode"
      BY <2>9, <2>10
    <3>2. EveryBlockDone'
      BY <1>1, <2>1, <3>1 DEF EveryBlockDone, DataOf
    <3>3. fed + 1 \in 0..(n - 1)
      BY <2>1, <2>4, <2>10
    <3>4. QED
      BY <1>1, <2>1, <2>7, <2>8, <2>9, <3>1, <3>2, <3>3 DEF Encoding
  <2>11. CASE ~(fed + 1 < n)
    <3>1. /\ fed' = 0 /\ parity' = Zeros(kind) /\ ecccode' = Append(ecccode, next)
          /\ pc' = IF r + 1 = Blocks(kind) THEN "fill" ELSE "encode"
      BY <2>9, <2>11
    <3>2. fed + 1 = n
      BY <2>1, <2>4, <2>11
    <3>3. /\ ecccode' \in Seq(Seq(Symbols)) /\ Len(ecccode') = r + 1
          /\ ecccode'[r + 1] = next
          /\ \A q \in 0..(r - 1) : ecccode'[q + 1] = ecccode[q + 1]
      <4>1. \A q \in 0..(r - 1) : q + 1 \in 1..r
        BY <2>1
      <4>2. QED
        BY <2>1, <2>7, <3>1, <4>1
    <3>4. EveryBlockDone'
      <4>1. ASSUME NEW q \in 0..r
            PROVE  IsCodeword(SubSeq(datacode, BlockStart(kind, q) + 1,
                                     BlockStart(kind, q) + BlockLength(kind, q))
                                \o ecccode'[q + 1], E)
        <5>1. CASE q = r
          BY <2>7, <3>2, <3>3, <5>1
        <5>2. CASE q # r
          <6>1. q \in 0..(r - 1)
            BY <5>2
          <6>2. IsCodeword(DataOf(q) \o ecccode[q + 1], E)
            BY <1>3, <2>1, <6>1 DEF EveryBlockDone
          <6>3. QED
            BY <3>3, <6>1, <6>2 DEF DataOf
        <5>3. QED
          BY <5>1, <5>2
      <4>2. Len(ecccode') - 1 = r
        BY <2>1, <3>3
      <4>3. QED
        BY <1>1, <4>1, <4>2 DEF EveryBlockDone, DataOf
    <3>5. Zeros(kind) \in Seq(Symbols) /\ Len(Zeros(kind)) = E
      BY <1>1, ZerosAre
    <3>6. CASE r + 1 = Blocks(kind)
      BY <1>1, <2>1, <2>8, <3>1, <3>3, <3>4, <3>6 DEF Encoding
    <3>7. CASE r + 1 # Blocks(kind)
      <4>1. r + 1 \in 0..(Blocks(kind) - 1)
        BY <2>2, <2>3, <3>7
      <4>2. BlockIn(kind, r + 1)
        BY <1>1, <1>3, <4>1, BlocksIn
      <4>3. /\ r + 1 < Blocks(kind) /\ 0 \in 0..(BlockLength(kind, r + 1) - 1)
            /\ BlockStart(kind, r + 1) \in 0..DataLen(kind)
        BY <2>2, <4>1, <4>2 DEF BlockIn
      <4>4. IsCodeword(SubSeq(datacode, BlockStart(kind, r + 1) + 1,
                              BlockStart(kind, r + 1) + 0) \o Zeros(kind), E)
        BY <1>1, <4>3, ZerosAre
      <4>5. Len(ecccode') = r + 1 /\ pc' = "encode"
        BY <3>1, <3>3, <3>7
      <4> HIDE DEF r
      <4>6. QED
        BY <1>1, <2>1, <2>8, <2>9, <3>1, <3>3, <3>4, <3>5, <4>3, <4>4, <4>5 DEF Encoding
    <3>8. QED
      BY <3>6, <3>7
  <2>12. QED
    BY <2>10, <2>11
<1>4. QED
  BY <1>2, <1>3

\* The other actions leave the blocks as they are, and no encoding follows.
LEMMA EncodingStays ==
  ASSUME Encoding, kind' = kind, datacode' = datacode, rs' = rs,
         pc' = pc \/ pc' \notin {"generator", "encode"}
  PROVE  Encoding'
<1>1. gen' = gen /\ fed' = fed /\ parity' = parity /\ ecccode' = ecccode
  BY DEF rs
<1>2. EveryBlockDone => EveryBlockDone'
  BY <1>1 DEF EveryBlockDone, DataOf
<1>3. QED
  BY <1>1, <1>2 DEF Encoding

LEMMA EncodingStep == Encoding /\ [Next]_vars => Encoding'
<1> SUFFICES ASSUME Encoding, [Next]_vars PROVE Encoding'
  OBVIOUS
<1>1. CASE FormGenerator
  BY <1>1, EncodingGenerator
<1>2. CASE Encode
  BY <1>2, EncodingEncode
<1>3. CASE LayBit \/ EndFill \/ TryMask \/ Judge \/ Return \/ UNCHANGED vars
  <2>1. kind' = kind /\ datacode' = datacode /\ rs' = rs
    BY <1>3 DEF LayBit, EndFill, TryMask, Judge, Return, vars
  <2>2. pc' = pc \/ pc' \notin {"generator", "encode"}
    BY <1>3 DEF LayBit, EndFill, TryMask, Judge, Return, vars
  <2>3. QED
    BY <2>1, <2>2, EncodingStays
<1>4. QED
  BY <1>1, <1>2, <1>3 DEF Next

\* What the invariant is for.
LEMMA EncodingEnough == Encoding => BlocksAreCodewords /\ EveryBlockDone
<1> SUFFICES ASSUME Encoding PROVE BlocksAreCodewords /\ EveryBlockDone
  OBVIOUS
<1>1. CASE EccPerBlock(kind) = 0
  <2>1. 0..(0 - 1) = {}
    OBVIOUS
  <2>2. QED
    BY <1>1, <2>1 DEF BlocksAreCodewords, EveryBlockDone, IsCodeword
<1>2. CASE EccPerBlock(kind) # 0
  <2>1. EveryBlockDone /\ ecccode \in Seq(Seq(Symbols))
    BY <1>2 DEF Encoding
  <2>2. ASSUME ecccode # << >>
        PROVE  IsCodeword(DataOf(Len(ecccode) - 1) \o ecccode[Len(ecccode)], EccPerBlock(kind))
    <3>1. PICK m \in Nat : Len(ecccode) = m + 1
      <4>1. Len(ecccode) \in Nat /\ Len(ecccode) # 0
        BY <2>1, <2>2
      <4>2. Len(ecccode) - 1 \in Nat /\ Len(ecccode) = (Len(ecccode) - 1) + 1
        BY <4>1
      <4>3. QED
        BY <4>2
    <3>2. m \in 0..(Len(ecccode) - 1) /\ Len(ecccode) - 1 = m
      BY <3>1
    <3>3. QED
      BY <1>2, <2>1, <3>1, <3>2 DEF EveryBlockDone
  <2>3. pc = "encode" =>
          IsCodeword(SubSeq(datacode, BlockStart(kind, Len(ecccode)) + 1,
                            BlockStart(kind, Len(ecccode)) + fed) \o parity, EccPerBlock(kind))
    BY <1>2 DEF Encoding
  <2>4. QED
    BY <2>1, <2>2, <2>3 DEF BlocksAreCodewords
<1>3. QED
  BY <1>1, <1>2

\* Whatever the data, the generator's roots and the block table, every turn of
\* encode_rs_char leaves a word of the code, and every block done is one: the
\* parity appended to its data is what a reader corrects errors with.
THEOREM BlocksEncoded == Spec => [](BlocksAreCodewords /\ EveryBlockDone)
<1>1. Init => Encoding
  BY EncodingInit
<1>2. Encoding /\ [Next]_vars => Encoding'
  BY EncodingStep
<1>3. Encoding => BlocksAreCodewords /\ EveryBlockDone
  BY EncodingEnough
<1>4. QED
  BY <1>1, <1>2, <1>3, PTL DEF Spec

-----------------------------------------------------------------------------
(* No cell is passed over.                                                 *)

\* Ranks are in the order of pairs of columns, then of rows, then right before left.
LEMMA RanksAre ==
  ASSUME NEW w \in Nat \ {0}, NEW a \in Nat, NEW b \in Nat,
         NEW r \in 0 .. w - 1, NEW s \in 0 .. w - 1, NEW t \in {0, 1}, NEW u \in {0, 1}
  PROVE  (a * w + r) * 2 + t < (b * w + s) * 2 + u
           <=> \/ a < b
               \/ a = b /\ r < s
               \/ a = b /\ r = s /\ t < u
<1>1. a * w \in Nat /\ b * w \in Nat
  OBVIOUS
<1>2. CASE a < b
  <2>1. PICK k \in Nat : b = a + 1 + k
    <3>1. b - a - 1 \in Nat /\ b = a + 1 + (b - a - 1)
      BY <1>2
    <3>2. QED
      BY <3>1
  <2>2. b * w = a * w + w + k * w /\ k * w \in Nat
    BY <2>1
  <2> DEFINE P == a * w
             Q == b * w
             K == k * w
  <2>3. P \in Nat /\ Q \in Nat /\ K \in Nat /\ Q = P + w + K
    BY <1>1, <2>2
  <2> HIDE DEF P, Q, K
  <2>4. (P + r) * 2 + t < (Q + s) * 2 + u
    BY <2>3
  <2>5. QED
    BY <1>2, <2>4 DEF P, Q
<1>3. CASE b < a
  <2>1. PICK k \in Nat : a = b + 1 + k
    <3>1. a - b - 1 \in Nat /\ a = b + 1 + (a - b - 1)
      BY <1>3
    <3>2. QED
      BY <3>1
  <2>2. a * w = b * w + w + k * w /\ k * w \in Nat
    BY <2>1
  <2> DEFINE P == a * w
             Q == b * w
             K == k * w
  <2>3. P \in Nat /\ Q \in Nat /\ K \in Nat /\ P = Q + w + K
    BY <1>1, <2>2
  <2> HIDE DEF P, Q, K
  <2>4. ~((P + r) * 2 + t < (Q + s) * 2 + u)
    BY <2>3
  <2>5. QED
    BY <1>3, <2>4 DEF P, Q
<1>4. CASE a = b
  <2> DEFINE P == a * w
  <2>1. P \in Nat /\ b * w = P
    BY <1>1, <1>4
  <2> HIDE DEF P
  <2>2. (P + r) * 2 + t < (P + s) * 2 + u <=> r < s \/ (r = s /\ t < u)
    BY <2>1
  <2>3. QED
    BY <1>4, <2>1, <2>2 DEF P
<1>5. QED
  BY <1>2, <1>3, <1>4

\* A cell in a column has a place on the path.
LEMMA PlaceOf ==
  ASSUME NEW w \in Nat \ {0}, NEW mqr \in BOOLEAN, NEW c \in Cells(w), ~mqr => c[1] # 6 /\ w >= 21
  PROVE  \E q \in Nat : \E f : On(f, w, mqr, q) /\ Cell(f) = c
<1>1. c = <<c[1], c[2]>> /\ c[1] \in 0 .. w - 1 /\ c[2] \in 0 .. w - 1
  BY DEF Cells, Block
<1> DEFINE x == Col(c[1], mqr)
           q == (w - 1 - x) \div 2
           b == (w - 1 - x) % 2
           f == [x |-> c[1], y |-> c[2], dir |-> IF q % 2 = 0 THEN -1 ELSE 1, bit |-> b]
<1>2. x \in Int /\ w - 1 - x \in Nat
  BY <1>1 DEF Col
<1> HIDE DEF x
<1>3. q \in Nat /\ b \in {0, 1} /\ x = w - 1 - 2 * q - b
  BY <1>2
<1> HIDE DEF q, b
<1>4. On(f, w, mqr, q)
  BY <1>1, <1>3 DEF On, x
<1>5. Cell(f) = c
  BY <1>1 DEF Cell
<1>6. QED
  BY <1>3, <1>4, <1>5

\* There is one cell at a place.
LEMMA PlaceIsOne ==
  ASSUME NEW w \in Nat, NEW mqr \in BOOLEAN, NEW q \in Nat,
         NEW f, On(f, w, mqr, q), NEW g, On(g, w, mqr, q),
         f.bit = g.bit, Nth(f, w) = Nth(g, w)
  PROVE  Cell(f) = Cell(g)
<1>1. f.x = g.x
  BY DEF On, Col
<1>2. f.y = g.y
  BY DEF On, Nth
<1>3. QED
  BY <1>1, <1>2 DEF Cell

\* A turn leads to the next place, or, where the timing column is jumped over, nine
\* rows further; and it leads out of the frame in the last pair only.
LEMMA TurnNext ==
  ASSUME NEW w \in Nat, NEW h \in Nat, w = 2 * h + 1, NEW mqr \in BOOLEAN,
         w >= 11, ~mqr => w >= 21 /\ h % 2 = 0,
         NEW q \in Nat, NEW f, On(f, w, mqr, q),
         NEW g, g = Turn(f, w, mqr)
  PROVE  /\ g.x \in Int /\ g.y \in 0 .. w - 1 /\ Nth(f, w) \in 0 .. w - 1
         /\ f.bit = 0 /\ g.x >= 0 =>
              On(g, w, mqr, q) /\ Nth(g, w) = Nth(f, w) /\ g.bit = 1
         /\ f.bit = 1 /\ Nth(f, w) < w - 1 =>
              g.x >= 0 /\ On(g, w, mqr, q) /\ Nth(g, w) = Nth(f, w) + 1 /\ g.bit = 0
         /\ f.bit = 1 /\ Nth(f, w) = w - 1 /\ g.x >= 0 =>
              /\ On(g, w, mqr, q + 1) /\ g.bit = 0
              /\ Nth(g, w) = IF ~mqr /\ f.x = 7 THEN 9 ELSE 0
         /\ g.x < 0 => /\ f.x = 0
                       /\ IF mqr THEN f.bit = 0 ELSE f.bit = 1 /\ Nth(f, w) = w - 1
<1> DEFINE x1   == IF f.bit = 0 THEN f.x - 1 ELSE f.x + 1
           y1   == IF f.bit = 0 THEN f.y ELSE f.y + f.dir
           ends == (f.dir < 0 /\ y1 < 0) \/ (f.dir > 0 /\ y1 = w)
           x2   == IF ends THEN x1 - 2 ELSE x1
           skip == ends /\ ~mqr /\ x2 = 6
<1>1. /\ f.bit \in {0, 1} /\ f.y \in 0 .. w - 1 /\ f.x \in Nat /\ (~mqr => f.x # 6)
      /\ Col(f.x, mqr) = w - 1 - 2 * q - f.bit
      /\ f.dir = IF q % 2 = 0 THEN -1 ELSE 1
  BY DEF On
<1>2. /\ g.x = (IF skip THEN 5 ELSE x2)
      /\ g.y = (IF ~ends THEN y1
                ELSE IF f.dir < 0 THEN (IF skip THEN 9 ELSE 0)
                                  ELSE (IF skip THEN w - 9 ELSE w - 1))
      /\ g.dir = (IF ends THEN -f.dir ELSE f.dir)
      /\ g.bit = 1 - f.bit
  BY <1>1 DEF Turn
<1>3. Nth(f, w) \in 0 .. w - 1
  BY <1>1 DEF Nth
<1>4. CASE f.bit = 0
  <2>1. ~ends /\ x2 = f.x - 1
    BY <1>1, <1>4
  <2>2. g.x = f.x - 1 /\ g.y = f.y /\ g.dir = f.dir /\ g.bit = 1
    BY <1>2, <1>4, <2>1
  <2>3. CASE g.x >= 0
    <3>1. ~mqr => g.x # 6 /\ f.x # 6
      BY <1>1, <1>4, <2>2 DEF Col
    <3>2. Col(g.x, mqr) = w - 1 - 2 * q - 1
      BY <1>1, <1>4, <2>2, <3>1 DEF Col
    <3>3. g.x \in Nat
      BY <1>1, <2>2, <2>3
    <3>4. Nth(g, w) = Nth(f, w)
      BY <2>2 DEF Nth
    <3>5. On(g, w, mqr, q)
      BY <1>1, <2>2, <3>1, <3>2, <3>3 DEF On
    <3>6. QED
      BY <1>1, <1>3, <1>4, <2>2, <2>3, <3>4, <3>5
  <2>4. CASE g.x < 0
    <3>1. f.x = 0
      BY <1>1, <2>2, <2>4
    <3>2. mqr
      BY <1>1, <1>4, <3>1 DEF Col
    <3>3. g.x \in Int /\ g.y \in 0 .. w - 1 /\ ~(f.bit = 1) /\ ~(g.x >= 0)
      BY <1>1, <1>4, <2>2, <2>4
    <3>4. QED
      BY <1>3, <1>4, <3>1, <3>2, <3>3
  <2>5. QED
    BY <1>1, <2>2, <2>3, <2>4
<1>5. CASE f.bit = 1 /\ ~ends
  <2>1. g.x = f.x + 1 /\ g.y = f.y + f.dir /\ g.dir = f.dir /\ g.bit = 0
    BY <1>2, <1>5
  <2>2. ~mqr => g.x # 6
    BY <1>1, <1>5, <2>1 DEF Col
  <2>3. Col(g.x, mqr) = w - 1 - 2 * q
    BY <1>1, <1>5, <2>1, <2>2 DEF Col
  <2>4. g.x \in Nat /\ g.y \in 0 .. w - 1
    BY <1>1, <1>5, <2>1
  <2>5. Nth(g, w) = Nth(f, w) + 1 /\ Nth(f, w) < w - 1
    BY <1>1, <1>5, <2>1 DEF Nth
  <2>6. On(g, w, mqr, q)
    BY <1>1, <2>1, <2>2, <2>3, <2>4 DEF On
  <2>7. QED
    BY <1>3, <1>5, <2>1, <2>4, <2>5, <2>6
<1>6. CASE f.bit = 1 /\ ends
  <2>1. x2 = f.x - 1 /\ g.bit = 0 /\ g.dir = -f.dir
    BY <1>1, <1>2, <1>6
  <2>2. g.dir = IF (q + 1) % 2 = 0 THEN -1 ELSE 1
    BY <1>1, <2>1, NextParity
  <2>3. g.x = (IF skip THEN 5 ELSE f.x - 1)
    BY <1>2, <2>1
  <2>4. skip <=> ~mqr /\ f.x = 7
    BY <1>1, <1>6, <2>1
  <2>5. g.y = (IF f.dir < 0 THEN (IF skip THEN 9 ELSE 0)
                            ELSE (IF skip THEN w - 9 ELSE w - 1))
    BY <1>2, <1>6
  <2>6. Nth(f, w) = w - 1
    BY <1>1, <1>6 DEF Nth
  <2>7. skip => f.dir < 0
    <3>1. ASSUME skip PROVE q = h - 4
      BY <1>1, <1>6, <2>4, <3>1 DEF Col
    <3>2. ASSUME skip PROVE q % 2 = 0
      BY <2>4, <3>1, <3>2
    <3>3. QED
      BY <1>1, <3>2
  <2> HIDE DEF x1, y1, x2, ends, skip
  <2>8. g.x \in Int /\ g.y \in 0 .. w - 1
    BY <1>1, <2>3, <2>5
  <2>9. CASE g.x >= 0
    <3>1. ~mqr => g.x # 6
      BY <1>1, <2>3, <2>4
    <3>2. Col(g.x, mqr) = w - 1 - 2 * (q + 1)
      BY <1>1, <1>6, <2>3, <2>4, <2>9, <3>1 DEF Col
    <3>3. On(g, w, mqr, q + 1)
      BY <2>1, <2>2, <2>8, <2>9, <3>1, <3>2 DEF On
    <3>4. Nth(g, w) = IF ~mqr /\ f.x = 7 THEN 9 ELSE 0
      BY <1>1, <2>1, <2>4, <2>5, <2>7 DEF Nth
    <3>5. QED
      BY <1>3, <1>6, <2>1, <2>6, <2>8, <2>9, <3>3, <3>4
  <2>10. CASE g.x < 0
    <3>1. f.x = 0
      BY <1>1, <2>3, <2>10
    <3>2. ~mqr
      BY <1>1, <1>6, <3>1 DEF Col
    <3>3. QED
      BY <1>3, <1>6, <2>1, <2>6, <2>8, <2>10, <3>1, <3>2
  <2>11. QED
    BY <2>8, <2>9, <2>10
<1>7. QED
  BY <1>1, <1>4, <1>5, <1>6

\* The free cells of a kind of symbol.
Free(k) == Cells(SymbolWidth(k)) \ function[k]

\* The bits there are to lay.
Capacity(k) ==
  IF k.mqr THEN (MWidth(k.version) - 1) * (MWidth(k.version) - 1) - 64
           ELSE 8 * capacityWords[k.version] + Remainder(k.version)

\* What FramesAssumption says of the frame of a symbol.
LEMMA FrameIs ==
  ASSUME NEW k \in Kinds
  PROVE  LET w == SymbolWidth(k)
         IN  /\ function[k] \subseteq Cells(w)
             /\ <<w - 1, w - 1>> \notin function[k] /\ <<w - 1, w - 2>> \notin function[k]
             /\ IF k.mqr THEN Block(0, 0, 1, w) \subseteq function[k]
                ELSE /\ Block(6, 0, 1, w) \subseteq function[k]
                     /\ Block(4, 0, 2, 9) \subseteq function[k]
             /\ Cardinality(Free(k)) = Capacity(k)
<1>1. k.mqr \in BOOLEAN /\ k.version \in IF k.mqr THEN MVersions ELSE Versions
  BY KindsAssumption
<1> DEFINE v == k.version
<1>2. CASE k.mqr
  <2>1. v \in MVersions /\ SymbolWidth(k) = MWidth(v) /\ function[k] = DOMAIN MFrame(v)
    BY <1>1, <1>2 DEF SymbolWidth, function, frames
  <2>2. Layable(MWidth(v), DOMAIN MFrame(v), Block(0, 0, 1, MWidth(v)),
                (MWidth(v) - 1) * (MWidth(v) - 1) - 64)
    BY <2>1, FramesAssumption
  <2>3. QED
    BY <1>2, <2>1, <2>2 DEF Layable, Capacity, Free
<1>3. CASE ~k.mqr
  <2>1. v \in Versions /\ SymbolWidth(k) = Width(v) /\ function[k] = DOMAIN Frame(v)
    BY <1>1, <1>3 DEF SymbolWidth, function, frames
  <2>2. Layable(Width(v), DOMAIN Frame(v), Block(6, 0, 1, Width(v)) \union Block(4, 0, 2, 9),
                8 * capacityWords[v] + Remainder(v))
    BY <2>1, FramesAssumption
  <2>3. QED
    BY <1>3, <2>1, <2>2 DEF Layable, Capacity, Free
<1>4. QED
  BY <1>1, <1>2, <1>3

\* The width of a QR symbol is a multiple of four and one.
LEMMA HalfWidth ==
  ASSUME NEW k \in Kinds
  PROVE  \E h \in Nat : SymbolWidth(k) = 2 * h + 1 /\ (~k.mqr => h % 2 = 0)
<1>1. k.mqr \in BOOLEAN /\ k.version \in IF k.mqr THEN MVersions ELSE Versions
  BY KindsAssumption
<1>2. CASE k.mqr
  <2>1. k.version \in 1 .. 4 /\ SymbolWidth(k) = 9 + 2 * k.version
    BY <1>1, <1>2 DEF SymbolWidth, MWidth, MVersions, MVersionMax
  <2>2. 4 + k.version \in Nat /\ SymbolWidth(k) = 2 * (4 + k.version) + 1
    BY <2>1
  <2>3. QED
    BY <1>2, <2>2
<1>3. CASE ~k.mqr
  <2>1. k.version \in 1 .. 40 /\ SymbolWidth(k) = 17 + 4 * k.version
    BY <1>1, <1>3 DEF SymbolWidth, Width, Versions, VersionMax
  <2>2. /\ 8 + 2 * k.version \in Nat /\ SymbolWidth(k) = 2 * (8 + 2 * k.version) + 1
        /\ (8 + 2 * k.version) % 2 = 0
    BY <2>1
  <2>3. QED
    BY <2>2
<1>4. QED
  BY <1>1, <1>2, <1>3

\* From any cell of the path: while a free cell is read later the filler does not leave
\* the frame, and its next cell is the first of those, or none of them.
LEMMA NothingBetween ==
  ASSUME kind \in Kinds,
         NEW q \in Nat, NEW f, On(f, SymbolWidth(kind), kind.mqr, q),
         NEW g, g = Turn(f, SymbolWidth(kind), kind.mqr),
         NEW c \in Free(kind), ReadingRank(c) > ReadingRank(Cell(f))
  PROVE  /\ g.x >= 0 /\ g.y \in 0 .. SymbolWidth(kind) - 1
         /\ ReadingRank(c) <= ReadingRank(Cell(g)) => c = Cell(g)
<1> DEFINE w == SymbolWidth(kind)
           m == kind.mqr
<1>1. m \in BOOLEAN /\ w \in Nat /\ (~m => w >= 21) /\ w >= 11
  BY KindsAssumption, WidthOf
<1>2. PICK h \in Nat : w = 2 * h + 1 /\ (~m => h % 2 = 0)
  BY HalfWidth
<1>3. /\ c \in Cells(w) /\ c = <<c[1], c[2]>> /\ c[1] \in 0 .. w - 1 /\ c[2] \in 0 .. w - 1
      /\ c \notin function[kind]
  <2>1. c \in Cells(w) /\ c \notin function[kind]
    BY DEF Free
  <2> HIDE DEF w
  <2>2. c \in (0 .. (0 + w - 1)) \X (0 .. (0 + w - 1))
    BY <2>1 DEF Cells, Block
  <2>3. QED
    BY <1>1, <2>1, <2>2
<1>4. /\ m => c[1] # 0
      /\ ~m => c[1] # 6 /\ ~(c[1] \in {4, 5} /\ c[2] \in 0 .. 8)
  <2>1. /\ m => Block(0, 0, 1, w) \subseteq function[kind]
        /\ ~m => /\ Block(6, 0, 1, w) \subseteq function[kind]
                 /\ Block(4, 0, 2, 9) \subseteq function[kind]
    BY FrameIs
  <2> HIDE DEF m, w
  <2>2. ASSUME m, c[1] = 0 PROVE FALSE
    <3>1. c \in Block(0, 0, 1, w)
      BY <1>1, <1>3, <2>2 DEF Block
    <3>2. QED
      BY <1>3, <2>1, <2>2, <3>1
  <2>3. ASSUME ~m, c[1] = 6 PROVE FALSE
    <3>1. c \in Block(6, 0, 1, w)
      BY <1>1, <1>3, <2>3 DEF Block
    <3>2. QED
      BY <1>3, <2>1, <2>3, <3>1
  <2>4. ASSUME ~m, c[1] \in {4, 5} /\ c[2] \in 0 .. 8 PROVE FALSE
    <3>1. c \in Block(4, 0, 2, 9)
      BY <1>3, <2>4 DEF Block
    <3>2. QED
      BY <1>3, <2>1, <2>4, <3>1
  <2>5. QED
    BY <2>2, <2>3, <2>4
<1>14. PICK p \in Nat : \E e : On(e, w, m, p) /\ Cell(e) = c
  <2> HIDE DEF m, w
  <2>1. QED
    BY <1>1, <1>3, <1>4, PlaceOf
<1>5. PICK e : On(e, w, m, p) /\ Cell(e) = c
  BY <1>14
<1>6. /\ ReadingRank(Cell(f)) = (q * w + Nth(f, w)) * 2 + f.bit
      /\ ReadingRank(c) = (p * w + Nth(e, w)) * 2 + e.bit
  BY <1>1, <1>5, RankOf
<1>7. /\ g.x \in Int /\ g.y \in 0 .. w - 1 /\ Nth(f, w) \in 0 .. w - 1
      /\ f.bit = 0 /\ g.x >= 0 =>
           On(g, w, m, q) /\ Nth(g, w) = Nth(f, w) /\ g.bit = 1
      /\ f.bit = 1 /\ Nth(f, w) < w - 1 =>
           g.x >= 0 /\ On(g, w, m, q) /\ Nth(g, w) = Nth(f, w) + 1 /\ g.bit = 0
      /\ f.bit = 1 /\ Nth(f, w) = w - 1 /\ g.x >= 0 =>
           /\ On(g, w, m, q + 1) /\ g.bit = 0
           /\ Nth(g, w) = IF ~m /\ f.x = 7 THEN 9 ELSE 0
      /\ g.x < 0 => /\ f.x = 0
                    /\ IF m THEN f.bit = 0 ELSE f.bit = 1 /\ Nth(f, w) = w - 1
  <2>1. On(f, w, m, q) /\ g = Turn(f, w, m)
    OBVIOUS
  <2> HIDE DEF m, w
  <2>2. QED
    BY <1>1, <1>2, <2>1, TurnNext
<1>8. /\ f.bit \in {0, 1} /\ f.y \in 0 .. w - 1 /\ f.x \in Nat /\ (~m => f.x # 6)
      /\ Col(f.x, m) = w - 1 - 2 * q - f.bit
      /\ e.bit \in {0, 1} /\ e.y \in 0 .. w - 1 /\ e.x \in Nat
      /\ e.x = c[1] /\ e.y = c[2]
      /\ Col(e.x, m) = w - 1 - 2 * p - e.bit
      /\ e.dir = IF p % 2 = 0 THEN -1 ELSE 1
      /\ f.dir = IF q % 2 = 0 THEN -1 ELSE 1
      /\ Nth(e, w) \in 0 .. w - 1
  BY <1>1, <1>5 DEF On, Cell, Nth
<1> DEFINE F == ReadingRank(Cell(f))
           C == ReadingRank(c)
           G == ReadingRank(Cell(g))
<1>9. F < C /\ On(f, w, m, q)
  <2>1. F \in Int /\ C \in Int
    <3> DEFINE P == p * w
               Q == q * w
               r == Nth(f, w)
               s == Nth(e, w)
    <3>1. P \in Int /\ Q \in Int
      BY <1>1
    <3>2. r \in Int /\ s \in Int /\ f.bit \in Int /\ e.bit \in Int
      BY <1>1, <1>7, <1>8
    <3>3. F = (Q + r) * 2 + f.bit /\ C = (P + s) * 2 + e.bit
      BY <1>6
    <3> HIDE DEF P, Q, r, s, F, C
    <3>4. QED
      BY <3>1, <3>2, <3>3
  <2>2. QED
    BY <2>1
<1> HIDE DEF F, C, G, m, w
<1>10. \/ q < p
       \/ q = p /\ Nth(f, w) < Nth(e, w)
       \/ q = p /\ Nth(f, w) = Nth(e, w) /\ f.bit < e.bit
  <2>1. (q * w + Nth(f, w)) * 2 + f.bit < (p * w + Nth(e, w)) * 2 + e.bit
    BY <1>6, <1>9 DEF F, C
  <2>2. w \in Nat \ {0}
    BY <1>1
  <2>3. QED
    BY <1>7, <1>8, <2>1, <2>2, RanksAre
<1>11. g.x >= 0
  <2>1. ASSUME g.x < 0 PROVE FALSE
    <3>1. f.x = 0 /\ IF m THEN f.bit = 0 ELSE f.bit = 1 /\ Nth(f, w) = w - 1
      BY <1>7, <2>1
    <3>2. CASE m
      <4>1. 2 * q = w - 1 /\ e.x = w - 1 - 2 * p - e.bit
        BY <1>1, <1>8, <3>1, <3>2 DEF Col
      <4>2. p = q /\ e.x = 0
        BY <1>1, <1>8, <1>10, <4>1
      <4>3. QED
        BY <1>4, <1>8, <3>2, <4>2
    <3>3. CASE ~m
      <4>1. 2 * q = w - 3
        BY <1>1, <1>8, <3>1, <3>3 DEF Col
      <4>2. w - 1 - 2 * p - e.bit >= 1
        BY <1>4, <1>8, <3>3 DEF Col
      <4>3. p <= q
        BY <1>1, <1>8, <4>1, <4>2
      <4>4. QED
        BY <1>1, <1>7, <1>8, <1>10, <3>1, <3>3, <4>3
    <3>4. QED
      BY <1>1, <3>2, <3>3
  <2>2. QED
    BY <1>7, <2>1
<1>12. ASSUME C <= G PROVE c = Cell(g)
  <2>1. ASSUME NEW r \in Nat, On(g, w, m, r)
        PROVE  /\ Nth(g, w) \in 0 .. w - 1 /\ g.bit \in {0, 1}
               /\ \/ p < r
                  \/ p = r /\ Nth(e, w) < Nth(g, w)
                  \/ p = r /\ Nth(e, w) = Nth(g, w) /\ e.bit <= g.bit
    <3>1. Nth(g, w) \in 0 .. w - 1 /\ g.bit \in {0, 1}
      BY <1>1, <2>1 DEF On, Nth
    <3>2. G = (r * w + Nth(g, w)) * 2 + g.bit
      BY <1>1, <2>1, RankOf DEF G, w, m
    <3>3. ~((r * w + Nth(g, w)) * 2 + g.bit < (p * w + Nth(e, w)) * 2 + e.bit)
      <4>1. C = (p * w + Nth(e, w)) * 2 + e.bit
        BY <1>6 DEF C
      <4>2. C \in Int /\ G \in Int
        BY <1>1, <1>8, <3>1, <3>2, <4>1
      <4>3. QED
        BY <1>12, <3>2, <4>1, <4>2
    <3>4. w \in Nat \ {0}
      BY <1>1
    <3>5. ~(r < p \/ (r = p /\ Nth(g, w) < Nth(e, w))
              \/ (r = p /\ Nth(g, w) = Nth(e, w) /\ g.bit < e.bit))
      BY <1>8, <3>1, <3>3, <3>4, RanksAre
    <3>6. QED
      BY <1>8, <3>1, <3>5
  <2>2. ASSUME On(g, w, m, p), Nth(e, w) = Nth(g, w), e.bit = g.bit
        PROVE  c = Cell(g)
    BY <1>1, <1>5, <2>2, PlaceIsOne
  <2>3. CASE f.bit = 0
    <3>1. On(g, w, m, q) /\ Nth(g, w) = Nth(f, w) /\ g.bit = 1
      BY <1>7, <1>11, <2>3
    <3>2. p = q /\ Nth(e, w) = Nth(g, w) /\ e.bit = 1
      BY <1>7, <1>8, <1>10, <2>1, <2>3, <3>1
    <3>3. QED
      BY <2>2, <3>1, <3>2
  <2>4. CASE f.bit = 1 /\ Nth(f, w) < w - 1
    <3>1. On(g, w, m, q) /\ Nth(g, w) = Nth(f, w) + 1 /\ g.bit = 0
      BY <1>7, <2>4
    <3>2. p = q /\ Nth(e, w) = Nth(g, w) /\ e.bit = 0
      BY <1>7, <1>8, <1>10, <2>1, <2>4, <3>1
    <3>3. QED
      BY <2>2, <3>1, <3>2
  <2>5. CASE f.bit = 1 /\ Nth(f, w) = w - 1
    <3>1. /\ On(g, w, m, q + 1) /\ g.bit = 0
          /\ Nth(g, w) = IF ~m /\ f.x = 7 THEN 9 ELSE 0
      BY <1>7, <1>11, <2>5
    <3>2. p = q + 1 /\ (Nth(e, w) < Nth(g, w) \/ (Nth(e, w) = Nth(g, w) /\ e.bit = 0))
      BY <1>7, <1>8, <1>10, <2>1, <2>5, <3>1
    <3>3. ASSUME Nth(e, w) < Nth(g, w) PROVE FALSE
      <4>1. ~m /\ f.x = 7 /\ Nth(e, w) < 9
        BY <1>8, <3>1, <3>3
      <4>2. Col(f.x, m) = 7 /\ w - 1 - 2 * q = 8
        BY <1>1, <1>8, <2>5, <4>1 DEF Col
      <4>3. Col(e.x, m) \in {5, 6}
        BY <1>1, <1>8, <3>2, <4>2
      <4>4. e.x \in {4, 5}
        BY <1>4, <1>8, <4>1, <4>3 DEF Col
      <4>5. q = h - 4 /\ q % 2 = 0
        BY <1>1, <1>2, <4>1, <4>2
      <4>6. e.dir = 1
        BY <1>8, <3>2, <4>5, NextParity
      <4>7. e.y < 9
        BY <4>1, <4>6 DEF Nth
      <4>8. QED
        BY <1>4, <1>8, <4>1, <4>4, <4>7
    <3>4. QED
      BY <2>2, <3>1, <3>2, <3>3
  <2>6. Nth(f, w) < w - 1 \/ Nth(f, w) = w - 1
    BY <1>1, <1>7
  <2>7. QED
    BY <1>8, <2>3, <2>4, <2>5, <2>6
<1>13. QED
  BY <1>7, <1>11, <1>12 DEF C, G, w

-----------------------------------------------------------------------------
(* The bits laid, counted and named.                                       *)

\* The bits there are to lay, as <<codeword, bit>>: those of the codewords, and one
\* for each remainder bit.
Bits(k) ==
  {x \in (0 .. Total(k) + Rest(k) - 1) \X (0 .. 7) :
     IF x[1] < Total(k) THEN x[2] <= FirstBit(k, x[1]) ELSE x[2] = FirstBit(k, x[1])}

\* Those laid before bit b of codeword n, and their number.
BitsBefore(k, n, b) == {x \in Bits(k) : x[1] < n \/ (x[1] = n /\ x[2] > b)}

Laid(k, n, b) ==
  (IF n <= Total(k) THEN 8 * n ELSE 8 * Total(k) + (n - Total(k)))
  - (IF OddBits(k) # 0 /\ n >= DataLen(k) THEN OddBits(k) ELSE 0)
  + FirstBit(k, n) - b

\* The codewords of a symbol have as many bits as its frame has free cells, the half
\* codeword of Micro QR counted as four.
LEMMA BitsThere ==
  ASSUME NEW k \in Kinds
  PROVE  /\ DataLen(k) \in Nat \ {0} /\ EccLen(k) \in Nat /\ Rest(k) \in Nat
         /\ Total(k) = DataLen(k) + EccLen(k)
         /\ OddBits(k) \in {0, 4}
         /\ Capacity(k) = 8 * Total(k) - OddBits(k) + Rest(k)
<1> DEFINE i == LevelIndex(k.level)
           v == k.version
<1>1. /\ k.mqr \in BOOLEAN /\ k.level \in Levels
      /\ k.mqr => v \in MVersions /\ MECCLength(v, k.level) # 0
      /\ ~k.mqr => v \in Versions
  BY KindsAssumption
<1>2. i \in 1 .. 4
  BY <1>1 DEF LevelIndex, Levels
<1>3. CASE ~k.mqr
  <2> DEFINE D == capacityWords[v] - capacityEcc[v][i]
             E == capacityEcc[v][i]
             n == eccTable[v][i][1] + eccTable[v][i][2]
  <2>1. D \in Nat /\ n \in 1 .. D /\ E \in Nat
    BY <1>1, <1>2, <1>3, TableFits DEF Fits
  <2>2. D = DataLen(k) /\ E = EccLen(k) /\ OddBits(k) = 0
    BY <1>3 DEF DataLen, DataLength, ECCLength, EccLen, OddBits
  <2>3. capacityWords[v] \in Int
    <3>1. v \in 1 .. 40 /\ \A u \in 1 .. 40 : capacityWords[u] \in Int
      BY <1>1, <1>3 DEF Versions, VersionMax, capacityWords
    <3>2. QED
      BY <3>1
  <2>4. Rest(k) \in Nat /\ Rest(k) = Remainder(v)
    BY <1>3 DEF Rest, Remainder
  <2>5. Capacity(k) = 8 * capacityWords[v] + Remainder(v)
    BY <1>3 DEF Capacity
  <2>6. Total(k) = DataLen(k) + EccLen(k)
    BY DEF Total
  <2>7. capacityWords[v] = D + E
    <3>1. \A x \in Int, y \in Int : x = (x - y) + y
      OBVIOUS
    <3>2. QED
      BY <2>1, <2>3, <3>1
  <2> HIDE DEF D, E, n, v, i
  <2>8. QED
    BY <2>1, <2>2, <2>3, <2>4, <2>5, <2>6, <2>7
<1>4. CASE k.mqr
  <2> DEFINE b == MDataLengthBit(v, k.level)
             e == MECCLength(v, k.level)
             s == (MWidth(v) - 1) * (MWidth(v) - 1)
  <2>1. e \in {2, 5, 6, 8, 10, 14} /\ s \in {100, 144, 196, 256} /\ (e > 8 => s = 256)
        /\ (e # 2 => s # 100)
    <3>1. v \in {1, 2, 3, 4}
      BY <1>1, <1>4 DEF MVersions, MVersionMax
    <3>2. QED
      BY <1>1, <1>2, <1>4, <3>1 DEF MECCLength, mqrspecEcc, MWidth
  <2>2. b = s - 64 - e * 8
    BY <1>1, <1>4 DEF MDataLengthBit
  <2>3. /\ DataLen(k) = (b + 4) \div 8 /\ EccLen(k) = e /\ Rest(k) = 0
        /\ OddBits(k) = 8 * DataLen(k) - b
    BY <1>4 DEF DataLen, MDataLength, EccLen, Rest, OddBits
  <2>4. Capacity(k) = s - 64 /\ Total(k) = DataLen(k) + EccLen(k)
    BY <1>4 DEF Capacity, Total
  <2> HIDE DEF b, e, s, v
  <2>5. b = s - 64 - e * 8 /\ b \in Int /\ b >= 4 /\ (b % 8 = 0 \/ b % 8 = 4)
    BY <2>1, <2>2
  <2>6. /\ (b + 4) \div 8 \in Nat \ {0}
        /\ 8 * ((b + 4) \div 8) - b \in {0, 4}
    BY <2>5
  <2>7. QED
    BY <2>1, <2>3, <2>4, <2>5, <2>6
<1>5. QED
  BY <1>1, <1>3, <1>4

\* The count goes up by one with each bit.
LEMMA LaidNext ==
  ASSUME NEW k \in Kinds, NEW n \in 0 .. Total(k) + Rest(k), NEW b \in 0 .. FirstBit(k, n),
         n >= Total(k) => b = FirstBit(k, n)
  PROVE  /\ n < Total(k) + Rest(k) => Laid(k, n, b) < Capacity(k)
         /\ n = Total(k) + Rest(k) => Laid(k, n, b) = Capacity(k)
         /\ n < Total(k) /\ b > 0 => Laid(k, n, b - 1) = Laid(k, n, b) + 1
         /\ n < Total(k) + Rest(k) /\ (b = 0 \/ n >= Total(k)) =>
              Laid(k, n + 1, FirstBit(k, n + 1)) = Laid(k, n, b) + 1
         /\ Laid(k, 0, FirstBit(k, 0)) = 0
         /\ Laid(k, n, b) \in Nat
<1> DEFINE D == DataLen(k)
           tot == Total(k)
           R == Rest(k)
           o == OddBits(k)
           F(i) == FirstBit(k, i)
           L(i, c) == Laid(k, i, c)
<1>1. /\ D \in Nat \ {0} /\ tot \in Nat /\ R \in Nat /\ o \in {0, 4} /\ D <= tot
      /\ Capacity(k) = 8 * tot - o + R
  BY BitsThere
<1>2. \A i \in Nat : F(i) = IF o # 0 /\ i = D - 1 THEN 3 ELSE 7
  BY <1>1 DEF FirstBit
<1>3. \A i \in Nat, c \in Int :
        L(i, c) = (IF i <= tot THEN 8 * i ELSE 8 * tot + (i - tot))
                  - (IF o # 0 /\ i >= D THEN o ELSE 0) + F(i) - c
  BY DEF Laid
<1>4. n \in Nat /\ n <= tot + R /\ b \in 0 .. F(n) /\ (n >= tot => b = F(n))
  BY <1>1
<1>5. b \in Nat /\ b <= F(n) /\ n + 1 \in Nat
  BY <1>2, <1>4
<1> HIDE DEF D, tot, R, o, F, L
<1> DEFINE f == F(n)
           g == F(n + 1)
           p == L(n, b)
<1>6. /\ f = IF o # 0 /\ n = D - 1 THEN 3 ELSE 7
      /\ g = IF o # 0 /\ n + 1 = D - 1 THEN 3 ELSE 7
      /\ p = (IF n <= tot THEN 8 * n ELSE 8 * tot + (n - tot))
            - (IF o # 0 /\ n >= D THEN o ELSE 0) + f - b
      /\ b \in 0 .. f /\ (n >= tot => b = f)
  BY <1>2, <1>3, <1>4, <1>5
<1>7. L(n, b - 1) = (IF n <= tot THEN 8 * n ELSE 8 * tot + (n - tot))
                    - (IF o # 0 /\ n >= D THEN o ELSE 0) + f - (b - 1)
  BY <1>3, <1>5
<1>8. L(n + 1, g) = (IF n + 1 <= tot THEN 8 * (n + 1) ELSE 8 * tot + (n + 1 - tot))
                    - (IF o # 0 /\ n + 1 >= D THEN o ELSE 0) + g - g
  <2>1. g \in Int
    BY <1>6
  <2>2. \A c \in Int :
          L(n + 1, c) = (IF n + 1 <= tot THEN 8 * (n + 1) ELSE 8 * tot + (n + 1 - tot))
                        - (IF o # 0 /\ n + 1 >= D THEN o ELSE 0) + g - c
    <3> HIDE DEF g
    <3>1. g = F(n + 1)
      BY DEF g
    <3>2. PICK i \in Nat : i = n + 1
      BY <1>5
    <3>3. \A c \in Int :
            L(i, c) = (IF i <= tot THEN 8 * i ELSE 8 * tot + (i - tot))
                      - (IF o # 0 /\ i >= D THEN o ELSE 0) + F(i) - c
      BY <1>3
    <3> DEFINE e(j, x, c) == (IF j <= tot THEN 8 * j ELSE 8 * tot + (j - tot))
                          - (IF o # 0 /\ j >= D THEN o ELSE 0) + x - c
    <3>4. \A c \in Int : L(i, c) = e(i, F(i), c)
      BY <3>3
    <3> HIDE DEF e
    <3>5. \A c \in Int : L(n + 1, c) = e(n + 1, g, c)
      BY <3>1, <3>2, <3>4, Zenon
    <3>6. QED
      BY <1>1, <1>4, <1>5, <3>5 DEF e
  <2> HIDE DEF g
  <2>3. QED
    BY <2>1, <2>2
<1>9. L(0, F(0)) = 0
  BY <1>1, <1>2, <1>3
<1> HIDE DEF f, g, p
<1>10. /\ n < tot + R => p < 8 * tot - o + R
       /\ n = tot + R => p = 8 * tot - o + R
       /\ n < tot /\ b > 0 => L(n, b - 1) = p + 1
       /\ n < tot + R /\ (b = 0 \/ n >= tot) => L(n + 1, g) = p + 1
       /\ p \in Nat
  <2>1. n < tot + R => p < 8 * tot - o + R
    BY <1>1, <1>4, <1>5, <1>6
  <2>2. n = tot + R => p = 8 * tot - o + R
    BY <1>1, <1>4, <1>5, <1>6
  <2>3. n < tot /\ b > 0 => L(n, b - 1) = p + 1
    BY <1>1, <1>4, <1>5, <1>6, <1>7
  <2>4. n < tot + R /\ (b = 0 \/ n >= tot) => L(n + 1, g) = p + 1
    BY <1>1, <1>4, <1>5, <1>6, <1>8
  <2>5. p \in Nat
    BY <1>1, <1>4, <1>5, <1>6
  <2>6. QED
    BY <2>1, <2>2, <2>3, <2>4, <2>5
<1>11. QED
  BY <1>1, <1>9, <1>10 DEF tot, R, o, F, L, p, g, f

\* And so do their names.
LEMMA BitsNext ==
  ASSUME NEW k \in Kinds, NEW n \in 0 .. Total(k) + Rest(k), NEW b \in 0 .. FirstBit(k, n),
         n >= Total(k) => b = FirstBit(k, n)
  PROVE  /\ n < Total(k) /\ b > 0 =>
              BitsBefore(k, n, b - 1) = BitsBefore(k, n, b) \union {<<n, b>>}
         /\ n < Total(k) + Rest(k) /\ (b = 0 \/ n >= Total(k)) =>
              BitsBefore(k, n + 1, FirstBit(k, n + 1)) = BitsBefore(k, n, b) \union {<<n, b>>}
         /\ n = Total(k) + Rest(k) => BitsBefore(k, n, b) = Bits(k)
         /\ BitsBefore(k, 0, FirstBit(k, 0)) = {}
<1> DEFINE tot == Total(k)
           R == Rest(k)
           F(i) == FirstBit(k, i)
<1>1. tot \in Nat /\ R \in Nat
  BY BitsThere
<1>2. \A i \in Nat : F(i) \in 0 .. 7
  BY BitsThere DEF FirstBit
<1>3. \A x : x \in Bits(k) <=>
        /\ x = <<x[1], x[2]>> /\ x[1] \in 0 .. tot + R - 1 /\ x[2] \in 0 .. 7
        /\ IF x[1] < tot THEN x[2] <= F(x[1]) ELSE x[2] = F(x[1])
  BY DEF Bits
<1>4. n \in Nat /\ n <= tot + R /\ b \in 0 .. F(n) /\ (n >= tot => b = F(n)) /\ b \in 0 .. 7
  <2>1. n \in Nat /\ n <= tot + R
    BY <1>1
  <2>2. F(n) \in 0 .. 7
    BY <1>2, <2>1
  <2>3. QED
    BY <2>1, <2>2
<1>5. n < tot + R => <<n, b>> \in Bits(k)
  <2> HIDE DEF tot, R, F
  <2>1. QED
    BY <1>1, <1>3, <1>4
<1>6. \A m, c : BitsBefore(k, m, c) = {x \in Bits(k) : x[1] < m \/ (x[1] = m /\ x[2] > c)}
  BY DEF BitsBefore
<1> HIDE DEF tot, R, F
<1>7. ASSUME n < tot, b > 0
      PROVE  BitsBefore(k, n, b - 1) = BitsBefore(k, n, b) \union {<<n, b>>}
  <2>1. ASSUME NEW x \in Bits(k)
        PROVE  x[1] < n \/ (x[1] = n /\ x[2] > b - 1)
                 <=> (x[1] < n \/ (x[1] = n /\ x[2] > b)) \/ x = <<n, b>>
    <3>1. x = <<x[1], x[2]>> /\ x[1] \in Int /\ x[2] \in Int
      BY <1>1, <1>3
    <3>2. QED
      BY <1>4, <3>1
  <2>2. <<n, b>> \in Bits(k)
    BY <1>1, <1>4, <1>5, <1>7
  <2>3. QED
    BY <1>6, <2>1, <2>2
<1>8. ASSUME n < tot + R, b = 0 \/ n >= tot
      PROVE  BitsBefore(k, n + 1, F(n + 1)) = BitsBefore(k, n, b) \union {<<n, b>>}
  <2>1. ASSUME NEW x \in Bits(k)
        PROVE  x[1] < n + 1 \/ (x[1] = n + 1 /\ x[2] > F(n + 1))
                 <=> (x[1] < n \/ (x[1] = n /\ x[2] > b)) \/ x = <<n, b>>
    <3>1. x = <<x[1], x[2]>> /\ x[1] \in 0 .. tot + R - 1 /\ x[2] \in 0 .. 7
          /\ IF x[1] < tot THEN x[2] <= F(x[1]) ELSE x[2] = F(x[1])
      BY <1>3
    <3>2. F(x[1]) \in 0 .. 7
      BY <1>1, <1>2, <3>1
    <3>3. x[2] <= F(x[1]) /\ (x[1] >= tot => x[2] = F(x[1]))
      BY <1>1, <3>1, <3>2
    <3>4. ~(x[1] = n + 1 /\ x[2] > F(n + 1))
      BY <3>1, <3>2, <3>3
    <3>5. CASE x[1] < n
      BY <1>4, <3>1, <3>5
    <3>6. CASE x[1] = n
      <4>1. x[2] > b \/ x[2] = b
        BY <1>4, <1>8, <3>1, <3>3, <3>6
      <4>2. QED
        BY <1>4, <3>1, <3>6, <4>1
    <3>7. CASE x[1] > n
      BY <1>4, <3>1, <3>4, <3>7
    <3>8. QED
      BY <1>4, <3>1, <3>5, <3>6, <3>7
  <2>2. <<n, b>> \in Bits(k)
    BY <1>5, <1>8
  <2>3. QED
    BY <1>6, <2>1, <2>2
<1>9. ASSUME n = tot + R PROVE BitsBefore(k, n, b) = Bits(k)
  <2>1. \A x \in Bits(k) : x[1] < n
    BY <1>1, <1>3, <1>9
  <2>2. QED
    BY <1>6, <2>1
<1>10. BitsBefore(k, 0, F(0)) = {}
  <2>1. ASSUME NEW x \in Bits(k) PROVE ~(x[1] < 0 \/ (x[1] = 0 /\ x[2] > F(0)))
    <3>1. x[1] \in Nat /\ x[2] \in Int /\ F(x[1]) \in Int /\ x[2] <= F(x[1])
      BY <1>1, <1>2, <1>3
    <3>2. QED
      BY <3>1
  <2>2. QED
    BY <1>6, <2>1
<1>11. QED
  BY <1>7, <1>8, <1>9, <1>10 DEF tot, R, F

-----------------------------------------------------------------------------
(* Every bit finds a cell, and every cell a bit.                           *)

\* The inductive invariant.  The free cells the filler has been over are those that
\* hold a bit; there are as many as bits before the next one, and the bits they hold
\* are those.
Laying ==
  /\ count \in 0 .. Total(kind) + Rest(kind)
  /\ bit \in 0 .. FirstBit(kind, count)
  /\ count >= Total(kind) => bit = FirstBit(kind, count)
  /\ DOMAIN placed \subseteq Free(kind)
  /\ Cardinality(DOMAIN placed) = Laid(kind, count, bit)
  /\ {placed[c] : c \in DOMAIN placed} = BitsBefore(kind, count, bit)
  /\ filler.bit = -1 =>
       Cell(filler) = <<SymbolWidth(kind) - 1, SymbolWidth(kind) - 1>>
  /\ filler.bit # -1 =>
       \A c \in Free(kind) : ReadingRank(c) <= ReadingRank(Cell(filler)) => c \in DOMAIN placed

\* The cells of a symbol are finitely many, and have a rank.
LEMMA CellsAre ==
  ASSUME kind \in Kinds
  PROVE  /\ IsFiniteSet(Free(kind))
         /\ \A c \in Cells(SymbolWidth(kind)) : ReadingRank(c) \in Int
<1> DEFINE w == SymbolWidth(kind)
<1>1. w \in Nat
  BY KindsAssumption, WidthOf
<1>2. IsFiniteSet(Cells(w))
  <2>1. IsFiniteSet(0 .. (0 + w - 1))
    BY <1>1, FS_Interval
  <2>2. QED
    BY <2>1, FS_Product DEF Cells, Block
<1>3. IsFiniteSet(Free(kind))
  BY <1>2, FS_Subset DEF Free
<1>4. ASSUME NEW c \in Cells(w) PROVE ReadingRank(c) \in Int
  <2>1. c[1] \in Int /\ c[2] \in Int
    BY <1>1 DEF Cells, Block
  <2> DEFINE x == IF ~kind.mqr /\ c[1] < 6 THEN c[1] + 1 ELSE c[1]
             p == (w - 1 - x) \div 2
             r == IF p % 2 = 0 THEN w - 1 - c[2] ELSE c[2]
  <2>2. ReadingRank(c) = (p * w + r) * 2 + ((w - 1 - x) % 2)
    BY DEF ReadingRank
  <2> HIDE DEF w
  <2>3. x \in Int
    BY <2>1
  <2> HIDE DEF x
  <2>4. p \in Int /\ (w - 1 - x) % 2 \in Int
    BY <1>1, <2>3
  <2>5. r \in Int
    BY <1>1, <2>1
  <2> HIDE DEF p, r
  <2> DEFINE P == p * w
             t == (w - 1 - x) % 2
  <2>6. P \in Int /\ t \in Int
    BY <1>1, <2>4
  <2> HIDE DEF P, t
  <2>7. (P + r) * 2 + t \in Int
    BY <2>5, <2>6
  <2>8. QED
    BY <2>2, <2>7 DEF P, t
<1>5. QED
  BY <1>3, <1>4

\* While there are bits to lay, a turn stays in the frame, and the cell it leads to is
\* the only one among those read up to there that may have no bit.
LEMMA TurnFinds ==
  ASSUME Path, Laying, count # Total(kind) + Rest(kind),
         NEW f, f = Turn(filler, SymbolWidth(kind), kind.mqr)
  PROVE  /\ f.x \in Nat /\ f.y \in Nat /\ f.bit # -1
         /\ Cell(f) \in Cells(SymbolWidth(kind)) /\ Cell(f) \notin DOMAIN placed
         /\ filler.bit = -1 => Cell(f) \notin function[kind]
         /\ \A c \in Free(kind) : ReadingRank(c) <= ReadingRank(Cell(f)) =>
                                    c = Cell(f) \/ c \in DOMAIN placed
<1> DEFINE w == SymbolWidth(kind)
           m == kind.mqr
<1>1. kind \in Kinds /\ m \in BOOLEAN /\ w \in Nat /\ w >= 11 /\ (~m => w >= 21)
  BY KindsAssumption, WidthOf DEF Path
<1>2. \A c \in Cells(w) : ReadingRank(c) \in Int
  BY <1>1, CellsAre
<1>3. CASE filler.bit = -1
  <2>1. f = [filler EXCEPT !.bit = 0]
    BY <1>3 DEF Turn
  <2>2. On(f, w, m, 0) /\ placed = << >>
    BY <1>3, <2>1 DEF Path
  <2>3. Cell(f) = <<w - 1, w - 1>>
    BY <1>3, <2>1 DEF Laying, Cell
  <2>4. Cell(f) \in Cells(w)
    BY <1>1, <2>3 DEF Cells, Block
  <2>5. f.x \in Nat /\ f.y \in Nat /\ f.bit # -1
    BY <1>1, <2>2 DEF On
  <2>6. Cell(f) \notin function[kind]
    BY <1>1, <2>3, FrameIs
  <2>7. ASSUME NEW c \in Free(kind), ReadingRank(c) <= ReadingRank(Cell(f)) PROVE c = Cell(f)
    <3>1. c \in Cells(w) /\ (~m => c[1] # 6)
      <4>1. c \in Cells(w) /\ c \notin function[kind]
        BY DEF Free
      <4>2. ~m => Block(6, 0, 1, w) \subseteq function[kind]
        BY <1>1, FrameIs
      <4>3. c = <<c[1], c[2]>> /\ c[2] \in 0 .. w - 1
        BY <1>1, <4>1 DEF Cells, Block
      <4>4. ASSUME ~m, c[1] = 6 PROVE FALSE
        <5>1. c \in Block(6, 0, 1, w)
          BY <1>1, <4>3, <4>4 DEF Block
        <5>2. QED
          BY <4>1, <4>2, <4>4, <5>1
      <4>5. QED
        BY <4>1, <4>4
    <3>2. PICK p \in Nat : \E e : On(e, w, m, p) /\ Cell(e) = c
      <4> HIDE DEF w, m
      <4>1. QED
        BY <1>1, <3>1, PlaceOf
    <3>3. PICK e : On(e, w, m, p) /\ Cell(e) = c
      BY <3>2
    <3>4. /\ ReadingRank(Cell(f)) = (0 * w + Nth(f, w)) * 2 + f.bit
          /\ ReadingRank(c) = (p * w + Nth(e, w)) * 2 + e.bit
      BY <1>1, <2>2, <3>3, RankOf
    <3>5. Nth(f, w) = 0 /\ f.bit = 0 /\ e.bit \in {0, 1} /\ Nth(e, w) \in 0 .. w - 1
      <4>1. f.bit = 0
        BY <2>1, <2>2 DEF On
      <4>2. f.y = w - 1 /\ f.dir = -1
        BY <2>2, <2>3 DEF Cell, On
      <4>3. QED
        BY <1>1, <3>3, <4>1, <4>2 DEF Nth, On
    <3>6. ~((0 * w + 0) * 2 + 0 < (p * w + Nth(e, w)) * 2 + e.bit)
      <4>1. ReadingRank(c) \in Int /\ ReadingRank(Cell(f)) \in Int
        BY <1>2, <2>4, <3>1
      <4>2. ~(ReadingRank(Cell(f)) < ReadingRank(c))
        BY <2>7, <4>1
      <4>3. QED
        BY <3>4, <3>5, <4>2
    <3>7. p = 0 /\ Nth(e, w) = 0 /\ e.bit = 0
      <4> HIDE DEF w
      <4>1. w \in Nat \ {0} /\ 0 \in 0 .. w - 1
        BY <1>1
      <4>2. ~(0 < p \/ (0 = p /\ 0 < Nth(e, w)) \/ (0 = p /\ 0 = Nth(e, w) /\ 0 < e.bit))
        BY <3>5, <3>6, <4>1, RanksAre
      <4>3. QED
        BY <3>5, <4>2
    <3>8. QED
      BY <1>1, <2>2, <3>3, <3>5, <3>7, PlaceIsOne
  <2>8. QED
    BY <2>2, <2>4, <2>5, <2>6, <2>7
<1>4. CASE filler.bit # -1
  <2>1. PICK q \in Nat : On(filler, w, m, q)
    BY <1>4 DEF Path
  <2>2. /\ \A c \in DOMAIN placed : ReadingRank(c) \in Int /\ ReadingRank(c) <= ReadingRank(Cell(filler))
        /\ \A c \in Free(kind) : ReadingRank(c) <= ReadingRank(Cell(filler)) => c \in DOMAIN placed
    BY <1>4 DEF Path, Laying
  <2>3. \A c \in Free(kind) : ReadingRank(c) \in Int
    BY <1>2 DEF Free
  <2>4. Cell(filler) \in Cells(w)
    BY <1>1, <2>1 DEF Cells, Block, Cell, On, Col
  <2>5. ReadingRank(Cell(filler)) \in Int
    BY <1>2, <2>4
  <2>6. PICK c \in Free(kind) : ReadingRank(c) > ReadingRank(Cell(filler))
    <3>1. Cardinality(DOMAIN placed) < Cardinality(Free(kind))
      <4>1. Laid(kind, count, bit) < Capacity(kind)
        <5>1. count \in 0 .. Total(kind) + Rest(kind) /\ count < Total(kind) + Rest(kind)
          BY <1>1, BitsThere DEF Laying
        <5>2. QED
          BY <1>1, <5>1, LaidNext DEF Laying
      <4>2. Cardinality(Free(kind)) = Capacity(kind)
        BY <1>1, FrameIs
      <4>3. QED
        BY <4>1, <4>2 DEF Laying
    <3>2. ~(Free(kind) \subseteq DOMAIN placed)
      <4>1. DOMAIN placed \subseteq Free(kind)
        BY DEF Laying
      <4>2. Cardinality(Free(kind)) \in Nat
        BY <1>1, CellsAre, FS_CardinalityType
      <4>3. Free(kind) \subseteq DOMAIN placed => DOMAIN placed = Free(kind)
        BY <4>1
      <4>4. QED
        BY <3>1, <4>2, <4>3
    <3>3. PICK c \in Free(kind) : c \notin DOMAIN placed
      BY <3>2
    <3>4. QED
      BY <2>2, <2>3, <2>5, <3>3
  <2>7. f.x >= 0 /\ f.y \in 0 .. w - 1
    BY <1>1, <2>1, <2>6, NothingBetween
  <2>8. PICK r \in Nat : On(f, w, m, r)
    BY <1>1, <2>1, <2>7, KindsAssumption, TurnLater
  <2>9. ReadingRank(Cell(f)) > ReadingRank(Cell(filler))
    BY <1>1, <2>1, <2>7, KindsAssumption, TurnLater
  <2>10. Cell(f) \in Cells(w)
    BY <1>1, <2>8 DEF Cells, Block, Cell, On, Col
  <2>11. Cell(f) \notin DOMAIN placed
    BY <1>2, <2>2, <2>5, <2>9, <2>10
  <2>12. ASSUME NEW d \in Free(kind), ReadingRank(d) <= ReadingRank(Cell(f))
         PROVE  d = Cell(f) \/ d \in DOMAIN placed
    <3>1. CASE ReadingRank(d) <= ReadingRank(Cell(filler))
      BY <2>2, <3>1
    <3>2. CASE ReadingRank(d) > ReadingRank(Cell(filler))
      BY <1>1, <2>1, <2>12, <3>2, NothingBetween
    <3>3. QED
      BY <2>3, <2>5, <3>1, <3>2
  <2>13. f.bit # -1 /\ f.x \in Nat /\ f.y \in Nat
    BY <1>1, <2>7, <2>8 DEF On
  <2>14. QED
    BY <1>4, <2>7, <2>10, <2>11, <2>12, <2>13
<1>5. QED
  BY <1>3, <1>4

LEMMA LayingInit == Init => Laying /\ pc # "null"
<1> SUFFICES ASSUME Init PROVE Laying /\ pc # "null"
  OBVIOUS
<1> DEFINE w == SymbolWidth(kind)
<1>1. /\ kind \in Kinds /\ count = 0 /\ bit = FirstBit(kind, 0) /\ placed = << >>
      /\ filler = [x |-> w - 1, y |-> w - 1, dir |-> -1, bit |-> -1]
      /\ pc = "generator"
  BY DEF Init
<1>2. /\ Total(kind) \in Nat /\ Rest(kind) \in Nat /\ FirstBit(kind, 0) \in 0 .. 7
  BY <1>1, BitsThere DEF FirstBit
<1>3. count \in 0 .. Total(kind) + Rest(kind) /\ bit \in 0 .. FirstBit(kind, count)
  BY <1>1, <1>2
<1>4. Laid(kind, count, bit) = 0 /\ BitsBefore(kind, count, bit) = {}
  BY <1>1, <1>3, LaidNext, BitsNext
<1>5. DOMAIN placed = {}
  BY <1>1
<1>6. Cardinality({}) = 0
  BY FS_EmptySet
<1>7. Cell(filler) = <<w - 1, w - 1>>
  BY <1>1 DEF Cell
<1>8. QED
  BY <1>1, <1>3, <1>4, <1>5, <1>6, <1>7 DEF Laying

\* A turn of the filler lays the next bit on the next free cell.
LEMMA LayingLay ==
  ASSUME Path, Laying, LayBit
  PROVE  Laying' /\ pc' = "fill"
<1> DEFINE w == SymbolWidth(kind)
           f == Turn(filler, w, kind.mqr)
           out  == f.x < 0 \/ f.y < 0
           skip == filler.bit # -1 /\ Cell(f) \in function[kind]
           last == bit = 0 \/ count >= Total(kind)
<1>1. /\ pc = "fill" /\ count # Total(kind) + Rest(kind)
      /\ pc' = IF out THEN "null" ELSE pc
      /\ filler' = IF out THEN filler ELSE f
      /\ placed' = IF out \/ skip THEN placed
                   ELSE [c \in DOMAIN placed \union {Cell(f)} |->
                           IF c = Cell(f) THEN <<count, bit>> ELSE placed[c]]
      /\ count' = IF ~out /\ ~skip /\ last THEN count + 1 ELSE count
      /\ bit' = IF out \/ skip THEN bit
                ELSE IF last THEN FirstBit(kind, count + 1) ELSE bit - 1
      /\ kind' = kind
  BY DEF LayBit, Filled
<1>2. /\ f.x \in Nat /\ f.y \in Nat /\ f.bit # -1
      /\ Cell(f) \in Cells(w) /\ Cell(f) \notin DOMAIN placed
      /\ filler.bit = -1 => Cell(f) \notin function[kind]
      /\ \A c \in Free(kind) : ReadingRank(c) <= ReadingRank(Cell(f)) =>
                                 c = Cell(f) \/ c \in DOMAIN placed
  <2> DEFINE g == Turn(filler, SymbolWidth(kind), kind.mqr)
  <2>1. f = g
    OBVIOUS
  <2> HIDE DEF g, f
  <2>2. g = Turn(filler, SymbolWidth(kind), kind.mqr)
    BY DEF g
  <2>3. count # Total(kind) + Rest(kind)
    BY <1>1
  <2>4. QED
    BY <2>1, <2>2, <2>3, TurnFinds
<1>3. kind \in Kinds
  BY DEF Path
<1>4. /\ count \in 0 .. Total(kind) + Rest(kind)
      /\ bit \in 0 .. FirstBit(kind, count)
      /\ count >= Total(kind) => bit = FirstBit(kind, count)
      /\ DOMAIN placed \subseteq Free(kind)
      /\ Cardinality(DOMAIN placed) = Laid(kind, count, bit)
      /\ {placed[c] : c \in DOMAIN placed} = BitsBefore(kind, count, bit)
  BY DEF Laying
<1>5. ~out
  BY <1>2
<1> HIDE DEF f, out, w
<1>6. pc' = "fill" /\ filler' = f
  BY <1>1, <1>5
<1>7. \A c : ReadingRank(c)' = ReadingRank(c)
  BY <1>1 DEF ReadingRank
<1>8. Free(kind)' = Free(kind) /\ Cell(filler)' = Cell(f)
  BY <1>1, <1>6 DEF Cell
<1>9. filler'.bit # -1
  BY <1>2, <1>6
<1>10. CASE skip
  <2>1. placed' = placed /\ count' = count /\ bit' = bit
    BY <1>1, <1>5, <1>10
  <2>2. \A c \in Free(kind) : ReadingRank(c) <= ReadingRank(Cell(f)) => c \in DOMAIN placed
    BY <1>2, <1>10 DEF Free
  <2>4. ReadingRank(Cell(filler))' = ReadingRank(Cell(f))
    BY <1>1, <1>6 DEF ReadingRank, Cell
  <2>3. (\A c \in Free(kind) : ReadingRank(c) <= ReadingRank(Cell(filler)) => c \in DOMAIN placed)'
    BY <1>7, <1>8, <2>1, <2>2, <2>4
  <2>5. (/\ count \in 0 .. Total(kind) + Rest(kind)
         /\ bit \in 0 .. FirstBit(kind, count)
         /\ count >= Total(kind) => bit = FirstBit(kind, count)
         /\ DOMAIN placed \subseteq Free(kind)
         /\ Cardinality(DOMAIN placed) = Laid(kind, count, bit))'
    BY <1>1, <1>4, <2>1
  <2>6. ({placed[c] : c \in DOMAIN placed} = BitsBefore(kind, count, bit))'
    <3>1. kind' = kind /\ {placed[c] : c \in DOMAIN placed} = BitsBefore(kind, count, bit)
      BY <1>1, <1>4
    <3>2. QED
      BY <2>1, <3>1
  <2>7. QED
    BY <1>6, <1>9, <2>3, <2>5, <2>6 DEF Laying
<1>11. CASE ~skip
  <2>1. Cell(f) \notin function[kind]
    BY <1>2, <1>11
  <2>2. Cell(f) \in Free(kind)
    BY <1>2, <2>1 DEF Free, w
  <2>3. placed' = [c \in DOMAIN placed \union {Cell(f)} |->
                     IF c = Cell(f) THEN <<count, bit>> ELSE placed[c]]
    BY <1>1, <1>5, <1>11
  <2>4. DOMAIN placed' = DOMAIN placed \union {Cell(f)}
    BY <2>3
  <2>5. {placed'[c] : c \in DOMAIN placed'} = {placed[c] : c \in DOMAIN placed} \union {<<count, bit>>}
    <3>1. \A c \in DOMAIN placed : placed'[c] = placed[c]
      BY <1>2, <2>3
    <3>2. placed'[Cell(f)] = <<count, bit>>
      BY <2>3
    <3>3. QED
      BY <2>4, <3>1, <3>2
  <2>6. Cardinality(DOMAIN placed') = Laid(kind, count, bit) + 1
    <3>1. IsFiniteSet(DOMAIN placed)
      BY <1>3, <1>4, CellsAre, FS_Subset
    <3>2. QED
      BY <1>2, <1>4, <2>4, <3>1, FS_AddElement
  <2>7. /\ count' = IF last THEN count + 1 ELSE count
        /\ bit' = IF last THEN FirstBit(kind, count + 1) ELSE bit - 1
    BY <1>1, <1>5, <1>11
  <2>8. Total(kind) \in Nat /\ Rest(kind) \in Nat /\ \A i \in Nat : FirstBit(kind, i) \in 0 .. 7
    BY <1>3, BitsThere DEF FirstBit
  <2>9. count \in Nat /\ count < Total(kind) + Rest(kind)
    BY <1>1, <1>4, <2>8
  <2>10. /\ count' \in 0 .. Total(kind) + Rest(kind)
         /\ bit' \in 0 .. FirstBit(kind, count')
         /\ count' >= Total(kind) => bit' = FirstBit(kind, count')
         /\ Laid(kind, count', bit') = Laid(kind, count, bit) + 1
         /\ BitsBefore(kind, count', bit') = BitsBefore(kind, count, bit) \union {<<count, bit>>}
    <3>1. CASE last
      <4>1. count' = count + 1 /\ bit' = FirstBit(kind, count + 1)
        BY <2>7, <3>1
      <4>2. FirstBit(kind, count + 1) \in 0 .. 7
        BY <2>8, <2>9
      <4>3. /\ Laid(kind, count + 1, FirstBit(kind, count + 1)) = Laid(kind, count, bit) + 1
            /\ BitsBefore(kind, count + 1, FirstBit(kind, count + 1))
                 = BitsBefore(kind, count, bit) \union {<<count, bit>>}
        BY <1>3, <1>4, <2>9, <3>1, LaidNext, BitsNext
      <4>4. QED
        BY <2>8, <2>9, <4>1, <4>2, <4>3
    <3>2. CASE ~last
      <4>1. count' = count /\ bit' = bit - 1
        BY <2>7, <3>2
      <4>2. count < Total(kind) /\ bit > 0 /\ bit \in 0 .. 7 /\ FirstBit(kind, count) \in 0 .. 7
        BY <1>4, <2>8, <2>9, <3>2
      <4>3. /\ Laid(kind, count, bit - 1) = Laid(kind, count, bit) + 1
            /\ BitsBefore(kind, count, bit - 1) = BitsBefore(kind, count, bit) \union {<<count, bit>>}
        BY <1>3, <1>4, <4>2, LaidNext, BitsNext
      <4>4. QED
        BY <1>4, <2>8, <2>9, <4>1, <4>2, <4>3
    <3>3. QED
      BY <3>1, <3>2
  <2>11. \A c \in Free(kind) : ReadingRank(c) <= ReadingRank(Cell(f)) => c \in DOMAIN placed'
    BY <1>2, <2>4
  <2>12. DOMAIN placed' \subseteq Free(kind)
    BY <1>4, <2>2, <2>4
  <2>13. {placed'[c] : c \in DOMAIN placed'} = BitsBefore(kind, count', bit')
    BY <1>4, <2>5, <2>10
  <2>14. QED
    BY <1>1, <1>6, <1>7, <1>8, <1>9, <2>6, <2>10, <2>11, <2>12, <2>13 DEF Laying
<1>12. QED
  BY <1>10, <1>11

\* Once all bits are laid, every free cell has one.
LEMMA FilledIs ==
  ASSUME kind \in Kinds, Laying, Filled
  PROVE  DOMAIN placed = Free(kind) /\ {placed[c] : c \in DOMAIN placed} = Bits(kind)
<1>1. Laid(kind, count, bit) = Capacity(kind) /\ BitsBefore(kind, count, bit) = Bits(kind)
  BY LaidNext, BitsNext DEF Laying, Filled
<1>2. Cardinality(DOMAIN placed) = Cardinality(Free(kind))
  BY <1>1, FrameIs DEF Laying
<1>3. DOMAIN placed = Free(kind)
  BY <1>2, CellsAre, FS_Subset DEF Laying
<1>4. QED
  BY <1>1, <1>3 DEF Laying

-----------------------------------------------------------------------------
(* From the first bit to the last, and after.                              *)

\* The other actions lay nothing.
LEMMA LayingStays ==
  ASSUME Laying, UNCHANGED <<kind, filler, count, bit, placed>>
  PROVE  Laying'
BY DEF Laying, ReadingRank

\* Masks are tried on a full frame.
Full == pc \in {"mask", "judge"} => Filled

LEMMA FullStep ==
  ASSUME Path, Laying, Full, [Next]_vars
  PROVE  Laying' /\ Full'
<1>1. CASE LayBit
  <2>1. Laying' /\ pc' = "fill"
    BY <1>1, LayingLay
  <2>2. QED
    BY <2>1 DEF Full
<1>2. CASE FormGenerator \/ Encode \/ EndFill \/ TryMask \/ Judge \/ Return \/ UNCHANGED vars
  <2>1. UNCHANGED <<kind, filler, count, bit, placed>>
    BY <1>2 DEF FormGenerator, Encode, EndFill, TryMask, Judge, Return, vars, lay, rs, mask
  <2>2. Filled' = Filled
    BY <2>1 DEF Filled
  <2>3. pc' \in {"mask", "judge"} => Filled
    BY <1>2 DEF Full, FormGenerator, Encode, EndFill, TryMask, Judge, Return, vars
  <2>4. QED
    BY <2>1, <2>2, <2>3, LayingStays DEF Full
<1>3. QED
  BY <1>1, <1>2 DEF Next

-----------------------------------------------------------------------------
(* Every bit of every codeword.                                            *)

\* Quotient and remainder are what they are.
LEMMA QuotientIs ==
  ASSUME NEW n \in Nat \ {0}, NEW c \in Nat, NEW r \in 0 .. n - 1
  PROVE  (n * c + r) \div n = c /\ (n * c + r) % n = r
<1> DEFINE X == n * c + r
           q == X \div n
           s == X % n
<1>1. n * c \in Nat /\ X \in Nat
  OBVIOUS
<1> HIDE DEF X
<1>2. q \in Nat /\ s \in 0 .. n - 1 /\ X = n * q + s
  BY <1>1
<1> HIDE DEF q, s
<1>3. ~(q < c)
  <2>1. ASSUME q < c PROVE FALSE
    <3>1. PICK e \in Nat : c = q + 1 + e
      <4>1. c - q - 1 \in Nat /\ c = q + 1 + (c - q - 1)
        BY <1>2, <2>1
      <4>2. QED
        BY <4>1
    <3>2. n * c = n * q + n + n * e /\ n * e \in Nat /\ n * q \in Nat
      BY <1>2, <3>1
    <3> DEFINE A == n * c
               B == n * q
               F == n * e
    <3>3. A = B + n + F /\ A \in Nat /\ B \in Nat /\ F \in Nat /\ A + r = B + s
      BY <1>1, <1>2, <3>2 DEF X
    <3> HIDE DEF A, B, F
    <3>4. QED
      BY <1>2, <3>3
  <2>2. QED
    BY <2>1
<1>4. ~(c < q)
  <2>1. ASSUME c < q PROVE FALSE
    <3>1. PICK e \in Nat : q = c + 1 + e
      <4>1. q - c - 1 \in Nat /\ q = c + 1 + (q - c - 1)
        BY <1>2, <2>1
      <4>2. QED
        BY <4>1
    <3>2. n * q = n * c + n + n * e /\ n * e \in Nat /\ n * q \in Nat
      BY <1>2, <3>1
    <3> DEFINE A == n * c
               B == n * q
               F == n * e
    <3>3. B = A + n + F /\ A \in Nat /\ B \in Nat /\ F \in Nat /\ A + r = B + s
      BY <1>1, <1>2, <3>2 DEF X
    <3> HIDE DEF A, B, F
    <3>4. QED
      BY <1>2, <3>3
  <2>2. QED
    BY <2>1
<1>5. q = c
  BY <1>2, <1>3, <1>4
<1>6. s = r
  <2> DEFINE A == n * c
  <2>1. A \in Nat /\ A + r = A + s
    BY <1>1, <1>2, <1>5 DEF X
  <2> HIDE DEF A
  <2>2. QED
    BY <1>2, <2>1
<1>7. QED
  BY <1>5, <1>6 DEF q, s, X

\* The block table cuts the error correction codewords of version v at level number i
\* into parts of the same length, and no block is longer than a word of the code.
FitsWord(v, i) ==
  LET n == eccTable[v][i][1] + eccTable[v][i][2]
  IN  capacityEcc[v][i] % n = 0 /\ capacityWords[v] + n <= 255 * n

LEMMA TableFitsWord == \A v \in Versions : \A i \in 1..4 : FitsWord(v, i)
<1>1. \A i \in 1..4 : FitsWord(1, i)
  BY SMTT(30) DEF FitsWord, eccTable, capacityWords, capacityEcc
<1>2. \A i \in 1..4 : FitsWord(2, i)
  BY SMTT(30) DEF FitsWord, eccTable, capacityWords, capacityEcc
<1>3. \A i \in 1..4 : FitsWord(3, i)
  BY SMTT(30) DEF FitsWord, eccTable, capacityWords, capacityEcc
<1>4. \A i \in 1..4 : FitsWord(4, i)
  BY SMTT(30) DEF FitsWord, eccTable, capacityWords, capacityEcc
<1>5. \A i \in 1..4 : FitsWord(5, i)
  BY SMTT(30) DEF FitsWord, eccTable, capacityWords, capacityEcc
<1>6. \A i \in 1..4 : FitsWord(6, i)
  BY SMTT(30) DEF FitsWord, eccTable, capacityWords, capacityEcc
<1>7. \A i \in 1..4 : FitsWord(7, i)
  BY SMTT(30) DEF FitsWord, eccTable, capacityWords, capacityEcc
<1>8. \A i \in 1..4 : FitsWord(8, i)
  BY SMTT(30) DEF FitsWord, eccTable, capacityWords, capacityEcc
<1>9. \A i \in 1..4 : FitsWord(9, i)
  BY SMTT(30) DEF FitsWord, eccTable, capacityWords, capacityEcc
<1>10. \A i \in 1..4 : FitsWord(10, i)
  BY SMTT(30) DEF FitsWord, eccTable, capacityWords, capacityEcc
<1>11. \A i \in 1..4 : FitsWord(11, i)
  BY SMTT(30) DEF FitsWord, eccTable, capacityWords, capacityEcc
<1>12. \A i \in 1..4 : FitsWord(12, i)
  BY SMTT(30) DEF FitsWord, eccTable, capacityWords, capacityEcc
<1>13. \A i \in 1..4 : FitsWord(13, i)
  BY SMTT(30) DEF FitsWord, eccTable, capacityWords, capacityEcc
<1>14. \A i \in 1..4 : FitsWord(14, i)
  BY SMTT(30) DEF FitsWord, eccTable, capacityWords, capacityEcc
<1>15. \A i \in 1..4 : FitsWord(15, i)
  BY SMTT(30) DEF FitsWord, eccTable, capacityWords, capacityEcc
<1>16. \A i \in 1..4 : FitsWord(16, i)
  BY SMTT(30) DEF FitsWord, eccTable, capacityWords, capacityEcc
<1>17. \A i \in 1..4 : FitsWord(17, i)
  BY SMTT(30) DEF FitsWord, eccTable, capacityWords, capacityEcc
<1>18. \A i \in 1..4 : FitsWord(18, i)
  BY SMTT(30) DEF FitsWord, eccTable, capacityWords, capacityEcc
<1>19. \A i \in 1..4 : FitsWord(19, i)
  BY SMTT(30) DEF FitsWord, eccTable, capacityWords, capacityEcc
<1>20. \A i \in 1..4 : FitsWord(20, i)
  BY SMTT(30) DEF FitsWord, eccTable, capacityWords, capacityEcc
<1>21. \A i \in 1..4 : FitsWord(21, i)
  BY SMTT(30) DEF FitsWord, eccTable, capacityWords, capacityEcc
<1>22. \A i \in 1..4 : FitsWord(22, i)
  BY SMTT(30) DEF FitsWord, eccTable, capacityWords, capacityEcc
<1>23. \A i \in 1..4 : FitsWord(23, i)
  BY SMTT(30) DEF FitsWord, eccTable, capacityWords, capacityEcc
<1>24. \A i \in 1..4 : FitsWord(24, i)
  BY SMTT(30) DEF FitsWord, eccTable, capacityWords, capacityEcc
<1>25. \A i \in 1..4 : FitsWord(25, i)
  BY SMTT(30) DEF FitsWord, eccTable, capacityWords, capacityEcc
<1>26. \A i \in 1..4 : FitsWord(26, i)
  BY SMTT(30) DEF FitsWord, eccTable, capacityWords, capacityEcc
<1>27. \A i \in 1..4 : FitsWord(27, i)
  BY SMTT(30) DEF FitsWord, eccTable, capacityWords, capacityEcc
<1>28. \A i \in 1..4 : FitsWord(28, i)
  BY SMTT(30) DEF FitsWord, eccTable, capacityWords, capacityEcc
<1>29. \A i \in 1..4 : FitsWord(29, i)
  BY SMTT(30) DEF FitsWord, eccTable, capacityWords, capacityEcc
<1>30. \A i \in 1..4 : FitsWord(30, i)
  BY SMTT(30) DEF FitsWord, eccTable, capacityWords, capacityEcc
<1>31. \A i \in 1..4 : FitsWord(31, i)
  BY SMTT(30) DEF FitsWord, eccTable, capacityWords, capacityEcc
<1>32. \A i \in 1..4 : FitsWord(32, i)
  BY SMTT(30) DEF FitsWord, eccTable, capacityWords, capacityEcc
<1>33. \A i \in 1..4 : FitsWord(33, i)
  BY SMTT(30) DEF FitsWord, eccTable, capacityWords, capacityEcc
<1>34. \A i \in 1..4 : FitsWord(34, i)
  BY SMTT(30) DEF FitsWord, eccTable, capacityWords, capacityEcc
<1>35. \A i \in 1..4 : FitsWord(35, i)
  BY SMTT(30) DEF FitsWord, eccTable, capacityWords, capacityEcc
<1>36. \A i \in 1..4 : FitsWord(36, i)
  BY SMTT(30) DEF FitsWord, eccTable, capacityWords, capacityEcc
<1>37. \A i \in 1..4 : FitsWord(37, i)
  BY SMTT(30) DEF FitsWord, eccTable, capacityWords, capacityEcc
<1>38. \A i \in 1..4 : FitsWord(38, i)
  BY SMTT(30) DEF FitsWord, eccTable, capacityWords, capacityEcc
<1>39. \A i \in 1..4 : FitsWord(39, i)
  BY SMTT(30) DEF FitsWord, eccTable, capacityWords, capacityEcc
<1>40. \A i \in 1..4 : FitsWord(40, i)
  BY SMTT(30) DEF FitsWord, eccTable, capacityWords, capacityEcc
<1>41. Versions = {1, 2, 3, 4, 5, 6, 7, 8, 9, 10, 11, 12, 13, 14, 15, 16, 17, 18, 19, 20,
                    21, 22, 23, 24, 25, 26, 27, 28, 29, 30, 31, 32, 33, 34, 35, 36, 37, 38, 39, 40}
  BY DEF Versions, VersionMax
<1>42. QED
  BY <1>1, <1>2, <1>3, <1>4, <1>5, <1>6, <1>7, <1>8, <1>9, <1>10, <1>11,
     <1>12, <1>13, <1>14, <1>15, <1>16, <1>17, <1>18, <1>19, <1>20, <1>21, <1>22, <1>23,
     <1>24, <1>25, <1>26, <1>27, <1>28, <1>29, <1>30, <1>31, <1>32, <1>33, <1>34, <1>35,
     <1>36, <1>37, <1>38, <1>39, <1>40, <1>41

\* D codewords dealt out in rows of n make d rows, and one of b.
Dealt(D, n, b, d) ==
  /\ d \in Nat
  /\ \A i \in 0 .. D - 1 :
       /\ i \div n \in Nat /\ i % n \in 0 .. n - 1
       /\ i \div n >= d => i \div n = d /\ i % n < b
  /\ \A r \in 0 .. n - 1, c \in Nat :
       c < d \/ (c = d /\ r < b) =>
         n * c + r \in 0 .. D - 1 /\ (n * c + r) \div n = c /\ (n * c + r) % n = r

LEMMA DealtOut ==
  ASSUME NEW D \in Nat, NEW n \in 1 .. D, NEW b, NEW d, D % n = b, D \div n = d
  PROVE  Dealt(D, n, b, d)
<1>1. n \in Nat \ {0} /\ d \in Nat /\ D = n * d + b /\ b \in 0 .. n - 1
  OBVIOUS
<1>2. ASSUME NEW i \in 0 .. D - 1
      PROVE  /\ i \div n \in Nat /\ i % n \in 0 .. n - 1
             /\ i \div n >= d => i \div n = d /\ i % n < b
  <2> DEFINE q == i \div n
             r == i % n
  <2>1. q \in Nat /\ r \in 0 .. n - 1 /\ i = n * q + r
    BY <1>1
  <2> HIDE DEF q, r
  <2>2. ASSUME q >= d PROVE q = d /\ r < b
    <3>1. PICK e \in Nat : q = d + e
      <4>1. q - d \in Nat /\ q = d + (q - d)
        BY <1>1, <2>1, <2>2
      <4>2. QED
        BY <4>1
    <3>2. n * q = n * d + n * e /\ n * d \in Nat
      BY <1>1, <3>1
    <3>3. e # 0 => n * e >= n
      <4>1. ASSUME e # 0 PROVE n * e >= n
        <5>1. e - 1 \in Nat /\ e = 1 + (e - 1)
          BY <4>1
        <5>2. n * e = n + n * (e - 1) /\ n * (e - 1) \in Nat
          BY <1>1, <5>1
        <5>3. QED
          BY <1>1, <5>2
      <4>2. QED
        BY <4>1
    <3> DEFINE A == n * d
               F == n * e
    <3>4. A \in Nat /\ F \in Nat /\ D = A + b /\ i = A + F + r /\ (e # 0 => F >= n)
      <4>1. F \in Nat
        BY <1>1
      <4>2. QED
        BY <1>1, <2>1, <3>2, <3>3, <4>1
    <3> HIDE DEF A, F
    <3>5. e = 0
      <4>1. i < D /\ i \in Nat /\ D \in Nat /\ b < n /\ n \in Nat /\ b \in Nat /\ r \in Nat
        BY <1>1, <2>1
      <4>2. QED
        BY ONLY <3>4, <4>1
    <3>6. F = 0
      BY <1>1, <3>5 DEF F
    <3>7. QED
      BY <1>1, <2>1, <3>1, <3>4, <3>5, <3>6
  <2>3. QED
    BY <2>1, <2>2 DEF q, r
<1>3. ASSUME NEW r \in 0 .. n - 1, NEW c \in Nat, c < d \/ (c = d /\ r < b)
      PROVE  n * c + r \in 0 .. D - 1 /\ (n * c + r) \div n = c /\ (n * c + r) % n = r
  <2>1. (n * c + r) \div n = c /\ (n * c + r) % n = r
    BY <1>1, QuotientIs
  <2>2. n * c + r \in 0 .. D - 1
    <3>1. CASE c = d
      <4> DEFINE A == n * d
      <4>1. A \in Nat /\ D = A + b /\ n * c = A
        BY <1>1, <3>1
      <4> HIDE DEF A
      <4>2. QED
        BY <1>1, <1>3, <3>1, <4>1
    <3>2. CASE c < d
      <4>1. PICK e \in Nat : d = c + 1 + e
        <5>1. d - c - 1 \in Nat /\ d = c + 1 + (d - c - 1)
          BY <1>1, <3>2
        <5>2. QED
          BY <5>1
      <4>2. n * d = n * c + n + n * e /\ n * e \in Nat /\ n * c \in Nat
        BY <1>1, <4>1
      <4> DEFINE A == n * c
                 F == n * e
      <4>3. A \in Nat /\ F \in Nat /\ D = A + n + F + b
        BY <1>1, <4>2
      <4> HIDE DEF A, F
      <4>4. A + r \in 0 .. D - 1
        <5>1. r < n /\ r \in Nat /\ n \in Nat /\ b \in Nat /\ D \in Nat
          BY <1>1
        <5>2. QED
          BY ONLY <4>3, <5>1
      <4>5. QED
        BY <4>4 DEF A
    <3>3. QED
      BY <1>3, <3>1, <3>2
  <2>3. QED
    BY <2>1, <2>2
<1>4. QED
  BY <1>1, <1>2, <1>3 DEF Dealt

\* The codewords of block r, and the one of four bits.
BlockCodes(k, r) ==
  {[part |-> "data", row |-> r, col |-> n] : n \in 0..(BlockLength(k, r) - 1)}
  \union {[part |-> "ecc", row |-> r, col |-> n] : n \in 0..(EccPerBlock(k) - 1)}

IsHalf(k, c) == c.part = "data" /\ c.col = DataLen(k) - 1 /\ OddBits(k) # 0

\* The block table and the lengths fit: what CodesAre needs of a kind.
LEMMA ShapeOf ==
  ASSUME NEW k \in Kinds
  PROVE  LET s == Spec5(k)
             n == s.b1 + s.b2
         IN  /\ s.b1 \in Nat /\ s.b2 \in Nat /\ n \in 1 .. DataLen(k) /\ Blocks(k) = n
             /\ DataLen(k) % n = s.b2 /\ s.d1 = DataLen(k) \div n
             /\ s.b2 # 0 => s.d2 = s.d1 + 1
             /\ s.e \in Nat /\ EccLen(k) = n * s.e
             /\ OddBits(k) # 0 => n = 1 /\ s.b1 = 1 /\ s.b2 = 0
             /\ s.d1 \in Nat /\ s.d1 + s.e <= 255 /\ (s.b2 # 0 => s.d2 + s.e <= 255)
             /\ s.b2 = 0 => s.d2 = 0
<1> DEFINE i == LevelIndex(k.level)
           v == k.version
<1>1. /\ k.mqr \in BOOLEAN /\ k.level \in Levels
      /\ k.mqr => v \in MVersions /\ MECCLength(v, k.level) # 0
      /\ ~k.mqr => v \in Versions
  BY KindsAssumption
<1>2. i \in 1 .. 4
  BY <1>1 DEF LevelIndex, Levels
<1>3. CASE ~k.mqr
  <2> DEFINE a == eccTable[v][i][1]
             b == eccTable[v][i][2]
             C == capacityWords[v]
             E == capacityEcc[v][i]
             D == C - E
             n == a + b
             d == D \div n
             e == E \div n
  <2>1. a \in Nat /\ b \in Nat /\ D \in Nat /\ n \in 1 .. D /\ D % n = b /\ E \in Nat
    BY <1>1, <1>2, <1>3, TableFits DEF Fits
  <2>2. E % n = 0 /\ C + n <= 255 * n
    BY <1>1, <1>2, <1>3, TableFitsWord DEF FitsWord
  <2>3. C \in Int
    <3>1. v \in 1 .. 40 /\ \A u \in 1 .. 40 : capacityWords[u] \in Int
      BY <1>1, <1>3 DEF Versions, VersionMax, capacityWords
    <3>2. QED
      BY <3>1
  <2>4. D = DataLen(k) /\ E = EccLen(k) /\ OddBits(k) = 0
    BY <1>3 DEF DataLen, DataLength, ECCLength, EccLen, OddBits
  <2>5. Spec5(k) = [b1 |-> a, d1 |-> d, e |-> e, b2 |-> b, d2 |-> IF b = 0 THEN 0 ELSE d + 1]
    BY <1>3 DEF Spec5, EccSpec, DataLength, ECCLength
  <2>6. C = D + E
    <3>1. \A x \in Int, y \in Int : x = (x - y) + y
      OBVIOUS
    <3>2. QED
      BY <2>1, <2>3, <3>1
  <2> HIDE DEF a, b, C, E, D, v, i
  <2>7. d \in Nat /\ e \in Nat /\ D = n * d + b /\ E = n * e
    <3>1. d \in Nat /\ e \in Nat /\ D = n * d + (D % n) /\ E = n * e + (E % n)
      BY <2>1
    <3> HIDE DEF d, e
    <3> DEFINE P == n * e
    <3>2. P \in Nat /\ E = P + (E % n)
      BY <2>1, <3>1
    <3> HIDE DEF P
    <3>3. E = P
      BY <2>2, <3>2
    <3>4. D = n * d + b
      BY <2>1, <3>1
    <3>5. QED
      BY <3>1, <3>3, <3>4 DEF P
  <2>8. d + e + 1 <= 255
    <3>1. ASSUME d + e >= 255 PROVE FALSE
      <4>1. PICK f \in Nat : d + e = 255 + f
        <5>1. d + e - 255 \in Nat /\ d + e = 255 + (d + e - 255)
          BY <2>7, <3>1
        <5>2. QED
          BY <5>1
      <4> HIDE DEF d, e, n
      <4>2. n * d + n * e = n * (d + e)
        BY <2>1, <2>7
      <4>3. n * (255 + f) = 255 * n + n * f /\ n * f \in Nat
        BY <2>1
      <4> DEFINE P == n * d
                 Q == n * e
                 R == n * f
      <4>4. P \in Nat /\ Q \in Nat /\ R \in Nat /\ P + Q = 255 * n + R /\ C = P + b + Q
        <5>1. P \in Nat /\ Q \in Nat
          BY <2>1, <2>7
        <5>2. P + Q = 255 * n + R /\ R \in Nat
          BY <4>1, <4>2, <4>3
        <5>3. QED
          BY <2>6, <2>7, <5>1, <5>2
      <4> HIDE DEF P, Q, R
      <4>5. n \in Nat \ {0}
        BY <2>1
      <4>6. QED
        BY <2>1, <2>2, <4>4, <4>5
    <3>2. QED
      BY <2>7, <3>1
  <2> HIDE DEF d, e
  <2>9. Blocks(k) = n
    BY <2>5 DEF Blocks
  <2>10. /\ Spec5(k).b1 = a /\ Spec5(k).b2 = b /\ Spec5(k).e = e /\ Spec5(k).d1 = d
         /\ Spec5(k).d2 = IF b = 0 THEN 0 ELSE d + 1
    BY <2>5
  <2>11. d = D \div n
    BY DEF d
  <2>12. d + e <= 255 /\ (b # 0 => d + 1 + e <= 255)
    BY <2>7, <2>8
  <2> HIDE DEF n
  <2>13. n = a + b
    BY DEF n
  <2>14. QED
    BY <2>1, <2>4, <2>7, <2>9, <2>10, <2>11, <2>12, <2>13
<1>4. CASE k.mqr
  <2> DEFINE D == MDataLength(v, k.level)
             E == MECCLength(v, k.level)
  <2>1. D \in 1 .. 24 /\ E \in 1 .. 14
    <3>1. v \in {1, 2, 3, 4}
      BY <1>1, <1>4 DEF MVersions, MVersionMax
    <3>2. QED
      BY <1>1, <1>2, <1>4, <3>1 DEF MDataLength, MDataLengthBit, MECCLength, mqrspecEcc, MWidth
  <2>2. DataLen(k) = D /\ EccLen(k) = E
    BY <1>4 DEF DataLen, EccLen
  <2>3. Spec5(k) = [b1 |-> 1, d1 |-> D, e |-> E, b2 |-> 0, d2 |-> 0]
    BY <1>4, <2>2 DEF Spec5
  <2> HIDE DEF D, E
  <2>4. D % 1 = 0 /\ D \div 1 = D
    BY <2>1
  <2>5. Blocks(k) = 1
    BY <2>3 DEF Blocks
  <2>6. QED
    BY <2>1, <2>2, <2>3, <2>4, <2>5
<1>5. QED
  BY <1>1, <1>3, <1>4

\* The codewords in the order they are laid in are those of all blocks, each with
\* its number of bits.
LEMMA CodesAre ==
  ASSUME NEW k \in Kinds
  PROVE  /\ \A i \in 0 .. Total(k) - 1 :
              /\ \E r \in 0 .. Blocks(k) - 1 : Code(k, i) \in BlockCodes(k, r)
              /\ IsHalf(k, Code(k, i)) <=> OddBits(k) # 0 /\ i = DataLen(k) - 1
         /\ \A r \in 0 .. Blocks(k) - 1 : \A c \in BlockCodes(k, r) :
              \E i \in 0 .. Total(k) - 1 : Code(k, i) = c
<1> DEFINE s == Spec5(k)
           a == s.b1
           b == s.b2
           n == a + b
           d == s.d1
           e == s.e
           D == DataLen(k)
           E == EccLen(k)
           o == OddBits(k)
<1>1. /\ a \in Nat /\ b \in Nat /\ n \in 1 .. D /\ Blocks(k) = n
      /\ D % n = b /\ d = D \div n
      /\ b # 0 => s.d2 = d + 1
      /\ e \in Nat /\ E = n * e
      /\ o # 0 => n = 1 /\ a = 1 /\ b = 0
  BY ShapeOf
<1>2. D \in Nat /\ E \in Nat /\ Total(k) = D + E
  BY BitsThere
<1>3. \A i : Code(k, i) =
        IF i < D
        THEN [part |-> "data", col |-> i \div n, row |-> (i % n) + IF i \div n >= d THEN a ELSE 0]
        ELSE [part |-> "ecc", col |-> (i - D) \div n, row |-> (i - D) % n]
  BY <1>1 DEF Code
<1>4. \A r : /\ BlockLength(k, r) = IF r < a THEN d ELSE s.d2
             /\ EccPerBlock(k) = e
  BY DEF BlockLength, EccPerBlock
<1> HIDE DEF s, a, b, d, e, D, E, o
<1>5. /\ d \in Nat
      /\ \A i \in 0 .. D - 1 :
           /\ i \div n \in Nat /\ i % n \in 0 .. n - 1
           /\ i \div n >= d => i \div n = d /\ i % n < b
      /\ \A r \in 0 .. n - 1, c \in Nat :
           c < d \/ (c = d /\ r < b) =>
             n * c + r \in 0 .. D - 1 /\ (n * c + r) \div n = c /\ (n * c + r) % n = r
  <2> HIDE DEF n
  <2>1. Dealt(D, n, b, d)
    BY <1>1, <1>2, DealtOut
  <2>2. QED
    BY <2>1 DEF Dealt
<1>6. /\ \A j \in 0 .. E - 1 : j \div n \in 0 .. e - 1 /\ j % n \in 0 .. n - 1
      /\ \A r \in 0 .. n - 1, c \in 0 .. e - 1 :
           n * c + r \in 0 .. E - 1 /\ (n * c + r) \div n = c /\ (n * c + r) % n = r
  <2>1. CASE e = 0
    <3>1. E = 0 /\ 0 .. E - 1 = {} /\ 0 .. e - 1 = {}
      BY <1>1, <2>1
    <3>2. QED
      BY <3>1
  <2>2. CASE e # 0
    <3>1. E % n = 0 /\ E \div n = e
      <4>1. n \in Nat \ {0} /\ 0 \in 0 .. n - 1 /\ n * e + 0 = E
        BY <1>1, <1>2
      <4> HIDE DEF n
      <4>2. (n * e + 0) \div n = e /\ (n * e + 0) % n = 0
        BY <1>1, <4>1, QuotientIs
      <4>3. QED
        BY <4>1, <4>2
    <3>2. n \in 1 .. E
      <4>1. e - 1 \in Nat /\ e = 1 + (e - 1)
        BY <1>1, <2>2
      <4>2. n * e = n + n * (e - 1) /\ n * (e - 1) \in Nat
        BY <1>1, <4>1
      <4>3. QED
        BY <1>1, <4>2
    <3> HIDE DEF n
    <3>5. /\ \A i \in 0 .. E - 1 :
               /\ i \div n \in Nat /\ i % n \in 0 .. n - 1
               /\ i \div n >= e => i \div n = e /\ i % n < 0
          /\ \A r \in 0 .. n - 1, c \in Nat :
               c < e \/ (c = e /\ r < 0) =>
                 n * c + r \in 0 .. E - 1 /\ (n * c + r) \div n = c /\ (n * c + r) % n = r
      <4>1. Dealt(E, n, 0, e)
        BY <1>2, <3>1, <3>2, DealtOut
      <4>2. QED
        BY <4>1 DEF Dealt
    <3>3. n \in Nat
      BY <3>2
    <3>6. ASSUME NEW j \in 0 .. E - 1 PROVE j \div n \in 0 .. e - 1 /\ j % n \in 0 .. n - 1
      <4> DEFINE q == j \div n
                 r == j % n
      <4>1. q \in Nat /\ r \in 0 .. n - 1 /\ (q >= e => r < 0)
        BY <3>5
      <4> HIDE DEF q, r
      <4>2. q \in 0 .. e - 1 /\ r \in 0 .. n - 1
        BY <1>1, <3>3, <4>1
      <4>3. QED
        BY <4>2 DEF q, r
    <3>7. ASSUME NEW r \in 0 .. n - 1, NEW c \in 0 .. e - 1
          PROVE  n * c + r \in 0 .. E - 1 /\ (n * c + r) \div n = c /\ (n * c + r) % n = r
      <4>1. c \in Nat /\ c < e
        BY <1>1
      <4>2. QED
        BY <3>5, <4>1
    <3>8. QED
      BY <3>6, <3>7
  <2>3. QED
    BY <2>1, <2>2
<1>7. n \in Nat \ {0}
  BY <1>1
<1> HIDE DEF n
<1>8. ASSUME NEW i \in 0 .. Total(k) - 1
      PROVE  /\ \E r \in 0 .. Blocks(k) - 1 : Code(k, i) \in BlockCodes(k, r)
             /\ IsHalf(k, Code(k, i)) <=> o # 0 /\ i = D - 1
  <2>1. CASE i < D
    <3> DEFINE q == i \div n
               t == i % n
               r == t + IF q >= d THEN a ELSE 0
    <3>1. i \in 0 .. D - 1
      BY <1>2, <2>1
    <3>2. q \in Nat /\ t \in 0 .. n - 1 /\ (q >= d => q = d /\ t < b)
      BY <1>5, <3>1
    <3>3. Code(k, i) = [part |-> "data", col |-> q, row |-> r]
      BY <1>3, <2>1
    <3>4. o # 0 => q = i
      BY <1>1, <3>1 DEF n
    <3> HIDE DEF q, t
    <3>5. r \in 0 .. n - 1 /\ q \in 0 .. BlockLength(k, r) - 1
      <4>1. CASE q >= d
        <5>1. r = t + a /\ q = d /\ t < b /\ b # 0
          BY <1>1, <1>5, <3>2, <4>1
        <5>2. ~(r < a) /\ r \in 0 .. n - 1
          BY <1>1, <3>2, <5>1 DEF n
        <5>3. BlockLength(k, r) = d + 1
          BY <1>1, <1>4, <5>1, <5>2
        <5>4. QED
          BY <1>5, <5>1, <5>2, <5>3
      <4>2. CASE ~(q >= d)
        <5>1. r = t /\ q \in 0 .. d - 1
          BY <1>5, <3>2, <4>2
        <5>2. BlockLength(k, r) \in {d, d + 1}
          BY <1>1, <1>4, <3>2, <5>1 DEF n
        <5>3. QED
          BY <1>5, <3>2, <5>1, <5>2
      <4>3. QED
        BY <4>1, <4>2
    <3>6. Code(k, i) \in BlockCodes(k, r)
      BY <3>3, <3>5 DEF BlockCodes
    <3>7. IsHalf(k, Code(k, i)) <=> o # 0 /\ i = D - 1
      BY <3>3, <3>4 DEF IsHalf, D, o
    <3>8. QED
      BY <1>1, <3>5, <3>6, <3>7
  <2>2. CASE ~(i < D)
    <3> DEFINE j == i - D
    <3>1. j \in 0 .. E - 1
      BY <1>2, <2>2
    <3>2. j \div n \in 0 .. e - 1 /\ j % n \in 0 .. n - 1
      BY <1>6, <3>1
    <3>3. Code(k, i) = [part |-> "ecc", col |-> j \div n, row |-> j % n]
      BY <1>3, <2>2
    <3> HIDE DEF j
    <3>4. Code(k, i) \in BlockCodes(k, j % n)
      BY <1>4, <3>2, <3>3 DEF BlockCodes
    <3>5. ~IsHalf(k, Code(k, i)) /\ i # D - 1
      BY <1>2, <2>2, <3>3 DEF IsHalf
    <3>6. QED
      BY <1>1, <3>2, <3>4, <3>5
  <2>3. QED
    BY <2>1, <2>2
<1>9. ASSUME NEW r \in 0 .. Blocks(k) - 1, NEW c \in BlockCodes(k, r)
      PROVE  \E i \in 0 .. Total(k) - 1 : Code(k, i) = c
  <2>1. r \in 0 .. n - 1
    BY <1>1
  <2>2. CASE \E m \in 0 .. BlockLength(k, r) - 1 : c = [part |-> "data", row |-> r, col |-> m]
    <3>1. PICK m \in 0 .. BlockLength(k, r) - 1 : c = [part |-> "data", row |-> r, col |-> m]
      BY <2>2
    <3> DEFINE t == IF m >= d THEN r - a ELSE r
               i == n * m + t
    <3>2. /\ m \in Nat /\ t \in 0 .. n - 1 /\ (m < d \/ (m = d /\ t < b))
          /\ t + (IF m >= d THEN a ELSE 0) = r
      <4>1. CASE r < a
        <5>1. BlockLength(k, r) = d /\ m \in 0 .. d - 1
          BY <1>4, <4>1
        <5>2. QED
          BY <1>1, <1>5, <2>1, <5>1
      <4>2. CASE ~(r < a)
        <5>1. b # 0 /\ r - a \in 0 .. b - 1
          BY <1>1, <2>1, <4>2 DEF n
        <5>2. BlockLength(k, r) = d + 1 /\ m \in 0 .. d
          BY <1>1, <1>4, <1>5, <4>2, <5>1
        <5>3. n = a + b
          BY DEF n
        <5>4. QED
          BY <1>1, <1>5, <2>1, <5>1, <5>2, <5>3
      <4>3. QED
        BY <4>1, <4>2
    <3> HIDE DEF t
    <3>3. i \in 0 .. D - 1 /\ i \div n = m /\ i % n = t
      BY <1>5, <3>2
    <3> HIDE DEF i
    <3>4. i \in 0 .. Total(k) - 1 /\ i < D
      BY <1>2, <3>3
    <3>5. Code(k, i) = [part |-> "data", col |-> m, row |-> r]
      BY <1>3, <3>2, <3>3, <3>4
    <3>6. QED
      BY <3>1, <3>4, <3>5
  <2>3. CASE \E m \in 0 .. EccPerBlock(k) - 1 : c = [part |-> "ecc", row |-> r, col |-> m]
    <3>1. PICK m \in 0 .. EccPerBlock(k) - 1 : c = [part |-> "ecc", row |-> r, col |-> m]
      BY <2>3
    <3> DEFINE j == n * m + r
               i == D + j
    <3>2. m \in 0 .. e - 1
      BY <1>4
    <3>3. j \in 0 .. E - 1 /\ j \div n = m /\ j % n = r
      BY <1>6, <2>1, <3>2
    <3> HIDE DEF j
    <3>4. i \in 0 .. Total(k) - 1 /\ ~(i < D) /\ i - D = j
      BY <1>2, <3>3
    <3>5. Code(k, i) = [part |-> "ecc", col |-> m, row |-> r]
      BY <1>3, <3>3, <3>4
    <3>6. QED
      BY <3>1, <3>4, <3>5
  <2>4. QED
    BY <2>2, <2>3 DEF BlockCodes
<1>10. QED
  BY <1>8, <1>9 DEF o, D

\* The bits of a codeword go down to 0 from this one.
Top(k, c) == IF IsHalf(k, c) THEN OddBits(k) - 1 ELSE 7

\* The bits to lay are those of all codewords of all blocks.
LEMMA BitsAre ==
  ASSUME NEW k \in Kinds
  PROVE  {<<[i \in 0..(Total(k) - 1) |-> Code(k, i)][b[1]], b[2]>> :
             b \in {b \in Bits(k) : b[1] < Total(k)}}
           = UNION {{c} \X (0..Top(k, c)) :
                      c \in UNION {BlockCodes(k, r) : r \in 0..(Blocks(k) - 1)}}
<1> DEFINE code == [i \in 0..(Total(k) - 1) |-> Code(k, i)]
           codes == UNION {BlockCodes(k, r) : r \in 0..(Blocks(k) - 1)}
           some == {b \in Bits(k) : b[1] < Total(k)}
<1>1. /\ Total(k) \in Nat /\ Rest(k) \in Nat /\ OddBits(k) \in {0, 4}
  BY BitsThere
<1>2. ASSUME NEW i \in 0..(Total(k) - 1)
      PROVE  /\ code[i] = Code(k, i) /\ Code(k, i) \in codes
             /\ FirstBit(k, i) = Top(k, Code(k, i)) /\ FirstBit(k, i) \in 0..7
  <2>1. /\ \E r \in 0 .. Blocks(k) - 1 : Code(k, i) \in BlockCodes(k, r)
        /\ IsHalf(k, Code(k, i)) <=> OddBits(k) # 0 /\ i = DataLen(k) - 1
    BY CodesAre
  <2>2. FirstBit(k, i) = Top(k, Code(k, i))
    BY <2>1 DEF FirstBit, Top
  <2>3. FirstBit(k, i) \in 0..7
    BY <1>1 DEF FirstBit
  <2>4. QED
    BY <2>1, <2>2, <2>3
<1>3. \A c \in codes : \E i \in 0..(Total(k) - 1) : Code(k, i) = c
  BY CodesAre
<1>4. \A b \in some : /\ b[1] \in 0..(Total(k) - 1) /\ b[2] \in 0..7
                      /\ b[2] <= FirstBit(k, b[1])
  BY <1>1 DEF Bits
<1>5. \A i \in 0..(Total(k) - 1), t \in 0..7 : t <= FirstBit(k, i) => <<i, t>> \in some
  BY <1>1 DEF Bits
<1> HIDE DEF code, codes, some
<1>6. ASSUME NEW b \in some
      PROVE  \E c \in codes : <<code[b[1]], b[2]>> \in {c} \X (0..Top(k, c))
  <2> DEFINE c == Code(k, b[1])
  <2>1. c \in codes /\ code[b[1]] = c /\ b[2] \in 0..Top(k, c)
    BY <1>2, <1>4
  <2> HIDE DEF c
  <2>2. <<code[b[1]], b[2]>> \in {c} \X (0..Top(k, c))
    BY <2>1
  <2>3. QED
    BY <2>1, <2>2
<1>7. ASSUME NEW c \in codes, NEW x \in {c} \X (0..Top(k, c))
      PROVE  \E b \in some : x = <<code[b[1]], b[2]>>
  <2>1. x = <<c, x[2]>> /\ x[2] \in 0..Top(k, c)
    OBVIOUS
  <2>2. PICK i \in 0..(Total(k) - 1) : Code(k, i) = c
    BY <1>3
  <2>3. code[i] = c /\ FirstBit(k, i) = Top(k, c) /\ FirstBit(k, i) \in 0..7
    BY <1>2, <2>2
  <2>4. <<i, x[2]>> \in some
    <3> DEFINE t == x[2]
               u == FirstBit(k, i)
    <3>1. t \in 0..u /\ u \in 0..7
      BY <2>1, <2>3
    <3> HIDE DEF t, u
    <3>2. t \in 0..7 /\ t <= u
      BY <3>1
    <3>3. QED
      BY <1>5, <3>2 DEF t, u
  <2>5. x = <<code[<<i, x[2]>>[1]], <<i, x[2]>>[2]>>
    BY <2>1, <2>3
  <2>6. QED
    BY <2>4, <2>5
<1>8. {<<code[b[1]], b[2]>> : b \in some} = UNION {{c} \X (0..Top(k, c)) : c \in codes}
  <2>1. \A x : x \in {<<code[b[1]], b[2]>> : b \in some}
             => x \in UNION {{c} \X (0..Top(k, c)) : c \in codes}
    BY <1>6
  <2>2. \A x : x \in UNION {{c} \X (0..Top(k, c)) : c \in codes}
             => x \in {<<code[b[1]], b[2]>> : b \in some}
    BY <1>7
  <2>3. QED
    BY <2>1, <2>2
<1>9. QED
  BY <1>8 DEF code, codes, some

LEMMA FullEnough == Path /\ Laying /\ Full => EveryBitLaid
<1> SUFFICES ASSUME Path, Laying, Full, pc = "mask", tried = 0 PROVE EveryBitLaid
  BY DEF EveryBitLaid
<1>1. kind \in Kinds /\ Filled
  BY DEF Path, Full
<1>2. DOMAIN placed = Free(kind) /\ {placed[c] : c \in DOMAIN placed} = Bits(kind)
  BY <1>1, FilledIs
<1>3. {<<[i \in 0..(Total(kind) - 1) |-> Code(kind, i)][b[1]], b[2]>> :
          b \in {b \in {placed[c] : c \in DOMAIN placed} : b[1] < Total(kind)}}
        = UNION {{c} \X (0..Top(kind, c)) :
                   c \in UNION {BlockCodes(kind, r) : r \in 0..(Blocks(kind) - 1)}}
  BY <1>1, <1>2, BitsAre
<1>4. QED
  BY <1>2, <1>3 DEF EveryBitLaid, Free, Top, IsHalf, BlockCodes

\* For every version, level and content: when the last bit is laid no cell of the frame
\* is left free, and the bits laid are all those of the data and error correction
\* codewords of all blocks.
THEOREM BitsAllLaid == Spec => []EveryBitLaid
<1>1. Init => Path /\ Laying /\ Full
  BY KindsAssumption, PathInit, LayingInit DEF Init, Full
<1>2. (Path /\ Laying /\ Full) /\ [Next]_vars => (Path /\ Laying /\ Full)'
  BY KindsAssumption, PathStep, FullStep
<1>3. Path /\ Laying /\ Full => EveryBitLaid
  BY FullEnough
<1>4. QED
  BY <1>1, <1>2, <1>3, PTL DEF Spec

-----------------------------------------------------------------------------
(* A symbol is always made.                                                *)

\* init_rs accepts every block: data and parity are a word of 255 bytes at most.
LEMMA AcceptsAll ==
  ASSUME NEW k \in Kinds, SymSize = 8,
         NEW d \in {Spec5(k).d1, Spec5(k).d2} \ {0}
  PROVE  RsAccepted(EccPerBlock(k), NN - d - EccPerBlock(k))
<1> DEFINE s == Spec5(k)
           e == s.e
<1>1. NN = 255
  <2>1. 2 ^ 8 = 256
    OBVIOUS
  <2>2. 2 ^ SymSize = 256
    BY <2>1
  <2>3. QED
    BY <2>2 DEF NN
<1>2. e \in Nat /\ d \in Nat \ {0} /\ d + e <= 255
  <2>1. /\ s.e \in Nat /\ s.d1 \in Nat /\ s.d1 + s.e <= 255
        /\ (s.b2 # 0 => s.d2 + s.e <= 255 /\ s.d2 = s.d1 + 1)
        /\ (s.b2 = 0 => s.d2 = 0)
    BY ShapeOf
  <2> HIDE DEF s
  <2>2. QED
    BY <2>1 DEF s
<1> HIDE DEF s, e
<1>3. e \in 0..255 /\ 255 - d - e \in 0..(255 - e - 1)
  BY <1>2
<1>4. EccPerBlock(k) = e
  BY DEF EccPerBlock, e, s
<1>5. QED
  BY <1>1, <1>3, <1>4, PrimitiveAssumption DEF RsAccepted

\* A cell that two masks of Micro QR treat differently: in a column, and on the side
\* that is scored.
Corner(k) == <<MWidth(k.version) - 1, MWidth(k.version) - 2>>

Masked(k, s, m) == MMakeMask(k.version, function[k], s, m, k.level)

\* The first mask leaves it as it is, the third inverts it.
LEMMA CornerDiffers ==
  ASSUME NEW k \in Kinds, k.mqr, NEW s
  PROVE  Corner(k) \in Masked(k, s, 0) \/ Corner(k) \in Masked(k, s, 2)
<1> DEFINE v == k.version
           w == MWidth(v)
           c == Corner(k)
<1>1. v \in {1, 2, 3, 4}
  BY KindsAssumption DEF MVersions, MVersionMax
<1>2. w \in {11, 13, 15, 17}
  BY <1>1 DEF MWidth
<1>3. c = <<w - 1, w - 2>>
  BY DEF Corner
<1>4. c \in Cells(w) /\ c \notin function[k]
  <2>1. SymbolWidth(k) = w
    BY DEF SymbolWidth
  <2>2. c \notin function[k]
    BY <1>3, <2>1, FrameIs
  <2> HIDE DEF w
  <2>3. c \in (0..(0 + w - 1)) \X (0..(0 + w - 1))
    BY <1>2, <1>3
  <2>4. QED
    BY <2>2, <2>3 DEF Cells, Block
<1> HIDE DEF w, c
<1>5. ~MMaskBit(0, c) /\ MMaskBit(2, c)
  <2> DEFINE y == c[2]
             X == c[1] * c[2]
  <2>1. MMaskBit(0, c) <=> y % 2 = 0
    BY DEF MMaskBit, MaskBit
  <2>2. MMaskBit(2, c) <=> ((X % 2) + (X % 3)) % 2 = 0
    BY DEF MMaskBit, MaskBit
  <2>3. c[1] = w - 1 /\ y = w - 2
    BY <1>3
  <2>4. y \in {9, 11, 13, 15} /\ X \in {90, 132, 182, 240}
    BY <1>2, <2>3
  <2> HIDE DEF X, y
  <2>5. ~(y % 2 = 0) /\ ((X % 2) + (X % 3)) % 2 = 0
    BY <2>4
  <2>6. QED
    BY <2>1, <2>2, <2>5
<1>6. \A i \in 0..14 : \A n \in DOMAIN MFormatCells(w, i) : MFormatCells(w, i)[n] # c
  <2>1. ASSUME NEW i \in 0..14, NEW n \in DOMAIN MFormatCells(w, i)
        PROVE  MFormatCells(w, i)[n] # c
    <3>1. c[1] >= 10 /\ c[1] \in Int
      BY <1>2, <1>3
    <3>2. CASE i < 8
      <4>1. MFormatCells(w, i) = <<<<8, i + 1>>>>
        BY <3>2 DEF MFormatCells
      <4>2. MFormatCells(w, i)[n] = <<8, i + 1>>
        BY <4>1
      <4>3. QED
        BY <3>1, <4>2
    <3>3. CASE ~(i < 8)
      <4>1. MFormatCells(w, i) = <<<<15 - i, 8>>>>
        BY <3>3 DEF MFormatCells
      <4>2. MFormatCells(w, i)[n] = <<15 - i, 8>> /\ 15 - i < 10
        BY <3>3, <4>1
      <4>3. QED
        BY <3>1, <4>2
    <3>4. QED
      BY <3>2, <3>3
  <2>2. QED
    BY <2>1
<1>7. ASSUME NEW m \in {0, 2}, (c \in s) # (c \in {x \in Cells(w) : MMaskBit(m, x)})
      PROVE  c \in Masked(k, s, m)
  <2> DEFINE inverted == {x \in Cells(w) : MMaskBit(m, x)}
             applied == Apply(inverted, function[k], s, w)
             cells == [i \in 0..14 |-> MFormatCells(w, i)]
             word == MFormatInfo(m, v, k.level)
             copies(bs) == UNION {{cells[i][n] : n \in DOMAIN cells[i]} : i \in bs}
  <2>1. Masked(k, s, m) = (applied \ copies(0..14)) \union copies(word)
    BY DEF Masked, MMakeMask, WriteFormat, w
  <2>2. c \in applied
    <3>1. (c \in s) # (c \in inverted)
      BY <1>7
    <3> HIDE DEF inverted
    <3>2. QED
      BY <1>4, <3>1 DEF Apply
  <2>3. c \notin copies(0..14)
    BY <1>6
  <2> HIDE DEF applied, copies
  <2>4. QED
    BY <2>1, <2>2, <2>3
<1>8. CASE c \in s
  <2>1. (c \in s) # (c \in {x \in Cells(w) : MMaskBit(0, x)})
    BY <1>5, <1>8
  <2>2. QED
    BY <1>7, <2>1 DEF c
<1>9. CASE c \notin s
  <2>1. (c \in s) # (c \in {x \in Cells(w) : MMaskBit(2, x)})
    BY <1>4, <1>5, <1>9
  <2>2. QED
    BY <1>7, <2>1 DEF c
<1>10. QED
  BY <1>8, <1>9

\* A dark corner scores.
LEMMA CornerScores ==
  ASSUME NEW k \in Kinds, k.mqr, NEW s, Corner(k) \in s
  PROVE  Score(MWidth(k.version), s) > 0
<1> DEFINE w == MWidth(k.version)
           A == {x \in 1..(w - 1) : <<x, w - 1>> \in s}
           B == {y \in 1..(w - 1) : <<w - 1, y>> \in s}
<1>1. k.version \in {1, 2, 3, 4}
  BY KindsAssumption DEF MVersions, MVersionMax
<1>2. w \in {11, 13, 15, 17}
  BY <1>1 DEF MWidth
<1>3. w - 2 \in B
  BY <1>2 DEF Corner
<1>4. IsFiniteSet(A) /\ IsFiniteSet(B)
  <2>1. IsFiniteSet(1..(w - 1))
    <3>1. w - 1 \in Int
      BY <1>2
    <3> HIDE DEF w
    <3>2. QED
      BY <3>1, FS_Interval
  <2>2. A \subseteq 1..(w - 1) /\ B \subseteq 1..(w - 1)
    OBVIOUS
  <2> HIDE DEF A, B
  <2>3. QED
    BY <2>1, <2>2, FS_Subset
<1>5. Score(w, s) = IF Cardinality(A) <= Cardinality(B)
                    THEN Cardinality(A) * 16 + Cardinality(B)
                    ELSE Cardinality(B) * 16 + Cardinality(A)
  BY DEF Score
<1> HIDE DEF A, B, w
<1>6. Cardinality(A) \in Nat /\ Cardinality(B) \in Nat /\ Cardinality(B) # 0
  <2>1. B # {}
    BY <1>3
  <2>2. QED
    BY <1>4, <2>1, FS_CardinalityType, FS_EmptySet
<1>7. Score(w, s) > 0
  <2> DEFINE a == Cardinality(A)
             b == Cardinality(B)
  <2>1. Score(w, s) = IF a <= b THEN a * 16 + b ELSE b * 16 + a
    BY <1>5
  <2>2. a \in Nat /\ b \in Nat /\ b # 0
    BY <1>6
  <2> HIDE DEF a, b
  <2>3. QED
    BY <2>1, <2>2
<1>8. QED
  BY <1>7 DEF w

\* The inductive invariant: while no mask is the best, none is tried in QR, and in
\* Micro QR all that were tried left the corner light.
Trying ==
  /\ tried \in Nat
  /\ pc \in {"generator", "encode", "fill"} => tried = 0
  /\ pc = "judge" /\ kind.mqr => masked = Masked(kind, symbol, tried)
  /\ bestMask = NoMask =>
       IF kind.mqr
       THEN mark = 0 /\ \A j \in 0..(tried - 1) : Corner(kind) \notin Masked(kind, symbol, j)
       ELSE tried = 0

LEMMA TryingJudge ==
  ASSUME kind \in Kinds, Trying, Judge
  PROVE  Trying'
<1> DEFINE value  == IF kind.mqr THEN Score(MWidth(kind.version), masked)
                                 ELSE Demerit(Width(kind.version), masked)
           better == IF kind.mqr THEN value > mark ELSE bestMask = NoMask \/ value < mark
<1>1. /\ pc = "judge" /\ pc' = "mask" /\ tried' = tried + 1
      /\ bestMask' = IF better THEN [mask |-> tried, symbol |-> masked] ELSE bestMask
      /\ mark' = IF better THEN value ELSE mark
      /\ kind' = kind /\ symbol' = symbol
  BY DEF Judge, lay
<1>2. tried \in Nat
  BY DEF Trying
<1>3. tried' \in Nat /\ pc' \notin {"generator", "encode", "fill", "judge"}
  BY <1>1, <1>2
<1>4. ASSUME bestMask' = NoMask
      PROVE  /\ kind.mqr /\ mark' = 0
             /\ \A j \in 0..tried : Corner(kind) \notin Masked(kind, symbol, j)
  <2>1. ~better
    <3>1. ASSUME better PROVE FALSE
      <4>1. bestMask' = [mask |-> tried, symbol |-> masked]
        BY <1>1, <3>1
      <4>2. NoMask.mask = -1 /\ bestMask'.mask = tried
        BY <4>1 DEF NoMask
      <4>3. QED
        BY <1>2, <1>4, <4>2
    <3>2. QED
      BY <3>1
  <2>2. bestMask = NoMask /\ mark' = mark
    BY <1>1, <1>4, <2>1
  <2>3. kind.mqr
    BY <2>1, <2>2
  <2>4. /\ mark = 0 /\ masked = Masked(kind, symbol, tried)
        /\ \A j \in 0..(tried - 1) : Corner(kind) \notin Masked(kind, symbol, j)
    BY <1>1, <2>2, <2>3 DEF Trying
  <2>5. Corner(kind) \notin masked
    <3>1. ~(Score(MWidth(kind.version), masked) > 0)
      BY <2>1, <2>3, <2>4
    <3>2. QED
      BY <2>3, <3>1, CornerScores
  <2>6. \A j \in 0..tried : j \in 0..(tried - 1) \/ j = tried
    BY <1>2
  <2>7. QED
    BY <2>2, <2>3, <2>4, <2>5, <2>6
<1>5. bestMask' = NoMask =>
        kind.mqr /\ mark' = 0 /\ \A j \in 0..(tried' - 1) : Corner(kind) \notin Masked(kind, symbol, j)
  <2>1. tried' - 1 = tried
    BY <1>1, <1>2
  <2>2. QED
    BY <1>4, <2>1
<1>6. QED
  BY <1>1, <1>3, <1>5 DEF Trying, Masked, Corner

\* With the inductive invariant, no step gives up.
LEMMA TryingStep ==
  ASSUME SymSize = 8, Path, Laying, Trying, pc # "null", [Next]_vars
  PROVE  Trying' /\ pc' # "null"
<1>1. kind \in Kinds
  BY DEF Path
<1>2. CASE FormGenerator
  <2>1. pc' \in {"generator", "encode"}
    BY <1>1, <1>2, AcceptsAll DEF FormGenerator
  <2>2. UNCHANGED <<kind, symbol, tried, masked, bestMask, mark>> /\ pc = "generator"
    BY <1>2 DEF FormGenerator, lay, mask
  <2>3. QED
    BY <2>1, <2>2 DEF Trying, Masked, Corner
<1>3. CASE Encode
  <2>1. pc' \in {"encode", "fill"} /\ pc = "encode"
    BY <1>3 DEF Encode
  <2>2. UNCHANGED <<kind, symbol, tried, masked, bestMask, mark>>
    BY <1>3 DEF Encode, lay, mask
  <2>3. QED
    BY <2>1, <2>2 DEF Trying, Masked, Corner
<1>4. CASE LayBit
  <2>1. pc' = "fill" /\ pc = "fill"
    BY <1>4, LayingLay DEF LayBit
  <2>2. UNCHANGED <<kind, symbol, tried, masked, bestMask, mark>>
    BY <1>4 DEF LayBit, mask
  <2>3. QED
    BY <2>1, <2>2 DEF Trying, Masked, Corner
<1>5. CASE EndFill
  <2>1. pc' = "mask" /\ pc = "fill" /\ UNCHANGED <<kind, tried, masked, bestMask, mark>>
    BY <1>5 DEF EndFill, mask
  <2>2. tried = 0 /\ 0..(0 - 1) = {}
    BY <2>1 DEF Trying
  <2>3. QED
    BY <2>1, <2>2 DEF Trying
<1>6. CASE TryMask
  <2>1. pc' = "judge" /\ UNCHANGED <<kind, symbol, tried, bestMask, mark>>
    BY <1>6 DEF TryMask, lay
  <2>2. kind.mqr => masked' = Masked(kind, symbol, tried)
    BY <1>6 DEF TryMask, Masked
  <2>3. QED
    BY <2>1, <2>2 DEF Trying, Masked, Corner
<1>7. CASE Judge
  BY <1>1, <1>7, TryingJudge DEF Judge
<1>8. CASE Return
  <2>1. /\ tried \notin IF kind.mqr THEN MMasks ELSE Masks
        /\ pc' = IF bestMask = NoMask THEN "null" ELSE "done"
        /\ UNCHANGED <<kind, symbol, tried, masked, bestMask, mark>>
    BY <1>8 DEF Return, lay, mask
  <2>2. bestMask # NoMask
    <3>1. ASSUME bestMask = NoMask PROVE FALSE
      <4>1. tried \in Nat /\ tried # 0
        BY <2>1 DEF Trying, MMasks, Masks
      <4>2. kind.mqr /\ \A j \in 0..(tried - 1) : Corner(kind) \notin Masked(kind, symbol, j)
        BY <3>1, <4>1 DEF Trying
      <4>3. 0 \in 0..(tried - 1) /\ 2 \in 0..(tried - 1)
        BY <2>1, <4>1, <4>2 DEF MMasks
      <4>4. QED
        BY <1>1, <4>2, <4>3, CornerDiffers
    <3>2. QED
      BY <3>1
  <2>3. pc' = "done"
    BY <2>1, <2>2
  <2>4. QED
    BY <2>1, <2>3 DEF Trying, Masked, Corner
<1>9. CASE UNCHANGED vars
  BY <1>9 DEF vars, lay, mask, Trying, Masked, Corner
<1>10. QED
  BY <1>2, <1>3, <1>4, <1>5, <1>6, <1>7, <1>8, <1>9 DEF Next

\* With symbols of a byte, as init_rs is called, a symbol is made for every version,
\* level and content: init_rs accepts all block lengths, the filler does not leave the
\* frame before the last bit, and some mask scores.
THEOREM AlwaysMade == SymSize = 8 => (Spec => []NeverFails)
<1> SUFFICES ASSUME SymSize = 8 PROVE Spec => []NeverFails
  OBVIOUS
<1> DEFINE Making == Path /\ Laying /\ Full /\ Trying /\ pc # "null"
<1>1. Init => Making
  <2> SUFFICES ASSUME Init PROVE Making
    OBVIOUS
  <2>1. Path /\ Laying /\ Full
    BY KindsAssumption, PathInit, LayingInit DEF Init, Full
  <2>2. Trying /\ pc # "null"
    BY DEF Init, Trying
  <2>3. QED
    BY <2>1, <2>2
<1>2. Making /\ [Next]_vars => Making'
  <2> SUFFICES ASSUME Making, [Next]_vars PROVE Making'
    OBVIOUS
  <2>1. Path' /\ Laying' /\ Full'
    BY KindsAssumption, PathStep, FullStep
  <2>2. Trying' /\ pc' # "null"
    BY TryingStep
  <2>3. QED
    BY <2>1, <2>2
<1>3. Making => NeverFails
  BY DEF NeverFails
<1>4. QED
  BY <1>1, <1>2, <1>3, PTL DEF Spec

-----------------------------------------------------------------------------
(* The patterns of a frame.                                                *)

LEMMA OverIs ==
  ASSUME NEW f, NEW g, NEW c
  PROVE  /\ c \in DOMAIN (f ++ g) <=> c \in DOMAIN f \/ c \in DOMAIN g
         /\ c \in DOMAIN f => (f ++ g)[c] = f[c]
         /\ c \notin DOMAIN f /\ c \in DOMAIN g => (f ++ g)[c] = g[c]
BY DEF ++

LEMMA BlockIs ==
  ASSUME NEW x \in Int, NEW y \in Int, NEW a \in Nat, NEW b \in Nat, NEW c
  PROVE  c \in Block(x, y, a, b)
           <=> c = <<c[1], c[2]>> /\ c[1] \in x .. x + a - 1 /\ c[2] \in y .. y + b - 1
BY DEF Block

LEMMA GreaterOf ==
  ASSUME NEW a \in Int, NEW b \in Int
  PROVE  Max({a, b}) = IF a >= b THEN a ELSE b
<1> DEFINE m == IF a >= b THEN a ELSE b
           is(x) == x \in {a, b} /\ \A y \in {a, b} : x >= y
<1>1. is(m)
  OBVIOUS
<1>2. \A x : is(x) => x = m
  OBVIOUS
<1>3. Max({a, b}) = CHOOSE x \in {a, b} : \A y \in {a, b} : x >= y
  BY DEF Max
<1> HIDE DEF m
<1>4. is(CHOOSE x \in {a, b} : \A y \in {a, b} : x >= y)
  BY <1>1
<1>5. QED
  BY <1>2, <1>3, <1>4 DEF m

LEMMA DistIs == ASSUME NEW a \in Int, NEW b \in Int
                PROVE  Dist(a, b) = IF a >= b THEN a - b ELSE b - a
<1>1. a - b \in Int /\ b - a \in Int
  OBVIOUS
<1>2. Max({a - b, b - a}) = IF a - b >= b - a THEN a - b ELSE b - a
  BY <1>1, GreaterOf
<1>3. QED
  BY <1>2 DEF Dist

LEMMA RingIs ==
  ASSUME NEW x \in Int, NEW y \in Int, NEW p \in Int, NEW q \in Int
  PROVE  LET h == IF x >= p THEN x - p ELSE p - x
             g == IF y >= q THEN y - q ELSE q - y
         IN  Ring(<<p, q>>, <<x, y>>) = IF h >= g THEN h ELSE g
<1> DEFINE h == IF x >= p THEN x - p ELSE p - x
           g == IF y >= q THEN y - q ELSE q - y
<1>1. Dist(x, p) = h /\ Dist(y, q) = g
  BY DistIs
<1>2. h \in Int /\ g \in Int
  OBVIOUS
<1>3. Ring(<<p, q>>, <<x, y>>) = Max({h, g})
  BY <1>1 DEF Ring
<1> HIDE DEF h, g
<1>4. Max({h, g}) = IF h >= g THEN h ELSE g
  BY <1>2, GreaterOf
<1>5. QED
  BY <1>3, <1>4 DEF h, g

\* The table of the alignment markers: the first is even and away from the corner,
\* and so is the distance from it to the second, if there is one.
LEMMA MarkersAre ==
  ASSUME NEW v \in Versions, v # 1
  PROVE  LET first == alignmentPattern[v][1]
             d     == alignmentPattern[v][2] - first
         IN  /\ first \in {18, 22, 24, 26, 28, 30, 32, 34}
             /\ d < 0 \/ (v >= 7 /\ d \in {16, 18, 20, 22, 24, 26, 28})
             /\ d \in Int
<1>1. v \in 2 .. 40
  BY DEF Versions, VersionMax
<1>2. QED
  BY <1>1, SMTT(60) DEF alignmentPattern

\* Where the markers are: away from the corners, and at an even place on the lines
\* of the timing patterns.
LEMMA CentresAre ==
  ASSUME NEW v \in Versions, NEW a \in AlignmentCentres(v)
  PROVE  /\ a = <<a[1], a[2]>> /\ a[1] \in Nat /\ a[2] \in Nat
         /\ \/ a[1] = 6 /\ a[2] \in 16 .. Width(v) - 16 /\ a[2] % 2 = 0
            \/ a[2] = 6 /\ a[1] \in 16 .. Width(v) - 16 /\ a[1] % 2 = 0
            \/ a[1] >= 16 /\ a[2] >= 16
<1> DEFINE W == Width(v)
           first == alignmentPattern[v][1]
           d == alignmentPattern[v][2] - first
           q == (W - first) \div d
           n == IF d < 0 THEN 2 ELSE q + 2
           at(i) == first + i * d
<1>1. v \in 1 .. 40 /\ W = 17 + 4 * v
  BY DEF Versions, VersionMax, Width
<1>2. v # 1
  BY DEF AlignmentCentres
<1>3. /\ first \in {18, 22, 24, 26, 28, 30, 32, 34}
      /\ d < 0 \/ (v >= 7 /\ d \in {16, 18, 20, 22, 24, 26, 28})
      /\ d \in Int
  BY <1>2, MarkersAre
<1>4. a \in CASE v < 2 -> {}
              [] v >= 2 /\ n = 2 -> {<<first, first>>}
              [] OTHER -> {<<6, at(i)>> : i \in 0..(n - 3)} \union
                          {<<at(i), 6>> : i \in 0..(n - 3)} \union
                          {<<at(i), at(j)>> : i, j \in 0..(n - 2)}
  BY DEF AlignmentCentres
<1> HIDE DEF W, first, d
<1>5. CASE n = 2
  <2>1. a = <<first, first>>
    BY <1>1, <1>2, <1>4, <1>5
  <2>2. QED
    BY <1>3, <2>1
<1>6. CASE n # 2
  <2>1. d \in {16, 18, 20, 22, 24, 26, 28} /\ W >= 45 /\ n = q + 2
    BY <1>1, <1>3, <1>6
  <2>2. q \in Nat /\ d * q <= W - first
    <3> DEFINE X == W - first
    <3>1. X \in Nat
      BY <1>1, <1>3, <2>1
    <3> HIDE DEF X
    <3>2. X \div d \in Nat /\ d * (X \div d) <= X
      BY <2>1, <3>1
    <3>3. QED
      BY <3>2 DEF X
  <2>3. a \in {<<6, at(i)>> : i \in 0..(q - 1)} \union
              {<<at(i), 6>> : i \in 0..(q - 1)} \union
              {<<at(i), at(j)>> : i, j \in 0..q}
    <3>1. n - 3 = q - 1 /\ n - 2 = q
      BY <2>1, <2>2
    <3>2. ~(v < 2) /\ ~(v >= 2 /\ n = 2)
      BY <1>1, <1>2, <1>6
    <3> HIDE DEF n, q
    <3>3. QED
      BY <1>4, <3>1, <3>2
  <2>4. ASSUME NEW i \in Nat PROVE at(i) \in Nat /\ at(i) >= 16 /\ at(i) % 2 = 0
    BY <1>3, <2>1
  <2>5. ASSUME NEW i \in 0..(q - 1) PROVE at(i) <= W - 16
    <3> HIDE DEF q
    <3>1. q - 1 - i \in Nat
      BY <2>2
    <3>2. PICK e \in Nat : q = i + 1 + e
      <4>1. q = i + 1 + (q - 1 - i)
        BY <2>2
      <4>2. QED
        BY <3>1, <4>1
    <3>3. d * q = i * d + d + d * e /\ d * e \in Nat /\ i * d \in Nat
      BY <2>1, <3>2
    <3> DEFINE A == i * d
               B == d * e
               C == d * q
    <3>4. A \in Nat /\ B \in Nat /\ C = A + d + B /\ C <= W - first
      BY <2>2, <3>3
    <3> HIDE DEF A, B, C
    <3>5. first + A <= W - 16
      BY <1>1, <1>3, <2>1, <3>4
    <3>6. QED
      BY <3>5 DEF A
  <2> HIDE DEF at, n
  <2>6. CASE a \in {<<6, at(i)>> : i \in 0..(q - 1)}
    <3>1. PICK i \in 0..(q - 1) : a = <<6, at(i)>>
      BY <2>6
    <3>2. at(i) \in Nat /\ at(i) >= 16 /\ at(i) % 2 = 0 /\ at(i) <= W - 16
      BY <2>4, <2>5
    <3>3. QED
      BY <1>1, <3>1, <3>2 DEF W
  <2>7. CASE a \in {<<at(i), 6>> : i \in 0..(q - 1)}
    <3>1. PICK i \in 0..(q - 1) : a = <<at(i), 6>>
      BY <2>7
    <3>2. at(i) \in Nat /\ at(i) >= 16 /\ at(i) % 2 = 0 /\ at(i) <= W - 16
      BY <2>4, <2>5
    <3>3. QED
      BY <1>1, <3>1, <3>2 DEF W
  <2>8. CASE a \in {<<at(i), at(j)>> : i, j \in 0..q}
    <3>1. PICK i \in 0..q, j \in 0..q : a = <<at(i), at(j)>>
      BY <2>8
    <3>2. at(i) \in Nat /\ at(i) >= 16 /\ at(j) \in Nat /\ at(j) >= 16
      BY <2>4
    <3>3. QED
      BY <3>1, <3>2
  <2>9. QED
    BY <2>3, <2>6, <2>7, <2>8
<1>7. QED
  BY <1>5, <1>6

\* A marker is away from the other patterns, and agrees with the timing patterns.
LEMMA MarkerIs ==
  ASSUME NEW v \in Versions, NEW c \in DOMAIN AlignmentPattern(v)
  PROVE  /\ c = <<c[1], c[2]>> /\ c[1] \in Int /\ c[2] \in Int
         /\ \/ c[1] \in 4 .. 8 /\ c[2] \in 14 .. Width(v) - 14
            \/ c[2] \in 4 .. 8 /\ c[1] \in 14 .. Width(v) - 14
            \/ c[1] >= 14 /\ c[2] >= 14
         /\ c[2] = 6 => (AlignmentPattern(v)[c] <=> c[1] % 2 = 0)
         /\ c[1] = 6 => (AlignmentPattern(v)[c] <=> c[2] % 2 = 0)
<1> DEFINE centres == AlignmentCentres(v)
           W == Width(v)
           x == c[1]
           y == c[2]
<1>1. /\ c \in UNION {Block(a[1] - 2, a[2] - 2, 5, 5) : a \in centres}
      /\ AlignmentPattern(v)[c] <=> \E a \in centres : Ring(a, c) \in {0, 2}
  BY DEF AlignmentPattern
<1>2. PICK a \in centres : c \in Block(a[1] - 2, a[2] - 2, 5, 5)
  BY <1>1
<1>3. W \in Int
  BY DEF Width, Versions, VersionMax
<1>4. \A b \in centres :
        /\ b = <<b[1], b[2]>> /\ b[1] \in Nat /\ b[2] \in Nat
        /\ \/ b[1] = 6 /\ b[2] \in 16 .. W - 16 /\ b[2] % 2 = 0
           \/ b[2] = 6 /\ b[1] \in 16 .. W - 16 /\ b[1] % 2 = 0
           \/ b[1] >= 16 /\ b[2] >= 16
  BY CentresAre
<1> HIDE DEF centres, W
<1>5. c = <<x, y>> /\ x \in a[1] - 2 .. a[1] + 2 /\ y \in a[2] - 2 .. a[2] + 2
  <2>1. a[1] - 2 \in Int /\ a[2] - 2 \in Int /\ 5 \in Nat
    BY <1>4
  <2>2. c = <<c[1], c[2]>> /\ c[1] \in a[1] - 2 .. (a[1] - 2) + 5 - 1 /\ c[2] \in a[2] - 2 .. (a[2] - 2) + 5 - 1
    BY <1>2, <2>1, BlockIs
  <2>3. QED
    BY <1>4, <2>2
<1> HIDE DEF x, y
<1>6. x \in Int /\ y \in Int
  BY <1>4, <1>5
<1>7. \/ x \in 4 .. 8 /\ y \in 14 .. W - 14
      \/ y \in 4 .. 8 /\ x \in 14 .. W - 14
      \/ x >= 14 /\ y >= 14
  BY <1>3, <1>4, <1>5, <1>6
<1>8. ASSUME NEW b \in centres
      PROVE  LET h == IF x >= b[1] THEN x - b[1] ELSE b[1] - x
                 g == IF y >= b[2] THEN y - b[2] ELSE b[2] - y
             IN  Ring(b, c) = IF h >= g THEN h ELSE g
  <2>1. b = <<b[1], b[2]>> /\ b[1] \in Int /\ b[2] \in Int
    BY <1>4
  <2>2. Ring(b, c) = Ring(<<b[1], b[2]>>, <<x, y>>)
    BY <1>5, <2>1
  <2>3. QED
    BY <1>6, <2>1, <2>2, RingIs
<1>9. ASSUME y = 6 PROVE AlignmentPattern(v)[c] <=> x % 2 = 0
  <2>1. a[2] = 6 /\ a[1] % 2 = 0 /\ a[1] \in Nat
    BY <1>4, <1>5, <1>6, <1>9
  <2>2. ASSUME x % 2 = 0 PROVE Ring(a, c) \in {0, 2}
    <3>1. Ring(a, c) = IF x >= a[1] THEN x - a[1] ELSE a[1] - x
      BY <1>5, <1>6, <1>8, <1>9, <2>1
    <3> DEFINE s == a[1]
    <3>2. s \in Nat /\ s % 2 = 0 /\ x \in s - 2 .. s + 2
      BY <1>5, <2>1
    <3>3. Ring(a, c) = IF x >= s THEN x - s ELSE s - x
      BY <3>1
    <3> HIDE DEF s
    <3>4. x = s - 2 \/ x = s \/ x = s + 2
      BY <1>6, <2>2, <3>2
    <3>5. QED
      BY <3>2, <3>3, <3>4
  <2>3. ASSUME NEW b \in centres, Ring(b, c) \in {0, 2} PROVE x % 2 = 0
    <3>1. LET h == IF x >= b[1] THEN x - b[1] ELSE b[1] - x
              g == IF y >= b[2] THEN y - b[2] ELSE b[2] - y
          IN  Ring(b, c) = IF h >= g THEN h ELSE g
      BY <1>8
    <3>2. b[1] \in Nat /\ b[2] \in Nat
      BY <1>4
    <3>3. b[2] \in 4 .. 8
      BY <1>6, <1>9, <2>3, <3>1, <3>2
    <3>4. b[2] = 6 /\ b[1] % 2 = 0
      <4>1. b[1] = 6 => b[2] >= 16
        BY <1>3, <1>4
      <4>2. QED
        BY <1>4, <3>2, <3>3, <4>1
    <3>5. x - b[1] \in {-2, 0, 2}
      BY <1>6, <1>9, <2>3, <3>1, <3>2, <3>4
    <3>6. QED
      BY <1>6, <3>2, <3>4, <3>5
  <2>4. QED
    BY <1>1, <2>2, <2>3
<1>10. ASSUME x = 6 PROVE AlignmentPattern(v)[c] <=> y % 2 = 0
  <2>1. a[1] = 6 /\ a[2] % 2 = 0 /\ a[2] \in Nat
    BY <1>4, <1>5, <1>6, <1>10
  <2>2. ASSUME y % 2 = 0 PROVE Ring(a, c) \in {0, 2}
    <3>1. Ring(a, c) = IF y >= a[2] THEN y - a[2] ELSE a[2] - y
      BY <1>5, <1>6, <1>8, <1>10, <2>1
    <3> DEFINE s == a[2]
    <3>2. s \in Nat /\ s % 2 = 0 /\ y \in s - 2 .. s + 2
      BY <1>5, <2>1
    <3>3. Ring(a, c) = IF y >= s THEN y - s ELSE s - y
      BY <3>1
    <3> HIDE DEF s
    <3>4. y = s - 2 \/ y = s \/ y = s + 2
      BY <1>6, <2>2, <3>2
    <3>5. QED
      BY <3>2, <3>3, <3>4
  <2>3. ASSUME NEW b \in centres, Ring(b, c) \in {0, 2} PROVE y % 2 = 0
    <3>1. LET h == IF x >= b[1] THEN x - b[1] ELSE b[1] - x
              g == IF y >= b[2] THEN y - b[2] ELSE b[2] - y
          IN  Ring(b, c) = IF h >= g THEN h ELSE g
      BY <1>8
    <3>2. b[1] \in Nat /\ b[2] \in Nat
      BY <1>4
    <3>3. b[1] \in 4 .. 8
      BY <1>6, <1>10, <2>3, <3>1, <3>2
    <3>4. b[1] = 6 /\ b[2] % 2 = 0
      <4>1. b[2] = 6 => b[1] >= 16
        BY <1>3, <1>4
      <4>2. QED
        BY <1>4, <3>2, <3>3, <4>1
    <3>5. y - b[2] \in {-2, 0, 2}
      BY <1>6, <1>10, <2>3, <3>1, <3>2, <3>4
    <3>6. QED
      BY <1>6, <3>2, <3>4, <3>5
  <2>4. QED
    BY <1>1, <2>2, <2>3
<1>11. QED
  BY <1>5, <1>6, <1>7, <1>9, <1>10 DEF x, y, W

LEMMA BlockAt ==
  ASSUME NEW p \in Int, NEW q \in Int, NEW a \in Nat, NEW b \in Nat, NEW x \in Int, NEW y \in Int
  PROVE  <<x, y>> \in Block(p, q, a, b) <=> p <= x /\ x < p + a /\ q <= y /\ y < q + b
<1>1. <<x, y>> \in Block(p, q, a, b) <=> x \in p..(p + a - 1) /\ y \in q..(q + b - 1)
  BY DEF Block
<1>2. QED
  BY <1>1

\* Which cells the patterns of a frame cover.
LEMMA PatternsAt ==
  ASSUME NEW v \in Versions, NEW x \in Int, NEW y \in Int, NEW w, w = Width(v)
  PROVE  /\ w \in Nat /\ w = 17 + 4 * v /\ v \in Nat /\ w >= 21
         /\ <<x, y>> \in DOMAIN VersionArea(v) <=>
              v >= 7 /\ \/ 0 <= x /\ x < 6 /\ w - 11 <= y /\ y < w - 8
                        \/ 0 <= y /\ y < 6 /\ w - 11 <= x /\ x < w - 8
         /\ <<x, y>> \in DOMAIN TimingPattern(8, w - 9, 6) <=>
              \/ 8 <= x /\ x < w - 8 /\ y = 6
              \/ 8 <= y /\ y < w - 8 /\ x = 6
         /\ <<x, y>> \in DOMAIN FormatArea(w) <=>
              \/ y = 8 /\ ((0 <= x /\ x < 9) \/ (w - 8 <= x /\ x < w))
              \/ x = 8 /\ ((0 <= y /\ y < 8) \/ (w - 7 <= y /\ y < w))
         /\ <<x, y>> \in DOMAIN Separator(w) <=>
              \/ (x = 7 \/ x = w - 8) /\ 0 <= y /\ y < 8
              \/ y = 7 /\ ((0 <= x /\ x < 8) \/ (w - 8 <= x /\ x < w))
              \/ x = 7 /\ w - 8 <= y /\ y < w
              \/ y = w - 8 /\ 0 <= x /\ x < 8
<1>1. v \in 1..40 /\ w = 17 + 4 * v
  BY DEF Versions, VersionMax, Width
<1>2. w \in Nat /\ w >= 21 /\ w - 11 \in Int /\ w - 8 \in Int /\ w - 7 \in Int /\ w - 16 \in Nat
  BY <1>1
<1> DEFINE c == <<x, y>>
           o == w - 11
           i == w - 8
           j == w - 7
           g == w - 16
<1>b. \A p, q \in Int : \A m, n \in Nat :
        c \in Block(p, q, m, n) <=> p <= x /\ x < p + m /\ q <= y /\ y < q + n
  BY BlockAt
<1>h. o = w - 11 /\ i = w - 8 /\ j = w - 7 /\ g = w - 16
  OBVIOUS
<1>i. o \in Int /\ i \in Int /\ j \in Int /\ g \in Nat
  BY <1>2
<1> HIDE DEF c, o, i, j, g
<1>3. c \in DOMAIN VersionArea(v) <=>
        v >= 7 /\ \/ 0 <= x /\ x < 6 /\ w - 11 <= y /\ y < w - 8
                  \/ 0 <= y /\ y < 6 /\ w - 11 <= x /\ x < w - 8
  <2>1. CASE v < 7
    <3>1. DOMAIN VersionArea(v) = {}
      BY <2>1 DEF VersionArea
    <3>2. QED
      BY <1>1, <2>1, <3>1
  <2>2. CASE ~(v < 7)
    <3> DEFINE low == [b \in Block(0, o, 6, 3) |-> 3 * b[1] + (b[2] - o) \in VersionPattern(v)]
               right == [b \in Block(o, 0, 3, 6) |-> 3 * b[2] + (b[1] - o) \in VersionPattern(v)]
    <3>0. VersionArea(v) = low ++ right
      BY <2>2 DEF VersionArea, o
    <3>a. DOMAIN low = Block(0, o, 6, 3) /\ DOMAIN right = Block(o, 0, 3, 6)
      OBVIOUS
    <3> HIDE DEF low, right
    <3>b. c \in DOMAIN (low ++ right) <=> c \in DOMAIN low \/ c \in DOMAIN right
      BY OverIs
    <3>1. c \in DOMAIN VersionArea(v) <=> c \in Block(0, o, 6, 3) \/ c \in Block(o, 0, 3, 6)
      BY <3>0, <3>a, <3>b
    <3>2. c \in Block(0, o, 6, 3) <=> 0 <= x /\ x < 0 + 6 /\ o <= y /\ y < o + 3
      BY <1>b, <1>i
    <3>3. c \in Block(o, 0, 3, 6) <=> o <= x /\ x < o + 3 /\ 0 <= y /\ y < 0 + 6
      BY <1>b, <1>i
    <3>4. v >= 7 /\ 0 + 6 = 6 /\ w - 11 + 3 = w - 8
      BY <1>1, <1>2, <2>2
    <3>5. QED
      BY <3>1, <3>2, <3>3, <3>4, <1>h, <1>i
  <2>3. QED
    BY <2>1, <2>2
<1>4. c \in DOMAIN TimingPattern(8, w - 9, 6) <=>
        \/ 8 <= x /\ x < w - 8 /\ y = 6
        \/ 8 <= y /\ y < w - 8 /\ x = 6
  <2>1. w - 9 - 8 + 1 = w - 16
    BY <1>2
  <2>2. c \in DOMAIN TimingPattern(8, w - 9, 6) <=>
          c \in Block(8, 6, g, 1) \/ c \in Block(6, 8, 1, g)
    BY <2>1 DEF TimingPattern, g
  <2>3. c \in Block(8, 6, g, 1) <=> 8 <= x /\ x < 8 + g /\ 6 <= y /\ y < 6 + 1
    BY <1>b, <1>i
  <2>4. c \in Block(6, 8, 1, g) <=> 6 <= x /\ x < 6 + 1 /\ 8 <= y /\ y < 8 + g
    BY <1>b, <1>i
  <2>5. QED
    BY <1>2, <1>h, <1>i, <2>2, <2>3, <2>4
<1>5. c \in DOMAIN FormatArea(w) <=>
        \/ y = 8 /\ ((0 <= x /\ x < 9) \/ (w - 8 <= x /\ x < w))
        \/ x = 8 /\ ((0 <= y /\ y < 8) \/ (w - 7 <= y /\ y < w))
  <2>1. c \in DOMAIN FormatArea(w) <=>
          \/ c \in Block(0, 8, 9, 1) \/ c \in Block(i, 8, 8, 1)
          \/ c \in Block(8, 0, 1, 8) \/ c \in Block(8, j, 1, 7)
    BY DEF FormatArea, Uniform, i, j
  <2>2. c \in Block(0, 8, 9, 1) <=> 0 <= x /\ x < 0 + 9 /\ 8 <= y /\ y < 8 + 1
    BY <1>b
  <2>3. c \in Block(i, 8, 8, 1) <=> i <= x /\ x < i + 8 /\ 8 <= y /\ y < 8 + 1
    BY <1>b, <1>i
  <2>4. c \in Block(8, 0, 1, 8) <=> 8 <= x /\ x < 8 + 1 /\ 0 <= y /\ y < 0 + 8
    BY <1>b
  <2>5. c \in Block(8, j, 1, 7) <=> 8 <= x /\ x < 8 + 1 /\ j <= y /\ y < j + 7
    BY <1>b, <1>i
  <2>6. QED
    BY <1>2, <1>h, <1>i, <2>1, <2>2, <2>3, <2>4, <2>5
<1>6. c \in DOMAIN Separator(w) <=>
        \/ (x = 7 \/ x = w - 8) /\ 0 <= y /\ y < 8
        \/ y = 7 /\ ((0 <= x /\ x < 8) \/ (w - 8 <= x /\ x < w))
        \/ x = 7 /\ w - 8 <= y /\ y < w
        \/ y = w - 8 /\ 0 <= x /\ x < 8
  <2>1. c \in DOMAIN Separator(w) <=>
          \/ c \in Block(7, 0, 1, 8) \/ c \in Block(0, 7, 8, 1)
          \/ c \in Block(i, 0, 1, 8) \/ c \in Block(i, 7, 8, 1)
          \/ c \in Block(7, i, 1, 8) \/ c \in Block(0, i, 8, 1)
    BY DEF Separator, Uniform, i
  <2>2. c \in Block(7, 0, 1, 8) <=> 7 <= x /\ x < 7 + 1 /\ 0 <= y /\ y < 0 + 8
    BY <1>b
  <2>3. c \in Block(0, 7, 8, 1) <=> 0 <= x /\ x < 0 + 8 /\ 7 <= y /\ y < 7 + 1
    BY <1>b
  <2>4. c \in Block(i, 0, 1, 8) <=> i <= x /\ x < i + 1 /\ 0 <= y /\ y < 0 + 8
    BY <1>b, <1>i
  <2>5. c \in Block(i, 7, 8, 1) <=> i <= x /\ x < i + 8 /\ 7 <= y /\ y < 7 + 1
    BY <1>b, <1>i
  <2>6. c \in Block(7, i, 1, 8) <=> 7 <= x /\ x < 7 + 1 /\ i <= y /\ y < i + 8
    BY <1>b, <1>i
  <2>7. c \in Block(0, i, 8, 1) <=> 0 <= x /\ x < 0 + 8 /\ i <= y /\ y < i + 1
    BY <1>b, <1>i
  <2>8. QED
    BY <1>2, <1>h, <1>i, <2>1, <2>2, <2>3, <2>4, <2>5, <2>6, <2>7
<1>7. QED
  BY <1>1, <1>2, <1>3, <1>4, <1>5, <1>6 DEF c

LEMMA FinderAt ==
  ASSUME NEW p \in Int, NEW q \in Int, NEW x \in Int, NEW y \in Int
  PROVE  /\ <<x, y>> \in DOMAIN FinderPattern(p, q) <=> p <= x /\ x < p + 7 /\ q <= y /\ y < q + 7
         /\ <<x, y>> \in DOMAIN FinderPattern(p, q) =>
              FinderPattern(p, q)[<<x, y>>] = (Ring(<<p + 3, q + 3>>, <<x, y>>) # 2)
<1>1. <<x, y>> \in DOMAIN FinderPattern(p, q) <=> <<x, y>> \in Block(p, q, 7, 7)
  BY DEF FinderPattern
<1>2. QED
  BY <1>1, BlockAt DEF FinderPattern

\* The layers of a frame: the upper one counts.
LEMMA LayersAre ==
  ASSUME NEW a1, NEW a2, NEW a3, NEW a4, NEW a5, NEW a6, NEW a7, NEW a8, NEW a9, NEW c
  PROVE  LET f == a1 ++ a2 ++ a3 ++ a4 ++ a5 ++ a6 ++ a7 ++ a8 ++ a9
         IN  /\ c \in DOMAIN f <=>
                  \/ c \in DOMAIN a1 \/ c \in DOMAIN a2 \/ c \in DOMAIN a3 \/ c \in DOMAIN a4
                  \/ c \in DOMAIN a5 \/ c \in DOMAIN a6 \/ c \in DOMAIN a7 \/ c \in DOMAIN a8
                  \/ c \in DOMAIN a9
             /\ c \in DOMAIN f =>
                  f[c] = IF c \in DOMAIN a1 THEN a1[c] ELSE IF c \in DOMAIN a2 THEN a2[c]
                         ELSE IF c \in DOMAIN a3 THEN a3[c] ELSE IF c \in DOMAIN a4 THEN a4[c]
                         ELSE IF c \in DOMAIN a5 THEN a5[c] ELSE IF c \in DOMAIN a6 THEN a6[c]
                         ELSE IF c \in DOMAIN a7 THEN a7[c] ELSE IF c \in DOMAIN a8 THEN a8[c]
                         ELSE a9[c]
<1> DEFINE f2 == a1 ++ a2
           f3 == f2 ++ a3
           f4 == f3 ++ a4
           f5 == f4 ++ a5
           f6 == f5 ++ a6
           f7 == f6 ++ a7
           f8 == f7 ++ a8
           f9 == f8 ++ a9
<1>1. \A f, g : /\ c \in DOMAIN (f ++ g) <=> c \in DOMAIN f \/ c \in DOMAIN g
                /\ c \in DOMAIN f => (f ++ g)[c] = f[c]
                /\ c \notin DOMAIN f /\ c \in DOMAIN g => (f ++ g)[c] = g[c]
  BY OverIs
<1>2. /\ c \in DOMAIN f2 <=> c \in DOMAIN a1 \/ c \in DOMAIN a2
      /\ c \in DOMAIN a1 => f2[c] = a1[c]
      /\ c \notin DOMAIN a1 /\ c \in DOMAIN a2 => f2[c] = a2[c]
  BY <1>1
<1> HIDE DEF f2
<1>3. /\ c \in DOMAIN f3 <=> c \in DOMAIN f2 \/ c \in DOMAIN a3
      /\ c \in DOMAIN f2 => f3[c] = f2[c]
      /\ c \notin DOMAIN f2 /\ c \in DOMAIN a3 => f3[c] = a3[c]
  BY <1>1
<1> HIDE DEF f3
<1>4. /\ c \in DOMAIN f4 <=> c \in DOMAIN f3 \/ c \in DOMAIN a4
      /\ c \in DOMAIN f3 => f4[c] = f3[c]
      /\ c \notin DOMAIN f3 /\ c \in DOMAIN a4 => f4[c] = a4[c]
  BY <1>1
<1> HIDE DEF f4
<1>5. /\ c \in DOMAIN f5 <=> c \in DOMAIN f4 \/ c \in DOMAIN a5
      /\ c \in DOMAIN f4 => f5[c] = f4[c]
      /\ c \notin DOMAIN f4 /\ c \in DOMAIN a5 => f5[c] = a5[c]
  BY <1>1
<1> HIDE DEF f5
<1>6. /\ c \in DOMAIN f6 <=> c \in DOMAIN f5 \/ c \in DOMAIN a6
      /\ c \in DOMAIN f5 => f6[c] = f5[c]
      /\ c \notin DOMAIN f5 /\ c \in DOMAIN a6 => f6[c] = a6[c]
  BY <1>1
<1> HIDE DEF f6
<1>7. /\ c \in DOMAIN f7 <=> c \in DOMAIN f6 \/ c \in DOMAIN a7
      /\ c \in DOMAIN f6 => f7[c] = f6[c]
      /\ c \notin DOMAIN f6 /\ c \in DOMAIN a7 => f7[c] = a7[c]
  BY <1>1
<1> HIDE DEF f7
<1>8. /\ c \in DOMAIN f8 <=> c \in DOMAIN f7 \/ c \in DOMAIN a8
      /\ c \in DOMAIN f7 => f8[c] = f7[c]
      /\ c \notin DOMAIN f7 /\ c \in DOMAIN a8 => f8[c] = a8[c]
  BY <1>1
<1> HIDE DEF f8
<1>9. /\ c \in DOMAIN f9 <=> c \in DOMAIN f8 \/ c \in DOMAIN a9
      /\ c \in DOMAIN f8 => f9[c] = f8[c]
      /\ c \notin DOMAIN f8 /\ c \in DOMAIN a9 => f9[c] = a9[c]
  BY <1>1
<1>10. f9 = a1 ++ a2 ++ a3 ++ a4 ++ a5 ++ a6 ++ a7 ++ a8 ++ a9
  BY DEF f2, f3, f4, f5, f6, f7, f8
<1> HIDE DEF f9
<1>11. QED
  BY ONLY <1>2, <1>3, <1>4, <1>5, <1>6, <1>7, <1>8, <1>9, <1>10

\* The value of a cell is that of the upper pattern that has it.
LEMMA FrameAt ==
  ASSUME NEW v \in Versions, NEW x \in Int, NEW y \in Int, NEW w, w = Width(v)
  PROVE  LET c == <<x, y>>
             f == Frame(v)
             a == AlignmentPattern(v)
             t == TimingPattern(8, w - 9, 6)
         IN  /\ c \in DOMAIN f <=>
                  \/ x = 8 /\ y = w - 8
                  \/ c \in DOMAIN VersionArea(v) \/ c \in DOMAIN a \/ c \in DOMAIN t
                  \/ c \in DOMAIN FormatArea(w) \/ c \in DOMAIN Separator(w)
                  \/ c \in DOMAIN FinderPattern(0, 0) \/ c \in DOMAIN FinderPattern(w - 7, 0)
                  \/ c \in DOMAIN FinderPattern(0, w - 7)
             /\ c \in DOMAIN f /\ ~(x = 8 /\ y = w - 8) =>
                  f[c] = IF c \in DOMAIN VersionArea(v) THEN VersionArea(v)[c]
                         ELSE IF c \in DOMAIN a THEN a[c] ELSE IF c \in DOMAIN t THEN t[c]
                         ELSE IF c \in DOMAIN FormatArea(w) THEN FormatArea(w)[c]
                         ELSE IF c \in DOMAIN Separator(w) THEN Separator(w)[c]
                         ELSE IF c \in DOMAIN FinderPattern(0, 0) THEN FinderPattern(0, 0)[c]
                         ELSE IF c \in DOMAIN FinderPattern(w - 7, 0)
                              THEN FinderPattern(w - 7, 0)[c]
                         ELSE FinderPattern(0, w - 7)[c]
<1> DEFINE c == <<x, y>>
           d == Uniform({<<8, w - 8>>}, TRUE)
<1>1. c \in DOMAIN d <=> x = 8 /\ y = w - 8
  BY DEF Uniform
<1>2. Frame(v) = d ++ VersionArea(v) ++ AlignmentPattern(v) ++ TimingPattern(8, w - 9, 6)
                 ++ FormatArea(w) ++ Separator(w)
                 ++ FinderPattern(0, 0) ++ FinderPattern(w - 7, 0) ++ FinderPattern(0, w - 7)
  BY DEF Frame
<1> HIDE DEF c, d
<1> DEFINE f == Frame(v)
           a2 == VersionArea(v)
           a3 == AlignmentPattern(v)
           a4 == TimingPattern(8, w - 9, 6)
           a5 == FormatArea(w)
           a6 == Separator(w)
           a7 == FinderPattern(0, 0)
           a8 == FinderPattern(w - 7, 0)
           a9 == FinderPattern(0, w - 7)
<1>3. f = d ++ a2 ++ a3 ++ a4 ++ a5 ++ a6 ++ a7 ++ a8 ++ a9
  BY <1>2
<1> HIDE DEF f, a2, a3, a4, a5, a6, a7, a8, a9
<1>4. /\ c \in DOMAIN f <=>
                  \/ c \in DOMAIN d \/ c \in DOMAIN a2 \/ c \in DOMAIN a3 \/ c \in DOMAIN a4
                  \/ c \in DOMAIN a5 \/ c \in DOMAIN a6 \/ c \in DOMAIN a7 \/ c \in DOMAIN a8
                  \/ c \in DOMAIN a9
      /\ c \in DOMAIN f =>
                  f[c] = IF c \in DOMAIN d THEN d[c] ELSE IF c \in DOMAIN a2 THEN a2[c]
                         ELSE IF c \in DOMAIN a3 THEN a3[c] ELSE IF c \in DOMAIN a4 THEN a4[c]
                         ELSE IF c \in DOMAIN a5 THEN a5[c] ELSE IF c \in DOMAIN a6 THEN a6[c]
                         ELSE IF c \in DOMAIN a7 THEN a7[c] ELSE IF c \in DOMAIN a8 THEN a8[c]
                         ELSE a9[c]
  BY ONLY <1>3, LayersAre
<1>5. QED
  BY ONLY <1>1, <1>4 DEF c, f, a2, a3, a4, a5, a6, a7, a8, a9

\* The finder patterns are on no other pattern.
LEMMA FindersShow ==
  ASSUME NEW v \in Versions, NEW w, w = Width(v),
         NEW f \in {<<0, 0>>, <<w - 7, 0>>, <<0, w - 7>>}, NEW c \in Block(f[1], f[2], 7, 7)
  PROVE  /\ c \in DOMAIN Frame(v) /\ (Frame(v)[c] <=> Ring(<<f[1] + 3, f[2] + 3>>, c) # 2)
         /\ c \notin DOMAIN FormatArea(w)
<1> DEFINE x == c[1]
           y == c[2]
           p == f[1]
           q == f[2]
<1>1. w \in Int /\ w >= 21
  BY DEF Width, Versions, VersionMax
<1>2. /\ p \in Int /\ q \in Int /\ f = <<p, q>>
      /\ \/ p = 0 /\ q = 0
         \/ p = w - 7 /\ q = 0
         \/ p = 0 /\ q = w - 7
  BY <1>1
<1> HIDE DEF p, q
<1>3. c = <<x, y>> /\ x \in Int /\ y \in Int
  <2>1. c = <<c[1], c[2]>> /\ c[1] \in p .. p + 7 - 1 /\ c[2] \in q .. q + 7 - 1
    BY <1>2, BlockIs DEF p, q
  <2>2. QED
    BY <1>2, <2>1
<1> HIDE DEF x, y
<1>4. p <= x /\ x < p + 7 /\ q <= y /\ y < q + 7
  <2>1. <<x, y>> \in Block(p, q, 7, 7)
    BY <1>3 DEF p, q
  <2>2. QED
    BY <1>2, <1>3, <2>1, BlockAt
<1>5. ~(x = 8 /\ y = w - 8)
  BY <1>1, <1>2, <1>3, <1>4
<1>6. <<x, y>> \notin DOMAIN VersionArea(v)
  <2>1. <<x, y>> \in DOMAIN VersionArea(v) <=>
              v >= 7 /\ \/ 0 <= x /\ x < 6 /\ w - 11 <= y /\ y < w - 8
                        \/ 0 <= y /\ y < 6 /\ w - 11 <= x /\ x < w - 8
    BY <1>3, PatternsAt
  <2>2. QED
    BY <1>1, <1>2, <1>3, <1>4, <2>1
<1>7. <<x, y>> \notin DOMAIN AlignmentPattern(v)
  <2>1. ASSUME c \in DOMAIN AlignmentPattern(v) PROVE FALSE
    <3>1. \/ x \in 4 .. 8 /\ y \in 14 .. w - 14
          \/ y \in 4 .. 8 /\ x \in 14 .. w - 14
          \/ x >= 14 /\ y >= 14
      BY <2>1, MarkerIs DEF x, y
    <3>2. QED
      BY <1>1, <1>2, <1>3, <1>4, <3>1
  <2>2. QED
    BY <1>3, <2>1
<1>8. <<x, y>> \notin DOMAIN TimingPattern(8, w - 9, 6)
  <2>1. <<x, y>> \in DOMAIN TimingPattern(8, w - 9, 6) <=>
              \/ 8 <= x /\ x < w - 8 /\ y = 6
              \/ 8 <= y /\ y < w - 8 /\ x = 6
    BY <1>3, PatternsAt
  <2>2. QED
    BY <1>1, <1>2, <1>3, <1>4, <2>1
<1>9. <<x, y>> \notin DOMAIN FormatArea(w)
  <2>1. <<x, y>> \in DOMAIN FormatArea(w) <=>
              \/ y = 8 /\ ((0 <= x /\ x < 9) \/ (w - 8 <= x /\ x < w))
              \/ x = 8 /\ ((0 <= y /\ y < 8) \/ (w - 7 <= y /\ y < w))
    BY <1>3, PatternsAt
  <2>2. QED
    BY <1>1, <1>2, <1>3, <1>4, <2>1
<1>10. <<x, y>> \notin DOMAIN Separator(w)
  <2>1. <<x, y>> \in DOMAIN Separator(w) <=>
              \/ (x = 7 \/ x = w - 8) /\ 0 <= y /\ y < 8
              \/ y = 7 /\ ((0 <= x /\ x < 8) \/ (w - 8 <= x /\ x < w))
              \/ x = 7 /\ w - 8 <= y /\ y < w
              \/ y = w - 8 /\ 0 <= x /\ x < 8
    BY <1>3, PatternsAt
  <2>2. QED
    BY <1>1, <1>2, <1>3, <1>4, <2>1
<1>11. /\ <<x, y>> \in DOMAIN FinderPattern(0, 0) <=> p = 0 /\ q = 0
       /\ <<x, y>> \in DOMAIN FinderPattern(w - 7, 0) <=> p = w - 7 /\ q = 0
       /\ <<x, y>> \in DOMAIN FinderPattern(0, w - 7) <=> p = 0 /\ q = w - 7
  <2> DEFINE j == w - 7
  <2>1. j \in Int /\ j >= 14 /\ (p = 0 \/ p = j) /\ (q = 0 \/ q = j) /\ ~(p = j /\ q = j)
    BY <1>1, <1>2
  <2> HIDE DEF j
  <2>2. \A r, s \in Int : <<x, y>> \in DOMAIN FinderPattern(r, s)
                            <=> r <= x /\ x < r + 7 /\ s <= y /\ y < s + 7
    BY <1>3, FinderAt
  <2>3. <<x, y>> \in DOMAIN FinderPattern(0, 0) <=> 0 <= x /\ x < 0 + 7 /\ 0 <= y /\ y < 0 + 7
    BY <2>2
  <2>4. <<x, y>> \in DOMAIN FinderPattern(j, 0) <=> j <= x /\ x < j + 7 /\ 0 <= y /\ y < 0 + 7
    BY <2>1, <2>2
  <2>5. <<x, y>> \in DOMAIN FinderPattern(0, j) <=> 0 <= x /\ x < 0 + 7 /\ j <= y /\ y < j + 7
    BY <2>1, <2>2
  <2>6. /\ <<x, y>> \in DOMAIN FinderPattern(0, 0) <=> p = 0 /\ q = 0
        /\ <<x, y>> \in DOMAIN FinderPattern(j, 0) <=> p = j /\ q = 0
        /\ <<x, y>> \in DOMAIN FinderPattern(0, j) <=> p = 0 /\ q = j
    BY <1>3, <1>4, <2>1, <2>3, <2>4, <2>5
  <2>7. QED
    BY <2>6 DEF j
<1>12. /\ <<x, y>> \in DOMAIN FinderPattern(p, q)
       /\ FinderPattern(p, q)[<<x, y>>] = (Ring(<<p + 3, q + 3>>, <<x, y>>) # 2)
  BY <1>2, <1>3, <1>4, FinderAt
<1>13. <<x, y>> \in DOMAIN Frame(v) /\ Frame(v)[<<x, y>>] = FinderPattern(p, q)[<<x, y>>]
  <2> DEFINE F(r, s) == FinderPattern(r, s)
             j == w - 7
             b == <<x, y>>
  <2>1. /\ b \in DOMAIN Frame(v) <=>
             b \in DOMAIN F(0, 0) \/ b \in DOMAIN F(j, 0) \/ b \in DOMAIN F(0, j)
        /\ b \in DOMAIN Frame(v) =>
             Frame(v)[b] = IF b \in DOMAIN F(0, 0) THEN F(0, 0)[b]
                           ELSE IF b \in DOMAIN F(j, 0) THEN F(j, 0)[b] ELSE F(0, j)[b]
    BY <1>3, <1>5, <1>6, <1>7, <1>8, <1>9, <1>10, FrameAt
  <2>2. /\ b \in DOMAIN F(0, 0) <=> p = 0 /\ q = 0
        /\ b \in DOMAIN F(j, 0) <=> p = j /\ q = 0
        /\ b \in DOMAIN F(0, j) <=> p = 0 /\ q = j
    BY <1>11
  <2>3. \/ p = 0 /\ q = 0
        \/ p = j /\ q = 0
        \/ p = 0 /\ q = j
    BY <1>2
  <2> HIDE DEF F, j, b
  <2>4. b \in DOMAIN Frame(v) /\ Frame(v)[b] = F(p, q)[b]
    BY <2>1, <2>2, <2>3
  <2>5. QED
    BY <2>4 DEF F, b
<1>14. QED
  BY <1>3, <1>9, <1>12, <1>13 DEF p, q

\* So are the lines of the timing patterns, except for markers, which agree with them.
LEMMA TimingShows ==
  ASSUME NEW v \in Versions, NEW w, w = Width(v), NEW i \in 8 .. w - 9,
         NEW x \in Int, NEW y \in Int, (x = i /\ y = 6) \/ (x = 6 /\ y = i)
  PROVE  /\ <<x, y>> \in DOMAIN Frame(v) /\ (Frame(v)[<<x, y>>] <=> i % 2 = 0)
         /\ <<x, y>> \notin DOMAIN FormatArea(w) \ {<<6, 8>>, <<8, 6>>}
<1> DEFINE c == <<x, y>>
           t == TimingPattern(8, w - 9, 6)
<1>1. w \in Int /\ w >= 21
  BY DEF Width, Versions, VersionMax
<1>2. ~(x = 8 /\ y = w - 8)
  BY <1>1
<1>3. c \notin DOMAIN VersionArea(v)
  <2>1. <<x, y>> \in DOMAIN VersionArea(v) <=>
              v >= 7 /\ \/ 0 <= x /\ x < 6 /\ w - 11 <= y /\ y < w - 8
                        \/ 0 <= y /\ y < 6 /\ w - 11 <= x /\ x < w - 8
    BY PatternsAt
  <2>2. QED
    BY <1>1, <2>1
<1>4. c \in DOMAIN AlignmentPattern(v) => (AlignmentPattern(v)[c] <=> i % 2 = 0)
  <2>1. c \in DOMAIN AlignmentPattern(v) =>
          /\ c[2] = 6 => (AlignmentPattern(v)[c] <=> c[1] % 2 = 0)
          /\ c[1] = 6 => (AlignmentPattern(v)[c] <=> c[2] % 2 = 0)
    BY MarkerIs
  <2>2. c[1] = x /\ c[2] = y
    OBVIOUS
  <2> HIDE DEF c
  <2>3. QED
    BY <2>1, <2>2
<1>5. c \in DOMAIN t /\ (t[c] <=> i % 2 = 0)
  <2>1. c \in DOMAIN TimingPattern(8, w - 9, 6) <=>
              \/ 8 <= x /\ x < w - 8 /\ y = 6
              \/ 8 <= y /\ y < w - 8 /\ x = 6
    BY PatternsAt
  <2>2. c \in DOMAIN t
    BY <1>1, <2>1
  <2>3. t[c] <=> (c[1] + c[2] - 6) % 2 = 0
    BY <2>2 DEF TimingPattern
  <2>4. c[1] + c[2] - 6 = i
    OBVIOUS
  <2>5. QED
    BY <2>2, <2>3, <2>4
<1>6. /\ c \in DOMAIN Frame(v) <=> c \in DOMAIN Frame(v) \/ c \in DOMAIN t
      /\ c \in DOMAIN Frame(v) =>
           Frame(v)[c] = IF c \in DOMAIN AlignmentPattern(v) THEN AlignmentPattern(v)[c] ELSE t[c]
  BY <1>2, <1>3, <1>5, FrameAt
<1> HIDE DEF c, t
<1>7. c \in DOMAIN Frame(v) /\ (Frame(v)[c] <=> i % 2 = 0)
  BY <1>4, <1>5, <1>6
<1>8. <<x, y>> \in DOMAIN FormatArea(w) <=>
              \/ y = 8 /\ ((0 <= x /\ x < 9) \/ (w - 8 <= x /\ x < w))
              \/ x = 8 /\ ((0 <= y /\ y < 8) \/ (w - 7 <= y /\ y < w))
  <2>1. v \in Versions /\ x \in Int /\ y \in Int /\ w = Width(v)
    OBVIOUS
  <2>2. QED
    BY ONLY <2>1, PatternsAt
<1>9. <<x, y>> \notin DOMAIN FormatArea(w) \ {<<6, 8>>, <<8, 6>>}
  BY <1>1, <1>8
<1>10. QED
  BY <1>7, <1>9 DEF c

\* Eighteen bits lie in six columns of three.
LEMMA ThirdsOf ==
  ASSUME NEW i \in 0..17
  PROVE  i \div 3 \in 0..5 /\ i % 3 \in 0..2 /\ 3 * (i \div 3) + (i % 3) = i
OBVIOUS

\* Both copies of the version are in the frame.
LEMMA VersionShows ==
  ASSUME NEW v \in Versions, NEW w, w = Width(v), v >= 7, NEW i \in 0..17,
         NEW x \in Int, NEW y \in Int,
         \/ x = i \div 3 /\ y = w - 11 + (i % 3)
         \/ x = w - 11 + (i % 3) /\ y = i \div 3
  PROVE  /\ <<x, y>> \in DOMAIN Frame(v) /\ (Frame(v)[<<x, y>>] <=> i \in VersionPattern(v))
         /\ <<x, y>> \notin DOMAIN FormatArea(w)
<1> DEFINE c == <<x, y>>
           m == i \div 3
           n == i % 3
           o == w - 11
<1>1. w \in Int /\ w >= 45
  BY DEF Width, Versions, VersionMax
<1>2. /\ m \in 0..5 /\ n \in 0..2 /\ 3 * m + n = i
  BY ThirdsOf
<1>3. (x = m /\ y = o + n) \/ (x = o + n /\ y = m)
  OBVIOUS
<1>4. o \in Int /\ o >= 34 /\ o = w - 11
  BY <1>1
<1> HIDE DEF m, n, o
<1>5. ~(x = 8 /\ y = w - 8)
  BY <1>1, <1>2, <1>3, <1>4
<1>6. VersionArea(v) = [b \in Block(0, o, 6, 3) |-> 3 * b[1] + (b[2] - o) \in VersionPattern(v)]
                       ++ [b \in Block(o, 0, 3, 6) |-> 3 * b[2] + (b[1] - o) \in VersionPattern(v)]
  <2>1. v \in Int
    BY DEF Versions
  <2>2. ~(v < 7)
    BY <2>1
  <2>3. QED
    BY <2>2 DEF VersionArea, o
<1>7. \A p, q \in Int : \A k, l \in Nat :
        c \in Block(p, q, k, l) <=> p <= x /\ x < p + k /\ q <= y /\ y < q + l
  BY BlockAt, Zenon
<1>a. 0 \in Int /\ 3 \in Nat /\ 6 \in Nat
  OBVIOUS
<1>8. c \in Block(0, o, 6, 3) <=> 0 <= x /\ x < 0 + 6 /\ o <= y /\ y < o + 3
  BY <1>4, <1>7, <1>a, Zenon
<1>9. c \in Block(o, 0, 3, 6) <=> o <= x /\ x < o + 3 /\ 0 <= y /\ y < 0 + 6
  BY <1>4, <1>7, <1>a, Zenon
<1>10. c[1] = x /\ c[2] = y
  OBVIOUS
<1> HIDE DEF c
<1>11. c \in DOMAIN VersionArea(v) /\ (VersionArea(v)[c] <=> i \in VersionPattern(v))
  <2> DEFINE low == [b \in Block(0, o, 6, 3) |-> 3 * b[1] + (b[2] - o) \in VersionPattern(v)]
             right == [b \in Block(o, 0, 3, 6) |-> 3 * b[2] + (b[1] - o) \in VersionPattern(v)]
  <2>1. /\ c \in DOMAIN VersionArea(v) <=> c \in DOMAIN low \/ c \in DOMAIN right
        /\ c \in DOMAIN low => VersionArea(v)[c] = low[c]
        /\ c \notin DOMAIN low /\ c \in DOMAIN right => VersionArea(v)[c] = right[c]
    BY <1>6, OverIs
  <2>2. CASE x = m /\ y = o + n
    <3>1. c \in Block(0, o, 6, 3)
      BY <1>2, <1>4, <1>8, <2>2
    <3>2. c \in DOMAIN low /\ (low[c] <=> 3 * c[1] + (c[2] - o) \in VersionPattern(v))
      BY <3>1
    <3>3. 3 * c[1] + (c[2] - o) = i
      BY <1>2, <1>4, <1>10, <2>2
    <3> HIDE DEF low, right
    <3>4. QED
      BY <2>1, <3>2, <3>3
  <2>3. CASE x = o + n /\ y = m
    <3>1. c \in Block(o, 0, 3, 6) /\ c \notin Block(0, o, 6, 3)
      BY <1>2, <1>4, <1>8, <1>9, <2>3
    <3>2. /\ c \in DOMAIN right /\ c \notin DOMAIN low
          /\ right[c] <=> 3 * c[2] + (c[1] - o) \in VersionPattern(v)
      BY <3>1
    <3>3. 3 * c[2] + (c[1] - o) = i
      BY <1>2, <1>4, <1>10, <2>3
    <3> HIDE DEF low, right
    <3>4. QED
      BY <2>1, <3>2, <3>3
  <2>4. QED
    BY <1>3, <2>2, <2>3
<1>12. /\ c \in DOMAIN VersionArea(v) => c \in DOMAIN Frame(v)
       /\ c \in DOMAIN VersionArea(v) /\ c \in DOMAIN Frame(v) => Frame(v)[c] = VersionArea(v)[c]
  BY <1>5, FrameAt DEF c
<1>13. c \in DOMAIN Frame(v) /\ (Frame(v)[c] <=> i \in VersionPattern(v))
  BY <1>11, <1>12
<1>14. <<x, y>> \in DOMAIN FormatArea(w) <=>
              \/ y = 8 /\ ((0 <= x /\ x < 9) \/ (w - 8 <= x /\ x < w))
              \/ x = 8 /\ ((0 <= y /\ y < 8) \/ (w - 7 <= y /\ y < w))
  BY PatternsAt
<1>15. <<x, y>> \notin DOMAIN FormatArea(w)
  BY <1>1, <1>2, <1>3, <1>4, <1>14
<1>16. QED
  BY <1>13, <1>15 DEF c

\* The format information is in function cells.
LEMMA FormatInFrame ==
  ASSUME NEW v \in Versions, NEW x \in Int, NEW y \in Int,
         <<x, y>> \in DOMAIN FormatArea(Width(v))
  PROVE  <<x, y>> \in DOMAIN Frame(v)
BY FrameAt

\* The same for Micro QR, whose frame has four layers.
LEMMA MFrameAt ==
  ASSUME NEW v \in MVersions, NEW x \in Int, NEW y \in Int, NEW w, w = MWidth(v)
  PROVE  LET c == <<x, y>>
             f == MFrame(v)
             t == TimingPattern(8, w - 1, 0)
         IN  /\ w \in {11, 13, 15, 17}
             /\ c \in DOMAIN t <=> \/ 8 <= x /\ x < w /\ y = 0
                                   \/ 8 <= y /\ y < w /\ x = 0
             /\ c \in DOMAIN t => (t[c] <=> (x + y) % 2 = 0)
             /\ c \in DOMAIN MFormatArea <=> \/ 1 <= x /\ x < 9 /\ y = 8
                                             \/ x = 8 /\ 1 <= y /\ y < 8
             /\ c \in DOMAIN t => c \in DOMAIN f /\ f[c] = t[c]
             /\ c \in DOMAIN MFormatArea => c \in DOMAIN f
             /\ 0 <= x /\ x < 7 /\ 0 <= y /\ y < 7 =>
                  c \in DOMAIN f /\ (f[c] <=> Ring(<<3, 3>>, c) # 2)
<1> DEFINE c == <<x, y>>
           n == w - 8
           f == MFrame(v)
           t == TimingPattern(8, w - 1, 0)
           s == Uniform(Block(7, 0, 1, 8) \union Block(0, 7, 8, 1), FALSE)
           r == FinderPattern(0, 0)
           f2 == t ++ MFormatArea
           f3 == f2 ++ s
           f4 == f3 ++ r
<1>1. w \in {11, 13, 15, 17}
  BY DEF MWidth, MVersions, MVersionMax
<1>2. \A p, q \in Int : \A k, l \in Nat :
        c \in Block(p, q, k, l) <=> p <= x /\ x < p + k /\ q <= y /\ y < q + l
  BY BlockAt
<1>3. n \in Nat /\ w = 8 + n /\ w - 1 - 8 + 1 = n
  BY <1>1
<1> HIDE DEF n
<1>4. c \in Block(8, 0, n, 1) <=> 8 <= x /\ x < 8 + n /\ 0 <= y /\ y < 0 + 1
  BY <1>2, <1>3
<1>5. c \in Block(0, 8, 1, n) <=> 0 <= x /\ x < 0 + 1 /\ 8 <= y /\ y < 8 + n
  BY <1>2, <1>3
<1>6. t = [b \in Block(8, 0, n, 1) \union Block(0, 8, 1, n) |-> (b[1] + b[2] - 0) % 2 = 0]
  BY <1>3 DEF TimingPattern
<1>7. /\ c \in DOMAIN t <=> c \in Block(8, 0, n, 1) \/ c \in Block(0, 8, 1, n)
      /\ c \in DOMAIN t => (t[c] <=> (c[1] + c[2] - 0) % 2 = 0)
  BY <1>6
<1>8. c \in DOMAIN t <=> \/ 8 <= x /\ x < w /\ y = 0
                         \/ 8 <= y /\ y < w /\ x = 0
  BY <1>3, <1>4, <1>5, <1>7
<1>9. c \in DOMAIN t => (t[c] <=> (x + y) % 2 = 0)
  <2>1. c[1] + c[2] - 0 = x + y
    OBVIOUS
  <2>2. QED
    BY <1>7, <2>1
<1>10. c \in DOMAIN MFormatArea <=> \/ 1 <= x /\ x < 9 /\ y = 8
                                    \/ x = 8 /\ 1 <= y /\ y < 8
  <2>1. c \in DOMAIN MFormatArea <=> c \in Block(1, 8, 8, 1) \/ c \in Block(8, 1, 1, 7)
    BY DEF MFormatArea, Uniform
  <2>2. c \in Block(1, 8, 8, 1) <=> 1 <= x /\ x < 1 + 8 /\ 8 <= y /\ y < 8 + 1
    BY <1>2
  <2>3. c \in Block(8, 1, 1, 7) <=> 8 <= x /\ x < 8 + 1 /\ 1 <= y /\ y < 1 + 7
    BY <1>2
  <2>4. QED
    BY <2>1, <2>2, <2>3
<1>11. c \in DOMAIN s <=> \/ x = 7 /\ 0 <= y /\ y < 8
                          \/ 0 <= x /\ x < 8 /\ y = 7
  <2>1. c \in DOMAIN s <=> c \in Block(7, 0, 1, 8) \/ c \in Block(0, 7, 8, 1)
    BY DEF Uniform
  <2>2. c \in Block(7, 0, 1, 8) <=> 7 <= x /\ x < 7 + 1 /\ 0 <= y /\ y < 0 + 8
    BY <1>2
  <2>3. c \in Block(0, 7, 8, 1) <=> 0 <= x /\ x < 0 + 8 /\ 7 <= y /\ y < 7 + 1
    BY <1>2
  <2> HIDE DEF s, c
  <2>4. QED
    BY <2>1, <2>2, <2>3
<1>12. f = f4
  BY DEF MFrame
<1>13. /\ c \in DOMAIN r <=> 0 <= x /\ x < 0 + 7 /\ 0 <= y /\ y < 0 + 7
       /\ c \in DOMAIN r => (r[c] <=> Ring(<<3, 3>>, c) # 2)
  <2> DEFINE z == 0
  <2>1. z \in Int /\ z + 3 = 3
    OBVIOUS
  <2> HIDE DEF z, c
  <2>2. /\ c \in DOMAIN FinderPattern(z, z) <=> z <= x /\ x < z + 7 /\ z <= y /\ y < z + 7
        /\ c \in DOMAIN FinderPattern(z, z) =>
             FinderPattern(z, z)[c] = (Ring(<<z + 3, z + 3>>, c) # 2)
    BY <2>1, FinderAt DEF c
  <2>3. FinderPattern(z, z) = r
    BY DEF z
  <2>4. QED
    BY <2>1, <2>2, <2>3 DEF z
<1> HIDE DEF c, f, t, s, r
<1>14. \A g, h : /\ c \in DOMAIN (g ++ h) <=> c \in DOMAIN g \/ c \in DOMAIN h
                 /\ c \in DOMAIN g => (g ++ h)[c] = g[c]
                 /\ c \notin DOMAIN g /\ c \in DOMAIN h => (g ++ h)[c] = h[c]
  BY OverIs
<1>15. /\ c \in DOMAIN f2 <=> c \in DOMAIN t \/ c \in DOMAIN MFormatArea
       /\ c \in DOMAIN t => f2[c] = t[c]
  BY <1>14
<1> HIDE DEF f2
<1>16. /\ c \in DOMAIN f3 <=> c \in DOMAIN f2 \/ c \in DOMAIN s
       /\ c \in DOMAIN f2 => f3[c] = f2[c]
  BY <1>14
<1> HIDE DEF f3
<1>17. /\ c \in DOMAIN f4 <=> c \in DOMAIN f3 \/ c \in DOMAIN r
       /\ c \in DOMAIN f3 => f4[c] = f3[c]
       /\ c \notin DOMAIN f3 /\ c \in DOMAIN r => f4[c] = r[c]
  BY <1>14
<1> HIDE DEF f4
<1>18. c \in DOMAIN t => c \in DOMAIN f /\ f[c] = t[c]
  BY <1>12, <1>15, <1>16, <1>17
<1>19. c \in DOMAIN MFormatArea => c \in DOMAIN f
  BY <1>12, <1>15, <1>16, <1>17
<1>20. ASSUME 0 <= x, x < 7, 0 <= y, y < 7
       PROVE  c \in DOMAIN f /\ (f[c] <=> Ring(<<3, 3>>, c) # 2)
  <2>1. c \notin DOMAIN t
    BY <1>1, <1>8, <1>20
  <2>2. c \notin DOMAIN MFormatArea /\ c \notin DOMAIN s
    BY <1>10, <1>11, <1>20
  <2>3. c \in DOMAIN r /\ (r[c] <=> Ring(<<3, 3>>, c) # 2)
    BY <1>13, <1>20
  <2>4. QED
    BY <1>12, <1>15, <1>16, <1>17, <2>1, <2>2, <2>3
<1>21. QED
  BY <1>1, <1>8, <1>9, <1>10, <1>18, <1>19, <1>20 DEF c, f, t

\* The bit of the format information that a cell has, in QR and in Micro QR.
FormatBit(w, c) ==
  LET x == c[1]
      y == c[2]
  IN  IF y = 8 /\ x >= w - 8 THEN w - 1 - x
      ELSE IF x = 8 THEN (IF y < 6 THEN y ELSE IF y < 9 THEN y - 1 ELSE y - w + 15)
      ELSE IF x = 7 THEN 8 ELSE 14 - x

MFormatBit(c) == IF c[1] = 8 THEN c[2] - 1 ELSE 15 - c[1]

LEMMA FormatCellIs ==
  ASSUME NEW w \in Int, w >= 21, NEW i \in 0..14
  PROVE  /\ DOMAIN FormatCells(w, i) = {1, 2}
         /\ \A n \in {1, 2} :
              LET c == FormatCells(w, i)[n]
              IN  /\ c = <<c[1], c[2]>> /\ c[1] \in Int /\ c[2] \in Int
                  /\ c # <<6, 8>> /\ c # <<8, 6>>
                  /\ \/ c[2] = 8 /\ ((0 <= c[1] /\ c[1] < 9) \/ (w - 8 <= c[1] /\ c[1] < w))
                     \/ c[1] = 8 /\ ((0 <= c[2] /\ c[2] < 8) \/ (w - 7 <= c[2] /\ c[2] < w))
                  /\ FormatBit(w, c) = i
<1> DEFINE good(c) ==
             /\ c = <<c[1], c[2]>> /\ c[1] \in Int /\ c[2] \in Int
             /\ c # <<6, 8>> /\ c # <<8, 6>>
             /\ \/ c[2] = 8 /\ ((0 <= c[1] /\ c[1] < 9) \/ (w - 8 <= c[1] /\ c[1] < w))
                \/ c[1] = 8 /\ ((0 <= c[2] /\ c[2] < 8) \/ (w - 7 <= c[2] /\ c[2] < w))
             /\ FormatBit(w, c) = i
<1>1. ASSUME NEW x \in Int, NEW y \in Int,
             \/ y = 8 /\ ((0 <= x /\ x < 9) \/ (w - 8 <= x /\ x < w))
             \/ x = 8 /\ ((0 <= y /\ y < 8) \/ (w - 7 <= y /\ y < w)),
             ~(x = 6 /\ y = 8), ~(x = 8 /\ y = 6),
             i = IF y = 8 /\ x >= w - 8 THEN w - 1 - x
                 ELSE IF x = 8 THEN (IF y < 6 THEN y ELSE IF y < 9 THEN y - 1 ELSE y - w + 15)
                 ELSE IF x = 7 THEN 8 ELSE 14 - x
      PROVE  good(<<x, y>>)
  <2>1. <<x, y>>[1] = x /\ <<x, y>>[2] = y
    OBVIOUS
  <2>2. FormatBit(w, <<x, y>>) = i
    BY <1>1 DEF FormatBit
  <2>3. <<x, y>> # <<6, 8>> /\ <<x, y>> # <<8, 6>>
    BY <1>1
  <2>4. QED
    BY <1>1, <2>1, <2>2, <2>3
<1> HIDE DEF good
<1>2. CASE i < 8
  <2> DEFINE y == IF i < 6 THEN i ELSE i + 1
             x == w - 1 - i
  <2>1. FormatCells(w, i) = <<<<x, 8>>, <<8, y>>>>
    BY <1>2 DEF FormatCells
  <2>2. x \in Int /\ w - 8 <= x /\ x < w /\ i = w - 1 - x /\ x >= 13
    BY <1>2
  <2>3. y \in Int /\ 0 <= y /\ y < 9 /\ y # 6 /\ i = IF y < 6 THEN y ELSE IF y < 9 THEN y - 1 ELSE y - w + 15
    BY <1>2
  <2> HIDE DEF x, y
  <2>4. good(<<x, 8>>)
    BY <1>1, <2>2
  <2>5. good(<<8, y>>)
    BY <1>1, <2>3
  <2>6. FormatCells(w, i)[1] = <<x, 8>> /\ FormatCells(w, i)[2] = <<8, y>>
        /\ DOMAIN FormatCells(w, i) = {1, 2}
    BY <2>1
  <2>7. good(FormatCells(w, i)[1]) /\ good(FormatCells(w, i)[2])
    BY <2>4, <2>5, <2>6
  <2>8. \A n \in {1, 2} : good(FormatCells(w, i)[n])
    BY <2>7
  <2>9. QED
    BY <2>6, <2>8 DEF good
<1>3. CASE ~(i < 8)
  <2> DEFINE y == w - 7 + (i - 8)
             x == IF i - 8 = 0 THEN 7 ELSE 6 - (i - 8)
  <2>1. FormatCells(w, i) = <<<<8, y>>, <<x, 8>>>>
    BY <1>3 DEF FormatCells
  <2>2. x \in Int /\ 0 <= x /\ x < 8 /\ x # 6 /\ i = IF x = 7 THEN 8 ELSE 14 - x
    BY <1>3
  <2>3. y \in Int /\ w - 7 <= y /\ y < w /\ i = y - w + 15 /\ y >= 14
    BY <1>3
  <2> HIDE DEF x, y
  <2>4. good(<<x, 8>>)
    BY <1>1, <2>2
  <2>5. good(<<8, y>>)
    BY <1>1, <2>3
  <2>6. FormatCells(w, i)[1] = <<8, y>> /\ FormatCells(w, i)[2] = <<x, 8>>
        /\ DOMAIN FormatCells(w, i) = {1, 2}
    BY <2>1
  <2>7. good(FormatCells(w, i)[1]) /\ good(FormatCells(w, i)[2])
    BY <2>4, <2>5, <2>6
  <2>8. \A n \in {1, 2} : good(FormatCells(w, i)[n])
    BY <2>7
  <2>9. QED
    BY <2>6, <2>8 DEF good
<1>4. QED
  BY <1>2, <1>3

\* The copies leave out no cell of the area but two of the timing patterns.
LEMMA FormatCellFor ==
  ASSUME NEW w \in Int, w >= 21, NEW x \in Int, NEW y \in Int,
         \/ y = 8 /\ ((0 <= x /\ x < 9) \/ (w - 8 <= x /\ x < w))
         \/ x = 8 /\ ((0 <= y /\ y < 8) \/ (w - 7 <= y /\ y < w)),
         <<x, y>> # <<6, 8>>, <<x, y>> # <<8, 6>>
  PROVE  \E i \in 0..14 : \E n \in DOMAIN FormatCells(w, i) : FormatCells(w, i)[n] = <<x, y>>
<1> DEFINE i == IF y = 8 /\ x >= w - 8 THEN w - 1 - x
                ELSE IF x = 8 THEN (IF y < 6 THEN y ELSE IF y < 9 THEN y - 1 ELSE y - w + 15)
                ELSE IF x = 7 THEN 8 ELSE 14 - x
<1>1. ~(x = 6 /\ y = 8) /\ ~(x = 8 /\ y = 6)
  OBVIOUS
<1>2. i \in 0..14
  BY <1>1
<1>3. DOMAIN FormatCells(w, i) = {1, 2}
  BY <1>2, FormatCellIs
<1>4. \/ i < 8 /\ x = w - 1 - i /\ y = 8
      \/ i < 8 /\ x = 8 /\ y = IF i < 6 THEN i ELSE i + 1
      \/ ~(i < 8) /\ x = 8 /\ y = w - 7 + (i - 8)
      \/ ~(i < 8) /\ y = 8 /\ x = IF i - 8 = 0 THEN 7 ELSE 6 - (i - 8)
  BY <1>1
<1> HIDE DEF i
<1>5. FormatCells(w, i)[1] = <<x, y>> \/ FormatCells(w, i)[2] = <<x, y>>
  <2>1. i < 8 => FormatCells(w, i) = <<<<w - 1 - i, 8>>, <<8, IF i < 6 THEN i ELSE i + 1>>>>
    BY DEF FormatCells
  <2>2. ~(i < 8) => FormatCells(w, i) = <<<<8, w - 7 + (i - 8)>>, <<IF i - 8 = 0 THEN 7 ELSE 6 - (i - 8), 8>>>>
    BY DEF FormatCells
  <2>3. QED
    BY <1>4, <2>1, <2>2
<1>6. QED
  BY <1>2, <1>3, <1>5

LEMMA MFormatCellIs ==
  ASSUME NEW w, NEW i \in 0..14
  PROVE  /\ DOMAIN MFormatCells(w, i) = {1}
         /\ LET c == MFormatCells(w, i)[1]
            IN  /\ c = <<c[1], c[2]>> /\ c[1] \in Int /\ c[2] \in Int
                /\ \/ 1 <= c[1] /\ c[1] < 9 /\ c[2] = 8
                   \/ c[1] = 8 /\ 1 <= c[2] /\ c[2] < 8
                /\ MFormatBit(c) = i
<1>1. CASE i < 8
  <2>1. MFormatCells(w, i) = <<<<8, i + 1>>>>
    BY <1>1 DEF MFormatCells
  <2>2. QED
    BY <1>1, <2>1 DEF MFormatBit
<1>2. CASE ~(i < 8)
  <2>1. MFormatCells(w, i) = <<<<15 - i, 8>>>>
    BY <1>2 DEF MFormatCells
  <2>2. QED
    BY <1>2, <2>1 DEF MFormatBit
<1>3. QED
  BY <1>1, <1>2

LEMMA MFormatCellFor ==
  ASSUME NEW w, NEW x \in Int, NEW y \in Int,
         \/ 1 <= x /\ x < 9 /\ y = 8
         \/ x = 8 /\ 1 <= y /\ y < 8
  PROVE  /\ MFormatBit(<<x, y>>) \in 0..14
         /\ MFormatCells(w, MFormatBit(<<x, y>>)) = <<<<x, y>>>>
<1> DEFINE i == MFormatBit(<<x, y>>)
<1>1. i = IF x = 8 THEN y - 1 ELSE 15 - x
  BY DEF MFormatBit
<1>2. i \in 0..14 /\ (IF i < 8 THEN x = 8 /\ y = i + 1 ELSE x = 15 - i /\ y = 8)
  BY <1>1
<1> HIDE DEF i
<1>3. MFormatCells(w, i) = <<<<x, y>>>>
  BY <1>2 DEF MFormatCells
<1>4. QED
  BY <1>2, <1>3 DEF i

\* The words of the format information have fifteen bits.
Fifteen(n) == n \in Nat /\ n < 32768

LEMMA WordOfFifteen == ASSUME NEW n, Fifteen(n) PROVE Word(n) \subseteq 0..14
<1>1. 2 ^ 15 = 32768 /\ 2 ^ 16 = 65536 /\ 2 ^ 17 = 131072
  OBVIOUS
<1>2. \A p \in Nat : n < p => n \div p = 0
  BY QuotientIs DEF Fifteen
<1>3. n < 32768 /\ n < 65536 /\ n < 131072
  BY DEF Fifteen
<1>4. (n \div 2 ^ 15) % 2 # 1 /\ (n \div 2 ^ 16) % 2 # 1 /\ (n \div 2 ^ 17) % 2 # 1
  <2>1. 0 % 2 # 1
    OBVIOUS
  <2> DEFINE p == 2 ^ 15
             q == 2 ^ 16
             r == 2 ^ 17
  <2>2. p = 32768 /\ q = 65536 /\ r = 131072
    BY <1>1
  <2> HIDE DEF p, q, r
  <2>3. n \div p = 0 /\ n \div q = 0 /\ n \div r = 0
    <3>1. p \in Nat /\ q \in Nat /\ r \in Nat /\ n < p /\ n < q /\ n < r
      BY <1>3, <2>2
    <3>2. QED
      BY <1>2, <3>1
  <2>4. (n \div p) % 2 # 1 /\ (n \div q) % 2 # 1 /\ (n \div r) % 2 # 1
    BY <2>1, <2>3, Zenon
  <2>5. QED
    BY <2>4 DEF p, q, r
<1>5. \A i \in 0..17 : i \in 0..14 \/ i = 15 \/ i = 16 \/ i = 17
  OBVIOUS
<1>6. \A i \in 0..17 : (n \div 2 ^ i) % 2 = 1 => i \in 0..14
  BY <1>4, <1>5, Zenon
<1>7. QED
  BY <1>6 DEF Word

LEMMA FormatWords ==
  /\ \A m \in Masks, l \in Levels : FormatInfo(m, l) \subseteq 0..14
  /\ \A m \in MMasks, v \in MVersions, l \in Levels : MFormatInfo(m, v, l) \subseteq 0..14
<1>1. ASSUME NEW m \in Masks, NEW l \in Levels PROVE FormatInfo(m, l) \subseteq 0..14
  <2>1. m + 1 \in 1..8
    BY DEF Masks
  <2>2. \A i \in 1..8 : Fifteen(formatInfo[l][i])
    BY SMTT(60) DEF Fifteen, formatInfo, Levels
  <2>3. Fifteen(formatInfo[l][m + 1])
    BY <2>1, <2>2
  <2>4. QED
    BY <2>3, WordOfFifteen DEF FormatInfo
<1>2. ASSUME NEW m \in MMasks, NEW v \in MVersions, NEW l \in Levels
      PROVE  MFormatInfo(m, v, l) \subseteq 0..14
  <2> DEFINE type == IF l = "H" THEN -1 ELSE typeTable[v][LevelIndex(l)]
  <2>1. type \in -1..7
    BY SMTT(60) DEF typeTable, LevelIndex, Levels, MVersions, MVersionMax
  <2> HIDE DEF type
  <2>2. MFormatInfo(m, v, l) = IF type < 0 THEN {} ELSE Word(mformatInfo[m + 1][type + 1])
    BY DEF MFormatInfo, type
  <2>3. CASE type < 0
    BY <2>2, <2>3
  <2>4. CASE ~(type < 0)
    <3>1. m + 1 \in 1..4 /\ type + 1 \in 1..8
      BY <2>1, <2>4 DEF MMasks
    <3>2. \A i \in 1..4, j \in 1..8 : Fifteen(mformatInfo[i][j])
      BY SMTT(60) DEF Fifteen, mformatInfo
    <3>3. Fifteen(mformatInfo[m + 1][type + 1])
      BY <3>1, <3>2
    <3>4. QED
      BY <2>2, <2>4, <3>3, WordOfFifteen
  <2>5. QED
    BY <2>3, <2>4
<1>3. QED
  BY <1>1, <1>2

-----------------------------------------------------------------------------
(* What a mask does to a symbol.                                           *)

FormatOf(k, i) == IF k.mqr THEN MFormatCells(SymbolWidth(k), i) ELSE FormatCells(SymbolWidth(k), i)

FormatWord(k, m) == IF k.mqr THEN MFormatInfo(m, k.version, k.level) ELSE FormatInfo(m, k.level)

\* The cells that hold the bits of bs.
CopiesOf(k, bs) == UNION {{FormatOf(k, i)[n] : n \in DOMAIN FormatOf(k, i)} : i \in bs}

Inverts(k, m, c) == IF k.mqr THEN MMaskBit(m, c) ELSE MaskBit(m, c)

MasksOf(k) == IF k.mqr THEN MMasks ELSE Masks

Under(k, s, m) == IF k.mqr THEN MMakeMask(k.version, function[k], s, m, k.level)
                           ELSE MakeMask(k.version, function[k], s, m, k.level)

\* The format information has its area for itself, and every bit cells of its own.
LEMMA FormatIs ==
  ASSUME NEW k \in Kinds
  PROVE  /\ CopiesOf(k, 0..14)
              = IF k.mqr THEN DOMAIN MFormatArea
                ELSE DOMAIN FormatArea(SymbolWidth(k)) \ {<<6, 8>>, <<8, 6>>}
         /\ CopiesOf(k, 0..14) \subseteq function[k]
         /\ \A i, j \in 0..14 : \A n \in DOMAIN FormatOf(k, i), m \in DOMAIN FormatOf(k, j) :
              FormatOf(k, i)[n] = FormatOf(k, j)[m] => i = j
<1> DEFINE v == k.version
           w == SymbolWidth(k)
<1>1. k.mqr \in BOOLEAN /\ v \in IF k.mqr THEN MVersions ELSE Versions
  BY KindsAssumption
<1>2. CASE k.mqr
  <2>1. v \in MVersions /\ w = MWidth(v) /\ function[k] = DOMAIN MFrame(v)
    BY <1>1, <1>2 DEF SymbolWidth, function, frames
  <2>2. \A i : FormatOf(k, i) = MFormatCells(w, i)
    BY <1>2 DEF FormatOf
  <2> HIDE DEF v, w
  <2>3. \A x, y \in Int : /\ <<x, y>> \in DOMAIN MFormatArea <=>
                               \/ 1 <= x /\ x < 9 /\ y = 8
                               \/ x = 8 /\ 1 <= y /\ y < 8
                          /\ <<x, y>> \in DOMAIN MFormatArea => <<x, y>> \in DOMAIN MFrame(v)
    BY <2>1, MFrameAt
  <2>4. \A i \in 0..14 :
          /\ DOMAIN MFormatCells(w, i) = {1}
          /\ LET c == MFormatCells(w, i)[1]
             IN  /\ c = <<c[1], c[2]>> /\ c[1] \in Int /\ c[2] \in Int
                 /\ \/ 1 <= c[1] /\ c[1] < 9 /\ c[2] = 8
                    \/ c[1] = 8 /\ 1 <= c[2] /\ c[2] < 8
                 /\ MFormatBit(c) = i
    BY MFormatCellIs
  <2>5. \A i \in 0..14 : \A n \in DOMAIN FormatOf(k, i) :
          FormatOf(k, i)[n] \in DOMAIN MFormatArea /\ MFormatBit(FormatOf(k, i)[n]) = i
    <3>1. ASSUME NEW i \in 0..14, NEW n \in DOMAIN FormatOf(k, i)
          PROVE  FormatOf(k, i)[n] \in DOMAIN MFormatArea /\ MFormatBit(FormatOf(k, i)[n]) = i
      <4> DEFINE c == MFormatCells(w, i)[1]
      <4>1. FormatOf(k, i)[n] = c
        BY <2>2, <2>4
      <4>2. /\ c = <<c[1], c[2]>> /\ c[1] \in Int /\ c[2] \in Int
            /\ \/ 1 <= c[1] /\ c[1] < 9 /\ c[2] = 8
               \/ c[1] = 8 /\ 1 <= c[2] /\ c[2] < 8
            /\ MFormatBit(c) = i
        BY <2>4
      <4> HIDE DEF c
      <4>3. <<c[1], c[2]>> \in DOMAIN MFormatArea
        BY <2>3, <4>2
      <4>4. QED
        BY <4>1, <4>2, <4>3
    <3>2. QED
      BY <3>1
  <2>6. \A c \in DOMAIN MFormatArea : \E i \in 0..14 : \E n \in DOMAIN FormatOf(k, i) : FormatOf(k, i)[n] = c
    <3>1. ASSUME NEW c \in DOMAIN MFormatArea
          PROVE  \E i \in 0..14 : \E n \in DOMAIN FormatOf(k, i) : FormatOf(k, i)[n] = c
      <4>1. c \in Block(1, 8, 8, 1) \/ c \in Block(8, 1, 1, 7)
        BY DEF MFormatArea, Uniform
      <4>2. PICK x \in Int, y \in Int : c = <<x, y>>
        BY <4>1 DEF Block
      <4>3. \/ 1 <= x /\ x < 9 /\ y = 8
            \/ x = 8 /\ 1 <= y /\ y < 8
        BY <2>3, <4>2
      <4>4. \E i \in 0..14 : \E n \in DOMAIN MFormatCells(w, i) : MFormatCells(w, i)[n] = <<x, y>>
        <5>1. ASSUME NEW a \in Int, NEW b \in Int,
                     \/ 1 <= a /\ a < 9 /\ b = 8
                     \/ a = 8 /\ 1 <= b /\ b < 8
              PROVE  \E i \in 0..14 : \E n \in DOMAIN MFormatCells(w, i) : MFormatCells(w, i)[n] = <<a, b>>
          <6> DEFINE i == MFormatBit(<<a, b>>)
          <6>1. i \in 0..14 /\ MFormatCells(w, i) = <<<<a, b>>>>
            BY <5>1, MFormatCellFor
          <6> HIDE DEF i
          <6>2. 1 \in DOMAIN MFormatCells(w, i) /\ MFormatCells(w, i)[1] = <<a, b>>
            BY <6>1
          <6>3. QED
            BY <6>1, <6>2
        <5>2. QED
          BY <4>3, <5>1
      <4>5. QED
        BY <2>2, <4>2, <4>4
    <3>2. QED
      BY <3>1
  <2>7. DOMAIN MFormatArea \subseteq function[k]
    <3>1. ASSUME NEW c \in DOMAIN MFormatArea PROVE c \in function[k]
      <4>1. c \in Block(1, 8, 8, 1) \/ c \in Block(8, 1, 1, 7)
        BY DEF MFormatArea, Uniform
      <4>2. PICK x \in Int, y \in Int : c = <<x, y>>
        BY <4>1 DEF Block
      <4>3. QED
        BY <2>1, <2>3, <4>2
    <3>2. QED
      BY <3>1
  <2>8. CopiesOf(k, 0..14) = DOMAIN MFormatArea
    <3> DEFINE area == DOMAIN MFormatArea
    <3>1. /\ \A i \in 0..14 : \A n \in DOMAIN FormatOf(k, i) : FormatOf(k, i)[n] \in area
          /\ \A c \in area : \E i \in 0..14 : \E n \in DOMAIN FormatOf(k, i) : FormatOf(k, i)[n] = c
      BY <2>5, <2>6
    <3> HIDE DEF area
    <3>2. CopiesOf(k, 0..14) = area
      BY <3>1 DEF CopiesOf
    <3>3. QED
      BY <3>2 DEF area
  <2>9. QED
    BY <1>2, <2>5, <2>7, <2>8
<1>3. CASE ~k.mqr
  <2>1. v \in Versions /\ w = Width(v) /\ function[k] = DOMAIN Frame(v)
    BY <1>1, <1>3 DEF SymbolWidth, function, frames
  <2>2. \A i : FormatOf(k, i) = FormatCells(w, i)
    BY <1>3 DEF FormatOf
  <2>a. w \in Int /\ w >= 21
    BY <2>1 DEF Width, Versions, VersionMax
  <2> DEFINE area == DOMAIN FormatArea(w) \ {<<6, 8>>, <<8, 6>>}
  <2>b. ASSUME NEW c \in DOMAIN FormatArea(w) PROVE \E x, y \in Int : c = <<x, y>>
    <3>1. c \in Block(0, 8, 9, 1) \/ c \in Block(w - 8, 8, 8, 1) \/ c \in Block(8, 0, 1, 8) \/ c \in Block(8, w - 7, 1, 7)
      BY DEF FormatArea, Uniform
    <3>2. w - 8 \in Int /\ w - 7 \in Int
      BY <2>a
    <3> HIDE DEF w
    <3>3. \A a, b \in Int : \A m, n \in Nat : c \in Block(a, b, m, n) => \E x, y \in Int : c = <<x, y>>
      BY DEF Block
    <3>4. {0, 8} \subseteq Int /\ {1, 7, 8, 9} \subseteq Nat
      OBVIOUS
    <3>5. QED
      BY <3>1, <3>2, <3>3, <3>4, Zenon
  <2> HIDE DEF v, w
  <2>3. \A x, y \in Int : /\ <<x, y>> \in DOMAIN FormatArea(w) <=>
                               \/ y = 8 /\ ((0 <= x /\ x < 9) \/ (w - 8 <= x /\ x < w))
                               \/ x = 8 /\ ((0 <= y /\ y < 8) \/ (w - 7 <= y /\ y < w))
                          /\ <<x, y>> \in DOMAIN FormatArea(w) => <<x, y>> \in DOMAIN Frame(v)
    <3>1. \A x, y \in Int : <<x, y>> \in DOMAIN FormatArea(w) => <<x, y>> \in DOMAIN Frame(v)
      BY <2>1, FormatInFrame
    <3>2. \A x, y \in Int : <<x, y>> \in DOMAIN FormatArea(w) <=>
                               \/ y = 8 /\ ((0 <= x /\ x < 9) \/ (w - 8 <= x /\ x < w))
                               \/ x = 8 /\ ((0 <= y /\ y < 8) \/ (w - 7 <= y /\ y < w))
      BY <2>1, PatternsAt
    <3>3. QED
      BY <3>1, <3>2
  <2>4. \A i \in 0..14 :
          /\ DOMAIN FormatCells(w, i) = {1, 2}
          /\ \A n \in {1, 2} :
              LET c == FormatCells(w, i)[n]
              IN  /\ c = <<c[1], c[2]>> /\ c[1] \in Int /\ c[2] \in Int
                  /\ c # <<6, 8>> /\ c # <<8, 6>>
                  /\ \/ c[2] = 8 /\ ((0 <= c[1] /\ c[1] < 9) \/ (w - 8 <= c[1] /\ c[1] < w))
                     \/ c[1] = 8 /\ ((0 <= c[2] /\ c[2] < 8) \/ (w - 7 <= c[2] /\ c[2] < w))
                  /\ FormatBit(w, c) = i
    BY <2>a, FormatCellIs
  <2>5. \A i \in 0..14 : \A n \in DOMAIN FormatOf(k, i) :
          FormatOf(k, i)[n] \in area /\ FormatBit(w, FormatOf(k, i)[n]) = i
    <3>1. ASSUME NEW i \in 0..14, NEW n \in DOMAIN FormatOf(k, i)
          PROVE  FormatOf(k, i)[n] \in area /\ FormatBit(w, FormatOf(k, i)[n]) = i
      <4> DEFINE c == FormatCells(w, i)[n]
      <4>1. FormatOf(k, i)[n] = c /\ n \in {1, 2}
        BY <2>2, <2>4
      <4>2. /\ c = <<c[1], c[2]>> /\ c[1] \in Int /\ c[2] \in Int
            /\ c # <<6, 8>> /\ c # <<8, 6>>
            /\ \/ c[2] = 8 /\ ((0 <= c[1] /\ c[1] < 9) \/ (w - 8 <= c[1] /\ c[1] < w))
               \/ c[1] = 8 /\ ((0 <= c[2] /\ c[2] < 8) \/ (w - 7 <= c[2] /\ c[2] < w))
            /\ FormatBit(w, c) = i
        BY <2>4, <4>1
      <4> HIDE DEF c
      <4>3. <<c[1], c[2]>> \in DOMAIN FormatArea(w)
        BY <2>3, <4>2
      <4>4. QED
        BY <4>1, <4>2, <4>3
    <3>2. QED
      BY <3>1
  <2>6. \A c \in area : \E i \in 0..14 : \E n \in DOMAIN FormatOf(k, i) : FormatOf(k, i)[n] = c
    <3>1. ASSUME NEW c \in area
          PROVE  \E i \in 0..14 : \E n \in DOMAIN FormatOf(k, i) : FormatOf(k, i)[n] = c
      <4>2. PICK x \in Int, y \in Int : c = <<x, y>>
        BY <2>b
      <4>3. /\ \/ y = 8 /\ ((0 <= x /\ x < 9) \/ (w - 8 <= x /\ x < w))
               \/ x = 8 /\ ((0 <= y /\ y < 8) \/ (w - 7 <= y /\ y < w))
            /\ <<x, y>> # <<6, 8>> /\ <<x, y>> # <<8, 6>>
        BY <2>3, <4>2
      <4>4. \E i \in 0..14 : \E n \in DOMAIN FormatCells(w, i) : FormatCells(w, i)[n] = <<x, y>>
        BY <2>a, <4>3, FormatCellFor
      <4>5. QED
        BY <2>2, <4>2, <4>4
    <3>2. QED
      BY <3>1
  <2>7. DOMAIN FormatArea(w) \subseteq function[k]
    <3>1. ASSUME NEW c \in DOMAIN FormatArea(w) PROVE c \in function[k]
      <4>2. PICK x \in Int, y \in Int : c = <<x, y>>
        BY <2>b
      <4>3. QED
        BY <2>1, <2>3, <4>2
    <3>2. QED
      BY <3>1
  <2>8. CopiesOf(k, 0..14) = area
    <3> HIDE DEF area
    <3>1. QED
      BY <2>5, <2>6 DEF CopiesOf
  <2>9. QED
    BY <1>3, <2>5, <2>7, <2>8 DEF w
<1>4. QED
  BY <1>1, <1>2, <1>3

\* A mask inverts a cell or does not.
LEMMA InvertsIs ==
  ASSUME NEW k \in Kinds, NEW m \in MasksOf(k), NEW c
  PROVE  Inverts(k, m, c) \in BOOLEAN
<1>1. \A j \in Masks : MaskBit(j, c) \in BOOLEAN
  <2>1. /\ MaskBit(0, c) \in BOOLEAN /\ MaskBit(1, c) \in BOOLEAN
        /\ MaskBit(2, c) \in BOOLEAN /\ MaskBit(3, c) \in BOOLEAN
    BY DEF MaskBit
  <2>2. /\ MaskBit(4, c) \in BOOLEAN /\ MaskBit(5, c) \in BOOLEAN
        /\ MaskBit(6, c) \in BOOLEAN /\ MaskBit(7, c) \in BOOLEAN
    BY DEF MaskBit
  <2>3. \A j \in Masks : j = 0 \/ j = 1 \/ j = 2 \/ j = 3 \/ j = 4 \/ j = 5 \/ j = 6 \/ j = 7
    BY DEF Masks
  <2>4. QED
    BY <2>1, <2>2, <2>3, Zenon
<1>2. CASE k.mqr
  <2>1. m \in 0..3
    BY <1>2 DEF MasksOf, MMasks
  <2>2. <<1, 4, 6, 7>>[m + 1] \in Masks
    BY <2>1 DEF Masks
  <2>3. QED
    BY <1>1, <1>2, <2>2 DEF Inverts, MMaskBit
<1>3. CASE ~k.mqr
  BY <1>1, <1>3 DEF Inverts, MasksOf
<1>4. QED
  BY <1>2, <1>3

LEMMA UnderIs ==
  ASSUME NEW k \in Kinds, NEW m \in MasksOf(k), NEW s
  PROVE  LET w == SymbolWidth(k)
         IN  /\ FormatWord(k, m) \subseteq 0..14
             /\ Under(k, s, m) =
                  (Apply({c \in Cells(w) : Inverts(k, m, c)}, function[k], s, w)
                     \ CopiesOf(k, 0..14)) \union CopiesOf(k, FormatWord(k, m))
<1> DEFINE w == SymbolWidth(k)
           word == FormatWord(k, m)
           cells == [i \in 0..14 |-> FormatOf(k, i)]
           copies(bs) == UNION {{cells[i][n] : n \in DOMAIN cells[i]} : i \in bs}
<1>1. word \subseteq 0..14
  BY KindsAssumption, FormatWords DEF FormatWord, MasksOf
<1>2. ASSUME NEW bs \in SUBSET (0..14) PROVE copies(bs) = CopiesOf(k, bs)
  <2>1. \A i \in bs : cells[i] = FormatOf(k, i)
    OBVIOUS
  <2> HIDE DEF cells
  <2>2. QED
    BY <2>1 DEF CopiesOf
<1>3. Under(k, s, m) = WriteFormat(Apply({c \in Cells(w) : Inverts(k, m, c)}, function[k], s, w), cells, word)
  <2>1. CASE k.mqr
    <3>1. w = MWidth(k.version)
      BY <2>1 DEF SymbolWidth
    <3>2. cells = [i \in 0..14 |-> MFormatCells(w, i)]
      BY <2>1 DEF FormatOf
    <3>3. {c \in Cells(w) : Inverts(k, m, c)} = {c \in Cells(w) : MMaskBit(m, c)}
      BY <2>1 DEF Inverts
    <3>4. word = MFormatInfo(m, k.version, k.level)
      BY <2>1 DEF FormatWord
    <3>5. Under(k, s, m) = MMakeMask(k.version, function[k], s, m, k.level)
      BY <2>1 DEF Under
    <3> HIDE DEF w, cells, word
    <3>6. QED
      BY <3>1, <3>2, <3>3, <3>4, <3>5 DEF MMakeMask
  <2>2. CASE ~k.mqr
    <3>1. w = Width(k.version)
      BY <2>2 DEF SymbolWidth
    <3>2. cells = [i \in 0..14 |-> FormatCells(w, i)]
      BY <2>2 DEF FormatOf
    <3>3. {c \in Cells(w) : Inverts(k, m, c)} = {c \in Cells(w) : MaskBit(m, c)}
      BY <2>2 DEF Inverts
    <3>4. word = FormatInfo(m, k.level)
      BY <2>2 DEF FormatWord
    <3>5. Under(k, s, m) = MakeMask(k.version, function[k], s, m, k.level)
      BY <2>2 DEF Under
    <3> HIDE DEF w, cells, word
    <3>6. QED
      BY <3>1, <3>2, <3>3, <3>4, <3>5 DEF MakeMask
  <2>3. QED
    BY <2>1, <2>2
<1>4. copies(0..14) = CopiesOf(k, 0..14) /\ copies(word) = CopiesOf(k, word)
  BY <1>1, <1>2
<1> DEFINE a == Apply({c \in Cells(w) : Inverts(k, m, c)}, function[k], s, w)
<1>5. WriteFormat(a, cells, word) = (a \ copies(0..14)) \union copies(word)
  BY DEF WriteFormat
<1> HIDE DEF a, cells, word, copies
<1>6. Under(k, s, m) = (a \ CopiesOf(k, 0..14)) \union CopiesOf(k, word)
  BY <1>3, <1>4, <1>5 DEF a
<1>7. QED
  BY <1>1, <1>6 DEF a, word

\* The format information is that of the mask, other function cells are as they were,
\* and the mask inverts where it should.
LEMMA MaskShows ==
  ASSUME NEW k \in Kinds, NEW m \in MasksOf(k), NEW s
  PROVE  LET f == Under(k, s, m)
         IN  /\ \A i \in 0..14 : \A n \in DOMAIN FormatOf(k, i) :
                  FormatOf(k, i)[n] \in f <=> i \in FormatWord(k, m)
             /\ \A c \in function[k] \ CopiesOf(k, 0..14) : c \in f <=> c \in s
             /\ \A c \in Free(k) : c \in f <=> (c \in s) # Inverts(k, m, c)
<1> DEFINE w == SymbolWidth(k)
           f == Under(k, s, m)
           word == FormatWord(k, m)
           copies == CopiesOf(k, 0..14)
           set == CopiesOf(k, word)
           inverted == {c \in Cells(w) : Inverts(k, m, c)}
           a == Apply(inverted, function[k], s, w)
<1>1. word \subseteq 0..14 /\ f = (a \ copies) \union set
  BY UnderIs
<1>2. /\ copies \subseteq function[k]
      /\ \A i, j \in 0..14 : \A n \in DOMAIN FormatOf(k, i), p \in DOMAIN FormatOf(k, j) :
              FormatOf(k, i)[n] = FormatOf(k, j)[p] => i = j
  BY FormatIs
<1>3. function[k] \subseteq Cells(w)
  BY FrameIs
<1>4. set \subseteq copies
  BY <1>1 DEF CopiesOf
<1>5. \A c \in Cells(w) : Inverts(k, m, c) \in BOOLEAN /\ (c \in inverted <=> Inverts(k, m, c))
  BY InvertsIs
<1>6. \A c \in Cells(w) : c \in a <=> IF c \in function[k] THEN c \in s ELSE (c \in s) # (c \in inverted)
  BY DEF Apply
<1>7. ASSUME NEW i \in 0..14, NEW n \in DOMAIN FormatOf(k, i)
      PROVE  FormatOf(k, i)[n] \in f <=> i \in word
  <2> DEFINE c == FormatOf(k, i)[n]
  <2>1. c \in copies
    BY DEF CopiesOf
  <2>2. c \in set <=> i \in word
    <3>1. i \in word => c \in set
      BY DEF CopiesOf
    <3>2. ASSUME c \in set PROVE i \in word
      <4> HIDE DEF word
      <4>1. PICK j \in word : \E p \in DOMAIN FormatOf(k, j) : c = FormatOf(k, j)[p]
        BY <3>2 DEF CopiesOf
      <4>2. PICK p \in DOMAIN FormatOf(k, j) : c = FormatOf(k, j)[p]
        BY <4>1
      <4>3. j \in 0..14
        BY <1>1
      <4>4. i = j
        BY <1>2, <4>2, <4>3
      <4>5. QED
        BY <4>4
    <3>3. QED
      BY <3>1, <3>2
  <2> HIDE DEF c, f, a, copies, set, word
  <2>3. c \in f <=> i \in word
    BY <1>1, <2>1, <2>2
  <2>4. QED
    BY <2>3 DEF c
<1> HIDE DEF f, a, copies, set, inverted
<1>8. ASSUME NEW c \in function[k] \ copies PROVE c \in f <=> c \in s
  BY <1>1, <1>3, <1>4, <1>6
<1>9. ASSUME NEW c \in Free(k) PROVE c \in f <=> (c \in s) # Inverts(k, m, c)
  <2>1. c \in Cells(w) /\ c \notin function[k] /\ c \notin copies /\ c \notin set
    BY <1>2, <1>4 DEF Free
  <2>2. c \in f <=> (c \in s) # (c \in inverted)
    BY <1>1, <1>6, <2>1
  <2>3. QED
    BY <1>5, <2>1, <2>2
<1>10. QED
  BY <1>7, <1>8, <1>9 DEF f, word, copies

-----------------------------------------------------------------------------
(* What is returned can be read.                                           *)

\* The inductive invariant.  The symbol is the frame and the bits laid; the best mask so
\* far is one there is, and its symbol is the symbol under it.
Chosen ==
  /\ pc \in {"mask", "judge", "done"} =>
       symbol = {c \in function[kind] : frames[kind][c]} \union {c \in DOMAIN placed : Dark(placed[c])}
  /\ pc = "judge" => tried \in MasksOf(kind) /\ masked = Under(kind, symbol, tried)
  /\ bestMask # NoMask => /\ bestMask.mask \in MasksOf(kind)
                          /\ bestMask.symbol = Under(kind, symbol, bestMask.mask)
  /\ pc \in {"generator", "encode", "fill"} => bestMask = NoMask
  /\ pc = "done" => bestMask # NoMask

LEMMA ChosenStep ==
  ASSUME Chosen, [Next]_vars
  PROVE  Chosen'
<1>1. CASE FormGenerator
  <2>1. pc = "generator" /\ pc' \in {"generator", "encode", "null"} /\ bestMask' = bestMask
    BY <1>1 DEF FormGenerator, mask
  <2>2. QED
    BY <2>1 DEF Chosen
<1>2. CASE Encode
  <2>1. pc = "encode" /\ pc' \in {"encode", "fill"} /\ bestMask' = bestMask
    BY <1>2 DEF Encode, mask
  <2>2. QED
    BY <2>1 DEF Chosen
<1>3. CASE LayBit
  <2>1. pc = "fill" /\ pc' \in {"fill", "null"} /\ bestMask' = bestMask
    BY <1>3 DEF LayBit, mask
  <2>2. QED
    BY <2>1 DEF Chosen
<1>4. CASE EndFill
  <2>1. /\ pc = "fill" /\ pc' = "mask" /\ bestMask' = bestMask
        /\ UNCHANGED <<kind, datacode, ecccode, placed>>
        /\ symbol' = {c \in function[kind] : frames[kind][c]}
                     \union {c \in DOMAIN placed : Dark(placed[c])}
    BY <1>4 DEF EndFill, mask, rs
  <2>2. QED
    BY <2>1 DEF Chosen, Dark
<1>5. CASE TryMask
  <2>1. /\ pc = "mask" /\ pc' = "judge" /\ tried \in MasksOf(kind)
        /\ masked' = Under(kind, symbol, tried)
        /\ UNCHANGED <<kind, datacode, ecccode, placed, symbol, tried, bestMask>>
    BY <1>5 DEF TryMask, MasksOf, Under, rs, lay
  <2>2. QED
    BY <2>1 DEF Chosen, Dark, MasksOf, Under
<1>6. CASE Judge
  <2>1. /\ pc = "judge" /\ pc' = "mask"
        /\ bestMask' = bestMask \/ bestMask' = [mask |-> tried, symbol |-> masked]
        /\ UNCHANGED <<kind, datacode, ecccode, placed, symbol>>
    BY <1>6 DEF Judge, rs, lay
  <2>2. bestMask' # NoMask => /\ bestMask'.mask \in MasksOf(kind)
                              /\ bestMask'.symbol = Under(kind, symbol, bestMask'.mask)
    BY <2>1 DEF Chosen
  <2>3. QED
    BY <2>1, <2>2 DEF Chosen, Dark, MasksOf, Under
<1>7. CASE Return
  <2>1. /\ pc = "mask" /\ pc' = IF bestMask = NoMask THEN "null" ELSE "done"
        /\ UNCHANGED <<kind, datacode, ecccode, placed, symbol, bestMask>>
    BY <1>7 DEF Return, rs, lay, mask
  <2>2. QED
    BY <2>1 DEF Chosen, Dark, MasksOf, Under
<1>8. CASE UNCHANGED vars
  BY <1>8 DEF vars, rs, lay, mask, Chosen, Dark, MasksOf, Under
<1>9. QED
  BY <1>1, <1>2, <1>3, <1>4, <1>5, <1>6, <1>7, <1>8 DEF Next

\* The patterns of the frame are in the symbol returned, and so is every bit laid.
LEMMA ChosenShows ==
  ASSUME kind \in Kinds, Laying, Chosen, pc = "done"
  PROVE  LET f == bestMask.symbol
             m == bestMask.mask
         IN  /\ m \in MasksOf(kind)
             /\ \A c \in function[kind] \ CopiesOf(kind, 0..14) : c \in f <=> frames[kind][c]
             /\ \A i \in 0..14 : \A n \in DOMAIN FormatOf(kind, i) :
                  FormatOf(kind, i)[n] \in f <=> i \in FormatWord(kind, m)
             /\ \A c \in DOMAIN placed : c \in f <=> (Dark(placed[c]) # Inverts(kind, m, c))
<1> DEFINE f == bestMask.symbol
           m == bestMask.mask
<1>1. m \in MasksOf(kind) /\ f = Under(kind, symbol, m)
  BY DEF Chosen
<1>2. symbol = {c \in function[kind] : frames[kind][c]} \union {c \in DOMAIN placed : Dark(placed[c])}
  BY DEF Chosen
<1>3. DOMAIN placed \subseteq Free(kind)
  BY DEF Laying
<1> HIDE DEF f, m
<1>4. /\ \A i \in 0..14 : \A n \in DOMAIN FormatOf(kind, i) :
           FormatOf(kind, i)[n] \in f <=> i \in FormatWord(kind, m)
      /\ \A c \in function[kind] \ CopiesOf(kind, 0..14) : c \in f <=> c \in symbol
      /\ \A c \in Free(kind) : c \in f <=> (c \in symbol) # Inverts(kind, m, c)
  BY <1>1, MaskShows
<1>5. ASSUME NEW c \in function[kind] PROVE c \in symbol <=> frames[kind][c]
  <2>1. c \notin DOMAIN placed
    BY <1>3 DEF Free
  <2>2. QED
    BY <1>2, <2>1
<1>6. ASSUME NEW c \in DOMAIN placed PROVE c \in f <=> (Dark(placed[c]) # Inverts(kind, m, c))
  <2>1. c \in Free(kind) /\ c \notin function[kind]
    BY <1>3 DEF Free
  <2>2. c \in symbol <=> Dark(placed[c])
    BY <1>2, <2>1
  <2>3. (c \in symbol) = Dark(placed[c])
    <3>1. Dark(placed[c]) \in BOOLEAN
      BY Zenon DEF Dark
    <3>2. QED
      BY <2>2, <3>1
  <2>4. QED
    BY <1>4, <2>1, <2>3
<1>7. QED
  BY <1>1, <1>4, <1>5, <1>6 DEF f, m

LEMMA ChosenReadable ==
  ASSUME kind \in Kinds, Laying, Chosen
  PROVE  Readable
<1> SUFFICES ASSUME pc = "done" PROVE Readable
  BY DEF Readable
<1> DEFINE k == kind
           v == kind.version
           w == SymbolWidth(kind)
           f == bestMask.symbol
           m == bestMask.mask
           line == IF kind.mqr THEN 0 ELSE 6
           last == w - IF kind.mqr THEN 1 ELSE 9
<1>1. k.mqr \in BOOLEAN /\ v \in IF k.mqr THEN MVersions ELSE Versions
  BY KindsAssumption
<1>2. /\ m \in MasksOf(k)
      /\ \A c \in function[k] \ CopiesOf(k, 0..14) : c \in f <=> frames[k][c]
      /\ \A i \in 0..14 : \A n \in DOMAIN FormatOf(k, i) : FormatOf(k, i)[n] \in f <=> i \in FormatWord(k, m)
      /\ \A c \in DOMAIN placed : c \in f <=> (Dark(placed[c]) # Inverts(k, m, c))
  BY ChosenShows
<1>3. CopiesOf(k, 0..14) = IF k.mqr THEN DOMAIN MFormatArea
                           ELSE DOMAIN FormatArea(w) \ {<<6, 8>>, <<8, 6>>}
  BY FormatIs
<1> HIDE DEF f, m
<1>4. k.mqr => /\ v \in MVersions /\ w = MWidth(v) /\ frames[k] = MFrame(v) /\ function[k] = DOMAIN MFrame(v)
               /\ CopiesOf(k, 0..14) = DOMAIN MFormatArea
  BY <1>1, <1>3 DEF SymbolWidth, function, frames
<1>5. ~k.mqr => /\ v \in Versions /\ w = Width(v) /\ frames[k] = Frame(v) /\ function[k] = DOMAIN Frame(v)
                /\ CopiesOf(k, 0..14) = DOMAIN FormatArea(w) \ {<<6, 8>>, <<8, 6>>}
  BY <1>1, <1>3 DEF SymbolWidth, function, frames
<1> HIDE DEF v, w
<1>6. \A p \in Finders(w) : \A c \in Block(p[1], p[2], 7, 7) :
        (c \in f) <=> Ring(<<p[1] + 3, p[2] + 3>>, c) # 2
  <2>1. ASSUME k.mqr, NEW p \in Finders(w), NEW c \in Block(p[1], p[2], 7, 7)
        PROVE  (c \in f) <=> Ring(<<p[1] + 3, p[2] + 3>>, c) # 2
    <3>1. p = <<0, 0>>
      BY <2>1 DEF Finders
    <3>2. c \in Block(0, 0, 7, 7) /\ <<p[1] + 3, p[2] + 3>> = <<3, 3>>
      BY <3>1
    <3>3. PICK x \in Int, y \in Int : c = <<x, y>>
      BY <3>2 DEF Block
    <3>4. 0 <= x /\ x < 7 /\ 0 <= y /\ y < 7
      <4>1. <<x, y>> \in Block(0, 0, 7, 7)
        BY <3>2, <3>3
      <4>2. \A a, b \in Nat : <<x, y>> \in Block(0, 0, a, b) <=> 0 <= x /\ x < 0 + a /\ 0 <= y /\ y < 0 + b
        <5>1. 0 \in Int
          OBVIOUS
        <5>2. QED
          BY <5>1, BlockAt, Zenon
      <4>3. QED
        BY <4>1, <4>2
    <3>5. /\ <<x, y>> \in DOMAIN MFrame(v)
          /\ MFrame(v)[<<x, y>>] <=> Ring(<<3, 3>>, <<x, y>>) # 2
          /\ <<x, y>> \notin DOMAIN MFormatArea
      BY <1>4, <2>1, <3>4, MFrameAt
    <3>6. QED
      BY <1>2, <1>4, <2>1, <3>2, <3>3, <3>5
  <2>2. ASSUME ~k.mqr, NEW p \in Finders(w), NEW c \in Block(p[1], p[2], 7, 7)
        PROVE  (c \in f) <=> Ring(<<p[1] + 3, p[2] + 3>>, c) # 2
    <3>1. p \in {<<0, 0>>, <<w - 7, 0>>, <<0, w - 7>>}
      BY <2>2 DEF Finders
    <3>2. /\ c \in DOMAIN Frame(v) /\ (Frame(v)[c] <=> Ring(<<p[1] + 3, p[2] + 3>>, c) # 2)
          /\ c \notin DOMAIN FormatArea(w)
      <4>1. v \in Versions /\ w = Width(v) /\ c \in Block(p[1], p[2], 7, 7)
        BY <1>5, <2>2
      <4>2. QED
        BY ONLY <3>1, <4>1, FindersShow, ZenonT(60)
    <3>3. c \in f <=> Frame(v)[c]
      BY <1>2, <1>5, <2>2, <3>2
    <3>4. QED
      BY <3>2, <3>3
  <2>3. QED
    BY <1>1, <2>1, <2>2
<1>7. \A i \in 8 .. last : ((<<i, line>> \in f) <=> i % 2 = 0) /\ ((<<line, i>> \in f) <=> i % 2 = 0)
  <2>1. ASSUME k.mqr, NEW i \in 8 .. w - 1, NEW x \in Int, NEW y \in Int, (x = i /\ y = 0) \/ (x = 0 /\ y = i)
        PROVE  (<<x, y>> \in f) <=> i % 2 = 0
    <3> DEFINE t == TimingPattern(8, w - 1, 0)
               c == <<x, y>>
    <3>1. /\ w \in {11, 13, 15, 17}
          /\ c \in DOMAIN t <=> \/ 8 <= x /\ x < w /\ y = 0
                                \/ 8 <= y /\ y < w /\ x = 0
          /\ c \in DOMAIN t => (t[c] <=> (x + y) % 2 = 0)
          /\ c \in DOMAIN MFormatArea <=> \/ 1 <= x /\ x < 9 /\ y = 8
                                          \/ x = 8 /\ 1 <= y /\ y < 8
          /\ c \in DOMAIN t => c \in DOMAIN MFrame(v) /\ MFrame(v)[c] = t[c]
      BY <1>4, <2>1, MFrameAt
    <3> HIDE DEF t, c
    <3>2. c \in DOMAIN t /\ c \notin DOMAIN MFormatArea /\ x + y = i
      BY <2>1, <3>1
    <3>3. c \in DOMAIN MFrame(v) /\ (MFrame(v)[c] <=> i % 2 = 0)
      BY <3>1, <3>2
    <3>4. c \in f <=> i % 2 = 0
      BY <1>2, <1>4, <2>1, <3>2, <3>3
    <3>5. QED
      BY <3>4 DEF c
  <2>2. ASSUME ~k.mqr, NEW i \in 8 .. w - 9, NEW x \in Int, NEW y \in Int, (x = i /\ y = 6) \/ (x = 6 /\ y = i)
        PROVE  (<<x, y>> \in f) <=> i % 2 = 0
    <3> DEFINE c == <<x, y>>
    <3>1. /\ c \in DOMAIN Frame(v) /\ (Frame(v)[c] <=> i % 2 = 0)
          /\ c \notin DOMAIN FormatArea(w) \ {<<6, 8>>, <<8, 6>>}
      BY <1>5, <2>2, TimingShows
    <3> HIDE DEF c
    <3>2. c \in f <=> i % 2 = 0
      BY <1>2, <1>5, <2>2, <3>1
    <3>3. QED
      BY <3>2 DEF c
  <2>3. ASSUME NEW i \in 8 .. last
        PROVE  ((<<i, line>> \in f) <=> i % 2 = 0) /\ ((<<line, i>> \in f) <=> i % 2 = 0)
    <3>1. CASE k.mqr
      BY <2>1, <3>1
    <3>2. CASE ~k.mqr
      BY <2>2, <3>2
    <3>3. QED
      BY <1>1, <3>1, <3>2
  <2>4. QED
    BY <2>3
<1>8. ~k.mqr =>
        \A i \in (IF v < 7 THEN {} ELSE 0..17) :
          /\ (<<i \div 3, w - 11 + (i % 3)>> \in f) <=> i \in VersionPattern(v)
          /\ (<<w - 11 + (i % 3), i \div 3>> \in f) <=> i \in VersionPattern(v)
  <2>1. ASSUME ~k.mqr, ~(v < 7), NEW i \in 0..17, NEW x \in Int, NEW y \in Int,
               \/ x = i \div 3 /\ y = w - 11 + (i % 3)
               \/ x = w - 11 + (i % 3) /\ y = i \div 3
        PROVE  (<<x, y>> \in f) <=> i \in VersionPattern(v)
    <3> DEFINE c == <<x, y>>
    <3>1. v >= 7
      BY <1>5, <2>1 DEF Versions
    <3>2. /\ c \in DOMAIN Frame(v) /\ (Frame(v)[c] <=> i \in VersionPattern(v))
          /\ c \notin DOMAIN FormatArea(w)
      BY <1>5, <2>1, <3>1, VersionShows
    <3> HIDE DEF c
    <3>3. c \in f <=> i \in VersionPattern(v)
      BY <1>2, <1>5, <2>1, <3>2
    <3>4. QED
      BY <3>3 DEF c
  <2>2. ASSUME ~k.mqr, ~(v < 7), NEW i \in 0..17
        PROVE  /\ (<<i \div 3, w - 11 + (i % 3)>> \in f) <=> i \in VersionPattern(v)
               /\ (<<w - 11 + (i % 3), i \div 3>> \in f) <=> i \in VersionPattern(v)
    <3> DEFINE x == i \div 3
               y == w - 11 + (i % 3)
    <3>1. x \in Int /\ y \in Int
      <4>1. w \in Int
        BY <1>5, <2>2 DEF Width, Versions, VersionMax
      <4>2. i \div 3 \in 0..5 /\ i % 3 \in 0..2
        BY ThirdsOf
      <4>3. QED
        BY <4>1, <4>2
    <3>2. x = i \div 3 /\ y = w - 11 + (i % 3)
      OBVIOUS
    <3> HIDE DEF x, y
    <3>3. ((<<x, y>> \in f) <=> i \in VersionPattern(v)) /\ ((<<y, x>> \in f) <=> i \in VersionPattern(v))
      BY <2>1, <2>2, <3>1, <3>2
    <3>4. QED
      BY <3>3 DEF x, y
  <2>3. QED
    BY <2>2
<1> DEFINE cells(i) == IF k.mqr THEN MFormatCells(w, i) ELSE FormatCells(w, i)
           word == IF k.mqr THEN MFormatInfo(m, v, k.level) ELSE FormatInfo(m, k.level)
<1>9. \A i : cells(i) = FormatOf(k, i)
  BY DEF FormatOf, w
<1>10. word = FormatWord(k, m)
  BY DEF FormatWord, v
<1>11. UNION {{cells(i)[n] : n \in DOMAIN cells(i)} : i \in 0..14}
         = IF k.mqr THEN DOMAIN MFormatArea ELSE DOMAIN FormatArea(w) \ {<<6, 8>>, <<8, 6>>}
  BY <1>3, <1>9 DEF CopiesOf
<1>12. \A i \in 0..14 : \A n \in DOMAIN cells(i) : (cells(i)[n] \in f) <=> i \in word
  BY <1>2, <1>9, <1>10
<1>13. \A c \in DOMAIN placed :
         (c \in f) <=> (Dark(placed[c]) # IF k.mqr THEN MMaskBit(m, c) ELSE MaskBit(m, c))
  BY <1>2 DEF Inverts
<1> HIDE DEF cells, word, line, last
<1>14. QED
  BY <1>6, <1>7, <1>8, <1>11, <1>12, <1>13 DEF Readable, cells, word, line, last, v, w, f, m

\* For every version, level and content: the symbol returned has the finder and timing
\* patterns, both copies of the version, the format information in all copies, and every
\* bit laid under the mask the format information names.
THEOREM SymbolReadable == Spec => []Readable
<1> DEFINE Making == Path /\ Laying /\ Full /\ Chosen
<1>1. Init => Making
  <2> SUFFICES ASSUME Init PROVE Making
    OBVIOUS
  <2>1. Path /\ Laying /\ Full
    BY KindsAssumption, PathInit, LayingInit DEF Init, Full
  <2>2. Chosen
    BY DEF Init, Chosen
  <2>3. QED
    BY <2>1, <2>2
<1>2. Making /\ [Next]_vars => Making'
  BY KindsAssumption, PathStep, FullStep, ChosenStep
<1>3. Making => Readable
  BY ChosenReadable DEF Path
<1>4. QED
  BY <1>1, <1>2, <1>3, PTL DEF Spec
=============================================================================
