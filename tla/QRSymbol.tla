------------------------------ MODULE QRSymbol ------------------------------
(***************************************************************************)
(* From a byte stream to a symbol (qrcodeencode.c): the stream is cut into *)
(* Reed-Solomon blocks (QRraw_new), every block is encoded, a symbol at a  *)
(* time, the codewords of the blocks are interleaved (QRraw_getCode) and   *)
(* laid bit by bit along the zigzag of FrameFiller_next, then the best mask*)
(* is chosen (Mask_mask).  Micro QR does the same with one block.          *)
(***************************************************************************)
EXTENDS Integers, Sequences, FiniteSets, QRReedSolomon, QRMask

CONSTANTS Kinds,     \* the symbols made: [mqr, version, level]
          Payloads   \* byte sequences; a stream repeats one of them

ASSUME KindsAssumption ==
  \A k \in Kinds : /\ k.mqr \in BOOLEAN
                   /\ k.version \in IF k.mqr THEN MVersions ELSE Versions
                   /\ k.level \in Levels
                   \* QRinput_newMQR makes no input for a level its version has not
                   /\ k.mqr => MECCLength(k.version, k.level) # 0

ASSUME PayloadsAssumption == Payloads \subseteq Seq(Symbols) \ {<< >>}

VARIABLES kind,      \* the symbol under construction
          datacode,  \* the byte stream
          gen,       \* the generator polynomial, factor by factor
          fed,       \* data symbols of the current block already encoded
          parity,    \* the parity of the current block so far
          ecccode,   \* the parities of the blocks done
          filler,    \* FrameFiller: [x, y, dir, bit]
          count,     \* codewords laid
          bit,       \* the next bit of the current codeword, 7 down to 0
          placed,    \* cell -> the bit laid there: <<codeword, bit>>
          symbol,    \* the dark cells of the full frame, once the last bit is laid
          tried,     \* the mask being tried
          masked,    \* the symbol under that mask
          bestMask,  \* [mask, symbol] of the best so far, NoMask when there is none
          mark,      \* minDemerit, or maxScore in Micro QR
          pc

rs   == <<gen, fed, parity, ecccode>>
lay  == <<filler, count, bit, placed, symbol>>
mask == <<tried, masked, bestMask, mark>>
vars == <<kind, datacode, rs, lay, mask, pc>>

NoMask == [mask |-> -1, symbol |-> {}]

SymbolWidth(k) == IF k.mqr THEN MWidth(k.version) ELSE Width(k.version)

frames == [k \in Kinds |-> IF k.mqr THEN MFrame(k.version) ELSE Frame(k.version)]

function == [k \in Kinds |-> DOMAIN frames[k]]

\* The free cells of a frame are as many as there are bits to lay, the two cells
\* where the filler starts are among them, and the cells it jumps over are not.
Layable(w, cells, jumped, bits) ==
  /\ jumped \subseteq cells /\ cells \subseteq Cells(w)
  /\ {<<w - 1, w - 1>>, <<w - 1, w - 2>>} \intersect cells = {}
  /\ Cardinality(Cells(w) \ cells) = bits

\* The capacity tables agree with the frames of all versions there are.
ASSUME FramesAssumption ==
  /\ \A v \in Versions :
       LET cells == DOMAIN Frame(v)
       IN  Layable(Width(v), cells, Block(6, 0, 1, Width(v)) \union Block(4, 0, 2, 9),
                   8 * capacityWords[v] + Remainder(v))
  /\ \A v \in MVersions :
       LET cells == DOMAIN MFrame(v)
       IN  Layable(MWidth(v), cells, Block(0, 0, 1, MWidth(v)),
                   (MWidth(v) - 1) * (MWidth(v) - 1) - 64)

(***************************************************************************)
(* Blocks.                                                                 *)
(***************************************************************************)
DataLen(k) == IF k.mqr THEN MDataLength(k.version, k.level) ELSE DataLength(k.version, k.level)
EccLen(k)  == IF k.mqr THEN MECCLength(k.version, k.level) ELSE ECCLength(k.version, k.level)
Spec5(k)   == IF k.mqr THEN [b1 |-> 1, d1 |-> DataLen(k), e |-> EccLen(k), b2 |-> 0, d2 |-> 0]
                       ELSE EccSpec(k.version, k.level)
EccPerBlock(k) == Spec5(k).e
Blocks(k)  == Spec5(k).b1 + Spec5(k).b2
OddBits(k) == IF k.mqr THEN 8 * DataLen(k) - MDataLengthBit(k.version, k.level) ELSE 0

\* The ECC lengths of all blocks there are.
EccLengths == {EccSpec(v, l).e : v \in Versions, l \in Levels}
              \union {MECCLength(v, l) : v \in MVersions, l \in Levels}

\* encode_rs_char takes the index of a coefficient of the generator for that of a
\* symbol that is not zero: none is zero, for the field and the tables there are.
ASSUME GeneratorAssumption ==
  \A n \in EccLengths : \A j \in 1..(n + 1) : Generator[n][j] # {}

\* Where RSblock_init starts block r (from 0) in the data, and its length.
BlockLength(k, r) == IF r < Spec5(k).b1 THEN Spec5(k).d1 ELSE Spec5(k).d2
BlockStart(k, r)  == LET s == Spec5(k) IN
                     IF r < s.b1 THEN r * s.d1 ELSE s.b1 * s.d1 + (r - s.b1) * s.d2

\* The last data codewords are taken from the short blocks.
Code_NoLongRow(k, i) ==
  LET n == Blocks(k)
      j == i - DataLen(k)
  IN  IF i < DataLen(k)
      THEN [part |-> "data", col |-> i \div n, row |-> i % n]
      ELSE [part |-> "ecc", col |-> j \div n, row |-> j % n]

\* QRraw_getCode: the codeword number i, as [part, row, col].
Code(k, i) ==
  LET n == Blocks(k)
      j == i - DataLen(k)
  IN  IF i < DataLen(k)
      THEN [part |-> "data", col |-> i \div n,
            row |-> (i % n) + IF i \div n >= Spec5(k).d1 THEN Spec5(k).b1 ELSE 0]
      ELSE [part |-> "ecc", col |-> j \div n, row |-> j % n]

\* The first bit of codeword i: the half codeword of Micro QR is in the low bits.
FirstBit(k, i) == IF OddBits(k) # 0 /\ i = DataLen(k) - 1 THEN OddBits(k) - 1 ELSE 7

\* The vertical timing pattern is taken for a column of data.
Turn_NoSkip(f, w, mqr) ==
  LET x1   == IF f.bit = 0 THEN f.x - 1 ELSE f.x + 1
      y1   == IF f.bit = 0 THEN f.y ELSE f.y + f.dir
      ends == (f.dir < 0 /\ y1 < 0) \/ (f.dir > 0 /\ y1 = w)
      x2   == IF ends THEN x1 - 2 ELSE x1
  IN  IF f.bit = -1 THEN [f EXCEPT !.bit = 0]
      ELSE [x   |-> x2,
            y   |-> IF ~ends THEN y1 ELSE IF f.dir < 0 THEN 0 ELSE w - 1,
            dir |-> IF ends THEN -f.dir ELSE f.dir,
            bit |-> 1 - f.bit]

(***************************************************************************)
(* One turn of FrameFiller_next.                                           *)
(***************************************************************************)
Turn(f, w, mqr) ==
  LET x1   == IF f.bit = 0 THEN f.x - 1 ELSE f.x + 1
      y1   == IF f.bit = 0 THEN f.y ELSE f.y + f.dir
      ends == (f.dir < 0 /\ y1 < 0) \/ (f.dir > 0 /\ y1 = w)
      x2   == IF ends THEN x1 - 2 ELSE x1
      skip == ends /\ ~mqr /\ x2 = 6     \* the vertical timing pattern
  IN  IF f.bit = -1 THEN [f EXCEPT !.bit = 0]
      ELSE [x   |-> IF skip THEN 5 ELSE x2,
            y   |-> IF ~ends THEN y1
                    ELSE IF f.dir < 0 THEN (IF skip THEN 9 ELSE 0)
                                      ELSE (IF skip THEN w - 9 ELSE w - 1),
            dir |-> IF ends THEN -f.dir ELSE f.dir,
            bit |-> 1 - f.bit]

Cell(f) == <<f.x, f.y>>

(***************************************************************************)
(* Init and the actions.                                                   *)
(***************************************************************************)
Stream(k, p) ==
  [i \in 1..DataLen(k) |->
     LET byte == p[((i - 1) % Len(p)) + 1]
     IN  IF i = DataLen(k) /\ OddBits(k) # 0 THEN byte \intersect 0..(OddBits(k) - 1) ELSE byte]

Zeros(k) == [i \in 1..EccPerBlock(k) |-> {}]

Init == /\ kind \in Kinds
        /\ datacode \in {Stream(kind, p) : p \in Payloads}
        /\ gen = <<{0}>> /\ fed = 0 /\ parity = Zeros(kind) /\ ecccode = << >>
        /\ filler = [x |-> SymbolWidth(kind) - 1, y |-> SymbolWidth(kind) - 1,
                     dir |-> -1, bit |-> -1]
        /\ count = 0 /\ bit = FirstBit(kind, 0) /\ placed = << >>
        /\ symbol = {} /\ tried = 0 /\ masked = {} /\ bestMask = NoMask /\ mark = 0
        /\ pc = "generator"

FormGenerator ==
  /\ pc = "generator"
  /\ IF Len(gen) <= EccPerBlock(kind)
     THEN gen' = TimesFactor(gen, (Fcr + Len(gen) - 1) * Prim) /\ UNCHANGED pc
     ELSE UNCHANGED gen
          /\ pc' = IF \A d \in {Spec5(kind).d1, Spec5(kind).d2} \ {0} :
                        RsAccepted(EccPerBlock(kind), NN - d - EccPerBlock(kind))
                   THEN "encode" ELSE "null"
  /\ UNCHANGED <<kind, datacode, fed, parity, ecccode, lay, mask>>

Encode ==
  LET r    == Len(ecccode)
      next == EncodeSymbol(gen, parity, datacode[BlockStart(kind, r) + fed + 1])
  IN  /\ pc = "encode"
      /\ IF fed + 1 < BlockLength(kind, r)
         THEN fed' = fed + 1 /\ parity' = next /\ UNCHANGED <<ecccode, pc>>
         ELSE /\ fed' = 0 /\ parity' = Zeros(kind)
              /\ ecccode' = Append(ecccode, next)
              /\ pc' = IF r + 1 = Blocks(kind) THEN "fill" ELSE pc
      /\ UNCHANGED <<kind, datacode, gen, lay, mask>>

Total(k) == DataLen(k) + EccLen(k)
Rest(k)  == IF k.mqr THEN 0 ELSE Remainder(k.version)

Filled == count = Total(kind) + Rest(kind)

\* One turn: out of the frame FrameFiller_next returns NULL, and no symbol is
\* made; over a function cell it goes on (the first call does not look); at a
\* free cell the bit is laid.
LayBit ==
  LET f    == Turn(filler, SymbolWidth(kind), kind.mqr)
      out  == f.x < 0 \/ f.y < 0
      skip == filler.bit # -1 /\ Cell(f) \in function[kind]
      last == bit = 0 \/ count >= Total(kind)
  IN  /\ pc = "fill" /\ ~Filled
      /\ pc' = IF out THEN "null" ELSE pc
      /\ filler' = IF out THEN filler ELSE f
      /\ placed' = IF out \/ skip THEN placed
                   ELSE [c \in DOMAIN placed \union {Cell(f)} |->
                           IF c = Cell(f) THEN <<count, bit>> ELSE placed[c]]
      /\ count' = IF ~out /\ ~skip /\ last THEN count + 1 ELSE count
      /\ bit' = IF out \/ skip THEN bit
                ELSE IF last THEN FirstBit(kind, count + 1) ELSE bit - 1
      /\ UNCHANGED <<kind, datacode, rs, symbol, mask>>

\* Whether the bit laid is set; the remainder bits are not.
Dark(b) ==
  LET code == Code(kind, b[1]) IN
  /\ b[1] < Total(kind)
  /\ b[2] \in IF code.part = "data" THEN datacode[BlockStart(kind, code.row) + code.col + 1]
                                    ELSE ecccode[code.row + 1][code.col + 1]

EndFill == /\ pc = "fill" /\ Filled
           /\ symbol' = {c \in function[kind] : frames[kind][c]}
                        \union {c \in DOMAIN placed : Dark(placed[c])}
           /\ pc' = "mask"
           /\ UNCHANGED <<kind, datacode, rs, filler, count, bit, placed, mask>>

(***************************************************************************)
(* Masks: a turn of the loop of Mask_mask or MMask_mask makes the masked   *)
(* symbol, then judges it.                                                 *)
(***************************************************************************)
TryMask ==
  /\ pc = "mask" /\ tried \in IF kind.mqr THEN MMasks ELSE Masks
  /\ masked' = IF kind.mqr
               THEN MMakeMask(kind.version, function[kind], symbol, tried, kind.level)
               ELSE MakeMask(kind.version, function[kind], symbol, tried, kind.level)
  /\ pc' = "judge"
  /\ UNCHANGED <<kind, datacode, rs, lay, tried, bestMask, mark>>

\* The least demerit, the first of equals; in Micro QR the greatest score
\* above zero.
Judge ==
  LET value  == IF kind.mqr THEN Score(MWidth(kind.version), masked)
                            ELSE Demerit(Width(kind.version), masked)
      better == IF kind.mqr THEN value > mark ELSE bestMask = NoMask \/ value < mark
  IN  /\ pc = "judge"
      /\ bestMask' = IF better THEN [mask |-> tried, symbol |-> masked] ELSE bestMask
      /\ mark' = IF better THEN value ELSE mark
      /\ tried' = tried + 1 /\ pc' = "mask"
      /\ UNCHANGED <<kind, datacode, rs, lay, masked>>

Return == /\ pc = "mask" /\ tried \notin IF kind.mqr THEN MMasks ELSE Masks
          /\ pc' = IF bestMask = NoMask THEN "null" ELSE "done"
          /\ UNCHANGED <<kind, datacode, rs, lay, mask>>

Next == FormGenerator \/ Encode \/ LayBit \/ EndFill \/ TryMask \/ Judge \/ Return

Spec == Init /\ [][Next]_vars

(***************************************************************************)
(* Properties.                                                             *)
(***************************************************************************)
DataOf(r) == SubSeq(datacode, BlockStart(kind, r) + 1,
                    BlockStart(kind, r) + BlockLength(kind, r))

\* What encode_rs_char has made at every turn, the data fed and the parity, is
\* a word of the code: it vanishes at every root of the generator.  A block
\* that is done keeps this, and is what a reader corrects errors with.
BlocksAreCodewords ==
  /\ pc = "encode" =>
       LET start == BlockStart(kind, Len(ecccode))
       IN  IsCodeword(SubSeq(datacode, start + 1, start + fed) \o parity, EccPerBlock(kind))
  /\ pc \in {"encode", "fill"} /\ ecccode # << >> /\ fed = 0 /\ count = 0 =>
       IsCodeword(DataOf(Len(ecccode) - 1) \o ecccode[Len(ecccode)], EccPerBlock(kind))

\* The order in which a reader takes the cells: pairs of columns from the right
\* (the vertical timing pattern is no column), up and down in turn, the right
\* cell of a row before the left one.
ReadingRank(c) ==
  LET w    == SymbolWidth(kind)
      x    == IF ~kind.mqr /\ c[1] < 6 THEN c[1] + 1 ELSE c[1]
      pair == (w - 1 - x) \div 2
      row  == IF pair % 2 = 0 THEN w - 1 - c[2] ELSE c[2]
  IN  (pair * w + row) * 2 + ((w - 1 - x) % 2)

\* FrameFiller_next moves in the order of a reader, and never returns a function
\* cell or a cell twice.
LaidInReadingOrder ==
  [][filler' # filler /\ filler.bit # -1 =>
       /\ ReadingRank(Cell(filler')) > ReadingRank(Cell(filler))
       /\ placed' # placed => /\ Cell(filler') \notin function[kind]
                              /\ Cell(filler') \notin DOMAIN placed]_vars

\* When the frame is full no cell is left free, and every bit of every data
\* and error correction codeword of every block has been laid: the capacity
\* table, the block table, the interleaving and the frame agree.
EveryBitLaid ==
  pc = "mask" /\ tried = 0 =>
    LET range  == {placed[c] : c \in DOMAIN placed}
        code   == [i \in 0..(Total(kind) - 1) |-> Code(kind, i)]
        laid   == {<<code[b[1]], b[2]>> : b \in {b \in range : b[1] < Total(kind)}}
        block(r) ==
          {[part |-> "data", row |-> r, col |-> n] : n \in 0..(BlockLength(kind, r) - 1)}
          \union {[part |-> "ecc", row |-> r, col |-> n] : n \in 0..(EccPerBlock(kind) - 1)}
        half(c) == c.part = "data" /\ c.col = DataLen(kind) - 1 /\ OddBits(kind) # 0
    IN  /\ DOMAIN placed = Cells(SymbolWidth(kind)) \ function[kind]
        /\ laid = UNION {{c} \X (0..IF half(c) THEN OddBits(kind) - 1 ELSE 7) :
                           c \in UNION {block(r) : r \in 0..(Blocks(kind) - 1)}}

\* Where the finder patterns are.
Finders(w) == IF kind.mqr THEN {<<0, 0>>} ELSE {<<0, 0>>, <<w - 7, 0>>, <<0, w - 7>>}

\* What a reader needs is in the symbol returned: the finder patterns, the
\* timing patterns, the version and the format information in all their
\* copies (which leave no cell of their area out), and, under the mask that the
\* format names, every bit laid (createFrame, writeFormatInformation, makeMask).
Readable ==
  pc = "done" =>
    LET w      == SymbolWidth(kind)
        line   == IF kind.mqr THEN 0 ELSE 6
        best   == bestMask.mask
        final  == bestMask.symbol
        word   == IF kind.mqr THEN MFormatInfo(best, kind.version, kind.level)
                              ELSE FormatInfo(best, kind.level)
        cells(i) == IF kind.mqr THEN MFormatCells(w, i) ELSE FormatCells(w, i)
    IN  /\ \A f \in Finders(w) : \A c \in Block(f[1], f[2], 7, 7) :
             (c \in final) <=> Ring(<<f[1] + 3, f[2] + 3>>, c) # 2
        /\ \A i \in 8..(w - IF kind.mqr THEN 1 ELSE 9) :
             /\ (<<i, line>> \in final) <=> i % 2 = 0
             /\ (<<line, i>> \in final) <=> i % 2 = 0
        /\ ~kind.mqr =>
             \A i \in (IF kind.version < 7 THEN {} ELSE 0..17) :
               /\ (<<i \div 3, w - 11 + (i % 3)>> \in final) <=> i \in VersionPattern(kind.version)
               /\ (<<w - 11 + (i % 3), i \div 3>> \in final) <=> i \in VersionPattern(kind.version)
        /\ UNION {{cells(i)[n] : n \in DOMAIN cells(i)} : i \in 0..14}
             = IF kind.mqr THEN DOMAIN MFormatArea ELSE DOMAIN FormatArea(w) \ {<<6, 8>>, <<8, 6>>}
        /\ \A i \in 0..14 : \A n \in DOMAIN cells(i) : (cells(i)[n] \in final) <=> i \in word
        /\ \A c \in DOMAIN placed :
             (c \in final) <=> (Dark(placed[c]) # IF kind.mqr THEN MMaskBit(best, c)
                                                         ELSE MaskBit(best, c))

\* Reference: the demerits of one line, from its cells instead of its runs;
\* beyond the symbol everything is light.
LineDemerit(line) ==
  LET w       == Len(line)
      dark(i) == i \in 1..w /\ line[i]
      five    == {i \in 1..(w - 4) : \A j \in 1..4 : line[i + j] = line[i]}
      first   == {i \in five : i = 1 \/ line[i - 1] # line[i]}
      finder(i, f) ==
        /\ ~dark(i - 1) /\ ~dark(i + 7 * f)
        /\ \A k \in 0..(7 * f - 1) : dark(i + k) <=> (k \div f) \in {0, 2, 3, 4, 6}
        /\ \/ \A k \in 1..(4 * f) : ~dark(i - k)
           \/ \A k \in 1..(4 * f) : ~dark(i + 7 * f - 1 + k)
  IN  Cardinality(five) + 2 * Cardinality(first)
      + 40 * Cardinality({t \in (1..w) \X (1..(w \div 7)) : finder(t[1], t[2])})

\* The run lengths of Mask_calcRunLength give every line of the symbol the
\* demerit its cells deserve, and the mask chosen is one of the best.
BestMask ==
  ~kind.mqr =>
    LET w == Width(kind.version) IN
    /\ pc = "judge" =>
         \A i \in 1..(2 * w) : LET line == Line(w, masked, i)
                               IN  LineDemerit(line) = CalcN1N3(RunLengths(line))
    /\ pc = "mask" /\ tried > 0 => mark <= Demerit(w, masked)
    /\ pc = "done" => mark = Demerit(w, bestMask.symbol)

\* A symbol is always made: the filler never runs out of the frame before the
\* last bit, init_rs accepts every block, and some mask scores.
NeverFails == pc # "null"
=============================================================================
