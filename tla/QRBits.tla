------------------------------- MODULE QRBits -------------------------------
(***************************************************************************)
(* The bits of one entry of the input (the encodeMode, estimateBits and    *)
(* check functions of qrinput.c) and of the padding, on the bit streams of *)
(* bitstream.c.  An entry is [mode, data] with data a sequence of bytes; a *)
(* bit stream is a sequence of 0 and 1, first bit first.                   *)
(***************************************************************************)
EXTENDS QRSpec

MODE_INDICATOR_SIZE   == 4
STRUCTURE_HEADER_SIZE == 20

Piece(s, from, to) == [i \in 1..(to - from + 1) |-> s[from + i - 1]]

\* BitStream_newFromNum: the low bits of num, the highest first.
Bits(n, num) == [k \in 1..n |-> (num \div 2 ^ (n - k)) % 2]

\* BitStream_appendNum for each of a sequence of numbers of the same width.
Numbers(values, width) ==
  [k \in 1..(Len(values) * width) |->
     (values[(k - 1) \div width + 1] \div 2 ^ (width - 1 - ((k - 1) % width))) % 2]

\* BitStream_appendBytes
Bytes(data) == Numbers(data, 8)

\* The number that n bits are, the highest first.
Number(bit, n) ==
  LET val[k \in 0..n] == IF k = 0 THEN 0 ELSE 2 * val[k - 1] + bit[k]
  IN  val[n]

\* BitStream_toByte: the bits of an incomplete last byte are its low bits.
ToByte(s) ==
  [i \in 1..((Len(s) + 7) \div 8) |->
     LET n == Min({8, Len(s) - 8 * (i - 1)})
     IN  Number([k \in 1..n |-> s[8 * (i - 1) + k]], n)]

(***************************************************************************)
(* Characters.                                                             *)
(***************************************************************************)
isdigit(c) == c \in 48..57

lookAnTable(c) == CASE isdigit(c)    -> c - 48
                    [] c \in 65..90  -> c - 55
                    [] c = 32        -> 36
                    [] c \in {36,37} -> c + 1
                    [] c \in {42,43} -> c - 3
                    [] c \in 45..47  -> c - 4
                    [] c = 58        -> 44
                    [] OTHER         -> -1

isalnum(c) == lookAnTable(c) >= 0

Word16(hi, lo) == 256 * hi + lo
isKanji(hi, lo) == Word16(hi, lo) \in 33088..40956 \union 57408..60351

\* QRinput_check
Check(mode, data) ==
  /\ Len(data) > 0
  /\ CASE mode = "num"   -> \A i \in DOMAIN data : isdigit(data[i])
       [] mode = "an"    -> \A i \in DOMAIN data : isalnum(data[i])
       [] mode = "kanji" -> /\ Len(data) % 2 = 0
                            /\ \A i \in 1..(Len(data) \div 2) :
                                 isKanji(data[2 * i - 1], data[2 * i])
       [] mode = "fnc1second" -> Len(data) = 1
       [] OTHER          -> TRUE

(***************************************************************************)
(* Lengths, exact for the payload, estimated for the headers.              *)
(***************************************************************************)
estimateBitsModeNum(size)   == (size \div 3) * 10 + <<0, 4, 7>>[(size % 3) + 1]
estimateBitsModeAn(size)    == (size \div 2) * 11 + 6 * (size % 2)
estimateBitsMode8(size)     == 8 * size
estimateBitsModeKanji(size) == (size \div 2) * 13

\* The fourth byte of an ECI number is zero: the largest is 999999.
decodeECI(data) == data[1] + 256 * data[2] + 65536 * data[3]

ECIWords(ecinum) == IF ecinum < 128 THEN 1 ELSE IF ecinum < 16384 THEN 2 ELSE 3

Payload(entry) ==
  LET size == Len(entry.data)
  IN  CASE entry.mode = "num"   -> estimateBitsModeNum(size)
        [] entry.mode = "an"    -> estimateBitsModeAn(size)
        [] entry.mode = "byte"  -> estimateBitsMode8(size)
        [] entry.mode = "kanji" -> estimateBitsModeKanji(size)
        [] entry.mode = "eci"   ->
             MODE_INDICATOR_SIZE + 8 * ECIWords(decodeECI(entry.data))

\* QRinput_estimateBitStreamSizeOfEntry.  A mode that has no length indicator
\* counts one unit per byte, and a kanji, of two bytes, counts for two.
Estimate(entry, version, mqr) ==
  LET v   == IF version = 0 THEN 1 ELSE version
      l   == LengthIndicator(entry.mode, v)
      num == (Len(entry.data) + 2 ^ l - 1) \div (2 ^ l)
  IN  CASE entry.mode = "structure"  -> STRUCTURE_HEADER_SIZE
        [] entry.mode = "fnc1second" -> MODE_INDICATOR_SIZE + 8
        [] OTHER -> Payload(entry) + IF mqr THEN l + v - 1
                                            ELSE num * (MODE_INDICATOR_SIZE + l)

\* QRinput_lengthOfCode: the bytes of the mode that fit in so many bits.
LengthOfCode(mode, version, bits) ==
  LET payload == bits - MODE_INDICATOR_SIZE - LengthIndicator(mode, version)
      rem(n)  == payload - (payload \div n) * n
      size    == CASE payload < 0      -> 0
                   [] payload >= 0 /\ mode = "num" ->
                        (payload \div 10) * 3
                          + IF rem(10) >= 7 THEN 2 ELSE IF rem(10) >= 4 THEN 1 ELSE 0
                   [] payload >= 0 /\ mode = "an" ->
                        (payload \div 11) * 2 + IF rem(11) >= 6 THEN 1 ELSE 0
                   [] payload >= 0 /\ mode = "byte"  -> payload \div 8
                   [] payload >= 0 /\ mode = "kanji" -> (payload \div 13) * 2
                   [] OTHER -> 0
      maxsize == MaximumWords(mode, version)
  IN  IF maxsize > 0 /\ size > maxsize THEN maxsize ELSE size

(***************************************************************************)
(* Encoding.                                                               *)
(***************************************************************************)
modeId  == [num |-> 1, an |-> 2, structure |-> 3, byte |-> 4, eci |-> 7,
            kanji |-> 8, fnc1second |-> 9]
mmodeId == [num |-> 0, an |-> 1, byte |-> 2, kanji |-> 3]

\* The modes a Micro QR version has.  Version 2 is let through for kanji, though
\* it has neither the mode indicator nor the length indicator of it.
Allowed(mode, version, mqr) ==
  mqr => version >= CASE mode = "structure"     -> MVersionMax + 1
                      [] mode = "byte"          -> 3
                      [] mode \in {"an", "kanji"} -> 2
                      [] OTHER                  -> 1

\* A length of entries counted in bytes where the standard counts kanji.
Header_Bytes(mode, version, mqr, size) ==
  IF mqr THEN Bits(version - 1, mmodeId[mode]) \o Bits(MLengthIndicator(mode, version), size)
         ELSE Bits(4, modeId[mode]) \o Bits(LengthIndicator(mode, version), size)

Header(mode, version, mqr, size) ==
  LET n == IF mode = "kanji" THEN size \div 2 ELSE size
  IN  IF mqr THEN Bits(version - 1, mmodeId[mode]) \o Bits(MLengthIndicator(mode, version), n)
             ELSE Bits(4, modeId[mode]) \o Bits(LengthIndicator(mode, version), n)

NumBits(d) ==
  LET n  == Len(d) \div 3
      at(i) == d[i] - 48
  IN  Numbers([i \in 1..n |-> 100 * at(3 * i - 2) + 10 * at(3 * i - 1) + at(3 * i)], 10)
      \o CASE Len(d) % 3 = 0 -> << >>
           [] Len(d) % 3 = 1 -> Bits(4, at(3 * n + 1))
           [] Len(d) % 3 = 2 -> Bits(7, 10 * at(3 * n + 1) + at(3 * n + 2))

AnBits(d) ==
  LET n == Len(d) \div 2
  IN  Numbers([i \in 1..n |-> 45 * lookAnTable(d[2 * i - 1]) + lookAnTable(d[2 * i])], 11)
      \o IF Len(d) % 2 = 0 THEN << >> ELSE Bits(6, lookAnTable(d[2 * n + 1]))

KanjiBits(d) ==
  LET val(i) == Word16(d[2 * i - 1], d[2 * i])
      off(i) == val(i) - IF val(i) <= 40956 THEN 33088 ELSE 49472
  IN  Numbers([i \in 1..(Len(d) \div 2) |-> 192 * (off(i) \div 256) + (off(i) % 256)], 13)

ECIBits(ecinum) == Bits(8 * ECIWords(ecinum),
                        ecinum + <<0, 32768, 786432>>[ECIWords(ecinum)])

Encode(entry, version, mqr) ==
  LET d == entry.data
      h == Header(entry.mode, version, mqr, Len(d))
  IN  CASE entry.mode = "num"        -> h \o NumBits(d)
        [] entry.mode = "an"         -> h \o AnBits(d)
        [] entry.mode = "byte"       -> h \o Bytes(d)
        [] entry.mode = "kanji"      -> h \o KanjiBits(d)
        [] entry.mode = "structure"  -> Bits(4, modeId.structure) \o Bits(4, d[2] - 1)
                                        \o Bits(4, d[1] - 1) \o Bits(8, d[3])
        [] entry.mode = "eci"        -> Bits(4, modeId.eci) \o ECIBits(decodeECI(d))
        [] entry.mode = "fnc1second" -> Bits(4, modeId.fnc1second) \o Bytes(d)

\* QRinput_encodeBitStream: an entry too long for its length indicator is
\* encoded in pieces.
EncodeBitStream(entry, version, mqr) ==
  LET words == MaximumWords(entry.mode, version)
      d     == entry.data
      from[i \in 1..(Len(d) + 1)] ==
        LET one(to) == Encode([mode |-> entry.mode, data |-> Piece(d, i, to)], version, mqr)
        IN  IF words = 0 \/ Len(d) - i + 1 <= words
            THEN one(Len(d)) ELSE one(i + words - 1) \o from[i + words]
  IN  from[1]

(***************************************************************************)
(* Padding.                                                                *)
(***************************************************************************)
PadBytes(n) == Bytes([i \in 1..n |-> IF i % 2 = 1 THEN 236 ELSE 17])

\* QRinput_appendPaddingBit, of a stream that is not too long.
Padding(bits, version, level) ==
  LET maxwords == DataLength(version, level)
      left     == 8 * maxwords - bits
      words    == (bits + 4 + 7) \div 8
  IN  IF left <= 4 THEN Bits(left, 0) ELSE Bits(8 * words - bits, 0) \o PadBytes(maxwords - words)

\* The half word of versions 1 and 3 is forgotten.
MPadding_NoHalf(bits, version, level) ==
  LET maxwords == MDataLengthBit(version, level) \div 8
      left     == MDataLengthBit(version, level) - bits
      term     == 2 * version + 1
      words    == (bits + term + 7) \div 8
  IN  IF left <= term THEN Bits(left, 0)
      ELSE Bits(8 * words - bits, 0) \o PadBytes(Max({0, maxwords - words}))

\* QRinput_appendPaddingBitMQR.  A terminator that reaches into the half word of
\* version 1 or 3 may run past the symbol: its bits are all zero.
MPadding(bits, version, level) ==
  LET maxbits  == MDataLengthBit(version, level)
      maxwords == maxbits \div 8
      left     == maxbits - bits
      term     == 2 * version + 1
      words    == (bits + term + 7) \div 8
      half     == IF maxbits > 8 * words /\ words = maxwords THEN maxbits - 8 * words ELSE 0
  IN  IF left <= term THEN Bits(left, 0)
      ELSE Bits(8 * words - bits + half, 0)
           \o IF maxwords <= words THEN << >>
              ELSE PadBytes(maxwords - words) \o Bits(maxbits - 8 * maxwords, 0)
=============================================================================
