------------------------------ MODULE QRInput -------------------------------
(***************************************************************************)
(* From what an application wants to say to the byte stream of a symbol, or*)
(* of up to sixteen of them (qrinput.c).  The input is a list of entries,  *)
(* appended one by one or cut out of a string (split.c).  The version is   *)
(* estimated, the entries are encoded for that version, and when they turn *)
(* out too long the version is raised and they are encoded again; then the *)
(* stream is padded.  For structured append the entries are first dealt out*)
(* to inputs that each fill one symbol of the version asked for.           *)
(***************************************************************************)
EXTENDS QRSplit, SequencesExt

CONSTANTS Jobs   \* what the application asks for, see JobsAssumption

MAX_STRUCTURED_SYMBOLS == 16
ECIMax                 == 999999

ASSUME JobsAssumption ==
  \A j \in Jobs : /\ j.mqr \in BOOLEAN /\ j.structured \in BOOLEAN
                  /\ j.version \in IF j.mqr THEN MVersions ELSE {0} \union Versions
                  /\ j.level \in Levels
                  /\ j.fnc1 \in {0, 1, 2}          \* QRinput_setFNC1First, ..Second
                  /\ j.hint \in {"byte", "kanji"}
                  /\ j.casesensitive \in BOOLEAN
                  /\ j.text \in Seq(1..255)         \* without its terminating NUL
                  /\ j.items \in Seq([mode : Splittable \union {"eci"}, data : Seq(Nat)])
                  /\ \A i \in DOMAIN j.items :
                       IF j.items[i].mode = "eci" THEN Len(j.items[i].data) = 1
                                                  ELSE j.items[i].data \in Seq(0..255)
                  /\ j.appid \in 0..255
                  /\ j.text = << >> \/ j.items = << >>   \* the calls take one of them

VARIABLES job,      \* the call under way
          rest,     \* of the string: the part not cut yet
          entries,  \* the entries to deal out or to encode: a sequence of [mode, data]
          head,     \* the entries dealt to the current input (structured append)
          used,     \* their bits
          parity,   \* of all the entries, taken before they are dealt out
          inputs,   \* the inputs to encode, each a sequence of entries
          version,  \* of the input being encoded
          guess,    \* estimateVersion's prev
          bits,     \* the bit stream
          out,      \* the symbols' streams: [version, stream]
          pc

build  == <<rest, entries, head, used, parity>>
encode == <<version, guess, bits, out>>
vars   == <<job, build, inputs, encode, pc>>

\* The sum of a sequence of numbers.
SumOf(f) ==
  LET s[i \in 0..Len(f)] == IF i = 0 THEN 0 ELSE s[i - 1] + f[i]
  IN  s[Len(f)]

\* How often bit k is set in a sequence of bytes.
Ones(data, k) == SumOf([i \in DOMAIN data |-> (data[i] \div 2 ^ k) % 2])

\* The exclusive or of all bytes of all entries (QRinput_calcParity).
CalcParity(list) ==
  LET ones(k) == SumOf([e \in DOMAIN list |-> Ones(list[e].data, k)])
  IN  Number([k \in 1..8 |-> ones(8 - k) % 2], 8)

(***************************************************************************)
(* QRinput_newMQR refuses a level its version has not; the calls that make *)
(* a structure refuse Micro QR and version 0.                              *)
(***************************************************************************)
Refused(j) == \/ j.mqr /\ (MECCLength(j.version, j.level) = 0 \/ j.structured \/ j.fnc1 # 0)
              \/ j.structured /\ j.version = 0

Init == /\ job \in Jobs
        /\ rest = IF job.casesensitive THEN job.text ELSE ToUpper(job.text, job.hint)
        /\ entries = << >> /\ head = << >> /\ used = 0 /\ parity = 0 /\ inputs = << >>
        /\ version = job.version /\ guess = 0 /\ bits = << >> /\ out = << >>
        /\ pc = IF Refused(job) THEN "failed" ELSE "build"

(***************************************************************************)
(* The entries.  rest holds what is left of a string; an application that  *)
(* appends by itself has its items in job.items.                           *)
(***************************************************************************)
Append1(mode, data) ==
  IF Check(mode, data)
  THEN /\ entries' = Append(entries, [mode |-> mode, data |-> data])
       /\ UNCHANGED pc
  ELSE /\ pc' = "failed"
       /\ UNCHANGED entries

SplitString ==
  /\ pc = "build" /\ rest # << >>
  /\ LET next == Eat(rest, 1, version, job.hint)
     IN  /\ Append1(next.mode, Piece(rest, 1, next.size))
         /\ rest' = Piece(rest, next.size + 1, Len(rest))
  /\ UNCHANGED <<job, head, used, parity, inputs, encode>>

\* QRinput_append, and QRinput_appendECIheader for an item that is a number.
AppendItem ==
  /\ pc = "build" /\ rest = << >> /\ Len(entries) < Len(job.items)
  /\ LET item == job.items[Len(entries) + 1]
         n    == item.data[1]
     IN  IF item.mode # "eci" THEN Append1(item.mode, item.data)
         ELSE IF n > ECIMax THEN pc' = "failed" /\ UNCHANGED entries
         ELSE Append1("eci", <<n % 256, (n \div 256) % 256, n \div 65536, 0>>)
  /\ UNCHANGED <<job, rest, head, used, parity, inputs, encode>>

\* QRinput_splitQRinputToStruct takes the parity before it deals the entries out;
\* dividing them does not change it.
Built ==
  /\ pc = "build" /\ rest = << >> /\ Len(entries) >= Len(job.items)
  /\ IF job.structured
     THEN pc' = "deal" /\ parity' = CalcParity(entries) /\ UNCHANGED inputs
     ELSE pc' = "start" /\ inputs' = <<entries>> /\ UNCHANGED parity
  /\ UNCHANGED <<job, rest, entries, head, used, encode>>

(***************************************************************************)
(* QRinput_splitQRinputToStruct, one entry at a time.                      *)
(***************************************************************************)
MaxBits == 8 * DataLength(job.version, job.level) - STRUCTURE_HEADER_SIZE

\* QRinput_Struct_insertStructuredAppendHeaders
InsertHeaders(list, sum) ==
  [i \in DOMAIN list |->
     <<[mode |-> "structure", data |-> <<Len(list), i, sum>>]>> \o list[i]]

\* The entries dealt already are not counted.
Room_Whole(n) == MaxBits

\* What the current input has room for.
Room(n) == MaxBits - n

Fits ==
  /\ pc = "deal" /\ entries # << >>
  /\ Estimate(Head(entries), job.version, FALSE) <= Room(used)
  /\ head' = Append(head, Head(entries))
  /\ used' = used + Len(EncodeBitStream(Head(entries), job.version, FALSE))
  /\ entries' = Tail(entries)
  /\ UNCHANGED <<job, rest, parity, inputs, encode, pc>>

Divide ==
  /\ pc = "deal" /\ entries # << >>
  /\ Estimate(Head(entries), job.version, FALSE) > Room(used)
  /\ LET e     == Head(entries)
         bytes == LengthOfCode(e.mode, job.version, Room(used))
         second == Piece(e.data, bytes + 1, Len(e.data))
     IN  IF bytes = 0
         THEN inputs' = Append(inputs, head) /\ UNCHANGED <<entries, pc>>
         ELSE IF Check(e.mode, second)
         THEN /\ inputs' = Append(inputs, Append(head, [e EXCEPT !.data = Piece(@, 1, bytes)]))
              /\ entries' = <<[e EXCEPT !.data = second]>> \o Tail(entries)
              /\ UNCHANGED pc
         ELSE pc' = "failed" /\ UNCHANGED <<entries, inputs>>
  /\ head' = << >> /\ used' = 0
  /\ UNCHANGED <<job, rest, parity, encode>>

Dealt ==
  /\ pc = "deal" /\ entries = << >>
  /\ LET list == Append(inputs, head)
     IN  IF Len(list) > MAX_STRUCTURED_SYMBOLS
         THEN pc' = "failed" /\ UNCHANGED inputs
         ELSE pc' = "start" /\ inputs' = InsertHeaders(list, parity)
  /\ head' = << >>
  /\ UNCHANGED <<job, rest, entries, used, parity, encode>>

(***************************************************************************)
(* QRinput_getByteStream of the next input.                                *)
(***************************************************************************)
Input == inputs[Len(out) + 1]

\* QRinput_mergeBitStream up to the estimate.  The header of FNC1 in first
\* position is an entry of no data, which QRinput_check refuses.  In front of an
\* input without entries QRinput_insertFNC1Header reads input->head, which is null.
Start ==
  /\ pc = "start"
  /\ version' = job.version /\ guess' = 0 /\ bits' = << >>
  /\ head' = << >>
  /\ IF job.structured \/ job.fnc1 = 0   \* QRinput_dup does not copy fnc1
     THEN /\ pc' = IF job.mqr THEN "encode" ELSE "estimate"
          /\ UNCHANGED inputs
     ELSE IF ~Check(<<"fnc1first", "fnc1second">>[job.fnc1], <<<< >>, <<job.appid>>>>[job.fnc1])
          THEN pc' = "failed" /\ UNCHANGED inputs
     ELSE IF Input = << >>
          THEN pc' = "wild" /\ UNCHANGED inputs
          ELSE /\ pc' = "estimate"
               /\ inputs' = <<<<[mode |-> "fnc1second", data |-> <<job.appid>>]>> \o Input>>
  /\ UNCHANGED <<job, rest, entries, used, parity, out>>

EstimateAll(list, v) ==
  SumOf([i \in DOMAIN list |-> Estimate(list[i], v, job.mqr)])

\* One round of QRinput_estimateVersion; an estimate no version holds is dropped
\* and leaves the version as it is, 0 included.
EstimateVersion ==
  /\ pc = "estimate"
  /\ LET v == MinimumVersion((EstimateAll(Input, guess) + 7) \div 8, job.level)
     IN  IF v > guess THEN guess' = v /\ UNCHANGED <<version, pc>>
         ELSE /\ version' = IF v > version THEN v ELSE version
              /\ pc' = "encode"
              /\ UNCHANGED guess
  /\ UNCHANGED <<job, build, inputs, bits, out>>

\* One entry of QRinput_createBitStream; head holds those already encoded.
EncodeEntry ==
  /\ pc = "encode" /\ Len(head) < Len(Input)
  /\ LET e == Input[Len(head) + 1]
     IN  IF Allowed(e.mode, version, job.mqr)
         THEN /\ bits' = bits \o EncodeBitStream(e, version, job.mqr)
              /\ head' = Append(head, e)
              /\ UNCHANGED pc
         ELSE pc' = "failed" /\ UNCHANGED <<bits, head>>
  /\ UNCHANGED <<job, rest, entries, used, parity, inputs, version, guess, out>>

\* QRinput_convertData: a stream too long for the version is encoded again.
CheckVersion ==
  /\ pc = "encode" /\ Len(head) = Len(Input) /\ ~job.mqr
  /\ LET v == MinimumVersion((Len(bits) + 7) \div 8, job.level)
     IN  IF v < 0 THEN pc' = "failed" /\ UNCHANGED <<version, bits, head>>
         ELSE IF v > version THEN /\ version' = v /\ bits' = << >> /\ head' = << >>
                                  /\ UNCHANGED pc
         ELSE pc' = "pad" /\ UNCHANGED <<version, bits, head>>
  /\ UNCHANGED <<job, rest, entries, used, parity, inputs, guess, out>>

MaxLength == IF job.mqr THEN MDataLengthBit(version, job.level)
                        ELSE 8 * DataLength(version, job.level)

\* QRinput_getBitStream and BitStream_toByte.
Pad ==
  /\ pc = "pad" \/ (pc = "encode" /\ job.mqr /\ Len(head) = Len(Input))
  /\ IF MaxLength < Len(bits) THEN pc' = "failed" /\ UNCHANGED <<bits, out>>
     ELSE /\ LET padding == IF job.mqr THEN MPadding(Len(bits), version, job.level)
                            ELSE Padding(Len(bits), version, job.level)
             IN  out' = Append(out, [version |-> version, stream |-> ToByte(bits \o padding)])
          /\ bits' = << >>
          /\ pc' = IF Len(out') = Len(inputs) THEN "done" ELSE "start"
  /\ UNCHANGED <<job, build, inputs, version, guess>>

Next == \/ SplitString \/ AppendItem \/ Built
        \/ Fits \/ Divide \/ Dealt
        \/ Start \/ EstimateVersion \/ EncodeEntry \/ CheckVersion \/ Pad

Spec == Init /\ [][Next]_vars

(***************************************************************************)
(* A reader of the streams, written from the format and not from the code: *)
(* from position p on it returns the bytes read.  An ECI is returned as    *)
(* 1000 + its number, an FNC1 as -1 - its application.                     *)
(***************************************************************************)
Bit(s, k)      == IF k <= Len(s) THEN s[k] ELSE 0
Value(s, p, n) == Number([k \in 1..n |-> Bit(s, p + k - 1)], n)

AnChar(v) == Min({c \in 32..90 : lookAnTable(c) = v} \union {91})

\* The n characters of the mode at position p of the bits.
Characters(s, p, mode, n) ==
  CASE mode = "byte" -> [i \in 1..n |-> Value(s, p + 8 * (i - 1), 8)]
    [] mode = "num" ->
         [i \in 1..n |->
            LET g     == (i - 1) \div 3
                size  == Min({3, n - 3 * g})
                group == Value(s, p + 10 * g, 3 * size + 1)
            IN  48 + ((group \div 10 ^ (size - 1 - ((i - 1) % 3))) % 10)]
    [] mode = "an" ->
         [i \in 1..n |->
            LET g    == (i - 1) \div 2
                size == Min({2, n - 2 * g})
                pair == Value(s, p + 11 * g, 5 * size + 1)
            IN  AnChar(IF size = 2 /\ i % 2 = 1 THEN pair \div 45
                       ELSE IF size = 2 THEN pair % 45 ELSE pair)]
    [] mode = "kanji" ->
         [i \in 1..(2 * n) |->
            LET v    == Value(s, p + 13 * ((i - 1) \div 2), 13)
                low  == 256 * (v \div 192) + (v % 192)
                word == low + IF low < 7936 THEN 33088 ELSE 49472
            IN  IF i % 2 = 1 THEN word \div 256 ELSE word % 256]

CharBits(mode, n) == CASE mode = "byte"  -> 8 * n
                      [] mode = "num"   -> 10 * (n \div 3) + <<0, 4, 7>>[(n % 3) + 1]
                      [] mode = "an"    -> 11 * (n \div 2) + 6 * (n % 2)
                      [] mode = "kanji" -> 13 * n

Read(s, v, mqr) ==
  LET m     == IF mqr THEN v - 1 ELSE 4
      modes == IF mqr THEN <<"num", "an", "byte", "kanji">>
               ELSE <<"none", "num", "an", "structure", "byte", "none", "none", "eci",
                      "kanji", "fnc1second">>
      term  == IF mqr THEN 2 * v + 1 ELSE 4
      from[p \in Nat \ {0}] ==
        LET i    == Value(s, p, m) + 1
            mode == IF i \in DOMAIN modes THEN modes[i] ELSE "none"
            q    == p + m
            l    == IF mqr THEN MLengthIndicator(mode, v) ELSE LengthIndicator(mode, v)
            n    == Value(s, q, l)
            lead == Min({k \in 1..3 : Bit(s, q + k - 1) = 0} \union {4})
        IN  IF \A k \in p..Min({Len(s), p + term - 1}) : s[k] = 0 THEN << >>
            ELSE CASE mode = "none" -> <<-1000>>
                   [] mode = "structure" -> from[q + 16]
                   [] mode = "eci" -> <<1000 + Value(s, q + lead, 7 * lead)>> \o from[q + 8 * lead]
                   [] mode = "fnc1second" -> <<-1 - Value(s, q, 8)>> \o from[q + 8]
                   [] OTHER -> Characters(s, q + l, mode, n) \o from[q + l + CharBits(mode, n)]
  IN  from[1]

\* The bits of a stream of bytes: the half word of Micro QR counts for four.
BitsOf(bytes, n) == [k \in 1..n |->
                       LET i == (k - 1) \div 8 + 1
                           w == Min({8, n - 8 * (i - 1)})
                       IN  (bytes[i] \div 2 ^ (w - 1 - ((k - 1) % 8))) % 2]

Capacity(v) == IF job.mqr THEN MDataLengthBit(v, job.level) ELSE 8 * DataLength(v, job.level)

Decoded(o) == Read(BitsOf(o.stream, Capacity(o.version)), o.version, job.mqr)

\* What the application said, as the reader returns it.
Said == (IF job.fnc1 = 2 THEN <<-1 - job.appid>> ELSE << >>) \o
        job.text \o
        FlattenSeq([i \in DOMAIN job.items |->
          IF job.items[i].mode = "eci" THEN <<1000 + job.items[i].data[1]>>
                                       ELSE job.items[i].data])

\* What the code loses of a message.  QRinput_dup makes the copy that is dealt out
\* without fnc1 (qrinput.c:325-349).  An ECI from 16384 on gets the bits of another
\* number (qrinput.c:842), and so does a kanji whose second byte is below 64, which
\* Shift-JIS has not but the check lets through (qrinput.c:654-655).  Kanji have no
\* length indicator in Micro QR version 2 (mqrspec.c:95-100), an ECI has no mode in
\* Micro QR, and neither is refused.
Lost ==
  \/ job.structured /\ job.fnc1 # 0
  \/ \E k \in DOMAIN inputs : \E i \in DOMAIN inputs[k] :
       LET e == inputs[k][i]
       IN  \/ e.mode = "eci" /\ (decodeECI(e.data) >= 16384 \/ job.mqr)
           \/ e.mode = "kanji" /\ (\E c \in 1..(Len(e.data) \div 2) : e.data[2 * c] < 64)
           \/ e.mode = "kanji" /\ job.mqr /\ job.version = 2

\* A letter may have become a capital, unless it is the second byte of a kanji.
SameText(read, said) ==
  /\ Len(read) = Len(said)
  /\ \A i \in DOMAIN said :
       \/ read[i] = said[i]
       \/ /\ ~job.casesensitive /\ said[i] \in 97..122 /\ read[i] = said[i] - 32
          /\ ~(job.hint = "kanji" /\ i > 1 /\ isKanji(said[i - 1], said[i]))

(***************************************************************************)
(* Properties.                                                             *)
(***************************************************************************)
\* Whatever way the string was cut, the entries were divided among symbols and
\* the version was raised, a reader of the symbols gets the message back, and
\* the terminator where it ends (the encodeMode functions, split.c, padding),
\* unless it holds what the code is known to lose.
MessageSurvives ==
  pc = "done" /\ ~Lost => SameText(FlattenSeq([i \in DOMAIN out |-> Decoded(out[i])]), Said)

\* QRraw_new reads as many bytes as the version has data codewords: the padded
\* stream has that many, no fewer.
StreamFillsSymbol ==
  \A i \in DOMAIN out :
    Len(out[i].stream) = IF job.mqr THEN MDataLength(out[i].version, job.level)
                         ELSE DataLength(out[i].version, job.level)

\* Reference: the bits of an entry in a version, in as many pieces as its length
\* indicator asks for, all full but the last.
Needed(e, v) ==
  CASE e.mode = "eci"        -> 4 + 8 * ECIWords(decodeECI(e.data))
    [] e.mode = "fnc1second" -> 12
    [] e.mode = "structure"  -> 20
    [] e.mode \in Splittable ->
         LET unit  == IF e.mode = "kanji" THEN 2 ELSE 1
             most  == 2 ^ LengthIndicator(e.mode, v) - 1
             chars == Len(e.data) \div unit
             full  == (chars - 1) \div most
         IN  full * CharBits(e.mode, most) + CharBits(e.mode, chars - full * most)
             + (full + 1) * Indicator(e.mode, v)

NeededAll(list, v) == SumOf([i \in DOMAIN list |-> Needed(list[i], v)])

FitsIn(list, v) == NeededAll(list, v) <= 8 * DataLength(v, job.level)

\* The last version of those whose length indicators are as long.
LastOfRange(v) == <<9, 26, 40>>[VersionRange(v)]

\* The estimate is too high for an ECI, and for more kanji than half the numbers
\* of the length indicator; and with the indicators of a lower range it can be so
\* high that all versions of the range the input fits in are passed over.
Overestimated(list) ==
  \/ \E i \in DOMAIN list : \/ list[i].mode = "eci"
                            \/ list[i].mode = "kanji" /\ Len(list[i].data) > 256
  \/ \E v \in Versions : /\ FitsIn(list, v)
                         /\ \E lower \in {9, 26} :
                              /\ lower < v
                              /\ EstimateAll(list, lower) > 8 * DataLength(LastOfRange(v), job.level)

\* The version chosen is the first, from the one asked for, that holds the
\* input (QRinput_estimateVersion, QRinput_convertData).
LeastVersion(list, v) ==
  /\ FitsIn(list, v)
  /\ \A lower \in Max({1, job.version})..(v - 1) : ~FitsIn(list, lower)

VersionIsLeast ==
  ~job.mqr => \A i \in DOMAIN out :
                ~Overestimated(inputs[i]) => LeastVersion(inputs[i], out[i].version)

\* The symbols of a structured append are of the version asked for, say which
\* part of how many they are, and all give the parity of the whole message.
PartsAgree ==
  pc = "done" /\ job.structured =>
    \A i \in DOMAIN out :
      LET s == Bytes(out[i].stream)
      IN  /\ ~Overestimated(inputs[i]) => out[i].version = job.version
          /\ Value(s, 1, 4) = 3
          /\ Value(s, 5, 4) = i - 1 /\ Value(s, 9, 4) = Len(out) - 1
          /\ job.text # << >> => Value(s, 13, 8) =
               CalcParity(<<[data |-> IF job.casesensitive THEN job.text
                                      ELSE ToUpper(job.text, job.hint)]>>)

\* A string is cut so that every entry takes at least one byte and is accepted:
\* an entry of none would end the cutting with the rest of the string lost.
StringIsAccepted == job.text # << >> /\ ~Refused(job) /\ pc = "failed" => rest = << >>

\* Where byte mode was left for digits that a letter follows: split.c counts no
\* way back there, though the letters may be too few for an entry of their own.
WaysBackUncounted ==
  LET text     == FlattenSeq([i \in DOMAIN entries |-> entries[i].data])
      start(i) == 1 + SumOf([j \in 1..(i - 1) |-> Len(entries[j].data)])
  IN  {i \in 2..Len(entries) :
         /\ entries[i - 1].mode = "byte"
         /\ identifyMode(text, start(i), job.hint) = "num"
         /\ identifyMode(text, EndOf(text, start(i), "num"), job.hint) = "an"}

\* Cutting a string never makes it longer than one entry of 8-bit data would be
\* (the cost of a change of mode in split.c), but for one header at each place
\* where Split_eat8 counts no way back to byte mode; kanji left aside.
CutPays ==
  pc = "start" /\ job.text # << >> /\ (\A i \in DOMAIN entries : entries[i].mode # "kanji") =>
    LET v == Max({1, job.version})
    IN  NeededAll(entries, v) <= Needed([mode |-> "byte", data |-> job.text], v)
                                   + Cardinality(WaysBackUncounted) * Indicator("byte", v)

\* An input that some version holds is not refused.
FitsIsNotRefused ==
  pc = "failed" /\ ~job.mqr /\ ~job.structured /\ inputs # << >> =>
    \A v \in Max({1, job.version})..VersionMax : ~FitsIn(inputs[1], v)
=============================================================================
