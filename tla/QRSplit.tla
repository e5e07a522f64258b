------------------------------ MODULE QRSplit -------------------------------
(***************************************************************************)
(* Where split.c cuts a string: the mode of the next entry and the number  *)
(* of bytes it takes.  A change of mode costs a header, so a run of digits *)
(* or capitals is given up when it is too short for its own.               *)
(* A string is a sequence of bytes; its terminating NUL is the byte that At*)
(* reads past the end.  p is where the entry starts, v the version whose   *)
(* length indicators are counted, hint "kanji" or "byte".                  *)
(***************************************************************************)
EXTENDS QRBits

At(s, p) == IF p <= Len(s) THEN s[p] ELSE 0

identifyMode(s, p, hint) ==
  CASE p > Len(s)       -> "nul"
    [] p <= Len(s) /\ isdigit(s[p]) -> "num"
    [] p <= Len(s) /\ isalnum(s[p]) /\ ~isdigit(s[p]) -> "an"
    [] p <= Len(s) /\ ~isalnum(s[p]) ->
         IF hint = "kanji" /\ At(s, p + 1) # 0 /\ isKanji(s[p], At(s, p + 1))
         THEN "kanji" ELSE "byte"

\* The first position from p on that is not of the class, "num" or "an".
EndOf(s, p, class) ==
  LET belongs(c) == IF class = "num" THEN isdigit(c) ELSE isalnum(c)
  IN  Min({q \in p..(Len(s) + 1) : q > Len(s) \/ ~belongs(s[q])})

Indicator(mode, v) == MODE_INDICATOR_SIZE + LengthIndicator(mode, v)

\* Byte mode ends where an entry of its own is cheaper for what follows.
Eat8(s, p, v, hint) ==
  LET back(q) == IF identifyMode(s, q, hint) = "byte" THEN Indicator("byte", v) ELSE 0
      estimate(n, mode) == IF mode = "num" THEN estimateBitsModeNum(n) ELSE estimateBitsModeAn(n)
      leaves(q, r, mode) ==
        estimate(r - q, mode) + Indicator(mode, v) + back(r) < estimateBitsMode8(r - q)
      from[q \in 1..(Len(s) + 1)] ==
        LET mode == identifyMode(s, q, hint)
            r    == EndOf(s, q, mode)
        IN  IF mode \in {"nul", "kanji"} THEN q
            ELSE IF mode = "byte" THEN from[q + 1]
            ELSE IF leaves(q, r, mode) THEN q ELSE from[r]
  IN  [mode |-> "byte", size |-> from[p + 1] - p]

\* The header of the second entry is not counted.
Together_NoHeader(bits, size, mode, v) ==
  bits + estimateBitsMode8(1) > estimateBitsMode8(size + 1)

\* Is one byte after size bytes of the mode better encoded together with them?
Together(bits, size, mode, v) ==
  bits + Indicator(mode, v) + estimateBitsMode8(1) > estimateBitsMode8(size + 1)

EatAn(s, p, v, hint) ==
  LET from[q \in 1..(Len(s) + 1)] ==
        LET r   == EndOf(s, q, "num")
            sw  == IF isalnum(At(s, r)) THEN Indicator("num", v) ELSE 0
            dif == estimateBitsModeAn(q - p) + estimateBitsModeNum(r - q)
                     + Indicator("num", v) + sw - estimateBitsModeAn(r - p)
        IN  IF ~isalnum(At(s, q)) THEN q
            ELSE IF ~isdigit(At(s, q)) THEN from[q + 1]
            ELSE IF dif < 0 THEN q ELSE from[r]
      end == from[p]
  IN  IF /\ At(s, end) # 0 /\ ~isalnum(At(s, end))
         /\ Together(estimateBitsModeAn(end - p), end - p, "an", v)
      THEN Eat8(s, p, v, hint)
      ELSE [mode |-> "an", size |-> end - p]

EatNum(s, p, v, hint) ==
  LET end  == EndOf(s, p, "num")
      run  == end - p
      next == identifyMode(s, end, hint)
      bits == estimateBitsModeNum(run)
  IN  IF next = "byte" /\ Together(bits, run, "num", v) THEN Eat8(s, p, v, hint)
      ELSE IF next = "an" /\ bits + Indicator("num", v) + estimateBitsModeAn(1)
                               > estimateBitsModeAn(run + 1)
           THEN EatAn(s, p, v, hint)
           ELSE [mode |-> "num", size |-> run]

\* One byte too few of a pair is looked at.
EatKanji_NextByte(s, p, v, hint) ==
  LET from[q \in 1..(Len(s) + 2)] ==
        IF identifyMode(s, q, hint) = "kanji" THEN from[q + 1] ELSE q
  IN  [mode |-> "kanji", size |-> from[p] - p]

EatKanji(s, p, v, hint) ==
  LET from[q \in 1..(Len(s) + 2)] ==
        IF identifyMode(s, q, hint) = "kanji" THEN from[q + 2] ELSE q
  IN  [mode |-> "kanji", size |-> from[p] - p]

\* Split_splitString: the entry that starts at p, which is not the end.
Eat(s, p, v, hint) == CASE identifyMode(s, p, hint) = "num"   -> EatNum(s, p, v, hint)
                        [] identifyMode(s, p, hint) = "an"    -> EatAn(s, p, v, hint)
                        [] identifyMode(s, p, hint) = "kanji" -> EatKanji(s, p, v, hint)
                        [] identifyMode(s, p, hint) = "byte"  -> Eat8(s, p, v, hint)

\* dupAndToUpper
ToUpper(s, hint) ==
  LET from[p \in 1..(Len(s) + 2)] ==
        IF p > Len(s) THEN << >>
        ELSE IF identifyMode(s, p, hint) = "kanji" THEN <<s[p], s[p + 1]>> \o from[p + 2]
        ELSE <<IF s[p] \in 97..122 THEN s[p] - 32 ELSE s[p]>> \o from[p + 1]
  IN  from[1]
=============================================================================
