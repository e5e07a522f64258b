--------------------------- MODULE QRInputProofs ---------------------------
(***************************************************************************)
(* A string is cut to its end, whatever its bytes are: every entry takes at*)
(* least one byte, and its bytes are of its mode.  The stream of every     *)
(* symbol fills it, whatever is encoded.  Its version is the first that    *)
(* holds the input, for which the bits of an entry and the estimate of     *)
(* them are counted.  And the symbols of a structured append say which part*)
(* of how many they are, with the parity of the whole text.                *)
(***************************************************************************)
EXTENDS QRInput, WellFoundedInduction, TLAPS

Byte == 1..255

-----------------------------------------------------------------------------
(* Recursion over the positions of a string, which goes up to its end.     *)

\* A set of numbers that is not empty has a least one.
LEMMA LeastElement ==
  ASSUME NEW T \in SUBSET Nat, T # {}
  PROVE  \E m \in T : \A x \in T : m <= x
<1> DEFINE R == OpToRel(<, Nat)
<1>1. IsWellFoundedOn(R, Nat)
  BY NatLessThanWellFounded
<1>2. \E m \in T : \A x \in T : ~ (<<x, m>> \in R)
  <2> HIDE DEF R
  <2>1. T \subseteq Nat
    OBVIOUS
  <2> QED
    BY <1>1, <2>1, WFMin
<1>3. \A x, m \in Nat : x < m => <<x, m>> \in R
  BY DEF OpToRel
<1> HIDE DEF R
<1>4. PICK m \in T : \A x \in T : ~ (<<x, m>> \in R)
  BY <1>2
<1>5. \A x \in T : ~(x < m)
  BY <1>3, <1>4
<1>6. QED
  BY <1>4, <1>5

\* What holds of a position if it holds of all later ones holds of all.
LEMMA FromTheEnd ==
  ASSUME NEW N \in Nat, NEW T,
         \A q \in 1..N : (\A r \in (q + 1)..N : r \in T) => q \in T
  PROVE  \A q \in 1..N : q \in T
<1> DEFINE Others == {k \in 0..(N - 1) : N - k \notin T}
<1>1. ASSUME NEW k \in Others, \A m \in Others : k <= m PROVE FALSE
  <2>1. N - k \in 1..N
    OBVIOUS
  <2>2. ASSUME NEW r \in (N - k + 1)..N PROVE r \in T
    <3>1. N - r \in 0..(N - 1) /\ ~(k <= N - r) /\ N - (N - r) = r
      BY <2>2
    <3>2. QED
      BY <1>1, <3>1
  <2>3. QED
    BY <2>1, <2>2
<1>2. Others = {}
  <2>1. Others \in SUBSET Nat
    OBVIOUS
  <2> HIDE DEF Others
  <2>2. QED
    BY <1>1, <2>1, LeastElement
<1>3. QED
  <2>1. ASSUME NEW q \in 1..N PROVE q \in T
    <3>1. N - q \in 0..(N - 1) /\ N - (N - q) = q
      OBVIOUS
    <3>2. QED
      BY <1>2, <3>1
  <2>2. QED
    BY <2>1

\* The recursion over 1..N that returns base[q] at a stop, and otherwise h[q] of
\* what it returns for the later position next[q]; its results are in V.
Recursion(N, V, Stop, base, next, h) ==
  \A q \in 1..N : IF q \in Stop THEN base[q] \in V
                  ELSE next[q] \in (q + 1)..N /\ \A x \in V : h[q][x] \in V

Computes(f, N, V, Stop, base, next, h) ==
  /\ f \in [1..N -> V]
  /\ \A q \in 1..N : f[q] = IF q \in Stop THEN base[q] ELSE h[q][f[next[q]]]

\* There is such a function.
LEMMA UpwardsExists ==
  ASSUME NEW N \in Nat, NEW V, NEW Stop, NEW base, NEW next, NEW h,
         Recursion(N, V, Stop, base, next, h)
  PROVE  \E f : Computes(f, N, V, Stop, base, next, h)
<1> USE DEF Recursion, Computes
<1> DEFINE Good(f, m) ==
             /\ f \in [m..N -> V]
             /\ \A q \in m..N : f[q] = IF q \in Stop THEN base[q] ELSE h[q][f[next[q]]]
           T == {m \in 1..N : \E f : Good(f, m)}
<1>1. ASSUME NEW m \in 1..N, \A r \in (m + 1)..N : r \in T PROVE m \in T
  <2>1. \E f : Good(f, m + 1)
    <3>1. CASE m = N
      <4>1. (m + 1)..N = {}
        BY <3>1
      <4>2. Good([q \in (m + 1)..N |-> 0], m + 1)
        BY <4>1
      <4>3. QED
        BY <4>2
    <3>2. CASE m # N
      <4>1. m + 1 \in (m + 1)..N
        BY <3>2
      <4>2. QED
        BY <1>1, <4>1
    <3>3. QED
      BY <3>1, <3>2
  <2>2. PICK f : Good(f, m + 1)
    BY <2>1
  <2> DEFINE v == IF m \in Stop THEN base[m] ELSE h[m][f[next[m]]]
             g == [q \in m..N |-> IF q = m THEN v ELSE f[q]]
  <2>3. v \in V
    <3>1. CASE m \in Stop
      BY <3>1
    <3>2. CASE m \notin Stop
      <4>1. next[m] \in (m + 1)..N
        BY <3>2
      <4>2. f[next[m]] \in V
        BY <2>2, <4>1
      <4>3. QED
        BY <3>2, <4>2
    <3>3. QED
      BY <3>1, <3>2
  <2>4. \A q \in m..N : q # m => q \in (m + 1)..N
    OBVIOUS
  <2> HIDE DEF v
  <2>5. g \in [m..N -> V]
    BY <2>2, <2>3, <2>4
  <2>6. ASSUME NEW q \in m..N PROVE g[q] = IF q \in Stop THEN base[q] ELSE h[q][g[next[q]]]
    <3>1. q \in 1..N
      OBVIOUS
    <3>2. CASE q \in Stop
      <4>1. CASE q = m
        BY <3>2, <4>1 DEF v
      <4>2. CASE q # m
        BY <2>2, <2>4, <3>2, <4>2
      <4>3. QED
        BY <4>1, <4>2
    <3>3. CASE q \notin Stop
      <4>1. next[q] \in (q + 1)..N
        BY <3>1, <3>3
      <4>2. next[q] \in m..N /\ next[q] # m
        BY <4>1
      <4>3. g[next[q]] = f[next[q]]
        BY <4>2
      <4>4. CASE q = m
        BY <3>3, <4>3, <4>4 DEF v
      <4>5. CASE q # m
        <5>1. f[q] = h[q][f[next[q]]]
          BY <2>2, <2>4, <3>3, <4>5
        <5>2. g[q] = f[q]
          BY <4>5
        <5>3. QED
          BY <3>3, <4>3, <5>1, <5>2
      <4>6. QED
        BY <4>4, <4>5
    <3>4. QED
      BY <3>2, <3>3
  <2> HIDE DEF g
  <2>7. Good(g, m)
    BY <2>5, <2>6
  <2>8. QED
    BY <2>7
<1>2. \A q \in 1..N : q \in T
  <2> HIDE DEF T
  <2>1. QED
    BY <1>1, FromTheEnd
<1>3. CASE N = 0
  <2>1. 1..N = {}
    BY <1>3
  <2>2. [q \in 1..N |-> 0] \in [1..N -> V]
    BY <2>1
  <2>3. QED
    BY <2>1, <2>2
<1>4. CASE N # 0
  <2>1. 1 \in T
    <3> HIDE DEF T
    <3>1. 1 \in 1..N
      BY <1>4
    <3>2. QED
      BY <1>2, <3>1
  <2>2. PICK f : Good(f, 1)
    BY <2>1
  <2>3. QED
    BY <2>2
<1>5. QED
  BY <1>3, <1>4

-----------------------------------------------------------------------------
(* Characters.                                                             *)

\* Digits are among the characters of alphanumeric mode, the NUL is in no mode.
LEMMA Characters1 ==
  /\ \A c \in Int : isdigit(c) => isalnum(c)
  /\ ~isdigit(0) /\ ~isalnum(0)
BY DEF isdigit, isalnum, lookAnTable

\* What Split_identifyMode says of the byte at a position.
LEMMA ModeAt ==
  ASSUME NEW s \in Seq(Byte), NEW q \in 1..(Len(s) + 2), NEW hint
  PROVE  \/ identifyMode(s, q, hint) = "nul" /\ q > Len(s)
         \/ identifyMode(s, q, hint) = "num" /\ q <= Len(s) /\ isdigit(s[q])
         \/ identifyMode(s, q, hint) = "an" /\ q <= Len(s) /\ isalnum(s[q]) /\ ~isdigit(s[q])
         \/ identifyMode(s, q, hint) = "byte" /\ q <= Len(s) /\ ~isalnum(s[q])
         \/ /\ identifyMode(s, q, hint) = "kanji" /\ q + 1 <= Len(s) /\ ~isalnum(s[q])
            /\ isKanji(s[q], s[q + 1])
<1> DEFINE digit == isdigit(s[q])
           alnum == isalnum(s[q])
           pair  == hint = "kanji" /\ At(s, q + 1) # 0 /\ isKanji(s[q], At(s, q + 1))
<1>1. q \in Nat /\ Len(s) \in Nat
  OBVIOUS
<1>2. q <= Len(s) /\ digit => alnum
  <2>1. ASSUME q <= Len(s) PROVE s[q] \in Int
    <3>1. q \in 1..Len(s)
      BY <2>1
    <3>2. s[q] \in Byte
      BY <3>1
    <3>3. \A x \in Byte : x \in Int
      BY DEF Byte
    <3>4. QED
      BY <3>2, <3>3
  <2>2. QED
    BY <2>1, Characters1
<1>3. pair => q + 1 <= Len(s) /\ isKanji(s[q], s[q + 1])
  BY DEF At
<1>4. identifyMode(s, q, hint) =
        CASE q > Len(s) -> "nul"
          [] q <= Len(s) /\ digit -> "num"
          [] q <= Len(s) /\ alnum /\ ~digit -> "an"
          [] q <= Len(s) /\ ~alnum -> IF pair THEN "kanji" ELSE "byte"
  BY DEF identifyMode
<1>5. \/ q > Len(s)
      \/ q <= Len(s) /\ digit
      \/ q <= Len(s) /\ alnum /\ ~digit
      \/ q <= Len(s) /\ ~alnum /\ ~digit
  BY <1>1, <1>2
<1> HIDE DEF pair, digit, alnum
<1>6. CASE q > Len(s)
  BY <1>1, <1>4, <1>6
<1>7. CASE q <= Len(s) /\ digit
  BY <1>1, <1>2, <1>4, <1>7 DEF digit
<1>8. CASE q <= Len(s) /\ alnum /\ ~digit
  BY <1>1, <1>4, <1>8 DEF digit, alnum
<1>9. CASE q <= Len(s) /\ ~alnum /\ ~digit
  <2>1. identifyMode(s, q, hint) = IF pair THEN "kanji" ELSE "byte"
    BY <1>1, <1>4, <1>9
  <2>2. QED
    BY <1>3, <1>9, <2>1 DEF alnum
<1>10. QED
  BY <1>5, <1>6, <1>7, <1>8, <1>9

\* A run of a class ends where its first other byte is.
LEMMA RunEnds ==
  ASSUME NEW s \in Seq(Byte), NEW p \in 1..(Len(s) + 1)
  PROVE  /\ EndOf(s, p, "num") \in p..(Len(s) + 1)
         /\ \A q \in p..(EndOf(s, p, "num") - 1) : q <= Len(s) /\ isdigit(s[q])
         /\ EndOf(s, p, "num") <= Len(s) => ~isdigit(s[EndOf(s, p, "num")])
         /\ EndOf(s, p, "an") \in p..(Len(s) + 1)
         /\ \A q \in p..(EndOf(s, p, "an") - 1) : q <= Len(s) /\ isalnum(s[q])
         /\ EndOf(s, p, "an") <= Len(s) => ~isalnum(s[EndOf(s, p, "an")])
<1> DEFINE Ends(class) == {q \in p..(Len(s) + 1) :
                 q > Len(s) \/ ~(IF class = "num" THEN isdigit(s[q]) ELSE isalnum(s[q]))}
<1>1. ASSUME NEW class
      PROVE  EndOf(s, p, class) \in Ends(class)
               /\ \A q \in Ends(class) : EndOf(s, p, class) <= q
  <2>1. Ends(class) \in SUBSET Nat /\ Len(s) + 1 \in Ends(class)
    OBVIOUS
  <2>2. EndOf(s, p, class) = CHOOSE m \in Ends(class) : \A q \in Ends(class) : m <= q
    BY DEF EndOf, Min
  <2> HIDE DEF Ends
  <2>3. \E m \in Ends(class) : \A q \in Ends(class) : m <= q
    BY <2>1, LeastElement
  <2>4. QED
    BY <2>2, <2>3
<1>2. ASSUME NEW class, NEW q \in p..(EndOf(s, p, class) - 1)
      PROVE  q <= Len(s) /\ IF class = "num" THEN isdigit(s[q]) ELSE isalnum(s[q])
  <2>1. EndOf(s, p, class) \in p..(Len(s) + 1)
    BY <1>1
  <2>2. q \in p..(Len(s) + 1) /\ ~(EndOf(s, p, class) <= q)
    BY <2>1
  <2>3. q \notin Ends(class)
    BY <1>1, <2>2
  <2>4. QED
    BY <2>2, <2>3
<1>3. EndOf(s, p, "num") \in Ends("num") /\ EndOf(s, p, "an") \in Ends("an")
  BY <1>1
<1>4. /\ EndOf(s, p, "num") <= Len(s) => ~isdigit(s[EndOf(s, p, "num")])
      /\ EndOf(s, p, "an") <= Len(s) => ~isalnum(s[EndOf(s, p, "an")])
  BY <1>3
<1>5. EndOf(s, p, "num") \in p..(Len(s) + 1) /\ EndOf(s, p, "an") \in p..(Len(s) + 1)
  BY <1>3
<1>6. QED
  BY <1>2, <1>4, <1>5

\* So it is not empty where one of its class begins.
LEMMA RunBegins ==
  ASSUME NEW s \in Seq(Byte), NEW p \in 1..Len(s)
  PROVE  /\ isdigit(s[p]) => EndOf(s, p, "num") > p
         /\ isalnum(s[p]) => EndOf(s, p, "an") > p
<1>1. p \in 1..(Len(s) + 1) /\ p <= Len(s) /\ p \in Nat
  OBVIOUS
<1> DEFINE d == EndOf(s, p, "num")
           a == EndOf(s, p, "an")
<1>2. d \in p..(Len(s) + 1) /\ (d <= Len(s) => ~isdigit(s[d]))
  BY <1>1, RunEnds
<1>3. a \in p..(Len(s) + 1) /\ (a <= Len(s) => ~isalnum(s[a]))
  BY <1>1, RunEnds
<1> HIDE DEF d, a
<1>4. isdigit(s[p]) => d > p
  BY <1>1, <1>2
<1>5. isalnum(s[p]) => a > p
  BY <1>1, <1>3
<1>6. QED
  BY <1>4, <1>5 DEF d, a

-----------------------------------------------------------------------------
(* The four functions that eat a string take at least one byte, and no more*)
(* than there are.                                                         *)

Taken(s, p, t) ==
  /\ t.size \in 1..(Len(s) + 1 - p)
  /\ \/ t.mode = "byte"
     \/ t.mode = "num" /\ \A i \in p..(p + t.size - 1) : isdigit(s[i])
     \/ t.mode = "an" /\ \A i \in p..(p + t.size - 1) : isalnum(s[i])
     \/ /\ t.mode = "kanji" /\ t.size % 2 = 0
        /\ \A k \in 1..(t.size \div 2) : isKanji(s[p + 2 * k - 2], s[p + 2 * k - 1])

\* Of bytes, whatever makes another mode look cheaper.
LEMMA Eat8Takes ==
  ASSUME NEW s \in Seq(Byte), NEW p \in 1..Len(s), NEW v, NEW hint
  PROVE  Taken(s, p, Eat8(s, p, v, hint))
<1> DEFINE N    == Len(s) + 1
           M(q) == identifyMode(s, q, hint)
           R(q) == EndOf(s, q, M(q))
           back(q) == IF M(q) = "byte" THEN Indicator("byte", v) ELSE 0
           estimate(n, mode) == IF mode = "num" THEN estimateBitsModeNum(n) ELSE estimateBitsModeAn(n)
           Leaves(q) == estimate(R(q) - q, M(q)) + Indicator(M(q), v) + back(R(q))
                          < estimateBitsMode8(R(q) - q)
           Body(f, q) == IF M(q) \in {"nul", "kanji"} THEN q
                         ELSE IF M(q) = "byte" THEN f[q + 1]
                         ELSE IF Leaves(q) THEN q ELSE f[R(q)]
           F == CHOOSE from : from = [q \in 1..(Len(s) + 1) |-> Body(from, q)]
<1>1. Eat8(s, p, v, hint) = [mode |-> "byte", size |-> F[p + 1] - p]
  BY DEF Eat8
<1>2. N \in Nat /\ p + 1 \in 1..N
  OBVIOUS
<1>3. ASSUME NEW q \in 1..N
      PROVE  /\ M(q) \in {"nul", "num", "an", "byte", "kanji"}
             /\ M(q) \in {"num", "an"} => R(q) \in (q + 1)..N
             /\ M(q) = "byte" => q + 1 \in (q + 1)..N
  <2>1. q \in 1..(Len(s) + 2) /\ (q <= Len(s) => q \in 1..Len(s))
    OBVIOUS
  <2>2. EndOf(s, q, "num") \in q..N /\ EndOf(s, q, "an") \in q..N
    BY RunEnds
  <2>3. q <= Len(s) => /\ isdigit(s[q]) => EndOf(s, q, "num") > q
                       /\ isalnum(s[q]) => EndOf(s, q, "an") > q
    BY <2>1, RunBegins
  <2>4. M(q) = "num" => R(q) \in (q + 1)..N
    BY <2>1, <2>2, <2>3, ModeAt
  <2>5. M(q) = "an" => R(q) \in (q + 1)..N
    BY <2>1, <2>2, <2>3, ModeAt
  <2>6. QED
    BY <2>1, <2>4, <2>5, ModeAt
<1> DEFINE Stop == {q \in 1..N : \/ M(q) \in {"nul", "kanji"}
                                 \/ M(q) # "byte" /\ Leaves(q)}
           base == [q \in 1..N |-> q]
           next == [q \in 1..N |-> IF M(q) = "byte" THEN q + 1 ELSE R(q)]
           h    == [q \in 1..N |-> [x \in 1..N |-> x]]
<1> HIDE DEF M, R, Leaves
<1>4. \A q \in 1..N : q \notin Stop => next[q] \in (q + 1)..N
  BY <1>3
<1>5. PICK f : Computes(f, N, 1..N, Stop, base, next, h)
  <2>1. Recursion(N, 1..N, Stop, base, next, h)
    BY <1>4 DEF Recursion
  <2> HIDE DEF N, Stop, base, next, h
  <2>2. QED
    BY <1>2, <2>1, UpwardsExists
<1>6. ASSUME NEW q \in 1..N PROVE f[q] = Body(f, q)
  <2>1. q \in Stop => f[q] = q
    BY <1>5 DEF Computes
  <2>2. q \notin Stop => f[q] = f[next[q]]
    <3>1. q \notin Stop => next[q] \in 1..N
      BY <1>4
    <3>2. q \notin Stop => f[next[q]] \in 1..N
      BY <1>5, <3>1 DEF Computes
    <3>3. QED
      BY <1>5, <3>2 DEF Computes
  <2>3. M(q) \in {"nul", "num", "an", "byte", "kanji"}
    BY <1>3
  <2>4. QED
    BY <2>1, <2>2, <2>3
<1>7. F = [q \in 1..N |-> Body(F, q)]
  <2>1. f = [q \in 1..N |-> Body(f, q)]
    BY <1>5, <1>6 DEF Computes
  <2> HIDE DEF Body
  <2>2. QED
    BY <2>1
<1> HIDE DEF F, Stop, base, next, h
<1>8. \A q \in 1..N : F[q] = Body(F, q)
  <2> HIDE DEF Body
  <2>1. QED
    BY <1>7
<1> DEFINE T == {q \in 1..N : F[q] \in q..N}
<1>9. ASSUME NEW q \in 1..N, \A r \in (q + 1)..N : r \in T PROVE q \in T
  <2>1. F[q] = Body(F, q)
    BY <1>8
  <2>2. CASE F[q] = q
    BY <2>2
  <2>3. CASE \E r \in (q + 1)..N : F[q] = F[r]
    BY <1>9, <2>3
  <2>4. F[q] = q \/ \E r \in (q + 1)..N : F[q] = F[r]
    BY <1>3, <2>1
  <2>5. QED
    BY <2>2, <2>3, <2>4
<1>10. F[p + 1] \in (p + 1)..N
  <2>1. \A q \in 1..N : q \in T
    <3> HIDE DEF T, N
    <3>1. QED
      BY <1>2, <1>9, FromTheEnd
  <2>2. QED
    BY <1>2, <2>1
<1>11. QED
  BY <1>1, <1>10 DEF Taken

\* The lengths of headers and payloads that EatAn compares.
LEMMA Lengths ==
  ASSUME NEW v \in Int, NEW n \in Nat
  PROVE  /\ Indicator("num", v) \in Nat /\ Indicator("an", v) \in Nat
         /\ estimateBitsModeNum(n) \in Int /\ estimateBitsModeAn(n) \in Int
         /\ estimateBitsModeAn(0) = 0 /\ estimateBitsModeAn(1) = 6
         /\ estimateBitsModeAn(n + 1) >= estimateBitsModeAn(n) + 5
<1>1. \A m \in Splittable : lengthTableBits[m][VersionRange(v)] \in 8..16
  BY DEF Splittable, VersionRange, lengthTableBits
<1>2. Indicator("num", v) \in Nat /\ Indicator("an", v) \in Nat
  BY <1>1 DEF Indicator, LengthIndicator, Splittable, MODE_INDICATOR_SIZE
<1>3. estimateBitsModeNum(n) \in Int
  <2>1. n \div 3 \in Int /\ n % 3 \in 0..2
    OBVIOUS
  <2>2. <<0, 4, 7>>[(n % 3) + 1] \in Int
    BY <2>1
  <2> DEFINE tail == <<0, 4, 7>>[(n % 3) + 1]
             full == n \div 3
  <2>3. tail \in Int /\ full \in Int
    BY <2>1, <2>2
  <2> HIDE DEF tail, full
  <2>4. full * 10 + tail \in Int
    BY <2>3
  <2>5. QED
    BY <2>4 DEF full, tail, estimateBitsModeNum
<1>4. estimateBitsModeAn(n) \in Int
  BY DEF estimateBitsModeAn
<1>5. estimateBitsModeAn(0) = 0 /\ estimateBitsModeAn(1) = 6
  BY DEF estimateBitsModeAn
<1>6. estimateBitsModeAn(n + 1) >= estimateBitsModeAn(n) + 5
  BY DEF estimateBitsModeAn
<1>7. QED
  BY <1>2, <1>3, <1>4, <1>5, <1>6

\* Of letters and digits, from a letter, or from digits that EatNum has found too
\* few before a letter: those digits alone never look cheaper to EatAn.
LEMMA EatAnTakes ==
  ASSUME NEW s \in Seq(Byte), NEW p \in 1..Len(s), NEW v \in Int, NEW hint, isalnum(s[p]),
         isdigit(s[p]) =>
           LET r == EndOf(s, p, "num")
           IN  /\ identifyMode(s, r, hint) = "an"
               /\ estimateBitsModeNum(r - p) + Indicator("num", v) + estimateBitsModeAn(1)
                    > estimateBitsModeAn(r - p + 1)
  PROVE  Taken(s, p, EatAn(s, p, v, hint))
<1> DEFINE N      == Len(s) + 1
           R(q)   == EndOf(s, q, "num")
           Alnum(q) == isalnum(At(s, q))
           Digit(q) == isdigit(At(s, q))
           sw(q)  == IF Alnum(R(q)) THEN Indicator("num", v) ELSE 0
           Dif(q) == estimateBitsModeAn(q - p) + estimateBitsModeNum(R(q) - q)
                       + Indicator("num", v) + sw(q) - estimateBitsModeAn(R(q) - p)
           Body(f, q) == IF ~Alnum(q) THEN q
                         ELSE IF ~Digit(q) THEN f[q + 1]
                         ELSE IF Dif(q) < 0 THEN q ELSE f[R(q)]
           F == CHOOSE from : from = [q \in 1..(Len(s) + 1) |-> Body(from, q)]
<1>1. EatAn(s, p, v, hint) =
        IF /\ At(s, F[p]) # 0 /\ ~Alnum(F[p])
           /\ Together(estimateBitsModeAn(F[p] - p), F[p] - p, "an", v)
        THEN Eat8(s, p, v, hint)
        ELSE [mode |-> "an", size |-> F[p] - p]
  BY DEF EatAn
<1>2. N \in Nat /\ p \in 1..N /\ p <= Len(s) /\ p \in Nat
  OBVIOUS
<1>3. ASSUME NEW q \in 1..N
      PROVE  /\ R(q) \in q..N
             /\ Alnum(q) => q <= Len(s) /\ isalnum(s[q]) /\ q + 1 \in (q + 1)..N
             /\ Digit(q) => R(q) > q
             /\ \A i \in q..(R(q) - 1) : isalnum(s[i])
  <2>1. R(q) \in q..N /\ \A i \in q..(R(q) - 1) : i <= Len(s) /\ isdigit(s[i])
    BY RunEnds
  <2>2. /\ Alnum(q) => q <= Len(s) /\ isalnum(s[q])
        /\ Digit(q) => q <= Len(s) /\ isdigit(s[q])
    BY Characters1 DEF At
  <2>3. q <= Len(s) => q \in 1..Len(s) /\ q + 1 \in (q + 1)..N
    OBVIOUS
  <2>4. Digit(q) => R(q) > q
    BY <2>2, <2>3, RunBegins
  <2>5. ASSUME NEW i \in q..(R(q) - 1) PROVE isalnum(s[i])
    <3>1. i \in 1..Len(s) /\ isdigit(s[i])
      BY <2>1
    <3>2. s[i] \in Byte
      BY <3>1
    <3>3. s[i] \in Int
      <4>1. \A x \in Byte : x \in Int
        BY DEF Byte
      <4>2. QED
        BY <3>2, <4>1
    <3>4. QED
      BY <3>1, <3>3, Characters1
  <2>6. QED
    BY <2>1, <2>2, <2>3, <2>4, <2>5
<1>4. Alnum(p) /\ (Digit(p) => ~(Dif(p) < 0))
  <2>1. At(s, p) = s[p] /\ Alnum(p)
    BY <1>2 DEF At
  <2>2. ASSUME Digit(p) PROVE ~(Dif(p) < 0)
    <3> DEFINE r == R(p)
               b == estimateBitsModeNum(r - p)
               a == estimateBitsModeAn(r - p)
               c == estimateBitsModeAn(r - p + 1)
               I == Indicator("num", v)
    <3>1. r \in p..N /\ r - p \in Nat /\ r \in 1..(Len(s) + 2)
      BY <1>2, <1>3
    <3>2. identifyMode(s, r, hint) = "an" /\ b + I + estimateBitsModeAn(1) > c
      BY <2>1, <2>2
    <3>3. r <= Len(s) /\ isalnum(s[r])
      BY <3>1, <3>2, ModeAt
    <3>4. Alnum(r)
      BY <3>3 DEF At
    <3>5. /\ I \in Nat /\ a \in Int /\ b \in Int /\ c \in Int /\ c >= a + 5
          /\ estimateBitsModeAn(0) = 0 /\ estimateBitsModeAn(1) = 6
      <4>1. r - p + 1 \in Nat
        BY <3>1
      <4> HIDE DEF r
      <4>2. QED
        BY <3>1, <4>1, Lengths
    <3>6. p - p = 0
      BY <1>2
    <3>7. Dif(p) = estimateBitsModeAn(p - p) + b + I + I - a
      BY <3>4
    <3> HIDE DEF r, a, b, c, I, Dif
    <3>8. Dif(p) = b + I + I - a
      BY <3>5, <3>6, <3>7
    <3>9. QED
      BY <3>2, <3>5, <3>8
  <2>3. QED
    BY <2>1, <2>2
<1> DEFINE Stop == {q \in 1..N : ~Alnum(q) \/ (Digit(q) /\ Dif(q) < 0)}
           base == [q \in 1..N |-> q]
           next == [q \in 1..N |-> IF Digit(q) THEN R(q) ELSE q + 1]
           h    == [q \in 1..N |-> [x \in 1..N |-> x]]
<1> HIDE DEF Alnum, Digit, R, Dif
<1>5. \A q \in 1..N : q \notin Stop => next[q] \in (q + 1)..N
  BY <1>3
<1>6. PICK f : Computes(f, N, 1..N, Stop, base, next, h)
  <2>1. Recursion(N, 1..N, Stop, base, next, h)
    BY <1>5 DEF Recursion
  <2> HIDE DEF N, Stop, base, next, h
  <2>2. QED
    BY <1>2, <2>1, UpwardsExists
<1>7. ASSUME NEW q \in 1..N PROVE f[q] = Body(f, q)
  <2>1. q \in Stop => f[q] = q
    BY <1>6 DEF Computes
  <2>2. q \notin Stop => f[q] = f[next[q]]
    <3>1. q \notin Stop => next[q] \in 1..N
      BY <1>5
    <3>2. q \notin Stop => f[next[q]] \in 1..N
      BY <1>6, <3>1 DEF Computes
    <3>3. QED
      BY <1>6, <3>2 DEF Computes
  <2>3. QED
    BY <2>1, <2>2
<1>8. F = [q \in 1..N |-> Body(F, q)]
  <2>1. f = [q \in 1..N |-> Body(f, q)]
    BY <1>6, <1>7 DEF Computes
  <2> HIDE DEF Body
  <2>2. QED
    BY <2>1
<1> HIDE DEF F, Stop, base, next, h
<1>9. \A q \in 1..N : F[q] = Body(F, q)
  <2> HIDE DEF Body
  <2>1. QED
    BY <1>8
<1> DEFINE T == {q \in 1..N : F[q] \in q..N /\ \A i \in q..(F[q] - 1) : isalnum(s[i])}
<1>10. ASSUME NEW q \in 1..N, \A r \in (q + 1)..N : r \in T PROVE q \in T
  <2>1. F[q] = Body(F, q)
    BY <1>9
  <2>2. CASE F[q] = q
    BY <2>2
  <2>3. ASSUME NEW r \in (q + 1)..N, F[q] = F[r], \A i \in q..(r - 1) : isalnum(s[i])
        PROVE  q \in T
    <3>1. F[r] \in r..N /\ \A i \in r..(F[r] - 1) : isalnum(s[i])
      BY <1>10
    <3>2. ASSUME NEW i \in q..(F[r] - 1) PROVE isalnum(s[i])
      <4>1. i \in q..(r - 1) \/ i \in r..(F[r] - 1)
        BY <3>1
      <4>2. QED
        BY <2>3, <3>1, <4>1
    <3>3. QED
      BY <2>3, <3>1, <3>2
  <2>4. \/ F[q] = q
        \/ \E r \in (q + 1)..N : F[q] = F[r] /\ \A i \in q..(r - 1) : isalnum(s[i])
    <3>1. CASE ~Alnum(q) \/ (Digit(q) /\ Dif(q) < 0)
      BY <2>1, <3>1
    <3>2. CASE Alnum(q) /\ ~Digit(q)
      <4>1. F[q] = F[q + 1] /\ q + 1 \in (q + 1)..N /\ isalnum(s[q])
        BY <1>3, <2>1, <3>2
      <4>2. \A i \in q..(q + 1 - 1) : i = q
        OBVIOUS
      <4>3. QED
        BY <4>1, <4>2
    <3>3. CASE Alnum(q) /\ Digit(q) /\ ~(Dif(q) < 0)
      <4>1. F[q] = F[R(q)] /\ R(q) \in (q + 1)..N
        BY <1>3, <2>1, <3>3
      <4>2. QED
        BY <1>3, <4>1
    <3>4. QED
      BY <3>1, <3>2, <3>3
  <2>5. QED
    BY <2>2, <2>3, <2>4
<1>11. \A q \in 1..N : q \in T
  <2> HIDE DEF T, N
  <2>1. QED
    BY <1>2, <1>10, FromTheEnd
<1>12. F[p] \in (p + 1)..N /\ \A i \in p..(F[p] - 1) : isalnum(s[i])
  <2>1. F[p] \in p..N /\ \A i \in p..(F[p] - 1) : isalnum(s[i])
    BY <1>2, <1>11
  <2>2. \E r \in (p + 1)..N : F[p] = F[r]
    <3>1. F[p] = Body(F, p)
      BY <1>2, <1>9
    <3>2. QED
      BY <1>2, <1>3, <1>4, <3>1
  <2>3. PICK r \in (p + 1)..N : F[p] = F[r]
    BY <2>2
  <2>4. r \in T /\ r \in 1..N
    BY <1>2, <1>11, <2>3
  <2>5. F[p] \in r..N
    BY <2>3, <2>4
  <2>6. QED
    BY <1>2, <2>1, <2>3, <2>5
<1>13. CASE EatAn(s, p, v, hint) = Eat8(s, p, v, hint)
  BY <1>13, Eat8Takes
<1>14. CASE EatAn(s, p, v, hint) = [mode |-> "an", size |-> F[p] - p]
  <2>1. F[p] - p \in 1..(Len(s) + 1 - p) /\ p + (F[p] - p) - 1 = F[p] - 1
    <3> DEFINE e == F[p]
    <3>1. e \in (p + 1)..(Len(s) + 1) /\ p \in Nat /\ Len(s) \in Nat
      BY <1>2, <1>12
    <3> HIDE DEF e
    <3>2. e - p \in 1..(Len(s) + 1 - p) /\ p + (e - p) - 1 = e - 1
      BY <3>1
    <3>3. QED
      BY <3>2 DEF e
  <2>2. QED
    BY <1>12, <1>14, <2>1 DEF Taken
<1>15. QED
  BY <1>1, <1>13, <1>14

\* Of digits, or of what the digits begin.
LEMMA EatNumTakes ==
  ASSUME NEW s \in Seq(Byte), NEW p \in 1..Len(s), NEW v \in Int, NEW hint, isdigit(s[p])
  PROVE  Taken(s, p, EatNum(s, p, v, hint))
<1> DEFINE end  == EndOf(s, p, "num")
           run  == end - p
           next == identifyMode(s, end, hint)
           est == estimateBitsModeNum(run)
<1>1. EatNum(s, p, v, hint) =
        IF next = "byte" /\ Together(est, run, "num", v) THEN Eat8(s, p, v, hint)
        ELSE IF next = "an" /\ est + Indicator("num", v) + estimateBitsModeAn(1)
                                 > estimateBitsModeAn(run + 1)
             THEN EatAn(s, p, v, hint)
             ELSE [mode |-> "num", size |-> run]
  BY DEF EatNum
<1>2. p \in 1..(Len(s) + 1) /\ p \in Nat /\ Len(s) \in Nat /\ isalnum(s[p])
  <2>1. s[p] \in Byte
    OBVIOUS
  <2>2. \A x \in Byte : x \in Int
    BY DEF Byte
  <2>3. QED
    BY <2>1, <2>2, Characters1
<1>3. end \in (p + 1)..(Len(s) + 1) /\ \A i \in p..(end - 1) : isdigit(s[i])
  <2>1. end \in p..(Len(s) + 1) /\ \A i \in p..(end - 1) : isdigit(s[i])
    BY <1>2, RunEnds
  <2>2. end > p
    BY RunBegins
  <2> HIDE DEF end
  <2>3. QED
    BY <1>2, <2>1, <2>2
<1>4. CASE EatNum(s, p, v, hint) = Eat8(s, p, v, hint)
  BY <1>4, Eat8Takes
<1>5. CASE /\ next = "an"
           /\ est + Indicator("num", v) + estimateBitsModeAn(1) > estimateBitsModeAn(run + 1)
           /\ EatNum(s, p, v, hint) = EatAn(s, p, v, hint)
  <2>1. Taken(s, p, EatAn(s, p, v, hint))
    BY <1>2, <1>5, EatAnTakes
  <2>2. QED
    BY <1>5, <2>1
<1>6. CASE EatNum(s, p, v, hint) = [mode |-> "num", size |-> run]
  <2> HIDE DEF end
  <2>1. run \in 1..(Len(s) + 1 - p) /\ p + run - 1 = end - 1
    BY <1>2, <1>3
  <2>2. QED
    BY <1>3, <1>6, <2>1 DEF Taken
<1> HIDE DEF end, run, next, est
<1>7. QED
  BY <1>1, <1>4, <1>5, <1>6

\* Of pairs of bytes: a pair is looked at as a whole, and never beyond the end.
LEMMA EatKanjiTakes ==
  ASSUME NEW s \in Seq(Byte), NEW p \in 1..Len(s), NEW v, NEW hint,
         identifyMode(s, p, hint) = "kanji"
  PROVE  Taken(s, p, EatKanji(s, p, v, hint))
<1> DEFINE N == Len(s) + 2
           Kanji(q) == identifyMode(s, q, hint) = "kanji"
           Body(f, q) == IF Kanji(q) THEN f[q + 2] ELSE q
           F == CHOOSE from : from = [q \in 1..(Len(s) + 2) |-> Body(from, q)]
<1>1. EatKanji(s, p, v, hint) = [mode |-> "kanji", size |-> F[p] - p]
  BY DEF EatKanji
<1>2. N \in Nat /\ p \in 1..N /\ p <= Len(s) /\ p \in Nat /\ Len(s) \in Nat
  OBVIOUS
<1>3. ASSUME NEW q \in 1..N, Kanji(q)
      PROVE  q + 2 \in (q + 1)..(Len(s) + 1) /\ isKanji(s[q], s[q + 1])
  <2>1. q + 1 <= Len(s) /\ isKanji(s[q], s[q + 1])
    BY <1>3, ModeAt
  <2>2. QED
    BY <2>1
<1>4. Kanji(p)
  OBVIOUS
<1> DEFINE Stop == {q \in 1..N : ~Kanji(q)}
           base == [q \in 1..N |-> q]
           next == [q \in 1..N |-> q + 2]
           h    == [q \in 1..N |-> [x \in 1..N |-> x]]
<1> HIDE DEF Kanji
<1>5. \A q \in 1..N : q \notin Stop => next[q] \in (q + 1)..N
  BY <1>3
<1>6. PICK f : Computes(f, N, 1..N, Stop, base, next, h)
  <2>1. Recursion(N, 1..N, Stop, base, next, h)
    BY <1>5 DEF Recursion
  <2> HIDE DEF N, Stop, base, next, h
  <2>2. QED
    BY <1>2, <2>1, UpwardsExists
<1>7. ASSUME NEW q \in 1..N PROVE f[q] = Body(f, q)
  <2>1. q \in Stop => f[q] = q
    BY <1>6 DEF Computes
  <2>2. q \notin Stop => f[q] = f[next[q]]
    <3>1. q \notin Stop => next[q] \in 1..N
      BY <1>5
    <3>2. q \notin Stop => f[next[q]] \in 1..N
      BY <1>6, <3>1 DEF Computes
    <3>3. QED
      BY <1>6, <3>2 DEF Computes
  <2>3. QED
    BY <2>1, <2>2
<1>8. F = [q \in 1..N |-> Body(F, q)]
  <2>1. f = [q \in 1..N |-> Body(f, q)]
    BY <1>6, <1>7 DEF Computes
  <2> HIDE DEF Body
  <2>2. QED
    BY <2>1
<1> HIDE DEF F, Stop, base, next, h
<1>9. \A q \in 1..N : F[q] = Body(F, q)
  <2> HIDE DEF Body
  <2>1. QED
    BY <1>8
\* Pairs(q, e): from q up to e there are kanji.
<1> DEFINE Pairs(q, e) ==
             /\ e \in q..N /\ (e - q) % 2 = 0
             /\ \A k \in 1..((e - q) \div 2) : isKanji(s[q + 2 * k - 2], s[q + 2 * k - 1])
           T == {q \in 1..N : Pairs(q, F[q]) /\ (q <= Len(s) + 1 => F[q] <= Len(s) + 1)}
<1>10. ASSUME NEW q \in 1..N, \A r \in (q + 1)..N : r \in T PROVE q \in T
  <2>1. CASE ~Kanji(q)
    <3>1. F[q] = q
      BY <1>9, <2>1
    <3>2. q - q = 0 /\ 0 % 2 = 0 /\ 0 \div 2 = 0 /\ 1..0 = {}
      OBVIOUS
    <3>3. QED
      BY <3>1, <3>2
  <2>2. CASE Kanji(q)
    <3> DEFINE e == F[q + 2]
    <3>1. F[q] = e /\ q + 2 \in (q + 1)..(Len(s) + 1) /\ isKanji(s[q], s[q + 1])
      BY <1>3, <1>9, <2>2
    <3>2. Pairs(q + 2, e) /\ e <= Len(s) + 1
      BY <1>2, <1>10, <3>1
    <3> HIDE DEF e
    <3>3. /\ e \in q..N /\ (e - q) % 2 = 0
          /\ (e - q) \div 2 = (e - (q + 2)) \div 2 + 1 /\ (e - (q + 2)) \div 2 \in Nat
      BY <1>2, <3>1, <3>2
    <3>4. ASSUME NEW k \in 1..((e - q) \div 2)
          PROVE  isKanji(s[q + 2 * k - 2], s[q + 2 * k - 1])
      <4>1. CASE k = 1
        <5>1. q + 2 * k - 2 = q /\ q + 2 * k - 1 = q + 1
          BY <4>1
        <5>2. QED
          BY <3>1, <5>1
      <4>2. CASE k # 1
        <5>1. /\ k - 1 \in 1..((e - (q + 2)) \div 2)
              /\ q + 2 + 2 * (k - 1) - 2 = q + 2 * k - 2
              /\ q + 2 + 2 * (k - 1) - 1 = q + 2 * k - 1
          BY <3>3, <4>2
        <5>2. QED
          BY <3>2, <5>1
      <4>3. QED
        BY <4>1, <4>2
    <3>5. Pairs(q, e)
      BY <3>3, <3>4
    <3>6. QED
      BY <3>1, <3>2, <3>5
  <2>3. QED
    BY <2>1, <2>2
<1>11. \A q \in 1..N : q \in T
  <2> HIDE DEF T, N
  <2>1. QED
    BY <1>2, <1>10, FromTheEnd
<1>12. Pairs(p, F[p]) /\ F[p] <= Len(s) + 1 /\ F[p] > p
  <2>1. Pairs(p, F[p]) /\ F[p] <= Len(s) + 1
    BY <1>2, <1>11
  <2>2. F[p] = F[p + 2] /\ p + 2 \in 1..N
    BY <1>2, <1>3, <1>4, <1>9
  <2>3. F[p + 2] \in (p + 2)..N
    BY <1>11, <2>2
  <2>4. QED
    BY <1>2, <2>1, <2>2, <2>3
<1>13. F[p] - p \in 1..(Len(s) + 1 - p)
  <2> DEFINE e == F[p]
  <2>1. e \in p..N /\ e <= Len(s) + 1 /\ e > p
    BY <1>12
  <2> HIDE DEF e
  <2>2. e - p \in 1..(Len(s) + 1 - p)
    BY <1>2, <2>1
  <2>3. QED
    BY <2>2 DEF e
<1>14. QED
  BY <1>1, <1>12, <1>13 DEF Taken

\* Split_splitString: QRinput_append accepts what is cut from the front.
LEMMA PieceAccepted ==
  ASSUME NEW s \in Seq(Byte), s # << >>, NEW v \in Int, NEW hint
  PROVE  /\ Eat(s, 1, v, hint).size \in 1..Len(s)
         /\ Eat(s, 1, v, hint).mode \in Splittable
         /\ Check(Eat(s, 1, v, hint).mode, Piece(s, 1, Eat(s, 1, v, hint).size))
<1> DEFINE t == Eat(s, 1, v, hint)
           d == Piece(s, 1, t.size)
<1>1. 1 \in 1..Len(s) /\ 1 \in 1..(Len(s) + 2) /\ Len(s) \in Nat /\ ~(1 > Len(s))
  OBVIOUS
<1>2. Taken(s, 1, t)
  <2> DEFINE m == identifyMode(s, 1, hint)
  <2>1. /\ m \in {"num", "an", "kanji", "byte"}
        /\ m = "num" => isdigit(s[1])
        /\ m = "an" => isalnum(s[1]) /\ ~isdigit(s[1])
    BY <1>1, ModeAt
  <2>2. t = CASE m = "num"   -> EatNum(s, 1, v, hint)
              [] m = "an"    -> EatAn(s, 1, v, hint)
              [] m = "kanji" -> EatKanji(s, 1, v, hint)
              [] m = "byte"  -> Eat8(s, 1, v, hint)
    BY DEF Eat
  <2>3. m = "num" => t = EatNum(s, 1, v, hint)
    BY <2>2
  <2>4. m = "an" => t = EatAn(s, 1, v, hint)
    BY <2>2
  <2>5. m = "kanji" => t = EatKanji(s, 1, v, hint)
    BY <2>2
  <2>6. m = "byte" => t = Eat8(s, 1, v, hint)
    BY <2>2
  <2>7. m = "num" => Taken(s, 1, t)
    BY <1>1, <2>1, <2>3, EatNumTakes
  <2>8. m = "an" => Taken(s, 1, t)
    BY <1>1, <2>1, <2>4, EatAnTakes
  <2>9. m = "kanji" => Taken(s, 1, t)
    BY <1>1, <2>5, EatKanjiTakes
  <2>10. m = "byte" => Taken(s, 1, t)
    BY <1>1, <2>6, Eat8Takes
  <2>11. QED
    BY <2>1, <2>7, <2>8, <2>9, <2>10
<1> HIDE DEF t
<1>3. t.size \in 1..Len(s) /\ Len(s) + 1 - 1 = Len(s)
  BY <1>1, <1>2 DEF Taken
<1>4. /\ d = [i \in 1..t.size |-> s[i]] /\ Len(d) = t.size /\ DOMAIN d = 1..t.size
      /\ \A i \in 1..t.size : d[i] = s[i]
  <2>1. t.size \in Nat /\ t.size - 1 + 1 = t.size /\ \A i \in 1..t.size : 1 + i - 1 = i
    BY <1>3
  <2>2. d = [i \in 1..t.size |-> s[i]]
    BY <2>1 DEF Piece
  <2> HIDE DEF d
  <2>3. QED
    BY <2>1, <2>2
<1> HIDE DEF d
<1>5. Len(d) > 0
  BY <1>3, <1>4
<1>6. ASSUME t.mode = "byte" PROVE Check(t.mode, d)
  BY <1>5, <1>6 DEF Check
<1>7. ASSUME t.mode = "num" /\ \A i \in 1..(1 + t.size - 1) : isdigit(s[i])
      PROVE  Check(t.mode, d)
  <2>1. \A i \in DOMAIN d : isdigit(d[i])
    BY <1>3, <1>4, <1>7
  <2>2. QED
    BY <1>5, <1>7, <2>1 DEF Check
<1>8. ASSUME t.mode = "an" /\ \A i \in 1..(1 + t.size - 1) : isalnum(s[i])
      PROVE  Check(t.mode, d)
  <2>1. \A i \in DOMAIN d : isalnum(d[i])
    BY <1>3, <1>4, <1>8
  <2>2. QED
    BY <1>5, <1>8, <2>1 DEF Check
<1>9. ASSUME /\ t.mode = "kanji" /\ t.size % 2 = 0
             /\ \A k \in 1..(t.size \div 2) : isKanji(s[1 + 2 * k - 2], s[1 + 2 * k - 1])
      PROVE  Check(t.mode, d)
  <2>1. ASSUME NEW k \in 1..(Len(d) \div 2) PROVE isKanji(d[2 * k - 1], d[2 * k])
    <3>1. /\ k \in 1..(t.size \div 2) /\ 2 * k - 1 \in 1..t.size /\ 2 * k \in 1..t.size
          /\ 1 + 2 * k - 2 = 2 * k - 1 /\ 1 + 2 * k - 1 = 2 * k
      BY <1>3, <1>4
    <3>2. d[2 * k - 1] = s[2 * k - 1] /\ d[2 * k] = s[2 * k]
      BY <1>4, <3>1
    <3>3. QED
      BY <1>9, <3>1, <3>2
  <2>2. QED
    BY <1>4, <1>5, <1>9, <2>1 DEF Check
<1>10. Check(t.mode, d)
  BY <1>2, <1>6, <1>7, <1>8, <1>9 DEF Taken
<1>11. t.mode \in Splittable
  BY <1>2 DEF Taken, Splittable
<1>12. QED
  BY <1>3, <1>10, <1>11 DEF t, d

-----------------------------------------------------------------------------
(* The string as a whole.                                                  *)

\* dupAndToUpper makes a string of a string.
LEMMA UpperIsString ==
  ASSUME NEW s \in Seq(Byte), NEW hint
  PROVE  ToUpper(s, hint) \in Seq(Byte)
<1> DEFINE N == Len(s) + 2
           Kanji(q) == identifyMode(s, q, hint) = "kanji"
           Two(q) == <<s[q], s[q + 1]>>
           One(q) == <<IF s[q] \in 97..122 THEN s[q] - 32 ELSE s[q]>>
           Body(f, q) == IF q > Len(s) THEN << >>
                         ELSE IF Kanji(q) THEN Two(q) \o f[q + 2] ELSE One(q) \o f[q + 1]
           F == CHOOSE from : from = [q \in 1..(Len(s) + 2) |-> Body(from, q)]
<1>1. ToUpper(s, hint) = F[1]
  BY DEF ToUpper
<1>2. N \in Nat /\ 1 \in 1..N /\ Len(s) \in Nat
  OBVIOUS
<1>3. ASSUME NEW q \in 1..N, ~(q > Len(s))
      PROVE  /\ One(q) \in Seq(Byte) /\ q + 1 \in (q + 1)..N
             /\ Kanji(q) => Two(q) \in Seq(Byte) /\ q + 2 \in (q + 1)..N
  <2>1. q \in 1..Len(s) /\ s[q] \in Byte
    BY <1>3
  <2>2. \A x \in Byte : (IF x \in 97..122 THEN x - 32 ELSE x) \in Byte
    BY DEF Byte
  <2>3. One(q) \in Seq(Byte)
    <3> DEFINE x == IF s[q] \in 97..122 THEN s[q] - 32 ELSE s[q]
    <3>1. x \in Byte
      BY <2>1, <2>2
    <3> HIDE DEF x
    <3>2. <<x>> \in Seq(Byte)
      BY <3>1
    <3>3. QED
      BY <3>2 DEF x
  <2>4. ASSUME Kanji(q) PROVE Two(q) \in Seq(Byte) /\ q + 2 \in (q + 1)..N
    <3>1. q + 1 <= Len(s)
      BY <2>4, ModeAt
    <3>2. q + 1 \in 1..Len(s)
      BY <3>1
    <3>3. s[q + 1] \in Byte
      BY <3>2
    <3>4. QED
      BY <2>1, <3>2, <3>3
  <2>5. QED
    BY <2>1, <2>3, <2>4
<1> DEFINE V    == Seq(Byte)
           Stop == {q \in 1..N : q > Len(s)}
           base == [q \in 1..N |-> << >>]
           next == [q \in 1..N |-> IF Kanji(q) THEN q + 2 ELSE q + 1]
           h    == [q \in 1..N |-> [x \in V |-> IF Kanji(q) THEN Two(q) \o x ELSE One(q) \o x]]
<1> HIDE DEF Kanji, One, Two
<1>4. \A q \in 1..N : q \notin Stop => next[q] \in (q + 1)..N
  BY <1>3
<1>5. \A q \in 1..N : \A x \in V : q \notin Stop => h[q][x] \in V
  <2>1. \A x, y \in Seq(Byte) : x \o y \in Seq(Byte)
    OBVIOUS
  <2>2. QED
    BY <1>3, <2>1
<1>6. PICK f : Computes(f, N, V, Stop, base, next, h)
  <2>1. \A q \in 1..N : base[q] \in V
    OBVIOUS
  <2> HIDE DEF N, V, Stop, base, next, h
  <2>2. Recursion(N, V, Stop, base, next, h)
    BY <1>4, <1>5, <2>1 DEF Recursion
  <2>3. QED
    BY <1>2, <2>2, UpwardsExists
<1>7. ASSUME NEW q \in 1..N PROVE f[q] = Body(f, q)
  <2>1. q \in Stop => f[q] = << >>
    BY <1>6 DEF Computes
  <2>2. q \notin Stop => f[q] = IF Kanji(q) THEN Two(q) \o f[next[q]] ELSE One(q) \o f[next[q]]
    <3>1. q \notin Stop => next[q] \in 1..N
      BY <1>4
    <3>2. q \notin Stop => f[next[q]] \in V
      BY <1>6, <3>1 DEF Computes
    <3>3. q \notin Stop => f[q] = h[q][f[next[q]]]
      BY <1>6 DEF Computes
    <3>4. QED
      BY <3>2, <3>3
  <2>3. QED
    BY <2>1, <2>2
<1>8. F = [q \in 1..N |-> Body(F, q)]
  <2>1. f = [q \in 1..N |-> Body(f, q)]
    BY <1>6, <1>7 DEF Computes
  <2> HIDE DEF Body
  <2>2. QED
    BY <2>1
<1> HIDE DEF F, Stop, base, next, h
<1>9. \A q \in 1..N : F[q] = Body(F, q)
  <2> HIDE DEF Body
  <2>1. QED
    BY <1>8
<1> DEFINE T == {q \in 1..N : F[q] \in V}
<1>10. ASSUME NEW q \in 1..N, \A r \in (q + 1)..N : r \in T PROVE q \in T
  <2>1. F[q] = Body(F, q)
    BY <1>9
  <2>2. SUFFICES F[q] \in Seq(Byte)
    BY DEF T, V
  <2>3. \A x, y \in Seq(Byte) : x \o y \in Seq(Byte)
    OBVIOUS
  <2>4. ASSUME q > Len(s) PROVE F[q] \in Seq(Byte)
    <3>1. F[q] = << >>
      BY <2>1, <2>4
    <3>2. << >> \in Seq(Byte)
      OBVIOUS
    <3> HIDE DEF Body
    <3>3. QED
      BY <3>1, <3>2
  <2>5. ASSUME ~(q > Len(s)), Kanji(q) PROVE F[q] \in Seq(Byte)
    <3>1. Two(q) \in Seq(Byte) /\ q + 2 \in (q + 1)..N
      BY <1>3, <2>5
    <3>2. F[q + 2] \in Seq(Byte)
      BY <1>10, <3>1 DEF T, V
    <3>3. F[q] = Two(q) \o F[q + 2]
      BY <2>1, <2>5
    <3> HIDE DEF Body
    <3>4. QED
      BY <2>3, <3>1, <3>2, <3>3
  <2>6. ASSUME ~(q > Len(s)), ~Kanji(q) PROVE F[q] \in Seq(Byte)
    <3>1. One(q) \in Seq(Byte) /\ q + 1 \in (q + 1)..N
      BY <1>3, <2>6
    <3>2. F[q + 1] \in Seq(Byte)
      BY <1>10, <3>1 DEF T, V
    <3>3. F[q] = One(q) \o F[q + 1]
      BY <2>1, <2>6
    <3> HIDE DEF Body
    <3>4. QED
      BY <2>3, <3>1, <3>2, <3>3
  <2>7. QED
    BY <2>4, <2>5, <2>6
<1>11. \A q \in 1..N : q \in T
  <2> HIDE DEF T, N
  <2>1. QED
    BY <1>2, <1>10, FromTheEnd
<1>12. QED
  BY <1>1, <1>2, <1>11

\* rest is a string, and empty once the entries are built; the version stays the
\* one asked for until then; and a call only fails before that if it was refused.
Cutting ==
  /\ job \in Jobs /\ rest \in Seq(Byte)
  /\ pc = "build" => version = job.version
  /\ pc \notin {"build", "failed"} => rest = << >>
  /\ pc = "failed" => Refused(job) \/ rest = << >>

\* Every version asked for is a number.
LEMMA VersionIsNumber == ASSUME NEW j \in Jobs PROVE j.version \in Int /\ j.text \in Seq(Byte)
<1>1. j.version \in IF j.mqr THEN MVersions ELSE {0} \union Versions
  BY JobsAssumption
<1>2. j.version \in Int
  BY <1>1 DEF Versions, MVersions, VersionMax, MVersionMax
<1>3. j.text \in Seq(1..255)
  BY JobsAssumption
<1>4. QED
  BY <1>2, <1>3 DEF Byte

\* A cut is accepted and leaves a string.
LEMMA SplitStep == ASSUME Cutting, SplitString PROVE Cutting'
<1> DEFINE t == Eat(rest, 1, version, job.hint)
<1>1. /\ job \in Jobs /\ rest \in Seq(Byte) /\ rest # << >> /\ pc = "build"
      /\ version \in Int
  BY VersionIsNumber DEF Cutting, SplitString
<1>2. t.size \in 1..Len(rest) /\ Check(t.mode, Piece(rest, 1, t.size))
  BY <1>1, PieceAccepted
<1>3. /\ Append1(t.mode, Piece(rest, 1, t.size))
      /\ rest' = Piece(rest, t.size + 1, Len(rest)) /\ UNCHANGED <<job, version>>
  BY DEF SplitString, encode
<1> HIDE DEF t
<1>4. pc' = pc
  BY <1>2, <1>3 DEF Append1
<1>5. rest' \in Seq(Byte)
  <2>1. Len(rest) - (t.size + 1) + 1 \in Nat
    BY <1>2
  <2>2. ASSUME NEW i \in 1..(Len(rest) - (t.size + 1) + 1)
        PROVE  rest[t.size + 1 + i - 1] \in Byte
    <3>1. t.size + 1 + i - 1 \in 1..Len(rest)
      BY <1>2
    <3>2. QED
      BY <1>1, <3>1
  <2>3. QED
    BY <1>3, <2>1, <2>2 DEF Piece
<1>6. QED
  BY <1>1, <1>3, <1>4, <1>5 DEF Cutting

\* No step changes that.
LEMMA CuttingStep == ASSUME Cutting, [Next]_vars PROVE Cutting'
<1>1. CASE SplitString
  BY <1>1, SplitStep
<1>2. CASE AppendItem
  BY <1>2 DEF AppendItem, Append1, Cutting, encode
<1>3. CASE Built
  BY <1>3 DEF Built, Cutting, build, encode
<1>4. ASSUME UNCHANGED <<job, rest>>, pc \notin {"build", "failed"}, pc' # "build" PROVE Cutting'
  BY <1>4 DEF Cutting
<1>5. CASE Fits \/ Divide \/ Dealt
  BY <1>4, <1>5 DEF Fits, Divide, Dealt
<1>6. CASE Start \/ EstimateVersion
  BY <1>4, <1>6 DEF Start, EstimateVersion, build
<1>7. CASE EncodeEntry
  BY <1>4, <1>7 DEF EncodeEntry
<1>8. CASE CheckVersion
  BY <1>4, <1>8 DEF CheckVersion
<1>9. CASE Pad
  BY <1>4, <1>9 DEF Pad, build
<1>10. CASE UNCHANGED vars
  BY <1>10 DEF Cutting, vars, build, encode
<1>11. QED
  BY <1>1, <1>2, <1>3, <1>5, <1>6, <1>7, <1>8, <1>9, <1>10 DEF Next

\* The string cut is the one given, in capitals unless case matters.
LEMMA CuttingInit == Init => Cutting
<1> SUFFICES ASSUME Init PROVE Cutting
  OBVIOUS
<1>1. job \in Jobs /\ job.text \in Seq(Byte)
  BY VersionIsNumber DEF Init
<1>2. rest \in Seq(Byte)
  BY <1>1, UpperIsString DEF Init
<1>3. QED
  BY <1>1, <1>2 DEF Init, Cutting

\* Every string is cut to its end: no cut is empty or refused, so that QRinput
\* never fails with a part of the string left over.
THEOREM StringCutToTheEnd == Spec => []StringIsAccepted
<1>1. Init => Cutting
  BY CuttingInit
<1>2. Cutting /\ [Next]_vars => Cutting'
  BY CuttingStep
<1>3. Cutting => StringIsAccepted
  BY DEF Cutting, StringIsAccepted
<1>4. QED
  BY <1>1, <1>2, <1>3, PTL DEF Spec

-----------------------------------------------------------------------------
(* The length of streams.  What their bits are does not matter, so that a  *)
(* stream is a sequence of anything.                                       *)

IsSeq(s) == \E S : s \in Seq(S)

\* A function on 1..n is a sequence of that length.
LEMMA FunctionIsSeq ==
  ASSUME NEW n \in Int, NEW f, f = [k \in 1..n |-> f[k]]
  PROVE  IsSeq(f) /\ (n >= 0 => Len(f) = n)
<1> DEFINE S == {f[k] : k \in 1..n}
           m == IF n >= 0 THEN n ELSE 0
<1>1. m \in Nat /\ 1..n = 1..m
  OBVIOUS
<1>2. \A k \in 1..m : f[k] \in S
  BY <1>1
<1>3. f = [k \in 1..m |-> f[k]]
  BY <1>1
<1> HIDE DEF S, m
<1>4. f \in Seq(S)
  <2>1. \A g : (\A k \in 1..m : g[k] \in S) => [k \in 1..m |-> g[k]] \in Seq(S)
    BY <1>1
  <2>2. QED
    BY <1>2, <1>3, <2>1
<1>5. Len(f) = m
  <2>1. \A g : Len([k \in 1..m |-> g[k]]) = m
    BY <1>1
  <2>2. QED
    BY <1>3, <2>1
<1>6. QED
  BY <1>4, <1>5 DEF IsSeq, m

\* The length of two streams put together.
LEMMA Joined ==
  ASSUME NEW s, NEW t, IsSeq(s), IsSeq(t)
  PROVE  /\ IsSeq(s \o t) /\ Len(s) \in Nat /\ Len(t) \in Nat
         /\ Len(s \o t) = Len(s) + Len(t)
<1>1. PICK S : s \in Seq(S)
  BY DEF IsSeq
<1>2. PICK T : t \in Seq(T)
  BY DEF IsSeq
<1>3. s \in Seq(S \union T) /\ t \in Seq(S \union T)
  BY <1>1, <1>2
<1>4. QED
  BY <1>3 DEF IsSeq

\* BitStream_newFromNum makes as many bits as it is asked for.
LEMMA BitsLength ==
  ASSUME NEW n \in Int, NEW num
  PROVE  IsSeq(Bits(n, num)) /\ (n >= 0 => Len(Bits(n, num)) = n)
<1> DEFINE f == Bits(n, num)
<1>1. f = [k \in 1..n |-> f[k]]
  BY DEF Bits
<1> HIDE DEF f
<1>2. QED
  BY <1>1, FunctionIsSeq DEF f

\* Every number appended adds its width.
LEMMA NumbersLength ==
  ASSUME NEW values, IsSeq(values), NEW width \in Nat
  PROVE  IsSeq(Numbers(values, width)) /\ Len(Numbers(values, width)) = Len(values) * width
<1> DEFINE f == Numbers(values, width)
           n == Len(values) * width
<1>1. Len(values) \in Nat
  BY DEF IsSeq
<1>2. n \in Nat
  BY <1>1
<1>3. f = [k \in 1..n |-> f[k]]
  BY DEF Numbers
<1> HIDE DEF f, n
<1>4. QED
  BY <1>2, <1>3, FunctionIsSeq DEF f, n

\* A byte is eight bits.
LEMMA BytesLength ==
  ASSUME NEW d, IsSeq(d) PROVE IsSeq(Bytes(d)) /\ Len(Bytes(d)) = Len(d) * 8
BY NumbersLength DEF Bytes

\* A piece of anything is a sequence, if an empty one.
LEMMA PieceIsSeq ==
  ASSUME NEW s, NEW from \in Int, NEW to \in Int
  PROVE  /\ IsSeq(Piece(s, from, to))
         /\ to + 1 >= from => Len(Piece(s, from, to)) = to - from + 1
<1> DEFINE f == Piece(s, from, to)
           n == to - from + 1
<1>1. f = [k \in 1..n |-> f[k]] /\ n \in Int
  BY DEF Piece
<1> HIDE DEF f, n
<1>2. QED
  <2>1. IsSeq(f) /\ (n >= 0 => Len(f) = n)
    BY <1>1, FunctionIsSeq
  <2>2. QED
    BY <2>1 DEF f, n

\* What the tables of lengths hold for a mode with a length indicator.
LEMMA IndicatorLengths ==
  ASSUME NEW mode \in Splittable
  PROVE  /\ \A v \in Int : LengthIndicator(mode, v) \in Nat
         /\ \A v \in Int : MaximumWords(mode, v) \in Nat \ {0}
         /\ \A v \in MVersions : MLengthIndicator(mode, v) \in Nat
<1>1. ASSUME NEW v \in Int PROVE LengthIndicator(mode, v) \in {8, 9, 10, 11, 12, 13, 14, 16}
  BY DEF LengthIndicator, Splittable, VersionRange, lengthTableBits
<1>2. ASSUME NEW v \in Int PROVE MaximumWords(mode, v) \in Nat \ {0}
  <2>1. /\ 2 ^ 8 = 256 /\ 2 ^ 9 = 512 /\ 2 ^ 10 = 1024 /\ 2 ^ 11 = 2048 /\ 2 ^ 12 = 4096
        /\ 2 ^ 13 = 8192 /\ 2 ^ 14 = 16384 /\ 2 ^ 16 = 65536
    OBVIOUS
  <2> DEFINE p == 2 ^ LengthIndicator(mode, v)
             x == p - 1
  <2>2. p \in {2 ^ 8, 2 ^ 9, 2 ^ 10, 2 ^ 11, 2 ^ 12, 2 ^ 13, 2 ^ 14, 2 ^ 16}
    BY <1>1, Zenon
  <2>3. MaximumWords(mode, v) = x * (IF mode = "kanji" THEN 2 ELSE 1)
    BY DEF MaximumWords
  <2> HIDE DEF p
  <2>4. x \in Nat \ {0}
    BY <2>1, <2>2
  <2> HIDE DEF x
  <2>5. x * 2 \in Nat \ {0} /\ x * 1 \in Nat \ {0}
    BY <2>4
  <2>6. QED
    BY <2>3, <2>5
<1>3. \A v \in MVersions : MLengthIndicator(mode, v) \in Nat
  BY DEF MLengthIndicator, mlengthTableBits, Splittable, MVersions, MVersionMax
<1>4. QED
  BY <1>1, <1>2, <1>3

\* An entry as QRinput holds it, and a list of them.
IsEntry(e) == /\ e = [mode |-> e.mode, data |-> e.data]
              /\ e.mode \in Splittable \union {"structure", "eci", "fnc1second"}
              /\ IsSeq(e.data)

\* QRinput_check lets none through that is empty, nor half a kanji.
IsItem(e) == /\ IsEntry(e) /\ Len(e.data) > 0
             /\ e.mode = "kanji" => Len(e.data) % 2 = 0
             /\ e.mode = "fnc1second" => Len(e.data) = 1

IsList(l) == IsSeq(l) /\ \A k \in 1..Len(l) : IsItem(l[k])

\* A version that entries are encoded for.
IsVersion(v, mqr) == v \in IF mqr THEN MVersions ELSE {0} \union Versions

\* The header of an entry, in every version that has one.
LEMMA HeaderIsSeq ==
  ASSUME NEW mode \in Splittable, NEW v, NEW mqr \in BOOLEAN, IsVersion(v, mqr), NEW size
  PROVE  IsSeq(Header(mode, v, mqr, size))
<1>1. v \in Int /\ (mqr => v \in MVersions /\ v - 1 \in Int)
  BY DEF IsVersion, MVersions, Versions, MVersionMax, VersionMax
<1> DEFINE n == IF mode = "kanji" THEN size \div 2 ELSE size
<1>2. LengthIndicator(mode, v) \in Int /\ (mqr => MLengthIndicator(mode, v) \in Int)
  BY <1>1, IndicatorLengths
<1> HIDE DEF n
<1>3. CASE mqr
  <2>1. IsSeq(Bits(v - 1, mmodeId[mode])) /\ IsSeq(Bits(MLengthIndicator(mode, v), n))
    BY <1>1, <1>2, <1>3, BitsLength
  <2>2. QED
    BY <1>3, <2>1, Joined DEF Header, n
<1>4. CASE ~mqr
  <2>1. IsSeq(Bits(4, modeId[mode])) /\ IsSeq(Bits(LengthIndicator(mode, v), n))
    BY <1>2, BitsLength
  <2>2. QED
    BY <1>4, <2>1, Joined DEF Header, n
<1>5. QED
  BY <1>3, <1>4

\* The payloads of the four modes.
LEMMA DataLengths ==
  ASSUME NEW d, IsSeq(d)
  PROVE  /\ IsSeq(NumBits(d)) /\ Len(NumBits(d)) = CharBits("num", Len(d))
         /\ IsSeq(AnBits(d)) /\ Len(AnBits(d)) = CharBits("an", Len(d))
         /\ IsSeq(KanjiBits(d)) /\ Len(KanjiBits(d)) = CharBits("kanji", Len(d) \div 2)
         /\ IsSeq(Bytes(d)) /\ Len(Bytes(d)) = CharBits("byte", Len(d))
<1>1. Len(d) \in Nat
  BY DEF IsSeq
<1>2. \A n \in Nat : \A num : IsSeq(Bits(n, num)) /\ Len(Bits(n, num)) = n
  <2>1. \A n \in Nat : n \in Int /\ n >= 0
    OBVIOUS
  <2>2. QED
    BY <2>1, BitsLength
<1>3. /\ \A num : IsSeq(Bits(4, num)) /\ Len(Bits(4, num)) = 4
      /\ \A num : IsSeq(Bits(6, num)) /\ Len(Bits(6, num)) = 6
      /\ \A num : IsSeq(Bits(7, num)) /\ Len(Bits(7, num)) = 7
  BY <1>2
<1>4. \A w \in Nat, k \in Nat : \A f : f = [i \in 1..k |-> f[i]] =>
        IsSeq(Numbers(f, w)) /\ Len(Numbers(f, w)) = k * w
  BY FunctionIsSeq, NumbersLength
<1>5. IsSeq(<< >>) /\ Len(<< >>) = 0
  BY DEF IsSeq
<1>6. Len(d) \div 3 \in Nat /\ Len(d) \div 2 \in Nat /\ Len(d) % 3 \in 0..2 /\ Len(d) % 2 \in 0..1
  BY <1>1
<1>7. IsSeq(NumBits(d)) /\ Len(NumBits(d)) = CharBits("num", Len(d))
  <2> DEFINE k     == Len(d) \div 3
             at(i) == d[i] - 48
             f     == [i \in 1..k |-> 100 * at(3 * i - 2) + 10 * at(3 * i - 1) + at(3 * i)]
             one   == Bits(4, at(3 * k + 1))
             two   == Bits(7, 10 * at(3 * k + 1) + at(3 * k + 2))
             rem   == CASE Len(d) % 3 = 0 -> << >> [] Len(d) % 3 = 1 -> one
                        [] Len(d) % 3 = 2 -> two
  <2>1. f = [i \in 1..k |-> f[i]]
    OBVIOUS
  <2>2. IsSeq(one) /\ IsSeq(two) /\ Len(one) = 4 /\ Len(two) = 7
    BY <1>3
  <2>3. NumBits(d) = Numbers(f, 10) \o rem
    BY DEF NumBits
  <2>4. CharBits("num", Len(d)) = 10 * k + <<0, 4, 7>>[(Len(d) % 3) + 1]
    BY DEF CharBits
  <2> HIDE DEF f, one, two
  <2>5. IsSeq(Numbers(f, 10)) /\ Len(Numbers(f, 10)) = k * 10
    BY <1>4, <1>6, <2>1
  <2>6. IsSeq(rem) /\ Len(rem) = <<0, 4, 7>>[(Len(d) % 3) + 1]
    <3>1. CASE Len(d) % 3 = 0
      <4>1. rem = << >> /\ <<0, 4, 7>>[(Len(d) % 3) + 1] = 0
        BY <3>1
      <4>2. QED
        BY <1>5, <4>1
    <3>2. CASE Len(d) % 3 = 1
      <4>1. rem = one /\ <<0, 4, 7>>[(Len(d) % 3) + 1] = 4
        BY <3>2
      <4>2. QED
        BY <2>2, <4>1
    <3>3. CASE Len(d) % 3 = 2
      <4>1. rem = two /\ <<0, 4, 7>>[(Len(d) % 3) + 1] = 7
        BY <3>3
      <4>2. QED
        BY <2>2, <4>1
    <3>4. QED
      BY <1>6, <3>1, <3>2, <3>3
  <2> HIDE DEF rem
  <2>7. /\ IsSeq(Numbers(f, 10) \o rem)
        /\ Len(Numbers(f, 10) \o rem) = k * 10 + <<0, 4, 7>>[(Len(d) % 3) + 1]
    BY <2>5, <2>6, Joined
  <2>8. QED
    BY <1>6, <2>3, <2>4, <2>7
<1>8. IsSeq(AnBits(d)) /\ Len(AnBits(d)) = CharBits("an", Len(d))
  <2> DEFINE k   == Len(d) \div 2
             f   == [i \in 1..k |-> 45 * lookAnTable(d[2 * i - 1]) + lookAnTable(d[2 * i])]
             one == Bits(6, lookAnTable(d[2 * k + 1]))
             rem == IF Len(d) % 2 = 0 THEN << >> ELSE one
  <2>1. f = [i \in 1..k |-> f[i]]
    OBVIOUS
  <2>2. IsSeq(one) /\ Len(one) = 6
    BY <1>3
  <2>3. AnBits(d) = Numbers(f, 11) \o rem
    BY DEF AnBits
  <2>4. CharBits("an", Len(d)) = 11 * k + 6 * (Len(d) % 2)
    BY DEF CharBits
  <2> HIDE DEF f, one
  <2>5. IsSeq(Numbers(f, 11)) /\ Len(Numbers(f, 11)) = k * 11
    BY <1>4, <1>6, <2>1
  <2>6. IsSeq(rem) /\ Len(rem) = 6 * (Len(d) % 2)
    <3>1. CASE Len(d) % 2 = 0
      <4>1. rem = << >>
        BY <3>1
      <4>2. QED
        BY <1>5, <3>1, <4>1
    <3>2. CASE Len(d) % 2 = 1
      <4>1. rem = one
        BY <3>2
      <4>2. 6 * (Len(d) % 2) = 6
        BY <3>2
      <4>3. QED
        BY <2>2, <4>1, <4>2
    <3>3. QED
      BY <1>6, <3>1, <3>2
  <2> HIDE DEF rem
  <2>7. IsSeq(Numbers(f, 11) \o rem) /\ Len(Numbers(f, 11) \o rem) = k * 11 + 6 * (Len(d) % 2)
    BY <2>5, <2>6, Joined
  <2>8. QED
    BY <1>6, <2>3, <2>4, <2>7
<1>9. IsSeq(KanjiBits(d)) /\ Len(KanjiBits(d)) = CharBits("kanji", Len(d) \div 2)
  <2> DEFINE val(i) == Word16(d[2 * i - 1], d[2 * i])
             off(i) == val(i) - IF val(i) <= 40956 THEN 33088 ELSE 49472
             f == [i \in 1..(Len(d) \div 2) |-> 192 * (off(i) \div 256) + (off(i) % 256)]
  <2>1. f = [i \in 1..(Len(d) \div 2) |-> f[i]]
    OBVIOUS
  <2>2. KanjiBits(d) = Numbers(f, 13)
    BY DEF KanjiBits
  <2>3. CharBits("kanji", Len(d) \div 2) = 13 * (Len(d) \div 2)
    BY DEF CharBits
  <2> HIDE DEF f
  <2>4. IsSeq(Numbers(f, 13)) /\ Len(Numbers(f, 13)) = (Len(d) \div 2) * 13
    BY <1>4, <1>6, <2>1
  <2>5. QED
    BY <1>6, <2>2, <2>3, <2>4
<1>10. IsSeq(Bytes(d)) /\ Len(Bytes(d)) = CharBits("byte", Len(d))
  BY <1>1, BytesLength DEF CharBits
<1>11. QED
  BY <1>7, <1>8, <1>9, <1>10

\* A piece of an entry that its length indicator can count.
LEMMA EncodeIsSeq ==
  ASSUME NEW e, IsEntry(e), NEW v, NEW mqr \in BOOLEAN, IsVersion(v, mqr)
  PROVE  IsSeq(Encode(e, v, mqr))
<1> DEFINE d == e.data
           h == Header(e.mode, v, mqr, Len(d))
<1>1. IsSeq(d) /\ e.mode \in Splittable \union {"structure", "eci", "fnc1second"}
  BY DEF IsEntry
<1>2. IsSeq(NumBits(d)) /\ IsSeq(AnBits(d)) /\ IsSeq(KanjiBits(d)) /\ IsSeq(Bytes(d))
  BY <1>1, DataLengths
<1>3. \A n \in Int : \A num : IsSeq(Bits(n, num))
  BY BitsLength
<1>4. \A s, t : IsSeq(s) /\ IsSeq(t) => IsSeq(s \o t)
  BY Joined
<1>5. CASE e.mode \in Splittable
  <2>1. IsSeq(h)
    BY <1>5, HeaderIsSeq
  <2>2. Encode(e, v, mqr) \in {h \o NumBits(d), h \o AnBits(d), h \o Bytes(d), h \o KanjiBits(d)}
    BY <1>5 DEF Encode, Splittable
  <2> HIDE DEF d, h
  <2>3. QED
    BY <1>2, <1>4, <2>1, <2>2
<1>6. CASE e.mode = "structure"
  <2> DEFINE a == Bits(4, modeId.structure)
             b == Bits(4, d[2] - 1)
             c == Bits(4, d[1] - 1)
             p == Bits(8, d[3])
  <2>1. IsSeq(a) /\ IsSeq(b) /\ IsSeq(c) /\ IsSeq(p)
    BY <1>3
  <2>2. Encode(e, v, mqr) = a \o b \o c \o p
    BY <1>6 DEF Encode
  <2> HIDE DEF a, b, c, p
  <2>3. QED
    BY <1>4, <2>1, <2>2
<1>7. CASE e.mode = "eci"
  <2> DEFINE a == Bits(4, modeId.eci)
             n == decodeECI(d)
             b == ECIBits(n)
  <2>1. 8 * ECIWords(n) \in Int
    BY DEF ECIWords
  <2>2. IsSeq(a) /\ IsSeq(b)
    BY <1>3, <2>1 DEF ECIBits
  <2>3. Encode(e, v, mqr) = a \o b
    BY <1>7 DEF Encode
  <2> HIDE DEF a, b
  <2>4. QED
    BY <1>4, <2>2, <2>3
<1>8. CASE e.mode = "fnc1second"
  <2> DEFINE a == Bits(4, modeId.fnc1second)
  <2>1. IsSeq(a)
    BY <1>3
  <2>2. Encode(e, v, mqr) = a \o Bytes(d)
    BY <1>8 DEF Encode
  <2> HIDE DEF a, d
  <2>3. QED
    BY <1>2, <1>4, <2>1, <2>2
<1>9. QED
  BY <1>1, <1>5, <1>6, <1>7, <1>8

\* A sequence is one of its elements, and of any set that holds them.
LEMMA SeqOver ==
  ASSUME NEW s, IsSeq(s), NEW S, \A k \in 1..Len(s) : s[k] \in S
  PROVE  s \in Seq(S)
<1>1. PICK T : s \in Seq(T)
  BY DEF IsSeq
<1>2. QED
  BY <1>1

\* One piece of the data of an entry.
OnePiece(e, i, to, v, mqr) == Encode([mode |-> e.mode, data |-> Piece(e.data, i, to)], v, mqr)

\* F[i] is the data from position i on.
InPieces(F, e, v, mqr) ==
  \A i \in 1..(Len(e.data) + 1) :
    /\ IsSeq(F[i])
    /\ F[i] = IF \/ MaximumWords(e.mode, v) = 0
                 \/ Len(e.data) - i + 1 <= MaximumWords(e.mode, v)
              THEN OnePiece(e, i, Len(e.data), v, mqr)
              ELSE OnePiece(e, i, i + MaximumWords(e.mode, v) - 1, v, mqr)
                     \o F[i + MaximumWords(e.mode, v)]

\* An entry too long for its length indicator is encoded in pieces, up to its end.
LEMMA EncodedInPieces ==
  ASSUME NEW e, IsEntry(e), NEW v, NEW mqr \in BOOLEAN, IsVersion(v, mqr)
  PROVE  \E F : F[1] = EncodeBitStream(e, v, mqr) /\ InPieces(F, e, v, mqr)
<1> DEFINE d     == e.data
           words == MaximumWords(e.mode, v)
           N     == Len(d) + 1
           one(i, to) == Encode([mode |-> e.mode, data |-> Piece(d, i, to)], v, mqr)
           P(i) == one(i, Len(d))
           Q(i) == one(i, i + words - 1)
           Body(f, i) == IF words = 0 \/ Len(d) - i + 1 <= words
                         THEN P(i) ELSE Q(i) \o f[i + words]
           F == CHOOSE from : from = [i \in 1..(Len(d) + 1) |-> Body(from, i)]
<1>1. EncodeBitStream(e, v, mqr) = F[1]
  BY DEF EncodeBitStream
<1>2. Len(d) \in Nat /\ N \in Nat /\ 1 \in 1..N
  BY DEF IsEntry, IsSeq
<1>3. words \in Nat
  <2>1. v \in Int
    BY DEF IsVersion, MVersions, Versions, MVersionMax, VersionMax
  <2>2. QED
    BY <2>1, IndicatorLengths DEF MaximumWords
<1>4. ASSUME NEW i \in 1..N PROVE IsSeq(P(i)) /\ IsSeq(Q(i))
  <2>1. \A to \in Int : IsSeq(one(i, to))
    <3> SUFFICES ASSUME NEW to \in Int PROVE IsSeq(one(i, to))
      OBVIOUS
    <3>1. IsSeq(Piece(d, i, to))
      BY <1>2, PieceIsSeq
    <3>2. IsEntry([mode |-> e.mode, data |-> Piece(d, i, to)])
      BY <3>1 DEF IsEntry
    <3>3. QED
      BY <3>2, EncodeIsSeq
  <2>2. Len(d) \in Int /\ i + words - 1 \in Int
    BY <1>2, <1>3
  <2> HIDE DEF one
  <2>3. QED
    BY <2>1, <2>2
<1> HIDE DEF one
<1> DEFINE S == UNION {{P(i)[k] : k \in 1..Len(P(i))} \union {Q(i)[k] : k \in 1..Len(Q(i))} :
                        i \in 1..N}
           V == Seq(S)
<1> HIDE DEF words
<1>5. ASSUME NEW i \in 1..N PROVE P(i) \in V /\ Q(i) \in V
  <2>1. (\A k \in 1..Len(P(i)) : P(i)[k] \in S) /\ (\A k \in 1..Len(Q(i)) : Q(i)[k] \in S)
    OBVIOUS
  <2> HIDE DEF S
  <2>2. QED
    BY <1>4, <2>1, SeqOver
<1> HIDE DEF S
<1> DEFINE Stop == {i \in 1..N : words = 0 \/ Len(d) - i + 1 <= words}
           base == [i \in 1..N |-> P(i)]
           next == [i \in 1..N |-> i + words]
           h    == [i \in 1..N |-> [x \in V |-> Q(i) \o x]]
<1>6. \A i \in 1..N : i \notin Stop => next[i] \in (i + 1)..N
  BY <1>2, <1>3
<1>7. \A i \in 1..N : \A x \in V : h[i][x] \in V
  <2>1. \A x, y \in Seq(S) : x \o y \in Seq(S)
    OBVIOUS
  <2>2. QED
    BY <1>5, <2>1
<1>8. PICK f : Computes(f, N, V, Stop, base, next, h)
  <2>1. \A i \in 1..N : base[i] \in V
    BY <1>5
  <2> HIDE DEF N, V, Stop, base, next, h
  <2>2. Recursion(N, V, Stop, base, next, h)
    BY <1>6, <1>7, <2>1 DEF Recursion
  <2>3. QED
    BY <1>2, <2>2, UpwardsExists
<1>9. ASSUME NEW i \in 1..N PROVE f[i] = Body(f, i)
  <2>1. i \in Stop => f[i] = P(i)
    BY <1>8 DEF Computes
  <2>2. i \notin Stop => f[i] = Q(i) \o f[i + words]
    <3>1. i \notin Stop => next[i] \in 1..N
      BY <1>6
    <3>2. i \notin Stop => f[next[i]] \in V
      BY <1>8, <3>1 DEF Computes
    <3>3. i \notin Stop => f[i] = h[i][f[next[i]]]
      BY <1>8 DEF Computes
    <3>4. QED
      BY <3>2, <3>3
  <2>3. QED
    BY <2>1, <2>2
<1>10. F = [i \in 1..N |-> Body(F, i)]
  <2>1. f = [i \in 1..N |-> Body(f, i)]
    BY <1>8, <1>9 DEF Computes
  <2> HIDE DEF Body
  <2>2. QED
    BY <2>1
<1> HIDE DEF F, Stop, base, next, h, V
<1>11. \A i \in 1..N : F[i] = Body(F, i)
  <2> HIDE DEF Body
  <2>1. QED
    BY <1>10
<1> DEFINE T == {i \in 1..N : F[i] \in V}
<1>12. ASSUME NEW i \in 1..N, \A r \in (i + 1)..N : r \in T PROVE i \in T
  <2>1. F[i] = Body(F, i)
    BY <1>11
  <2>2. CASE words = 0 \/ Len(d) - i + 1 <= words
    <3>1. F[i] = P(i)
      BY <2>1, <2>2
    <3>2. QED
      BY <1>5, <3>1
  <2>3. CASE ~(words = 0 \/ Len(d) - i + 1 <= words)
    <3>1. i + words \in (i + 1)..N
      BY <1>2, <1>3, <2>3
    <3>2. F[i + words] \in V
      BY <1>12, <3>1
    <3>3. F[i] = Q(i) \o F[i + words]
      BY <2>1, <2>3
    <3>4. \A x, y \in V : x \o y \in V
      BY DEF V
    <3> HIDE DEF Body
    <3>5. F[i] \in V
      BY <1>5, <3>2, <3>3, <3>4
    <3>6. QED
      BY <3>5
  <2>4. QED
    BY <2>2, <2>3
<1>13. \A i \in 1..N : IsSeq(F[i])
  <2> HIDE DEF T, N
  <2>1. \A i \in 1..N : i \in T
    BY <1>2, <1>12, FromTheEnd
  <2>2. \A i \in 1..N : F[i] \in V
    BY <2>1 DEF T
  <2>3. QED
    BY <2>2 DEF V, IsSeq
<1>14. InPieces(F, e, v, mqr)
  BY <1>11, <1>13 DEF InPieces, OnePiece, words, one
<1>15. QED
  BY <1>1, <1>14

\* What QRinput_encodeBitStream makes is a sequence of bits.
LEMMA EncodeBitStreamIsSeq ==
  ASSUME NEW e, IsEntry(e), NEW v, NEW mqr \in BOOLEAN, IsVersion(v, mqr)
  PROVE  IsSeq(EncodeBitStream(e, v, mqr))
<1>1. PICK F : F[1] = EncodeBitStream(e, v, mqr) /\ InPieces(F, e, v, mqr)
  BY EncodedInPieces
<1>2. 1 \in 1..(Len(e.data) + 1)
  BY DEF IsEntry, IsSeq
<1>3. QED
  BY <1>1, <1>2 DEF InPieces

-----------------------------------------------------------------------------
(* Padding.                                                                *)

\* The bytes 0xec and 0x11 in turn.
LEMMA PadBytesLength ==
  ASSUME NEW n \in Nat PROVE IsSeq(PadBytes(n)) /\ Len(PadBytes(n)) = 8 * n
<1> DEFINE f == [i \in 1..n |-> IF i % 2 = 1 THEN 236 ELSE 17]
<1>1. f = [i \in 1..n |-> f[i]]
  OBVIOUS
<1>2. PadBytes(n) = Bytes(f)
  BY DEF PadBytes
<1> HIDE DEF f
<1>3. IsSeq(f) /\ Len(f) = n
  BY <1>1, FunctionIsSeq
<1>4. QED
  BY <1>2, <1>3, BytesLength

\* An incomplete last byte counts.
LEMMA ToByteLength ==
  ASSUME NEW s, IsSeq(s) PROVE Len(ToByte(s)) = (Len(s) + 7) \div 8
<1> DEFINE f == ToByte(s)
           n == (Len(s) + 7) \div 8
<1>1. Len(s) \in Nat
  BY DEF IsSeq
<1>2. n \in Nat
  BY <1>1
<1>3. f = [i \in 1..n |-> f[i]]
  BY DEF ToByte
<1> HIDE DEF f, n
<1>4. QED
  BY <1>2, <1>3, FunctionIsSeq DEF f, n

\* The capacities of the 40 versions at the four levels are in the tables.
LEMMA DataLengthIsInt ==
  ASSUME NEW v \in Versions, NEW level \in Levels PROVE DataLength(v, level) \in Int
<1>1. capacityWords[v] \in Int
  BY DEF capacityWords, Versions, VersionMax
<1>2. LevelIndex(level) \in 1..4
  BY DEF LevelIndex, Levels
<1>3. \A l \in 1..4 : capacityEcc[v][l] \in Int
  BY DEF capacityEcc, Versions, VersionMax
<1>4. QED
  BY <1>1, <1>2, <1>3 DEF DataLength, ECCLength

\* A symbol of a Micro QR version holds bytes, and half a byte more in versions 1 and 3.
LEMMA MDataLengthBitIs ==
  ASSUME NEW v \in MVersions, NEW level \in Levels
  PROVE  \/ MDataLengthBit(v, level) \in Int /\ MDataLengthBit(v, level) % 8 = 0
         \/ MDataLengthBit(v, level) \in Int /\ MDataLengthBit(v, level) % 8 = 4
<1>1. LevelIndex(level) \in 1..4
  BY DEF LevelIndex, Levels
<1>2. \A l \in 1..4 : mqrspecEcc[v][l] \in Int
  BY DEF mqrspecEcc, MVersions, MVersionMax
<1> DEFINE e == MECCLength(v, level)
<1>3. e \in Int
  BY <1>1, <1>2 DEF MECCLength
<1> HIDE DEF e
<1>4. v = 1 \/ v = 2 \/ v = 3 \/ v = 4
  BY DEF MVersions, MVersionMax
<1>5. MDataLengthBit(v, level) = IF e = 0 THEN 0
        ELSE (MWidth(v) - 1) * (MWidth(v) - 1) - 64 - e * 8
  BY DEF MDataLengthBit, e
<1>6. (MWidth(v) - 1) * (MWidth(v) - 1) \in {100, 144, 196, 256}
  BY <1>4 DEF MWidth
<1>7. QED
  BY <1>3, <1>5, <1>6

\* QRinput_appendPaddingBit fills the symbol to the last bit, from any length that fits.
LEMMA PaddingFills ==
  ASSUME NEW n \in Nat, NEW v \in Versions, NEW level \in Levels, n <= 8 * DataLength(v, level)
  PROVE  IsSeq(Padding(n, v, level)) /\ n + Len(Padding(n, v, level)) = 8 * DataLength(v, level)
<1> DEFINE maxwords == DataLength(v, level)
           left  == 8 * maxwords - n
           words == (n + 4 + 7) \div 8
<1>1. maxwords \in Int
  BY DataLengthIsInt
<1> HIDE DEF maxwords
<1>2. left \in Nat
  BY <1>1 DEF maxwords
<1>3. CASE left <= 4
  <2>1. Padding(n, v, level) = Bits(left, 0)
    BY <1>3 DEF Padding, maxwords
  <2>2. IsSeq(Bits(left, 0)) /\ Len(Bits(left, 0)) = left
    BY <1>2, BitsLength
  <2>3. QED
    BY <1>1, <2>1, <2>2 DEF maxwords
<1>4. CASE ~(left <= 4)
  <2> DEFINE x == 8 * words - n
             y == maxwords - words
             a == Bits(x, 0)
             b == PadBytes(y)
  <2>1. Padding(n, v, level) = a \o b
    BY <1>4 DEF Padding, maxwords
  <2>2. words \in Int /\ x \in Nat /\ y \in Nat /\ n + (x + 8 * y) = 8 * maxwords
    BY <1>1, <1>4
  <2> HIDE DEF x, y
  <2>3. IsSeq(a) /\ Len(a) = x /\ IsSeq(b) /\ Len(b) = 8 * y
    <3>1. IsSeq(a) /\ Len(a) = x
      BY <2>2, BitsLength
    <3>2. IsSeq(b) /\ Len(b) = 8 * y
      BY <2>2, PadBytesLength
    <3>3. QED
      BY <3>1, <3>2
  <2> HIDE DEF a, b
  <2>4. IsSeq(a \o b) /\ Len(a \o b) = x + 8 * y
    BY <2>3, Joined
  <2>5. QED
    BY <2>1, <2>2, <2>4 DEF maxwords
<1>5. QED
  BY <1>3, <1>4

\* QRinput_appendPaddingBitMQR ends in the last byte, which may be half a one: the
\* terminator may reach into the half byte, be cut off by it, or run past it.
LEMMA MPaddingFills ==
  ASSUME NEW n \in Nat, NEW v \in MVersions, NEW level \in Levels,
         n <= MDataLengthBit(v, level)
  PROVE  /\ IsSeq(MPadding(n, v, level))
         /\ (n + Len(MPadding(n, v, level)) + 7) \div 8 = MDataLength(v, level)
<1> DEFINE maxbits  == MDataLengthBit(v, level)
           maxwords == maxbits \div 8
           left  == maxbits - n
           term  == 2 * v + 1
           words == (n + term + 7) \div 8
           half  == IF maxbits > 8 * words /\ words = maxwords THEN maxbits - 8 * words ELSE 0
           lead  == Bits(8 * words - n + half, 0)
           last  == PadBytes(maxwords - words) \o Bits(maxbits - 8 * maxwords, 0)
<1>1. maxbits \in Int /\ (maxbits % 8 = 0 \/ maxbits % 8 = 4)
  BY MDataLengthBitIs
<1>2. MPadding(n, v, level) = IF left <= term THEN Bits(left, 0)
        ELSE lead \o IF maxwords <= words THEN << >> ELSE last
  BY DEF MPadding
<1>3. MDataLength(v, level) = (maxbits + 4) \div 8
  BY DEF MDataLength
<1> HIDE DEF maxbits
<1>4. left \in Nat /\ term \in Nat
  BY <1>1 DEF maxbits, MVersions, MVersionMax
<1>5. maxbits = 8 * maxwords \/ maxbits = 8 * maxwords + 4
  BY <1>1
<1>6. /\ maxwords \in Int
      /\ (maxbits + 4) \div 8 = IF maxbits = 8 * maxwords THEN maxwords ELSE maxwords + 1
  BY <1>1, <1>5
<1>7. CASE left <= term
  <2>1. IsSeq(Bits(left, 0)) /\ Len(Bits(left, 0)) = left
    BY <1>4, BitsLength
  <2>2. n + left = maxbits /\ (maxbits + 7) \div 8 = (maxbits + 4) \div 8
    BY <1>1, <1>5
  <2>3. QED
    BY <1>2, <1>3, <1>7, <2>1, <2>2
<1> HIDE DEF maxwords, term
<1>8. CASE ~(left <= term)
  <2>1. /\ words \in Nat /\ 8 * words >= n + term /\ 8 * words <= n + term + 7
        /\ n + term < maxbits
    BY <1>1, <1>4, <1>8
  <2> HIDE DEF words
  <2>2. half \in {0, 4} /\ (half = 0 <=> ~(maxbits > 8 * words /\ words = maxwords))
    BY <1>1, <1>5, <1>6, <2>1
  <2>3. 8 * words - n + half \in Nat
    BY <1>4, <2>1, <2>2
  <2>4. half = 4 => words = maxwords /\ maxbits = 8 * maxwords + 4
    BY <1>5, <1>6, <2>1, <2>2
  <2> HIDE DEF half
  <2>5. IsSeq(lead) /\ Len(lead) = 8 * words - n + half
    BY <2>3, BitsLength
  <2> HIDE DEF lead
  <2>6. CASE maxwords <= words
    <3>1. MPadding(n, v, level) = lead \o << >> /\ IsSeq(<< >>) /\ Len(<< >>) = 0
      BY <1>2, <1>8, <2>6 DEF IsSeq
    <3>2. /\ IsSeq(MPadding(n, v, level))
          /\ Len(MPadding(n, v, level)) = 8 * words - n + half
      BY <2>3, <2>5, <3>1, Joined
    <3>3. n + (8 * words - n + half) = 8 * words + half
      BY <2>1, <2>2
    <3>4. (8 * words + half + 7) \div 8 = IF maxbits = 8 * maxwords THEN maxwords ELSE maxwords + 1
      <4>1. CASE half = 0
        <5>1. (8 * words + half + 7) \div 8 = words
          BY <2>1, <4>1
        <5>2. words = maxwords \/ words >= maxwords + 1
          BY <1>6, <2>1, <2>6
        <5>3. 8 * words < maxbits + 7
          BY <1>1, <1>4, <2>1
        <5>4. QED
          BY <1>5, <1>6, <2>1, <2>2, <4>1, <5>1, <5>2, <5>3
      <4>2. CASE half = 4
        <5>1. (8 * words + half + 7) \div 8 = words + 1
          BY <2>1, <4>2
        <5>2. QED
          BY <1>6, <2>4, <4>2, <5>1
      <4>3. QED
        BY <2>2, <4>1, <4>2
    <3>5. QED
      BY <1>3, <1>6, <3>2, <3>3, <3>4
  <2>7. CASE ~(maxwords <= words)
    <3> DEFINE x == maxwords - words
               y == maxbits - 8 * maxwords
               a == PadBytes(x)
               b == Bits(y, 0)
    <3>1. MPadding(n, v, level) = lead \o (a \o b)
      BY <1>2, <1>8, <2>7
    <3>2. x \in Nat /\ y \in Nat /\ half = 0 /\ 8 * words + (8 * x + y) = maxbits
      BY <1>1, <1>5, <1>6, <2>1, <2>2, <2>7
    <3> HIDE DEF x, y
    <3>3. IsSeq(a) /\ Len(a) = 8 * x /\ IsSeq(b) /\ Len(b) = y
      <4>1. IsSeq(a) /\ Len(a) = 8 * x
        BY <3>2, PadBytesLength
      <4>2. IsSeq(b) /\ Len(b) = y
        BY <3>2, BitsLength
      <4>3. QED
        BY <4>1, <4>2
    <3> HIDE DEF a, b
    <3>4. IsSeq(a \o b) /\ Len(a \o b) = 8 * x + y
      BY <3>3, Joined
    <3>5. IsSeq(lead \o (a \o b)) /\ Len(lead \o (a \o b)) = Len(lead) + Len(a \o b)
      BY <2>5, <3>4, Joined
    <3>6. n + Len(lead \o (a \o b)) = maxbits
      BY <1>1, <1>6, <2>1, <2>5, <3>2, <3>4, <3>5
    <3>7. (maxbits + 7) \div 8 = (maxbits + 4) \div 8
      BY <1>1, <1>5, <1>6
    <3>8. QED
      BY <1>3, <3>1, <3>5, <3>6, <3>7
  <2>8. QED
    BY <2>6, <2>7
<1>9. QED
  BY <1>7, <1>8

-----------------------------------------------------------------------------
(* Lists of entries.                                                       *)

\* What is in a sequence after one more element.
LEMMA Appended ==
  ASSUME NEW s, IsSeq(s), NEW x
  PROVE  /\ IsSeq(Append(s, x)) /\ Len(s) \in Nat /\ Len(Append(s, x)) = Len(s) + 1
         /\ DOMAIN Append(s, x) = 1..(Len(s) + 1) /\ DOMAIN s = 1..Len(s)
         /\ \A i \in 1..Len(s) : Append(s, x)[i] = s[i]
         /\ Append(s, x)[Len(s) + 1] = x
<1>1. PICK S : s \in Seq(S)
  BY DEF IsSeq
<1>2. s \in Seq(S \union {x}) /\ x \in S \union {x}
  BY <1>1
<1>3. Append(s, x) \in Seq(S \union {x})
  BY <1>2
<1>4. QED
  BY <1>2, <1>3 DEF IsSeq

\* Lists of entries, and lists of those, after the calls that change them.
LEMMA ListAppended ==
  ASSUME NEW l, IsList(l), NEW e, IsItem(e) PROVE IsList(Append(l, e))
<1>1. IsSeq(l) /\ \A k \in 1..Len(l) : IsItem(l[k])
  BY DEF IsList
<1> DEFINE m == Append(l, e)
<1>2. /\ IsSeq(m) /\ Len(l) \in Nat /\ Len(m) = Len(l) + 1
      /\ \A i \in 1..Len(l) : m[i] = l[i]
      /\ m[Len(l) + 1] = e
  BY <1>1, Appended
<1> HIDE DEF m
<1>3. \A k \in 1..Len(m) : k \in 1..Len(l) \/ k = Len(l) + 1
  BY <1>2
<1>4. \A k \in 1..Len(m) : IsItem(m[k])
  BY <1>1, <1>2, <1>3
<1>5. QED
  BY <1>2, <1>4 DEF IsList, m

\* The entry dealt or divided, and those left.
LEMMA ListTail ==
  ASSUME NEW l, IsList(l), l # << >> PROVE IsItem(Head(l)) /\ IsList(Tail(l))
<1>1. IsSeq(l) /\ \A k \in 1..Len(l) : IsItem(l[k])
  BY DEF IsList
<1>2. PICK S : l \in Seq(S)
  BY <1>1 DEF IsSeq
<1> DEFINE m == Tail(l)
<1>3. /\ Len(l) \in Nat \ {0} /\ Head(l) = l[1] /\ m \in Seq(S) /\ Len(m) = Len(l) - 1
      /\ \A i \in 1..Len(m) : m[i] = l[i + 1]
  BY <1>2
<1> HIDE DEF m
<1>4. 1 \in 1..Len(l) /\ \A i \in 1..Len(m) : i + 1 \in 1..Len(l)
  BY <1>3
<1>5. IsItem(l[1]) /\ \A i \in 1..Len(m) : IsItem(m[i])
  BY <1>1, <1>3, <1>4
<1>6. QED
  BY <1>3, <1>5 DEF IsList, IsSeq, m

\* A header, or the second part of a divided entry, goes in front.
LEMMA ListInFront ==
  ASSUME NEW l, IsList(l), NEW e, IsItem(e) PROVE IsList(<<e>> \o l)
<1>1. IsSeq(l) /\ \A k \in 1..Len(l) : IsItem(l[k])
  BY DEF IsList
<1>2. PICK S : l \in Seq(S)
  BY <1>1 DEF IsSeq
<1> DEFINE m == <<e>> \o l
           T == S \union {e}
<1>3. <<e>> \in Seq(T) /\ l \in Seq(T) /\ Len(<<e>>) = 1 /\ <<e>>[1] = e
  BY <1>2
<1>4. /\ m \in Seq(T) /\ Len(l) \in Nat /\ Len(m) = Len(l) + 1
      /\ \A i \in 1..Len(m) : m[i] = IF i <= 1 THEN <<e>>[i] ELSE l[i - 1]
  BY <1>3
<1> HIDE DEF m
<1>5. \A i \in 1..Len(m) : i = 1 \/ (~(i <= 1) /\ i - 1 \in 1..Len(l))
  BY <1>4
<1>6. ASSUME NEW i \in 1..Len(m) PROVE IsItem(m[i])
  <2>1. ASSUME i = 1 PROVE m[i] = e
    BY <1>3, <1>4, <2>1
  <2>2. ASSUME ~(i <= 1), i - 1 \in 1..Len(l) PROVE m[i] = l[i - 1]
    BY <1>4, <2>2
  <2>3. QED
    BY <1>1, <1>5, <2>1, <2>2
<1>7. QED
  BY <1>4, <1>6 DEF IsList, IsSeq, m

\* Every list begins empty.
LEMMA EmptyList == IsList(<< >>) /\ IsSeq(<< >>) /\ Len(<< >>) = 0
BY DEF IsList, IsSeq

\* A list of lists.
AreLists(ls) == IsSeq(ls) /\ \A i \in 1..Len(ls) : IsList(ls[i])

\* An input that is full joins the others.
LEMMA ListsAppended ==
  ASSUME NEW ls, AreLists(ls), NEW l, IsList(l) PROVE AreLists(Append(ls, l))
<1>1. IsSeq(ls) /\ \A k \in 1..Len(ls) : IsList(ls[k])
  BY DEF AreLists
<1> DEFINE m == Append(ls, l)
<1>2. /\ IsSeq(m) /\ Len(ls) \in Nat /\ Len(m) = Len(ls) + 1
      /\ \A i \in 1..Len(ls) : m[i] = ls[i]
      /\ m[Len(ls) + 1] = l
  BY <1>1, Appended
<1> HIDE DEF m
<1>3. \A k \in 1..Len(m) : k \in 1..Len(ls) \/ k = Len(ls) + 1
  BY <1>2
<1>4. \A k \in 1..Len(m) : IsList(m[k])
  BY <1>1, <1>2, <1>3
<1>5. QED
  BY <1>2, <1>4 DEF AreLists, m

\* The only input of a call that is not structured.
LEMMA OneList == ASSUME NEW l, IsList(l) PROVE AreLists(<<l>>) /\ Len(<<l>>) = 1
<1>1. <<l>> \in Seq({l}) /\ Len(<<l>>) = 1 /\ \A i \in 1..1 : i = 1 /\ <<l>>[1] = l
  OBVIOUS
<1> DEFINE m == <<l>>
<1> HIDE DEF m
<1>2. \A i \in 1..Len(m) : IsList(m[i])
  BY <1>1 DEF m
<1>3. QED
  BY <1>1, <1>2 DEF AreLists, IsSeq, m

\* A header of structured append has three numbers.
LEMMA ThreeIsSeq ==
  ASSUME NEW a, NEW b, NEW c PROVE IsSeq(<<a, b, c>>) /\ Len(<<a, b, c>>) = 3
<1> DEFINE s == <<a, b, c>>
           S == {a, b, c}
<1>1. s \in Seq(S) /\ Len(s) = 3
  OBVIOUS
<1> HIDE DEF s, S
<1>2. IsSeq(s) /\ Len(s) = 3
  BY <1>1 DEF IsSeq
<1>3. QED
  BY <1>2 DEF s

\* Every input of a structured append is given a header of its own.
LEMMA HeadersInserted ==
  ASSUME NEW ls, AreLists(ls), NEW sum
  PROVE  AreLists(InsertHeaders(ls, sum)) /\ Len(InsertHeaders(ls, sum)) = Len(ls)
<1> DEFINE n == Len(ls)
           header(i) == [mode |-> "structure", data |-> <<n, i, sum>>]
           f == InsertHeaders(ls, sum)
<1>1. n \in Nat /\ DOMAIN ls = 1..n
  BY DEF AreLists, IsSeq
<1>2. f = [i \in 1..n |-> <<header(i)>> \o ls[i]]
  BY <1>1 DEF InsertHeaders
<1>3. ASSUME NEW i \in 1..n PROVE IsList(<<header(i)>> \o ls[i])
  <2>1. IsSeq(<<n, i, sum>>) /\ Len(<<n, i, sum>>) = 3
    BY ThreeIsSeq
  <2> DEFINE t == <<n, i, sum>>
  <2> HIDE DEF t
  <2>2. IsItem([mode |-> "structure", data |-> t])
    BY <2>1 DEF IsItem, IsEntry, t
  <2>a. IsItem(header(i))
    BY <2>2 DEF t
  <2> HIDE DEF header
  <2>3. IsList(ls[i])
    BY DEF AreLists
  <2>4. QED
    BY <2>a, <2>3, ListInFront
<1> DEFINE g(i) == <<header(i)>> \o ls[i]
<1> HIDE DEF g
<1>4. f = [i \in 1..n |-> f[i]] /\ \A i \in 1..n : f[i] = g(i)
  BY <1>2 DEF g
<1> HIDE DEF f
<1>5. IsSeq(f) /\ Len(f) = n
  BY <1>1, <1>4, FunctionIsSeq
<1>6. \A i \in 1..n : IsList(g(i))
  BY <1>3 DEF g
<1>7. QED
  BY <1>4, <1>5, <1>6 DEF AreLists, f

-----------------------------------------------------------------------------
(* What holds of the lists and streams at every place of QRinput.          *)

Working == {"start", "estimate", "encode", "pad"}

Streams ==
  /\ job \in Jobs /\ (Refused(job) => pc = "failed")
  /\ IsList(entries) /\ IsList(head) /\ used \in Int /\ AreLists(inputs)
  /\ IsSeq(bits) /\ IsSeq(out) /\ IsVersion(version, job.mqr)
  /\ (pc \in {"estimate", "pad"} => ~job.mqr) /\ (pc = "pad" => version \in Versions)
  /\ pc \in {"build", "deal"} => out = << >>
  /\ pc = "deal" => job.structured
  /\ pc \in Working =>
       Len(out) < Len(inputs) /\ (~job.structured => Len(inputs) = 1)
  /\ StreamFillsSymbol

\* What a call is known to ask for.
LEMMA JobIs ==
  ASSUME NEW j \in Jobs
  PROVE  /\ j.mqr \in BOOLEAN /\ j.structured \in BOOLEAN /\ j.level \in Levels
         /\ IsVersion(j.version, j.mqr)
         /\ j.structured /\ ~Refused(j) => ~j.mqr /\ j.version \in Versions
         /\ \A i \in 1..Len(j.items) :
              /\ j.items[i].mode \in Splittable \union {"eci"}
              /\ IsSeq(j.items[i].data)
         /\ Len(j.items) \in Nat
<1>1. /\ j.mqr \in BOOLEAN /\ j.structured \in BOOLEAN /\ j.level \in Levels
      /\ IsVersion(j.version, j.mqr)
  BY JobsAssumption DEF IsVersion
<1>2. j.structured /\ ~Refused(j) => ~j.mqr /\ j.version \in Versions
  BY <1>1 DEF Refused, IsVersion
<1>3. j.items \in Seq([mode : Splittable \union {"eci"}, data : Seq(Nat)])
  BY JobsAssumption
<1>4. ASSUME NEW i \in 1..Len(j.items)
      PROVE  j.items[i].mode \in Splittable \union {"eci"} /\ j.items[i].data \in Seq(Nat)
  <2>1. \A R : j.items \in Seq(R) => j.items[i] \in R
    OBVIOUS
  <2>2. j.items[i] \in [mode : Splittable \union {"eci"}, data : Seq(Nat)]
    BY <1>3, <2>1
  <2>3. QED
    BY <2>2
<1>5. QED
  BY <1>1, <1>2, <1>3, <1>4 DEF IsSeq

\* An entry that QRinput_append lets through.
LEMMA Append1Lists ==
  ASSUME IsList(entries), NEW mode \in Splittable \union {"eci"}, NEW data, IsSeq(data),
         Append1(mode, data)
  PROVE  IsList(entries') /\ pc' \in {pc, "failed"}
<1> DEFINE e == [mode |-> mode, data |-> data]
<1>1. Check(mode, data) => IsItem(e)
  <2>1. Check(mode, data) => Len(data) > 0 /\ (mode = "kanji" => Len(data) % 2 = 0)
    BY DEF Check
  <2>2. QED
    BY <2>1 DEF IsItem, IsEntry, Splittable
<1>2. \/ entries' = Append(entries, e) /\ Check(mode, data)
      \/ entries' = entries
  BY DEF Append1
<1>3. pc' \in {pc, "failed"}
  BY DEF Append1
<1> HIDE DEF e
<1>4. Check(mode, data) => IsList(Append(entries, e))
  BY <1>1, ListAppended
<1>5. QED
  BY <1>2, <1>3, <1>4

\* A cut makes an entry.
LEMMA SplitStreams == ASSUME Cutting, Streams, SplitString PROVE Streams'
<1> DEFINE t == Eat(rest, 1, version, job.hint)
           d == Piece(rest, 1, t.size)
<1>1. rest \in Seq(Byte) /\ rest # << >> /\ pc = "build" /\ version \in Int
  BY VersionIsNumber DEF Cutting, SplitString
<1>2. t.size \in 1..Len(rest) /\ t.mode \in Splittable
  BY <1>1, PieceAccepted
<1>3. Append1(t.mode, d) /\ UNCHANGED <<job, head, used, inputs, version, guess, bits, out>>
  BY DEF SplitString, encode
<1>4. IsSeq(d)
  BY <1>2, PieceIsSeq
<1> HIDE DEF t, d
<1>5. IsList(entries') /\ pc' \in {"build", "failed"}
  BY <1>1, <1>2, <1>3, <1>4, Append1Lists DEF Streams
<1>6. QED
  BY <1>1, <1>3, <1>5 DEF Streams, StreamFillsSymbol, Working

\* The four bytes of an ECI number are a sequence.
LEMMA FourIsSeq == ASSUME NEW a, NEW b, NEW c, NEW d PROVE IsSeq(<<a, b, c, d>>)
<1> DEFINE s == <<a, b, c, d>>
           S == {a, b, c, d}
<1>1. s \in Seq(S)
  OBVIOUS
<1> HIDE DEF s, S
<1>2. IsSeq(s)
  BY <1>1 DEF IsSeq
<1>3. QED
  BY <1>2 DEF s

\* So does an item of the application.
LEMMA AppendStreams == ASSUME Streams, AppendItem PROVE Streams'
<1> DEFINE item == job.items[Len(entries) + 1]
           n    == item.data[1]
           eci  == <<n % 256, (n \div 256) % 256, n \div 65536, 0>>
<1>1. /\ pc = "build" /\ Len(entries) < Len(job.items)
      /\ UNCHANGED <<job, rest, head, used, inputs, version, guess, bits, out>>
  BY DEF AppendItem, encode
<1>2. Len(entries) + 1 \in 1..Len(job.items)
  BY <1>1, JobIs DEF Streams, IsList, IsSeq
<1>3. item.mode \in Splittable \union {"eci"} /\ IsSeq(item.data) /\ IsSeq(eci)
  <2>1. \A a, b, c : IsSeq(<<a, b, c, 0>>)
    BY FourIsSeq
  <2>2. item.mode \in Splittable \union {"eci"} /\ IsSeq(item.data)
    BY <1>2, JobIs DEF Streams
  <2> HIDE DEF item, n
  <2>3. IsSeq(eci)
    BY <2>1
  <2>4. QED
    BY <2>2, <2>3
<1>4. \/ Append1(item.mode, item.data)
      \/ pc' = "failed" /\ UNCHANGED entries
      \/ Append1("eci", eci)
  BY DEF AppendItem
<1> HIDE DEF item, eci
<1>5. IsList(entries') /\ pc' \in {"build", "failed"}
  BY <1>1, <1>3, <1>4, Append1Lists DEF Streams
<1>6. QED
  BY <1>1, <1>5 DEF Streams, StreamFillsSymbol, Working

\* The entries go to one input, or are dealt out.
LEMMA BuiltStreams == ASSUME Streams, Built PROVE Streams'
<1>1. /\ pc = "build" /\ UNCHANGED <<job, rest, entries, head, used, version, guess, bits, out>>
      /\ \/ job.structured /\ pc' = "deal" /\ UNCHANGED inputs
         \/ ~job.structured /\ pc' = "start" /\ inputs' = <<entries>>
  BY DEF Built, build, encode
<1> DEFINE one == <<entries>>
<1>2. AreLists(one) /\ Len(one) = 1
  BY OneList DEF Streams
<1>3. Len(out) = 0
  BY <1>1, EmptyList DEF Streams
<1>4. ~Refused(job)
  BY <1>1 DEF Streams
<1> HIDE DEF one
<1>5. CASE job.structured /\ pc' = "deal" /\ UNCHANGED inputs
  BY <1>1, <1>4, <1>5 DEF Streams, StreamFillsSymbol, Working
<1>6. CASE ~job.structured /\ pc' = "start" /\ inputs' = one
  <2>1. AreLists(inputs') /\ Len(out) < Len(inputs') /\ Len(inputs') = 1
    BY <1>2, <1>3, <1>6
  <2>2. QED
    BY <1>1, <1>4, <1>6, <2>1 DEF Streams, StreamFillsSymbol, Working
<1>7. QED
  BY <1>1, <1>5, <1>6 DEF one

\* An entry that fits the current symbol.
LEMMA FitsStreams == ASSUME Streams, Fits PROVE Streams'
<1> DEFINE e == Head(entries)
           b == EncodeBitStream(e, job.version, FALSE)
<1>1. /\ pc = "deal" /\ entries # << >>
      /\ head' = Append(head, e) /\ used' = used + Len(b) /\ entries' = Tail(entries)
      /\ UNCHANGED <<job, rest, inputs, version, guess, bits, out, pc>>
  BY DEF Fits, encode
<1>2. IsItem(e) /\ IsList(Tail(entries))
  BY <1>1, ListTail DEF Streams
<1>3. ~job.mqr /\ job.version \in Versions
  BY <1>1, JobIs DEF Streams
<1>4. IsVersion(job.version, FALSE)
  BY <1>3 DEF IsVersion
<1>5. IsSeq(b)
  BY <1>2, <1>4, EncodeBitStreamIsSeq DEF IsItem
<1> HIDE DEF e, b
<1>6. IsList(Append(head, e)) /\ used + Len(b) \in Int
  <2>1. Len(b) \in Nat
    BY <1>5 DEF IsSeq
  <2>2. QED
    BY <1>2, <2>1, ListAppended DEF Streams
<1>7. QED
  BY <1>1, <1>2, <1>6 DEF Streams, StreamFillsSymbol, Working

\* The bytes an entry is cut after.
LEMMA LengthOfCodeIsNat ==
  ASSUME NEW mode \in Splittable \union {"structure", "eci", "fnc1second"},
         NEW v \in Versions, NEW n \in Int
  PROVE  /\ LengthOfCode(mode, v, n) \in Nat
         /\ mode = "kanji" => LengthOfCode(mode, v, n) % 2 = 0
         /\ mode \notin Splittable => LengthOfCode(mode, v, n) = 0
<1> DEFINE payload == n - MODE_INDICATOR_SIZE - LengthIndicator(mode, v)
           rem(k)  == payload - (payload \div k) * k
           size    == CASE payload < 0      -> 0
                        [] payload >= 0 /\ mode = "num" ->
                             (payload \div 10) * 3
                               + IF rem(10) >= 7 THEN 2 ELSE IF rem(10) >= 4 THEN 1 ELSE 0
                        [] payload >= 0 /\ mode = "an" ->
                             (payload \div 11) * 2 + IF rem(11) >= 6 THEN 1 ELSE 0
                        [] payload >= 0 /\ mode = "byte"  -> payload \div 8
                        [] payload >= 0 /\ mode = "kanji" -> (payload \div 13) * 2
                        [] OTHER -> 0
           maxsize == MaximumWords(mode, v)
<1>1. LengthIndicator(mode, v) \in Int /\ maxsize \in Int
  <2>1. v \in Int
    BY DEF Versions, VersionMax
  <2>2. mode \notin Splittable => LengthIndicator(mode, v) = 0 /\ maxsize = 0
    BY DEF LengthIndicator, MaximumWords
  <2>3. QED
    BY <2>1, <2>2, IndicatorLengths
<1>2. payload \in Int
  BY <1>1 DEF MODE_INDICATOR_SIZE
<1>a. mode \notin Splittable => maxsize = 0 /\ size = 0
  BY DEF MaximumWords, Splittable
<1>b. mode = "kanji" => maxsize % 2 = 0
  <2>1. \A x : mode = "kanji" => MaximumWords(mode, v) = (2 ^ LengthIndicator(mode, v) - 1) * 2
    BY DEF MaximumWords, Splittable
  <2>2. LengthIndicator("kanji", v) \in {8, 10, 12}
    BY DEF LengthIndicator, Splittable, lengthTableBits, VersionRange
  <2>3. 2 ^ 8 = 256 /\ 2 ^ 10 = 1024 /\ 2 ^ 12 = 4096
    OBVIOUS
  <2> DEFINE p == 2 ^ LengthIndicator("kanji", v)
  <2>4. p \in {2 ^ 8, 2 ^ 10, 2 ^ 12}
    BY <2>2, Zenon
  <2>5. mode = "kanji" => maxsize = (p - 1) * 2
    BY <2>1
  <2> HIDE DEF p, maxsize
  <2>6. QED
    BY <2>3, <2>4, <2>5
<1>c. mode = "kanji" => size = 0 \/ size = (payload \div 13) * 2
  OBVIOUS
<1>3. LengthOfCode(mode, v, n) = IF maxsize > 0 /\ size > maxsize THEN maxsize ELSE size
  BY DEF LengthOfCode
<1> HIDE DEF payload, maxsize
<1>4. \/ size = 0
      \/ /\ payload >= 0
         /\ \/ size = payload \div 8 \/ size = (payload \div 13) * 2
            \/ \E k \in 0..2 : size = (payload \div 10) * 3 + k
            \/ \E k \in 0..1 : size = (payload \div 11) * 2 + k
  BY <1>2
<1>5. size \in Nat
  BY <1>2, <1>4
<1>d. mode = "kanji" => size % 2 = 0
  <2>1. payload \div 13 \in Int
    BY <1>2
  <2>2. \A x \in Int : (x * 2) % 2 = 0
    OBVIOUS
  <2> HIDE DEF size
  <2>3. QED
    BY <1>c, <2>1, <2>2
<1> HIDE DEF size
<1>6. QED
  BY <1>1, <1>3, <1>5, <1>a, <1>b, <1>d

\* An entry is divided, or the current symbol is full.
LEMMA DivideStreams == ASSUME Streams, Divide PROVE Streams'
<1> DEFINE e      == Head(entries)
           bytes  == LengthOfCode(e.mode, job.version, Room(used))
           first  == Piece(e.data, 1, bytes)
           second == Piece(e.data, bytes + 1, Len(e.data))
           e1     == [e EXCEPT !.data = first]
           e2     == [e EXCEPT !.data = second]
<1>1. /\ pc = "deal" /\ entries # << >>
      /\ head' = << >> /\ used' = 0
      /\ UNCHANGED <<job, rest, version, guess, bits, out>>
      /\ \/ inputs' = Append(inputs, head) /\ UNCHANGED <<entries, pc>>
         \/ /\ inputs' = Append(inputs, Append(head, e1))
            /\ entries' = <<e2>> \o Tail(entries) /\ UNCHANGED pc
            /\ bytes # 0 /\ Check(e.mode, second)
         \/ pc' = "failed" /\ UNCHANGED <<entries, inputs>>
  BY DEF Divide, encode
<1>2. IsItem(e) /\ IsEntry(e) /\ IsList(Tail(entries))
  BY <1>1, ListTail DEF Streams, IsItem
<1>3. ~job.mqr /\ job.version \in Versions /\ job.level \in Levels
  BY <1>1, JobIs DEF Streams
<1>4. /\ bytes \in Nat /\ Len(e.data) \in Int
      /\ e.mode = "kanji" => bytes % 2 = 0
      /\ e.mode \notin Splittable => bytes = 0
  <2>1. DataLength(job.version, job.level) \in Int
    BY <1>3, DataLengthIsInt
  <2>2. Room(used) \in Int
    BY <2>1 DEF Room, MaxBits, STRUCTURE_HEADER_SIZE, Streams
  <2>3. Len(e.data) \in Int
    BY <1>2 DEF IsEntry, IsSeq
  <2>4. /\ bytes \in Nat
        /\ e.mode = "kanji" => bytes % 2 = 0
        /\ e.mode \notin Splittable => bytes = 0
    BY <1>2, <1>3, <2>2, LengthOfCodeIsNat DEF IsEntry
  <2>5. QED
    BY <2>3, <2>4
<1> HIDE DEF bytes
<1>5. IsSeq(first) /\ IsSeq(second) /\ Len(first) = bytes
  BY <1>4, PieceIsSeq
<1> HIDE DEF e, first, second
<1>6. bytes # 0 /\ Check(e.mode, second) => IsItem(e1) /\ IsItem(e2)
  <2>1. e1 = [mode |-> e.mode, data |-> first] /\ e2 = [mode |-> e.mode, data |-> second]
    BY <1>2 DEF IsEntry
  <2>2. Check(e.mode, second) => /\ Len(second) > 0
                                 /\ e.mode = "kanji" => Len(second) % 2 = 0
    BY DEF Check
  <2>3. ASSUME bytes # 0, Check(e.mode, second) PROVE IsItem(e1)
    <3>1. e.mode \in Splittable /\ (e.mode = "kanji" => bytes % 2 = 0) /\ bytes > 0
      BY <1>4, <2>3
    <3>2. QED
      BY <1>2, <1>5, <2>1, <3>1 DEF IsItem, IsEntry, Splittable
  <2>4. ASSUME bytes # 0, Check(e.mode, second) PROVE IsItem(e2)
    <3>1. e.mode \in Splittable
      BY <1>4, <2>4
    <3>2. QED
      BY <1>2, <1>5, <2>1, <2>2, <2>4, <3>1 DEF IsItem, IsEntry, Splittable
  <2>5. QED
    BY <2>3, <2>4
<1> HIDE DEF e1, e2
<1>7. /\ AreLists(Append(inputs, head)) /\ IsList(<< >>)
      /\ bytes # 0 /\ Check(e.mode, second) =>
           /\ AreLists(Append(inputs, Append(head, e1)))
           /\ IsList(<<e2>> \o Tail(entries))
  BY <1>2, <1>6, ListAppended, ListsAppended, ListInFront, EmptyList DEF Streams
<1>8. /\ IsList(entries') /\ IsList(head') /\ used' \in Int /\ AreLists(inputs')
      /\ pc' \in {"deal", "failed"}
  <2>1. IsList(entries) /\ AreLists(inputs)
    BY DEF Streams
  <2>2. IsList(head') /\ used' \in Int
    BY <1>1, <1>7
  <2>3. IsList(entries')
    BY <1>1, <1>7, <2>1
  <2>4. AreLists(inputs')
    BY <1>1, <1>7, <2>1
  <2>5. pc' \in {"deal", "failed"}
    BY <1>1
  <2>6. QED
    BY <2>2, <2>3, <2>4, <2>5
<1>9. QED
  BY <1>1, <1>8 DEF Streams, StreamFillsSymbol, Working

\* All inputs get their headers.
LEMMA DealtStreams == ASSUME Streams, Dealt PROVE Streams'
<1> DEFINE list == Append(inputs, head)
<1>1. /\ pc = "deal" /\ head' = << >>
      /\ UNCHANGED <<job, rest, entries, used, version, guess, bits, out>>
      /\ \/ pc' = "failed" /\ UNCHANGED inputs
         \/ pc' = "start" /\ inputs' = InsertHeaders(list, parity)
  BY DEF Dealt, encode
<1>2. AreLists(list) /\ Len(list) >= 1
  BY ListsAppended, Appended DEF Streams, AreLists
<1> HIDE DEF list
<1>3. AreLists(InsertHeaders(list, parity)) /\ Len(InsertHeaders(list, parity)) >= 1
  BY <1>2, HeadersInserted
<1>4. Len(out) = 0 /\ IsList(<< >>)
  BY <1>1, EmptyList DEF Streams
<1>5. job.structured
  BY <1>1 DEF Streams
<1>6. /\ IsList(head') /\ AreLists(inputs') /\ pc' \in {"start", "failed"}
      /\ pc' = "start" => Len(out) < Len(inputs')
  BY <1>1, <1>3, <1>4 DEF Streams
<1>7. QED
  BY <1>1, <1>5, <1>6 DEF Streams, StreamFillsSymbol, Working

\* The next input starts with the version asked for, the FNC1 header in front of it.
LEMMA StartStreams == ASSUME Streams, Start PROVE Streams'
<1> DEFINE e  == [mode |-> "fnc1second", data |-> <<job.appid>>]
           l  == <<e>> \o Input
           ls == <<l>>
<1>1. /\ pc = "start" /\ version' = job.version /\ bits' = << >> /\ head' = << >>
      /\ UNCHANGED <<job, rest, entries, used, out>>
      /\ \/ pc' = (IF job.mqr THEN "encode" ELSE "estimate") /\ UNCHANGED inputs
         \/ pc' \in {"failed", "wild"} /\ UNCHANGED inputs
         \/ ~job.structured /\ job.fnc1 # 0 /\ pc' = "estimate" /\ inputs' = ls
  BY DEF Start
<1>2. IsItem(e)
  <2>1. \A x : <<x>> \in Seq({x}) /\ Len(<<x>>) = 1
    OBVIOUS
  <2>2. IsSeq(<<job.appid>>) /\ Len(<<job.appid>>) = 1
    BY <2>1 DEF IsSeq
  <2>3. QED
    BY <2>2 DEF IsItem, IsEntry
<1> HIDE DEF e
<1>3. Len(out) \in Nat /\ Len(inputs) \in Nat /\ Len(out) < Len(inputs)
      /\ (~job.structured => Len(inputs) = 1)
  BY <1>1 DEF Streams, Working, IsSeq, AreLists
<1>4. IsList(Input)
  BY <1>3 DEF Streams, Input, AreLists
<1>5. AreLists(ls) /\ Len(ls) = 1
  BY <1>2, <1>4, ListInFront, OneList
<1> HIDE DEF ls
<1>6. IsVersion(job.version, job.mqr) /\ IsList(<< >>) /\ IsSeq(<< >>)
  BY JobIs, EmptyList DEF Streams
<1>7. /\ AreLists(inputs') /\ Len(out) < Len(inputs')
      /\ (~job.structured => Len(inputs') = 1)
  <2>1. CASE UNCHANGED inputs
    BY <1>3, <2>1 DEF Streams
  <2>2. CASE ~job.structured /\ inputs' = ls
    BY <1>3, <1>5, <2>2
  <2>3. QED
    BY <1>1, <2>1, <2>2
<1>8. /\ pc' \in {"encode", "estimate", "failed", "wild"} /\ ~Refused(job)
      /\ pc' = "estimate" => ~job.mqr
  BY <1>1 DEF Streams, Refused
<1>9. QED
  BY <1>1, <1>6, <1>7, <1>8 DEF Streams, StreamFillsSymbol, Working

\* QRspec_getMinimumVersion finds a version or says there is none.
LEMMA MinimumVersionIs ==
  ASSUME NEW size, NEW level PROVE MinimumVersion(size, level) \in {-1} \union Versions
<1> DEFINE fits == {v \in Versions : DataLength(v, level) >= size}
<1>1. fits \in SUBSET Nat /\ fits \subseteq Versions
  BY DEF Versions, VersionMax
<1>2. MinimumVersion(size, level) = IF fits = {} THEN -1 ELSE Min(fits)
  BY DEF MinimumVersion
<1> HIDE DEF fits
<1>3. ASSUME fits # {} PROVE Min(fits) \in fits
  <2>1. \E m \in fits : \A x \in fits : m <= x
    BY <1>1, <1>3, LeastElement
  <2>2. QED
    BY <2>1 DEF Min
<1>4. QED
  BY <1>1, <1>2, <1>3

\* The estimate only raises the version.
LEMMA EstimateStreams == ASSUME Streams, EstimateVersion PROVE Streams'
<1> DEFINE v == MinimumVersion((EstimateAll(Input, guess) + 7) \div 8, job.level)
<1>1. /\ pc = "estimate" /\ pc' \in {"estimate", "encode"} /\ version' \in {v, version}
      /\ UNCHANGED <<job, rest, entries, head, used, inputs, bits, out>>
      /\ version' = v => version' = version \/ v > version
  BY DEF EstimateVersion, build
<1>2. v \in {-1} \union Versions
  BY MinimumVersionIs
<1> HIDE DEF v
<1>3. ~job.mqr /\ version \in {0} \union Versions
  BY <1>1 DEF Streams, IsVersion
<1>4. version' \in {0} \union Versions
  <2>1. CASE version' = version
    BY <1>3, <2>1
  <2>2. CASE version' = v /\ v > version
    BY <1>2, <1>3, <2>2 DEF Versions, VersionMax
  <2>3. QED
    BY <1>1, <2>1, <2>2
<1>5. QED
  BY <1>1, <1>3, <1>4 DEF Streams, StreamFillsSymbol, Working, IsVersion

\* An entry adds its bits.
LEMMA EncodeStreams == ASSUME Streams, EncodeEntry PROVE Streams'
<1> DEFINE e == Input[Len(head) + 1]
           b == EncodeBitStream(e, version, job.mqr)
<1>1. /\ pc = "encode" /\ Len(head) < Len(Input)
      /\ UNCHANGED <<job, rest, entries, used, inputs, version, guess, out>>
      /\ \/ bits' = bits \o b /\ head' = Append(head, e) /\ UNCHANGED pc
         \/ pc' = "failed" /\ UNCHANGED <<bits, head>>
  BY DEF EncodeEntry
<1>2. IsList(Input)
  <2>1. Len(out) \in Nat /\ Len(inputs) \in Nat /\ Len(out) < Len(inputs)
    BY <1>1 DEF Streams, Working, IsSeq, AreLists
  <2>2. QED
    BY <2>1 DEF Streams, Input, AreLists
<1>3. Len(head) + 1 \in 1..Len(Input)
  BY <1>1, <1>2 DEF Streams, IsList, IsSeq
<1>4. IsItem(e) /\ IsEntry(e)
  BY <1>2, <1>3 DEF IsList, IsItem
<1>5. IsSeq(b)
  BY <1>4, EncodeBitStreamIsSeq, JobIs DEF Streams
<1> HIDE DEF b, e
<1>6. IsSeq(bits \o b) /\ IsList(Append(head, e))
  BY <1>4, <1>5, Joined, ListAppended DEF Streams
<1>7. IsSeq(bits') /\ IsList(head') /\ pc' \in {"encode", "failed"}
  BY <1>1, <1>6 DEF Streams
<1>8. QED
  BY <1>1, <1>7 DEF Streams, StreamFillsSymbol, Working

\* The stream is padded in a version that there is: version 0 is raised before.
LEMMA CheckStreams == ASSUME Streams, CheckVersion PROVE Streams'
<1> DEFINE v == MinimumVersion((Len(bits) + 7) \div 8, job.level)
<1>1. /\ pc = "encode" /\ ~job.mqr
      /\ UNCHANGED <<job, rest, entries, used, inputs, guess, out>>
      /\ \/ v < 0 /\ pc' = "failed" /\ UNCHANGED <<version, bits, head>>
         \/ v > version /\ version' = v /\ bits' = << >> /\ head' = << >> /\ UNCHANGED pc
         \/ ~(v < 0) /\ ~(v > version) /\ pc' = "pad" /\ UNCHANGED <<version, bits, head>>
  BY DEF CheckVersion
<1>2. v \in {-1} \union Versions
  BY MinimumVersionIs
<1>3. version \in {0} \union Versions
  BY <1>1 DEF Streams, IsVersion
<1> HIDE DEF v
<1>4. /\ version' \in {0} \union Versions /\ pc' \in {"failed", "encode", "pad"}
      /\ pc' = "pad" => version' \in Versions
  <2>1. CASE v < 0 /\ pc' = "failed" /\ version' = version
    BY <1>3, <2>1
  <2>2. CASE v > version /\ version' = v /\ UNCHANGED pc
    BY <1>1, <1>2, <1>3, <2>2 DEF Versions, VersionMax
  <2>3. CASE ~(v < 0) /\ ~(v > version) /\ pc' = "pad" /\ version' = version
    BY <1>2, <1>3, <2>3 DEF Versions, VersionMax
  <2>4. QED
    BY <1>1, <2>1, <2>2, <2>3
<1>5. IsSeq(bits') /\ IsList(head')
  BY <1>1, EmptyList DEF Streams
<1>6. QED
  BY <1>1, <1>4, <1>5 DEF Streams, StreamFillsSymbol, Working, IsVersion

\* What BitStream_toByte is given fills the symbol, or in Micro QR ends in its
\* last byte.
LEMMA PadStreams == ASSUME Streams, Pad PROVE Streams'
<1> DEFINE padding == IF job.mqr THEN MPadding(Len(bits), version, job.level)
                      ELSE Padding(Len(bits), version, job.level)
           all     == bits \o padding
           o       == [version |-> version, stream |-> ToByte(all)]
<1>1. /\ pc = "pad" \/ (pc = "encode" /\ job.mqr)
      /\ UNCHANGED <<job, rest, entries, head, used, inputs, version, guess>>
      /\ \/ pc' = "failed" /\ UNCHANGED <<bits, out>>
         \/ /\ ~(MaxLength < Len(bits)) /\ out' = Append(out, o) /\ bits' = << >>
            /\ pc' = IF Len(out') = Len(inputs) THEN "done" ELSE "start"
  BY DEF Pad, build
<1>2. /\ job.mqr \in BOOLEAN /\ job.level \in Levels /\ Len(bits) \in Nat
      /\ IF job.mqr THEN version \in MVersions ELSE version \in Versions
      /\ Len(out) \in Nat /\ Len(inputs) \in Nat /\ Len(out) < Len(inputs)
      /\ ~job.structured => Len(inputs) = 1
      /\ ~Refused(job)
  BY <1>1, JobIs DEF Streams, IsVersion, IsSeq, AreLists, Working
<1>3. CASE pc' = "failed" /\ UNCHANGED <<bits, out>>
  BY <1>1, <1>3 DEF Streams, StreamFillsSymbol, Working
<1>4. ASSUME ~(MaxLength < Len(bits))
      PROVE  Len(o.stream) = IF job.mqr THEN MDataLength(version, job.level)
                             ELSE DataLength(version, job.level)
  <2>1. CASE job.mqr
    <3>1. MDataLengthBit(version, job.level) \in Int
      BY <1>2, <2>1, MDataLengthBitIs
    <3>2. Len(bits) <= MDataLengthBit(version, job.level)
      BY <1>2, <1>4, <2>1, <3>1 DEF MaxLength
    <3>3. /\ IsSeq(padding)
          /\ (Len(bits) + Len(padding) + 7) \div 8 = MDataLength(version, job.level)
      BY <1>2, <2>1, <3>2, MPaddingFills
    <3> HIDE DEF padding
    <3>4. IsSeq(all) /\ Len(all) = Len(bits) + Len(padding)
      BY <3>3, Joined DEF Streams
    <3> HIDE DEF all
    <3>5. QED
      BY <2>1, <3>3, <3>4, ToByteLength
  <2>2. CASE ~job.mqr
    <3>1. DataLength(version, job.level) \in Int
      BY <1>2, <2>2, DataLengthIsInt
    <3>2. Len(bits) <= 8 * DataLength(version, job.level)
      BY <1>2, <1>4, <2>2, <3>1 DEF MaxLength
    <3>3. /\ IsSeq(padding)
          /\ Len(bits) + Len(padding) = 8 * DataLength(version, job.level)
      BY <1>2, <2>2, <3>2, PaddingFills
    <3> HIDE DEF padding
    <3>4. IsSeq(all) /\ Len(all) = 8 * DataLength(version, job.level)
      BY <3>3, Joined DEF Streams
    <3> HIDE DEF all
    <3>5. (8 * DataLength(version, job.level) + 7) \div 8 = DataLength(version, job.level)
      BY <3>1
    <3>6. QED
      BY <2>2, <3>4, <3>5, ToByteLength
  <2>3. QED
    BY <2>1, <2>2
<1>5. CASE /\ ~(MaxLength < Len(bits)) /\ out' = Append(out, o) /\ bits' = << >>
           /\ pc' = IF Len(out') = Len(inputs) THEN "done" ELSE "start"
  <2>1. o.version = version
    OBVIOUS
  <2> HIDE DEF o
  <2>2. /\ IsSeq(out') /\ Len(out') = Len(out) + 1
        /\ DOMAIN out' = 1..(Len(out) + 1) /\ DOMAIN out = 1..Len(out)
        /\ \A i \in 1..Len(out) : out'[i] = out[i]
        /\ out'[Len(out) + 1] = o
    BY <1>5, Appended DEF Streams
  <2>3. StreamFillsSymbol'
    <3> SUFFICES ASSUME NEW i \in DOMAIN out'
                 PROVE  Len(out'[i].stream) = IF job.mqr THEN MDataLength(out'[i].version, job.level)
                                              ELSE DataLength(out'[i].version, job.level)
      BY <1>1 DEF StreamFillsSymbol
    <3>1. i \in 1..Len(out) \/ i = Len(out) + 1
      BY <1>2, <2>2
    <3>2. CASE i \in 1..Len(out)
      BY <2>2, <3>2 DEF Streams, StreamFillsSymbol
    <3>3. CASE i = Len(out) + 1
      BY <1>4, <1>5, <2>1, <2>2, <3>3
    <3>4. QED
      BY <3>1, <3>2, <3>3
  <2>4. IsSeq(bits')
    BY <1>5, EmptyList
  <2>5. pc' \in {"done", "start"} /\ (pc' = "start" => Len(out') < Len(inputs))
    BY <1>2, <1>5, <2>2
  <2>6. QED
    BY <1>1, <1>2, <2>2, <2>3, <2>4, <2>5 DEF Streams, Working
<1>6. QED
  BY <1>1, <1>3, <1>5

\* Nothing is encoded yet.
LEMMA InitStreams == Init => Streams
<1> SUFFICES ASSUME Init PROVE Streams
  OBVIOUS
<1>1. out = << >> /\ DOMAIN out = {}
  BY DEF Init
<1>2. StreamFillsSymbol
  BY <1>1 DEF StreamFillsSymbol
<1>3. IsList(<< >>) /\ IsSeq(<< >>) /\ AreLists(<< >>)
  BY EmptyList DEF AreLists
<1>4. IsVersion(version, job.mqr)
  BY JobIs DEF Init
<1>5. pc = IF Refused(job) THEN "failed" ELSE "build"
  BY DEF Init
<1>6. QED
  BY <1>1, <1>2, <1>3, <1>4, <1>5 DEF Init, Streams, Working

\* Every step keeps what is known of the streams.
LEMMA StreamsStep == ASSUME Streams, Cutting, [Next]_vars PROVE Streams'
<1>1. UNCHANGED vars => Streams'
  BY DEF Streams, StreamFillsSymbol, Working, vars, build, encode
<1>2. QED
  BY <1>1, SplitStreams, AppendStreams, BuiltStreams, FitsStreams, DivideStreams,
     DealtStreams, StartStreams, EstimateStreams, EncodeStreams, CheckStreams, PadStreams DEF Next

\* Every stream that QRinput_getByteStream hands over has as many bytes as the
\* symbol has data codewords: QRraw_new reads that many.
THEOREM StreamsFill == Spec => []StreamFillsSymbol
<1>1. Init => Cutting /\ Streams
  BY CuttingInit, InitStreams
<1>2. (Cutting /\ Streams) /\ [Next]_vars => (Cutting /\ Streams)'
  BY CuttingStep, StreamsStep
<1>3. Streams => StreamFillsSymbol
  BY DEF Streams
<1>4. QED
  BY <1>1, <1>2, <1>3, PTL DEF Spec

-----------------------------------------------------------------------------
(* Sums.                                                                   *)

\* What holds of 0 and of every number if it holds of the one before holds of all.
LEMMA FromZero ==
  ASSUME NEW n \in Nat, NEW T, 0 \in T, \A i \in 1..n : i - 1 \in T => i \in T
  PROVE  \A i \in 0..n : i \in T
<1> DEFINE Others == {i \in 0..n : i \notin T}
<1>1. ASSUME NEW k \in Others, \A m \in Others : k <= m PROVE FALSE
  <2>1. k \in 1..n /\ k \notin T
    OBVIOUS
  <2>2. k - 1 \notin T /\ k - 1 \in 0..n
    BY <2>1
  <2>3. k - 1 \in Others /\ ~(k <= k - 1)
    BY <2>2
  <2>4. QED
    BY <1>1, <2>3
<1>2. Others \in SUBSET Nat
  OBVIOUS
<1>3. Others = {}
  <2> HIDE DEF Others
  <2>1. QED
    BY <1>1, <1>2, LeastElement
<1>4. QED
  BY <1>3

Numbered(n, f) == /\ f = [i \in 1..n |-> f[i]]
                  /\ \A i \in 1..n : f[i] \in Nat

\* s[i] is the sum of the first i of n numbers.
Sums(n, f, s) == /\ s \in [0..n -> Nat] /\ s[0] = 0
                 /\ \A i \in 1..n : s[i] = s[i - 1] + f[i]

\* SumOf is the last of them.
LEMMA SumsExist ==
  ASSUME NEW n \in Nat, NEW f, Numbered(n, f)
  PROVE  \E s : Sums(n, f, s) /\ SumOf(f) = s[n]
<1> DEFINE N    == n + 1
           Stop == {N}
           base == [q \in 1..N |-> 0]
           next == [q \in 1..N |-> q + 1]
           h    == [q \in 1..N |-> [x \in Nat |-> x + f[N - q]]]
           Body(s, i) == IF i = 0 THEN 0 ELSE s[i - 1] + f[i]
           S == CHOOSE s : s = [i \in 0..Len(f) |-> Body(s, i)]
<1>1. Len(f) = n
  BY FunctionIsSeq DEF Numbered
<1>2. SumOf(f) = S[Len(f)]
  BY DEF SumOf
<1>3. PICK g : Computes(g, N, Nat, Stop, base, next, h)
  <2>1. ASSUME NEW q \in 1..N, q \notin Stop
        PROVE  next[q] \in (q + 1)..N /\ \A x \in Nat : h[q][x] \in Nat
    <3>1. N - q \in 1..n
      BY <2>1
    <3>2. f[N - q] \in Nat
      BY <3>1 DEF Numbered
    <3>3. QED
      BY <2>1, <3>2
  <2>2. \A q \in 1..N : base[q] \in Nat
    OBVIOUS
  <2>3. N \in Nat
    OBVIOUS
  <2> HIDE DEF N, Stop, base, next, h
  <2>4. Recursion(N, Nat, Stop, base, next, h)
    BY <2>1, <2>2 DEF Recursion
  <2>5. QED
    BY <2>3, <2>4, UpwardsExists
<1> DEFINE s == [i \in 0..n |-> g[N - i]]
<1>4. ASSUME NEW i \in 1..n PROVE s[i] = s[i - 1] + f[i] /\ s[i - 1] \in Nat
  <2>1. N - i \in 1..N /\ N - i \notin Stop /\ N - (N - i) = i
    OBVIOUS
  <2>2. N - (i - 1) \in 1..N /\ next[N - i] = N - (i - 1)
    BY <2>1
  <2>3. g[N - (i - 1)] \in Nat
    BY <1>3, <2>2 DEF Computes
  <2>4. g[N - i] = h[N - i][g[next[N - i]]]
    BY <1>3, <2>1 DEF Computes
  <2>5. g[N - i] = g[N - (i - 1)] + f[i]
    BY <2>1, <2>2, <2>3, <2>4
  <2>6. QED
    BY <2>3, <2>5
<1>5. s[0] = 0
  <2>1. N \in 1..N /\ N \in Stop
    OBVIOUS
  <2>2. g[N] = base[N]
    BY <1>3, <2>1 DEF Computes
  <2>3. QED
    BY <2>2
<1>6. ASSUME NEW i \in 0..n PROVE s[i] \in Nat
  <2>1. N - i \in 1..N
    OBVIOUS
  <2>2. QED
    BY <1>3, <2>1 DEF Computes
<1>7. s = [i \in 0..n |-> s[i]]
  OBVIOUS
<1> HIDE DEF s
<1>8. s = [i \in 0..n |-> Body(s, i)]
  <2>1. \A i \in 0..n : s[i] = Body(s, i)
    BY <1>4, <1>5
  <2> HIDE DEF Body
  <2>2. QED
    BY <1>7, <2>1
<1>9. S = [i \in 0..n |-> Body(S, i)]
  <2> HIDE DEF Body
  <2>1. QED
    BY <1>1, <1>8
<1> HIDE DEF S
<1>10. \A i \in 0..n : S[i] = Body(S, i)
  <2> HIDE DEF Body
  <2>1. QED
    BY <1>9
<1> DEFINE T == {i \in 0..n : S[i] = s[i]}
<1>11. 0 \in T
  BY <1>5, <1>10
<1>12. ASSUME NEW i \in 1..n, i - 1 \in T PROVE i \in T
  <2>1. S[i] = S[i - 1] + f[i]
    BY <1>10
  <2>2. QED
    BY <1>4, <1>12, <2>1
<1>13. S[n] = s[n]
  <2> HIDE DEF T
  <2>1. \A i \in 0..n : i \in T
    BY <1>11, <1>12, FromZero
  <2>2. QED
    BY <2>1 DEF T
<1>14. Sums(n, f, s)
  <2>1. s \in [0..n -> Nat]
    BY <1>6, <1>7
  <2>2. QED
    BY <1>4, <1>5, <2>1 DEF Sums
<1>15. QED
  BY <1>1, <1>2, <1>13, <1>14

\* A sum is as large as each of its numbers.
LEMMA SumBounds ==
  ASSUME NEW n \in Nat, NEW f, Numbered(n, f)
  PROVE  SumOf(f) \in Nat /\ \A k \in 1..n : f[k] <= SumOf(f)
<1>1. PICK s : Sums(n, f, s) /\ SumOf(f) = s[n]
  BY SumsExist
<1> DEFINE T == {i \in 0..n : \A k \in 1..i : f[k] <= s[i]}
<1>2. 0 \in T
  OBVIOUS
<1>3. ASSUME NEW i \in 1..n, i - 1 \in T PROVE i \in T
  <2>1. s[i] = s[i - 1] + f[i] /\ s[i - 1] \in Nat /\ f[i] \in Nat
    BY <1>1 DEF Sums, Numbered
  <2>2. ASSUME NEW k \in 1..i PROVE f[k] <= s[i]
    <3>1. CASE k = i
      BY <2>1, <3>1
    <3>2. CASE k # i
      <4>1. k \in 1..(i - 1) /\ k \in 1..n
        BY <3>2
      <4>2. f[k] <= s[i - 1]
        BY <1>3, <4>1
      <4>3. f[k] \in Nat
        BY <4>1 DEF Numbered
      <4>4. QED
        BY <2>1, <4>2, <4>3
    <3>3. QED
      BY <3>1, <3>2
  <2>3. QED
    BY <2>2
<1>4. n \in T
  <2> HIDE DEF T
  <2>1. \A i \in 0..n : i \in T
    BY <1>2, <1>3, FromZero
  <2>2. QED
    BY <2>1
<1>5. QED
  BY <1>1, <1>4 DEF Sums

\* Larger numbers have a larger sum.
LEMMA SumGrows ==
  ASSUME NEW n \in Nat, NEW f, NEW g, Numbered(n, f), Numbered(n, g),
         \A i \in 1..n : f[i] <= g[i]
  PROVE  SumOf(f) <= SumOf(g)
<1>1. PICK s : Sums(n, f, s) /\ SumOf(f) = s[n]
  BY SumsExist
<1>2. PICK t : Sums(n, g, t) /\ SumOf(g) = t[n]
  BY SumsExist
<1> DEFINE T == {i \in 0..n : s[i] <= t[i]}
<1>3. 0 \in T
  BY <1>1, <1>2 DEF Sums
<1>4. ASSUME NEW i \in 1..n, i - 1 \in T PROVE i \in T
  <2>1. s[i] = s[i - 1] + f[i] /\ s[i - 1] \in Nat /\ f[i] \in Nat
    BY <1>1 DEF Sums, Numbered
  <2>2. t[i] = t[i - 1] + g[i] /\ t[i - 1] \in Nat /\ g[i] \in Nat
    BY <1>2 DEF Sums, Numbered
  <2>3. f[i] <= g[i] /\ s[i - 1] <= t[i - 1]
    BY <1>4
  <2>4. QED
    BY <2>1, <2>2, <2>3
<1>5. n \in T
  <2> HIDE DEF T
  <2>1. \A i \in 0..n : i \in T
    BY <1>3, <1>4, FromZero
  <2>2. QED
    BY <2>1
<1>6. QED
  BY <1>1, <1>2, <1>5

\* One number more.
LEMMA SumOfMore ==
  ASSUME NEW n \in Nat, NEW f, NEW g, Numbered(n, f), Numbered(n + 1, g),
         \A i \in 1..n : f[i] = g[i]
  PROVE  SumOf(g) = SumOf(f) + g[n + 1]
<1>1. PICK s : Sums(n, f, s) /\ SumOf(f) = s[n]
  BY SumsExist
<1>2. PICK t : Sums(n + 1, g, t) /\ SumOf(g) = t[n + 1]
  BY SumsExist
<1> DEFINE T == {i \in 0..n : s[i] = t[i]}
<1>3. 0 \in T
  BY <1>1, <1>2 DEF Sums
<1>4. ASSUME NEW i \in 1..n, i - 1 \in T PROVE i \in T
  <2>1. s[i] = s[i - 1] + f[i] /\ t[i] = t[i - 1] + g[i] /\ f[i] = g[i]
    BY <1>1, <1>2 DEF Sums
  <2>2. QED
    BY <1>4, <2>1
<1>5. n \in T
  <2> HIDE DEF T
  <2>1. \A i \in 0..n : i \in T
    BY <1>3, <1>4, FromZero
  <2>2. QED
    BY <2>1
<1>6. t[n + 1] = t[n] + g[n + 1]
  <2>1. n + 1 \in 1..(n + 1) /\ (n + 1) - 1 = n
    OBVIOUS
  <2>2. QED
    BY <1>2, <2>1 DEF Sums
<1>7. QED
  BY <1>1, <1>2, <1>5, <1>6

\* No numbers add up to nothing.
LEMMA SumOfNone == ASSUME NEW f, Numbered(0, f) PROVE SumOf(f) = 0
BY SumsExist DEF Sums

-----------------------------------------------------------------------------
(* The bits of an entry.                                                   *)

Unit(mode)    == IF mode = "kanji" THEN 2 ELSE 1
Most(mode, v) == 2 ^ LengthIndicator(mode, v) - 1

\* The most characters that the length indicators count.
LEMMA MostIs ==
  ASSUME NEW v \in Int
  PROVE  /\ LengthIndicator("num", v)   = <<10, 12, 14>>[VersionRange(v)]
         /\ LengthIndicator("an", v)    = <<9, 11, 13>>[VersionRange(v)]
         /\ LengthIndicator("byte", v)  = <<8, 16, 16>>[VersionRange(v)]
         /\ LengthIndicator("kanji", v) = <<8, 10, 12>>[VersionRange(v)]
         /\ Most("num", v)   = <<1023, 4095, 16383>>[VersionRange(v)]
         /\ Most("an", v)    = <<511, 2047, 8191>>[VersionRange(v)]
         /\ Most("byte", v)  = <<255, 65535, 65535>>[VersionRange(v)]
         /\ Most("kanji", v) = <<255, 1023, 4095>>[VersionRange(v)]
<1> DEFINE r == VersionRange(v)
<1>1. r \in {1, 2, 3}
  BY DEF VersionRange
<1>2. /\ LengthIndicator("num", v)   = <<10, 12, 14>>[r]
      /\ LengthIndicator("an", v)    = <<9, 11, 13>>[r]
      /\ LengthIndicator("byte", v)  = <<8, 16, 16>>[r]
      /\ LengthIndicator("kanji", v) = <<8, 10, 12>>[r]
  BY DEF LengthIndicator, lengthTableBits, Splittable
<1> HIDE DEF r
<1>3. /\ 2 ^ 8 = 256 /\ 2 ^ 9 = 512 /\ 2 ^ 10 = 1024 /\ 2 ^ 11 = 2048 /\ 2 ^ 12 = 4096
      /\ 2 ^ 13 = 8192 /\ 2 ^ 14 = 16384 /\ 2 ^ 16 = 65536
  OBVIOUS
<1>4. CASE r = 1
  <2>1. /\ LengthIndicator("num", v) = 10 /\ LengthIndicator("an", v) = 9
        /\ LengthIndicator("byte", v) = 8 /\ LengthIndicator("kanji", v) = 8
    BY <1>2, <1>4
  <2>2. /\ Most("num", v) = 1023 /\ Most("an", v) = 511
        /\ Most("byte", v) = 255 /\ Most("kanji", v) = 255
    <3>1. /\ 2 ^ LengthIndicator("num", v) = 2 ^ 10 /\ 2 ^ LengthIndicator("an", v) = 2 ^ 9
          /\ 2 ^ LengthIndicator("byte", v) = 2 ^ 8 /\ 2 ^ LengthIndicator("kanji", v) = 2 ^ 8
      BY <2>1, Zenon
    <3>2. QED
      BY <1>3, <3>1 DEF Most
  <2>3. QED
    BY <1>2, <1>4, <2>2 DEF r
<1>5. CASE r = 2
  <2>1. /\ LengthIndicator("num", v) = 12 /\ LengthIndicator("an", v) = 11
        /\ LengthIndicator("byte", v) = 16 /\ LengthIndicator("kanji", v) = 10
    BY <1>2, <1>5
  <2>2. /\ Most("num", v) = 4095 /\ Most("an", v) = 2047
        /\ Most("byte", v) = 65535 /\ Most("kanji", v) = 1023
    <3>1. /\ 2 ^ LengthIndicator("num", v) = 2 ^ 12 /\ 2 ^ LengthIndicator("an", v) = 2 ^ 11
          /\ 2 ^ LengthIndicator("byte", v) = 2 ^ 16 /\ 2 ^ LengthIndicator("kanji", v) = 2 ^ 10
      BY <2>1, Zenon
    <3>2. QED
      BY <1>3, <3>1 DEF Most
  <2>3. QED
    BY <1>2, <1>5, <2>2 DEF r
<1>6. CASE r = 3
  <2>1. /\ LengthIndicator("num", v) = 14 /\ LengthIndicator("an", v) = 13
        /\ LengthIndicator("byte", v) = 16 /\ LengthIndicator("kanji", v) = 12
    BY <1>2, <1>6
  <2>2. /\ Most("num", v) = 16383 /\ Most("an", v) = 8191
        /\ Most("byte", v) = 65535 /\ Most("kanji", v) = 4095
    <3>1. /\ 2 ^ LengthIndicator("num", v) = 2 ^ 14 /\ 2 ^ LengthIndicator("an", v) = 2 ^ 13
          /\ 2 ^ LengthIndicator("byte", v) = 2 ^ 16 /\ 2 ^ LengthIndicator("kanji", v) = 2 ^ 12
      BY <2>1, Zenon
    <3>2. QED
      BY <1>3, <3>1 DEF Most
  <2>3. QED
    BY <1>2, <1>6, <2>2 DEF r
<1>7. QED
  BY <1>1, <1>4, <1>5, <1>6

\* What a header takes, and what characters take.
HeaderBits == [num |-> <<14, 16, 18>>, an |-> <<13, 15, 17>>,
               byte |-> <<12, 20, 20>>, kanji |-> <<12, 14, 16>>]

\* The header of an entry in a version, and the most it counts.
LEMMA HeaderBitsAre ==
  ASSUME NEW mode \in Splittable, NEW v \in Int
  PROVE  /\ Indicator(mode, v) = HeaderBits[mode][VersionRange(v)]
         /\ Indicator(mode, v) \in Nat
         /\ Most(mode, v) \in {255, 511, 1023, 2047, 4095, 8191, 16383, 65535}
         /\ MaximumWords(mode, v) = Most(mode, v) * Unit(mode)
<1>1. VersionRange(v) \in {1, 2, 3}
  BY DEF VersionRange
<1>2. Indicator(mode, v) = 4 + LengthIndicator(mode, v)
  BY DEF Indicator, MODE_INDICATOR_SIZE
<1>3. MaximumWords(mode, v) = Most(mode, v) * Unit(mode)
  BY DEF MaximumWords, Most, Unit
<1>4. QED
  BY <1>1, <1>2, <1>3, MostIs DEF HeaderBits, Splittable

\* Characters take as many bits as their mode says, rounded up.
LEMMA CharBitsAre ==
  ASSUME NEW mode \in Splittable, NEW n \in Nat
  PROVE  /\ CharBits(mode, n) \in Nat
         /\ mode = "num"   => 3 * CharBits(mode, n) >= 10 * n
         /\ mode = "an"    => 2 * CharBits(mode, n) >= 11 * n
         /\ mode = "byte"  => CharBits(mode, n) = 8 * n
         /\ mode = "kanji" => CharBits(mode, n) = 13 * n
<1>1. n % 3 \in 0..2 /\ n \div 3 \in Nat /\ n = 3 * (n \div 3) + (n % 3)
  OBVIOUS
<1>2. n % 2 \in 0..1 /\ n \div 2 \in Nat /\ n = 2 * (n \div 2) + (n % 2)
  OBVIOUS
<1>3. CASE mode = "num"
  <2>1. CharBits(mode, n) = 10 * (n \div 3) + <<0, 4, 7>>[(n % 3) + 1]
    BY <1>3 DEF CharBits
  <2>2. QED
    BY <1>1, <1>3, <2>1
<1>4. CASE mode = "an"
  <2>1. CharBits(mode, n) = 11 * (n \div 2) + 6 * (n % 2)
    BY <1>4 DEF CharBits
  <2>2. QED
    BY <1>2, <1>4, <2>1
<1>5. CASE mode = "byte"
  BY <1>5 DEF CharBits
<1>6. CASE mode = "kanji"
  BY <1>6 DEF CharBits
<1>7. QED
  BY <1>3, <1>4, <1>5, <1>6 DEF Splittable

\* A piece of an entry is its header and its characters.
LEMMA EncodedLength ==
  ASSUME NEW e, IsEntry(e), e.mode \in Splittable, NEW v \in {0} \union Versions
  PROVE  /\ IsSeq(Encode(e, v, FALSE))
         /\ Len(Encode(e, v, FALSE))
              = Indicator(e.mode, v) + CharBits(e.mode, Len(e.data) \div Unit(e.mode))
<1> DEFINE d    == e.data
           m    == e.mode
           n    == IF m = "kanji" THEN Len(d) \div 2 ELSE Len(d)
           h    == Header(m, v, FALSE, Len(d))
           a    == Bits(4, modeId[m])
           b    == Bits(LengthIndicator(m, v), n)
<1>1. IsSeq(d) /\ Len(d) \in Nat
  BY DEF IsEntry, IsSeq
<1>2. v \in Int /\ LengthIndicator(m, v) \in Nat
  BY IndicatorLengths DEF Versions, VersionMax
<1>3. IsSeq(h) /\ Len(h) = Indicator(m, v)
  <2>1. \A k \in Nat : k \in Int /\ k >= 0
    OBVIOUS
  <2>2. \A k \in Nat : \A num : IsSeq(Bits(k, num)) /\ Len(Bits(k, num)) = k
    BY <2>1, BitsLength
  <2>3. IsSeq(a) /\ Len(a) = 4
    BY <2>2
  <2>4. IsSeq(b) /\ Len(b) = LengthIndicator(m, v)
    BY <1>2, <2>2
  <2>5. h = a \o b
    BY DEF Header
  <2> HIDE DEF a, b, h
  <2>6. QED
    BY <2>3, <2>4, <2>5, Joined DEF Indicator, MODE_INDICATOR_SIZE
<1>4. /\ IsSeq(NumBits(d)) /\ Len(NumBits(d)) = CharBits("num", Len(d))
      /\ IsSeq(AnBits(d)) /\ Len(AnBits(d)) = CharBits("an", Len(d))
      /\ IsSeq(KanjiBits(d)) /\ Len(KanjiBits(d)) = CharBits("kanji", Len(d) \div 2)
      /\ IsSeq(Bytes(d)) /\ Len(Bytes(d)) = CharBits("byte", Len(d))
  BY <1>1, DataLengths
<1>5. \A k \in Nat : k \div 1 = k
  OBVIOUS
<1> DEFINE Good(p) == IsSeq(p) /\ Len(p) = CharBits(m, Len(d) \div Unit(m))
<1>6. \E p : Encode(e, v, FALSE) = h \o p /\ Good(p)
  <2>1. CASE m = "num"
    <3>1. Encode(e, v, FALSE) = h \o NumBits(d) /\ Unit(m) = 1
      BY <2>1 DEF Encode, Unit
    <3>2. Good(NumBits(d))
      BY <1>1, <1>4, <1>5, <2>1, <3>1
    <3>3. QED
      BY <3>1, <3>2
  <2>2. CASE m = "an"
    <3>1. Encode(e, v, FALSE) = h \o AnBits(d) /\ Unit(m) = 1
      BY <2>2 DEF Encode, Unit
    <3>2. Good(AnBits(d))
      BY <1>1, <1>4, <1>5, <2>2, <3>1
    <3>3. QED
      BY <3>1, <3>2
  <2>3. CASE m = "byte"
    <3>1. Encode(e, v, FALSE) = h \o Bytes(d) /\ Unit(m) = 1
      BY <2>3 DEF Encode, Unit
    <3>2. Good(Bytes(d))
      BY <1>1, <1>4, <1>5, <2>3, <3>1
    <3>3. QED
      BY <3>1, <3>2
  <2>4. CASE m = "kanji"
    <3>1. Encode(e, v, FALSE) = h \o KanjiBits(d) /\ Unit(m) = 2
      BY <2>4 DEF Encode, Unit
    <3>2. Good(KanjiBits(d))
      BY <1>4, <2>4, <3>1
    <3>3. QED
      BY <3>1, <3>2
  <2>5. QED
    BY <2>1, <2>2, <2>3, <2>4 DEF Splittable
<1>7. PICK p : Encode(e, v, FALSE) = h \o p /\ Good(p)
  BY <1>6
<1> HIDE DEF h
<1>8. QED
  BY <1>3, <1>7, Joined

\* The bits of c characters in so many pieces as the length indicator asks for.
PiecesOf(mode, v, c) ==
  LET full == (c - 1) \div Most(mode, v)
  IN  full * CharBits(mode, Most(mode, v)) + CharBits(mode, c - full * Most(mode, v))
      + (full + 1) * Indicator(mode, v)

\* One piece, or a full one and the pieces of what is left.
LEMMA PiecesAre ==
  ASSUME NEW mode \in Splittable, NEW v \in Int, NEW c \in Nat \ {0}
  PROVE  /\ PiecesOf(mode, v, c) \in Nat
         /\ c <= Most(mode, v) => PiecesOf(mode, v, c) = CharBits(mode, c) + Indicator(mode, v)
         /\ c > Most(mode, v) =>
              PiecesOf(mode, v, c) = CharBits(mode, Most(mode, v)) + Indicator(mode, v)
                                     + PiecesOf(mode, v, c - Most(mode, v))
<1> DEFINE n    == Most(mode, v)
           full == (c - 1) \div n
           next == (c - n - 1) \div n
           C(k) == CharBits(mode, k)
           I    == Indicator(mode, v)
<1>1. n \in {255, 511, 1023, 2047, 4095, 8191, 16383, 65535}
  BY HeaderBitsAre
<1>2. \A k \in Nat : C(k) \in Nat
  BY CharBitsAre
<1>3. I \in Nat
  BY HeaderBitsAre
<1>4. PiecesOf(mode, v, c) = full * C(n) + C(c - full * n) + (full + 1) * I
  BY DEF PiecesOf
<1>5. PiecesOf(mode, v, c - n) = next * C(n) + C((c - n) - next * n) + (next + 1) * I
  BY DEF PiecesOf
<1> HIDE DEF n, C, I
<1>6. full \in Nat /\ full * n <= c - 1 /\ full * n \in Nat
  BY <1>1
<1>7. c <= n => full = 0
  BY <1>1
<1>8. c > n => next \in Nat /\ full = next + 1 /\ c - full * n = (c - n) - next * n
  BY <1>1
<1> HIDE DEF full, next
<1>9. PiecesOf(mode, v, c) \in Nat
  <2>1. C(n) \in Nat /\ C(c - full * n) \in Nat
    BY <1>1, <1>2, <1>6
  <2>2. \A x, y \in Nat : x * y \in Nat
    OBVIOUS
  <2>3. full * C(n) \in Nat /\ (full + 1) * I \in Nat
    BY <1>3, <1>6, <2>1, <2>2
  <2>4. QED
    BY <1>4, <2>1, <2>3
<1>10. c <= n => PiecesOf(mode, v, c) = C(c) + I
  <2>1. 0 * n = 0 /\ 0 * C(n) = 0 /\ (0 + 1) * I = I /\ C(n) \in Nat
    BY <1>1, <1>2, <1>3
  <2>2. C(c - 0) = C(c) /\ C(c) \in Nat
    BY <1>2
  <2>3. ASSUME c <= n PROVE PiecesOf(mode, v, c) = C(c) + I
    <3>1. full = 0
      BY <1>7, <2>3
    <3>2. PiecesOf(mode, v, c) = 0 + C(c) + I
      BY <1>4, <2>1, <2>2, <3>1
    <3>3. QED
      BY <1>3, <2>2, <3>2
  <2>4. QED
    BY <2>3
<1>11. ASSUME c > n PROVE PiecesOf(mode, v, c) = C(n) + I + PiecesOf(mode, v, c - n)
  <2> DEFINE r == C((c - n) - next * n)
  <2>1. C(c - full * n) = r
    BY <1>8, <1>11
  <2>2. PiecesOf(mode, v, c) = (next + 1) * C(n) + r + ((next + 1) + 1) * I
    BY <1>4, <1>8, <1>11, <2>1
  <2>3. C(n) \in Nat /\ r \in Nat /\ next \in Nat
    <3>1. n \in Nat
      BY <1>1
    <3>2. (c - n) - next * n \in Nat
      BY <1>1, <1>6, <1>8, <1>11
    <3>3. QED
      BY <1>2, <1>8, <1>11, <3>1, <3>2
  <2> HIDE DEF r
  <2>4. PiecesOf(mode, v, c - n) = next * C(n) + r + (next + 1) * I
    BY <1>5 DEF r
  <2>5. \A x, y \in Nat : (x + 1) * y = x * y + y /\ x * y \in Nat
    OBVIOUS
  <2>6. (next + 1) * C(n) = next * C(n) + C(n) /\ next * C(n) \in Nat
    BY <2>3, <2>5
  <2>7. ((next + 1) + 1) * I = (next + 1) * I + I /\ (next + 1) * I \in Nat
    BY <1>3, <2>3, <2>5
  <2>8. QED
    BY <1>3, <2>2, <2>3, <2>4, <2>6, <2>7
<1>12. QED
  BY <1>9, <1>10, <1>11 DEF n, C, I

\* Needed is what QRinput_encodeBitStream makes of an entry, an ECI left aside.
Plain(e) == IsItem(e) /\ e.mode # "eci"

\* Characters of an entry.
Chars(e) == Len(e.data) \div Unit(e.mode)

\* An entry has characters, as many as its bytes or half as many.
LEMMA CharsAre ==
  ASSUME NEW e, Plain(e), e.mode \in Splittable
  PROVE  Chars(e) \in Nat \ {0} /\ Len(e.data) = Chars(e) * Unit(e.mode)
<1>1. Len(e.data) \in Nat /\ Len(e.data) > 0 /\ (e.mode = "kanji" => Len(e.data) % 2 = 0)
  BY DEF Plain, IsItem, IsEntry, IsSeq
<1>2. CASE e.mode = "kanji"
  <2>1. \A k \in Nat : k > 0 /\ k % 2 = 0 => k \div 2 \in Nat \ {0} /\ k = (k \div 2) * 2
    OBVIOUS
  <2>2. QED
    BY <1>1, <1>2, <2>1 DEF Chars, Unit
<1>3. CASE e.mode # "kanji"
  <2>1. \A k \in Nat : k \div 1 = k /\ k * 1 = k
    OBVIOUS
  <2>2. Unit(e.mode) = 1 /\ Chars(e) = Len(e.data) \div 1
    BY <1>3 DEF Chars, Unit
  <2>3. Chars(e) = Len(e.data) /\ Len(e.data) = Len(e.data) * 1
    BY <1>1, <2>1, <2>2
  <2>4. \A k \in Nat : k > 0 => k \in Nat \ {0}
    OBVIOUS
  <2>5. Chars(e) \in Nat \ {0}
    BY <1>1, <2>3, <2>4
  <2>6. QED
    BY <2>2, <2>3, <2>5
<1>4. QED
  BY <1>2, <1>3

\* What Needed is for each kind of entry, and that it is a number.
LEMMA NeededIs ==
  ASSUME NEW e, Plain(e), NEW v \in Int
  PROVE  /\ Needed(e, v) \in Nat
         /\ e.mode = "structure" => Needed(e, v) = 20
         /\ e.mode = "fnc1second" => Needed(e, v) = 12
         /\ e.mode \in Splittable => Needed(e, v) = PiecesOf(e.mode, v, Chars(e))
<1>1. e.mode = "structure" => Needed(e, v) = 20
  BY DEF Needed, Splittable
<1>2. e.mode = "fnc1second" => Needed(e, v) = 12
  BY DEF Needed, Splittable
<1>3. e.mode \in Splittable => Needed(e, v) = PiecesOf(e.mode, v, Chars(e))
  <2>1. e.mode \in Splittable =>
          ~(e.mode = "eci") /\ ~(e.mode = "fnc1second") /\ ~(e.mode = "structure")
    BY DEF Splittable
  <2>2. QED
    BY <2>1 DEF Needed, PiecesOf, Chars, Unit, Most
<1>4. e.mode \in Splittable => PiecesOf(e.mode, v, Chars(e)) \in Nat
  BY CharsAre, PiecesAre
<1>5. QED
  BY <1>1, <1>2, <1>3, <1>4 DEF Plain, IsItem, IsEntry

\* Bits put together: four and eight.
LEMMA TwoLengths ==
  ASSUME NEW x, NEW y, IsSeq(x), IsSeq(y), Len(x) = 4, Len(y) = 8
  PROVE  Len(x \o y) = 12
<1>1. Len(x \o y) = Len(x) + Len(y)
  BY Joined
<1>2. Len(x) + Len(y) = 12
  OBVIOUS
<1>3. QED
  BY <1>1, <1>2

\* Bits put together: the header of structured append.
LEMMA FourLengths ==
  ASSUME NEW x, NEW y, NEW z, NEW t, IsSeq(x), IsSeq(y), IsSeq(z), IsSeq(t),
         Len(x) = 4, Len(y) = 4, Len(z) = 4, Len(t) = 8
  PROVE  Len(x \o y \o z \o t) = 20
<1> DEFINE a == x \o y
           b == a \o z
<1>1. IsSeq(a) /\ Len(a) = Len(x) + Len(y)
  BY Joined
<1>2. Len(x) + Len(y) = 8
  OBVIOUS
<1> HIDE DEF a
<1>3. IsSeq(b) /\ Len(b) = Len(a) + Len(z)
  BY <1>1, Joined
<1>4. Len(a) + Len(z) = 12
  BY <1>1, <1>2
<1> HIDE DEF b
<1>5. Len(b \o t) = Len(b) + Len(t)
  BY <1>3, Joined
<1>6. Len(b) + Len(t) = 20
  BY <1>3, <1>4
<1>7. QED
  BY <1>5, <1>6 DEF a, b

\* The bits of a piece.
LEMMA OnePieceLength ==
  ASSUME NEW e, IsEntry(e), e.mode \in Splittable, NEW v \in {0} \union Versions,
         NEW i \in Int, NEW to \in Int, to + 1 >= i
  PROVE  /\ IsSeq(OnePiece(e, i, to, v, FALSE))
         /\ Len(OnePiece(e, i, to, v, FALSE))
              = Indicator(e.mode, v) + CharBits(e.mode, (to - i + 1) \div Unit(e.mode))
<1> DEFINE p == Piece(e.data, i, to)
<1>1. IsSeq(p) /\ Len(p) = to - i + 1
  BY PieceIsSeq
<1> HIDE DEF p
<1> DEFINE w == [mode |-> e.mode, data |-> p]
<1>2. IsEntry(w) /\ w.mode = e.mode /\ w.data = p
  BY <1>1 DEF IsEntry
<1>3. OnePiece(e, i, to, v, FALSE) = Encode(w, v, FALSE)
  BY DEF OnePiece, p
<1> HIDE DEF w
<1>4. /\ IsSeq(Encode(w, v, FALSE))
      /\ Len(Encode(w, v, FALSE)) = Indicator(w.mode, v) + CharBits(w.mode, Len(w.data) \div Unit(w.mode))
  BY <1>2, EncodedLength
<1>5. QED
  BY <1>1, <1>2, <1>3, <1>4

\* Needed is exact: the bits that QRinput_encodeBitStream makes of an entry.
LEMMA BitStreamLength ==
  ASSUME NEW e, Plain(e), NEW v \in {0} \union Versions
  PROVE  /\ IsSeq(EncodeBitStream(e, v, FALSE))
         /\ Len(EncodeBitStream(e, v, FALSE)) = Needed(e, v)
<1> DEFINE m     == e.mode
           d     == e.data
           N     == Len(d) + 1
           words == MaximumWords(m, v)
           u     == Unit(m)
           n     == Most(m, v)
           P(i)  == OnePiece(e, i, Len(d), v, FALSE)
           Q(i)  == OnePiece(e, i, i + words - 1, v, FALSE)
<1>1. IsEntry(e) /\ IsVersion(v, FALSE) /\ v \in Int /\ FALSE \in BOOLEAN
  BY DEF Plain, IsItem, IsVersion, Versions, VersionMax
<1>2. PICK F : F[1] = EncodeBitStream(e, v, FALSE) /\ InPieces(F, e, v, FALSE)
  BY <1>1, EncodedInPieces
<1>3. Len(d) \in Nat \ {0} /\ N \in Nat /\ 1 \in 1..N
  BY <1>1 DEF Plain, IsItem, IsEntry, IsSeq
<1>4. ASSUME NEW i \in 1..N
      PROVE  /\ IsSeq(F[i])
             /\ F[i] = IF words = 0 \/ Len(d) - i + 1 <= words THEN P(i) ELSE Q(i) \o F[i + words]
  BY <1>2 DEF InPieces
<1>a. IsSeq(EncodeBitStream(e, v, FALSE))
  BY <1>2, <1>3, <1>4
<1>5. CASE m \notin Splittable
  <2> DEFINE p == Piece(d, 1, Len(d))
             w == [mode |-> m, data |-> p]
             x == Bits(4, modeId.structure)
             y == Bits(4, p[2] - 1)
             z == Bits(4, p[1] - 1)
             t == Bits(8, p[3])
             f == Bits(4, modeId.fnc1second)
  <2>1. words = 0
    BY <1>5 DEF MaximumWords
  <2>2. F[1] = Encode(w, v, FALSE)
    BY <1>3, <1>4, <2>1 DEF OnePiece
  <2>3. /\ \A num : IsSeq(Bits(4, num)) /\ Len(Bits(4, num)) = 4
        /\ \A num : IsSeq(Bits(8, num)) /\ Len(Bits(8, num)) = 8
    <3>1. 4 \in Int /\ 8 \in Int /\ 4 >= 0 /\ 8 >= 0
      OBVIOUS
    <3>2. QED
      BY <3>1, BitsLength
  <2>4. CASE m = "structure"
    <3>1. Encode(w, v, FALSE) = x \o y \o z \o t
      BY <2>4 DEF Encode
    <3>2. /\ IsSeq(x) /\ Len(x) = 4 /\ IsSeq(y) /\ Len(y) = 4
          /\ IsSeq(z) /\ Len(z) = 4 /\ IsSeq(t) /\ Len(t) = 8
      BY <2>3
    <3> HIDE DEF x, y, z, t, w
    <3>3. Len(x \o y \o z \o t) = 20
      BY <3>2, FourLengths
    <3>4. Needed(e, v) = 20
      BY <1>1, <2>4, NeededIs
    <3>5. QED
      BY <1>2, <1>a, <2>2, <3>1, <3>3, <3>4
  <2>5. CASE m = "fnc1second"
    <3>1. Encode(w, v, FALSE) = f \o Bytes(p)
      BY <2>5 DEF Encode
    <3>2. IsSeq(f) /\ Len(f) = 4
      BY <2>3
    <3>3. Len(d) = 1
      BY <2>5 DEF Plain, IsItem
    <3>4. IsSeq(p) /\ Len(p) = 1
      <4>1. 1 \in Int /\ 1 + 1 >= 1 /\ 1 - 1 + 1 = 1
        OBVIOUS
      <4>2. p = Piece(d, 1, 1)
        BY <3>3
      <4> HIDE DEF p
      <4>3. QED
        BY <4>1, <4>2, PieceIsSeq
    <3> HIDE DEF p
    <3>5. IsSeq(Bytes(p)) /\ Len(Bytes(p)) = Len(p) * 8
      BY <3>4, BytesLength
    <3>6. Len(Bytes(p)) = 8
      BY <3>4, <3>5
    <3> HIDE DEF f, w
    <3> DEFINE g == Bytes(p)
    <3>7. IsSeq(g) /\ Len(g) = 8
      BY <3>5, <3>6
    <3> HIDE DEF g
    <3>8. Len(f \o g) = 12
      BY <3>2, <3>7, TwoLengths
    <3>9. Needed(e, v) = 12
      BY <1>1, <2>5, NeededIs
    <3>10. QED
      BY <1>2, <1>a, <2>2, <3>1, <3>8, <3>9 DEF g
  <2>6. QED
    BY <1>1, <1>5, <2>4, <2>5 DEF Plain, IsItem, IsEntry
<1>6. CASE m \in Splittable
  <2>1. /\ n \in {255, 511, 1023, 2047, 4095, 8191, 16383, 65535}
        /\ words = n * u
    BY <1>1, <1>6, HeaderBitsAre
  <2>2. u \in {1, 2}
    BY DEF Unit
  <2>3. \A i, to \in Int : to + 1 >= i =>
          /\ IsSeq(OnePiece(e, i, to, v, FALSE))
          /\ Len(OnePiece(e, i, to, v, FALSE))
               = Indicator(m, v) + CharBits(m, (to - i + 1) \div u)
    BY <1>1, <1>6, OnePieceLength
  <2>a. Indicator(m, v) \in Nat
    BY <1>1, <1>6, HeaderBitsAre
  <2>b. \A k \in Nat : CharBits(m, k) \in Nat
    BY <1>6, CharBitsAre
  <2> DEFINE left(i) == Len(d) - i + 1
             Whole(i) == left(i) > 0 /\ left(i) % u = 0
             T == {i \in 1..N : Whole(i) => Len(F[i]) = PiecesOf(m, v, left(i) \div u)}
  <2>4. ASSUME NEW i \in 1..N, \A r \in (i + 1)..N : r \in T PROVE i \in T
    <3> SUFFICES ASSUME Whole(i) PROVE Len(F[i]) = PiecesOf(m, v, left(i) \div u)
      OBVIOUS
    <3> DEFINE c == left(i) \div u
    <3>1. left(i) \in Nat /\ left(i) > 0
      BY <1>3
    <3>2. c \in Nat \ {0} /\ left(i) = c * u
      <4>1. \A k \in Nat : k > 0 /\ k % 1 = 0 => k \div 1 \in Nat \ {0} /\ k = (k \div 1) * 1
        OBVIOUS
      <4>2. \A k \in Nat : k > 0 /\ k % 2 = 0 => k \div 2 \in Nat \ {0} /\ k = (k \div 2) * 2
        OBVIOUS
      <4> HIDE DEF left
      <4>3. QED
        BY <2>2, <3>1, <4>1, <4>2
    <3>3. words # 0 /\ words \in Nat
      BY <2>1, <2>2
    <3>4. left(i) <= words <=> c <= n
      <4> HIDE DEF left, c, words, u, n
      <4>1. QED
        BY <2>1, <2>2, <3>2
    <3>5. CASE left(i) <= words
      <4>1. F[i] = P(i)
        BY <1>4, <3>5
      <4>2. Len(d) \in Int /\ i \in Int /\ Len(d) + 1 >= i /\ Len(d) - i + 1 = left(i)
        BY <1>3
      <4>3. Len(P(i)) = Indicator(m, v) + CharBits(m, c)
        BY <2>3, <4>2
      <4>4. PiecesOf(m, v, c) = CharBits(m, c) + Indicator(m, v)
        BY <1>1, <1>6, <3>2, <3>4, <3>5, PiecesAre
      <4>5. CharBits(m, c) \in Nat /\ Indicator(m, v) \in Nat
        <5> HIDE DEF c
        <5>1. QED
          BY <2>a, <2>b, <3>2
      <4>6. \A a, b \in Nat : a + b = b + a
        OBVIOUS
      <4>7. QED
        BY <4>1, <4>3, <4>4, <4>5, <4>6
    <3>6. CASE ~(left(i) <= words)
      <4> DEFINE j == i + words
      <4>1. F[i] = Q(i) \o F[j]
        BY <1>4, <3>3, <3>6
      <4>2. j \in (i + 1)..N /\ left(j) = left(i) - words
        BY <1>3, <3>3, <3>6
      <4>3. left(j) = (c - n) * u /\ c > n /\ c - n \in Nat \ {0}
        <5> HIDE DEF left, c, words, u, n, j
        <5>1. QED
          BY <2>1, <2>2, <3>2, <3>4, <3>6, <4>2
      <4>4. Whole(j) /\ left(j) \div u = c - n
        <5>1. \A k \in Nat \ {0} : /\ k * 1 > 0 /\ (k * 1) % 1 = 0 /\ (k * 1) \div 1 = k
                                   /\ k * 2 > 0 /\ (k * 2) % 2 = 0 /\ (k * 2) \div 2 = k
          OBVIOUS
        <5> HIDE DEF left, c, u, n, j
        <5>2. QED
          BY <2>2, <4>3, <5>1
      <4>5. Len(F[j]) = PiecesOf(m, v, c - n) /\ IsSeq(F[j])
        <5>1. j \in T /\ j \in 1..N
          BY <2>4, <4>2
        <5>2. QED
          BY <1>4, <4>4, <5>1
      <4>6. IsSeq(Q(i)) /\ Len(Q(i)) = Indicator(m, v) + CharBits(m, n)
        <5>1. i + words - 1 \in Int /\ i \in Int /\ (i + words - 1) + 1 >= i
              /\ (i + words - 1) - i + 1 = words
          BY <3>3
        <5>2. words \div u = n
          <6> HIDE DEF words, u, n
          <6>1. QED
            BY <2>1, <2>2
        <5> HIDE DEF words, u, n
        <5>3. QED
          BY <2>3, <5>1, <5>2
      <4>7. Len(F[i]) = Len(Q(i)) + Len(F[j])
        BY <4>1, <4>5, <4>6, Joined
      <4>8. PiecesOf(m, v, c) = CharBits(m, n) + Indicator(m, v) + PiecesOf(m, v, c - n)
        BY <1>1, <1>6, <3>2, <4>3, PiecesAre
      <4>9. CharBits(m, n) \in Nat /\ Indicator(m, v) \in Nat /\ PiecesOf(m, v, c - n) \in Nat
        <5>1. n \in Nat
          BY <2>1
        <5>2. CharBits(m, n) \in Nat
          BY <2>b, <5>1
        <5>3. Indicator(m, v) \in Nat
          BY <2>a
        <5>4. PiecesOf(m, v, c - n) \in Nat
          BY <1>1, <1>6, <4>3, PiecesAre
        <5>5. QED
          BY <5>2, <5>3, <5>4
      <4> DEFINE A == CharBits(m, n)
                 B == Indicator(m, v)
                 X == PiecesOf(m, v, c - n)
      <4>10. (B + A) + X = A + B + X
        <5> HIDE DEF A, B, X
        <5>1. A \in Nat /\ B \in Nat /\ X \in Nat
          BY <4>9 DEF A, B, X
        <5>2. QED
          BY <5>1
      <4>11. Len(F[i]) = (B + A) + X
        BY <4>5, <4>6, <4>7
      <4>12. QED
        BY <4>8, <4>10, <4>11
    <3>7. QED
      BY <3>5, <3>6
  <2>5. 1 \in T
    <3> HIDE DEF T, N
    <3>1. \A i \in 1..N : i \in T
      BY <1>3, <2>4, FromTheEnd
    <3>2. QED
      BY <1>3, <3>1
  <2>6. Len(d) = Chars(e) * u /\ Chars(e) \in Nat \ {0}
    BY <1>6, CharsAre
  <2>7. left(1) = Len(d)
    BY <1>3
  <2>8. Whole(1) /\ left(1) \div u = Chars(e)
    <3>1. \A k \in Nat \ {0} : /\ k * 1 > 0 /\ (k * 1) % 1 = 0 /\ (k * 1) \div 1 = k
                               /\ k * 2 > 0 /\ (k * 2) % 2 = 0 /\ (k * 2) \div 2 = k
      OBVIOUS
    <3> HIDE DEF left, u
    <3>2. QED
      BY <2>2, <2>6, <2>7, <3>1
  <2>9. Needed(e, v) = PiecesOf(m, v, Chars(e))
    BY <1>1, <1>6, NeededIs
  <2>10. Len(F[1]) = PiecesOf(m, v, Chars(e))
    BY <2>5, <2>8
  <2>11. QED
    BY <1>2, <1>a, <2>9, <2>10
<1>7. QED
  BY <1>5, <1>6

-----------------------------------------------------------------------------
(* The estimate.                                                           *)

\* An entry of more characters than its length indicator counts.
Big(e, v) == e.mode \in Splittable /\ Chars(e) > Most(e.mode, v)

\* The headers that QRinput_estimateBitStreamSizeOfEntry counts.
Starts(e, v) == (Len(e.data) + Most(e.mode, v)) \div (Most(e.mode, v) + 1)

\* What the estimate is for each mode, with the headers it counts.
LEMMA EstimateIs ==
  ASSUME NEW e, Plain(e), NEW v \in {0} \union Versions
  PROVE  /\ e.mode = "structure" => Estimate(e, v, FALSE) = 20
         /\ e.mode = "fnc1second" => Estimate(e, v, FALSE) = 12
         /\ e.mode \in Splittable =>
              Estimate(e, v, FALSE) = CharBits(e.mode, Chars(e)) + Starts(e, v) * Indicator(e.mode, v)
<1> DEFINE m == e.mode
           k == Len(e.data)
           w == IF v = 0 THEN 1 ELSE v
           l == LengthIndicator(m, w)
           p == 2 ^ l
           num == (k + p - 1) \div p
<1>1. k \in Nat
  BY DEF Plain, IsItem, IsEntry, IsSeq
<1>a. \A j \in Nat : /\ (j \div 3) * 10 = 10 * (j \div 3) /\ (j \div 2) * 11 = 11 * (j \div 2)
                     /\ (j \div 2) * 13 = 13 * (j \div 2)
  OBVIOUS
<1>2. m = "structure" => Estimate(e, v, FALSE) = 20
  BY DEF Estimate, STRUCTURE_HEADER_SIZE
<1>3. m = "fnc1second" => Estimate(e, v, FALSE) = 12
  BY DEF Estimate, MODE_INDICATOR_SIZE
<1>4. ASSUME m \in Splittable
      PROVE  Estimate(e, v, FALSE) = CharBits(m, Chars(e)) + Starts(e, v) * Indicator(m, v)
  <2>1. VersionRange(w) = VersionRange(v)
    BY DEF VersionRange
  <2>2. l = LengthIndicator(m, v)
    BY <2>1 DEF LengthIndicator
  <2>3. v \in Int
    BY DEF Versions, VersionMax
  <2>4. p = Most(m, v) + 1
    <3>1. Most(m, v) \in {255, 511, 1023, 2047, 4095, 8191, 16383, 65535}
      BY <1>4, <2>3, HeaderBitsAre
    <3>2. Most(m, v) = p - 1
      BY <2>2 DEF Most
    <3>3. l \in {8, 9, 10, 11, 12, 13, 14, 16}
      BY <1>4 DEF LengthIndicator, Splittable, VersionRange, lengthTableBits
    <3>4. p \in {2 ^ 8, 2 ^ 9, 2 ^ 10, 2 ^ 11, 2 ^ 12, 2 ^ 13, 2 ^ 14, 2 ^ 16}
      BY <3>3, Zenon
    <3>5. 2 ^ 8 \in Nat /\ 2 ^ 9 \in Nat /\ 2 ^ 10 \in Nat /\ 2 ^ 11 \in Nat /\ 2 ^ 12 \in Nat
          /\ 2 ^ 13 \in Nat /\ 2 ^ 14 \in Nat /\ 2 ^ 16 \in Nat
      OBVIOUS
    <3> HIDE DEF p
    <3>6. p \in Nat
      BY <3>4, <3>5
    <3>7. QED
      BY <3>2, <3>6
  <2>5. Estimate(e, v, FALSE) = Payload(e) + num * (MODE_INDICATOR_SIZE + l)
    BY <1>4 DEF Estimate, Splittable
  <2>6. num = Starts(e, v)
    <3> HIDE DEF p
    <3>1. Most(m, v) \in Int
      BY <1>4, <2>3, HeaderBitsAre
    <3>2. k + p - 1 = k + Most(m, v)
      BY <1>1, <2>4, <3>1
    <3>3. QED
      BY <2>4, <3>2 DEF Starts
  <2>7. MODE_INDICATOR_SIZE + l = Indicator(m, v)
    BY <2>2 DEF Indicator
  <2>8. Payload(e) = CharBits(m, Chars(e))
    <3>1. CASE m = "num"
      <4>1. Chars(e) = k
        BY <1>1, <3>1, CharsAre, <1>4 DEF Unit
      <4>2. Payload(e) = (k \div 3) * 10 + <<0, 4, 7>>[(k % 3) + 1]
        BY <3>1 DEF Payload, estimateBitsModeNum
      <4>3. CharBits(m, k) = 10 * (k \div 3) + <<0, 4, 7>>[(k % 3) + 1]
        BY <3>1 DEF CharBits
      <4>4. (k \div 3) * 10 = 10 * (k \div 3)
        BY <1>1, <1>a
      <4>5. QED
        BY <4>1, <4>2, <4>3, <4>4
    <3>2. CASE m = "an"
      <4>1. Chars(e) = k
        BY <1>1, <3>2, CharsAre, <1>4 DEF Unit
      <4>2. Payload(e) = (k \div 2) * 11 + 6 * (k % 2)
        BY <3>2 DEF Payload, estimateBitsModeAn
      <4>3. CharBits(m, k) = 11 * (k \div 2) + 6 * (k % 2)
        BY <3>2 DEF CharBits
      <4>4. (k \div 2) * 11 = 11 * (k \div 2)
        BY <1>1, <1>a
      <4>5. QED
        BY <4>1, <4>2, <4>3, <4>4
    <3>3. CASE m = "byte"
      <4>1. Chars(e) = k
        BY <1>1, <3>3, CharsAre, <1>4 DEF Unit
      <4>2. Payload(e) = 8 * k
        BY <3>3 DEF Payload, estimateBitsMode8
      <4>3. CharBits(m, k) = 8 * k
        BY <3>3 DEF CharBits
      <4>4. QED
        BY <4>1, <4>2, <4>3
    <3>4. CASE m = "kanji"
      <4>1. Chars(e) = k \div 2
        BY <3>4 DEF Chars, Unit
      <4>2. Payload(e) = (k \div 2) * 13
        BY <3>4 DEF Payload, estimateBitsModeKanji
      <4>3. CharBits(m, k \div 2) = 13 * (k \div 2)
        BY <3>4 DEF CharBits
      <4>4. (k \div 2) * 13 = 13 * (k \div 2)
        BY <1>1, <1>a
      <4>5. QED
        BY <4>1, <4>2, <4>3, <4>4
    <3>5. QED
      BY <1>4, <3>1, <3>2, <3>3, <3>4 DEF Splittable
  <2>9. QED
    BY <2>5, <2>6, <2>7, <2>8
<1>5. QED
  BY <1>2, <1>3, <1>4

\* An entry that its length indicator can count has one header.
LEMMA StartsAre ==
  ASSUME NEW e, Plain(e), e.mode \in Splittable, NEW v \in {0} \union Versions
  PROVE  /\ Starts(e, v) \in Nat
         /\ Len(e.data) <= Most(e.mode, v) + 1 => Starts(e, v) = 1
<1> DEFINE n == Most(e.mode, v)
           k == Len(e.data)
<1>1. k \in Nat /\ k > 0
  BY DEF Plain, IsItem, IsEntry, IsSeq
<1>2. v \in Int
  BY DEF Versions, VersionMax
<1>3. n \in {255, 511, 1023, 2047, 4095, 8191, 16383, 65535}
  BY <1>2, HeaderBitsAre
<1>4. Starts(e, v) = (k + n) \div (n + 1)
  BY DEF Starts
<1> HIDE DEF n, k
<1>5. (k + n) \div (n + 1) \in Nat /\ (k <= n + 1 => (k + n) \div (n + 1) = 1)
  BY <1>1, <1>3
<1>6. QED
  BY <1>4, <1>5 DEF n, k

\* The estimate of an entry is a number.
LEMMA EstimateIsNat ==
  ASSUME NEW e, Plain(e), NEW v \in {0} \union Versions PROVE Estimate(e, v, FALSE) \in Nat
<1>1. v \in Int
  BY DEF Versions, VersionMax
<1>2. ASSUME e.mode \in Splittable PROVE Estimate(e, v, FALSE) \in Nat
  <2>1. Starts(e, v) \in Nat /\ Indicator(e.mode, v) \in Nat
    BY <1>1, <1>2, StartsAre, HeaderBitsAre
  <2>2. CharBits(e.mode, Chars(e)) \in Nat
    BY <1>2, CharsAre, CharBitsAre
  <2>3. \A x, y, z \in Nat : x + y * z \in Nat
    OBVIOUS
  <2>4. QED
    BY <1>2, <2>1, <2>2, <2>3, EstimateIs
<1>3. e.mode \in Splittable \union {"structure", "fnc1second"} /\ 20 \in Nat /\ 12 \in Nat
  BY DEF Plain, IsItem, IsEntry
<1>4. QED
  BY <1>2, <1>3, EstimateIs

\* The estimate is the same for all versions whose length indicators are as long.
LEMMA SameRange ==
  ASSUME NEW e, Plain(e), NEW v \in {0} \union Versions, NEW w \in {0} \union Versions,
         VersionRange(v) = VersionRange(w)
  PROVE  Estimate(e, v, FALSE) = Estimate(e, w, FALSE) /\ Needed(e, v) = Needed(e, w)
<1>1. LengthIndicator(e.mode, v) = LengthIndicator(e.mode, w)
  BY DEF LengthIndicator
<1>2. Most(e.mode, v) = Most(e.mode, w) /\ Indicator(e.mode, v) = Indicator(e.mode, w)
  BY <1>1 DEF Most, Indicator
<1>3. Starts(e, v) = Starts(e, w)
  BY <1>2 DEF Starts
<1>4. PiecesOf(e.mode, v, Chars(e)) = PiecesOf(e.mode, w, Chars(e))
  BY <1>2 DEF PiecesOf
<1>5. v \in Int /\ w \in Int
  BY DEF Versions, VersionMax
<1>6. Estimate(e, v, FALSE) = Estimate(e, w, FALSE)
  <2>1. CASE e.mode \in Splittable
    BY <1>2, <1>3, <2>1, EstimateIs
  <2>2. CASE e.mode \notin Splittable
    BY <2>2, EstimateIs DEF Plain, IsItem, IsEntry
  <2>3. QED
    BY <2>1, <2>2
<1>7. Needed(e, v) = Needed(e, w)
  <2>1. CASE e.mode \in Splittable
    BY <1>4, <1>5, <2>1, NeededIs
  <2>2. CASE e.mode \notin Splittable
    BY <1>5, <2>2, NeededIs DEF Plain, IsItem, IsEntry
  <2>3. QED
    BY <2>1, <2>2
<1>8. QED
  BY <1>6, <1>7

\* Of more than 128 kanji the estimate may count a header too many.
Simple(e) == Plain(e) /\ ~(e.mode = "kanji" /\ Len(e.data) > 256)

\* The estimate of an entry that needs one header is exact.
LEMMA EstimateExact ==
  ASSUME NEW e, Simple(e), NEW v \in {0} \union Versions, ~Big(e, v)
  PROVE  Estimate(e, v, FALSE) = Needed(e, v)
<1>1. Plain(e) /\ v \in Int
  BY DEF Simple, Versions, VersionMax
<1>2. CASE e.mode \in Splittable
  <2> DEFINE m == e.mode
             c == Chars(e)
             n == Most(m, v)
  <2>1. c \in Nat \ {0} /\ Len(e.data) = c * Unit(m)
    BY <1>1, <1>2, CharsAre
  <2>2. n \in {255, 511, 1023, 2047, 4095, 8191, 16383, 65535}
    BY <1>1, <1>2, HeaderBitsAre
  <2>3. c <= n
    <3>1. ~(c > n)
      BY <1>2 DEF Big
    <3> HIDE DEF c, n
    <3>2. QED
      BY <2>1, <2>2, <3>1
  <2>4. Len(e.data) <= n + 1
    <3>1. CASE m = "kanji"
      <4>1. ~(Len(e.data) > 256) /\ Len(e.data) \in Nat
        BY <3>1 DEF Simple, Plain, IsItem, IsEntry, IsSeq
      <4>2. QED
        BY <2>2, <4>1
    <3>2. CASE m # "kanji"
      <4>1. Unit(m) = 1
        BY <3>2 DEF Unit
      <4>2. Len(e.data) = c
        <5> HIDE DEF c
        <5>1. QED
          BY <2>1, <4>1
      <4>3. QED
        <5> HIDE DEF c, n
        <5>1. QED
          BY <2>1, <2>2, <2>3, <4>2
    <3>3. QED
      BY <3>1, <3>2
  <2>5. Starts(e, v) = 1
    BY <1>1, <1>2, <2>4, StartsAre
  <2>6. Indicator(m, v) \in Nat
    BY <1>1, <1>2, HeaderBitsAre
  <2>7. Estimate(e, v, FALSE) = CharBits(m, c) + 1 * Indicator(m, v)
    BY <1>1, <1>2, <2>5, EstimateIs
  <2>8. 1 * Indicator(m, v) = Indicator(m, v)
    BY <2>6
  <2>9. PiecesOf(m, v, c) = CharBits(m, c) + Indicator(m, v)
    BY <1>1, <1>2, <2>1, <2>3, PiecesAre
  <2>10. Needed(e, v) = PiecesOf(m, v, c)
    BY <1>1, <1>2, NeededIs
  <2>11. QED
    BY <2>7, <2>8, <2>9, <2>10
<1>3. CASE e.mode \notin Splittable
  <2>1. e.mode \in {"structure", "fnc1second"}
    BY <1>1, <1>3 DEF Plain, IsItem, IsEntry
  <2>2. QED
    BY <1>1, <2>1, EstimateIs, NeededIs
<1>4. QED
  BY <1>2, <1>3

-----------------------------------------------------------------------------
(* An entry that is too long for one header does not fit.                  *)

\* Six times the bits of a character, rounded down.
Rate == [num |-> 20, an |-> 33, byte |-> 48, kanji |-> 78]

\* The rate is no more than six times what a character takes.
LEMMA CharRate ==
  ASSUME NEW mode \in Splittable, NEW n \in Nat
  PROVE  6 * CharBits(mode, n) >= Rate[mode] * n /\ CharBits(mode, n) \in Nat
<1> DEFINE b == CharBits(mode, n)
<1>1. b \in Nat
  BY CharBitsAre
<1>2. CASE mode = "num"
  <2>1. 3 * b >= 10 * n /\ Rate[mode] = 20
    BY <1>2, CharBitsAre DEF Rate
  <2> HIDE DEF b
  <2>2. 6 * b >= 20 * n
    BY <1>1, <2>1
  <2>3. QED
    BY <1>1, <2>1, <2>2 DEF b
<1>3. CASE mode = "an"
  <2>1. 2 * b >= 11 * n /\ Rate[mode] = 33
    BY <1>3, CharBitsAre DEF Rate
  <2> HIDE DEF b
  <2>2. 6 * b >= 33 * n
    BY <1>1, <2>1
  <2>3. QED
    BY <1>1, <2>1, <2>2 DEF b
<1>4. CASE mode = "byte"
  <2>1. b = 8 * n /\ Rate[mode] = 48
    BY <1>4, CharBitsAre DEF Rate
  <2> HIDE DEF b
  <2>2. 6 * b >= 48 * n
    BY <1>1, <2>1
  <2>3. QED
    BY <1>1, <2>1, <2>2 DEF b
<1>5. CASE mode = "kanji"
  <2>1. b = 13 * n /\ Rate[mode] = 78
    BY <1>5, CharBitsAre DEF Rate
  <2> HIDE DEF b
  <2>2. 6 * b >= 78 * n
    BY <1>1, <2>1
  <2>3. QED
    BY <1>1, <2>1, <2>2 DEF b
<1>6. QED
  BY <1>2, <1>3, <1>4, <1>5 DEF Splittable

\* However it is divided, an entry takes at least the bits of its characters.
LEMMA PiecesRate ==
  ASSUME NEW mode \in Splittable, NEW v \in Int, NEW c \in Nat \ {0}
  PROVE  6 * PiecesOf(mode, v, c) >= Rate[mode] * c
<1> DEFINE n    == Most(mode, v)
           full == (c - 1) \div n
           last == c - full * n
           R    == Rate[mode]
           x    == CharBits(mode, n)
           y    == CharBits(mode, last)
           I    == Indicator(mode, v)
<1>1. n \in {255, 511, 1023, 2047, 4095, 8191, 16383, 65535} /\ I \in Nat
  BY HeaderBitsAre
<1>2. PiecesOf(mode, v, c) = full * x + y + (full + 1) * I
  BY DEF PiecesOf
<1>3. R \in Nat
  BY DEF Rate, Splittable
<1> HIDE DEF n, R, I
<1>4. full \in Nat /\ full * n \in Nat /\ last \in Nat /\ n \in Nat /\ full * n + last = c
  BY <1>1
<1>5. 6 * x >= R * n /\ x \in Nat /\ 6 * y >= R * last /\ y \in Nat
  BY <1>4, CharRate DEF R
<1> HIDE DEF full, last, x, y
<1>6. \A f, p, q \in Nat : p >= q => f * p >= f * q
  OBVIOUS
<1>7. \A f, p, q \in Nat : /\ f * p \in Nat /\ f * (6 * p) = 6 * (f * p)
                           /\ f * (q * p) = q * (f * p)
  OBVIOUS
<1>8. 6 * (full * x) >= R * (full * n)
  <2>1. full * (6 * x) >= full * (R * n)
    <3>1. 6 * x \in Nat /\ R * n \in Nat
      BY <1>3, <1>4, <1>5, <1>7
    <3>2. QED
      BY <1>4, <1>5, <1>6, <3>1
  <2>2. full * (6 * x) = 6 * (full * x) /\ full * (R * n) = R * (full * n)
    BY <1>3, <1>4, <1>5, <1>7
  <2>3. QED
    BY <2>1, <2>2
<1>9. (full + 1) * I \in Nat /\ full * x \in Nat
  <2>1. full + 1 \in Nat
    BY <1>4
  <2>2. QED
    BY <1>1, <1>4, <1>5, <1>7, <2>1
<1>10. R * c = R * (full * n) + R * last /\ R * (full * n) \in Nat /\ R * last \in Nat
  <2>1. \A p, q, r \in Nat : r * (p + q) = r * p + r * q /\ r * p \in Nat /\ r * q \in Nat
    OBVIOUS
  <2> DEFINE k == full * n
  <2>2. k \in Nat /\ k + last = c
    BY <1>4
  <2> HIDE DEF k
  <2>3. R * c = R * k + R * last /\ R * k \in Nat /\ R * last \in Nat
    BY <1>3, <1>4, <2>1, <2>2
  <2>4. QED
    BY <2>3 DEF k
<1> DEFINE A == full * x
           B == (full + 1) * I
           K == R * (full * n)
           L == R * last
           Z == R * c
           W == PiecesOf(mode, v, c)
<1>11. /\ A \in Nat /\ B \in Nat /\ K \in Nat /\ L \in Nat /\ Z = K + L
       /\ 6 * A >= K /\ 6 * y >= L /\ y \in Nat /\ W = A + y + B
  BY <1>2, <1>5, <1>8, <1>9, <1>10
<1> HIDE DEF A, B, K, L, Z, W
<1>12. 6 * W >= Z
  BY <1>11
<1>13. QED
  BY <1>12 DEF W, Z, R

\* The most bits that a version with length indicators as long holds.
Cap(v) == <<1856, 10960, 23648>>[VersionRange(v)]

\* An entry of more characters than a version of the range counts takes more
\* bits, and is estimated at more, than that version holds.
LEMMA ManyBits ==
  ASSUME NEW e, Plain(e), NEW v \in {0} \union Versions, Big(e, v),
         NEW w \in {0} \union Versions
  PROVE  Needed(e, w) > Cap(v) /\ Estimate(e, w, FALSE) > Cap(v)
<1> DEFINE m == e.mode
           c == Chars(e)
           n == Most(m, v)
           R == Rate[m]
<1>1. m \in Splittable /\ c > n /\ v \in Int /\ w \in Int
  BY DEF Big, Versions, VersionMax
<1>2. c \in Nat \ {0}
  BY <1>1, CharsAre
<1>3. VersionRange(v) \in {1, 2, 3}
  BY DEF VersionRange
<1>4. R * (n + 1) > 6 * Cap(v) /\ R \in {20, 33, 48, 78} /\ n \in Nat /\ Cap(v) \in Nat
  <2>1. CASE m = "num"
    BY <1>1, <1>3, <2>1, MostIs DEF Cap, Rate
  <2>2. CASE m = "an"
    BY <1>1, <1>3, <2>2, MostIs DEF Cap, Rate
  <2>3. CASE m = "byte"
    BY <1>1, <1>3, <2>3, MostIs DEF Cap, Rate
  <2>4. CASE m = "kanji"
    BY <1>1, <1>3, <2>4, MostIs DEF Cap, Rate
  <2>5. QED
    BY <1>1, <2>1, <2>2, <2>3, <2>4 DEF Splittable
<1>5. R * c > 6 * Cap(v)
  <2> DEFINE k == Cap(v)
  <2> HIDE DEF R, c, n, k
  <2>1. c >= n + 1 /\ c \in Nat
    BY <1>1, <1>2, <1>4
  <2>2. R * c >= R * (n + 1) /\ R * c \in Nat
    BY <1>4, <2>1
  <2>3. R * (n + 1) > 6 * k /\ k \in Nat /\ R * (n + 1) \in Nat
    BY <1>4 DEF k
  <2>4. R * c > 6 * k
    BY <2>2, <2>3
  <2>5. QED
    BY <2>4 DEF k
<1> DEFINE x == CharBits(m, c)
           h == Starts(e, w) * Indicator(m, w)
           p == PiecesOf(m, w, c)
           k == Cap(v)
           z == R * c
<1>6. 6 * x >= z /\ x \in Nat
  BY <1>1, <1>2, CharRate
<1>7. 6 * p >= z /\ p \in Nat
  BY <1>1, <1>2, PiecesRate, PiecesAre
<1>8. h \in Nat
  <2>1. Starts(e, w) \in Nat /\ Indicator(m, w) \in Nat
    BY <1>1, StartsAre, HeaderBitsAre
  <2>2. \A f, g \in Nat : f * g \in Nat
    OBVIOUS
  <2>3. QED
    BY <2>1, <2>2
<1>9. Estimate(e, w, FALSE) = x + h
  BY <1>1, EstimateIs
<1>10. Needed(e, w) = p
  BY <1>1, NeededIs
<1>11. z \in Nat /\ k \in Nat /\ z > 6 * k
  <2>1. \A f, g \in Nat : f * g \in Nat
    OBVIOUS
  <2>2. QED
    BY <1>2, <1>4, <1>5, <2>1
<1> HIDE DEF x, h, p, k, z
<1>12. p > k /\ x + h > k
  BY <1>6, <1>7, <1>8, <1>11
<1>13. QED
  BY <1>9, <1>10, <1>12 DEF k

\* A version with longer length indicators needs more bits.
LEMMA LongerHeaders ==
  ASSUME NEW e, Plain(e), NEW v \in {0} \union Versions, NEW u \in {0} \union Versions,
         VersionRange(v) <= VersionRange(u)
  PROVE  /\ Big(e, u) => Big(e, v)
         /\ ~Big(e, v) => Needed(e, v) <= Needed(e, u)
<1> DEFINE m == e.mode
           c == Chars(e)
<1>1. v \in Int /\ u \in Int
  BY DEF Versions, VersionMax
<1>2. ASSUME m \in Splittable
      PROVE  /\ Most(m, v) <= Most(m, u) /\ Indicator(m, v) <= Indicator(m, u)
             /\ Most(m, v) \in Nat /\ Most(m, u) \in Nat
             /\ Indicator(m, v) \in Nat /\ Indicator(m, u) \in Nat
  <2>1. VersionRange(v) \in {1, 2, 3} /\ VersionRange(u) \in {1, 2, 3}
    BY DEF VersionRange
  <2>2. CASE m = "num"
    BY <1>1, <1>2, <2>1, <2>2, MostIs, HeaderBitsAre DEF HeaderBits
  <2>3. CASE m = "an"
    BY <1>1, <1>2, <2>1, <2>3, MostIs, HeaderBitsAre DEF HeaderBits
  <2>4. CASE m = "byte"
    BY <1>1, <1>2, <2>1, <2>4, MostIs, HeaderBitsAre DEF HeaderBits
  <2>5. CASE m = "kanji"
    BY <1>1, <1>2, <2>1, <2>5, MostIs, HeaderBitsAre DEF HeaderBits
  <2>6. QED
    BY <1>2, <2>2, <2>3, <2>4, <2>5 DEF Splittable
<1>3. ASSUME m \in Splittable PROVE c \in Nat \ {0}
  BY <1>3, CharsAre
<1>4. Big(e, u) => Big(e, v)
  <2>1. ASSUME m \in Splittable, c > Most(m, u) PROVE c > Most(m, v)
    <3> HIDE DEF c
    <3>1. QED
      BY <1>2, <1>3, <2>1
  <2>2. QED
    BY <2>1 DEF Big
<1>5. ASSUME ~Big(e, v), m \in Splittable PROVE Needed(e, v) <= Needed(e, u)
  <2> DEFINE x == CharBits(m, c)
             i == Indicator(m, v)
             j == Indicator(m, u)
  <2>1. c <= Most(m, v) /\ c <= Most(m, u)
    <3>1. ~(c > Most(m, v))
      BY <1>5 DEF Big
    <3> HIDE DEF c
    <3>2. QED
      BY <1>2, <1>3, <1>5, <3>1
  <2>2. Needed(e, v) = x + i /\ Needed(e, u) = x + j
    BY <1>1, <1>3, <1>5, <2>1, NeededIs, PiecesAre
  <2>3. x \in Nat /\ i \in Nat /\ j \in Nat /\ i <= j
    BY <1>2, <1>3, <1>5, CharBitsAre
  <2> HIDE DEF x, i, j
  <2>4. x + i <= x + j
    BY <2>3
  <2>5. QED
    BY <2>2, <2>4
<1>6. ASSUME m \notin Splittable PROVE Needed(e, v) = Needed(e, u) /\ Needed(e, v) \in Nat
  <2>1. m \in {"structure", "fnc1second"}
    BY <1>6 DEF Plain, IsItem, IsEntry
  <2>2. QED
    BY <1>1, <2>1, NeededIs
<1>7. QED
  <2>1. \A k \in Nat : k <= k
    OBVIOUS
  <2>2. QED
    BY <1>4, <1>5, <1>6, <2>1

\* No version holds more than the last of its range at level L.
LEMMA CapIs ==
  ASSUME NEW v \in Versions, NEW level \in Levels
  PROVE  8 * DataLength(v, level) <= Cap(v) /\ DataLength(v, level) \in Int
<1> DEFINE l == LevelIndex(level)
           w == capacityWords[v]
           x == capacityEcc[v][l]
<1>1. l \in 1..4
  BY DEF LevelIndex, Levels
<1>2. DataLength(v, level) = w - x
  BY DEF DataLength, ECCLength
<1> HIDE DEF l
<1>3. CASE v \in 1..9
  <2>1. w \in Int /\ x \in Int /\ w - x <= 232
    BY <1>1, <1>3 DEF capacityWords, capacityEcc
  <2>2. Cap(v) = 1856
    BY <1>3 DEF Cap, VersionRange
  <2> HIDE DEF w, x
  <2>3. QED
    BY <1>2, <2>1, <2>2
<1>4. CASE v \in 10..26
  <2>1. w \in Int /\ x \in Int /\ w - x <= 1370
    BY <1>1, <1>4 DEF capacityWords, capacityEcc
  <2>2. Cap(v) = 10960
    BY <1>4 DEF Cap, VersionRange
  <2> HIDE DEF w, x
  <2>3. QED
    BY <1>2, <2>1, <2>2
<1>5. CASE v \in 27..40
  <2>1. w \in Int /\ x \in Int /\ w - x <= 2956
    BY <1>1, <1>5 DEF capacityWords, capacityEcc
  <2>2. Cap(v) = 23648
    BY <1>5 DEF Cap, VersionRange
  <2> HIDE DEF w, x
  <2>3. QED
    BY <1>2, <2>1, <2>2
<1>6. QED
  BY <1>3, <1>4, <1>5 DEF Versions, VersionMax

-----------------------------------------------------------------------------
(* A list of entries: what its estimate and its bits say of the versions.  *)

\* Estimates of a list, and whether a version holds it, at a level and not in
\* Micro QR.
Sized(list, v)        == SumOf([i \in DOMAIN list |-> Estimate(list[i], v, FALSE)])
Holds(list, v, level) == NeededAll(list, v) <= 8 * DataLength(v, level)

IsPlain(list)  == IsSeq(list) /\ \A k \in 1..Len(list) : Plain(list[k])
IsSimple(list) == IsSeq(list) /\ \A k \in 1..Len(list) : Simple(list[k])

NoneBig(list, v) == \A k \in 1..Len(list) : ~Big(list[k], v)

\* What a list needs, and its estimate, are sums over its entries.
LEMMA ListSums ==
  ASSUME NEW list, IsPlain(list), NEW v \in {0} \union Versions
  PROVE  \E f, g : /\ Numbered(Len(list), f) /\ NeededAll(list, v) = SumOf(f)
                   /\ Numbered(Len(list), g) /\ Sized(list, v) = SumOf(g)
                   /\ \A k \in 1..Len(list) : f[k] = Needed(list[k], v)
                   /\ \A k \in 1..Len(list) : g[k] = Estimate(list[k], v, FALSE)
<1> DEFINE n == Len(list)
           f == [i \in 1..n |-> Needed(list[i], v)]
           g == [i \in 1..n |-> Estimate(list[i], v, FALSE)]
<1>1. DOMAIN list = 1..n
  BY DEF IsPlain, IsSeq
<1>2. NeededAll(list, v) = SumOf(f) /\ Sized(list, v) = SumOf(g)
  BY <1>1 DEF NeededAll, Sized
<1>3. v \in Int
  BY DEF Versions, VersionMax
<1>4. \A k \in 1..n : Needed(list[k], v) \in Nat /\ Estimate(list[k], v, FALSE) \in Nat
  BY <1>3, NeededIs, EstimateIsNat DEF IsPlain
<1>5. \A k \in 1..n : f[k] = Needed(list[k], v) /\ g[k] = Estimate(list[k], v, FALSE)
  OBVIOUS
<1>6. f = [i \in 1..n |-> f[i]] /\ g = [i \in 1..n |-> g[i]]
  OBVIOUS
<1> HIDE DEF f, g
<1>7. Numbered(n, f) /\ Numbered(n, g)
  BY <1>4, <1>5, <1>6 DEF Numbered
<1>8. QED
  BY <1>2, <1>5, <1>7

\* Both are numbers, and the estimate depends on the range only.
LEMMA ListNumbers ==
  ASSUME NEW list, IsPlain(list), NEW v \in {0} \union Versions
  PROVE  /\ NeededAll(list, v) \in Nat /\ Sized(list, v) \in Nat
         /\ \A k \in 1..Len(list) : /\ Needed(list[k], v) <= NeededAll(list, v)
                                    /\ Estimate(list[k], v, FALSE) <= Sized(list, v)
<1>1. PICK f, g : /\ Numbered(Len(list), f) /\ NeededAll(list, v) = SumOf(f)
                  /\ Numbered(Len(list), g) /\ Sized(list, v) = SumOf(g)
                  /\ \A k \in 1..Len(list) : f[k] = Needed(list[k], v)
                  /\ \A k \in 1..Len(list) : g[k] = Estimate(list[k], v, FALSE)
  BY ListSums
<1>2. Len(list) \in Nat
  BY DEF IsPlain, IsSeq
<1>3. /\ SumOf(f) \in Nat /\ \A k \in 1..Len(list) : f[k] <= SumOf(f)
      /\ SumOf(g) \in Nat /\ \A k \in 1..Len(list) : g[k] <= SumOf(g)
  BY <1>1, <1>2, SumBounds
<1>4. QED
  BY <1>1, <1>3

\* The estimate of a list is the same for all versions of a range.
LEMMA SizedInRange ==
  ASSUME NEW list, IsPlain(list), NEW v \in {0} \union Versions, NEW w \in {0} \union Versions,
         VersionRange(v) = VersionRange(w)
  PROVE  Sized(list, v) = Sized(list, w)
<1>1. DOMAIN list = 1..Len(list)
  BY DEF IsPlain, IsSeq
<1>2. \A k \in DOMAIN list : Estimate(list[k], v, FALSE) = Estimate(list[k], w, FALSE)
  BY <1>1, SameRange DEF IsPlain
<1>3. [i \in DOMAIN list |-> Estimate(list[i], v, FALSE)]
        = [i \in DOMAIN list |-> Estimate(list[i], w, FALSE)]
  BY <1>2
<1>4. QED
  BY <1>3 DEF Sized

\* A list whose bits, or whose estimate, in any version are no more than what a
\* version holds has no entry too long for that version.
LEMMA FewBitsNoneBig ==
  ASSUME NEW list, IsPlain(list), NEW v \in Versions, NEW w \in {0} \union Versions,
         NEW level \in Levels,
         NeededAll(list, w) <= 8 * DataLength(v, level) \/ Sized(list, w) <= 8 * DataLength(v, level)
  PROVE  NoneBig(list, v)
<1> SUFFICES ASSUME NEW k \in 1..Len(list), Big(list[k], v) PROVE FALSE
  BY DEF NoneBig
<1> DEFINE a == Needed(list[k], w)
           b == Estimate(list[k], w, FALSE)
           A == NeededAll(list, w)
           B == Sized(list, w)
           d == 8 * DataLength(v, level)
           c == Cap(v)
<1>1. a > c /\ b > c
  BY ManyBits DEF IsPlain
<1>2. a <= A /\ b <= B /\ A \in Nat /\ B \in Nat
  BY ListNumbers
<1>3. w \in Int
  BY DEF Versions, VersionMax
<1>4. a \in Nat /\ b \in Nat
  BY <1>3, NeededIs, EstimateIsNat DEF IsPlain
<1>5. d <= c
  BY CapIs
<1>6. d \in Int /\ c \in Int
  <2>1. d \in Int
    BY CapIs
  <2>2. c \in Int
    BY DEF Cap, VersionRange
  <2>3. QED
    BY <2>1, <2>2
<1>7. A <= d \/ B <= d
  OBVIOUS
<1> HIDE DEF a, b, A, B, c, d
<1>8. QED
  BY <1>1, <1>2, <1>4, <1>5, <1>6, <1>7

\* The estimate for a range is exact for the versions of it that hold the list.
LEMMA SizedExact ==
  ASSUME NEW list, IsSimple(list), NEW u \in Versions, NEW v \in {0} \union Versions,
         VersionRange(u) = VersionRange(v), NEW level \in Levels, Holds(list, u, level)
  PROVE  Sized(list, v) <= 8 * DataLength(u, level) /\ NoneBig(list, u)
<1>1. IsPlain(list) /\ u \in {0} \union Versions
  BY DEF IsSimple, IsPlain, Simple
<1>2. NoneBig(list, u)
  BY <1>1, FewBitsNoneBig DEF Holds
<1>3. DOMAIN list = 1..Len(list)
  BY DEF IsSimple, IsSeq
<1>4. \A k \in DOMAIN list : Estimate(list[k], u, FALSE) = Needed(list[k], u)
  BY <1>1, <1>2, <1>3, EstimateExact DEF NoneBig, IsSimple
<1>5. [i \in DOMAIN list |-> Estimate(list[i], u, FALSE)]
        = [i \in DOMAIN list |-> Needed(list[i], u)]
  BY <1>4
<1>6. Sized(list, u) = NeededAll(list, u)
  BY <1>5 DEF Sized, NeededAll
<1>7. Sized(list, v) = Sized(list, u)
  BY <1>1, SizedInRange
<1>8. QED
  BY <1>2, <1>6, <1>7 DEF Holds

\* A list of which no entry is too long needs no more bits in a lower version.
LEMMA NeededGrows ==
  ASSUME NEW list, IsPlain(list), NEW v \in {0} \union Versions, NEW u \in {0} \union Versions,
         VersionRange(v) <= VersionRange(u), NoneBig(list, v)
  PROVE  NeededAll(list, v) <= NeededAll(list, u)
<1>1. PICK f, f1 : /\ Numbered(Len(list), f) /\ NeededAll(list, v) = SumOf(f)
                   /\ Numbered(Len(list), f1) /\ Sized(list, v) = SumOf(f1)
                   /\ \A k \in 1..Len(list) : f[k] = Needed(list[k], v)
                   /\ \A k \in 1..Len(list) : f1[k] = Estimate(list[k], v, FALSE)
  BY ListSums
<1>2. PICK g, g1 : /\ Numbered(Len(list), g) /\ NeededAll(list, u) = SumOf(g)
                   /\ Numbered(Len(list), g1) /\ Sized(list, u) = SumOf(g1)
                   /\ \A k \in 1..Len(list) : g[k] = Needed(list[k], u)
                   /\ \A k \in 1..Len(list) : g1[k] = Estimate(list[k], u, FALSE)
  BY ListSums
<1>3. \A k \in 1..Len(list) : Needed(list[k], v) <= Needed(list[k], u)
  BY LongerHeaders DEF NoneBig, IsPlain
<1>4. \A k \in 1..Len(list) : f[k] <= g[k]
  BY <1>1, <1>2, <1>3
<1>5. Len(list) \in Nat
  BY DEF IsPlain, IsSeq
<1>6. SumOf(f) <= SumOf(g)
  BY <1>1, <1>2, <1>4, <1>5, SumGrows
<1>7. QED
  BY <1>1, <1>2, <1>6

\* What the length indicators of a version count, those of later ones do.
LEMMA NoneBigAbove ==
  ASSUME NEW list, IsPlain(list), NEW v \in {0} \union Versions, NEW u \in {0} \union Versions,
         VersionRange(v) <= VersionRange(u), NoneBig(list, v)
  PROVE  NoneBig(list, u)
BY LongerHeaders DEF NoneBig, IsPlain

\* QRspec_getMinimumVersion finds the first version that holds so many bits.
LEMMA MinimumVersionHolds ==
  ASSUME NEW n \in Nat, NEW level \in Levels
  PROVE  LET v == MinimumVersion((n + 7) \div 8, level)
         IN  /\ v = -1 \/ (v \in Versions /\ n <= 8 * DataLength(v, level))
             /\ \A u \in Versions : n <= 8 * DataLength(u, level) => v # -1 /\ v <= u
<1> DEFINE size == (n + 7) \div 8
           fits == {v \in Versions : DataLength(v, level) >= size}
           V == MinimumVersion(size, level)
<1>1. fits \in SUBSET Nat /\ fits \subseteq Versions
  BY DEF Versions, VersionMax
<1>2. V = IF fits = {} THEN -1 ELSE Min(fits)
  BY DEF MinimumVersion
<1>3. \A d \in Int : d >= size <=> n <= 8 * d
  OBVIOUS
<1>4. \A u \in Versions : u \in fits <=> n <= 8 * DataLength(u, level)
  <2> HIDE DEF size
  <2>1. QED
    BY <1>3, DataLengthIsInt
<1> HIDE DEF fits, size, V
<1>5. CASE fits = {}
  <2>1. V = -1
    BY <1>2, <1>5
  <2>2. \A u \in Versions : ~(n <= 8 * DataLength(u, level))
    BY <1>4, <1>5
  <2>3. QED
    BY <2>1, <2>2 DEF V, size
<1>6. CASE fits # {}
  <2>1. \E m \in fits : \A x \in fits : m <= x
    BY <1>1, <1>6, LeastElement
  <2>2. V \in fits /\ \A x \in fits : V <= x
    BY <1>2, <1>6, <2>1 DEF Min
  <2>3. V # -1
    BY <1>1, <2>2
  <2>4. QED
    BY <1>1, <1>4, <2>2, <2>3 DEF V, size
<1>7. QED
  BY <1>5, <1>6

-----------------------------------------------------------------------------
(* The choice of a version.                                                *)

\* What VersionIsLeast leaves out, for a level and not in Micro QR.
Excused(list, level) ==
  \/ \E i \in DOMAIN list : \/ list[i].mode = "eci"
                            \/ list[i].mode = "kanji" /\ Len(list[i].data) > 256
  \/ \E v \in Versions :
       /\ Holds(list, v, level)
       /\ \E lower \in {9, 26} : /\ lower < v
                                 /\ Sized(list, lower) > 8 * DataLength(LastOfRange(v), level)

\* The guess went past a version that holds the list only within its range.
GuessOk(list, level, g) ==
  \A u \in Versions : Holds(list, u, level) /\ u < g => VersionRange(g) = VersionRange(u)

NoneBelow(list, level, low, v) ==
  \A u \in Versions : low <= u /\ u < v => ~Holds(list, u, level)

Fitted(list, level, v) ==
  (\E u \in Versions : Holds(list, u, level)) => NoneBig(list, v)

\* Later versions are in later ranges.
LEMMA Ranges ==
  ASSUME NEW v \in {0} \union Versions, NEW u \in {0} \union Versions
  PROVE  /\ VersionRange(v) \in {1, 2, 3}
         /\ v <= u => VersionRange(v) <= VersionRange(u)
BY DEF VersionRange, Versions, VersionMax

\* The last version below a range, and the last of one.
LEMMA RangeEnds ==
  ASSUME NEW u \in Versions
  PROVE  /\ LastOfRange(u) \in Versions /\ u <= LastOfRange(u)
         /\ VersionRange(LastOfRange(u)) = VersionRange(u)
         /\ \A v \in {0} \union Versions : VersionRange(v) < VersionRange(u) =>
              \E lower \in {9, 26} : lower < u /\ VersionRange(lower) = VersionRange(v)
<1>1. CASE u \in 1..9
  <2>1. VersionRange(u) = 1 /\ LastOfRange(u) = 9
    BY <1>1 DEF VersionRange, LastOfRange
  <2>2. \A v \in {0} \union Versions : ~(VersionRange(v) < 1)
    BY DEF VersionRange
  <2>3. QED
    BY <1>1, <2>1, <2>2 DEF VersionRange, Versions, VersionMax
<1>2. CASE u \in 10..26
  <2>1. VersionRange(u) = 2 /\ LastOfRange(u) = 26
    BY <1>2 DEF VersionRange, LastOfRange
  <2>2. \A v \in {0} \union Versions : VersionRange(v) < 2 => VersionRange(9) = VersionRange(v)
    BY DEF VersionRange
  <2>3. 9 < u /\ 9 \in {9, 26}
    BY <1>2
  <2>4. 26 \in Versions /\ u <= 26 /\ VersionRange(26) = 2
    BY <1>2 DEF VersionRange, Versions, VersionMax
  <2>5. QED
    BY <2>1, <2>2, <2>3, <2>4
<1>3. CASE u \in 27..40
  <2>1. VersionRange(u) = 3 /\ LastOfRange(u) = 40
    BY <1>3 DEF VersionRange, LastOfRange
  <2>2. \A v \in {0} \union Versions : VersionRange(v) < 3 =>
          VersionRange(9) = VersionRange(v) \/ VersionRange(26) = VersionRange(v)
    BY DEF VersionRange
  <2>3. 9 < u /\ 26 < u
    BY <1>3
  <2>4. 40 \in Versions /\ u <= 40 /\ VersionRange(40) = 3
    BY <1>3 DEF VersionRange, Versions, VersionMax
  <2>5. QED
    BY <2>1, <2>2, <2>3, <2>4
<1>4. QED
  BY <1>1, <1>2, <1>3 DEF Versions, VersionMax

\* The estimate with shorter length indicators, too, goes no further than the
\* range of a version that holds the list.
LEMMA EstimateFromBelow ==
  ASSUME NEW list, IsSimple(list), NEW level \in Levels, ~Excused(list, level),
         NEW g \in {0} \union Versions, NEW u \in Versions, Holds(list, u, level),
         VersionRange(g) < VersionRange(u)
  PROVE  Sized(list, g) <= 8 * DataLength(LastOfRange(u), level)
<1>1. IsPlain(list)
  BY DEF IsSimple, IsPlain, Simple
<1>2. PICK lower \in {9, 26} : lower < u /\ VersionRange(lower) = VersionRange(g)
  BY RangeEnds
<1>3. lower \in {0} \union Versions
  BY DEF Versions, VersionMax
<1>4. Sized(list, g) = Sized(list, lower) /\ Sized(list, lower) \in Nat
  BY <1>1, <1>2, <1>3, SizedInRange, ListNumbers
<1> DEFINE d == 8 * DataLength(LastOfRange(u), level)
           s == Sized(list, lower)
<1>5. ~(s > d)
  BY <1>2 DEF Excused
<1>6. d \in Int
  <2>1. DataLength(LastOfRange(u), level) \in Int
    BY RangeEnds, CapIs
  <2>2. QED
    BY <2>1
<1>7. s <= d
  <2>1. s \in Nat
    BY <1>4
  <2> HIDE DEF s, d
  <2>2. QED
    BY <1>5, <1>6, <2>1
<1>8. QED
  BY <1>4, <1>7

\* One round of QRinput_estimateVersion, and its end.
LEMMA GuessStep ==
  ASSUME NEW list, IsSimple(list), NEW level \in Levels, ~Excused(list, level),
         NEW g \in {0} \union Versions, GuessOk(list, level, g),
         NEW low \in {0} \union Versions,
         NEW v, v = MinimumVersion((Sized(list, g) + 7) \div 8, level)
  PROVE  /\ v > g => v \in Versions /\ GuessOk(list, level, v)
         /\ ~(v > g) => LET w == IF v > low THEN v ELSE low
                        IN  NoneBelow(list, level, low, w) /\ Fitted(list, level, w)
<1>1. IsPlain(list) /\ Sized(list, g) \in Nat
  <2>1. IsPlain(list)
    BY DEF IsSimple, IsPlain, Simple
  <2>2. QED
    BY <2>1, ListNumbers
<1>2. /\ v = -1 \/ (v \in Versions /\ Sized(list, g) <= 8 * DataLength(v, level))
      /\ \A u \in Versions : Sized(list, g) <= 8 * DataLength(u, level) => v # -1 /\ v <= u
  BY <1>1, MinimumVersionHolds
<1>3. \A u \in Versions : Holds(list, u, level) /\ VersionRange(u) = VersionRange(g)
        => v # -1 /\ v <= u
  BY <1>2, SizedExact
<1>4. \A u \in Versions : Holds(list, u, level) /\ VersionRange(g) < VersionRange(u)
        => v # -1 /\ v <= LastOfRange(u)
  <2>1. \A u \in Versions : LastOfRange(u) \in Versions
    BY RangeEnds
  <2>2. QED
    BY <1>2, <2>1, EstimateFromBelow
<1>5. /\ g \in 0..40 /\ low \in 0..40 /\ v \in -1..40 /\ (v # -1 => v \in Versions)
      /\ \A u \in Versions : u \in 1..40
  BY <1>2 DEF Versions, VersionMax
<1>6. \A x, y \in {0} \union Versions : VersionRange(x) = VersionRange(y) \/ VersionRange(x) < VersionRange(y)
                                        \/ VersionRange(y) < VersionRange(x)
  BY Ranges
<1>7. ASSUME v > g PROVE v \in Versions /\ GuessOk(list, level, v)
  <2>1. v \in Versions
    BY <1>5, <1>7
  <2>2. ASSUME NEW u \in Versions, Holds(list, u, level), u < v
        PROVE  VersionRange(v) = VersionRange(u)
    <3>1. CASE VersionRange(u) = VersionRange(g)
      <4>1. v <= u
        BY <1>3, <2>2, <3>1
      <4>2. QED
        BY <1>5, <2>1, <2>2, <4>1
    <3>2. CASE VersionRange(g) < VersionRange(u)
      <4>1. v <= LastOfRange(u) /\ LastOfRange(u) \in Versions
            /\ VersionRange(LastOfRange(u)) = VersionRange(u)
        BY <1>4, <2>2, <3>2, RangeEnds
      <4>2. VersionRange(u) <= VersionRange(v)
        <5>1. u <= v
          BY <1>5, <2>1, <2>2
        <5>2. QED
          BY <2>1, <5>1, Ranges
      <4>3. VersionRange(v) <= VersionRange(u)
        BY <2>1, <4>1, Ranges
      <4>4. VersionRange(u) \in {1, 2, 3} /\ VersionRange(v) \in {1, 2, 3}
        BY <2>1, Ranges
      <4>5. QED
        BY <4>2, <4>3, <4>4
    <3>3. CASE VersionRange(u) < VersionRange(g)
      <4>1. ~(g <= u)
        <5>1. VersionRange(u) \in {1, 2, 3} /\ VersionRange(g) \in {1, 2, 3}
          BY Ranges
        <5>2. ~(VersionRange(g) <= VersionRange(u))
          BY <3>3, <5>1
        <5>3. QED
          BY <5>2, Ranges
      <4>2. u < g
        BY <1>5, <4>1
      <4>3. VersionRange(g) = VersionRange(u)
        BY <2>2, <4>2 DEF GuessOk
      <4>4. v <= u
        BY <1>3, <2>2, <4>3
      <4>5. QED
        BY <1>5, <2>1, <2>2, <4>4
    <3>4. QED
      BY <1>6, <3>1, <3>2, <3>3
  <2>3. QED
    BY <2>1, <2>2 DEF GuessOk
<1>8. ASSUME ~(v > g), NEW u \in Versions, Holds(list, u, level) PROVE v # -1 /\ v <= u
  <2>1. CASE u < g
    <3>1. VersionRange(g) = VersionRange(u)
      BY <1>8, <2>1 DEF GuessOk
    <3>2. QED
      BY <1>3, <1>8, <3>1
  <2>2. CASE g <= u
    <3>1. VersionRange(g) <= VersionRange(u) /\ VersionRange(g) \in {1, 2, 3} /\ VersionRange(u) \in {1, 2, 3}
      BY <2>2, Ranges
    <3>2. CASE VersionRange(g) = VersionRange(u)
      BY <1>3, <1>8, <3>2
    <3>3. CASE VersionRange(g) < VersionRange(u)
      <4>1. v # -1
        BY <1>4, <1>8, <3>3
      <4>2. v <= u
        BY <1>5, <1>8, <2>2, <4>1
      <4>3. QED
        BY <4>1, <4>2
    <3>4. QED
      BY <3>1, <3>2, <3>3
  <2>3. QED
    BY <1>5, <2>1, <2>2
<1>9. v # -1 => NoneBig(list, v)
  BY <1>1, <1>2, FewBitsNoneBig
<1>10. ASSUME ~(v > g)
       PROVE  LET w == IF v > low THEN v ELSE low
              IN  NoneBelow(list, level, low, w) /\ Fitted(list, level, w)
  <2>1. CASE v > low
    <3>1. ASSUME NEW u \in Versions, u < v PROVE ~Holds(list, u, level)
      <4>1. ~(v <= u)
        BY <1>5, <3>1
      <4>2. QED
        BY <1>8, <1>10, <4>1
    <3>2. v # -1
      BY <1>5, <2>1
    <3>3. QED
      BY <1>9, <2>1, <3>1, <3>2 DEF NoneBelow, Fitted
  <2>2. CASE ~(v > low)
    <3>1. NoneBelow(list, level, low, low)
      <4>1. \A u \in Versions : ~(low <= u /\ u < low)
        BY <1>5
      <4>2. QED
        BY <4>1 DEF NoneBelow
    <3>2. ASSUME NEW u \in Versions, Holds(list, u, level) PROVE NoneBig(list, low)
      <4>1. v \in Versions /\ NoneBig(list, v)
        BY <1>5, <1>8, <1>9, <1>10, <3>2
      <4>2. VersionRange(v) <= VersionRange(low)
        <5>1. v <= low
          BY <1>5, <2>2
        <5>2. QED
          BY <4>1, <5>1, Ranges
      <4>3. QED
        BY <1>1, <4>1, <4>2, NoneBigAbove
    <3>3. QED
      BY <2>2, <3>1, <3>2 DEF Fitted
  <2>3. QED
    BY <2>1, <2>2
<1>11. QED
  BY <1>7, <1>10

\* The version is raised when the stream is too long for it.
LEMMA RaiseStep ==
  ASSUME NEW list, IsSimple(list), NEW level \in Levels,
         NEW low \in {0} \union Versions, NEW w \in {0} \union Versions,
         NoneBelow(list, level, low, w), Fitted(list, level, w),
         NEW v, v = MinimumVersion((NeededAll(list, w) + 7) \div 8, level), v > w
  PROVE  NoneBelow(list, level, low, v) /\ Fitted(list, level, v)
<1>1. IsPlain(list) /\ NeededAll(list, w) \in Nat
  <2>1. IsPlain(list)
    BY DEF IsSimple, IsPlain, Simple
  <2>2. QED
    BY <2>1, ListNumbers
<1>2. /\ v = -1 \/ (v \in Versions /\ NeededAll(list, w) <= 8 * DataLength(v, level))
      /\ \A u \in Versions : NeededAll(list, w) <= 8 * DataLength(u, level) => v # -1 /\ v <= u
  BY <1>1, MinimumVersionHolds
<1>3. w \in 0..40 /\ v \in Versions /\ \A u \in Versions : u \in 1..40
  BY <1>2 DEF Versions, VersionMax
<1>4. NoneBig(list, v)
  BY <1>1, <1>2, <1>3, FewBitsNoneBig
<1>5. ASSUME NEW u \in Versions, low <= u, u < v PROVE ~Holds(list, u, level)
  <2>1. CASE u < w
    BY <1>5, <2>1 DEF NoneBelow
  <2>2. ASSUME w <= u, Holds(list, u, level) PROVE FALSE
    <3>1. NoneBig(list, w)
      BY <2>2 DEF Fitted
    <3>2. VersionRange(w) <= VersionRange(u)
      BY <2>2, Ranges
    <3>3. NeededAll(list, w) <= NeededAll(list, u) /\ NeededAll(list, u) \in Nat
      BY <1>1, <3>1, <3>2, NeededGrows, ListNumbers
    <3>4. NeededAll(list, u) <= 8 * DataLength(u, level) /\ DataLength(u, level) \in Int
      BY <2>2, CapIs DEF Holds
    <3> DEFINE a == NeededAll(list, w)
               b == NeededAll(list, u)
               d == 8 * DataLength(u, level)
    <3>5. a <= d
      <4>1. d \in Int
        BY <3>4
      <4>2. a \in Nat /\ b \in Nat /\ a <= b /\ b <= d
        BY <1>1, <3>3, <3>4
      <4> HIDE DEF a, b, d
      <4>3. QED
        BY <4>1, <4>2
    <3>6. v <= u
      BY <1>2, <3>5
    <3>7. QED
      BY <1>3, <1>5, <3>6
  <2>3. QED
    BY <1>3, <2>1, <2>2
<1>6. QED
  BY <1>4, <1>5 DEF NoneBelow, Fitted

-----------------------------------------------------------------------------
(* The inductive invariant: what the rounds of the estimate, the entries   *)
(* encoded so far and the versions raised keep true of the input under way.*)

Least(list, level, low, v) ==
  v \in Versions /\ Holds(list, v, level) /\ NoneBelow(list, level, low, v)

AllLeast(j, ins, o) ==
  ~j.mqr => \A i \in 1..Len(o) :
              ~Excused(ins[i], j.level) => Least(ins[i], j.level, j.version, o[i].version)

\* The first entries of the list have been encoded.
Encoded(list, part, stream, v) ==
  /\ Len(part) <= Len(list) /\ \A k \in 1..Len(part) : part[k] = list[k]
  /\ Len(stream) = NeededAll(part, v)

Guessing == /\ guess \in {0} \union Versions /\ version = job.version
            /\ head = << >> /\ bits = << >>
            /\ ~Excused(Input, job.level) => GuessOk(Input, job.level, guess)

Encoding == /\ NoneBelow(Input, job.level, job.version, version)
            /\ Fitted(Input, job.level, version)
            /\ Encoded(Input, head, bits, version)
            /\ pc = "pad" => Len(head) = Len(Input)

Choosing ==
  /\ AllLeast(job, inputs, out)
  /\ pc = "estimate" => Guessing
  /\ pc \in {"encode", "pad"} /\ ~job.mqr /\ ~Excused(Input, job.level) => Encoding

\* A list of entries that the estimate is exact for.
LEMMA SimpleList ==
  ASSUME NEW j, j.mqr = FALSE, NEW list
  PROVE  (~Excused(list, j.level) /\ IsList(list)) => IsSimple(list)
<1> SUFFICES ASSUME ~Excused(list, j.level), IsList(list) PROVE IsSimple(list)
  OBVIOUS
<1>1. IsSeq(list) /\ DOMAIN list = 1..Len(list)
  BY DEF IsList, IsSeq
<1>2. \A k \in 1..Len(list) : /\ IsItem(list[k]) /\ list[k].mode # "eci"
                              /\ ~(list[k].mode = "kanji" /\ Len(list[k].data) > 256)
  BY <1>1 DEF Excused, IsList
<1>3. QED
  BY <1>1, <1>2 DEF IsSimple, Simple, Plain

\* The input under way is a list of entries.
LEMMA InputIs ==
  ASSUME Streams, pc \in Working
  PROVE  IsList(Input) /\ Len(out) + 1 \in 1..Len(inputs) /\ Len(out) \in Nat
<1>1. Len(out) \in Nat /\ Len(inputs) \in Nat /\ Len(out) < Len(inputs)
  BY DEF Streams, Working, IsSeq, AreLists
<1>2. QED
  BY <1>1 DEF Streams, Input, AreLists

\* No bits have been made of no entries.
LEMMA EncodedNone ==
  ASSUME NEW list, IsSeq(list), NEW v PROVE Encoded(list, << >>, << >>, v)
<1>1. Len(<< >>) = 0 /\ DOMAIN << >> = 1..0 /\ Len(list) \in Nat
  BY DEF IsSeq
<1> DEFINE f == [i \in DOMAIN << >> |-> Needed(<< >>[i], v)]
<1>2. Numbered(0, f)
  BY <1>1 DEF Numbered
<1>3. SumOf(f) = 0
  <2> HIDE DEF f
  <2>1. QED
    BY <1>2, SumOfNone
<1>4. NeededAll(<< >>, v) = 0
  BY <1>3 DEF NeededAll
<1>5. QED
  BY <1>1, <1>4 DEF Encoded

\* An entry more, with as many bits as it needs.
LEMMA EncodedMore ==
  ASSUME NEW list, IsSimple(list), NEW part, IsSeq(part), NEW stream, IsSeq(stream),
         NEW v \in {0} \union Versions, Encoded(list, part, stream, v), Len(part) < Len(list),
         NEW e, e = list[Len(part) + 1]
  PROVE  Encoded(list, Append(part, e), stream \o EncodeBitStream(e, v, FALSE), v)
<1> DEFINE n == Len(part)
           l == Append(part, e)
           b == EncodeBitStream(e, v, FALSE)
           f == [i \in DOMAIN part |-> Needed(part[i], v)]
           g == [i \in DOMAIN l |-> Needed(l[i], v)]
<1>1. n \in Nat /\ Len(list) \in Nat /\ n + 1 \in 1..Len(list)
  BY DEF IsSeq, IsSimple
<1>2. /\ IsSeq(l) /\ Len(l) = n + 1 /\ DOMAIN l = 1..(n + 1) /\ DOMAIN part = 1..n
      /\ \A i \in 1..n : l[i] = part[i]
      /\ l[n + 1] = e
  BY Appended
<1>3. \A k \in 1..n : part[k] = list[k] /\ k \in 1..Len(list)
  BY <1>1 DEF Encoded
<1>4. Plain(e) /\ \A k \in 1..n : Plain(part[k])
  BY <1>1, <1>3 DEF IsSimple, Simple
<1>5. IsSeq(b) /\ Len(b) = Needed(e, v)
  BY <1>4, BitStreamLength
<1>6. v \in Int
  BY DEF Versions, VersionMax
<1>7. Needed(e, v) \in Nat /\ \A k \in 1..n : Needed(part[k], v) \in Nat
  BY <1>4, <1>6, NeededIs
<1> HIDE DEF l, b
<1>8. \A k \in 1..(n + 1) : k \in 1..n \/ k = n + 1
  BY <1>1
<1>9. /\ \A k \in 1..n : f[k] = Needed(part[k], v)
      /\ \A k \in 1..(n + 1) : g[k] = Needed(l[k], v)
      /\ f = [i \in 1..n |-> f[i]] /\ g = [i \in 1..(n + 1) |-> g[i]]
  BY <1>2
<1>a. NeededAll(part, v) = SumOf(f) /\ NeededAll(l, v) = SumOf(g)
  BY DEF NeededAll
<1> HIDE DEF f, g
<1>b. Numbered(n, f)
  BY <1>7, <1>9 DEF Numbered
<1>c. Numbered(n + 1, g)
  <2>1. \A k \in 1..(n + 1) : g[k] \in Nat
    BY <1>2, <1>7, <1>8, <1>9
  <2>2. QED
    BY <1>9, <2>1 DEF Numbered
<1>d. \A i \in 1..n : f[i] = g[i]
  <2>1. \A i \in 1..n : i \in 1..(n + 1)
    BY <1>1
  <2>2. QED
    BY <1>2, <1>9, <2>1
<1>e. SumOf(g) = SumOf(f) + g[n + 1] /\ g[n + 1] = Needed(e, v)
  <2>1. n + 1 \in 1..(n + 1)
    BY <1>1
  <2>2. g[n + 1] = Needed(e, v)
    BY <1>2, <1>9, <2>1
  <2>3. SumOf(g) = SumOf(f) + g[n + 1]
    <3> HIDE DEF n
    <3>1. QED
      BY <1>1, <1>b, <1>c, <1>d, SumOfMore
  <2>4. QED
    BY <2>2, <2>3
<1>f. Len(stream \o b) = Len(stream) + Len(b)
  BY <1>5, Joined
<1>g. Len(stream) = SumOf(f)
  BY <1>a DEF Encoded
<1>h. \A k \in 1..(n + 1) : l[k] = list[k]
  BY <1>2, <1>3, <1>8
<1>i. Len(stream \o b) = NeededAll(l, v)
  BY <1>5, <1>a, <1>e, <1>f, <1>g
<1>j. Len(l) <= Len(list)
  BY <1>1, <1>2
<1>k. QED
  BY <1>2, <1>h, <1>i, <1>j DEF Encoded, l, b

\* Once all entries are encoded the stream has the bits that the list needs.
LEMMA EncodedAll ==
  ASSUME NEW list, IsSeq(list), NEW part, IsSeq(part), NEW stream, NEW v,
         Encoded(list, part, stream, v), Len(part) = Len(list)
  PROVE  Len(stream) = NeededAll(list, v)
<1>1. DOMAIN part = 1..Len(list) /\ DOMAIN list = 1..Len(list)
  BY DEF IsSeq
<1>2. \A k \in 1..Len(list) : part[k] = list[k]
  BY DEF Encoded
<1>3. [i \in DOMAIN part |-> Needed(part[i], v)] = [i \in DOMAIN list |-> Needed(list[i], v)]
  BY <1>1, <1>2
<1>4. QED
  BY <1>3 DEF Encoded, NeededAll

\* Steps before an input is started.
LEMMA BuildChooses ==
  ASSUME Streams, Choosing, Streams', pc \in {"build", "deal"}, UNCHANGED <<job, out>>,
         pc' \in {"build", "deal", "start", "failed"}
  PROVE  Choosing'
<1>1. Len(out') = 0 /\ \A i \in 1..Len(out') : FALSE
  BY EmptyList DEF Streams
<1>2. AllLeast(job', inputs', out')
  BY <1>1 DEF AllLeast
<1>3. QED
  BY <1>2 DEF Choosing

\* The next input: nothing is passed over by a guess of 0.
LEMMA StartChooses == ASSUME Streams, Choosing, Streams', Start PROVE Choosing'
<1>1. /\ pc = "start" /\ version' = job.version /\ guess' = 0 /\ bits' = << >> /\ head' = << >>
      /\ UNCHANGED <<job, out>>
      /\ pc' = "encode" => job.mqr
      /\ pc' \in {"encode", "estimate", "failed", "wild"}
      /\ UNCHANGED inputs \/ ~job.structured
  BY DEF Start
<1>2. AllLeast(job', inputs', out')
  <2>1. CASE UNCHANGED inputs
    BY <1>1, <2>1 DEF Choosing
  <2>2. CASE ~job.structured
    <3>1. Len(out) \in Nat /\ Len(out) < 1
      BY <1>1, <2>2, InputIs DEF Streams, Working
    <3>2. \A i \in 1..Len(out) : FALSE
      BY <3>1
    <3>3. QED
      BY <1>1, <3>2 DEF AllLeast
  <2>3. QED
    BY <1>1, <2>1, <2>2
<1>3. \A list, level : GuessOk(list, level, 0)
  <2>1. \A u \in Versions : ~(u < 0)
    BY DEF Versions, VersionMax
  <2>2. QED
    BY <2>1 DEF GuessOk
<1>4. pc' = "estimate" => Guessing'
  BY <1>1, <1>3 DEF Guessing
<1>5. QED
  BY <1>1, <1>2, <1>4 DEF Choosing

\* A round of the estimate.
LEMMA EstimateChooses ==
  ASSUME Streams, Choosing, Streams', EstimateVersion PROVE Choosing'
<1> DEFINE v == MinimumVersion((EstimateAll(Input, guess) + 7) \div 8, job.level)
<1>1. /\ pc = "estimate" /\ UNCHANGED <<job, head, inputs, bits, out>>
      /\ \/ v > guess /\ guess' = v /\ UNCHANGED <<version, pc>>
         \/ ~(v > guess) /\ version' = (IF v > version THEN v ELSE version) /\ pc' = "encode"
  BY DEF EstimateVersion, build
<1>2. /\ ~job.mqr /\ job.mqr = FALSE /\ job.level \in Levels /\ job.version \in {0} \union Versions
  BY <1>1, JobIs DEF Streams, IsVersion
<1>3. Guessing /\ AllLeast(job, inputs, out)
  BY <1>1 DEF Choosing
<1>4. IsList(Input) /\ IsSeq(Input) /\ Input' = Input
  BY <1>1, InputIs DEF Working, IsList, Input
<1>5. v = MinimumVersion((Sized(Input, guess) + 7) \div 8, job.level)
  BY <1>2 DEF EstimateAll, Sized
<1>6. v \in {-1} \union Versions
  BY MinimumVersionIs
<1> HIDE DEF v
<1>7. CASE ~Excused(Input, job.level)
  <2>1. IsSimple(Input)
    BY <1>2, <1>4, <1>7, SimpleList
  <2>2. guess \in {0} \union Versions /\ GuessOk(Input, job.level, guess) /\ version = job.version
    BY <1>3, <1>7 DEF Guessing
  <2>3. /\ v > guess => v \in Versions /\ GuessOk(Input, job.level, v)
        /\ ~(v > guess) => LET w == IF v > job.version THEN v ELSE job.version
                           IN  /\ NoneBelow(Input, job.level, job.version, w)
                               /\ Fitted(Input, job.level, w)
    <3> DEFINE L == Input
               A == job.level
               J == job.version
    <3>1. IsSimple(L) /\ A \in Levels /\ ~Excused(L, A) /\ J \in {0} \union Versions
      BY <1>2, <1>7, <2>1
    <3>2. guess \in {0} \union Versions /\ GuessOk(L, A, guess)
      BY <2>2
    <3>3. v = MinimumVersion((Sized(L, guess) + 7) \div 8, A)
      BY <1>5
    <3> HIDE DEF L, A, J
    <3>4. /\ v > guess => v \in Versions /\ GuessOk(L, A, v)
          /\ ~(v > guess) => LET w == IF v > J THEN v ELSE J
                             IN  NoneBelow(L, A, J, w) /\ Fitted(L, A, w)
      BY <3>1, <3>2, <3>3, GuessStep
    <3>5. QED
      BY <3>4 DEF L, A, J
  <2>4. CASE v > guess /\ guess' = v /\ UNCHANGED <<version, pc>>
    BY <1>1, <1>3, <1>4, <2>3, <2>4 DEF Choosing, Guessing
  <2>5. CASE ~(v > guess) /\ version' = (IF v > version THEN v ELSE version) /\ pc' = "encode"
    <3>1. Encoded(Input, head, bits, version')
      BY <1>3, <1>4, EncodedNone DEF Guessing
    <3>2. NoneBelow(Input, job.level, job.version, version') /\ Fitted(Input, job.level, version')
      BY <2>2, <2>3, <2>5
    <3>3. Encoding'
      BY <1>1, <1>4, <2>5, <3>1, <3>2 DEF Encoding
    <3>4. QED
      BY <1>1, <1>3, <2>5, <3>3 DEF Choosing
  <2>6. QED
    BY <1>1, <2>4, <2>5
<1>8. CASE Excused(Input, job.level)
  <2>1. v > guess => v \in Versions
    <3>1. guess \in 0..40 /\ v \in -1..40 /\ (v # -1 => v \in Versions)
      BY <1>3, <1>6 DEF Guessing, Versions, VersionMax
    <3>2. QED
      BY <3>1
  <2>2. QED
    BY <1>1, <1>3, <1>4, <1>8, <2>1 DEF Choosing, Guessing
<1>9. QED
  BY <1>7, <1>8

\* An entry is encoded.
LEMMA EncodeChooses == ASSUME Streams, Choosing, Streams', EncodeEntry PROVE Choosing'
<1> DEFINE e == Input[Len(head) + 1]
           b == EncodeBitStream(e, version, job.mqr)
<1>1. /\ pc = "encode" /\ Len(head) < Len(Input)
      /\ UNCHANGED <<job, inputs, version, guess, out>>
      /\ \/ bits' = bits \o b /\ head' = Append(head, e) /\ UNCHANGED pc
         \/ pc' = "failed" /\ UNCHANGED <<bits, head>>
  BY DEF EncodeEntry
<1>2. IsList(Input) /\ Input' = Input /\ AllLeast(job, inputs, out)
  BY <1>1, InputIs DEF Working, Input, Choosing
<1>3. CASE pc' = "failed"
  BY <1>1, <1>2, <1>3 DEF Choosing
<1>4. CASE bits' = bits \o b /\ head' = Append(head, e) /\ UNCHANGED pc
  <2>1. ASSUME ~job.mqr, ~Excused(Input, job.level) PROVE Encoding'
    <3>1. job.mqr = FALSE /\ version \in {0} \union Versions
      BY <2>1, JobIs DEF Streams, IsVersion
    <3>2. IsSimple(Input)
      BY <1>2, <2>1, <3>1, SimpleList
    <3>3. Encoding /\ IsSeq(head) /\ IsSeq(bits)
      BY <1>1, <2>1 DEF Choosing, Streams, IsList
    <3>4. Encoded(Input, Append(head, e), bits \o b, version)
      BY <1>1, <3>1, <3>2, <3>3, EncodedMore DEF Encoding
    <3>5. QED
      BY <1>1, <1>2, <1>4, <3>3, <3>4 DEF Encoding
  <2>2. QED
    BY <1>1, <1>2, <1>4, <2>1 DEF Choosing
<1>5. QED
  BY <1>1, <1>3, <1>4

\* All entries are encoded: the version holds their bits, or is raised.
LEMMA CheckChooses == ASSUME Streams, Choosing, Streams', CheckVersion PROVE Choosing'
<1> DEFINE v == MinimumVersion((Len(bits) + 7) \div 8, job.level)
<1>1. /\ pc = "encode" /\ ~job.mqr /\ Len(head) = Len(Input)
      /\ UNCHANGED <<job, inputs, out>>
      /\ \/ v < 0 /\ pc' = "failed"
         \/ v > version /\ version' = v /\ bits' = << >> /\ head' = << >> /\ UNCHANGED pc
         \/ pc' = "pad" /\ UNCHANGED <<version, bits, head>>
  BY DEF CheckVersion
<1>2. IsList(Input) /\ IsSeq(Input) /\ Input' = Input /\ AllLeast(job, inputs, out)
  BY <1>1, InputIs DEF Working, Input, Choosing, IsList
<1>3. /\ job.mqr = FALSE /\ job.level \in Levels /\ job.version \in {0} \union Versions
      /\ version \in {0} \union Versions
  BY <1>1, JobIs DEF Streams, IsVersion
<1>4. ASSUME ~Excused(Input, job.level) PROVE Encoding /\ Len(bits) = NeededAll(Input, version)
  <2>1. Encoding /\ IsSeq(head)
    BY <1>1, <1>4 DEF Choosing, Streams, IsList
  <2>2. QED
    BY <1>1, <1>2, <2>1, EncodedAll DEF Encoding
<1> HIDE DEF v
<1>5. CASE v < 0 /\ pc' = "failed"
  BY <1>1, <1>2, <1>5 DEF Choosing
<1>6. CASE v > version /\ version' = v /\ bits' = << >> /\ head' = << >> /\ UNCHANGED pc
  <2>1. ASSUME ~Excused(Input, job.level) PROVE Encoding'
    <3>1. IsSimple(Input)
      BY <1>2, <1>3, <2>1, SimpleList
    <3>2. NoneBelow(Input, job.level, job.version, v) /\ Fitted(Input, job.level, v)
      BY <1>3, <1>4, <1>6, <2>1, <3>1, RaiseStep DEF Encoding, v
    <3>3. Encoded(Input, << >>, << >>, v)
      BY <1>2, EncodedNone
    <3>4. QED
      BY <1>1, <1>2, <1>6, <3>2, <3>3 DEF Encoding
  <2>2. QED
    BY <1>1, <1>2, <1>6, <2>1 DEF Choosing
<1>7. CASE pc' = "pad" /\ UNCHANGED <<version, bits, head>>
  <2>1. ASSUME ~Excused(Input, job.level) PROVE Encoding'
    BY <1>1, <1>2, <1>4, <1>7, <2>1 DEF Encoding
  <2>2. QED
    BY <1>1, <1>2, <1>7, <2>1 DEF Choosing
<1>8. QED
  BY <1>1, <1>5, <1>6, <1>7

\* The stream is padded in a version that holds it, and none below does.
LEMMA PadChooses == ASSUME Streams, Choosing, Streams', Pad PROVE Choosing'
<1>1. /\ pc = "pad" \/ (pc = "encode" /\ job.mqr)
      /\ UNCHANGED <<job, inputs, version>>
      /\ \/ pc' = "failed" /\ UNCHANGED out
         \/ /\ ~(MaxLength < Len(bits)) /\ pc' \in {"done", "start"}
            /\ \E s : out' = Append(out, [version |-> version, stream |-> s])
  BY DEF Pad, build
<1>2. IsList(Input) /\ IsSeq(Input) /\ AllLeast(job, inputs, out)
  BY <1>1, InputIs DEF Working, Choosing, IsList
<1>3. CASE pc' = "failed" /\ UNCHANGED out
  BY <1>1, <1>2, <1>3 DEF Choosing
<1>4. CASE /\ ~(MaxLength < Len(bits)) /\ pc' \in {"done", "start"}
           /\ \E s : out' = Append(out, [version |-> version, stream |-> s])
  <2>1. PICK s : out' = Append(out, [version |-> version, stream |-> s])
    BY <1>4
  <2> DEFINE o == [version |-> version, stream |-> s]
             n == Len(out)
  <2>2. o.version = version
    OBVIOUS
  <2> HIDE DEF o
  <2>3. /\ n \in Nat /\ Len(out') = n + 1
        /\ \A i \in 1..n : out'[i] = out[i]
        /\ out'[n + 1] = o
    BY <2>1, Appended DEF Streams, o
  <2>4. ASSUME ~job.mqr, ~Excused(Input, job.level)
        PROVE  Least(Input, job.level, job.version, version)
    <3>1. pc = "pad" /\ Encoding /\ IsSeq(head) /\ version \in Versions
      BY <1>1, <2>4 DEF Choosing, Streams, IsList
    <3>2. Len(bits) = NeededAll(Input, version)
      BY <1>2, <3>1, EncodedAll DEF Encoding
    <3>3. MaxLength = 8 * DataLength(version, job.level) /\ job.level \in Levels
      BY <2>4, JobIs DEF MaxLength, Streams
    <3>4. DataLength(version, job.level) \in Int /\ Len(bits) \in Nat
      BY <3>1, <3>3, CapIs DEF Streams, IsSeq
    <3>5. Len(bits) <= 8 * DataLength(version, job.level)
      BY <1>4, <3>3, <3>4
    <3>6. QED
      BY <3>1, <3>2, <3>5 DEF Least, Holds, Encoding
  <2>5. ASSUME ~job.mqr, NEW i \in 1..(n + 1), ~Excused(inputs[i], job.level)
        PROVE  Least(inputs[i], job.level, job.version, out'[i].version)
    <3>1. i \in 1..n \/ i = n + 1
      BY <2>3
    <3>2. CASE i \in 1..n
      BY <1>2, <2>3, <2>5, <3>2 DEF AllLeast
    <3>3. CASE i = n + 1
      BY <2>2, <2>3, <2>4, <2>5, <3>3 DEF Input
    <3>4. QED
      BY <3>1, <3>2, <3>3
  <2>6. AllLeast(job', inputs', out')
    BY <1>1, <2>3, <2>5 DEF AllLeast
  <2>7. QED
    BY <1>4, <2>6 DEF Choosing
<1>5. QED
  BY <1>1, <1>3, <1>4

\* Every step keeps the choice of the version right.
LEMMA ChoosingStep ==
  ASSUME Streams, Streams', Choosing, [Next]_vars PROVE Choosing'
<1>1. ASSUME SplitString \/ AppendItem \/ Built \/ Fits \/ Divide \/ Dealt PROVE Choosing'
  <2>1. CASE SplitString \/ AppendItem
    <3>1. pc = "build" /\ UNCHANGED <<job, out>>
      BY <2>1 DEF SplitString, AppendItem, encode
    <3>2. pc' \in {"build", "failed"}
      BY <2>1 DEF SplitString, AppendItem, Append1
    <3>3. QED
      BY <3>1, <3>2, BuildChooses
  <2>2. CASE Built
    <3>1. pc = "build" /\ UNCHANGED <<job, out>> /\ pc' \in {"deal", "start"}
      BY <2>2 DEF Built, encode
    <3>2. QED
      BY <3>1, BuildChooses
  <2>3. CASE Fits \/ Divide \/ Dealt
    <3>1. pc = "deal" /\ UNCHANGED <<job, out>>
      BY <2>3 DEF Fits, Divide, Dealt, encode
    <3>2. pc' \in {"deal", "start", "failed"}
      BY <2>3 DEF Fits, Divide, Dealt
    <3>3. QED
      BY <3>1, <3>2, BuildChooses
  <2>4. QED
    BY <1>1, <2>1, <2>2, <2>3
<1>2. CASE UNCHANGED vars
  BY <1>2 DEF Choosing, Guessing, Encoding, Input, vars, build, encode
<1>3. QED
  BY <1>1, <1>2, StartChooses, EstimateChooses, EncodeChooses, CheckChooses, PadChooses DEF Next

\* Every stream is made for the first version, from the one asked for, that
\* holds its input, unless the input is one of those that the estimate passes
\* versions over for (QRinput_estimateVersion, QRinput_convertData).
THEOREM VersionsLeast == Spec => []VersionIsLeast
<1>1. Init => Cutting /\ Streams /\ Choosing
  <2>1. Init => Len(out) = 0 /\ pc \notin {"estimate", "encode", "pad"}
    BY EmptyList DEF Init
  <2>2. Init => AllLeast(job, inputs, out)
    BY <2>1 DEF AllLeast
  <2>3. QED
    BY <2>1, <2>2, CuttingInit, InitStreams DEF Choosing
<1>2. (Cutting /\ Streams /\ Choosing) /\ [Next]_vars => (Cutting /\ Streams /\ Choosing)'
  BY CuttingStep, StreamsStep, ChoosingStep
<1>3. Streams /\ Choosing => VersionIsLeast
  <2> SUFFICES ASSUME Streams, Choosing, ~job.mqr, NEW i \in DOMAIN out, ~Overestimated(inputs[i])
               PROVE  LeastVersion(inputs[i], out[i].version)
    BY DEF VersionIsLeast
  <2> DEFINE list == inputs[i]
             v    == out[i].version
             low  == job.version
  <2>1. job.mqr = FALSE /\ low \in {0} \union Versions
    BY JobIs DEF Streams, IsVersion
  <2>2. \A u : FitsIn(list, u) = Holds(list, u, job.level) /\ EstimateAll(list, u) = Sized(list, u)
    BY <2>1 DEF FitsIn, Holds, EstimateAll, Sized
  <2>3. ~Excused(list, job.level)
    BY <2>2 DEF Excused, Overestimated
  <2>4. i \in 1..Len(out)
    BY DEF Streams, IsSeq
  <2>5. Least(list, job.level, low, v)
    BY <2>3, <2>4 DEF Choosing, AllLeast
  <2> HIDE DEF list, v, low
  <2>6. Max({1, low}) \in Int /\ Max({1, low}) >= 1 /\ Max({1, low}) >= low
    <3>1. \E m \in {1, low} : \A x \in {1, low} : m >= x
      BY <2>1 DEF Versions, VersionMax
    <3>2. Max({1, low}) \in {1, low} /\ \A x \in {1, low} : Max({1, low}) >= x
      BY <3>1 DEF Max
    <3>3. QED
      BY <2>1, <3>2 DEF Versions, VersionMax
  <2>7. ASSUME NEW u \in Max({1, low})..(v - 1) PROVE ~FitsIn(list, u)
    <3>1. u \in Versions /\ low <= u /\ u < v
      <4>1. v \in 1..40 /\ low \in 0..40
        BY <2>1, <2>5 DEF Least, Versions, VersionMax
      <4>2. u \in 1..40 /\ low <= u /\ u < v
        BY <2>6, <2>7, <4>1
      <4>3. QED
        BY <4>2 DEF Versions, VersionMax
    <3>2. QED
      BY <2>2, <2>5, <3>1 DEF Least, NoneBelow
  <2>8. QED
    BY <2>2, <2>5, <2>7 DEF LeastVersion, Least, list, v, low
<1>4. QED
  BY <1>1, <1>2, <1>3, PTL DEF Spec

\* s[k] is the number that the first k bits are.
Doubles(n, bit, s) == /\ s \in [0..n -> Nat] /\ s[0] = 0
                      /\ \A k \in 1..n : s[k] = 2 * s[k - 1] + bit[k]

\* There is such a function, and Number reads the number off it.
LEMMA NumberExists ==
  ASSUME NEW n \in Nat, NEW bit, \A k \in 1..n : bit[k] \in {0, 1}
  PROVE  \E s : Doubles(n, bit, s) /\ Number(bit, n) = s[n]
<1> DEFINE N    == n + 1
           Stop == {N}
           base == [q \in 1..N |-> 0]
           next == [q \in 1..N |-> q + 1]
           h    == [q \in 1..N |-> [x \in Nat |-> 2 * x + bit[N - q]]]
           Body(s, i) == IF i = 0 THEN 0 ELSE 2 * s[i - 1] + bit[i]
           S == CHOOSE s : s = [i \in 0..n |-> Body(s, i)]
<1>2. Number(bit, n) = S[n]
  BY DEF Number
<1>3. PICK g : Computes(g, N, Nat, Stop, base, next, h)
  <2>1. ASSUME NEW q \in 1..N, q \notin Stop
        PROVE  next[q] \in (q + 1)..N /\ \A x \in Nat : h[q][x] \in Nat
    <3>1. N - q \in 1..n
      BY <2>1
    <3>2. bit[N - q] \in {0, 1}
      BY <3>1
    <3>3. QED
      BY <2>1, <3>2
  <2>2. \A q \in 1..N : base[q] \in Nat
    OBVIOUS
  <2>3. N \in Nat
    OBVIOUS
  <2> HIDE DEF N, Stop, base, next, h
  <2>4. Recursion(N, Nat, Stop, base, next, h)
    BY <2>1, <2>2 DEF Recursion
  <2>5. QED
    BY <2>3, <2>4, UpwardsExists
<1> DEFINE s == [i \in 0..n |-> g[N - i]]
<1>4. ASSUME NEW i \in 1..n PROVE s[i] = 2 * s[i - 1] + bit[i] /\ s[i - 1] \in Nat
  <2>1. N - i \in 1..N /\ N - i \notin Stop /\ N - (N - i) = i
    OBVIOUS
  <2>2. N - (i - 1) \in 1..N /\ next[N - i] = N - (i - 1)
    BY <2>1
  <2>3. g[N - (i - 1)] \in Nat
    BY <1>3, <2>2 DEF Computes
  <2>4. g[N - i] = h[N - i][g[next[N - i]]]
    BY <1>3, <2>1 DEF Computes
  <2>5. g[N - i] = 2 * g[N - (i - 1)] + bit[i]
    BY <2>1, <2>2, <2>3, <2>4
  <2>6. QED
    BY <2>3, <2>5
<1>5. s[0] = 0
  <2>1. N \in 1..N /\ N \in Stop
    OBVIOUS
  <2>2. g[N] = base[N]
    BY <1>3, <2>1 DEF Computes
  <2>3. QED
    BY <2>2
<1>6. ASSUME NEW i \in 0..n PROVE s[i] \in Nat
  <2>1. N - i \in 1..N
    OBVIOUS
  <2>2. QED
    BY <1>3, <2>1 DEF Computes
<1>7. s = [i \in 0..n |-> s[i]]
  OBVIOUS
<1> HIDE DEF s
<1>8. s = [i \in 0..n |-> Body(s, i)]
  <2>1. \A i \in 0..n : s[i] = Body(s, i)
    BY <1>4, <1>5
  <2> HIDE DEF Body
  <2>2. QED
    BY <1>7, <2>1
<1>9. S = [i \in 0..n |-> Body(S, i)]
  <2> HIDE DEF Body
  <2>1. QED
    BY <1>8
<1> HIDE DEF S
<1>10. \A i \in 0..n : S[i] = Body(S, i)
  <2> HIDE DEF Body
  <2>1. QED
    BY <1>9
<1> DEFINE T == {i \in 0..n : S[i] = s[i]}
<1>11. 0 \in T
  BY <1>5, <1>10
<1>12. ASSUME NEW i \in 1..n, i - 1 \in T PROVE i \in T
  <2>1. S[i] = 2 * S[i - 1] + bit[i]
    BY <1>10
  <2>2. QED
    BY <1>4, <1>12, <2>1
<1>13. S[n] = s[n]
  <2> HIDE DEF T
  <2>1. \A i \in 0..n : i \in T
    BY <1>11, <1>12, FromZero
  <2>2. QED
    BY <2>1 DEF T
<1>14. Doubles(n, bit, s)
  <2>1. s \in [0..n -> Nat]
    BY <1>6, <1>7
  <2>2. QED
    BY <1>4, <1>5, <2>1 DEF Doubles
<1>15. QED
  BY <1>2, <1>13, <1>14

\* The bits of a group of four, and of a byte.
LEMMA FourBits ==
  ASSUME NEW b, \A k \in 1..4 : b[k] \in {0, 1}
  PROVE  Number(b, 4) = 8 * b[1] + 4 * b[2] + 2 * b[3] + b[4]
<1>1. PICK s : Doubles(4, b, s) /\ Number(b, 4) = s[4]
  BY NumberExists
<1>2. s[0] = 0 /\ \A k \in 1..4 : s[k] = 2 * s[k - 1] + b[k]
  BY <1>1 DEF Doubles
<1>3. s[1] = 2 * s[0] + b[1] /\ s[2] = 2 * s[1] + b[2] /\ s[3] = 2 * s[2] + b[3]
      /\ s[4] = 2 * s[3] + b[4]
  BY <1>2
<1>4. b[1] \in {0, 1} /\ b[2] \in {0, 1} /\ b[3] \in {0, 1} /\ b[4] \in {0, 1}
  OBVIOUS
<1>5. QED
  BY <1>1, <1>2, <1>3, <1>4

\* The same for a byte.
LEMMA EightBits ==
  ASSUME NEW b, \A k \in 1..8 : b[k] \in {0, 1}
  PROVE  Number(b, 8) = 128 * b[1] + 64 * b[2] + 32 * b[3] + 16 * b[4]
                        + 8 * b[5] + 4 * b[6] + 2 * b[7] + b[8]
<1>1. PICK s : Doubles(8, b, s) /\ Number(b, 8) = s[8]
  BY NumberExists
<1>2. s[0] = 0 /\ \A k \in 1..8 : s[k] = 2 * s[k - 1] + b[k]
  BY <1>1 DEF Doubles
<1>3. /\ s[1] = 2 * s[0] + b[1] /\ s[2] = 2 * s[1] + b[2] /\ s[3] = 2 * s[2] + b[3]
      /\ s[4] = 2 * s[3] + b[4] /\ s[5] = 2 * s[4] + b[5] /\ s[6] = 2 * s[5] + b[6]
      /\ s[7] = 2 * s[6] + b[7] /\ s[8] = 2 * s[7] + b[8]
  BY <1>2
<1>4. /\ b[1] \in {0, 1} /\ b[2] \in {0, 1} /\ b[3] \in {0, 1} /\ b[4] \in {0, 1}
      /\ b[5] \in {0, 1} /\ b[6] \in {0, 1} /\ b[7] \in {0, 1} /\ b[8] \in {0, 1}
  OBVIOUS
<1>5. QED
  BY <1>1, <1>2, <1>3, <1>4

\* A byte made of eight bits has those bits.
LEMMA ByteBits ==
  ASSUME NEW b, \A k \in 1..8 : b[k] \in {0, 1}
  PROVE  Number(b, 8) \in 0..255
         /\ \A k \in 1..8 : (Number(b, 8) \div 2 ^ (8 - k)) % 2 = b[k]
<1> DEFINE n == Number(b, 8)
<1>1. n = 128 * b[1] + 64 * b[2] + 32 * b[3] + 16 * b[4] + 8 * b[5] + 4 * b[6] + 2 * b[7] + b[8]
  BY EightBits
<1>2. /\ b[1] \in {0, 1} /\ b[2] \in {0, 1} /\ b[3] \in {0, 1} /\ b[4] \in {0, 1}
      /\ b[5] \in {0, 1} /\ b[6] \in {0, 1} /\ b[7] \in {0, 1} /\ b[8] \in {0, 1}
  OBVIOUS
<1> HIDE DEF n
<1>3. n \in 0..255
  BY <1>1, <1>2
<1>4. /\ (n \div 128) % 2 = b[1] /\ (n \div 64) % 2 = b[2]
      /\ (n \div 32) % 2 = b[3] /\ (n \div 16) % 2 = b[4]
      /\ (n \div 8) % 2 = b[5] /\ (n \div 4) % 2 = b[6]
      /\ (n \div 2) % 2 = b[7] /\ (n \div 1) % 2 = b[8]
  <2>1. (n \div 128) % 2 = b[1]
    <3> DEFINE x == 0
               y == 64 * b[2] + 32 * b[3] + 16 * b[4] + 8 * b[5] + 4 * b[6] + 2 * b[7] + b[8]
    <3>1. x \in Nat /\ y \in 0..127
      BY <1>2
    <3>a. n = 128 * (2 * x + b[1]) + y
      BY <1>1, <1>2
    <3> HIDE DEF x, y
    <3>2. n \div 128 = 2 * x + b[1]
      BY <1>2, <3>1, <3>a
    <3>3. QED
      BY <1>2, <3>1, <3>2
  <2>2. (n \div 64) % 2 = b[2]
    <3> DEFINE x == 1 * b[1]
               y == 32 * b[3] + 16 * b[4] + 8 * b[5] + 4 * b[6] + 2 * b[7] + b[8]
    <3>1. x \in Nat /\ y \in 0..63
      BY <1>2
    <3>a. n = 64 * (2 * x + b[2]) + y
      BY <1>1, <1>2
    <3> HIDE DEF x, y
    <3>2. n \div 64 = 2 * x + b[2]
      BY <1>2, <3>1, <3>a
    <3>3. QED
      BY <1>2, <3>1, <3>2
  <2>3. (n \div 32) % 2 = b[3]
    <3> DEFINE x == 2 * b[1] + 1 * b[2]
               y == 16 * b[4] + 8 * b[5] + 4 * b[6] + 2 * b[7] + b[8]
    <3>1. x \in Nat /\ y \in 0..31
      BY <1>2
    <3>a. n = 32 * (2 * x + b[3]) + y
      BY <1>1, <1>2
    <3> HIDE DEF x, y
    <3>2. n \div 32 = 2 * x + b[3]
      BY <1>2, <3>1, <3>a
    <3>3. QED
      BY <1>2, <3>1, <3>2
  <2>4. (n \div 16) % 2 = b[4]
    <3> DEFINE x == 4 * b[1] + 2 * b[2] + 1 * b[3]
               y == 8 * b[5] + 4 * b[6] + 2 * b[7] + b[8]
    <3>1. x \in Nat /\ y \in 0..15
      BY <1>2
    <3>a. n = 16 * (2 * x + b[4]) + y
      BY <1>1, <1>2
    <3> HIDE DEF x, y
    <3>2. n \div 16 = 2 * x + b[4]
      BY <1>2, <3>1, <3>a
    <3>3. QED
      BY <1>2, <3>1, <3>2
  <2>5. (n \div 8) % 2 = b[5]
    <3> DEFINE x == 8 * b[1] + 4 * b[2] + 2 * b[3] + 1 * b[4]
               y == 4 * b[6] + 2 * b[7] + b[8]
    <3>1. x \in Nat /\ y \in 0..7
      BY <1>2
    <3>a. n = 8 * (2 * x + b[5]) + y
      BY <1>1, <1>2
    <3> HIDE DEF x, y
    <3>2. n \div 8 = 2 * x + b[5]
      BY <1>2, <3>1, <3>a
    <3>3. QED
      BY <1>2, <3>1, <3>2
  <2>6. (n \div 4) % 2 = b[6]
    <3> DEFINE x == 16 * b[1] + 8 * b[2] + 4 * b[3] + 2 * b[4] + 1 * b[5]
               y == 2 * b[7] + b[8]
    <3>1. x \in Nat /\ y \in 0..3
      BY <1>2
    <3>a. n = 4 * (2 * x + b[6]) + y
      BY <1>1, <1>2
    <3> HIDE DEF x, y
    <3>2. n \div 4 = 2 * x + b[6]
      BY <1>2, <3>1, <3>a
    <3>3. QED
      BY <1>2, <3>1, <3>2
  <2>7. (n \div 2) % 2 = b[7]
    <3> DEFINE x == 32 * b[1] + 16 * b[2] + 8 * b[3] + 4 * b[4] + 2 * b[5] + 1 * b[6]
               y == b[8]
    <3>1. x \in Nat /\ y \in 0..1
      BY <1>2
    <3>a. n = 2 * (2 * x + b[7]) + y
      BY <1>1, <1>2
    <3> HIDE DEF x, y
    <3>2. n \div 2 = 2 * x + b[7]
      BY <1>2, <3>1, <3>a
    <3>3. QED
      BY <1>2, <3>1, <3>2
  <2>8. (n \div 1) % 2 = b[8]
    <3> DEFINE x == 64 * b[1] + 32 * b[2] + 16 * b[3] + 8 * b[4] + 4 * b[5] + 2 * b[6] + 1 * b[7]
               y == 0
    <3>1. x \in Nat /\ y \in 0..0
      BY <1>2
    <3>a. n = 1 * (2 * x + b[8]) + y
      BY <1>1, <1>2
    <3> HIDE DEF x, y
    <3>2. n \div 1 = 2 * x + b[8]
      BY <1>2, <3>1, <3>a
    <3>3. QED
      BY <1>2, <3>1, <3>2
  <2>9. QED
    BY <2>1, <2>2, <2>3, <2>4, <2>5, <2>6, <2>7, <2>8
<1>5. /\ 2 ^ 7 = 128 /\ 2 ^ 6 = 64 /\ 2 ^ 5 = 32 /\ 2 ^ 4 = 16
      /\ 2 ^ 3 = 8 /\ 2 ^ 2 = 4 /\ 2 ^ 1 = 2 /\ 2 ^ 0 = 1
  OBVIOUS
<1>6. ASSUME NEW k \in 1..8 PROVE (n \div 2 ^ (8 - k)) % 2 = b[k]
  <2>1. /\ 8 - 1 = 7 /\ 8 - 2 = 6 /\ 8 - 3 = 5 /\ 8 - 4 = 4
        /\ 8 - 5 = 3 /\ 8 - 6 = 2 /\ 8 - 7 = 1 /\ 8 - 8 = 0
    OBVIOUS
  <2>2. k = 1 \/ k = 2 \/ k = 3 \/ k = 4 \/ k = 5 \/ k = 6 \/ k = 7 \/ k = 8
    OBVIOUS
  <2>3. CASE k = 1
    BY <1>4, <1>5, <2>1, <2>3
  <2>4. CASE k = 2
    BY <1>4, <1>5, <2>1, <2>4
  <2>5. CASE k = 3
    BY <1>4, <1>5, <2>1, <2>5
  <2>6. CASE k = 4
    BY <1>4, <1>5, <2>1, <2>6
  <2>7. CASE k = 5
    BY <1>4, <1>5, <2>1, <2>7
  <2>8. CASE k = 6
    BY <1>4, <1>5, <2>1, <2>8
  <2>9. CASE k = 7
    BY <1>4, <1>5, <2>1, <2>9
  <2>10. CASE k = 8
    BY <1>4, <1>5, <2>1, <2>10
  <2>11. QED
    BY <2>2, <2>3, <2>4, <2>5, <2>6, <2>7, <2>8, <2>9, <2>10
<1>7. QED
  BY <1>3, <1>6 DEF n

\* Four bits of a number below 16 are that number.
LEMMA FourOf ==
  ASSUME NEW m \in 0..15, NEW b, \A k \in 1..4 : b[k] = (m \div 2 ^ (4 - k)) % 2
  PROVE  (\A k \in 1..4 : b[k] \in {0, 1}) /\ Number(b, 4) = m
<1>1. 2 ^ 3 = 8 /\ 2 ^ 2 = 4 /\ 2 ^ 1 = 2 /\ 2 ^ 0 = 1
  OBVIOUS
<1>2. 4 - 1 = 3 /\ 4 - 2 = 2 /\ 4 - 3 = 1 /\ 4 - 4 = 0
  OBVIOUS
<1>3. b[1] = (m \div 2 ^ 3) % 2 /\ b[2] = (m \div 2 ^ 2) % 2 /\ b[3] = (m \div 2 ^ 1) % 2
      /\ b[4] = (m \div 2 ^ 0) % 2
  BY <1>2
<1>4. b[1] = (m \div 8) % 2 /\ b[2] = (m \div 4) % 2 /\ b[3] = (m \div 2) % 2
      /\ b[4] = (m \div 1) % 2
  BY <1>1, <1>3
<1>5. b[1] \in {0, 1} /\ b[2] \in {0, 1} /\ b[3] \in {0, 1} /\ b[4] \in {0, 1}
  BY <1>4
<1>6. \A k \in 1..4 : b[k] \in {0, 1}
  BY <1>5
<1>7. 8 * b[1] + 4 * b[2] + 2 * b[3] + b[4] = m
  BY <1>4
<1>8. QED
  BY <1>6, <1>7, FourBits

-----------------------------------------------------------------------------
(* The first bits of the streams of a structured append.                   *)

\* A stream that opens with four bits: what every entry does.
Opens(s) == IsSeq(s) /\ Len(s) >= 4 /\ \A k \in 1..4 : s[k] \in {0, 1}

\* The bits of two streams put together.
LEMMA JoinedAt ==
  ASSUME NEW s, NEW t, IsSeq(s), IsSeq(t)
  PROVE  /\ \A k \in 1..Len(s) : (s \o t)[k] = s[k]
         /\ \A k \in 1..Len(t) : (s \o t)[Len(s) + k] = t[k]
<1>1. PICK S : s \in Seq(S)
  BY DEF IsSeq
<1>2. PICK T : t \in Seq(T)
  BY DEF IsSeq
<1>3. s \in Seq(S \union T) /\ t \in Seq(S \union T)
  BY <1>1, <1>2
<1>4. QED
  BY <1>3

\* What comes behind does not change how a stream opens.
LEMMA OpensMore ==
  ASSUME NEW s, NEW t, Opens(s), IsSeq(t) PROVE Opens(s \o t)
<1>1. IsSeq(s) /\ Len(s) \in Nat /\ Len(t) \in Nat /\ Len(s) >= 4
  BY DEF Opens, IsSeq
<1>2. IsSeq(s \o t) /\ Len(s \o t) = Len(s) + Len(t)
  BY <1>1, Joined
<1>3. \A k \in 1..4 : k \in 1..Len(s)
  BY <1>1
<1>4. \A k \in 1..4 : (s \o t)[k] = s[k]
  BY <1>1, <1>3, JoinedAt
<1>5. QED
  BY <1>1, <1>2, <1>4 DEF Opens

\* Bit k of a number.
BitOf(num, k) == (num \div 2 ^ k) % 2

\* The bits of a number.
LEMMA BitsAt ==
  ASSUME NEW n \in Nat, NEW num \in Int
  PROVE  /\ IsSeq(Bits(n, num)) /\ Len(Bits(n, num)) = n
         /\ \A k \in 1..n : Bits(n, num)[k] = BitOf(num, n - k)
<1>1. IsSeq(Bits(n, num)) /\ Len(Bits(n, num)) = n
  BY BitsLength
<1>2. \A k \in 1..n : Bits(n, num)[k] = BitOf(num, n - k)
  BY DEF Bits, BitOf
<1>3. QED
  BY <1>1, <1>2

\* Powers of two.
LEMMA Powers ==
  /\ 2 ^ 7 = 128 /\ 2 ^ 6 = 64 /\ 2 ^ 5 = 32 /\ 2 ^ 4 = 16
  /\ 2 ^ 3 = 8 /\ 2 ^ 2 = 4 /\ 2 ^ 1 = 2 /\ 2 ^ 0 = 1
OBVIOUS

\* Four bits of any number.
LEMMA FourOpen ==
  ASSUME NEW num \in Int PROVE Opens(Bits(4, num)) /\ Len(Bits(4, num)) = 4
<1>1. /\ IsSeq(Bits(4, num)) /\ Len(Bits(4, num)) = 4
      /\ \A k \in 1..4 : Bits(4, num)[k] = BitOf(num, 4 - k)
  BY BitsAt
<1>2. \A p \in {1, 2, 4, 8} : (num \div p) % 2 \in {0, 1}
  OBVIOUS
<1>3. \A k \in 1..4 : 2 ^ (4 - k) \in {1, 2, 4, 8}
  <2>1. 4 - 1 = 3 /\ 4 - 2 = 2 /\ 4 - 3 = 1 /\ 4 - 4 = 0
    OBVIOUS
  <2>2. /\ 2 ^ (4 - 1) = 8 /\ 2 ^ (4 - 2) = 4 /\ 2 ^ (4 - 3) = 2 /\ 2 ^ (4 - 4) = 1
    BY <2>1, Powers
  <2>3. \A k \in 1..4 : k = 1 \/ k = 2 \/ k = 3 \/ k = 4
    OBVIOUS
  <2>4. QED
    BY <2>2, <2>3
<1>4. \A k \in 1..4 : Bits(4, num)[k] \in {0, 1}
  BY <1>1, <1>2, <1>3 DEF BitOf
<1>5. QED
  BY <1>1, <1>4 DEF Opens

\* One piece of an entry opens with its mode.
LEMMA EncodeOpens ==
  ASSUME NEW e, IsEntry(e), NEW v, IsVersion(v, FALSE) PROVE Opens(Encode(e, v, FALSE))
<1> DEFINE d == e.data
           m == e.mode
           a == Bits(4, modeId[m])
           b == Bits(LengthIndicator(m, v), IF m = "kanji" THEN Len(d) \div 2 ELSE Len(d))
<1>1. IsSeq(d) /\ m \in Splittable \union {"structure", "eci", "fnc1second"}
  BY DEF IsEntry
<1>2. IsSeq(NumBits(d)) /\ IsSeq(AnBits(d)) /\ IsSeq(KanjiBits(d)) /\ IsSeq(Bytes(d))
  BY <1>1, DataLengths
<1>3. \A n \in Int : \A num : IsSeq(Bits(n, num))
  BY BitsLength
<1>4. modeId[m] \in Int
  BY <1>1 DEF modeId, Splittable
<1>5. Opens(a)
  BY <1>4, FourOpen
<1>6. \A s, t : Opens(s) /\ IsSeq(t) => Opens(s \o t)
  BY OpensMore
<1>7. CASE m \in Splittable
  <2>1. v \in Int
    BY DEF IsVersion, Versions, VersionMax
  <2>2. LengthIndicator(m, v) \in Int
    BY <1>7, <2>1, IndicatorLengths
  <2>3. IsSeq(b)
    BY <1>3, <2>2
  <2>4. Encode(e, v, FALSE) \in {(a \o b) \o NumBits(d), (a \o b) \o AnBits(d),
                                 (a \o b) \o Bytes(d), (a \o b) \o KanjiBits(d)}
    BY <1>7 DEF Encode, Splittable, Header
  <2> HIDE DEF a, b, d
  <2>5. Opens(a \o b)
    BY <1>5, <1>6, <2>3
  <2>6. QED
    BY <1>2, <1>6, <2>4, <2>5
<1>8. CASE m = "structure"
  <2> DEFINE x == Bits(4, d[2] - 1)
             y == Bits(4, d[1] - 1)
             z == Bits(8, d[3])
  <2>1. IsSeq(x) /\ IsSeq(y) /\ IsSeq(z)
    BY <1>3
  <2>2. Encode(e, v, FALSE) = a \o x \o y \o z
    BY <1>8 DEF Encode
  <2> HIDE DEF a, x, y, z
  <2>3. QED
    BY <1>5, <1>6, <2>1, <2>2
<1>9. CASE m = "eci"
  <2> DEFINE n == decodeECI(d)
             x == ECIBits(n)
  <2>1. 8 * ECIWords(n) \in Int
    BY DEF ECIWords
  <2>2. IsSeq(x)
    BY <1>3, <2>1 DEF ECIBits
  <2>3. Encode(e, v, FALSE) = a \o x
    BY <1>9 DEF Encode
  <2> HIDE DEF a, x
  <2>4. QED
    BY <1>5, <1>6, <2>2, <2>3
<1>10. CASE m = "fnc1second"
  <2>1. Encode(e, v, FALSE) = a \o Bytes(d)
    BY <1>10 DEF Encode
  <2> HIDE DEF a, d
  <2>2. QED
    BY <1>2, <1>5, <1>6, <2>1
<1>11. QED
  BY <1>1, <1>7, <1>8, <1>9, <1>10

\* And so do all its pieces.
LEMMA EncodedOpens ==
  ASSUME NEW e, IsItem(e), NEW v \in {0} \union Versions
  PROVE  Opens(EncodeBitStream(e, v, FALSE))
<1> DEFINE N     == Len(e.data) + 1
           words == MaximumWords(e.mode, v)
<1>1. IsEntry(e) /\ IsVersion(v, FALSE) /\ FALSE \in BOOLEAN /\ v \in Int
  BY DEF IsItem, IsVersion, Versions, VersionMax
<1>2. Len(e.data) \in Nat /\ Len(e.data) > 0
  BY <1>1 DEF IsItem, IsEntry, IsSeq
<1>3. words \in Nat
  BY <1>1, IndicatorLengths DEF MaximumWords
<1>4. PICK F : F[1] = EncodeBitStream(e, v, FALSE) /\ InPieces(F, e, v, FALSE)
  BY <1>1, EncodedInPieces
<1>5. \A to \in Int : Opens(OnePiece(e, 1, to, v, FALSE))
  <2> SUFFICES ASSUME NEW to \in Int PROVE Opens(OnePiece(e, 1, to, v, FALSE))
    OBVIOUS
  <2>1. IsSeq(Piece(e.data, 1, to))
    BY PieceIsSeq
  <2>2. IsEntry([mode |-> e.mode, data |-> Piece(e.data, 1, to)])
    BY <1>1, <2>1 DEF IsEntry
  <2>3. QED
    BY <1>1, <2>2, EncodeOpens DEF OnePiece
<1>6. 1 \in 1..N
  BY <1>2
<1>7. F[1] = IF words = 0 \/ Len(e.data) - 1 + 1 <= words
             THEN OnePiece(e, 1, Len(e.data), v, FALSE)
             ELSE OnePiece(e, 1, 1 + words - 1, v, FALSE) \o F[1 + words]
  BY <1>4, <1>6 DEF InPieces
<1>8. CASE words = 0 \/ Len(e.data) - 1 + 1 <= words
  <2>1. Len(e.data) \in Int
    BY <1>2
  <2>2. F[1] = OnePiece(e, 1, Len(e.data), v, FALSE)
    BY <1>7, <1>8, Zenon
  <2>3. QED
    BY <1>4, <1>5, <2>1, <2>2
<1>9. CASE ~(words = 0 \/ Len(e.data) - 1 + 1 <= words)
  <2>1. 1 + words \in 1..N /\ 1 + words - 1 \in Int
    BY <1>2, <1>3, <1>9
  <2>2. IsSeq(F[1 + words])
    BY <1>4, <2>1 DEF InPieces
  <2>3. Opens(OnePiece(e, 1, 1 + words - 1, v, FALSE))
    BY <1>5, <2>1
  <2>4. F[1] = OnePiece(e, 1, 1 + words - 1, v, FALSE) \o F[1 + words]
    BY <1>7, <1>9
  <2>5. QED
    BY <1>4, <2>2, <2>3, <2>4, OpensMore
<1>10. QED
  BY <1>8, <1>9

\* The stream of part i of n begins with their header and the parity p; four
\* more bits are there if any are.
Lead(s, n, i, p) ==
  /\ IsSeq(s) /\ Len(s) >= 20
  /\ \A k \in 1..4 : s[k]      = BitOf(3, 4 - k)
  /\ \A k \in 1..4 : s[4 + k]  = BitOf(i - 1, 4 - k)
  /\ \A k \in 1..4 : s[8 + k]  = BitOf(n - 1, 4 - k)
  /\ \A k \in 1..8 : s[12 + k] = BitOf(p, 8 - k)
  /\ Len(s) # 20 => Len(s) >= 24 /\ \A k \in 21..24 : s[k] \in {0, 1}

PartHeader(n, i, p) == [mode |-> "structure", data |-> <<n, i, p>>]

\* The header of structured append is encoded as the standard lays it out.
LEMMA HeaderLeads ==
  ASSUME NEW n \in Int, NEW i \in Int, NEW p \in Int, NEW v \in {0} \union Versions
  PROVE  Lead(EncodeBitStream(PartHeader(n, i, p), v, FALSE), n, i, p)
<1> DEFINE e == PartHeader(n, i, p)
           d == <<n, i, p>>
           q == Piece(d, 1, 3)
           w == [mode |-> "structure", data |-> q]
           a == Bits(4, 3)
           b == Bits(4, i - 1)
           c == Bits(4, n - 1)
           t == Bits(8, p)
<1>1. IsSeq(d) /\ Len(d) = 3
  BY ThreeIsSeq
<1>2. IsEntry(e) /\ IsVersion(v, FALSE) /\ FALSE \in BOOLEAN
  BY <1>1 DEF IsEntry, IsVersion, PartHeader
<1>3. PICK F : F[1] = EncodeBitStream(e, v, FALSE) /\ InPieces(F, e, v, FALSE)
  BY <1>2, EncodedInPieces
<1>4. MaximumWords("structure", v) = 0
  BY DEF MaximumWords, Splittable
<1>5. e.mode = "structure" /\ e.data = d
  BY DEF PartHeader
<1>6. 1 \in 1..(Len(e.data) + 1)
  BY <1>1, <1>5
<1>7. F[1] = OnePiece(e, 1, 3, v, FALSE)
  BY <1>1, <1>3, <1>4, <1>5, <1>6 DEF InPieces
<1>8. OnePiece(e, 1, 3, v, FALSE) = Encode(w, v, FALSE)
  BY <1>5 DEF OnePiece
<1>9. q[1] = n /\ q[2] = i /\ q[3] = p
  BY DEF Piece
<1>10. Encode(w, v, FALSE) = a \o b \o c \o t
  BY <1>9 DEF Encode, modeId
<1>b. /\ 3 \in Int /\ i - 1 \in Int /\ n - 1 \in Int /\ p \in Int
      /\ 4 \in Nat /\ 8 \in Nat
  OBVIOUS
<1>11. /\ IsSeq(a) /\ Len(a) = 4 /\ \A k \in 1..4 : a[k] = BitOf(3, 4 - k)
  BY <1>b, BitsAt, Zenon
<1>12. /\ IsSeq(b) /\ Len(b) = 4 /\ \A k \in 1..4 : b[k] = BitOf(i - 1, 4 - k)
  BY <1>b, BitsAt, Zenon
<1>13. /\ IsSeq(c) /\ Len(c) = 4 /\ \A k \in 1..4 : c[k] = BitOf(n - 1, 4 - k)
  BY <1>b, BitsAt, Zenon
<1>14. /\ IsSeq(t) /\ Len(t) = 8 /\ \A k \in 1..8 : t[k] = BitOf(p, 8 - k)
  BY <1>b, BitsAt, Zenon
<1> HIDE DEF a, b, c, t, e, w, q, d
<1> DEFINE ab  == a \o b
           abc == ab \o c
           s   == abc \o t
<1>j. \A x, y : IsSeq(x) /\ IsSeq(y) =>
        /\ \A k \in 1..Len(x) : (x \o y)[k] = x[k]
        /\ \A k \in 1..Len(y) : (x \o y)[Len(x) + k] = y[k]
  BY JoinedAt
<1>15. /\ IsSeq(ab) /\ Len(ab) = 8
       /\ \A k \in 1..4 : ab[k] = a[k] /\ ab[4 + k] = b[k]
  <2>1. IsSeq(ab) /\ Len(ab) = Len(a) + Len(b)
    BY <1>11, <1>12, Joined
  <2>a. IsSeq(a) /\ IsSeq(b)
    BY <1>11, <1>12
  <2>2. /\ \A k \in 1..Len(a) : ab[k] = a[k]
        /\ \A k \in 1..Len(b) : ab[Len(a) + k] = b[k]
    BY ONLY <1>j, <2>a
  <2> HIDE DEF ab
  <2>3. QED
    BY <1>11, <1>12, <2>1, <2>2
<1> HIDE DEF ab
<1>16. /\ IsSeq(abc) /\ Len(abc) = 12
       /\ \A k \in 1..8 : abc[k] = ab[k]
       /\ \A k \in 1..4 : abc[8 + k] = c[k]
  <2>1. IsSeq(abc) /\ Len(abc) = Len(ab) + Len(c)
    BY <1>13, <1>15, Joined
  <2>a. IsSeq(ab) /\ IsSeq(c)
    BY <1>13, <1>15
  <2>2. /\ \A k \in 1..Len(ab) : abc[k] = ab[k]
        /\ \A k \in 1..Len(c) : abc[Len(ab) + k] = c[k]
    BY ONLY <1>j, <2>a
  <2> HIDE DEF abc
  <2>3. QED
    BY <1>13, <1>15, <2>1, <2>2
<1> HIDE DEF abc
<1>17. /\ IsSeq(s) /\ Len(s) = 20
       /\ \A k \in 1..12 : s[k] = abc[k]
       /\ \A k \in 1..8 : s[12 + k] = t[k]
  <2>1. IsSeq(s) /\ Len(s) = Len(abc) + Len(t)
    BY <1>14, <1>16, Joined
  <2>a. IsSeq(abc) /\ IsSeq(t)
    BY <1>14, <1>16
  <2>2. /\ \A k \in 1..Len(abc) : s[k] = abc[k]
        /\ \A k \in 1..Len(t) : s[Len(abc) + k] = t[k]
    BY ONLY <1>j, <2>a
  <2> HIDE DEF s
  <2>3. QED
    BY <1>14, <1>16, <2>1, <2>2
<1> HIDE DEF s
<1>18. \A k \in 1..4 : /\ k \in 1..8 /\ 4 + k \in 1..8 /\ k \in 1..12
                       /\ 4 + k \in 1..12 /\ 8 + k \in 1..12
  OBVIOUS
<1>19. \A k \in 1..4 : s[k] = a[k] /\ s[4 + k] = b[k] /\ s[8 + k] = c[k]
  BY <1>15, <1>16, <1>17, <1>18
<1>20. Lead(s, n, i, p)
  BY <1>11, <1>12, <1>13, <1>14, <1>17, <1>19 DEF Lead
<1>21. EncodeBitStream(e, v, FALSE) = s
  BY <1>3, <1>7, <1>8, <1>10 DEF s, abc, ab
<1>22. QED
  BY <1>20, <1>21 DEF e

\* What is encoded behind does not change it.
LEMMA LeadMore ==
  ASSUME NEW s, NEW t, NEW n, NEW i, NEW p, Lead(s, n, i, p), IsSeq(t),
         Opens(t) \/ Len(s) # 20
  PROVE  Lead(s \o t, n, i, p)
<1> DEFINE u == s \o t
           L == Len(s)
<1>1. IsSeq(s) /\ L \in Nat /\ Len(t) \in Nat /\ L >= 20
  <2>1. IsSeq(s) /\ L >= 20
    BY DEF Lead
  <2>2. QED
    BY <2>1 DEF IsSeq
<1>2. IsSeq(u) /\ Len(u) = L + Len(t)
  BY <1>1, Joined
<1>3. (\A k \in 1..L : u[k] = s[k]) /\ (\A k \in 1..Len(t) : u[L + k] = t[k])
  BY <1>1, JoinedAt
<1> HIDE DEF u, L
<1>4. /\ \A k \in 1..4 : k \in 1..L /\ 4 + k \in 1..L /\ 8 + k \in 1..L
      /\ \A k \in 1..8 : 12 + k \in 1..L
  BY <1>1
<1>5. /\ \A k \in 1..4 : u[k] = s[k] /\ u[4 + k] = s[4 + k] /\ u[8 + k] = s[8 + k]
      /\ \A k \in 1..8 : u[12 + k] = s[12 + k]
  BY <1>3, <1>4
<1>6. Len(u) # 20 => Len(u) >= 24 /\ \A k \in 21..24 : u[k] \in {0, 1}
  <2>1. CASE L = 20
    <3>1. Len(t) >= 4 /\ \A k \in 1..4 : t[k] \in {0, 1}
      BY <2>1 DEF Opens, L
    <3>2. \A k \in 21..24 : k - 20 \in 1..4 /\ k - 20 \in 1..Len(t) /\ k = L + (k - 20)
      BY <1>1, <2>1, <3>1
    <3>3. \A k \in 21..24 : u[k] = t[k - 20]
      BY <1>3, <3>2
    <3>4. QED
      BY <1>1, <1>2, <2>1, <3>1, <3>2, <3>3
  <2>2. CASE L # 20
    <3>1. L >= 24 /\ \A k \in 21..24 : s[k] \in {0, 1}
      BY <2>2 DEF Lead, L
    <3>2. \A k \in 21..24 : k \in 1..L
      BY <1>1, <3>1
    <3>3. QED
      BY <1>1, <1>2, <1>3, <3>1, <3>2
  <2>3. QED
    BY <2>1, <2>2
<1>7. Lead(u, n, i, p)
  <2>1. Len(u) >= 20
    BY <1>1, <1>2
  <2>2. /\ \A k \in 1..4 : u[k] = BitOf(3, 4 - k) /\ u[4 + k] = BitOf(i - 1, 4 - k)
                           /\ u[8 + k] = BitOf(n - 1, 4 - k)
        /\ \A k \in 1..8 : u[12 + k] = BitOf(p, 8 - k)
    BY <1>5 DEF Lead
  <2>3. QED
    BY <1>2, <1>6, <2>1, <2>2 DEF Lead
<1>8. QED
  BY <1>7 DEF u

\* Every symbol holds nine codewords of data or more.
LEMMA DataLengthIsNine ==
  ASSUME NEW v \in Versions, NEW level \in Levels
  PROVE  DataLength(v, level) \in Int /\ DataLength(v, level) >= 9
<1> DEFINE l == LevelIndex(level)
           w == capacityWords[v]
           x == capacityEcc[v][l]
<1>1. l \in 1..4
  BY DEF LevelIndex, Levels
<1>2. DataLength(v, level) = w - x
  BY DEF DataLength, ECCLength
<1> HIDE DEF l
<1>3. CASE v \in 1..9
  <2>1. w \in Int /\ x \in Int /\ w - x >= 9
    BY <1>1, <1>3 DEF capacityWords, capacityEcc
  <2>2. QED
    BY <1>2, <2>1
<1>4. CASE v \in 10..26
  <2>1. w \in Int /\ x \in Int /\ w - x >= 9
    BY <1>1, <1>4 DEF capacityWords, capacityEcc
  <2>2. QED
    BY <1>2, <2>1
<1>5. CASE v \in 27..40
  <2>1. w \in Int /\ x \in Int /\ w - x >= 9
    BY <1>1, <1>5 DEF capacityWords, capacityEcc
  <2>2. QED
    BY <1>2, <2>1
<1>6. QED
  BY <1>3, <1>4, <1>5 DEF Versions, VersionMax

\* The padding behind a header alone starts with the terminator.
LEMMA PaddingOpens ==
  ASSUME NEW v \in Versions, NEW level \in Levels PROVE Opens(Padding(20, v, level))
<1> DEFINE m == DataLength(v, level)
           a == Bits(4, 0)
           b == PadBytes(m - 3)
<1>1. m \in Int /\ m >= 9
  BY DataLengthIsNine
<1> HIDE DEF m
<1>2. ~(8 * m - 20 <= 4) /\ (20 + 4 + 7) \div 8 = 3 /\ 8 * 3 - 20 = 4 /\ m - 3 \in Nat
  BY <1>1
<1>3. Padding(20, v, level) = a \o b
  BY <1>2 DEF Padding, m
<1>4. Opens(a)
  BY FourOpen
<1>5. IsSeq(b)
  BY <1>2, PadBytesLength
<1> HIDE DEF a, b
<1>6. QED
  BY <1>3, <1>4, <1>5, OpensMore

\* The exclusive or of bytes, as a number of eight bits.
IsParity(p) == \E x : (\A k \in 1..8 : x[k] \in {0, 1}) /\ p = Number(x, 8)

\* What a reader finds at the start of the bytes of a symbol.
Tells(s, n, i, p) ==
  LET t == Bytes(s)
  IN  /\ Value(t, 1, 4) = 3
      /\ Value(t, 5, 4) = i - 1 /\ Value(t, 9, 4) = n - 1
      /\ Value(t, 13, 8) = p

\* The smaller of eight and a number that is not below it.
LEMMA MinEight == ASSUME NEW m \in Int, m >= 8 PROVE Min({8, m}) = 8
<1>1. \A x \in {8, m} : 8 <= x
  OBVIOUS
<1>2. \A x \in {8, m} : (\A y \in {8, m} : x <= y) => x = 8
  OBVIOUS
<1>3. Min({8, m}) = CHOOSE x \in {8, m} : \A y \in {8, m} : x <= y
  BY DEF Min
<1>4. QED
  BY <1>1, <1>2, <1>3

\* BitStream_toByte, and a reader of the bytes: the bits are the same.
LEMMA ByteRead ==
  ASSUME NEW s, IsSeq(s), NEW d \in Nat, Len(s) = 8 * d, NEW j \in 1..d,
         \A k \in 1..8 : s[8 * (j - 1) + k] \in {0, 1}
  PROVE  \A k \in 1..8 : Bytes(ToByte(s))[8 * (j - 1) + k] = s[8 * (j - 1) + k]
<1> DEFINE f == ToByte(s)
           b == [k \in 1..8 |-> s[8 * (j - 1) + k]]
<1>1. (8 * d + 7) \div 8 = d /\ 8 * d - 8 * (j - 1) >= 8 /\ 8 * d - 8 * (j - 1) \in Int
  OBVIOUS
<1>2. Min({8, 8 * d - 8 * (j - 1)}) = 8
  BY <1>1, MinEight
<1>3. f[j] = Number(b, 8) /\ Len(f) = d
  <2>1. f[j] = LET n == Min({8, Len(s) - 8 * (j - 1)})
               IN  Number([k \in 1..n |-> s[8 * (j - 1) + k]], n)
    BY <1>1 DEF ToByte
  <2>2. Len(f) = d
    BY <1>1, ToByteLength
  <2>3. QED
    BY <1>2, <2>1, <2>2
<1>4. \A k \in 1..8 : b[k] \in {0, 1}
  OBVIOUS
<1>5. \A k \in 1..8 : BitOf(f[j], 8 - k) = b[k]
  <2> HIDE DEF b, f
  <2>1. \A k \in 1..8 : (Number(b, 8) \div 2 ^ (8 - k)) % 2 = b[k]
    BY <1>4, ByteBits
  <2>2. QED
    BY <1>3, <2>1 DEF BitOf
<1> HIDE DEF f
<1>6. ASSUME NEW k \in 1..8 PROVE Bytes(f)[8 * (j - 1) + k] = s[8 * (j - 1) + k]
  <2> DEFINE q == 8 * (j - 1) + k
  <2>1. /\ q \in 1..(d * 8) /\ (q - 1) \div 8 + 1 = j
        /\ 8 - 1 - ((q - 1) % 8) = 8 - k
    OBVIOUS
  <2> HIDE DEF q
  <2>2. Bytes(f)[q] = BitOf(f[(q - 1) \div 8 + 1], 8 - 1 - ((q - 1) % 8))
    BY <1>3, <2>1 DEF Bytes, Numbers, BitOf
  <2>3. Bytes(f)[q] = b[k]
    BY <1>5, <2>1, <2>2
  <2>4. QED
    BY <2>3 DEF q
<1>7. QED
  BY <1>6 DEF f

\* The first three bytes of a symbol say which part of how many it is.
LEMMA StreamTells ==
  ASSUME NEW s, NEW d \in Nat, Len(s) = 8 * d, NEW n \in 1..16, NEW i \in 1..16,
         NEW p, IsParity(p), Lead(s, n, i, p)
  PROVE  Tells(ToByte(s), n, i, p)
<1> DEFINE t == Bytes(ToByte(s))
<1>1. IsSeq(s) /\ Len(s) >= 20
  BY DEF Lead
<1>2. d >= 3 /\ Len(s) # 20
  BY <1>1
<1>3. \A k \in 21..24 : s[k] \in {0, 1}
  BY <1>2 DEF Lead
<1>4. PICK x : (\A k \in 1..8 : x[k] \in {0, 1}) /\ p = Number(x, 8)
  BY DEF IsParity
<1>5. \A k \in 1..8 : BitOf(p, 8 - k) = x[k]
  BY <1>4, ByteBits DEF BitOf
<1>6. \A k \in 1..8 : s[12 + k] = x[k] /\ s[12 + k] \in {0, 1}
  BY <1>4, <1>5 DEF Lead
<1>7. /\ \A k \in 1..4 : s[k] = BitOf(3, 4 - k)
      /\ \A k \in 1..4 : s[4 + k] = BitOf(i - 1, 4 - k)
      /\ \A k \in 1..4 : s[8 + k] = BitOf(n - 1, 4 - k)
  BY DEF Lead
<1>8. \A m \in 0..15 : \A b : (\A k \in 1..4 : b[k] = BitOf(m, 4 - k)) =>
        (\A k \in 1..4 : b[k] \in {0, 1}) /\ Number(b, 4) = m
  BY FourOf DEF BitOf
<1>9. \A m \in 0..15 : \A k \in 1..4 : BitOf(m, 4 - k) \in {0, 1}
  <2> SUFFICES ASSUME NEW m \in 0..15 PROVE \A k \in 1..4 : BitOf(m, 4 - k) \in {0, 1}
    OBVIOUS
  <2> DEFINE b == [k \in 1..4 |-> BitOf(m, 4 - k)]
  <2>1. \A k \in 1..4 : b[k] = BitOf(m, 4 - k)
    OBVIOUS
  <2> HIDE DEF b
  <2>2. QED
    BY <1>8, <2>1
<1>10. 3 \in 0..15 /\ i - 1 \in 0..15 /\ n - 1 \in 0..15
  OBVIOUS
<1>11. \A k \in 1..24 : s[k] \in {0, 1}
  <2>1. \A k \in 1..4 : s[k] \in {0, 1} /\ s[4 + k] \in {0, 1} /\ s[8 + k] \in {0, 1}
    BY <1>7, <1>9, <1>10
  <2>2. ASSUME NEW k \in 1..24 PROVE s[k] \in {0, 1}
    <3>1. \/ k \in 1..4
          \/ k - 4 \in 1..4 /\ 4 + (k - 4) = k
          \/ k - 8 \in 1..4 /\ 8 + (k - 8) = k
          \/ k - 12 \in 1..8 /\ 12 + (k - 12) = k
          \/ k \in 21..24
      OBVIOUS
    <3>2. QED
      BY <1>3, <1>6, <2>1, <3>1
  <2>3. QED
    BY <2>2
<1>12. \A j \in 1..3 : \A k \in 1..8 : t[8 * (j - 1) + k] = s[8 * (j - 1) + k]
  <2> SUFFICES ASSUME NEW j \in 1..3
               PROVE  \A k \in 1..8 : t[8 * (j - 1) + k] = s[8 * (j - 1) + k]
    OBVIOUS
  <2>1. j \in 1..d
    BY <1>2
  <2>2. \A k \in 1..8 : 8 * (j - 1) + k \in 1..24
    OBVIOUS
  <2>3. \A k \in 1..8 : s[8 * (j - 1) + k] \in {0, 1}
    BY <1>11, <2>2
  <2>4. QED
    BY <1>1, <2>1, <2>3, ByteRead
<1>13. IsSeq(ToByte(s)) /\ Len(t) >= 24
  <2>1. Len(ToByte(s)) = (Len(s) + 7) \div 8
    BY <1>1, ToByteLength
  <2>2. (8 * d + 7) \div 8 = d
    OBVIOUS
  <2> DEFINE f == ToByte(s)
  <2>3. f = [k \in 1..d |-> f[k]]
    BY <2>2 DEF ToByte
  <2> HIDE DEF f
  <2>4. IsSeq(f) /\ Len(f) = d
    BY <2>3, FunctionIsSeq
  <2>5. Len(Bytes(f)) = d * 8
    BY <2>4, BytesLength
  <2>6. QED
    BY <1>2, <2>4, <2>5 DEF f
<1> HIDE DEF t
<1>14. \A k \in 1..24 : Bit(t, k) = s[k]
  <2> SUFFICES ASSUME NEW k \in 1..24 PROVE Bit(t, k) = s[k]
    OBVIOUS
  <2>1. Bit(t, k) = t[k]
    BY <1>13 DEF Bit
  <2>2. \/ k = 8 * (1 - 1) + k /\ k \in 1..8
        \/ k = 8 * (2 - 1) + (k - 8) /\ k - 8 \in 1..8
        \/ k = 8 * (3 - 1) + (k - 16) /\ k - 16 \in 1..8
    OBVIOUS
  <2>3. 1 \in 1..3 /\ 2 \in 1..3 /\ 3 \in 1..3
    OBVIOUS
  <2>4. QED
    BY <1>12, <2>1, <2>2, <2>3
<1>15. Value(t, 1, 4) = 3
  <2> DEFINE b == [k \in 1..4 |-> Bit(t, 1 + k - 1)]
  <2>1. \A k \in 1..4 : b[k] = BitOf(3, 4 - k)
    <3>1. \A k \in 1..4 : 1 + k - 1 = k /\ k \in 1..24
      OBVIOUS
    <3>2. QED
      BY <1>7, <1>14, <3>1
  <2>2. Value(t, 1, 4) = Number(b, 4)
    BY DEF Value
  <2> HIDE DEF b
  <2>3. QED
    BY <1>8, <1>10, <2>1, <2>2
<1>16. Value(t, 5, 4) = i - 1
  <2> DEFINE b == [k \in 1..4 |-> Bit(t, 5 + k - 1)]
  <2>1. \A k \in 1..4 : b[k] = BitOf(i - 1, 4 - k)
    <3>1. \A k \in 1..4 : 5 + k - 1 = 4 + k /\ 4 + k \in 1..24
      OBVIOUS
    <3>2. QED
      BY <1>7, <1>14, <3>1
  <2>2. Value(t, 5, 4) = Number(b, 4)
    BY DEF Value
  <2> HIDE DEF b
  <2>3. QED
    BY <1>8, <1>10, <2>1, <2>2
<1>17. Value(t, 9, 4) = n - 1
  <2> DEFINE b == [k \in 1..4 |-> Bit(t, 9 + k - 1)]
  <2>1. \A k \in 1..4 : b[k] = BitOf(n - 1, 4 - k)
    <3>1. \A k \in 1..4 : 9 + k - 1 = 8 + k /\ 8 + k \in 1..24
      OBVIOUS
    <3>2. QED
      BY <1>7, <1>14, <3>1
  <2>2. Value(t, 9, 4) = Number(b, 4)
    BY DEF Value
  <2> HIDE DEF b
  <2>3. QED
    BY <1>8, <1>10, <2>1, <2>2
<1>18. Value(t, 13, 8) = p
  <2> DEFINE b == [k \in 1..8 |-> Bit(t, 13 + k - 1)]
  <2>1. \A k \in 1..8 : b[k] = x[k]
    <3>1. \A k \in 1..8 : 13 + k - 1 = 12 + k /\ 12 + k \in 1..24
      OBVIOUS
    <3>2. QED
      BY <1>6, <1>14, <3>1
  <2>2. Value(t, 13, 8) = Number(b, 8)
    BY DEF Value
  <2> HIDE DEF b
  <2>3. \A k \in 1..8 : b[k] \in {0, 1}
    BY <1>4, <2>1
  <2>4. Number(b, 8) = Number(x, 8)
    <3>1. /\ b[1] = x[1] /\ b[2] = x[2] /\ b[3] = x[3] /\ b[4] = x[4]
          /\ b[5] = x[5] /\ b[6] = x[6] /\ b[7] = x[7] /\ b[8] = x[8]
      BY <2>1
    <3>2. QED
      BY <1>4, <2>3, <3>1, EightBits
  <2>5. QED
    BY <1>4, <2>2, <2>4
<1>19. QED
  BY <1>15, <1>16, <1>17, <1>18 DEF Tells, t

-----------------------------------------------------------------------------
(* The parity of a message cut into entries.                               *)

\* A sum is the sum of the first numbers and of those left.
LEMMA SumOfParts ==
  ASSUME NEW n \in Nat, NEW m \in 0..n, NEW f, Numbered(n, f), NEW g, Numbered(m, g),
         NEW h, Numbered(n - m, h),
         \A i \in 1..m : g[i] = f[i], \A i \in 1..(n - m) : h[i] = f[m + i]
  PROVE  SumOf(f) = SumOf(g) + SumOf(h)
<1>1. PICK s : Sums(n, f, s) /\ SumOf(f) = s[n]
  BY SumsExist
<1>2. PICK t : Sums(m, g, t) /\ SumOf(g) = t[m]
  BY SumsExist
<1>3. PICK u : Sums(n - m, h, u) /\ SumOf(h) = u[n - m]
  <2>1. n - m \in Nat
    OBVIOUS
  <2>2. QED
    BY <2>1, SumsExist
<1> DEFINE T == {i \in 0..m : s[i] = t[i]}
<1>4. 0 \in T
  BY <1>1, <1>2 DEF Sums
<1>5. ASSUME NEW i \in 1..m, i - 1 \in T PROVE i \in T
  <2>1. i \in 1..n
    OBVIOUS
  <2>2. s[i] = s[i - 1] + f[i] /\ t[i] = t[i - 1] + g[i] /\ g[i] = f[i]
    BY <1>1, <1>2, <2>1 DEF Sums
  <2>3. QED
    BY <1>5, <2>2
<1>6. m \in T
  <2> HIDE DEF T
  <2>1. \A i \in 0..m : i \in T
    BY <1>4, <1>5, FromZero
  <2>2. QED
    BY <2>1
<1> DEFINE U == {i \in 0..(n - m) : s[m + i] = s[m] + u[i]}
<1>7. 0 \in U
  BY <1>1, <1>3 DEF Sums
<1>8. ASSUME NEW i \in 1..(n - m), i - 1 \in U PROVE i \in U
  <2>1. m + i \in 1..n /\ m + i - 1 = m + (i - 1) /\ i - 1 \in 0..(n - m) /\ m \in 0..n
    OBVIOUS
  <2>2. s[m + i] = s[m + (i - 1)] + f[m + i]
    BY <1>1, <2>1 DEF Sums
  <2>3. u[i] = u[i - 1] + h[i] /\ h[i] = f[m + i] /\ u[i - 1] \in Nat /\ s[m] \in Nat
    BY <1>1, <1>3, <2>1 DEF Sums
  <2>4. h[i] \in Nat
    BY DEF Numbered
  <2>5. s[m + (i - 1)] = s[m] + u[i - 1]
    BY <1>8
  <2>6. QED
    BY <2>2, <2>3, <2>4, <2>5
<1>9. n - m \in U
  <2> HIDE DEF U
  <2>1. \A i \in 0..(n - m) : i \in U
    <3>1. n - m \in Nat
      OBVIOUS
    <3>2. QED
      BY <1>7, <1>8, <3>1, FromZero
  <2>2. QED
    BY <2>1
<1>10. m + (n - m) = n
  OBVIOUS
<1>11. QED
  BY <1>1, <1>2, <1>3, <1>6, <1>9, <1>10

\* Data that is a sequence of numbers.
IsData(d) == IsSeq(d) /\ \A i \in 1..Len(d) : d[i] \in Nat

\* Bit k of each of the numbers.
BitsAll(d, k) == [i \in 1..Len(d) |-> BitOf(d[i], k)]

\* The bit is 0 or 1.
LEMMA BitIs == ASSUME NEW m \in Int, NEW k \in 0..7 PROVE BitOf(m, k) \in {0, 1}
<1>1. \A p \in {1, 2, 4, 8, 16, 32, 64, 128} : (m \div p) % 2 \in {0, 1}
  OBVIOUS
<1>2. k = 0 \/ k = 1 \/ k = 2 \/ k = 3 \/ k = 4 \/ k = 5 \/ k = 6 \/ k = 7
  OBVIOUS
<1>3. 2 ^ k \in {1, 2, 4, 8, 16, 32, 64, 128}
  <2>1. /\ k = 0 => 2 ^ k = 2 ^ 0
        /\ k = 1 => 2 ^ k = 2 ^ 1
        /\ k = 2 => 2 ^ k = 2 ^ 2
        /\ k = 3 => 2 ^ k = 2 ^ 3
        /\ k = 4 => 2 ^ k = 2 ^ 4
        /\ k = 5 => 2 ^ k = 2 ^ 5
        /\ k = 6 => 2 ^ k = 2 ^ 6
        /\ k = 7 => 2 ^ k = 2 ^ 7
    BY Zenon
  <2> DEFINE p == 2 ^ k
  <2>2. p \in {2 ^ 0, 2 ^ 1, 2 ^ 2, 2 ^ 3, 2 ^ 4, 2 ^ 5, 2 ^ 6, 2 ^ 7}
    BY <1>2, <2>1
  <2> HIDE DEF p
  <2>3. p \in {1, 2, 4, 8, 16, 32, 64, 128}
    BY <2>2, Powers
  <2>4. QED
    BY <2>3 DEF p
<1>4. QED
  BY <1>1, <1>3 DEF BitOf

\* Ones counts them.
LEMMA OnesAre ==
  ASSUME NEW d, IsData(d), NEW k \in 0..7
  PROVE  /\ Numbered(Len(d), BitsAll(d, k)) /\ Ones(d, k) = SumOf(BitsAll(d, k))
         /\ Len(d) \in Nat /\ Ones(d, k) \in Nat
<1>1. Len(d) \in Nat /\ DOMAIN d = 1..Len(d)
  BY DEF IsData, IsSeq
<1>2. \A i \in 1..Len(d) : BitOf(d[i], k) \in Nat
  <2> SUFFICES ASSUME NEW i \in 1..Len(d) PROVE BitOf(d[i], k) \in Nat
    OBVIOUS
  <2>1. d[i] \in Int
    BY DEF IsData
  <2>2. BitOf(d[i], k) \in {0, 1}
    BY <2>1, BitIs
  <2>3. QED
    BY <2>2
<1>3. Numbered(Len(d), BitsAll(d, k))
  BY <1>2 DEF Numbered, BitsAll
<1>4. Ones(d, k) = SumOf(BitsAll(d, k))
  BY <1>1 DEF Ones, BitsAll, BitOf
<1>5. QED
  BY <1>1, <1>3, <1>4, SumBounds

\* The bits set in the two pieces of a string that is cut.
LEMMA OnesCut ==
  ASSUME NEW d, IsData(d), NEW m \in 0..Len(d), NEW k \in 0..7
  PROVE  /\ IsData(Piece(d, 1, m)) /\ IsData(Piece(d, m + 1, Len(d)))
         /\ Ones(d, k) = Ones(Piece(d, 1, m), k) + Ones(Piece(d, m + 1, Len(d)), k)
<1> DEFINE n == Len(d)
           a == Piece(d, 1, m)
           b == Piece(d, m + 1, n)
<1>1. n \in Nat
  BY DEF IsData, IsSeq
<1>2. IsSeq(a) /\ IsSeq(b) /\ Len(a) = m /\ Len(b) = n - m
  BY <1>1, PieceIsSeq
<1>3. (\A i \in 1..m : a[i] = d[i]) /\ (\A i \in 1..(n - m) : b[i] = d[m + i])
  BY <1>1 DEF Piece
<1> HIDE DEF a, b, n
<1>4. (\A i \in 1..m : i \in 1..n) /\ (\A i \in 1..(n - m) : m + i \in 1..n) /\ m \in 0..n
  BY <1>1 DEF n
<1>5. \A i \in 1..n : d[i] \in Nat
  BY DEF IsData, n
<1>6. IsData(a) /\ IsData(b)
  BY <1>2, <1>3, <1>4, <1>5 DEF IsData
<1>7. /\ Numbered(n, BitsAll(d, k)) /\ Ones(d, k) = SumOf(BitsAll(d, k))
      /\ Numbered(m, BitsAll(a, k)) /\ Ones(a, k) = SumOf(BitsAll(a, k))
      /\ Numbered(n - m, BitsAll(b, k)) /\ Ones(b, k) = SumOf(BitsAll(b, k))
  BY <1>2, <1>6, OnesAre DEF n
<1>8. /\ \A i \in 1..m : BitsAll(a, k)[i] = BitsAll(d, k)[i]
      /\ \A i \in 1..(n - m) : BitsAll(b, k)[i] = BitsAll(d, k)[m + i]
  BY <1>2, <1>3, <1>4 DEF BitsAll, n
<1>9. SumOf(BitsAll(d, k)) = SumOf(BitsAll(a, k)) + SumOf(BitsAll(b, k))
  BY <1>1, <1>4, <1>7, <1>8, SumOfParts
<1>10. QED
  BY <1>6, <1>7, <1>9 DEF a, b, n

\* The bits set in all the data of a list.
TotalOnes(list, k) == SumOf([e \in DOMAIN list |-> Ones(list[e].data, k)])

HasData(list) == IsSeq(list) /\ \A e \in 1..Len(list) : IsData(list[e].data)

\* The total is a sum of numbers, one for each entry.
LEMMA TotalIs ==
  ASSUME NEW list, HasData(list), NEW k \in 0..7
  PROVE  \E f : /\ Numbered(Len(list), f) /\ TotalOnes(list, k) = SumOf(f)
                /\ \A e \in 1..Len(list) : f[e] = Ones(list[e].data, k)
<1> DEFINE f == [e \in 1..Len(list) |-> Ones(list[e].data, k)]
<1>1. Len(list) \in Nat /\ DOMAIN list = 1..Len(list)
  BY DEF HasData, IsSeq
<1>2. TotalOnes(list, k) = SumOf(f)
  BY <1>1 DEF TotalOnes
<1>3. \A e \in 1..Len(list) : Ones(list[e].data, k) \in Nat
  BY OnesAre DEF HasData
<1>4. Numbered(Len(list), f)
  BY <1>3 DEF Numbered
<1>5. \A e \in 1..Len(list) : f[e] = Ones(list[e].data, k)
  OBVIOUS
<1> HIDE DEF f
<1>6. QED
  BY <1>2, <1>4, <1>5

\* So it is a number.
LEMMA TotalIsNat ==
  ASSUME NEW list, HasData(list), NEW k \in 0..7 PROVE TotalOnes(list, k) \in Nat
<1>1. Len(list) \in Nat
  BY DEF HasData, IsSeq
<1>2. QED
  BY <1>1, TotalIs, SumBounds

\* An entry more.
LEMMA TotalMore ==
  ASSUME NEW list, HasData(list), NEW e, IsData(e.data), NEW k \in 0..7
  PROVE  /\ HasData(Append(list, e))
         /\ TotalOnes(Append(list, e), k) = TotalOnes(list, k) + Ones(e.data, k)
<1> DEFINE l == Append(list, e)
           n == Len(list)
<1>1. /\ IsSeq(l) /\ n \in Nat /\ Len(l) = n + 1
      /\ \A i \in 1..n : l[i] = list[i]
      /\ l[n + 1] = e
  BY Appended DEF HasData
<1> HIDE DEF l
<1>2. \A i \in 1..(n + 1) : i \in 1..n \/ i = n + 1
  BY <1>1
<1>3. \A i \in 1..n : IsData(list[i].data)
  BY DEF HasData
<1>4. HasData(l)
  <2>1. \A i \in 1..(n + 1) : IsData(l[i].data)
    BY <1>1, <1>2, <1>3
  <2>2. QED
    BY <1>1, <2>1 DEF HasData
<1>5. PICK f : /\ Numbered(n, f) /\ TotalOnes(list, k) = SumOf(f)
               /\ \A i \in 1..n : f[i] = Ones(list[i].data, k)
  BY TotalIs
<1>6. PICK g : /\ Numbered(n + 1, g) /\ TotalOnes(l, k) = SumOf(g)
               /\ \A i \in 1..(n + 1) : g[i] = Ones(l[i].data, k)
  <2>1. \E g : /\ Numbered(Len(l), g) /\ TotalOnes(l, k) = SumOf(g)
               /\ \A i \in 1..Len(l) : g[i] = Ones(l[i].data, k)
    BY <1>4, TotalIs
  <2>2. QED
    BY <1>1, <2>1
<1>7. n + 1 \in 1..(n + 1) /\ \A i \in 1..n : i \in 1..(n + 1)
  BY <1>1
<1>8. g[n + 1] = Ones(e.data, k) /\ \A i \in 1..n : f[i] = g[i]
  BY <1>1, <1>5, <1>6, <1>7
<1> HIDE DEF n
<1>9. SumOf(g) = SumOf(f) + g[n + 1]
  BY <1>1, <1>5, <1>6, <1>8, SumOfMore
<1>10. QED
  BY <1>4, <1>5, <1>6, <1>8, <1>9 DEF l

\* No entries have no bits set, and neither has the empty string.
LEMMA TotalOfNone ==
  ASSUME NEW k \in 0..7
  PROVE  HasData(<< >>) /\ TotalOnes(<< >>, k) = 0 /\ IsData(<< >>) /\ Ones(<< >>, k) = 0
<1>1. IsSeq(<< >>) /\ Len(<< >>) = 0 /\ DOMAIN << >> = 1..0
  BY EmptyList
<1>2. HasData(<< >>) /\ IsData(<< >>)
  BY <1>1 DEF HasData, IsData
<1>3. TotalOnes(<< >>, k) = 0
  BY <1>1, <1>2, TotalIs, SumOfNone
<1>4. Ones(<< >>, k) = 0
  <2>1. Numbered(0, BitsAll(<< >>, k)) /\ Ones(<< >>, k) = SumOf(BitsAll(<< >>, k))
    BY <1>1, <1>2, OnesAre
  <2>2. QED
    BY <2>1, SumOfNone
<1>5. QED
  BY <1>2, <1>3, <1>4

\* QRinput_calcParity is the number whose bits are the parities of those sums.
LEMMA CalcParityIs ==
  ASSUME NEW list, HasData(list)
  PROVE  /\ CalcParity(list) = Number([k \in 1..8 |-> TotalOnes(list, 8 - k) % 2], 8)
         /\ IsParity(CalcParity(list))
<1> DEFINE x == [k \in 1..8 |-> TotalOnes(list, 8 - k) % 2]
<1>1. CalcParity(list) = Number(x, 8)
  BY DEF CalcParity, TotalOnes
<1>2. \A k \in 1..8 : x[k] \in {0, 1}
  <2> SUFFICES ASSUME NEW k \in 1..8 PROVE x[k] \in {0, 1}
    OBVIOUS
  <2>1. 8 - k \in 0..7
    OBVIOUS
  <2>2. TotalOnes(list, 8 - k) \in Nat
    BY <2>1, TotalIsNat
  <2>3. QED
    BY <2>2
<1> HIDE DEF x
<1>3. IsParity(CalcParity(list))
  BY <1>1, <1>2 DEF IsParity
<1>4. QED
  BY <1>1, <1>3 DEF x

\* However a message is cut, the parity of the entries is that of the message.
LEMMA ParityOfCuts ==
  ASSUME NEW list, HasData(list), NEW text, IsData(text),
         \A k \in 0..7 : TotalOnes(list, k) = Ones(text, k)
  PROVE  CalcParity(list) = CalcParity(<<[data |-> text]>>)
<1> DEFINE e == [data |-> text]
           one == Append(<< >>, e)
<1>1. one = <<e>> /\ e.data = text
  OBVIOUS
<1>2. HasData(one)
  <2>1. 0 \in 0..7
    OBVIOUS
  <2>2. HasData(<< >>) /\ IsData(e.data)
    BY <1>1, <2>1, TotalOfNone
  <2> HIDE DEF e
  <2>3. QED
    BY <2>1, <2>2, TotalMore
<1>3. ASSUME NEW k \in 0..7 PROVE TotalOnes(one, k) = Ones(text, k)
  <2>1. HasData(<< >>) /\ TotalOnes(<< >>, k) = 0 /\ IsData(e.data)
    BY <1>1, TotalOfNone
  <2>2. Ones(text, k) \in Nat
    BY OnesAre
  <2>3. e.data = text
    BY <1>1
  <2> HIDE DEF e
  <2>4. TotalOnes(Append(<< >>, e), k) = TotalOnes(<< >>, k) + Ones(e.data, k)
    BY <2>1, TotalMore
  <2>5. QED
    BY <2>1, <2>2, <2>3, <2>4
<1> HIDE DEF one, e
<1>4. ASSUME NEW k \in 1..8 PROVE TotalOnes(one, 8 - k) = TotalOnes(list, 8 - k)
  <2>1. 8 - k \in 0..7
    OBVIOUS
  <2>2. QED
    BY <1>3, <2>1
<1>5. [k \in 1..8 |-> TotalOnes(list, 8 - k) % 2] = [k \in 1..8 |-> TotalOnes(one, 8 - k) % 2]
  BY <1>4
<1>6. CalcParity(list) = CalcParity(one)
  BY <1>2, <1>5, CalcParityIs
<1>7. QED
  BY <1>1, <1>6 DEF e

-----------------------------------------------------------------------------
(* What is dealt to a symbol has room in it.                               *)

Within(list, v, n) == IsSimple(list) => NeededAll(list, v) <= n

\* More characters take more bits.
LEMMA CharBitsGrow ==
  ASSUME NEW mode \in Splittable, NEW a \in Nat, NEW b \in Nat, a <= b
  PROVE  CharBits(mode, a) <= CharBits(mode, b)
<1>1. /\ a % 3 \in {0, 1, 2} /\ a \div 3 \in Nat /\ a = 3 * (a \div 3) + (a % 3)
      /\ b % 3 \in {0, 1, 2} /\ b \div 3 \in Nat /\ b = 3 * (b \div 3) + (b % 3)
  OBVIOUS
<1>2. /\ a % 2 \in {0, 1} /\ a \div 2 \in Nat /\ a = 2 * (a \div 2) + (a % 2)
      /\ b % 2 \in {0, 1} /\ b \div 2 \in Nat /\ b = 2 * (b \div 2) + (b % 2)
  OBVIOUS
<1>3. CASE mode = "num"
  <2>1. \A n \in Nat : CharBits(mode, n) = 10 * (n \div 3) + <<0, 4, 7>>[(n % 3) + 1]
    BY <1>3 DEF CharBits
  <2> DEFINE x == a \div 3
             y == b \div 3
             p == a % 3
             q == b % 3
  <2>2. /\ CharBits(mode, a) = 10 * x + <<0, 4, 7>>[p + 1]
        /\ CharBits(mode, b) = 10 * y + <<0, 4, 7>>[q + 1]
    BY <2>1
  <2>3. p \in {0, 1, 2} /\ q \in {0, 1, 2} /\ x \in Nat /\ y \in Nat /\ 3 * x + p <= 3 * y + q
    BY <1>1
  <2> HIDE DEF x, y, p, q
  <2>4. x < y \/ (x = y /\ p <= q)
    BY <2>3
  <2>5. /\ <<0, 4, 7>>[p + 1] = IF p = 0 THEN 0 ELSE IF p = 1 THEN 4 ELSE 7
        /\ <<0, 4, 7>>[q + 1] = IF q = 0 THEN 0 ELSE IF q = 1 THEN 4 ELSE 7
    BY <2>3
  <2>6. QED
    BY <2>2, <2>3, <2>4, <2>5
<1>4. CASE mode = "an"
  <2>1. \A n \in Nat : CharBits(mode, n) = 11 * (n \div 2) + 6 * (n % 2)
    BY <1>4 DEF CharBits
  <2>2. /\ CharBits(mode, a) = 11 * (a \div 2) + 6 * (a % 2)
        /\ CharBits(mode, b) = 11 * (b \div 2) + 6 * (b % 2)
    BY <2>1
  <2>3. QED
    BY <1>2, <2>2
<1>5. CASE mode = "byte" \/ mode = "kanji"
  BY <1>5, CharBitsAre
<1>6. QED
  BY <1>3, <1>4, <1>5 DEF Splittable

\* QRinput_lengthOfCode: so many bytes, with a header, take no more than the
\* bits there are, and the length indicator counts them.
LEMMA CodeFits ==
  ASSUME NEW mode \in Splittable, NEW v \in Versions, NEW n \in Int,
         LengthOfCode(mode, v, n) # 0
  PROVE  LET c == LengthOfCode(mode, v, n) \div Unit(mode)
         IN  /\ c \in Nat \ {0} /\ c <= Most(mode, v)
             /\ Indicator(mode, v) + CharBits(mode, c) <= n
<1> DEFINE payload == n - MODE_INDICATOR_SIZE - LengthIndicator(mode, v)
           rem(k)  == payload - (payload \div k) * k
           size    == CASE payload < 0      -> 0
                        [] payload >= 0 /\ mode = "num" ->
                             (payload \div 10) * 3
                               + IF rem(10) >= 7 THEN 2 ELSE IF rem(10) >= 4 THEN 1 ELSE 0
                        [] payload >= 0 /\ mode = "an" ->
                             (payload \div 11) * 2 + IF rem(11) >= 6 THEN 1 ELSE 0
                        [] payload >= 0 /\ mode = "byte"  -> payload \div 8
                        [] payload >= 0 /\ mode = "kanji" -> (payload \div 13) * 2
                        [] OTHER -> 0
           maxsize == MaximumWords(mode, v)
           bytes   == LengthOfCode(mode, v, n)
           u == Unit(mode)
           m == Most(mode, v)
<1>1. v \in Int
  BY DEF Versions, VersionMax
<1>2. /\ m \in {255, 511, 1023, 2047, 4095, 8191, 16383, 65535} /\ maxsize = m * u
      /\ Indicator(mode, v) \in Nat
  BY <1>1, HeaderBitsAre
<1>3. u \in {1, 2} /\ (mode = "kanji" <=> u = 2)
  BY DEF Unit
<1>4. payload = n - Indicator(mode, v) /\ payload \in Int
  <2>1. LengthIndicator(mode, v) \in Int
    BY <1>1, IndicatorLengths
  <2>2. QED
    BY <2>1 DEF Indicator, MODE_INDICATOR_SIZE
<1>5. bytes = IF maxsize > 0 /\ size > maxsize THEN maxsize ELSE size
  BY DEF LengthOfCode
<1> HIDE DEF payload, maxsize, m, u, bytes
\* What the size is, by mode.
<1>6. ASSUME size # 0
      PROVE  /\ size \in Nat /\ size \div u \in Nat \ {0} /\ size = (size \div u) * u
             /\ CharBits(mode, size \div u) <= payload
  <2>1. payload >= 0
    BY <1>4, <1>6
  <2>2. CASE mode = "num"
    <3> DEFINE q == payload \div 10
               r == payload - q * 10
               k == IF r >= 7 THEN 2 ELSE IF r >= 4 THEN 1 ELSE 0
    <3>1. size = q * 3 + k
      BY <2>1, <2>2
    <3>2. q \in Nat /\ r \in 0..9 /\ payload = 10 * q + r
      <4>1. \A x \in Int : x >= 0 => /\ x \div 10 \in Nat /\ x - (x \div 10) * 10 \in 0..9
                                    /\ x = 10 * (x \div 10) + (x - (x \div 10) * 10)
        OBVIOUS
      <4>2. QED
        BY <1>4, <2>1, <4>1
    <3> HIDE DEF q, r, size
    <3>3. k \in 0..2 /\ size \in Nat /\ size \div 3 = q /\ size % 3 = k
      BY <3>1, <3>2
    <3>4. u = 1
      BY <1>3, <2>2
    <3>5. size \div u = size
      BY <3>3, <3>4
    <3>6. CharBits(mode, size) = 10 * q + <<0, 4, 7>>[k + 1]
      BY <2>2, <3>3 DEF CharBits
    <3>7. <<0, 4, 7>>[k + 1] <= r /\ <<0, 4, 7>>[k + 1] \in Int
      <4>1. CASE r >= 7
        <5>1. k = 2
          BY <3>2, <4>1
        <5>2. QED
          BY <3>2, <4>1, <5>1
      <4>2. CASE ~(r >= 7) /\ r >= 4
        <5>1. k = 1
          BY <3>2, <4>2
        <5>2. QED
          BY <3>2, <4>2, <5>1
      <4>3. CASE ~(r >= 7) /\ ~(r >= 4)
        <5>1. k = 0
          BY <3>2, <4>3
        <5>2. QED
          BY <3>2, <4>3, <5>1
      <4>4. QED
        BY <4>1, <4>2, <4>3
    <3> HIDE DEF k
    <3>8. size \div u \in Nat \ {0} /\ size = (size \div u) * u
      BY <1>6, <3>3, <3>4, <3>5
    <3>9. CharBits(mode, size \div u) <= payload
      BY <3>2, <3>5, <3>6, <3>7
    <3>10. QED
      BY <3>3, <3>8, <3>9
  <2>3. CASE mode = "an"
    <3> DEFINE q == payload \div 11
               r == payload - q * 11
               k == IF r >= 6 THEN 1 ELSE 0
    <3>1. size = q * 2 + k
      BY <2>1, <2>3
    <3>2. q \in Nat /\ r \in 0..10 /\ payload = 11 * q + r
      <4>1. \A x \in Int : x >= 0 => /\ x \div 11 \in Nat /\ x - (x \div 11) * 11 \in 0..10
                                    /\ x = 11 * (x \div 11) + (x - (x \div 11) * 11)
        OBVIOUS
      <4>2. QED
        BY <1>4, <2>1, <4>1
    <3> HIDE DEF q, r, size
    <3>3. k \in 0..1 /\ size \in Nat /\ size \div 2 = q /\ size % 2 = k
      BY <3>1, <3>2
    <3>4. u = 1
      BY <1>3, <2>3
    <3>5. size \div u = size
      BY <3>3, <3>4
    <3>6. CharBits(mode, size) = 11 * q + 6 * k
      BY <2>3, <3>3 DEF CharBits
    <3>7. 6 * k <= r
      BY <3>2
    <3> HIDE DEF k
    <3>8. size \div u \in Nat \ {0} /\ size = (size \div u) * u
      BY <1>6, <3>3, <3>4, <3>5
    <3>9. CharBits(mode, size \div u) <= payload
      BY <3>2, <3>3, <3>5, <3>6, <3>7
    <3>10. QED
      BY <3>3, <3>8, <3>9
  <2>4. CASE mode = "byte"
    <3>1. size = payload \div 8
      BY <2>1, <2>4
    <3> HIDE DEF size
    <3>2. size \in Nat /\ 8 * size <= payload
      BY <1>4, <2>1, <3>1
    <3>3. u = 1
      BY <1>3, <2>4
    <3>4. size \div u = size /\ size = (size \div u) * u
      BY <3>2, <3>3
    <3>5. CharBits(mode, size) = 8 * size
      BY <2>4, <3>2, CharBitsAre
    <3>6. QED
      BY <1>6, <3>2, <3>4, <3>5
  <2>5. CASE mode = "kanji"
    <3> DEFINE q == payload \div 13
    <3>1. size = q * 2
      BY <2>1, <2>5
    <3>2. q \in Nat /\ 13 * q <= payload
      BY <1>4, <2>1
    <3> HIDE DEF size, q
    <3>3. u = 2
      BY <1>3, <2>5
    <3>4. size \in Nat /\ size \div u = q /\ size = (size \div u) * u
      BY <3>1, <3>2, <3>3
    <3>5. CharBits(mode, q) = 13 * q
      BY <2>5, <3>2, CharBitsAre
    <3>6. q # 0
      BY <1>6, <3>1, <3>2
    <3>7. QED
      BY <3>2, <3>4, <3>5, <3>6
  <2>6. QED
    BY <2>2, <2>3, <2>4, <2>5 DEF Splittable
<1> HIDE DEF size
<1>7. size # 0
  BY <1>2, <1>3, <1>5 DEF bytes
<1> DEFINE s == size \div u
           c == bytes \div u
<1>8. s \in Nat \ {0} /\ size = s * u /\ CharBits(mode, s) <= payload
  BY <1>6, <1>7
<1> HIDE DEF s
<1>9. c = (IF s > m THEN m ELSE s) /\ c \in Nat \ {0} /\ c <= m /\ c <= s
  <2>1. CASE u = 1
    <3>1. bytes = IF s > m THEN m ELSE s
      BY <1>2, <1>5, <1>8, <2>1
    <3>2. c = bytes
      BY <1>2, <1>8, <2>1, <3>1
    <3>3. QED
      BY <1>2, <1>8, <3>1, <3>2
  <2>2. CASE u = 2
    <3>1. bytes = (IF s > m THEN m ELSE s) * 2
      BY <1>2, <1>5, <1>8, <2>2
    <3>2. \A x \in Nat : (x * 2) \div 2 = x
      OBVIOUS
    <3>3. c = IF s > m THEN m ELSE s
      BY <1>2, <1>8, <2>2, <3>1, <3>2
    <3>4. QED
      BY <1>2, <1>8, <3>3
  <2>3. QED
    BY <1>3, <2>1, <2>2
<1> HIDE DEF c
<1>10. CharBits(mode, c) <= CharBits(mode, s)
  BY <1>8, <1>9, CharBitsGrow
<1>11. CharBits(mode, c) \in Nat /\ CharBits(mode, s) \in Nat
  BY <1>8, <1>9, CharBitsAre
<1>12. Indicator(mode, v) + CharBits(mode, c) <= n
  BY <1>2, <1>4, <1>8, <1>10, <1>11
<1>13. QED
  BY <1>9, <1>12 DEF c, m, u, bytes

\* What fits by its estimate takes as many bits.
LEMMA FitsExactly ==
  ASSUME NEW e, Simple(e), NEW v \in Versions, NEW level \in Levels,
         Estimate(e, v, FALSE) <= 8 * DataLength(v, level)
  PROVE  /\ Estimate(e, v, FALSE) = Needed(e, v)
         /\ Len(EncodeBitStream(e, v, FALSE)) = Needed(e, v) /\ Needed(e, v) \in Nat
<1>1. Plain(e) /\ v \in {0} \union Versions /\ v \in Int
  BY DEF Simple, Versions, VersionMax
<1>2. ~Big(e, v)
  <2>1. Estimate(e, v, FALSE) \in Nat
    BY <1>1, EstimateIsNat
  <2>2. 8 * DataLength(v, level) <= Cap(v) /\ DataLength(v, level) \in Int
    BY CapIs
  <2>3. Cap(v) \in Nat
    BY DEF Cap, VersionRange
  <2>4. Big(e, v) => Estimate(e, v, FALSE) > Cap(v)
    BY <1>1, ManyBits
  <2> DEFINE x == Estimate(e, v, FALSE)
             d == DataLength(v, level)
             y == Cap(v)
  <2>5. x \in Nat /\ d \in Int /\ y \in Nat /\ x <= 8 * d /\ 8 * d <= y
    BY <2>1, <2>2, <2>3
  <2>6. Big(e, v) => x > y
    BY <2>4
  <2> HIDE DEF x, d, y
  <2>7. ~(x > y)
    BY <2>5
  <2>8. QED
    BY <2>6, <2>7
<1>3. QED
  BY <1>1, <1>2, EstimateExact, BitStreamLength, NeededIs

\* The bits that a list needs, with an entry more behind it or in front of it.
LEMMA NeededMore ==
  ASSUME NEW l, IsSeq(l), NEW e, IsSimple(Append(l, e)), NEW v \in {0} \union Versions
  PROVE  /\ IsSimple(l) /\ Simple(e)
         /\ NeededAll(Append(l, e), v) = NeededAll(l, v) + Needed(e, v)
<1> DEFINE m == Append(l, e)
           n == Len(l)
<1>1. /\ n \in Nat /\ Len(m) = n + 1
      /\ \A i \in 1..n : m[i] = l[i]
      /\ m[n + 1] = e
  BY Appended
<1>2. \A i \in 1..(n + 1) : Simple(m[i])
  BY <1>1 DEF IsSimple
<1> HIDE DEF m
<1>3. n + 1 \in 1..(n + 1) /\ \A i \in 1..n : i \in 1..(n + 1)
  BY <1>1
<1>4. Simple(e) /\ \A i \in 1..n : Simple(l[i])
  BY <1>1, <1>2, <1>3
<1>5. IsSimple(l) /\ IsPlain(l) /\ IsPlain(m)
  BY <1>4 DEF IsSimple, IsPlain, Simple, m
<1>6. PICK f : /\ Numbered(n, f) /\ NeededAll(l, v) = SumOf(f)
               /\ \A i \in 1..n : f[i] = Needed(l[i], v)
  BY <1>5, ListSums
<1>7. PICK g : /\ Numbered(n + 1, g) /\ NeededAll(m, v) = SumOf(g)
               /\ \A i \in 1..(n + 1) : g[i] = Needed(m[i], v)
  <2>1. \E g, h : /\ Numbered(Len(m), g) /\ NeededAll(m, v) = SumOf(g)
                  /\ Numbered(Len(m), h) /\ Sized(m, v) = SumOf(h)
                  /\ \A i \in 1..Len(m) : g[i] = Needed(m[i], v)
                  /\ \A i \in 1..Len(m) : h[i] = Estimate(m[i], v, FALSE)
    BY <1>5, ListSums
  <2>2. QED
    BY <1>1, <2>1
<1>8. g[n + 1] = Needed(e, v) /\ \A i \in 1..n : f[i] = g[i]
  BY <1>1, <1>3, <1>6, <1>7
<1> HIDE DEF n
<1>9. SumOf(g) = SumOf(f) + g[n + 1]
  BY <1>1, <1>6, <1>7, <1>8, SumOfMore
<1>10. QED
  BY <1>4, <1>5, <1>6, <1>7, <1>8, <1>9 DEF m

\* The same for an entry in front, a header.
LEMMA NeededInFront ==
  ASSUME NEW l, IsSeq(l), NEW e, IsSimple(<<e>> \o l), NEW v \in {0} \union Versions
  PROVE  IsSimple(l) /\ NeededAll(<<e>> \o l, v) = Needed(e, v) + NeededAll(l, v)
<1> DEFINE m == <<e>> \o l
           n == Len(l)
<1>1. IsSeq(<<e>>) /\ Len(<<e>>) = 1 /\ <<e>>[1] = e
  <2> DEFINE o == <<e>>
  <2>1. o \in Seq({e}) /\ Len(o) = 1 /\ o[1] = e
    OBVIOUS
  <2> HIDE DEF o
  <2>2. IsSeq(o)
    BY <2>1 DEF IsSeq
  <2>3. QED
    BY <2>1, <2>2 DEF o
<1> DEFINE o == <<e>>
<1> HIDE DEF o
<1>2. /\ n \in Nat /\ Len(m) = 1 + n
      /\ m[1] = e /\ \A i \in 1..n : m[1 + i] = l[i]
  <2>1. IsSeq(o) /\ Len(o) = 1 /\ o[1] = e
    BY <1>1 DEF o
  <2>2. Len(o \o l) = Len(o) + n /\ n \in Nat
    BY <2>1, Joined
  <2>3. /\ \A k \in 1..Len(o) : (o \o l)[k] = o[k]
        /\ \A k \in 1..n : (o \o l)[Len(o) + k] = l[k]
    BY <2>1, JoinedAt
  <2>4. 1 \in 1..Len(o)
    BY <2>1
  <2>5. m = o \o l
    BY DEF o
  <2> HIDE DEF m
  <2>6. QED
    BY <2>1, <2>2, <2>3, <2>4, <2>5
<1>3. \A i \in 1..(1 + n) : Simple(m[i])
  BY <1>2 DEF IsSimple
<1> HIDE DEF m
<1>4. 1 \in 1..(1 + n) /\ \A i \in 1..n : 1 + i \in 1..(1 + n)
  BY <1>2
<1>5. Simple(e) /\ \A i \in 1..n : Simple(l[i])
  BY <1>2, <1>3, <1>4
<1>6. IsSimple(l) /\ IsPlain(l) /\ IsPlain(m)
  BY <1>5 DEF IsSimple, IsPlain, Simple, m
<1>7. PICK f : /\ Numbered(n, f) /\ NeededAll(l, v) = SumOf(f)
               /\ \A i \in 1..n : f[i] = Needed(l[i], v)
  BY <1>6, ListSums
<1>8. PICK g : /\ Numbered(1 + n, g) /\ NeededAll(m, v) = SumOf(g)
               /\ \A i \in 1..(1 + n) : g[i] = Needed(m[i], v)
  <2>1. \E g, h : /\ Numbered(Len(m), g) /\ NeededAll(m, v) = SumOf(g)
                  /\ Numbered(Len(m), h) /\ Sized(m, v) = SumOf(h)
                  /\ \A i \in 1..Len(m) : g[i] = Needed(m[i], v)
                  /\ \A i \in 1..Len(m) : h[i] = Estimate(m[i], v, FALSE)
    BY <1>6, ListSums
  <2>2. QED
    BY <1>2, <2>1
<1>9. g[1] = Needed(e, v) /\ \A i \in 1..n : f[i] = g[1 + i]
  BY <1>2, <1>4, <1>7, <1>8
<1> DEFINE x == Needed(e, v)
           one == [i \in 1..1 |-> x]
<1>10. x \in Nat
  <2>1. Plain(e) /\ v \in Int
    BY <1>5 DEF Simple, Versions, VersionMax
  <2>2. QED
    BY <2>1, NeededIs
<1> HIDE DEF n, x
<1>11. Numbered(1, one) /\ one[1] = x
  BY <1>10 DEF Numbered
<1>12. SumOf(one) = x
  <2> DEFINE none == [i \in 1..0 |-> x]
  <2>1. Numbered(0, none) /\ \A i \in 1..0 : none[i] = one[i]
    BY DEF Numbered
  <2> HIDE DEF none, one
  <2>2. SumOf(none) = 0
    BY <2>1, SumOfNone
  <2>3. 0 \in Nat /\ 0 + 1 = 1
    OBVIOUS
  <2>4. SumOf(one) = SumOf(none) + one[0 + 1]
    BY <1>11, <2>1, <2>3, SumOfMore
  <2>5. QED
    BY <1>10, <1>11, <2>2, <2>3, <2>4
<1> HIDE DEF one
<1>13. SumOf(g) = SumOf(one) + SumOf(f)
  <2>1. 1 + n \in Nat /\ 1 \in 0..(1 + n) /\ (1 + n) - 1 = n
    BY <1>2
  <2>2. \A i \in 1..1 : one[i] = g[i]
    BY <1>9, <1>11 DEF x
  <2>3. Numbered((1 + n) - 1, f) /\ \A i \in 1..((1 + n) - 1) : f[i] = g[1 + i]
    BY <1>7, <1>9, <2>1
  <2> DEFINE N == 1 + n
  <2>4. N \in Nat /\ 1 \in 0..N /\ Numbered(N, g) /\ Numbered(N - 1, f)
        /\ \A i \in 1..(N - 1) : f[i] = g[1 + i]
    BY <1>8, <2>1, <2>3
  <2> HIDE DEF N
  <2>5. QED
    BY <1>11, <2>2, <2>4, SumOfParts
<1>14. QED
  BY <1>6, <1>7, <1>8, <1>12, <1>13 DEF m, x

-----------------------------------------------------------------------------
(* The parts of a structured append.                                       *)

\* The text that is cut.
Message == IF job.casesensitive THEN job.text ELSE ToUpper(job.text, job.hint)

\* While the entries are made: no bit of the text is lost by cutting it.
Counted ==
  /\ HasData(entries) /\ head = << >> /\ used = 0 /\ inputs = << >>
  /\ job.text # << >> =>
       \A k \in 0..7 : TotalOnes(entries, k) + Ones(rest, k) = Ones(Message, k)

\* The parity taken of the entries is that of the text.
Summed == /\ IsParity(parity)
          /\ job.text # << >> => parity = CalcParity(<<[data |-> Message]>>)

\* While they are dealt out: what an input was given has room in a symbol.
Dealing ==
  /\ \A i \in 1..Len(inputs) : Within(inputs[i], job.version, MaxBits)
  /\ IsSimple(head) => used = NeededAll(head, job.version) /\ used <= MaxBits

\* An input with its header.
Part(list, n, i, p, v, level) ==
  /\ Len(list) >= 1 /\ list[1] = PartHeader(n, i, p)
  /\ Within(list, v, 8 * DataLength(v, level))

Headed ==
  /\ Len(inputs) \in 1..16
  /\ \A i \in 1..Len(inputs) :
       Part(inputs[i], Len(inputs), i, parity, job.version, job.level)

\* The streams made say which part they are, in a version not below the one asked for.
Telling ==
  \A i \in 1..Len(out) : /\ Tells(out[i].stream, Len(inputs), i, parity)
                         /\ out[i].version >= job.version

\* The stream in the making begins with the header.
Leading == IF Len(head) = 0 THEN bits = << >> ELSE Lead(bits, Len(inputs), Len(out) + 1, parity)

Parts ==
  job.structured =>
    /\ pc = "build" => Counted
    /\ pc = "deal"  => Summed /\ Dealing
    /\ pc \in Working \union {"done"} => Summed /\ Headed /\ Telling
    /\ pc \in {"estimate", "encode", "pad"} => version >= job.version /\ Leading
    /\ pc = "pad"  => Len(head) >= 1
    /\ pc = "done" => Len(out) = Len(inputs)

\* A string is data, and so is what is said in capitals.
LEMMA StringIsData == ASSUME NEW s \in Seq(Byte) PROVE IsData(s)
<1>1. \A i \in 1..Len(s) : s[i] \in Byte
  OBVIOUS
<1>2. IsSeq(s)
  BY DEF IsSeq
<1>3. \A x \in Byte : x \in Nat
  BY DEF Byte
<1>4. \A i \in 1..Len(s) : s[i] \in Nat
  BY <1>1, <1>3
<1>5. QED
  BY <1>2, <1>4 DEF IsData

\* The text that is cut is data.
LEMMA MessageIsData == ASSUME Streams PROVE IsData(Message)
<1>1. job.text \in Seq(Byte)
  BY VersionIsNumber DEF Streams
<1>2. ToUpper(job.text, job.hint) \in Seq(Byte)
  BY <1>1, UpperIsString
<1>3. Message \in Seq(Byte)
  BY <1>1, <1>2 DEF Message
<1>4. QED
  BY <1>3, StringIsData

\* A cut moves bytes from the string to an entry.
LEMMA SplitParts == ASSUME Cutting, Streams, Parts, SplitString PROVE Parts'
<1> DEFINE t == Eat(rest, 1, version, job.hint)
           m == t.size
           d == Piece(rest, 1, m)
           e == [mode |-> t.mode, data |-> d]
<1>1. rest \in Seq(Byte) /\ rest # << >> /\ pc = "build" /\ version \in Int
  BY VersionIsNumber DEF Cutting, SplitString
<1>2. m \in 1..Len(rest)
  BY <1>1, PieceAccepted
<1>3. /\ Append1(t.mode, d) /\ rest' = Piece(rest, m + 1, Len(rest))
      /\ UNCHANGED <<job, head, used, inputs>>
  BY DEF SplitString, encode
<1>4. \/ entries' = Append(entries, e) /\ pc' = pc
      \/ pc' = "failed"
  BY <1>3 DEF Append1
<1>5. e.data = d
  OBVIOUS
<1>6. IsData(rest) /\ m \in 0..Len(rest)
  BY <1>1, <1>2, StringIsData
<1> HIDE DEF e, m
<1>7. CASE pc' = "failed"
  BY <1>3, <1>7 DEF Parts, Working
<1>8. CASE job.structured /\ entries' = Append(entries, e) /\ pc' = pc
  <2>1. Counted
    BY <1>1, <1>8 DEF Parts
  <2>2. ASSUME NEW k \in 0..7
        PROVE  /\ IsData(d) /\ HasData(Append(entries, e))
               /\ TotalOnes(Append(entries, e), k) = TotalOnes(entries, k) + Ones(d, k)
               /\ Ones(rest, k) = Ones(d, k) + Ones(rest', k)
               /\ TotalOnes(entries, k) \in Nat /\ Ones(d, k) \in Nat /\ Ones(rest', k) \in Nat
    <3>1. /\ IsData(d) /\ IsData(rest')
          /\ Ones(rest, k) = Ones(d, k) + Ones(rest', k)
      BY <1>3, <1>6, OnesCut
    <3>2. HasData(entries)
      BY <2>1 DEF Counted
    <3> HIDE DEF d
    <3>3. IsData(e.data)
      BY <1>5, <3>1
    <3>4. /\ HasData(Append(entries, e))
          /\ TotalOnes(Append(entries, e), k) = TotalOnes(entries, k) + Ones(e.data, k)
      BY <3>2, <3>3, TotalMore
    <3>5. TotalOnes(entries, k) \in Nat /\ Ones(d, k) \in Nat /\ Ones(rest', k) \in Nat
      BY <3>1, <3>2, TotalIsNat, OnesAre
    <3>6. QED
      BY <1>5, <3>1, <3>4, <3>5
  <2>3. HasData(entries')
    <3>1. 0 \in 0..7
      OBVIOUS
    <3>2. QED
      BY <1>8, <2>2, <3>1
  <2>4. ASSUME job.text # << >>, NEW k \in 0..7
        PROVE  TotalOnes(entries', k) + Ones(rest', k) = Ones(Message, k)
    <3>1. TotalOnes(entries, k) + Ones(rest, k) = Ones(Message, k)
      BY <2>1, <2>4 DEF Counted
    <3> DEFINE a == TotalOnes(entries, k)
               b == Ones(d, k)
               c == Ones(rest', k)
    <3>2. a \in Nat /\ b \in Nat /\ c \in Nat
      BY <2>2
    <3>3. TotalOnes(entries', k) = a + b
      BY <1>8, <2>2
    <3>4. a + (b + c) = Ones(Message, k)
      BY <2>2, <3>1
    <3> HIDE DEF a, b, c
    <3>5. (a + b) + c = a + (b + c)
      BY <3>2
    <3>6. QED
      BY <3>3, <3>4, <3>5 DEF c
  <2>5. Message' = Message
    BY <1>3 DEF Message
  <2>6. Counted'
    BY <1>3, <2>1, <2>3, <2>4, <2>5 DEF Counted
  <2>7. QED
    BY <1>1, <1>8, <2>6 DEF Parts, Working
<1>9. QED
  BY <1>3, <1>4, <1>7, <1>8 DEF Parts

\* An item is appended, where there is no string.
LEMMA AppendParts == ASSUME Streams, Parts, AppendItem PROVE Parts'
<1> DEFINE item == job.items[Len(entries) + 1]
           n    == item.data[1]
           eci  == <<n % 256, (n \div 256) % 256, n \div 65536, 0>>
<1>1. /\ pc = "build" /\ Len(entries) < Len(job.items) /\ job \in Jobs
      /\ UNCHANGED <<job, rest, head, used, inputs>>
  BY DEF AppendItem, encode, Streams
<1>2. Len(entries) + 1 \in 1..Len(job.items) /\ Len(entries) \in Nat
  BY <1>1, JobIs DEF Streams, IsList, IsSeq
<1>3. job.text = << >>
  <2>1. job.items # << >>
    <3>1. job.items = << >> => Len(job.items) = 0
      BY EmptyList
    <3>2. QED
      BY <1>2, <3>1
  <2>2. QED
    BY <1>1, <2>1, JobsAssumption
<1>4. item.data \in Seq(Nat) /\ (item.mode = "eci" => n \in Nat)
  <2>1. job.items \in Seq([mode : Splittable \union {"eci"}, data : Seq(Nat)])
    BY <1>1, JobsAssumption
  <2>2. \A R : job.items \in Seq(R) => item \in R
    BY <1>2
  <2>3. item \in [mode : Splittable \union {"eci"}, data : Seq(Nat)]
    BY <2>1, <2>2
  <2>4. item.mode = "eci" => Len(item.data) = 1
    <3>1. Len(entries) + 1 \in DOMAIN job.items
      BY <1>2, <2>1
    <3>2. QED
      BY <1>1, <3>1, JobsAssumption
  <2> HIDE DEF item
  <2>5. \A s \in Seq(Nat) : Len(s) = 1 => s[1] \in Nat
    OBVIOUS
  <2>6. item.data \in Seq(Nat)
    BY <2>3
  <2>7. QED
    BY <2>4, <2>5, <2>6
<1>5. \/ Append1(item.mode, item.data)
      \/ pc' = "failed"
      \/ item.mode = "eci" /\ Append1("eci", eci)
  BY DEF AppendItem
<1>6. item.mode = "eci" => eci \in Seq(Nat)
  <2>1. \A x \in Nat : x % 256 \in Nat /\ (x \div 256) % 256 \in Nat /\ x \div 65536 \in Nat
    OBVIOUS
  <2>2. \A a, b, c \in Nat : <<a, b, c, 0>> \in Seq(Nat)
    OBVIOUS
  <2> HIDE DEF item
  <2>3. QED
    BY <1>4, <2>1, <2>2
<1>7. \A s : s \in Seq(Nat) => IsData(s)
  <2> SUFFICES ASSUME NEW s, s \in Seq(Nat) PROVE IsData(s)
    OBVIOUS
  <2>1. IsSeq(s) /\ \A i \in 1..Len(s) : s[i] \in Nat
    BY DEF IsSeq
  <2>2. QED
    BY <2>1 DEF IsData
<1> HIDE DEF item, eci
<1>8. \/ pc' = "failed"
      \/ /\ pc' = pc
         /\ \E mode, data : /\ IsData(data)
                            /\ entries' = Append(entries, [mode |-> mode, data |-> data])
  <2>1. CASE Append1(item.mode, item.data)
    <3>1. IsData(item.data)
      BY <1>4, <1>7
    <3>2. \/ pc' = "failed"
          \/ pc' = pc /\ entries' = Append(entries, [mode |-> item.mode, data |-> item.data])
      BY <2>1 DEF Append1
    <3>3. QED
      BY <3>1, <3>2
  <2>2. CASE item.mode = "eci" /\ Append1("eci", eci)
    <3>1. IsData(eci)
      BY <1>6, <1>7, <2>2
    <3>2. \/ pc' = "failed"
          \/ pc' = pc /\ entries' = Append(entries, [mode |-> "eci", data |-> eci])
      BY <2>2 DEF Append1
    <3>3. QED
      BY <3>1, <3>2
  <2>3. QED
    BY <1>5, <2>1, <2>2
<1>9. CASE pc' = "failed"
  BY <1>1, <1>9 DEF Parts, Working
<1>10. CASE /\ job.structured /\ pc' = pc
            /\ \E mode, data : IsData(data) /\ entries' = Append(entries, [mode |-> mode, data |-> data])
  <2>1. PICK mode, data : IsData(data) /\ entries' = Append(entries, [mode |-> mode, data |-> data])
    BY <1>10
  <2> DEFINE e == [mode |-> mode, data |-> data]
  <2>2. IsData(e.data)
    BY <2>1
  <2>3. Counted
    BY <1>1, <1>10 DEF Parts
  <2> HIDE DEF e
  <2>4. HasData(Append(entries, e))
    <3>1. 0 \in 0..7
      OBVIOUS
    <3>2. QED
      BY <2>2, <2>3, <3>1, TotalMore DEF Counted
  <2>5. Counted'
    BY <1>1, <1>3, <2>1, <2>3, <2>4 DEF Counted, e
  <2>6. QED
    BY <1>1, <1>10, <2>5 DEF Parts, Working
<1>11. QED
  BY <1>1, <1>8, <1>9, <1>10 DEF Parts

\* The parity is that of all the entries, so that of the whole text.
LEMMA BuiltParts == ASSUME Streams, Parts, Built PROVE Parts'
<1>1. /\ pc = "build" /\ rest = << >> /\ UNCHANGED <<job, head, used>>
      /\ \/ /\ job.structured /\ pc' = "deal" /\ parity' = CalcParity(entries)
            /\ UNCHANGED inputs
         \/ ~job.structured
  BY DEF Built, build, encode
<1>2. CASE ~job.structured
  BY <1>1, <1>2 DEF Parts
<1>3. CASE /\ job.structured /\ pc' = "deal" /\ parity' = CalcParity(entries)
           /\ UNCHANGED inputs
  <2>1. Counted
    BY <1>1, <1>3 DEF Parts
  <2>2. HasData(entries) /\ head = << >> /\ used = 0 /\ inputs = << >>
    BY <2>1 DEF Counted
  <2>3. IsParity(parity')
    BY <1>3, <2>2, CalcParityIs
  <2>4. ASSUME job.text # << >> PROVE parity' = CalcParity(<<[data |-> Message]>>)
    <3>1. ASSUME NEW k \in 0..7 PROVE TotalOnes(entries, k) = Ones(Message, k)
      <4>1. TotalOnes(entries, k) + Ones(rest, k) = Ones(Message, k)
        BY <2>1, <2>4 DEF Counted
      <4>2. Ones(rest, k) = 0
        BY <1>1, TotalOfNone
      <4>3. TotalOnes(entries, k) \in Nat
        BY <2>2, TotalIsNat
      <4>4. QED
        BY <4>1, <4>2, <4>3
    <3>2. CalcParity(entries) = CalcParity(<<[data |-> Message]>>)
      BY <2>2, <3>1, MessageIsData, ParityOfCuts
    <3>3. QED
      BY <1>3, <3>2
  <2>5. Message' = Message
    BY <1>1 DEF Message
  <2>6. Summed'
    BY <1>1, <2>3, <2>4, <2>5 DEF Summed
  <2>7. job \in Jobs /\ job.version \in Versions /\ job.level \in Levels
    BY <1>1, <1>3, JobIs DEF Streams
  <2>8. 0 <= MaxBits
    <3>1. DataLength(job.version, job.level) \in Int /\ DataLength(job.version, job.level) >= 9
      BY <2>7, DataLengthIsNine
    <3>2. QED
      BY <3>1 DEF MaxBits, STRUCTURE_HEADER_SIZE
  <2>9. NeededAll(<< >>, job.version) = 0 /\ Len(<< >>) = 0
    <3>1. Encoded(<< >>, << >>, << >>, job.version)
      BY EmptyList, EncodedNone
    <3>2. Len(<< >>) = 0
      BY EmptyList
    <3>3. QED
      BY <3>1, <3>2 DEF Encoded
  <2>10. MaxBits' = MaxBits
    BY <1>1 DEF MaxBits
  <2>11. Dealing'
    <3>1. \A i \in 1..Len(inputs') : FALSE
      BY <1>3, <2>2, <2>9
    <3>2. used' = NeededAll(head', job.version) /\ used' <= MaxBits
      BY <1>1, <2>2, <2>8, <2>9
    <3>3. QED
      BY <1>1, <2>10, <3>1, <3>2 DEF Dealing
  <2>12. QED
    BY <1>3, <2>6, <2>11 DEF Parts, Working
<1>4. QED
  BY <1>1, <1>2, <1>3

\* An entry that fits takes no more of the symbol than its estimate.
LEMMA FitsParts == ASSUME Streams, Parts, Fits PROVE Parts'
<1> DEFINE e == Head(entries)
           b == EncodeBitStream(e, job.version, FALSE)
           v == job.version
<1>1. /\ pc = "deal" /\ entries # << >> /\ Estimate(e, v, FALSE) <= Room(used)
      /\ head' = Append(head, e) /\ used' = used + Len(b)
      /\ UNCHANGED <<job, parity, inputs, pc>>
  BY DEF Fits, encode
<1>2. job.structured /\ v \in Versions /\ job.level \in Levels /\ v \in {0} \union Versions
  BY <1>1, JobIs DEF Streams
<1>3. Summed /\ Dealing
  BY <1>1, <1>2 DEF Parts
<1>4. IsItem(e) /\ IsSeq(head) /\ used \in Int
  BY <1>1, ListTail DEF Streams, IsList
<1>5. DataLength(v, job.level) \in Int
  BY <1>2, DataLengthIsInt
<1>6. MaxBits = 8 * DataLength(v, job.level) - 20 /\ Room(used) = MaxBits - used
  BY DEF MaxBits, Room, STRUCTURE_HEADER_SIZE
<1>7. ASSUME IsSimple(Append(head, e))
      PROVE  used + Len(b) = NeededAll(Append(head, e), v) /\ used + Len(b) <= MaxBits
  <2>1. /\ IsSimple(head) /\ Simple(e)
        /\ NeededAll(Append(head, e), v) = NeededAll(head, v) + Needed(e, v)
    BY <1>2, <1>4, <1>7, NeededMore
  <2>2. used = NeededAll(head, v) /\ used <= MaxBits
    BY <1>3, <2>1 DEF Dealing
  <2>3. IsPlain(head)
    BY <2>1 DEF IsSimple, IsPlain, Simple
  <2>4. used \in Nat
    BY <1>2, <2>2, <2>3, ListNumbers
  <2>5. Estimate(e, v, FALSE) \in Nat
    BY <1>2, <2>1, EstimateIsNat DEF Simple
  <2> DEFINE x == Estimate(e, v, FALSE)
             d == DataLength(v, job.level)
             M == MaxBits
             r == Room(used)
  <2>6. x \in Nat /\ d \in Int /\ M = 8 * d - 20 /\ r = M - used /\ x <= r
    BY <1>1, <1>5, <1>6, <2>5
  <2>7. x <= 8 * d
    <3> HIDE DEF x, d, M, r
    <3>1. QED
      BY <2>4, <2>6
  <2>8. x = Needed(e, v) /\ Len(b) = Needed(e, v)
    BY <1>2, <2>1, <2>7, FitsExactly
  <2> HIDE DEF x, d, M, r, b
  <2>9. used + x <= M
    BY <2>4, <2>6
  <2>10. QED
    BY <2>1, <2>2, <2>8, <2>9 DEF M
<1> HIDE DEF e, b, v
<1>8. MaxBits' = MaxBits /\ Message' = Message
  BY <1>1 DEF MaxBits, Message
<1>9. Dealing'
  BY <1>1, <1>3, <1>7, <1>8 DEF Dealing, v
<1>10. Summed'
  BY <1>1, <1>3, <1>8 DEF Summed
<1>11. QED
  BY <1>1, <1>9, <1>10 DEF Parts, Working

\* What an entry is cut to has room in the symbol.
LEMMA DivideParts == ASSUME Streams, Parts, Streams', Divide PROVE Parts'
<1> DEFINE e     == Head(entries)
           bytes == LengthOfCode(e.mode, job.version, Room(used))
           first == Piece(e.data, 1, bytes)
           e1    == [e EXCEPT !.data = first]
           l     == Append(head, e1)
           v     == job.version
<1>1. /\ pc = "deal" /\ entries # << >> /\ head' = << >> /\ used' = 0
      /\ UNCHANGED <<job, parity>>
      /\ \/ inputs' = Append(inputs, head) /\ UNCHANGED pc
         \/ inputs' = Append(inputs, l) /\ UNCHANGED pc /\ bytes # 0
         \/ pc' = "failed"
  BY DEF Divide, encode
<1>2. job.structured /\ v \in Versions /\ job.level \in Levels /\ v \in {0} \union Versions
  BY <1>1, JobIs DEF Streams
<1>3. Summed /\ Dealing
  BY <1>1, <1>2 DEF Parts
<1>4. IsItem(e) /\ IsEntry(e) /\ IsSeq(head) /\ used \in Int
  BY <1>1, ListTail DEF Streams, IsList, IsItem
<1>5. DataLength(v, job.level) \in Int /\ DataLength(v, job.level) >= 9
  BY <1>2, DataLengthIsNine
<1>6. /\ MaxBits = 8 * DataLength(v, job.level) - 20 /\ Room(used) = MaxBits - used
      /\ MaxBits \in Int /\ MaxBits >= 0 /\ Room(used) \in Int
  BY <1>4, <1>5 DEF MaxBits, Room, STRUCTURE_HEADER_SIZE
<1>7. Within(head, v, MaxBits)
  <2>1. IsSimple(head) => NeededAll(head, v) <= MaxBits
    BY <1>3 DEF Dealing
  <2>2. QED
    BY <2>1 DEF Within
<1>8. ASSUME bytes # 0, IsSimple(l) PROVE NeededAll(l, v) <= MaxBits
  <2>1. /\ IsSimple(head) /\ Simple(e1)
        /\ NeededAll(l, v) = NeededAll(head, v) + Needed(e1, v)
    BY <1>2, <1>4, <1>8, NeededMore
  <2>2. used = NeededAll(head, v)
    BY <1>3, <2>1 DEF Dealing
  <2> DEFINE c == bytes \div Unit(e.mode)
  <2>3. e.mode \in Splittable
    <3>1. e.mode \notin Splittable => bytes = 0
      BY <1>2, <1>4, <1>6, LengthOfCodeIsNat DEF IsEntry
    <3>2. QED
      BY <1>8, <3>1
  <2>4. /\ c \in Nat \ {0} /\ c <= Most(e.mode, v)
        /\ Indicator(e.mode, v) + CharBits(e.mode, c) <= Room(used)
    BY <1>2, <1>6, <1>8, <2>3, CodeFits
  <2>5. bytes \in Nat
    BY <1>2, <1>4, <1>6, LengthOfCodeIsNat DEF IsEntry
  <2>6. Len(first) = bytes
    <3> HIDE DEF bytes
    <3>1. bytes + 1 >= 1 /\ bytes - 1 + 1 = bytes /\ bytes \in Int
      BY <2>5
    <3>2. QED
      BY <3>1, PieceIsSeq
  <2>7. e1.mode = e.mode /\ e1.data = first
    <3> HIDE DEF first
    <3>1. e = [mode |-> e.mode, data |-> e.data]
      BY <1>4 DEF IsEntry
    <3>2. e1 = [mode |-> e.mode, data |-> first]
      <4>1. \A m, d : [[mode |-> m, data |-> d] EXCEPT !.data = first] = [mode |-> m, data |-> first]
        OBVIOUS
      <4> HIDE DEF e
      <4>2. QED
        BY <3>1, <4>1
    <3>3. QED
      BY <3>2
  <2> HIDE DEF e, bytes, first, e1
  <2>8. Chars(e1) = c
    BY <2>6, <2>7 DEF Chars
  <2> HIDE DEF c
  <2>9. Needed(e1, v) = CharBits(e.mode, c) + Indicator(e.mode, v)
    <3>a. \A u \in Versions : u \in Int
      BY DEF Versions, VersionMax
    <3>b. Plain(e1)
      BY <2>1 DEF Simple
    <3>1. Plain(e1) /\ v \in Int
      BY <1>2, <3>a, <3>b
    <3>2. Needed(e1, v) = PiecesOf(e.mode, v, c)
      BY <2>3, <2>7, <2>8, <3>1, NeededIs
    <3>3. QED
      BY <2>3, <2>4, <3>1, <3>2, PiecesAre
  <2>10. CharBits(e.mode, c) \in Nat /\ Indicator(e.mode, v) \in Nat
    <3>1. v \in Int
      BY <1>2 DEF Versions, VersionMax
    <3>2. QED
      BY <2>3, <2>4, <3>1, CharBitsAre, HeaderBitsAre
  <2> DEFINE x == CharBits(e.mode, c)
             y == Indicator(e.mode, v)
             r == Room(used)
             M == MaxBits
  <2>11. /\ x \in Nat /\ y \in Nat /\ y + x <= r /\ r = M - used /\ M \in Int /\ used \in Int
         /\ NeededAll(l, v) = used + (x + y)
    BY <1>4, <1>6, <2>1, <2>2, <2>4, <2>9, <2>10
  <2> HIDE DEF x, y, r, M, l
  <2>12. used + (x + y) <= M
    BY <2>11
  <2>13. QED
    BY <2>11, <2>12 DEF M
<1> HIDE DEF bytes, l, v, e
<1>9. bytes # 0 => Within(l, v, MaxBits)
  BY <1>8 DEF Within
<1>10. MaxBits' = MaxBits /\ Message' = Message
  BY <1>1 DEF MaxBits, Message
<1>11. NeededAll(<< >>, v) = 0
  <2>1. Encoded(<< >>, << >>, << >>, v)
    BY EmptyList, EncodedNone
  <2>2. QED
    BY <2>1, EmptyList DEF Encoded
<1>12. ASSUME NEW a, Within(a, v, MaxBits), inputs' = Append(inputs, a)
       PROVE  \A i \in 1..Len(inputs') : Within(inputs'[i], v, MaxBits)
  <2> DEFINE n == Len(inputs)
  <2>1. /\ n \in Nat /\ Len(inputs') = n + 1
        /\ \A i \in 1..n : inputs'[i] = inputs[i]
        /\ inputs'[n + 1] = a
    <3>1. IsSeq(inputs)
      BY DEF Streams, AreLists
    <3>2. QED
      BY <1>12, <3>1, Appended
  <2>2. \A i \in 1..n : Within(inputs[i], v, MaxBits)
    BY <1>3 DEF Dealing, v
  <2> HIDE DEF n
  <2>3. \A i \in 1..(n + 1) : i \in 1..n \/ i = n + 1
    BY <2>1
  <2>4. QED
    BY <1>12, <2>1, <2>2, <2>3
<1>13. CASE pc' = "failed"
  BY <1>1, <1>13 DEF Parts, Working
<1>14. CASE \E a : inputs' = Append(inputs, a) /\ UNCHANGED pc /\ Within(a, v, MaxBits)
  <2>1. \A i \in 1..Len(inputs') : Within(inputs'[i], v, MaxBits)
    BY <1>12, <1>14
  <2>2. Dealing'
    BY <1>1, <1>6, <1>10, <1>11, <2>1 DEF Dealing, v
  <2>3. Summed'
    BY <1>1, <1>3, <1>10 DEF Summed
  <2>4. QED
    BY <1>1, <1>14, <2>2, <2>3 DEF Parts, Working
<1>15. QED
  BY <1>1, <1>7, <1>9, <1>13, <1>14

\* Each input has room for its header.
LEMMA DealtParts == ASSUME Streams, Parts, Dealt PROVE Parts'
<1> DEFINE list == Append(inputs, head)
           n == Len(list)
           v == job.version
           size == 8 * DataLength(v, job.level)
<1>1. /\ pc = "deal" /\ UNCHANGED <<job, parity, out>>
      /\ \/ pc' = "failed"
         \/ pc' = "start" /\ inputs' = InsertHeaders(list, parity) /\ ~(n > 16)
  BY DEF Dealt, encode, MAX_STRUCTURED_SYMBOLS
<1>2. job.structured /\ v \in Versions /\ job.level \in Levels /\ v \in {0} \union Versions
  BY <1>1, JobIs DEF Streams
<1>3. Summed /\ Dealing
  BY <1>1, <1>2 DEF Parts
<1>4. AreLists(list)
  BY ListsAppended DEF Streams
<1>5. /\ Len(inputs) \in Nat /\ n = Len(inputs) + 1
      /\ \A i \in 1..Len(inputs) : list[i] = inputs[i]
      /\ list[Len(inputs) + 1] = head
  BY Appended DEF Streams, AreLists
<1>6. MaxBits = size - 20 /\ size \in Int
  <2>1. DataLength(v, job.level) \in Int
    BY <1>2, DataLengthIsInt
  <2>2. QED
    BY <2>1 DEF MaxBits, STRUCTURE_HEADER_SIZE
<1>7. Within(head, v, MaxBits) /\ \A i \in 1..Len(inputs) : Within(inputs[i], v, MaxBits)
  <2>1. IsSimple(head) => NeededAll(head, v) <= MaxBits
    BY <1>3 DEF Dealing
  <2>2. QED
    BY <1>3, <2>1 DEF Within, Dealing
<1> HIDE DEF list, v, size
<1>8. \A i \in 1..n : i \in 1..Len(inputs) \/ i = Len(inputs) + 1
  BY <1>5
<1>9. \A i \in 1..n : Within(list[i], v, MaxBits)
  BY <1>5, <1>7, <1>8
<1> DEFINE h(i) == PartHeader(n, i, parity)
           ins == InsertHeaders(list, parity)
<1>10. AreLists(ins) /\ Len(ins) = n /\ n \in Nat
  BY <1>4, <1>5, HeadersInserted
<1>11. \A i \in 1..n : ins[i] = <<h(i)>> \o list[i]
  <2>1. DOMAIN list = 1..n
    BY <1>4 DEF AreLists, IsSeq
  <2>2. QED
    BY <2>1 DEF InsertHeaders, PartHeader
<1> HIDE DEF h, ins, n
<1>12. ASSUME NEW i \in 1..n PROVE Part(ins[i], n, i, parity, v, job.level)
  <2>1. IsSeq(list[i]) /\ ins[i] = <<h(i)>> \o list[i]
    BY <1>4, <1>11 DEF AreLists, IsList, n
  <2> DEFINE a == list[i]
             o == <<h(i)>>
  <2>2. Len(ins[i]) >= 1 /\ ins[i][1] = h(i)
    <3>1. IsSeq(o) /\ Len(o) = 1 /\ o[1] = h(i)
      <4> DEFINE g == h(i)
      <4> HIDE DEF g
      <4>1. <<g>> \in Seq({g}) /\ Len(<<g>>) = 1 /\ <<g>>[1] = g
        OBVIOUS
      <4>2. QED
        BY <4>1 DEF IsSeq, g
    <3> HIDE DEF o, a
    <3>2. IsSeq(a) /\ ins[i] = o \o a
      BY <2>1 DEF o, a
    <3>3. Len(o \o a) = Len(o) + Len(a) /\ Len(a) \in Nat /\ (\A k \in 1..Len(o) : (o \o a)[k] = o[k])
      BY <3>1, <3>2, Joined, JoinedAt
    <3>4. 1 \in 1..Len(o) /\ 1 + Len(a) >= 1
      BY <3>1, <3>3
    <3>5. QED
      BY <3>1, <3>2, <3>3, <3>4
  <2>3. ASSUME IsSimple(ins[i]) PROVE NeededAll(ins[i], v) <= size
    <3>1. IsSimple(a) /\ NeededAll(ins[i], v) = Needed(h(i), v) + NeededAll(a, v)
      BY <1>2, <2>1, <2>3, NeededInFront
    <3>2. Needed(h(i), v) = 20
      <4>1. h(i).mode = "structure"
        BY DEF h, PartHeader
      <4>2. QED
        BY <4>1 DEF Needed, Splittable
    <3>3. NeededAll(a, v) <= MaxBits
      BY <1>9, <3>1 DEF Within
    <3>4. NeededAll(a, v) \in Nat
      <4>1. IsPlain(a)
        BY <3>1 DEF IsSimple, IsPlain, Simple
      <4>2. QED
        BY <1>2, <4>1, ListNumbers
    <3> DEFINE y == NeededAll(a, v)
               M == MaxBits
    <3>5. y \in Nat /\ y <= M /\ M = size - 20 /\ NeededAll(ins[i], v) = 20 + y
      BY <1>6, <3>1, <3>2, <3>3, <3>4
    <3> HIDE DEF y, M
    <3>6. 20 + y <= size
      BY <1>6, <3>5
    <3>7. QED
      BY <3>5, <3>6
  <2>4. QED
    BY <2>2, <2>3 DEF Part, Within, h, size
<1>13. CASE pc' = "failed"
  BY <1>1, <1>13 DEF Parts, Working
<1>14. CASE pc' = "start" /\ inputs' = ins /\ ~(n > 16)
  <2>1. Headed'
    <3>1. n \in 1..16
      BY <1>5, <1>14 DEF n
    <3>2. Len(inputs') = n /\ job' = job /\ parity' = parity
      BY <1>1, <1>10, <1>14
    <3>3. QED
      BY <1>12, <1>14, <3>1, <3>2 DEF Headed, v
  <2>2. Telling'
    <3>1. Len(out') = 0 /\ \A i \in 1..Len(out') : FALSE
      BY <1>1, EmptyList DEF Streams
    <3>2. QED
      BY <3>1 DEF Telling
  <2>3. Message' = Message
    BY <1>1 DEF Message
  <2>4. Summed'
    BY <1>1, <1>3, <2>3 DEF Summed
  <2>5. QED
    BY <1>1, <1>14, <2>1, <2>2, <2>4 DEF Parts, Working
<1>15. QED
  BY <1>1, <1>13, <1>14 DEF ins, n

\* A parity is a byte.
LEMMA ParityIsInt == ASSUME NEW p, IsParity(p) PROVE p \in Int
BY ByteBits DEF IsParity

\* The next input is begun with its first entry.
LEMMA StartParts == ASSUME Streams, Parts, Start PROVE Parts'
<1>1. /\ pc = "start" /\ version' = job.version /\ bits' = << >> /\ head' = << >>
      /\ UNCHANGED <<job, parity, out>> /\ pc' \in {"estimate", "encode", "failed", "wild"}
      /\ UNCHANGED inputs \/ ~job.structured
  BY DEF Start
<1>2. CASE ~job.structured
  BY <1>1, <1>2 DEF Parts
<1>3. CASE job.structured /\ UNCHANGED inputs
  <2>1. Summed /\ Headed /\ Telling
    BY <1>1, <1>3 DEF Parts, Working
  <2>2. Message' = Message
    BY <1>1 DEF Message
  <2>3. Summed' /\ Headed' /\ Telling'
    BY <1>1, <1>3, <2>1, <2>2 DEF Summed, Headed, Telling
  <2>4. version' >= job'.version
    <3>1. job.version \in Versions
      BY <1>1, <1>3, JobIs DEF Streams, Refused
    <3>2. \A u \in Versions : u >= u
      BY DEF Versions, VersionMax
    <3>3. QED
      BY <1>1, <3>1, <3>2
  <2>5. Leading'
    BY <1>1, EmptyList DEF Leading
  <2>6. QED
    BY <1>1, <2>3, <2>4, <2>5 DEF Parts, Working
<1>4. QED
  BY <1>1, <1>2, <1>3

\* The estimate does not lower the version.
LEMMA EstimateParts == ASSUME Streams, Parts, EstimateVersion PROVE Parts'
<1> DEFINE v == MinimumVersion((EstimateAll(Input, guess) + 7) \div 8, job.level)
<1>1. /\ pc = "estimate" /\ pc' \in {"estimate", "encode"}
      /\ UNCHANGED <<job, head, parity, inputs, bits, out>>
      /\ version' = version \/ (version' = v /\ v > version)
  BY DEF EstimateVersion, build
<1>2. CASE ~job.structured
  BY <1>1, <1>2 DEF Parts
<1>3. CASE job.structured
  <2>1. Summed /\ Headed /\ Telling /\ version >= job.version /\ Leading
    BY <1>1, <1>3 DEF Parts, Working
  <2>2. Message' = Message
    BY <1>1 DEF Message
  <2>3. Summed' /\ Headed' /\ Telling' /\ Leading'
    BY <1>1, <2>1, <2>2 DEF Summed, Headed, Telling, Leading
  <2>4. version' >= job'.version
    <3>1. job.version \in Int
      BY VersionIsNumber DEF Streams
    <3>2. version \in {0} \union Versions
      BY <1>1 DEF Streams, IsVersion
    <3>3. v \in {-1} \union Versions
      BY MinimumVersionIs
    <3> HIDE DEF v
    <3>4. version \in Int /\ v \in Int
      BY <3>2, <3>3 DEF Versions, VersionMax
    <3>5. QED
      BY <1>1, <2>1, <3>1, <3>4
  <2>5. QED
    BY <1>1, <2>3, <2>4 DEF Parts, Working
<1>4. QED
  BY <1>2, <1>3

\* The header is encoded first, the entries behind it.
LEMMA EncodeParts == ASSUME Streams, Parts, EncodeEntry PROVE Parts'
<1> DEFINE e == Input[Len(head) + 1]
           b == EncodeBitStream(e, version, job.mqr)
           n == Len(inputs)
           i == Len(out) + 1
<1>1. /\ pc = "encode" /\ Len(head) < Len(Input)
      /\ UNCHANGED <<job, parity, inputs, version, out>>
      /\ \/ bits' = bits \o b /\ head' = Append(head, e) /\ UNCHANGED pc
         \/ pc' = "failed"
  BY DEF EncodeEntry
<1>2. CASE ~job.structured
  BY <1>1, <1>2 DEF Parts
<1>3. CASE pc' = "failed"
  BY <1>1, <1>3 DEF Parts, Working
<1>4. CASE job.structured /\ bits' = bits \o b /\ head' = Append(head, e) /\ UNCHANGED pc
  <2>1. Summed /\ Headed /\ Telling /\ version >= job.version /\ Leading
    BY <1>1, <1>4 DEF Parts, Working
  <2>2. IsList(Input) /\ i \in 1..n /\ n \in Nat
    BY <1>1, InputIs DEF Streams, Working, AreLists, IsSeq
  <2>3. ~job.mqr /\ job.mqr = FALSE /\ version \in {0} \union Versions
    <3>1. ~job.mqr
      BY <1>1, <1>4, JobIs DEF Streams
    <3>2. job.mqr \in BOOLEAN
      BY JobIs DEF Streams
    <3>3. job.mqr = FALSE
      BY <3>1, <3>2, Zenon
    <3>4. QED
      BY <3>1, <3>3 DEF Streams, IsVersion
  <2>4. Input[1] = PartHeader(n, i, parity)
    BY <2>1, <2>2 DEF Headed, Part, Input
  <2>5. Len(head) \in Nat /\ IsSeq(head) /\ IsSeq(bits) /\ Len(Input) \in Nat
    BY <2>2 DEF Streams, IsList, IsSeq
  <2>6. Len(head) + 1 \in 1..Len(Input)
    BY <1>1, <2>5
  <2>7. IsItem(e)
    BY <2>2, <2>6 DEF IsList
  <2>8. Opens(b)
    BY <2>3, <2>7, EncodedOpens
  <2>9. Len(head') = Len(head) + 1
    <3> HIDE DEF e
    <3>1. QED
      BY <1>4, <2>5, Appended
  <2>10. Lead(bits', n, i, parity)
    <3>1. CASE Len(head) = 0
      <4>1. e = PartHeader(n, i, parity)
        <5>1. Len(head) + 1 = 1
          BY <3>1
        <5>2. QED
          BY <2>4, <5>1
      <4>2. parity \in Int
        BY <2>1, ParityIsInt DEF Summed
      <4>3. n \in Int /\ i \in Int
        BY <2>2
      <4>4. Lead(EncodeBitStream(PartHeader(n, i, parity), version, FALSE), n, i, parity)
        BY <2>3, <4>2, <4>3, HeaderLeads
      <4>5. b = EncodeBitStream(PartHeader(n, i, parity), version, FALSE)
        BY <2>3, <4>1
      <4>6. bits = << >>
        BY <2>1, <3>1 DEF Leading
      <4>7. bits' = b
        <5>1. \A S : b \in Seq(S) => << >> \o b = b
          OBVIOUS
        <5>2. IsSeq(b)
          BY <2>8 DEF Opens
        <5> HIDE DEF b
        <5>3. << >> \o b = b
          BY <5>1, <5>2 DEF IsSeq
        <5>4. QED
          BY <1>4, <4>6, <5>3
      <4>8. QED
        BY <4>4, <4>5, <4>7
    <3>2. CASE Len(head) # 0
      <4>1. Lead(bits, n, i, parity)
        BY <2>1, <3>2 DEF Leading
      <4>2. IsSeq(b)
        BY <2>8 DEF Opens
      <4> HIDE DEF b, n, i
      <4>3. Lead(bits \o b, n, i, parity)
        BY <2>8, <4>1, <4>2, LeadMore
      <4>4. QED
        BY <1>4, <4>3
    <3>3. QED
      BY <3>1, <3>2
  <2>11. Leading'
    <3>1. Len(head') # 0
      BY <2>5, <2>9
    <3>2. QED
      BY <1>1, <2>10, <3>1 DEF Leading
  <2>12. Message' = Message
    BY <1>1 DEF Message
  <2>13. Summed' /\ Headed' /\ Telling' /\ version' >= job'.version
    BY <1>1, <2>1, <2>12 DEF Summed, Headed, Telling
  <2>14. QED
    BY <1>1, <1>4, <2>11, <2>13 DEF Parts, Working
<1>5. QED
  BY <1>1, <1>2, <1>3, <1>4

\* A stream that is too long is made again, from the header on.
LEMMA CheckParts == ASSUME Streams, Parts, CheckVersion PROVE Parts'
<1> DEFINE v == MinimumVersion((Len(bits) + 7) \div 8, job.level)
<1>1. /\ pc = "encode" /\ Len(head) = Len(Input)
      /\ UNCHANGED <<job, parity, inputs, out>>
      /\ \/ pc' = "failed"
         \/ v > version /\ version' = v /\ bits' = << >> /\ head' = << >> /\ UNCHANGED pc
         \/ pc' = "pad" /\ UNCHANGED <<version, bits, head>>
  BY DEF CheckVersion
<1>2. CASE ~job.structured
  BY <1>1, <1>2 DEF Parts
<1>3. CASE pc' = "failed"
  BY <1>1, <1>3 DEF Parts, Working
<1>4. ASSUME job.structured, pc' # "failed" PROVE Parts'
  <2>1. Summed /\ Headed /\ Telling /\ version >= job.version /\ Leading
    BY <1>1, <1>4 DEF Parts, Working
  <2>2. Message' = Message
    BY <1>1 DEF Message
  <2>3. Summed' /\ Headed' /\ Telling'
    BY <1>1, <2>1, <2>2 DEF Summed, Headed, Telling
  <2>4. CASE v > version /\ version' = v /\ bits' = << >> /\ head' = << >> /\ UNCHANGED pc
    <3>1. Leading'
      BY <2>4, EmptyList DEF Leading
    <3>2. job.version \in Int
      BY VersionIsNumber DEF Streams
    <3>3. ~job.mqr
      BY <1>1, <1>4, JobIs DEF Streams
    <3>4. version \in {0} \union Versions
      BY <3>3 DEF Streams, IsVersion
    <3>5. v \in {-1} \union Versions
      BY MinimumVersionIs
    <3> HIDE DEF v
    <3>6. version \in Int /\ v \in Int
      BY <3>4, <3>5 DEF Versions, VersionMax
    <3>7. version' >= job'.version
      BY <1>1, <2>1, <2>4, <3>2, <3>6
    <3>8. QED
      BY <1>1, <2>3, <2>4, <3>1, <3>7 DEF Parts, Working
  <2>5. CASE pc' = "pad" /\ UNCHANGED <<version, bits, head>>
    <3>1. Leading' /\ version' >= job'.version
      BY <1>1, <2>1, <2>5 DEF Leading
    <3>2. Len(head') >= 1
      <4>1. Len(out) + 1 \in 1..Len(inputs)
        BY <1>1, InputIs DEF Working
      <4>2. Len(Input) >= 1
        BY <2>1, <4>1 DEF Headed, Part, Input
      <4>3. QED
        BY <1>1, <2>5, <4>2
    <3>3. QED
      BY <1>1, <2>3, <2>5, <3>1, <3>2 DEF Parts, Working
  <2>6. QED
    BY <1>1, <1>4, <2>4, <2>5
<1>5. QED
  BY <1>2, <1>3, <1>4

\* The padding leaves the header readable in the bytes of the symbol.
LEMMA PadParts == ASSUME Streams, Parts, Pad PROVE Parts'
<1> DEFINE padding == Padding(Len(bits), version, job.level)
           all     == bits \o padding
           d       == DataLength(version, job.level)
           m       == Len(inputs)
           n       == Len(out)
<1>1. /\ pc \in {"pad", "encode"} /\ (pc = "encode" => job.mqr)
      /\ UNCHANGED <<job, parity, inputs, version>>
      /\ \/ pc' = "failed"
         \/ /\ ~(MaxLength < Len(bits))
            /\ ~job.mqr => out' = Append(out, [version |-> version, stream |-> ToByte(all)])
            /\ pc' = IF Len(out') = m THEN "done" ELSE "start"
  BY DEF Pad, build
<1>2. CASE ~job.structured
  BY <1>1, <1>2 DEF Parts
<1>3. CASE pc' = "failed"
  BY <1>1, <1>3 DEF Parts, Working
<1>4. ASSUME job.structured, pc' # "failed" PROVE Parts'
  <2>1. ~job.mqr /\ job.level \in Levels /\ job.mqr = FALSE
    <3>1. ~job.mqr /\ job.mqr \in BOOLEAN /\ job.level \in Levels
      BY <1>1, <1>4, JobIs DEF Streams
    <3>2. job.mqr = FALSE
      BY <3>1, Zenon
    <3>3. QED
      BY <3>1, <3>2
  <2>2. pc = "pad" /\ version \in Versions
    BY <1>1, <2>1 DEF Streams
  <2>3. /\ Summed /\ Headed /\ Telling /\ version >= job.version /\ Leading
        /\ Len(head) >= 1
    BY <1>4, <2>2 DEF Parts, Working
  <2>4. /\ out' = Append(out, [version |-> version, stream |-> ToByte(all)])
        /\ pc' = IF Len(out') = m THEN "done" ELSE "start"
        /\ ~(MaxLength < Len(bits))
    BY <1>1, <1>4, <2>1
  <2>5. n \in Nat /\ m \in 1..16 /\ n < m /\ n + 1 \in 1..16
    <3>1. n \in Nat /\ n < m
      BY <2>2, InputIs DEF Streams, Working
    <3>2. m \in 1..16
      BY <2>3 DEF Headed
    <3> HIDE DEF m, n
    <3>3. QED
      BY <3>1, <3>2
  <2>6. d \in Nat
    <3>1. d \in Int /\ d >= 9
      BY <2>1, <2>2, DataLengthIsNine
    <3> HIDE DEF d
    <3>2. QED
      BY <3>1
  <2>7. Lead(bits, m, n + 1, parity)
    <3>1. Len(head) # 0
      <4>1. Len(head) \in Nat
        BY DEF Streams, IsList, IsSeq
      <4>2. QED
        BY <2>3, <4>1
    <3>2. QED
      BY <2>3, <3>1 DEF Leading
  <2>8. IsSeq(bits) /\ Len(bits) \in Nat
    BY DEF Streams, IsSeq
  <2>9. Len(bits) <= 8 * d
    <3>1. MaxLength = 8 * d
      BY <2>1 DEF MaxLength
    <3> HIDE DEF d
    <3>2. QED
      BY <2>4, <2>6, <2>8, <3>1
  <2>10. IsSeq(padding) /\ Len(bits) + Len(padding) = 8 * d
    BY <2>1, <2>2, <2>8, <2>9, PaddingFills
  <2>11. Opens(padding) \/ Len(bits) # 20
    <3>1. Len(bits) = 20 => Opens(padding)
      BY <2>1, <2>2, PaddingOpens
    <3>2. QED
      BY <3>1
  <2> HIDE DEF padding, d, m, n
  <2>12. Lead(all, m, n + 1, parity)
    BY <2>7, <2>10, <2>11, LeadMore
  <2>13. Len(all) = 8 * d
    <3>1. Len(bits \o padding) = Len(bits) + Len(padding)
      BY <2>8, <2>10, Joined
    <3>2. QED
      BY <2>10, <3>1
  <2> HIDE DEF all
  <2>14. Tells(ToByte(all), m, n + 1, parity)
    BY <2>3, <2>5, <2>6, <2>12, <2>13, StreamTells DEF Summed
  <2> DEFINE o == [version |-> version, stream |-> ToByte(all)]
  <2>15. o.version = version /\ o.stream = ToByte(all)
    OBVIOUS
  <2> HIDE DEF o
  <2>16. /\ Len(out') = n + 1 /\ \A i \in 1..n : out'[i] = out[i]
         /\ out'[n + 1] = o
    <3>1. out' = Append(out, o) /\ IsSeq(out)
      BY <2>4 DEF Streams, o
    <3>2. QED
      BY <3>1, Appended DEF n
  <2>17. ASSUME NEW i \in 1..(n + 1)
         PROVE  Tells(out'[i].stream, m, i, parity) /\ out'[i].version >= job.version
    <3>1. i \in 1..n \/ i = n + 1
      BY <2>5
    <3>2. CASE i \in 1..n
      BY <2>3, <2>16, <3>2 DEF Telling, m, n
    <3>3. CASE i = n + 1
      BY <2>3, <2>14, <2>15, <2>16, <3>3
    <3>4. QED
      BY <3>1, <3>2, <3>3
  <2>18. Telling'
    BY <1>1, <2>16, <2>17 DEF Telling, m
  <2>19. Message' = Message
    BY <1>1 DEF Message
  <2>20. Summed' /\ Headed'
    BY <1>1, <2>3, <2>19 DEF Summed, Headed
  <2>21. pc' \in {"done", "start"} /\ (pc' = "done" => Len(out') = Len(inputs'))
    BY <1>1, <2>4 DEF m
  <2>22. QED
    BY <1>1, <2>18, <2>20, <2>21 DEF Parts, Working
<1>5. QED
  BY <1>2, <1>3, <1>4

\* Nothing is lost of the text before it is cut.
LEMMA InitParts == Init => Parts
<1> SUFFICES ASSUME Init PROVE Parts
  OBVIOUS
<1>1. pc \in {"build", "failed"} /\ rest = Message
  BY DEF Init, Message
<1>2. entries = << >> /\ head = << >> /\ used = 0 /\ inputs = << >>
  BY DEF Init
<1>3. HasData(<< >>)
  <2>1. 0 \in 0..7
    OBVIOUS
  <2>2. QED
    BY <2>1, TotalOfNone
<1>4. ASSUME NEW k \in 0..7 PROVE TotalOnes(entries, k) + Ones(rest, k) = Ones(Message, k)
  <2>1. Ones(Message, k) \in Nat
    BY InitStreams, MessageIsData, OnesAre
  <2>2. TotalOnes(entries, k) = 0
    BY <1>2, TotalOfNone
  <2>3. QED
    BY <1>1, <2>1, <2>2
<1>5. Counted
  BY <1>2, <1>3, <1>4 DEF Counted
<1>6. QED
  BY <1>1, <1>5 DEF Parts, Working

\* Every step keeps what is known of the parts.
LEMMA PartsStep ==
  ASSUME Cutting, Streams, Streams', Parts, [Next]_vars PROVE Parts'
<1>1. CASE UNCHANGED vars
  <2>1. UNCHANGED <<job, rest, entries, head, used, parity, inputs, version, bits, out, pc>>
    BY <1>1 DEF vars, build, encode
  <2>2. Message' = Message /\ MaxBits' = MaxBits
    BY <2>1 DEF Message, MaxBits
  <2>3. /\ Counted' = Counted /\ Summed' = Summed /\ Dealing' = Dealing /\ Headed' = Headed
        /\ Telling' = Telling /\ Leading' = Leading
    BY <2>1, <2>2 DEF Counted, Summed, Dealing, Headed, Telling, Leading
  <2>4. QED
    BY <2>1, <2>3 DEF Parts, Working
<1>2. QED
  BY <1>1, SplitParts, AppendParts, BuiltParts, FitsParts, DivideParts, DealtParts,
     StartParts, EstimateParts, EncodeParts, CheckParts, PadParts DEF Next

\* The symbols of a structured append say which part of how many they are and
\* give the parity of the whole text, and they are of the version asked for
\* unless an input is one that the estimate passes versions over for
\* (QRinput_splitQRinputToStruct, QRinput_calcParity, QRinput_encodeModeStructure).
THEOREM PartsTold == Spec => []PartsAgree
<1>1. Init => Cutting /\ Streams /\ Choosing /\ Parts
  <2>1. Init => Len(out) = 0 /\ pc \notin {"estimate", "encode", "pad"}
    BY EmptyList DEF Init
  <2>2. Init => AllLeast(job, inputs, out)
    BY <2>1 DEF AllLeast
  <2>3. QED
    BY <2>1, <2>2, CuttingInit, InitStreams, InitParts DEF Choosing
<1>2. (Cutting /\ Streams /\ Choosing /\ Parts) /\ [Next]_vars
        => (Cutting /\ Streams /\ Choosing /\ Parts)'
  BY CuttingStep, StreamsStep, ChoosingStep, PartsStep
<1>3. Streams /\ Choosing /\ Parts => PartsAgree
  <2> SUFFICES ASSUME Streams, Choosing, Parts, pc = "done", job.structured,
                      NEW i \in DOMAIN out
               PROVE  LET s == Bytes(out[i].stream)
                      IN  /\ ~Overestimated(inputs[i]) => out[i].version = job.version
                          /\ Value(s, 1, 4) = 3
                          /\ Value(s, 5, 4) = i - 1 /\ Value(s, 9, 4) = Len(out) - 1
                          /\ job.text # << >> => Value(s, 13, 8) =
                               CalcParity(<<[data |-> IF job.casesensitive THEN job.text
                                                      ELSE ToUpper(job.text, job.hint)]>>)
    BY DEF PartsAgree
  <2>1. /\ Summed /\ Headed /\ Telling /\ Len(out) = Len(inputs) /\ AllLeast(job, inputs, out)
    BY DEF Parts, Choosing
  <2>2. i \in 1..Len(out)
    BY DEF Streams, IsSeq
  <2>3. Tells(out[i].stream, Len(inputs), i, parity) /\ out[i].version >= job.version
    BY <2>1, <2>2 DEF Telling
  <2>4. job.text # << >> => parity = CalcParity(<<[data |-> Message]>>)
    BY <2>1 DEF Summed
  <2>5. ASSUME ~Overestimated(inputs[i]) PROVE out[i].version = job.version
    <3> DEFINE list == inputs[i]
               u    == out[i].version
               low  == job.version
    <3>1. job \in Jobs /\ ~Refused(job)
      BY DEF Streams
    <3>2. ~job.mqr /\ low \in Versions /\ job.mqr \in BOOLEAN
      BY <3>1, JobIs
    <3>a. job.mqr = FALSE
      BY <3>2, Zenon
    <3>3. \A w : FitsIn(list, w) = Holds(list, w, job.level) /\ EstimateAll(list, w) = Sized(list, w)
      BY <3>a DEF FitsIn, Holds, EstimateAll, Sized
    <3>4. ~Excused(list, job.level)
      BY <2>5, <3>3 DEF Excused, Overestimated
    <3>5. Least(list, job.level, low, u)
      BY <2>1, <2>2, <3>2, <3>4 DEF AllLeast
    <3>6. Within(list, low, 8 * DataLength(low, job.level)) /\ IsList(list)
      BY <2>1, <2>2 DEF Headed, Part, Streams, AreLists
    <3> HIDE DEF list, u, low
    <3>7. IsSimple(list)
      BY <3>4, <3>6, <3>a, SimpleList
    <3>8. Holds(list, low, job.level)
      BY <3>6, <3>7 DEF Within, Holds
    <3>9. u \in Versions /\ (\A w \in Versions : low <= w /\ w < u => ~Holds(list, w, job.level))
      BY <3>5 DEF Least, NoneBelow
    <3>10. u \in 1..40 /\ low \in 1..40 /\ u >= low
      BY <2>3, <3>2, <3>9 DEF Versions, VersionMax, u, low
    <3>11. ~(low < u)
      <4>1. low <= low
        BY <3>10
      <4>2. QED
        BY <3>2, <3>8, <3>9, <4>1
    <3>12. u = low
      BY <3>10, <3>11
    <3>13. QED
      BY <3>12 DEF u, low
  <2>6. QED
    BY <2>1, <2>3, <2>4, <2>5 DEF Tells, Message
<1>4. QED
  BY <1>1, <1>2, <1>3, PTL DEF Spec
=============================================================================
