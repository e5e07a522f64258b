--------------------------- MODULE QRReedSolomon ---------------------------
(***************************************************************************)
(* The Reed-Solomon encoder of libqrencode (rscode.c).  A symbol of SymSize*)
(* bits is the set of its one bits.  The encoder works in index form (a    *)
(* power of alpha stands for a symbol), so that a product is a sum of      *)
(* indices, and the index NN stands for zero.                              *)
(***************************************************************************)
EXTENDS Integers, Sequences, QRSpec

CONSTANTS SymSize,   \* bits of a symbol (8)
          GfPoly,    \* the bits of the field's polynomial (0x11d)
          Fcr, Prim  \* first root and step between roots, in index form (0, 1)

\* init_rs_char refuses symbols of more bits than a byte.
ASSUME FieldAssumption == /\ SymSize \in 1..8
                          /\ GfPoly \subseteq 0..SymSize
                          /\ Fcr \in Nat
                          /\ Prim \in Nat

NN      == 2 ^ SymSize - 1
A0      == NN
Symbols == SUBSET (0..(SymSize - 1))

\* sr <<= 1, reduced by the field's polynomial.
Double(sr) ==
  LET shifted == {i + 1 : i \in sr}
  IN  (IF SymSize \in shifted THEN Xor(shifted, GfPoly) ELSE shifted) \ {SymSize}

\* sr after so many more turns of the loop that makes the tables.
Turns(n) == [s \in Symbols |-> LET sr[i \in 0..n] == IF i = 0 THEN s ELSE Double(sr[i - 1])
                               IN  sr[n]]

\* The values of sr: powers[i] is alpha^i.  They are taken by sixteens, because
\* TLC cannot evaluate a recursion that is NN deep.
sixteen == Turns(16)

powers == LET row[n \in 0..(NN \div 16)] == IF n = 0 THEN {0} ELSE sixteen[row[n - 1]]
          IN  [i \in 0..NN |-> Turns(i % 16)[row[i \div 16]]]

\* The field's polynomial is primitive: init_rs_char gives up otherwise.
Primitive == powers[NN] = {0}

\* The field is one: INDEX_OF is defined for every symbol but zero, which is more
\* than init_rs_char looks at.
ASSUME PrimitiveAssumption ==
  Primitive /\ \A s \in Symbols \ {{}} : \E i \in 0..(NN - 1) : powers[i] = s

ALPHA_TO == [i \in 0..NN |-> IF i = A0 THEN {} ELSE powers[i]]

INDEX_OF == [s \in Symbols |-> IF s = {} THEN A0 ELSE CHOOSE i \in 0..(NN - 1) : powers[i] = s]

\* modnn: the remainder by NN, folding the bits above SymSize into those below.
modnn[x \in Nat] ==
  IF x < NN THEN x
  ELSE modnn[((x - NN) \div (NN + 1)) + ((x - NN) % (NN + 1))]

TimesAlpha(s, i) == IF s = {} THEN {} ELSE ALPHA_TO[modnn[INDEX_OF[s] + i]]

\* One turn of the loop that forms the generator: g, coefficients from that
\* of x^0 up, times (x - alpha^root).
TimesFactor(g, root) ==
  Append([j \in 1..Len(g) |-> Xor(IF j = 1 THEN {} ELSE g[j - 1], TimesAlpha(g[j], root))],
         {0})

\* The generator with its first n roots.
Generator[n \in Nat] ==
  IF n = 0 THEN <<{0}>> ELSE TimesFactor(Generator[n - 1], (Fcr + n - 1) * Prim)

\* init_rs accepts the parameters.
RsAccepted(nroots, pad) == nroots \in 0..NN /\ pad \in 0..(NN - nroots - 1) /\ Primitive

\* The last parity symbol keeps its old value when there is no feedback.
EncodeSymbol_NoZero(gen, parity, d) ==
  LET n        == Len(parity)
      feedback == INDEX_OF[Xor(d, parity[1])]
      term(j)  == IF feedback = A0 THEN {}
                  ELSE ALPHA_TO[modnn[feedback + INDEX_OF[gen[j]]]]
  IN  [j \in 1..n |-> IF j = n THEN IF feedback = A0 THEN parity[n] ELSE term(1)
                      ELSE Xor(parity[j + 1], term(n - j + 1))]

\* One turn of encode_rs_char's loop: the parity after data symbol d.
EncodeSymbol(gen, parity, d) ==
  LET n        == Len(parity)
      feedback == INDEX_OF[Xor(d, parity[1])]
      term(j)  == IF feedback = A0 THEN {}
                  ELSE ALPHA_TO[modnn[feedback + INDEX_OF[gen[j]]]]
  IN  [j \in 1..n |-> IF j = n THEN term(1) ELSE Xor(parity[j + 1], term(n - j + 1))]

(***************************************************************************)
(* Reference: the value at alpha^r of a word (highest power first), by     *)
(* Horner's rule and without the tables.                                   *)
(***************************************************************************)
ValueAt(word, r) ==
  LET v[j \in 0..Len(word)] ==
        IF j = 0 THEN {} ELSE Xor(Turns(r)[v[j - 1]], word[j])
  IN  v[Len(word)]

\* A word of the code: zero at every root of the generator.
IsCodeword(word, nroots) ==
  \A i \in 0..(nroots - 1) : ValueAt(word, (Fcr + i) * Prim) = {}
=============================================================================
