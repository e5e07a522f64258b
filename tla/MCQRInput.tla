----------------------------- MODULE MCQRInput ------------------------------
(***************************************************************************)
(* Strings of up to three runs of a class of characters each, longer ones  *)
(* that leave byte mode and come back, and entries at the limits of a      *)
(* version, of a length indicator and of a symbol.                         *)
(***************************************************************************)
EXTENDS QRInput

\* n characters of a class, uneven so that no two neighbours can be swapped.
cycle == [digit   |-> <<48, 55, 49, 57, 51, 50>>,
          capital |-> <<81, 32, 66, 90, 58>>,
          small   |-> <<97, 122, 109>>,
          high    |-> <<255, 195, 169>>,
          kanji   |-> <<147, 95, 228, 170, 129, 97, 234, 164>>]

Run(class, n) == [i \in 1..n |-> cycle[class][((i - 1) % Len(cycle[class])) + 1]]

Job(m, v, l) ==
  [mqr |-> m, version |-> v, level |-> l, structured |-> FALSE, fnc1 |-> 0,
   appid |-> 37, hint |-> "byte", casesensitive |-> TRUE, text |-> << >>, items |-> << >>]

Item(mode, class, n) == [mode |-> mode, data |-> Run(class, n)]
ECI(n) == [mode |-> "eci", data |-> <<n>>]

Strings(lengths, classes) ==
  LET runs == {Run(c, n) : c \in classes, n \in lengths}
  IN  {a \o b \o c : a \in runs, b \in runs \union {<< >>}, c \in runs \union {<< >>}}

Classes == {"digit", "capital", "small", "high", "kanji"}

StringJobs ==
  {[Job(FALSE, 0, "L") EXCEPT !.text = s, !.hint = "kanji", !.casesensitive = FALSE] :
     s \in Strings({2, 4}, Classes) \union Strings({1, 7}, {"digit", "capital", "small"})}
  \union
  {[Job(FALSE, v, "M") EXCEPT !.text = s] :
     v \in {10, 27}, s \in Strings({3, 6, 13}, {"digit", "capital", "small"})}

\* Bytes, digits, letters and bytes again, once or twice: what it costs to come
\* back to byte mode is counted when letters end it, not when digits do.
WayBackJobs ==
  LET back(n, m, k) == Run("digit", n) \o Run("capital", m) \o Run("high", k)
  IN  {[Job(FALSE, v, "L") EXCEPT !.text = Run("high", 2) \o first \o back(n, m, 1)] :
         v \in {0, 10, 27}, first \in {<< >>, back(4, 1, 3), back(6, 2, 3)},
         n \in {3, 4, 5, 6, 7}, m \in {1, 2, 9}}

SizeJobs ==
  {[Job(FALSE, 0, "L") EXCEPT !.items = <<i>>] :
     i \in {Item("num", "digit", n) : n \in {1, 2, 3, 41, 42, 552, 553, 1024}} \union
           {Item("an", "capital", n) : n \in {1, 2, 25, 26, 335, 336, 1990}} \union
           {Item("byte", "high", n) : n \in {1, 17, 18, 230, 231, 256, 1273, 1368}} \union
           {Item("kanji", "kanji", 3620)}}

OddJobs ==
  {[Job(FALSE, v, "H") EXCEPT !.items = l] :
     v \in {0, 3},
     l \in {<<Item("num", "digit", 0)>>, <<Item("num", "small", 2)>>, <<Item("an", "small", 2)>>,
            <<Item("kanji", "kanji", 3)>>, <<Item("kanji", "high", 2)>>,
            << >>, <<ECI(1000000)>>, <<ECI(127), ECI(16383), Item("num", "digit", 4)>>,
            <<ECI(20000), Item("num", "digit", 4)>>,
            <<Item("an", "capital", 5), Item("kanji", "kanji", 6), Item("num", "digit", 7)>>}}
  \union
  {[Job(FALSE, 0, "Q") EXCEPT !.fnc1 = f, !.items = l] :
     f \in {1, 2}, l \in {<< >>, <<Item("num", "digit", 5)>>}}
  \union
  {[Job(FALSE, 0, "Q") EXCEPT !.fnc1 = 2, !.text = Run("digit", 5) \o Run("small", 3)]}
  \union
  {[Job(FALSE, 0, "L") EXCEPT !.hint = "kanji", !.text = Run("kanji", n) \o Run("digit", 3)] :
     n \in {1, 2, 3}}

MicroJobs ==
  {[Job(TRUE, v, l) EXCEPT !.items = <<i>>] :
     v \in MVersions, l \in {"L", "M", "Q"},
     i \in {Item("num", "digit", n) : n \in {1, 3, 4, 5, 6, 8, 10, 13, 18, 21, 23, 30, 35, 36}} \union
           {Item("an", "capital", n) : n \in {1, 4, 6, 9, 14, 21}} \union
           {Item("byte", "high", n) : n \in {1, 4, 8, 9, 10, 15, 16}}}
  \union
  {[Job(TRUE, v, "L") EXCEPT !.items = <<Item("kanji", "kanji", n)>>] :
     v \in MVersions, n \in {2, 6, 12, 18, 20}}
  \union
  {[Job(TRUE, v, "L") EXCEPT !.items = <<ECI(26), Item("num", "digit", 3)>>] : v \in MVersions}
  \union
  {[Job(TRUE, v, "L") EXCEPT !.text = s, !.hint = "kanji"] :
     v \in MVersions, s \in Strings({1, 3}, {"digit", "capital", "high", "kanji"})}

StructuredJobs ==
  {[Job(m, v, "L") EXCEPT !.structured = TRUE, !.text = s] :
     m \in {FALSE}, v \in {0, 1, 2},
     s \in {Run("digit", 100), Run("small", 60), Run("digit", 20) \o Run("small", 5) \o Run("capital", 44),
            Run("high", 240)}}
  \union
  {[Job(FALSE, v, l) EXCEPT !.structured = TRUE, !.fnc1 = f,
      !.items = <<Item("byte", "high", n), ECI(300), Item("kanji", "kanji", 30), Item("num", "digit", 9)>>] :
     v \in {1, 2}, l \in {"L", "H"}, n \in {1, 3, 4, 12, 13, 14}, f \in {0, 2}}
  \union {[Job(FALSE, 1, "L") EXCEPT !.structured = TRUE]}
  \union {[Job(TRUE, 4, "L") EXCEPT !.structured = TRUE, !.text = Run("digit", 3)]}

MCJobs ==
  StringJobs \union WayBackJobs \union SizeJobs \union OddJobs \union MicroJobs
    \union StructuredJobs

\* qrencode(argv[1]): version 0, level L, one entry of 8-bit data (qrencode.c).
MCLongJobs == {[Job(FALSE, 0, "L") EXCEPT !.items = <<Item("byte", "high", 2945)>>]}
=============================================================================
