------------------------- MODULE ServerSelectProofs -------------------------
(***************************************************************************)
(* The order in which brokers are tried, what a draw falls on and when the *)
(* search is given up: for every DNS answer sorted by priority and all that*)
(* an uninitialised entry of tab_weight may hold.                          *)
(***************************************************************************)
EXTENDS ServerSelect, FiniteSetTheorems, WellFoundedInduction, TLAPS

\* In a round, no server of an earlier group than the current one is up, and the
\* server drawn is one that is up.
Progress ==
  /\ pc \in {"group", "draw", "connect"} /\ begin # None =>
       \A s \in DOMAIN list : list[s].priority < list[begin].priority => ~is_up[s]
  /\ pc = "connect" => is_up[pos]

Inv == TypeOK /\ ServerOfConnection /\ Progress

\* What the assumption says of the records of an answer.
LEMMA Records ==
  ASSUME NEW l \in Answers
  PROVE  /\ 0 \in DOMAIN l /\ DOMAIN l \subseteq Nat
         /\ \A s \in DOMAIN l : l[s].priority \in Nat /\ l[s].target \in Targets
         /\ \A r, s \in DOMAIN l : r < s => l[r].priority <= l[s].priority
<1>1. Size(l) \in Nat \ {0} /\ DOMAIN l = 0 .. Size(l) - 1
  BY AnswersAssumption
<1>2. 0 \in DOMAIN l /\ DOMAIN l \subseteq Nat
  BY <1>1
<1>3. QED
  BY <1>2, AnswersAssumption

\* No record comes before the first.
LEMMA FirstRecord ==
  ASSUME NEW l \in Answers, NEW s \in DOMAIN l
  PROVE  ~(l[s].priority < l[0].priority)
<1> DEFINE P(r) == l[r].priority
<1>1. 0 \in DOMAIN l /\ s \in Nat /\ P(0) \in Nat /\ P(s) \in Nat
  BY Records
<1>2. 0 < s => P(0) <= P(s)
  BY <1>1, Records
<1> HIDE DEF P
<1>3. ~(P(s) < P(0))
  <2>1. CASE s = 0
    BY <1>1, <2>1
  <2>2. CASE 0 < s
    BY <1>1, <1>2, <2>2
  <2>3. QED
    BY <1>1, <2>1, <2>2
<1>4. QED
  BY <1>3 DEF P

\* The next group get_pos_next_priority finds has every earlier one behind it.
LEMMA NextGroupProgress ==
  ASSUME Inv, NextGroup PROVE Progress'
<1> DEFINE b == begin
<1>1. list \in Answers /\ b \in DOMAIN list
  BY DEF Inv, TypeOK, NextGroup, Usable
<1>2. /\ DOMAIN list \subseteq Nat
      /\ \A s \in DOMAIN list : list[s].priority \in Nat
      /\ \A r, s \in DOMAIN list : r < s => list[r].priority <= list[s].priority
  BY <1>1, Records
<1>3. \A s \in DOMAIN list : list[s].priority <= list[b].priority => ~is_up[s]
  BY <1>1, <1>2 DEF Inv, Progress, NextGroup, Usable, AllDown, Group
<1>4. ASSUME NEW s \in DOMAIN list, NextPriority(b, s), NEW r \in DOMAIN list,
             list[r].priority < list[s].priority
      PROVE  list[r].priority <= list[b].priority
  <2>1. s >= b /\ list[s].priority # list[b].priority
    BY <1>1, <1>2, <1>4 DEF NextPriority, None
  <2>2. CASE r < b
    BY <1>1, <1>2, <2>2
  <2>3. CASE r >= b /\ list[r].priority # list[b].priority
    <3>1. s <= r
      BY <1>1, <1>2, <1>4, <2>3 DEF NextPriority, None
    <3>2. QED
      BY <1>2, <1>4, <3>1
  <2>4. QED
    BY <1>1, <1>2, <2>2, <2>3
<1>5. PICK s \in DOMAIN list \cup {None} : NextPriority(b, s) /\ begin' = s
  BY DEF NextGroup
<1>6. pc' = "group" /\ UNCHANGED <<list, is_up>>
  BY DEF NextGroup
<1>7. QED
  BY <1>3, <1>4, <1>5, <1>6 DEF Progress

\* Every step keeps the invariant.
LEMMA Step == ASSUME Inv, [Next]_vars PROVE Inv'
<1> USE DEF Inv, TypeOK, PcSet
<1>1. CASE Call \/ Retry
  BY <1>1 DEF Call, Retry, others, ServerOfConnection, Progress
<1>2. CASE ResolveFails
  <2>1. Freed \in Answers \cup {Freed} /\ Freed \in [DOMAIN Freed -> BOOLEAN]
    BY DEF Freed
  <2>2. list' \in Answers \cup {Freed} /\ is_up' \in [DOMAIN list' -> BOOLEAN]
    <3>1. CASE rmqserver # None
      BY <1>2, <2>1, <3>1 DEF ResolveFails
    <3>2. CASE rmqserver = None
      BY <1>2, <3>2 DEF ResolveFails
    <3>3. QED
      BY <3>1, <3>2
  <2>3. QED
    BY <1>2, <2>2 DEF ResolveFails, others, ServerOfConnection, Progress, None
<1>3. ASSUME NEW a \in Answers, Resolve(a) PROVE Inv'
  <2>1. 0 \in DOMAIN a /\ DOMAIN a \subseteq Nat
    BY Records
  <2>2. /\ list' = a /\ is_up' = [s \in DOMAIN a |-> TRUE] /\ rmqserver' = None
        /\ begin' = 0 /\ pc' = "group" /\ UNCHANGED <<pos, rmq_conn, ttl, alive, changes>>
    BY <1>3 DEF Resolve, others
  <2>3. is_up' \in [DOMAIN list' -> BOOLEAN]
    BY <2>2
  <2>4. TypeOK'
    BY <2>1, <2>2, <2>3 DEF None
  <2>5. ServerOfConnection' /\ Progress'
    <3>1. \A s \in DOMAIN a : ~(a[s].priority < a[0].priority)
      BY FirstRecord
    <3>2. QED
      BY <2>2, <3>1 DEF ServerOfConnection, Progress
  <2>6. QED
    BY <2>4, <2>5
<1>4. CASE GiveUp
  BY <1>4 DEF GiveUp, others, ServerOfConnection, Progress
<1>5. CASE NextGroup
  <2>1. list \in Answers /\ DOMAIN list \subseteq Nat
    BY <1>5, Records DEF NextGroup
  <2>2. TypeOK'
    BY <1>5, <2>1 DEF NextGroup, others, None
  <2>3. ServerOfConnection'
    BY <1>5 DEF NextGroup, others, ServerOfConnection
  <2>4. QED
    BY <1>5, <2>2, <2>3, NextGroupProgress
<1>6. CASE EnterGroup
  BY <1>6 DEF EnterGroup, Usable, others, ServerOfConnection, Progress
<1>7. CASE Draw(DOMAIN list)
  <2>1. list \in Answers /\ DOMAIN list \subseteq Nat
    BY <1>7, Records DEF Draw
  <2>2. QED
    BY <1>7, <2>1 DEF Draw, others, ServerOfConnection, Progress
<1>8. CASE DrawOutside
  <2>1. pos' \in Int
    BY <1>8, OtherAssumption, Records DEF DrawOutside, TabWeight, Group
  <2>2. QED
    BY <1>8, <2>1 DEF DrawOutside, others, ServerOfConnection, Progress
<1>9. CASE ConnectOK
  <2>1. list \in Answers /\ pos \in DOMAIN list /\ DOMAIN list \subseteq Nat
        /\ list[pos].target \in Targets
    BY <1>9, Records DEF ConnectOK
  <2>2. QED
    BY <1>9, <2>1 DEF ConnectOK, others, ServerOfConnection, Progress, None
<1>10. CASE ConnectFails
  BY <1>10 DEF ConnectFails, others, ServerOfConnection, Progress, None
<1>11. ASSUME NEW t \in Targets, BrokerChanges(t) PROVE Inv'
  BY <1>11, OtherAssumption DEF BrokerChanges, ServerOfConnection, Progress
<1>12. ASSUME NEW t \in TtlThreads, SpentTtl(t) \/ TtlClose(t) \/ Reload(t) PROVE Inv'
  <2>1. CASE SpentTtl(t)
    BY <2>1 DEF SpentTtl, ServerOfConnection, Progress
  <2>2. CASE TtlClose(t)
    <3>1. TypeOK' /\ ttl'[t] = "closed"
      BY <2>2 DEF TtlClose
    <3>2. QED
      BY <2>2, <3>1 DEF TtlClose, ServerOfConnection, Progress
  <2>3. CASE Reload(t)
    BY <2>3 DEF Reload, Unlocked, ServerOfConnection, Progress
  <2>4. QED
    BY <1>12, <2>1, <2>2, <2>3
<1>13. CASE UNCHANGED vars
  BY <1>13 DEF vars, others, ServerOfConnection, Progress
<1>14. QED
  BY <1>1, <1>2, <1>3, <1>4, <1>5, <1>6, <1>7, <1>8, <1>9, <1>10, <1>11, <1>12, <1>13 DEF Next

\* The invariant behind ServerPointer and PriorityOrder.
LEMMA InvHolds == Spec => []Inv
<1>1. Init => Inv
  BY OtherAssumption DEF Init, Inv, TypeOK, PcSet, ServerOfConnection, Progress, Freed, None
<1>2. QED
  BY <1>1, Step, PTL DEF Spec

\* The list is indexed within its bounds, except where a draw reads an
\* uninitialised entry (pc = "wild").
THEOREM IndicesInList == Spec => []TypeOK
BY InvHolds, PTL DEF Inv

\* rmqserver never dangles, and it is the server of the open connection unless a
\* spent TTL has closed it and is about to reload.
THEOREM ServerPointer == Spec => []ServerOfConnection
BY InvHolds, PTL DEF Inv

-----------------------------------------------------------------------------
(* Sums computed one by one: what a recursive function over 0 .. N is, by  *)
(* its least counterexample.                                               *)

\* A set of natural numbers has a least one.
LEMMA LeastElement ==
  ASSUME NEW T \in SUBSET Nat, T # {}
  PROVE  \E m \in T : \A x \in T : m <= x
<1> DEFINE R == OpToRel(<, Nat)
<1>1. IsWellFoundedOn(R, Nat)
  BY NatLessThanWellFounded
<1>2. \E m \in T : \A x \in T : ~ (<<x, m>> \in R)
  <2> HIDE DEF R
  <2>1. T \subseteq Nat
    OBVIOUS
  <2> QED
    BY <1>1, <2>1, WFMin
<1>3. \A x, m \in Nat : x < m => <<x, m>> \in R
  BY DEF OpToRel
<1> HIDE DEF R
<1>4. PICK m \in T : \A x \in T : ~ (<<x, m>> \in R)
  BY <1>2
<1>5. \A x \in T : ~(x < m)
  BY <1>3, <1>4
<1>6. QED
  BY <1>4, <1>5

IsSums(f, g, k) ==
  f \in [0 .. k -> Int] /\ f[0] = 0 /\ \A s \in 1 .. k : f[s] = f[s - 1] + g[s - 1]

\* Sums may be computed up to any index.
LEMMA SumsExist ==
  ASSUME NEW N \in Nat, NEW g \in [0 .. N - 1 -> Int]
  PROVE  \E f : IsSums(f, g, N)
<1> DEFINE Without == {k \in 0 .. N : ~ \E f : IsSums(f, g, k)}
<1>1. ASSUME NEW k \in Without, \A x \in Without : k <= x PROVE FALSE
  <2>1. CASE k = 0
    <3>1. IsSums([s \in 0 .. 0 |-> 0], g, 0)
      BY DEF IsSums
    <3>2. QED
      BY <2>1, <3>1
  <2>2. CASE k # 0
    <3>1. k - 1 \in 0 .. N /\ k \in 1 .. N /\ k - 1 \in 0 .. N - 1 /\ k - 1 \in 0 .. k - 1
      BY <2>2
    <3>2. k - 1 \notin Without
      BY <1>1, <3>1
    <3>3. PICK f : IsSums(f, g, k - 1)
      BY <3>1, <3>2
    <3> DEFINE h == [s \in 0 .. k |-> IF s = k THEN f[k - 1] + g[k - 1] ELSE f[s]]
    <3>4. \A s \in 0 .. k : s # k => s \in 0 .. k - 1
      BY <3>1
    <3>5. f[k - 1] \in Int /\ g[k - 1] \in Int
      BY <3>1, <3>3 DEF IsSums
    <3>6. h \in [0 .. k -> Int]
      BY <3>3, <3>4, <3>5 DEF IsSums
    <3>7. h[0] = 0
      BY <3>1, <3>3 DEF IsSums
    <3>8. ASSUME NEW s \in 1 .. k PROVE h[s] = h[s - 1] + g[s - 1]
      <4>1. s \in 0 .. k /\ s - 1 \in 0 .. k /\ s - 1 # k
        BY <3>1
      <4>2. h[s - 1] = f[s - 1]
        BY <4>1
      <4>3. CASE s = k
        BY <4>1, <4>2, <4>3
      <4>4. CASE s # k
        <5>1. s \in 1 .. k - 1
          BY <3>1, <4>4
        <5>2. QED
          BY <3>3, <4>1, <4>2, <4>4, <5>1 DEF IsSums
      <4>5. QED
        BY <4>3, <4>4
    <3> HIDE DEF h
    <3>9. IsSums(h, g, k)
      BY <3>6, <3>7, <3>8 DEF IsSums
    <3>10. QED
      BY <3>9
  <2>3. QED
    BY <2>1, <2>2
<1>2. Without \in SUBSET Nat
  OBVIOUS
<1>3. Without = {}
  <2> HIDE DEF Without
  <2>1. QED
    BY <1>1, <1>2, LeastElement
<1>4. N \in 0 .. N
  OBVIOUS
<1>5. QED
  BY <1>3, <1>4

\* What Sums is.
LEMMA SumsAre ==
  ASSUME NEW N \in Nat, NEW g \in [0 .. N - 1 -> Int]
  PROVE  IsSums(Sums(g), g, N)
<1>1. Size(g) = N
  <2>1. 0 \in Int /\ N - 1 \in Int /\ DOMAIN g = 0 .. N - 1
    OBVIOUS
  <2>2. QED
    BY <2>1, FS_Interval DEF Size
<1>2. PICK f : IsSums(f, g, N)
  BY SumsExist
<1>3. f = [s \in 0 .. N |-> IF s = 0 THEN 0 ELSE f[s - 1] + g[s - 1]]
  <2>1. \A s \in 0 .. N : s # 0 => s \in 1 .. N
    OBVIOUS
  <2>2. QED
    BY <1>2, <2>1 DEF IsSums
<1> DEFINE Sum == CHOOSE sum : sum = [s \in 0 .. N |-> IF s = 0 THEN 0 ELSE sum[s - 1] + g[s - 1]]
<1>4. Sum = [s \in 0 .. N |-> IF s = 0 THEN 0 ELSE Sum[s - 1] + g[s - 1]]
  BY <1>3
<1>5. Sums(g) = Sum
  BY <1>1 DEF Sums
<1> HIDE DEF Sum
<1>6. Sum[0] = 0 /\ \A s \in 1 .. N : Sum[s] = Sum[s - 1] + g[s - 1]
  <2>1. \A s \in 1 .. N : s # 0 /\ s \in 0 .. N
    OBVIOUS
  <2>2. 0 \in 0 .. N
    OBVIOUS
  <2>3. QED
    BY <1>4, <2>1, <2>2
<1> DEFINE Others == {s \in 0 .. N : Sum[s] \notin Int}
<1>7. ASSUME NEW k \in Others, \A s \in Others : k <= s PROVE FALSE
  <2>1. k \in 1 .. N
    BY <1>6
  <2>2. k - 1 \in 0 .. N /\ ~(k <= k - 1) /\ k - 1 \in 0 .. N - 1
    BY <2>1
  <2>3. Sum[k - 1] \in Int /\ g[k - 1] \in Int
    BY <1>7, <2>2
  <2>4. QED
    BY <1>6, <2>1, <2>3
<1>8. Others = {}
  <2>1. Others \in SUBSET Nat
    OBVIOUS
  <2> HIDE DEF Others
  <2>2. QED
    BY <1>7, <2>1, LeastElement
<1>9. DOMAIN Sum = 0 .. N
  BY <1>4
<1>10. Sum \in [0 .. N -> Int]
  BY <1>4, <1>8, <1>9
<1>11. QED
  BY <1>5, <1>6, <1>10 DEF IsSums

\* The sums of numbers that are not negative never fall.
LEMMA SumsRise ==
  ASSUME NEW N \in Nat, NEW g \in [0 .. N - 1 -> Nat], NEW f, IsSums(f, g, N),
         NEW r \in 0 .. N, NEW s \in 0 .. N, r <= s
  PROVE  f[r] <= f[s]
<1> DEFINE Below == {k \in 0 .. N : r <= k /\ f[k] < f[r]}
<1>1. \A k \in 0 .. N : f[k] \in Int
  BY DEF IsSums
<1>2. ASSUME NEW k \in Below, \A x \in Below : k <= x PROVE FALSE
  <2>1. k # r /\ k \in 1 .. N
    BY <1>1, <1>2
  <2>2. k - 1 \in 0 .. N /\ r <= k - 1 /\ ~(k <= k - 1) /\ k - 1 \in 0 .. N - 1
    BY <1>2, <2>1
  <2>3. ~(f[k - 1] < f[r])
    BY <1>2, <2>2
  <2>4. f[k] = f[k - 1] + g[k - 1] /\ g[k - 1] \in Nat
    BY <2>1, <2>2 DEF IsSums
  <2>5. QED
    BY <1>1, <1>2, <2>1, <2>2, <2>3, <2>4
<1>3. Below = {}
  <2>1. Below \in SUBSET Nat
    OBVIOUS
  <2> HIDE DEF Below
  <2>2. QED
    BY <1>2, <2>1, LeastElement
<1>4. s \in 0 .. N /\ ~(f[s] < f[r])
  BY <1>3
<1>5. QED
  BY <1>1, <1>4

\* The index at which the sums pass a value.
LEMMA SumsPass ==
  ASSUME NEW N \in Nat, NEW g \in [0 .. N - 1 -> Nat], NEW f, IsSums(f, g, N),
         NEW j \in Nat, j < f[N]
  PROVE  \E s \in 0 .. N - 1 : f[s] <= j /\ j < f[s + 1]
<1> DEFINE Above == {k \in 0 .. N : j < f[k]}
<1>1. \A k \in 0 .. N : f[k] \in Int
  BY DEF IsSums
<1>2. PICK k \in Above : \A x \in Above : k <= x
  <2>1. Above \in SUBSET Nat /\ N \in Above
    OBVIOUS
  <2> HIDE DEF Above
  <2>2. QED
    BY <2>1, LeastElement
<1>3. k \in 1 .. N
  BY <1>2 DEF IsSums
<1>4. k - 1 \in 0 .. N - 1 /\ k - 1 \in 0 .. N /\ ~(k <= k - 1) /\ k - 1 + 1 = k
  BY <1>3
<1>5. f[k - 1] <= j
  BY <1>1, <1>2, <1>4
<1>6. QED
  BY <1>2, <1>4, <1>5

-----------------------------------------------------------------------------
(* Weights.                                                                *)

\* The weights of an answer and where its records start in tab_weight.
LEMMA WeightSums ==
  ASSUME list \in Answers, NEW p
  PROVE  /\ Size(list) \in Nat \ {0} /\ DOMAIN list = 0 .. Size(list) - 1
         /\ Weights(p) \in [0 .. Size(list) - 1 -> Nat]
         /\ Advance(p) \in [0 .. Size(list) - 1 -> Nat]
         /\ IsSums(Sums(Weights(p)), Weights(p), Size(list))
         /\ IsSums(TabStart(p), Advance(p), Size(list))
<1>1. /\ Size(list) \in Nat \ {0} /\ DOMAIN list = 0 .. Size(list) - 1
      /\ \A s \in DOMAIN list : list[s].weight \in Nat
  BY AnswersAssumption
<1>2. /\ Weights(p) \in [0 .. Size(list) - 1 -> Nat]
      /\ Advance(p) \in [0 .. Size(list) - 1 -> Nat]
  BY <1>1 DEF Weights, Advance
<1>3. /\ Weights(p) \in [0 .. Size(list) - 1 -> Int]
      /\ Advance(p) \in [0 .. Size(list) - 1 -> Int]
  BY <1>2
<1>4. QED
  BY <1>1, <1>2, <1>3, SumsAre DEF TabStart

\* A group one of whose records weighs something is not refused.
LEMMA TotWeightPositive ==
  ASSUME list \in Answers, NEW s \in DOMAIN list, list[s].weight > 0
  PROVE  TotWeight(list[s].priority) > 0
<1> DEFINE N == Size(list)
           w == Weights(list[s].priority)
           f == Sums(w)
<1>1. /\ N \in Nat \ {0} /\ DOMAIN list = 0 .. N - 1 /\ w \in [0 .. N - 1 -> Nat]
      /\ IsSums(f, w, N)
  BY WeightSums
<1>2. w[s] > 0
  BY DEF Weights, Group
<1>3. TotWeight(list[s].priority) = f[N]
  BY DEF TotWeight
<1> HIDE DEF N, w, f
<1>4. s \in 0 .. N /\ s + 1 \in 1 .. N /\ s + 1 \in 0 .. N /\ 0 \in 0 .. N /\ N \in 0 .. N
      /\ s + 1 - 1 = s /\ s >= 0 /\ s + 1 <= N
  BY <1>1
<1>5. f[0] <= f[s] /\ f[s + 1] <= f[N]
  BY <1>1, <1>4, SumsRise
<1>6. f[0] = 0 /\ f[s + 1] = f[s] + w[s] /\ f[s] \in Int /\ w[s] \in Nat /\ f[N] \in Int
  BY <1>1, <1>4 DEF IsSums
<1>7. QED
  BY <1>2, <1>3, <1>5, <1>6

-----------------------------------------------------------------------------
(* The first group: the records at the start of the list.                  *)

\* The list being sorted, the first group is its first records.
LEMMA FirstGroupIsPrefix ==
  ASSUME list \in Answers, NEW s \in Group(list[0].priority), NEW r \in DOMAIN list, r <= s
  PROVE  r \in Group(list[0].priority)
<1> DEFINE P(x) == list[x].priority
<1>1. 0 \in DOMAIN list /\ s \in DOMAIN list /\ P(s) = P(0) /\ P(r) \in Nat /\ P(0) \in Nat
      /\ s \in Nat /\ r \in Nat
  BY Records DEF Group
<1>2. r = s \/ P(r) <= P(s)
  BY <1>1, Records
<1>3. ~(P(r) < P(0))
  BY FirstRecord
<1> HIDE DEF P
<1>4. P(r) = P(0)
  BY <1>1, <1>2, <1>3
<1>5. QED
  BY <1>4 DEF Group, P

\* Up to the end of the first group the table is filled as the weights add up.
LEMMA FirstGroupStarts ==
  ASSUME list \in Answers, NEW s \in 0 .. Size(list), s = 0 \/ s - 1 \in Group(list[0].priority)
  PROVE  TabStart(list[0].priority)[s] = Sums(Weights(list[0].priority))[s]
<1> DEFINE N  == Size(list)
           p  == list[0].priority
           f  == Sums(Weights(p))
           at == TabStart(p)
           Within(k) == k = 0 \/ k - 1 \in Group(p)
           Differ == {k \in 0 .. N : Within(k) /\ at[k] # f[k]}
<1>1. /\ N \in Nat \ {0} /\ DOMAIN list = 0 .. N - 1
      /\ IsSums(f, Weights(p), N) /\ IsSums(at, Advance(p), N)
  BY WeightSums
<1>2. ASSUME NEW k \in Differ, \A x \in Differ : k <= x PROVE FALSE
  <2>1. k \in 1 .. N /\ k - 1 \in Group(p)
    BY <1>1, <1>2 DEF IsSums
  <2>2. k - 1 \in 0 .. N /\ ~(k <= k - 1) /\ k - 1 \in DOMAIN list
    BY <1>1, <2>1
  <2>3. Within(k - 1)
    <3>1. k - 1 # 0 => k - 1 - 1 \in DOMAIN list /\ k - 1 - 1 <= k - 1
      BY <1>1, <2>1
    <3>2. QED
      BY <2>1, <3>1, FirstGroupIsPrefix
  <2>4. at[k - 1] = f[k - 1]
    BY <1>2, <2>2, <2>3
  <2>5. Weights(p)[k - 1] = Advance(p)[k - 1]
    BY <2>1, <2>2 DEF Weights, Advance
  <2>6. at[k] = at[k - 1] + Advance(p)[k - 1] /\ f[k] = f[k - 1] + Weights(p)[k - 1]
    BY <1>1, <2>1 DEF IsSums
  <2>7. QED
    BY <1>2, <2>4, <2>5, <2>6
<1>3. Differ = {}
  <2>1. Differ \in SUBSET Nat
    BY <1>1
  <2> HIDE DEF Differ
  <2>2. QED
    BY <1>2, <2>1, LeastElement
<1>4. QED
  BY <1>3

\* Every entry that is drawn in the first group belongs to one record of it.
LEMMA FirstGroupOwners ==
  ASSUME list \in Answers, NEW j \in Entries(list[0].priority)
  PROVE  \E s \in Group(list[0].priority) :
           /\ TabStart(list[0].priority)[s] <= j
           /\ j < TabStart(list[0].priority)[s + 1]
<1> DEFINE N  == Size(list)
           p  == list[0].priority
           f  == Sums(Weights(p))
           at == TabStart(p)
<1>1. /\ N \in Nat \ {0} /\ DOMAIN list = 0 .. N - 1
      /\ Weights(p) \in [0 .. N - 1 -> Nat] /\ IsSums(f, Weights(p), N)
  BY WeightSums
<1>2. j \in Nat /\ j < f[N]
  <2>1. f[N] \in Int
    BY <1>1 DEF IsSums
  <2>2. QED
    BY <2>1 DEF Entries, TotWeight
<1>3. PICK s \in 0 .. N - 1 : f[s] <= j /\ j < f[s + 1]
  <2> HIDE DEF N, f
  <2>1. QED
    BY <1>1, <1>2, SumsPass
<1>4. s \in 0 .. N /\ s + 1 \in 1 .. N /\ s + 1 \in 0 .. N /\ s + 1 - 1 = s
  BY <1>1
<1>5. s \in Group(p)
  <2>1. f[s + 1] = f[s] + Weights(p)[s] /\ f[s] \in Int /\ f[s + 1] \in Int
    <3> HIDE DEF N, f, p
    <3>1. QED
      BY <1>1, <1>4 DEF IsSums
  <2>2. Weights(p)[s] # 0
    BY <1>2, <1>3, <2>1
  <2>3. QED
    BY <1>1, <2>2 DEF Weights
<1>6. s = 0 \/ s - 1 \in Group(p)
  <2>1. s # 0 => s - 1 \in DOMAIN list /\ s - 1 <= s
    BY <1>1
  <2>2. QED
    BY <1>5, <2>1, FirstGroupIsPrefix
<1>7. at[s] = f[s] /\ at[s + 1] = f[s + 1]
  BY <1>4, <1>5, <1>6, FirstGroupStarts
<1>8. QED
  BY <1>3, <1>5, <1>7

\* Hence in the first group no weight is spent on other records, and every entry is
\* that of the record whose share it lies in.
LEMMA FirstGroupEntries ==
  ASSUME list \in Answers, NEW s \in Group(list[0].priority), NEW j \in Entries(list[0].priority)
  PROVE  TabWeight(list[0].priority, j) = {s} <=>
           /\ TabStart(list[0].priority)[s] <= j
           /\ j < TabStart(list[0].priority)[s + 1]
<1> DEFINE N  == Size(list)
           p  == list[0].priority
           at == TabStart(p)
           Owns(r) == at[r] <= j /\ j < at[r + 1]
<1>1. /\ N \in Nat \ {0} /\ DOMAIN list = 0 .. N - 1
      /\ Advance(p) \in [0 .. N - 1 -> Nat] /\ IsSums(at, Advance(p), N)
  BY WeightSums
<1>2. ASSUME NEW q \in Group(p), NEW r \in Group(p), Owns(q), Owns(r) PROVE ~(q < r)
  <2>1. /\ q \in 0 .. N /\ r \in 0 .. N /\ q + 1 \in 0 .. N
        /\ (q < r => q + 1 <= r)
    BY <1>1 DEF Group
  <2>2. at[q + 1] \in Int /\ at[r] \in Int /\ (q < r => at[q + 1] <= at[r])
    <3> HIDE DEF at, N
    <3>1. at[q + 1] \in Int /\ at[r] \in Int
      BY <1>1, <2>1 DEF IsSums
    <3>2. ASSUME q < r PROVE at[q + 1] <= at[r]
      BY <1>1, <2>1, <3>2, SumsRise
    <3>3. QED
      BY <3>1, <3>2
  <2>3. j \in Int
    BY DEF Entries
  <2>4. QED
    BY <1>2, <2>2, <2>3
<1>3. \A q, r \in Group(p) : Owns(q) /\ Owns(r) => q = r
  <2>1. \A q \in Group(p) : q \in Int
    BY <1>1 DEF Group
  <2>2. QED
    BY <1>2, <2>1
<1>4. \E r \in Group(p) : Owns(r)
  BY FirstGroupOwners
<1>5. TabWeight(p, j) = {r \in Group(p) : Owns(r)}
  BY <1>4 DEF TabWeight
<1>6. QED
  BY <1>3, <1>4, <1>5

\* A draw in the first group falls on each server in proportion to its weight,
\* whatever the entries of the table that belong to no server hold.
LEMMA ShareOfFirstGroup ==
  ASSUME list \in Answers, NEW s \in Group(list[0].priority)
  PROVE  Cardinality({j \in Entries(list[0].priority) : TabWeight(list[0].priority, j) = {s}})
           = list[s].weight
<1> DEFINE N  == Size(list)
           p  == list[0].priority
           f  == Sums(Weights(p))
           at == TabStart(p)
<1>1. /\ N \in Nat \ {0} /\ DOMAIN list = 0 .. N - 1
      /\ Weights(p) \in [0 .. N - 1 -> Nat] /\ IsSums(f, Weights(p), N)
      /\ Advance(p) \in [0 .. N - 1 -> Nat] /\ IsSums(at, Advance(p), N)
  BY WeightSums
<1>2. /\ s \in 0 .. N - 1 /\ s \in 0 .. N /\ s + 1 \in 1 .. N /\ s + 1 \in 0 .. N
      /\ s + 1 - 1 = s /\ 0 \in 0 .. N /\ N \in 0 .. N /\ 0 <= s /\ s + 1 <= N
  BY <1>1 DEF Group
<1>3. at[s + 1] = at[s] + list[s].weight /\ list[s].weight \in Nat
  <2>1. Advance(p)[s] = list[s].weight
    BY <1>1, <1>2 DEF Advance
  <2>2. at[s + 1] = at[(s + 1) - 1] + Advance(p)[(s + 1) - 1]
    BY <1>1, <1>2 DEF IsSums
  <2>3. Weights(p)[s] \in Nat /\ Advance(p)[s] \in Nat
    BY <1>1, <1>2
  <2>4. QED
    BY <1>2, <2>1, <2>2, <2>3
<1>4. at[s + 1] = f[s + 1]
  BY <1>2, FirstGroupStarts
<1>5. 0 <= at[s] /\ at[s + 1] <= f[N] /\ at[s] \in Int /\ f[N] \in Int
  <2>1. at[0] = 0 /\ at[s] \in Int /\ f[N] \in Int
    BY <1>1, <1>2 DEF IsSums
  <2>2. at[0] <= at[s] /\ f[s + 1] <= f[N]
    <3> HIDE DEF at, f, N
    <3>1. QED
      BY <1>1, <1>2, SumsRise
  <2>3. QED
    BY <1>4, <2>1, <2>2
<1>6. TotWeight(p) = f[N]
  BY DEF TotWeight
<1>7. {j \in Entries(p) : TabWeight(p, j) = {s}} = {j \in Entries(p) : at[s] <= j /\ j < at[s + 1]}
  BY FirstGroupEntries
<1>8. Entries(p) = 0 .. f[N] - 1
  BY <1>6 DEF Entries
<1> HIDE DEF N, f, at, p
<1>9. {j \in Entries(p) : at[s] <= j /\ j < at[s + 1]} = at[s] .. at[s + 1] - 1
  <2>1. at[s + 1] \in Int
    BY <1>3, <1>5
  <2>2. \A j \in at[s] .. at[s + 1] - 1 : j \in Entries(p) /\ at[s] <= j /\ j < at[s + 1]
    BY <1>5, <1>8, <2>1
  <2>3. \A j \in Entries(p) : at[s] <= j /\ j < at[s + 1] => j \in at[s] .. at[s + 1] - 1
    BY <1>5, <1>8, <2>1
  <2>4. QED
    BY <2>2, <2>3
<1>10. Cardinality(at[s] .. at[s + 1] - 1) = list[s].weight
  <2> DEFINE b == at[s + 1] - 1
             w == list[s].weight
  <2>1. at[s] \in Int /\ b \in Int /\ b = at[s] + w - 1 /\ w \in Nat
    BY <1>3, <1>5
  <2> HIDE DEF b, w
  <2>2. Cardinality(at[s] .. b) = IF at[s] > b THEN 0 ELSE b - at[s] + 1
    BY <2>1, FS_Interval
  <2>3. Cardinality(at[s] .. b) = w
    BY <2>1, <2>2
  <2>4. QED
    BY <2>3 DEF b, w
<1>11. Cardinality({j \in Entries(p) : TabWeight(p, j) = {s}}) = list[s].weight
  BY <1>7, <1>9, <1>10
<1>12. QED
  BY <1>11 DEF p

\* rand() picks an entry of tab_weight: in the first group each server has as
\* many as its weight (init_tab_weight, get_srv_info.c:49-65).
THEOREM FirstGroupShare == Spec => []ShareIsWeight
<1>1. TypeOK => ShareIsWeight
  <2> SUFFICES ASSUME TypeOK, pc = "draw", begin = 0, NEW s \in Group(list[0].priority)
               PROVE  Cardinality({j \in Entries(list[0].priority) :
                                     TabWeight(list[0].priority, j) = {s}}) = list[s].weight
    BY DEF ShareIsWeight
  <2>1. list \in Answers
    BY DEF TypeOK
  <2>2. QED
    BY <2>1, ShareOfFirstGroup
<1>2. QED
  BY <1>1, IndicesInList, PTL

-----------------------------------------------------------------------------
(* The order of the groups.                                                *)

\* A draw in the group a round starts with is a server of that group.
FirstTry == pc = "connect" /\ begin = 0 => list[pos].priority = list[0].priority

\* All entries of the first group's table are written.
LEMMA FirstTryStep ==
  ASSUME Inv, FirstTry, [Next]_vars PROVE FirstTry'
<1> USE DEF Inv, TypeOK
<1>1. CASE Call \/ Retry \/ ResolveFails \/ \E a \in Answers : Resolve(a)
  BY <1>1 DEF Call, Retry, ResolveFails, Resolve, FirstTry
<1>2. CASE GiveUp \/ NextGroup \/ EnterGroup \/ DrawOutside \/ ConnectOK \/ ConnectFails
  BY <1>2 DEF GiveUp, NextGroup, EnterGroup, DrawOutside, ConnectOK, ConnectFails, FirstTry
<1>3. ASSUME NEW t \in TtlThreads, SpentTtl(t) \/ TtlClose(t) \/ Reload(t) PROVE FirstTry'
  BY <1>3 DEF SpentTtl, TtlClose, Reload, FirstTry
<1>4. CASE Draw(DOMAIN list)
  <2>1. list \in Answers /\ UNCHANGED <<list, begin>>
    BY <1>4 DEF Draw
  <2>2. SUFFICES ASSUME begin = 0 PROVE list[pos'].priority = list[0].priority
    BY <2>1 DEF FirstTry
  <2>3. PICK j \in Entries(list[0].priority) : pos' \in TabWeight(list[0].priority, j)
    BY <1>4, <2>2 DEF Draw
  <2>4. \E r \in Group(list[0].priority) :
          /\ TabStart(list[0].priority)[r] <= j
          /\ j < TabStart(list[0].priority)[r + 1]
    BY <2>1, FirstGroupOwners
  <2>5. pos' \in Group(list[0].priority)
    BY <2>3, <2>4 DEF TabWeight
  <2>6. QED
    BY <2>5 DEF Group
<1>5. ASSUME NEW t \in Targets, BrokerChanges(t) PROVE FirstTry'
  BY <1>5 DEF BrokerChanges, FirstTry
<1>6. CASE UNCHANGED vars
  BY <1>6 DEF vars, others, FirstTry
<1>7. QED
  BY <1>1, <1>2, <1>3, <1>4, <1>5, <1>6 DEF Next

\* A server is tried only when every server of the groups the round has left has
\* failed; the first group is tried by its own servers alone.
THEOREM PriorityOrder == Spec => []LowerGroupsFailed
<1>1. Init => FirstTry
  BY DEF Init, FirstTry
<1>2. Inv /\ FirstTry /\ [Next]_vars => FirstTry'
  BY FirstTryStep
<1>3. Inv /\ FirstTry => LowerGroupsFailed
  <2> SUFFICES ASSUME Inv, FirstTry, pc = "connect" PROVE LowerGroupsFailed
    BY DEF LowerGroupsFailed
  <2>1. list \in Answers /\ begin \in DOMAIN list /\ pos \in DOMAIN list
    BY DEF Inv, TypeOK
  <2>2. /\ 0 \in DOMAIN list /\ begin # None
        /\ \A s \in DOMAIN list : list[s].priority \in Nat
    BY <2>1, Records DEF None
  <2>3. \A s \in DOMAIN list : list[s].priority < list[begin].priority => ~is_up[s]
    BY <2>2 DEF Inv, Progress
  <2>4. list[pos].priority >= list[begin].priority
    BY <2>1, <2>2, <2>3 DEF Inv, Progress
  <2>5. ASSUME NEW s \in DOMAIN list, list[s].priority < list[pos].priority, is_up[s]
        PROVE  begin # 0 /\ list[s].priority >= list[begin].priority
    <3>1. list[s].priority >= list[begin].priority
      BY <2>1, <2>2, <2>3, <2>5
    <3>2. CASE begin = 0
      BY <2>2, <2>5, <3>1, <3>2 DEF FirstTry
    <3>3. QED
      BY <3>1, <3>2
  <2>6. QED
    BY <2>4, <2>5 DEF LowerGroupsFailed
<1>4. QED
  BY <1>1, <1>2, <1>3, InvHolds, PTL DEF Spec

-----------------------------------------------------------------------------
(* Giving up.                                                              *)

AllFailed == \A s \in DOMAIN list : ~is_up[s]

\* A search that ended in vain has tried everything, and so it is until the next
\* answer; the one list in use has its server in rmqserver.
Exhausted ==
  Weighed(list) =>
    /\ pc = "group" /\ begin = None => AllFailed
    /\ pc = "sleep" => AllFailed
    /\ pc \in {"idle", "resolve"} /\ rmqserver = None => AllFailed

\* When no further group is found, those behind and the last one have failed.
LEMMA LastGroup ==
  ASSUME Inv, NextGroup, begin' = None PROVE AllFailed
<1>1. list \in Answers /\ begin \in DOMAIN list
  BY DEF Inv, TypeOK, NextGroup, Usable
<1>2. /\ DOMAIN list \subseteq Nat
      /\ \A s \in DOMAIN list : list[s].priority \in Nat
      /\ \A r, s \in DOMAIN list : r < s => list[r].priority <= list[s].priority
  BY <1>1, Records
<1>3. \A s \in DOMAIN list : list[s].priority <= list[begin].priority => ~is_up[s]
  BY <1>1, <1>2 DEF Inv, Progress, NextGroup, Usable, AllDown, Group
<1>4. NextPriority(begin, None)
  BY DEF NextGroup
<1>5. ASSUME NEW s \in DOMAIN list PROVE list[s].priority <= list[begin].priority
  <2>1. None \notin DOMAIN list
    BY <1>2 DEF None
  <2>2. ~(s >= begin /\ list[s].priority # list[begin].priority)
    BY <1>4, <2>1 DEF NextPriority
  <2>3. s < begin => list[s].priority <= list[begin].priority
    BY <1>1, <1>2
  <2>4. QED
    BY <1>1, <1>2, <2>2, <2>3
<1>6. QED
  BY <1>3, <1>5 DEF AllFailed

\* A round leaves a group only when get_tot_false counts all of it.
LEMMA ExhaustedStep ==
  ASSUME Inv, Exhausted, [Next]_vars PROVE Exhausted'
<1> USE DEF Inv, TypeOK
<1>1. CASE Call \/ Retry
  BY <1>1 DEF Call, Retry, Exhausted, AllFailed, Weighed
<1>2. CASE ResolveFails
  <2>1. CASE rmqserver # None
    BY <1>2, <2>1 DEF ResolveFails, Freed, Exhausted, AllFailed
  <2>2. CASE rmqserver = None
    BY <1>2, <2>2 DEF ResolveFails, Exhausted, AllFailed, Weighed
  <2>3. QED
    BY <2>1, <2>2
<1>3. ASSUME NEW a \in Answers, Resolve(a) PROVE Exhausted'
  BY <1>3 DEF Resolve, Exhausted, None
<1>4. CASE GiveUp
  <2>1. ASSUME Weighed(list) PROVE AllFailed
    <3>1. CASE pc = "group" /\ ~Usable
      BY <2>1, <3>1 DEF Usable, Weighed, Exhausted
    <3>2. CASE pc = "draw" /\ TotWeight(list[begin].priority) <= 0
      <4>1. list \in Answers /\ begin \in DOMAIN list /\ list[begin].weight > 0
        BY <2>1, <3>2 DEF Weighed
      <4>2. TotWeight(list[begin].priority) > 0
        BY <4>1, TotWeightPositive
      <4>3. TotWeight(list[begin].priority) \in Int
        BY <4>1, WeightSums DEF TotWeight, IsSums
      <4>4. QED
        BY <3>2, <4>2, <4>3
    <3>3. QED
      BY <1>4, <3>1, <3>2 DEF GiveUp
  <2>2. QED
    BY <1>4, <2>1 DEF GiveUp, Exhausted, AllFailed, Weighed
<1>5. CASE NextGroup
  BY <1>5, LastGroup DEF NextGroup, Exhausted, AllFailed
<1>6. CASE EnterGroup \/ Draw(DOMAIN list) \/ DrawOutside
  BY <1>6 DEF EnterGroup, Draw, DrawOutside, Exhausted
<1>7. CASE ConnectOK
  <2>1. pos # None /\ pos \in DOMAIN list
    BY <1>7, Records DEF ConnectOK, None
  <2>2. QED
    BY <1>7, <2>1 DEF ConnectOK, Exhausted
<1>8. CASE ConnectFails
  <2>1. begin # None
    <3>1. list \in Answers /\ begin \in DOMAIN list
      BY <1>8 DEF ConnectFails
    <3>2. DOMAIN list \subseteq Nat
      BY <3>1, Records
    <3>3. QED
      BY <3>1, <3>2 DEF None
  <2>2. pc' = "group" /\ begin' = begin
    BY <1>8 DEF ConnectFails
  <2>3. QED
    BY <2>1, <2>2 DEF Exhausted
<1>9. ASSUME NEW t \in Targets, BrokerChanges(t) PROVE Exhausted'
  BY <1>9 DEF BrokerChanges, Exhausted, AllFailed, Weighed
<1>10. ASSUME NEW t \in TtlThreads, SpentTtl(t) \/ TtlClose(t) \/ Reload(t) PROVE Exhausted'
  BY <1>10 DEF SpentTtl, TtlClose, Reload, Unlocked, Exhausted, AllFailed, Weighed
<1>11. CASE UNCHANGED vars
  BY <1>11 DEF vars, others, Exhausted, AllFailed, Weighed
<1>12. QED
  BY <1>1, <1>2, <1>3, <1>4, <1>5, <1>6, <1>7, <1>8, <1>9, <1>10, <1>11 DEF Next

\* set_rmq_server_list sleeps a minute (set_mq_host.c:207) only when it has tried
\* every server of the last answer, or a record of it weighs nothing or has no port.
THEOREM GivesUpInTheEnd == Spec => []GivesUpWhenAllFailed
<1>1. Init => Exhausted
  BY DEF Init, Exhausted, AllFailed, Freed
<1>2. Inv /\ Exhausted /\ [Next]_vars => Exhausted'
  BY ExhaustedStep
<1>3. Exhausted => GivesUpWhenAllFailed
  BY DEF Exhausted, AllFailed, GivesUpWhenAllFailed
<1>4. QED
  BY <1>1, <1>2, <1>3, InvHolds, PTL DEF Spec
=============================================================================
