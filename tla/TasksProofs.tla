----------------------------- MODULE TasksProofs -----------------------------
(***************************************************************************)
(* The current host name is never freed and no name leaks, and no message  *)
(* is counted twice, for any names, buffers, periods and number of threads.*)
(***************************************************************************)
EXTENDS Tasks, TLAPS

Places == {"none", "read", "copy", "send", "get", "compare", "take", "swap", "free", "write", "base"}

Held == Buffers \cup {NoBuffer}

LEMMA ThreadPair ==
  ASSUME NEW th \in Threads
  PROVE  /\ th = <<th[1], th[2]>> /\ th[1] \in Tasks /\ th[2] \in 1 .. MaxThreads[th[1]]
BY DEF Threads

-----------------------------------------------------------------------------
(* The host name.                                                          *)

Types ==
  /\ at \in [Threads -> Places]
  /\ tmp \in [Threads -> Held] /\ tmp1 \in [Threads -> Held]
  /\ myhostname \in Buffers /\ allocated \in SUBSET Buffers

\* What a thread has in hand at each place.
InHand(th) ==
  /\ at[th] \in {"compare", "take", "swap"} => tmp[th] \in allocated \ {myhostname}
  /\ at[th] \notin {"compare", "take", "swap"} => tmp[th] = NoBuffer
  /\ at[th] = "swap" => tmp1[th] = myhostname
  /\ at[th] = "free" => tmp1[th] \in allocated \ {myhostname}
  /\ at[th] \notin {"swap", "free"} => tmp1[th] = NoBuffer

\* There is one check at a time, so it knows all names but the current one.
NamesInHand ==
  /\ Types
  /\ \A th \in Threads : InHand(th)
  /\ \A th, ti \in Checking : th = ti
  /\ myhostname \in allocated
  /\ \A b \in allocated : b = myhostname \/ \E th \in Checking : b \in {tmp[th], tmp1[th]}

LEMMA KeptFromNames == NamesInHand => NameKept
BY TasksAssumption DEF NamesInHand, Types, InHand, NameKept, Checking, Held

LEMMA InitNames == Init => NamesInHand
BY DEF Init, NamesInHand, Types, InHand, Checking, Held, Places

\* A step of the one check there is.
LEMMA CheckNames ==
  ASSUME NamesInHand, NEW th \in Threads, Check(th)
  PROVE  NamesInHand'
<1> USE TasksAssumption DEF NamesInHand, Types, InHand, Checking, Held, Places, Goto, world
<1>1. CASE Get(th)
  BY <1>1 DEF Get
<1>2. CASE Compare(th)
  BY <1>2 DEF Compare
<1>3. CASE Take(th)
  BY <1>3 DEF Take
<1>4. CASE Swap(th)
  BY <1>4 DEF Swap
<1>5. CASE Free(th)
  BY <1>5 DEF Free
<1>6. QED
  BY <1>1, <1>2, <1>3, <1>4, <1>5 DEF Check

\* The scheduler starts a check only when there is none.
LEMMA SecondNames ==
  ASSUME NamesInHand, Second
  PROVE  NamesInHand'
<1> DEFINE Started(th) == th[1] \in Due /\ th[2] = CHOOSE i \in Idle(th[1]) : TRUE
<1> USE DEF names, world
<1>1. \A th \in Threads : at'[th] = IF Started(th) THEN First(th[1]) ELSE at[th]
  BY DEF Second
<1>2. ASSUME NEW th \in Threads, Started(th) PROVE at[th] = "none"
  <2>1. th[2] \in Idle(th[1])
    BY <1>2 DEF Second
  <2>2. QED
    BY <2>1, ThreadPair DEF Idle
<1>3. ASSUME NEW th \in Threads, Started(th), First(th[1]) = "get"
      PROVE  th[1] = "hostname" /\ Checking = {}
  BY <1>3 DEF First, Second
<1>4. \A th \in Threads : Started(th) => First(th[1]) \in {"read", "write", "get"}
  BY DEF First
<1>5. \A th, ti \in Checking' : th = ti
  <2> SUFFICES ASSUME NEW th \in Checking', NEW ti \in Checking' PROVE th = ti
    OBVIOUS
  <2>1. th \in Threads /\ ti \in Threads
    BY DEF Checking
  <2>2. CASE Started(th) /\ Started(ti)
    <3>1. th[1] = "hostname" /\ ti[1] = "hostname"
      BY <1>1, <1>3, <1>4, <2>1, <2>2 DEF Checking
    <3>2. th[2] = ti[2]
      BY <3>1, <2>2
    <3>3. QED
      BY <3>1, <3>2, <2>1, ThreadPair
  <2>3. CASE ~Started(th)
    <3>1. th \in Checking
      BY <1>1, <2>1, <2>3 DEF Checking
    <3>2. ~Started(ti)
      BY <1>1, <1>3, <1>4, <2>1, <3>1 DEF Checking
    <3>3. ti \in Checking
      BY <1>1, <2>1, <3>2 DEF Checking
    <3>4. QED
      BY <3>1, <3>3 DEF NamesInHand
  <2>4. CASE ~Started(ti)
    <3>1. ti \in Checking
      BY <1>1, <2>1, <2>4 DEF Checking
    <3>2. ~Started(th)
      BY <1>1, <1>3, <1>4, <2>1, <3>1 DEF Checking
    <3>3. QED
      BY <2>3, <3>2
  <2>5. QED
    BY <2>2, <2>3, <2>4
<1>6. Checking \subseteq Checking'
  BY <1>1, <1>2 DEF Checking
<1>7. UNCHANGED <<myhostname, text, allocated, tmp, tmp1>>
  BY DEF Second
<1>8. Types'
  BY <1>7, ThreadPair DEF NamesInHand, Types, Places, Second, First
<1>9. ASSUME NEW th \in Threads PROVE InHand(th)'
  <2>1. CASE Started(th)
    BY <1>1, <1>2, <1>4, <1>7, <2>1 DEF NamesInHand, InHand
  <2>2. CASE ~Started(th)
    BY <1>1, <1>7, <2>2 DEF NamesInHand, InHand
  <2>3. QED
    BY <2>1, <2>2
<1>10. QED
  BY <1>5, <1>6, <1>7, <1>8, <1>9 DEF NamesInHand

LEMMA NextNames == NamesInHand /\ [Next]_vars => NamesInHand'
<1> SUFFICES ASSUME NamesInHand, [Next]_vars PROVE NamesInHand'
  OBVIOUS
<1>1. CASE Second
  BY <1>1, SecondNames
<1>2. ASSUME NEW th \in Threads, Check(th) PROVE NamesInHand'
  BY <1>2, CheckNames
<1> USE DEF NamesInHand, Types, InHand, Checking, Places, names, Goto
<1>3. CASE Rename
  BY <1>3 DEF Rename
<1>4. CASE Report
  BY <1>4 DEF Report
<1>5. ASSUME NEW th \in Threads, Metadata(th) \/ Drop(th) PROVE NamesInHand'
  <2>1. CASE ReadName(th)
    BY <2>1 DEF ReadName
  <2>2. CASE CopyName(th)
    BY <2>2 DEF CopyName
  <2>3. CASE Send(th)
    BY <2>3 DEF Send
  <2>4. CASE Drop(th)
    BY <2>4 DEF Drop
  <2>5. QED
    BY <1>5, <2>1, <2>2, <2>3, <2>4 DEF Metadata
<1>6. ASSUME NEW th \in Threads, Statistic(th) PROVE NamesInHand'
  <2>1. CASE WriteStat(th)
    BY <2>1 DEF WriteStat
  <2>2. CASE SetLast(th)
    BY <2>2 DEF SetLast
  <2>3. QED
    BY <1>6, <2>1, <2>2 DEF Statistic
<1>7. CASE UNCHANGED vars
  BY <1>7 DEF vars
<1>8. QED
  BY <1>1, <1>2, <1>3, <1>4, <1>5, <1>6, <1>7 DEF Next, Run

\* e->myhostname is never freed and no replaced name leaks (get_my_hostname.c:37-49).
THEOREM HostNameKept == Spec => []NameKept
<1>1. NamesInHand /\ [Next]_vars => NamesInHand'
  BY NextNames
<1>2. QED
  BY <1>1, InitNames, KeptFromNames, PTL DEF Spec

-----------------------------------------------------------------------------
(* The numbers of sent messages.                                           *)

\* A task has reported no more than its base, but between its two readings.
Sums ==
  /\ at \in [Threads -> Places]
  /\ \A th \in Threads : at[th] \in {"write", "base"} => th[1] \in Stats
  /\ nbr_sent_packet \in Nat
  /\ last \in [Stats -> Int] /\ reported \in [Stats -> Int]
  /\ \A t \in Stats :
       /\ last[t] <= nbr_sent_packet /\ reported[t] <= nbr_sent_packet
       /\ at[<<t, 1>>] # "base" => reported[t] <= last[t]

\* One thread at a time writes a file.
LEMMA StatThread ==
  /\ \A t \in Stats : <<t, 1>> \in Threads
  /\ \A th \in Threads : th[1] \in Stats => th = <<th[1], 1>>
<1>1. ASSUME NEW t \in Stats PROVE <<t, 1>> \in Threads
  BY TasksAssumption DEF Threads, Stats
<1>2. ASSUME NEW th \in Threads, th[1] \in Stats PROVE th = <<th[1], 1>>
  BY <1>2, TasksAssumption, ThreadPair
<1>3. QED
  BY <1>1, <1>2

LEMMA InitSums == Init => Sums
BY StatThread DEF Init, Sums, Places

LEMMA NextSums == Sums /\ [Next]_vars => Sums'
<1> SUFFICES ASSUME Sums, [Next]_vars PROVE Sums'
  OBVIOUS
<1> USE StatThread, TasksAssumption DEF Sums, Places, stats, Goto
\* Most steps leave the numbers alone and take no thread into or out of a file.
<1>a. ASSUME UNCHANGED stats, nbr_sent_packet' \in Nat, nbr_sent_packet <= nbr_sent_packet',
             at' \in [Threads -> Places],
             \A th \in Threads : at'[th] \in {"write", "base"} => th[1] \in Stats,
             \A t \in Stats : at[<<t, 1>>] = "base" => at'[<<t, 1>>] = "base"
      PROVE  Sums'
  BY <1>a
<1>b. Count => nbr_sent_packet' \in Nat /\ nbr_sent_packet <= nbr_sent_packet'
  BY DEF Count
<1>1. CASE Second
  <2>1. ASSUME NEW th \in Threads, at'[th] # at[th]
        PROVE  at[th] = "none" /\ at'[th] = First(th[1]) /\ th[1] \in Tasks
    <3>1. /\ th[1] \in Due /\ th[2] = CHOOSE i \in Idle(th[1]) : TRUE
          /\ at'[th] = First(th[1])
      BY <1>1, <2>1 DEF Second
    <3>2. th[2] \in Idle(th[1])
      BY <1>1, <3>1 DEF Second
    <3>3. QED
      BY <3>1, <3>2, ThreadPair DEF Idle
  <2>2. \A th \in Threads : at'[th] \in {"write", "base"} => th[1] \in Stats
    BY <2>1 DEF First, Stats
  <2>3. \A t \in Stats : at[<<t, 1>>] = "base" => at'[<<t, 1>>] = "base"
    BY <2>1
  <2>4. at' \in [Threads -> Places]
    BY <1>1 DEF Second, First
  <2>5. QED
    BY <1>1, <1>a, <2>2, <2>3, <2>4 DEF Second
<1>2. CASE Rename
  BY <1>2, <1>a DEF Rename
<1>3. CASE Report
  BY <1>3, <1>a, <1>b DEF Report
<1>4. ASSUME NEW th \in Threads, Check(th) PROVE Sums'
  <2>1. CASE Get(th)
    BY <2>1, <1>a DEF Get
  <2>2. CASE Compare(th)
    BY <2>2, <1>a DEF Compare
  <2>3. CASE Take(th)
    BY <2>3, <1>a DEF Take
  <2>4. CASE Swap(th)
    BY <2>4, <1>a DEF Swap
  <2>5. CASE Free(th)
    BY <2>5, <1>a DEF Free
  <2>6. QED
    BY <1>4, <2>1, <2>2, <2>3, <2>4, <2>5 DEF Check
<1>5. ASSUME NEW th \in Threads, Metadata(th) \/ Drop(th) PROVE Sums'
  <2>1. CASE ReadName(th)
    BY <2>1, <1>a DEF ReadName
  <2>2. CASE CopyName(th)
    BY <2>2, <1>a DEF CopyName
  <2>3. CASE Send(th)
    BY <2>3, <1>a, <1>b DEF Send
  <2>4. CASE Drop(th)
    BY <2>4, <1>a DEF Drop
  <2>5. QED
    BY <1>5, <2>1, <2>2, <2>3, <2>4 DEF Metadata
<1>6. ASSUME NEW th \in Threads, WriteStat(th) PROVE Sums'
  <2>1. th[1] \in Stats /\ th = <<th[1], 1>> /\ at[th] # "base"
    BY <1>6 DEF WriteStat
  <2>2. reported' = [reported EXCEPT ![th[1]] = @ + nbr_sent_packet - last[th[1]]]
    BY <1>6 DEF WriteStat
  <2>3. reported[th[1]] <= last[th[1]]
    BY <2>1
  <2>4. reported'[th[1]] <= nbr_sent_packet /\ reported' \in [Stats -> Int]
    BY <2>1, <2>2, <2>3
  <2>5. QED
    BY <1>6, <2>1, <2>2, <2>4 DEF WriteStat
<1>7. ASSUME NEW th \in Threads, SetLast(th) PROVE Sums'
  <2>1. th[1] \in Stats /\ th = <<th[1], 1>>
    BY <1>7 DEF SetLast
  <2>2. last' = [last EXCEPT ![th[1]] = nbr_sent_packet]
    BY <1>7 DEF SetLast
  <2>3. QED
    BY <1>7, <2>1, <2>2 DEF SetLast
<1>8. CASE UNCHANGED vars
  BY <1>8, <1>a DEF vars
<1>9. QED
  BY <1>1, <1>2, <1>3, <1>4, <1>5, <1>6, <1>7, <1>8 DEF Next, Run, Statistic

\* All the numbers a statistics task has written make no more than what was sent,
\* although it reads the counter twice without its lock (write_stats.c:39-40).
THEOREM MessagesCountedOnce == Spec => []CountedOnce
<1>1. Sums => CountedOnce
  BY DEF Sums, CountedOnce
<1>2. Sums /\ [Next]_vars => Sums'
  BY NextSums
<1>3. QED
  BY <1>1, <1>2, InitSums, PTL DEF Spec
=============================================================================
