------------------------ MODULE HandshakeTableProofs ------------------------
(***************************************************************************)
(* What holds of the handshake table for every table size, set of          *)
(* connections, number of garbage passes and way a memset is preempted.    *)
(***************************************************************************)
EXTENDS HandshakeTable, TLAPS

\* Erasing fields of a slot gives a slot whose fields kept their value or are 0.
LEMMA EraseType ==
  ASSUME NEW slot \in [Fields -> Int], NEW fs
  PROVE  /\ Erase(slot, fs) \in [Fields -> Int]
         /\ \A f \in Fields : Erase(slot, fs)[f] \in {0, slot[f]}
BY DEF Erase

\* Writing one field of one slot keeps the type of the table.
LEMMA WriteType ==
  ASSUME NEW m \in [Slots -> [Fields -> Int]], NEW s \in Slots,
         NEW f \in Fields, NEW v \in Int
  PROVE  [m EXCEPT ![s][f] = v] \in [Slots -> [Fields -> Int]]
OBVIOUS

\* The initial state is well typed.
LEMMA InitType == Init => TypeOK
<1> SUFFICES ASSUME Init PROVE TypeOK
  OBVIOUS
<1> USE SizesAssumption DEF Init
<1>1. WorldType
  BY WorldAssumption DEF WorldType, Times
<1>2. TableType
  BY DEF TableType, Cleared
<1>3. CaptureType
  BY DEF CaptureType, NoMsg, PcSet
<1>4. PassType
  BY DEF PassType, GpcSet
<1>5. QED
  BY <1>1, <1>2, <1>3, <1>4 DEF TypeOK

\* Steps of the capture thread that leave the table alone.
LEMMA CaptureOnlyType ==
  ASSUME TypeOK,
         (\E p \in Packets : Receive(p)) \/ ScanSlot \/ BuildMsg \/ SendReturns
  PROVE  TypeOK'
<1> USE SizesAssumption DEF TypeOK, passes, tables, world
<1>1. ASSUME NEW p \in Packets, Receive(p) PROVE TypeOK'
  <2>1. WorldType'
    BY <1>1 DEF Receive, WorldType, Times
  <2>2. CaptureType'
    BY <1>1 DEF Receive, CaptureType, PcSet, WorldType, Times
  <2>3. QED
    BY <1>1, <2>1, <2>2 DEF Receive, TableType, PassType
<1>2. CASE ScanSlot
  <2>1. pkt \in Packets
    BY <1>2 DEF ScanSlot, CaptureType
  <2>2. CaptureType'
    BY <1>2, <2>1 DEF ScanSlot, CaptureType, PcSet, Packets, Kinds, Slots
  <2>3. QED
    BY <1>2, <2>2 DEF ScanSlot, WorldType, TableType, PassType
<1>3. CASE BuildMsg
  <2>1. n \in Slots /\ msg_tab[n] \in [Fields -> Int]
    BY <1>3 DEF BuildMsg, CaptureType, TableType
  <2>2. CaptureType'
    BY <1>3, <2>1 DEF BuildMsg, CaptureType, PcSet, Fields
  <2>3. QED
    BY <1>3, <2>2 DEF BuildMsg, WorldType, TableType, PassType
<1>4. CASE SendReturns
  <2>1. CaptureType'
    BY <1>4 DEF SendReturns, CaptureType, PcSet, NoMsg
  <2>2. QED
    BY <1>4, <2>1 DEF SendReturns, WorldType, TableType, PassType
<1>5. QED
  BY <1>1, <1>2, <1>3, <1>4


\* Steps of the capture thread that write the table.
LEMMA CaptureTableType ==
  ASSUME TypeOK,
         \/ FilterAck \/ ScanFails
         \/ SetSynTime \/ SetSynIdent \/ SetSynackTime \/ SetSynackIdent \/ SetAck
         \/ ComputeTimes \/ LockForClear \/ ClearReported
  PROVE  TypeOK'
<1> USE SizesAssumption, ConnsAssumption DEF TypeOK, Goto, Return
<1>0. pc \notin {"idle", "filter", "scan"} => n \in Slots /\ msg_tab[n] \in [Fields -> Int]
  BY DEF CaptureType, TableType
<1>1. CASE FilterAck \/ ScanFails
  <2>1. CaptureType'
    <3>1. CASE FilterAck
      BY <3>1 DEF FilterAck, CaptureType, PcSet
    <3>2. CASE ScanFails
      BY <3>2 DEF ScanFails, CaptureType, PcSet
    <3>3. QED
      BY <1>1, <3>1, <3>2
  <2>2. TableType'
    <3>1. CASE FilterAck
      BY <3>1 DEF FilterAck, TableType, Bump, Counters
    <3>2. CASE ScanFails
      BY <3>2 DEF ScanFails, TableType, Bump, Counters
    <3>3. QED
      BY <1>1, <3>1, <3>2
  <2>3. QED
    BY <1>1, <2>1, <2>2 DEF FilterAck, ScanFails, WorldType, PassType, world, passes
<1>2. CASE SetSynTime
  <2>1. CaptureType'
    BY <1>2 DEF SetSynTime, CaptureType, PcSet
  <2>2. msg_tab' \in [Slots -> [Fields -> Int]]
    <3>1. n \in Slots /\ "c_syn_tv" \in Fields /\ tv \in Int
      BY <1>0, <1>2 DEF SetSynTime, CaptureType, Fields
    <3>2. msg_tab' = [msg_tab EXCEPT ![n]["c_syn_tv"] = tv]
      BY <1>2 DEF SetSynTime
    <3>3. msg_tab \in [Slots -> [Fields -> Int]]
      BY DEF TableType
    <3>4. QED
      BY <3>1, <3>2, <3>3, WriteType
  <2>3. n \in Nat
    BY DEF CaptureType
  <2>4. stat' \in [Counters -> Nat]
    BY <1>2, <2>3 DEF SetSynTime, TableType
  <2>5. QED
    BY <1>2, <2>1, <2>2, <2>4 DEF SetSynTime, TableType, WorldType, PassType, world, passes
<1>3. CASE SetSynIdent
  <2>1. CaptureType'
    BY <1>3 DEF SetSynIdent, CaptureType, PcSet
  <2>2. Client[pkt.conn] \in Int /\ Isn[pkt.conn] \in Int
    BY <1>3 DEF SetSynIdent, CaptureType, Packets
  <2>3. msg_tab' \in [Slots -> [Fields -> Int]]
    BY <1>0, <1>3, <2>2 DEF SetSynIdent, TableType, Fields
  <2>4. stat' \in [Counters -> Nat]
    BY <1>3 DEF SetSynIdent, TableType, Bump, Counters
  <2>5. QED
    BY <1>3, <2>1, <2>3, <2>4 DEF SetSynIdent, TableType, WorldType, PassType, world, passes
<1>4. CASE SetSynackTime
  <2>1. CaptureType'
    BY <1>4 DEF SetSynackTime, CaptureType, PcSet
  <2>2. msg_tab' \in [Slots -> [Fields -> Int]]
    <3>1. n \in Slots /\ "s_tv" \in Fields /\ tv \in Int
      BY <1>0, <1>4 DEF SetSynackTime, CaptureType, Fields
    <3>2. msg_tab' = [msg_tab EXCEPT ![n]["s_tv"] = tv]
      BY <1>4 DEF SetSynackTime
    <3>3. msg_tab \in [Slots -> [Fields -> Int]]
      BY DEF TableType
    <3>4. QED
      BY <3>1, <3>2, <3>3, WriteType
  <2>3. QED
    BY <1>4, <2>1, <2>2 DEF SetSynackTime, TableType, WorldType, PassType, world, passes
<1>5. CASE SetSynackIdent
  <2>1. CaptureType'
    BY <1>5 DEF SetSynackIdent, CaptureType, PcSet
  <2>2. ServerIsn[pkt.conn] \in Nat
    BY <1>5 DEF SetSynackIdent, CaptureType, Packets
  <2>3. msg_tab' \in [Slots -> [Fields -> Int]]
    <3>1. n \in Slots /\ "s_syn" \in Fields /\ ServerIsn[pkt.conn] \in Int
      BY <1>0, <1>5, <2>2 DEF SetSynackIdent, Fields
    <3>2. msg_tab' = [msg_tab EXCEPT ![n]["s_syn"] = ServerIsn[pkt.conn]]
      BY <1>5 DEF SetSynackIdent
    <3>3. msg_tab \in [Slots -> [Fields -> Int]]
      BY DEF TableType
    <3>4. QED
      BY <3>1, <3>2, <3>3, WriteType
  <2>4. stat' \in [Counters -> Nat]
    BY <1>5 DEF SetSynackIdent, TableType, Bump, Counters
  <2>5. hash_ack' \in [0 .. HashSize - 1 -> Nat]
    BY <1>5, <2>2 DEF SetSynackIdent, TableType
  <2>6. QED
    BY <1>5, <2>1, <2>3, <2>4, <2>5 DEF SetSynackIdent, TableType, WorldType, PassType, world, passes
<1>6. CASE SetAck
  <2>1. CaptureType'
    BY <1>6 DEF SetAck, CaptureType, PcSet
  <2>2. msg_tab' \in [Slots -> [Fields -> Int]]
    <3>1. n \in Slots /\ "c_ack_tv" \in Fields /\ tv \in Int
      BY <1>0, <1>6 DEF SetAck, CaptureType, Fields
    <3>2. msg_tab' = [msg_tab EXCEPT ![n]["c_ack_tv"] = tv]
      BY <1>6 DEF SetAck
    <3>3. msg_tab \in [Slots -> [Fields -> Int]]
      BY DEF TableType
    <3>4. QED
      BY <3>1, <3>2, <3>3, WriteType
  <2>3. stat' \in [Counters -> Nat]
    BY <1>6 DEF SetAck, TableType, Bump, Counters
  <2>4. hash_ack' \in [0 .. HashSize - 1 -> Nat]
    BY <1>6 DEF SetAck, TableType
  <2>5. QED
    BY <1>6, <2>1, <2>2, <2>3, <2>4 DEF SetAck, TableType, WorldType, PassType, world, passes
<1>7. CASE ComputeTimes
  <2>1. CaptureType'
    BY <1>7 DEF ComputeTimes, CaptureType, PcSet
  <2> DEFINE srt == msg_tab[n]["s_tv"] - msg_tab[n]["c_syn_tv"]
             crt == msg_tab[n]["c_ack_tv"] - msg_tab[n]["s_tv"]
             once == [msg_tab EXCEPT ![n]["server_rep_time"] = srt]
  <2>2. n \in Slots /\ srt \in Int /\ crt \in Int
    BY <1>0, <1>7 DEF ComputeTimes, Fields
  <2>3. once \in [Slots -> [Fields -> Int]]
    BY <2>2, WriteType DEF TableType, Fields
  <2>4. msg_tab' = [once EXCEPT ![n]["client_rep_time"] = crt]
    BY <1>7 DEF ComputeTimes
  <2> HIDE DEF srt, crt, once
  <2>5. msg_tab' \in [Slots -> [Fields -> Int]]
    BY <2>2, <2>3, <2>4, WriteType DEF Fields
  <2>6. QED
    BY <1>7, <2>1, <2>5 DEF ComputeTimes, TableType, WorldType, PassType, world, passes
<1>8. CASE LockForClear
  <2>1. CaptureType'
    BY <1>8 DEF LockForClear, CaptureType, PcSet
  <2>2. QED
    BY <1>8, <2>1 DEF LockForClear, TableType, WorldType, PassType, world, passes, tables
<1>9. CASE ClearReported
  <2>1. CaptureType'
    BY <1>9 DEF ClearReported, CaptureType, PcSet
  <2>2. msg_tab' \in [Slots -> [Fields -> Int]]
    BY <1>0, <1>9 DEF ClearReported, TableType, Cleared
  <2>3. QED
    BY <1>9, <2>1, <2>2 DEF ClearReported, TableType, WorldType, PassType, world, passes
<1>10. QED
  BY <1>1, <1>2, <1>3, <1>4, <1>5, <1>6, <1>7, <1>8, <1>9

\* Every step of a garbage pass keeps the types.
LEMMA GcType ==
  ASSUME TypeOK, NEW t \in GcThreads, GcNext(t)
  PROVE  TypeOK'
<1> USE SizesAssumption DEF TypeOK, capture, tables, world, GcGoto
<1>1. CASE GcStart(t)
  <2>1. now \in Nat
    BY DEF WorldType, Times
  <2>2. PassType'
    BY <1>1, <2>1 DEF GcStart, PassType, GpcSet
  <2>3. QED
    BY <1>1, <2>2 DEF GcStart, WorldType, TableType, CaptureType
<1>2. CASE GcCheck(t)
  <2>1. gn[t] \in 0 .. MaxTabSize /\ gn[t] < MaxTabSize
    BY <1>2 DEF GcCheck, PassType
  <2>2. PassType'
    BY <1>2, <2>1 DEF GcCheck, PassType, GpcSet, Slots
  <2>3. QED
    BY <1>2, <2>2 DEF GcCheck, WorldType, TableType, CaptureType
<1>3. CASE GcLock(t)
  <2>1. PassType'
    BY <1>3 DEF GcLock, PassType, GpcSet
  <2>2. QED
    BY <1>3, <2>1 DEF GcLock, WorldType, TableType, CaptureType
<1>4. ASSUME NEW fs \in Halves, GcClearHalf(t, fs) PROVE TypeOK'
  <2>1. PassType'
    BY <1>4 DEF GcClearHalf, PassType, GpcSet
  <2>2. gn[t] \in Slots
    BY <1>4 DEF GcClearHalf, PassType
  <2>3. msg_tab' \in [Slots -> [Fields -> Int]]
    BY <1>4, <2>2, EraseType DEF GcClearHalf, TableType
  <2>4. QED
    BY <1>4, <2>1, <2>3 DEF GcClearHalf, WorldType, TableType, CaptureType
<1>5. CASE GcClearRest(t)
  <2>1. gn[t] \in Slots
    BY <1>5 DEF GcClearRest, PassType
  <2>2. PassType'
    BY <1>5, <2>1 DEF GcClearRest, PassType, GpcSet, Slots
  <2>3. msg_tab' \in [Slots -> [Fields -> Int]]
    BY <1>5, <2>1, EraseType DEF GcClearRest, TableType
  <2>4. QED
    BY <1>5, <2>2, <2>3 DEF GcClearRest, WorldType, TableType, CaptureType
<1>6. CASE GcLoadStat(t)
  <2>1. PassType'
    BY <1>6 DEF GcLoadStat, PassType, GpcSet, TableType, Counters
  <2>2. QED
    BY <1>6, <2>1 DEF GcLoadStat, WorldType, TableType, CaptureType
<1>7. CASE GcStoreStat(t)
  <2>1. PassType'
    BY <1>7 DEF GcStoreStat, PassType, GpcSet
  <2>2. loaded[t] + count[t] \in Nat
    BY DEF PassType
  <2>3. stat' \in [Counters -> Nat]
    BY <1>7, <2>2 DEF GcStoreStat, TableType
  <2>4. QED
    BY <1>7, <2>1, <2>3 DEF GcStoreStat, WorldType, TableType, CaptureType
<1>8. QED
  BY <1>1, <1>2, <1>3, <1>4, <1>5, <1>6, <1>7 DEF GcNext

\* The clock and stuttering keep the types.
LEMMA IdleType == ASSUME TypeOK, Tick \/ UNCHANGED vars PROVE TypeOK'
<1> USE SizesAssumption DEF TypeOK, capture, passes, tables, world
<1>1. WorldType'
  BY DEF Tick, vars, WorldType, Times
<1>2. QED
  BY <1>1 DEF Tick, vars, TableType, CaptureType, PassType

\* Type correctness: the capture thread never leaves the table while it scans,
\* and no write, report or memset goes to a slot outside it.
THEOREM TypeCorrect == Spec => []TypeOK
<1>1. TypeOK /\ [Next]_vars => TypeOK'
  BY CaptureOnlyType, CaptureTableType, GcType, IdleType DEF Next, CaptureNext
<1>2. QED
  BY <1>1, InitType, PTL DEF Spec

-----------------------------------------------------------------------------
(* The entries and the reports.  The invariant is the conjunction of the   *)
(* two properties with what an entry holds: a report copies the slot, so   *)
(* what it says of the client is what every entry says of its client.      *)

Inv == TypeOK /\ SynTakesFreeSlot /\ EntryOfOneClient /\ ReportOfClient

Idents == {"ip_src", "c_syn", "s_syn"}

\* The identity of no entry changes but by being cleared.
Kept == \A s \in Slots : \A f \in Idents : msg_tab'[s][f] \in {0, msg_tab[s][f]}

\* Fields are cleared, and nothing else happens to the table.
OnlyCleared == \A s \in Slots : \A f \in Fields : msg_tab'[s][f] \in {0, msg_tab[s][f]}

LEMMA KeptEntries == ASSUME EntryOfOneClient, Kept PROVE EntryOfOneClient'
BY DEF EntryOfOneClient, Kept, Idents

\* The report in progress survives steps that keep identities.
LEMMA KeptReport ==
  ASSUME TypeOK, ReportOfClient, Kept,
         pc \in {"ack", "compute", "build"}, UNCHANGED <<pkt, n>>
  PROVE  LET slot == msg_tab'[n] IN
         /\ slot["ip_src"] \in {0, Client[pkt.conn]}
         /\ slot["s_syn"] \in {0, ServerIsn[pkt.conn]}
         /\ \E c \in Conns : /\ Client[c] = Client[pkt.conn]
                             /\ slot["c_syn"] \in {0, Isn[c]}
<1>1. n \in Slots
  BY DEF TypeOK, CaptureType
<1>2. QED
  BY <1>1 DEF ReportOfClient, Kept, Idents

\* Steps that only clear fields, of threads other than the capture thread.
LEMMA OthersKeep ==
  ASSUME Inv, UNCHANGED capture, OnlyCleared
  PROVE  SynTakesFreeSlot' /\ EntryOfOneClient' /\ ReportOfClient'
<1> USE DEF Inv, capture, OnlyCleared
<1>1. Kept
  BY DEF Kept, Idents, Fields
<1>2. SynTakesFreeSlot'
  BY DEF SynTakesFreeSlot, TypeOK, CaptureType, Fields
<1>3. ReportOfClient'
  BY <1>1, KeptReport DEF ReportOfClient
<1>4. QED
  BY <1>1, <1>2, <1>3, KeptEntries

\* A garbage pass only clears, and leaves the capture thread where it is.
LEMMA GcClears ==
  ASSUME TypeOK, NEW t \in GcThreads, GcNext(t)
  PROVE  UNCHANGED capture /\ OnlyCleared
<1>1. msg_tab \in [Slots -> [Fields -> Int]] /\ gn[t] \in Nat
  BY DEF TypeOK, TableType, PassType
<1>2. UNCHANGED capture
  BY DEF GcNext, GcStart, GcCheck, GcLock, GcClearHalf, GcClearRest, GcLoadStat, GcStoreStat
<1>3. ASSUME NEW fs, msg_tab' = [msg_tab EXCEPT ![gn[t]] = Erase(@, fs)]
      PROVE  OnlyCleared
  <2> SUFFICES ASSUME NEW s \in Slots, NEW f \in Fields
               PROVE  msg_tab'[s][f] \in {0, msg_tab[s][f]}
    BY DEF OnlyCleared
  <2>1. msg_tab[s] \in [Fields -> Int]
    BY <1>1
  <2>2. msg_tab'[s] \in {msg_tab[s], Erase(msg_tab[s], fs)}
    BY <1>1, <1>3
  <2>3. QED
    BY <2>1, <2>2, EraseType
<1>4. ASSUME UNCHANGED msg_tab PROVE OnlyCleared
  BY <1>4 DEF OnlyCleared
<1>5. \/ UNCHANGED msg_tab
      \/ \E fs \in Halves : GcClearHalf(t, fs)
      \/ GcClearRest(t)
  BY DEF GcNext, GcStart, GcCheck, GcLock, GcLoadStat, GcStoreStat, tables
<1>6. QED
  BY <1>2, <1>3, <1>4, <1>5 DEF GcClearHalf, GcClearRest

LEMMA GcKeeps ==
  ASSUME Inv, NEW t \in GcThreads, GcNext(t)
  PROVE  SynTakesFreeSlot' /\ EntryOfOneClient' /\ ReportOfClient'
BY GcClears, OthersKeep DEF Inv

\* Steps of the capture thread that do not report: the scan finds the slot they
\* write, and no other thread has filled it since.
LEMMA FilingKeeps ==
  ASSUME Inv, TypeOK',
         \/ \E p \in Packets : Receive(p)
         \/ FilterAck \/ ScanFails
         \/ SetSynTime \/ SetSynIdent \/ SetSynackTime \/ SetSynackIdent
         \/ SendReturns \/ LockForClear \/ ClearReported
  PROVE  SynTakesFreeSlot' /\ EntryOfOneClient' /\ ReportOfClient'
<1> USE DEF Inv, Goto, Return
<1>1. pc' \notin {"syn", "ack", "compute", "build", "send"}
  BY DEF Receive, FilterAck, ScanFails, SetSynTime, SetSynIdent, SetSynackTime,
         SetSynackIdent, SendReturns, LockForClear, ClearReported
<1>2. SynTakesFreeSlot' /\ ReportOfClient'
  BY <1>1 DEF SynTakesFreeSlot, ReportOfClient
<1>3. EntryOfOneClient'
  <2>1. pc \notin {"idle", "filter", "scan"} => n \in Slots /\ pkt.conn \in Conns
    BY DEF TypeOK, CaptureType, PcSet, Packets
  <2>2. msg_tab \in [Slots -> [Fields -> Int]]
    BY DEF TypeOK, TableType
  <2>3. CASE SetSynIdent
    <3> SUFFICES ASSUME NEW s \in Slots, msg_tab'[s]["ip_src"] # 0
                 PROVE  \E c \in Conns : /\ msg_tab'[s]["ip_src"] = Client[c]
                                         /\ msg_tab'[s]["c_syn"] \in {0, Isn[c]}
      BY DEF EntryOfOneClient
    <3>1. CASE s = n
      BY <2>1, <2>2, <2>3, <3>1 DEF SetSynIdent, Fields
    <3>2. CASE s # n
      <4>1. msg_tab'[s] = msg_tab[s]
        BY <2>2, <2>3, <3>2 DEF SetSynIdent
      <4>2. QED
        BY <4>1 DEF EntryOfOneClient
    <3>3. QED
      BY <3>1, <3>2
  <2>4. CASE SetSynackIdent
    <3>1. \A s \in Slots : /\ msg_tab'[s]["ip_src"] = msg_tab[s]["ip_src"]
                           /\ msg_tab'[s]["c_syn"] = msg_tab[s]["c_syn"]
      BY <2>2, <2>4 DEF SetSynackIdent, Fields
    <3>2. QED
      BY <3>1 DEF EntryOfOneClient
  <2>5. CASE SetSynTime
    <3>1. Kept
      BY <2>2, <2>5 DEF SetSynTime, Kept, Idents, Fields
    <3>2. QED
      BY <3>1, KeptEntries
  <2>6. CASE SetSynackTime
    <3>1. Kept
      BY <2>2, <2>6 DEF SetSynackTime, Kept, Idents, Fields
    <3>2. QED
      BY <3>1, KeptEntries
  <2>7. CASE ClearReported
    <3>1. Kept
      BY <2>2, <2>7 DEF ClearReported, Cleared, Kept, Idents, Fields
    <3>2. QED
      BY <3>1, KeptEntries
  <2>8. ASSUME UNCHANGED msg_tab PROVE EntryOfOneClient'
    BY <2>8 DEF EntryOfOneClient
  <2>9. QED
    BY <2>3, <2>4, <2>5, <2>6, <2>7, <2>8
       DEF Receive, FilterAck, ScanFails, SendReturns, LockForClear, tables
<1>4. QED
  BY <1>2, <1>3

\* The scan, and the steps from the ACK to the message.
LEMMA ReportingKeeps ==
  ASSUME Inv, TypeOK', ScanSlot \/ SetAck \/ ComputeTimes \/ BuildMsg
  PROVE  SynTakesFreeSlot' /\ EntryOfOneClient' /\ ReportOfClient'
<1> USE DEF Inv, Goto
<1>1. msg_tab \in [Slots -> [Fields -> Int]]
  BY DEF TypeOK, TableType
<1>2. CASE ScanSlot
  <2>1. n \in Slots /\ pkt \in Packets /\ UNCHANGED msg_tab
    <3>1. n \in 0 .. MaxTabSize /\ n < MaxTabSize /\ pkt \in Packets
      BY <1>2 DEF ScanSlot, TypeOK, CaptureType
    <3>2. UNCHANGED msg_tab
      BY <1>2 DEF ScanSlot, tables
    <3>3. QED
      BY <3>1, <3>2, SizesAssumption DEF Slots
  <2>2. SynTakesFreeSlot'
    BY <1>2, <2>1 DEF ScanSlot, Matches, IsFree, SynTakesFreeSlot
  <2>3. EntryOfOneClient'
    BY <2>1 DEF EntryOfOneClient
  <2>4. ReportOfClient'
    <3>1. pc' \notin {"compute", "build", "send"}
      BY <1>2, <2>1 DEF ScanSlot, Packets, Kinds
    <3>2. pkt.conn \in Conns /\ Client[pkt.conn] # 0
      BY <2>1, ConnsAssumption DEF Packets
    <3>3. pc' = "ack" => /\ msg_tab[n]["ip_src"] = Client[pkt.conn]
                         /\ msg_tab[n]["s_syn"] = ServerIsn[pkt.conn]
                         /\ n' = n /\ pkt' = pkt
      BY <1>2 DEF ScanSlot, Matches, IsAckOf
    <3>4. pc' = "ack" => \E c \in Conns : /\ Client[c] = Client[pkt.conn]
                                          /\ msg_tab[n]["c_syn"] \in {0, Isn[c]}
      BY <2>1, <3>2, <3>3 DEF EntryOfOneClient
    <3>5. QED
      BY <2>1, <3>1, <3>3, <3>4 DEF ReportOfClient
  <2>5. QED
    BY <2>2, <2>3, <2>4
<1>3. CASE SetAck \/ ComputeTimes
  <2>1. Kept
    BY <1>1, <1>3 DEF SetAck, ComputeTimes, Kept, Idents, Fields
  <2>2. ReportOfClient'
    BY <1>3, <2>1, KeptReport DEF SetAck, ComputeTimes, ReportOfClient
  <2>3. SynTakesFreeSlot'
    BY <1>3 DEF SetAck, ComputeTimes, SynTakesFreeSlot
  <2>4. QED
    BY <2>1, <2>2, <2>3, KeptEntries
<1>4. CASE BuildMsg
  <2>1. UNCHANGED msg_tab /\ pc' = "send" /\ pkt' = pkt /\ msg'.ip_src = msg_tab[n]["ip_src"]
    BY <1>4 DEF BuildMsg, tables
  <2>2. QED
    BY <1>4, <2>1 DEF BuildMsg, SynTakesFreeSlot, EntryOfOneClient, ReportOfClient
<1>5. QED
  BY <1>2, <1>3, <1>4

\* The invariant holds at the start and after every step.
LEMMA InvHolds == Spec => []Inv
<1>1. Init => Inv
  <2>1. Init => SynTakesFreeSlot /\ EntryOfOneClient /\ ReportOfClient
    BY DEF Init, SynTakesFreeSlot, EntryOfOneClient, ReportOfClient, Cleared, Fields
  <2>2. QED
    BY <2>1, InitType DEF Inv
<1>2. Inv /\ TypeOK' /\ [Next]_vars => Inv'
  <2> SUFFICES ASSUME Inv, TypeOK', [Next]_vars
               PROVE  SynTakesFreeSlot' /\ EntryOfOneClient' /\ ReportOfClient'
    BY DEF Inv
  <2>1. CASE Tick \/ UNCHANGED vars
    <3>1. UNCHANGED capture /\ UNCHANGED msg_tab
      BY <2>1 DEF Tick, vars, tables
    <3>2. OnlyCleared
      BY <3>1 DEF OnlyCleared
    <3>3. QED
      BY <3>1, <3>2, OthersKeep
  <2>2. CASE CaptureNext
    BY <2>2, FilingKeeps, ReportingKeeps DEF CaptureNext
  <2>3. CASE \E t \in GcThreads : GcNext(t)
    BY <2>3, GcKeeps
  <2>4. QED
    BY <2>1, <2>2, <2>3 DEF Next
<1>3. QED
  BY <1>1, <1>2, TypeCorrect, PTL DEF Spec

\* set_syn_packet needs no lock: the slot it found free is free when it writes.
THEOREM SynSlotFree == Spec => []SynTakesFreeSlot
BY InvHolds, PTL DEF Inv

\* No entry mixes the addresses and sequence numbers of two clients.
THEOREM EntriesOfOneClient == Spec => []EntryOfOneClient
BY InvHolds, PTL DEF Inv

\* No report names a client other than the one that completed the handshake.
THEOREM ReportsOfClient == Spec => []ReportOfClient
BY InvHolds, PTL DEF Inv
=============================================================================
