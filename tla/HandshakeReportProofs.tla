----------------------- MODULE HandshakeReportProofs -----------------------
(***************************************************************************)
(* What the reports say, which ACKs the filter drops and which handshakes  *)
(* the counters miss: for every table size, set of connections, traffic    *)
(* and way a memset is preempted.                                          *)
(***************************************************************************)
EXTENDS HandshakeTableProofs, FiniteSetTheorems

-----------------------------------------------------------------------------
(* The values in the table after each step of the capture thread.          *)

\* The thread that is past its scan works on a slot of the table.
LEMMA AtSlot ==
  ASSUME TypeOK, pc \notin {"idle", "filter", "scan"}
  PROVE  /\ n \in Slots /\ pkt \in Packets /\ pkt.conn \in Conns
         /\ msg_tab \in [Slots -> [Fields -> Int]]
BY DEF TypeOK, CaptureType, TableType, Packets

\* A write to one field of one slot, and what is read afterwards.
LEMMA ReadBack ==
  ASSUME NEW m \in [Slots -> [Fields -> Int]], NEW s \in Slots,
         NEW f \in Fields, NEW v \in Int, NEW r \in Slots, NEW g \in Fields
  PROVE  [m EXCEPT ![s][f] = v][r][g] = IF r = s /\ g = f THEN v ELSE m[r][g]
OBVIOUS

\* What the writes of the capture thread leave in the fields of every slot:
\* the first write of set_syn_packet,
LEMMA SynTimeWrites ==
  ASSUME TypeOK, SetSynTime, NEW r \in Slots, NEW g \in Fields
  PROVE  msg_tab'[r][g] = IF r = n /\ g = "c_syn_tv" THEN tv ELSE msg_tab[r][g]
<1>1. pc = "syn" /\ msg_tab' = [msg_tab EXCEPT ![n]["c_syn_tv"] = tv]
  BY DEF SetSynTime
<1>2. n \in Slots /\ msg_tab \in [Slots -> [Fields -> Int]] /\ tv \in Int
  BY <1>1, AtSlot DEF TypeOK, CaptureType
<1>3. "c_syn_tv" \in Fields
  BY DEF Fields
<1>4. QED
  BY <1>1, <1>2, <1>3, ReadBack

\* the others of set_syn_packet,
LEMMA SynIdentWrites ==
  ASSUME TypeOK, SetSynIdent, NEW r \in Slots, NEW g \in Fields
  PROVE  msg_tab'[r][g] = IF r = n /\ g = "ip_src" THEN Client[pkt.conn]
                          ELSE IF r = n /\ g = "c_syn" THEN Isn[pkt.conn] ELSE msg_tab[r][g]
<1> DEFINE once == [msg_tab EXCEPT ![n]["ip_src"] = Client[pkt.conn]]
<1>1. pc = "syn_ident"
  BY DEF SetSynIdent
<1>2. n \in Slots /\ msg_tab \in [Slots -> [Fields -> Int]]
      /\ Client[pkt.conn] \in Int /\ Isn[pkt.conn] \in Int
  BY <1>1, AtSlot, ConnsAssumption
<1>3. "ip_src" \in Fields /\ "c_syn" \in Fields
  BY DEF Fields
<1>4. once \in [Slots -> [Fields -> Int]]
  BY <1>2, <1>3, WriteType
<1>5. once[r][g] = IF r = n /\ g = "ip_src" THEN Client[pkt.conn] ELSE msg_tab[r][g]
  BY <1>2, <1>3, ReadBack
<1>6. msg_tab' = [once EXCEPT ![n]["c_syn"] = Isn[pkt.conn]]
  BY DEF SetSynIdent
<1> HIDE DEF once
<1>7. msg_tab'[r][g] = IF r = n /\ g = "c_syn" THEN Isn[pkt.conn] ELSE once[r][g]
  BY <1>2, <1>3, <1>4, <1>6, ReadBack
<1>8. QED
  BY <1>5, <1>7

\* the time of set_synack_packet,
LEMMA SynackTimeWrites ==
  ASSUME TypeOK, SetSynackTime, NEW r \in Slots, NEW g \in Fields
  PROVE  msg_tab'[r][g] = IF r = n /\ g = "s_tv" THEN tv ELSE msg_tab[r][g]
<1>1. pc = "synack" /\ msg_tab' = [msg_tab EXCEPT ![n]["s_tv"] = tv]
  BY DEF SetSynackTime
<1>2. n \in Slots /\ msg_tab \in [Slots -> [Fields -> Int]] /\ tv \in Int
  BY <1>1, AtSlot DEF TypeOK, CaptureType
<1>3. "s_tv" \in Fields
  BY DEF Fields
<1>4. QED
  BY <1>1, <1>2, <1>3, ReadBack

\* its sequence number,
LEMMA SynackIdentWrites ==
  ASSUME TypeOK, SetSynackIdent, NEW r \in Slots, NEW g \in Fields
  PROVE  msg_tab'[r][g] = IF r = n /\ g = "s_syn" THEN ServerIsn[pkt.conn] ELSE msg_tab[r][g]
<1>1. pc = "synack_ident" /\ msg_tab' = [msg_tab EXCEPT ![n]["s_syn"] = ServerIsn[pkt.conn]]
  BY DEF SetSynackIdent
<1>2. n \in Slots /\ msg_tab \in [Slots -> [Fields -> Int]] /\ ServerIsn[pkt.conn] \in Int
  BY <1>1, AtSlot, ConnsAssumption
<1>3. "s_syn" \in Fields
  BY DEF Fields
<1>4. QED
  BY <1>1, <1>2, <1>3, ReadBack

\* set_ack_packet,
LEMMA AckWrites ==
  ASSUME TypeOK, SetAck, NEW r \in Slots, NEW g \in Fields
  PROVE  msg_tab'[r][g] = IF r = n /\ g = "c_ack_tv" THEN tv ELSE msg_tab[r][g]
<1>1. pc = "ack" /\ msg_tab' = [msg_tab EXCEPT ![n]["c_ack_tv"] = tv]
  BY DEF SetAck
<1>2. n \in Slots /\ msg_tab \in [Slots -> [Fields -> Int]] /\ tv \in Int
  BY <1>1, AtSlot DEF TypeOK, CaptureType
<1>3. "c_ack_tv" \in Fields
  BY DEF Fields
<1>4. QED
  BY <1>1, <1>2, <1>3, ReadBack

\* the response times of send_perf_data_to_rmq,
LEMMA ComputeWrites ==
  ASSUME TypeOK, ComputeTimes, NEW r \in Slots, NEW g \in Fields
  PROVE  msg_tab'[r][g] =
           IF r = n /\ g = "server_rep_time" THEN msg_tab[n]["s_tv"] - msg_tab[n]["c_syn_tv"]
           ELSE IF r = n /\ g = "client_rep_time" THEN msg_tab[n]["c_ack_tv"] - msg_tab[n]["s_tv"]
           ELSE msg_tab[r][g]
<1> DEFINE srt == msg_tab[n]["s_tv"] - msg_tab[n]["c_syn_tv"]
           crt == msg_tab[n]["c_ack_tv"] - msg_tab[n]["s_tv"]
           once == [msg_tab EXCEPT ![n]["server_rep_time"] = srt]
<1>1. pc = "compute" /\ msg_tab' = [once EXCEPT ![n]["client_rep_time"] = crt]
  BY DEF ComputeTimes
<1>2. n \in Slots /\ msg_tab \in [Slots -> [Fields -> Int]]
  BY <1>1, AtSlot
<1>3. srt \in Int /\ crt \in Int /\ "server_rep_time" \in Fields /\ "client_rep_time" \in Fields
  BY <1>2 DEF Fields
<1> HIDE DEF srt, crt
<1>4. once \in [Slots -> [Fields -> Int]]
  BY <1>2, <1>3, WriteType
<1>5. once[r][g] = IF r = n /\ g = "server_rep_time" THEN srt ELSE msg_tab[r][g]
  BY <1>2, <1>3, ReadBack
<1> HIDE DEF once
<1>6. msg_tab'[r][g] = IF r = n /\ g = "client_rep_time" THEN crt ELSE once[r][g]
  BY <1>1, <1>2, <1>3, <1>4, ReadBack
<1>7. QED
  BY <1>5, <1>6 DEF srt, crt

\* and the memset of handle_packet.
LEMMA ClearWrites ==
  ASSUME TypeOK, ClearReported, NEW r \in Slots, NEW g \in Fields
  PROVE  msg_tab'[r][g] = IF r = n THEN 0 ELSE msg_tab[r][g]
<1>1. pc = "clear" /\ msg_tab' = [msg_tab EXCEPT ![n] = Cleared]
  BY DEF ClearReported
<1>2. n \in Slots /\ msg_tab \in [Slots -> [Fields -> Int]]
  BY <1>1, AtSlot
<1>3. Cleared[g] = 0
  BY DEF Cleared
<1>4. QED
  BY <1>1, <1>2, <1>3

-----------------------------------------------------------------------------
(* The reports, as long as no entry has expired.                           *)

\* An entry with a SYN+ACK: its times are in order and its numbers are those of
\* one connection.
Entry(slot) ==
  /\ slot["c_syn_tv"] \in 0 .. now /\ slot["s_tv"] \in 0 .. now
  /\ slot["s_syn"] # 0 =>
       /\ 0 < slot["c_syn_tv"] /\ slot["c_syn_tv"] <= slot["s_tv"]
       /\ \E c \in Conns : /\ slot["ip_src"] = Client[c] /\ slot["c_syn"] = Isn[c]
                           /\ slot["s_syn"] = ServerIsn[c]

\* Nothing in the table is later than the segment that is handled.
NotLater ==
  pc # "idle" => /\ tv \in 1 .. now
                 /\ \A s \in Slots : msg_tab[s]["c_syn_tv"] <= tv /\ msg_tab[s]["s_tv"] <= tv

\* What the slot n holds at each step of the handlers.
Handled ==
  LET slot == msg_tab[n] IN
  /\ pc = "syn_ident" => slot["c_syn_tv"] = tv /\ slot["s_syn"] = 0
  /\ pc \in {"synack", "synack_ident"} => IsSynackOf(slot, pkt.conn)
  /\ pc = "synack_ident" => slot["s_tv"] = tv
  /\ pc \in {"ack", "compute", "build"} => IsAckOf(slot, pkt.conn)
  /\ pc \in {"compute", "build"} => slot["c_ack_tv"] = tv
  /\ pc = "build" => /\ slot["server_rep_time"] = slot["s_tv"] - slot["c_syn_tv"]
                     /\ slot["client_rep_time"] = slot["c_ack_tv"] - slot["s_tv"]

Ordered == /\ \A s \in Slots : Entry(msg_tab[s])
           /\ NotLater /\ Handled /\ ReportTimesOrdered

\* The types a proof about the times needs.
LEMMA TimeTypes ==
  ASSUME TypeOK
  PROVE  /\ now \in Nat /\ now > 0 /\ tv \in Nat
         /\ \A s \in Slots : \A f \in Fields : msg_tab[s][f] \in Int
         /\ \A c \in Conns : /\ Client[c] \in Nat /\ Client[c] # 0
                             /\ Isn[c] \in Nat /\ ServerIsn[c] \in Nat /\ ServerIsn[c] # 0
BY ConnsAssumption DEF TypeOK, WorldType, Times, CaptureType, TableType

\* A step that leaves the table and the capture thread alone, the clock's included.
LEMMA OthersOrdered ==
  ASSUME TypeOK, TypeOK', Ordered, UNCHANGED msg_tab, UNCHANGED capture, now' >= now
  PROVE  Ordered'
<1> USE TimeTypes DEF Ordered, capture
<1>1. now' \in Nat
  BY DEF TypeOK, WorldType, Times
<1>2. \A s \in Slots : Entry(msg_tab[s])'
  BY <1>1 DEF Entry, Fields
<1>3. NotLater' /\ Handled' /\ ReportTimesOrdered'
  BY <1>1 DEF NotLater, Handled, ReportTimesOrdered
<1>4. QED
  BY <1>2, <1>3

\* A segment is taken up, scanned for, given up, or its handling has ended; the
\* report is sent: the table stays.
LEMMA ReadingOrdered ==
  ASSUME TypeOK, TypeOK', Ordered,
         \/ \E p \in Packets : Receive(p)
         \/ FilterAck \/ ScanFails \/ SendReturns \/ LockForClear
  PROVE  Ordered'
<1> USE TimeTypes DEF Ordered, Goto, Return, world, tables
<1>1. UNCHANGED <<msg_tab, now>>
  BY DEF Receive, FilterAck, ScanFails, SendReturns, LockForClear
<1>2. pc' \in {"idle", "filter", "scan", "lock", "clear"}
  BY DEF Receive, FilterAck, ScanFails, SendReturns, LockForClear
<1>3. \A s \in Slots : Entry(msg_tab[s])'
  BY <1>1 DEF Entry
<1>4. pc' # "idle" => \/ tv' = now
                      \/ pc # "idle" /\ tv' = tv
  BY DEF Receive, FilterAck, ScanFails, SendReturns, LockForClear
<1>5. NotLater'
  <2>1. CASE tv' = now
    <3>1. \A s \in Slots : msg_tab[s]["c_syn_tv"] <= now /\ msg_tab[s]["s_tv"] <= now
      BY DEF Entry
    <3>2. QED
      BY <1>1, <2>1, <3>1 DEF NotLater
  <2>2. CASE pc # "idle" /\ tv' = tv
    BY <1>1, <2>2 DEF NotLater
  <2>3. CASE pc' = "idle"
    BY <2>3 DEF NotLater
  <2>4. QED
    BY <1>4, <2>1, <2>2, <2>3
<1>6. Handled' /\ ReportTimesOrdered'
  BY <1>2 DEF Handled, ReportTimesOrdered
<1>7. QED
  BY <1>3, <1>5, <1>6

\* A scan that stops has found an entry of its connection.
LEMMA ScanOrdered == ASSUME TypeOK, Ordered, ScanSlot PROVE Ordered'
<1> USE TimeTypes DEF Ordered
<1>1. UNCHANGED <<msg_tab, now, tv, pkt>> /\ pc = "scan"
  BY DEF ScanSlot, world, tables
<1>2. pkt \in Packets
  BY <1>1 DEF TypeOK, CaptureType
<1>3. \/ pc' = "scan" /\ n' = n + 1
      \/ pc' = pkt.kind /\ n' = n /\ Matches(msg_tab[n], pkt)
  BY DEF ScanSlot
<1>4. Handled' /\ ReportTimesOrdered'
  BY <1>1, <1>2, <1>3 DEF Handled, ReportTimesOrdered, Matches, Packets, Kinds
<1>5. \A s \in Slots : Entry(msg_tab[s])'
  BY <1>1 DEF Entry
<1>6. NotLater'
  BY <1>1 DEF NotLater
<1>7. QED
  BY <1>4, <1>5, <1>6

\* set_syn_packet.
LEMMA SynOrdered ==
  ASSUME TypeOK, Ordered, SynTakesFreeSlot, SetSynTime \/ SetSynIdent
  PROVE  Ordered'
<1> USE TimeTypes DEF Ordered, Goto, Return, world
<1>1. CASE SetSynTime
  <2>1. /\ pc = "syn" /\ pc' = "syn_ident" /\ UNCHANGED <<pkt, tv, n, now>>
        /\ n \in Slots /\ tv \in 1 .. now
    BY <1>1, AtSlot DEF SetSynTime, NotLater
  <2>2. msg_tab[n]["s_syn"] = 0
    BY <2>1 DEF SynTakesFreeSlot, Entry
  <2>3. \A s \in Slots : \A f \in Fields :
           msg_tab'[s][f] = IF s = n /\ f = "c_syn_tv" THEN tv ELSE msg_tab[s][f]
    BY <1>1, SynTimeWrites
  <2>4. \A s \in Slots : Entry(msg_tab[s])'
    BY <2>1, <2>2, <2>3 DEF Entry, Fields
  <2>5. NotLater' /\ Handled' /\ ReportTimesOrdered'
    BY <2>1, <2>2, <2>3 DEF NotLater, Handled, ReportTimesOrdered, Fields
  <2>6. QED
    BY <2>4, <2>5
<1>2. CASE SetSynIdent
  <2>1. /\ pc = "syn_ident" /\ pc' = "idle" /\ UNCHANGED now
        /\ n \in Slots
    BY <1>2, AtSlot DEF SetSynIdent
  <2>2. msg_tab[n]["s_syn"] = 0
    BY <2>1 DEF Handled
  <2>3. \A s \in Slots : \A f \in {"c_syn_tv", "s_tv", "s_syn"} : msg_tab'[s][f] = msg_tab[s][f]
    BY <1>2, SynIdentWrites DEF Fields
  <2>4. \A s \in Slots \ {n} : \A f \in {"ip_src", "c_syn"} : msg_tab'[s][f] = msg_tab[s][f]
    BY <1>2, SynIdentWrites DEF Fields
  <2>5. \A s \in Slots : Entry(msg_tab[s])'
    BY <2>1, <2>2, <2>3, <2>4 DEF Entry
  <2>6. NotLater' /\ Handled' /\ ReportTimesOrdered'
    BY <2>1 DEF NotLater, Handled, ReportTimesOrdered
  <2>7. QED
    BY <2>5, <2>6
<1>3. QED
  BY <1>1, <1>2

\* set_synack_packet.
LEMMA SynackOrdered ==
  ASSUME TypeOK, Ordered, SetSynackTime \/ SetSynackIdent
  PROVE  Ordered'
<1> USE TimeTypes DEF Ordered, Goto, Return, world
<1>1. CASE SetSynackTime
  <2>1. /\ pc = "synack" /\ pc' = "synack_ident" /\ UNCHANGED <<pkt, tv, n, now>>
        /\ n \in Slots /\ tv \in 1 .. now /\ IsSynackOf(msg_tab[n], pkt.conn)
    BY <1>1, AtSlot DEF SetSynackTime, NotLater, Handled
  <2>2. msg_tab[n]["c_syn_tv"] <= tv
    BY <2>1 DEF NotLater
  <2>3. \A s \in Slots : \A f \in Fields :
           msg_tab'[s][f] = IF s = n /\ f = "s_tv" THEN tv ELSE msg_tab[s][f]
    BY <1>1, SynackTimeWrites
  <2>4. \A s \in Slots : Entry(msg_tab[s])'
    BY <2>1, <2>2, <2>3 DEF Entry, Fields
  <2>5. NotLater' /\ Handled' /\ ReportTimesOrdered'
    BY <2>1, <2>3 DEF NotLater, Handled, ReportTimesOrdered, IsSynackOf, Fields
  <2>6. QED
    BY <2>4, <2>5
<1>2. CASE SetSynackIdent
  <2>1. /\ pc = "synack_ident" /\ pc' = "idle" /\ UNCHANGED now
        /\ n \in Slots /\ pkt.conn \in Conns /\ IsSynackOf(msg_tab[n], pkt.conn)
        /\ msg_tab[n]["s_tv"] = tv
    BY <1>2, AtSlot DEF SetSynackIdent, Handled
  <2>2. msg_tab[n]["c_syn_tv"] \in 1 .. tv
    BY <2>1 DEF NotLater, Entry, IsSynackOf
  <2>3. \A s \in Slots : \A f \in Fields :
           msg_tab'[s][f] = IF s = n /\ f = "s_syn" THEN ServerIsn[pkt.conn] ELSE msg_tab[s][f]
    BY <1>2, SynackIdentWrites
  <2>4. ASSUME NEW s \in Slots PROVE Entry(msg_tab[s])'
    <3>1. CASE s = n
      BY <2>1, <2>2, <2>3, <3>1 DEF Entry, IsSynackOf, Fields
    <3>2. CASE s # n
      BY <2>1, <2>3, <3>2 DEF Entry, Fields
    <3>3. QED
      BY <3>1, <3>2
  <2>5. NotLater' /\ Handled' /\ ReportTimesOrdered'
    BY <2>1 DEF NotLater, Handled, ReportTimesOrdered
  <2>6. QED
    BY <2>4, <2>5
<1>3. QED
  BY <1>1, <1>2

\* set_ack_packet and send_perf_data_to_rmq: from the ACK to the message.
LEMMA AckOrdered ==
  ASSUME TypeOK, Ordered, SetAck \/ ComputeTimes \/ BuildMsg
  PROVE  Ordered'
<1> USE TimeTypes DEF Ordered, Goto, Return, world
<1>0. /\ pc \in {"ack", "compute", "build"} /\ n \in Slots /\ UNCHANGED <<pkt, tv, n, now>>
      /\ IsAckOf(msg_tab[n], pkt.conn) /\ pkt.conn \in Conns
  BY AtSlot DEF SetAck, ComputeTimes, BuildMsg, Handled
<1>1. CASE SetAck
  <2>1. pc' = "compute"
    BY <1>1 DEF SetAck
  <2>2. \A s \in Slots : \A f \in Fields :
           msg_tab'[s][f] = IF s = n /\ f = "c_ack_tv" THEN tv ELSE msg_tab[s][f]
    BY <1>1, AckWrites
  <2>3. \A s \in Slots : Entry(msg_tab[s])'
    BY <1>0, <2>2 DEF Entry, Fields
  <2>4. NotLater' /\ Handled' /\ ReportTimesOrdered'
    BY <1>0, <2>1, <2>2 DEF NotLater, Handled, ReportTimesOrdered, IsAckOf, Fields
  <2>5. QED
    BY <2>3, <2>4
<1>2. CASE ComputeTimes
  <2>1. pc = "compute" /\ pc' = "build"
    BY <1>2 DEF ComputeTimes
  <2>2. \A s \in Slots : \A f \in Fields \ {"server_rep_time", "client_rep_time"} :
           msg_tab'[s][f] = msg_tab[s][f]
    BY <1>2, ComputeWrites
  <2>3. /\ msg_tab'[n]["server_rep_time"] = msg_tab[n]["s_tv"] - msg_tab[n]["c_syn_tv"]
        /\ msg_tab'[n]["client_rep_time"] = msg_tab[n]["c_ack_tv"] - msg_tab[n]["s_tv"]
    BY <1>0, <1>2, ComputeWrites DEF Fields
  <2>4. \A s \in Slots : Entry(msg_tab[s])'
    BY <1>0, <2>2 DEF Entry, Fields
  <2>5. NotLater' /\ ReportTimesOrdered'
    BY <1>0, <2>1, <2>2 DEF NotLater, ReportTimesOrdered, Fields
  <2>6. Handled'
    BY <1>0, <2>1, <2>2, <2>3 DEF Handled, IsAckOf, Fields
  <2>7. QED
    BY <2>4, <2>5, <2>6
<1>3. CASE BuildMsg
  <2>1. pc = "build" /\ pc' = "send" /\ UNCHANGED msg_tab
    BY <1>3 DEF BuildMsg, tables
  <2>2. /\ msg'.s_r_time = msg_tab[n]["server_rep_time"]
        /\ msg'.c_r_time = msg_tab[n]["client_rep_time"]
        /\ msg'.date = msg_tab[n]["c_syn_tv"]
    BY <1>3 DEF BuildMsg
  <2>3. msg_tab[n]["s_syn"] # 0
    BY <1>0 DEF IsAckOf
  <2>4. /\ 0 < msg_tab[n]["c_syn_tv"] /\ msg_tab[n]["c_syn_tv"] <= msg_tab[n]["s_tv"]
        /\ msg_tab[n]["s_tv"] <= tv /\ msg_tab[n]["c_ack_tv"] = tv
        /\ msg_tab[n]["server_rep_time"] = msg_tab[n]["s_tv"] - msg_tab[n]["c_syn_tv"]
        /\ msg_tab[n]["client_rep_time"] = msg_tab[n]["c_ack_tv"] - msg_tab[n]["s_tv"]
    BY <1>0, <2>1, <2>3 DEF Entry, NotLater, Handled
  <2>5. ReportTimesOrdered'
    BY <1>0, <2>1, <2>2, <2>4 DEF ReportTimesOrdered, Fields
  <2>6. \A s \in Slots : Entry(msg_tab[s])'
    BY <1>0, <2>1 DEF Entry
  <2>7. NotLater' /\ Handled'
    BY <1>0, <2>1 DEF NotLater, Handled
  <2>8. QED
    BY <2>5, <2>6, <2>7
<1>4. QED
  BY <1>1, <1>2, <1>3

\* The slot that was reported is empty afterwards.
LEMMA ClearOrdered == ASSUME TypeOK, Ordered, ClearReported PROVE Ordered'
<1> USE TimeTypes DEF Ordered, Return, world
<1>1. pc' = "idle" /\ UNCHANGED now
  BY DEF ClearReported
<1>2. \A s \in Slots : \A f \in Fields : msg_tab'[s][f] = IF s = n THEN 0 ELSE msg_tab[s][f]
  BY ClearWrites
<1>3. \A s \in Slots : Entry(msg_tab[s])'
  BY <1>1, <1>2 DEF Entry, Fields
<1>4. NotLater' /\ Handled' /\ ReportTimesOrdered'
  BY <1>1 DEF NotLater, Handled, ReportTimesOrdered
<1>5. QED
  BY <1>3, <1>4

\* While no pass is about to clear an entry, every step keeps the order.
LEMMA StepOrdered ==
  ASSUME Inv, TypeOK', NoneExpired, Ordered, [Next]_vars
  PROVE  Ordered'
<1> USE DEF Inv
<1>1. CASE Tick \/ UNCHANGED vars
  <2>1. UNCHANGED msg_tab /\ UNCHANGED capture /\ now' >= now
    BY <1>1, TimeTypes DEF Tick, vars, tables, world
  <2>2. QED
    BY <2>1, OthersOrdered
<1>2. CASE CaptureNext
  BY <1>2, ReadingOrdered, ScanOrdered, SynOrdered, SynackOrdered, AckOrdered, ClearOrdered
     DEF CaptureNext
<1>3. ASSUME NEW t \in GcThreads, GcNext(t) PROVE Ordered'
  <2>1. gpc[t] \notin {"lock", "clear", "clear_rest"}
    BY DEF NoneExpired
  <2>2. UNCHANGED msg_tab /\ UNCHANGED capture /\ UNCHANGED now
    BY <1>3, <2>1 DEF GcNext, GcStart, GcCheck, GcLock, GcClearHalf, GcClearRest,
                      GcLoadStat, GcStoreStat, tables, world, capture
  <2>3. now' >= now
    BY <2>2, TimeTypes
  <2>4. QED
    BY <2>2, <2>3, OthersOrdered
<1>4. QED
  BY <1>1, <1>2, <1>3 DEF Next

\* The empty table.
LEMMA InitOrdered == Init => Ordered
<1> SUFFICES ASSUME Init PROVE Ordered
  OBVIOUS
<1>1. \A s \in Slots : \A f \in Fields : msg_tab[s][f] = 0
  BY DEF Init, Cleared
<1>2. \A s \in Slots : Entry(msg_tab[s])
  BY <1>1 DEF Init, Entry, Fields
<1>3. NotLater /\ Handled /\ ReportTimesOrdered
  BY DEF Init, NotLater, Handled, ReportTimesOrdered
<1>4. QED
  BY <1>2, <1>3 DEF Ordered

\* Whatever the number of passes in flight: up to the first entry that grows old
\* every report gives the times of its three segments, in their order
\* (send_to_rmq.c:31-41).
THEOREM ReportsUpToFirstExpiry == Spec /\ []NoneExpired => []ReportTimesOrdered
<1>1. Inv /\ Inv' /\ NoneExpired /\ Ordered /\ [Next]_vars => Ordered'
  BY StepOrdered DEF Inv
<1>2. Ordered => ReportTimesOrdered
  BY DEF Ordered
<1>3. QED
  BY <1>1, <1>2, InitOrdered, InvHolds, PTL DEF Spec

-----------------------------------------------------------------------------
(* One pass in flight: its counters are exact, so that NoneExpired, once   *)
(* false, remains so.  (Two passes may lose an update of the counter and   *)
(* leave it at 0.)                                                         *)

OnePass == \A t, u \in GcThreads : t = u

CountsExact ==
  \A t \in GcThreads :
    /\ gpc[t] = "idle"  => count[t] = 0
    /\ gpc[t] = "store" => loaded[t] = stat["stat_tcpflood_dest_entries"]

\* The capture thread and the clock do not touch what the passes count.
LEMMA OthersDoNotCount ==
  ASSUME TypeOK, Tick \/ CaptureNext \/ UNCHANGED vars
  PROVE  /\ UNCHANGED passes
         /\ stat'["stat_tcpflood_dest_entries"] = stat["stat_tcpflood_dest_entries"]
<1>1. stat \in [Counters -> Nat]
  BY DEF TypeOK, TableType
<1>2. UNCHANGED passes
  BY DEF Tick, vars, CaptureNext, Receive, FilterAck, ScanSlot, ScanFails, SetSynTime,
         SetSynIdent, SetSynackTime, SetSynackIdent, SetAck, ComputeTimes, BuildMsg,
         SendReturns, LockForClear, ClearReported
<1>3. \/ UNCHANGED stat
      \/ \E f \in Counters \ {"stat_tcpflood_dest_entries"} : \E v : stat' = [stat EXCEPT ![f] = v]
  BY DEF Tick, vars, tables, Counters, Bump, CaptureNext, Receive, FilterAck, ScanSlot, ScanFails,
         SetSynTime, SetSynIdent, SetSynackTime, SetSynackIdent, SetAck, ComputeTimes, BuildMsg,
         SendReturns, LockForClear, ClearReported
<1>4. "stat_tcpflood_dest_entries" \in Counters
  BY DEF Counters
<1>5. QED
  BY <1>1, <1>2, <1>3, <1>4

\* With one pass in flight the load and the store of the += are not torn apart.
LEMMA CountsStep ==
  ASSUME OnePass, TypeOK, CountsExact, [Next]_vars
  PROVE  CountsExact' /\ (NoneExpired' => NoneExpired)
<1>1. CASE Tick \/ CaptureNext \/ UNCHANGED vars
  BY <1>1, OthersDoNotCount DEF CountsExact, NoneExpired, passes
<1>2. ASSUME NEW t \in GcThreads, GcNext(t) PROVE CountsExact' /\ (NoneExpired' => NoneExpired)
  <2>1. GcThreads = {t}
    BY DEF OnePass
  <2>2. /\ count[t] \in Nat /\ loaded[t] \in Nat /\ stat["stat_tcpflood_dest_entries"] \in Nat
        /\ stat \in [Counters -> Nat] /\ "stat_tcpflood_dest_entries" \in Counters
        /\ gpc \in [GcThreads -> GpcSet] /\ count \in [GcThreads -> Nat]
        /\ loaded \in [GcThreads -> Nat]
    BY DEF TypeOK, TableType, PassType, Counters
  <2> USE <2>1, <2>2 DEF CountsExact, NoneExpired, tables
  <2>3. CASE GcStart(t)
    BY <2>3 DEF GcStart, GcGoto
  <2>4. CASE GcCheck(t)
    BY <2>4 DEF GcCheck, GcGoto
  <2>5. CASE GcLock(t)
    BY <2>5 DEF GcLock, GcGoto
  <2>6. ASSUME NEW fs \in Halves, GcClearHalf(t, fs)
        PROVE  CountsExact' /\ (NoneExpired' => NoneExpired)
    BY <2>6 DEF GcClearHalf, GcGoto
  <2>7. CASE GcClearRest(t)
    BY <2>7 DEF GcClearRest, GcGoto
  <2>8. CASE GcLoadStat(t)
    BY <2>8 DEF GcLoadStat, GcGoto
  <2>9. CASE GcStoreStat(t)
    BY <2>9 DEF GcStoreStat, GcGoto
  <2>10. QED
    BY <1>2, <2>3, <2>4, <2>5, <2>6, <2>7, <2>8, <2>9 DEF GcNext
<1>3. QED
  BY <1>1, <1>2 DEF Next

\* So the counters hold all that was destroyed.
LEMMA CountsHold == ASSUME OnePass PROVE Spec => []CountsExact
<1>1. Init => CountsExact
  BY DEF Init, CountsExact
<1>2. TypeOK /\ CountsExact /\ [Next]_vars => CountsExact'
  BY CountsStep
<1>3. QED
  BY <1>1, <1>2, TypeCorrect, PTL DEF Spec

\* Until the first entry has expired, the table is in order.
LEMMA OrderedHolds == ASSUME OnePass PROVE Spec => [](NoneExpired => Ordered)
<1>1. Init => (NoneExpired => Ordered)
  BY InitOrdered
<1>2. /\ Inv /\ Inv' /\ CountsExact /\ (NoneExpired => Ordered) /\ [Next]_vars
      => (NoneExpired' => Ordered')
  <2> SUFFICES ASSUME Inv, Inv', CountsExact, NoneExpired => Ordered, [Next]_vars, NoneExpired'
               PROVE  Ordered'
    OBVIOUS
  <2>1. NoneExpired
    BY CountsStep DEF Inv
  <2>2. QED
    BY <2>1, StepOrdered DEF Inv
<1>3. QED
  BY <1>1, <1>2, CountsHold, InvHolds, PTL DEF Spec

\* With one pass in flight the counters tell whether an entry has expired, and
\* until one has, every report is that of its three segments.
THEOREM ReportsInTime == ASSUME OnePass PROVE Spec => []TimesOrderedInTime
<1>1. (NoneExpired => Ordered) => TimesOrderedInTime
  BY DEF Ordered, TimesOrderedInTime
<1>2. QED
  BY <1>1, OrderedHolds, PTL

\* No two connections of a client with the same number from the server: what
\* distinguishes the handshakes of a client in set_packet.c:88-94.
ServerIsnsDiffer ==
  \A c, d \in Conns : Client[c] = Client[d] /\ ServerIsn[c] = ServerIsn[d] => Isn[c] = Isn[d]

\* The entry an ACK completes is that of its own connection, though the ACK is
\* matched by the client's address and the server's number alone.
THEOREM OwnHandshake ==
  ASSUME OnePass, ServerIsnsDiffer PROVE Spec => []ReportOwnHandshake
<1>1. TypeOK /\ (NoneExpired => Ordered) => ReportOwnHandshake
  <2> SUFFICES ASSUME TypeOK, Ordered, pc \in {"ack", "compute", "build"}
               PROVE  /\ msg_tab[n]["c_syn"] = Isn[pkt.conn]
                      /\ msg_tab[n]["s_syn"] = ServerIsn[pkt.conn]
    BY DEF ReportOwnHandshake
  <2>1. n \in Slots /\ pkt.conn \in Conns /\ IsAckOf(msg_tab[n], pkt.conn)
    BY AtSlot DEF Ordered, Handled
  <2>2. \E c \in Conns : /\ msg_tab[n]["ip_src"] = Client[c] /\ msg_tab[n]["c_syn"] = Isn[c]
                         /\ msg_tab[n]["s_syn"] = ServerIsn[c]
    BY <2>1, TimeTypes DEF Ordered, Entry, IsAckOf
  <2>3. QED
    BY <2>1, <2>2 DEF ServerIsnsDiffer, IsAckOf
<1>2. QED
  BY <1>1, OrderedHolds, TypeCorrect, PTL

-----------------------------------------------------------------------------
(* The filter.  What it needs of the world: no two connections share an    *)
(* entry of hash_ack or the numbers of a SYN, and no SYN comes twice.      *)

SynOf(c) == [kind |-> "syn", conn |-> c]

NoCollision == \A c, d \in Conns : Hash(c) = Hash(d) => c = d
SynsDiffer  == \A c, d \in Conns : Client[c] = Client[d] /\ Isn[c] = Isn[d] => c = d
SynsOnce    == \A l \in Traffic : \A c \in Conns : l[SynOf(c)] <= 1

\* Slot s holds the SYN, or the number of the SYN+ACK, of connection c.
HasSyn(s, c)    == msg_tab[s]["ip_src"] = Client[c] /\ msg_tab[s]["c_syn"] = Isn[c]
HasSynack(s, c) == msg_tab[s]["s_syn"] = ServerIsn[c]

Filing(c) == pc \in {"scan", "syn", "syn_ident"} /\ pkt = SynOf(c)
Unfiled(c) == left[SynOf(c)] = 1 \/ Filing(c)

\* A SYN is still to come, is being filed or has been.
SynComesOnce ==
  /\ pc \in {"syn", "syn_ident"} => pkt.kind = "syn"
  /\ pc = "filter" => pkt.kind = "ack"
  /\ \A c \in Conns : left[SynOf(c)] <= 1 /\ (Filing(c) => left[SynOf(c)] = 0)

\* Only one slot ever holds anything of a connection, and none before its SYN.
OneSlot ==
  \A c \in Conns : \A s \in Slots :
    /\ Unfiled(c) => ~HasSyn(s, c) /\ ~HasSynack(s, c)
    /\ \A r \in Slots : HasSyn(s, c) /\ HasSyn(r, c) => s = r
    /\ \A r \in Slots : HasSyn(s, c) /\ HasSynack(r, c) => s = r
    /\ \A r \in Slots : HasSynack(s, c) /\ HasSynack(r, c) => s = r

\* A handler that works on slot n of the connection works on that slot, though a
\* pass may have cleared it meanwhile.
SlotOfHandler ==
  /\ pc \in {"synack", "synack_ident"} =>
       /\ ~Unfiled(pkt.conn)
       /\ \A s \in Slots \ {n} : ~HasSyn(s, pkt.conn) /\ ~HasSynack(s, pkt.conn)
  /\ pc = "ack" => \A s \in Slots \ {n} : ~HasSynack(s, pkt.conn)

Completing == {"compute", "build", "send", "lock", "clear"}

\* The filter lets through the ACKs of every SYN+ACK in the table but the one
\* being reported.
LetThrough ==
  \A c \in Conns : \A s \in Slots :
    HasSynack(s, c) => hash_ack[Hash(c)] # 0 \/ (pc \in Completing /\ n = s)

Filter == SynComesOnce /\ OneSlot /\ SlotOfHandler /\ LetThrough

\* Nothing new is found in the table.
Shrinks ==
  \A s \in Slots : \A c \in Conns :
    /\ HasSyn(s, c)' => HasSyn(s, c)
    /\ HasSynack(s, c)' => HasSynack(s, c)

\* Sequence numbers hash into the table.
LEMMA HashType == ASSUME NEW c \in Conns PROVE Hash(c) \in 0 .. HashSize - 1
<1>1. ServerIsn[c] \in Nat /\ HashSize \in Nat /\ HashSize > 0
  BY ConnsAssumption, SizesAssumption
<1>2. QED
  BY <1>1 DEF Hash

\* A pass adds nothing to an entry.
LEMMA ClearingShrinks == ASSUME OnlyCleared PROVE Shrinks
<1>1. \A c \in Conns : Client[c] # 0 /\ Isn[c] # 0 /\ ServerIsn[c] # 0
  BY ConnsAssumption
<1>2. QED
  BY <1>1 DEF OnlyCleared, Shrinks, HasSyn, HasSynack, Fields

\* Different hashes come from different sequence numbers.
LEMMA ServerIsnsDistinct ==
  ASSUME NoCollision, NEW c \in Conns, NEW d \in Conns, ServerIsn[c] = ServerIsn[d]
  PROVE  c = d
BY DEF NoCollision, Hash

\* Segments are delivered, never added.
LEMMA LeftShrinks ==
  ASSUME TypeOK, SynComesOnce, NEW p \in Packets, Receive(p), NEW c \in Conns
  PROVE  /\ left[SynOf(c)] \in Nat /\ left'[SynOf(c)] \in Nat /\ left[SynOf(c)] <= 1
         /\ left'[SynOf(c)] <= left[SynOf(c)]
         /\ p = SynOf(c) => left[SynOf(c)] = 1 /\ left'[SynOf(c)] = 0
<1> DEFINE q == SynOf(c)
<1>1. left \in [Packets -> Nat] /\ left' = [left EXCEPT ![p] = @ - 1] /\ left[p] > 0
  BY DEF TypeOK, WorldType, Receive
<1>2. q \in Packets /\ left[q] <= 1
  BY DEF SynOf, Packets, Kinds, SynComesOnce
<1> HIDE DEF q
<1>3. left[q] \in Nat /\ left'[q] = IF q = p THEN left[q] - 1 ELSE left[q]
  BY <1>1, <1>2
<1>4. p = q => left[q] > 0
  BY <1>1
<1>5. /\ left[q] \in Nat /\ left'[q] \in Nat /\ left[q] <= 1 /\ left'[q] <= left[q]
      /\ p = q => left[q] = 1 /\ left'[q] = 0
  BY <1>2, <1>3, <1>4
<1>6. QED
  BY <1>5 DEF q

\* Steps that find nothing new in the table and leave the handlers alone: a
\* segment taken up, the end of a handler, the clock, the garbage passes.
LEMMA ShrinkingKeeps ==
  ASSUME TypeOK, Filter, Shrinks, UNCHANGED hash_ack,
         \A c \in Conns : Unfiled(c)' => Unfiled(c),
         SynComesOnce',
         \/ UNCHANGED <<pc, pkt, n, left>>
         \/ pc' \in {"idle", "filter", "scan"} /\ pc \notin Completing
         \/ {pc, pc'} \subseteq Completing /\ UNCHANGED n
  PROVE  Filter'
<1> USE DEF Filter, Shrinks
<1>1. OneSlot'
  BY DEF OneSlot
<1>2. SlotOfHandler'
  <2>1. pc \in {"synack", "synack_ident", "ack"} => pkt.conn \in Conns
    BY AtSlot
  <2>2. QED
    BY <2>1 DEF SlotOfHandler, Completing
<1>3. LetThrough'
  BY DEF LetThrough, Completing
<1>4. QED
  BY <1>1, <1>2, <1>3

\* A new segment takes one of its deliveries.
LEMMA FilterReceive ==
  ASSUME TypeOK, Filter, NEW p \in Packets, Receive(p) PROVE Filter'
<1> USE DEF Filter
<1>1. /\ UNCHANGED <<msg_tab, hash_ack>> /\ pc = "idle" /\ pc' \in {"filter", "scan"}
      /\ pkt' = p /\ (pc' = "filter" => p.kind = "ack")
  BY DEF Receive, tables
<1>2. \A c \in Conns : /\ left'[SynOf(c)] <= left[SynOf(c)]
                       /\ p = SynOf(c) => left[SynOf(c)] = 1 /\ left'[SynOf(c)] = 0
  BY LeftShrinks
<1>3. \A c \in Conns : left[SynOf(c)] \in Nat /\ left'[SynOf(c)] \in Nat /\ left[SynOf(c)] <= 1
  BY LeftShrinks
<1>4. Shrinks
  BY <1>1 DEF Shrinks, HasSyn, HasSynack
<1>5. SynComesOnce'
  BY <1>1, <1>2, <1>3 DEF SynComesOnce, Filing
<1>6. \A c \in Conns : Unfiled(c)' => Unfiled(c)
  BY <1>1, <1>2, <1>3 DEF Unfiled, Filing
<1>7. QED
  BY <1>1, <1>4, <1>5, <1>6, ShrinkingKeeps DEF Completing

\* The clock, the passes, and the handlers' steps that write nothing new.
LEMMA FilterOthers ==
  ASSUME TypeOK, Filter, UNCHANGED <<left, hash_ack>>, OnlyCleared,
         \/ UNCHANGED <<pc, pkt, n>>
         \/ pc' = "idle" /\ pc \notin Completing
         \/ pc' = "scan" /\ pc = "filter" /\ pkt' = pkt /\ pkt.kind = "ack"
         \/ {pc, pc'} \subseteq Completing /\ UNCHANGED <<pkt, n>>
  PROVE  Filter'
<1> USE DEF Filter
<1>1. Shrinks
  BY ClearingShrinks
<1>2. SynComesOnce'
  BY DEF SynComesOnce, Filing, Completing, SynOf
<1>3. \A c \in Conns : Unfiled(c)' => Unfiled(c)
  BY DEF Unfiled, Filing, Completing, SynOf
<1>4. QED
  BY <1>1, <1>2, <1>3, ShrinkingKeeps DEF Completing

\* The slot a scan stops at holds the sequence number of a SYN that was filed.
LEMMA FilterScan == ASSUME TypeOK, Filter, ScanSlot PROVE Filter'
<1> USE DEF Filter
<1>1. UNCHANGED <<msg_tab, hash_ack, left, pkt>> /\ pc = "scan"
  BY DEF ScanSlot, world, tables
<1>2. pkt \in Packets /\ pkt.conn \in Conns /\ pkt.kind \in Kinds
  BY <1>1 DEF TypeOK, CaptureType, Packets
<1>3. \/ pc' = "scan" /\ n' = n + 1
      \/ pc' = pkt.kind /\ n' = n /\ n \in Slots /\ Matches(msg_tab[n], pkt)
  <2>1. n \in 0 .. MaxTabSize /\ n < MaxTabSize /\ MaxTabSize \in Nat
    BY SizesAssumption DEF ScanSlot, TypeOK, CaptureType
  <2>2. QED
    BY <2>1 DEF ScanSlot, Slots
<1>4. \A s \in Slots : \A c \in Conns : /\ HasSyn(s, c)' = HasSyn(s, c)
                                        /\ HasSynack(s, c)' = HasSynack(s, c)
  BY <1>1 DEF HasSyn, HasSynack
<1>5. \A c \in Conns : Unfiled(c)' => Unfiled(c)
  BY <1>1 DEF Unfiled, Filing
<1>6. SynComesOnce'
  BY <1>1, <1>2, <1>3 DEF SynComesOnce, Filing, Kinds
<1>7. OneSlot'
  BY <1>4, <1>5 DEF OneSlot
<1>8. LetThrough'
  BY <1>1, <1>4 DEF LetThrough, Completing
<1>9. SlotOfHandler'
  <2>1. CASE pc' = "synack"
    <3>1. HasSyn(n, pkt.conn) /\ n \in Slots /\ n' = n
      BY <1>1, <1>2, <1>3, <2>1 DEF Matches, IsSynackOf, HasSyn
    <3>2. /\ ~Unfiled(pkt.conn)
          /\ \A s \in Slots \ {n} : ~HasSyn(s, pkt.conn) /\ ~HasSynack(s, pkt.conn)
      BY <1>2, <3>1 DEF OneSlot
    <3>3. QED
      BY <1>1, <1>2, <1>4, <1>5, <2>1, <3>1, <3>2 DEF SlotOfHandler
  <2>2. CASE pc' = "ack"
    <3>1. HasSynack(n, pkt.conn) /\ n \in Slots /\ n' = n
      BY <1>1, <1>2, <1>3, <2>2 DEF Matches, IsAckOf, HasSynack
    <3>2. \A s \in Slots \ {n} : ~HasSynack(s, pkt.conn)
      BY <1>2, <3>1 DEF OneSlot
    <3>3. QED
      BY <1>1, <1>2, <1>4, <2>2, <3>1, <3>2 DEF SlotOfHandler
  <2>3. CASE pc' \in {"scan", "syn"}
    BY <2>3 DEF SlotOfHandler
  <2>4. QED
    BY <1>2, <1>3, <2>1, <2>2, <2>3 DEF Kinds
<1>10. QED
  BY <1>6, <1>7, <1>8, <1>9

\* The writes of times do not change what a slot holds of whom.
LEMMA FilterTimes ==
  ASSUME TypeOK, Filter, SetSynTime \/ SetSynackTime \/ ComputeTimes
  PROVE  Filter'
<1> USE DEF Filter
<1>1. \A s \in Slots : \A f \in {"ip_src", "c_syn", "s_syn"} : msg_tab'[s][f] = msg_tab[s][f]
  BY SynTimeWrites, SynackTimeWrites, ComputeWrites DEF Fields
<1>2. \A s \in Slots : \A c \in Conns : /\ HasSyn(s, c)' = HasSyn(s, c)
                                        /\ HasSynack(s, c)' = HasSynack(s, c)
  BY <1>1 DEF HasSyn, HasSynack
<1>3. UNCHANGED <<hash_ack, left, pkt, n>>
  BY DEF SetSynTime, SetSynackTime, ComputeTimes, Goto, world
<1>4. \/ pc = "syn" /\ pc' = "syn_ident"
      \/ pc = "synack" /\ pc' = "synack_ident"
      \/ pc = "compute" /\ pc' = "build"
  BY DEF SetSynTime, SetSynackTime, ComputeTimes, Goto
<1>5. pkt.conn \in Conns
  BY <1>4, AtSlot
<1>6. \A c \in Conns : Unfiled(c)' = Unfiled(c)
  BY <1>3, <1>4 DEF Unfiled, Filing
<1>7. SynComesOnce'
  BY <1>3, <1>4 DEF SynComesOnce, Filing
<1>8. OneSlot' /\ LetThrough'
  BY <1>2, <1>3, <1>4, <1>6 DEF OneSlot, LetThrough, Completing
<1>9. SlotOfHandler'
  BY <1>2, <1>3, <1>4, <1>5, <1>6 DEF SlotOfHandler
<1>10. QED
  BY <1>7, <1>8, <1>9

\* The SYN is filed: it was in no slot.
LEMMA FilterSynIdent ==
  ASSUME SynsDiffer, TypeOK, Filter, SetSynIdent PROVE Filter'
<1> USE DEF Filter
<1> DEFINE d == pkt.conn
<1>1. /\ UNCHANGED <<hash_ack, left>> /\ pc = "syn_ident" /\ pc' = "idle"
      /\ n \in Slots /\ d \in Conns /\ pkt.kind = "syn"
  BY AtSlot DEF SetSynIdent, Return, world, SynComesOnce
<1>2. pkt = SynOf(d)
  BY <1>1, AtSlot DEF SynOf, Packets
<1>3. Unfiled(d)
  BY <1>1, <1>2 DEF Unfiled, Filing
<1>4. /\ \A s \in Slots : msg_tab'[s]["s_syn"] = msg_tab[s]["s_syn"]
      /\ \A s \in Slots \ {n} : \A f \in {"ip_src", "c_syn"} : msg_tab'[s][f] = msg_tab[s][f]
      /\ msg_tab'[n]["ip_src"] = Client[d] /\ msg_tab'[n]["c_syn"] = Isn[d]
  BY <1>1, SynIdentWrites DEF Fields
<1>5. \A s \in Slots : \A c \in Conns :
        /\ HasSynack(s, c)' = HasSynack(s, c)
        /\ HasSyn(s, c)' => HasSyn(s, c) \/ (s = n /\ c = d)
  <2> SUFFICES ASSUME NEW s \in Slots, NEW c \in Conns
               PROVE  /\ HasSynack(s, c)' = HasSynack(s, c)
                      /\ HasSyn(s, c)' => HasSyn(s, c) \/ (s = n /\ c = d)
    OBVIOUS
  <2>1. HasSynack(s, c)' = HasSynack(s, c)
    BY <1>4 DEF HasSynack
  <2>2. ASSUME s = n, HasSyn(s, c)' PROVE c = d
    BY <1>1, <1>4, <2>2 DEF HasSyn, SynsDiffer
  <2>3. ASSUME s # n, HasSyn(s, c)' PROVE HasSyn(s, c)
    BY <1>4, <2>3 DEF HasSyn
  <2>4. QED
    BY <2>1, <2>2, <2>3
<1>6. \A s \in Slots : ~HasSyn(s, d) /\ ~HasSynack(s, d)
  BY <1>1, <1>3 DEF OneSlot
<1>7. left[SynOf(d)] = 0
  BY <1>1, <1>2 DEF SynComesOnce, Filing
<1>8. \A c \in Conns : Unfiled(c)' => Unfiled(c) /\ c # d
  BY <1>1, <1>7 DEF Unfiled, Filing
<1> HIDE DEF d
<1>9. OneSlot'
  BY <1>1, <1>5, <1>6, <1>8 DEF OneSlot
<1>10. SynComesOnce' /\ SlotOfHandler'
  BY <1>1 DEF SynComesOnce, SlotOfHandler, Filing
<1>11. LetThrough'
  BY <1>1, <1>5 DEF LetThrough, Completing
<1>12. QED
  BY <1>9, <1>10, <1>11

\* The SYN+ACK is filed, and with it the entry of hash_ack.
LEMMA FilterSynackIdent ==
  ASSUME NoCollision, TypeOK, Filter, SetSynackIdent PROVE Filter'
<1> USE DEF Filter
<1> DEFINE d == pkt.conn
<1>1. /\ pc = "synack_ident" /\ pc' = "idle" /\ UNCHANGED left
      /\ n \in Slots /\ d \in Conns
      /\ hash_ack' = [hash_ack EXCEPT ![Hash(d)] = ServerIsn[d]]
  BY AtSlot DEF SetSynackIdent, Return, world
<1>2. \A s \in Slots : /\ \A f \in {"ip_src", "c_syn"} : msg_tab'[s][f] = msg_tab[s][f]
                       /\ msg_tab'[s]["s_syn"] = IF s = n THEN ServerIsn[d] ELSE msg_tab[s]["s_syn"]
  BY SynackIdentWrites DEF Fields
<1>3. \A s \in Slots : \A c \in Conns :
        /\ HasSyn(s, c)' = HasSyn(s, c)
        /\ HasSynack(s, c)' => HasSynack(s, c) \/ (s = n /\ c = d)
  <2> SUFFICES ASSUME NEW s \in Slots, NEW c \in Conns
               PROVE  /\ HasSyn(s, c)' = HasSyn(s, c)
                      /\ HasSynack(s, c)' => HasSynack(s, c) \/ (s = n /\ c = d)
    OBVIOUS
  <2>1. HasSyn(s, c)' = HasSyn(s, c)
    BY <1>2 DEF HasSyn
  <2>2. ASSUME s # n, HasSynack(s, c)' PROVE HasSynack(s, c)
    BY <1>2, <2>2 DEF HasSynack
  <2>3. ASSUME s = n, HasSynack(s, c)' PROVE c = d
    <3>1. ServerIsn[c] = ServerIsn[d]
      BY <1>1, <1>2, <2>3 DEF HasSynack
    <3>2. QED
      BY <1>1, <3>1, ServerIsnsDistinct
  <2>4. QED
    BY <2>1, <2>2, <2>3
<1>4. /\ ~Unfiled(d)
      /\ \A s \in Slots \ {n} : ~HasSyn(s, d) /\ ~HasSynack(s, d)
  BY <1>1 DEF SlotOfHandler
<1>5. \A c \in Conns : Unfiled(c)' => Unfiled(c)
  BY <1>1 DEF Unfiled, Filing
<1>6. \A c \in Conns : hash_ack'[Hash(c)] = IF c = d THEN ServerIsn[d] ELSE hash_ack[Hash(c)]
  <2>1. hash_ack \in [0 .. HashSize - 1 -> Nat]
    BY DEF TypeOK, TableType
  <2>2. \A c \in Conns : Hash(c) \in 0 .. HashSize - 1 /\ (Hash(c) = Hash(d) => c = d)
    BY <1>1, HashType DEF NoCollision
  <2> HIDE DEF d
  <2>3. QED
    BY <1>1, <2>1, <2>2
<1>7. ServerIsn[d] # 0
  BY <1>1, ConnsAssumption
<1> HIDE DEF d
<1>8. OneSlot'
  BY <1>1, <1>3, <1>4, <1>5 DEF OneSlot
<1>9. SynComesOnce' /\ SlotOfHandler'
  BY <1>1 DEF SynComesOnce, SlotOfHandler, Filing
<1>10. LetThrough'
  BY <1>1, <1>3, <1>6, <1>7 DEF LetThrough, Completing
<1>11. QED
  BY <1>8, <1>9, <1>10

\* The ACK clears the entry of hash_ack: its handshake is in no other slot.
LEMMA FilterSetAck ==
  ASSUME NoCollision, TypeOK, Filter, SetAck PROVE Filter'
<1> USE DEF Filter
<1> DEFINE d == pkt.conn
<1>1. /\ pc = "ack" /\ pc' = "compute" /\ UNCHANGED <<left, pkt, n>>
      /\ n \in Slots /\ d \in Conns
      /\ hash_ack' = [hash_ack EXCEPT ![Hash(d)] = 0]
  BY AtSlot DEF SetAck, Goto, world
<1>2. \A s \in Slots : \A f \in {"ip_src", "c_syn", "s_syn"} : msg_tab'[s][f] = msg_tab[s][f]
  BY AckWrites DEF Fields
<1>3. \A s \in Slots : \A c \in Conns : /\ HasSyn(s, c)' = HasSyn(s, c)
                                        /\ HasSynack(s, c)' = HasSynack(s, c)
  BY <1>2 DEF HasSyn, HasSynack
<1>4. \A s \in Slots \ {n} : ~HasSynack(s, d)
  BY <1>1 DEF SlotOfHandler
<1>5. \A c \in Conns : Unfiled(c)' => Unfiled(c)
  BY <1>1 DEF Unfiled, Filing
<1>6. \A c \in Conns : c # d => hash_ack'[Hash(c)] = hash_ack[Hash(c)]
  <2>1. hash_ack \in [0 .. HashSize - 1 -> Nat]
    BY DEF TypeOK, TableType
  <2>2. \A c \in Conns : Hash(c) \in 0 .. HashSize - 1 /\ (Hash(c) = Hash(d) => c = d)
    BY <1>1, HashType DEF NoCollision
  <2> HIDE DEF d
  <2>3. QED
    BY <1>1, <2>1, <2>2
<1> HIDE DEF d
<1>7. OneSlot'
  BY <1>3, <1>5 DEF OneSlot
<1>8. SynComesOnce' /\ SlotOfHandler'
  BY <1>1 DEF SynComesOnce, SlotOfHandler, Filing
<1>9. LetThrough'
  BY <1>1, <1>3, <1>4, <1>6 DEF LetThrough, Completing
<1>10. QED
  BY <1>7, <1>8, <1>9

\* The slot that was reported is cleared.
LEMMA FilterCleared == ASSUME TypeOK, Filter, ClearReported PROVE Filter'
<1> USE DEF Filter
<1>1. pc = "clear" /\ pc' = "idle" /\ UNCHANGED <<left, hash_ack>> /\ n \in Slots
  BY AtSlot DEF ClearReported, Return, world
<1>2. \A s \in Slots : \A f \in Fields : msg_tab'[s][f] = IF s = n THEN 0 ELSE msg_tab[s][f]
  BY ClearWrites
<1>3. \A s \in Slots : \A c \in Conns :
        /\ HasSyn(s, c)' => HasSyn(s, c)
        /\ HasSynack(s, c)' => HasSynack(s, c) /\ s # n
  BY <1>2, ConnsAssumption DEF HasSyn, HasSynack, Fields
<1>4. OneSlot'
  BY <1>1, <1>3 DEF OneSlot, Unfiled, Filing
<1>5. SynComesOnce' /\ SlotOfHandler'
  BY <1>1 DEF SynComesOnce, SlotOfHandler, Filing
<1>6. LetThrough'
  BY <1>1, <1>3 DEF LetThrough, Completing
<1>7. QED
  BY <1>4, <1>5, <1>6

\* Every step keeps the hash entry of every handshake that waits for its ACK.
LEMMA FilterStep ==
  ASSUME NoCollision, SynsDiffer, TypeOK, Filter, [Next]_vars PROVE Filter'
<1>1. CASE Tick \/ UNCHANGED vars
  <2>1. UNCHANGED <<left, hash_ack, msg_tab, pc, pkt, n>>
    BY <1>1 DEF Tick, vars, world, tables, capture
  <2>2. OnlyCleared
    BY <2>1 DEF OnlyCleared
  <2>3. QED
    BY <2>1, <2>2, FilterOthers
<1>2. ASSUME NEW t \in GcThreads, GcNext(t) PROVE Filter'
  <2>1. UNCHANGED <<left, hash_ack>>
    BY <1>2 DEF GcNext, GcStart, GcCheck, GcLock, GcClearHalf, GcClearRest, GcLoadStat,
                GcStoreStat, world, tables
  <2>2. UNCHANGED <<pc, pkt, n>> /\ OnlyCleared
    BY <1>2, GcClears DEF capture
  <2>3. QED
    BY <2>1, <2>2, FilterOthers
<1>3. CASE FilterAck \/ ScanFails \/ BuildMsg \/ SendReturns \/ LockForClear
  <2>1. UNCHANGED <<left, hash_ack, msg_tab>>
    BY <1>3 DEF FilterAck, ScanFails, BuildMsg, SendReturns, LockForClear, world, tables
  <2>2. OnlyCleared
    BY <2>1 DEF OnlyCleared
  <2>3. \/ pc' = "idle" /\ pc \notin Completing
        \/ pc' = "scan" /\ pc = "filter" /\ pkt' = pkt /\ pkt.kind = "ack"
        \/ {pc, pc'} \subseteq Completing /\ UNCHANGED <<pkt, n>>
    BY <1>3 DEF FilterAck, ScanFails, BuildMsg, SendReturns, LockForClear, Goto, Return,
                Completing, Filter, SynComesOnce
  <2>4. QED
    BY <2>1, <2>2, <2>3, FilterOthers
<1>4. QED
  BY <1>1, <1>2, <1>3, FilterReceive, FilterScan, FilterTimes, FilterSynIdent,
     FilterSynackIdent, FilterSetAck, FilterCleared DEF Next, CaptureNext

\* Under these conditions the filter drops no ACK that completes a handshake of
\* the table, whatever the passes clear meanwhile.
THEOREM FilterLossless ==
  ASSUME NoCollision, SynsDiffer, SynsOnce
  PROVE  Spec => []FilterDropsNoHandshake
<1>1. Init => Filter
  <2> SUFFICES ASSUME Init PROVE Filter
    OBVIOUS
  <2>1. \A c \in Conns : left[SynOf(c)] <= 1
    BY DEF Init, SynsOnce
  <2>2. \A s \in Slots : \A c \in Conns : ~HasSyn(s, c) /\ ~HasSynack(s, c)
    BY ConnsAssumption DEF Init, Cleared, HasSyn, HasSynack, Fields
  <2>3. QED
    BY <2>1, <2>2 DEF Init, Filter, SynComesOnce, Filing, OneSlot, SlotOfHandler, LetThrough
<1>2. TypeOK /\ Filter /\ [Next]_vars => Filter'
  BY FilterStep
<1>3. TypeOK /\ Filter => FilterDropsNoHandshake
  <2> SUFFICES ASSUME TypeOK, Filter, pc = "filter", hash_ack[Hash(pkt.conn)] = 0,
                      NEW s \in Slots, IsAckOf(msg_tab[s], pkt.conn)
               PROVE  FALSE
    BY DEF FilterDropsNoHandshake
  <2>1. pkt.conn \in Conns
    BY DEF TypeOK, CaptureType, Packets
  <2>2. HasSynack(s, pkt.conn)
    BY DEF IsAckOf, HasSynack
  <2>3. QED
    BY <2>1, <2>2 DEF Filter, LetThrough, Completing
<1>4. QED
  BY <1>1, <1>2, <1>3, TypeCorrect, PTL DEF Spec

-----------------------------------------------------------------------------
(* The counters.  A SYN between its two writes is in the table and not yet *)
(* counted, a handshake between its ACK and the memset is counted and      *)
(* still in the table, and a pass counts an entry after clearing it.       *)

Pending  == IF pc = "syn_ident" THEN 1 ELSE 0
Reported == IF pc \in Completing THEN 1 ELSE 0
Doomed(t) == IF gpc[t] = "clear_rest" /\ "c_syn_tv" \notin todo[t] THEN 1 ELSE 0

Balance ==
  /\ pc # "idle" => tv > 0
  /\ \A t \in GcThreads :
       stat["nbr_syn_send"] + Pending + Reported <=
         Cardinality(Tracked) + stat["nbr_ack_send"] + stat["stat_tcpflood_dest_entries"]
           + count[t] + Doomed(t)

\* The entries of the table are finitely many.
LEMMA Countable ==
  ASSUME NEW T \in SUBSET Slots
  PROVE  IsFiniteSet(T) /\ Cardinality(T) \in Nat
<1>1. 0 \in Int /\ MaxTabSize - 1 \in Int
  BY SizesAssumption
<1>2. IsFiniteSet(Slots)
  BY <1>1, FS_Interval DEF Slots
<1>3. IsFiniteSet(T)
  BY <1>2, FS_Subset
<1>4. QED
  BY <1>3, FS_CardinalityType

\* Clearing one slot takes one entry from the table, or none.
LEMMA OneLess ==
  ASSUME NEW T \in SUBSET Slots, NEW s
  PROVE  Cardinality(T \ {s}) >= Cardinality(T) - 1
<1>1. IsFiniteSet(T) /\ Cardinality(T) \in Nat
  BY Countable
<1>2. CASE s \in T
  <2>1. Cardinality(T \ {s}) = Cardinality(T) - 1
    BY <1>1, <1>2, FS_RemoveElement
  <2>2. QED
    BY <1>1, <2>1
<1>3. CASE s \notin T
  <2>1. T \ {s} = T
    BY <1>3
  <2>2. QED
    BY <1>1, <2>1
<1>4. QED
  BY <1>2, <1>3

\* What the counters are, before and after a step.
LEMMA CountTypes ==
  ASSUME TypeOK
  PROVE  /\ stat \in [Counters -> Nat]
         /\ {"nbr_syn_send", "nbr_ack_send", "stat_tcpflood_dest_entries"} \subseteq Counters
         /\ stat["nbr_syn_send"] \in Nat /\ stat["nbr_ack_send"] \in Nat
         /\ stat["stat_tcpflood_dest_entries"] \in Nat
         /\ \A t \in GcThreads : count[t] \in Nat /\ Doomed(t) \in {0, 1}
         /\ Tracked \in SUBSET Slots /\ Cardinality(Tracked) \in Nat
         /\ Pending \in {0, 1} /\ Reported \in {0, 1}
<1>1. /\ stat \in [Counters -> Nat]
      /\ {"nbr_syn_send", "nbr_ack_send", "stat_tcpflood_dest_entries"} \subseteq Counters
  BY DEF TypeOK, TableType, Counters
<1>2. \A t \in GcThreads : count[t] \in Nat /\ Doomed(t) \in {0, 1}
  BY DEF TypeOK, PassType, Doomed
<1>3. Tracked \in SUBSET Slots
  BY DEF Tracked
<1>4. QED
  BY <1>1, <1>2, <1>3, Countable DEF Pending, Reported

\* Steps of the capture thread that neither file nor clear an entry.
LEMMA BalanceReading ==
  ASSUME TypeOK, Balance,
         \/ \E p \in Packets : Receive(p)
         \/ FilterAck \/ ScanSlot \/ ScanFails \/ SetSynackTime \/ SetSynackIdent
         \/ ComputeTimes \/ BuildMsg \/ SendReturns \/ LockForClear
  PROVE  Balance'
<1> USE DEF Goto, Return, world, tables, passes
<1>1. \A s \in Slots : msg_tab'[s]["c_syn_tv"] = msg_tab[s]["c_syn_tv"]
  BY SynackTimeWrites, SynackIdentWrites, ComputeWrites
     DEF Fields, Receive, FilterAck, ScanSlot, ScanFails, BuildMsg, SendReturns, LockForClear
<1>2. Tracked' = Tracked
  BY <1>1 DEF Tracked
<1>3. /\ stat'["nbr_syn_send"] = stat["nbr_syn_send"]
      /\ stat'["nbr_ack_send"] = stat["nbr_ack_send"]
      /\ stat'["stat_tcpflood_dest_entries"] = stat["stat_tcpflood_dest_entries"]
  <2>1. \/ UNCHANGED stat
        \/ Bump("stat_hash_filtered") \/ Bump("stat_hash_not_filtered") \/ Bump("nbr_synack_send")
    BY DEF Receive, FilterAck, ScanSlot, ScanFails, SetSynackTime, SetSynackIdent,
           ComputeTimes, BuildMsg, SendReturns, LockForClear
  <2>2. QED
    BY <2>1, CountTypes DEF Bump
<1>4. UNCHANGED passes
  BY DEF Receive, FilterAck, ScanSlot, ScanFails, SetSynackTime, SetSynackIdent,
         ComputeTimes, BuildMsg, SendReturns, LockForClear
<1>5. \A t \in GcThreads : Doomed(t)' = Doomed(t) /\ count'[t] = count[t]
  BY <1>4 DEF Doomed
<1>6. Pending' = 0 /\ Pending = 0 /\ Reported' = Reported
  <2>1. pkt \in Packets \/ pc = "idle"
    BY DEF TypeOK, CaptureType
  <2>2. QED
    BY <2>1 DEF Receive, FilterAck, ScanSlot, ScanFails, SetSynackTime, SetSynackIdent, ComputeTimes,
       BuildMsg, SendReturns, LockForClear, Pending, Reported, Completing, Packets, Kinds
<1>7. pc' # "idle" => tv' > 0
  <2>1. now > 0
    BY TimeTypes
  <2>2. QED
    BY <2>1 DEF Balance, Receive, FilterAck, ScanSlot, ScanFails, SetSynackTime, SetSynackIdent,
       ComputeTimes, BuildMsg, SendReturns, LockForClear
<1>8. QED
  BY <1>2, <1>3, <1>5, <1>6, <1>7 DEF Balance

\* The writes that file, complete or clear an entry.
LEMMA BalanceWriting ==
  ASSUME TypeOK, TypeOK', SynTakesFreeSlot, Balance,
         SetSynTime \/ SetSynIdent \/ SetAck \/ ClearReported
  PROVE  Balance'
<1> USE DEF Goto, Return, world, passes
<1>1. UNCHANGED passes
  BY DEF SetSynTime, SetSynIdent, SetAck, ClearReported
<1>2. \A t \in GcThreads : Doomed(t)' = Doomed(t) /\ count'[t] = count[t]
  BY <1>1 DEF Doomed
<1>3. stat \in [Counters -> Nat] /\ Tracked' \in SUBSET Slots /\ Cardinality(Tracked') \in Nat
  BY CountTypes, Countable DEF Tracked
<1>4. CASE SetSynTime
  <2>1. pc = "syn" /\ pc' = "syn_ident" /\ tv' = tv /\ tv > 0 /\ n \in Slots
    BY <1>4, AtSlot DEF SetSynTime, Balance
  <2>2. \A s \in Slots : msg_tab'[s]["c_syn_tv"] = IF s = n THEN tv ELSE msg_tab[s]["c_syn_tv"]
    BY <1>4, SynTimeWrites DEF Fields
  <2>3. n \notin Tracked /\ Tracked' = Tracked \cup {n}
    BY <2>1, <2>2 DEF Tracked, SynTakesFreeSlot
  <2>4. Cardinality(Tracked') = Cardinality(Tracked) + 1
    BY <2>3, CountTypes, Countable, FS_AddElement
  <2>5. /\ stat'["nbr_syn_send"] = stat["nbr_syn_send"]
        /\ stat'["nbr_ack_send"] = stat["nbr_ack_send"]
        /\ stat'["stat_tcpflood_dest_entries"] = stat["stat_tcpflood_dest_entries"]
    BY <1>4, CountTypes DEF SetSynTime
  <2>6. Pending = 0 /\ Pending' = 1 /\ Reported = 0 /\ Reported' = 0
    BY <2>1 DEF Pending, Reported, Completing
  <2>7. QED
    BY <1>2, <2>1, <2>4, <2>5, <2>6, CountTypes DEF Balance
<1>5. CASE SetSynIdent
  <2>1. pc = "syn_ident" /\ pc' = "idle"
    BY <1>5 DEF SetSynIdent
  <2>2. \A s \in Slots : msg_tab'[s]["c_syn_tv"] = msg_tab[s]["c_syn_tv"]
    BY <1>5, SynIdentWrites DEF Fields
  <2>3. Tracked' = Tracked
    BY <2>2 DEF Tracked
  <2>4. /\ stat'["nbr_syn_send"] = stat["nbr_syn_send"] + 1
        /\ stat'["nbr_ack_send"] = stat["nbr_ack_send"]
        /\ stat'["stat_tcpflood_dest_entries"] = stat["stat_tcpflood_dest_entries"]
    BY <1>5, CountTypes DEF SetSynIdent, Bump
  <2>5. Pending = 1 /\ Pending' = 0 /\ Reported = 0 /\ Reported' = 0
    BY <2>1 DEF Pending, Reported, Completing
  <2>6. QED
    BY <1>2, <2>1, <2>3, <2>4, <2>5, CountTypes DEF Balance
<1>6. CASE SetAck
  <2>1. pc = "ack" /\ pc' = "compute" /\ tv' = tv
    BY <1>6 DEF SetAck
  <2>2. \A s \in Slots : msg_tab'[s]["c_syn_tv"] = msg_tab[s]["c_syn_tv"]
    BY <1>6, AckWrites DEF Fields
  <2>3. Tracked' = Tracked
    BY <2>2 DEF Tracked
  <2>4. /\ stat'["nbr_syn_send"] = stat["nbr_syn_send"]
        /\ stat'["nbr_ack_send"] = stat["nbr_ack_send"] + 1
        /\ stat'["stat_tcpflood_dest_entries"] = stat["stat_tcpflood_dest_entries"]
    BY <1>6, CountTypes DEF SetAck, Bump
  <2>5. Pending = 0 /\ Pending' = 0 /\ Reported = 0 /\ Reported' = 1
    BY <2>1 DEF Pending, Reported, Completing
  <2>6. QED
    BY <1>2, <2>1, <2>3, <2>4, <2>5, CountTypes DEF Balance
<1>7. CASE ClearReported
  <2>1. pc = "clear" /\ pc' = "idle" /\ UNCHANGED stat /\ n \in Slots
    BY <1>7, AtSlot DEF ClearReported
  <2>2. \A s \in Slots : msg_tab'[s]["c_syn_tv"] = IF s = n THEN 0 ELSE msg_tab[s]["c_syn_tv"]
    BY <1>7, ClearWrites DEF Fields
  <2>3. Tracked' = Tracked \ {n}
    BY <2>1, <2>2 DEF Tracked
  <2>4. Cardinality(Tracked') >= Cardinality(Tracked) - 1
    BY <2>3, CountTypes, OneLess
  <2>5. Pending = 0 /\ Pending' = 0 /\ Reported = 1 /\ Reported' = 0
    BY <2>1 DEF Pending, Reported, Completing
  <2>6. QED
    BY <1>2, <1>3, <2>1, <2>4, <2>5, CountTypes DEF Balance
<1>8. QED
  BY <1>4, <1>5, <1>6, <1>7

\* A memset of the fields fs takes the entry out of the table only if the time
\* of its SYN is one of them.
LEMMA EraseTracked ==
  ASSUME TypeOK, NEW s, NEW fs, msg_tab' = [msg_tab EXCEPT ![s] = Erase(@, fs)]
  PROVE  /\ Cardinality(Tracked') \in Nat
         /\ Cardinality(Tracked') >= Cardinality(Tracked) - IF "c_syn_tv" \in fs THEN 1 ELSE 0
<1>1. msg_tab \in [Slots -> [Fields -> Int]] /\ "c_syn_tv" \in Fields
  BY DEF TypeOK, TableType, Fields
<1>2. Tracked' = IF "c_syn_tv" \in fs THEN Tracked \ {s} ELSE Tracked
  BY <1>1 DEF Tracked, Erase
<1>3. Tracked' \in SUBSET Slots
  BY DEF Tracked
<1>4. QED
  BY <1>2, <1>3, Countable, OneLess, CountTypes

\* Steps of the only garbage pass.
LEMMA BalancePass ==
  ASSUME OnePass, TypeOK, CountsExact, Balance, NEW t \in GcThreads, GcNext(t)
  PROVE  Balance'
<1> USE DEF GcGoto
<1>1. GcThreads = {t}
  BY DEF OnePass
<1>2. UNCHANGED capture /\ Pending' = Pending /\ Reported' = Reported
  BY GcClears DEF capture, Pending, Reported
<1>3. /\ gpc \in [GcThreads -> GpcSet] /\ todo \in [GcThreads -> SUBSET Fields]
      /\ count \in [GcThreads -> Nat] /\ "c_syn_tv" \in Fields
  BY DEF TypeOK, PassType, Fields
<1>4. SUFFICES
        stat'["nbr_syn_send"] + Pending + Reported <=
          Cardinality(Tracked') + stat'["nbr_ack_send"] + stat'["stat_tcpflood_dest_entries"]
            + count'[t] + Doomed(t)'
  BY <1>1, <1>2 DEF Balance, capture
<1>5. stat["nbr_syn_send"] + Pending + Reported <=
        Cardinality(Tracked) + stat["nbr_ack_send"] + stat["stat_tcpflood_dest_entries"]
          + count[t] + Doomed(t)
  BY DEF Balance
<1>6. CASE GcStart(t) \/ GcCheck(t) \/ GcLock(t) \/ GcLoadStat(t)
  <2>1. UNCHANGED <<stat, msg_tab>> /\ count'[t] = count[t]
    BY <1>3, <1>6 DEF GcStart, GcCheck, GcLock, GcLoadStat, tables, CountsExact
  <2>2. Doomed(t) = 0 /\ Doomed(t)' = 0
    BY <1>3, <1>6 DEF GcStart, GcCheck, GcLock, GcLoadStat, Doomed
  <2>3. Tracked' = Tracked
    BY <2>1 DEF Tracked
  <2>4. QED
    BY <1>5, <2>1, <2>2, <2>3
<1>7. ASSUME NEW fs \in Halves, GcClearHalf(t, fs)
      PROVE  stat'["nbr_syn_send"] + Pending + Reported <=
               Cardinality(Tracked') + stat'["nbr_ack_send"] + stat'["stat_tcpflood_dest_entries"]
                 + count'[t] + Doomed(t)'
  <2>1. UNCHANGED <<stat, count>> /\ msg_tab' = [msg_tab EXCEPT ![gn[t]] = Erase(@, fs)]
    BY <1>7 DEF GcClearHalf
  <2>2. Doomed(t) = 0 /\ Doomed(t)' = IF "c_syn_tv" \in fs THEN 1 ELSE 0
    BY <1>3, <1>7 DEF GcClearHalf, Doomed
  <2>3. /\ Cardinality(Tracked') \in Nat
        /\ Cardinality(Tracked') >= Cardinality(Tracked) - IF "c_syn_tv" \in fs THEN 1 ELSE 0
    BY <2>1, EraseTracked
  <2>4. QED
    BY <1>5, <2>1, <2>2, <2>3, CountTypes
<1>8. CASE GcClearRest(t)
  <2>1. /\ UNCHANGED stat /\ count'[t] = count[t] + 1
        /\ msg_tab' = [msg_tab EXCEPT ![gn[t]] = Erase(@, todo[t])]
    BY <1>3, <1>8 DEF GcClearRest
  <2>2. Doomed(t)' = 0 /\ Doomed(t) = IF "c_syn_tv" \in todo[t] THEN 0 ELSE 1
    BY <1>3, <1>8 DEF GcClearRest, Doomed
  <2>3. /\ Cardinality(Tracked') \in Nat
        /\ Cardinality(Tracked') >= Cardinality(Tracked) - IF "c_syn_tv" \in todo[t] THEN 1 ELSE 0
    BY <2>1, EraseTracked
  <2>4. QED
    BY <1>5, <2>1, <2>2, <2>3, CountTypes
<1>9. CASE GcStoreStat(t)
  <2>1. /\ stat'["nbr_syn_send"] = stat["nbr_syn_send"]
        /\ stat'["nbr_ack_send"] = stat["nbr_ack_send"]
        /\ stat'["stat_tcpflood_dest_entries"] = stat["stat_tcpflood_dest_entries"] + count[t]
        /\ count'[t] = 0 /\ UNCHANGED msg_tab
    BY <1>3, <1>9, CountTypes DEF GcStoreStat, CountsExact
  <2>2. Doomed(t) = 0 /\ Doomed(t)' = 0
    BY <1>3, <1>9 DEF GcStoreStat, Doomed
  <2>3. Tracked' = Tracked
    BY <2>1 DEF Tracked
  <2>4. QED
    BY <1>5, <2>1, <2>2, <2>3, CountTypes
<1>10. QED
  BY <1>6, <1>7, <1>8, <1>9 DEF GcNext

\* With one pass in flight no handshake leaves the table uncounted: the SYNs
\* counted are still in the table, were completed, or were counted as cleared.
THEOREM NoneUncounted == ASSUME OnePass PROVE Spec => []Accounted
<1>1. Init => Balance
  <2> SUFFICES ASSUME Init PROVE Balance
    OBVIOUS
  <2>1. Tracked = {}
    BY DEF Init, Tracked, Cleared, Fields
  <2>2. Cardinality(Tracked) = 0
    BY <2>1, FS_EmptySet
  <2>3. \A t \in GcThreads : Doomed(t) = 0 /\ count[t] = 0
    BY DEF Init, Doomed
  <2>4. QED
    BY <2>2, <2>3 DEF Init, Balance, Pending, Reported, Completing, Counters
<1>2. TypeOK /\ TypeOK' /\ SynTakesFreeSlot /\ CountsExact /\ Balance /\ [Next]_vars => Balance'
  <2> SUFFICES ASSUME TypeOK, TypeOK', SynTakesFreeSlot, CountsExact, Balance, [Next]_vars
               PROVE  Balance'
    OBVIOUS
  <2>1. CASE Tick \/ UNCHANGED vars
    <3>1. UNCHANGED <<tables, capture, passes>>
      BY <2>1 DEF Tick, vars
    <3>2. QED
      BY <3>1 DEF tables, capture, passes, Balance, Tracked, Pending, Reported, Doomed
  <2>2. QED
    BY <2>1, BalanceReading, BalanceWriting, BalancePass DEF Next, CaptureNext
<1>3. TypeOK /\ Balance => Accounted
  BY CountTypes DEF Balance, Accounted, Doomed
<1>4. QED
  BY <1>1, <1>2, <1>3, TypeCorrect, SynSlotFree, CountsHold, PTL DEF Spec
=============================================================================
