--------------------------- MODULE HandshakeTable ---------------------------
(***************************************************************************)
(* The table of half-open TCP handshakes of the mooner daemon              *)
(* (collector/handle_packet.c, set_packet.c, anti_syn_flood.c).            *)
(*                                                                         *)
(* One capture thread (pcap_loop) files SYN, SYN+ACK and ACK segments in   *)
(* msg_tab and reports a completed handshake to the broker.  Detached      *)
(* garbage passes (anti_syn_flood_check) clear the entries that grew old.  *)
(* Only the memsets hold gl_lock_garbage; every other access of the table  *)
(* is unlocked, so each is a step of its own here.                         *)
(*                                                                         *)
(* Times are whole seconds, 0 is a cleared field.  Addresses of servers,   *)
(* microseconds and flags are left out: no decision of the code reads them.*)
(***************************************************************************)
EXTENDS Integers, FiniteSets

CONSTANTS
  MaxTabSize,       \* e->max_tab_size, option -a
  HashSize,         \* entries of hash_ack (HASH_SIZE + 1 in the code)
  Conns,            \* the TCP connections on the wire
  Client,           \* Client[c]: address of the side that opens c
  Isn, ServerIsn,   \* initial sequence numbers of the two sides of c
  GcThreads,        \* garbage passes that may be in flight together
  Capture, Nobody,  \* holders of gl_lock_garbage other than GcThreads
  RetentionTime,    \* GARBAGE_RETENTION_TIME
  SynfloodRetTime,  \* e->synflood_ret_time, option -t
  Halves,           \* sets of fields a memset may have reached when preempted
  MaxTime,          \* bound: the clock stops here
  Traffic,          \* bound: how many deliveries of each segment there may be
  NoPacket          \* the capture thread waits in pcap_loop

Slots  == 0 .. MaxTabSize - 1
Fields == {"c_syn_tv", "s_tv", "c_ack_tv", "server_rep_time", "client_rep_time",
           "ip_src", "c_syn", "s_syn"}
Kinds  == {"syn", "synack", "ack"}
Packets == [kind : Kinds, conn : Conns]
Times  == 1 .. MaxTime

ASSUME SizesAssumption ==
  /\ MaxTabSize \in Nat \ {0}
  /\ HashSize \in Nat \ {0}
  /\ MaxTime \in Nat \ {0}
  /\ RetentionTime \in Nat
  /\ SynfloodRetTime \in Nat \ {0}
  /\ Halves \subseteq SUBSET Fields

\* Sequence number 0 is left out: the code stores the number itself in
\* hash_ack and reads 0 as "absent".
ASSUME ConnsAssumption ==
  /\ Client \in [Conns -> Nat \ {0}]
  /\ Isn \in [Conns -> Nat \ {0}]
  /\ ServerIsn \in [Conns -> Nat \ {0}]

ASSUME WorldAssumption ==
  /\ Capture \notin GcThreads /\ Nobody \notin GcThreads /\ Capture # Nobody
  /\ NoPacket \notin Packets
  /\ Traffic \subseteq [Packets -> Nat]

VARIABLES
  now,           \* wall clock, in seconds
  left,          \* left[p]: deliveries of segment p still possible
  msg_tab, hash_ack, stat,
  gl_lock_garbage,
  pc, pkt, tv, n,                \* capture thread: handler, packet, time, slot
  msg,                           \* capture thread: the report it builds
  gpc, gn, begin, count, todo,   \* garbage passes; todo: memset's remaining fields
  loaded                         \* garbage passes: the += of line 39, read half

capture == <<pc, pkt, tv, n, msg>>
passes  == <<gpc, gn, begin, count, todo, loaded>>
tables  == <<msg_tab, hash_ack, stat>>
world   == <<now, left>>
vars    == <<world, tables, gl_lock_garbage, capture, passes>>

Cleared == [f \in Fields |-> 0]

Erase(slot, fs) == [f \in Fields |-> IF f \in fs THEN 0 ELSE slot[f]]

Hash(c) == ServerIsn[c] % HashSize

Counters == {"nbr_syn_send", "nbr_synack_send", "nbr_ack_send",
             "stat_hash_filtered", "stat_hash_not_filtered",
             "stat_tcpflood_dest_entries", "tcp_tab_max_used"}

NoMsg == [ip_src |-> 0, s_r_time |-> 0, c_r_time |-> 0, date |-> 0]

Init ==
  /\ now = 1 /\ left \in Traffic
  /\ msg_tab = [s \in Slots |-> Cleared]
  /\ hash_ack = [h \in 0 .. HashSize - 1 |-> 0]
  /\ stat = [f \in Counters |-> 0]
  /\ gl_lock_garbage = Nobody
  /\ pc = "idle" /\ pkt = NoPacket /\ tv = 0 /\ n = 0 /\ msg = NoMsg
  /\ gpc = [t \in GcThreads |-> "idle"]
  /\ gn = [t \in GcThreads |-> 0]
  /\ begin = [t \in GcThreads |-> 0]
  /\ count = [t \in GcThreads |-> 0]
  /\ todo = [t \in GcThreads |-> {}]
  /\ loaded = [t \in GcThreads |-> 0]

Tick == now < MaxTime /\ now' = now + 1
        /\ UNCHANGED <<left, tables, gl_lock_garbage, capture, passes>>

-----------------------------------------------------------------------------
(* The capture thread.                                                     *)

Goto(l) == pc' = l /\ UNCHANGED <<pkt, tv, n, msg>>

Return == /\ pc' = "idle" /\ pkt' = NoPacket /\ tv' = 0 /\ n' = 0
          /\ UNCHANGED msg

Bump(f) == stat' = [stat EXCEPT ![f] = @ + 1]

Receive(p) ==
  /\ pc = "idle" /\ left[p] > 0
  /\ left' = [left EXCEPT ![p] = @ - 1]
  /\ pkt' = p /\ tv' = now /\ n' = 0
  /\ pc' = IF p.kind = "ack" THEN "filter" ELSE "scan"
  /\ UNCHANGED <<now, tables, gl_lock_garbage, msg, passes>>

FilterAck ==
  /\ pc = "filter"
  /\ \/ /\ hash_ack[Hash(pkt.conn)] = 0
        /\ Bump("stat_hash_filtered") /\ Return
     \/ /\ hash_ack[Hash(pkt.conn)] # 0
        /\ Goto("scan") /\ UNCHANGED stat
  /\ UNCHANGED <<world, msg_tab, hash_ack, gl_lock_garbage, passes>>

\* The conditions of the three loops over the table, each read as one step: the
\* other threads only clear fields, so reading them one by one finds no more.
\* (Names with an underscore are mistakes, for the properties to find.)
IsFree_AwaitsSynack(slot) == slot["s_tv"] = 0

IsFree(slot) == slot["c_syn_tv"] = 0

IsSynackOf(slot, c) ==
  slot["c_syn_tv"] # 0 /\ slot["c_syn"] = Isn[c] /\ slot["ip_src"] = Client[c]

IsAckOf_AnyAddress(slot, c) == slot["c_syn_tv"] # 0 /\ slot["s_syn"] = ServerIsn[c]

IsAckOf_AnyNumber(slot, c) ==
  slot["c_syn_tv"] # 0 /\ slot["s_syn"] # 0 /\ slot["ip_src"] = Client[c]

IsAckOf(slot, c) ==
  slot["c_syn_tv"] # 0 /\ slot["s_syn"] = ServerIsn[c] /\ slot["ip_src"] = Client[c]

Matches(slot, p) ==
  \/ p.kind = "syn"    /\ IsFree(slot)
  \/ p.kind = "synack" /\ IsSynackOf(slot, p.conn)
  \/ p.kind = "ack"    /\ IsAckOf(slot, p.conn)

ScanSlot ==
  /\ pc = "scan" /\ n < MaxTabSize
  /\ IF Matches(msg_tab[n], pkt)
     THEN pc' = pkt.kind /\ UNCHANGED n
     ELSE n' = n + 1 /\ UNCHANGED pc
  /\ UNCHANGED <<world, tables, gl_lock_garbage, pkt, tv, msg, passes>>

\* Mistake: no early return when the table is full.
ScanFails_Writes ==
  /\ pc = "scan" /\ n = MaxTabSize /\ Goto(pkt.kind)
  /\ UNCHANGED <<world, tables, gl_lock_garbage, passes>>

ScanFails ==
  /\ pc = "scan" /\ n = MaxTabSize
  /\ IF pkt.kind = "ack" THEN Bump("stat_hash_not_filtered") ELSE UNCHANGED stat
  /\ Return
  /\ UNCHANGED <<world, msg_tab, hash_ack, gl_lock_garbage, passes>>

SetSynTime ==
  /\ pc = "syn"
  /\ msg_tab' = [msg_tab EXCEPT ![n]["c_syn_tv"] = tv]
  /\ stat' = [stat EXCEPT !["tcp_tab_max_used"] = IF n > @ THEN n ELSE @]
  /\ Goto("syn_ident")
  /\ UNCHANGED <<world, hash_ack, gl_lock_garbage, passes>>

\* Mistake: a sequence number found in the slot is kept.
SetSynIdent_KeepsIsn ==
  /\ pc = "syn_ident"
  /\ msg_tab' = [msg_tab EXCEPT ![n]["ip_src"] = Client[pkt.conn],
                                ![n]["c_syn"] = IF @ = 0 THEN Isn[pkt.conn] ELSE @]
  /\ Bump("nbr_syn_send")
  /\ Return
  /\ UNCHANGED <<world, hash_ack, gl_lock_garbage, passes>>

SetSynIdent ==
  /\ pc = "syn_ident"
  /\ msg_tab' = [msg_tab EXCEPT ![n]["ip_src"] = Client[pkt.conn],
                                ![n]["c_syn"] = Isn[pkt.conn]]
  /\ Bump("nbr_syn_send")
  /\ Return
  /\ UNCHANGED <<world, hash_ack, gl_lock_garbage, passes>>

SetSynackTime ==
  /\ pc = "synack"
  /\ msg_tab' = [msg_tab EXCEPT ![n]["s_tv"] = tv]
  /\ Goto("synack_ident")
  /\ UNCHANGED <<world, hash_ack, stat, gl_lock_garbage, passes>>

\* Mistake: the hash is taken of the acknowledged number.
SetSynackIdent_HashOfIsn ==
  /\ pc = "synack_ident"
  /\ msg_tab' = [msg_tab EXCEPT ![n]["s_syn"] = ServerIsn[pkt.conn]]
  /\ hash_ack' = [hash_ack EXCEPT ![Isn[pkt.conn] % HashSize] = ServerIsn[pkt.conn]]
  /\ Bump("nbr_synack_send")
  /\ Return
  /\ UNCHANGED <<world, gl_lock_garbage, passes>>

SetSynackIdent ==
  /\ pc = "synack_ident"
  /\ msg_tab' = [msg_tab EXCEPT ![n]["s_syn"] = ServerIsn[pkt.conn]]
  /\ hash_ack' = [hash_ack EXCEPT ![Hash(pkt.conn)] = ServerIsn[pkt.conn]]
  /\ Bump("nbr_synack_send")
  /\ Return
  /\ UNCHANGED <<world, gl_lock_garbage, passes>>

SetAck ==
  /\ pc = "ack"
  /\ msg_tab' = [msg_tab EXCEPT ![n]["c_ack_tv"] = tv]
  /\ hash_ack' = [hash_ack EXCEPT ![Hash(pkt.conn)] = 0]
  /\ Bump("nbr_ack_send")
  /\ Goto("compute")
  /\ UNCHANGED <<world, gl_lock_garbage, passes>>

\* Mistake: the client's time is counted from its SYN.
ComputeTimes_FromSyn ==
  /\ pc = "compute"
  /\ msg_tab' = [msg_tab EXCEPT
       ![n]["server_rep_time"] = msg_tab[n]["s_tv"] - msg_tab[n]["c_syn_tv"],
       ![n]["client_rep_time"] = msg_tab[n]["c_ack_tv"] - msg_tab[n]["c_syn_tv"]]
  /\ Goto("build")
  /\ UNCHANGED <<world, hash_ack, stat, gl_lock_garbage, passes>>

\* send_perf_data_to_rmq: the response times go through the slot...
ComputeTimes ==
  /\ pc = "compute"
  /\ msg_tab' = [msg_tab EXCEPT
       ![n]["server_rep_time"] = msg_tab[n]["s_tv"] - msg_tab[n]["c_syn_tv"],
       ![n]["client_rep_time"] = msg_tab[n]["c_ack_tv"] - msg_tab[n]["s_tv"]]
  /\ Goto("build")
  /\ UNCHANGED <<world, hash_ack, stat, gl_lock_garbage, passes>>

\* ... and are copied from it to the message.
BuildMsg ==
  /\ pc = "build"
  /\ msg' = [ip_src   |-> msg_tab[n]["ip_src"],
             s_r_time |-> msg_tab[n]["server_rep_time"],
             c_r_time |-> msg_tab[n]["client_rep_time"],
             date     |-> msg_tab[n]["c_syn_tv"]]
  /\ pc' = "send"
  /\ UNCHANGED <<world, tables, gl_lock_garbage, pkt, tv, n, passes>>

\* send_to_rmq returns, whether it published the message or gave up.
SendReturns ==
  /\ pc = "send" /\ msg' = NoMsg /\ pc' = "lock"
  /\ UNCHANGED <<world, tables, gl_lock_garbage, pkt, tv, n, passes>>

LockForClear ==
  /\ pc = "lock" /\ gl_lock_garbage = Nobody
  /\ gl_lock_garbage' = Capture
  /\ Goto("clear")
  /\ UNCHANGED <<world, tables, passes>>

ClearReported ==
  /\ pc = "clear"
  /\ msg_tab' = [msg_tab EXCEPT ![n] = Cleared]
  /\ gl_lock_garbage' = Nobody
  /\ Return
  /\ UNCHANGED <<world, hash_ack, stat, passes>>

CaptureNext ==
  \/ \E p \in Packets : Receive(p)
  \/ FilterAck \/ ScanSlot \/ ScanFails
  \/ SetSynTime \/ SetSynIdent \/ SetSynackTime \/ SetSynackIdent \/ SetAck
  \/ ComputeTimes \/ BuildMsg \/ SendReturns \/ LockForClear \/ ClearReported

-----------------------------------------------------------------------------
(* Garbage passes.  The scheduler starts one every SynfloodRetTime seconds;*)
(* at the horizon MaxTime the clock stands still and passes keep coming.   *)

GcGoto(t, l) == gpc' = [gpc EXCEPT ![t] = l]

GcStart(t) ==
  /\ gpc[t] = "idle" /\ now % SynfloodRetTime = 0
  /\ begin' = [begin EXCEPT ![t] = now]
  /\ gn' = [gn EXCEPT ![t] = 0]
  /\ count' = [count EXCEPT ![t] = 0]
  /\ GcGoto(t, "check")
  /\ UNCHANGED <<world, tables, gl_lock_garbage, capture, todo, loaded>>

\* Mistake: the difference is taken the other way round.
Expired_Reversed(slot, b) ==
  slot["c_syn_tv"] # 0 /\ slot["c_syn_tv"] - b > RetentionTime

Expired(slot, b) == slot["c_syn_tv"] # 0 /\ b - slot["c_syn_tv"] > RetentionTime

GcCheck(t) ==
  /\ gpc[t] = "check" /\ gn[t] < MaxTabSize
  /\ IF Expired(msg_tab[gn[t]], begin[t])
     THEN GcGoto(t, "lock") /\ UNCHANGED gn
     ELSE gn' = [gn EXCEPT ![t] = @ + 1] /\ UNCHANGED gpc
  /\ UNCHANGED <<world, tables, gl_lock_garbage, capture, begin, count, todo, loaded>>

GcLock(t) ==
  /\ gpc[t] = "lock" /\ gl_lock_garbage = Nobody
  /\ gl_lock_garbage' = t
  /\ todo' = [todo EXCEPT ![t] = Fields]
  /\ GcGoto(t, "clear")
  /\ UNCHANGED <<world, tables, capture, gn, begin, count, loaded>>

\* memset, preempted after the fields fs ...
GcClearHalf(t, fs) ==
  /\ gpc[t] = "clear"
  /\ msg_tab' = [msg_tab EXCEPT ![gn[t]] = Erase(@, fs)]
  /\ todo' = [todo EXCEPT ![t] = Fields \ fs]
  /\ GcGoto(t, "clear_rest")
  /\ UNCHANGED <<world, hash_ack, stat, gl_lock_garbage, capture, gn, begin, count, loaded>>

\* Mistake: the entry is not counted.
GcClearRest_Uncounted(t) ==
  /\ gpc[t] = "clear_rest"
  /\ msg_tab' = [msg_tab EXCEPT ![gn[t]] = Erase(@, todo[t])]
  /\ todo' = [todo EXCEPT ![t] = {}]
  /\ gl_lock_garbage' = Nobody
  /\ gn' = [gn EXCEPT ![t] = @ + 1]
  /\ GcGoto(t, "check")
  /\ UNCHANGED <<world, hash_ack, stat, capture, begin, count, loaded>>

\* ... and its end, with the unlock.
GcClearRest(t) ==
  /\ gpc[t] = "clear_rest"
  /\ msg_tab' = [msg_tab EXCEPT ![gn[t]] = Erase(@, todo[t])]
  /\ todo' = [todo EXCEPT ![t] = {}]
  /\ gl_lock_garbage' = Nobody
  /\ count' = [count EXCEPT ![t] = @ + 1]
  /\ gn' = [gn EXCEPT ![t] = @ + 1]
  /\ GcGoto(t, "check")
  /\ UNCHANGED <<world, hash_ack, stat, capture, begin, loaded>>

\* The unlocked stat_tcpflood_dest_entries += count, as a load ...
GcLoadStat(t) ==
  /\ gpc[t] = "check" /\ gn[t] = MaxTabSize
  /\ loaded' = [loaded EXCEPT ![t] = stat["stat_tcpflood_dest_entries"]]
  /\ GcGoto(t, "store")
  /\ UNCHANGED <<world, tables, gl_lock_garbage, capture, gn, begin, count, todo>>

\* ... and a store, after which the thread exits.
GcStoreStat(t) ==
  /\ gpc[t] = "store"
  /\ stat' = [stat EXCEPT !["stat_tcpflood_dest_entries"] = loaded[t] + count[t]]
  /\ loaded' = [loaded EXCEPT ![t] = 0]
  /\ count' = [count EXCEPT ![t] = 0]
  /\ gn' = [gn EXCEPT ![t] = 0]
  /\ begin' = [begin EXCEPT ![t] = 0]
  /\ GcGoto(t, "idle")
  /\ UNCHANGED <<world, msg_tab, hash_ack, gl_lock_garbage, capture, todo>>

GcNext(t) ==
  \/ GcStart(t) \/ GcCheck(t) \/ GcLock(t)
  \/ \E fs \in Halves : GcClearHalf(t, fs)
  \/ GcClearRest(t) \/ GcLoadStat(t) \/ GcStoreStat(t)

Next == Tick \/ CaptureNext \/ \E t \in GcThreads : GcNext(t)

Spec == Init /\ [][Next]_vars

\* The passes are threads the kernel schedules, and the critical sections of
\* the capture thread end.  Nothing is assumed of the traffic or the broker.
FairSpec ==
  /\ Spec
  /\ WF_vars(Tick)
  /\ WF_vars(ClearReported)
  /\ \A t \in GcThreads : WF_vars(GcNext(t))
-----------------------------------------------------------------------------
(* Properties.                                                             *)

PcSet  == {"idle", "filter", "scan", "syn", "syn_ident", "synack",
           "synack_ident", "ack", "compute", "build", "send", "lock", "clear"}
GpcSet == {"idle", "check", "lock", "clear", "clear_rest", "store"}

WorldType ==
  /\ now \in Times
  /\ left \in [Packets -> Nat]

TableType ==
  /\ msg_tab \in [Slots -> [Fields -> Int]]
  /\ hash_ack \in [0 .. HashSize - 1 -> Nat]
  /\ stat \in [Counters -> Nat]
  /\ gl_lock_garbage \in GcThreads \cup {Capture, Nobody}

CaptureType ==
  /\ pc \in PcSet /\ n \in 0 .. MaxTabSize /\ tv \in Nat
  /\ pc # "idle" => pkt \in Packets
  /\ pc \notin {"idle", "filter", "scan"} => n \in Slots
  /\ msg \in [ip_src : Int, s_r_time : Int, c_r_time : Int, date : Int]

PassType ==
  /\ gpc \in [GcThreads -> GpcSet]
  /\ gn \in [GcThreads -> 0 .. MaxTabSize]
  /\ begin \in [GcThreads -> Nat]
  /\ count \in [GcThreads -> Nat]
  /\ todo \in [GcThreads -> SUBSET Fields]
  /\ loaded \in [GcThreads -> Nat]
  /\ \A t \in GcThreads : gpc[t] \in {"lock", "clear", "clear_rest"} => gn[t] \in Slots

\* Every variable keeps its type: scan indices stay within the table, and the
\* slot that is written, reported or cleared is a slot of the table.
TypeOK == WorldType /\ TableType /\ CaptureType /\ PassType

\* set_syn_packet takes its slot without a lock: between the scan that found it
\* free and the first write nobody else files an entry in it.
SynTakesFreeSlot == pc = "syn" => msg_tab[n]["c_syn_tv"] = 0

\* A slot that names a client holds a sequence number of that client, or a
\* cleared one: a garbage pass that clears the slot while set_syn_packet fills
\* it leaves no entry made of two connections' SYNs.
EntryOfOneClient ==
  \A s \in Slots : msg_tab[s]["ip_src"] # 0 =>
    \E c \in Conns : /\ msg_tab[s]["ip_src"] = Client[c]
                     /\ msg_tab[s]["c_syn"] \in {0, Isn[c]}

\* From the ACK that completes a handshake to the message sent for it, the slot
\* holds that client's handshake or cleared fields, whatever garbage passes do
\* to the slot meanwhile: no report names another client.
ReportOfClient ==
  /\ pc \in {"ack", "compute", "build"} =>
       LET slot == msg_tab[n] IN
       /\ slot["ip_src"] \in {0, Client[pkt.conn]}
       /\ slot["s_syn"] \in {0, ServerIsn[pkt.conn]}
       /\ \E c \in Conns : /\ Client[c] = Client[pkt.conn]
                            /\ slot["c_syn"] \in {0, Isn[c]}
  /\ pc = "send" => msg.ip_src \in {0, Client[pkt.conn]}

\* The hash table drops no ACK that the scan of the table would have matched:
\* it only filters ACKs that do not open a session (RELEASE:10).
FilterDropsNoHandshake ==
  (pc = "filter" /\ hash_ack[Hash(pkt.conn)] = 0)
     => \A s \in Slots : ~IsAckOf(msg_tab[s], pkt.conn)

\* What a report says of a handshake: its SYN came first, then the SYN+ACK,
\* then the ACK, which is the segment being handled (README:5).
ReportTimesOrdered ==
  pc = "send" => /\ msg.date > 0 /\ msg.s_r_time >= 0 /\ msg.c_r_time >= 0
                 /\ msg.date + msg.s_r_time + msg.c_r_time = tv

\* No entry has grown old so far, so no pass has cleared or is about to clear one.
NoneExpired ==
  /\ stat["stat_tcpflood_dest_entries"] = 0
  /\ \A t \in GcThreads : count[t] = 0 /\ gpc[t] \notin {"lock", "clear", "clear_rest"}

\* As long as no entry grows old a report is the right one, retransmissions and
\* passes in flight included: its times are those of the three segments, in
\* their order (send_to_rmq.c:31-41).
TimesOrderedInTime == NoneExpired => ReportTimesOrdered

\* The slot an ACK completes holds both sequence numbers of the connection that
\* was acknowledged: connections of one client are not taken for each other
\* (the loop conditions of set_packet.c:56-60 and 88-94).
ReportOwnHandshake ==
  pc \in {"ack", "compute", "build"} /\ NoneExpired =>
     /\ msg_tab[n]["c_syn"] = Isn[pkt.conn]
     /\ msg_tab[n]["s_syn"] = ServerIsn[pkt.conn]

Tracked == {s \in Slots : msg_tab[s]["c_syn_tv"] # 0}

\* Every SYN filed is still in the table, was completed by an ACK, or was
\* counted by the garbage pass t, the only one in flight (nbr_syn_send against
\* nbr_ack_send and stat_tcpflood_dest_entries, the metadata of
\* send_to_rmq.c:64-76): no handshake leaves the table uncounted.
Accounted ==
  \A t \in GcThreads :
    stat["nbr_syn_send"] <=
      Cardinality(Tracked) + stat["nbr_ack_send"] + stat["stat_tcpflood_dest_entries"]
        + count[t] + IF gpc[t] = "clear_rest" THEN 1 ELSE 0

\* A handshake that is never completed does not keep its slot: an expired entry
\* is cleared in the end, even if the capture thread is stuck in a send.
ExpiredIsDestroyed ==
  \A s \in Slots :
    (msg_tab[s]["c_syn_tv"] # 0 /\ now - msg_tab[s]["c_syn_tv"] > RetentionTime)
      ~> msg_tab[s]["c_syn_tv"] = 0
=============================================================================
