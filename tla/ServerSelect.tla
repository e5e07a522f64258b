---------------------------- MODULE ServerSelect ----------------------------
(***************************************************************************)
(* How mooner finds a broker (collector/set_mq_host.c, get_srv_info.c):    *)
(* set_rmq_server_list resolves the SRV records of a service, tries them   *)
(* group by group of equal priority, drawing by weight within a group, and *)
(* starts again a minute after it gave up.                                 *)
(*                                                                         *)
(* gl_lock_set_rmq makes one attempt atomic for the other threads, so the  *)
(* module has one search, whichever thread runs it, and beside it what is  *)
(* done without the mutex: threads of decrease_srv_ttl close the connection*)
(* when the TTL of its server is spent.  The environment is the DNS, whose *)
(* answer may change or fail, and brokers that come and go.                *)
(***************************************************************************)
EXTENDS Integers, FiniteSets

CONSTANTS
  Targets,   \* the hosts of the brokers
  Answers,   \* what the DNS may answer: the records, sorted by priority
  Stray,     \* values the uninitialised entries of tab_weight may hold
  NoConn,    \* rmq_conn is null
  TtlThreads, \* bound: threads that run decrease_srv_ttl at the same time
  MaxChanges \* bound: times a broker goes up or down

None == -1

Size(l) == Cardinality(DOMAIN l)

ASSUME AnswersAssumption ==
  \A a \in Answers :
    /\ Size(a) \in Nat \ {0} /\ DOMAIN a = 0 .. Size(a) - 1
    /\ \A s \in DOMAIN a : a[s] \in [priority : Nat, weight : Nat, port : Nat, target : Targets]
    /\ \A r, s \in DOMAIN a : r < s => a[r].priority <= a[s].priority

ASSUME OtherAssumption == Stray \subseteq Int /\ NoConn \notin Targets /\ MaxChanges \in Nat

VARIABLES
  pc,
  list, is_up,   \* e->rmqserverlist and its is_up fields; empty when freed
  rmqserver,     \* index of the server in use
  begin, pos,    \* where the current group starts; the server drawn
  rmq_conn,      \* target of the open connection
  ttl,           \* how far a thread of decrease_srv_ttl is
  alive,         \* brokers that accept a connection
  changes

vars == <<pc, list, is_up, rmqserver, begin, pos, rmq_conn, ttl, alive, changes>>
\* What a search leaves alone.
others == <<ttl, alive, changes>>

Freed == [s \in {} |-> s]

Group(p) == {s \in DOMAIN list : list[s].priority = p}

\* The sums of g[0] .. g[s - 1] for every s.
Sums(g) ==
  LET sum[s \in 0 .. Size(g)] == IF s = 0 THEN 0 ELSE sum[s - 1] + g[s - 1]
  IN  sum

\* get_tot_weight.
Weights(p) == [s \in DOMAIN list |-> IF s \in Group(p) THEN list[s].weight ELSE 0]

TotWeight(p) == Sums(Weights(p))[Size(list)]

\* Mistake: a record is given one entry too few.
TabStart_Short(p) ==
  Sums([s \in DOMAIN list |-> IF s \in Group(p) THEN list[s].weight - 1 ELSE 1])

\* init_tab_weight: the entries of a record start after those of the records of
\* its group, and one further for every record of another group.
Advance(p) == [s \in DOMAIN list |-> IF s \in Group(p) THEN list[s].weight ELSE 1]

TabStart(p) == Sums(Advance(p))

\* What entry j of tab_weight may hold: a record of the group, or anything.
TabWeight(p, j) ==
  LET at == TabStart(p)
      owners == {s \in Group(p) : at[s] <= j /\ j < at[s + 1]}
  IN  IF owners # {} THEN owners ELSE Stray

Entries(p) == 0 .. TotWeight(p) - 1

Init ==
  /\ pc = "idle" /\ list = Freed /\ is_up = Freed /\ rmqserver = None
  /\ begin = 0 /\ pos = None /\ rmq_conn = NoConn
  /\ ttl = [t \in TtlThreads |-> "running"]
  /\ alive \in SUBSET Targets /\ changes = 0

\* The callers of set_rmq_server_list that leave the connection open: the start,
\* a failed send, SIGUSR2.
Call ==
  /\ pc = "idle" /\ pc' = "resolve"
  /\ UNCHANGED <<list, is_up, rmqserver, begin, pos, rmq_conn, others>>

\* No search holds gl_lock_set_rmq.
Unlocked == pc \in {"idle", "resolve", "sleep"}

\* decrease_srv_ttl finds the TTL of the server at zero, and lets the mutex go.
SpentTtl(t) ==
  /\ ttl[t] = "running" /\ Unlocked /\ rmqserver # None
  /\ ttl' = [ttl EXCEPT ![t] = "spent"]
  /\ UNCHANGED <<pc, list, is_up, rmqserver, begin, pos, rmq_conn, alive, changes>>

\* reload_rmq_server_list_ttl closes the connection, whosever it is by now; then
\* close_rmq_channel sleeps two seconds.
TtlClose(t) ==
  /\ ttl[t] = "spent"
  /\ rmq_conn' = NoConn /\ ttl' = [ttl EXCEPT ![t] = "closed"]
  /\ UNCHANGED <<pc, list, is_up, rmqserver, begin, pos, alive, changes>>

\* It calls set_rmq_server_list.
Reload(t) ==
  /\ ttl[t] = "closed" /\ Unlocked
  /\ ttl' = [ttl EXCEPT ![t] = "running"] /\ pc' = "resolve"
  /\ UNCHANGED <<list, is_up, rmqserver, begin, pos, rmq_conn, alive, changes>>

\* Mistake: the pointer into the freed list survives.
ResolveFails_KeepsServer ==
  /\ pc = "resolve"
  /\ IF rmqserver # None THEN list' = Freed /\ is_up' = Freed
                         ELSE UNCHANGED <<list, is_up>>
  /\ pc' = "sleep"
  /\ UNCHANGED <<rmqserver, begin, pos, rmq_conn, others>>

\* Mistake: set_mq_host goes on without a list.
ResolveFails_Ignored ==
  /\ pc = "resolve"
  /\ IF rmqserver # None THEN list' = Freed /\ is_up' = Freed
                         ELSE UNCHANGED <<list, is_up>>
  /\ rmqserver' = None
  /\ pc' = "group"
  /\ UNCHANGED <<begin, pos, rmq_conn, others>>

ResolveFails ==
  /\ pc = "resolve"
  /\ IF rmqserver # None THEN list' = Freed /\ is_up' = Freed
                         ELSE UNCHANGED <<list, is_up>>
  /\ rmqserver' = None
  /\ pc' = "sleep"
  /\ UNCHANGED <<begin, pos, rmq_conn, others>>

Resolve(a) ==
  /\ pc = "resolve"
  /\ list' = a /\ is_up' = [s \in DOMAIN a |-> TRUE]
  /\ rmqserver' = None /\ begin' = 0
  /\ pc' = "group"
  /\ UNCHANGED <<pos, rmq_conn, others>>

Usable == begin # None /\ list[begin].port # 0

\* Mistake: one server that is down ends its group.
AllDown_Any(p) == \E s \in Group(p) : ~is_up[s]

AllDown(p) == \A s \in Group(p) : ~is_up[s]

GiveUp ==
  /\ \/ pc = "group" /\ ~Usable
     \/ pc = "draw" /\ TotWeight(list[begin].priority) <= 0
  /\ pc' = "sleep"
  /\ UNCHANGED <<list, is_up, rmqserver, begin, pos, rmq_conn, others>>

\* Mistake: the last record is not looked at.
NextPriority_Short(b, s) ==
  LET other == {r \in DOMAIN list : r >= b /\ r + 1 \in DOMAIN list /\ list[r].priority # list[b].priority}
  IN  \/ s \in other /\ \A r \in other : s <= r
      \/ s = None /\ other = {}

\* get_pos_next_priority(b) returns s.
NextPriority(b, s) ==
  LET other == {r \in DOMAIN list : r >= b /\ list[r].priority # list[b].priority}
  IN  \/ s \in other /\ \A r \in other : s <= r
      \/ s = None /\ other = {}

NextGroup ==
  /\ pc = "group" /\ Usable /\ AllDown(list[begin].priority)
  /\ \E s \in DOMAIN list \cup {None} : NextPriority(begin, s) /\ begin' = s
  /\ UNCHANGED <<pc, list, is_up, rmqserver, pos, rmq_conn, others>>

EnterGroup ==
  /\ pc = "group" /\ Usable /\ ~AllDown(list[begin].priority)
  /\ pc' = "draw"
  /\ UNCHANGED <<list, is_up, rmqserver, begin, pos, rmq_conn, others>>

\* The draws of the do loop.  One that hits a server that is down is repeated
\* and changes nothing.
Draw(values) ==
  /\ pc = "draw"
  /\ \E j \in Entries(list[begin].priority) :
       \E p \in values \cap TabWeight(list[begin].priority, j) :
         is_up[p] /\ pos' = p
  /\ pc' = "connect"
  /\ UNCHANGED <<list, is_up, rmqserver, begin, rmq_conn, others>>

\* The loops of init_tab_weight write an entry of the record s before they reach
\* tot_weight.
HasEntry(s) ==
  LET p == list[s].priority
  IN  list[s].weight > 0 /\ TabStart(p)[s] < TotWeight(p)

\* A draw that an entry of the record itself allows.
DrawKnown(s) ==
  Draw({s}) /\ list[s].priority = list[begin].priority /\ HasEntry(s)

\* An uninitialised entry sends the loop to memory outside the list.
DrawOutside ==
  /\ pc = "draw"
  /\ \E j \in Entries(list[begin].priority) :
       \E p \in TabWeight(list[begin].priority, j) : p \notin DOMAIN list /\ pos' = p
  /\ pc' = "wild"
  /\ UNCHANGED <<list, is_up, rmqserver, begin, rmq_conn, others>>

ConnectOK ==
  /\ pc = "connect" /\ list[pos].target \in alive
  /\ rmq_conn' = list[pos].target /\ rmqserver' = pos
  /\ begin' = 0 /\ pos' = None
  /\ pc' = "idle"
  /\ UNCHANGED <<list, is_up, others>>

\* Mistake: the server that failed is not marked.
ConnectFails_Unmarked ==
  /\ pc = "connect" /\ list[pos].target \notin alive
  /\ pos' = None /\ pc' = "group"
  /\ UNCHANGED <<list, is_up, rmqserver, begin, rmq_conn, others>>

ConnectFails ==
  /\ pc = "connect" /\ list[pos].target \notin alive
  /\ is_up' = [is_up EXCEPT ![pos] = FALSE] /\ pos' = None
  /\ pc' = "group"
  /\ UNCHANGED <<list, rmqserver, begin, rmq_conn, others>>

\* The minute of set_rmq_server_list is over.
Retry ==
  /\ pc = "sleep" /\ pc' = "resolve"
  /\ UNCHANGED <<list, is_up, rmqserver, begin, pos, rmq_conn, others>>

BrokerChanges(t) ==
  /\ changes < MaxChanges /\ changes' = changes + 1
  /\ alive' = IF t \in alive THEN alive \ {t} ELSE alive \cup {t}
  /\ UNCHANGED <<pc, list, is_up, rmqserver, begin, pos, rmq_conn, ttl>>

Next ==
  \/ Call \/ \E t \in TtlThreads : SpentTtl(t) \/ TtlClose(t) \/ Reload(t)
  \/ ResolveFails \/ \E a \in Answers : Resolve(a)
  \/ GiveUp \/ NextGroup \/ EnterGroup \/ Draw(DOMAIN list) \/ DrawOutside
  \/ ConnectOK \/ ConnectFails \/ Retry
  \/ \E t \in Targets : BrokerChanges(t)

Spec == Init /\ [][Next]_vars

\* The thread runs, rand() hits every initialised entry in the end, and the DNS
\* answers in the end if it is asked again and again.  What an uninitialised
\* entry holds is left to chance.
FairSpec ==
  /\ Spec
  /\ SF_vars(\E a \in Answers : Resolve(a))
  /\ WF_vars(ResolveFails \/ GiveUp \/ NextGroup \/ EnterGroup \/ ConnectOK \/ ConnectFails \/ Retry)
  /\ WF_vars(\E p \in DOMAIN list : DrawKnown(p))
  /\ \A t \in TtlThreads : WF_vars(TtlClose(t) \/ Reload(t))

-----------------------------------------------------------------------------
(* Properties.                                                             *)

PcSet == {"idle", "resolve", "group", "draw", "connect", "sleep", "wild"}

\* begin and pos are indices into the list of the last answer wherever the code
\* reads rmqserverlist[begin] or rmqserverlist[pos].
TypeOK ==
  /\ pc \in PcSet
  /\ list \in Answers \cup {Freed}
  /\ is_up \in [DOMAIN list -> BOOLEAN]
  /\ pc \in {"group", "draw", "connect"} => list \in Answers
  /\ rmqserver \in Int /\ begin \in Int /\ pos \in Int
  /\ pc = "group" => begin \in DOMAIN list \cup {None}
  /\ pc \in {"draw", "connect"} => begin \in DOMAIN list
  /\ pc = "connect" => pos \in DOMAIN list
  /\ rmq_conn \in Targets \cup {NoConn}
  /\ ttl \in [TtlThreads -> {"running", "spent", "closed"}]
  /\ alive \in SUBSET Targets /\ changes \in 0 .. MaxChanges

\* A server is tried only when every server of the groups the round has left,
\* those before the group of begin, has been tried and failed; in the first group
\* it is a server of that group.  With two groups, so, every server of a lower
\* priority number has failed.  With more, an unwritten entry of tab_weight drawn
\* in a later group may name a server further on (set_mq_host.c:171), before the
\* rest of the group of begin and the groups between are tried.
LowerGroupsFailed ==
  pc = "connect" =>
    /\ list[pos].priority >= list[begin].priority
    /\ \A s \in DOMAIN list : list[s].priority < list[pos].priority =>
         ~is_up[s] \/ (begin # 0 /\ list[s].priority >= list[begin].priority)

\* rmqserver points into the list, at the server of the open connection, so that
\* decrease_srv_ttl counts down the right TTL; it never points into a freed list.
\* There is no connection only from the close of a spent TTL to the reload that
\* follows it, after two seconds of sleep (set_mq_host.c:193-195).
ServerOfConnection ==
  rmqserver # None =>
    /\ rmqserver \in DOMAIN list
    /\ \/ rmq_conn = list[rmqserver].target
       \/ rmq_conn = NoConn /\ (pc = "resolve" \/ \E t \in TtlThreads : ttl[t] = "closed")

\* Every record weighs something, and no group is refused for its port.
Weighed(l) == \A s \in DOMAIN l : l[s].weight > 0 /\ l[s].port # 0

\* set_rmq_server_list logs "Can't open any connection to any broker" and sleeps
\* (set_mq_host.c:207) only when it tried every server of the last answer, unless
\* a record of it weighs nothing or has no port.
GivesUpWhenAllFailed ==
  pc = "sleep" /\ Weighed(list) => \A s \in DOMAIN list : ~is_up[s]

\* In the first group a draw falls on each server in proportion to its weight.
ShareIsWeight ==
  (pc = "draw" /\ begin = 0) =>
    LET p == list[begin].priority IN
    \A s \in Group(p) :
      Cardinality({j \in Entries(p) : TabWeight(p, j) = {s}}) = list[s].weight

\* man/mooner.1:175-177: the collector "will try connect to a broker": a draw is a
\* record of the DNS answer.
DrawsFromList == pc # "wild"

\* Every record has an entry of tab_weight, and no group is refused for its port.
\* A record has none if it weighs nothing, and the last records of a later group
\* may have none because the entries start behind those of the groups before it.
Drawable == \A s \in DOMAIN list : HasEntry(s) /\ list[s].port # 0

\* Once the DNS answers with records that can all be drawn, one of a broker that
\* stays reachable, every search and every close by a spent TTL is followed by a
\* connection: no attempt hangs and none ends in vain for ever, unless an
\* uninitialised entry outside the list was drawn.
Reconnects ==
  <>[](list # Freed => Drawable /\ \E s \in DOMAIN list : list[s].target \in alive)
    => \/ (pc = "resolve" \/ \E t \in TtlThreads : ttl[t] = "closed")
            ~> (pc = "idle" /\ rmq_conn # NoConn)
       \/ <>(pc = "wild")
=============================================================================
