------------------------------ MODULE BrokerLink ------------------------------
(***************************************************************************)
(* The life of the connection to the broker (collector/send_to_rmq.c,      *)
(* init_rmq.c, set_mq_host.c): the threads that publish, those that count  *)
(* down the TTL of the server, and the two mutexes they take.              *)
(*                                                                         *)
(* gl_lock_send_data is held while one message is published,               *)
(* gl_lock_set_rmq while a server is chosen and connected to.  Neither     *)
(* covers rmq_conn.  How a server is chosen is the subject of ServerSelect; *)
(* here a choice ends, connected or not.                                   *)
(***************************************************************************)
EXTENDS Integers

CONSTANTS
  Senders,     \* the capture thread and the metadata threads
  TtlThreads,  \* threads that run decrease_srv_ttl
  Handles,     \* bound: connections that exist together
  First,       \* the connection main opened
  Null, Nobody,
  RETRY_NBR,
  MaxChanges,  \* bound: times the brokers become unreachable or reachable
  MaxReloads   \* bound: TTLs that run out

Threads == Senders \cup TtlThreads

ASSUME LinkAssumption ==
  /\ First \in Handles /\ Null \notin Handles /\ Nobody \notin Threads
  /\ RETRY_NBR \in Nat \ {0} /\ MaxChanges \in Nat /\ MaxReloads \in Nat

VARIABLES
  rmq_conn,           \* e->rmq_conn
  handle,             \* what a connection is: freed memory, open, or broken
  rmqserver,          \* e->rmqserver is set
  gl_lock_send_data, gl_lock_set_rmq,
  pc, try,
  use,                \* the connection a thread publishes on, or has just made
  tmp,                \* the old connection, in init_rmq
  up,                 \* some broker can be reached
  changes, reloads

locks  == <<gl_lock_send_data, gl_lock_set_rmq>>
local  == <<try, use, tmp>>
env    == <<up, changes>>
vars   == <<rmq_conn, handle, rmqserver, locks, pc, local, env, reloads>>

Goto(t, l) == pc' = [pc EXCEPT ![t] = l]

Init ==
  /\ rmq_conn = First
  /\ handle = [h \in Handles |-> IF h = First THEN "open" ELSE "freed"]
  /\ rmqserver = TRUE
  /\ gl_lock_send_data = Nobody /\ gl_lock_set_rmq = Nobody
  /\ pc = [t \in Threads |-> "idle"] /\ try = [t \in Threads |-> 0]
  /\ use = [t \in Threads |-> Null] /\ tmp = [t \in Threads |-> Null]
  /\ up = TRUE /\ changes = 0 /\ reloads = 0

-----------------------------------------------------------------------------
(* send_to_rmq.                                                            *)

SendLock(t) ==
  /\ pc[t] = "idle" /\ gl_lock_send_data = Nobody
  /\ gl_lock_send_data' = t
  /\ try' = [try EXCEPT ![t] = 0]
  /\ Goto(t, "try")
  /\ UNCHANGED <<rmq_conn, handle, rmqserver, gl_lock_set_rmq, use, tmp, env, reloads>>

\* Mistake: the lock is kept while another server is looked for.
TryFailed_KeepsLock(t) ==
  /\ try' = [try EXCEPT ![t] = @ + 1]
  /\ UNCHANGED gl_lock_send_data
  /\ Goto(t, IF try'[t] < RETRY_NBR THEN "try" ELSE "reload")

\* Mistake: the tries are not counted.
TryFailed_Uncounted(t) ==
  /\ UNCHANGED <<try, gl_lock_send_data>>
  /\ Goto(t, "try")

\* A second of sleep, then one more try or, after RETRY_NBR, set_rmq_server_list.
TryFailed(t) ==
  /\ try' = [try EXCEPT ![t] = @ + 1]
  /\ IF try'[t] < RETRY_NBR
       THEN Goto(t, "try") /\ UNCHANGED gl_lock_send_data
       ELSE Goto(t, "reload") /\ gl_lock_send_data' = Nobody

\* `if (e->rmq_conn)', and the argument of amqp_basic_publish, read once more.
CheckConn(t) ==
  /\ pc[t] = "try"
  /\ IF rmq_conn # Null
       THEN Goto(t, "publish") /\ UNCHANGED <<try, gl_lock_send_data>>
       ELSE TryFailed(t)
  /\ UNCHANGED <<rmq_conn, handle, rmqserver, gl_lock_set_rmq, use, tmp, env, reloads>>

Publish(t) ==
  /\ pc[t] = "publish"
  /\ use' = [use EXCEPT ![t] = rmq_conn]
  /\ Goto(t, IF rmq_conn = Null THEN "wild" ELSE "onwire")
  /\ UNCHANGED <<rmq_conn, handle, rmqserver, locks, try, tmp, env, reloads>>

\* The socket may take a message although the broker is gone.
PublishOK(t) ==
  /\ pc[t] = "onwire" /\ handle[use[t]] # "freed"
  /\ gl_lock_send_data' = Nobody
  /\ use' = [use EXCEPT ![t] = Null]
  /\ Goto(t, "idle")
  /\ UNCHANGED <<rmq_conn, handle, rmqserver, gl_lock_set_rmq, try, tmp, env, reloads>>

PublishFails(t) ==
  /\ pc[t] = "onwire" /\ handle[use[t]] = "broken"
  /\ TryFailed(t)
  /\ use' = [use EXCEPT ![t] = Null]
  /\ UNCHANGED <<rmq_conn, handle, rmqserver, gl_lock_set_rmq, tmp, env, reloads>>

\* The connection was destroyed.  What the process does from then on is
\* undefined; the thread stops here ("wild"), as wherever a null or destroyed
\* connection, or a null rmqserver, is used.
PublishFaults(t) ==
  /\ pc[t] = "onwire" /\ handle[use[t]] = "freed"
  /\ Goto(t, "wild")
  /\ UNCHANGED <<rmq_conn, handle, rmqserver, locks, local, env, reloads>>

-----------------------------------------------------------------------------
(* set_rmq_server_list, set_mq_host and init_rmq, for a sender after its   *)
(* last try and for a TTL thread.                                          *)

SetLock(t) ==
  /\ pc[t] = "reload" /\ gl_lock_set_rmq = Nobody
  /\ gl_lock_set_rmq' = t
  /\ Goto(t, "resolve")
  /\ UNCHANGED <<rmq_conn, handle, rmqserver, gl_lock_send_data, local, env, reloads>>

\* The old list is dropped before the DNS is asked.
Resolve(t) ==
  /\ pc[t] = "resolve"
  /\ rmqserver' = FALSE
  /\ Goto(t, "connect")
  /\ UNCHANGED <<rmq_conn, handle, locks, local, env, reloads>>

\* Mistake: an early return keeps the lock.
SelectFails_KeepsLock(t) ==
  /\ pc[t] = "resolve" /\ rmqserver' = FALSE
  /\ Goto(t, "minute")
  /\ UNCHANGED <<rmq_conn, handle, locks, local, env, reloads>>

SelectFails(t) ==
  /\ \/ pc[t] = "resolve" /\ rmqserver' = FALSE
     \/ pc[t] = "connect" /\ ~up /\ UNCHANGED rmqserver
  /\ gl_lock_set_rmq' = Nobody
  /\ Goto(t, "minute")
  /\ UNCHANGED <<rmq_conn, handle, gl_lock_send_data, local, env, reloads>>

Retry(t) ==
  /\ pc[t] = "minute" /\ Goto(t, "reload")
  /\ UNCHANGED <<rmq_conn, handle, rmqserver, locks, local, env, reloads>>

\* amqp_new_connection may hand out memory that was freed before.
Connect(t) ==
  /\ pc[t] = "connect" /\ up
  /\ \E h \in Handles :
       /\ handle[h] = "freed"
       /\ handle' = [handle EXCEPT ![h] = "open"]
       /\ use' = [use EXCEPT ![t] = h]
  /\ Goto(t, "swap")
  /\ UNCHANGED <<rmq_conn, rmqserver, locks, try, tmp, env, reloads>>

\* Mistake: the connection that is closed is the new one.
SwapRead_New(t) ==
  /\ pc[t] = "swap"
  /\ tmp' = [tmp EXCEPT ![t] = use[t]]
  /\ Goto(t, "write")
  /\ UNCHANGED <<rmq_conn, handle, rmqserver, locks, try, use, env, reloads>>

\* tmp=e->rmq_conn
SwapRead(t) ==
  /\ pc[t] = "swap"
  /\ tmp' = [tmp EXCEPT ![t] = rmq_conn]
  /\ Goto(t, "write")
  /\ UNCHANGED <<rmq_conn, handle, rmqserver, locks, try, use, env, reloads>>

\* Mistake: the old connection is forgotten.
SwapWrite_NoClose(t) ==
  /\ pc[t] = "write"
  /\ rmq_conn' = use[t]
  /\ use' = [use EXCEPT ![t] = Null]
  /\ Goto(t, "connected")
  /\ UNCHANGED <<handle, rmqserver, locks, try, tmp, env, reloads>>

\* Mistake: a null connection is closed as well.
SwapWrite_AlwaysCloses(t) ==
  /\ pc[t] = "write"
  /\ rmq_conn' = use[t]
  /\ use' = [use EXCEPT ![t] = Null]
  /\ Goto(t, "close")
  /\ UNCHANGED <<handle, rmqserver, locks, try, tmp, env, reloads>>

\* e->rmq_conn = conn
SwapWrite(t) ==
  /\ pc[t] = "write"
  /\ rmq_conn' = use[t]
  /\ use' = [use EXCEPT ![t] = Null]
  /\ Goto(t, IF tmp[t] # Null THEN "close" ELSE "connected")
  /\ UNCHANGED <<handle, rmqserver, locks, try, tmp, env, reloads>>

\* close_rmq_channel(&tmp); a connection that is freed twice is undefined.
CloseOld(t) ==
  /\ pc[t] = "close"
  /\ handle' = [handle EXCEPT ![tmp[t]] = "freed"]
  /\ tmp' = [tmp EXCEPT ![t] = Null]
  /\ Goto(t, IF handle[tmp[t]] = "freed" THEN "wild" ELSE "connected")
  /\ UNCHANGED <<rmq_conn, rmqserver, locks, try, use, env, reloads>>

SetServer(t) ==
  /\ pc[t] = "connected"
  /\ rmqserver' = TRUE
  /\ gl_lock_set_rmq' = Nobody
  /\ Goto(t, "idle")
  /\ UNCHANGED <<rmq_conn, handle, gl_lock_send_data, local, env, reloads>>

-----------------------------------------------------------------------------
(* decrease_srv_ttl and reload_rmq_server_list_ttl.                        *)

\* The count reaches 0, under gl_lock_set_rmq.  Above 0 nothing else changes.
TtlSpent(t) ==
  /\ pc[t] = "idle" /\ gl_lock_set_rmq = Nobody /\ rmqserver
  /\ reloads < MaxReloads /\ reloads' = reloads + 1
  /\ Goto(t, "log")
  /\ UNCHANGED <<rmq_conn, handle, rmqserver, locks, local, env>>

\* The log reads e->rmqserver->target, without the lock.
TtlLog(t) ==
  /\ pc[t] = "log"
  /\ Goto(t, IF rmqserver THEN "ttl_check" ELSE "wild")
  /\ UNCHANGED <<rmq_conn, handle, rmqserver, locks, local, env, reloads>>

TtlCheck(t) ==
  /\ pc[t] = "ttl_check"
  /\ Goto(t, IF rmq_conn # Null THEN "ttl_close" ELSE "reload")
  /\ UNCHANGED <<rmq_conn, handle, rmqserver, locks, local, env, reloads>>

\* close_rmq_channel(&e->rmq_conn) reads rmq_conn for every call it makes, and
\* clears it after the last.
TtlClose(t) ==
  /\ pc[t] = "ttl_close"
  /\ Goto(t, IF rmq_conn = Null \/ handle[rmq_conn] = "freed" THEN "wild" ELSE "ttl_destroy")
  /\ UNCHANGED <<rmq_conn, handle, rmqserver, locks, local, env, reloads>>

\* amqp_destroy_connection accepts a null connection.
TtlDestroy(t) ==
  /\ pc[t] = "ttl_destroy"
  /\ handle' = [h \in Handles |-> IF h = rmq_conn THEN "freed" ELSE handle[h]]
  /\ Goto(t, IF rmq_conn # Null /\ handle[rmq_conn] = "freed" THEN "wild" ELSE "ttl_clear")
  /\ UNCHANGED <<rmq_conn, rmqserver, locks, local, env, reloads>>

TtlClear(t) ==
  /\ pc[t] = "ttl_clear"
  /\ rmq_conn' = Null
  /\ Goto(t, "reload")
  /\ UNCHANGED <<handle, rmqserver, locks, local, env, reloads>>

-----------------------------------------------------------------------------

BrokersGo ==
  /\ up /\ changes < MaxChanges /\ changes' = changes + 1
  /\ up' = FALSE
  /\ handle' = [h \in Handles |-> IF handle[h] = "open" THEN "broken" ELSE handle[h]]
  /\ UNCHANGED <<rmq_conn, rmqserver, locks, pc, local, reloads>>

BrokersReturn ==
  /\ ~up /\ changes < MaxChanges /\ changes' = changes + 1
  /\ up' = TRUE
  /\ UNCHANGED <<rmq_conn, handle, rmqserver, locks, pc, local, reloads>>

SetServerList(t) ==
  \/ SetLock(t) \/ SelectFails(t) \/ Retry(t) \/ Connect(t)
  \/ SwapRead(t) \/ SwapWrite(t) \/ CloseOld(t) \/ SetServer(t)

Send(t) ==
  \/ CheckConn(t) \/ Publish(t) \/ PublishOK(t) \/ PublishFails(t) \/ PublishFaults(t)

ReloadTtl(t) ==
  \/ TtlLog(t) \/ TtlCheck(t) \/ TtlClose(t) \/ TtlDestroy(t) \/ TtlClear(t)

Next ==
  \/ \E t \in Threads : SetServerList(t) \/ Resolve(t)
  \/ \E t \in Senders : SendLock(t) \/ Send(t)
  \/ \E t \in TtlThreads : TtlSpent(t) \/ ReloadTtl(t)
  \/ BrokersGo \/ BrokersReturn

Spec == Init /\ [][Next]_vars

\* Threads run; the DNS answers in the end if it is asked again and again.  No
\* thread has to send and no TTL has to run out.
FairSpec ==
  /\ Spec
  /\ \A t \in Threads : WF_vars(SetServerList(t)) /\ SF_vars(Resolve(t))
  /\ \A t \in Senders : WF_vars(Send(t))
  /\ \A t \in TtlThreads : WF_vars(ReloadTtl(t))

-----------------------------------------------------------------------------
(* Properties.                                                             *)

PcSet == {"idle", "try", "publish", "onwire", "reload", "resolve", "connect", "minute",
          "swap", "write", "close", "connected", "log", "ttl_check", "ttl_close",
          "ttl_destroy", "ttl_clear", "wild"}

LinkType ==
  /\ rmq_conn \in Handles \cup {Null}
  /\ handle \in [Handles -> {"freed", "open", "broken"}]
  /\ rmqserver \in BOOLEAN
  /\ gl_lock_send_data \in Senders \cup {Nobody}
  /\ gl_lock_set_rmq \in Threads \cup {Nobody}

ThreadType ==
  /\ pc \in [Threads -> PcSet] /\ try \in [Threads -> 0 .. RETRY_NBR]
  /\ use \in [Threads -> Handles \cup {Null}] /\ tmp \in [Threads -> Handles \cup {Null}]
  /\ \A t \in Threads : pc[t] \in {"try", "publish", "onwire"} => try[t] < RETRY_NBR
  /\ \A t \in Threads : pc[t] \in {"onwire", "swap", "write"} => use[t] # Null
  /\ \A t \in Threads : pc[t] = "close" => tmp[t] # Null

EnvType == up \in BOOLEAN /\ changes \in 0 .. MaxChanges /\ reloads \in 0 .. MaxReloads

\* Where init_rmq uses conn or tmp, and amqp_basic_publish its connection, they
\* are set; tries stay below RETRY_NBR.
TypeOK == LinkType /\ ThreadType /\ EnvType

\* The two mutexes never wait on each other: a thread that waits for
\* gl_lock_set_rmq or spends the minute between two rounds holds neither
\* (send_to_rmq.c:119, set_mq_host.c:42-46), and one that is idle has left both.
LocksApart ==
  \A t \in Threads :
    pc[t] \in {"idle", "reload", "minute"} => gl_lock_send_data # t /\ gl_lock_set_rmq # t

\* As long as no TTL has run out, threads that lose the broker together may
\* reconnect one after the other: rmq_conn is never a connection that was
\* destroyed (init_rmq.c:67-71 swaps before it closes).
CurrentNotDestroyed ==
  reloads = 0 => rmq_conn # Null /\ handle[rmq_conn] # "freed"

\* And none is lost: a connection that exists is rmq_conn, or the one the holder
\* of gl_lock_set_rmq has just opened or is about to close.
NoConnectionLost ==
  reloads = 0 =>
    \A h \in Handles : handle[h] # "freed" =>
      \/ h = rmq_conn
      \/ \E t \in Threads : /\ gl_lock_set_rmq = t
                            /\ \/ pc[t] \in {"swap", "write"} /\ h = use[t]
                               \/ pc[t] = "close" /\ h = tmp[t]

\* RELEASE:4 ("Integration d un mutex lors des changements de TTL"): changing the
\* server is protected.  A message is published on a connection that exists.
PublishOnLive ==
  \A t \in Senders : pc[t] = "onwire" => handle[use[t]] # "freed"

Crashed == \E t \in Threads : pc[t] = "wild"

\* A message that cannot be sent does not keep the other senders out for ever:
\* gl_lock_send_data is released whatever brokers do (send_to_rmq.c:117-119).
SendLockReleased ==
  \A t \in Senders : gl_lock_send_data = t ~> (gl_lock_send_data # t \/ Crashed)

\* Once a broker stays reachable, every thread that looks for one returns to its
\* work, however the other threads interleave with it.
SearchEnds ==
  <>[]up => \A t \in Threads : pc[t] = "reload" ~> (pc[t] = "idle" \/ Crashed)
=============================================================================
