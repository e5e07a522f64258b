-------------------------- MODULE BrokerLinkProofs --------------------------
(***************************************************************************)
(* The lock discipline of the sending threads, and what it keeps of the    *)
(* connection as long as no TTL runs out, for any number of threads and    *)
(* connections.                                                            *)
(***************************************************************************)
EXTENDS BrokerLink, TLAPS

\* Where a thread holds gl_lock_send_data, and gl_lock_set_rmq.
Sending  == {"try", "publish", "onwire"}
Choosing == {"resolve", "connect", "swap", "write", "close", "connected"}

Holders ==
  \A t \in Threads :
    /\ pc[t] \in Sending => gl_lock_send_data = t
    /\ gl_lock_send_data = t => pc[t] \in Sending \cup {"wild"}
    /\ pc[t] \in Choosing => gl_lock_set_rmq = t
    /\ gl_lock_set_rmq = t => pc[t] \in Choosing \cup {"wild"}

\* Without a reload only the holder of gl_lock_set_rmq writes rmq_conn: what it
\* read is still there, and what it opened or closes is no longer shared.
Swapping(t) ==
  /\ pc[t] \in {"swap", "write"} => handle[use[t]] # "freed" /\ use[t] # rmq_conn
  /\ pc[t] = "write" => tmp[t] = rmq_conn
  /\ pc[t] = "close" => tmp[t] # rmq_conn
  /\ pc[t] \notin {"log", "ttl_check", "ttl_close", "ttl_destroy", "ttl_clear"}

Swap == reloads = 0 => \A t \in Threads : Swapping(t)

Inv == TypeOK /\ Holders /\ Swap /\ CurrentNotDestroyed /\ NoConnectionLost

LEMMA InitInv == Init => Inv
<1> SUFFICES ASSUME Init PROVE Inv
  OBVIOUS
<1> USE LinkAssumption
<1>1. TypeOK
  BY DEF Init, TypeOK, LinkType, ThreadType, EnvType, PcSet
<1>2. Holders
  BY DEF Init, Holders, Sending, Choosing, Threads
<1>3. Swap /\ CurrentNotDestroyed /\ NoConnectionLost
  BY DEF Init, Swap, Swapping, CurrentNotDestroyed, NoConnectionLost
<1>4. QED
  BY <1>1, <1>2, <1>3 DEF Inv

\* Steps of a sender.
LEMMA SendStep ==
  ASSUME Inv, NEW t \in Senders, SendLock(t) \/ Send(t) PROVE Inv'
<1> USE LinkAssumption DEF Inv, Threads, Goto
<1>0. t \in Threads /\ t # Nobody
  OBVIOUS
<1>1. CASE SendLock(t)
  <2>1. TypeOK'
    BY <1>0, <1>1 DEF SendLock, TypeOK, LinkType, ThreadType, EnvType, PcSet, env
  <2>2. Holders'
    BY <1>0, <1>1 DEF SendLock, Holders, Sending, Choosing, TypeOK, ThreadType
  <2>3. (Swap /\ CurrentNotDestroyed /\ NoConnectionLost)'
    BY <1>0, <1>1 DEF SendLock, Swap, Swapping, CurrentNotDestroyed, NoConnectionLost,
                      TypeOK, ThreadType
  <2>4. QED
    BY <2>1, <2>2, <2>3
<1>2. CASE CheckConn(t)
  <2>1. TypeOK'
    BY <1>0, <1>2 DEF CheckConn, TryFailed, TypeOK, LinkType, ThreadType, EnvType, PcSet, env
  <2>2. Holders'
    BY <1>0, <1>2 DEF CheckConn, TryFailed, Holders, Sending, Choosing, TypeOK, ThreadType
  <2>3. (Swap /\ CurrentNotDestroyed /\ NoConnectionLost)'
    BY <1>0, <1>2 DEF CheckConn, TryFailed, Swap, Swapping, CurrentNotDestroyed,
                      NoConnectionLost, TypeOK, ThreadType
  <2>4. QED
    BY <2>1, <2>2, <2>3
<1>3. CASE Publish(t)
  <2>1. TypeOK'
    BY <1>0, <1>3 DEF Publish, TypeOK, LinkType, ThreadType, EnvType, PcSet, env, locks
  <2>2. Holders'
    BY <1>0, <1>3 DEF Publish, Holders, Sending, Choosing, TypeOK, ThreadType, locks
  <2>3. (Swap /\ CurrentNotDestroyed /\ NoConnectionLost)'
    BY <1>0, <1>3 DEF Publish, Swap, Swapping, CurrentNotDestroyed, NoConnectionLost,
                      TypeOK, ThreadType, locks
  <2>4. QED
    BY <2>1, <2>2, <2>3
<1>4. CASE PublishOK(t)
  <2>1. TypeOK'
    BY <1>0, <1>4 DEF PublishOK, TypeOK, LinkType, ThreadType, EnvType, PcSet, env
  <2>2. Holders'
    BY <1>0, <1>4 DEF PublishOK, Holders, Sending, Choosing, TypeOK, ThreadType
  <2>3. (Swap /\ CurrentNotDestroyed /\ NoConnectionLost)'
    BY <1>0, <1>4 DEF PublishOK, Swap, Swapping, CurrentNotDestroyed, NoConnectionLost,
                      TypeOK, ThreadType
  <2>4. QED
    BY <2>1, <2>2, <2>3
<1>5. CASE PublishFails(t)
  <2>1. TypeOK'
    BY <1>0, <1>5 DEF PublishFails, TryFailed, TypeOK, LinkType, ThreadType, EnvType, PcSet, env
  <2>2. Holders'
    BY <1>0, <1>5 DEF PublishFails, TryFailed, Holders, Sending, Choosing, TypeOK, ThreadType
  <2>3. (Swap /\ CurrentNotDestroyed /\ NoConnectionLost)'
    BY <1>0, <1>5 DEF PublishFails, TryFailed, Swap, Swapping, CurrentNotDestroyed,
                      NoConnectionLost, TypeOK, ThreadType
  <2>4. QED
    BY <2>1, <2>2, <2>3
<1>6. CASE PublishFaults(t)
  <2>1. TypeOK'
    BY <1>0, <1>6 DEF PublishFaults, TypeOK, LinkType, ThreadType, EnvType, PcSet, env, locks, local
  <2>2. Holders'
    BY <1>0, <1>6 DEF PublishFaults, Holders, Sending, Choosing, TypeOK, ThreadType, locks
  <2>3. (Swap /\ CurrentNotDestroyed /\ NoConnectionLost)'
    BY <1>0, <1>6 DEF PublishFaults, Swap, Swapping, CurrentNotDestroyed, NoConnectionLost,
                      TypeOK, ThreadType, locks, local
  <2>4. QED
    BY <2>1, <2>2, <2>3
<1>7. QED
  BY <1>1, <1>2, <1>3, <1>4, <1>5, <1>6 DEF Send

\* Steps of set_rmq_server_list, in any thread.
LEMMA SetStep ==
  ASSUME Inv, NEW t \in Threads, SetServerList(t) \/ Resolve(t) PROVE Inv'
<1> USE LinkAssumption DEF Inv, Threads, Goto
<1>0. t \in Threads /\ t # Nobody
  OBVIOUS
<1>1. CASE SetLock(t)
  <2>1. TypeOK'
    BY <1>0, <1>1 DEF SetLock, TypeOK, LinkType, ThreadType, EnvType, PcSet, env, locks, local
  <2>2. Holders'
    BY <1>0, <1>1 DEF SetLock, Holders, Sending, Choosing, TypeOK, ThreadType, locks
  <2>3. (Swap /\ CurrentNotDestroyed /\ NoConnectionLost)'
    BY <1>0, <1>1 DEF SetLock, Swap, Swapping, CurrentNotDestroyed, NoConnectionLost,
       Holders, Choosing, TypeOK, LinkType, ThreadType, EnvType, locks, local
  <2>4. QED
    BY <2>1, <2>2, <2>3
<1>2. CASE SelectFails(t)
  <2>1. TypeOK'
    BY <1>0, <1>2 DEF SelectFails, TypeOK, LinkType, ThreadType, EnvType, PcSet, env, locks, local
  <2>2. Holders'
    BY <1>0, <1>2 DEF SelectFails, Holders, Sending, Choosing, TypeOK, ThreadType, locks
  <2>3. (Swap /\ CurrentNotDestroyed /\ NoConnectionLost)'
    BY <1>0, <1>2 DEF SelectFails, Swap, Swapping, CurrentNotDestroyed, NoConnectionLost,
       Holders, Choosing, TypeOK, LinkType, ThreadType, EnvType, locks, local
  <2>4. QED
    BY <2>1, <2>2, <2>3
<1>3. CASE Retry(t)
  <2>1. TypeOK'
    BY <1>0, <1>3 DEF Retry, TypeOK, LinkType, ThreadType, EnvType, PcSet, env, locks, local
  <2>2. Holders'
    BY <1>0, <1>3 DEF Retry, Holders, Sending, Choosing, TypeOK, ThreadType, locks
  <2>3. (Swap /\ CurrentNotDestroyed /\ NoConnectionLost)'
    BY <1>0, <1>3 DEF Retry, Swap, Swapping, CurrentNotDestroyed, NoConnectionLost,
       Holders, Choosing, TypeOK, LinkType, ThreadType, EnvType, locks, local
  <2>4. QED
    BY <2>1, <2>2, <2>3
<1>4. CASE Connect(t)
  <2>1. TypeOK'
    BY <1>0, <1>4 DEF Connect, TypeOK, LinkType, ThreadType, EnvType, PcSet, env, locks, local
  <2>2. Holders'
    BY <1>0, <1>4 DEF Connect, Holders, Sending, Choosing, TypeOK, ThreadType, locks
  <2>3. (Swap /\ CurrentNotDestroyed /\ NoConnectionLost)'
    BY <1>0, <1>4 DEF Connect, Swap, Swapping, CurrentNotDestroyed, NoConnectionLost,
       Holders, Choosing, TypeOK, LinkType, ThreadType, EnvType, locks, local
  <2>4. QED
    BY <2>1, <2>2, <2>3
<1>5. CASE SwapRead(t)
  <2>1. TypeOK'
    BY <1>0, <1>5 DEF SwapRead, TypeOK, LinkType, ThreadType, EnvType, PcSet, env, locks, local
  <2>2. Holders'
    BY <1>0, <1>5 DEF SwapRead, Holders, Sending, Choosing, TypeOK, ThreadType, locks
  <2>3. (Swap /\ CurrentNotDestroyed /\ NoConnectionLost)'
    BY <1>0, <1>5 DEF SwapRead, Swap, Swapping, CurrentNotDestroyed, NoConnectionLost,
       Holders, Choosing, TypeOK, LinkType, ThreadType, EnvType, locks, local
  <2>4. QED
    BY <2>1, <2>2, <2>3
<1>6. CASE SwapWrite(t)
  <2>1. TypeOK'
    BY <1>0, <1>6 DEF SwapWrite, TypeOK, LinkType, ThreadType, EnvType, PcSet, env, locks, local
  <2>2. Holders'
    BY <1>0, <1>6 DEF SwapWrite, Holders, Sending, Choosing, TypeOK, ThreadType, locks
  <2>3. (Swap /\ CurrentNotDestroyed /\ NoConnectionLost)'
    BY <1>0, <1>6 DEF SwapWrite, Swap, Swapping, CurrentNotDestroyed, NoConnectionLost,
       Holders, Choosing, TypeOK, LinkType, ThreadType, EnvType, locks, local
  <2>4. QED
    BY <2>1, <2>2, <2>3
<1>7. CASE CloseOld(t)
  <2>1. TypeOK'
    BY <1>0, <1>7 DEF CloseOld, TypeOK, LinkType, ThreadType, EnvType, PcSet, env, locks, local
  <2>2. Holders'
    BY <1>0, <1>7 DEF CloseOld, Holders, Sending, Choosing, TypeOK, ThreadType, locks
  <2>3. (Swap /\ CurrentNotDestroyed /\ NoConnectionLost)'
    BY <1>0, <1>7 DEF CloseOld, Swap, Swapping, CurrentNotDestroyed, NoConnectionLost,
       Holders, Choosing, TypeOK, LinkType, ThreadType, EnvType, locks, local
  <2>4. QED
    BY <2>1, <2>2, <2>3
<1>8. CASE SetServer(t)
  <2>1. TypeOK'
    BY <1>0, <1>8 DEF SetServer, TypeOK, LinkType, ThreadType, EnvType, PcSet, env, locks, local
  <2>2. Holders'
    BY <1>0, <1>8 DEF SetServer, Holders, Sending, Choosing, TypeOK, ThreadType, locks
  <2>3. (Swap /\ CurrentNotDestroyed /\ NoConnectionLost)'
    BY <1>0, <1>8 DEF SetServer, Swap, Swapping, CurrentNotDestroyed, NoConnectionLost,
       Holders, Choosing, TypeOK, LinkType, ThreadType, EnvType, locks, local
  <2>4. QED
    BY <2>1, <2>2, <2>3
<1>9. CASE Resolve(t)
  <2>1. TypeOK'
    BY <1>0, <1>9 DEF Resolve, TypeOK, LinkType, ThreadType, EnvType, PcSet, env, locks, local
  <2>2. Holders'
    BY <1>0, <1>9 DEF Resolve, Holders, Sending, Choosing, TypeOK, ThreadType, locks
  <2>3. (Swap /\ CurrentNotDestroyed /\ NoConnectionLost)'
    BY <1>0, <1>9 DEF Resolve, Swap, Swapping, CurrentNotDestroyed, NoConnectionLost,
       Holders, Choosing, TypeOK, LinkType, ThreadType, EnvType, locks, local
  <2>4. QED
    BY <2>1, <2>2, <2>3
<1>10. QED
  BY <1>1, <1>2, <1>3, <1>4, <1>5, <1>6, <1>7, <1>8, <1>9 DEF SetServerList

\* Steps of a TTL thread.
LEMMA TtlStep ==
  ASSUME Inv, NEW t \in TtlThreads, TtlSpent(t) \/ ReloadTtl(t) PROVE Inv'
<1> USE LinkAssumption DEF Inv, Threads, Goto
<1>0. t \in Threads /\ t # Nobody
  OBVIOUS
<1>1. CASE TtlSpent(t)
  <2>1. TypeOK'
    BY <1>0, <1>1 DEF TtlSpent, TypeOK, LinkType, ThreadType, EnvType, PcSet, env, locks, local
  <2>2. Holders'
    BY <1>0, <1>1 DEF TtlSpent, Holders, Sending, Choosing, TypeOK, ThreadType, locks
  <2>3. (Swap /\ CurrentNotDestroyed /\ NoConnectionLost)'
    BY <1>0, <1>1 DEF TtlSpent, Swap, Swapping, CurrentNotDestroyed, NoConnectionLost,
       Holders, Choosing, TypeOK, LinkType, ThreadType, EnvType, locks, local
  <2>4. QED
    BY <2>1, <2>2, <2>3
<1>2. CASE TtlLog(t)
  <2>1. TypeOK'
    BY <1>0, <1>2 DEF TtlLog, TypeOK, LinkType, ThreadType, EnvType, PcSet, env, locks, local
  <2>2. Holders'
    BY <1>0, <1>2 DEF TtlLog, Holders, Sending, Choosing, TypeOK, ThreadType, locks
  <2>3. (Swap /\ CurrentNotDestroyed /\ NoConnectionLost)'
    BY <1>0, <1>2 DEF TtlLog, Swap, Swapping, CurrentNotDestroyed, NoConnectionLost,
       Holders, Choosing, TypeOK, LinkType, ThreadType, EnvType, locks, local
  <2>4. QED
    BY <2>1, <2>2, <2>3
<1>3. CASE TtlCheck(t)
  <2>1. TypeOK'
    BY <1>0, <1>3 DEF TtlCheck, TypeOK, LinkType, ThreadType, EnvType, PcSet, env, locks, local
  <2>2. Holders'
    BY <1>0, <1>3 DEF TtlCheck, Holders, Sending, Choosing, TypeOK, ThreadType, locks
  <2>3. (Swap /\ CurrentNotDestroyed /\ NoConnectionLost)'
    BY <1>0, <1>3 DEF TtlCheck, Swap, Swapping, CurrentNotDestroyed, NoConnectionLost,
       Holders, Choosing, TypeOK, LinkType, ThreadType, EnvType, locks, local
  <2>4. QED
    BY <2>1, <2>2, <2>3
<1>4. CASE TtlClose(t)
  <2>1. TypeOK'
    BY <1>0, <1>4 DEF TtlClose, TypeOK, LinkType, ThreadType, EnvType, PcSet, env, locks, local
  <2>2. Holders'
    BY <1>0, <1>4 DEF TtlClose, Holders, Sending, Choosing, TypeOK, ThreadType, locks
  <2>3. (Swap /\ CurrentNotDestroyed /\ NoConnectionLost)'
    BY <1>0, <1>4 DEF TtlClose, Swap, Swapping, CurrentNotDestroyed, NoConnectionLost,
       Holders, Choosing, TypeOK, LinkType, ThreadType, EnvType, locks, local
  <2>4. QED
    BY <2>1, <2>2, <2>3
<1>5. CASE TtlDestroy(t)
  <2>1. TypeOK'
    BY <1>0, <1>5 DEF TtlDestroy, TypeOK, LinkType, ThreadType, EnvType, PcSet, env, locks, local
  <2>2. Holders'
    BY <1>0, <1>5 DEF TtlDestroy, Holders, Sending, Choosing, TypeOK, ThreadType, locks
  <2>3. (Swap /\ CurrentNotDestroyed /\ NoConnectionLost)'
    BY <1>0, <1>5 DEF TtlDestroy, Swap, Swapping, CurrentNotDestroyed, NoConnectionLost,
       Holders, Choosing, TypeOK, LinkType, ThreadType, EnvType, locks, local
  <2>4. QED
    BY <2>1, <2>2, <2>3
<1>6. CASE TtlClear(t)
  <2>1. TypeOK'
    BY <1>0, <1>6 DEF TtlClear, TypeOK, LinkType, ThreadType, EnvType, PcSet, env, locks, local
  <2>2. Holders'
    BY <1>0, <1>6 DEF TtlClear, Holders, Sending, Choosing, TypeOK, ThreadType, locks
  <2>3. (Swap /\ CurrentNotDestroyed /\ NoConnectionLost)'
    BY <1>0, <1>6 DEF TtlClear, Swap, Swapping, CurrentNotDestroyed, NoConnectionLost,
       Holders, Choosing, TypeOK, LinkType, ThreadType, EnvType, locks, local
  <2>4. QED
    BY <2>1, <2>2, <2>3
<1>7. QED
  BY <1>1, <1>2, <1>3, <1>4, <1>5, <1>6 DEF ReloadTtl

\* Brokers that come and go, and stuttering.
LEMMA OtherStep == ASSUME Inv, BrokersGo \/ BrokersReturn \/ UNCHANGED vars PROVE Inv'
<1> USE LinkAssumption DEF Inv
<1>1. CASE BrokersGo
  <2>0. /\ handle' \in [Handles -> {"freed", "open", "broken"}]
        /\ \A h \in Handles : handle'[h] = "freed" <=> handle[h] = "freed"
    BY <1>1 DEF BrokersGo, TypeOK, LinkType
  <2>1. TypeOK'
    <3>1. LinkType'
      BY <1>1, <2>0 DEF BrokersGo, TypeOK, LinkType, locks
    <3>2. ThreadType'
      BY <1>1 DEF BrokersGo, TypeOK, ThreadType, local
    <3>3. EnvType'
      <4>1. changes < MaxChanges /\ changes' = changes + 1 /\ up' = FALSE /\ reloads' = reloads
        BY <1>1 DEF BrokersGo
      <4>2. changes \in 0 .. MaxChanges /\ reloads \in 0 .. MaxReloads
        BY DEF TypeOK, EnvType
      <4>3. changes' \in 0 .. MaxChanges
        BY <4>1, <4>2
      <4>4. QED
        BY <4>1, <4>2, <4>3 DEF EnvType
    <3>4. QED
      BY <3>1, <3>2, <3>3 DEF TypeOK
  <2>2. Holders'
    BY <1>1 DEF BrokersGo, Holders, Sending, Choosing, TypeOK, ThreadType, locks
  <2>3. (Swap /\ CurrentNotDestroyed /\ NoConnectionLost)'
    BY <1>1, <2>0 DEF BrokersGo, Swap, Swapping, CurrentNotDestroyed, NoConnectionLost,
       Holders, Choosing, TypeOK, LinkType, ThreadType, EnvType, locks, local
  <2>4. QED
    BY <2>1, <2>2, <2>3
<1>2. CASE BrokersReturn
  <2>1. TypeOK'
    BY <1>2 DEF BrokersReturn, TypeOK, LinkType, ThreadType, EnvType, PcSet, env, locks, local
  <2>2. Holders'
    BY <1>2 DEF BrokersReturn, Holders, Sending, Choosing, TypeOK, ThreadType, locks
  <2>3. (Swap /\ CurrentNotDestroyed /\ NoConnectionLost)'
    BY <1>2 DEF BrokersReturn, Swap, Swapping, CurrentNotDestroyed, NoConnectionLost,
       Holders, Choosing, TypeOK, LinkType, ThreadType, EnvType, locks, local
  <2>4. QED
    BY <2>1, <2>2, <2>3
<1>3. CASE UNCHANGED vars
  BY <1>3 DEF vars, TypeOK, LinkType, ThreadType, EnvType, env, locks, local, Holders,
              Swap, Swapping, CurrentNotDestroyed, NoConnectionLost
<1>4. QED
  BY <1>1, <1>2, <1>3

LEMMA InvHolds == Spec => []Inv
<1>1. Inv /\ [Next]_vars => Inv'
  BY SendStep, SetStep, TtlStep, OtherStep DEF Next
<1>2. QED
  BY <1>1, InitInv, PTL DEF Spec

\* Connections, and the indices into the tries, are set where they are used.
THEOREM LinkTypes == Spec => []TypeOK
BY InvHolds, PTL DEF Inv

\* No thread waits for one mutex, or sleeps between two rounds, holding a mutex.
THEOREM NoLockHeldWaiting == Spec => []LocksApart
<1>1. Inv => LocksApart
  BY DEF Inv, Holders, LocksApart, Sending, Choosing
<1>2. QED
  BY <1>1, InvHolds, PTL

\* While no TTL has run out, reconnecting threads leave rmq_conn a connection that
\* exists.
THEOREM CurrentExists == Spec => []CurrentNotDestroyed
BY InvHolds, PTL DEF Inv

\* And they lose no connection.
THEOREM AllConnectionsKnown == Spec => []NoConnectionLost
BY InvHolds, PTL DEF Inv
=============================================================================
