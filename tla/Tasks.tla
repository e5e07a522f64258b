-------------------------------- MODULE Tasks --------------------------------
(***************************************************************************)
(* The periodic tasks of the collector (collector/scheduler.c): once a     *)
(* second the scheduler starts a detached thread for every task that is    *)
(* due.  Modelled here are the tasks that tell the broker and the          *)
(* administrator about the host: the metadata message (send_to_rmq.c), the *)
(* check for a new host name (get_my_hostname.c) and the numbers of sent   *)
(* messages that moontop shows (write_stats.c).  The garbage passes are in *)
(* HandshakeTable, the count down of the TTL is in BrokerLink.             *)
(*                                                                         *)
(* The threads share e->myhostname, a pointer to a malloc'ed name, and     *)
(* e->nbr_sent_packet without a lock, so each access is a step.            *)
(***************************************************************************)
EXTENDS Integers, FiniteSets

CONSTANTS
  Names,      \* what gethostname may return
  Garbage,    \* what a freed name may read as, besides a name
  Buffers,    \* the heap blocks malloc hands out
  NoBuffer,
  Period,     \* Period[t]: seconds between two threads of task t
  Cycle,      \* a common multiple of the periods; sched_time is counted modulo it
  MaxThreads, \* bound: MaxThreads[t] threads of task t at a time
  MaxSent,    \* bound: messages that are counted
  MaxRenames, \* bound: changes of the host name
  MaxDrops    \* bound: metadata messages the broker does not take

Tasks  == DOMAIN Period
Stats  == Tasks \ {"metadata", "hostname"}
Threads == UNION {{t} \X (1 .. MaxThreads[t]) : t \in Tasks}

ASSUME TasksAssumption ==
  /\ Garbage \notin Names /\ NoBuffer \notin Buffers
  /\ Cycle \in Nat \ {0}
  /\ \A t \in Tasks : Period[t] \in 1 .. Cycle /\ MaxThreads[t] \in Nat \ {0}
  /\ \A t \in Stats : MaxThreads[t] = 1    \* a file is written in less than a minute
  /\ MaxSent \in Nat /\ MaxRenames \in Nat /\ MaxDrops \in Nat

VARIABLES
  hostname,         \* of the machine
  sched_time,
  at,               \* where each thread is
  myhostname,       \* e->myhostname, a buffer
  text,             \* what each buffer holds
  allocated,        \* the buffers that are not free
  tmp, tmp1,        \* of a check: the new name, the one it replaces
  metadata,         \* of a message under construction: the name's buffer, then the name
  told,             \* the name in the last metadata message the broker took
  nbr_sent_packet,
  last,             \* last[t]: nbr_sent_packet_last_.. of statistics task t
  reported,         \* the sum of all numbers task t has written
  renames, drops

world  == <<hostname, renames, drops>>
names  == <<myhostname, text, allocated, tmp, tmp1>>
stats  == <<last, reported>>
vars   == <<world, sched_time, at, names, metadata, told, nbr_sent_packet, stats>>

Goto(th, l) == at' = [at EXCEPT ![th] = l]

Init ==
  /\ hostname \in Names
  /\ sched_time = 0 /\ at = [th \in Threads |-> "none"]
  /\ \E b \in Buffers :
       /\ myhostname = b /\ allocated = {b}
       /\ text = [x \in Buffers |-> IF x = b THEN hostname ELSE Garbage]
  /\ tmp = [th \in Threads |-> NoBuffer] /\ tmp1 = tmp
  /\ metadata = [th \in Threads |-> NoBuffer] /\ told = Garbage
  /\ nbr_sent_packet = 0
  /\ last = [t \in Stats |-> 0] /\ reported = last
  /\ renames = 0 /\ drops = 0

-----------------------------------------------------------------------------
(* The scheduler.                                                          *)

First(t) == IF t = "metadata" THEN "read" ELSE IF t = "hostname" THEN "get" ELSE "write"

Due == {t \in Tasks : sched_time % Period[t] = 0}

Idle(t) == {i \in 1 .. MaxThreads[t] : at[<<t, i>>] = "none"}

Checking == {th \in Threads : at[th] \in {"get", "compare", "take", "swap", "free"}}

\* A turn of th_scheduler: one thread for every task that is due.  Bounds: a
\* thread is there to be used, and a check of the host name has come as far as
\* the message it sends before the next one starts, three seconds later.
Second ==
  /\ \A t \in Due : Idle(t) # {}
  /\ "hostname" \in Due => Checking = {}
  /\ sched_time' = (sched_time + 1) % Cycle
  /\ at' = [th \in Threads |->
              IF th[1] \in Due /\ th[2] = CHOOSE i \in Idle(th[1]) : TRUE
              THEN First(th[1]) ELSE at[th]]
  /\ UNCHANGED <<world, names, metadata, told, nbr_sent_packet, stats>>

-----------------------------------------------------------------------------
(* check_hostname_change.                                                  *)

Get(th) ==
  /\ at[th] = "get"
  /\ \E b \in Buffers \ allocated :
       /\ tmp' = [tmp EXCEPT ![th] = b]
       /\ text' = [text EXCEPT ![b] = hostname]
       /\ allocated' = allocated \cup {b}
  /\ Goto(th, "compare")
  /\ UNCHANGED <<world, sched_time, myhostname, tmp1, metadata, told, nbr_sent_packet, stats>>

Compare(th) ==
  /\ at[th] = "compare"
  /\ IF text[tmp[th]] # text[myhostname]
     THEN Goto(th, "take") /\ UNCHANGED <<tmp, allocated>>
     ELSE /\ allocated' = allocated \ {tmp[th]}
          /\ tmp' = [tmp EXCEPT ![th] = NoBuffer]
          /\ Goto(th, "none")
  /\ UNCHANGED <<world, sched_time, myhostname, text, tmp1, metadata, told, nbr_sent_packet, stats>>

Take(th) ==
  /\ at[th] = "take"
  /\ tmp1' = [tmp1 EXCEPT ![th] = myhostname]
  /\ Goto(th, "swap")
  /\ UNCHANGED <<world, sched_time, myhostname, text, allocated, tmp, metadata, told,
                 nbr_sent_packet, stats>>

\* Mistake: the name is left as it was.
Swap_Kept(th) ==
  /\ at[th] = "swap"
  /\ tmp' = [tmp EXCEPT ![th] = NoBuffer]
  /\ tmp1' = [tmp1 EXCEPT ![th] = tmp[th]]
  /\ Goto(th, "free")
  /\ UNCHANGED <<world, sched_time, myhostname, text, allocated, metadata, told, nbr_sent_packet, stats>>

Swap(th) ==
  /\ at[th] = "swap"
  /\ myhostname' = tmp[th]
  /\ tmp' = [tmp EXCEPT ![th] = NoBuffer]
  /\ Goto(th, "free")
  /\ UNCHANGED <<world, sched_time, text, allocated, tmp1, metadata, told, nbr_sent_packet, stats>>

\* Mistake: e->myhostname is freed, which is the new name by now.
Free_Current(th) ==
  /\ at[th] = "free"
  /\ allocated' = allocated \ {myhostname}
  /\ tmp1' = [tmp1 EXCEPT ![th] = NoBuffer]
  /\ Goto(th, "read")
  /\ UNCHANGED <<world, sched_time, myhostname, text, tmp, metadata, told, nbr_sent_packet, stats>>

Free(th) ==
  /\ at[th] = "free"
  /\ allocated' = allocated \ {tmp1[th]}
  /\ tmp1' = [tmp1 EXCEPT ![th] = NoBuffer]
  /\ Goto(th, "read")
  /\ UNCHANGED <<world, sched_time, myhostname, text, tmp, metadata, told, nbr_sent_packet, stats>>

-----------------------------------------------------------------------------
(* send_metadata_to_rmq, in a thread of its own or at the end of a check.  *)

\* snprintf is given the pointer ...
ReadName(th) ==
  /\ at[th] = "read"
  /\ metadata' = [metadata EXCEPT ![th] = myhostname]
  /\ Goto(th, "copy")
  /\ UNCHANGED <<world, sched_time, names, told, nbr_sent_packet, stats>>

\* ... and copies what it points to, which may have been freed.
CopyName(th) ==
  /\ at[th] = "copy"
  /\ \E nm \in IF metadata[th] \in allocated THEN {text[metadata[th]]} ELSE Names \cup {Garbage} :
       metadata' = [metadata EXCEPT ![th] = nm]
  /\ Goto(th, "send")
  /\ UNCHANGED <<world, sched_time, names, told, nbr_sent_packet, stats>>

Count == nbr_sent_packet' = IF nbr_sent_packet < MaxSent THEN nbr_sent_packet + 1 ELSE nbr_sent_packet

Send(th) ==
  /\ at[th] = "send"
  /\ told' = metadata[th]
  /\ metadata' = [metadata EXCEPT ![th] = NoBuffer]
  /\ Count
  /\ Goto(th, "none")
  /\ UNCHANGED <<world, sched_time, names, stats>>

\* send_to_rmq gives up after RETRY_NBR tries: the message is lost.
Drop(th) ==
  /\ at[th] = "send" /\ drops < MaxDrops
  /\ drops' = drops + 1
  /\ metadata' = [metadata EXCEPT ![th] = NoBuffer]
  /\ Goto(th, "none")
  /\ UNCHANGED <<hostname, renames, sched_time, names, told, nbr_sent_packet, stats>>

-----------------------------------------------------------------------------
(* write_01_min_stats, write_05_min_stats and write_15_min_stats.          *)

WriteStat(th) ==
  LET t == th[1] IN
  /\ at[th] = "write"
  /\ reported' = [reported EXCEPT ![t] = @ + nbr_sent_packet - last[t]]
  /\ Goto(th, "base")
  /\ UNCHANGED <<world, sched_time, names, metadata, told, nbr_sent_packet, last>>

\* Mistake: the base stays what it was.
SetLast_Not(th) ==
  /\ at[th] = "base"
  /\ Goto(th, "none")
  /\ UNCHANGED <<world, sched_time, names, metadata, told, nbr_sent_packet, stats>>

\* The counter is read again: what was sent since WriteStat is in no file.
SetLast(th) ==
  /\ at[th] = "base"
  /\ last' = [last EXCEPT ![th[1]] = nbr_sent_packet]
  /\ Goto(th, "none")
  /\ UNCHANGED <<world, sched_time, names, metadata, told, nbr_sent_packet, reported>>

-----------------------------------------------------------------------------
(* The world: an administrator, and the capture thread that sends reports. *)

Rename ==
  /\ renames < MaxRenames
  /\ renames' = renames + 1
  /\ hostname' \in Names \ {hostname}
  /\ UNCHANGED <<drops, sched_time, at, names, metadata, told, nbr_sent_packet, stats>>

Report ==
  /\ nbr_sent_packet < MaxSent /\ Count
  /\ UNCHANGED <<world, sched_time, at, names, metadata, told, stats>>

Check(th)    == Get(th) \/ Compare(th) \/ Take(th) \/ Swap(th) \/ Free(th)
Metadata(th) == ReadName(th) \/ CopyName(th) \/ Send(th)
Statistic(th) == WriteStat(th) \/ SetLast(th)
Run(th)      == Check(th) \/ Metadata(th) \/ Statistic(th)

Next == Second \/ Rename \/ Report \/ \E th \in Threads : Run(th) \/ Drop(th)

Spec == Init /\ [][Next]_vars

\* The kernel runs the scheduler and every thread it has started.
FairSpec == Spec /\ WF_vars(Second) /\ \A th \in Threads : WF_vars(Run(th))

-----------------------------------------------------------------------------
(* Properties.                                                             *)

\* e->myhostname points to a name that was not freed, and no other name is kept
\* but those a check has in hand (get_my_hostname.c:40-51): metadata threads may
\* still read a freed name, but it is never the one the next of them will read,
\* and checks do not leak.
NameKept ==
  /\ myhostname \in allocated
  /\ LET inHand == {tmp[th] : th \in Checking} \cup {tmp1[th] : th \in Checking}
     IN  allocated = {myhostname} \cup (inHand \ {NoBuffer})

\* No message is counted in two files of one task: all the numbers a task has
\* written make no more than what was sent, although the counter is read without
\* the lock it is incremented under (write_stats.c:39-40, 61-62, 69-70).
CountedOnce == \A t \in Stats : reported[t] <= nbr_sent_packet

\* Whatever name a message took by reading a freed one, and whatever messages
\* the broker did not take, it knows the name of the host in the end
\* (get_my_hostname.c:47 and the periodic metadata of scheduler.c:63).
NameTold == \A nm \in Names : <>[](hostname = nm) => <>[](told = nm)
=============================================================================
