# A verification project for mooner

`mooner` (src/collector) listens to TCP traffic with libpcap, measures how long
the three segments of each TCP handshake take, and sends one record per
completed handshake to a RabbitMQ broker found through a DNS SRV lookup. This
directory holds TLA+ models of it, TLC configurations that check them on small
instances, and theorems proved with TLAPS.

## 1. The system

| Component | Source (src/) | State | Operations | What makes it correct |
|---|---|---|---|---|
| Handshake table | collector/handle_packet.c, set_packet.c, anti_syn_flood.c | `msg_tab`, `hash_ack`, the `nbr_*`/`stat_*` counters, `gl_lock_garbage` | handle a SYN, SYN+ACK or ACK; report a completed handshake; a garbage pass | a report tells of one handshake, in order; the ACK hash drops no handshake; slots are freed in the end and nothing is lost uncounted |
| Sending | collector/send_to_rmq.c | `rmq_conn`, `nbr_sent_packet`, `gl_lock_send_data` | publish with three tries, then look for another broker | one publisher at a time, on a connection that exists; the lock is released |
| Broker list and choice | collector/set_mq_host.c, get_srv_info.c | `rmqserverlist`, `rmqserver`, `is_up`, `gl_lock_set_rmq` | resolve, draw a server by weight, go to the next priority, give up and wait a minute | lower priorities first; every server is tried before giving up; a draw ends |
| Connection life | collector/init_rmq.c, set_mq_host.c, signal.c | `rmq_conn`, TTLs | open, replace, close; TTL reload; SIGUSR2 | a connection is closed once, and by nobody while another thread uses it |
| Scheduler | collector/scheduler.c | `sched_time`, `gl_nbr_thread` | one detached thread per due task | every task runs at its period |
| Statistics | collector/write_stats.c | counters, files under the status directory | write a difference, take a new base | no message is counted in two files |
| Host name | collector/get_my_hostname.c | `myhostname` | poll, replace, free, send metadata | the current name is never freed; the broker knows it in the end |
| Processes | collector/new_process.c, write_pid_number.c, exit.c, signal.c, collector.c | pid files, child process | fork, wait, restart; exit; signals | a collector that is gone is replaced; one at a time; the files name the two |
| QR codes | qrcode/ (a copy of libqrencode with a small main) | the input, the bit stream, the symbol | append or cut entries, choose a version, encode, pad, split over symbols; blocks, placement, masks | a reader gets the message back; the version is the least; every bit is laid where a reader looks |
| moontop | top/ | none | read the statistics files, divide, print | - |
| Log | collector/logger.c | `gl_log_file` | log, flush (SIGHUP), close | no write to a closed file |
| Options | collector/get_opt.c, set_filter.c, usage.c | `e->option`, ... | parse the command line | documented defaults and limits |
| Tools | tools/moontools.c, makepasswd/ | none | a generated password, a number from a file | documented alphabet |

The collector is one process with the capture thread (`pcap_loop` calling
`handle_packet`), the scheduler thread, and short detached threads the scheduler
starts every few seconds for metadata, host name, garbage, TTL and statistics
tasks. They share the global `e` and three mutexes:

* `gl_lock_garbage` is held while a slot is cleared, not while it is filled or
  reported;
* `gl_lock_send_data` is held for the tries of one message;
* `gl_lock_set_rmq` is held while a server is chosen and connected to.

Most accesses to `e` hold none of them. A capture that cannot send and a TTL that
runs out both lead to `set_rmq_server_list`, which blocks its thread until a broker
answers. With option `-g` a second process, the launcher, waits for the collector and
starts another when it is gone; the two share nothing but two pid files, and an
administrator sends them signals. The QR library is sequential and apart from all this.

The hard behaviour is therefore interleaving and failure: the capture thread against
garbage passes (HandshakeTable), senders against threads that replace the connection
(BrokerLink), the search for a broker against a DNS and brokers that change
(ServerSelect), the periodic threads against each other (Tasks), launcher against
collector, crashes and signals (Supervisor); and, in the QR library, arithmetic at
the edges of tables and symbols. The hazards of every part, those no property covers
included, are listed with their lines in `PROJECT.json`.

## 2. Modules

| Module | Content |
|---|---|
| HandshakeTable | capture thread and garbage passes over `msg_tab` and `hash_ack` |
| MCHandshakeTable | instances |
| HandshakeTableProofs | its types, and what a slot, an entry and a report are made of, proved |
| HandshakeReportProofs | the times and the handshake of a report, the filter of ACKs, the accounting, proved |
| ServerSelect | one search for a broker: SRV records, weights, priorities, the retry; TTLs that are spent beside it |
| MCServerSelect | DNS answers, what unwritten memory may hold |
| ServerSelectProofs | indices, `rmqserver`, the order of the groups, the shares of weight and giving up, proved |
| BrokerLink | senders and TTL threads, two mutexes, the life of connections |
| BrokerLinkProofs | lock discipline and the current connection, proved |
| Tasks | the scheduler, the host name, metadata messages, the numbers of sent messages |
| MCTasks | periods and numbers of threads |
| TasksProofs | the current name, and no message counted twice, proved |
| Service | abstract: as long as the launcher is there a collector that is gone is replaced, and one is started beside others only after a signal |
| Supervisor | launcher, collectors, pid files, signals, deaths; implements Service |
| SupervisorProofs | types, number of collectors, the files, the safety half of the refinement, proved |
| QRSpec | tables and frames of QR and Micro QR symbols (qrspec.c, mqrspec.c) |
| QRReedSolomon | the field and the encoder of one symbol (rscode.c) |
| QRMask | the masks, the format information, the penalties (mask.c, mmask.c) |
| QRSymbol, MCQRSymbol | blocks, interleaving, placement and masking of a symbol (qrcodeencode.c) |
| QRSymbolProofs | the path of the frame filler, every block a codeword, every bit laid, no step gives up, the symbol returned is readable, proved |
| QRBits | the bits of entries, estimates and padding (bitstream.c, qrinput.c) |
| QRSplit | cutting a string into entries (split.c) |
| QRInput, MCQRInput | from a string or entries to byte streams: version, structured append (qrinput.c) |
| QRInputProofs | strings are cut to their end, streams fill their symbols, the version is the first that holds the input, and the parts of a structured append agree, proved |

HandshakeTable, ServerSelect, BrokerLink, Tasks, Supervisor and QRInput, QRSymbol are the
modules with behaviour; QRSpec, QRReedSolomon, QRMask, QRBits and QRSplit are operators
those two extend. What QRInput hands over, a byte stream for a version and a level, is
what QRSymbol starts from.

Operators whose name ends in `_Something` after the name of an operator (for
example `ConnectFails_Unmarked`) are not the code: each is a mistake somebody could
make in it, and one property has to fail under it.

### HandshakeTable

The capture thread is a program counter (`pc`) over the statements of
`handle_packet` and the three handlers: `Receive`, `FilterAck` (the ACK hash),
`ScanSlot`/`ScanFails` (one step per slot), the writes to the slot in the order
of the code, the report (`ComputeTimes`, `BuildMsg`, `SendReturns`) and the
clearing of the slot under `gl_lock_garbage`. Each garbage pass is a thread with
the steps of `anti_syn_flood_check`: it looks at a slot without the lock
(`GcCheck`), waits for the lock, clears the slot in two steps (`GcClearHalf`,
`GcClearRest`, because a memset may be preempted after any part: constant
`Halves`) and adds to the counter with a load and a store.

The environment delivers SYN, SYN+ACK and ACK segments of a few connections in any
order, each at most as often as an element of `Traffic` says or never, and moves a clock that counts
seconds up to `MaxTime`. How long a send takes is left open. Addresses and sequence
numbers are numbers that are only compared; the hash of a sequence number is the
number modulo `HashSize`.

### ServerSelect

One thread walks through `set_rmq_server_list`: `Resolve`/`ResolveFails`, then
group by group of equal priority (`NextGroup`, `EnterGroup`), a draw from
`tab_weight` (`Draw`), the connection (`ConnectOK`, `ConnectFails`, which clears
`is_up`), or `GiveUp` and the minute of sleep (`Retry`). `gl_lock_set_rmq` makes a
round atomic for the other threads, so one search is enough. The DNS answers one of
`Answers`, or nothing; `BrokerChanges` stops or starts a broker at any time.

Not all of a reload is under that mutex. A thread of `decrease_srv_ttl` finds the TTL
of `rmqserver` spent while it holds it (`SpentTtl`, which needs `Unlocked`), then closes
and nulls `rmq_conn` without it (`TtlClose`), sleeps, and starts a search (`Reload`).
`rmqserver` stays where it was in between, and there may be several such threads
(`TtlThreads`), so `ServerOfConnection` speaks of the server of the connection "or none,
as long as a reload is to come".

`init_tab_weight` leaves entries of the table unwritten when there is a second
priority. `TabWeight` says which record an entry holds, and `Stray` what an
unwritten one may hold; a draw that takes a value outside the list goes to "wild",
where the model stops. For the same reason a record may have no entry at all
(`HasEntry`): one that weighs nothing, and the last ones of a later group, whose entries
start one further for each record of another group. (1,1,a), (2,1,b), written as
priority, weight and target, is such an answer: b has no entry. A server without an entry
that is the only one up keeps the draw going for ever, with `gl_lock_set_rmq`, unless
an unwritten entry happens to hold its index or leads out of the list.

### BrokerLink

Every thread has a program counter. Senders go through `send_to_rmq` (`SendLock`,
`CheckConn`, `Publish`, then `PublishOK`/`PublishFails`, `TryFailed` counting to
`RETRY_NBR`), TTL threads through `decrease_srv_ttl` and
`reload_rmq_server_list_ttl` (`TtlSpent` ... `TtlClear`), and both through
`set_rmq_server_list` and `init_rmq` (`SetLock`, `Resolve`, `Connect`, `SwapRead`,
`SwapWrite`, `CloseOld`, `SetServer`). `rmq_conn` is read and written by single
steps, as in the code, because no mutex covers it. `handle` says of each connection
whether it is open, broken, or memory that was freed; `amqp_new_connection` may
hand out freed memory again. A thread that uses a null or freed connection, or a
null `rmqserver`, goes to "wild".

The choice of a server is one step here (`Connect` or `SelectFails`), which ends.
ServerSelect shows what it does and when it ends: `Reconnects` needs answers whose records
all have an entry of `tab_weight`, and `select_stray` is the case where a draw leaves the
list. So BrokerLink, and `SearchEnds` and `SendLockReleased` in it, speak of lists in
which every server has an entry; with others the draw may spin under the mutex.

### Tasks

`Second` is a turn of `th_scheduler`: it starts one thread for every task that is due.
A check of the host name (`Get`, `Compare`, `Take`, `Swap`, `Free`) replaces
`e->myhostname`, a pointer to a malloc'ed block, and then sends a metadata message
itself; a metadata thread of the table does the same at its own period. `ReadName` is
the evaluation of the pointer, `CopyName` the formatting, which reads anything if the
block was freed in between and another name if it was handed out again. `Send` and
`Drop` are the two ends of `send_to_rmq`. A statistics thread writes the difference of
`nbr_sent_packet` to its base (`WriteStat`) and reads the counter again for the next base
(`SetLast`). Only `Report`, a report of the capture thread, and `Rename` are environment.
The garbage passes and the TTL threads the scheduler also starts are in HandshakeTable
and BrokerLink.

### Supervisor and Service

Each process has a place in its own code. The launcher forks, writes its pid file and
waits; `wait()` returns when a collector is dead (`Wait`) and also when a signal with a
handler interrupts it (`Signal`, `Interrupted`: the handlers are installed without
SA_RESTART), and the code does not tell the two apart. A collector writes its pid file and
runs until it is killed or crashes (`Dies`), a call of `main` fails (`Fails`) or SIGINT
(`Sigint`). `mooner_exit` unlinks first the launcher's file and then the collector's,
whoever calls it, a third process that only prints its usage included.

Service has the number of collectors (`running`), whether the launcher is there
(`guarded`) and the signals it was sent. A collector may be started when the others
running are no more than the signals, so without a signal only when none runs; and one
that is gone is replaced in the end. Supervisor implements it with `running` the number of
collectors that start or run (`Collectors`) and `guarded` a launcher before its exit.

### The QR modules

QRInput starts with a `job`: entries appended by the application or a string to cut, a
version and level, possibly structured append. It takes one step per cut, per entry
encoded, per version tried (`version`, `guess`), per symbol of a structure, whose `parity` is
taken before its entries are dealt out. A stream is
a sequence of bits, then of bytes. Its properties use a reader (`Read`, `Decoded`) written
from the layout of the streams, not from the encoder. QRSymbol takes a byte stream
through the Reed-Solomon encoder, one data symbol at a time, lays the interleaved
codewords bit by bit with `FrameFiller_next`, and tries the masks one after the other.
A symbol is the set of its dark cells.

Field elements are sets of exponents rather than numbers, so that exclusive or is the
symmetric difference; tables of words (formats, versions) are sets of bit positions.

## 3. Runs

| Run | Shows | Bounds |
|---|---|---|
| handshake_race | a SYN takes a free slot; entries and reports are of one client; without collisions the ACK hash drops no handshake | 2 slots, 2 connections, 1 pass, 3 s |
| handshake_one_client | nothing leaves the table uncounted; exact reports while nothing expires; an expired entry is destroyed | 2 slots; one connection with every segment twice, or two of one client |
| handshake_times | finding: a report torn by a pass | as handshake_race |
| select_any | order of the groups, share of weights, `rmqserver` against searches and spent TTLs; a round is given up only when all failed; the collector reconnects | 10 answers with 2 or 3 records, 2 TTL threads, 3 changes |
| select_stray | finding: an unwritten entry of `tab_weight` is used | 2 priorities |
| link_all | locks, liveness of senders and searches, the current connection | 2 senders, 1 TTL thread, 3 connections, 2 tries, 2 changes, 1 reload |
| link_publish | finding: a connection is destroyed under a publish | as link_all |
| tasks_told | the current name is never freed, none leaks, the broker knows it in the end; no message is counted twice | 2 names, 2 buffers, 2 changes, 2 checks, 1 metadata and 1 statistics thread, 1 lost message |
| supervisor_guard | collectors and files; a collector that is gone is replaced, and none is started beside others without a signal (Service) | 3 process numbers, 2 signals, 1 usage |
| qr_input | the message survives; streams, versions and parts are right; what a cut costs | 5867 jobs: strings of up to three runs of 5 classes of characters, longer ones that come back to byte mode once or twice, entries at the limits of versions and length indicators, Micro QR, structured append, and each of the things the code loses |
| qr_symbol | codewords, placement, readability, the mask | 10 shapes of symbols, 2 streams |
| qr_refused | finding: data that fits is refused | 2945 bytes at level L |

**Why the bounds are enough.** Two slots and two connections give every relation of
two entries the code can confuse: same slot reused, same client, same hash entry, a
full table. A garbage pass compares ages with `>`, so with a retention of 1 a clock
of 3 has entries on both sides of the boundary. One pass in flight meets the capture
thread at every statement; two passes only add the lost update of
`stat_tcpflood_dest_entries` (anti_syn_flood.c:39), under which the counters no longer
tell what was destroyed. `Accounted`, `TimesOrderedInTime` and `ReportOwnHandshake`, which
speak of those counters, are checked and proved for one pass; the other proofs about
HandshakeTable cover any number. Three records give two groups of which
one has two servers, or three groups; the answers have records that weigh nothing, have no
port, and have no entry. Two TTL threads are enough for one to close the connection another
has just had replaced. Three connections are the current one, the one just opened
and the one being closed. Two tries tell a last try from another one. Two buffers are all
a single check needs, so a freed name is handed out again at once; the second thread of
a check is still busy with its message when the next one runs. Three process numbers leave
one free beside a dead collector and one left behind by a signal. The jobs of qr_input sit on
both sides of every limit a length indicator, a version and a symbol has at small versions,
and the shapes of qr_symbol have one block, several, and several of two lengths, with
and without version information, with and without the half codeword of Micro QR.

Deadlock is checked except where a thread may be in "wild" for ever (link_all,
select_any), where launcher and collector are both gone, and for the QR library, which
returns.

**What the conditions of properties leave out.** Some hold under a condition that the
code does not guarantee; outside it the model shows the following. If two open
handshakes have the same low 16 bits of the server's sequence number, the ACK of one
clears the hash entry of the other and that handshake is never reported
(`FilterDropsNoHandshake` is checked for `Distinct` hashes). If an entry expires, a report
may be torn (`handshake_times`), and a slot reported and filled again between the check of
its age and the lock loses the new handshake (anti_syn_flood.c:32-34), which `Accounted`
allows because it is counted. A priority group whose weights are all zero, or whose first
record has no port, ends the round (`GivesUpWhenAllFailed` is for answers that are
`Weighed`). A server without an entry of `tab_weight` as the only one up keeps the draw, and
`gl_lock_set_rmq`, for ever: one of weight zero, or one of the last of a later group
(`Reconnects` is for answers that are `Drawable`). With three groups an unwritten entry drawn in
the second may name a server of the third before the second is tried; `LowerGroupsFailed` says
what holds of any number of groups, which for two is the order of priorities.
After a TTL has run out, or a reload, the current connection may be destroyed or lost
(`CurrentNotDestroyed`, `NoConnectionLost`). After a signal to the launcher there may be two
collectors with one pid file, and the exit of one, or a `mooner -u`, removes the files of
processes that go on (`FilesNameProcesses`). `Overestimated` inputs may get a version too
large (`VersionIsLeast`): those with an ECI (its header is counted twice) or an entry of more
than 256 bytes of kanji (its bytes are counted as characters, so that it seems to need
another header), and those whose estimate with
the length indicators of a lower range of versions is more than the whole range holds (the
estimate goes up from version 0 and skips to the next range). Five things are lost on
the way to a reader (`Lost`; `MessageSurvives` is for what else an application may say, and
qr_input has jobs with each of them, without which the condition could be weaker): FNC1 in a
structured append, because `QRinput_dup` does not copy it (qrinput.c:325-349); an ECI from
16384 on (qrinput.c:842); an ECI in Micro QR, which has no mode for it, is not
refused by the check, and is encoded with the four bits of the other symbols; kanji in Micro QR version 2,
where their length indicator has no bits (mqrspec.c:95-100); and a pair of bytes whose second
is below 64, which is no character of Shift-JIS but passes the check (qrinput.c:654-655) and is
encoded as another one. An empty input with FNC1 in second position leads to a null pointer
(qrinput.c:1336): there the model goes to "wild" and stops.

**Fairness.** The threads run (weak fairness of their steps), because they are kernel
threads that wait for nothing but the mutexes, the network with its timeouts, and
sleeps; and time passes up to the horizon. No fairness is given to the capture thread
outside its critical section in HandshakeTable (it may wait for a broker for ever), to
starting a send or a reload, or to the environment. The DNS is strongly fair: if it is
asked again and again it answers in the end. In ServerSelect each record with an entry
of its own is drawn in the end (`rand`), while nothing is assumed of an unwritten entry, and
a thread that has found a TTL spent goes on to its close and its reload; no TTL has to run out.
In Tasks the scheduler and every thread it has started run, and the broker takes all
metadata messages but one: nothing is assumed of what a freed block reads as. In
Supervisor the launcher and processes that exit run; collectors need not, and no
signal or death has to come. The handler of SIGUSR2 returns because a search for a
broker ends (`SearchEnds`).

**Findings.** Where code and documentation, or code and its own intent, disagree, a
run exhibits the trace; `PROJECT.json` quotes the lines. Not given runs of their own,
but seen while modelling:

* `-t` sets the period of the passes and not the age of what they remove
  (man/mooner.1:107-114; anti_syn_flood.c:32 compares with the constant
  `GARBAGE_RETENTION_TIME`).
* `nbr_synack_send_s`, which write_stats.c:45 writes, is never incremented.
* An ECI from 16384 on gets the prefix 0x0c0000 instead of 0xc00000 (qrinput.c:842): a reader
  takes its first byte as the whole number and the rest as data, though qrencode.h:207 and
  `QRinput_appendECIheader` take every number up to 999999.
* FNC1 in first position is refused whenever the input is checked (qrinput.c:864); in a
  structured append FNC1 is lost without an error (qrinput.c:325-349).
* Kanji pass the check with a second byte that no kanji has (qrinput.c:654-655), and neither
  kanji in Micro QR version 2 nor an ECI in Micro QR is refused.
* An empty input with FNC1 in second position is a null pointer read (qrinput.c:1336).
* `-a` falls through into `-k` (get_opt.c:75-83).
* An entry of 1990 alphanumeric characters at level L gets version 27 although version 26
  holds it to the bit, and so does one of 3283 digits; qrencode.h:410-411 says that the
  library chooses the minimum version. It came up in the proof of `VersionsLeast`, which
  needs the third part of `Overestimated` for it.

## 4. Proofs

The theorems hold for every value of the constants under the assumptions named in
the modules (sizes positive, sequence numbers not 0, an answer of the DNS not empty
and sorted by priority, thread names distinct from "nobody", the calls of the QR library
with the types of their arguments). What a theorem needs beyond them is in its statement.

* **HandshakeTableProofs.** `TypeCorrect` bounds every index by the table.
  `SynSlotFree`: the slot `set_syn_packet` found stays free until it is written,
  though nothing is locked, because only the capture thread fills slots and a pass
  only clears. `EntriesOfOneClient` and `ReportsOfClient`: an entry or a report never
  mixes two clients. They are not inductive alone: a pass that is preempted in the
  middle of a slot must be known to only ever write zeros (`Erase`), and a report
  between `ComputeTimes` and `SendReturns` must be known to come from the slot of the
  segment being handled, or from zeros.
* **HandshakeReportProofs.** `ReportsUpToFirstExpiry`: as long as no entry has grown old,
  the times of a report are those of its three segments, in order, for any number of
  passes. In the invariant (`Ordered`) a slot with a number from the server has both
  times, in their order, and the numbers of one connection (`Entry`); nothing in the table
  is later than the segment being handled (`NotLater`); and the slot of the handler at work
  holds what its segment was matched by and what the handler has written (`Handled`).
  "No entry has grown old" (`NoneExpired`) is said with the counters of the passes. With one pass in flight (`OnePass`) they are exact
  (`CountsExact`), so that the condition, once false, remains false, and `ReportsInTime`
  follows for single states; two passes can lose an update of the counter and leave it at
  0. `OwnHandshake` follows for clients that are not given one sequence number by two
  servers (`ServerIsnsDiffer`): the code compares the client and the server's number.
  `FilterLossless` needs that no two connections share an entry of `hash_ack`
  (`NoCollision`) or the numbers of a SYN (`SynsDiffer`), and that no SYN comes twice
  (`SynsOnce`): a SYN filed twice has two slots and one entry of `hash_ack`, which the
  first report clears. Its invariant (`Filter`) says that a SYN is to come, being filed
  or past, that one slot at most holds anything of a connection, and that the entry of
  `hash_ack` is set for each SYN+ACK in the table but the one being reported. Passes
  only take from the table (`Shrinks`), so they do not disturb it.
  `NoneUncounted` is an inequality of counters and the cardinality of the slots in use;
  its invariant (`Balance`) corrects it by what is under way: a SYN written and not yet
  counted (`Pending`), a handshake counted and not yet cleared (`Reported`), an entry
  cleared and not yet counted (`Doomed`).
* **ServerSelectProofs.** The inductive invariant adds `Progress`: in a round, no server
  of an earlier group is up, and the drawn server is. `NextGroupProgress` is its
  core: the record list being sorted, everything before the next group has the
  priority of the group just failed or a lower one. `PriorityOrder`, that the groups the
  round has left have failed, `ServerPointer` and `IndicesInList` follow. In the first group
  `PriorityOrder` needs that its table has no unwritten entry (`FirstTry`), so that only servers
  of the group are tried; for two groups it is the full order of priorities. `ServerPointer`
  allows that there is no connection while a search is about to begin or a TTL thread is
  between its close and its reload. `FirstGroupShare` is about `tab_weight` itself: the sums of
  weights are a recursive function, shown to exist and to rise by a least-element
  argument (`SumsExist`, `SumsRise`); the first group is a prefix of the sorted list, so
  the entries of a record are those between two sums. (It is false of later groups, whose
  table has entries nobody wrote.) `GivesUpInTheEnd` adds `Exhausted`: where a search
  ended in vain every server of the answer is down, until the next answer. It is for
  `Weighed` answers, because a group without weight or port ends the round untried.
* **TasksProofs.** `HostNameKept`: the invariant says what a check has in hand at each
  place (`InHand`) and that there is one check at a time, which holds because the
  scheduler starts a check when none is before its message, the one assumption about
  time in Tasks. Then every allocated block is the current name or in that hand.
  `MessagesCountedOnce`: outside its two readings of the counter a task has reported no
  more than its base, and the counter only grows.
* **SupervisorProofs.** `CollectorsCounted` needs that at "fork" and in a handler the
  collectors are already no more than the signals (`Count`). `FilesNamed` needs what each
  place of launcher and collector means for the files as long as there was no signal
  (`Left`). `Implements` is the safety half of the refinement: initial states map to
  initial states of Service, and every step to a step or a stutter. A fork is a `Start` of
  Service by `Count`: the launcher comes to "fork" only with no more collectors than
  signals; deaths and exits are `Stop`, and what leaves the set of collectors alone is a stutter.
* **BrokerLinkProofs.** The inductive invariant ties each mutex to the places where a
  thread holds it (`Holders`), and says what the swap of `init_rmq` relies on until a
  TTL runs out (`Swap`): what a thread read from `rmq_conn` is still there when it
  writes, because only holders of `gl_lock_set_rmq` write it. `NoLockHeldWaiting`
  gives freedom from deadlock between the mutexes; `CurrentExists` and
  `AllConnectionsKnown` are the guarantee a TTL reload breaks, which closes
  `rmq_conn` outside the mutex.
* **QRSymbolProofs.** `ReadingOrder`: the filler of `FrameFiller_next` lays the bits in the
  order a reader takes them and no cell twice, for every version, QR and Micro QR, and
  whatever the function cells are. The invariant (`Path`) says which pair of columns the
  filler is in, which of the two, and that it goes up in the even pairs and down in the odd
  ones, the vertical timing column being left out; each turn then raises the rank of the
  cell (`ReadingRank`).

  `BlocksEncoded`: every block is a word of the code, whatever the data and the table of
  blocks. A word is judged by Horner's rule at each root; the generator has the roots taken
  so far, and a turn of `encode_rs_char`, in either branch, adds a multiple of the generator
  to the data fed and the parity, so that what is there stays a word (`Encoding`,
  `EveryBlockDone`). The field is used through `PrimitiveAssumption` (the powers of the root
  are all its elements but 0) and `GeneratorAssumption` (no coefficient is zero, which
  `encode_rs_char` relies on when it takes logarithms); TLC evaluates both for the field of
  the code and every number of error correction words in its tables.

  `BitsAllLaid` and `AlwaysMade` start from `FramesAssumption`, that the frame of each
  version has as many free cells as its capacity table has bits, all within the path: TLC
  evaluates it for all versions of both kinds when qr_symbol is run, not only those of its
  shapes. By `Laying`, as many different cells hold as many different bits as have been
  laid, and every free cell the filler has passed is taken; hence when the count is
  reached no cell is free and no bit is missing (`Full`), and before that the filler cannot
  leave the frame. A mask is always chosen because two masks of Micro QR differ in a cell
  of the side that is scored, and one of them scores (`Trying`). `AlwaysMade` needs symbols of eight bits, as in
  the code, because 255 symbols are the longest block.

  `SymbolReadable`: what a reader looks for is there. A frame is a pile of layers, the
  upper ones drawn over the lower (`LayersAre`); finders, version information and timing
  cells are on cells no later layer changes, and where alignment patterns meet the timing
  patterns the two agree (`FindersShow`, `TimingShows`, `VersionShows`). Each bit of the
  format word has its cell in each copy, and the copies cover the area the masks leave out
  (`FormatIs`). The invariant (`Chosen`) says that the symbol kept is the bits laid, under
  one of the masks, with its format.
* **QRInputProofs.** `StringCutToTheEnd`: whatever bytes a string has, each cut takes at
  least one of them and the entry it makes is accepted, so the string is used up.
  The recursion of the eaters over a string is shown to have a solution
  (`UpwardsExists`, by descent from the end, `FromTheEnd`), and each of the four eaters
  takes a run that is not empty and is of its mode (`EatNumTakes`, `EatAnTakes`,
  `Eat8Takes`, `EatKanjiTakes`). The point is `Split_eatAn`, which compares costs at each
  digit and could stop at once: digits in front of a letter never look cheaper alone.
  The invariant is `Cutting`.
  `StreamsFill`: each stream that leaves QRinput has as many bytes as the symbol of its
  version and level has data codewords, after any route (entries cut in two, dealt to
  symbols, encoded again for a larger version). The invariant (`Streams`) types the lists
  of entries at each place and says that a version 0 has been replaced before padding
  (`MinimumVersionIs`); `PaddingFills` and `MPaddingFills` are the arithmetic of the
  padding, the half byte of Micro QR versions 1 and 3 included.

  `VersionsLeast`: the version is the first from the one asked for that holds the input.
  The length of what `QRinput_encodeBitStream` makes, pieces and all, is the number of bits
  `Needed` says (`BitStreamLength`, by descent over the pieces), and the estimate is that
  number for the versions of one range of length indicators (`EstimateExact`). The
  invariant (`Choosing`) says that a guess never passes the range of a version that holds
  the input (`GuessOk`, kept by `GuessStep`), that while entries are encoded no version
  below the present one holds the input (`NoneBelow`), and that the stream is as long as
  the entries need (`Encoded`), so raising the version (`RaiseStep`) passes none over.

  `PartsTold`: the symbols of a structured append agree. The invariant (`Parts`) follows a
  message through all places. While a string is cut, the bits set in the entries and in the
  rest come to those of the text (`Counted`, `OnesCut`), so the parity taken of the entries
  is that of the text however it was cut (`ParityOfCuts`). While entries are dealt out, each
  input has room for its header (`Dealing`; `CodeFits` for the entry that is cut in two,
  `FitsExactly` for those that fit whole). While an input is encoded its stream begins with
  the header (`Leading`), also after the version was raised; padding and the bytes of
  `BitStream_toByte` keep the twenty bits readable (`StreamTells`). That the version is the
  one asked for then follows from `VersionsLeast`, as that version holds every input.

Only model-checked, and why:

* liveness (`ExpiredIsDestroyed`, `Reconnects`, `SendLockReleased`, `SearchEnds`,
  `NameTold` and the fairness of Service in `Replaced`): TLAPS does not prove it under
  fairness;
* `MessageSurvives` and `CutPays`: they say what functions recursive over the data compute,
  or compare the costs of all cuts of a string. `CutPays` allows one header of 8-bit data for
  every place where `Split_eat8` leaves byte mode for digits that a letter follows: it counts
  a way back only when the byte behind the digits is not of a class of its own, so that
  0xFF 1234 A 0xFF takes 12 bits more than one entry of bytes would;
* `BestMask`: run lengths and sums over the cells of a symbol.

Functions that recur through a choice are written with IF and not with CASE: tlapm does not
expand a recursive function inside a CASE as it is meant.

## 5. Not modelled

Packet parsing and printing, the text of messages and logs, libpcap, librabbitmq and
ldns (their results are choices), memory that leaks, `usage`. Options are values of
constants. moontop and the password tools keep no state and meet no second actor; the
log is a FILE whose race with an exit is listed as a hazard; src/qrcode/qrencode.c and
main.c write a symbol that is already made; src/tools/rmq_utils.c is vendored.

Within the modelled parts: option `-r` (no DNS, and no mutex around `init_rmq`), the
handler of SIGUSR2 inside a thread of the collector, logins that fail after the socket
opened, microseconds (times are seconds), the counters of segments and their resets in
write_stats.c:42-54, checks of the host name that overlap before their message,
a `pthread_create` that fails, the memory `mooner_exit` frees while other threads run on;
in the QR library allocation failures, the frame and Reed-Solomon caches with their
mutexes, and the entry points for a fixed mask.

## 6. Plan

What would come next, most useful first:

1. **BrokerLink**: option `-r`, and SIGUSR2 as a handler that runs `set_rmq_server_list`
   in any thread, with the self-deadlock on `gl_lock_set_rmq` as a question; its choice
   of a server (`Connect`, `SelectFails`) shown to implement ServerSelect's.
2. **Statistics**: the counters of segments against their resets.
3. **Proofs**: `MessageSurvives` for one entry of each mode, by descent over its pieces as
   in `BitStreamLength`, on the way to the whole property.
