----------------------------- MODULE Supervisor -----------------------------
(***************************************************************************)
(* The two processes of mooner -g (collector/new_process.c, collector.c,   *)
(* exit.c, write_pid_number.c, signal.c): a launcher that forks the        *)
(* collector and forks another each time wait() returns, and the files     *)
(* that name them, by which an administrator stops or signals them.        *)
(*                                                                         *)
(* The handlers are installed before the fork, so both processes have      *)
(* them.  They are installed without SA_RESTART: a signal makes wait()     *)
(* return although no collector has ended.                                 *)
(***************************************************************************)
EXTENDS Integers, FiniteSets

CONSTANTS
  Pids,        \* process numbers collectors get
  Launcher,
  Other,       \* one more mooner, started with -u or with a wrong option
  None,        \* content of a file that does not exist
  MaxSignals,  \* bound: signals that interrupt wait()
  MaxUsages    \* bound: starts of Other

ASSUME SupervisorAssumption ==
  /\ IsFiniteSet(Pids) /\ Launcher \notin Pids /\ Other \notin Pids /\ Launcher # Other
  /\ None \notin Pids \cup {Launcher, Other}
  /\ MaxSignals \in Nat /\ MaxUsages \in Nat

Processes == Pids \cup {Launcher, Other}

VARIABLES
  at,              \* where each process is; "none": there is no such process
  pid, capcanaveral_pid,  \* content of the two files
  signals, usages

files  == <<pid, capcanaveral_pid>>
bounds == <<signals, usages>>
vars   == <<at, files, bounds>>

Goto(p, l) == at' = [at EXCEPT ![p] = l]

Init ==
  /\ at = [p \in Processes |-> IF p = Launcher THEN "fork" ELSE "none"]
  /\ pid = None /\ capcanaveral_pid = None
  /\ signals = 0 /\ usages = 0

Guarded == at[Launcher] \in {"fork", "write", "wait", "handler"}

\* A collector without launcher is a child of init, which reaps it.
End(p) ==
  at' = [q \in Processes |->
           IF p = Launcher
             THEN IF q = Launcher \/ at[q] = "zombie" THEN "none" ELSE at[q]
           ELSE IF q # p THEN at[q]
           ELSE IF p = Other \/ at[Launcher] = "none" THEN "none" ELSE "zombie"]

-----------------------------------------------------------------------------
(* mooner_exit, in any process.                                            *)

UnlinkLauncher(p) ==
  /\ at[p] = "exit"
  /\ capcanaveral_pid' = None
  /\ Goto(p, "unlink")
  /\ UNCHANGED <<pid, bounds>>

Unlink(p) ==
  /\ at[p] = "unlink"
  /\ pid' = None
  /\ End(p)
  /\ UNCHANGED <<capcanaveral_pid, bounds>>

-----------------------------------------------------------------------------
(* new_process, in the launcher.                                           *)

\* Mistake: nothing is forked while a file says that a collector is there.
Fork_UnlessFile ==
  /\ at[Launcher] = "fork" /\ pid = None
  /\ \E p \in Pids :
       /\ at[p] = "none"
       /\ at' = [at EXCEPT ![p] = "start", ![Launcher] = "write"]
  /\ UNCHANGED <<files, bounds>>

Fork ==
  /\ at[Launcher] = "fork"
  /\ \E p \in Pids :
       /\ at[p] = "none"
       /\ at' = [at EXCEPT ![p] = "start", ![Launcher] = "write"]
  /\ UNCHANGED <<files, bounds>>

ForkFails == at[Launcher] = "fork" /\ Goto(Launcher, "exit") /\ UNCHANGED <<files, bounds>>

\* Mistake: the file is left alone once a collector has written its own.
WriteLauncher_Late ==
  /\ at[Launcher] = "write"
  /\ capcanaveral_pid' = (IF pid = None THEN Launcher ELSE capcanaveral_pid)
  /\ Goto(Launcher, "wait")
  /\ UNCHANGED <<pid, bounds>>

WriteLauncher ==
  /\ at[Launcher] = "write"
  /\ capcanaveral_pid' = Launcher
  /\ Goto(Launcher, "wait")
  /\ UNCHANGED <<pid, bounds>>

\* exit(1): neither file is unlinked.
WriteLauncherFails ==
  /\ at[Launcher] = "write" /\ End(Launcher) /\ UNCHANGED <<files, bounds>>

\* Mistake: waitpid does not hang.
Wait_NoHang(p) ==
  /\ at[Launcher] = "wait" /\ at[p] # "none"
  /\ at' = [at EXCEPT ![p] = IF @ = "zombie" THEN "none" ELSE @, ![Launcher] = "fork"]
  /\ UNCHANGED <<files, bounds>>

Wait(p) ==
  /\ at[Launcher] = "wait" /\ at[p] = "zombie"
  /\ at' = [at EXCEPT ![p] = "none", ![Launcher] = "fork"]
  /\ UNCHANGED <<files, bounds>>

\* SIGUSR2 (set_rmq_server_list) or SIGHUP (flush_log_file).  Elsewhere the
\* handler returns to where the launcher was.
Signal ==
  /\ at[Launcher] = "wait" /\ signals < MaxSignals
  /\ signals' = signals + 1
  /\ Goto(Launcher, "handler")
  /\ UNCHANGED <<files, usages>>

\* wait() returns -1, and the loop goes on.
Interrupted ==
  /\ at[Launcher] = "handler" /\ Goto(Launcher, "fork") /\ UNCHANGED <<files, bounds>>

-----------------------------------------------------------------------------
(* The collector.                                                          *)

\* Mistake: getpid is called before the fork.
WritePid_BeforeFork(p) ==
  /\ at[p] = "start"
  /\ pid' = Launcher
  /\ Goto(p, "run")
  /\ UNCHANGED <<capcanaveral_pid, bounds>>

WritePid(p) ==
  /\ at[p] = "start"
  /\ pid' = p
  /\ Goto(p, "run")
  /\ UNCHANGED <<capcanaveral_pid, bounds>>

\* write_pid_number cannot open the file, or the process is killed or crashes.
Dies(p) == at[p] \in {"start", "run"} /\ End(p) /\ UNCHANGED <<files, bounds>>

\* A call of main() fails after the file is written.
Fails(p) == at[p] = "run" /\ Goto(p, "exit") /\ UNCHANGED <<files, bounds>>

\* SIGINT, to the launcher or to a collector.
Sigint(p) ==
  /\ at[p] \in {"fork", "write", "wait", "handler", "start", "run"}
  /\ Goto(p, "exit")
  /\ UNCHANGED <<files, bounds>>

\* get_opt calls mooner_exit before anything is started.
Usage ==
  /\ at[Other] = "none" /\ usages < MaxUsages
  /\ usages' = usages + 1
  /\ Goto(Other, "exit")
  /\ UNCHANGED <<files, signals>>

-----------------------------------------------------------------------------

Exit(p) == UnlinkLauncher(p) \/ Unlink(p)

Launch == \/ Fork \/ WriteLauncher \/ Interrupted
          \/ \E p \in Pids : Wait(p)

Collect(p) == WritePid(p) \/ Dies(p) \/ Fails(p)

Next ==
  \/ \E p \in Processes : Exit(p)
  \/ Launch \/ ForkFails \/ WriteLauncherFails \/ Signal \/ Usage
  \/ \E p \in Pids : Collect(p)
  \/ \E p \in Pids \cup {Launcher} : Sigint(p)

Spec == Init /\ [][Next]_vars

\* Processes run, and a broker answers in the end the handler of SIGUSR2.
FairSpec == Spec /\ WF_vars(Launch) /\ \A p \in Processes : WF_vars(Exit(p))

-----------------------------------------------------------------------------
(* Properties.                                                             *)

LauncherAt  == {"fork", "write", "wait", "handler", "exit", "unlink", "none"}
CollectorAt == {"start", "run", "exit", "unlink", "zombie", "none"}

\* Every process is somewhere in its own code, and a file that exists names the
\* process that writes it.
TypeOK ==
  /\ at \in [Processes -> LauncherAt \cup CollectorAt]
  /\ at[Launcher] \in LauncherAt /\ at[Other] \in {"exit", "unlink", "none"}
  /\ \A p \in Pids : at[p] \in CollectorAt
  /\ pid \in Pids \cup {None} /\ capcanaveral_pid \in {Launcher, None}
  /\ signals \in 0 .. MaxSignals /\ usages \in 0 .. MaxUsages

Children == {p \in Pids : at[p] # "none"}

\* Each signal that reaches the launcher in wait() leaves one more collector
\* behind, and nothing else does: new_process.c:71-89 forks once per return of
\* wait().  Without a signal there is one collector at most.
OnePerSignal == Cardinality(Children) <= 1 + signals

\* While the launcher waits for the only collector there is, the files name the
\* two: a collector that goes away through mooner_exit takes the file of the
\* launcher with it (exit.c:27), and the launcher writes it again before it waits.
FilesNameProcesses ==
  signals = 0 /\ usages = 0 /\ at[Launcher] = "wait" =>
    \A p \in Pids : at[p] = "run" => pid = p /\ capcanaveral_pid = Launcher

Collectors == {p \in Pids : at[p] \in {"start", "run"}}

\* A collector that is gone is replaced, until the launcher itself ends, and a
\* collector is started beside others only if a signal came for each of them.
Guard == INSTANCE Service WITH running <- Cardinality(Collectors), guarded <- Guarded

Replaced == Guard!Spec
=============================================================================
