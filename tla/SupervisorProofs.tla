-------------------------- MODULE SupervisorProofs --------------------------
(***************************************************************************)
(* How many collectors there can be, what the two files name, and that the *)
(* launcher is a Service, for any number of process numbers, of signals    *)
(* and of calls for the usage.                                             *)
(***************************************************************************)
EXTENDS Supervisor, FiniteSetTheorems, TLAPS

LEMMA InitType == Init => TypeOK
BY SupervisorAssumption
   DEF Init, TypeOK, Processes, LauncherAt, CollectorAt

LEMMA NextType == TypeOK /\ [Next]_vars => TypeOK'
<1> SUFFICES ASSUME TypeOK, [Next]_vars PROVE TypeOK'
  OBVIOUS
<1> USE SupervisorAssumption DEF TypeOK, Processes, LauncherAt, CollectorAt, files, bounds
<1>1. ASSUME NEW p \in Processes, Exit(p) PROVE TypeOK'
  <2>1. CASE UnlinkLauncher(p)
    BY <2>1 DEF UnlinkLauncher, Goto
  <2>2. CASE Unlink(p)
    BY <2>2 DEF Unlink, End
  <2>3. QED
    BY <1>1, <2>1, <2>2 DEF Exit
<1>2. ASSUME Launch PROVE TypeOK'
  <2>1. CASE Fork
    BY <2>1 DEF Fork
  <2>2. CASE WriteLauncher
    BY <2>2 DEF WriteLauncher, Goto
  <2>3. CASE Interrupted
    BY <2>3 DEF Interrupted, Goto
  <2>4. CASE \E p \in Pids : Wait(p)
    BY <2>4 DEF Wait
  <2>5. QED
    BY <1>2, <2>1, <2>2, <2>3, <2>4 DEF Launch
<1>3. CASE ForkFails
  BY <1>3 DEF ForkFails, Goto
<1>4. CASE WriteLauncherFails
  BY <1>4 DEF WriteLauncherFails, End
<1>5. CASE Signal
  BY <1>5 DEF Signal, Goto
<1>6. CASE Usage
  BY <1>6 DEF Usage, Goto
<1>7. ASSUME NEW p \in Pids, Collect(p) PROVE TypeOK'
  <2>1. CASE WritePid(p)
    BY <2>1 DEF WritePid, Goto
  <2>2. CASE Dies(p)
    BY <2>2 DEF Dies, End
  <2>3. CASE Fails(p)
    BY <2>3 DEF Fails, Goto
  <2>4. QED
    BY <1>7, <2>1, <2>2, <2>3 DEF Collect
<1>8. ASSUME NEW p \in Pids \cup {Launcher}, Sigint(p) PROVE TypeOK'
  BY <1>8 DEF Sigint, Goto
<1>9. CASE UNCHANGED vars
  BY <1>9 DEF vars
<1>10. QED
  BY <1>1, <1>2, <1>3, <1>4, <1>5, <1>6, <1>7, <1>8, <1>9 DEF Next

\* Processes are always where their own code can be, and the files hold what
\* their writers put there (write_pid_number.c, exit.c).
THEOREM TypeCorrect == Spec => []TypeOK
<1>1. Init => TypeOK
  BY InitType
<1>2. TypeOK /\ [Next]_vars => TypeOK'
  BY NextType
<1>3. QED
  BY <1>1, <1>2, PTL DEF Spec

-----------------------------------------------------------------------------
(* One collector more for each signal.                                     *)

\* At "fork" the collector of the last wait() is gone, or has been counted as
\* the one a signal leaves behind.
Count ==
  /\ OnePerSignal
  /\ at[Launcher] \in {"fork", "handler"} => Cardinality(Children) <= signals

LEMMA ChildrenFinite == IsFiniteSet(Children) /\ Cardinality(Children) \in Nat
<1>1. IsFiniteSet(Children)
  BY SupervisorAssumption, FS_Subset DEF Children
<1>2. QED
  BY <1>1, FS_CardinalityType

\* A process that ends leaves the others alone, and none appears.
LEMMA EndChildren ==
  ASSUME TypeOK, NEW p \in Processes, at[p] # "none", End(p)
  PROVE  Children' \subseteq Children
BY SupervisorAssumption DEF Children, End, TypeOK, Processes

LEMMA Fewer ==
  ASSUME Children' \subseteq Children PROVE Cardinality(Children') <= Cardinality(Children)
BY ChildrenFinite, FS_Subset

LEMMA InitCount == Init => Count
<1> SUFFICES ASSUME Init PROVE Count
  OBVIOUS
<1>1. Children = {}
  BY SupervisorAssumption DEF Children, Init, Processes
<1>2. Cardinality(Children) = 0
  BY <1>1, FS_EmptySet
<1>3. QED
  BY <1>2, SupervisorAssumption DEF Init, Count, OnePerSignal, Processes

LEMMA NextCount == TypeOK /\ Count /\ [Next]_vars => Count'
<1> SUFFICES ASSUME TypeOK, Count, [Next]_vars PROVE Count'
  OBVIOUS
<1> USE SupervisorAssumption DEF Count, OnePerSignal, files, bounds
<1> signals \in Nat
  BY DEF TypeOK
<1>a. Cardinality(Children) \in Nat
  BY ChildrenFinite
\* Most steps add no collector, send no signal and leave the launcher out of "fork".
<1>b. ASSUME Children' \subseteq Children, UNCHANGED signals,
             at'[Launcher] \in {"fork", "handler"} => at[Launcher] \in {"fork", "handler"}
      PROVE  Count'
  <2>1. Cardinality(Children') <= Cardinality(Children) /\ Cardinality(Children') \in Nat
    <3>1. IsFiniteSet(Children') /\ Cardinality(Children') \in Nat
      BY <1>b, ChildrenFinite, FS_Subset, FS_CardinalityType
    <3>2. QED
      BY <1>b, <3>1, Fewer
  <2>2. QED
    BY <1>a, <1>b, <2>1
<1>1. ASSUME NEW p \in Processes, Exit(p) PROVE Count'
  <2>1. CASE UnlinkLauncher(p)
    BY <1>b, <2>1 DEF UnlinkLauncher, Goto, Children, TypeOK, Processes
  <2>2. CASE Unlink(p)
    <3>1. Children' \subseteq Children
      BY <2>2, EndChildren DEF Unlink
    <3>2. QED
      BY <1>b, <2>2, <3>1 DEF Unlink, End, TypeOK, Processes
  <2>3. QED
    BY <1>1, <2>1, <2>2 DEF Exit
<1>2. CASE Fork
  <2>1. PICK p \in Pids : /\ at[p] = "none"
                          /\ at' = [at EXCEPT ![p] = "start", ![Launcher] = "write"]
    BY <1>2 DEF Fork
  <2>2. Children' = Children \cup {p} /\ p \notin Children
    BY <2>1 DEF Children, TypeOK, Processes
  <2>3. Cardinality(Children') = Cardinality(Children) + 1
    BY <2>2, ChildrenFinite, FS_AddElement
  <2>4. at[Launcher] = "fork" /\ at'[Launcher] = "write" /\ UNCHANGED signals
    BY <1>2, <2>1 DEF Fork, TypeOK, Processes
  <2>5. QED
    BY <1>a, <2>3, <2>4
<1>3. CASE WriteLauncher
  BY <1>b, <1>3 DEF WriteLauncher, Goto, Children, TypeOK, Processes
<1>4. CASE Interrupted
  BY <1>b, <1>4 DEF Interrupted, Goto, Children, TypeOK, Processes
<1>5. ASSUME NEW p \in Pids, Wait(p) PROVE Count'
  <2>1. Children' = Children \ {p} /\ p \in Children
    BY <1>5 DEF Wait, Children, TypeOK, Processes
  <2>2. Cardinality(Children') = Cardinality(Children) - 1
    BY <2>1, ChildrenFinite, FS_RemoveElement
  <2>3. UNCHANGED signals
    BY <1>5 DEF Wait
  <2>4. QED
    BY <1>a, <2>2, <2>3
<1>6. CASE ForkFails
  BY <1>b, <1>6 DEF ForkFails, Goto, Children, TypeOK, Processes
<1>7. CASE WriteLauncherFails
  <2>1. Children' \subseteq Children
    BY <1>7, EndChildren DEF WriteLauncherFails, Processes
  <2>2. QED
    BY <1>b, <1>7, <2>1 DEF WriteLauncherFails, End, TypeOK, Processes
<1>8. CASE Signal
  <2>1. Children' = Children /\ signals' = signals + 1
    BY <1>8 DEF Signal, Goto, Children, TypeOK, Processes
  <2>2. QED
    BY <1>a, <2>1
<1>9. CASE Usage
  BY <1>b, <1>9 DEF Usage, Goto, Children, TypeOK, Processes
<1>10. ASSUME NEW p \in Pids, Collect(p) PROVE Count'
  <2>1. CASE WritePid(p)
    BY <1>b, <2>1 DEF WritePid, Goto, Children, TypeOK, Processes
  <2>2. CASE Dies(p)
    <3>1. Children' \subseteq Children
      BY <2>2, EndChildren DEF Dies, Processes
    <3>2. QED
      BY <1>b, <2>2, <3>1 DEF Dies, End, TypeOK, Processes
  <2>3. CASE Fails(p)
    BY <1>b, <2>3 DEF Fails, Goto, Children, TypeOK, Processes
  <2>4. QED
    BY <1>10, <2>1, <2>2, <2>3 DEF Collect
<1>11. ASSUME NEW p \in Pids \cup {Launcher}, Sigint(p) PROVE Count'
  BY <1>b, <1>11 DEF Sigint, Goto, Children, TypeOK, Processes
<1>12. CASE UNCHANGED vars
  BY <1>b, <1>12 DEF vars, Children
<1>13. QED
  BY <1>1, <1>2, <1>3, <1>4, <1>5, <1>6, <1>7, <1>8, <1>9, <1>10, <1>11, <1>12 DEF Next, Launch

\* A signal that reaches the launcher in wait() costs one collector more, which
\* stays; nothing else does (new_process.c:71-89).
THEOREM CollectorsCounted == Spec => []OnePerSignal
<1>1. Init => TypeOK /\ Count
  BY InitType, InitCount
<1>2. TypeOK /\ Count /\ [Next]_vars => (TypeOK /\ Count)'
  BY NextType, NextCount
<1>3. TypeOK /\ Count => OnePerSignal
  BY DEF Count
<1>4. QED
  BY <1>1, <1>2, <1>3, PTL DEF Spec

-----------------------------------------------------------------------------
(* What the files name while the launcher is left alone.                   *)

Undisturbed == signals = 0 /\ usages = 0

\* Only one process at a time writes or removes the files of the collector.
Alone ==
  /\ at[Other] = "none"
  /\ \A p, q \in Children : p = q
  /\ at[Launcher] = "fork" => Children = {}
  /\ at[Launcher] # "handler"

Named ==
  at[Launcher] \in {"write", "wait"} =>
    \A p \in Pids :
      /\ at[p] = "run" => pid = p
      /\ at[Launcher] = "wait" /\ at[p] \in {"start", "run", "exit"}
           => capcanaveral_pid = Launcher

Left == Undisturbed => Alone /\ Named

LEMMA InitLeft == Init => Left
BY SupervisorAssumption DEF Init, Left, Alone, Named, Children, Processes

LEMMA NextLeft == TypeOK /\ Left /\ [Next]_vars => Left'
<1> SUFFICES ASSUME TypeOK, Left, [Next]_vars, Undisturbed' PROVE (Alone /\ Named)'
  BY DEF Left
<1> USE SupervisorAssumption DEF TypeOK, Processes, Children, files, bounds, Alone, Named
<1>1. ASSUME NEW p \in Processes, Exit(p) PROVE (Alone /\ Named)'
  <2>1. CASE UnlinkLauncher(p)
    BY <2>1 DEF UnlinkLauncher, Goto, Left, Undisturbed
  <2>2. CASE Unlink(p)
    BY <2>2 DEF Unlink, End, Left, Undisturbed
  <2>3. QED
    BY <1>1, <2>1, <2>2 DEF Exit
<1>2. CASE Fork
  BY <1>2 DEF Fork, Left, Undisturbed
<1>3. CASE WriteLauncher
  BY <1>3 DEF WriteLauncher, Goto, Left, Undisturbed
<1>4. CASE Interrupted
  BY <1>4 DEF Interrupted, Goto, Left, Undisturbed
<1>5. ASSUME NEW p \in Pids, Wait(p) PROVE (Alone /\ Named)'
  BY <1>5 DEF Wait, Left, Undisturbed
<1>6. CASE ForkFails
  BY <1>6 DEF ForkFails, Goto, Left, Undisturbed
<1>7. CASE WriteLauncherFails
  BY <1>7 DEF WriteLauncherFails, End, Left, Undisturbed
<1>8. ~Signal
  BY DEF Signal, Undisturbed
<1>9. ~Usage
  BY DEF Usage, Undisturbed
<1>10. ASSUME NEW p \in Pids, Collect(p) PROVE (Alone /\ Named)'
  <2>1. CASE WritePid(p)
    BY <2>1 DEF WritePid, Goto, Left, Undisturbed
  <2>2. CASE Dies(p)
    BY <2>2 DEF Dies, End, Left, Undisturbed
  <2>3. CASE Fails(p)
    BY <2>3 DEF Fails, Goto, Left, Undisturbed
  <2>4. QED
    BY <1>10, <2>1, <2>2, <2>3 DEF Collect
<1>11. ASSUME NEW p \in Pids \cup {Launcher}, Sigint(p) PROVE (Alone /\ Named)'
  <2>1. CASE p \in Pids
    BY <1>11, <2>1 DEF Sigint, Goto, Left, Undisturbed, CollectorAt
  <2>2. CASE p = Launcher
    BY <1>11, <2>2 DEF Sigint, Goto, Left, Undisturbed
  <2>3. QED
    BY <2>1, <2>2
<1>12. CASE UNCHANGED vars
  BY <1>12 DEF vars, Left, Undisturbed
<1>13. QED
  BY <1>1, <1>2, <1>3, <1>4, <1>5, <1>6, <1>7, <1>8, <1>9, <1>10, <1>11, <1>12 DEF Next, Launch

\* A launcher that waits undisturbed and the collector it waits for are the ones
\* the files name, however many collectors went away before (exit.c:27-28,
\* new_process.c:82, collector.c:45).
THEOREM FilesNamed == Spec => []FilesNameProcesses
<1>1. Init => TypeOK /\ Left
  BY InitType, InitLeft
<1>2. TypeOK /\ Left /\ [Next]_vars => (TypeOK /\ Left)'
  BY NextType, NextLeft
<1>3. TypeOK /\ Left => FilesNameProcesses
  BY DEF TypeOK, Left, Undisturbed, Named, FilesNameProcesses
<1>4. QED
  BY <1>1, <1>2, <1>3, PTL DEF Spec

-----------------------------------------------------------------------------
(* The launcher and its collectors implement Service.                      *)

\* What a step may do to what Service sees of the processes.
Same   == Collectors' = Collectors /\ Guarded' = Guarded /\ signals' = signals
Begins == /\ Guarded /\ Guarded' /\ signals' = signals
          /\ \E p \in Pids : p \notin Collectors /\ Collectors' = Collectors \cup {p}
Ends   == /\ Guarded' = Guarded /\ signals' = signals
          /\ \E p \in Collectors : Collectors' = Collectors \ {p}
Told   == Guarded /\ Guarded' /\ Collectors' = Collectors /\ signals' = signals + 1
Leaves == Guarded /\ ~Guarded' /\ Collectors' = Collectors /\ signals' = signals

\* A collector appears only by a fork of the launcher, which never comes back; only
\* a collector that runs stops running.
LEMMA StepMaps ==
  ASSUME TypeOK, [Next]_vars
  PROVE  Same \/ (at[Launcher] = "fork" /\ Begins) \/ Ends \/ Told \/ Leaves
<1> USE SupervisorAssumption DEF TypeOK, Processes, files, bounds
<1>0. Guarded \in BOOLEAN /\ Guarded' \in BOOLEAN
  BY DEF Guarded
<1>1. ASSUME NEW p \in Processes, Exit(p) PROVE Same
  <2>1. CASE UnlinkLauncher(p)
    BY <1>0, <2>1 DEF UnlinkLauncher, Goto, Collectors, Guarded, Same
  <2>2. CASE Unlink(p)
    BY <1>0, <2>2 DEF Unlink, End, Collectors, Guarded, Same
  <2>3. QED
    BY <1>1, <2>1, <2>2 DEF Exit
<1>2. ASSUME Fork PROVE at[Launcher] = "fork" /\ Begins
  <2>1. PICK p \in Pids : /\ at[p] = "none"
                          /\ at' = [at EXCEPT ![p] = "start", ![Launcher] = "write"]
    BY <1>2 DEF Fork
  <2>2. p \notin Collectors /\ Collectors' = Collectors \cup {p}
    BY <2>1 DEF Collectors
  <2>3. Guarded /\ Guarded' /\ signals' = signals
    BY <1>2, <2>1 DEF Fork, Guarded
  <2>4. QED
    BY <1>2, <2>2, <2>3 DEF Fork, Begins
<1>3. ASSUME WriteLauncher \/ Interrupted \/ Usage PROVE Same
  BY <1>0, <1>3 DEF WriteLauncher, Interrupted, Usage, Goto, Collectors, Guarded, Same
<1>4. ASSUME NEW p \in Pids, Wait(p) PROVE Same
  BY <1>0, <1>4 DEF Wait, Collectors, Guarded, Same
<1>5. ASSUME Signal PROVE Told
  BY <1>5 DEF Signal, Goto, Collectors, Guarded, Told
<1>6. ASSUME ForkFails \/ WriteLauncherFails \/ Sigint(Launcher) PROVE Leaves
  <2>1. CASE ForkFails
    BY <2>1 DEF ForkFails, Goto, Collectors, Guarded, Leaves
  <2>2. CASE WriteLauncherFails
    <3>1. /\ Guarded /\ signals' = signals
          /\ at' = [q \in Processes |-> IF q = Launcher \/ at[q] = "zombie" THEN "none" ELSE at[q]]
      BY <2>2 DEF WriteLauncherFails, End, Guarded
    <3>2. ~Guarded' /\ Collectors' = Collectors
      BY <3>1 DEF Guarded, Collectors
    <3>3. QED
      BY <3>1, <3>2 DEF Leaves
  <2>3. CASE Sigint(Launcher)
    BY <2>3 DEF Sigint, Goto, Collectors, Guarded, Leaves, LauncherAt
  <2>4. QED
    BY <1>6, <2>1, <2>2, <2>3
<1>7. ASSUME NEW p \in Pids, WritePid(p) PROVE Same
  BY <1>0, <1>7 DEF WritePid, Goto, Collectors, Guarded, Same
<1>8. ASSUME NEW p \in Pids, Dies(p) \/ Fails(p) \/ Sigint(p) PROVE Ends
  <2>1. p \in Collectors /\ signals' = signals
    BY <1>8 DEF Dies, Fails, Sigint, Collectors, CollectorAt
  <2>2. Collectors' = Collectors \ {p}
    BY <1>8 DEF Dies, Fails, Sigint, End, Goto, Collectors
  <2>3. Guarded' = Guarded
    BY <1>0, <1>8 DEF Dies, Fails, Sigint, End, Goto, Guarded
  <2>4. QED
    BY <2>1, <2>2, <2>3 DEF Ends
<1>9. ASSUME UNCHANGED vars PROVE Same
  BY <1>9 DEF vars, Collectors, Guarded, Same
<1>10. QED
  BY <1>1, <1>2, <1>3, <1>4, <1>5, <1>6, <1>7, <1>8, <1>9 DEF Next, Launch, Collect

\* The collectors are finite and not more than the children.
LEMMA CollectorsFinite ==
  /\ IsFiniteSet(Collectors) /\ Cardinality(Collectors) \in Nat
  /\ Cardinality(Collectors) <= Cardinality(Children)
<1>1. Collectors \subseteq Children
  BY DEF Collectors, Children
<1>2. QED
  BY <1>1, ChildrenFinite, FS_Subset, FS_CardinalityType

\* Each step of the processes is one of the service or none: only a launcher that
\* is there starts a collector, and it does when none runs or when a signal came
\* for each that runs (new_process.c:60-90, signal.c:25-49).
THEOREM Implements == Spec => Guard!Safe
<1>1. Init => Guard!Init
  <2> SUFFICES ASSUME Init PROVE Guard!Init
    OBVIOUS
  <2>1. Collectors = {}
    BY SupervisorAssumption DEF Init, Collectors, Processes
  <2>2. Cardinality(Collectors) = 0
    BY <2>1, FS_EmptySet
  <2>3. Guarded = TRUE
    BY SupervisorAssumption DEF Init, Guarded, Processes
  <2>4. QED
    BY <2>2, <2>3 DEF Init, Guard!Init
<1>2. TypeOK /\ Count /\ [Next]_vars => [Guard!Next]_(Guard!vars)
  <2> SUFFICES ASSUME TypeOK, Count, [Next]_vars PROVE [Guard!Next]_(Guard!vars)
    OBVIOUS
  <2>1. Guarded \in BOOLEAN /\ Guarded' \in BOOLEAN
    BY DEF Guarded
  <2>2. CASE Same
    BY <2>2 DEF Same, Guard!vars
  <2>3. CASE at[Launcher] = "fork" /\ Begins
    <3>1. Cardinality(Collectors) <= signals
      BY <2>3, CollectorsFinite, ChildrenFinite DEF Count, TypeOK
    <3>2. Cardinality(Collectors') = Cardinality(Collectors) + 1
      BY <2>3, CollectorsFinite, FS_AddElement DEF Begins
    <3>3. QED
      BY <2>1, <2>3, <3>1, <3>2 DEF Begins, Guard!Next, Guard!Start
  <2>4. CASE Ends
    <3>1. PICK p \in Collectors : Collectors' = Collectors \ {p}
      BY <2>4 DEF Ends
    <3>2. Cardinality(Collectors') = Cardinality(Collectors) - 1
      BY <3>1, CollectorsFinite, FS_RemoveElement
    <3>3. Cardinality(Collectors) # 0
      BY <3>1, CollectorsFinite, FS_EmptySet
    <3>4. QED
      BY <2>4, <3>2, <3>3, CollectorsFinite DEF Ends, Guard!Next, Guard!Stop
  <2>5. CASE Told
    BY <2>1, <2>5 DEF Told, Guard!Next, Guard!Signal
  <2>6. CASE Leaves
    BY <2>1, <2>6 DEF Leaves, Guard!Next, Guard!Abandon
  <2>7. QED
    BY <2>2, <2>3, <2>4, <2>5, <2>6, StepMaps
<1>3. Init => TypeOK /\ Count
  BY InitType, InitCount
<1>4. TypeOK /\ Count /\ [Next]_vars => (TypeOK /\ Count)'
  BY NextType, NextCount
<1>5. QED
  BY <1>1, <1>2, <1>3, <1>4, PTL DEF Spec, Guard!Safe
=============================================================================
