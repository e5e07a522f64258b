------------------------------- MODULE Service -------------------------------
(***************************************************************************)
(* What the launcher of mooner promises (option -g): as long as it is      *)
(* there, a collector that is gone is replaced by another, and no more     *)
(* collectors run together than one and one for each signal it was sent.   *)
(***************************************************************************)
EXTENDS Integers

VARIABLES
  running,  \* number of collectors
  guarded,  \* the launcher is there
  signals   \* signals that interrupted its wait()

vars == <<running, guarded, signals>>

Init == running = 0 /\ guarded = TRUE /\ signals = 0

\* Only the launcher starts a collector: when there is none, or beside the others
\* if it had a signal for each of them.
Start ==
  /\ guarded /\ running <= signals
  /\ running' = running + 1
  /\ UNCHANGED <<guarded, signals>>

Stop == running > 0 /\ running' = running - 1 /\ UNCHANGED <<guarded, signals>>

Signal == guarded /\ signals' = signals + 1 /\ UNCHANGED <<running, guarded>>

Abandon == guarded /\ guarded' = FALSE /\ UNCHANGED <<running, signals>>

Next == Start \/ Stop \/ Signal \/ Abandon

Safe == Init /\ [][Next]_vars

Spec == Safe /\ WF_vars(running = 0 /\ Start)
=============================================================================
