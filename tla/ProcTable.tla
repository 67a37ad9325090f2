------------------------------ MODULE ProcTable ------------------------------
(***************************************************************************)
(* The kernel's process table, as RookieTop sees it through /proc and      *)
(* kill(2).  External: modelled from how src/process_list.c uses it.       *)
(*                                                                         *)
(* A process instance is named by its PID and its start time.  The kernel  *)
(* may end any process but RookieTop itself (that one's end is the         *)
(* Lifecycle module's subject) and may give a free PID to a new process at *)
(* any moment.                                                             *)
(***************************************************************************)
EXTENDS Integers, FiniteSets

CONSTANTS
    Pids,       \* the process identifiers in use
    Self,       \* RookieTop's own PID, getpid()
    MaxStart    \* bound: the latest start time, in ticks since boot

ASSUME PidsAssumption == Pids \subseteq Nat \ {0} /\ IsFiniteSet(Pids)
ASSUME SelfAssumption == Self \in Pids
ASSUME StartAssumption == MaxStart \in Nat

VARIABLES
    alive,      \* alive[p]: a process now has PID p (a zombie counts)
    last        \* start time of the latest process to have PID p, Never if none

kernel == <<alive, last>>

Never == -1
Starts == 0 .. MaxStart

KernelTypeOK ==
    /\ alive \in [Pids -> BOOLEAN]
    /\ last \in [Pids -> Starts \cup {Never}]
    /\ \A p \in Pids : alive[p] => last[p] \in Starts

KernelInit ==
    /\ alive \in [Pids -> BOOLEAN]
    /\ last \in [Pids -> Starts \cup {Never}]
    /\ \A p \in Pids : alive[p] <=> last[p] \in Starts
    /\ alive[Self]

\* A PID is reused only by a process that started at a later tick: a PID comes
\* round again after pid_max others, far more than one tick's worth.
Fork(p) ==
    /\ ~alive[p]
    /\ \E t \in Starts :
          /\ t > last[p]
          /\ last' = [last EXCEPT ![p] = t]
    /\ alive' = [alive EXCEPT ![p] = TRUE]

Exit(p) ==
    /\ p # Self
    /\ alive[p]
    /\ alive' = [alive EXCEPT ![p] = FALSE]
    /\ UNCHANGED last

KernelStep == \E p \in Pids : Fork(p) \/ Exit(p)

\* The instance (p, start) is running.
Running(p, start) == p \in Pids /\ alive[p] /\ last[p] = start
=============================================================================
