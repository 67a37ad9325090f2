------------------------------ MODULE PidArrays ------------------------------
(***************************************************************************)
(* How large the arrays sorted by PID are: the parameters shared by        *)
(* PidSearch and the modules that search with it.                          *)
(***************************************************************************)
EXTENDS Integers

CONSTANTS
    MaxPid,     \* the PIDs are 1 .. MaxPid
    MaxCount    \* bound: the length of the arrays searched

ASSUME SizeAssumption == MaxPid \in Nat \ {0} /\ MaxCount \in Nat
=============================================================================
