------------------------------- MODULE TopList -------------------------------
(***************************************************************************)
(* The short list of the biggest processes on the overview: insert_top and *)
(* the scan that feeds it (process_top_memory in src/process.c by resident *)
(* memory, process_cpu_top_since in src/process_cpu.c by CPU share; the    *)
(* two insert_top differ in the field they compare, and the CPU scan       *)
(* offers only processes with a share above 0).                            *)
(***************************************************************************)
EXTENDS Naturals, Sequences, FiniteSets

CONSTANTS
    Pids,   \* the PIDs the scan may meet
    Sizes,  \* what they are ranked by: kilobytes, or a share
    Cap     \* TOP_PROCESS_COUNT

ASSUME CapAssumption == Cap \in Nat \ {0}
ASSUME SizesAssumption == Sizes \subseteq Nat

VARIABLES
    pc,     \* "scan", "done" or "failed"
    out,    \* the caller's array, up to count
    total,  \* number of readable processes met
    shown,  \* what the caller displays: *out_count entries of out
    seen    \* history: the candidates so far

vars == <<pc, out, total, shown, seen>>

Process == [pid : Pids, size : Sizes]

Init ==
    /\ pc = "scan"
    /\ out = << >>
    /\ total = 0
    /\ shown = << >>
    /\ seen = {}

\* The first place whose entry is smaller than the candidate: equals stay ahead.
AheadOfEquals(list, c) ==                                             \* mutant
    {i \in DOMAIN list : list[i].size > c.size}
NotSmaller(list, c) == {i \in DOMAIN list : list[i].size >= c.size}

\* The loop of insert_top stops at pos.
StopsAt(list, c, pos) ==
    /\ 1 .. pos \subseteq NotSmaller(list, c)
    /\ pos < Len(list) => pos + 1 \notin NotSmaller(list, c)

\* memmove shifts the entries from pos on; the last one drops out of a full list.
ShiftAll(list) == Len(list) + 1                                       \* mutant
NewCount(list) == IF Len(list) < Cap THEN Len(list) + 1 ELSE Len(list)

InsertAt(list, c, pos) ==
    [i \in 1 .. NewCount(list) |->
        IF i <= pos THEN list[i] ELSE IF i = pos + 1 THEN c ELSE list[i - 1]]

insert_top(c) ==
    \E pos \in 0 .. Len(out) :
        /\ StopsAt(out, c, pos)
        /\ out' = IF pos >= Cap THEN out ELSE InsertAt(out, c, pos)

-----------------------------------------------------------------------------
\* A readable process is met; readdir returns each PID once.
Offer(c) ==
    /\ pc = "scan"
    /\ \A s \in seen : s.pid # c.pid
    /\ insert_top(c)
    /\ total' = total + 1
    /\ seen' = seen \cup {c}
    /\ UNCHANGED <<pc, shown>>

\* The scan ended; *out_count is set only now.
Finish ==
    /\ pc = "scan"
    /\ pc' = "done"
    /\ shown' = out
    /\ UNCHANGED <<out, total, seen>>

\* readdir or closedir failed: the caller keeps its count of 0.
Fail ==
    /\ pc = "scan"
    /\ pc' = "failed"
    /\ UNCHANGED <<out, total, shown, seen>>

Next == (\E c \in Process : Offer(c)) \/ Finish \/ Fail

Spec == Init /\ [][Next]_vars

-----------------------------------------------------------------------------
\* The list holds processes; the scan goes on, ends, or fails.
TypeOK ==
    /\ pc \in {"scan", "done", "failed"}
    /\ out \in Seq(Process)
    /\ total \in Nat
    /\ shown \in Seq(Process)
    /\ seen \subseteq Process

\* In order, within the array, and nothing invented or listed twice.
Ordered ==
    /\ Len(out) <= Cap
    /\ \A i, j \in DOMAIN out : i < j => out[i].size >= out[j].size
    /\ \A i \in DOMAIN out : out[i] \in seen
    /\ \A i, j \in DOMAIN out : out[i].pid = out[j].pid => i = j

\* Nobody is left out unfairly: a process that was met and is not in the list
\* lost to Cap processes at least as big.
TopSelected ==
    \A s \in seen :
        \/ \E i \in DOMAIN out : out[i] = s
        \/ Len(out) = Cap /\ \A i \in DOMAIN out : out[i].size >= s.size

\* The overview shows the top of all that were met, or nothing.
ShownIsTop == shown # << >> => shown = out /\ pc = "done"

\* The inductive invariant of the scan.
TInv ==
    /\ TypeOK
    /\ Ordered
    /\ TopSelected
    /\ ShownIsTop

\* A process already in the list gives way only to bigger ones: with equal
\* sizes the order in which the scan met them stands.
EqualsKeepOrder ==
    [][ \A i, j \in DOMAIN out' :
          (i < j /\ out'[i].size = out'[j].size) =>
             ~(out'[i] \in seen' \ seen /\ out'[j] \in seen) ]_vars
=============================================================================
