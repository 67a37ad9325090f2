------------------------------ MODULE PidSearch ------------------------------
(***************************************************************************)
(* The binary search over an array sorted by PID: find_previous in         *)
(* src/process_cpu.c (the snapshot) and find_cpu_info in src/main.c (the   *)
(* current counters).  Indices count from 0, as in the source.             *)
(***************************************************************************)
EXTENDS PidArrays

VARIABLES
    items,      \* the array: index -> PID, strictly increasing
    count,
    pid,        \* what is searched
    low, high,
    pc,         \* "search" or "done"
    result      \* the index returned, NULL if none

vars == <<items, count, pid, low, high, pc, result>>

NULL == -1
Indices == 0 .. count - 1

\* qsort has put the entries in PID order, and no PID is there twice.
Sorted == \A i, j \in Indices : i < j => items[i] < items[j]

Init ==
    /\ count \in 0 .. MaxCount
    /\ items \in [Indices -> 1 .. MaxPid]
    /\ Sorted
    /\ pid \in 1 .. MaxPid
    /\ low = 0
    /\ high = count
    /\ pc = "search"
    /\ result = NULL

mid == low + (high - low) \div 2

Found ==
    /\ pc = "search" /\ low < high
    /\ items[mid] = pid
    /\ result' = mid
    /\ pc' = "done"
    /\ UNCHANGED <<items, count, pid, low, high>>

SkipTwo == low' = mid + 2                                             \* mutant
StayOnMid == low' = mid                                               \* mutant
AfterMid == low' = mid + 1

GoRight ==
    /\ pc = "search" /\ low < high
    /\ items[mid] < pid
    /\ AfterMid
    /\ UNCHANGED <<items, count, pid, high, pc, result>>

GoLeft ==
    /\ pc = "search" /\ low < high
    /\ items[mid] > pid
    /\ high' = mid
    /\ UNCHANGED <<items, count, pid, low, pc, result>>

NotFound ==
    /\ pc = "search" /\ low >= high
    /\ pc' = "done"
    /\ UNCHANGED <<items, count, pid, low, high, result>>

Next == Found \/ GoRight \/ GoLeft \/ NotFound

Spec == Init /\ [][Next]_vars /\ WF_vars(Next)

-----------------------------------------------------------------------------
\* The values of the search's locals; mid is never kept between two turns.
TypeOK ==
    /\ count \in Nat
    /\ items \in [Indices -> 1 .. MaxPid]
    /\ pid \in 1 .. MaxPid
    /\ low \in Nat
    /\ high \in Nat
    /\ pc \in {"search", "done"}
    /\ result \in Indices \cup {NULL}

\* The window stays inside the array, and the PID is nowhere outside it.
Window ==
    /\ low <= high /\ high <= count
    /\ result = NULL => \A i \in Indices : items[i] = pid => low <= i /\ i < high

\* The search gives the entry of the PID, and NULL only if there is none.
SearchCorrect ==
    pc = "done" =>
        \/ result # NULL /\ items[result] = pid
        \/ result = NULL /\ \A i \in Indices : items[i] # pid

\* The inductive invariant of the loop.
SInv ==
    /\ TypeOK
    /\ Sorted
    /\ Window
    /\ SearchCorrect
    /\ pc = "search" => result = NULL
    /\ pc = "done" /\ result = NULL => low = high
=============================================================================
