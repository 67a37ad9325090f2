------------------------------ MODULE CpuWindow ------------------------------
(***************************************************************************)
(* The CPU column of the process list: sample_process_rows (src/main.c)    *)
(* with the counters of src/process_cpu.c and src/cpu.c, interleaved with  *)
(* processes that run, end and are replaced under the same PID.            *)
(*                                                                         *)
(* A share is the ticks a process used between two reads of its stat file, *)
(* over the ticks the machine spent between two reads of /proc/stat.  The  *)
(* four reads are at four different moments.                               *)
(***************************************************************************)
EXTENDS ProcTable, Unsigned, FiniteSetsExt

CONSTANT MaxTicks   \* bound: the ticks the machine runs

ASSUME TicksAssumption == MaxTicks \in Nat /\ Word \in Nat /\ MaxTicks < Word

VARIABLES
    total,      \* sum of the fields of /proc/stat
    ticks,      \* ticks[p]: utime + stime of the process that has, or last had, PID p
    pc,
    cpu_prev, cpu_curr,
    previous,   \* the snapshot: struct process_cpu_counter records
    cpu_sample_ok,
    rows,       \* the process list
    items,      \* struct process_cpu_info records
    todo,       \* PIDs readdir has still to return
    cpu_percent \* row -> its column: a record of ticks over machine ticks, or Unknown

machine == <<alive, last, total, ticks>>
sample  == <<cpu_prev, cpu_curr, previous, cpu_sample_ok>>
vars    == <<machine, pc, sample, rows, items, todo, cpu_percent>>

Unknown == [over |-> 0]     \* -1.0, shown as "--"

Counter == [pid : Pids, ticks : 0 .. MaxTicks, starttime : Starts]
Row     == [pid : Pids, starttime : Starts]
Info    == [pid : Pids, delta : 0 .. MaxTicks, starttime : Starts]

Init ==
    /\ KernelInit
    /\ total = 0
    /\ ticks = [p \in Pids |-> 0]
    /\ pc = "prev"
    /\ cpu_prev = 0
    /\ cpu_curr = 0
    /\ previous = {}
    /\ cpu_sample_ok = FALSE
    /\ rows = {}
    /\ items = {}
    /\ todo = {}
    /\ cpu_percent = << >>

-----------------------------------------------------------------------------
(* The machine.  It is watched while the sample is under way.              *)

Tick ==
    /\ total < MaxTicks
    /\ total' = total + 1
    /\ \/ \E p \in Pids : alive[p] /\ ticks' = [ticks EXCEPT ![p] = @ + 1]
       \/ UNCHANGED ticks           \* the idle task
    /\ UNCHANGED kernel

Replace(p) ==
    /\ \/ Fork(p) /\ ticks' = [ticks EXCEPT ![p] = 0]
       \/ Exit(p) /\ UNCHANGED ticks
    /\ UNCHANGED total

Machine ==
    /\ pc # "done"
    /\ Tick \/ \E p \in Pids : Replace(p)
    /\ UNCHANGED <<pc, sample, rows, items, todo, cpu_percent>>

-----------------------------------------------------------------------------
(* The sample.                                                             *)

Goto(next) == pc' = next /\ todo' = Pids

\* readdir comes to PID p, the least that is left.
Visit(p) ==
    /\ p \in todo /\ \A q \in todo : p <= q
    /\ todo' = todo \ {p}

ReadPrev ==
    /\ pc = "prev"
    /\ \/ cpu_prev' = total /\ Goto("snapshot")
       \/ Goto("list") /\ UNCHANGED cpu_prev
    /\ UNCHANGED <<machine, cpu_curr, previous, cpu_sample_ok, rows, items, cpu_percent>>

\* One stat file for the snapshot, or an unreadable one.
SnapshotOne ==
    /\ pc = "snapshot"
    /\ \E p \in Pids :
          /\ Visit(p)
          /\ \/ /\ alive[p]
                /\ previous' = previous \cup
                     {[pid |-> p, ticks |-> ticks[p], starttime |-> last[p]]}
             \/ UNCHANGED previous
    /\ UNCHANGED <<machine, pc, cpu_prev, cpu_curr, cpu_sample_ok, rows, items, cpu_percent>>

\* cpu_total_delta: it fails when the counters stood still.
MovedOn == cpu_curr' > cpu_prev

\* The snapshot is complete (or has failed); the wait, and the second reading.
ReadCurr ==
    /\ pc = "snapshot"
    /\ \/ /\ todo = {}
          /\ cpu_curr' = total
          /\ cpu_sample_ok' = MovedOn
       \/ cpu_sample_ok' = FALSE /\ UNCHANGED cpu_curr
    /\ Goto("list")
    /\ UNCHANGED <<machine, cpu_prev, previous, rows, items, cpu_percent>>

\* process_list_read, one row at a time.
ListOne ==
    /\ pc = "list"
    /\ \E p \in Pids :
          /\ Visit(p)
          /\ \/ alive[p] /\ rows' = rows \cup {[pid |-> p, starttime |-> last[p]]}
             \/ UNCHANGED rows
    /\ UNCHANGED <<machine, pc, sample, items, cpu_percent>>

\* The list is there; with no window it is shown without shares.
ListDone ==
    /\ pc = "list"
    /\ todo = {}
    /\ IF cpu_sample_ok
       THEN Goto("since") /\ UNCHANGED cpu_percent
       ELSE pc' = "done" /\ cpu_percent' = [r \in rows |-> Unknown] /\ UNCHANGED todo
    /\ UNCHANGED <<machine, sample, rows, items>>

\* process_list_read failed.
ListFails ==
    /\ pc = "list"
    /\ pc' = "done"
    /\ rows' = {}
    /\ UNCHANGED <<machine, sample, items, todo, cpu_percent>>

PidMatches(old, p, start, now) == old.pid = p                         \* mutant
SameProcess(old, p, start, now) ==
    old.pid = p /\ old.starttime = start /\ now >= old.ticks

\* process_cpu_all_since, one process at a time; PIDs new to the snapshot get 0.
SinceOne ==
    /\ pc = "since"
    /\ \E p \in Pids :
          /\ Visit(p)
          /\ \/ /\ alive[p]
                /\ LET old == {o \in previous : SameProcess(o, p, last[p], ticks[p])}
                       delta == IF old = {} THEN 0
                                ELSE (ticks[p] - (CHOOSE o \in old : TRUE).ticks) % Word
                   IN  items' = items \cup
                         {[pid |-> p, delta |-> delta, starttime |-> last[p]]}
             \/ UNCHANGED items
    /\ UNCHANGED <<machine, pc, sample, rows, cpu_percent>>

\* find_cpu_info, and the test that row and counter are of one process.
OfRow(info, row) == info.pid = row.pid /\ info.starttime = row.starttime

SinceDone ==
    /\ pc = "since"
    /\ todo = {}
    /\ cpu_percent' = [r \in rows |->
          LET mine == {i \in items : OfRow(i, r)}
          IN  IF mine = {} THEN Unknown
              ELSE [ticks |-> (CHOOSE i \in mine : TRUE).delta, over |-> cpu_curr - cpu_prev]]
    /\ pc' = "done"
    /\ UNCHANGED <<machine, sample, rows, items, todo>>

\* process_cpu_all_since failed: no shares.
SinceFails ==
    /\ pc = "since"
    /\ cpu_percent' = [r \in rows |-> Unknown]
    /\ pc' = "done"
    /\ UNCHANGED <<machine, sample, rows, items, todo>>

Next == \/ Machine \/ ReadPrev \/ SnapshotOne \/ ReadCurr \/ ListOne \/ ListDone
        \/ ListFails \/ SinceOne \/ SinceDone \/ SinceFails

Spec == Init /\ [][Next]_vars

-----------------------------------------------------------------------------
Shared == {r \in DOMAIN cpu_percent : cpu_percent[r] # Unknown}

\* The values of sample_process_rows' variables; a percentage belongs to a row.
TypeOK ==
    /\ KernelTypeOK
    /\ total \in 0 .. MaxTicks
    /\ ticks \in [Pids -> 0 .. MaxTicks]
    /\ pc \in {"prev", "snapshot", "list", "since", "done"}
    /\ cpu_prev \in 0 .. MaxTicks /\ cpu_curr \in 0 .. MaxTicks
    /\ \A o \in previous : o \in Counter
    /\ cpu_sample_ok \in BOOLEAN
    /\ \A r \in rows : r \in Row
    /\ \A i \in items : i \in Info
    /\ todo \subseteq Pids
    /\ DOMAIN cpu_percent \subseteq rows

\* All rows of a frame together are charged no more ticks than the machine ran
\* since the sample began: no tick is counted for two processes, and no counter
\* of an earlier holder of a PID, nor an unsigned difference gone below zero,
\* turns into a share.
NoTickTwice ==
    pc = "done" =>
        MapThenSumSet(LAMBDA r : cpu_percent[r].ticks, Shared) <= total - cpu_prev

\* Ticks counted from the snapshot's entry of that very process and, as long as its
\* PID has not been given away, no more than its counter has moved since.
OwnTicks(process, used) ==
    \E o \in previous :
       /\ o.pid = process.pid /\ o.starttime = process.starttime
       /\ last[process.pid] = process.starttime => o.ticks + used <= ticks[process.pid]

\* A row with a share has a second counter of the same process, not of another with
\* its PID, and the window its ticks are divided by was not empty.  A share above
\* zero is made of the process's own ticks since the snapshot.  A process the snapshot
\* does not know, whatever process had the PID there, is shown with a share of zero.
SharesAreOwn ==
    pc = "done" =>
        \A r \in Shared :
            /\ cpu_percent[r].over > 0
            /\ \E i \in items : i.pid = r.pid /\ i.starttime = r.starttime
            /\ cpu_percent[r].ticks = 0 \/ OwnTicks(r, cpu_percent[r].ticks)
=============================================================================
