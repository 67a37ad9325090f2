-------------------------------- MODULE CpuTop --------------------------------
(***************************************************************************)
(* The two short lists of the overview as collect_overview (src/main.c)    *)
(* makes them.  The list by memory is one scan of /proc that feeds         *)
(* TopList.  The list by CPU share takes two: process_cpu_snapshot_take    *)
(* before the sample window, process_cpu_all_since after it                *)
(* (src/process_cpu.c), each into an array that grows by doubling and is   *)
(* then sorted by PID; every process of the second scan is looked up in    *)
(* the snapshot (PidSearch), and those with a share feed TopList.          *)
(*                                                                         *)
(* Memory and directory handles are part of the model: every exit has to   *)
(* give back what it holds.  Nothing is shared between the two lists, so a *)
(* behaviour makes one of them.  Shares are left open (CpuWindow is about  *)
(* them): any share for a process that was found, none for another.        *)
(***************************************************************************)
EXTENDS TopList, PidArrays

CONSTANTS
    INITIAL_CAPACITY,
    MaxRoom     \* the most entries whose size in bytes fits SIZE_MAX

ASSUME PidsAssumption == Pids \subseteq 1 .. MaxPid
ASSUME RoomAssumption == INITIAL_CAPACITY \in Nat \ {0} /\ MaxRoom \in Nat

VARIABLES
    by,         \* "cpu" or "memory": the list being made
    step,       \* where collect_overview is
    dirs,       \* handles of /proc that are open
    heap,       \* the blocks allocated
    room,       \* entries the block being filled has space for
    todo,       \* PIDs readdir has still to return
    items,      \* the array being filled
    previous,   \* process_prev->items, sorted: the PIDs
    pid,        \* the process looked up
    low, high, looking, result,     \* find_previous
    next        \* index of the next entry offered to the list

search  == <<pid, low, high, looking, result>>
arrays  == <<heap, room, items, previous>>
list    == <<out, total, shown, seen>>
allvars == <<vars, by, step, dirs, todo, arrays, search, next>>

\* The snapshot as find_previous sees it: indices count from 0.
counters == [i \in 0 .. Len(previous) - 1 |-> previous[i + 1]]

Find == INSTANCE PidSearch WITH items <- counters, count <- Len(previous), pc <- looking

NULL == -1

CpuInit ==
    /\ Init
    /\ by \in {"cpu", "memory"}
    /\ step = IF by = "cpu" THEN "take" ELSE "open"
    /\ dirs = 0 /\ heap = {} /\ room = 0
    /\ todo = {} /\ items = << >> /\ previous = << >>
    /\ pid = 1 /\ low = 0 /\ high = 0 /\ looking = "done" /\ result = NULL
    /\ next = 1

-----------------------------------------------------------------------------
(* An array filled from /proc.                                             *)

OpenDir  == dirs' = dirs + 1
CloseDir == dirs' = dirs - 1

\* malloc of the array, in the directory already open.
BeginScan(block) ==
    /\ heap' = heap \cup {block}
    /\ room' = INITIAL_CAPACITY
    /\ todo' = Pids
    /\ items' = << >>

\* readdir comes to a PID without a readable stat file.
Skip ==
    /\ step \in {"snapshot", "since"}
    /\ \E p \in todo : todo' = todo \ {p}
    /\ UNCHANGED <<vars, by, step, dirs, arrays, search, next>>

\* Before an entry is written: room for it, if need be by realloc to twice the
\* size; the overflow test stops that at SIZE_MAX.
GrowLate == IF Len(items) > room THEN room' = 2 * room ELSE UNCHANGED room   \* mutant
MakeRoom ==
    IF Len(items) = room
    THEN room <= MaxRoom \div 2 /\ room' = 2 * room
    ELSE UNCHANGED room

\* qsort by PID; no PID is there twice, so that an entry's place is the number of
\* entries with a smaller one.
Smaller(entries, j) == {k \in DOMAIN entries : entries[k].pid < entries[j].pid}
ByPid(entries) ==
    [i \in DOMAIN entries |->
        entries[CHOOSE j \in DOMAIN entries : Cardinality(Smaller(entries, j)) = i - 1]]

-----------------------------------------------------------------------------
(* process_cpu_snapshot_take.                                              *)

\* opendir, then calloc of the snapshot, then malloc of its counters.
TakeOpen ==
    /\ step = "take"
    /\ OpenDir
    /\ step' = "take_alloc"
    /\ UNCHANGED <<vars, by, todo, arrays, search, next>>

TakeAlloc ==
    /\ step = "take_alloc"
    /\ heap' = heap \cup {"snapshot"}
    /\ step' = "take_items"
    /\ UNCHANGED <<vars, by, dirs, todo, room, items, previous, search, next>>

TakeBegin ==
    /\ step = "take_items"
    /\ BeginScan("counters")
    /\ step' = "snapshot"
    /\ UNCHANGED <<vars, by, dirs, previous, search, next>>

\* What each of the three gives back when it fails: opendir nothing, calloc the
\* directory, malloc the snapshot and the directory.
LeaveDirOpen ==                                                       \* mutant
    \/ step \in {"take", "take_alloc"} /\ UNCHANGED <<dirs, heap>>
    \/ step = "take_items" /\ CloseDir /\ heap' = heap \ {"snapshot"}
UndoTake ==
    \/ step = "take" /\ UNCHANGED <<dirs, heap>>
    \/ step = "take_alloc" /\ CloseDir /\ UNCHANGED heap
    \/ step = "take_items" /\ CloseDir /\ heap' = heap \ {"snapshot"}

\* One of them fails: no snapshot.
TakeFails ==
    /\ UndoTake
    /\ step' = "window"
    /\ UNCHANGED <<vars, by, todo, room, items, previous, search, next>>

SnapshotOne ==
    /\ step = "snapshot"
    /\ \E p \in todo :
          /\ todo' = todo \ {p}
          /\ MakeRoom
          /\ items' = Append(items, [pid |-> p, size |-> 0])
    /\ UNCHANGED <<vars, by, step, dirs, heap, previous, search, next>>

\* process_cpu_snapshot_free
snapshot_free == heap' = heap \ {"counters", "snapshot"}

\* readdir, realloc or closedir fails, or the array cannot grow: no snapshot.
SnapshotFails ==
    /\ step = "snapshot"
    /\ snapshot_free
    /\ CloseDir /\ todo' = {} /\ items' = << >> /\ room' = 0
    /\ step' = "window"
    /\ UNCHANGED <<vars, by, previous, search, next>>

SnapshotDone ==
    /\ step = "snapshot"
    /\ todo = {}
    /\ CloseDir
    /\ previous' = [i \in DOMAIN items |-> ByPid(items)[i].pid]
    /\ items' = << >> /\ room' = 0
    /\ step' = "window"
    /\ UNCHANGED <<vars, by, heap, todo, search, next>>

-----------------------------------------------------------------------------
(* collect_overview between the two scans, and process_cpu_all_since.      *)

\* The end without a list; collect_overview frees the snapshot, if there is one.
NoList ==
    /\ pc' = "failed"
    /\ snapshot_free
    /\ step' = "end"
    /\ UNCHANGED <<by, list, room, items, search, next>>

\* A mandatory reading failed; or there is no snapshot; or opendir fails.
WindowFails ==
    /\ step = "window"
    /\ NoList
    /\ UNCHANGED <<dirs, todo, previous>>

SinceOpen ==
    /\ step = "window"
    /\ "snapshot" \in heap
    /\ OpenDir
    /\ step' = "since_alloc"
    /\ UNCHANGED <<vars, by, todo, arrays, search, next>>

SinceBegin ==
    /\ step = "since_alloc"
    /\ BeginScan("items")
    /\ step' = "since"
    /\ UNCHANGED <<vars, by, dirs, previous, search, next>>

\* malloc fails.
SinceAllocFails ==
    /\ step = "since_alloc"
    /\ CloseDir
    /\ NoList
    /\ UNCHANGED <<todo, previous>>

\* One readable process: room for it, then find_previous.
SinceOne ==
    /\ step = "since"
    /\ \E p \in todo : todo' = todo \ {p} /\ pid' = p
    /\ MakeRoom
    /\ low' = 0 /\ high' = Len(previous) /\ looking' = "search" /\ result' = NULL
    /\ step' = "search"
    /\ UNCHANGED <<vars, by, dirs, heap, items, previous, next>>

Search ==
    /\ step = "search"
    /\ UNCHANGED <<vars, by, step, dirs, todo, arrays, pid, next>>
    /\ Find!Next

\* Only a process found in the snapshot can have a share above 0.
Shares == IF result = NULL THEN {0} ELSE Sizes

AppendInfo ==
    /\ step = "search"
    /\ looking = "done"
    /\ \E share \in Shares : items' = Append(items, [pid |-> pid, size |-> share])
    /\ step' = "since"
    /\ UNCHANGED <<vars, by, dirs, todo, heap, room, previous, search, next>>

\* readdir, realloc or closedir fails, or the array cannot grow.
SinceFails ==
    /\ step = "since"
    /\ pc' = "failed"
    /\ heap' = heap \ {"items", "counters", "snapshot"}
    /\ CloseDir /\ todo' = {} /\ items' = << >> /\ room' = 0 /\ previous' = << >>
    /\ step' = "end"
    /\ UNCHANGED <<by, list, search, next>>

SinceDone ==
    /\ step = "since"
    /\ todo = {}
    /\ CloseDir
    /\ items' = ByPid(items)
    /\ heap' = IF items' = << >> THEN heap \ {"items"} ELSE heap
    /\ next' = 1
    /\ step' = "insert"
    /\ UNCHANGED <<vars, by, todo, room, previous, search>>

-----------------------------------------------------------------------------
(* process_cpu_top_since.                                                  *)

AllButLast == next < Len(items)                                       \* mutant
MoreItems == next <= Len(items)

InsertOne ==
    /\ step = "insert"
    /\ MoreItems
    /\ IF items[next].size > 0
       THEN insert_top(items[next]) /\ seen' = seen \cup {items[next]}
       ELSE UNCHANGED <<out, seen>>
    /\ next' = next + 1
    /\ UNCHANGED <<pc, total, shown, by, step, dirs, todo, arrays, search>>

\* The array and the snapshot are freed; items keeps the entries for the properties.
InsertDone ==
    /\ step = "insert"
    /\ ~MoreItems
    /\ pc' = "done" /\ shown' = out /\ total' = Len(items)
    /\ heap' = heap \ {"items", "counters", "snapshot"}
    /\ step' = "end"
    /\ UNCHANGED <<out, seen, by, dirs, todo, room, items, previous, search, next>>

-----------------------------------------------------------------------------
(* process_top_memory: the scan of TopList, with its directory handle.     *)

MemoryOpen ==
    /\ step = "open"
    /\ \/ OpenDir /\ step' = "memory" /\ UNCHANGED pc
       \/ pc' = "failed" /\ step' = "end" /\ UNCHANGED dirs
    /\ UNCHANGED <<list, by, todo, arrays, search, next>>

MemoryScan ==
    /\ step = "memory"
    /\ \/ \E c \in Process : Offer(c)
       \/ Finish
       \/ Fail
    /\ IF pc' = "scan" THEN UNCHANGED <<step, dirs>> ELSE step' = "end" /\ CloseDir
    /\ UNCHANGED <<by, todo, arrays, search, next>>

CpuNext ==
    \/ TakeOpen \/ TakeAlloc \/ TakeBegin \/ TakeFails \/ Skip
    \/ SnapshotOne \/ SnapshotFails \/ SnapshotDone
    \/ WindowFails \/ SinceOpen \/ SinceBegin \/ SinceAllocFails
    \/ SinceOne \/ Search \/ AppendInfo \/ SinceFails \/ SinceDone
    \/ InsertOne \/ InsertDone
    \/ MemoryOpen \/ MemoryScan

\* The code between two system calls runs on, and no directory is endless.
CpuSpec == CpuInit /\ [][CpuNext]_allvars /\ WF_allvars(CpuNext)

-----------------------------------------------------------------------------
Blocks == {"snapshot", "counters", "items"}
Using(block) ==
    IF block = "items"
    THEN step \in {"since", "search"} \/ (step = "insert" /\ MoreItems)
    ELSE by = "cpu" /\ step \in {"snapshot", "since", "search"}

\* Nothing is written or read beyond the block it is in, before it is allocated or
\* after it is freed, however the arrays grow and wherever growing fails.
InBounds ==
    /\ step \in {"snapshot", "since", "search"} => Len(items) <= room
    /\ step = "search" => Len(items) < room
    /\ \A block \in Blocks : Using(block) => block \in heap
    /\ room = 0 \/ room <= MaxRoom \/ room = INITIAL_CAPACITY

\* Every exit, by success, by a reading of the overview that failed in between, or by
\* an opendir, calloc, malloc, realloc or readdir that failed with anything already
\* held, has given back all memory and every directory handle.
NothingLeaks == step = "end" => heap = {} /\ dirs = 0

\* The search in the snapshot is right wherever it is used.
SearchRight == step = "search" => Find!SInv

\* The list by CPU share is the top of all processes that used any CPU time: one that
\* is missing stands behind Cap others with at least its share.  The total counts the
\* processes without a share too.
BusiestShown ==
    by = "cpu" /\ pc = "done" =>
        /\ total = Len(items)
        /\ \A i \in DOMAIN items : items[i].size > 0 =>
              \/ \E j \in DOMAIN shown : shown[j] = items[i]
              \/ Len(shown) = Cap /\ \A j \in DOMAIN shown : shown[j].size >= items[i].size

\* However the scans go, collect_overview gets through its lists.
ListsEnd == <>(step = "end")
=============================================================================
