---------------------------- MODULE OverviewSample ----------------------------
(***************************************************************************)
(* One sample of the overview after the other: collect_overview,           *)
(* refresh_overview and history_push (src/main.c) with the readers they    *)
(* call: host_read (src/host.c), memory_parse and memory_usage             *)
(* (src/memory.c), disk_read_root and disk_usage (src/disk.c) and          *)
(* cpu_usage (src/cpu.c).  What the network and the short lists measure is *)
(* the subject of Network, CpuWindow and CpuTop.                           *)
(*                                                                         *)
(* A part of struct overview that no other part is computed from is        *)
(* represented by the number of the sample it was measured in, 0 for what  *)
(* memset left.  Percentages are pairs of a part and a whole.              *)
(***************************************************************************)
EXTENDS Unsigned, Sequences, FiniteSetsExt

CONSTANTS
    HISTORY_MAX,
    MaxSamples,     \* bound: how many samples are taken
    Zones,          \* the thermal zones
    MaxTemp,        \* bound: temperatures are 0 .. MaxTemp
    MaxKib,         \* bound: values in /proc/meminfo
    MaxBlocks,      \* bound: block counts and block sizes of the file system
    Active, Inactive,   \* the counters of /proc/stat, in two groups
    MaxDelta        \* bound: how far one of them moves during a window

ASSUME HistoryAssumption == HISTORY_MAX \in Nat \ {0} /\ MaxSamples \in Nat
ASSUME ValuesAssumption ==
    /\ MaxTemp \in Nat /\ MaxKib \in Nat /\ MaxBlocks \in Nat /\ Word \in Nat
    /\ MaxKib < Word /\ MaxBlocks < Word
\* A zone's type stands for itself, apart from what read_thermal writes without one.
ASSUME ZonesAssumption == {"thermal", ""} \cap Zones = {}
ASSUME CountersAssumption ==
    /\ IsFiniteSet(Active) /\ IsFiniteSet(Inactive) /\ Active \cap Inactive = {}
    /\ MaxDelta \in Nat /\ Cardinality(Active \cup Inactive) * MaxDelta < Word

VARIABLES
    pc,
    n,              \* number of the sample
    view, view_ok,
    history,        \* the cpu and memory arrays up to count
    zones,          \* thermal zones readdir has still to return
    hottest,        \* of read_thermal, with hottest_type
    meminfo,        \* the sample of memory_parse
    disk,           \* the sample of disk_read_root, and (history) its exact size
    process_prev,   \* a snapshot was taken
    measured        \* history: the zones' temperatures in this scan

readers == <<zones, hottest, meminfo, disk, process_prev, measured>>
vars    == <<pc, n, view, view_ok, history, readers>>

NoTemp == [c |-> -1, type |-> ""]
Fields == {"MemTotal", "MemAvailable", "SwapTotal", "SwapFree"}
Unread == -1        \* a field memory_parse has not found (0 in the source)
Clear  == [f \in Fields |-> Unread]
Part   == [part |-> 0, whole |-> 0]
NoDisk == [part |-> 0, whole |-> 0, exact |-> 0]
Cold   == [zone \in Zones |-> -1]

Zeroed ==
    [host_ok |-> FALSE, host |-> 0, thermal |-> NoTemp,
     memory |-> Part, swap_used |-> 0, disk |-> Part, cpu |-> Part,
     network_ok |-> FALSE, network |-> 0,
     cpu_process_ok |-> FALSE, cpu_top |-> 0,
     memory_process_ok |-> FALSE, memory_top |-> 0]

Init ==
    /\ pc = "frame"
    /\ n = 0
    /\ view = Zeroed
    /\ view_ok = FALSE
    /\ history = [cpu |-> << >>, memory |-> << >>]
    /\ zones = {}
    /\ hottest = NoTemp
    /\ meminfo = Clear
    /\ disk = NoDisk
    /\ process_prev = FALSE
    /\ measured = Cold

Minus(a, b) == (a - b) % Word

-----------------------------------------------------------------------------
(* host_read.                                                              *)

\* The memset, then host_read: all of its readings but the thermal one, or none.
ForgetList ==                                                         \* mutant
    [Zeroed EXCEPT !.network_ok = TRUE, !.cpu_process_ok = view.cpu_process_ok,
                   !.cpu_top = view.cpu_top]
Cleared == [Zeroed EXCEPT !.network_ok = TRUE]

HostRead ==
    /\ pc = "frame"
    /\ n < MaxSamples
    /\ n' = n + 1
    /\ \/ /\ view' = [Cleared EXCEPT !.host_ok = TRUE, !.host = n']
          /\ pc' = "thermal"
          /\ zones' = Zones
       \/ /\ view' = [Cleared EXCEPT !.host_ok = FALSE]
          /\ pc' = "memory"
          /\ UNCHANGED zones
    /\ hottest' = NoTemp
    /\ meminfo' = Clear
    /\ UNCHANGED <<view_ok, history, disk, process_prev, measured>>

\* The zone's type as read_thermal gets it: its name, "thermal" when the file
\* cannot be read, and an empty name when its first line is empty.
Types(zone) == {zone, "thermal", ""}

TypeFirst(c, zone) ==                                                 \* mutant
    \E type \in Types(zone) :
        hottest' = [c |-> IF c > hottest.c THEN c ELSE hottest.c, type |-> type]
Hotter(c, zone) ==
    IF c > hottest.c
    THEN \E type \in Types(zone) : hottest' = [c |-> c, type |-> type]
    ELSE UNCHANGED hottest

ThermalZone ==
    /\ pc = "thermal"
    /\ \E zone \in zones :
          /\ zones' = zones \ {zone}
          /\ \/ \E c \in 0 .. MaxTemp :
                   Hotter(c, zone) /\ measured' = [measured EXCEPT ![zone] = c]
             \/ UNCHANGED <<hottest, measured>>      \* no valid temperature
    /\ UNCHANGED <<pc, n, view, view_ok, history, meminfo, disk, process_prev>>

\* readdir has no more, or fails.
ThermalEnd ==
    /\ pc = "thermal"
    /\ view' = [view EXCEPT !.thermal = hottest]
    /\ zones' = {}
    /\ hottest' = NoTemp
    /\ measured' = Cold
    /\ pc' = "memory"
    /\ UNCHANGED <<n, view_ok, history, meminfo, disk, process_prev>>

-----------------------------------------------------------------------------
(* The mandatory readings: memory_read, disk_read_root, cpu_read.          *)

\* collect_overview returns -1, refresh_overview clears view_ok, the loop ends.
Abandon ==
    /\ pc' = "done"
    /\ view_ok' = FALSE
    /\ process_prev' = FALSE

FoundAll == \A f \in Fields : meminfo[f] # Unread

\* One line: a field's value (the latest counts), a field that does not parse, or
\* a line of no interest.  All found is noticed only after SwapFree or such a line.
MemoryLine ==
    /\ pc = "memory"
    /\ \/ \E f \in Fields, value \in 0 .. MaxKib :
             /\ meminfo' = [meminfo EXCEPT ![f] = value]
             /\ pc' = IF f = "SwapFree" /\ FoundAll' THEN "memory_end" ELSE "memory"
             /\ UNCHANGED <<view_ok, process_prev>>
       \/ UNCHANGED <<meminfo, view_ok, process_prev>> /\ FoundAll /\ pc' = "memory_end"
       \/ UNCHANGED meminfo /\ Abandon
    /\ UNCHANGED <<n, view, history, zones, hottest, disk, measured>>

\* The file ended (or could not be read); the sample's own checks.
InRange ==
    /\ meminfo["MemTotal"] # 0
    /\ meminfo["MemAvailable"] <= meminfo["MemTotal"]
    /\ meminfo["SwapFree"] <= meminfo["SwapTotal"]

MemoryRead ==
    /\ pc \in {"memory", "memory_end"}
    /\ \/ FoundAll /\ InRange /\ pc' = "disk" /\ UNCHANGED <<view_ok, process_prev>>
       \/ Abandon
    /\ UNCHANGED <<n, view, history, zones, hottest, meminfo, disk, measured>>

\* blocks_to_bytes: the product, if it fits.
NoOverflowTest(blocks, size) == size # 0                              \* mutant
Fits(blocks, size) == size # 0 /\ (blocks # 0 => size <= (Word - 1) \div blocks)

DiskRead ==
    /\ pc = "disk"
    /\ \/ \E blocks, avail, size \in 0 .. MaxBlocks :
             LET total == (blocks * size) % Word
                 free  == (avail * size) % Word
             IN  /\ Fits(blocks, size) /\ Fits(avail, size)
                 /\ total # 0 /\ free <= total
                 /\ disk' = [part |-> free, whole |-> total, exact |-> blocks * size]
          /\ pc' = "cpu"
          /\ UNCHANGED <<view_ok, process_prev>>
       \/ Abandon /\ UNCHANGED disk
    /\ UNCHANGED <<n, view, history, zones, hottest, meminfo, measured>>

\* cpu_read before the window, and again after the wait.
CpuRead ==
    /\ \/ pc = "cpu" /\ pc' = "network"
       \/ pc = "window" /\ pc' = "rates"
    /\ UNCHANGED <<n, view, view_ok, history, readers>>

\* One of them cannot be read, or nanosleep fails.
CpuReadFails ==
    /\ pc \in {"cpu", "window"}
    /\ Abandon
    /\ UNCHANGED <<n, view, history, zones, hottest, meminfo, disk, measured>>

-----------------------------------------------------------------------------
(* The optional readings and the computed numbers.                         *)

\* network_read before the window, and process_cpu_snapshot_take: either may fail.
NetworkPrev ==
    /\ pc = "network"
    /\ \E ok \in BOOLEAN : view' = [view EXCEPT !.network_ok = ok]
    /\ process_prev' \in BOOLEAN
    /\ pc' = "window"
    /\ UNCHANGED <<n, view_ok, history, zones, hottest, meminfo, disk, measured>>

\* network_read after the window, and network_rate.
NetworkCurr ==
    /\ pc = "rates"
    /\ \/ view.network_ok /\ view' = [view EXCEPT !.network = n]
       \/ view' = [view EXCEPT !.network_ok = FALSE]
    /\ pc' = "usage"
    /\ UNCHANGED <<n, view_ok, history, readers>>

Counters == Active \cup Inactive
Total(delta, group) == MapThenSumSet(LAMBDA c : delta[c], group)

\* cpu_deltas: no counter went back, and time has passed.
Forward(delta) == (\A c \in Counters : delta[c] >= 0) /\ Total(delta, Counters) # 0

\* cpu_usage and cpu_total_delta; memory_usage and disk_usage subtract what the
\* readers have checked.
Usage ==
    /\ pc = "usage"
    /\ \/ \E delta \in [Counters -> -1 .. MaxDelta] :
             /\ Forward(delta)
             /\ view' = [view EXCEPT
                  !.cpu = [part |-> Total(delta, Active) % Word,
                           whole |-> Total(delta, Counters) % Word],
                  !.memory = [part |-> Minus(meminfo["MemTotal"], meminfo["MemAvailable"]),
                              whole |-> meminfo["MemTotal"]],
                  !.swap_used = Minus(meminfo["SwapTotal"], meminfo["SwapFree"]),
                  !.disk = [part |-> Minus(disk.whole, disk.part), whole |-> disk.whole]]
          /\ pc' = "lists"
          /\ UNCHANGED <<view_ok, process_prev>>
       \/ Abandon /\ UNCHANGED view
    /\ UNCHANGED <<n, history, zones, hottest, meminfo, disk, measured>>

\* history_push: at the limit both arrays move down by one.
ShiftCpuOnly ==                                                       \* mutant
    history' = IF Len(history.cpu) < HISTORY_MAX
               THEN [cpu |-> Append(history.cpu, n), memory |-> Append(history.memory, n)]
               ELSE [cpu |-> Append(Tail(history.cpu), n),
                     memory |-> [history.memory EXCEPT ![HISTORY_MAX] = n]]
NeverShift(array) == Append(array, n)                                 \* mutant
Push(array) ==
    IF Len(array) < HISTORY_MAX THEN Append(array, n) ELSE Append(Tail(array), n)
history_push == history' = [cpu |-> Push(history.cpu), memory |-> Push(history.memory)]

\* The two short lists, each with its own flag; then the sample is complete.
Lists ==
    /\ pc = "lists"
    /\ \E cpu_ok, memory_ok \in BOOLEAN :
          view' = [view EXCEPT
             !.cpu_process_ok = IF process_prev THEN cpu_ok ELSE @,
             !.cpu_top = IF process_prev /\ cpu_ok THEN n ELSE @,
             !.memory_process_ok = memory_ok,
             !.memory_top = IF memory_ok THEN n ELSE @]
    /\ process_prev' = FALSE
    /\ view_ok' = TRUE
    /\ history_push
    /\ pc' = "key"
    /\ UNCHANGED <<n, zones, hottest, meminfo, disk, measured>>

\* Drawn and looked at; other screens may come in between.
Key ==
    /\ pc = "key"
    /\ pc' \in {"frame", "done"}
    /\ UNCHANGED <<n, view, view_ok, history, readers>>

Next == \/ HostRead \/ ThermalZone \/ ThermalEnd \/ MemoryLine \/ MemoryRead \/ DiskRead
        \/ CpuRead \/ CpuReadFails \/ NetworkPrev \/ NetworkCurr \/ Usage \/ Lists \/ Key

Spec == Init /\ [][Next]_vars

-----------------------------------------------------------------------------
Words == 0 .. Word - 1

\* The values of struct overview and of the readers' locals.
TypeOK ==
    /\ pc \in {"frame", "thermal", "memory", "memory_end", "disk", "cpu", "network",
               "window", "rates", "usage", "lists", "key", "done"}
    /\ n \in 0 .. MaxSamples
    /\ view_ok \in BOOLEAN
    /\ history \in [cpu : Seq(1 .. MaxSamples), memory : Seq(1 .. MaxSamples)]
    /\ Len(history.cpu) <= HISTORY_MAX /\ Len(history.memory) <= HISTORY_MAX
    /\ view.memory \in [part : Words, whole : Words]
    /\ view.disk \in [part : Words, whole : Words]
    /\ view.cpu \in [part : Words, whole : Words]
    /\ view.swap_used \in Words
    /\ zones \subseteq Zones
    /\ meminfo \in [Fields -> 0 .. MaxKib \cup {Unread}]
    /\ process_prev \in BOOLEAN

\* A drawn overview holds numbers of its own sample only: an optional reading that
\* failed this time is marked as missing and does not show what it was last time.
NothingStale ==
    pc = "key" =>
        /\ view_ok
        /\ view.host_ok => view.host = n
        /\ ~view.host_ok => view.thermal = NoTemp
        /\ view.network_ok => view.network = n
        /\ view.cpu_process_ok => view.cpu_top = n
        /\ view.memory_process_ok => view.memory_top = n

Percent(p) == p.whole > 0 /\ p.part <= p.whole
MemoryBar ==
    /\ Percent(view.memory)
    /\ view.memory.part + meminfo["MemAvailable"] = meminfo["MemTotal"]
    /\ view.swap_used + meminfo["SwapFree"] = meminfo["SwapTotal"]
DiskBar ==
    /\ Percent(view.disk)
    /\ view.disk.part + disk.part = disk.whole /\ disk.whole = disk.exact

\* No bar passes its end: what is used is at most the whole, the whole is not zero,
\* no subtraction or product of the three has gone round 2^64, and none is made of
\* the zeros the memory sample starts with, in whatever order and number its lines
\* come.
BarsInRange == pc = "key" => Percent(view.cpu) /\ MemoryBar /\ DiskBar

\* The graphs show the latest samples, oldest first: both arrays the same ones, at
\* most HISTORY_MAX, ending with the numbers on the cards above them.
GraphsMatchCards ==
    LET kept == IF n < HISTORY_MAX THEN n ELSE HISTORY_MAX
    IN  pc = "key" =>
          /\ history.cpu = [i \in 1 .. kept |-> n - kept + i]
          /\ history.memory = history.cpu

\* The temperature shown is the hottest of those that could be read, and the name
\* beside it is of the zone it was measured in, or no zone's.
HottestNamed ==
    /\ \A zone \in Zones : measured[zone] <= hottest.c
    /\ hottest.type \in Zones => measured[hottest.type] = hottest.c
=============================================================================
