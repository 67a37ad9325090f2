# RookieTop in TLA+

RookieTop is a terminal system monitor for Linux in C11: one process, one loop, no
threads. It shows an overview of the machine with a plain-language diagnosis, an
explorer of all processes from which one can be stopped or killed, and lessons about
what is shown. This directory holds TLA+ models of it, TLC configurations that check
them on small instances, and TLAPS proofs.

A single-threaded program still has concurrency: the kernel. Processes end, PIDs are
given to new processes, counters move, interfaces come and go and signals arrive between
any two system calls. Nearly everything here is about what the program may conclude from
several reads of a world that changes between them.

## 1. The system

Paths are relative to the repository. State named is the state of the source.

| Component | Source | State | Operations |
|---|---|---|---|
| Process explorer and guarded signals | `src/main.c` 727-796, 864-1700; `src/process_list.c` | `struct app_state`: screen, sort, search, `selected`, `selected_pid`, `selected_starttime`, `selected_detail`, notice | a frame per screen, each key, `process_list_read`, `process_detail_read`, `process_send_signal` |
| Program life | `src/main.c` 132-187, 1505-1742; `src/terminal_input.c` 9-35 | `stop_requested`, `terminal_active`, `input_state.active`, terminal modes, signal dispositions | startup, stop signals, loop test, `restore_terminal` at exit |
| CPU share sampling | `src/main.c` 798-862; `src/process_cpu.c`; `src/cpu.c` | two samples of `/proc/stat`, a snapshot of all processes' counters | sample, wait 250 ms, sample; match by PID and start time |
| Search by PID | `src/process_cpu.c` 265-284; `src/main.c` 798-816 | `low`, `high` | binary search |
| Short list of the biggest | `src/process.c` 115-203; `src/process_cpu.c` 388-438 | the array and its count | `insert_top` |
| Network rate | `src/network.c`; `src/main.c` 433-461 | two sums of counters, `network_ok` | sum, guard, difference |
| Status, diagnosis, lessons | `src/diagnosis.c`; `src/main.c` 277-308, 489-536, 1454-1471, 1650-1676 | `view`, `view_ok`, `lesson`, `learn_selected`, `return_screen` | judge a sample, open and turn lessons |
| Overview collection | `src/main.c` 421-487, 1454-1463 | `struct overview`, `view_ok` | all readings of one sample, all or nothing but for optional parts |
| History graphs | `src/main.c` 371-386 | `history` | append, shift at the limit |
| Host, memory, disk | `src/host.c`; `src/memory.c`; `src/disk.c` | none between samples | read, check, subtract |
| Key decoder | `src/terminal_input.c` 37-99 | none between keys | bytes to keys, with an 8 ms limit inside an escape sequence |
| Search filter | `src/process_query.c` | none | in-place compaction of the rows |
| Viewport of the list | `src/main.c` 904-958 | none | rows to draw from height and highlight |
| Teaching texts, other rendering, command line | rest of `src/` | none | tables, output |

How they interact: `run_interactive` calls everything, in one thread. On OVERVIEW it
collects a sample (network, CPU, memory, disk, host, both short lists), judges and draws
it and waits for a key. On PROCESSES it samples the CPU shares around a read of the
process list, filters, sorts, realigns the selection, draws and waits. The screens about
one process re-read that process at the head of every frame. Components share state only
through `struct app_state` and through the kernel: the process table (`/proc`, `kill`),
the terminal, the signal dispositions. Signal handlers are the only asynchronous code,
and set one flag.

What is hard, and which properties it asks for:

* **Explorer.** A row, a detail and a signal each take several system calls. The
  PID is not an identity; the pair of PID and start time is, and it has to be
  carried through a list that is re-sorted under the cursor, through a
  detail that is overwritten before it is checked, and through a confirm screen
  that waits as long as the user likes. Correct means: what the user acts on is
  what is highlighted; what is shown is one process; what is signalled is what was
  shown; what is reported is what happened; and the loop never spins on a failed read.
* **Program life.** The terminal is changed in steps, and undone by an exit
  handler that reads flags and whose own calls may fail. Correct means: every exit undoes,
  from every step, all that its own calls can undo; a stop is honoured whatever the
  program waits for.
* **CPU shares.** Four readings at four moments make one number. Correct means: no
  tick counted twice or for the wrong process, no division by an empty window, no
  wrapped subtraction.
* **Network rate.** Sums over a changing set. Correct means: an undisturbed window
  shows its traffic, a disturbed one no nonsense.
* **Diagnosis.** Two functions with limits of their own stand on one screen.
  Correct means: what the one names, the other does not call healthy, and where they do
  differ is known.
* **Short lists, search.** Arrays that grow, are sorted, searched and freed, with
  a call that may fail at every step of the way. Correct means: in bounds, nothing leaked,
  and the list is the top of what was scanned.
* **Overview.** One sample is written over the last one, and four parts of it are optional.
  Correct means: no number is older than its sample, and no bar passes its end.
* **Keys.** Bytes of one key may come apart, bytes of several keys together. Correct
  means: whole keys come through, and pieces of torn ones do no harm.

`PROJECT.json` lists every hazard at its line with the properties that cover it.

## 2. The modules

| Module | Models | Role |
|---|---|---|
| `ProcTable` | the kernel's process table | external; `alive[p]`, `last[p]` (start time of the latest holder of PID p) |
| `Explorer` | all process screens with their readers and `kill` | composes with `ProcTable`, every kernel step may come between two system calls |
| `GuardedSignal` | what the program promises of signals | abstract specification, implemented by `Explorer` |
| `Viewport` | which rows of the list are drawn | pure; used by `Explorer` |
| `ExplorerProofs` | theorems about `Explorer` and `Viewport` | |
| `Lifecycle`, `LifecycleProofs` | startup, signals, waits, exit | |
| `KeyDecoder`, `KeyDecoderProofs` | `terminal_input_read_key`, the search box, the confirm screen | bytes in, keys out |
| `CpuWindow`, `CpuWindowProofs` | `sample_process_rows` | composes with `ProcTable` |
| `TopList` | `insert_top` and its scan | |
| `PidArrays`, `PidSearch` | the binary search | |
| `CpuTop`, `CpuTopProofs` | both short lists of the overview, with their memory | composes `TopList` and `PidSearch`; the proofs of all three are in `CpuTopProofs` |
| `Network` | the network part of `collect_overview` | its names do not clash with those of `OverviewSample`; the proofs of both are in `OverviewSampleProofs` |
| `OverviewSample`, `OverviewSampleProofs` | `collect_overview` sample after sample, host, memory, disk, history | |
| `Unsigned` | the width of `uint64_t` | one constant, of `Network`, `CpuWindow` and `OverviewSample` |
| `Sums` | lemmas about `MapThenSumSet` | used by the proofs about counters |
| `Overview`, `OverviewProofs` | judges of a sample, and the lessons | |
| `MC*` | extend a module for TLC; several `.cfg` may use one | |

**Explorer.** The variables of `struct app_state` keep their names. `pc` says where the
loop is: `frame` (head of the loop), `scan`/`scan_stat` (the list, between two files),
`status`/`stat`/`cmdline` (process_detail_read, about to read that file), `key` (waiting
in poll), `check`/`kill` (process_send_signal), `done`. One action is what happens up to
and including one system call that can observe or change the process table; what the
code does after the call without another one is part of the action. `rows` is the list
on display, `found` the list being read, `reading` the detail being read, `goal` the
caller of process_detail_read (open, refresh, confirm) and the screen it will show. A
record carries, for every part, the start time of the instance that part was read from:
`name` stands for name, state, threads and memory (from `status`), `starttime` is from
`stat`, `command` from `cmdline`. So "one process" is an equation between fields.
Memory, CPU share and names are left open: under the sort keys that use them any order
is possible; under PID it is the PID order. A set search leaves any subset. Failures of
open, read, malloc and readdir are possible at every step. `sent` is history: the signal
the last frame delivered.

**Lifecycle.** Screens are reduced to what matters for waiting: the two that sample,
DETAIL (and process learning) with a limited poll, PROMPT for all that wait without
limit. The Makefile builds with `-std=c11` and `main.c` defines only `_POSIX_C_SOURCE`,
so glibc's `signal()` is the System V one: the handler is reset on entry and interrupts
blocked calls. The exit handler runs in two steps. `RestoreModes` is
`terminal_input_restore`: its `tcsetattr(TCSAFLUSH)` waits for the output to drain and
may fail, interrupted by a first stop signal (the handler of the System V `signal()`
does not restart it) or because the terminal is gone; the result is discarded and
`active` cleared either way. `LeaveScreen` writes the sequence that leaves the alternate
screen, which may fail unnoticed too, as may the one that enters it. `failed` is
history, the calls of the handler that failed; `late_keys` is history too.

**CpuWindow.** Time is the machine's ticks. Each stat file, the two readings of
`/proc/stat` and the list are read in actions of their own; processes run, end and are
replaced in between. Percentages are kept as pairs of ticks and window. Unsigned
subtraction is modulo `Word`. A tick of a process is a tick of the machine: `Tick`
advances both, that is, `/proc/stat`'s total is assumed to contain every tick that a
`/proc/<pid>/stat` counts. `NoTickTwice` rests on it. A process whose PID is new to the
snapshot, or has another holder there, is shown with a share of 0 and not as unknown, as
`process_cpu_all_since` does it: `SharesAreOwn` says of every row with a share that it
has a second counter of its own process and a window that is not empty, and of a share
above 0 that it counts from that process's own entry in the snapshot.

**Network.** `/proc/net/dev` is read in one piece. `moved` and `regressed` are history.

**Overview.** Samples are chosen freely, with values on both sides of every limit.
`VerdictsAgree` says where the banner (`overall_status`) and the explanation (`focus`)
agree, and names the two cases in which they do not: ATTENTION above "Nothing looks
constrained" for a disk from 85 percent on or a zone from 90 degrees on.
`comfort_contradicts` is the first of them.

**TopList**, **PidSearch.** One action per candidate, one per turn of the loop.

**CpuTop.** `collect_overview` reduced to its two lists. `step` says which loop is
running, `pc` (of `TopList`) how the list ended. `heap` is the set of blocks that are
allocated, `room` the capacity of the block being filled, `dirs` the number of handles
of `/proc` that are open. `opendir`, `calloc` and `malloc` at the head of a scan are
steps of their own (`take`, `take_alloc`, `take_items`; `since_alloc`), each of which
may fail with what the earlier ones gave still held (`UndoTake`, `SinceAllocFails`);
growing doubles `room` and is refused beyond half of `MaxRoom`, the largest block.
`previous` is the snapshot, sorted; looking a PID up in it is an instance of
`PidSearch`, and what survives goes through `insert_top` of `TopList`. Whether a process
found in the snapshot has a share is left open, which is `CpuWindow`'s subject. The two
lists share nothing, so each behaviour makes one of them.

**KeyDecoder.** A byte carries the number of the press that sent it; the decoder never
looks at that number. Bytes move from `wire` to `input` at any time, so a sequence may
be cut anywhere; a wait inside a sequence ends when `input` has a byte or when the time
is up, which is possible whenever `input` is empty. Of the screens only those are kept
on which one key more or less matters. `disturbed` is history: some sequence was cut,
run together with the next key, or is one the decoder does not know.

**OverviewSample.** A part of `struct overview` is represented by the number of the
sample it was measured in, so "stale" is an inequality of numbers. Memory, disk and CPU
carry values, because their arithmetic is the question: small ones, in a word of `Word`
values. A line of `/proc/meminfo` is a field with a value, a field that does not parse,
or any other line; a thermal zone is a temperature and a type, either of which may be
unreadable. `measured` and the exact disk size are history.

**Viewport.** Operators only: the height is asked for anew in every frame.

## 3. Runs

Deadlock is not checked: every modelled component stops (the program quits, a sample or
a scan ends), and `Explorer` and `Lifecycle` state what must happen as liveness instead.

| Run | Instance | Shows |
|---|---|---|
| `explorer_safety` | 2 PIDs, one of them RookieTop, start times 0..2, two sort keys | `IInv`, `ScreenIsOneInstance`, `SignalledWasNamed`, `HighlightIsSelection`, `NoticeIsTrue`, `SelectionSticks`, refinement of `GuardedSignal` |
| `explorer_live` | 2 PIDs, start times 0..1 | `AlwaysBackToKey`, `DeadProcessLeft` |
| `lifecycle` | SIGINT and SIGTERM, all points of arrival, the exit handler's calls failing or not | `LInv`, `ExitRestoresTerminal`, `OneKeyAfterStop`, `StopHonoured` |
| `cpu_window` | 2 PIDs, start times 0..1, 3 ticks, word of 8 | `NoTickTwice`, `SharesAreOwn` |
| `cpu_top` | 5 PIDs, 3 sizes, list of 2, capacity 1 growing to at most 6 | `TInv`, `EqualsKeepOrder`, `InBounds`, `NothingLeaks`, `SearchRight`, `BusiestShown`, `ListsEnd` |
| `network` | loopback and 2 interfaces, counts 0..2, sums below 4 | `RateIsTraffic`, `NoWildRate` |
| `overview` | percentages 84, 85, 90, 95; load 1.24, 1.25; 89 and 90 degrees | `VerdictsAgree`, `MenuFollowsTopic` |
| `overview_sample` | 3 samples, history of 2, 2 zones, word of 4 | `NothingStale`, `BarsInRange`, `GraphsMatchCards`, `HottestNamed` |
| `key_decoder` | 3 presses of 11 keys, search box of 2 | `KeysAsPressed`, `SearchWasTyped`, `SignalWasTyped`, `EscapeAnswered` |

Why the bounds are enough. A PID confusion needs one PID, two holders of it and a
reader; three start times allow a holder before, at and after the moment of selection,
and start time 0 is the one `process_send_signal` refuses. The selection needs two rows
that change places and come and go, so that a kept index and a kept process differ; the
theorems hold for any number of rows. For the CPU window two PIDs let ticks be charged
to the wrong one, and three ticks place one before, inside and after the window; with a
word of 8 a wrapped difference is larger than any true one. For the network, sums of two
interfaces can just overflow. The top list is smaller than the number of processes by
three, with equal sizes; a capacity of 1 grows twice and is refused the third time, so
that five processes meet a block that is full, one that grows and one that cannot. With
a history of 2 the third sample shifts; with a word of 4 a product of two values up to 3
can overflow and still look like a valid size. Three presses are the shortest way to
harm: open a screen, and a torn key that is followed by another. All bounds are
constants of the modules (`MaxStart`, `MaxTicks`, `MaxBytes`, `MaxMoved`, `MaxKeys`,
`MaxCount`); what is proved holds for every value of them.

Fairness. In `Explorer`, weak fairness of the program's own steps (it is one runnable
thread) and of poll's time limit on the screens that have one. Nothing is assumed of the
user, of the kernel's processes or of failures. In `Lifecycle` the same: no key need
ever come. In `CpuTop`, that the code between two system calls runs on and `/proc` has
an end. In `KeyDecoder` only the steps inside an escape sequence: they end by a byte or
by their time limit, which `poll` guarantees. `CpuWindow`, `Network`, `Overview` and
`OverviewSample` assume none.

### Where the code departs from what is said of it

Each is a run that TLC finds violated; `PROJECT.json` quotes the text.

| Run | What happens |
|---|---|
| `signal_hits_other` | Between the comparison of the start time and `kill` the process ends and its PID is given away: another process gets the signal. A window of two system calls; a pidfd would close it. |
| `selection_lost` | One failed read of the list clears the selection of a process that still runs. |
| `comfort_contradicts` | Disk between 85 and 95 percent: ATTENTION above, "comfortable room" below. |

Some more oddities are states of the models that no property forbids, because the code
is plainly written so: the command on the detail screen is read after the start time
that is compared and may be that of the PID's next holder (`Explorer`, `ReadCmdline`);
any failure to read `stat`, such as a lack of descriptors, is told as "already exited"
(`Explorer`, `SendCheck`); the handlers are one-shot, so a second SIGINT or SIGTERM
kills the program with the terminal raw (`Lifecycle`); a `tcsetattr` that fails in the
exit handler leaves the terminal raw, though `src/README.md` lists "terminal cleanup on
exit" among the features, because `terminal_input_restore` neither looks at its result
nor tries again (`Lifecycle`, `RestoreModes`); the second counters are read after the
window has closed, so a share can exceed the whole (`CpuWindow`); only sums are
compared, so an interface that resets can hide behind another's traffic (`Network`;
`src/docs/VM-TEST.md` names the aggregation); a sequence the decoder does not know is
Escape and then its tail, so that F2 (`ESC O Q`) leaves the screen and quits; an arrow
torn apart for more than 8 ms is Escape and two letters; a key struck within 8 ms of
Escape is swallowed (`KeyDecoder`); a counter of `/proc/stat` that goes back ends the
program (`OverviewSample`); on a terminal of fewer than 22 lines the highlighted row may
be outside the rows drawn (`Viewport`).

## 4. Proofs

| Theorem | Statement |
|---|---|
| `ExplorerProofs!Invariance` | `Spec => []IInv` |
| `OneInstanceShown`, `SignalsNamed`, `HighlightRight`, `TypeCorrect` | the parts of it a reader cares for |
| `SelectionStays`, `NoticesTrue` | action properties, from the same invariant |
| `Refinement` | `Spec => Guarded!Spec`: the process screens implement `GuardedSignal` |
| `SelectionInView` | on 22 lines or more every frame draws the highlighted row |
| `LifecycleProofs!LifecycleInvariance`, `TerminalRestored`, `StopNotDelayed` | an exit leaves a mode changed only if the handler's own call to undo it failed; at most one more key after a stop |
| `CpuTopProofs!TopInvariance`, `TopCorrect`, `EqualsKept` | `TopList` alone: the list is the top of what was met, equals in the order they were met |
| `SearchInvariance`, `SearchIsCorrect` | `PidSearch` alone: the binary search is right |
| `ArraysInBounds`, `NoLeak` | memory safety of the two scans; every exit gives back all blocks and handles |
| `ListsInvariance`; `ListsAreTops`, `SearchedRight`, `BusiestAreShown`, `ListsKeepEquals` | the composition: what the overview's two lists show is right, from the scan through the search to the insertions |
| `CpuWindowProofs!WindowTypes`, `SharesOwn` | every share has its process's own second counter and a window that is not empty; one above 0 counts from that process's own snapshot entry |
| `TicksChargedOnce` | all rows of a frame together are charged no more ticks than the machine ran |
| `KeyDecoderProofs!DecoderInvariance`, `SearchTextWasTyped`, `SignalWasPressed`, `KeysArriveAsPressed` | undisturbed keys come through in order; pieces of torn ones neither get into the search text nor send a signal |
| `OverviewProofs!OverviewInvariance`, `MenuFollows`, `JudgesAgree` | the menu follows the topic; where the two judges agree and the only cases in which they differ |
| `OverviewSampleProofs!Graphs`, `Fresh`, `Hottest`, `Bars`, `SampleTypes` | graphs end with the cards' numbers; nothing stale; the hottest zone; CPU, memory and disk arithmetic |
| `NetworkTypes`, `NetworkIsTraffic`, `NetworkNotWild` | the network part, for any interfaces and counters |

Assumptions on constants: `Pids` is a finite set of positive integers with `Self` in it
(`PidsAssumption`, `SelfAssumption`), `MaxStart` is a natural number
(`StartAssumption`), `MEMORY` is among the sort keys; `Cap` is positive and sizes are
natural numbers; `MaxPid`, the initial capacity and `HISTORY_MAX` are positive; values
fit the word; a zone is not called `thermal`; the PIDs of `CpuTop` are at most `MaxPid`
(its `PidsAssumption`); `Keys` are keys the terminal model can send (`KeysAssumption`).
For the CPU bar the counters of `/proc/stat` may each advance by at most `MaxDelta` in a
window, and their number times `MaxDelta` fits the word (`CountersAssumption`): with 64
bits and jiffies that is millions of years. Behind `ProcTable` stands one assumption on
the kernel: a PID is not given away twice within one clock tick.

The argument for `Explorer`. That a screen shows one process (`ScreenIsOneInstance`) is
not inductive: nothing in it says why comparing `starttime`, read from `stat`, is enough
to conclude that `name`, read before it from `status`, is of the same process. The
strengthening is an order. Start times of one PID only grow, so `selected_starttime <=
reading.name` (the selection was read earlier: `RowsKnown`, `ReadInOrder`) and
`reading.name <= reading.starttime` (status is read before stat). When the test finds
`reading.starttime = selected_starttime`, the middle one is squeezed. The command line
is read after `starttime` and nothing squeezes it, so the command line is not part of
the theorem. For a signal, the same invariant gives the name the user confirmed; that
the receiver is at least not an older process follows from the growth of `last`, and
that it may be a younger one is `signal_hits_other`. `NextIInv` has one lemma per group
of actions; `Refinement` uses the invariant before and after a step.

For `Lifecycle`, `LInv` ties the two flags to the two terminal modes until one of the
exit handler's calls fails (`ModesTracked`), and says that the handler is registered
before the first mode is changed; for `StopNotDelayed` the strengthening (`CountedOnce`)
says that no late key has been counted where the loop has passed its test and not yet
read a key. For `TopList` the invariant is order plus "whoever is missing lost to `Cap`
as big"; for `EqualsKept` a step moves entries only past smaller ones. For `PidSearch`
it is that the PID is not outside the window.

For `CpuTop`, `CInv` says at every step who holds what (`Held`) and that there is room
for the entry about to be written (`RoomLeft`). `NothingLeaks` looks only at the end and
`InBounds` only at accesses, so neither is inductive: that the snapshot's two blocks
live and die together, and that an array that was made empty has been freed, has to be
carried through all steps in between. `RoomMade` is the lemma about `MakeRoom`.
`ListInv` adds what the arrays contain: PIDs that were scanned, each once (`Scanned`),
the snapshot in the order the search needs (`ByPidSorts`: an entry's place is the number
of smaller ones), the search's own invariant while it runs (`Searching`), and that
exactly the entries below `next` have been offered to the list (`Offered`).

For `CpuWindow`, `WInv` adds to the types that nobody has used more ticks than the
machine ran (so that the difference of two readings in order cannot wrap) and that every
charged tick has an entry for the same process in the snapshot. `NoTickTwice` is about a
sum over rows of four moments, and neither the rows nor the counters alone give it.
`TickInv` says instead that the ticks since the sample began can at every moment be
divided among the PIDs (`Accounts`): each PID's part covers what has been charged to it
and what its present process would be charged if it were read now. A tick enlarges one
part; a new holder of a PID started later than the snapshot's entry (`Ordered`) and has
nothing to charge; a second counter is charged within the part as it stands. At the end
the rows, one to a PID (`OneRow`), map into the parts.

`Sums` is what makes this possible. `MapThenSumSet` is a recursion over subsets, and the
library's induction theorems take an operator the provers cannot instantiate. What is
said of all finite sets is proved instead from the well-founded order of subsets: in the
set of subsets without the property there would be a smallest one (`SubsetInduction`).
From it come `SumUpdate` (one summand changes), `SumBound`, `SumInject` (a sum mapped
one to one into a larger one) and the others.

For `KeyDecoder`, `DInv` follows every byte by the number of its press: the bytes in
`input` and `wire` are, in order, what is left of the presses' sequences (`Flow`); what
the decoder holds is the head of such a sequence (`Holding`); and when a piece of a
longer sequence is next, the screen is one on which a piece does nothing (`Harmless`),
because what was given up on came out as Escape and left the box or the question. For
`KeysAsPressed`, `FInv` (`Undisturbed`) says that as long as nothing was cut, what has
been delivered, what is held and what is on the way make up the presses.

For `Overview`, the two judges are compared by cases on the limits, which needs no more
than types; the menu needs the lesson in range so that the remainder stays in it. For
`OverviewSample` there are four invariants, one per property: what both arrays hold
before and after the push (`GInv`; `PushLatest` is the lemma about shifting), which
parts have been measured at which point of the sample (`FInv`), the running maximum with
the name of its zone (`HInv`), and the range checks carried from the reader that makes
them to the subtraction that needs them (`BInv`; `TicksInRange` bounds the CPU's ticks
by `SumBound`). `TypeOK` is inductive together with `GInv` and `BInv`.

For `Network`, `NInv` says that in a window without a regression each sum is its first
sample plus `moved` (`Grown`; a byte carried enlarges one summand, by `OneMore`, and an
interface that comes or goes unregressed adds nothing). The guard of the additions keeps
both samples below `Word`, and the test in `network_rate` keeps their differences from
wrapping.

Only model-checked: all liveness (`AlwaysBackToKey`, `DeadProcessLeft`, `StopHonoured`,
`ListsEnd`, `EscapeAnswered`), which is out of the provers' reach. Every safety
invariant and action property of a passing run is stated by a theorem. The three
violated statements have counterexamples and no theorems.

## 5. Not modelled

Parsing of `/proc` text (a file that does not parse is a file that cannot be read),
escape sequences and layout, texts, the options of the command line. The in-place
compaction of `process_query_filter` is modelled by what it does, any subset of the rows
in their order. The array of `process_list_read` grows by the same loop as the two in
`CpuTop` and is not modelled a third time. SIGTSTP and SIGCONT (raw mode is not entered
again after a suspension), and of a hung-up terminal the poll that returns at once (that
calls on it fail is modelled). Readings that return a number and do nothing else
(uptime, load, host name) are one step of `OverviewSample`.

## 6. Plan

Done: the core in the order `ProcTable`, `Explorer`, `GuardedSignal`, `Lifecycle`,
`CpuWindow`, `TopList`, `PidSearch`, `Network`, `Overview`; then `KeyDecoder`, `CpuTop`,
`OverviewSample`, `Viewport`; and the proofs listed.

Then followed the proofs of `KeyDecoder`, of the composition in `CpuTop`, of `Network`, of the
CPU bar and of `NoTickTwice`.

What could still be added:

1. A composition of `KeyDecoder` with `Explorer`: what a `k` followed at once by `y` acts
   on when the first frame of the confirm screen fails.
2. `RowFilter`: the compaction of `process_query_filter` against `SelectSeq`.
3. Abstract specifications for the two short lists (a scan that ends with the top of a
   set) and for the decoder (a queue of keys), with the refinements proved as `Refinement` is.
