------------------------------- MODULE Explorer -------------------------------
(***************************************************************************)
(* The process screens of the interactive monitor: the loop of             *)
(* run_interactive (src/main.c) with the /proc readers and the guarded     *)
(* kill of src/process_list.c, one action per system call that can observe *)
(* or change the process table, interleaved with the kernel's own steps.   *)
(*                                                                         *)
(* A row of /proc is read in parts: the name comes from /proc/PID/status,  *)
(* the start time from /proc/PID/stat and the command from                 *)
(* /proc/PID/cmdline.  The PID may change hands between two of them, so a  *)
(* record keeps, for each part, the start time of the instance that part   *)
(* was read from: "name" is the instance whose name and state were read.   *)
(***************************************************************************)
EXTENDS ProcTable, Viewport, Sequences, SequencesExt

CONSTANT Sorts      \* the sort keys the user picks from

ASSUME SortsAssumption == Sorts \subseteq {"CPU", "MEMORY", "PID", "NAME"} /\ "MEMORY" \in Sorts

VARIABLES
    \* struct app_state
    screen, return_screen, sort, search, search_draft,
    selected, selected_pid, selected_starttime, selected_detail, notice,
    \* where the loop is, and the locals of the handler that is running
    pc, rows, found, todo, reading, goal,
    \* history: the signal the last frame delivered
    sent

ui      == <<return_screen, sort, search, search_draft>>
sel     == <<selected, selected_pid, selected_starttime>>
listing == <<rows, found, todo>>
call    == <<reading, goal>>
vars    == <<kernel, screen, ui, sel, selected_detail, notice, pc, listing, call, sent>>

Confirms    == {"CONFIRM_TERM", "CONFIRM_KILL"}
DetailBased == {"DETAIL", "PROCESS_LEARN"} \cup Confirms
Immediate   == {"OVERVIEW", "SEARCH", "LEARN_MENU", "LEARN_TOPIC"}
Timed       == {"OVERVIEW", "PROCESSES", "DETAIL", "PROCESS_LEARN"}
Screens     == Immediate \cup {"PROCESSES"} \cup DetailBased

Notices == {"none", "list", "open", "stale", "self",
            "OK", "GONE", "PERMISSION", "REUSED", "ERROR"}

Times  == Starts \cup {Never}
Row    == [pid : Pids, name : Starts, starttime : Starts]
Detail == [pid : Pids \cup {0}, name : Times, starttime : Times, command : Times]
Blank  == [pid |-> 0, name |-> Never, starttime |-> Never, command |-> Never]
Goal   == [by : {"none", "open", "refresh", "confirm"}, to : Screens]
NoGoal == [by |-> "none", to |-> "OVERVIEW"]
Signal == [pid : Pids, hit : Starts, name : Times, starttime : Times,
           signal : {"SIGTERM", "SIGKILL"}]
Nothing == [pid |-> 0]

-----------------------------------------------------------------------------
\* The values run_interactive's variables take: the screens of enum app_screen,
\* rows and details with parts of any instance, and pc between two system calls.
TypeOK ==
    /\ KernelTypeOK
    /\ screen \in Screens
    /\ return_screen \in {"OVERVIEW", "PROCESSES"}
    /\ sort \in Sorts
    /\ search \in BOOLEAN           \* whether the query is non-empty
    /\ search_draft \in BOOLEAN
    /\ selected \in Nat             \* from 0, as in the source
    /\ selected_pid \in Pids \cup {0}
    /\ selected_starttime \in Starts
    /\ selected_detail \in Detail
    /\ notice \in Notices
    /\ pc \in {"frame", "scan", "scan_stat", "key",
               "status", "stat", "cmdline", "check", "kill", "done"}
    /\ rows \in Seq(Row)
    /\ found \in SUBSET Row
    /\ todo \in SUBSET Pids
    /\ reading \in Detail
    /\ goal \in Goal
    /\ sent \in Signal \cup {Nothing}

Init ==
    /\ KernelInit
    /\ screen = "OVERVIEW"
    /\ return_screen = "OVERVIEW"
    /\ sort = "MEMORY"
    /\ search = FALSE
    /\ search_draft = FALSE
    /\ selected = 0
    /\ selected_pid = 0
    /\ selected_starttime = 0
    /\ selected_detail = Blank
    /\ notice = "none"
    /\ pc = "frame"
    /\ rows = << >>
    /\ found = {}
    /\ todo = {}
    /\ reading = Blank
    /\ goal = NoGoal
    /\ sent = Nothing

-----------------------------------------------------------------------------
(* Frames of the screens that read nothing of the process table.           *)

ShowImmediate ==
    /\ pc = "frame"
    /\ screen \in Immediate
    /\ pc' = "key"
    /\ UNCHANGED <<kernel, screen, ui, sel, selected_detail, notice, listing, call, sent>>

\* refresh_overview failed, or the loop condition saw stop_requested.
Leave ==
    /\ pc = "frame"
    /\ pc' = "done"
    /\ UNCHANGED <<kernel, screen, ui, sel, selected_detail, notice, listing, call, sent>>

-----------------------------------------------------------------------------
(* The frame of the process list: sample_process_rows, filter, sort, align. *)

ListBegin ==
    /\ pc = "frame"
    /\ screen = "PROCESSES"
    /\ todo' = Pids
    /\ pc' = "scan"
    /\ sent' = Nothing
    /\ UNCHANGED <<kernel, screen, ui, sel, selected_detail, notice, rows, found, call>>

\* read_row opens and reads /proc/PID/status; readdir goes up through the PIDs.
ScanStatus ==
    /\ pc = "scan"
    /\ \E p \in todo :
          /\ \A q \in todo : p <= q
          /\ alive[p]
          /\ reading' = [Blank EXCEPT !.pid = p, !.name = last[p]]
          /\ todo' = todo \ {p}
    /\ pc' = "scan_stat"
    /\ UNCHANGED <<kernel, screen, ui, sel, selected_detail, notice, rows, found, goal, sent>>

\* read_starttime, the second read of read_row; the row is appended.
ScanStat ==
    /\ pc = "scan_stat"
    /\ alive[reading.pid]
    /\ found' = found \cup {[pid |-> reading.pid, name |-> reading.name,
                             starttime |-> last[reading.pid]]}
    /\ reading' = Blank
    /\ pc' = "scan"
    /\ UNCHANGED <<kernel, screen, ui, sel, selected_detail, notice, rows, todo, goal, sent>>

\* A PID with no entry any more, or whose files cannot be opened or parsed (an
\* empty Name, no descriptor left), is left out of the list.
ScanSkip ==
    /\ \/ /\ pc = "scan"
          /\ \E p \in todo :
                /\ \A q \in todo : p <= q
                /\ todo' = todo \ {p}
          /\ UNCHANGED reading
       \/ /\ pc = "scan_stat"
          /\ reading' = Blank
          /\ UNCHANGED todo
    /\ pc' = "scan"
    /\ UNCHANGED <<kernel, screen, ui, sel, selected_detail, notice, rows, found, goal, sent>>

\* Row i of the list (from 1) is the selected instance.
IsSelected(list, i) ==
    list[i].pid = selected_pid /\ list[i].starttime = selected_starttime

KeepIndex(list) ==                                                    \* mutant
    IF list = << >> THEN selected' = 0 /\ selected_pid' = 0 /\ selected_starttime' = 0
    ELSE LET at == IF selected < Len(list) THEN selected ELSE Len(list) - 1
         IN  /\ selected' = at
             /\ selected_pid' = list[at + 1].pid
             /\ selected_starttime' = list[at + 1].starttime
ForgetPid(list) ==                                                    \* mutant
    /\ selected' = IF selected < Len(list) THEN selected ELSE 0
    /\ UNCHANGED <<selected_pid, selected_starttime>>
align_selection(list) ==
    LET matches == {i \in DOMAIN list : IsSelected(list, i)}
        stay    == IF selected < Len(list) THEN selected ELSE Len(list) - 1
    IN  CASE list = << >> ->
                selected' = 0 /\ selected_pid' = 0 /\ selected_starttime' = 0
          [] list # << >> /\ selected_pid > 0 /\ matches # {} ->
                /\ \E i \in matches : (\A j \in matches : i <= j) /\ selected' = i - 1
                /\ UNCHANGED <<selected_pid, selected_starttime>>
          [] OTHER ->
                /\ selected' = stay
                /\ selected_pid' = list[stay + 1].pid
                /\ selected_starttime' = list[stay + 1].starttime

\* sort_processes: PID order under that sort.  The other keys (memory, CPU, name)
\* are data this module leaves open, so any order.
SortedRows(list) ==
    sort = "PID" => \A i, j \in DOMAIN list : i < j => list[i].pid < list[j].pid

\* What process_query_filter and sort_processes may leave of the rows read: all of
\* them unless a search is set.
Listings ==
    {list \in UNION {SetToSeqs(kept) : kept \in SUBSET found} :
        /\ search \/ Len(list) = Cardinality(found)
        /\ SortedRows(list)}

ShowList ==
    /\ pc = "scan"
    /\ todo = {}
    /\ \E list \in Listings : rows' = list /\ align_selection(list)
    /\ found' = {}
    /\ pc' = "key"
    /\ UNCHANGED <<kernel, screen, ui, selected_detail, notice, todo, call, sent>>

\* opendir, malloc, readdir, realloc or closedir failed: rows is NULL, count 0.
ListFails ==
    /\ pc = "scan"
    /\ rows' = << >>
    /\ align_selection(<< >>)
    /\ notice' = "list"
    /\ found' = {}
    /\ todo' = {}
    /\ pc' = "key"
    /\ UNCHANGED <<kernel, screen, ui, selected_detail, call, sent>>

-----------------------------------------------------------------------------
(* process_detail_read and its three callers.                              *)

Read(by, to) ==
    /\ pc' = "status"
    /\ goal' = [by |-> by, to |-> to]

\* refresh_selected_detail at the head of a frame.
RefreshBegin ==
    /\ pc = "frame"
    /\ screen \in DetailBased
    /\ Read("refresh", screen)
    /\ UNCHANGED <<kernel, screen, ui, sel, selected_detail, notice, listing, reading, sent>>

ReadStatus ==
    /\ pc = "status"
    /\ selected_pid \in Pids
    /\ alive[selected_pid]
    /\ reading' = [Blank EXCEPT !.pid = selected_pid, !.name = last[selected_pid]]
    /\ pc' = "stat"
    /\ UNCHANGED <<kernel, screen, ui, sel, selected_detail, notice, listing, goal, sent>>

ReadStat ==
    /\ pc = "stat"
    /\ alive[reading.pid]
    /\ reading' = [reading EXCEPT !.starttime = last[reading.pid]]
    /\ pc' = "cmdline"
    /\ UNCHANGED <<kernel, screen, ui, sel, selected_detail, notice, listing, goal, sent>>

\* The caller gives up: a notice, and back to the list.
TryAgain == notice' = "stale" /\ UNCHANGED screen /\ pc' = "frame"       \* mutant
ReadFailed ==
    /\ notice' = IF goal.by = "open" THEN "open" ELSE "stale"
    /\ screen' = "PROCESSES"
    /\ pc' = "frame"

\* status or stat could not be read.
ReadFails ==
    /\ pc \in {"status", "stat"}
    /\ ReadFailed
    /\ reading' = Blank
    /\ goal' = NoGoal
    /\ UNCHANGED <<kernel, ui, sel, selected_detail, listing, sent>>

\* The callers' test of what was read against the selected instance.
AnyStart(detail) == detail.pid = selected_pid                         \* mutant
SameStart(detail) == detail.starttime = selected_starttime

\* cmdline is read last; when it cannot be, or is empty, the command is made
\* from the name.  Then the caller compares the start time: only "open" has
\* already overwritten selected_detail when that fails.
ReadCmdline ==
    /\ pc = "cmdline"
    /\ \E command \in {reading.name} \cup {last[p] : p \in {q \in {reading.pid} : alive[q]}} :
          LET detail == [reading EXCEPT !.command = command]
          IN  IF SameStart(detail)
              THEN /\ selected_detail' = detail
                   /\ screen' = goal.to
                   /\ pc' = IF goal.by = "refresh" THEN "key" ELSE "frame"
                   /\ UNCHANGED notice
              ELSE /\ selected_detail' = IF goal.by = "open" THEN detail ELSE selected_detail
                   /\ ReadFailed
    /\ reading' = Blank
    /\ goal' = NoGoal
    /\ UNCHANGED <<kernel, ui, sel, listing, sent>>

-----------------------------------------------------------------------------
(* Keys.  terminal_input_read_key returned; the frame's rows are freed.     *)

KeyOn(screens) ==
    /\ pc = "key"
    /\ screen \in screens
    /\ rows' = << >>
    /\ UNCHANGED <<kernel, found, todo, sent>>

GoTo(next) == screen' = next /\ pc' = "frame"

\* poll timed out: the frame is drawn anew.
NoTimeout == FALSE /\ UNCHANGED vars                                   \* mutant
PollTimeout ==
    /\ KeyOn(Timed)
    /\ pc' = "frame"
    /\ UNCHANGED <<screen, ui, sel, selected_detail, notice, call>>

\* A key this screen does not use.
KeyIgnored ==
    /\ KeyOn(Screens)
    /\ pc' = "frame"
    /\ UNCHANGED <<screen, ui, sel, selected_detail, notice, call>>

\* 'q' on every screen but the search box, where it is a letter.
KeyQuit ==
    /\ KeyOn(Screens \ {"SEARCH"})
    /\ pc' = "done"
    /\ UNCHANGED <<screen, ui, sel, selected_detail, notice, call>>

\* poll or read failed: run_interactive returns 1.
KeyError ==
    /\ KeyOn(Screens)
    /\ pc' = "done"
    /\ UNCHANGED <<screen, ui, sel, selected_detail, notice, call>>

\* Escape (and 'n' on the confirm screens) goes back.
KeyBack ==
    /\ \/ KeyOn({"PROCESSES"}) /\ GoTo("OVERVIEW")
       \/ KeyOn({"SEARCH"} \cup DetailBased) /\ GoTo("PROCESSES")
       \/ KeyOn({"LEARN_MENU"}) /\ GoTo(return_screen)
       \/ KeyOn({"LEARN_TOPIC"}) /\ GoTo("LEARN_MENU")
    /\ UNCHANGED <<ui, sel, selected_detail, notice, call>>

KeyProcesses ==
    /\ KeyOn({"OVERVIEW"})
    /\ GoTo("PROCESSES")
    /\ notice' = "none"
    /\ UNCHANGED <<ui, sel, selected_detail, call>>

\* '?' or 'l' on the overview, 'l' on the list: the learn menu, and the screen
\* Escape will return to.
KeyLearn ==
    /\ KeyOn({"OVERVIEW", "PROCESSES"})
    /\ GoTo("LEARN_MENU")
    /\ return_screen' = screen
    /\ UNCHANGED <<sort, search, search_draft, sel, selected_detail, notice, call>>

KeyTopic ==
    /\ KeyOn({"LEARN_MENU"})
    /\ GoTo("LEARN_TOPIC")
    /\ UNCHANGED <<ui, sel, selected_detail, notice, call>>

KeySort ==
    /\ KeyOn({"PROCESSES"})
    /\ GoTo("PROCESSES")
    /\ sort' \in Sorts
    /\ UNCHANGED <<return_screen, search, search_draft, sel, selected_detail, notice, call>>

\* Up and Down: the highlight moves by one within the rows on display.
RowAbove == IF selected > 0 THEN selected - 1 ELSE selected
RowBelow == IF selected + 1 < Len(rows) THEN selected + 1 ELSE selected

KeyMove ==
    /\ KeyOn({"PROCESSES"})
    /\ GoTo("PROCESSES")
    /\ Len(rows) > 0
    /\ selected' \in {RowAbove, RowBelow}
    /\ selected_pid' = rows[selected' + 1].pid
    /\ selected_starttime' = rows[selected' + 1].starttime
    /\ UNCHANGED <<ui, selected_detail, notice, call>>

\* Enter, '?', 'k' and 'K': open_selected_detail.
KeyOpen ==
    /\ KeyOn({"PROCESSES"})
    /\ Len(rows) > 0
    /\ selected_pid' = rows[selected + 1].pid
    /\ selected_starttime' = rows[selected + 1].starttime
    /\ \E to \in DetailBased : Read("open", to)
    /\ UNCHANGED <<screen, ui, selected, selected_detail, notice, reading>>

KeySearch ==
    /\ KeyOn({"PROCESSES"})
    /\ GoTo("SEARCH")
    /\ search_draft' = search
    /\ UNCHANGED <<return_screen, sort, search, sel, selected_detail, notice, call>>

\* A character is added, or the last one removed.
KeyEdit ==
    /\ KeyOn({"SEARCH"})
    /\ GoTo("SEARCH")
    /\ \/ search_draft' = TRUE
       \/ search_draft /\ search_draft' = FALSE
    /\ UNCHANGED <<return_screen, sort, search, sel, selected_detail, notice, call>>

KeyApply ==
    /\ KeyOn({"SEARCH"})
    /\ GoTo("PROCESSES")
    /\ search' = search_draft
    /\ selected' = 0
    /\ selected_pid' = 0
    /\ selected_starttime' = 0
    /\ notice' = "none"
    /\ UNCHANGED <<return_screen, sort, search_draft, selected_detail, call>>

\* '?' on the detail screen: no new read, the next frame refreshes.
KeyExplain ==
    /\ KeyOn({"DETAIL"})
    /\ GoTo("PROCESS_LEARN")
    /\ UNCHANGED <<ui, sel, selected_detail, notice, call>>

\* 'k' and 'K' there: open_confirm_from_detail.
KeyConfirm ==
    /\ KeyOn({"DETAIL", "PROCESS_LEARN"})
    /\ \E to \in Confirms : Read("confirm", to)
    /\ UNCHANGED <<screen, ui, sel, selected_detail, notice, reading>>

\* 'y': handle_signal_confirm, up to process_send_signal.
KeyYes ==
    /\ KeyOn(Confirms)
    /\ IF selected_detail.pid = Self
       THEN GoTo("PROCESSES") /\ notice' = "self"
       ELSE pc' = "check" /\ UNCHANGED <<screen, notice>>
    /\ UNCHANGED <<ui, sel, selected_detail, call>>

-----------------------------------------------------------------------------
(* process_send_signal: re-read the start time, then kill.                 *)

SignalResult(result) ==
    /\ notice' = result
    /\ screen' = "PROCESSES"
    /\ pc' = "frame"

SameOrYounger(pid, start) == alive[pid] /\ last[pid] >= start          \* mutant
Reused(pid, start) == alive[pid] /\ last[pid] # start

\* read_starttime.  It fails for a process that is gone and also when the
\* file cannot be opened for another reason; a start time of 0 is refused
\* before it is tried.
SendCheck ==
    /\ pc = "check"
    /\ LET pid == selected_detail.pid
           start == selected_detail.starttime
       IN  \/ (pid \notin Pids \/ start = 0) /\ SignalResult("ERROR")
           \/ pid \in Pids /\ start # 0 /\ SignalResult("GONE")
           \/ pid \in Pids /\ start # 0 /\ Reused(pid, start) /\ SignalResult("REUSED")
           \/ /\ pid \in Pids /\ start # 0
              /\ alive[pid] /\ ~Reused(pid, start)
              /\ pc' = "kill"
              /\ UNCHANGED <<screen, notice>>
    /\ UNCHANGED <<kernel, ui, sel, selected_detail, listing, call, sent>>

AlwaysTerm == "SIGTERM"                                               \* mutant
Requested == IF screen = "CONFIRM_KILL" THEN "SIGKILL" ELSE "SIGTERM"

\* kill(2) names only the PID: whoever has it now gets the signal.
SendKill ==
    /\ pc = "kill"
    /\ LET pid == selected_detail.pid
       IN  \/ ~alive[pid] /\ SignalResult("GONE") /\ UNCHANGED sent
           \/ alive[pid] /\ SignalResult("PERMISSION") /\ UNCHANGED sent
           \/ /\ alive[pid] /\ SignalResult("OK")
              /\ sent' = [pid |-> pid, hit |-> last[pid],
                          name |-> selected_detail.name,
                          starttime |-> selected_detail.starttime,
                          signal |-> Requested]
    /\ UNCHANGED <<kernel, ui, sel, selected_detail, listing, call>>

-----------------------------------------------------------------------------
Kernel ==
    /\ KernelStep
    /\ UNCHANGED <<screen, ui, sel, selected_detail, notice, pc, listing, call, sent>>

Work == \/ ShowImmediate \/ ListBegin \/ ScanStatus \/ ScanStat \/ ScanSkip
        \/ ShowList \/ ListFails \/ RefreshBegin \/ ReadStatus \/ ReadStat
        \/ ReadFails \/ ReadCmdline \/ SendCheck \/ SendKill

Key == \/ PollTimeout \/ KeyIgnored \/ KeyQuit \/ KeyError \/ KeyBack \/ KeyProcesses
       \/ KeyLearn \/ KeyTopic \/ KeySort \/ KeyMove \/ KeyOpen \/ KeySearch
       \/ KeyEdit \/ KeyApply \/ KeyExplain \/ KeyConfirm \/ KeyYes

Next == Kernel \/ Work \/ Leave \/ Key

Spec == Init /\ [][Next]_vars

\* The program runs when it can, and poll returns when its time is up.  Nothing
\* is assumed of the user or of the kernel.
Fairness == WF_vars(Work) /\ WF_vars(PollTimeout)

FairSpec == Spec /\ Fairness

-----------------------------------------------------------------------------
(* Safety.                                                                 *)

\* A list row and the selection refer to instances the PID has had: the parts
\* of a row were read in order, and none is newer than the PID's latest holder.
RowsKnown ==
    /\ IsFiniteSet(found)
    /\ \A r \in found \cup Range(rows) :
          r.name <= r.starttime /\ r.starttime <= last[r.pid]
    /\ selected_pid # 0 => selected_starttime <= last[selected_pid]

\* While the list is on display, the highlighted row exists and is the selected
\* instance, so that Enter, '?', 'k' and 'K' act on the row the user sees
\* marked (align_selection against the row indices of run_interactive).
HighlightIsSelection ==
    /\ rows # << >> => pc = "key" /\ screen = "PROCESSES"
    /\ rows # << >> => selected < Len(rows) /\ IsSelected(rows, selected + 1)

\* What is read of a process for its detail, and why the test of the start time
\* is enough: the selected instance was already there before its status was read.
ReadInOrder ==
    /\ pc \in {"scan", "scan_stat"} => screen = "PROCESSES"
    /\ pc \in {"status", "stat", "cmdline"} =>
          /\ goal.by = "open" => screen = "PROCESSES" /\ goal.to \in DetailBased
          /\ goal.by = "refresh" => screen \in DetailBased /\ goal.to = screen
          /\ goal.by = "confirm" =>
                screen \in {"DETAIL", "PROCESS_LEARN"} /\ goal.to \in Confirms
          /\ goal.by # "none"
    /\ pc \in {"stat", "cmdline"} =>
          /\ reading.pid \in Pids /\ reading.pid = selected_pid
          /\ reading.name \in Starts
          /\ selected_starttime <= reading.name
    /\ pc = "cmdline" => reading.starttime \in Starts /\ reading.name <= reading.starttime
    /\ pc = "scan_stat" => reading.pid \in Pids /\ reading.name \in Starts
    /\ pc \in {"scan_stat", "stat", "cmdline"} =>
          reading.name <= last[reading.pid] /\ reading.starttime <= last[reading.pid]

\* A detail, learning or confirm screen that waits for a key shows one process:
\* the name, state and memory on it belong to the selected (PID, start time),
\* although /proc was read in several calls.  The command line may not.
ScreenIsOneInstance ==
    pc \in {"key", "check", "kill"} /\ screen \in DetailBased =>
        /\ selected_detail.pid \in Pids
        /\ selected_detail.pid = selected_pid
        /\ selected_detail.starttime = selected_starttime
        /\ selected_detail.name = selected_starttime

\* The state of process_send_signal between its guards and kill(2), and that a
\* delivery ends the frame it was asked for in.
SendGuarded ==
    /\ pc \in {"check", "kill"} => screen \in Confirms /\ selected_detail.pid # Self
    /\ pc = "kill" => selected_detail.starttime # 0
    /\ sent # Nothing => screen = "PROCESSES" /\ pc \in {"frame", "done"}

\* A signal that was delivered was asked for against the process whose name the
\* confirm screen showed, never against RookieTop itself, and its receiver is
\* that process or a later holder of its PID (see SignalHitsConfirmed).
SignalledWasNamed ==
    sent # Nothing =>
        /\ sent.name = sent.starttime
        /\ sent.starttime <= sent.hit
        /\ sent.pid # Self
        /\ sent.starttime # 0

\* The inductive invariant.
IInv ==
    /\ TypeOK
    /\ RowsKnown
    /\ HighlightIsSelection
    /\ ReadInOrder
    /\ ScreenIsOneInstance
    /\ SendGuarded
    /\ SignalledWasNamed

\* The selection names a process, not a line: when a frame's list still has the
\* selected instance, sorting, filtering, new and vanished rows leave the
\* selection on it; only the user, or the loss of the row, moves it.
SelectionSticks ==
    [][ selected_pid # 0 /\ <<selected_pid', selected_starttime'>> # <<selected_pid, selected_starttime>>
        => \/ pc = "key"
           \/ \A r \in Range(rows') :
                  r.pid # selected_pid \/ r.starttime # selected_starttime ]_vars

\* The notice after a confirmed signal tells the truth: success is reported
\* exactly when a signal was delivered, and a refusal because the PID was
\* reused only when a younger process really has it.
NoticeIsTrue ==
    [][ pc' = "frame" /\ pc \in {"check", "kill"} =>
          /\ (notice' = "OK") = (sent' # Nothing)
          /\ notice' # "REUSED" \/ selected_detail.starttime < last[selected_detail.pid] ]_vars

-----------------------------------------------------------------------------
(* Liveness.                                                               *)

\* The loop always comes back to waiting for a key: no chain of failed reads and
\* "continue" keeps it busy, whatever processes come and go.
AlwaysBackToKey == []<>(pc \in {"key", "done"})

\* A dead process does not stay on its detail or learning screen, whatever keys
\* are pressed: the frame's refresh fails and the loop leaves the screen.
DeadProcessLeft ==
    \A p \in Pids :
        /\ pc # "done" /\ screen \in {"DETAIL", "PROCESS_LEARN"}
        /\ selected_pid = p /\ ~Running(p, selected_starttime)
        ~> \/ pc = "done"
           \/ screen \notin {"DETAIL", "PROCESS_LEARN"}

-----------------------------------------------------------------------------
(* Refinement.                                                             *)

\* The question is on the screen while the confirm frame waits for its answer,
\* under the name the user reads; the delivery is by the start time checked.
Asked ==
    IF pc \in {"key", "check", "kill"} /\ screen \in Confirms
    THEN [pid |-> selected_detail.pid, start |-> selected_detail.name,
          signal |-> IF screen = "CONFIRM_TERM" THEN "SIGTERM" ELSE "SIGKILL"]
    ELSE Nothing

Delivered ==
    IF sent = Nothing THEN Nothing
    ELSE [pid |-> sent.pid, start |-> sent.starttime, signal |-> sent.signal]

Guarded == INSTANCE GuardedSignal WITH asked <- Asked, delivered <- Delivered

\* Every run of the process screens is a run of GuardedSignal.
SignalsAreGuarded == Guarded!Spec

-----------------------------------------------------------------------------
(* What the documents promise and the code does not keep.                  *)

\* docs: the identity is checked immediately before signalling, and a changed
\* one is refused.  The process can end between the check and kill(2).
SignalHitsConfirmed == sent # Nothing => sent.hit = sent.starttime

\* docs: the selection stays on the same (PID, start time) across a refresh when
\* that process still exists.  A list that could not be read clears it.
SelectionSurvivesRefresh ==
    [][ /\ pc = "scan" /\ pc' = "key"
        /\ selected_pid # 0 /\ Running(selected_pid, selected_starttime) /\ ~search
        => <<selected_pid', selected_starttime'>> = <<selected_pid, selected_starttime>> ]_vars
=============================================================================
