------------------------------ MODULE Lifecycle ------------------------------
(***************************************************************************)
(* The life of the interactive monitor, from the installation of its       *)
(* signal handlers to its end: the terminal modes it changes, the stop     *)
(* flag, the waits a signal can interrupt, and what exit() undoes          *)
(* (src/main.c, src/terminal_input.c).                                     *)
(*                                                                         *)
(* The Makefile compiles with -std=c11 and main.c defines only             *)
(* _POSIX_C_SOURCE: glibc's signal() is then the System V one, whose       *)
(* handler is reset to the default when it is entered and interrupts a     *)
(* blocked call.                                                           *)
(***************************************************************************)
EXTENDS Naturals

CONSTANTS
    StopSignals,    \* the signals a handler is installed for: SIGINT, SIGTERM
    MaxKeys         \* bound: keys counted after a stop request

ASSUME MaxKeysAssumption == MaxKeys \in Nat \ {0, 1}

VARIABLES
    pc,             \* where run_interactive is
    screen,         \* the kind of screen on display
    disposition,    \* what the kernel does with each signal
    stop_requested,
    cleanup,        \* restore_terminal is registered with atexit
    raw,            \* the terminal's modes are the raw ones
    active,         \* input_state.active
    alternate,      \* the terminal shows the alternate screen, cursor hidden
    terminal_active,
    status,         \* the exit status
    failed,         \* history: the calls of the exit handler that failed
    late_keys       \* history: keys acted on since stop_requested was set

vars == <<pc, screen, disposition, stop_requested, cleanup, raw, active,
          alternate, terminal_active, status, failed, late_keys>>

\* OVERVIEW and PROCESSES sample for 250 ms and, like DETAIL (which stands for
\* the learning screen too), wait for a key for a limited time.  PROMPT stands
\* for the search box, the learn menu and topics and the confirm screens, which
\* wait without limit.
Sampling == {"OVERVIEW", "PROCESSES"}
Timed    == Sampling \cup {"DETAIL"}
Screens  == Timed \cup {"PROMPT"}

\* The screens a key pressed on a screen, or a failed read of its process, leads to.
Leads ==
    [s \in Screens |->
        CASE s = "OVERVIEW"  -> {"OVERVIEW", "PROCESSES", "PROMPT"}
          [] s = "PROCESSES" -> Screens
          [] s = "DETAIL"    -> {"DETAIL", "PROCESSES", "PROMPT"}
          [] s = "PROMPT"    -> {"PROMPT", "PROCESSES", "OVERVIEW"}]

Setup == {"start", "handling", "registered", "raw_mode", "screen_switched"}
Ended == {"exited", "killed"}

modes == <<raw, active, alternate, terminal_active, failed>>

\* The values of the program's flags and of the terminal's modes.
TypeOK ==
    /\ pc \in Setup \cup {"loop", "frame", "sample", "poll", "returning", "modes_restored"}
             \cup Ended
    /\ screen \in Screens
    /\ disposition \in [StopSignals -> {"default", "handle_stop"}]
    /\ stop_requested \in BOOLEAN
    /\ cleanup \in BOOLEAN
    /\ raw \in BOOLEAN
    /\ active \in BOOLEAN
    /\ alternate \in BOOLEAN
    /\ terminal_active \in BOOLEAN
    /\ status \in {0, 1}
    /\ failed \subseteq {"tcsetattr", "write"}
    /\ late_keys \in 0 .. MaxKeys

Init ==
    /\ pc = "start"
    /\ screen = "OVERVIEW"
    /\ disposition = [s \in StopSignals |-> "default"]
    /\ stop_requested = FALSE
    /\ cleanup = FALSE
    /\ raw = FALSE
    /\ active = FALSE
    /\ alternate = FALSE
    /\ terminal_active = FALSE
    /\ status = 0
    /\ failed = {}
    /\ late_keys = 0

-----------------------------------------------------------------------------
(* Startup, up to the loop.                                                *)

Return(code) == pc' = "returning" /\ status' = code

\* signal(SIGINT), then signal(SIGTERM); one of them may fail.
InstallHandlers ==
    /\ pc = "start"
    /\ \/ /\ disposition' = [s \in StopSignals |-> "handle_stop"]
          /\ pc' = "handling"
          /\ UNCHANGED status
       \/ /\ \E installed \in SUBSET StopSignals :
                /\ installed # StopSignals
                /\ disposition' = [s \in StopSignals |->
                                     IF s \in installed THEN "handle_stop" ELSE "default"]
          /\ Return(1)
    /\ UNCHANGED <<screen, stop_requested, cleanup, modes, late_keys>>

RegisterCleanup ==
    /\ pc = "handling"
    /\ \/ cleanup' = TRUE /\ pc' = "registered" /\ UNCHANGED status
       \/ Return(1) /\ UNCHANGED cleanup
    /\ UNCHANGED <<screen, disposition, stop_requested, modes, late_keys>>

\* terminal_input_enable: tcsetattr, then the flag that makes restore undo it.  A
\* tcgetattr or tcsetattr that fails has changed nothing.
ForgetActive == raw' = TRUE /\ UNCHANGED active                       \* mutant
SetRaw == raw' = TRUE /\ active' = TRUE

EnterRaw ==
    /\ pc = "registered"
    /\ \/ SetRaw /\ pc' = "raw_mode" /\ UNCHANGED status
       \/ Return(1) /\ UNCHANGED <<raw, active>>
    /\ UNCHANGED <<screen, disposition, stop_requested, cleanup, alternate, terminal_active,
                   failed, late_keys>>

\* The escape sequence is handed to stdout, which may fail to write it, and
\* terminal_active is set whether or not it was written.
EnterScreen ==
    /\ \/ /\ pc = "raw_mode"
          /\ alternate' \in BOOLEAN
          /\ pc' = "screen_switched"
          /\ UNCHANGED terminal_active
       \/ /\ pc = "screen_switched"
          /\ terminal_active' = TRUE
          /\ pc' = "loop"
          /\ UNCHANGED alternate
    /\ UNCHANGED <<screen, disposition, stop_requested, cleanup, raw, active, status,
                   failed, late_keys>>

-----------------------------------------------------------------------------
(* The loop.                                                               *)

\* while (!stop_requested)
NoLoopTest == pc = "loop" /\ pc' = "frame" /\ UNCHANGED status        \* mutant
LoopTest ==
    /\ pc = "loop"
    /\ IF stop_requested THEN Return(0) ELSE pc' = "frame" /\ UNCHANGED status

Loop ==
    /\ LoopTest
    /\ UNCHANGED <<screen, disposition, stop_requested, cleanup, modes, late_keys>>

\* The frame's reads before the screen is drawn.
Frame ==
    /\ pc = "frame"
    /\ \/ screen \in Sampling /\ pc' = "sample" /\ UNCHANGED screen
       \/ screen \notin Sampling /\ pc' = "poll" /\ UNCHANGED screen
       \/ screen \in {"DETAIL", "PROMPT"} /\ pc' = "loop" /\ screen' = "PROCESSES"
    /\ UNCHANGED <<disposition, stop_requested, cleanup, modes, status, late_keys>>

\* wait_ns ended: in full, or cut short with the stop flag set.  The overview
\* fails when a counter cannot be read, or stood still in a sample cut short.
Sampled ==
    /\ pc = "sample"
    /\ \/ pc' = "poll" /\ UNCHANGED status
       \/ screen = "OVERVIEW" /\ Return(1)
    /\ UNCHANGED <<screen, disposition, stop_requested, cleanup, modes, late_keys>>

PollTimeout ==
    /\ pc = "poll"
    /\ screen \in Timed
    /\ pc' = "loop"
    /\ UNCHANGED <<screen, disposition, stop_requested, cleanup, modes, status, late_keys>>

\* A key that the screen uses or ignores; every key is acted on, also one that
\* is read after the stop flag was set.
KeyPressed ==
    /\ pc = "poll"
    /\ screen' \in Leads[screen]
    /\ pc' = "loop"
    /\ late_keys' = IF stop_requested /\ late_keys < MaxKeys THEN late_keys + 1 ELSE late_keys
    /\ UNCHANGED <<disposition, stop_requested, cleanup, modes, status>>

\* 'q', but for the search box; or poll or read failed.
Quit ==
    /\ pc = "poll"
    /\ \E code \in {0, 1} : Return(code)
    /\ UNCHANGED <<screen, disposition, stop_requested, cleanup, modes, late_keys>>

-----------------------------------------------------------------------------
\* exit() after main returns: the registered restore_terminal runs.

\* terminal_input_restore: tcsetattr waits for the output to drain and can fail, cut
\* short by a first stop signal or because the terminal is gone.  Its result is
\* discarded: active is cleared all the same.
RestoreModes ==
    /\ pc = "returning" /\ cleanup
    /\ \/ active /\ raw' = FALSE /\ UNCHANGED failed
       \/ active /\ failed' = failed \cup {"tcsetattr"} /\ UNCHANGED raw
       \/ ~active /\ UNCHANGED <<raw, failed>>
    /\ active' = FALSE
    /\ pc' = "modes_restored"
    /\ UNCHANGED <<screen, disposition, stop_requested, cleanup, alternate, terminal_active,
                   status, late_keys>>

\* fputs and fflush of the sequence that leaves the alternate screen; a write that
\* fails is not noticed and what stdout held is dropped.
WriteLeave ==
    \/ alternate' = FALSE /\ UNCHANGED failed
    \/ failed' = failed \cup {"write"} /\ UNCHANGED alternate

LeaveIfRestored ==                                                    \* mutant
    IF terminal_active /\ failed = {} THEN WriteLeave ELSE UNCHANGED <<alternate, failed>>
LeaveScreen == IF terminal_active THEN WriteLeave ELSE UNCHANGED <<alternate, failed>>

ExitProcess ==
    /\ \/ pc = "returning" /\ ~cleanup /\ UNCHANGED <<alternate, terminal_active, failed>>
       \/ pc = "modes_restored" /\ LeaveScreen /\ terminal_active' = FALSE
    /\ pc' = "exited"
    /\ UNCHANGED <<screen, disposition, stop_requested, cleanup, raw, active, status, late_keys>>

\* A stop signal reaches the process.  The handler sets the flag and, as System
\* V does, leaves the default action for the next one; it interrupts nanosleep
\* (wait_ns then sees the flag) and poll (taken for a timeout).  In any other
\* place the flag waits for the loop's test.  The default action ends the
\* process without running its exit handlers.
Interrupted == pc' = IF pc = "poll" THEN "loop" ELSE pc

SignalArrives(s) ==
    /\ pc \notin Ended
    /\ IF disposition[s] = "handle_stop"
       THEN /\ stop_requested' = TRUE
            /\ disposition' = [disposition EXCEPT ![s] = "default"]
            /\ Interrupted
       ELSE /\ pc' = "killed"
            /\ UNCHANGED <<stop_requested, disposition>>
    /\ UNCHANGED <<screen, cleanup, modes, status, late_keys>>

-----------------------------------------------------------------------------
Program == \/ InstallHandlers \/ RegisterCleanup \/ EnterRaw \/ EnterScreen
           \/ Loop \/ Frame \/ Sampled \/ RestoreModes \/ ExitProcess

Next == \/ Program \/ PollTimeout \/ KeyPressed \/ Quit
        \/ \E s \in StopSignals : SignalArrives(s)

\* The program runs and poll times out; no key need ever come.
Spec == Init /\ [][Next]_vars /\ WF_vars(Program) /\ WF_vars(PollTimeout)

-----------------------------------------------------------------------------
\* Whichever way run_interactive returns, after a failed startup, a stop signal,
\* a read error or 'q', and whatever signals come while the exit handler runs: a
\* process that exits leaves the raw modes on only if the handler's own tcsetattr
\* failed, the alternate screen only if its own write failed; neither failure keeps
\* the handler from undoing the other.  (A process that is killed undoes nothing.)
ExitRestoresTerminal ==
    pc = "exited" =>
        /\ raw => "tcsetattr" \in failed
        /\ alternate => "write" \in failed

\* What makes it so: the flags restore_terminal looks at follow the terminal's modes
\* until one of its own calls fails, and cleanup is registered before the first of
\* the modes is changed.
ModesTracked ==
    /\ active => raw
    /\ raw => active \/ "tcsetattr" \in failed
    /\ pc # "killed" =>
          (alternate => terminal_active \/ pc = "screen_switched" \/ "write" \in failed)
    /\ pc \notin Ended /\ (raw \/ alternate) => cleanup
    /\ pc \notin {"start", "handling", "returning"} \cup Ended => cleanup
    /\ pc = "modes_restored" => ~active
    /\ pc \notin {"modes_restored"} \cup Ended => failed = {}

\* The inductive invariant: the flags restore_terminal looks at follow the modes.
LInv ==
    /\ TypeOK
    /\ ModesTracked
    /\ ExitRestoresTerminal

\* After a stop request at most one more key is acted on, whatever was typed
\* ahead: the loop looks at the flag after every key.
OneKeyAfterStop == late_keys <= 1

\* A stop request ends the program, on every screen that samples or polls with a
\* time limit.  On the others it can miss the wait: the flag set after the loop's
\* test and before poll is seen when the next key comes.
StopHonoured == stop_requested ~> (pc \in Ended \/ (pc = "poll" /\ screen = "PROMPT"))
=============================================================================
