------------------------------- MODULE Overview -------------------------------
(***************************************************************************)
(* What the overview says of a sample, and the lessons reached from it:    *)
(* the two judges of the same numbers (overall_status in src/main.c and    *)
(* diagnosis_build in src/diagnosis.c) and the screens from the overview   *)
(* through the learn menu to a topic and back (run_interactive).           *)
(*                                                                         *)
(* The sample is data chosen by the environment; how it is measured is the *)
(* subject of CpuWindow and Network.                                       *)
(***************************************************************************)
EXTENDS Integers

CONSTANTS
    Percents,   \* values cpu_percent, memory_percent and disk_percent may take
    Loads,      \* values of load1 per core, in hundredths
    Temps       \* values of thermal_c, in degrees

ASSUME ValuesAssumption ==
    Percents \subseteq 0 .. 100 /\ Loads \subseteq Nat /\ Temps \subseteq 0 .. 150

VARIABLES
    pc,         \* "frame", "key" or "done"
    screen, return_screen,
    view, view_ok,
    lesson, learn_selected

menu == <<return_screen, lesson, learn_selected>>
vars == <<pc, screen, view, view_ok, menu>>

NoTemp == -1        \* thermal_ok is 0
View == [cpu : Percents, memory : Percents, disk : Percents,
         host_ok : BOOLEAN, load1 : Loads, thermal_c : Temps \cup {NoTemp}]

Zeroed == [cpu |-> 0, memory |-> 0, disk |-> 0, host_ok |-> FALSE,
           load1 |-> 0, thermal_c |-> NoTemp]

\* enum teaching_concept, in the order of the menu
Concepts == [TEACH_CPU |-> 0, TEACH_MEMORY |-> 1, TEACH_LOAD |-> 2, TEACH_DISK |-> 7]
TEACH_COUNT == 9

Screens == {"OVERVIEW", "PROCESSES", "LEARN_MENU", "LEARN_TOPIC"}

Init ==
    /\ pc = "frame"
    /\ screen = "OVERVIEW"
    /\ return_screen = "OVERVIEW"
    /\ view = Zeroed
    /\ view_ok = FALSE
    /\ lesson = Concepts.TEACH_CPU
    /\ learn_selected = 0

-----------------------------------------------------------------------------
(* The judges.                                                             *)

load_ratio == IF view.host_ok THEN view.load1 ELSE 0

overall_status ==
    IF view.disk >= 95 THEN "CRITICAL"
    ELSE IF \/ view.cpu >= 90
            \/ view.memory >= 90
            \/ view.disk >= 85
            \/ load_ratio >= 125
            \/ view.host_ok /\ view.thermal_c >= 90
         THEN "ATTENTION"
         ELSE "HEALTHY"

\* diagnosis_build: the first rule that applies, in this order.
MemoryFirst ==                                                        \* mutant
    CASE view.memory >= 90 -> "MEMORY"
      [] view.memory < 90 /\ view.disk >= 95 -> "DISK"
      [] view.memory < 90 /\ view.disk < 95 /\ view.cpu >= 90 -> "CPU"
      [] OTHER -> IF load_ratio >= 125 THEN "LOAD" ELSE "HEALTHY"
focus ==
    IF view.disk >= 95 THEN "DISK"
    ELSE IF view.memory >= 90 THEN "MEMORY"
    ELSE IF view.cpu >= 90 THEN "CPU"
    ELSE IF load_ratio >= 125 THEN "LOAD"
    ELSE "HEALTHY"

diagnosis_lesson ==
    CASE focus = "MEMORY" -> Concepts.TEACH_MEMORY
      [] focus = "DISK" -> Concepts.TEACH_DISK
      [] focus = "LOAD" -> Concepts.TEACH_LOAD
      [] OTHER -> Concepts.TEACH_CPU

-----------------------------------------------------------------------------
(* Frames.                                                                 *)

\* refresh_overview: a new sample, or the program ends (the view is then half
\* filled and not looked at again: zeroed here).

Refresh ==
    /\ pc = "frame"
    /\ screen = "OVERVIEW"
    /\ \/ view' \in View /\ view_ok' = TRUE /\ pc' = "key"
       \/ view' = Zeroed /\ view_ok' = FALSE /\ pc' = "done"
    /\ UNCHANGED <<screen, menu>>

Draw ==
    /\ pc = "frame"
    /\ screen # "OVERVIEW"
    /\ pc' = "key"
    /\ UNCHANGED <<screen, view, view_ok, menu>>

-----------------------------------------------------------------------------
(* Keys.                                                                   *)

Press(s, next) ==
    /\ pc = "key"
    /\ screen = s
    /\ screen' = next
    /\ pc' = "frame"
    /\ UNCHANGED <<view, view_ok>>

\* A key without a meaning here, or none in time.
KeyOther == (\E s \in Screens : Press(s, s)) /\ UNCHANGED menu

KeyProcesses == Press("OVERVIEW", "PROCESSES") /\ UNCHANGED menu

\* prepare_learn_from_view
KeyExplain ==
    /\ Press("OVERVIEW", "LEARN_MENU")
    /\ lesson' = diagnosis_lesson
    /\ learn_selected' = lesson'
    /\ return_screen' = "OVERVIEW"

KeyLearn ==
    /\ Press("PROCESSES", "LEARN_MENU")
    /\ return_screen' = "PROCESSES"
    /\ UNCHANGED <<lesson, learn_selected>>

KeyMove ==
    /\ Press("LEARN_MENU", "LEARN_MENU")
    /\ \/ learn_selected > 0 /\ learn_selected' = learn_selected - 1
       \/ learn_selected + 1 < TEACH_COUNT /\ learn_selected' = learn_selected + 1
    /\ UNCHANGED <<lesson, return_screen>>

KeyTopic ==
    /\ Press("LEARN_MENU", "LEARN_TOPIC")
    /\ lesson' = learn_selected
    /\ UNCHANGED <<learn_selected, return_screen>>

NoWrap == {lesson + 1, lesson - 1}                                    \* mutant
Neighbours == {(lesson + 1) % TEACH_COUNT, (lesson + TEACH_COUNT - 1) % TEACH_COUNT}

\* 'n' and 'b': the menu's highlight goes along.
LeaveMenu == UNCHANGED learn_selected                                 \* mutant
FollowTopic == learn_selected' = lesson'

KeyTurn ==
    /\ Press("LEARN_TOPIC", "LEARN_TOPIC")
    /\ lesson' \in Neighbours
    /\ FollowTopic
    /\ UNCHANGED return_screen

KeyBack ==
    /\ \/ Press("PROCESSES", "OVERVIEW")
       \/ Press("LEARN_MENU", return_screen)
       \/ Press("LEARN_TOPIC", "LEARN_MENU")
    /\ UNCHANGED menu

\* 'q', a failed read, or stop_requested
Quit ==
    /\ pc # "done"
    /\ pc' = "done"
    /\ UNCHANGED <<screen, view, view_ok, menu>>

Next == \/ Refresh \/ Draw \/ KeyOther \/ KeyProcesses \/ KeyExplain \/ KeyLearn
        \/ KeyMove \/ KeyTopic \/ KeyTurn \/ KeyBack \/ Quit

Spec == Init /\ [][Next]_vars

-----------------------------------------------------------------------------
\* The values of the screens' variables: lesson and menu highlight stay inside the
\* table of lessons.
TypeOK ==
    /\ pc \in {"frame", "key", "done"}
    /\ screen \in Screens
    /\ return_screen \in {"OVERVIEW", "PROCESSES"}
    /\ view \in View \cup {Zeroed}
    /\ view_ok \in BOOLEAN
    /\ lesson \in 0 .. TEACH_COUNT - 1
    /\ learn_selected \in 0 .. TEACH_COUNT - 1

\* The banner and the explanation are made by two functions from the same
\* numbers, each with limits of its own, and stand on one screen. A constraint
\* the explanation names is never under a HEALTHY banner, and CRITICAL is always
\* explained by the full disk. They do contradict each other the other way round,
\* ATTENTION above "Nothing looks constrained": for a disk from 85 percent on or
\* a zone from 90 degrees on, which diagnosis_build does not look at, and for
\* nothing else.
VerdictsAgree ==
    /\ focus # "HEALTHY" => overall_status # "HEALTHY"
    /\ overall_status = "CRITICAL" <=> focus = "DISK"
    /\ overall_status = "ATTENTION" /\ focus = "HEALTHY" =>
          view.disk >= 85 \/ (view.host_ok /\ view.thermal_c >= 90)

\* Escape from a topic finds the menu's highlight on that topic, however many
\* topics were turned.
MenuFollowsTopic == screen = "LEARN_TOPIC" => learn_selected = lesson

\* diagnosis.c: "CPU, available memory, load, and root storage all have
\* comfortable room."  The banner above it may say ATTENTION, for a disk 85 to 95
\* percent full.
ComfortIsHealthy ==
    view_ok /\ focus = "HEALTHY" /\ (view.host_ok => view.thermal_c < 90)
        => overall_status = "HEALTHY"
=============================================================================
