------------------------------ MODULE KeyDecoder ------------------------------
(***************************************************************************)
(* The keyboard: terminal_input_read_key (src/terminal_input.c), which     *)
(* makes keys of the bytes a terminal sends, and the screens of            *)
(* run_interactive (src/main.c) where one letter too many would matter:    *)
(* the search box, which collects letters, and the confirm screen, where   *)
(* 'y' sends a signal.                                                     *)
(*                                                                         *)
(* A key is sent as one byte or as several; those of one key may arrive    *)
(* apart (a slow line) and those of several keys together (typed ahead).   *)
(* A byte carries the number of the press it belongs to.                   *)
(***************************************************************************)
EXTENDS Naturals, Sequences, SequencesExt

CONSTANTS
    Keys,       \* the keys the user presses
    MaxKeys,    \* bound: how many presses
    Limit       \* PROCESS_SEARCH_MAX, with the terminating zero

ASSUME LimitAssumption == MaxKeys \in Nat /\ Limit \in Nat \ {0}

VARIABLES
    pressed,    \* the keys pressed so far
    wire,       \* bytes sent and not yet arrived
    input,      \* bytes at STDIN_FILENO
    pc,         \* where the program is
    read,       \* the bytes this call of terminal_input_read_key has read
    key,        \* what it returned
    screen, search, search_draft,
    \* history
    delivered,  \* the keys returned
    disturbed,  \* a sequence was cut, run together with the next key, or not understood
    sent        \* number of the press that sent the latest signal, 0 if none

typing  == <<pressed, wire>>
decoder == <<input, read, key, delivered, disturbed>>
boxes   == <<search, search_draft>>
vars    == <<typing, decoder, pc, screen, boxes, sent>>

Screens == {"OVERVIEW", "PROCESSES", "SEARCH", "DETAIL", "CONFIRM"}

\* What a terminal sends for a key.
Sends(k) ==
    CASE k = "ENTER"  -> <<"CR">>
      [] k = "ESCAPE" -> <<"ESC">>
      [] k = "UP"     -> <<"ESC", "[", "A">>
      [] k = "DOWN"   -> <<"ESC", "[", "B">>
      [] k = "DELETE" -> <<"ESC", "[", "3", "~">>
      [] k = "F2"     -> <<"ESC", "O", "Q">>
      [] k = "ALT_Y"  -> <<"ESC", "y">>
      [] OTHER        -> <<k>>

Init ==
    /\ pressed = << >> /\ wire = << >> /\ input = << >>
    /\ pc = "frame"
    /\ read = << >> /\ key = "NONE"
    /\ screen \in Screens
    /\ search = << >> /\ search_draft = << >>
    /\ delivered = << >> /\ disturbed = FALSE /\ sent = 0

-----------------------------------------------------------------------------
(* The user and the terminal.                                              *)

Press(k) ==
    /\ Len(pressed) < MaxKeys
    /\ pressed' = Append(pressed, k)
    /\ wire' = wire \o [i \in DOMAIN Sends(k) |-> [of |-> Len(pressed'), sym |-> Sends(k)[i]]]
    /\ UNCHANGED <<decoder, pc, screen, boxes, sent>>

Arrive ==
    /\ wire # << >>
    /\ input' = Append(input, Head(wire))
    /\ wire' = Tail(wire)
    /\ UNCHANGED <<pressed, read, key, delivered, disturbed, pc, screen, boxes, sent>>

-----------------------------------------------------------------------------
(* terminal_input_read_key.                                                *)

Elsewhere == UNCHANGED <<typing, screen, boxes, sent>>

Return(k) ==
    /\ key' = k
    /\ delivered' = IF k \in {"NONE", "ERROR"} THEN delivered ELSE Append(delivered, k)
    /\ pc' = "act"

Goto(next) == pc' = next /\ UNCHANGED <<key, delivered>>

Take ==
    /\ read' = Append(read, Head(input))
    /\ input' = Tail(input)

Disturbed(now) == disturbed' = (disturbed \/ now)

\* wait_input(timeout_ms): there is input, or the time is up or a signal came, or
\* poll fails.
WaitKey ==
    /\ pc = "wait"
    /\ \/ input # << >> /\ Goto("first")
       \/ input = << >> /\ Return("NONE")
       \/ Return("ERROR")
    /\ UNCHANGED <<input, read, disturbed>>
    /\ Elsewhere

ReadFirst ==
    /\ pc = "first"
    /\ Take
    /\ LET b == Head(input).sym
       IN  IF b = "ESC" THEN Goto("wait2") ELSE Return(IF b = "CR" THEN "ENTER" ELSE b)
    /\ UNCHANGED disturbed
    /\ Elsewhere

\* What a call returns that found an Escape and no arrow after it.
Ignored == Return("NONE")                                             \* mutant
NotAnArrow == Return("ESCAPE")

\* wait_input(8) inside a sequence: the rest is there, or the time is up and it
\* was a lone Escape, or poll fails.
NoLimit == FALSE                                                      \* mutant
TimeLimit == input = << >> /\ NotAnArrow

WaitRest ==
    /\ pc \in {"wait2", "wait3"}
    /\ \/ input # << >> /\ Goto(IF pc = "wait2" THEN "second" ELSE "third")
          /\ UNCHANGED disturbed
       \/ TimeLimit /\ Disturbed(wire # << >> /\ Head(wire).of = Last(read).of)
    /\ UNCHANGED <<input, read>>
    /\ Elsewhere

\* Both bytes so far are of one press.
OnePress == Head(input).of = Last(read).of

ReadSecond ==
    /\ pc = "second"
    /\ Take
    /\ IF Head(input).sym = "[" THEN Goto("wait3") ELSE NotAnArrow
    /\ Disturbed(~OnePress \/ Head(input).sym # "[")
    /\ Elsewhere

Swapped(b) ==                                                         \* mutant
    CASE b = "A" -> Return("DOWN")
      [] b = "B" -> Return("UP")
      [] OTHER   -> NotAnArrow
Arrow(b) ==
    CASE b = "A" -> Return("UP")
      [] b = "B" -> Return("DOWN")
      [] OTHER   -> NotAnArrow

ReadThird ==
    /\ pc = "third"
    /\ Take
    /\ Arrow(Head(input).sym)
    /\ Disturbed(~OnePress \/ Head(input).sym \notin {"A", "B"})
    /\ Elsewhere

\* read is interrupted or fails, or poll does inside a sequence: no key, or the
\* Escape so far.
ReadFails ==
    /\ \/ pc = "first" /\ Return("NONE") /\ UNCHANGED disturbed
       \/ pc \in {"wait2", "second", "wait3", "third"} /\ NotAnArrow /\ Disturbed(TRUE)
    /\ UNCHANGED <<input, read>>
    /\ Elsewhere

-----------------------------------------------------------------------------
(* run_interactive: a frame, and what its screen does with the key.        *)

\* The screens about one process leave for the list when it is gone, before they
\* read a key.
Frame ==
    /\ pc = "frame"
    /\ \/ pc' = "wait" /\ UNCHANGED screen
       \/ screen \in {"DETAIL", "CONFIRM"} /\ screen' = "PROCESSES" /\ UNCHANGED pc
    /\ read' = << >>
    /\ UNCHANGED <<typing, input, key, delivered, disturbed, boxes, sent>>

On(s, keys) == screen = s /\ key \in keys
Editing == {"BACKSPACE", "ENTER", "ESCAPE"}
Printable == {"/", "k", "p", "y", "q", "n", "Q", "[", "A", "B", "O", "3", "~"}

\* The keys a terminal sends several bytes or a control character for.
Named == {"ENTER", "ESCAPE", "UP", "DOWN", "DELETE", "F2", "ALT_Y", "BACKSPACE"}

ASSUME KeysAssumption == Keys \subseteq Printable \cup Named

\* edit_process_search
NoRoomTest == Append(search_draft, read[1])                           \* mutant
Typed == IF Len(search_draft) + 1 < Limit THEN Append(search_draft, read[1]) ELSE search_draft

Edit ==
    \/ On("SEARCH", {"BACKSPACE"})
       /\ search_draft' = IF search_draft = << >> THEN << >> ELSE Front(search_draft)
    \/ On("SEARCH", Printable) /\ search_draft' = Typed
    \/ On("PROCESSES", {"/"}) /\ search_draft' = search

\* Keys that change a box, the screen, or both.
Boxes ==
    \/ Edit /\ UNCHANGED search
    \/ On("SEARCH", {"ENTER"}) /\ search' = search_draft /\ UNCHANGED search_draft
    \/ ~On("SEARCH", Printable \cup {"BACKSPACE", "ENTER"}) /\ ~On("PROCESSES", {"/"})
       /\ UNCHANGED boxes

\* Where a key may lead; opening a process can fail.
NextScreens ==
    CASE On("OVERVIEW", {"p"}) -> {"PROCESSES"}
      [] On("PROCESSES", {"ESCAPE"}) -> {"OVERVIEW"}
      [] On("PROCESSES", {"/"}) -> {"SEARCH"}
      [] On("PROCESSES", {"ENTER"}) -> {"DETAIL", "PROCESSES"}
      [] On("PROCESSES", {"k"}) \/ On("DETAIL", {"k"}) -> {"CONFIRM", "PROCESSES"}
      [] On("SEARCH", {"ENTER", "ESCAPE"}) -> {"PROCESSES"}
      [] On("DETAIL", {"ESCAPE"}) -> {"PROCESSES"}
      [] On("CONFIRM", {"y", "n", "ESCAPE"}) -> {"PROCESSES"}
      [] OTHER -> {screen}

Act ==
    /\ pc = "act"
    /\ key # "ERROR"
    /\ Boxes
    /\ screen' \in NextScreens
    /\ sent' = IF On("CONFIRM", {"y"}) THEN read[1].of ELSE sent
    /\ pc' = IF key \in {"q", "Q"} /\ screen # "SEARCH" THEN "done" ELSE "frame"
    /\ UNCHANGED <<typing, decoder>>

Fail ==
    /\ pc = "act"
    /\ key = "ERROR"
    /\ pc' = "done"
    /\ UNCHANGED <<typing, decoder, screen, boxes, sent>>

Decoder == ReadFirst \/ WaitRest \/ ReadSecond \/ ReadThird
Program == WaitKey \/ Decoder \/ Frame \/ Act \/ Fail

Next == (\E k \in Keys : Press(k)) \/ Arrive \/ Program \/ ReadFails

Spec == Init /\ [][Next]_vars

\* Only that the program runs, and that a time limit ends, is assumed.
FairSpec == Spec /\ WF_vars(Decoder)

-----------------------------------------------------------------------------
Byte == [of : 1 .. MaxKeys, sym : Printable \cup {"ESC", "CR", "BACKSPACE"}]

\* The values of the keyboard's variables: a call reads at most three bytes, and the
\* search box never outgrows its array.
TypeOK ==
    /\ pressed \in Seq(Keys)
    /\ wire \in Seq(Byte) /\ input \in Seq(Byte) /\ read \in Seq(Byte)
    /\ Len(read) <= 3
    /\ pc \in {"frame", "wait", "first", "wait2", "second", "wait3", "third", "act", "done"}
    /\ screen \in Screens
    /\ search \in Seq(Byte) /\ search_draft \in Seq(Byte)
    /\ Len(search) < Limit /\ Len(search_draft) < Limit
    /\ sent \in 0 .. MaxKeys

\* As long as every sequence arrived in one piece, nothing followed an Escape within
\* its time limit and only keys the decoder knows were pressed, the screens get
\* exactly the keys pressed, in order: nothing is lost, invented or swapped.
KeysAsPressed == ~disturbed => IsPrefix(delivered, pressed)

PressedItself(b) == Sends(pressed[b.of]) = <<b.sym>>

\* Whatever is torn apart or swallowed, the search text holds only characters whose
\* own keys were pressed: the rest of a sequence the decoder gave up on never gets
\* there, because what it gave up on came out as Escape and closed the box.
SearchWasTyped ==
    \A b \in ToSet(search) \cup ToSet(search_draft) : PressedItself(b)

\* A signal is sent only for a press of 'y' itself, never for a piece of a longer key.
SignalWasTyped == sent # 0 => pressed[sent] = "y"

\* A lone Escape is answered without another key, and no call is left hanging inside
\* a sequence.
EscapeAnswered == pc \in {"wait2", "second", "wait3", "third"} ~> pc \in {"act", "done"}
=============================================================================
