---------------------------- MODULE GuardedSignal ----------------------------
(***************************************************************************)
(* What RookieTop promises of signals, with nothing of how: the user is    *)
(* asked about one process and one signal, and the signal is delivered, at *)
(* most once for one question, under exactly that name and with exactly    *)
(* that signal; it is never RookieTop itself, and never a process whose    *)
(* start time is unknown.                                                  *)
(***************************************************************************)
EXTENDS Integers

CONSTANTS Pids, Self, Starts

VARIABLES
    asked,      \* the question on the screen, Nobody if none
    delivered   \* the signal just delivered, Nobody if none

Nobody  == [pid |-> 0]
Request == [pid : Pids, start : Starts, signal : {"SIGTERM", "SIGKILL"}]

Init ==
    /\ asked = Nobody
    /\ delivered = Nobody

Ask ==
    /\ asked = Nobody
    /\ asked' \in Request
    /\ UNCHANGED delivered

Withdraw ==
    /\ asked # Nobody
    /\ asked' = Nobody
    /\ UNCHANGED delivered

Deliver ==
    /\ asked # Nobody
    /\ asked.pid # Self
    /\ asked.start # 0
    /\ delivered' = asked
    /\ asked' = Nobody

Forget ==
    /\ delivered' = Nobody
    /\ UNCHANGED asked

Next == Ask \/ Withdraw \/ Deliver \/ Forget

Spec == Init /\ [][Next]_<<asked, delivered>>
=============================================================================
