------------------------------- MODULE Network -------------------------------
(***************************************************************************)
(* The network line of the overview: network_read and network_rate         *)
(* (src/network.c) at the two ends of collect_overview's sample window     *)
(* (src/main.c), while interfaces carry traffic, come, go and reset.       *)
(*                                                                         *)
(* /proc/net/dev is read in one piece.  A sample is the sum over all       *)
(* interfaces but "lo"; the rate is the difference of two sums.  The       *)
(* seconds between them are left out: they only divide.                    *)
(***************************************************************************)
EXTENDS Unsigned, FiniteSetsExt

CONSTANTS
    Interfaces,     \* the names, "lo" among them
    MaxBytes,       \* bound: how far one interface counts
    MaxMoved        \* bound: bytes carried each way during the window

ASSUME NamesAssumption == "lo" \in Interfaces /\ IsFiniteSet(Interfaces)
ASSUME BytesAssumption == MaxBytes \in Nat /\ MaxMoved \in Nat /\ Word \in Nat /\ MaxBytes < Word

VARIABLES
    up,         \* the interfaces listed
    counter,    \* counter[i]: the [rx, tx] bytes of interface i
    net_pc,
    net_prev, net_curr,
    network_ok,
    rate,       \* rx_per_sec and tx_per_sec times the seconds
    \* history: what happened since the first sample
    moved,      \* bytes carried
    regressed   \* an interface was reset or removed, or one came with old counts

system   == <<up, counter, moved, regressed>>
net_vars == <<system, net_pc, net_prev, net_curr, network_ok, rate>>

Bytes == [rx : 0 .. MaxBytes, tx : 0 .. MaxBytes]
Zero  == [rx |-> 0, tx |-> 0]

NetInit ==
    /\ up \in SUBSET Interfaces
    /\ counter \in [Interfaces -> Bytes]
    /\ net_pc = "prev"
    /\ net_prev = Zero
    /\ net_curr = Zero
    /\ network_ok = TRUE
    /\ rate = Zero
    /\ moved = Zero
    /\ regressed = FALSE

-----------------------------------------------------------------------------
(* The interfaces.  They are watched during the window.                    *)

Carry(i, way) ==
    /\ i \in up
    /\ counter[i][way] < MaxBytes
    /\ moved[way] < MaxMoved
    /\ counter' = [counter EXCEPT ![i][way] = @ + 1]
    /\ moved' = IF i = "lo" THEN moved ELSE [moved EXCEPT ![way] = @ + 1]
    /\ UNCHANGED <<up, regressed>>

\* The driver is loaded anew, the counters start again.
Reset(i) ==
    /\ i \in up
    /\ counter[i] # Zero
    /\ counter' = [counter EXCEPT ![i] = Zero]
    /\ regressed' = (regressed \/ i # "lo")
    /\ UNCHANGED <<up, moved>>

\* The interface leaves or enters this network namespace, with its counts.
Move(i) ==
    /\ up' = (up \ {i}) \cup ({i} \ up)
    /\ regressed' = (regressed \/ (i # "lo" /\ counter[i] # Zero))
    /\ UNCHANGED <<counter, moved>>

System ==
    /\ net_pc = "window"
    /\ \E i \in Interfaces :
          (\E way \in {"rx", "tx"} : Carry(i, way)) \/ Reset(i) \/ Move(i)
    /\ UNCHANGED <<net_pc, net_prev, net_curr, network_ok, rate>>

-----------------------------------------------------------------------------
(* The two samples.                                                        *)

WithLoopback == up                                                    \* mutant
Counted == up \ {"lo"}

Sum(way) == MapThenSumSet(LAMBDA i : counter[i][way], Counted)

\* The guard of every addition: the partial sums only grow, so that no partial
\* sum passes UINT64_MAX exactly when the whole sum does not.
NoGuard == TRUE                                                       \* mutant
SumsFit == Sum("rx") < Word /\ Sum("tx") < Word

\* network_read
Sample == [rx |-> Sum("rx"), tx |-> Sum("tx")]

\* The first sample, or no network for this overview (the file cannot be read,
\* a sum overflows, the clock fails).
ReadPrev ==
    /\ net_pc = "prev"
    /\ \/ SumsFit /\ net_prev' = Sample /\ UNCHANGED network_ok
       \/ network_ok' = FALSE /\ UNCHANGED net_prev
    /\ net_pc' = "window"
    /\ UNCHANGED <<system, net_curr, rate>>

\* network_rate refuses sums that went back.
EitherForward == net_curr'.rx >= net_prev.rx \/ net_curr'.tx >= net_prev.tx   \* mutant
BothForward == net_curr'.rx >= net_prev.rx /\ net_curr'.tx >= net_prev.tx

ReadCurr ==
    /\ net_pc = "window"
    /\ \/ /\ network_ok /\ SumsFit
          /\ net_curr' = Sample
          /\ IF BothForward
             THEN /\ rate' = [rx |-> (net_curr'.rx - net_prev.rx) % Word,
                              tx |-> (net_curr'.tx - net_prev.tx) % Word]
                  /\ UNCHANGED network_ok
             ELSE network_ok' = FALSE /\ UNCHANGED rate
       \/ network_ok' = FALSE /\ UNCHANGED <<net_curr, rate>>
    /\ net_pc' = "done"
    /\ UNCHANGED <<system, net_prev>>

NetNext == System \/ ReadPrev \/ ReadCurr

NetSpec == NetInit /\ [][NetNext]_net_vars

-----------------------------------------------------------------------------
\* The values of both samples and of the rate: every sum fits the word.
NetTypeOK ==
    /\ up \subseteq Interfaces
    /\ counter \in [Interfaces -> Bytes]
    /\ net_pc \in {"prev", "window", "done"}
    /\ net_prev \in [rx : 0 .. Word - 1, tx : 0 .. Word - 1]
    /\ net_curr \in [rx : 0 .. Word - 1, tx : 0 .. Word - 1]
    /\ network_ok \in BOOLEAN
    /\ rate \in [rx : 0 .. Word - 1, tx : 0 .. Word - 1]
    /\ moved \in [rx : 0 .. MaxMoved, tx : 0 .. MaxMoved]
    /\ regressed \in BOOLEAN

\* With the interfaces left in peace, the overview shows the traffic of the
\* window and not the loopback's, or says that it has no network numbers.
RateIsTraffic == net_pc = "done" /\ network_ok /\ ~regressed => rate = moved

\* Whatever the interfaces do, the rate is no more than the counters there are at
\* the end account for: a sum that went back never comes out as a huge number.
NoWildRate ==
    net_pc = "done" /\ network_ok =>
        /\ rate.rx <= net_curr.rx
        /\ rate.tx <= net_curr.tx
=============================================================================
