---------------------------- MODULE CpuWindowProofs ----------------------------
EXTENDS CpuWindow, Sums, TLAPS

\* Rows, counters and infos are of PIDs and start times there are, and no process
\* has used more ticks than the machine ran.
WTypes ==
    /\ TypeOK
    /\ \A p \in Pids : ticks[p] <= total
    /\ pc # "done" => cpu_percent = << >>

\* Ticks charged to a process are its own, its PID has since gone only to later
\* processes, and the shares are made only with a window that was not empty.
Charged ==
    /\ \A i \in items :
          /\ i.starttime <= last[i.pid]
          /\ i.delta > 0 => OwnTicks(i, i.delta)
    /\ pc \in {"prev", "snapshot", "list"} => items = {}
    /\ cpu_sample_ok => cpu_curr > cpu_prev
    /\ pc \in {"prev", "snapshot"} => ~cpu_sample_ok
    /\ pc = "since" => cpu_sample_ok

WInv == WTypes /\ Charged /\ SharesAreOwn

\* A difference of tick counts in order does not wrap.
LEMMA InOrderNoWrap ==
    ASSUME NEW now \in 0 .. MaxTicks, NEW before \in 0 .. MaxTicks, before <= now
    PROVE  (now - before) % Word = now - before
<1>1. now - before \in 0 .. Word - 1 /\ Word \in Nat \ {0}
    BY TicksAssumption
<1>2. ASSUME NEW w \in Nat \ {0}, NEW x \in 0 .. w - 1 PROVE x % w = x
    BY <1>2, SMTT(30)
<1> QED
    BY <1>1, <1>2

\* The machine runs on; nothing the program holds is touched.
LEMMA MachineKeepsWInv == ASSUME WInv, Machine PROVE WInv'
<1> USE DEF WInv, sample
<1>1. /\ pc # "done"
      /\ UNCHANGED <<pc, cpu_prev, cpu_curr, previous, cpu_sample_ok, rows, items, todo, cpu_percent>>
    BY DEF Machine
<1>2. SharesAreOwn'
    BY <1>1 DEF SharesAreOwn
<1>3. /\ KernelTypeOK'
      /\ total' \in 0 .. MaxTicks
      /\ ticks' \in [Pids -> 0 .. MaxTicks]
      /\ \A p \in Pids : ticks'[p] <= total'
  <2> USE DEF WTypes, TypeOK
  <2>1. CASE Tick
    <3>1. total' = total + 1 /\ total' \in 0 .. MaxTicks /\ UNCHANGED <<alive, last>>
      BY <2>1, TicksAssumption DEF Tick, kernel
    <3>2. CASE UNCHANGED ticks
      BY <3>1, <3>2, TicksAssumption DEF KernelTypeOK
    <3>3. CASE \E p \in Pids : alive[p] /\ ticks' = [ticks EXCEPT ![p] = @ + 1]
      <4>1. PICK p \in Pids : ticks' = [ticks EXCEPT ![p] = @ + 1]
        BY <3>3
      <4>2. ticks[p] + 1 <= total + 1 /\ ticks[p] + 1 \in 0 .. MaxTicks
        BY <3>1, TicksAssumption
      <4>3. \A q \in Pids : ticks'[q] <= total'
        BY <3>1, <4>1, <4>2, TicksAssumption
      <4> QED
        BY <3>1, <4>1, <4>2, <4>3 DEF KernelTypeOK
    <3> QED
      BY <2>1, <3>2, <3>3 DEF Tick
  <2>2. CASE \E p \in Pids : Replace(p)
    <3>1. PICK p \in Pids : Replace(p)
      BY <2>2
    <3>2. CASE Fork(p)
      <4>1. PICK t \in Starts : last' = [last EXCEPT ![p] = t] /\ alive' = [alive EXCEPT ![p] = TRUE]
        BY <3>2 DEF Fork
      <4>2. KernelTypeOK'
        BY <4>1 DEF KernelTypeOK
      <4>3. UNCHANGED total
        BY <3>1 DEF Replace
      <4>4. ticks' = [ticks EXCEPT ![p] = 0] \/ UNCHANGED ticks
        BY <3>1 DEF Replace
      <4> QED
        BY <4>2, <4>3, <4>4, TicksAssumption
    <3>3. CASE Exit(p) /\ UNCHANGED ticks
      BY <3>1, <3>3 DEF Replace, Exit, KernelTypeOK
    <3> QED
      BY <3>1, <3>2, <3>3 DEF Replace
  <2> QED
    BY <2>1, <2>2 DEF Machine
<1>4. WTypes'
    BY <1>1, <1>3 DEF WTypes, TypeOK
<1>5. ASSUME NEW i \in items
      PROVE  i.starttime <= last'[i.pid] /\ (i.delta > 0 => OwnTicks(i, i.delta)')
  <2> USE DEF WTypes, TypeOK
  <2>1. /\ i.pid \in Pids /\ i.delta \in 0 .. MaxTicks /\ i.starttime \in Int
        /\ i.starttime <= last[i.pid]
        /\ i.delta > 0 => OwnTicks(i, i.delta)
    BY DEF Info, Starts, Charged
  <2>2. last[i.pid] \in Int /\ last'[i.pid] \in Int /\ ticks[i.pid] \in Int /\ ticks'[i.pid] \in Int
    BY <1>3, <2>1, TicksAssumption DEF KernelTypeOK, Starts, Never
  <2>3. \/ last'[i.pid] = last[i.pid] /\ ticks'[i.pid] >= ticks[i.pid]
        \/ last'[i.pid] > last[i.pid]
    <3>1. CASE Tick
      <4>1. UNCHANGED last
        BY <3>1 DEF Tick, kernel
      <4>2. UNCHANGED ticks \/ \E p \in Pids : ticks' = [ticks EXCEPT ![p] = @ + 1]
        BY <3>1 DEF Tick
      <4> QED
        BY <2>1, <2>2, <4>1, <4>2
    <3>2. CASE \E p \in Pids : Replace(p)
      <4>1. PICK p \in Pids : Replace(p)
        BY <3>2
      <4>2. CASE Exit(p) /\ UNCHANGED ticks
        BY <2>2, <4>2 DEF Exit
      <4>3. CASE Fork(p) /\ ticks' = [ticks EXCEPT ![p] = 0]
        <5>1. PICK t \in Starts : t > last[p] /\ last' = [last EXCEPT ![p] = t]
          BY <4>3 DEF Fork
        <5>2. CASE i.pid = p
          BY <2>1, <5>1, <5>2 DEF KernelTypeOK
        <5>3. CASE i.pid # p
          BY <2>1, <2>2, <4>3, <5>1, <5>3 DEF KernelTypeOK
        <5> QED
          BY <5>2, <5>3
      <4> QED
        BY <4>1, <4>2, <4>3 DEF Replace
    <3> QED
      BY <3>1, <3>2 DEF Machine
  <2>4. i.starttime <= last'[i.pid]
    BY <2>1, <2>2, <2>3
  <2>5. i.delta > 0 => OwnTicks(i, i.delta)'
    <3> SUFFICES ASSUME i.delta > 0 PROVE OwnTicks(i, i.delta)'
        OBVIOUS
    <3>1. PICK o \in previous :
            /\ o.pid = i.pid /\ o.starttime = i.starttime
            /\ last[i.pid] = i.starttime => o.ticks + i.delta <= ticks[i.pid]
      BY <2>1 DEF OwnTicks
    <3>2. o.ticks \in Int /\ i.delta \in Int
      BY <2>1, TicksAssumption DEF Counter
    <3>3. last'[i.pid] = i.starttime => o.ticks + i.delta <= ticks'[i.pid]
      BY <2>1, <2>2, <2>3, <3>1, <3>2
    <3> QED
      BY <1>1, <3>1, <3>3 DEF OwnTicks
  <2> QED
    BY <2>4, <2>5
<1>6. Charged'
    BY <1>1, <1>5 DEF Charged
<1> QED
    BY <1>2, <1>4, <1>6

\* The snapshot and the two readings of the machine's ticks.
LEMMA SnapshotKeepsWInv == ASSUME WInv, ReadPrev \/ SnapshotOne \/ ReadCurr PROVE WInv'
<1> USE DEF WInv, WTypes, TypeOK, machine
<1>1. CASE ReadPrev
  <2>1. pc = "prev" /\ pc' \in {"snapshot", "list"} /\ todo' = Pids /\ cpu_prev' \in {cpu_prev, total}
    BY <1>1 DEF ReadPrev, Goto
  <2>2. UNCHANGED <<alive, last, total, ticks, cpu_curr, previous, cpu_sample_ok, rows, items, cpu_percent>>
    BY <1>1 DEF ReadPrev
  <2> QED
    BY <2>1, <2>2 DEF Charged, SharesAreOwn, KernelTypeOK
<1>2. CASE SnapshotOne
  <2>1. /\ pc = "snapshot"
        /\ UNCHANGED <<alive, last, total, ticks, pc, cpu_prev, cpu_curr, cpu_sample_ok, rows, items, cpu_percent>>
    BY <1>2 DEF SnapshotOne
  <2>2. PICK p \in Pids :
          /\ todo' = todo \ {p}
          /\ \/ /\ alive[p]
                /\ previous' = previous \cup
                     {[pid |-> p, ticks |-> ticks[p], starttime |-> last[p]]}
             \/ UNCHANGED previous
    BY <1>2 DEF SnapshotOne, Visit
  <2>3. alive[p] => [pid |-> p, ticks |-> ticks[p], starttime |-> last[p]] \in Counter
    BY DEF Counter, KernelTypeOK
  <2>4. \A o \in previous' : o \in Counter
    BY <2>2, <2>3
  <2> QED
    BY <2>1, <2>2, <2>4 DEF Charged, SharesAreOwn, KernelTypeOK
<1>3. CASE ReadCurr
  <2>1. /\ pc = "snapshot" /\ pc' = "list" /\ todo' = Pids
        /\ UNCHANGED <<alive, last, total, ticks, cpu_prev, previous, rows, items, cpu_percent>>
    BY <1>3 DEF ReadCurr, Goto
  <2>2. /\ cpu_curr' \in {cpu_curr, total}
        /\ cpu_sample_ok' \in BOOLEAN /\ (cpu_sample_ok' => cpu_curr' > cpu_prev)
    <3>1. CASE cpu_curr' = total /\ cpu_sample_ok' = MovedOn
      <4>1. cpu_sample_ok' \in BOOLEAN
        BY <3>1 DEF MovedOn
      <4>2. cpu_sample_ok' => MovedOn
        BY <3>1
      <4> QED
        BY <3>1, <4>1, <4>2 DEF MovedOn
    <3>2. CASE cpu_sample_ok' = FALSE /\ UNCHANGED cpu_curr
      BY <3>2
    <3> QED
      BY <1>3, <3>1, <3>2 DEF ReadCurr
  <2>3. WTypes'
    BY <2>1, <2>2 DEF KernelTypeOK
  <2>4. Charged'
    BY <2>1, <2>2 DEF Charged
  <2> QED
    BY <2>1, <2>3, <2>4 DEF SharesAreOwn
<1> QED
  BY <1>1, <1>2, <1>3

\* The list, and the frames without shares.
LEMMA ListKeepsWInv ==
    ASSUME WInv, ListOne \/ ListDone \/ ListFails \/ SinceFails
    PROVE  WInv'
<1> USE DEF WInv, WTypes, TypeOK, machine, sample
<1>1. CASE ListOne
  <2>1. /\ pc = "list"
        /\ UNCHANGED <<alive, last, total, ticks, pc, cpu_prev, cpu_curr, previous, cpu_sample_ok, items, cpu_percent>>
    BY <1>1 DEF ListOne
  <2>2. PICK p \in Pids :
          /\ todo' = todo \ {p}
          /\ \/ alive[p] /\ rows' = rows \cup {[pid |-> p, starttime |-> last[p]]}
             \/ UNCHANGED rows
    BY <1>1 DEF ListOne, Visit
  <2>3. alive[p] => [pid |-> p, starttime |-> last[p]] \in Row
    BY DEF Row, KernelTypeOK
  <2>4. (\A r \in rows' : r \in Row) /\ rows \subseteq rows'
    BY <2>2, <2>3
  <2> QED
    BY <2>1, <2>2, <2>4 DEF Charged, SharesAreOwn, KernelTypeOK
<1>2. ASSUME pc \in {"list", "since"}, pc' = "done", cpu_percent' = [r \in rows |-> Unknown],
             UNCHANGED <<alive, last, total, ticks, cpu_prev, cpu_curr, previous, cpu_sample_ok, rows, items>>,
             todo' \subseteq Pids
      PROVE  WInv'
  <2>1. Shared' = {}
    BY <1>2 DEF Shared
  <2> QED
    BY <1>2, <2>1 DEF Charged, OwnTicks, SharesAreOwn, KernelTypeOK
<1>3. CASE ListDone
  <2>1. CASE cpu_sample_ok
    BY <1>3, <2>1 DEF ListDone, Goto, Charged, OwnTicks, SharesAreOwn, KernelTypeOK
  <2>2. CASE ~cpu_sample_ok
    BY <1>2, <1>3, <2>2 DEF ListDone
  <2> QED
    BY <2>1, <2>2
<1>4. CASE ListFails
  <2>1. Shared' = {} /\ DOMAIN cpu_percent' = {} /\ pc = "list"
    BY <1>4 DEF ListFails, Shared
  <2> QED
    BY <1>4, <2>1 DEF ListFails, Charged, OwnTicks, SharesAreOwn, KernelTypeOK
<1>5. CASE SinceFails
  BY <1>2, <1>5 DEF SinceFails
<1> QED
  BY <1>1, <1>3, <1>4, <1>5

\* The second counters, and the shares.
LEMMA SinceKeepsWInv == ASSUME WInv, SinceOne \/ SinceDone PROVE WInv'
<1> USE DEF WInv, WTypes, TypeOK, machine, sample
<1>1. CASE SinceOne
  <2>1. /\ pc = "since"
        /\ UNCHANGED <<alive, last, total, ticks, pc, cpu_prev, cpu_curr, previous, cpu_sample_ok, rows, cpu_percent>>
    BY <1>1 DEF SinceOne
  <2>2. PICK p \in Pids :
          /\ todo' = todo \ {p}
          /\ \/ /\ alive[p]
                /\ LET old == {o \in previous : SameProcess(o, p, last[p], ticks[p])}
                       delta == IF old = {} THEN 0
                                ELSE (ticks[p] - (CHOOSE o \in old : TRUE).ticks) % Word
                   IN  items' = items \cup
                         {[pid |-> p, delta |-> delta, starttime |-> last[p]]}
             \/ UNCHANGED items
    BY <1>1 DEF SinceOne, Visit
  <2>3. CASE UNCHANGED items
    BY <2>1, <2>2, <2>3 DEF Charged, OwnTicks, SharesAreOwn, KernelTypeOK
  <2>4. CASE ~UNCHANGED items
    <3> DEFINE old   == {o \in previous : SameProcess(o, p, last[p], ticks[p])}
               delta == IF old = {} THEN 0
                        ELSE (ticks[p] - (CHOOSE o \in old : TRUE).ticks) % Word
               new   == [pid |-> p, delta |-> delta, starttime |-> last[p]]
    <3>1. alive[p] /\ items' = items \cup {new}
      BY <2>2, <2>4
    <3>2. /\ delta \in 0 .. MaxTicks
          /\ delta > 0 => \E o \in previous : /\ o.pid = p /\ o.starttime = last[p]
                                              /\ o.ticks + delta <= ticks[p]
      <4>1. CASE old = {}
        BY <4>1, TicksAssumption
      <4>2. CASE old # {}
        <5>1. PICK o \in old : o = (CHOOSE x \in old : TRUE)
          BY <4>2
        <5>2. o \in previous /\ o \in Counter /\ SameProcess(o, p, last[p], ticks[p])
          BY <5>1
        <5>3. /\ o.ticks \in 0 .. MaxTicks /\ ticks[p] \in 0 .. MaxTicks
              /\ o.ticks <= ticks[p] /\ o.pid = p /\ o.starttime = last[p]
          BY <5>2 DEF Counter, SameProcess
        <5> HIDE DEF WInv, WTypes, TypeOK, delta, new, old
        <5>4. (ticks[p] - o.ticks) % Word = ticks[p] - o.ticks
          BY <5>3, InOrderNoWrap
        <5>5. delta = ticks[p] - o.ticks
          BY <4>2, <5>1, <5>4 DEF delta
        <5> QED
          BY <5>2, <5>3, <5>5, TicksAssumption
      <4> QED
        BY <4>1, <4>2
    <3> HIDE DEF delta
    <3>3. new \in Info
      BY <3>1, <3>2 DEF Info, KernelTypeOK
    <3>4. \A i \in items' : i \in Info
      BY <3>1, <3>3
    <3>5. new.pid = p /\ new.delta = delta /\ new.starttime = last[p] /\ last[p] \in Int
      BY <3>1 DEF KernelTypeOK, Starts
    <3> HIDE DEF new
    <3>6. delta > 0 => OwnTicks(new, delta)
      BY <3>2, <3>5 DEF OwnTicks
    <3>7. ASSUME NEW i \in items'
          PROVE  i.starttime <= last[i.pid] /\ (i.delta > 0 => OwnTicks(i, i.delta))
      <4>1. CASE i \in items
        BY <4>1 DEF Charged
      <4>2. CASE i = new
        BY <3>5, <3>6, <4>2
      <4> QED
        BY <3>1, <4>1, <4>2
    <3>8. Charged'
      BY <2>1, <3>7 DEF Charged, OwnTicks
    <3> QED
      BY <2>1, <2>2, <3>4, <3>8 DEF SharesAreOwn, KernelTypeOK
  <2> QED
    BY <2>3, <2>4
<1>2. CASE SinceDone
  <2>1. /\ pc = "since" /\ pc' = "done"
        /\ cpu_percent' = [r \in rows |->
             LET mine == {i \in items : OfRow(i, r)}
             IN  IF mine = {} THEN Unknown
                 ELSE [ticks |-> (CHOOSE i \in mine : TRUE).delta, over |-> cpu_curr - cpu_prev]]
        /\ UNCHANGED <<alive, last, total, ticks, cpu_prev, cpu_curr, previous, cpu_sample_ok, rows, items, todo>>
    BY <1>2 DEF SinceDone
  <2>2. cpu_curr > cpu_prev
    BY <2>1 DEF Charged
  <2>3. ASSUME NEW r \in Shared'
        PROVE  /\ cpu_percent'[r].over > 0
               /\ \E i \in items : i.pid = r.pid /\ i.starttime = r.starttime
               /\ cpu_percent'[r].ticks = 0 \/ OwnTicks(r, cpu_percent'[r].ticks)
    <3> DEFINE mine == {i \in items : OfRow(i, r)}
    <3>1. r \in rows /\ cpu_percent'[r] # Unknown
      BY <2>1, <2>3 DEF Shared
    <3>2. mine # {} /\ cpu_percent'[r] = [ticks |-> (CHOOSE i \in mine : TRUE).delta,
                                          over |-> cpu_curr - cpu_prev]
      BY <2>1, <3>1
    <3>3. PICK i \in mine : i = (CHOOSE x \in mine : TRUE)
      BY <3>2
    <3>4. cpu_percent'[r].ticks = i.delta /\ cpu_percent'[r].over = cpu_curr - cpu_prev
      BY <3>2, <3>3
    <3>5. i \in items /\ i.pid = r.pid /\ i.starttime = r.starttime
      BY <3>3 DEF OfRow
    <3>6. cpu_percent'[r].over > 0
      BY <2>2, <3>4
    <3>7. i.delta \in 0 .. MaxTicks /\ (i.delta > 0 => OwnTicks(i, i.delta))
      BY <3>5 DEF Charged, Info
    <3>8. i.delta = 0 \/ OwnTicks(r, i.delta)
      BY <3>5, <3>7, TicksAssumption DEF OwnTicks
    <3> QED
      BY <3>4, <3>5, <3>6, <3>8
  <2>4. SharesAreOwn'
    BY <2>1, <2>3 DEF SharesAreOwn, OwnTicks
  <2> QED
    BY <2>1, <2>4 DEF Charged, OwnTicks, KernelTypeOK
<1> QED
  BY <1>1, <1>2

\* The inductive invariant of the sample, for any processes and any machine.
THEOREM WindowInvariance == Spec => []WInv
<1>1. Init => WInv
  <2> SUFFICES ASSUME Init PROVE WInv
      OBVIOUS
  <2>1. 0 \in 0 .. MaxTicks
    BY TicksAssumption
  <2>2. KernelTypeOK
    BY DEF Init, KernelInit, KernelTypeOK
  <2>3. ticks = [p \in Pids |-> 0] /\ total = 0
    BY DEF Init
  <2>4. ticks \in [Pids -> 0 .. MaxTicks] /\ \A p \in Pids : ticks[p] <= total
    BY <2>1, <2>3
  <2>5. TypeOK
    <3>1. cpu_sample_ok \in BOOLEAN
      BY DEF Init
    <3>2. /\ total \in 0 .. MaxTicks
          /\ cpu_prev \in 0 .. MaxTicks /\ cpu_curr \in 0 .. MaxTicks
      BY <2>1 DEF Init
    <3>3. /\ pc \in {"prev", "snapshot", "list", "since", "done"}
          /\ previous = {} /\ rows = {} /\ items = {} /\ todo = {}
          /\ DOMAIN cpu_percent = {}
      BY DEF Init
    <3> QED
      BY <2>2, <2>4, <3>1, <3>2, <3>3 DEF TypeOK
  <2>6. Charged /\ SharesAreOwn
    BY DEF Init, Charged, SharesAreOwn
  <2> QED
    BY <2>4, <2>5, <2>6 DEF Init, WInv, WTypes
<1>2. WInv /\ [Next]_vars => WInv'
  <2>1. WInv /\ UNCHANGED vars => WInv'
    <3> SUFFICES ASSUME WInv, UNCHANGED vars PROVE WInv'
        OBVIOUS
    <3>1. UNCHANGED <<alive, last, total, ticks, pc, cpu_prev, cpu_curr, previous, cpu_sample_ok,
                      rows, items, todo, cpu_percent>>
      BY DEF vars, machine, sample
    <3>2. WTypes'
      BY <3>1 DEF WInv, WTypes, TypeOK, KernelTypeOK
    <3>3. Charged'
      BY <3>1 DEF WInv, Charged, OwnTicks
    <3>4. SharesAreOwn'
      BY <3>1 DEF WInv, SharesAreOwn, Shared, OwnTicks
    <3> QED
      BY <3>2, <3>3, <3>4 DEF WInv
  <2> QED
    BY <2>1, MachineKeepsWInv, SnapshotKeepsWInv, ListKeepsWInv, SinceKeepsWInv DEF Next
<1> QED
    BY <1>1, <1>2, PTL DEF Spec

\* Type correctness: no difference of two counters goes round the word.
THEOREM WindowTypes == Spec => []TypeOK
<1>1. WInv => TypeOK
    BY DEF WInv, WTypes
<1> QED
    BY <1>1, WindowInvariance, PTL

\* A row with a share has a second counter of its own process and a window that was
\* not empty; a share above zero is of a process the snapshot knew under the same PID
\* and start time, and is never more than its counter has moved since.
THEOREM SharesOwn == Spec => []SharesAreOwn
<1>1. WInv => SharesAreOwn
    BY DEF WInv
<1> QED
    BY <1>1, WindowInvariance, PTL

-----------------------------------------------------------------------------
(***************************************************************************)
(* No tick is charged twice.  What the machine ran since the sample began  *)
(* can be divided among the PIDs (b) so that what is charged to a PID, and *)
(* what its process would be charged if it were read now, is in its part.  *)
(***************************************************************************)
Accounts(b) ==
    /\ b \in [Pids -> Nat]
    /\ SumOver(b, Pids) <= total - cpu_prev
    /\ \A i \in items : i.delta <= b[i.pid]
    /\ \A o \in previous : o.starttime = last[o.pid] => ticks[o.pid] - o.ticks <= b[o.pid]

Accounted == \E b : Accounts(b)

\* The list and the snapshot are empty until they are read; the list has a PID once.
OneRow ==
    /\ pc = "prev" => previous = {}
    /\ pc \in {"prev", "snapshot"} => rows = {}
    /\ pc = "list" => \A r \in rows : r.pid \notin todo
    /\ \A r, s \in rows : r.pid = s.pid => r = s

\* A PID's new holder started later than the one in the snapshot.
Ordered == \A o \in previous : o.starttime <= last[o.pid]

TickInv == OneRow /\ Ordered /\ Accounted /\ NoTickTwice

\* The sum of the shares, unfolded.
Charges == MapThenSumSet(LAMBDA r : cpu_percent[r].ticks, Shared)

LEMMA ChargesField == Charges = FieldSum(cpu_percent, "ticks", Shared)
BY DEF Charges, MapThenSumSet, MapThenFoldSet, FieldSum, IsFieldSum, Chosen

\* The shares are of rows, one to a PID, each within the part of its PID.
WithinParts ==
    /\ total - cpu_prev \in Int
    /\ \A r, s \in Shared : r.pid = s.pid => r = s
    /\ \E b \in [Pids -> Nat] :
          /\ SumOver(b, Pids) <= total - cpu_prev
          /\ \A r \in Shared : /\ r.pid \in Pids
                               /\ cpu_percent[r].ticks \in Nat
                               /\ cpu_percent[r].ticks <= b[r.pid]

LEMMA PartsBoundCharges == WithinParts => NoTickTwice
<1> SUFFICES ASSUME WithinParts PROVE Charges <= total - cpu_prev
  BY DEF NoTickTwice, Charges
<1> DEFINE m == [r \in Shared |-> r.pid]
           f == [r \in Shared |-> cpu_percent[r]["ticks"]]
<1>1. PICK b \in [Pids -> Nat] :
          /\ SumOver(b, Pids) <= total - cpu_prev
          /\ \A r \in Shared : /\ r.pid \in Pids
                               /\ cpu_percent[r].ticks \in Nat
                               /\ cpu_percent[r].ticks <= b[r.pid]
  BY DEF WithinParts
<1>2. m \in Injection(Shared, Pids)
  BY <1>1 DEF WithinParts, Injection, IsInjective
<1>3. IsFiniteSet(Pids) /\ IsFiniteSet(Shared)
  BY <1>2, PidsAssumption, FS_Injection
<1>4. /\ \A r \in Shared : f[r] \in Int
      /\ \A r \in Shared : m[r] \in Pids /\ f[r] <= b[m[r]]
      /\ \A r, s \in Shared : m[r] = m[s] => r = s
      /\ \A q \in Pids : b[q] \in Nat /\ b[q] \in Int
  BY <1>1 DEF WithinParts
<1>5. FieldSum(cpu_percent, "ticks", Shared) = SumOver(f, Shared)
  BY <1>3, FieldSumIsSum
<1> HIDE DEF m, f
<1>6. SumOver(f, Shared) <= SumOver(b, Pids)
  BY <1>3, <1>4, SumInject
<1>7. SumOver(f, Shared) \in Int /\ SumOver(b, Pids) \in Int
  BY <1>3, <1>4, SumType
<1> QED
  BY <1>1, <1>5, <1>6, <1>7, ChargesField DEF WithinParts

\* Without shares nothing is charged.
LEMMA NoSharesNoCharges == TypeOK /\ Shared = {} /\ Accounted => NoTickTwice
<1> SUFFICES ASSUME TypeOK, Shared = {}, Accounted PROVE WithinParts
  BY PartsBoundCharges
<1>1. PICK b : Accounts(b)
  BY DEF Accounted
<1> QED
  BY <1>1 DEF WithinParts, Accounts, TypeOK

\* Nothing has been charged before the sample begins, and nothing can be.
LEMMA FreshAccounts ==
    previous = {} /\ items = {} /\ total - cpu_prev \in Nat => Accounted
<1> SUFFICES ASSUME previous = {}, items = {}, total - cpu_prev \in Nat PROVE Accounted
  OBVIOUS
<1> DEFINE b == [p \in Pids |-> 0]
<1>1. SumOver(b, Pids) <= 0
  <2>1. IsFiniteSet(Pids) /\ \A p \in Pids : b[p] \in Int /\ b[p] <= 0
    BY PidsAssumption
  <2>2. SumOver(b, Pids) <= Cardinality(Pids) * 0
    <3> HIDE DEF b
    <3> QED
      BY <2>1, SumBound
  <2>3. Cardinality(Pids) \in Nat
    BY <2>1, FS_CardinalityType
  <2> QED
    BY <2>2, <2>3
<1>2. SumOver(b, Pids) \in Int
  <2>1. IsFiniteSet(Pids) /\ \A p \in Pids : b[p] \in Int
    BY PidsAssumption
  <2> HIDE DEF b
  <2> QED
    BY <2>1, SumType
<1>3. b \in [Pids -> Nat]
  OBVIOUS
<1> HIDE DEF b
<1> QED
  BY <1>1, <1>2, <1>3 DEF Accounted, Accounts

\* A tick the machine runs is a tick of one PID at most, and goes to its part; a
\* PID with a new holder has nothing to charge against the snapshot.
LEMMA MachineKeepsTickInv == ASSUME WInv, TickInv, Machine PROVE TickInv'
<1>1. /\ pc # "done"
      /\ UNCHANGED <<pc, cpu_prev, cpu_curr, previous, cpu_sample_ok, rows, items, todo, cpu_percent>>
  BY DEF Machine, sample
<1>2. PICK b : Accounts(b)
  BY DEF TickInv, Accounted
<1>3. /\ total \in Nat /\ cpu_prev \in Nat /\ b \in [Pids -> Nat]
      /\ last \in [Pids -> Starts \cup {Never}] /\ ticks \in [Pids -> 0 .. MaxTicks]
      /\ \A o \in previous : o.pid \in Pids /\ o.ticks \in 0 .. MaxTicks /\ o.starttime \in Starts
      /\ \A i \in items : i.pid \in Pids /\ i.delta \in 0 .. MaxTicks
  BY <1>2, TicksAssumption DEF WInv, WTypes, TypeOK, KernelTypeOK, Accounts, Counter, Info
<1>4. IsFiniteSet(Pids) /\ SumOver(b, Pids) \in Int
  <2>1. IsFiniteSet(Pids) /\ \A p \in Pids : b[p] \in Int
    BY <1>3, PidsAssumption
  <2> QED
    BY <2>1, SumType
<1>5. Ordered /\ OneRow' /\ NoTickTwice'
  BY <1>1 DEF TickInv, OneRow, NoTickTwice
<1>6. CASE Tick
  <2>1. total' = total + 1 /\ UNCHANGED last
    BY <1>6 DEF Tick, kernel
  <2>2. Ordered'
    BY <1>1, <1>5, <2>1 DEF Ordered
  <2>3. CASE UNCHANGED ticks
    <3>1. Accounts(b)'
      BY <1>1, <1>2, <1>3, <1>4, <2>1, <2>3 DEF Accounts
    <3> QED
      BY <1>5, <2>2, <3>1 DEF TickInv, Accounted
  <2>4. CASE \E p \in Pids : alive[p] /\ ticks' = [ticks EXCEPT ![p] = @ + 1]
    <3>1. PICK p \in Pids : ticks' = [ticks EXCEPT ![p] = @ + 1]
      BY <2>4
    <3> DEFINE c == [b EXCEPT ![p] = @ + 1]
    <3>2. c \in [Pids -> Nat] /\ c[p] = b[p] + 1 /\ \A q \in Pids \ {p} : c[q] = b[q]
      BY <1>3
    <3> HIDE DEF c
    <3>3. SumOver(c, Pids) = SumOver(b, Pids) - b[p] + c[p]
      <4>1. c[p] \in Int /\ \A q \in Pids : b[q] \in Int
        BY <1>3, <3>2
      <4> QED
        BY <1>4, <3>2, <4>1, SumUpdate
    <3>4. SumOver(c, Pids)' <= total' - cpu_prev'
      BY <1>1, <1>2, <1>3, <1>4, <2>1, <3>2, <3>3 DEF Accounts
    <3>5. \A q \in Pids : b[q] <= c[q] /\ b[q] \in Nat /\ c[q] \in Nat
      BY <1>3, <3>2
    <3>6. \A i \in items' : i.delta <= c[i.pid]
      BY <1>1, <1>2, <1>3, <3>5 DEF Accounts
    <3>7. \A o \in previous' : o.starttime = last'[o.pid] => ticks'[o.pid] - o.ticks <= c[o.pid]
      BY <1>1, <1>2, <1>3, <2>1, <3>1, <3>2 DEF Accounts
    <3>8. Accounts(c)'
      BY <3>2, <3>4, <3>6, <3>7 DEF Accounts
    <3> QED
      BY <1>5, <2>2, <3>8 DEF TickInv, Accounted
  <2> QED
    BY <1>6, <2>3, <2>4 DEF Tick
<1>7. CASE \E p \in Pids : Replace(p)
  <2>1. PICK p \in Pids : Replace(p)
    BY <1>7
  <2>2. UNCHANGED total
    BY <2>1 DEF Replace
  <2>3. CASE Exit(p) /\ UNCHANGED ticks
    <3>1. UNCHANGED last
      BY <2>3 DEF Exit
    <3>2. Accounts(b)' /\ Ordered'
      BY <1>1, <1>2, <1>5, <2>2, <2>3, <3>1 DEF Accounts, Ordered
    <3> QED
      BY <1>5, <3>2 DEF TickInv, Accounted
  <2>4. CASE Fork(p) /\ ticks' = [ticks EXCEPT ![p] = 0]
    <3>1. PICK t \in Starts : t > last[p] /\ last' = [last EXCEPT ![p] = t]
      BY <2>4 DEF Fork
    <3>2. /\ last'[p] > last[p] /\ last'[p] \in Int /\ last[p] \in Int
          /\ \A q \in Pids \ {p} : last'[q] = last[q] /\ ticks'[q] = ticks[q]
      BY <1>3, <2>4, <3>1 DEF Starts, Never
    <3>3. \A o \in previous : o.pid = p => o.starttime < last'[p]
      BY <1>3, <1>5, <3>2 DEF Ordered, Starts
    <3>4. \A o \in previous :
             /\ o.starttime <= last'[o.pid]
             /\ o.starttime = last'[o.pid] => o.pid # p
      BY <1>3, <1>5, <3>2, <3>3 DEF Ordered, Starts
    <3>5. Accounts(b)' /\ Ordered'
      BY <1>1, <1>2, <1>3, <2>2, <3>2, <3>4 DEF Accounts, Ordered
    <3> QED
      BY <1>5, <3>5 DEF TickInv, Accounted
  <2> QED
    BY <2>1, <2>3, <2>4 DEF Replace
<1> QED
  BY <1>6, <1>7 DEF Machine

\* What a step that runs no process leaves of the parts.
LEMMA PartsStay ==
    ASSUME NEW b, Accounts(b), UNCHANGED <<total, cpu_prev, last, ticks, items, previous>>
    PROVE  Accounts(b)'
BY DEF Accounts

\* The sample begins, and a counter is taken into the snapshot with its own ticks.
LEMMA SnapshotKeepsTickInv ==
    ASSUME WInv, TickInv, ReadPrev \/ SnapshotOne \/ ReadCurr
    PROVE  TickInv'
<1>1. PICK b : Accounts(b)
  BY DEF TickInv, Accounted
<1>2. pc' # "done"
  BY DEF ReadPrev, SnapshotOne, ReadCurr, Goto
<1>3. NoTickTwice'
  BY <1>2 DEF NoTickTwice
<1>4. UNCHANGED <<alive, last, total, ticks, rows, items>>
  BY DEF ReadPrev, SnapshotOne, ReadCurr, machine
<1>5. CASE ReadPrev
  <2>1. /\ pc = "prev" /\ pc' \in {"snapshot", "list"} /\ UNCHANGED previous
        /\ pc' = "snapshot" => cpu_prev' = total
        /\ pc' = "list" => UNCHANGED cpu_prev
    BY <1>5 DEF ReadPrev, Goto
  <2>2. previous = {} /\ items = {} /\ rows = {}
    BY <2>1 DEF TickInv, OneRow, WInv, Charged
  <2>3. OneRow' /\ Ordered'
    BY <1>4, <2>1, <2>2 DEF OneRow, Ordered
  <2>4. CASE pc' = "snapshot"
    <3>1. (previous = {} /\ items = {} /\ total - cpu_prev \in Nat)'
      <4>1. total \in 0 .. MaxTicks
        BY DEF WInv, WTypes, TypeOK
      <4> QED
        BY <1>4, <2>1, <2>2, <2>4, <4>1, TicksAssumption
    <3>2. (previous = {} /\ items = {} /\ total - cpu_prev \in Nat)' => Accounted'
      BY FreshAccounts, PTL
    <3> QED
      BY <1>3, <2>3, <3>1, <3>2 DEF TickInv
  <2>5. CASE pc' = "list"
    <3>1. Accounts(b)'
      BY <1>1, <1>4, <2>1, <2>5, PartsStay
    <3> QED
      BY <1>3, <2>3, <3>1 DEF TickInv, Accounted
  <2> QED
    BY <2>1, <2>4, <2>5
<1>6. CASE SnapshotOne
  <2>1. pc = "snapshot" /\ UNCHANGED <<pc, cpu_prev>>
    BY <1>6 DEF SnapshotOne
  <2>2. OneRow'
    BY <1>4, <2>1 DEF TickInv, OneRow
  <2>3. CASE UNCHANGED previous
    <3>1. Accounts(b)'
      BY <1>1, <1>4, <2>1, <2>3, PartsStay
    <3> QED
      BY <1>3, <1>4, <2>2, <2>3, <3>1 DEF TickInv, Accounted, Ordered
  <2>4. CASE ~UNCHANGED previous
    <3>1. PICK p \in Pids : previous' = previous \cup
                              {[pid |-> p, ticks |-> ticks[p], starttime |-> last[p]]}
      BY <1>6, <2>4 DEF SnapshotOne
    <3>2. last[p] \in Int /\ ticks[p] - ticks[p] <= b[p]
      <4>1. /\ last[p] \in Starts \cup {Never} /\ ticks[p] \in 0 .. MaxTicks
            /\ b[p] \in Nat
        BY <1>1 DEF WInv, WTypes, TypeOK, KernelTypeOK, Accounts
      <4> QED
        BY <4>1 DEF Starts, Never
    <3>3. Accounts(b)'
      BY <1>1, <1>4, <2>1, <3>1, <3>2 DEF Accounts
    <3>4. Ordered'
      BY <1>4, <3>1, <3>2 DEF TickInv, Ordered
    <3> QED
      BY <1>3, <2>2, <3>3, <3>4 DEF TickInv, Accounted
  <2> QED
    BY <2>3, <2>4
<1>7. CASE ReadCurr
  <2>1. pc = "snapshot" /\ UNCHANGED <<cpu_prev, previous>>
    BY <1>7 DEF ReadCurr
  <2>2. OneRow' /\ Ordered'
    BY <1>4, <1>7, <2>1 DEF TickInv, OneRow, Ordered, ReadCurr, Goto
  <2>3. Accounts(b)'
    BY <1>1, <1>4, <2>1, PartsStay
  <2> QED
    BY <1>3, <2>2, <2>3 DEF TickInv, Accounted
<1> QED
  BY <1>5, <1>6, <1>7

\* A PID is listed once; a frame without shares charges nothing.
LEMMA ListKeepsTickInv ==
    ASSUME WInv, TickInv, ListOne \/ ListDone \/ ListFails \/ SinceFails
    PROVE  TickInv'
<1>1. PICK b : Accounts(b)
  BY DEF TickInv, Accounted
<1>2. /\ pc \in {"list", "since"}
      /\ UNCHANGED <<alive, last, total, ticks, cpu_prev, previous, items>>
  BY DEF ListOne, ListDone, ListFails, SinceFails, machine, sample
<1>3. Accounts(b)' /\ Ordered'
  BY <1>1, <1>2, PartsStay DEF TickInv, Ordered
<1>4. TypeOK'
  BY ListKeepsWInv DEF WInv, WTypes
<1>5. ASSUME pc' = "done", rows' = rows \/ rows' = {},
             cpu_percent' = [r \in rows |-> Unknown] \/ (pc = "list" /\ UNCHANGED cpu_percent)
      PROVE  TickInv'
  <2>1. Shared' = {}
    BY <1>2, <1>5 DEF Shared, WInv, WTypes
  <2>2. (TypeOK /\ Shared = {} /\ Accounted)' => NoTickTwice'
    BY NoSharesNoCharges, PTL
  <2>3. Accounted' /\ NoTickTwice'
    BY <1>3, <1>4, <2>1, <2>2 DEF Accounted
  <2>4. OneRow'
    BY <1>2, <1>5 DEF TickInv, OneRow
  <2> QED
    BY <1>3, <2>3, <2>4 DEF TickInv
<1>6. CASE ListOne
  <2>1. pc = "list" /\ UNCHANGED pc
    BY <1>6 DEF ListOne
  <2>2. PICK p \in Pids :
          /\ p \in todo /\ todo' = todo \ {p}
          /\ \/ rows' = rows \cup {[pid |-> p, starttime |-> last[p]]}
             \/ UNCHANGED rows
    BY <1>6 DEF ListOne, Visit
  <2>3. \A r \in rows : r.pid # p
    BY <2>1, <2>2 DEF TickInv, OneRow
  <2>4. OneRow'
    BY <2>1, <2>2, <2>3 DEF TickInv, OneRow
  <2> QED
    BY <1>3, <2>1, <2>4 DEF TickInv, Accounted, NoTickTwice
<1>7. CASE ListDone
  <2>1. CASE cpu_sample_ok
    <3>1. pc' = "since" /\ UNCHANGED rows
      BY <1>7, <2>1 DEF ListDone, Goto
    <3> QED
      BY <1>3, <3>1 DEF TickInv, Accounted, NoTickTwice, OneRow
  <2>2. CASE ~cpu_sample_ok
    BY <1>5, <1>7, <2>2 DEF ListDone
  <2> QED
    BY <2>1, <2>2
<1>8. CASE ListFails
  BY <1>5, <1>8 DEF ListFails
<1>9. CASE SinceFails
  BY <1>5, <1>9 DEF SinceFails
<1> QED
  BY <1>6, <1>7, <1>8, <1>9

\* A second counter is charged within its PID's part, and so are the rows.
LEMMA SinceKeepsTickInv == ASSUME WInv, TickInv, SinceOne \/ SinceDone PROVE TickInv'
<1>1. PICK b : Accounts(b)
  BY DEF TickInv, Accounted
<1>2. /\ pc = "since"
      /\ UNCHANGED <<alive, last, total, ticks, cpu_prev, cpu_curr, previous, rows>>
  BY DEF SinceOne, SinceDone, machine, sample
<1>3. Ordered'
  BY <1>2 DEF TickInv, Ordered
<1>4. CASE SinceOne
  <2>1. UNCHANGED pc
    BY <1>4 DEF SinceOne
  <2>2. OneRow' /\ NoTickTwice'
    BY <1>2, <2>1 DEF TickInv, OneRow, NoTickTwice
  <2>3. CASE UNCHANGED items
    <3>1. Accounts(b)'
      BY <1>1, <1>2, <2>3, PartsStay
    <3> QED
      BY <1>3, <2>2, <3>1 DEF TickInv, Accounted
  <2>4. CASE ~UNCHANGED items
    <3> DEFINE old(p)   == {o \in previous : SameProcess(o, p, last[p], ticks[p])}
               delta(p) == IF old(p) = {} THEN 0
                           ELSE (ticks[p] - (CHOOSE o \in old(p) : TRUE).ticks) % Word
    <3>1. PICK p \in Pids :
            items' = items \cup {[pid |-> p, delta |-> delta(p), starttime |-> last[p]]}
      BY <1>4, <2>4 DEF SinceOne
    <3>2. b[p] \in Nat
      BY <1>1 DEF Accounts
    <3>3. delta(p) <= b[p]
      <4>1. CASE old(p) = {}
        BY <3>2, <4>1
      <4>2. CASE old(p) # {}
        <5>1. PICK o \in old(p) : o = (CHOOSE x \in old(p) : TRUE)
          BY <4>2
        <5>2. o \in previous /\ SameProcess(o, p, last[p], ticks[p])
          BY <5>1
        <5>3. o \in Counter /\ ticks[p] \in 0 .. MaxTicks
          BY <5>2 DEF WInv, WTypes, TypeOK
        <5>4. /\ o.ticks \in 0 .. MaxTicks /\ o.ticks <= ticks[p]
              /\ ticks[p] - o.ticks <= b[p]
          BY <1>1, <5>2, <5>3 DEF Counter, SameProcess, Accounts, TypeOK
        <5>5. delta(p) = (ticks[p] - o.ticks) % Word
          BY <4>2, <5>1
        <5> HIDE DEF old, delta
        <5>6. (ticks[p] - o.ticks) % Word = ticks[p] - o.ticks
          BY <5>3, <5>4, InOrderNoWrap
        <5> QED
          BY <5>4, <5>5, <5>6
      <4> QED
        BY <4>1, <4>2
    <3> HIDE DEF delta
    <3>4. Accounts(b)'
      BY <1>1, <1>2, <3>1, <3>3 DEF Accounts
    <3> QED
      BY <1>3, <2>2, <3>4 DEF TickInv, Accounted
  <2> QED
    BY <2>3, <2>4
<1>5. CASE SinceDone
  <2>1. /\ pc' = "done" /\ UNCHANGED items
        /\ cpu_percent' = [r \in rows |->
             LET mine == {i \in items : OfRow(i, r)}
             IN  IF mine = {} THEN Unknown
                 ELSE [ticks |-> (CHOOSE i \in mine : TRUE).delta, over |-> cpu_curr - cpu_prev]]
    BY <1>5 DEF SinceDone
  <2>2. ASSUME NEW r \in Shared'
        PROVE  /\ r \in rows /\ r.pid \in Pids
               /\ cpu_percent'[r].ticks \in Nat /\ cpu_percent'[r].ticks <= b[r.pid]
    <3> DEFINE mine == {i \in items : OfRow(i, r)}
    <3>1. r \in rows /\ cpu_percent'[r] # Unknown
      BY <2>1, <2>2 DEF Shared
    <3>2. mine # {} /\ cpu_percent'[r] = [ticks |-> (CHOOSE i \in mine : TRUE).delta,
                                          over |-> cpu_curr - cpu_prev]
      BY <2>1, <3>1
    <3>3. PICK i \in mine : i = (CHOOSE x \in mine : TRUE)
      BY <3>2
    <3>4. cpu_percent'[r].ticks = i.delta
      BY <3>2, <3>3
    <3>5. i \in items /\ i.pid = r.pid
      BY <3>3 DEF OfRow
    <3>6. i.delta <= b[i.pid] /\ i \in Info
      BY <1>1, <3>5 DEF Accounts, WInv, WTypes, TypeOK
    <3> QED
      BY <3>1, <3>4, <3>5, <3>6, TicksAssumption DEF Info
  <2>3. /\ b \in [Pids -> Nat] /\ SumOver(b, Pids)' <= total' - cpu_prev'
        /\ total' - cpu_prev' \in Int
    BY <1>1, <1>2 DEF Accounts, WInv, WTypes, TypeOK
  <2>4. \A r, s \in Shared' : r.pid = s.pid => r = s
    BY <2>2 DEF TickInv, OneRow
  <2>5. WithinParts'
    BY <2>2, <2>3, <2>4 DEF WithinParts
  <2>6. WithinParts' => NoTickTwice'
    BY PartsBoundCharges, PTL
  <2>7. OneRow'
    BY <1>2, <2>1 DEF TickInv, OneRow
  <2>8. Accounts(b)'
    BY <1>1, <1>2, <2>1, PartsStay
  <2> QED
    BY <1>3, <2>5, <2>6, <2>7, <2>8 DEF TickInv, Accounted
<1> QED
  BY <1>4, <1>5

\* The parts exist throughout, so the frame's shares fit in what the machine ran.
THEOREM TickInvariance == Spec => []TickInv
<1>1. WInv /\ Init => TickInv
  <2> SUFFICES ASSUME WInv, Init PROVE TickInv
    OBVIOUS
  <2>1. previous = {} /\ items = {} /\ rows = {} /\ pc = "prev" /\ total - cpu_prev \in Nat
    BY DEF Init
  <2> QED
    BY <2>1, FreshAccounts DEF TickInv, OneRow, Ordered, NoTickTwice
<1>2. WInv /\ TickInv /\ [Next]_vars => TickInv'
  <2>1. TickInv /\ UNCHANGED vars => TickInv'
    <3> SUFFICES ASSUME TickInv, UNCHANGED vars PROVE TickInv'
      OBVIOUS
    <3>1. UNCHANGED <<last, total, ticks, pc, cpu_prev, previous, rows, items, todo, cpu_percent>>
      BY DEF vars, machine, sample
    <3>2. NoTickTwice'
      BY <3>1 DEF TickInv, NoTickTwice, Shared, MapThenSumSet, MapThenFoldSet
    <3>3. PICK b : Accounts(b)
      BY DEF TickInv, Accounted
    <3>4. Accounts(b)'
      BY <3>1, <3>3, PartsStay
    <3> QED
      BY <3>1, <3>2, <3>4 DEF TickInv, OneRow, Ordered, Accounted
  <2> QED
    BY <2>1, MachineKeepsTickInv, SnapshotKeepsTickInv, ListKeepsTickInv, SinceKeepsTickInv DEF Next
<1>3. Spec => []WInv
  BY WindowInvariance
<1> QED
  BY <1>1, <1>2, <1>3, PTL DEF Spec

\* Together the rows of a frame are charged no more ticks than the machine ran since
\* the sample began, however processes come, run and go between the four readings.
THEOREM TicksChargedOnce == Spec => []NoTickTwice
<1>1. TickInv => NoTickTwice
  BY DEF TickInv
<1> QED
  BY <1>1, TickInvariance, PTL
=============================================================================
