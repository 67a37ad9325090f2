------------------------- MODULE OverviewSampleProofs -------------------------
EXTENDS OverviewSample, Network, SequenceTheorems, Sums, TLAPS

Sampling == {"thermal", "memory", "memory_end", "disk", "cpu", "network", "window",
             "rates", "usage", "lists"}
Computed == {"lists", "key"}
ViewFields == {"host_ok", "host", "thermal", "memory", "swap_used", "disk", "cpu",
               "network_ok", "network", "cpu_process_ok", "cpu_top",
               "memory_process_ok", "memory_top"}

-----------------------------------------------------------------------------
(* The graphs.                                                             *)

\* What both arrays hold after k samples.
Kept(k) == IF k < HISTORY_MAX THEN k ELSE HISTORY_MAX
Latest(k) == [i \in 1 .. Kept(k) |-> k - Kept(k) + i]

\* history_push, at the limit and before it, makes the latest of n - 1 samples the
\* latest of n.
LEMMA PushLatest ==
    ASSUME n \in Nat \ {0}
    PROVE  Push(Latest(n - 1)) = Latest(n)
<1> DEFINE k == n - 1
           old == Latest(k)
<1>1. k \in Nat /\ n = k + 1 /\ Kept(k) \in Nat /\ Kept(n) \in Nat
    BY HistoryAssumption DEF Kept
<1>2. old \in Seq(Nat) /\ Len(old) = Kept(k)
  <2>1. \A i \in 1 .. Kept(k) : k - Kept(k) + i \in Nat
    BY <1>1, HistoryAssumption DEF Kept
  <2> QED
    BY <1>1, <2>1 DEF Latest
<1>3. CASE k < HISTORY_MAX
  <2>1. Kept(k) = k /\ Kept(n) = n
    BY <1>1, <1>3, HistoryAssumption DEF Kept
  <2>2. Push(old) = Append(old, n)
    BY <1>2, <1>3, <2>1 DEF Push
  <2>3. Append(old, n) = [i \in 1 .. n |-> i]
    BY <1>1, <1>2, <2>1 DEF Latest
  <2>4. Latest(n) = [i \in 1 .. n |-> i]
    BY <1>1, <2>1 DEF Latest
  <2> QED
    BY <2>2, <2>3, <2>4
<1>4. CASE ~(k < HISTORY_MAX)
  <2>1. Kept(k) = HISTORY_MAX /\ Kept(n) = HISTORY_MAX
    BY <1>1, <1>4, HistoryAssumption DEF Kept
  <2>2. Push(old) = Append(Tail(old), n)
    BY <1>2, <1>4, <2>1, HistoryAssumption DEF Push
  <2>3. Tail(old) \in Seq(Nat) /\ Len(Tail(old)) = HISTORY_MAX - 1
    BY <1>2, <2>1, HistoryAssumption
  <2>4. \A i \in 1 .. HISTORY_MAX - 1 : Tail(old)[i] = n - HISTORY_MAX + i
    <3> SUFFICES ASSUME NEW i \in 1 .. HISTORY_MAX - 1
                 PROVE  Tail(old)[i] = n - HISTORY_MAX + i
        OBVIOUS
    <3>1. i + 1 \in 1 .. HISTORY_MAX /\ i \in 1 .. Len(Tail(old))
      BY <2>3, HistoryAssumption
    <3>2. old[i + 1] = k - HISTORY_MAX + (i + 1)
      BY <2>1, <3>1 DEF Latest
    <3>3. Tail(old)[i] = old[i + 1]
      <4> HIDE DEF old
      <4>1. old # << >>
        BY <1>2, <2>1, HistoryAssumption
      <4> QED
        BY <1>2, <3>1, <4>1
    <3>4. k - HISTORY_MAX + (i + 1) = n - HISTORY_MAX + i
      BY HistoryAssumption
    <3> HIDE DEF old
    <3> QED
      BY <3>2, <3>3, <3>4
  <2>5. Append(Tail(old), n) = [i \in 1 .. HISTORY_MAX |-> n - HISTORY_MAX + i]
    <3> DEFINE new == Append(Tail(old), n)
               wanted == [i \in 1 .. HISTORY_MAX |-> n - HISTORY_MAX + i]
    <3>1. new \in Seq(Nat) /\ Len(new) = HISTORY_MAX
      BY <1>1, <2>3, HistoryAssumption
    <3>2. \A i \in 1 .. HISTORY_MAX : new[i] = n - HISTORY_MAX + i
      <4> SUFFICES ASSUME NEW i \in 1 .. HISTORY_MAX PROVE new[i] = n - HISTORY_MAX + i
          OBVIOUS
      <4>1. CASE i = HISTORY_MAX
        BY <1>1, <2>3, <4>1, HistoryAssumption
      <4>2. CASE i # HISTORY_MAX
        <5>1. i \in 1 .. HISTORY_MAX - 1
          BY <4>2, HistoryAssumption
        <5>2. new[i] = Tail(old)[i]
          BY <1>1, <2>3, <5>1
        <5> QED
          BY <2>4, <5>1, <5>2
      <4> QED
        BY <4>1, <4>2
    <3>3. wanted \in Seq(Int) /\ Len(wanted) = HISTORY_MAX
      BY <1>1, HistoryAssumption
    <3>4. new \in Seq(Int)
      BY <3>1
    <3>5. \A i \in 1 .. Len(new) : new[i] = wanted[i]
      BY <3>1, <3>2
    <3> HIDE DEF new, wanted
    <3>6. new = wanted
      BY <3>1, <3>3, <3>4, <3>5, SeqEqual
    <3> QED
      BY <3>6 DEF new, wanted
  <2> QED
    BY <2>1, <2>2, <2>5 DEF Latest
<1> QED
    BY <1>3, <1>4

\* Before a sample is complete the arrays are those of the sample before it.
GInv ==
    /\ n \in Nat
    /\ pc \in Sampling \cup {"frame", "key", "done"}
    /\ pc \in {"frame", "key"} => history = [cpu |-> Latest(n), memory |-> Latest(n)]
    /\ pc \in Sampling => n # 0 /\ history = [cpu |-> Latest(n - 1), memory |-> Latest(n - 1)]

\* Only Lists writes the arrays, and it takes them from one sample to the next.
LEMMA StepKeepsGInv == GInv /\ [Next]_vars => GInv'
<1> SUFFICES ASSUME GInv, [Next]_vars PROVE GInv'
    OBVIOUS
<1> USE DEF GInv, readers
<1>1. CASE HostRead
  <2>1. n' = n + 1 /\ pc = "frame" /\ pc' \in {"thermal", "memory"} /\ UNCHANGED history
    BY <1>1 DEF HostRead
  <2>2. n' \in Nat /\ n' # 0 /\ n' - 1 = n
    BY <2>1
  <2> QED
    BY <2>1, <2>2 DEF Sampling
<1>2. CASE ThermalZone \/ ThermalEnd
  BY <1>2 DEF ThermalZone, ThermalEnd, Sampling
<1>3. CASE MemoryLine \/ MemoryRead
  BY <1>3 DEF MemoryLine, MemoryRead, Abandon, Sampling
<1>4. CASE DiskRead
  BY <1>4 DEF DiskRead, Abandon, Sampling
<1>5. CASE CpuRead \/ CpuReadFails \/ NetworkPrev \/ NetworkCurr
  BY <1>5 DEF CpuRead, CpuReadFails, Abandon, NetworkPrev, NetworkCurr, Sampling
<1>6. CASE Usage
  BY <1>6 DEF Usage, Abandon, Sampling
<1>7. CASE Lists
  <2>1. /\ pc = "lists" /\ pc' = "key" /\ n' = n
        /\ history' = [cpu |-> Push(history.cpu), memory |-> Push(history.memory)]
    BY <1>7 DEF Lists, history_push
  <2>2. n \in Nat \ {0} /\ history.cpu = Latest(n - 1) /\ history.memory = Latest(n - 1)
    BY <2>1 DEF Sampling
  <2> QED
    BY <2>1, <2>2, PushLatest DEF Sampling
<1>8. CASE Key
  BY <1>8 DEF Key, Sampling
<1>9. CASE UNCHANGED vars
  BY <1>9 DEF vars
<1> QED
  BY <1>1, <1>2, <1>3, <1>4, <1>5, <1>6, <1>7, <1>8, <1>9 DEF Next

\* Before the first sample the arrays are empty.
LEMMA GraphsStart == Init => GInv
<1> SUFFICES ASSUME Init PROVE GInv
    OBVIOUS
<1>1. Kept(0) = 0
  BY HistoryAssumption DEF Kept
<1>2. Latest(0) = << >>
  BY <1>1 DEF Latest
<1> QED
  BY <1>2 DEF Init, GInv, Sampling

\* For any HISTORY_MAX and any number of samples, the graphs are the latest samples,
\* oldest first, and end with the numbers of the cards.
THEOREM Graphs == Spec => []GraphsMatchCards
<1>1. Init => GInv
    BY GraphsStart
<1>2. GInv => GraphsMatchCards
  <2> SUFFICES ASSUME GInv, pc = "key"
               PROVE  /\ history.cpu = [i \in 1 .. Kept(n) |-> n - Kept(n) + i]
                      /\ history.memory = history.cpu
      BY DEF GraphsMatchCards, Kept
  <2>1. history.cpu = Latest(n) /\ history.memory = Latest(n)
    BY DEF GInv
  <2> QED
    BY <2>1 DEF Latest
<1> QED
    BY <1>1, <1>2, StepKeepsGInv, PTL DEF Spec

-----------------------------------------------------------------------------
(* What an overview shows is of its own sample.                            *)

\* During a sample: what is already filled in is of this sample, and the flags of
\* what is still to come are as the memset left them.
FInv ==
    /\ DOMAIN view = ViewFields
    /\ pc \in Sampling \cup {"frame", "key", "done"}
    /\ pc \in Sampling \cup {"key"} =>
          /\ view.host_ok => view.host = n
          /\ ~view.host_ok => view.thermal = NoTemp
          /\ pc = "thermal" => view.host_ok
    /\ pc \in Computed \cup {"usage"} => (view.network_ok => view.network = n)
    /\ pc \in Sampling => ~view.cpu_process_ok /\ ~view.memory_process_ok
    /\ pc = "key" =>
          /\ view_ok
          /\ view.cpu_process_ok => view.cpu_top = n
          /\ view.memory_process_ok => view.memory_top = n

\* Every reading stamps what it fills in with the sample's number, or flags it missing.
LEMMA StepKeepsFInv == FInv /\ [Next]_vars => FInv'
<1> SUFFICES ASSUME FInv, [Next]_vars PROVE FInv'
    OBVIOUS
<1> USE DEF FInv, readers, Sampling, Computed
<1>1. CASE HostRead
  <2>1. CASE view' = [Cleared EXCEPT !.host_ok = TRUE, !.host = n'] /\ pc' = "thermal"
    BY <2>1 DEF Cleared, Zeroed, ViewFields
  <2>2. CASE view' = [Cleared EXCEPT !.host_ok = FALSE] /\ pc' = "memory"
    BY <2>2 DEF Cleared, Zeroed, ViewFields
  <2> QED
    BY <1>1, <2>1, <2>2 DEF HostRead
<1>2. CASE ThermalZone
  BY <1>2 DEF ThermalZone
<1>3. CASE ThermalEnd
  BY <1>3 DEF ThermalEnd, ViewFields
<1>4. CASE MemoryLine \/ MemoryRead
  BY <1>4 DEF MemoryLine, MemoryRead, Abandon
<1>5. CASE DiskRead
  BY <1>5 DEF DiskRead, Abandon
<1>6. CASE CpuRead \/ CpuReadFails
  BY <1>6 DEF CpuRead, CpuReadFails, Abandon
<1>7. CASE NetworkPrev
  BY <1>7 DEF NetworkPrev, ViewFields
<1>8. CASE NetworkCurr
  BY <1>8 DEF NetworkCurr, ViewFields
<1>9. CASE Usage
  <2>1. /\ n' = n /\ pc = "usage" /\ pc' \in {"lists", "done"}
        /\ DOMAIN view' = DOMAIN view
        /\ UNCHANGED <<view.host_ok, view.host, view.thermal, view.network_ok, view.network,
                       view.cpu_process_ok, view.memory_process_ok>>
    BY <1>9 DEF Usage, Abandon, ViewFields
  <2> QED
    BY <2>1
<1>10. CASE Lists
  <2>1. PICK cpu_ok, memory_ok \in BOOLEAN :
          view' = [view EXCEPT
             !.cpu_process_ok = IF process_prev THEN cpu_ok ELSE @,
             !.cpu_top = IF process_prev /\ cpu_ok THEN n ELSE @,
             !.memory_process_ok = memory_ok,
             !.memory_top = IF memory_ok THEN n ELSE @]
    BY <1>10 DEF Lists
  <2>2. n' = n /\ pc = "lists" /\ pc' = "key" /\ view_ok' = TRUE
    BY <1>10 DEF Lists
  <2>3. /\ DOMAIN view' = DOMAIN view
        /\ UNCHANGED <<view.host_ok, view.host, view.thermal, view.network_ok, view.network>>
        /\ view'.cpu_process_ok = IF process_prev THEN cpu_ok ELSE view.cpu_process_ok
        /\ view'.cpu_top = IF process_prev /\ cpu_ok THEN n ELSE view.cpu_top
        /\ view'.memory_process_ok = memory_ok
        /\ view'.memory_top = IF memory_ok THEN n ELSE view.memory_top
    BY <2>1 DEF ViewFields
  <2> QED
    BY <2>2, <2>3
<1>11. CASE Key
  BY <1>11 DEF Key
<1>12. CASE UNCHANGED vars
  BY <1>12 DEF vars
<1> QED
  BY <1>1, <1>2, <1>3, <1>4, <1>5, <1>6, <1>7, <1>8, <1>9, <1>10, <1>11, <1>12 DEF Next

\* Nothing of an earlier sample is ever drawn, whichever readings fail in whichever
\* samples.
THEOREM Fresh == Spec => []NothingStale
<1>1. Init => FInv
    BY DEF Init, FInv, Zeroed, ViewFields, Sampling, Computed
<1>2. FInv => NothingStale
    BY DEF FInv, NothingStale, Computed
<1> QED
    BY <1>1, <1>2, StepKeepsFInv, PTL DEF Spec

-----------------------------------------------------------------------------
(* The temperature.                                                        *)

\* The zones not read yet have no temperature and are not the one named.
HInv ==
    /\ hottest.c \in Int
    /\ DOMAIN hottest = {"c", "type"}
    /\ measured \in [Zones -> Int]
    /\ zones \subseteq Zones
    /\ \A zone \in zones : measured[zone] = -1
    /\ hottest.type \notin zones
    /\ pc # "thermal" => measured = Cold
    /\ hottest.c >= -1
    /\ HottestNamed

\* No zone read, no temperature.
LEMMA ColdIsNamed ==
    ASSUME hottest' = NoTemp, measured' = Cold, zones' \subseteq Zones
    PROVE  HInv'
<1>1. measured' \in [Zones -> Int] /\ \A zone \in Zones : measured'[zone] = -1
  BY DEF Cold
<1>2. hottest'.c = -1 /\ hottest'.type \notin Zones /\ DOMAIN hottest' = {"c", "type"}
  BY ZonesAssumption DEF NoTemp
<1> QED
  BY <1>1, <1>2 DEF HInv, HottestNamed

\* A zone that is hotter takes both temperature and name, another neither.
LEMMA StepKeepsHInv == HInv /\ [Next]_vars => HInv'
<1> SUFFICES ASSUME HInv, [Next]_vars PROVE HInv'
    OBVIOUS
<1>1. CASE HostRead
  <2>1. hottest' = NoTemp /\ measured' = Cold
    BY <1>1 DEF HostRead, HInv
  <2>2. zones' \subseteq Zones
    BY <1>1 DEF HostRead, HInv
  <2> QED
    BY <2>1, <2>2, ColdIsNamed
<1>2. CASE ThermalZone
  <2>1. PICK zone \in zones :
          /\ zones' = zones \ {zone}
          /\ \/ \E c \in 0 .. MaxTemp :
                   Hotter(c, zone) /\ measured' = [measured EXCEPT ![zone] = c]
             \/ UNCHANGED <<hottest, measured>>
    BY <1>2 DEF ThermalZone
  <2>2. pc' = "thermal"
    BY <1>2 DEF ThermalZone
  <2>3. CASE UNCHANGED <<hottest, measured>>
    BY <2>1, <2>2, <2>3 DEF HInv, HottestNamed
  <2>4. CASE \E c \in 0 .. MaxTemp : Hotter(c, zone) /\ measured' = [measured EXCEPT ![zone] = c]
    <3>1. PICK c \in 0 .. MaxTemp : Hotter(c, zone) /\ measured' = [measured EXCEPT ![zone] = c]
      BY <2>4
    <3>2. c \in Int /\ c >= 0
      BY ValuesAssumption
    <3>3. CASE c > hottest.c
      <4>1. PICK type \in Types(zone) : hottest' = [c |-> c, type |-> type]
        BY <3>1, <3>3 DEF Hotter
      <4>2. type \in Zones => type = zone
        BY <4>1, ZonesAssumption DEF Types
      <4> QED
        BY <2>1, <2>2, <3>1, <3>2, <3>3, <4>1, <4>2 DEF HInv, HottestNamed
    <3>4. CASE ~(c > hottest.c)
      <4>1. hottest' = hottest
        BY <3>1, <3>4 DEF Hotter
      <4> QED
        BY <2>1, <2>2, <3>1, <3>2, <3>4, <4>1 DEF HInv, HottestNamed
    <3> QED
      BY <3>3, <3>4
  <2> QED
    BY <2>1, <2>3, <2>4
<1>3. CASE ThermalEnd
  BY <1>3, ColdIsNamed DEF ThermalEnd
<1>4. CASE MemoryLine \/ MemoryRead \/ DiskRead \/ CpuReadFails \/ Usage
  <2>1. pc # "thermal" /\ UNCHANGED <<zones, hottest, measured>>
    BY <1>4 DEF MemoryLine, MemoryRead, DiskRead, CpuReadFails, Usage, Abandon
  <2> QED
    BY <2>1 DEF HInv, HottestNamed
<1>5. CASE CpuRead \/ NetworkPrev \/ NetworkCurr \/ Lists
  <2>1. pc # "thermal" /\ UNCHANGED <<zones, hottest, measured>>
    BY <1>5 DEF CpuRead, NetworkPrev, NetworkCurr, Lists, readers
  <2> QED
    BY <2>1 DEF HInv, HottestNamed
<1>6. CASE Key
  BY <1>6 DEF Key, HInv, HottestNamed, readers
<1>7. CASE UNCHANGED vars
  BY <1>7 DEF vars, readers, HInv, HottestNamed
<1> QED
  BY <1>1, <1>2, <1>3, <1>4, <1>5, <1>6, <1>7 DEF Next

\* In whatever order the zones come, whichever of them cannot be read and whichever
\* have no type, the temperature kept is the hottest and its name its own.
THEOREM Hottest == Spec => []HottestNamed
<1>1. Init => HInv
  <2> SUFFICES ASSUME Init PROVE HInv
      OBVIOUS
  <2>1. measured \in [Zones -> Int] /\ \A zone \in Zones : measured[zone] = -1
    BY DEF Init, Cold
  <2>2. hottest.c = -1 /\ hottest.type \notin Zones /\ DOMAIN hottest = {"c", "type"}
    BY ZonesAssumption DEF Init, NoTemp
  <2> QED
    BY <2>1, <2>2 DEF Init, HInv, HottestNamed
<1>2. HInv => HottestNamed
    BY DEF HInv
<1> QED
    BY <1>1, <1>2, StepKeepsHInv, PTL DEF Spec

-----------------------------------------------------------------------------
(* The bars.                                                               *)

\* A product that passed the test of blocks_to_bytes is the whole product.
LEMMA FitsIsExact ==
    ASSUME NEW blocks \in Nat, NEW size \in Nat, Fits(blocks, size)
    PROVE  (blocks * size) % Word = blocks * size
<1>1. Word \in Nat /\ Word > 0
    BY ValuesAssumption
<1>2. CASE blocks = 0
  BY <1>1, <1>2
<1>3. CASE blocks # 0
  <2>1. blocks * ((Word - 1) \div blocks) <= Word - 1
    BY <1>1, <1>3
  <2>2. size <= (Word - 1) \div blocks /\ (Word - 1) \div blocks \in Nat
    BY <1>1, <1>3 DEF Fits
  <2>3. blocks * size <= blocks * ((Word - 1) \div blocks)
    BY <1>3, <2>2
  <2>4. blocks * size \in Nat /\ blocks * size < Word
    BY <1>1, <2>1, <2>2, <2>3
  <2> QED
    BY <1>1, <2>4
<1> QED
  BY <1>2, <1>3

\* A difference of two numbers in order does not go round.
LEMMA MinusIsExact ==
    ASSUME NEW a \in Nat, NEW b \in Nat, b <= a, a < Word
    PROVE  Minus(a, b) = a - b
BY ValuesAssumption DEF Minus
MemoryDone == {"disk", "cpu", "network", "window", "rates", "usage", "lists", "key"}
DiskDone   == MemoryDone \ {"disk"}

MemoryChecked == FoundAll /\ InRange
DiskChecked ==
    /\ disk.whole \in Nat /\ disk.part \in Nat
    /\ disk.whole # 0 /\ disk.part <= disk.whole
    /\ disk.whole < Word /\ disk.whole = disk.exact

\* What the readers have checked stands until the bars are drawn.
BInv ==
    /\ DOMAIN view = ViewFields
    /\ meminfo \in [Fields -> 0 .. MaxKib \cup {Unread}]
    /\ pc \in MemoryDone => MemoryChecked
    /\ pc \in DiskDone => DiskChecked
    /\ pc \in Computed => MemoryBar /\ DiskBar /\ Percent(view.cpu)

\* The counters' deltas, added up.
LEMMA TotalIsSum == \A delta, group : Total(delta, group) = SumOver(delta, group)
BY DEF Total, MapThenSumSet, MapThenFoldSet, SumOver, IsSum, Chosen

\* The active ticks are a part of all ticks, and both fit the word.
LEMMA TicksInRange ==
    ASSUME NEW delta \in [Counters -> -1 .. MaxDelta], Forward(delta)
    PROVE  /\ Total(delta, Counters) \in 1 .. Word - 1
           /\ Total(delta, Active) \in 0 .. Total(delta, Counters)
<1>1. /\ IsFiniteSet(Counters) /\ IsFiniteSet(Active) /\ Active \subseteq Counters
      /\ Cardinality(Counters) * MaxDelta < Word
  BY CountersAssumption, FS_Union DEF Counters
<1>2. /\ MaxDelta \in Nat /\ Word \in Nat
      /\ \A c \in Counters : delta[c] \in Nat /\ delta[c] \in Int /\ delta[c] >= 0 /\ delta[c] <= MaxDelta
  BY CountersAssumption, ValuesAssumption DEF Forward
<1>3. /\ SumOver(delta, Counters) \in Int /\ SumOver(delta, Counters) >= 0
      /\ SumOver(delta, Active) \in Int /\ SumOver(delta, Active) >= 0
  BY <1>1, <1>2, SumType
<1>4. SumOver(delta, Active) <= SumOver(delta, Counters)
  <2> DEFINE m == [c \in Active |-> c]
  <2>1. /\ \A x \in Active : m[x] \in Counters /\ delta[x] <= delta[m[x]]
        /\ \A x, z \in Active : m[x] = m[z] => x = z
        /\ \A x \in Active : delta[x] \in Int
    BY <1>1, <1>2
  <2> HIDE DEF m
  <2> QED
    BY <1>1, <1>2, <2>1, SumInject
<1>5. SumOver(delta, Counters) <= Cardinality(Counters) * MaxDelta
  BY <1>1, <1>2, SumBound
<1>6. Cardinality(Counters) * MaxDelta \in Int
  <2>1. Cardinality(Counters) \in Nat
    BY <1>1, FS_CardinalityType
  <2> QED
    BY <1>2, <2>1
<1>7. SumOver(delta, Counters) # 0
  BY TotalIsSum DEF Forward
<1>8. SumOver(delta, Counters) \in 1 .. Word - 1
  <2> DEFINE cap == Cardinality(Counters) * MaxDelta
  <2>1. cap \in Int /\ cap < Word /\ SumOver(delta, Counters) <= cap
    BY <1>1, <1>5, <1>6
  <2> HIDE DEF cap
  <2> QED
    BY <1>2, <1>3, <1>7, <2>1
<1> QED
  BY <1>3, <1>4, <1>8, TotalIsSum

\* The bars computed from checked readings.
LEMMA UsageInRange ==
    ASSUME BInv, Usage, pc' = "lists"
    PROVE  MemoryBar' /\ DiskBar' /\ Percent(view'.cpu)
<1> DEFINE used    == Minus(meminfo["MemTotal"], meminfo["MemAvailable"])
           swapped == Minus(meminfo["SwapTotal"], meminfo["SwapFree"])
           taken   == Minus(disk.whole, disk.part)
<1>1. pc = "usage" /\ UNCHANGED <<meminfo, disk>>
  BY DEF Usage
<1>2. /\ view'.memory = [part |-> used, whole |-> meminfo["MemTotal"]]
      /\ view'.swap_used = swapped
      /\ view'.disk = [part |-> taken, whole |-> disk.whole]
  BY DEF Usage, Abandon, BInv, ViewFields
<1>3. MemoryChecked /\ DiskChecked
  BY <1>1 DEF BInv, MemoryDone, DiskDone
<1>4. \A f \in Fields : meminfo[f] \in Nat /\ meminfo[f] < Word
  BY <1>3, ValuesAssumption DEF BInv, MemoryChecked, FoundAll, Unread
<1>5. /\ used = meminfo["MemTotal"] - meminfo["MemAvailable"]
      /\ swapped = meminfo["SwapTotal"] - meminfo["SwapFree"]
  BY <1>3, <1>4, MinusIsExact DEF MemoryChecked, InRange, Fields
<1>6. taken = disk.whole - disk.part
  BY <1>3, MinusIsExact DEF DiskChecked
<1> HIDE DEF used, swapped, taken
<1>7. MemoryBar'
  <2>1. meminfo["MemTotal"] > 0 /\ used <= meminfo["MemTotal"]
    BY <1>3, <1>4, <1>5 DEF MemoryChecked, InRange, Fields
  <2> QED
    BY <1>1, <1>2, <1>4, <1>5, <2>1 DEF MemoryBar, Percent, Fields
<1>8. DiskBar'
  BY <1>1, <1>2, <1>3, <1>6 DEF DiskBar, DiskChecked, Percent
<1>9. Percent(view'.cpu)
  <2>1. PICK delta \in [Counters -> -1 .. MaxDelta] :
           /\ Forward(delta)
           /\ view'.cpu = [part |-> Total(delta, Active) % Word,
                           whole |-> Total(delta, Counters) % Word]
    BY DEF Usage, Abandon, BInv, ViewFields
  <2> DEFINE part == Total(delta, Active)
             whole == Total(delta, Counters)
  <2>2. whole \in 1 .. Word - 1 /\ part \in 0 .. whole
    BY <2>1, TicksInRange
  <2> HIDE DEF part, whole
  <2>3. Word \in Nat \ {0} /\ part \in 0 .. Word - 1 /\ whole \in 0 .. Word - 1
    BY <2>2, ValuesAssumption
  <2>4. part % Word = part /\ whole % Word = whole
    <3>1. ASSUME NEW w \in Nat \ {0}, NEW x \in 0 .. w - 1 PROVE x % w = x
      BY <3>1, SMTT(30)
    <3> QED
      BY <2>3, <3>1
  <2>5. view'.cpu = [part |-> part, whole |-> whole]
    BY <2>1, <2>4 DEF part, whole
  <2> QED
    BY <2>2, <2>5 DEF Percent
<1> QED
  BY <1>7, <1>8, <1>9

\* No step changes a reading after its check, nor a bar after it was computed.
LEMMA StepKeepsBInv == BInv /\ [Next]_vars => BInv'
<1> SUFFICES ASSUME BInv, [Next]_vars PROVE BInv'
    OBVIOUS
<1> USE DEF BInv, readers, MemoryDone, DiskDone, Computed
<1>1. CASE HostRead
  <2>1. meminfo' \in [Fields -> 0 .. MaxKib \cup {Unread}]
    BY <1>1 DEF HostRead, Clear
  <2>2. DOMAIN view' = ViewFields /\ pc' \in {"thermal", "memory"}
    BY <1>1 DEF HostRead, Cleared, Zeroed, ViewFields
  <2> QED
    BY <2>1, <2>2
<1>2. CASE ThermalZone \/ ThermalEnd
  <2>1. DOMAIN view' = DOMAIN view /\ pc' \in {"thermal", "memory"} /\ meminfo' = meminfo
    BY <1>2 DEF ThermalZone, ThermalEnd
  <2> QED
    BY <2>1
<1>3. CASE MemoryLine
  <2>1. meminfo' \in [Fields -> 0 .. MaxKib \cup {Unread}]
    BY <1>3 DEF MemoryLine
  <2>2. view' = view /\ pc' \in {"memory", "memory_end", "done"}
    BY <1>3 DEF MemoryLine, Abandon
  <2> QED
    BY <2>1, <2>2
<1>4. CASE MemoryRead
  <2>1. /\ view' = view
        /\ meminfo' = meminfo
        /\ \/ pc' = "disk" /\ FoundAll /\ InRange
           \/ pc' = "done"
    BY <1>4 DEF MemoryRead, Abandon
  <2> QED
    BY <2>1 DEF MemoryChecked, FoundAll, InRange
<1>5. CASE DiskRead
  <2>1. CASE pc' = "cpu"
    <3>1. PICK blocks, avail, size \in 0 .. MaxBlocks :
             LET total == (blocks * size) % Word
                 free  == (avail * size) % Word
             IN  /\ Fits(blocks, size) /\ Fits(avail, size)
                 /\ total # 0 /\ free <= total
                 /\ disk' = [part |-> free, whole |-> total, exact |-> blocks * size]
      BY <1>5, <2>1 DEF DiskRead, Abandon
    <3>2. blocks \in Nat /\ avail \in Nat /\ size \in Nat /\ Word \in Nat /\ Word > 0
      BY ValuesAssumption
    <3>3. (blocks * size) % Word = blocks * size /\ (avail * size) % Word = avail * size
      BY <3>1, <3>2, FitsIsExact
    <3>4. /\ (blocks * size) % Word \in 0 .. Word - 1
          /\ (avail * size) % Word \in 0 .. Word - 1
      BY <3>2
    <3>5. DiskChecked'
      BY <3>1, <3>2, <3>3, <3>4 DEF DiskChecked
    <3>6. pc = "disk" /\ view' = view /\ meminfo' = meminfo
      BY <1>5 DEF DiskRead
    <3> QED
      BY <2>1, <3>5, <3>6 DEF MemoryChecked, FoundAll, InRange
  <2>2. CASE pc' = "done"
    BY <1>5, <2>2 DEF DiskRead
  <2> QED
    BY <1>5, <2>1, <2>2 DEF DiskRead, Abandon
<1>6. CASE CpuRead \/ CpuReadFails \/ NetworkPrev \/ NetworkCurr
  <2>1. /\ DOMAIN view' = DOMAIN view /\ UNCHANGED <<meminfo, disk>>
        /\ \/ pc \in DiskDone /\ pc' \in {"network", "window", "rates", "usage"}
           \/ pc' = "done"
    BY <1>6 DEF CpuRead, CpuReadFails, Abandon, NetworkPrev, NetworkCurr
  <2> QED
    BY <2>1 DEF MemoryChecked, FoundAll, InRange, DiskChecked
<1>7. CASE Usage
  <2>1. /\ DOMAIN view' = DOMAIN view /\ UNCHANGED <<meminfo, disk>>
        /\ pc = "usage" /\ pc' \in {"lists", "done"}
    BY <1>7 DEF Usage, Abandon
  <2> QED
    BY <1>7, <2>1, UsageInRange DEF MemoryChecked, FoundAll, InRange, DiskChecked
<1>8. CASE Lists
  <2>1. /\ DOMAIN view' = DOMAIN view /\ UNCHANGED <<meminfo, disk>>
        /\ UNCHANGED <<view.memory, view.swap_used, view.disk, view.cpu>>
        /\ pc = "lists" /\ pc' = "key"
    BY <1>8 DEF Lists, ViewFields
  <2> QED
    BY <2>1 DEF MemoryChecked, FoundAll, InRange, DiskChecked, MemoryBar, DiskBar, Percent
<1>9. CASE Key
  BY <1>9 DEF Key
<1>10. CASE UNCHANGED vars
  BY <1>10 DEF vars, MemoryChecked, FoundAll, InRange, DiskChecked, MemoryBar, DiskBar, Percent
<1> QED
  BY <1>1, <1>2, <1>3, <1>4, <1>5, <1>6, <1>7, <1>8, <1>9, <1>10 DEF Next

\* No bar is drawn before the first sample.
LEMMA BarsStart == Init => BInv
BY DEF Init, BInv, Zeroed, ViewFields, Clear, MemoryDone, DiskDone, Computed

\* All bars are in range for words of any width: what blocks_to_bytes, memory_parse and
\* cpu_deltas test is enough for no product, sum or difference to go round.
THEOREM Bars == Spec => []BarsInRange
<1>1. Init => BInv
    BY BarsStart
<1>2. BInv => BarsInRange
    BY DEF BInv, BarsInRange, Computed
<1> QED
    BY <1>1, <1>2, StepKeepsBInv, PTL DEF Spec

-----------------------------------------------------------------------------
(* Types.                                                                  *)

\* The four parts of the view that are computed.
ViewTypes(v) ==
    /\ v.memory \in [part : Words, whole : Words]
    /\ v.disk \in [part : Words, whole : Words]
    /\ v.cpu \in [part : Words, whole : Words]
    /\ v.swap_used \in Words

\* Both arrays take a number of a sample and stay within their capacity.
LEMMA PushTypes ==
    ASSUME NEW array \in Seq(1 .. MaxSamples), Len(array) <= HISTORY_MAX, n \in 1 .. MaxSamples
    PROVE  Push(array) \in Seq(1 .. MaxSamples) /\ Len(Push(array)) <= HISTORY_MAX
<1> DEFINE P == 1 .. MaxSamples
<1>1. array \in Seq(P) /\ n \in P /\ Len(array) \in Nat
  OBVIOUS
<1> HIDE DEF P
<1>2. CASE Len(array) < HISTORY_MAX
  <2>1. Append(array, n) \in Seq(P) /\ Len(Append(array, n)) = Len(array) + 1
    BY <1>1
  <2> QED
    BY <1>1, <1>2, <2>1, HistoryAssumption DEF Push, P
<1>3. CASE ~(Len(array) < HISTORY_MAX)
  <2>1. array # << >>
    BY <1>1, <1>3, HistoryAssumption
  <2>2. Tail(array) \in Seq(P) /\ Len(Tail(array)) = Len(array) - 1
    BY <1>1, <2>1
  <2>3. Append(Tail(array), n) \in Seq(P) /\ Len(Append(Tail(array), n)) = Len(array)
    BY <1>1, <2>2
  <2> QED
    BY <1>3, <2>3 DEF Push, P
<1> QED
  BY <1>2, <1>3

\* The numbers computed are words.
LEMMA UsageTypes ==
    ASSUME TypeOK, BInv, Usage, pc' = "lists"
    PROVE  ViewTypes(view')
<1>1. pc = "usage" /\ UNCHANGED <<meminfo, disk>>
  BY DEF Usage
<1>2. PICK delta \in [Counters -> -1 .. MaxDelta] :
         /\ Forward(delta)
         /\ view'.cpu = [part |-> Total(delta, Active) % Word,
                         whole |-> Total(delta, Counters) % Word]
         /\ view'.memory = [part |-> Minus(meminfo["MemTotal"], meminfo["MemAvailable"]),
                            whole |-> meminfo["MemTotal"]]
         /\ view'.swap_used = Minus(meminfo["SwapTotal"], meminfo["SwapFree"])
         /\ view'.disk = [part |-> Minus(disk.whole, disk.part), whole |-> disk.whole]
  BY DEF Usage, Abandon, BInv, ViewFields
<1>3. MemoryChecked /\ DiskChecked
  BY <1>1 DEF BInv, MemoryDone, DiskDone
<1>4. Word \in Nat \ {0}
  BY ValuesAssumption
<1>5. \A x \in Int : x % Word \in Words
  BY <1>4 DEF Words
<1>6. \A f \in Fields : meminfo[f] \in Words /\ meminfo[f] \in Int
  BY <1>3, ValuesAssumption DEF BInv, MemoryChecked, FoundAll, Unread, Words
<1>7. disk.whole \in Words /\ disk.whole \in Int /\ disk.part \in Int
  BY <1>3, ValuesAssumption DEF DiskChecked, Words
<1>8. Total(delta, Active) \in Int /\ Total(delta, Counters) \in Int
  BY <1>2, TicksInRange
<1>9. /\ Total(delta, Active) % Word \in Words /\ Total(delta, Counters) % Word \in Words
      /\ Minus(disk.whole, disk.part) \in Words
      /\ Minus(meminfo["MemTotal"], meminfo["MemAvailable"]) \in Words
      /\ Minus(meminfo["SwapTotal"], meminfo["SwapFree"]) \in Words
  <2>1. \A a, b \in Int : Minus(a, b) \in Words
    BY <1>5 DEF Minus
  <2> QED
    BY <1>5, <1>6, <1>7, <1>8, <2>1 DEF Fields
<1> QED
  BY <1>2, <1>6, <1>7, <1>9 DEF ViewTypes, Fields

\* Every step keeps the types.
LEMMA StepKeepsTypes == TypeOK /\ GInv /\ BInv /\ [Next]_vars => TypeOK'
<1> SUFFICES ASSUME TypeOK, GInv, BInv, [Next]_vars PROVE TypeOK'
    OBVIOUS
<1> USE DEF readers
<1>1. pc \in {"frame", "thermal", "memory", "memory_end", "disk", "cpu", "network",
              "window", "rates", "usage", "lists", "key", "done"}
      /\ n \in 0 .. MaxSamples /\ view_ok \in BOOLEAN /\ process_prev \in BOOLEAN
      /\ zones \subseteq Zones /\ meminfo \in [Fields -> 0 .. MaxKib \cup {Unread}]
      /\ history \in [cpu : Seq(1 .. MaxSamples), memory : Seq(1 .. MaxSamples)]
      /\ Len(history.cpu) <= HISTORY_MAX /\ Len(history.memory) <= HISTORY_MAX
      /\ ViewTypes(view) /\ DOMAIN view = ViewFields
  BY DEF TypeOK, ViewTypes, BInv
<1>2. BInv'
  BY StepKeepsBInv
<1>3. /\ pc' \in {"frame", "thermal", "memory", "memory_end", "disk", "cpu", "network",
                  "window", "rates", "usage", "lists", "key", "done"}
      /\ view_ok' \in BOOLEAN /\ process_prev' \in BOOLEAN /\ zones' \subseteq Zones
  <2>1. CASE HostRead \/ ThermalZone \/ ThermalEnd
    BY <1>1, <2>1 DEF HostRead, ThermalZone, ThermalEnd
  <2>2. CASE MemoryLine \/ MemoryRead \/ DiskRead
    BY <1>1, <2>2 DEF MemoryLine, MemoryRead, DiskRead, Abandon
  <2>3. CASE CpuRead \/ CpuReadFails \/ NetworkPrev \/ NetworkCurr
    BY <1>1, <2>3 DEF CpuRead, CpuReadFails, NetworkPrev, NetworkCurr, Abandon
  <2>4. CASE Usage \/ Lists \/ Key
    BY <1>1, <2>4 DEF Usage, Lists, Key, Abandon
  <2>5. CASE UNCHANGED vars
    BY <1>1, <2>5 DEF vars
  <2> QED
    BY <2>1, <2>2, <2>3, <2>4, <2>5 DEF Next
<1>4. n' \in 0 .. MaxSamples
  <2>1. CASE HostRead
    BY <1>1, <2>1, HistoryAssumption DEF HostRead
  <2>2. CASE ~HostRead
    BY <1>1, <2>2 DEF Next, ThermalZone, ThermalEnd, MemoryLine, MemoryRead, DiskRead, CpuRead,
                      CpuReadFails, NetworkPrev, NetworkCurr, Usage, Lists, Key, vars
  <2> QED
    BY <2>1, <2>2
<1>5. /\ history' \in [cpu : Seq(1 .. MaxSamples), memory : Seq(1 .. MaxSamples)]
      /\ Len(history'.cpu) <= HISTORY_MAX /\ Len(history'.memory) <= HISTORY_MAX
  <2>1. CASE Lists
    <3>1. history' = [cpu |-> Push(history.cpu), memory |-> Push(history.memory)]
      BY <2>1 DEF Lists, history_push
    <3>2. n \in 1 .. MaxSamples
      BY <1>1, <2>1, HistoryAssumption DEF GInv, Lists, Sampling
    <3>3. history.cpu \in Seq(1 .. MaxSamples) /\ history.memory \in Seq(1 .. MaxSamples)
      BY <1>1
    <3>4. /\ Push(history.cpu) \in Seq(1 .. MaxSamples) /\ Len(Push(history.cpu)) <= HISTORY_MAX
          /\ Push(history.memory) \in Seq(1 .. MaxSamples) /\ Len(Push(history.memory)) <= HISTORY_MAX
      BY <1>1, <3>2, <3>3, PushTypes
    <3> QED
      BY <3>1, <3>4
  <2>2. CASE ~Lists
    <3>1. history' = history
      BY <2>2 DEF Next, HostRead, ThermalZone, ThermalEnd, MemoryLine, MemoryRead, DiskRead, CpuRead,
                  CpuReadFails, NetworkPrev, NetworkCurr, Usage, Key, vars
    <3> QED
      BY <1>1, <3>1
  <2> QED
    BY <2>1, <2>2
<1>6. ViewTypes(view')
  <2>1. CASE HostRead
    <3>1. /\ view'.memory = Part /\ view'.disk = Part /\ view'.cpu = Part /\ view'.swap_used = 0
      BY <2>1 DEF HostRead, Cleared, Zeroed
    <3>2. 0 \in Words /\ Part \in [part : Words, whole : Words]
      BY ValuesAssumption DEF Words, Part
    <3> QED
      BY <3>1, <3>2 DEF ViewTypes
  <2>2. CASE Usage
    <3>1. CASE pc' = "lists"
      BY <2>2, <3>1, UsageTypes
    <3>2. CASE pc' # "lists"
      BY <1>1, <2>2, <3>2 DEF Usage
    <3> QED
      BY <3>1, <3>2
  <2>3. CASE ~HostRead /\ ~Usage
    <3>1. UNCHANGED <<view.memory, view.disk, view.cpu, view.swap_used>>
      <4>1. CASE ThermalEnd \/ NetworkPrev \/ NetworkCurr \/ Lists
        BY <1>1, <4>1 DEF ThermalEnd, NetworkPrev, NetworkCurr, Lists, ViewFields
      <4>2. CASE ~ThermalEnd /\ ~NetworkPrev /\ ~NetworkCurr /\ ~Lists
        BY <2>3, <4>2 DEF Next, ThermalZone, MemoryLine, MemoryRead, DiskRead, CpuRead,
                          CpuReadFails, Key, vars
      <4> QED
        BY <4>1, <4>2
    <3> QED
      BY <1>1, <3>1 DEF ViewTypes
  <2> QED
    BY <2>1, <2>2, <2>3
<1> QED
  BY <1>2, <1>3, <1>4, <1>5, <1>6 DEF TypeOK, ViewTypes, BInv

\* Type correctness: no value computed from the readers leaves its word, and neither
\* history array its capacity.
THEOREM SampleTypes == Spec => []TypeOK
<1>1. Init => TypeOK /\ GInv /\ BInv
  <2> SUFFICES ASSUME Init PROVE TypeOK /\ GInv /\ BInv
      OBVIOUS
  <2>1. GInv /\ BInv
    BY GraphsStart, BarsStart
  <2>2. 0 \in Words /\ 0 \in 0 .. MaxSamples /\ 0 <= HISTORY_MAX
    BY ValuesAssumption, HistoryAssumption DEF Words
  <2>3. << >> \in Seq(1 .. MaxSamples) /\ Len(<< >>) = 0
    OBVIOUS
  <2>4. meminfo \in [Fields -> 0 .. MaxKib \cup {Unread}]
    BY <2>1 DEF BInv
  <2>5. ViewTypes(view)
    BY <2>2 DEF Init, Zeroed, Part, ViewTypes
  <2>6. TypeOK
    BY <2>2, <2>3, <2>4, <2>5 DEF Init, TypeOK, ViewTypes
  <2> QED
    BY <2>1, <2>6
<1> QED
    BY <1>1, StepKeepsTypes, StepKeepsGInv, StepKeepsBInv, PTL DEF Spec

-----------------------------------------------------------------------------
(* The network line: Network, which works on a sample of its own and has   *)
(* its own place in the code, net_pc.  OverviewSample only says when it is *)
(* measured.                                                               *)

\* What is assumed of its constants.
LEMMA NetworkConstants ==
    /\ "lo" \in Interfaces /\ IsFiniteSet(Interfaces)
    /\ MaxBytes \in Nat /\ MaxMoved \in Nat /\ Word \in Nat /\ MaxBytes < Word
BY NamesAssumption, BytesAssumption

Ways == {"rx", "tx"}

\* The traffic so far: with the interfaces left in peace it is what the sums have
\* grown by.
Grown ==
    net_pc = "window" /\ network_ok /\ ~regressed =>
        \A way \in Ways : Sum(way) = net_prev[way] + moved[way]

NInv ==
    /\ NetTypeOK
    /\ net_pc = "prev" => moved = Zero
    /\ Grown
    /\ RateIsTraffic
    /\ NoWildRate

\* The sum over some interfaces, of one way.
Carried(counts, ifs, way) == SumOver([i \in ifs |-> counts[i][way]], ifs)

\* Sum, unfolded.
SumIsField == \A way \in Ways : Sum(way) = FieldSum(counter, way, Counted)

LEMMA NetSumIsField == SumIsField
BY DEF SumIsField, Sum, MapThenSumSet, MapThenFoldSet, FieldSum, IsFieldSum, Chosen

\* It is of the interfaces only.
LEMMA SumUnchanged ==
    ASSUME UNCHANGED <<up, counter>>
    PROVE  \A way \in Ways : Sum(way)' = Sum(way)
<1>1. SumIsField'
  BY NetSumIsField, PTL
<1>2. Counted' = Counted
  BY DEF Counted
<1> QED
  BY <1>1, <1>2, NetSumIsField DEF SumIsField

\* A sum is a natural number, and the sum over the interfaces counted.
SumsRight ==
    \A way \in Ways : /\ Sum(way) = Carried(counter, Counted, way)
                      /\ Sum(way) \in Nat

LEMMA NetSums == NetTypeOK => SumsRight
<1> SUFFICES ASSUME NetTypeOK, NEW way \in Ways
             PROVE  /\ Sum(way) = Carried(counter, Counted, way)
                    /\ Sum(way) \in Nat
    BY DEF SumsRight
<1>1. IsFiniteSet(Counted) /\ Counted \subseteq Interfaces
  <2>1. Counted \in SUBSET Interfaces
    BY DEF Counted, NetTypeOK
  <2> QED
    BY <2>1, FS_Subset, NetworkConstants
<1>2. Sum(way) = Carried(counter, Counted, way)
  BY <1>1, NetSumIsField, FieldSumIsSum DEF Carried, SumIsField
<1> DEFINE f == [i \in Counted |-> counter[i][way]]
<1>3. \A i \in Counted : f[i] \in Nat
  BY <1>1, NetworkConstants DEF NetTypeOK, Bytes, Ways
<1>4. SumOver(f, Counted) \in Int /\ SumOver(f, Counted) >= 0
  <2>1. \A i \in Counted : f[i] \in Int /\ f[i] >= 0
    BY <1>3
  <2> HIDE DEF f
  <2> QED
    BY <1>1, <2>1, SumType
<1> QED
  BY <1>2, <1>4 DEF Carried

\* Interfaces whose counts are as they were sum up to the same.
LEMMA SameCounts ==
    ASSUME NEW c, NEW d, NEW ifs, IsFiniteSet(ifs), NEW way, \A i \in ifs : c[i][way] = d[i][way]
    PROVE  Carried(c, ifs, way) = Carried(d, ifs, way)
<1> DEFINE f == [i \in ifs |-> c[i][way]]
           h == [i \in ifs |-> d[i][way]]
<1>1. \A i \in ifs : f[i] = h[i]
  OBVIOUS
<1> HIDE DEF f, h
<1>2. SumOver(f, ifs) = SumOver(h, ifs)
  BY <1>1, SumSame
<1> QED
  BY <1>2 DEF Carried, f, h

\* An interface without counts may be there or not.
LEMMA EmptyInterface ==
    ASSUME NEW c, NEW ifs, IsFiniteSet(ifs), NEW way, NEW i \in ifs, c[i][way] = 0,
           \A k \in ifs : c[k][way] \in Int
    PROVE  Carried(c, ifs, way) = Carried(c, ifs \ {i}, way)
<1> DEFINE f == [k \in ifs |-> c[k][way]]
           h == [k \in ifs \ {i} |-> c[k][way]]
           rest == ifs \ {i}
<1>1. (\A k \in ifs : f[k] \in Int) /\ f[i] = 0 /\ \A k \in rest : f[k] = h[k] /\ f[k] \in Int
  OBVIOUS
<1>2. IsFiniteSet(rest)
  BY FS_RemoveElement
<1>3. Carried(c, ifs, way) = SumOver(f, ifs) /\ Carried(c, ifs \ {i}, way) = SumOver(h, rest)
  BY DEF Carried
<1> HIDE DEF f, h
<1>4. SumOver(f, ifs) = f[i] + SumOver(f, rest)
  BY <1>1, SumRemove
<1> HIDE DEF rest
<1>5. SumOver(f, rest) = SumOver(h, rest) /\ SumOver(f, rest) \in Int
  BY <1>1, <1>2, SumSame, SumType
<1> QED
  BY <1>1, <1>3, <1>4, <1>5

\* One byte more on an interface that is counted.
LEMMA OneMore ==
    ASSUME NEW c \in [Interfaces -> Bytes],
           NEW ifs \in SUBSET Interfaces, NEW i \in ifs, NEW way \in Ways,
           NEW d, \A w \in Ways : d[i][w] = c[i][w] + (IF w = way THEN 1 ELSE 0),
           \A k \in ifs \ {i} : d[k] = c[k]
    PROVE  \A w \in Ways : Carried(d, ifs, w) = Carried(c, ifs, w) + (IF w = way THEN 1 ELSE 0)
<1> SUFFICES ASSUME NEW w \in Ways
             PROVE  Carried(d, ifs, w) = Carried(c, ifs, w) + (IF w = way THEN 1 ELSE 0)
    OBVIOUS
<1> DEFINE f == [k \in ifs |-> c[k][w]]
           h == [k \in ifs |-> d[k][w]]
<1>1. IsFiniteSet(ifs)
  BY FS_Subset, NetworkConstants
<1>2. /\ \A k \in ifs : f[k] \in Int
      /\ h[i] = f[i] + (IF w = way THEN 1 ELSE 0)
      /\ \A k \in ifs \ {i} : h[k] = f[k]
  <2>1. \A k \in ifs : c[k] \in Bytes /\ c[k][w] \in Nat
    BY NetworkConstants DEF Bytes, Ways
  <2> QED
    BY <2>1
<1>3. h[i] \in Int
  BY <1>2
<1>4. Carried(c, ifs, w) = SumOver(f, ifs) /\ Carried(d, ifs, w) = SumOver(h, ifs)
  BY DEF Carried
<1> HIDE DEF f, h
<1>5. SumOver(h, ifs) = SumOver(f, ifs) - f[i] + h[i] /\ SumOver(f, ifs) \in Int
  BY <1>1, <1>2, <1>3, SumUpdate, SumType
<1> QED
  BY <1>2, <1>4, <1>5

\* The interfaces during the window.
LEMMA SystemKeepsNInv == ASSUME NInv, System PROVE NInv'
<1> USE DEF NInv
<1>1. net_pc = "window" /\ UNCHANGED <<net_pc, net_prev, net_curr, network_ok, rate>>
  BY DEF System
<1>2. PICK i \in Interfaces :
         (\E way \in Ways : Carry(i, way)) \/ Reset(i) \/ Move(i)
  BY DEF System, Ways
<1>3. counter[i] \in Bytes /\ counter \in [Interfaces -> Bytes]
      /\ up \subseteq Interfaces /\ regressed \in BOOLEAN
      /\ moved \in [rx : 0 .. MaxMoved, tx : 0 .. MaxMoved]
  BY DEF NetTypeOK
<1>4. /\ up' \subseteq Interfaces /\ counter' \in [Interfaces -> Bytes]
      /\ moved' \in [rx : 0 .. MaxMoved, tx : 0 .. MaxMoved] /\ regressed' \in BOOLEAN
  <2>1. CASE Reset(i)
    <3>1. Zero \in Bytes
      BY NetworkConstants DEF Zero, Bytes
    <3> QED
      BY <1>3, <2>1, <3>1 DEF Reset
  <2>2. CASE Move(i)
    BY <1>3, <2>2 DEF Move
  <2>3. CASE \E way \in Ways : Carry(i, way)
    <3>1. PICK way \in Ways : Carry(i, way)
      BY <2>3
    <3>2. UNCHANGED <<up, regressed>> /\ counter' = [counter EXCEPT ![i][way] = @ + 1]
          /\ (moved' = moved \/ moved' = [moved EXCEPT ![way] = @ + 1])
      BY <3>1 DEF Carry
    <3>3. counter'[i] \in Bytes
      <4>1. counter'[i] = [counter[i] EXCEPT ![way] = @ + 1] /\ counter[i][way] < MaxBytes
        BY <1>3, <3>1, <3>2 DEF Carry
      <4> QED
        BY <1>3, <4>1, NetworkConstants DEF Bytes, Ways
    <3>4. moved[way] < MaxMoved
      BY <3>1 DEF Carry
    <3>5. moved' \in [rx : 0 .. MaxMoved, tx : 0 .. MaxMoved]
      BY <1>3, <3>2, <3>4, NetworkConstants DEF Ways
    <3>6. counter' \in [Interfaces -> Bytes]
      BY <1>3, <3>2, <3>3
    <3> QED
      BY <1>3, <3>2, <3>5, <3>6
  <2> QED
    BY <1>2, <2>1, <2>2, <2>3
<1>5. NetTypeOK'
  BY <1>1, <1>4 DEF NetTypeOK
<1>6. SumsRight /\ SumsRight'
  <2>1. SumsRight'
    BY <1>5, NetSums, PTL
  <2> QED
    BY <2>1, NetSums
<1>7. ASSUME network_ok, ~regressed', NEW w \in Ways
      PROVE  Sum(w)' = net_prev[w] + moved'[w]
  <2>1. /\ Sum(w) = Carried(counter, Counted, w)
        /\ Sum(w)' = Carried(counter', Counted', w)
        /\ Sum(w) \in Nat
    BY <1>6 DEF SumsRight, Ways
  <2>2. IsFiniteSet(Counted) /\ IsFiniteSet(Counted')
    <3>1. Counted \in SUBSET Interfaces /\ Counted' \in SUBSET Interfaces
      BY <1>3, <1>4 DEF Counted
    <3> QED
      BY <3>1, FS_Subset, NetworkConstants
  <2>3. ~regressed => Sum(w) = net_prev[w] + moved[w]
    BY <1>1, <1>7 DEF Grown
  <2>4. /\ \A k \in Interfaces : counter[k][w] \in Int
        /\ net_prev[w] \in Int /\ moved[w] \in Int
    BY NetworkConstants DEF NetTypeOK, Bytes, Ways
  <2>5. CASE Reset(i)
    <3>1. ~regressed /\ i = "lo" /\ Counted' = Counted /\ moved' = moved
      BY <1>7, <2>5 DEF Reset, Counted
    <3>2. \A k \in Counted : counter'[k][w] = counter[k][w]
      BY <1>3, <2>5, <3>1 DEF Reset, Counted
    <3>3. Carried(counter', Counted, w) = Carried(counter, Counted, w)
      BY <2>2, <3>2, SameCounts
    <3> QED
      BY <2>1, <2>3, <3>1, <3>3
  <2>6. CASE Move(i)
    <3>1. ~regressed /\ (i = "lo" \/ counter[i] = Zero) /\ counter' = counter /\ moved' = moved
          /\ up' = (up \ {i}) \cup ({i} \ up)
      BY <1>7, <2>6 DEF Move
    <3>2. CASE i = "lo"
      <4>1. Counted' = Counted
        BY <3>1, <3>2 DEF Counted
      <4> QED
        BY <2>1, <2>3, <3>1, <4>1
    <3>3. CASE i # "lo"
      <4>1. counter[i][w] = 0
        BY <3>1, <3>3 DEF Zero, Ways
      <4>2. CASE i \in up
        <5>1. i \in Counted /\ Counted' = Counted \ {i}
          BY <3>1, <3>3, <4>2 DEF Counted
        <5>2. Carried(counter, Counted, w) = Carried(counter, Counted', w)
          <6> DEFINE ifs == Counted
          <6>1. \A k \in ifs : counter[k][w] \in Int
            BY <1>3, <2>4 DEF Counted
          <6>2. i \in ifs /\ IsFiniteSet(ifs)
            BY <2>2, <5>1
          <6> HIDE DEF ifs
          <6>3. Carried(counter, ifs, w) = Carried(counter, ifs \ {i}, w)
            BY <4>1, <6>1, <6>2, EmptyInterface
          <6> QED
            BY <5>1, <6>3 DEF ifs
        <5> QED
          BY <2>1, <2>3, <3>1, <5>2
      <4>3. CASE i \notin up
        <5>1. i \in Counted' /\ Counted = Counted' \ {i}
          BY <3>1, <3>3, <4>3 DEF Counted
        <5>2. Carried(counter, Counted', w) = Carried(counter, Counted, w)
          <6> DEFINE ifs == Counted'
          <6>1. \A k \in ifs : counter[k][w] \in Int
            BY <1>4, <2>4 DEF Counted
          <6>2. i \in ifs /\ IsFiniteSet(ifs)
            BY <2>2, <5>1
          <6> HIDE DEF ifs
          <6>3. Carried(counter, ifs, w) = Carried(counter, ifs \ {i}, w)
            BY <4>1, <6>1, <6>2, EmptyInterface
          <6> QED
            BY <5>1, <6>3 DEF ifs
        <5> QED
          BY <2>1, <2>3, <3>1, <5>2
      <4> QED
        BY <4>2, <4>3
    <3> QED
      BY <3>2, <3>3
  <2>7. CASE \E way \in Ways : Carry(i, way)
    <3>1. PICK way \in Ways : Carry(i, way)
      BY <2>7
    <3>2. ~regressed /\ Counted' = Counted /\ i \in up
          /\ counter' = [counter EXCEPT ![i][way] = @ + 1]
          /\ moved' = IF i = "lo" THEN moved ELSE [moved EXCEPT ![way] = @ + 1]
      BY <1>7, <3>1 DEF Carry, Counted
    <3>3. CASE i = "lo"
      <4>1. \A k \in Counted : counter'[k][w] = counter[k][w]
        BY <1>3, <3>2, <3>3 DEF Counted
      <4>2. Carried(counter', Counted, w) = Carried(counter, Counted, w)
        BY <2>2, <4>1, SameCounts
      <4> QED
        BY <2>1, <2>3, <3>2, <3>3, <4>2
    <3>4. CASE i # "lo"
      <4>1. i \in Counted /\ Counted \in SUBSET Interfaces
        BY <1>3, <3>2, <3>4 DEF Counted
      <4>2. Carried(counter', Counted, w)
              = Carried(counter, Counted, w) + (IF w = way THEN 1 ELSE 0)
        <5> DEFINE ifs == Counted
        <5>1. \A v \in Ways : counter'[i][v] = counter[i][v] + (IF v = way THEN 1 ELSE 0)
          <6>1. counter'[i] = [counter[i] EXCEPT ![way] = @ + 1]
            BY <1>3, <3>2
          <6>2. \A v \in Ways : counter[i][v] \in Nat
            BY <1>3, NetworkConstants DEF Bytes, Ways
          <6> QED
            BY <1>3, <6>1, <6>2 DEF Bytes, Ways
        <5>2. \A k \in ifs \ {i} : counter'[k] = counter[k]
          BY <1>3, <3>2, <4>1
        <5> HIDE DEF ifs
        <5>3. ifs \in SUBSET Interfaces /\ i \in ifs
          BY <4>1 DEF ifs
        <5>4. \A v \in Ways : Carried(counter', ifs, v)
                                 = Carried(counter, ifs, v) + (IF v = way THEN 1 ELSE 0)
          BY <1>3, <5>1, <5>2, <5>3, OneMore
        <5> QED
          BY <5>4 DEF ifs
      <4>3. moved'[w] = moved[w] + (IF w = way THEN 1 ELSE 0)
        BY <1>3, <2>4, <3>2, <3>4 DEF Ways
      <4> QED
        BY <2>1, <2>3, <2>4, <3>2, <4>2, <4>3
    <3> QED
      BY <3>3, <3>4
  <2> QED
    BY <1>2, <2>5, <2>6, <2>7
<1>8. Grown'
  BY <1>1, <1>7 DEF Grown
<1> QED
  BY <1>1, <1>5, <1>8 DEF RateIsTraffic, NoWildRate

\* The two samples, and the rate between them.
LEMMA ReadsKeepNInv ==
    ASSUME NInv, ReadPrev \/ ReadCurr
    PROVE  NInv'
<1> USE DEF NInv
<1>1. UNCHANGED <<up, counter, moved, regressed>>
  BY DEF ReadPrev, ReadCurr, system
<1>2. \A way \in Ways : Sum(way)' = Sum(way) /\ Sum(way) \in Nat
  BY <1>1, NetSums, SumUnchanged DEF SumsRight
<1>3. SumsFit => Sample \in [rx : 0 .. Word - 1, tx : 0 .. Word - 1]
  <2>1. Sum("rx") \in Nat /\ Sum("tx") \in Nat
    BY <1>2 DEF Ways
  <2> QED
    BY <2>1, NetworkConstants DEF SumsFit, Sample
<1>4. CASE ReadPrev
  <2>1. /\ net_pc = "prev" /\ net_pc' = "window" /\ UNCHANGED <<net_curr, rate>>
        /\ \/ SumsFit /\ net_prev' = Sample /\ UNCHANGED network_ok
           \/ network_ok' = FALSE /\ UNCHANGED net_prev
    BY <1>4 DEF ReadPrev
  <2>2. NetTypeOK'
    BY <1>1, <1>3, <2>1 DEF NetTypeOK
  <2>3. Grown'
    <3>1. moved = Zero /\ \A way \in Ways : moved[way] = 0
      BY <2>1 DEF Zero, Ways
    <3>2. network_ok' => \A way \in Ways : net_prev'[way] = Sum(way)
      BY <2>1 DEF Sample, Ways
    <3> QED
      BY <1>1, <1>2, <3>1, <3>2 DEF Grown
  <2> QED
    BY <2>1, <2>2, <2>3 DEF RateIsTraffic, NoWildRate
<1>5. CASE ReadCurr
  <2>1. net_pc = "window" /\ net_pc' = "done" /\ UNCHANGED net_prev
    BY <1>5 DEF ReadCurr
  <2>2. CASE network_ok'
    <3>1. /\ network_ok /\ SumsFit /\ net_curr' = Sample /\ BothForward
          /\ rate' = [rx |-> (net_curr'.rx - net_prev.rx) % Word,
                      tx |-> (net_curr'.tx - net_prev.tx) % Word]
          /\ UNCHANGED network_ok
      BY <1>5, <2>2 DEF ReadCurr
    <3>2. /\ net_curr' \in [rx : 0 .. Word - 1, tx : 0 .. Word - 1]
          /\ net_prev \in [rx : 0 .. Word - 1, tx : 0 .. Word - 1]
          /\ \A way \in Ways : net_curr'[way] = Sum(way)
      BY <1>3, <3>1 DEF NetTypeOK, Sample, Ways
    <3>3. ASSUME NEW a \in 0 .. Word - 1, NEW b \in 0 .. Word - 1, a >= b
          PROVE  (a - b) % Word = a - b
      <4>1. a - b \in 0 .. Word - 1 /\ Word \in Nat \ {0}
        BY <3>3, NetworkConstants
      <4>2. ASSUME NEW w \in Nat \ {0}, NEW x \in 0 .. w - 1 PROVE x % w = x
        BY <4>2, SMTT(30)
      <4> QED
        BY <4>1, <4>2
    <3>4. /\ net_curr'.rx \in 0 .. Word - 1 /\ net_curr'.tx \in 0 .. Word - 1
          /\ net_prev.rx \in 0 .. Word - 1 /\ net_prev.tx \in 0 .. Word - 1
          /\ net_curr'.rx >= net_prev.rx /\ net_curr'.tx >= net_prev.tx
      BY <3>1, <3>2 DEF BothForward
    <3>5. rate' = [rx |-> net_curr'.rx - net_prev.rx, tx |-> net_curr'.tx - net_prev.tx]
      <4>1. (net_curr'.rx - net_prev.rx) % Word = net_curr'.rx - net_prev.rx
        BY <3>3, <3>4
      <4>2. (net_curr'.tx - net_prev.tx) % Word = net_curr'.tx - net_prev.tx
        BY <3>3, <3>4
      <4> QED
        BY <3>1, <4>1, <4>2
    <3>6. rate' \in [rx : 0 .. Word - 1, tx : 0 .. Word - 1]
      BY <3>4, <3>5, NetworkConstants
    <3>7. NetTypeOK'
      BY <1>1, <2>1, <3>1, <3>2, <3>6 DEF NetTypeOK
    <3>8. NoWildRate'
      BY <3>4, <3>5, NetworkConstants DEF NoWildRate
    <3>9. RateIsTraffic'
      <4> SUFFICES ASSUME ~regressed PROVE rate' = moved
          BY <1>1 DEF RateIsTraffic
      <4>1. /\ net_curr'["rx"] = net_prev["rx"] + moved["rx"]
            /\ net_curr'["tx"] = net_prev["tx"] + moved["tx"]
        BY <2>1, <3>1, <3>2 DEF Grown, Ways
      <4>2. moved \in [rx : 0 .. MaxMoved, tx : 0 .. MaxMoved]
        BY DEF NetTypeOK
      <4>3. rate'.rx = moved.rx /\ rate'.tx = moved.tx
        BY <3>4, <3>5, <4>1, <4>2, NetworkConstants
      <4> QED
        BY <3>5, <4>2, <4>3
    <3> QED
      BY <2>1, <3>7, <3>8, <3>9 DEF Grown
  <2>3. CASE ~network_ok'
    <3>1. /\ network_ok' \in BOOLEAN
          /\ rate' = rate
          /\ net_curr' = net_curr \/ (SumsFit /\ net_curr' = Sample)
      BY <1>5, <2>3 DEF ReadCurr, NetTypeOK
    <3>2. NetTypeOK'
      BY <1>1, <1>3, <2>1, <3>1 DEF NetTypeOK
    <3> QED
      BY <2>1, <2>3, <3>2 DEF Grown, RateIsTraffic, NoWildRate
  <2> QED
    BY <2>2, <2>3
<1> QED
  BY <1>4, <1>5

\* The invariant of the network line, for any interfaces, counters and word.
THEOREM NetworkInvariance == NetSpec => []NInv
<1>1. NetInit => NInv
  <2> SUFFICES ASSUME NetInit PROVE NInv
      OBVIOUS
  <2>1. 0 \in 0 .. Word - 1 /\ 0 \in 0 .. MaxMoved
    BY NetworkConstants
  <2>2. NetTypeOK
    BY <2>1 DEF NetInit, NetTypeOK, Zero
  <2> QED
    BY <2>2 DEF NetInit, NInv, Grown, RateIsTraffic, NoWildRate
<1>2. NInv /\ [NetNext]_net_vars => NInv'
  <2>1. ASSUME NInv, UNCHANGED net_vars PROVE NInv'
    <3>1. UNCHANGED <<up, counter, moved, regressed, net_pc, net_prev, net_curr, network_ok, rate>>
      BY <2>1 DEF net_vars, system
    <3>2. NetTypeOK' /\ RateIsTraffic' /\ NoWildRate' /\ (net_pc' = "prev" => moved' = Zero)
      BY <2>1, <3>1 DEF NInv, NetTypeOK, RateIsTraffic, NoWildRate
    <3>3. Grown'
      BY <2>1, <3>1, SumUnchanged DEF NInv, Grown
    <3> QED
      BY <3>2, <3>3 DEF NInv
  <2> QED
    BY <2>1, SystemKeepsNInv, ReadsKeepNInv DEF NetNext
<1> QED
  BY <1>1, <1>2, PTL DEF NetSpec

\* Every sum fits the word, in the samples and in the rate.
THEOREM NetworkTypes == NetSpec => []NetTypeOK
<1>1. NInv => NetTypeOK
  BY DEF NInv
<1> QED
  BY NetworkInvariance, <1>1, PTL

\* With the interfaces left in peace the line shows the traffic of the window.
THEOREM NetworkIsTraffic == NetSpec => []RateIsTraffic
<1>1. NInv => RateIsTraffic
  BY DEF NInv
<1> QED
  BY NetworkInvariance, <1>1, PTL

\* Whatever they do, no sum that went back comes out as a huge rate.
THEOREM NetworkNotWild == NetSpec => []NoWildRate
<1>1. NInv => NoWildRate
  BY DEF NInv
<1> QED
  BY NetworkInvariance, <1>1, PTL
=============================================================================
