----------------------------- MODULE CpuTopProofs -----------------------------
(***************************************************************************)
(* The two short lists of the overview and what they are made with: the    *)
(* list itself (TopList), the search in the snapshot (PidSearch), and the  *)
(* scans around them (CpuTop).                                             *)
(***************************************************************************)
EXTENDS CpuTop, FiniteSetTheorems, TLAPS

-----------------------------------------------------------------------------
(* The list.                                                               *)

\* Sizes are comparable.
LEMMA SizeIsNat == \A r \in Process : r.size \in Nat
BY SizesAssumption DEF Process

\* Where the candidate goes, and what that does to the list.
LEMMA Insertion ==
    ASSUME TypeOK, Ordered, NEW c \in Process, NEW pos \in 0 .. Len(out),
           StopsAt(out, c, pos), pos < Cap, NEW new, new = InsertAt(out, c, pos)
    PROVE  /\ new \in Seq(Process)
           /\ Len(new) = NewCount(out)
           /\ Len(new) <= Cap
           /\ pos + 1 \in DOMAIN new
           /\ \A i \in DOMAIN new :
                 /\ i <= pos => i \in DOMAIN out /\ new[i] = out[i] /\ out[i].size >= c.size
                 /\ i = pos + 1 => new[i] = c
                 /\ i > pos + 1 => i - 1 \in DOMAIN out /\ new[i] = out[i - 1]
                                   /\ out[i - 1].size < c.size
<1>1. Len(out) \in Nat /\ Len(out) <= Cap /\ out \in Seq(Process)
    BY DEF TypeOK, Ordered
<1>2. /\ NewCount(out) \in Nat /\ NewCount(out) <= Cap
      /\ pos + 1 \in 1 .. NewCount(out)
      /\ NewCount(out) <= Len(out) + 1
    BY <1>1, CapAssumption DEF NewCount
<1>3. \A i \in 1 .. pos : out[i].size >= c.size
    BY DEF StopsAt, NotSmaller
<1>4. \A i \in DOMAIN out : i > pos => out[i].size < c.size
  <2> SUFFICES ASSUME NEW i \in DOMAIN out, i > pos PROVE out[i].size < c.size
      OBVIOUS
  <2>1. pos + 1 \in DOMAIN out
    BY <1>1
  <2>2. ~(out[pos + 1].size >= c.size)
    BY <1>1, <2>1 DEF StopsAt, NotSmaller
  <2>3. i = pos + 1 \/ out[pos + 1].size >= out[i].size
    BY <1>1, <2>1 DEF Ordered
  <2>4. out[i].size \in Nat /\ out[pos + 1].size \in Nat /\ c.size \in Nat
    <3>1. out[i] \in Process /\ out[pos + 1] \in Process
      BY <1>1, <2>1
    <3> QED
      BY <3>1, SizeIsNat
  <2> QED
    BY <2>2, <2>3, <2>4
<1>5. \A i \in 1 .. NewCount(out) :
         /\ i <= pos => i \in DOMAIN out
         /\ i > pos + 1 => i - 1 \in DOMAIN out
    BY <1>1, <1>2
<1>6. DOMAIN new = 1 .. NewCount(out) /\ new \in Seq(Process)
  <2>1. \A i \in 1 .. NewCount(out) : new[i] \in Process
    BY <1>1, <1>2, <1>5 DEF InsertAt
  <2> QED
    BY <1>2, <2>1 DEF InsertAt
<1>7. Len(new) = NewCount(out)
    BY <1>2, <1>6
<1>8. \A i \in DOMAIN new :
         /\ i <= pos => new[i] = out[i]
         /\ i = pos + 1 => new[i] = c
         /\ i > pos + 1 => new[i] = out[i - 1]
    BY <1>2, <1>6 DEF InsertAt
<1> QED
    BY <1>1, <1>2, <1>3, <1>4, <1>5, <1>6, <1>7, <1>8

\* One more candidate, wherever it goes, leaves the list the top of what was met.
LEMMA InsertKeepsTop ==
    ASSUME TInv, NEW c \in Process, pc = "scan", insert_top(c), \A s \in seen : s.pid # c.pid,
           seen' = seen \cup {c}, total' \in Nat, UNCHANGED <<pc, shown>>
    PROVE  TInv'
<1> USE DEF TInv
<1>1. PICK pos \in 0 .. Len(out) :
         /\ StopsAt(out, c, pos)
         /\ out' = IF pos >= Cap THEN out ELSE InsertAt(out, c, pos)
    BY DEF insert_top
<1>2. /\ seen' = seen \cup {c} /\ total' \in Nat /\ UNCHANGED <<pc, shown>>
      /\ pc = "scan"
      /\ \A s \in seen : s.pid # c.pid
    OBVIOUS
<1>3. out \in Seq(Process) /\ Len(out) \in Nat /\ Len(out) <= Cap
    BY DEF TypeOK, Ordered
<1>4. shown = << >>
    BY <1>2 DEF ShownIsTop
<1>5. CASE pos >= Cap
  <2>1. out' = out /\ Len(out) = Cap
    BY <1>1, <1>3, <1>5, CapAssumption
  <2>2. \A i \in DOMAIN out : out[i].size >= c.size
    BY <1>1, <1>3, <1>5, <2>1, CapAssumption DEF StopsAt, NotSmaller
  <2>3. TypeOK' /\ Ordered' /\ ShownIsTop'
    BY <1>2, <1>4, <2>1 DEF TypeOK, Ordered, ShownIsTop
  <2>4. TopSelected'
    BY <1>2, <2>1, <2>2 DEF TopSelected
  <2> QED
    BY <2>3, <2>4
<1>6. CASE pos < Cap
  <2> DEFINE new == InsertAt(out, c, pos)
  <2>1. out' = new
    BY <1>1, <1>6, CapAssumption
  <2>2. /\ new \in Seq(Process)
        /\ Len(new) = NewCount(out)
        /\ Len(new) <= Cap
        /\ pos + 1 \in DOMAIN new
        /\ \A i \in DOMAIN new :
              /\ i <= pos => i \in DOMAIN out /\ new[i] = out[i] /\ out[i].size >= c.size
              /\ i = pos + 1 => new[i] = c
              /\ i > pos + 1 => i - 1 \in DOMAIN out /\ new[i] = out[i - 1]
                                /\ out[i - 1].size < c.size
    BY <1>1, <1>6, Insertion
  <2> HIDE DEF new
  <2>3. TypeOK' /\ ShownIsTop'
    BY <1>2, <1>4, <2>1, <2>2 DEF TypeOK, ShownIsTop
  <2>4. /\ pos \in Nat
        /\ c.size \in Nat
        /\ \A i \in DOMAIN out : out[i].size \in Nat
        /\ DOMAIN out = 1 .. Len(out) /\ DOMAIN new = 1 .. Len(new)
        /\ Len(new) \in Nat
    <3>1. \A i \in DOMAIN out : out[i] \in Process
      BY <1>3
    <3>2. DOMAIN out = 1 .. Len(out) /\ DOMAIN new = 1 .. Len(new) /\ Len(new) \in Nat
      BY <1>3, <2>2
    <3> QED
      BY <3>1, <3>2, SizeIsNat
  <2>5. Ordered'
    <3>1. \A i, j \in DOMAIN new : i < j => new[i].size >= new[j].size
      <4> SUFFICES ASSUME NEW i \in DOMAIN new, NEW j \in DOMAIN new, i < j
                   PROVE  new[i].size >= new[j].size
          OBVIOUS
      <4>1. CASE j <= pos
        BY <2>2, <2>4, <4>1 DEF Ordered
      <4>2. CASE i <= pos /\ j = pos + 1
        BY <2>2, <4>2
      <4>3. CASE i <= pos /\ j > pos + 1
        <5>1. /\ new[i] = out[i] /\ new[j] = out[j - 1]
              /\ i \in DOMAIN out /\ j - 1 \in DOMAIN out /\ i < j - 1
          BY <2>2, <2>4, <4>3
        <5> QED
          BY <5>1 DEF Ordered
      <4>4. CASE i = pos + 1
        <5>1. new[i] = c /\ new[j] = out[j - 1] /\ out[j - 1].size < c.size /\ j - 1 \in DOMAIN out
          BY <2>2, <2>4, <4>4
        <5> QED
          BY <2>4, <5>1
      <4>5. CASE i > pos + 1
        <5>1. /\ new[i] = out[i - 1] /\ new[j] = out[j - 1]
              /\ i - 1 \in DOMAIN out /\ j - 1 \in DOMAIN out /\ i - 1 < j - 1
          BY <2>2, <2>4, <4>5
        <5> QED
          BY <5>1 DEF Ordered
      <4> QED
        BY <2>4, <4>1, <4>2, <4>3, <4>4, <4>5
    <3>2. \A i \in DOMAIN new : new[i] \in seen'
      BY <1>2, <2>2, <2>4 DEF Ordered
    <3>3. \A i, j \in DOMAIN new : new[i].pid = new[j].pid => i = j
      <4>1. \A i \in DOMAIN out : out[i].pid # c.pid
        BY <1>2 DEF Ordered
      <4> QED
        BY <1>3, <2>2, <2>4, <4>1 DEF Ordered
    <3> QED
      BY <2>1, <2>2, <3>1, <3>2, <3>3 DEF Ordered
  <2>6. TopSelected'
    <3> SUFFICES ASSUME NEW s \in seen'
                 PROVE  \/ \E i \in DOMAIN new : new[i] = s
                        \/ Len(new) = Cap /\ \A i \in DOMAIN new : new[i].size >= s.size
        BY <2>1 DEF TopSelected
    <3>1. CASE s = c
      BY <2>2, <3>1
    <3>2. CASE s \in seen /\ \E k \in DOMAIN out : out[k] = s
      <4>1. PICK k \in DOMAIN out : out[k] = s
        BY <3>2
      <4>2. CASE k <= pos
        BY <1>3, <2>2, <2>4, <4>1, <4>2
      <4>3. CASE k > pos /\ k + 1 <= Len(new)
        <5>1. k + 1 \in DOMAIN new /\ k + 1 > pos + 1 /\ (k + 1) - 1 = k
          BY <1>3, <2>4, <4>3
        <5> QED
          BY <2>2, <4>1, <5>1
      <4>4. CASE k > pos /\ k + 1 > Len(new)
        <5>1. k = Len(out) /\ Len(new) = Cap /\ Len(out) = Cap
          <6>1. Len(new) = NewCount(out) /\ k \in 1 .. Len(out)
            BY <2>2, <2>4
          <6> QED
            BY <1>3, <4>4, <6>1, CapAssumption DEF NewCount
        <5>2. \A i \in DOMAIN out : out[i].size >= s.size
          BY <1>3, <2>4, <4>1, <5>1 DEF Ordered
        <5>3. c.size >= s.size
          <6>1. CASE pos + 1 = k
            BY <1>1, <1>3, <2>4, <4>1, <6>1 DEF StopsAt, NotSmaller
          <6>2. CASE pos + 1 # k
            <7>1. k \in DOMAIN new /\ k > pos + 1
              BY <1>3, <2>4, <4>4, <5>1, <6>2
            <7>2. pos + 2 \in DOMAIN new /\ pos + 2 > pos + 1 /\ (pos + 2) - 1 = pos + 1
              BY <2>4, <7>1
            <7>3. out[pos + 1].size < c.size /\ pos + 1 \in DOMAIN out
              BY <2>2, <7>2
            <7>4. out[pos + 1].size >= out[k].size
              BY <2>4, <4>1, <7>1, <7>3 DEF Ordered
            <7> QED
              BY <2>4, <4>1, <7>4, <7>3
          <6> QED
            BY <6>1, <6>2
        <5> QED
          BY <2>2, <2>4, <5>1, <5>2, <5>3
      <4> QED
        BY <1>3, <2>4, <4>2, <4>3, <4>4
    <3>3. CASE /\ s \in seen
               /\ Len(out) = Cap /\ \A i \in DOMAIN out : out[i].size >= s.size
      <4>1. Len(new) = Cap
        BY <1>3, <2>2, <3>3, CapAssumption DEF NewCount
      <4>2. pos + 1 \in DOMAIN out /\ out[pos + 1].size < c.size
        BY <1>1, <1>3, <1>6, <2>4, <3>3, CapAssumption DEF StopsAt, NotSmaller
      <4>3. s.size \in Nat
        BY <3>3, SizesAssumption DEF TypeOK, Process
      <4>4. c.size >= s.size
        BY <2>4, <3>3, <4>2, <4>3
      <4> QED
        BY <2>2, <2>4, <3>3, <4>1, <4>4
    <3> QED
      BY <1>2, <3>1, <3>2, <3>3 DEF TopSelected
  <2> QED
    BY <2>3, <2>5, <2>6
<1> QED
    BY <1>3, <1>5, <1>6, CapAssumption

\* A scan that goes on, ends or fails keeps the list right.
LEMMA ScanKeepsTop == TInv /\ [Next]_vars => TInv'
<1> SUFFICES ASSUME TInv, [Next]_vars PROVE TInv'
    OBVIOUS
<1>1. CASE \E c \in Process : Offer(c)
  <2>1. PICK c \in Process : Offer(c)
    BY <1>1
  <2>2. total' \in Nat
    BY <2>1 DEF Offer, TInv, TypeOK
  <2> QED
    BY <2>1, <2>2, InsertKeepsTop DEF Offer
<1>2. CASE Finish
  BY <1>2 DEF Finish, TInv, TypeOK, Ordered, TopSelected, ShownIsTop
<1>3. CASE Fail
  <2>1. shown = << >>
    BY <1>3 DEF Fail, TInv, ShownIsTop
  <2> QED
    BY <1>3, <2>1 DEF Fail, TInv, TypeOK, Ordered, TopSelected, ShownIsTop
<1>4. CASE UNCHANGED vars
  BY <1>4 DEF vars, TInv, TypeOK, Ordered, TopSelected, ShownIsTop
<1> QED
  BY <1>1, <1>2, <1>3, <1>4 DEF Next

\* The invariant of the scan, for any capacity and any processes.
THEOREM TopInvariance == Spec => []TInv
<1>1. Init => TInv
    BY CapAssumption DEF Init, TInv, TypeOK, Ordered, TopSelected, ShownIsTop
<1> QED
    BY <1>1, ScanKeepsTop, PTL DEF Spec

\* Whatever the scan has met, the list is the top of it.
THEOREM TopCorrect == Spec => [](Ordered /\ TopSelected)
<1>1. TInv => Ordered /\ TopSelected
    BY DEF TInv
<1> QED
    BY TopInvariance, <1>1, PTL

\* One step of EqualsKeepOrder.
KeepsOrder ==
    \A i, j \in DOMAIN out' :
       (i < j /\ out'[i].size = out'[j].size) => ~(out'[i] \in seen' \ seen /\ out'[j] \in seen)

\* Of equals the newcomer comes last: what stands behind it in the list is smaller.
LEMMA InsertKeepsOrder ==
    ASSUME TInv, NEW c \in Process, insert_top(c)
    PROVE  KeepsOrder
<1>1. PICK pos \in 0 .. Len(out) :
         /\ StopsAt(out, c, pos)
         /\ out' = IF pos >= Cap THEN out ELSE InsertAt(out, c, pos)
  BY DEF insert_top
<1>2. out \in Seq(Process) /\ \A i \in DOMAIN out : out[i] \in seen
  BY DEF TInv, TypeOK, Ordered
<1>3. CASE pos >= Cap
  BY <1>1, <1>2, <1>3 DEF KeepsOrder
<1>4. CASE pos < Cap
  <2>1. out' = InsertAt(out, c, pos)
    BY <1>1, <1>4, CapAssumption
  <2>2. /\ out' \in Seq(Process)
        /\ \A i \in DOMAIN out' :
              /\ i <= pos => i \in DOMAIN out /\ out'[i] = out[i]
              /\ i > pos + 1 => i - 1 \in DOMAIN out /\ out'[i] = out[i - 1]
                                /\ out[i - 1].size < c.size
              /\ i = pos + 1 => out'[i] = c
    BY <1>1, <1>4, <2>1, Insertion DEF TInv
  <2> SUFFICES ASSUME NEW i \in DOMAIN out', NEW j \in DOMAIN out', i < j,
                      out'[i] \notin seen, out'[i].size = out'[j].size
               PROVE  FALSE
      BY DEF KeepsOrder
  <2>3. i \in Nat /\ j \in Nat /\ pos \in Nat
    BY <1>2, <2>2
  <2>4. i = pos + 1 /\ out'[i] = c
    BY <1>2, <2>2, <2>3
  <2>5. out'[j].size < c.size
    BY <2>2, <2>3, <2>4
  <2>6. c.size \in Nat
    BY SizeIsNat
  <2> QED
    BY <2>4, <2>5, <2>6
<1> QED
  BY <1>1, <1>2, <1>3, <1>4, CapAssumption

\* An unchanged list has no newcomer.
LEMMA NoNewcomer == TInv /\ out' = out => KeepsOrder
BY DEF TInv, Ordered, KeepsOrder

\* A scan keeps equals in the order in which it met them.
THEOREM EqualsKept == Spec => EqualsKeepOrder
<1>1. TInv /\ [Next]_vars => [KeepsOrder]_vars
  BY InsertKeepsOrder, NoNewcomer DEF Next, Offer, Finish, Fail
<1> QED
    BY <1>1, TopInvariance, PTL DEF Spec, EqualsKeepOrder, KeepsOrder

-----------------------------------------------------------------------------
(* The search.  items and count of PidSearch are the snapshot,            *)
(* counters, and its length; its pc is looking.                            *)

\* mid lies in the window: the sum that would overflow, low + high, is not taken.
LEMMA MidInWindow ==
    ASSUME low \in Nat, high \in Nat, low < high
    PROVE  Find!mid \in Nat /\ low <= Find!mid /\ Find!mid < high
BY DEF Find!mid

\* Each turn of the loop keeps the searched PID inside the window.
LEMMA SearchKeepsSInv == Find!SInv /\ [Find!Next]_(Find!vars) => Find!SInv'
<1> SUFFICES ASSUME Find!SInv, [Find!Next]_(Find!vars) PROVE Find!SInv'
    OBVIOUS
<1> USE DEF Find!SInv
<1>1. ASSUME looking = "search", low < high
      PROVE  /\ Find!mid \in Find!Indices /\ Find!mid \in Nat /\ low <= Find!mid /\ Find!mid < high
             /\ counters[Find!mid] \in Int /\ pid \in Int
  <2>1. Find!mid \in Nat /\ low <= Find!mid /\ Find!mid < high
    BY <1>1, MidInWindow DEF Find!TypeOK
  <2>2. Find!mid \in Find!Indices
    BY <2>1 DEF Find!Indices, Find!Window, Find!TypeOK
  <2> QED
    BY <2>1, <2>2 DEF Find!TypeOK
<1>2. CASE Find!Found
  <2>1. Find!TypeOK' /\ Find!Sorted' /\ Find!Window'
    BY <1>1, <1>2 DEF Find!Found, Find!TypeOK, Find!Sorted, Find!Window, Find!Indices, Find!NULL
  <2>2. Find!SearchCorrect' /\ result' # Find!NULL
    BY <1>1, <1>2 DEF Find!Found, Find!SearchCorrect, Find!NULL
  <2> QED
    BY <1>2, <2>1, <2>2 DEF Find!Found
<1>3. CASE Find!GoRight
  <2>1. Find!TypeOK' /\ Find!Sorted'
    BY <1>1, <1>3 DEF Find!GoRight, Find!AfterMid, Find!TypeOK, Find!Sorted, Find!Indices
  <2>2. Find!Window'
    <3>1. \A i \in Find!Indices : counters[i] = pid => Find!mid + 1 <= i
      <4> SUFFICES ASSUME NEW i \in Find!Indices, counters[i] = pid, i <= Find!mid PROVE FALSE
          BY <1>1, <1>3 DEF Find!Indices, Find!GoRight, Find!TypeOK
      <4>1. counters[i] <= counters[Find!mid]
        BY <1>1, <1>3 DEF Find!GoRight, Find!Sorted, Find!Indices, Find!TypeOK
      <4> QED
        BY <1>1, <1>3, <4>1 DEF Find!GoRight, Find!TypeOK
    <3> QED
      BY <1>1, <1>3, <3>1 DEF Find!GoRight, Find!AfterMid, Find!Window, Find!Indices, Find!TypeOK
  <2> QED
    BY <1>3, <2>1, <2>2 DEF Find!GoRight, Find!SearchCorrect
<1>4. CASE Find!GoLeft
  <2>1. Find!TypeOK' /\ Find!Sorted'
    BY <1>1, <1>4 DEF Find!GoLeft, Find!TypeOK, Find!Sorted, Find!Indices
  <2>2. Find!Window'
    <3>1. \A i \in Find!Indices : counters[i] = pid => i < Find!mid
      <4> SUFFICES ASSUME NEW i \in Find!Indices, counters[i] = pid, Find!mid <= i PROVE FALSE
          BY <1>1, <1>4 DEF Find!Indices, Find!GoLeft, Find!TypeOK
      <4>1. counters[Find!mid] <= counters[i]
        BY <1>1, <1>4 DEF Find!GoLeft, Find!Sorted, Find!Indices, Find!TypeOK
      <4> QED
        BY <1>1, <1>4, <4>1 DEF Find!GoLeft, Find!TypeOK
    <3> QED
      BY <1>1, <1>4, <3>1 DEF Find!GoLeft, Find!Window, Find!Indices, Find!TypeOK
  <2> QED
    BY <1>4, <2>1, <2>2 DEF Find!GoLeft, Find!SearchCorrect
<1>5. CASE Find!NotFound
  <2>1. low = high /\ result = Find!NULL
    BY <1>5 DEF Find!NotFound, Find!Window, Find!TypeOK
  <2>2. \A i \in Find!Indices : counters[i] # pid
    BY <2>1 DEF Find!Window, Find!Indices, Find!TypeOK
  <2> QED
    BY <1>5, <2>1, <2>2 DEF Find!NotFound, Find!TypeOK, Find!Sorted, Find!Window, Find!SearchCorrect, Find!Indices
<1>6. CASE UNCHANGED Find!vars
  BY <1>6 DEF Find!vars, Find!TypeOK, Find!Sorted, Find!Window, Find!SearchCorrect, Find!Indices
<1> QED
  BY <1>2, <1>3, <1>4, <1>5, <1>6 DEF Find!Next

\* The window invariant, for arrays of any length.
THEOREM SearchInvariance == Find!Spec => []Find!SInv
<1>1. Find!Init => Find!SInv
    BY SizeAssumption DEF Find!Init, Find!SInv, Find!TypeOK, Find!Sorted, Find!Window, Find!SearchCorrect, Find!Indices, Find!NULL
<1> QED
    BY <1>1, SearchKeepsSInv, PTL DEF Find!Spec

\* Whatever the array and the PID, the answer is right.
THEOREM SearchIsCorrect == Find!Spec => []Find!SearchCorrect
<1>1. Find!SInv => Find!SearchCorrect
    BY DEF Find!SInv
<1> QED
    BY SearchInvariance, <1>1, PTL

-----------------------------------------------------------------------------
(* The scans: blocks and capacity.                                         *)

Steps == {"take", "take_alloc", "take_items", "snapshot", "window", "since_alloc", "since", "search", "insert", "open", "memory", "end"}
Filling == {"snapshot", "since", "search"}
Reading == Filling \cup {"take_alloc", "take_items", "since_alloc", "memory"}
Entry == [pid : Pids, size : Sizes \cup {0}]

\* The values of the scans' variables.
ScanTypes ==
    /\ step \in Steps
    /\ heap \subseteq Blocks
    /\ dirs \in Nat
    /\ room \in Nat
    /\ todo \subseteq Pids
    /\ next \in Nat \ {0}
    /\ step \in Filling => items \in Seq(Entry)
    /\ step = "search" => pid \in Pids

\* Who holds what, at every step: once made, the snapshot's two blocks live and die
\* together, and one handle is open from opendir to the end of the scan.
Held ==
    /\ step \in {"take", "take_alloc", "open", "memory", "end"} => heap = {}
    /\ step = "take_items" => heap = {"snapshot"}
    /\ step = "since_alloc" => heap = {"snapshot", "counters"}
    /\ step = "snapshot" => heap = {"snapshot", "counters"}
    /\ step = "window" => heap = {} \/ heap = {"snapshot", "counters"}
    /\ step \in {"since", "search"} => heap = Blocks
    /\ step = "insert" => items = << >> \/ "items" \in heap
    /\ dirs = IF step \in Reading THEN 1 ELSE 0

\* The block being filled always has room for what is in it, and for one entry more
\* when one is about to be written.
RoomLeft ==
    /\ step \in Filling => Len(items) <= room /\ room >= 1
    /\ step = "search" => Len(items) < room
    /\ room = 0 \/ room <= MaxRoom \/ room = INITIAL_CAPACITY

CInv == ScanTypes /\ Held /\ RoomLeft

\* The invariant is what the two properties need.
LEMMA CInvEnough == CInv => InBounds /\ NothingLeaks
<1> SUFFICES ASSUME CInv PROVE InBounds /\ NothingLeaks
    OBVIOUS
<1> USE DEF CInv, ScanTypes, Held, RoomLeft
<1>1. ASSUME NEW block \in Blocks, Using(block) PROVE block \in heap
  <2>1. step = "insert" /\ MoreItems => "items" \in heap
    BY DEF MoreItems
  <2> QED
    BY <1>1, <2>1 DEF Using, Blocks
<1>2. InBounds
  BY <1>1 DEF InBounds, Filling
<1>3. NothingLeaks
  BY DEF NothingLeaks, Reading, Filling
<1> QED
  BY <1>2, <1>3

\* Where MakeRoom succeeds there is room for one entry more, within the bound.
LEMMA RoomMade ==
    ASSUME CInv, step \in Filling, MakeRoom
    PROVE  /\ room' \in Nat /\ Len(items) < room' /\ room' >= 1
           /\ room' <= MaxRoom \/ room' = INITIAL_CAPACITY
<1> USE DEF CInv, ScanTypes, RoomLeft
<1>1. Len(items) \in Nat
  OBVIOUS
<1>2. CASE Len(items) = room
  BY <1>1, <1>2, RoomAssumption DEF MakeRoom
<1>3. CASE Len(items) # room
  BY <1>1, <1>3 DEF MakeRoom
<1> QED
  BY <1>2, <1>3

\* The scan before the window.
LEMMA SnapshotKeepsCInv ==
    ASSUME CInv, \/ TakeOpen \/ TakeAlloc \/ TakeBegin \/ TakeFails
                 \/ SnapshotOne \/ SnapshotFails \/ SnapshotDone
    PROVE  CInv'
<1> USE DEF CInv, search, arrays, vars, OpenDir, CloseDir
<1>1. CASE TakeBegin
  <2>1. /\ step = "take_items" /\ step' = "snapshot" /\ items' = << >> /\ dirs' = dirs
        /\ room' = INITIAL_CAPACITY /\ heap' = heap \cup {"counters"} /\ todo' = Pids /\ next' = next
    BY <1>1 DEF TakeBegin, BeginScan
  <2>2. heap' = {"snapshot", "counters"} /\ dirs' = 1
    BY <2>1 DEF Held, Reading
  <2> QED
    BY <2>1, <2>2, RoomAssumption DEF ScanTypes, Held, RoomLeft, Steps, Reading, Filling, Blocks
<1>2. CASE TakeFails
  <2>1. UNCHANGED <<todo, room, items, next>> /\ step' = "window"
    BY <1>2 DEF TakeFails
  <2>2. heap' = {} /\ dirs' = 0
    BY <1>2 DEF TakeFails, UndoTake, Held, Reading, Filling
  <2>3. step' \in Steps /\ step' \notin Reading /\ step' \notin Filling /\ step' # "search"
    BY <2>1 DEF Steps, Reading, Filling
  <2> QED
    BY <2>1, <2>2, <2>3 DEF ScanTypes, Held, RoomLeft
<1>6. CASE TakeOpen
  <2>1. step' = "take_alloc" /\ dirs' = 1 /\ heap' = {} /\ UNCHANGED <<todo, room, items, next>>
    BY <1>6 DEF TakeOpen, Held, Reading, Filling
  <2> QED
    BY <2>1 DEF ScanTypes, Held, RoomLeft, Steps, Reading, Filling
<1>7. CASE TakeAlloc
  <2>1. step' = "take_items" /\ dirs' = 1 /\ heap' = {"snapshot"} /\ UNCHANGED <<todo, room, items, next>>
    BY <1>7 DEF TakeAlloc, Held, Reading, Filling
  <2> QED
    BY <2>1 DEF ScanTypes, Held, RoomLeft, Steps, Reading, Filling, Blocks
<1>3. CASE SnapshotOne
  <2>1. PICK p \in todo : /\ todo' = todo \ {p}
                          /\ MakeRoom
                          /\ items' = Append(items, [pid |-> p, size |-> 0])
    BY <1>3 DEF SnapshotOne
  <2>2. step = "snapshot" /\ UNCHANGED <<step, dirs, heap, next>>
    BY <1>3 DEF SnapshotOne
  <2>3. [pid |-> p, size |-> 0] \in Entry /\ items \in Seq(Entry)
    BY <2>1, <2>2 DEF ScanTypes, Entry, Filling
  <2>4. items' \in Seq(Entry) /\ Len(items') = Len(items) + 1
    BY <2>1, <2>3
  <2>5. /\ room' \in Nat /\ Len(items) < room' /\ room' >= 1
        /\ room' <= MaxRoom \/ room' = INITIAL_CAPACITY
    BY <2>1, <2>2, RoomMade DEF Filling
  <2>6. Len(items) \in Nat
    BY <2>3
  <2> QED
    BY <2>1, <2>2, <2>4, <2>5, <2>6 DEF ScanTypes, Held, RoomLeft, Filling
<1>4. CASE SnapshotFails
  <2>1. /\ step' = "window" /\ heap' = {} /\ dirs' = 0 /\ room' = 0
        /\ todo' = {} /\ next' = next
    BY <1>4 DEF SnapshotFails, snapshot_free, Held, Reading, Filling
  <2> QED
    BY <2>1 DEF ScanTypes, Held, RoomLeft, Steps, Reading, Filling
<1>5. CASE SnapshotDone
  <2>1. /\ step = "snapshot" /\ step' = "window" /\ heap' = heap /\ dirs' = 0 /\ room' = 0
        /\ todo' = todo /\ next' = next
    BY <1>5 DEF SnapshotDone, Held, Reading, Filling
  <2> QED
    BY <2>1 DEF ScanTypes, Held, RoomLeft, Steps, Reading, Filling
<1> QED
  BY <1>1, <1>2, <1>3, <1>4, <1>5, <1>6, <1>7

\* The scan after the window, the search in the snapshot, and their ends.
LEMMA SinceKeepsCInv ==
    ASSUME CInv, \/ WindowFails \/ SinceOpen \/ SinceBegin \/ SinceAllocFails
                 \/ SinceOne \/ Search \/ AppendInfo \/ SinceFails \/ SinceDone
    PROVE  CInv'
<1> USE DEF CInv, search, arrays, vars, list, OpenDir, CloseDir
<1>1. CASE WindowFails
  <2>1. /\ step' = "end" /\ heap' = {} /\ UNCHANGED <<dirs, room, items, todo, next>>
    BY <1>1 DEF WindowFails, NoList, snapshot_free, Held
  <2>2. step = "window"
    BY <1>1 DEF WindowFails
  <2> QED
    BY <2>1, <2>2 DEF ScanTypes, Held, RoomLeft, Steps, Reading, Filling
<1>2. CASE SinceBegin
  <2>1. /\ step = "since_alloc" /\ step' = "since" /\ items' = << >> /\ dirs' = dirs
        /\ room' = INITIAL_CAPACITY /\ heap' = heap \cup {"items"} /\ todo' = Pids /\ next' = next
    BY <1>2 DEF SinceBegin, BeginScan
  <2>2. heap' = Blocks /\ dirs' = 1
    BY <2>1 DEF Held, Blocks, Reading
  <2> QED
    BY <2>1, <2>2, RoomAssumption DEF ScanTypes, Held, RoomLeft, Steps, Reading, Filling
<1>8. CASE SinceOpen
  <2>1. /\ step = "window" /\ "snapshot" \in heap /\ step' = "since_alloc" /\ dirs' = dirs + 1
        /\ UNCHANGED <<heap, todo, room, items, next>>
    BY <1>8 DEF SinceOpen
  <2>2. heap' = {"snapshot", "counters"} /\ dirs' = 1
    BY <2>1 DEF Held, Reading, Filling
  <2> QED
    BY <2>1, <2>2 DEF ScanTypes, Held, RoomLeft, Steps, Reading, Filling
<1>9. CASE SinceAllocFails
  <2>1. /\ step = "since_alloc" /\ step' = "end" /\ dirs' = dirs - 1
        /\ heap' = heap \ {"counters", "snapshot"} /\ UNCHANGED <<todo, room, items, next>>
    BY <1>9 DEF SinceAllocFails, NoList, snapshot_free
  <2>2. heap' = {} /\ dirs' = 0
    BY <2>1 DEF Held, Reading
  <2> QED
    BY <2>1, <2>2 DEF ScanTypes, Held, RoomLeft, Steps, Reading, Filling
<1>3. CASE SinceOne
  <2>1. PICK p \in todo : todo' = todo \ {p} /\ pid' = p
    BY <1>3 DEF SinceOne
  <2>2. /\ step = "since" /\ step' = "search" /\ MakeRoom
        /\ UNCHANGED <<dirs, heap, items, next>>
    BY <1>3 DEF SinceOne
  <2>3. /\ room' \in Nat /\ Len(items) < room' /\ room' >= 1
        /\ room' <= MaxRoom \/ room' = INITIAL_CAPACITY
    BY <2>2, RoomMade DEF Filling
  <2>4. Len(items) \in Nat
    BY <2>2 DEF ScanTypes, Filling
  <2> QED
    BY <2>1, <2>2, <2>3, <2>4 DEF ScanTypes, Held, RoomLeft, Steps, Reading, Filling
<1>4. CASE Search
  BY <1>4 DEF Search, ScanTypes, Held, RoomLeft
<1>5. CASE AppendInfo
  <2>1. PICK share \in Shares : items' = Append(items, [pid |-> pid, size |-> share])
    BY <1>5 DEF AppendInfo
  <2>2. step = "search" /\ step' = "since" /\ UNCHANGED <<dirs, todo, heap, room, pid, next>>
    BY <1>5 DEF AppendInfo
  <2>3. [pid |-> pid, size |-> share] \in Entry /\ items \in Seq(Entry)
    BY <2>1, <2>2 DEF ScanTypes, Entry, Filling, Shares
  <2>4. items' \in Seq(Entry) /\ Len(items') = Len(items) + 1 /\ Len(items) \in Nat
    BY <2>1, <2>3
  <2> QED
    BY <2>2, <2>4 DEF ScanTypes, Held, RoomLeft, Steps, Reading, Filling
<1>6. CASE SinceFails
  <2>1. /\ step' = "end" /\ heap' = {} /\ dirs' = 0 /\ room' = 0
        /\ todo' = {} /\ next' = next
    BY <1>6 DEF SinceFails, Held, Blocks, Reading, Filling
  <2> QED
    BY <2>1 DEF ScanTypes, Held, RoomLeft, Steps, Reading, Filling
<1>7. CASE SinceDone
  <2>1. /\ step = "since" /\ step' = "insert" /\ dirs' = 0 /\ next' = 1
        /\ UNCHANGED <<todo, room>>
        /\ heap' = IF items' = << >> THEN heap \ {"items"} ELSE heap
    BY <1>7 DEF SinceDone, Held, Reading, Filling
  <2>2. heap = Blocks
    BY <2>1 DEF Held
  <2>3. heap' \subseteq Blocks /\ (items' = << >> \/ "items" \in heap')
    BY <2>1, <2>2 DEF Blocks
  <2>4. step' \in Steps /\ step' \notin Filling /\ step' # "search"
    BY <2>1 DEF Steps, Filling
  <2>5. ScanTypes'
    <3>1. dirs' \in Nat
      BY <2>1
    <3>2. next' \in Nat \ {0} /\ room' \in Nat /\ todo' \subseteq Pids
      BY <2>1 DEF ScanTypes
    <3> QED
      BY <2>3, <2>4, <3>1, <3>2 DEF ScanTypes
  <2>6. Held'
    <3>1. dirs' = 0 /\ step' \notin Reading
      BY <2>1 DEF Reading, Filling
    <3> QED
      BY <2>1, <2>3, <3>1 DEF Held
  <2> QED
    BY <2>1, <2>4, <2>5, <2>6 DEF RoomLeft
<1> QED
  BY <1>1, <1>2, <1>3, <1>4, <1>5, <1>6, <1>7, <1>8, <1>9

\* The entries offered to the list, the scan by memory, and an unreadable process.
LEMMA ListKeepsCInv ==
    ASSUME CInv, Skip \/ InsertOne \/ InsertDone \/ MemoryOpen \/ MemoryScan
    PROVE  CInv'
<1> USE DEF CInv, search, arrays, vars, list, OpenDir, CloseDir
<1>1. CASE Skip
  <2>1. todo' \subseteq todo /\ UNCHANGED <<step, dirs, heap, room, items, pid, next>>
    BY <1>1 DEF Skip
  <2> QED
    BY <2>1 DEF ScanTypes, Held, RoomLeft
<1>2. CASE InsertOne
  <2>1. next' = next + 1 /\ UNCHANGED <<step, dirs, heap, room, items, pid, todo>>
    BY <1>2 DEF InsertOne
  <2> QED
    BY <2>1 DEF ScanTypes, Held, RoomLeft
<1>3. CASE InsertDone
  <2>1. /\ step = "insert" /\ step' = "end"
        /\ heap' = heap \ {"items", "counters", "snapshot"}
        /\ UNCHANGED <<dirs, room, todo, next>>
    BY <1>3 DEF InsertDone
  <2>2. heap' = {}
    BY <2>1 DEF ScanTypes, Blocks
  <2> QED
    BY <2>1, <2>2 DEF ScanTypes, Held, RoomLeft, Steps, Reading, Filling
<1>4. CASE MemoryOpen
  <2>1. step = "open" /\ UNCHANGED <<todo, heap, room, items, pid, next>>
    BY <1>4 DEF MemoryOpen
  <2>2. \/ step' = "memory" /\ dirs' = dirs + 1
        \/ step' = "end" /\ dirs' = dirs
    BY <1>4 DEF MemoryOpen
  <2>3. dirs = 0 /\ heap = {}
    BY <2>1 DEF Held, Reading, Filling
  <2>4. step' \in Steps /\ step' \notin Filling /\ step' \notin {"insert", "snapshot", "window", "search"}
    BY <2>2 DEF Steps, Filling
  <2>5. ScanTypes'
    BY <2>1, <2>2, <2>4 DEF ScanTypes
  <2>6. Held'
    BY <2>1, <2>2, <2>3 DEF Held, Reading, Filling
  <2> QED
    BY <2>1, <2>4, <2>5, <2>6 DEF RoomLeft
<1>5. CASE MemoryScan
  <2>1. step = "memory" /\ UNCHANGED <<todo, heap, room, items, pid, next>>
    BY <1>5 DEF MemoryScan
  <2>2. UNCHANGED <<step, dirs>> \/ (step' = "end" /\ dirs' = 0)
    BY <1>5 DEF MemoryScan, Held, Reading
  <2> QED
    BY <2>1, <2>2 DEF ScanTypes, Held, RoomLeft, Steps, Reading, Filling
<1> QED
  BY <1>1, <1>2, <1>3, <1>4, <1>5

\* Nothing is held at the start.
LEMMA CInvAtStart == ASSUME CpuInit PROVE CInv
<1>1. /\ step \in {"take", "open"} /\ heap = {} /\ dirs = 0 /\ room = 0
      /\ todo = {} /\ next = 1
  BY DEF CpuInit
<1>2. ScanTypes
  <2>1. step \in Steps /\ step \notin Filling /\ step # "search"
    BY <1>1 DEF Steps, Filling
  <2>2. heap \subseteq Blocks /\ todo \subseteq Pids
    BY <1>1
  <2>3. dirs \in Nat
    BY <1>1
  <2>4. room \in Nat /\ next \in Nat \ {0}
    BY <1>1
  <2> QED
    BY <2>1, <2>2, <2>3, <2>4 DEF ScanTypes
<1>3. Held /\ RoomLeft
  BY <1>1 DEF Held, RoomLeft, Reading, Filling
<1> QED
  BY <1>2, <1>3 DEF CInv

\* Nothing changes while other parts of the program run.
LEMMA CInvStutters == CInv /\ UNCHANGED allvars => CInv'
BY DEF CInv, ScanTypes, Held, RoomLeft, allvars, search, arrays, vars

\* Ownership and capacity hold throughout, for any number of processes, any initial
\* capacity and any limit of the address space.
THEOREM CpuTopInvariance == CpuSpec => []CInv
<1>1. CpuInit => CInv
    BY CInvAtStart
<1>2. CInv /\ [CpuNext]_allvars => CInv'
    BY CInvStutters, SnapshotKeepsCInv, SinceKeepsCInv, ListKeepsCInv DEF CpuNext
<1> QED
    BY <1>1, <1>2, PTL DEF CpuSpec

\* No entry is written or read beyond its block, nor in a block not held.
THEOREM ArraysInBounds == CpuSpec => []InBounds
<1>1. CInv => InBounds
    BY CInvEnough
<1> QED
    BY <1>1, CpuTopInvariance, PTL

\* Every exit has given back all memory and the directory.
THEOREM NoLeak == CpuSpec => []NothingLeaks
<1>1. CInv => NothingLeaks
    BY CInvEnough
<1> QED
    BY <1>1, CpuTopInvariance, PTL

-----------------------------------------------------------------------------
(* The scans: what they hand to the search and to the list.                *)

\* No PID is twice in the entries.
OnePerPid(entries) ==
    \A i, j \in DOMAIN entries : entries[i].pid = entries[j].pid => i = j

Increasing(pids) == \A i, j \in DOMAIN pids : i < j => pids[i] < pids[j]

\* A scan has nothing of the list yet, and has met no PID that is still to come.
Scanned ==
    /\ step \notin {"insert", "memory", "end"} => seen = {}
    /\ step \in Filling => OnePerPid(items) /\ \A i \in DOMAIN items : items[i].pid \notin todo
    /\ step = "search" => pid \notin todo /\ \A i \in DOMAIN items : items[i].pid # pid

\* The entries up to next have been offered, all others have not.
Offered ==
    \/ step = "insert"
    \/ by = "cpu" /\ pc = "done"
    => /\ items \in Seq(Entry) /\ OnePerPid(items) /\ next <= Len(items) + 1
       /\ \A i \in DOMAIN items : i < next /\ items[i].size > 0 => items[i] \in seen
       /\ \A s \in seen : \E i \in DOMAIN items : i < next /\ items[i] = s

\* Where either list is, and that it is shown only complete.
Progress ==
    /\ by \in {"cpu", "memory"}
    /\ by = "cpu" => step \notin {"open", "memory"}
    /\ by = "memory" => step \in {"open", "memory", "end"}
    /\ pc = "scan" <=> step # "end"
    /\ pc = "done" => shown = out
    /\ by = "cpu" /\ pc = "done" => next = Len(items) + 1 /\ total = Len(items)

\* The snapshot is sorted, and the search in it is under its invariant.
Searching ==
    /\ previous \in Seq(1 .. MaxPid) /\ Increasing(previous)
    /\ step = "search" => Find!SInv

ListInv == CInv /\ TInv /\ Scanned /\ Offered /\ Progress /\ Searching

\* What an entry is compared by.
LEMMA EntryPids ==
    ASSUME NEW s \in Seq(Entry), NEW i \in DOMAIN s
    PROVE  s[i] \in Entry /\ s[i].pid \in 1 .. MaxPid /\ s[i].pid \in Int
<1>1. s[i] \in Entry
  OBVIOUS
<1>2. s[i].pid \in 1 .. MaxPid
  BY <1>1, PidsAssumption DEF Entry
<1> QED
  BY <1>1, <1>2, SizeAssumption

\* qsort gives the same entries in the order of their PIDs.
LEMMA ByPidSorts ==
    ASSUME NEW s \in Seq(Entry), OnePerPid(s)
    PROVE  /\ ByPid(s) \in Seq(Entry) /\ Len(ByPid(s)) = Len(s)
           /\ OnePerPid(ByPid(s))
           /\ \A i, j \in DOMAIN ByPid(s) : i < j => ByPid(s)[i].pid < ByPid(s)[j].pid
<1> DEFINE n == Len(s)
           D == 1 .. n
           place(j) == Cardinality(Smaller(s, j))
           at(i) == CHOOSE j \in D : place(j) = i - 1
           t == ByPid(s)
<1>1. n \in Nat /\ DOMAIN s = D /\ IsFiniteSet(D) /\ Cardinality(D) = n
  <2>1. n \in Nat /\ DOMAIN s = D
    OBVIOUS
  <2> HIDE DEF n
  <2>2. 1 \in Int /\ n \in Int
    BY <2>1
  <2>3. IsFiniteSet(D) /\ Cardinality(D) = IF 1 > n THEN 0 ELSE n - 1 + 1
    BY <2>2, FS_Interval
  <2>4. (IF 1 > n THEN 0 ELSE n - 1 + 1) = n
    BY <2>1
  <2> QED
    BY <2>1, <2>3, <2>4
<1>2. \A j \in D : s[j] \in Entry /\ s[j].pid \in Int
  BY <1>1, EntryPids
<1>3. ASSUME NEW j \in D
      PROVE  /\ Smaller(s, j) \in SUBSET D /\ IsFiniteSet(Smaller(s, j))
             /\ place(j) \in 0 .. n - 1
  <2>1. Smaller(s, j) \in SUBSET D
    BY <1>1 DEF Smaller
  <2>2. IsFiniteSet(D \ {j}) /\ Cardinality(D \ {j}) = n - 1
    BY <1>1, FS_RemoveElement
  <2>3. Smaller(s, j) \in SUBSET (D \ {j})
    BY <2>1, <1>2 DEF Smaller
  <2>4. IsFiniteSet(Smaller(s, j)) /\ Cardinality(Smaller(s, j)) <= n - 1
    BY <2>2, <2>3, FS_Subset
  <2>5. Cardinality(Smaller(s, j)) \in Nat
    BY <2>4, FS_CardinalityType
  <2> QED
    BY <2>1, <2>4, <2>5, <1>1
<1>4. ASSUME NEW i \in D, NEW j \in D, s[i].pid < s[j].pid PROVE place(i) < place(j)
  <2>1. Smaller(s, i) \subseteq Smaller(s, j)
    BY <1>1, <1>2, <1>4 DEF Smaller
  <2>2. i \in Smaller(s, j) /\ i \notin Smaller(s, i)
    BY <1>1, <1>2, <1>4 DEF Smaller
  <2>3. Smaller(s, i) \in SUBSET Smaller(s, j) /\ Smaller(s, i) # Smaller(s, j)
    BY <2>1, <2>2
  <2>4. place(i) <= place(j) /\ place(i) # place(j)
    <3>1. IsFiniteSet(Smaller(s, j))
      BY <1>3
    <3> QED
      BY <3>1, <2>3, FS_Subset
  <2>5. place(i) \in Int /\ place(j) \in Int
    BY <1>3, <1>1
  <2> HIDE DEF place
  <2> QED
    BY <2>4, <2>5
<1>5. \A i, j \in D : place(i) = place(j) => i = j
  <2> SUFFICES ASSUME NEW i \in D, NEW j \in D, place(i) = place(j), i # j PROVE FALSE
      OBVIOUS
  <2>1. s[i].pid # s[j].pid /\ s[i].pid \in Int /\ s[j].pid \in Int
    BY <1>1, <1>2 DEF OnePerPid
  <2>2. place(i) \in Int /\ place(j) \in Int
    BY <1>3, <1>1
  <2>3. (s[i].pid < s[j].pid => place(i) < place(j)) /\ (s[j].pid < s[i].pid => place(j) < place(i))
    BY <1>4
  <2> HIDE DEF place
  <2> QED
    BY <2>1, <2>2, <2>3
<1>6. ASSUME NEW i \in D PROVE at(i) \in D /\ place(at(i)) = i - 1
  <2> DEFINE f == [j \in D |-> place(j) + 1]
  <2>1. f \in [D -> D]
    <3>1. \A j \in D : place(j) + 1 \in D
      BY <1>1, <1>3
    <3> HIDE DEF place
    <3> QED
      BY <3>1
  <2>2. f \in Injection(D, D)
    <3>1. \A j \in D : place(j) \in Int
      BY <1>1, <1>3
    <3> HIDE DEF place, D
    <3>2. \A j, k \in D : f[j] = f[k] => j = k
      BY <1>5, <3>1
    <3> QED
      BY <2>1, <3>2 DEF Injection, IsInjective
  <2>3. f \in Surjection(D, D)
    <3> HIDE DEF f, D
    <3> QED
      BY <1>1, <2>2, FS_Injection
  <2>4. PICK j \in D : f[j] = i
    <3> HIDE DEF f, D
    <3> QED
      BY <2>3 DEF Surjection
  <2>5. place(j) = i - 1
    <3>1. place(j) \in Int /\ i \in Int /\ place(j) + 1 = i
      BY <1>1, <1>3, <2>4
    <3> HIDE DEF place
    <3> QED
      BY <3>1
  <2> HIDE DEF place, D
  <2> QED
    BY <2>5
<1>7. t = [i \in D |-> s[at(i)]]
  BY <1>1 DEF ByPid
<1> HIDE DEF at, t, place
<1>8. t \in Seq(Entry) /\ Len(t) = n /\ DOMAIN t = D
  <2>1. \A i \in D : s[at(i)] \in Entry
    BY <1>2, <1>6
  <2> QED
    BY <1>1, <1>7, <2>1
<1>9. ASSUME NEW i \in D, NEW j \in D, i < j PROVE t[i].pid < t[j].pid
  <2>1. /\ t[i] = s[at(i)] /\ t[j] = s[at(j)] /\ at(i) \in D /\ at(j) \in D
        /\ place(at(i)) = i - 1 /\ place(at(j)) = j - 1
    BY <1>6, <1>7
  <2>2. ~(place(at(j)) < place(at(i))) /\ at(i) # at(j)
    BY <2>1, <1>9, <1>1
  <2>3. s[at(i)].pid # s[at(j)].pid
    BY <2>1, <2>2, <1>1 DEF OnePerPid
  <2>4. ~(s[at(j)].pid < s[at(i)].pid)
    BY <2>1, <2>2, <1>4
  <2>5. s[at(i)].pid \in Int /\ s[at(j)].pid \in Int
    BY <2>1, <1>2
  <2> QED
    BY <2>1, <2>3, <2>4, <2>5
<1>10. OnePerPid(t)
  <2> SUFFICES ASSUME NEW i \in D, NEW j \in D, t[i].pid = t[j].pid PROVE i = j
      BY <1>8 DEF OnePerPid
  <2>1. t[i].pid \in Int /\ t[j].pid \in Int
    BY <1>8, EntryPids
  <2>2. i \in Int /\ j \in Int
    OBVIOUS
  <2> QED
    BY <1>9, <2>1, <2>2
<1> QED
  BY <1>8, <1>9, <1>10 DEF t

\* What a step that leaves the list alone, or gives it up, keeps of it.
LEMMA ListLeftAlone ==
    ASSUME TInv, UNCHANGED <<out, total, shown, seen>>,
           pc' = pc \/ (pc = "scan" /\ pc' = "failed")
    PROVE  TInv'
<1>1. UNCHANGED vars \/ Fail
  BY DEF vars, Fail
<1> QED
  BY <1>1, ScanKeepsTop DEF Next

\* One more entry, of the PID just taken from todo, is the only one of its PID.
LEMMA AppendOne ==
    ASSUME NEW s \in Seq(Entry), OnePerPid(s), NEW e \in Entry,
           \A i \in DOMAIN s : s[i].pid # e.pid
    PROVE  /\ OnePerPid(Append(s, e))
           /\ \A i \in DOMAIN Append(s, e) : Append(s, e)[i] = e \/ (i \in DOMAIN s /\ Append(s, e)[i] = s[i])
<1> DEFINE t == Append(s, e)
<1>1. \A i \in DOMAIN t : \/ t[i] = e /\ i = Len(s) + 1
                          \/ i \in DOMAIN s /\ t[i] = s[i]
  OBVIOUS
<1> HIDE DEF t
<1>2. OnePerPid(t)
  BY <1>1 DEF OnePerPid
<1> QED
  BY <1>1, <1>2 DEF t

\* The scan before the window, and readdir's PIDs that cannot be read.
LEMMA SnapshotKeepsListInv ==
    ASSUME ListInv, \/ TakeOpen \/ TakeAlloc \/ TakeBegin \/ TakeFails
                    \/ Skip \/ SnapshotOne \/ SnapshotFails \/ SnapshotDone
    PROVE  ListInv'
<1> USE DEF ListInv
<1>1. CInv'
  BY SnapshotKeepsCInv, ListKeepsCInv
<1>2. UNCHANGED <<pc, out, total, shown, seen, by, pid, low, high, looking, result, next>>
  BY DEF TakeOpen, TakeAlloc, TakeBegin, TakeFails, Skip, SnapshotOne, SnapshotFails, SnapshotDone,
         vars, search
<1>3. TInv'
  BY <1>2, ListLeftAlone
<1>4. /\ step \in {"take", "take_alloc", "take_items", "snapshot", "since"}
      /\ step' \in {"take_alloc", "take_items", "snapshot", "window", "since"}
      /\ by = "cpu" /\ pc = "scan" /\ seen = {}
  <2>1. /\ step \in {"take", "take_alloc", "take_items", "snapshot", "since"}
        /\ step' \in {"take_alloc", "take_items", "snapshot", "window", "since"}
    BY DEF TakeOpen, TakeAlloc, TakeBegin, TakeFails, UndoTake, Skip, SnapshotOne, SnapshotFails,
           SnapshotDone
  <2> QED
    BY <2>1 DEF Progress, Scanned
<1>5. Progress' /\ Offered'
  BY <1>2, <1>4 DEF Progress, Offered
<1>6. CASE ~SnapshotDone
  <2>1. previous' = previous
    BY <1>6 DEF TakeOpen, TakeAlloc, TakeBegin, TakeFails, Skip, SnapshotOne, SnapshotFails, arrays
  <2>2. Searching'
    BY <1>4, <2>1 DEF Searching
  <2>3. Scanned'
    <3>1. CASE TakeBegin
      BY <1>2, <1>4, <3>1 DEF TakeBegin, BeginScan, Scanned, OnePerPid, Filling
    <3>2. CASE TakeOpen \/ TakeAlloc \/ TakeFails \/ SnapshotFails
      BY <1>2, <1>4, <3>2 DEF TakeOpen, TakeAlloc, TakeFails, SnapshotFails, Scanned, Filling
    <3>3. CASE Skip
      <4>1. todo' \subseteq todo /\ items' = items /\ step' = step
        BY <3>3 DEF Skip, arrays
      <4> QED
        BY <1>2, <1>4, <4>1 DEF Scanned, OnePerPid, Filling
    <3>4. CASE SnapshotOne
      <4>1. PICK p \in todo : todo' = todo \ {p} /\ items' = Append(items, [pid |-> p, size |-> 0])
        BY <3>4 DEF SnapshotOne
      <4> DEFINE e == [pid |-> p, size |-> 0]
      <4>2. step = "snapshot" /\ step' = step
        BY <3>4 DEF SnapshotOne
      <4>3. e \in Entry /\ e.pid = p /\ items \in Seq(Entry)
        BY <4>1, <4>2 DEF CInv, ScanTypes, Entry, Filling
      <4>4. OnePerPid(items) /\ \A i \in DOMAIN items : items[i].pid \notin todo
        BY <4>2 DEF Scanned, Filling
      <4> HIDE DEF e
      <4>5. /\ OnePerPid(Append(items, e))
            /\ \A i \in DOMAIN Append(items, e) :
                  Append(items, e)[i] = e \/ (i \in DOMAIN items /\ Append(items, e)[i] = items[i])
        BY <4>1, <4>3, <4>4, AppendOne
      <4>6. items' = Append(items, e)
        BY <4>1 DEF e
      <4>7. \A i \in DOMAIN items' : items'[i].pid \notin todo'
        BY <4>1, <4>3, <4>4, <4>5, <4>6
      <4>8. OnePerPid(items)'
        BY <4>5, <4>6 DEF OnePerPid
      <4> QED
        BY <1>2, <1>4, <4>2, <4>7, <4>8 DEF Scanned
    <3> QED
      BY <1>6, <3>1, <3>2, <3>3, <3>4
  <2> QED
    BY <1>1, <1>3, <1>5, <2>2, <2>3
<1>7. CASE SnapshotDone
  <2>1. /\ step = "snapshot" /\ step' = "window"
        /\ previous' = [i \in DOMAIN items |-> ByPid(items)[i].pid]
    BY <1>7 DEF SnapshotDone
  <2>2. items \in Seq(Entry) /\ OnePerPid(items)
    BY <2>1 DEF CInv, ScanTypes, Scanned, Filling
  <2> DEFINE t == ByPid(items)
  <2>3. /\ t \in Seq(Entry) /\ DOMAIN t = DOMAIN items
        /\ \A i, j \in DOMAIN t : i < j => t[i].pid < t[j].pid
    <3>1. t \in Seq(Entry) /\ Len(t) = Len(items)
      BY <2>2, ByPidSorts
    <3>2. DOMAIN t = DOMAIN items
      <4> HIDE DEF t
      <4> QED
        BY <2>2, <3>1
    <3> QED
      BY <2>2, <3>1, <3>2, ByPidSorts
  <2> HIDE DEF t
  <2>4. \A i \in DOMAIN t : t[i].pid \in 1 .. MaxPid
    BY <2>3, EntryPids
  <2>5. previous' \in Seq(1 .. MaxPid)
    <3>1. Len(t) \in Nat /\ DOMAIN t = 1 .. Len(t)
      BY <2>3
    <3>2. previous' = [i \in 1 .. Len(t) |-> t[i].pid]
      BY <2>1, <2>3, <3>1 DEF t
    <3> QED
      BY <2>4, <3>1, <3>2
  <2>6. Increasing(previous)'
    <3>1. previous' = [i \in DOMAIN t |-> t[i].pid]
      BY <2>1, <2>3 DEF t
    <3>2. \A i, j \in DOMAIN previous' : i < j => previous'[i] < previous'[j]
      BY <2>3, <3>1
    <3> QED
      BY <3>2 DEF Increasing
  <2>7. Searching' /\ Scanned'
    BY <1>2, <1>4, <2>1, <2>5, <2>6 DEF Searching, Scanned, Filling
  <2> QED
    BY <1>1, <1>3, <1>5, <2>7
<1> QED
  BY <1>6, <1>7

\* A search begins with the whole snapshot as its window.
AtSearch ==
    /\ previous \in Seq(1 .. MaxPid) /\ Increasing(previous) /\ pid \in 1 .. MaxPid
    /\ low = 0 /\ high = Len(previous) /\ looking = "search" /\ result = NULL

LEMMA SearchBegins == AtSearch => Find!SInv
<1> SUFFICES ASSUME AtSearch PROVE Find!SInv
    OBVIOUS
<1> USE DEF AtSearch
<1> DEFINE n == Len(previous)
<1>1. n \in Nat /\ Find!Indices = 0 .. n - 1
  BY DEF Find!Indices
<1>2. \A i \in Find!Indices : i + 1 \in DOMAIN previous /\ counters[i] = previous[i + 1]
  BY <1>1 DEF counters
<1>3. Find!TypeOK
  <2>1. \A i \in Find!Indices : counters[i] \in 1 .. MaxPid
    <3>1. \A k \in DOMAIN previous : previous[k] \in 1 .. MaxPid
      <4> DEFINE P == 1 .. MaxPid
      <4>1. previous \in Seq(P)
        OBVIOUS
      <4> HIDE DEF P, AtSearch
      <4>2. \A k \in DOMAIN previous : previous[k] \in P
        BY <4>1
      <4> QED
        BY <4>2 DEF P
    <3> QED
      BY <1>2, <3>1
  <2>2. counters \in [Find!Indices -> 1 .. MaxPid]
    BY <2>1 DEF counters, Find!Indices
  <2> QED
    BY <1>1, <2>2 DEF Find!TypeOK, Find!NULL, NULL
<1>4. Find!Sorted
  BY <1>1, <1>2 DEF Find!Sorted, Increasing
<1>5. Find!Window
  BY <1>1 DEF Find!Window
<1> QED
  BY <1>3, <1>4, <1>5 DEF Find!SInv, Find!SearchCorrect, Find!NULL, NULL

\* The scan after the window and the searches in it, up to where it is sorted.
LEMMA SinceKeepsListInv ==
    ASSUME ListInv, \/ WindowFails \/ SinceOpen \/ SinceBegin \/ SinceAllocFails
                    \/ SinceOne \/ Search \/ AppendInfo \/ SinceFails
    PROVE  ListInv'
<1> USE DEF ListInv
<1>1. CInv'
  BY SinceKeepsCInv
<1>2. UNCHANGED <<out, total, shown, seen, by, next>>
  BY DEF WindowFails, NoList, SinceOpen, SinceBegin, SinceAllocFails, SinceOne, Search, AppendInfo,
         SinceFails, vars, list
<1>3. /\ step \in {"window", "since_alloc", "since", "search"}
      /\ by = "cpu" /\ pc = "scan" /\ seen = {}
  <2>1. step \in {"window", "since_alloc", "since", "search"}
    BY DEF WindowFails, SinceOpen, SinceBegin, SinceAllocFails, SinceOne, Search, AppendInfo, SinceFails
  <2> QED
    BY <2>1 DEF Progress, Scanned
<1>4. \/ step' \in {"since_alloc", "since", "search"} /\ pc' = pc
      \/ step' = "end" /\ pc' = "failed"
  BY <1>3 DEF WindowFails, NoList, SinceOpen, SinceBegin, SinceAllocFails, SinceOne, Search, AppendInfo,
              SinceFails, vars
<1>5. TInv'
  BY <1>2, <1>3, <1>4, ListLeftAlone
<1>6. Progress' /\ Offered'
  BY <1>2, <1>3, <1>4 DEF Progress, Offered
<1>7. CASE WindowFails \/ SinceAllocFails \/ SinceFails
  <2>1. step' = "end" /\ (previous' = previous \/ previous' = << >>)
    BY <1>7 DEF WindowFails, NoList, SinceAllocFails, SinceFails
  <2>2. << >> \in Seq(1 .. MaxPid) /\ Increasing(<< >>)
    BY DEF Increasing
  <2>3. Searching'
    BY <2>1, <2>2 DEF Searching
  <2>4. Scanned'
    BY <1>2, <1>3, <2>1 DEF Scanned, Filling
  <2> QED
    BY <1>1, <1>5, <1>6, <2>3, <2>4
<1>8. CASE SinceBegin
  <2>1. step' = "since" /\ previous' = previous /\ items' = << >>
    BY <1>8 DEF SinceBegin, BeginScan
  <2>2. Searching' /\ Scanned'
    BY <1>2, <1>3, <2>1 DEF Searching, Scanned, OnePerPid, Filling
  <2> QED
    BY <1>1, <1>5, <1>6, <2>2
<1>9. CASE SinceOne
  <2>1. PICK p \in todo : todo' = todo \ {p} /\ pid' = p
    BY <1>9 DEF SinceOne
  <2>2. /\ step = "since" /\ step' = "search" /\ UNCHANGED <<previous, items>>
        /\ low' = 0 /\ high' = Len(previous) /\ looking' = "search" /\ result' = NULL
    BY <1>9 DEF SinceOne
  <2>3. Scanned'
    BY <1>2, <1>3, <2>1, <2>2 DEF Scanned, OnePerPid, Filling
  <2>4. pid' \in 1 .. MaxPid
    BY <2>1, PidsAssumption DEF CInv, ScanTypes
  <2>5. previous' \in Seq(1 .. MaxPid) /\ Increasing(previous)'
    BY <2>2 DEF Searching, Increasing
  <2>6. AtSearch'
    BY <2>2, <2>4, <2>5 DEF AtSearch
  <2>7. Find!SInv'
    BY <2>6, SearchBegins, PTL
  <2> QED
    BY <1>1, <1>5, <1>6, <2>3, <2>5, <2>7 DEF Searching
<1>10. CASE Search
  <2>1. step = "search" /\ Find!Next /\ UNCHANGED <<step, todo, items, previous, pid>>
    BY <1>10 DEF Search, arrays
  <2>2. Find!SInv'
    BY <2>1, SearchKeepsSInv DEF Searching
  <2>3. Searching' /\ Scanned'
    BY <1>2, <1>3, <2>1, <2>2 DEF Searching, Scanned, Increasing, OnePerPid, Filling
  <2> QED
    BY <1>1, <1>5, <1>6, <2>3
<1>11. CASE AppendInfo
  <2>1. PICK share \in Shares : items' = Append(items, [pid |-> pid, size |-> share])
    BY <1>11 DEF AppendInfo
  <2>2. step = "search" /\ step' = "since" /\ UNCHANGED <<todo, previous, pid>>
    BY <1>11 DEF AppendInfo, search
  <2> DEFINE e == [pid |-> pid, size |-> share]
  <2>3. e \in Entry /\ e.pid = pid /\ items \in Seq(Entry)
    BY <2>1, <2>2 DEF CInv, ScanTypes, Entry, Filling, Shares
  <2>4. /\ OnePerPid(items) /\ \A i \in DOMAIN items : items[i].pid \notin todo
        /\ pid \notin todo /\ \A i \in DOMAIN items : items[i].pid # pid
    BY <2>2 DEF Scanned, Filling
  <2>5. items' = Append(items, e)
    BY <2>1
  <2> HIDE DEF e
  <2>6. /\ OnePerPid(Append(items, e))
        /\ \A i \in DOMAIN Append(items, e) :
              Append(items, e)[i] = e \/ (i \in DOMAIN items /\ Append(items, e)[i] = items[i])
    BY <2>3, <2>4, AppendOne
  <2>7. \A i \in DOMAIN items' : items'[i].pid \notin todo'
    BY <2>2, <2>3, <2>4, <2>5, <2>6
  <2>8. OnePerPid(items)'
    BY <2>5, <2>6 DEF OnePerPid
  <2>9. Searching' /\ Scanned'
    BY <1>2, <1>3, <2>2, <2>7, <2>8 DEF Searching, Scanned
  <2> QED
    BY <1>1, <1>5, <1>6, <2>9
<1>12. CASE SinceOpen
  <2>1. step' = "since_alloc" /\ previous' = previous
    BY <1>12 DEF SinceOpen, arrays
  <2>2. Searching' /\ Scanned'
    BY <1>2, <1>3, <2>1 DEF Searching, Scanned, Filling
  <2> QED
    BY <1>1, <1>5, <1>6, <2>2
<1> QED
  BY <1>7, <1>8, <1>9, <1>10, <1>11, <1>12

\* The sorted scan, and the entries offered to the list one after the other.
LEMMA InsertKeepsListInv ==
    ASSUME ListInv, SinceDone \/ InsertOne \/ InsertDone
    PROVE  ListInv'
<1> USE DEF ListInv
<1>1. CInv'
  BY SinceKeepsCInv, ListKeepsCInv
<1>2. previous' = previous /\ by' = by /\ step' # "search"
  BY DEF SinceDone, InsertOne, InsertDone, arrays
<1>3. Searching'
  BY <1>2 DEF Searching
<1>4. by = "cpu" /\ pc = "scan" /\ step \in {"since", "insert"}
  <2>1. step \in {"since", "insert"}
    BY DEF SinceDone, InsertOne, InsertDone
  <2> QED
    BY <2>1 DEF Progress
<1>5. CASE SinceDone
  <2>1. /\ step = "since" /\ step' = "insert" /\ items' = ByPid(items) /\ next' = 1
        /\ UNCHANGED vars
    BY <1>5 DEF SinceDone
  <2>2. items \in Seq(Entry) /\ OnePerPid(items) /\ seen = {}
    BY <2>1 DEF CInv, ScanTypes, Scanned, Filling
  <2>3. items' \in Seq(Entry) /\ OnePerPid(items)' /\ Len(items') \in Nat
    BY <2>1, <2>2, ByPidSorts DEF OnePerPid
  <2>4. TInv'
    BY <2>1, ScanKeepsTop
  <2>5. Offered'
    <3>1. seen' = {} /\ \A i \in DOMAIN items' : ~(i < next')
      BY <2>1, <2>2, <2>3 DEF vars
    <3> QED
      BY <2>1, <2>3, <3>1 DEF Offered
  <2>6. Scanned' /\ Progress'
    BY <1>2, <1>4, <2>1 DEF Scanned, Progress, Filling, vars
  <2> QED
    BY <1>1, <1>3, <2>4, <2>5, <2>6
<1>6. CASE InsertOne
  <2>1. /\ step = "insert" /\ step' = step /\ next <= Len(items) /\ next' = next + 1
        /\ UNCHANGED <<pc, total, shown, items>>
    BY <1>6 DEF InsertOne, MoreItems, arrays
  <2>2. /\ items \in Seq(Entry) /\ OnePerPid(items)
        /\ \A i \in DOMAIN items : i < next /\ items[i].size > 0 => items[i] \in seen
        /\ \A s \in seen : \E i \in DOMAIN items : i < next /\ items[i] = s
    BY <2>1 DEF Offered
  <2>3. next \in Nat \ {0} /\ Len(items) \in Nat /\ next \in DOMAIN items /\ DOMAIN items = 1 .. Len(items)
    BY <2>1, <2>2 DEF CInv, ScanTypes
  <2>4. items[next] \in Entry
    BY <2>2, <2>3
  <2>5. CASE items[next].size > 0
    <3>1. insert_top(items[next]) /\ seen' = seen \cup {items[next]}
      BY <1>6, <2>5 DEF InsertOne
    <3>2. items[next] \in Process
      BY <2>4, <2>5 DEF Entry, Process
    <3>3. \A s \in seen : s.pid # items[next].pid
      BY <2>2, <2>3 DEF OnePerPid
    <3>4. TInv'
      <4>1. total' \in Nat /\ UNCHANGED <<pc, shown>>
        BY <2>1 DEF TInv, TypeOK
      <4> QED
        BY <1>4, <3>1, <3>2, <3>3, <4>1, InsertKeepsTop
    <3>5. Offered'
      <4>1. \A i \in DOMAIN items : i < next' /\ items[i].size > 0 => items[i] \in seen'
        BY <2>1, <2>2, <2>3, <3>1
      <4>2. \A s \in seen' : \E i \in DOMAIN items : i < next' /\ items[i] = s
        BY <2>1, <2>2, <2>3, <3>1
      <4>3. OnePerPid(items)' /\ next' <= Len(items) + 1
        BY <2>1, <2>2, <2>3 DEF OnePerPid
      <4> QED
        BY <2>1, <2>2, <4>1, <4>2, <4>3 DEF Offered
    <3> QED
      BY <1>1, <1>2, <1>3, <1>4, <2>1, <3>4, <3>5 DEF Scanned, Progress, Filling
  <2>6. CASE ~(items[next].size > 0)
    <3>1. UNCHANGED <<out, seen>>
      BY <1>6, <2>6 DEF InsertOne
    <3>2. TInv'
      BY <2>1, <3>1, ListLeftAlone
    <3>3. Offered'
      <4>1. \A i \in DOMAIN items : i < next' /\ items[i].size > 0 => items[i] \in seen'
        BY <2>1, <2>2, <2>3, <2>6, <3>1
      <4>2. \A s \in seen' : \E i \in DOMAIN items : i < next' /\ items[i] = s
        BY <2>1, <2>2, <2>3, <3>1
      <4>3. OnePerPid(items)' /\ next' <= Len(items) + 1
        BY <2>1, <2>2, <2>3 DEF OnePerPid
      <4> QED
        BY <2>1, <2>2, <4>1, <4>2, <4>3 DEF Offered
    <3> QED
      BY <1>1, <1>2, <1>3, <1>4, <2>1, <3>2, <3>3 DEF Scanned, Progress, Filling
  <2> QED
    BY <2>5, <2>6
<1>7. CASE InsertDone
  <2>1. /\ step = "insert" /\ step' = "end" /\ ~(next <= Len(items))
        /\ pc' = "done" /\ shown' = out /\ total' = Len(items)
        /\ UNCHANGED <<out, seen, items, next>>
    BY <1>7 DEF InsertDone, MoreItems
  <2>2. /\ items \in Seq(Entry) /\ OnePerPid(items) /\ next <= Len(items) + 1
        /\ \A i \in DOMAIN items : i < next /\ items[i].size > 0 => items[i] \in seen
        /\ \A s \in seen : \E i \in DOMAIN items : i < next /\ items[i] = s
    BY <2>1 DEF Offered
  <2>3. next \in Nat /\ Len(items) \in Nat /\ next = Len(items) + 1
    BY <2>1, <2>2 DEF CInv, ScanTypes
  <2>4. TInv'
    <3>1. TypeOK'
      BY <2>1, <2>3 DEF TInv, TypeOK
    <3>2. Ordered' /\ TopSelected' /\ ShownIsTop'
      BY <2>1 DEF TInv, Ordered, TopSelected, ShownIsTop
    <3> QED
      BY <3>1, <3>2 DEF TInv
  <2>5. Offered'
    BY <2>1, <2>2 DEF Offered, OnePerPid
  <2>6. Scanned' /\ Progress'
    BY <1>2, <1>4, <2>1, <2>3 DEF Scanned, Progress, Filling
  <2> QED
    BY <1>1, <1>3, <2>4, <2>5, <2>6
<1> QED
  BY <1>5, <1>6, <1>7

\* The list by memory: no entry is offered from an array, nothing is searched.
LEMMA MemoryKeepsListInv ==
    ASSUME ListInv, MemoryOpen \/ MemoryScan
    PROVE  ListInv'
<1> USE DEF ListInv
<1>1. CInv'
  BY ListKeepsCInv
<1>2. UNCHANGED <<by, previous, items, next>> /\ step \in {"open", "memory"}
  BY DEF MemoryOpen, MemoryScan, arrays
<1>3. by = "memory" /\ pc = "scan"
  BY <1>2 DEF Progress
<1>4. TInv'
  <2>1. CASE MemoryOpen
    <3>1. UNCHANGED <<out, total, shown, seen>> /\ (pc' = pc \/ pc' = "failed")
      BY <2>1 DEF MemoryOpen, list
    <3> QED
      BY <1>3, <3>1, ListLeftAlone
  <2>2. CASE MemoryScan
    BY <2>2, ScanKeepsTop DEF MemoryScan, Next
  <2> QED
    BY <2>1, <2>2
<1>5. /\ step' \in {"memory", "end"}
      /\ pc' = "scan" <=> step' # "end"
      /\ pc' = "done" => shown' = out'
  <2>1. CASE MemoryOpen
    BY <1>3, <2>1 DEF MemoryOpen
  <2>2. CASE MemoryScan
    <3>1. step = "memory" /\ IF pc' = "scan" THEN step' = step ELSE step' = "end"
      BY <2>2 DEF MemoryScan
    <3>2. pc' = "done" => shown' = out'
      BY <1>3, <2>2 DEF MemoryScan, Offer, Finish, Fail
    <3> QED
      BY <3>1, <3>2
  <2> QED
    BY <2>1, <2>2
<1>6. Scanned' /\ Offered' /\ Progress' /\ Searching'
  BY <1>2, <1>3, <1>5 DEF Scanned, Offered, Progress, Searching, Filling
<1> QED
  BY <1>1, <1>4, <1>6

\* The invariant of both lists, for any PIDs, shares, capacity and room.
THEOREM ListsInvariance == CpuSpec => []ListInv
<1>1. CpuInit => ListInv
  <2> SUFFICES ASSUME CpuInit PROVE ListInv
      OBVIOUS
  <2>1. CInv
    BY CInvAtStart
  <2>2. TInv
    BY CapAssumption DEF CpuInit, Init, TInv, TypeOK, Ordered, TopSelected, ShownIsTop
  <2>3. Scanned /\ Offered /\ Progress
    BY DEF CpuInit, Init, Scanned, Offered, Progress, Filling
  <2>4. Searching
    BY DEF CpuInit, Searching, Increasing
  <2> QED
    BY <2>1, <2>2, <2>3, <2>4 DEF ListInv
<1>2. ListInv /\ [CpuNext]_allvars => ListInv'
  <2>1. ASSUME ListInv, UNCHANGED allvars PROVE ListInv'
    <3> USE DEF ListInv
    <3>1. UNCHANGED <<vars, by, step, todo, next, items, previous>>
      BY <2>1 DEF allvars, arrays
    <3>2. CInv' /\ TInv'
      BY <2>1, <3>1, CInvStutters, ScanKeepsTop
    <3>3. Scanned' /\ Offered' /\ Progress'
      BY <2>1, <3>1 DEF allvars, search, vars, Scanned, Offered, Progress, OnePerPid
    <3>4. UNCHANGED Find!vars
      BY <2>1 DEF allvars, search, arrays, Find!vars, counters
    <3>5. Searching'
      BY <2>1, <3>1, <3>4, SearchKeepsSInv DEF Searching, Increasing
    <3> QED
      BY <3>2, <3>3, <3>5
  <2> QED
    BY <2>1, SnapshotKeepsListInv, SinceKeepsListInv, InsertKeepsListInv, MemoryKeepsListInv DEF CpuNext
<1> QED
  BY <1>1, <1>2, PTL DEF CpuSpec

\* Whatever feeds it, the list is in order, lists no process twice and is the top of
\* what was offered; what is shown is a finished list.
THEOREM ListsAreTops == CpuSpec => []TInv
<1>1. ListInv => TInv
  BY DEF ListInv
<1> QED
  BY <1>1, ListsInvariance, PTL

\* find_previous is called on a sorted snapshot only, and is right there.
THEOREM SearchedRight == CpuSpec => []SearchRight
<1>1. ListInv => SearchRight
  BY DEF ListInv, Searching, SearchRight
<1> QED
  BY <1>1, ListsInvariance, PTL

\* No process that used CPU time is missing from the list shown but behind Cap others
\* that used at least as much; the total counts every process of the scan.
THEOREM BusiestAreShown == CpuSpec => []BusiestShown
<1>1. ListInv => BusiestShown
  <2> SUFFICES ASSUME ListInv, by = "cpu", pc = "done"
               PROVE  /\ total = Len(items)
                      /\ \A i \in DOMAIN items : items[i].size > 0 =>
                            \/ \E j \in DOMAIN shown : shown[j] = items[i]
                            \/ Len(shown) = Cap /\ \A j \in DOMAIN shown : shown[j].size >= items[i].size
      BY DEF BusiestShown
  <2>1. total = Len(items) /\ shown = out /\ next = Len(items) + 1
    BY DEF ListInv, Progress
  <2>2. /\ items \in Seq(Entry)
        /\ \A i \in DOMAIN items : i < next /\ items[i].size > 0 => items[i] \in seen
    BY DEF ListInv, Offered
  <2>3. \A i \in DOMAIN items : i < next
    BY <2>1, <2>2
  <2>4. TopSelected
    BY DEF ListInv, TInv
  <2> QED
    BY <2>1, <2>2, <2>3, <2>4 DEF TopSelected
<1> QED
  BY <1>1, ListsInvariance, PTL

\* In both lists equals stay in the order in which the scan offered them: by PID in
\* the list by CPU share, as readdir met them in the list by memory.
THEOREM ListsKeepEquals == CpuSpec => EqualsKeepOrder
<1>1. ListInv /\ [CpuNext]_allvars => [KeepsOrder]_vars
  <2> SUFFICES ASSUME ListInv, [CpuNext]_allvars PROVE [KeepsOrder]_vars
      OBVIOUS
  <2> USE DEF ListInv
  <2>1. CASE InsertOne
    <3>1. step = "insert" /\ next <= Len(items)
      BY <2>1 DEF InsertOne, MoreItems
    <3>2. items \in Seq(Entry) /\ next \in 1 .. Len(items)
      BY <3>1 DEF Offered, CInv, ScanTypes
    <3>3. CASE items[next].size > 0
      <4>1. items[next] \in Process
        <5>1. items[next] \in Entry
          BY <3>2
        <5> QED
          BY <3>3, <5>1 DEF Entry, Process
      <4>2. insert_top(items[next])
        BY <2>1, <3>3 DEF InsertOne
      <4> QED
        BY <4>1, <4>2, InsertKeepsOrder
    <3>4. CASE ~(items[next].size > 0)
      BY <2>1, <3>4, NoNewcomer DEF InsertOne
    <3> QED
      BY <3>3, <3>4
  <2>2. CASE MemoryScan
    <3>1. CASE \E c \in Process : Offer(c)
      BY <3>1, InsertKeepsOrder DEF Offer
    <3>2. CASE Finish \/ Fail
      BY <3>2, NoNewcomer DEF Finish, Fail
    <3> QED
      BY <2>2, <3>1, <3>2 DEF MemoryScan
  <2>3. CASE ~InsertOne /\ ~MemoryScan
    <3>1. out' = out
      BY <2>3 DEF CpuNext, TakeOpen, TakeAlloc, TakeBegin, TakeFails, Skip, SnapshotOne,
                  SnapshotFails, SnapshotDone, WindowFails, NoList, SinceOpen, SinceBegin,
                  SinceAllocFails, SinceOne, Search, AppendInfo, SinceFails, SinceDone,
                  InsertDone, MemoryOpen, list, vars, allvars
    <3> QED
      BY <3>1, NoNewcomer
  <2> QED
    BY <2>1, <2>2, <2>3
<1> QED
  BY <1>1, ListsInvariance, PTL DEF CpuSpec, EqualsKeepOrder, KeepsOrder
=============================================================================
