---------------------------- MODULE ExplorerProofs ----------------------------
EXTENDS Explorer, FiniteSetTheorems, TLAPS

\* The program starts in the invariant, whatever processes there are.
LEMMA InitIInv == Init => IInv
<1> SUFFICES ASSUME Init PROVE IInv
    OBVIOUS
<1> USE DEF Init, KernelInit
<1>1. TypeOK
  <2>1. KernelTypeOK
    BY DEF KernelTypeOK
  <2>2. selected_starttime \in Starts
    BY StartAssumption DEF Starts
  <2>3. selected_detail \in Detail /\ reading \in Detail
    BY DEF Detail, Blank, Times
  <2>4. goal \in Goal /\ screen \in Screens
    BY DEF Goal, NoGoal, Screens, Immediate
  <2>5. /\ sort \in Sorts
        /\ rows \in Seq(Row)
        /\ notice \in Notices
    BY SortsAssumption DEF Notices
  <2> QED
    BY <2>1, <2>2, <2>3, <2>4, <2>5 DEF TypeOK
<1>2. RowsKnown
    BY FS_EmptySet DEF RowsKnown, Range
<1>3. /\ HighlightIsSelection
      /\ ReadInOrder
      /\ ScreenIsOneInstance
      /\ SendGuarded
      /\ SignalledWasNamed
    BY DEF HighlightIsSelection, ReadInOrder, ScreenIsOneInstance, SendGuarded, SignalledWasNamed
<1> QED
    BY <1>1, <1>2, <1>3 DEF IInv

\* Processes may start and end at any moment without harm to it: start times
\* only grow, and what was read stays a lower bound.
LEMMA KernelIInv == IInv /\ Kernel => IInv'
<1> SUFFICES ASSUME IInv, NEW p \in Pids, Fork(p) \/ Exit(p),
                    UNCHANGED <<screen, ui, sel, selected_detail, notice, pc, listing, call, sent>>
             PROVE  IInv'
    BY DEF Kernel, KernelStep
<1> USE DEF IInv, ui, sel, listing, call
<1>1. KernelTypeOK' /\ \A q \in Pids : last[q] <= last'[q]
  <2>1. CASE Fork(p)
    <3>1. PICK t \in Starts : t > last[p] /\ last' = [last EXCEPT ![p] = t]
      BY <2>1 DEF Fork
    <3>2. \A q \in Pids : last[q] \in Int
      BY StartAssumption DEF TypeOK, KernelTypeOK, Starts, Never
    <3>3. t \in Int
      BY StartAssumption DEF Starts
    <3>4. \A q \in Pids : last[q] <= last'[q]
      BY <3>1, <3>2, <3>3 DEF TypeOK, KernelTypeOK
    <3> QED
      BY <2>1, <3>1, <3>4 DEF Fork, TypeOK, KernelTypeOK
  <2>2. CASE Exit(p)
    BY <2>2, StartAssumption DEF Exit, TypeOK, KernelTypeOK, Starts, Never
  <2> QED
    BY <2>1, <2>2
<1>2. TypeOK'
    BY <1>1 DEF TypeOK
<1>3. RowsKnown'
  <2>1. \A r \in Row : r.starttime <= last[r.pid] => r.starttime <= last'[r.pid]
    BY <1>1, <1>2, StartAssumption DEF TypeOK, KernelTypeOK, Row, Starts, Never
  <2>2. selected_pid # 0 => selected_starttime <= last'[selected_pid]
    BY <1>1, <1>2, StartAssumption DEF RowsKnown, TypeOK, KernelTypeOK, Starts, Never
  <2>3. found \cup Range(rows) \subseteq Row
    BY DEF TypeOK, Range
  <2> QED
    BY <2>1, <2>2, <2>3 DEF RowsKnown
<1>4. ReadInOrder'
    BY <1>1, <1>2, StartAssumption DEF ReadInOrder, TypeOK, KernelTypeOK, Detail, Times, Starts, Never
<1>5. /\ HighlightIsSelection'
      /\ ScreenIsOneInstance'
      /\ SendGuarded'
      /\ SignalledWasNamed'
    BY DEF HighlightIsSelection, IsSelected, ScreenIsOneInstance, SendGuarded, SignalledWasNamed
<1> QED
    BY <1>2, <1>3, <1>4, <1>5

\* What filtering and sorting leave is a sequence of rows that were read.
LEMMA ListingRows ==
    ASSUME IsFiniteSet(found), found \subseteq Row,
           NEW list \in Listings
    PROVE  list \in Seq(Row) /\ Range(list) \subseteq found
<1>1. PICK kept \in SUBSET found : list \in SetToSeqs(kept)
    BY DEF Listings
<1>2. Cardinality(kept) \in Nat
    BY FS_Subset, FS_CardinalityType
<1> QED
    BY <1>1, <1>2 DEF SetToSeqs, Range

\* After align_selection the highlight is on a row of the list, the selected one.
LEMMA AlignOnRow ==
    ASSUME TypeOK,
           NEW list \in Seq(Row), align_selection(list)
    PROVE  /\ selected' \in Nat
           /\ list = << >> => selected_pid' = 0 /\ selected_starttime' = 0
           /\ list # << >> => /\ selected' + 1 \in DOMAIN list
                              /\ selected_pid' = list[selected' + 1].pid
                              /\ selected_starttime' = list[selected' + 1].starttime
<1> DEFINE matches == {i \in DOMAIN list : IsSelected(list, i)}
<1>1. CASE list = << >>
    BY <1>1 DEF align_selection
<1>2. CASE list # << >> /\ selected_pid > 0 /\ matches # {}
    BY <1>2 DEF align_selection, IsSelected
<1>3. CASE list # << >> /\ ~(selected_pid > 0 /\ matches # {})
    BY <1>3 DEF align_selection, TypeOK
<1> QED
    BY <1>1, <1>2, <1>3

\* An empty list has no rows.
LEMMA NoRows == Range(<< >>) = {}
BY DEF Range

\* Frames that read nothing, and keys that only change what screen is shown and
\* how the list is sorted or searched.
LEMMA QuietIInv ==
    ASSUME IInv,
           \/ ShowImmediate \/ Leave
           \/ PollTimeout \/ KeyIgnored \/ KeyQuit \/ KeyError \/ KeyBack \/ KeyProcesses
           \/ KeyLearn \/ KeyTopic \/ KeySort \/ KeySearch \/ KeyEdit \/ KeyApply \/ KeyExplain
    PROVE  IInv'
<1> USE DEF IInv, ui, sel, listing, call, kernel, KeyOn, GoTo,
        ShowImmediate, Leave, PollTimeout, KeyIgnored, KeyQuit, KeyError, KeyBack,
        KeyProcesses, KeyLearn, KeyTopic, KeySort, KeySearch, KeyEdit, KeyApply, KeyExplain
<1>1. /\ UNCHANGED <<kernel, found, todo, reading, goal, selected_detail, sent>>
      /\ pc' \in {"frame", "key", "done"}
      /\ pc' = "key" => screen' \in Immediate
      /\ rows' = << >>
    BY DEF HighlightIsSelection
<1>2. /\ \/ selected' = selected /\ selected_pid' = selected_pid /\ selected_starttime' = selected_starttime
         \/ selected' = 0 /\ selected_pid' = 0 /\ selected_starttime' = 0
      /\ screen' \in Screens
      /\ return_screen' \in {"OVERVIEW", "PROCESSES"}
      /\ notice' \in Notices
  <2>1. CASE KeyApply
    BY <2>1, <1>1 DEF TypeOK, Screens, Notices
  <2>2. CASE ~KeyApply
    <3>1. selected' = selected /\ selected_pid' = selected_pid /\ selected_starttime' = selected_starttime
      BY <2>2
    <3>2. screen' \in Screens /\ return_screen' \in {"OVERVIEW", "PROCESSES"}
      BY DEF TypeOK, Screens, Immediate, DetailBased
    <3>3. notice' \in Notices
      BY DEF TypeOK, Notices
    <3> QED
      BY <3>1, <3>2, <3>3
  <2> QED
    BY <2>1, <2>2
<1>3. sort' \in Sorts /\ search' \in BOOLEAN /\ search_draft' \in BOOLEAN
    BY DEF TypeOK
<1>4. TypeOK'
    BY <1>1, <1>2, <1>3, StartAssumption DEF TypeOK, KernelTypeOK, Starts
<1>5. RowsKnown' /\ HighlightIsSelection'
    BY <1>1, <1>2, NoRows DEF RowsKnown, HighlightIsSelection
<1>6. ReadInOrder' /\ ScreenIsOneInstance' /\ SendGuarded' /\ SignalledWasNamed'
    BY <1>1 DEF ReadInOrder, ScreenIsOneInstance, SendGuarded, SignalledWasNamed,
                Immediate, DetailBased, Confirms
<1> QED
    BY <1>4, <1>5, <1>6

\* The scan of /proc.
LEMMA ScanIInv == IInv /\ (ListBegin \/ ScanStatus \/ ScanStat \/ ScanSkip) => IInv'
<1> SUFFICES ASSUME IInv, ListBegin \/ ScanStatus \/ ScanStat \/ ScanSkip
             PROVE  IInv'
    OBVIOUS
<1> USE DEF IInv, ui, sel, listing, call, kernel
<1>1. CASE ListBegin
  <2>1. TypeOK'
    BY <1>1 DEF ListBegin, TypeOK, KernelTypeOK
  <2>2. RowsKnown' /\ HighlightIsSelection'
    BY <1>1 DEF ListBegin, RowsKnown, HighlightIsSelection
  <2>3. ReadInOrder' /\ ScreenIsOneInstance' /\ SendGuarded' /\ SignalledWasNamed'
    BY <1>1 DEF ListBegin, ReadInOrder, ScreenIsOneInstance, SendGuarded, SignalledWasNamed
  <2> QED
    BY <2>1, <2>2, <2>3
<1>2. CASE ScanStatus
  <2>1. PICK p \in Pids : /\ alive[p]
                          /\ reading' = [Blank EXCEPT !.pid = p, !.name = last[p]]
                          /\ todo' = todo \ {p}
    BY <1>2 DEF ScanStatus, TypeOK
  <2>2. last[p] \in Starts /\ Never <= last[p]
    BY <2>1, StartAssumption DEF TypeOK, KernelTypeOK, Starts, Never
  <2>3. TypeOK'
    BY <1>2, <2>1, <2>2 DEF ScanStatus, TypeOK, KernelTypeOK, Detail, Blank, Times
  <2>4. RowsKnown' /\ HighlightIsSelection'
    BY <1>2 DEF ScanStatus, RowsKnown, HighlightIsSelection
  <2>5. ReadInOrder'
    <3>1. /\ pc = "scan" /\ pc' = "scan_stat"
          /\ UNCHANGED <<last, screen>>
      BY <1>2 DEF ScanStatus
    <3>2. /\ reading'.pid = p
          /\ reading'.name = last[p]
          /\ reading'.starttime = Never
      BY <2>1 DEF Blank
    <3>3. last[p] <= last[p]
      BY <2>2, StartAssumption DEF Starts
    <3> QED
      BY <2>2, <3>1, <3>2, <3>3 DEF ReadInOrder
  <2>6. ScreenIsOneInstance' /\ SendGuarded' /\ SignalledWasNamed'
    BY <1>2 DEF ScanStatus, ScreenIsOneInstance, SendGuarded, SignalledWasNamed
  <2> QED
    BY <2>3, <2>4, <2>5, <2>6
<1>3. CASE ScanStat
  <2> DEFINE row == [pid |-> reading.pid, name |-> reading.name, starttime |-> last[reading.pid]]
  <2>1. /\ reading.pid \in Pids
        /\ reading.name \in Starts
        /\ last[reading.pid] \in Starts
        /\ reading.name <= last[reading.pid]
    BY <1>3 DEF ScanStat, ReadInOrder, TypeOK, KernelTypeOK
  <2>2. row \in Row /\ row.name <= row.starttime /\ row.starttime <= last[row.pid]
    BY <2>1, StartAssumption DEF Row, Starts
  <2>3. found' = found \cup {row} /\ UNCHANGED <<kernel, rows, sel>>
    BY <1>3 DEF ScanStat
  <2>4. TypeOK'
    BY <1>3, <2>2, <2>3 DEF ScanStat, TypeOK, KernelTypeOK, Detail, Blank, Times
  <2>5. RowsKnown'
    BY <2>2, <2>3, FS_AddElement DEF RowsKnown
  <2>6. HighlightIsSelection'
    BY <1>3 DEF ScanStat, HighlightIsSelection
  <2>7. ReadInOrder' /\ ScreenIsOneInstance' /\ SendGuarded' /\ SignalledWasNamed'
    BY <1>3 DEF ScanStat, ReadInOrder, ScreenIsOneInstance, SendGuarded, SignalledWasNamed
  <2> QED
    BY <2>4, <2>5, <2>6, <2>7
<1>4. CASE ScanSkip
  <2>1. TypeOK'
    BY <1>4 DEF ScanSkip, TypeOK, KernelTypeOK, Detail, Blank, Times
  <2>2. RowsKnown' /\ HighlightIsSelection'
    BY <1>4 DEF ScanSkip, RowsKnown, HighlightIsSelection
  <2>3. ReadInOrder' /\ ScreenIsOneInstance' /\ SendGuarded' /\ SignalledWasNamed'
    BY <1>4 DEF ScanSkip, ReadInOrder, ScreenIsOneInstance, SendGuarded, SignalledWasNamed
  <2> QED
    BY <2>1, <2>2, <2>3
<1> QED
    BY <1>1, <1>2, <1>3, <1>4

\* The end of the frame of the list: what is displayed, and the selection.
LEMMA ShowIInv == IInv /\ (ShowList \/ ListFails) => IInv'
<1> SUFFICES ASSUME IInv, ShowList \/ ListFails
             PROVE  IInv'
    OBVIOUS
<1> USE DEF IInv, ui, sel, listing, call, kernel
<1>1. PICK list \in Seq(Row) : /\ Range(list) \subseteq found
                               /\ rows' = list
                               /\ align_selection(list)
  <2>1. CASE ShowList
    BY <2>1, ListingRows DEF ShowList, RowsKnown, TypeOK
  <2>2. CASE ListFails
    <3>1. << >> \in Seq(Row) /\ Range(<< >>) \subseteq found
      BY NoRows
    <3> QED
      BY <2>2, <3>1 DEF ListFails
  <2> QED
    BY <2>1, <2>2
<1>2. /\ UNCHANGED <<kernel, screen, ui, selected_detail, call, sent>>
      /\ found' = {}
      /\ todo' \in SUBSET Pids
      /\ pc = "scan" /\ pc' = "key"
      /\ notice' \in Notices
    BY DEF ShowList, ListFails, TypeOK, Notices
<1>3. /\ selected' \in Nat
      /\ list = << >> => selected_pid' = 0 /\ selected_starttime' = 0
      /\ list # << >> => /\ selected' + 1 \in DOMAIN list
                         /\ selected_pid' = list[selected' + 1].pid
                         /\ selected_starttime' = list[selected' + 1].starttime
    BY <1>1, AlignOnRow
<1>4. list # << >> => list[selected' + 1] \in Row /\ list[selected' + 1] \in found
    BY <1>1, <1>3 DEF Range
<1>5. TypeOK'
    BY <1>1, <1>2, <1>3, <1>4, StartAssumption DEF TypeOK, KernelTypeOK, Row, Starts
<1>6. RowsKnown'
    BY <1>1, <1>2, <1>3, <1>4, FS_EmptySet DEF RowsKnown
<1>7. HighlightIsSelection'
    BY <1>1, <1>2, <1>3 DEF HighlightIsSelection, IsSelected, ReadInOrder
<1>8. ReadInOrder' /\ ScreenIsOneInstance' /\ SendGuarded' /\ SignalledWasNamed'
    BY <1>2 DEF ReadInOrder, ScreenIsOneInstance, SendGuarded, SignalledWasNamed,
                DetailBased, Confirms
<1> QED
    BY <1>5, <1>6, <1>7, <1>8

\* Up, Down and the keys that open the highlighted row.
LEMMA RowKeysIInv == IInv /\ (KeyMove \/ KeyOpen) => IInv'
<1> SUFFICES ASSUME IInv, KeyMove \/ KeyOpen
             PROVE  IInv'
    OBVIOUS
<1> USE DEF IInv, ui, sel, listing, call, kernel, KeyOn, GoTo
<1>1. /\ UNCHANGED <<kernel, found, todo, reading, selected_detail, notice, screen, ui, sent>>
      /\ screen = "PROCESSES" /\ pc = "key" /\ rows' = << >>
    BY DEF KeyMove, KeyOpen
<1>2. PICK i \in 1 .. Len(rows) :
         /\ selected' \in Nat
         /\ selected_pid' = rows[i].pid
         /\ selected_starttime' = rows[i].starttime
  <2>1. Len(rows) > 0 => selected < Len(rows)
    BY DEF HighlightIsSelection, TypeOK
  <2>2. CASE KeyMove
    <3>1. /\ Len(rows) \in Nat /\ selected \in Nat
          /\ selected' = RowAbove \/ selected' = RowBelow
          /\ Len(rows) > 0
      BY <2>2 DEF KeyMove, TypeOK
    <3>2. selected' \in Nat /\ selected' + 1 \in 1 .. Len(rows)
      BY <2>1, <3>1 DEF RowAbove, RowBelow
    <3> QED
      BY <2>2, <3>2 DEF KeyMove
  <2>3. CASE KeyOpen
    <3>1. selected \in Nat /\ selected + 1 \in 1 .. Len(rows)
      BY <2>1, <2>3 DEF KeyOpen, TypeOK
    <3> QED
      BY <2>3, <3>1 DEF KeyOpen
  <2> QED
    BY <2>2, <2>3
<1>3. rows[i] \in Row /\ rows[i] \in Range(rows)
    BY DEF TypeOK, Range
<1>4. \/ pc' = "frame" /\ UNCHANGED goal
      \/ pc' = "status" /\ goal'.by = "open" /\ goal'.to \in DetailBased /\ goal' \in Goal
    BY DEF KeyMove, KeyOpen, Read, Goal, Screens, DetailBased
<1>5. TypeOK'
  <2>1. selected_pid' \in Pids /\ selected_starttime' \in Starts
    BY <1>2, <1>3 DEF Row
  <2> QED
    BY <1>1, <1>2, <1>4, <2>1 DEF TypeOK, KernelTypeOK
<1>6. RowsKnown' /\ HighlightIsSelection'
    BY <1>1, <1>2, <1>3, NoRows DEF RowsKnown, HighlightIsSelection
<1>7. ReadInOrder' /\ ScreenIsOneInstance' /\ SendGuarded' /\ SignalledWasNamed'
    BY <1>1, <1>4 DEF ReadInOrder, ScreenIsOneInstance, SendGuarded, SignalledWasNamed
<1> QED
    BY <1>5, <1>6, <1>7

\* process_detail_read: its two reads of identity, and its failures.
LEMMA ReadIInv == IInv /\ (RefreshBegin \/ KeyConfirm \/ ReadStatus \/ ReadStat \/ ReadFails) => IInv'
<1> SUFFICES ASSUME IInv, RefreshBegin \/ KeyConfirm \/ ReadStatus \/ ReadStat \/ ReadFails
             PROVE  IInv'
    OBVIOUS
<1> USE DEF IInv, ui, sel, listing, call, kernel
<1>1. /\ UNCHANGED <<kernel, found, todo, selected_detail, ui, sel, sent>>
      /\ rows' = << >>
    BY DEF HighlightIsSelection, RefreshBegin, KeyConfirm, ReadStatus, ReadStat, ReadFails, KeyOn
<1>2. RowsKnown' /\ HighlightIsSelection' /\ SignalledWasNamed'
    BY <1>1, NoRows DEF RowsKnown, HighlightIsSelection, SignalledWasNamed
<1>3. CASE RefreshBegin \/ KeyConfirm
  <2>1. /\ pc' = "status" /\ UNCHANGED <<reading, screen, notice>>
        /\ goal' \in Goal
        /\ \/ goal'.by = "refresh" /\ screen \in DetailBased /\ goal'.to = screen
           \/ goal'.by = "confirm" /\ screen \in {"DETAIL", "PROCESS_LEARN"} /\ goal'.to \in Confirms
    BY <1>3 DEF RefreshBegin, KeyConfirm, Read, KeyOn, Goal, Screens, DetailBased
  <2>2. TypeOK'
    BY <1>1, <2>1 DEF TypeOK, KernelTypeOK
  <2>3. ReadInOrder' /\ ScreenIsOneInstance' /\ SendGuarded'
    BY <1>1, <2>1 DEF ReadInOrder, ScreenIsOneInstance, SendGuarded, DetailBased, Confirms
  <2> QED
    BY <1>2, <2>2, <2>3
<1>4. CASE ReadStatus
  <2> DEFINE p == selected_pid
  <2>1. /\ p \in Pids /\ p # 0 /\ alive[p]
        /\ pc = "status" /\ pc' = "stat" /\ UNCHANGED <<screen, notice, goal>>
        /\ reading' = [Blank EXCEPT !.pid = p, !.name = last[p]]
    BY <1>4, PidsAssumption DEF ReadStatus
  <2>2. /\ reading'.pid = p /\ reading'.name = last[p] /\ reading'.starttime = Never
        /\ reading' \in Detail
    BY <2>1 DEF Blank, Detail, Times, TypeOK, KernelTypeOK
  <2>3. last[p] \in Starts /\ last[p] <= last[p] /\ Never <= last[p]
    BY <2>1, StartAssumption DEF TypeOK, KernelTypeOK, Starts, Never
  <2>4. selected_starttime <= last[p]
    BY <2>1 DEF RowsKnown
  <2>5. TypeOK'
    BY <1>1, <2>1, <2>2 DEF TypeOK, KernelTypeOK
  <2>6. ReadInOrder'
    BY <1>1, <2>1, <2>2, <2>3, <2>4 DEF ReadInOrder
  <2>7. ScreenIsOneInstance' /\ SendGuarded'
    BY <1>1, <2>1 DEF ScreenIsOneInstance, SendGuarded
  <2> QED
    BY <1>2, <2>5, <2>6, <2>7
<1>5. CASE ReadStat
  <2> DEFINE p == reading.pid
  <2>1. /\ p \in Pids /\ alive[p] /\ reading \in Detail
        /\ pc = "stat" /\ pc' = "cmdline" /\ UNCHANGED <<screen, notice, goal>>
        /\ reading' = [reading EXCEPT !.starttime = last[p]]
    BY <1>5 DEF ReadStat, ReadInOrder, TypeOK
  <2>2. /\ reading'.pid = p /\ reading'.name = reading.name /\ reading'.starttime = last[p]
        /\ reading' \in Detail
    BY <2>1 DEF Detail, Times, TypeOK, KernelTypeOK
  <2>3. last[p] \in Starts /\ last[p] <= last[p]
    BY <2>1, StartAssumption DEF TypeOK, KernelTypeOK, Starts
  <2>4. TypeOK'
    BY <1>1, <2>1, <2>2 DEF TypeOK, KernelTypeOK
  <2>5. ReadInOrder'
    BY <1>1, <2>1, <2>2, <2>3 DEF ReadInOrder
  <2>6. ScreenIsOneInstance' /\ SendGuarded'
    BY <1>1, <2>1 DEF ScreenIsOneInstance, SendGuarded
  <2> QED
    BY <1>2, <2>4, <2>5, <2>6
<1>6. CASE ReadFails
  <2>1. /\ pc' = "frame" /\ screen' = "PROCESSES"
        /\ notice' \in Notices
        /\ reading' = Blank /\ goal' = NoGoal
    BY <1>6 DEF ReadFails, ReadFailed, Notices
  <2>2. Blank \in Detail /\ NoGoal \in Goal
    BY DEF Blank, Detail, Times, NoGoal, Goal, Screens, Immediate
  <2>3. TypeOK'
    BY <1>1, <2>1, <2>2 DEF TypeOK, KernelTypeOK, Screens
  <2>4. ReadInOrder' /\ ScreenIsOneInstance' /\ SendGuarded'
    BY <2>1 DEF ReadInOrder, ScreenIsOneInstance, SendGuarded
  <2> QED
    BY <1>2, <2>3, <2>4
<1> QED
    BY <1>3, <1>4, <1>5, <1>6

\* The end of process_detail_read and its callers' test.  The selected instance
\* had the PID before the status was read and still had it when the start time
\* was: what was read between belongs to it.
LEMMA CmdlineIInv == IInv /\ ReadCmdline => IInv'
<1> SUFFICES ASSUME IInv, ReadCmdline
             PROVE  IInv'
    OBVIOUS
<1>1. PICK command \in {reading.name} \cup {last[p] : p \in {q \in {reading.pid} : alive[q]}} :
         LET detail == [reading EXCEPT !.command = command]
         IN  IF SameStart(detail)
             THEN /\ selected_detail' = detail
                  /\ screen' = goal.to
                  /\ pc' = IF goal.by = "refresh" THEN "key" ELSE "frame"
                  /\ UNCHANGED notice
             ELSE /\ selected_detail' = IF goal.by = "open" THEN detail ELSE selected_detail
                  /\ ReadFailed
    BY DEF ReadCmdline
<1> USE DEF IInv, ui, sel, listing, call, kernel
<1> DEFINE detail == [reading EXCEPT !.command = command]
<1>2. /\ pc = "cmdline"
      /\ UNCHANGED <<kernel, rows, found, todo, ui, sel, sent>>
      /\ reading' = Blank /\ goal' = NoGoal
    BY DEF ReadCmdline
<1>3. /\ detail \in Detail
      /\ detail.pid = reading.pid /\ detail.name = reading.name /\ detail.starttime = reading.starttime
  <2>1. command \in Times
    <3>1. reading.name \in Times /\ reading.pid \in Pids
      BY <1>2 DEF TypeOK, Detail, ReadInOrder
    <3>2. CASE command = reading.name
      BY <3>1, <3>2
    <3>3. CASE command = last[reading.pid]
      BY <3>1, <3>3 DEF TypeOK, KernelTypeOK, Times
    <3> QED
      BY <3>2, <3>3
  <2> QED
    BY <2>1 DEF TypeOK, Detail
<1>4. Blank \in Detail /\ NoGoal \in Goal
    BY DEF Blank, Detail, Times, NoGoal, Goal, Screens, Immediate
<1>5. goal.to \in Screens /\ rows = << >>
    BY <1>2 DEF TypeOK, Goal, HighlightIsSelection
<1>6. RowsKnown' /\ HighlightIsSelection' /\ SignalledWasNamed'
    BY <1>2, <1>5 DEF RowsKnown, HighlightIsSelection, SignalledWasNamed
<1>7. CASE SameStart(detail)
  <2>1. /\ selected_detail' = detail /\ screen' = goal.to /\ UNCHANGED notice
        /\ pc' = IF goal.by = "refresh" THEN "key" ELSE "frame"
    BY <1>1, <1>7
  <2>2. TypeOK'
    BY <1>2, <1>3, <1>4, <1>5, <2>1 DEF TypeOK, KernelTypeOK
  <2>3. /\ detail.pid \in Pids /\ detail.pid = selected_pid
        /\ detail.starttime = selected_starttime
        /\ detail.name = selected_starttime
    <3>1. /\ reading.pid \in Pids /\ reading.pid = selected_pid
          /\ reading.name \in Int /\ reading.starttime \in Int /\ selected_starttime \in Int
          /\ selected_starttime <= reading.name /\ reading.name <= reading.starttime
      BY <1>2, StartAssumption DEF ReadInOrder, TypeOK, Starts
    <3>2. reading.starttime = selected_starttime
      BY <1>3, <1>7 DEF SameStart
    <3> QED
      BY <1>3, <3>1, <3>2
  <2>4. ReadInOrder' /\ ScreenIsOneInstance' /\ SendGuarded'
    BY <1>2, <2>1, <2>3 DEF ReadInOrder, ScreenIsOneInstance, SendGuarded
  <2> QED
    BY <1>6, <2>2, <2>4
<1>8. CASE ~SameStart(detail)
  <2>1. /\ selected_detail' \in Detail /\ screen' = "PROCESSES" /\ pc' = "frame"
        /\ notice' \in Notices
    BY <1>1, <1>3, <1>8 DEF ReadFailed, TypeOK, Notices
  <2>2. TypeOK'
    BY <1>2, <1>4, <2>1 DEF TypeOK, KernelTypeOK, Screens
  <2>3. ReadInOrder' /\ ScreenIsOneInstance' /\ SendGuarded'
    BY <2>1 DEF ReadInOrder, ScreenIsOneInstance, SendGuarded
  <2> QED
    BY <1>6, <2>2, <2>3
<1> QED
    BY <1>7, <1>8

\* The confirmed signal.
LEMMA SendIInv == IInv /\ (KeyYes \/ SendCheck \/ SendKill) => IInv'
<1> SUFFICES ASSUME IInv, KeyYes \/ SendCheck \/ SendKill
             PROVE  IInv'
    OBVIOUS
<1> USE DEF IInv, ui, sel, listing, call, kernel
<1>1. /\ UNCHANGED <<kernel, found, todo, selected_detail, ui, sel, reading, goal>>
      /\ rows' = << >>
      /\ screen \in Confirms
      /\ screen' = screen \/ screen' = "PROCESSES"
      /\ pc' \in {"frame", "check", "kill"}
      /\ pc' # "frame" => screen' = screen
      /\ pc \in {"key", "check", "kill"}
      /\ notice' \in Notices
    BY DEF KeyYes, SendCheck, SendKill, KeyOn, GoTo, SignalResult, SendGuarded,
           HighlightIsSelection, TypeOK, Notices
<1>2. /\ selected_detail.pid \in Pids
      /\ selected_detail.pid = selected_pid
      /\ selected_detail.starttime = selected_starttime
      /\ selected_detail.name = selected_starttime
    BY <1>1 DEF ScreenIsOneInstance, DetailBased
<1>3. RowsKnown' /\ HighlightIsSelection' /\ ReadInOrder'
    BY <1>1, NoRows DEF RowsKnown, HighlightIsSelection, ReadInOrder
<1>4. ScreenIsOneInstance'
    BY <1>1, <1>2 DEF ScreenIsOneInstance
<1>5. SendGuarded'
  <2>1. screen # "PROCESSES" /\ sent = Nothing
    BY <1>1 DEF SendGuarded, Confirms
  <2>2. CASE pc' = "frame"
    <3>1. sent' # Nothing => screen' = "PROCESSES"
      BY <2>1, <2>2 DEF KeyYes, SendCheck, SendKill, GoTo, SignalResult, KeyOn
    <3> QED
      BY <2>2, <3>1 DEF SendGuarded
  <2>3. CASE pc' # "frame"
    BY <1>1, <2>1, <2>3 DEF SendGuarded, KeyYes, SendCheck, SendKill, GoTo, SignalResult, KeyOn
  <2> QED
    BY <2>2, <2>3
<1>6. sent' = sent \/ /\ sent' \in Signal
                      /\ sent'.name = selected_starttime
                      /\ sent'.starttime = selected_starttime
                      /\ sent'.pid = selected_pid
                      /\ sent'.hit = last[selected_pid]
                      /\ pc = "kill"
  <2>1. CASE KeyYes \/ SendCheck
    BY <2>1 DEF KeyYes, SendCheck, KeyOn
  <2>2. CASE SendKill
    BY <2>2, <1>2 DEF SendKill, Signal, Requested, TypeOK, KernelTypeOK, Times
  <2> QED
    BY <2>1, <2>2
<1>7. TypeOK'
    BY <1>1, <1>6 DEF TypeOK, KernelTypeOK, Screens
<1>8. SignalledWasNamed'
  <2>1. selected_pid # 0 /\ selected_starttime <= last[selected_pid]
    BY <1>2, PidsAssumption DEF RowsKnown
  <2>2. pc = "kill" => selected_pid # Self /\ selected_starttime # 0
    BY <1>2 DEF SendGuarded
  <2> QED
    BY <1>6, <2>1, <2>2 DEF SignalledWasNamed
<1> QED
    BY <1>3, <1>4, <1>5, <1>7, <1>8

\* No step leaves the invariant.
LEMMA NextIInv == IInv /\ [Next]_vars => IInv'
<1> SUFFICES ASSUME IInv, [Next]_vars PROVE IInv'
    OBVIOUS
<1>1. CASE Next
    BY <1>1, KernelIInv, QuietIInv, ScanIInv, ShowIInv, RowKeysIInv, ReadIInv, CmdlineIInv, SendIInv
    DEF Next, Work, Key
<1>2. CASE UNCHANGED vars
    BY <1>2 DEF vars, kernel, ui, sel, listing, call, IInv, TypeOK, KernelTypeOK, RowsKnown,
        HighlightIsSelection, IsSelected, ReadInOrder, ScreenIsOneInstance, SendGuarded, SignalledWasNamed
<1> QED
    BY <1>1, <1>2

\* The inductive invariant holds in every reachable state, for any number of PIDs
\* and any start times: the other theorems are read off it.
THEOREM Invariance == Spec => []IInv
BY InitIInv, NextIInv, PTL DEF Spec

\* Type correctness of the process screens.
THEOREM TypeCorrect == Spec => []TypeOK
<1>1. IInv => TypeOK
    BY DEF IInv
<1> QED
    BY Invariance, <1>1, PTL

\* What waits for an answer on screen is one process.
THEOREM OneInstanceShown == Spec => []ScreenIsOneInstance
<1>1. IInv => ScreenIsOneInstance
    BY DEF IInv
<1> QED
    BY Invariance, <1>1, PTL

\* A delivered signal was asked for under the name the user was shown.
THEOREM SignalsNamed == Spec => []SignalledWasNamed
<1>1. IInv => SignalledWasNamed
    BY DEF IInv
<1> QED
    BY Invariance, <1>1, PTL

\* The keys that act on a row act on the highlighted one.
THEOREM HighlightRight == Spec => []HighlightIsSelection
<1>1. IInv => HighlightIsSelection
    BY DEF IInv
<1> QED
    BY Invariance, <1>1, PTL

\* The notice after a confirmed signal is what happened.
THEOREM NoticesTrue == Spec => NoticeIsTrue
<1>1. IInv /\ [Next]_vars =>
        [ pc' = "frame" /\ pc \in {"check", "kill"} =>
          /\ (notice' = "OK") = (sent' # Nothing)
          /\ notice' # "REUSED" \/ selected_detail.starttime < last[selected_detail.pid] ]_vars
  <2> SUFFICES ASSUME IInv, Next, pc' = "frame", pc \in {"check", "kill"}
               PROVE  /\ (notice' = "OK") = (sent' # Nothing)
                      /\ notice' # "REUSED" \/ selected_detail.starttime < last[selected_detail.pid]
      OBVIOUS
  <2>1. SendCheck \/ SendKill
    BY DEF Next, Work, Key, Kernel, ShowImmediate, ListBegin, ScanStatus, ScanStat, ScanSkip,
       ShowList, ListFails, RefreshBegin, ReadStatus, ReadStat, ReadFails, ReadCmdline, Leave,
       PollTimeout, KeyIgnored, KeyQuit, KeyError, KeyBack, KeyProcesses, KeyLearn, KeyTopic,
       KeySort, KeyMove, KeyOpen, KeySearch, KeyEdit, KeyApply, KeyExplain, KeyConfirm, KeyYes, KeyOn
  <2>2. sent = Nothing
    BY DEF IInv, SendGuarded
  <2>3. /\ selected_detail.pid \in Pids
        /\ selected_detail.starttime \in Starts
        /\ selected_detail.starttime <= last[selected_detail.pid]
    BY PidsAssumption DEF IInv, TypeOK, SendGuarded, ScreenIsOneInstance, DetailBased, RowsKnown
  <2>4. CASE SendCheck
    <3>1. notice' # "OK" /\ sent' = sent
      BY <2>4 DEF SendCheck, SignalResult
    <3>2. notice' = "REUSED" => Reused(selected_detail.pid, selected_detail.starttime)
      BY <2>4 DEF SendCheck, SignalResult
    <3>3. last[selected_detail.pid] \in Int /\ selected_detail.starttime \in Int
      BY <2>3, StartAssumption DEF IInv, TypeOK, KernelTypeOK, Starts, Never
    <3> QED
      BY <2>2, <2>3, <3>1, <3>2, <3>3 DEF Reused
  <2>5. CASE SendKill
    <3>1. notice' # "REUSED"
      BY <2>5 DEF SendKill, SignalResult
    <3>2. selected_detail.pid # 0
      BY <2>3, PidsAssumption
    <3> QED
      BY <2>2, <2>5, <3>1, <3>2 DEF SendKill, SignalResult, Nothing
  <2> QED
    BY <2>1, <2>4, <2>5
<1> QED
    BY <1>1, Invariance, PTL DEF Spec, NoticeIsTrue

\* align_selection moves the selection only when its row is not in the list.
LEMMA AlignSticks ==
    ASSUME NEW list \in Seq(Row), TypeOK, align_selection(list), selected_pid # 0,
           <<selected_pid', selected_starttime'>> # <<selected_pid, selected_starttime>>
    PROVE  \A r \in Range(list) : r.pid # selected_pid \/ r.starttime # selected_starttime
<1>1. CASE list = << >>
    BY <1>1, NoRows
<1>2. CASE list # << >>
  <2>1. selected_pid > 0
    BY PidsAssumption DEF TypeOK
  <2>2. {i \in DOMAIN list : IsSelected(list, i)} = {}
    BY <1>2, <2>1 DEF align_selection
  <2> QED
    BY <2>2 DEF IsSelected, Range
<1> QED
    BY <1>1, <1>2

\* The selection stays on the same process as long as a frame's list has it.
THEOREM SelectionStays == Spec => SelectionSticks
<1>1. ASSUME IInv, [Next]_vars, selected_pid # 0, pc # "key",
             <<selected_pid', selected_starttime'>> # <<selected_pid, selected_starttime>>
      PROVE  \A r \in Range(rows') : r.pid # selected_pid \/ r.starttime # selected_starttime
  <2>1. ShowList \/ ListFails
    BY <1>1 DEF Next, vars, sel, Work, Key, Kernel, ShowImmediate, ListBegin, ScanStatus, ScanStat,
       ScanSkip, RefreshBegin, ReadStatus, ReadStat, ReadFails, ReadCmdline, Leave, PollTimeout,
       KeyIgnored, KeyQuit, KeyError, KeyBack, KeyProcesses, KeyLearn, KeyTopic, KeySort, KeyMove,
       KeyOpen, KeySearch, KeyEdit, KeyApply, KeyExplain, KeyConfirm, KeyYes, KeyOn, SendCheck, SendKill
  <2>2. CASE ListFails
    BY <2>2, NoRows DEF ListFails
  <2>3. CASE ShowList
    <3>1. PICK list \in Listings : rows' = list /\ align_selection(list)
      BY <2>3 DEF ShowList
    <3>2. list \in Seq(Row)
      BY <1>1, <3>1, ListingRows DEF IInv, TypeOK, RowsKnown
    <3> QED
      BY <1>1, <3>1, <3>2, AlignSticks DEF IInv
  <2> QED
    BY <2>1, <2>2, <2>3
<1>2. IInv /\ [Next]_vars =>
        [ selected_pid # 0 /\ <<selected_pid', selected_starttime'>> # <<selected_pid, selected_starttime>>
          => \/ pc = "key"
             \/ \A r \in Range(rows') :
                    r.pid # selected_pid \/ r.starttime # selected_starttime ]_vars
    BY <1>1
<1> QED
    BY <1>2, Invariance, PTL DEF Spec, SelectionSticks

-----------------------------------------------------------------------------
(* Refinement of GuardedSignal.                                            *)

\* Every step is a step of GuardedSignal or leaves its variables alone.
LEMMA StepIsGuarded ==
    IInv /\ IInv' /\ [Next]_vars => [Guarded!Next]_<<Asked, Delivered>>
<1> SUFFICES ASSUME IInv, IInv', Next
             PROVE  Guarded!Next \/ UNCHANGED <<Asked, Delivered>>
    BY DEF vars, Asked, Delivered, Requested, ui, sel, listing, call
<1> DEFINE Waiting == pc \in {"key", "check", "kill"} /\ screen \in Confirms
<1> USE DEF ui, sel, listing, call
<1>1. /\ Waiting => Asked = [pid |-> selected_detail.pid, start |-> selected_detail.name, signal |-> Requested]
      /\ ~Waiting => Asked = Guarded!Nobody
      /\ Waiting' => Asked' = [pid |-> selected_detail'.pid, start |-> selected_detail'.name,
                              signal |-> Requested']
      /\ ~Waiting' => Asked' = Guarded!Nobody
  <2>1. screen \in Confirms => (IF screen = "CONFIRM_TERM" THEN "SIGTERM" ELSE "SIGKILL") = Requested
    BY DEF Confirms, Requested
  <2>2. screen' \in Confirms => (IF screen' = "CONFIRM_TERM" THEN "SIGTERM" ELSE "SIGKILL") = Requested'
    BY DEF Confirms, Requested
  <2> QED
    BY <2>1, <2>2 DEF Asked, Nothing, Guarded!Nobody
<1>2. /\ Waiting => Asked \in Guarded!Request /\ Asked # Guarded!Nobody /\ sent = Nothing
      /\ Waiting' => Asked' \in Guarded!Request
    <2>1. Waiting => /\ selected_detail.pid \in Pids
                     /\ selected_detail.name \in Starts
                     /\ sent = Nothing
      BY DEF IInv, ScreenIsOneInstance, DetailBased, TypeOK, SendGuarded, Confirms
    <2>2. Waiting' => selected_detail'.pid \in Pids /\ selected_detail'.name \in Starts
      BY DEF IInv, ScreenIsOneInstance, DetailBased, TypeOK
    <2> QED
      BY <1>1, <2>1, <2>2, PidsAssumption DEF Guarded!Request, Guarded!Nobody, Requested
<1>3. ASSUME UNCHANGED sent PROVE UNCHANGED Delivered
    BY <1>3 DEF Delivered
<1>4. ASSUME sent' = Nothing PROVE Delivered' = Guarded!Nobody
    BY <1>4 DEF Delivered, Nothing, Guarded!Nobody
<1>5. CASE ~Waiting /\ ~Waiting'
  <2>1. UNCHANGED Asked
    BY <1>1, <1>5
  <2>2. UNCHANGED sent \/ sent' = Nothing
    BY <1>5 DEF Next, Work, Key, Kernel, ShowImmediate, ListBegin, ScanStatus, ScanStat, ScanSkip,
       ShowList, ListFails, RefreshBegin, ReadStatus, ReadStat, ReadFails, ReadCmdline, Leave,
       PollTimeout, KeyIgnored, KeyQuit, KeyError, KeyBack, KeyProcesses, KeyLearn, KeyTopic,
       KeySort, KeyMove, KeyOpen, KeySearch, KeyEdit, KeyApply, KeyExplain, KeyConfirm, KeyYes,
       KeyOn, SendCheck, SendKill, IInv, SendGuarded
  <2> QED
    BY <1>3, <1>4, <2>1, <2>2 DEF Guarded!Next, Guarded!Forget
<1>6. CASE ~Waiting /\ Waiting'
  <2>1. ReadCmdline
    <3>1. pc' \in {"key", "check", "kill"} /\ screen' \in Confirms
      BY <1>6
    <3>2. ~Kernel
      BY <1>6 DEF Kernel
    <3>3. ~(Leave \/ Key)
      BY <1>6, <3>1 DEF Leave, Key, Read, PollTimeout, KeyIgnored, KeyQuit, KeyError, KeyBack,
         KeyProcesses, KeyLearn, KeyTopic, KeySort, KeyMove, KeyOpen, KeySearch, KeyEdit,
         KeyApply, KeyExplain, KeyConfirm, KeyYes, KeyOn, GoTo
    <3>4. ~(ShowImmediate \/ ListBegin \/ ScanStatus \/ ScanStat \/ ScanSkip)
      BY <3>1 DEF ShowImmediate, ListBegin, ScanStatus, ScanStat, ScanSkip, Immediate, Confirms
    <3>5. ~(ShowList \/ ListFails)
      BY <3>1 DEF ShowList, ListFails, IInv, ReadInOrder, Confirms
    <3>6. ~(RefreshBegin \/ ReadStatus \/ ReadStat \/ ReadFails)
      BY <3>1 DEF RefreshBegin, ReadStatus, ReadStat, ReadFails, ReadFailed, Read
    <3>7. ~(SendCheck \/ SendKill)
      BY <1>6, <3>1 DEF SendCheck, SendKill, SignalResult, IInv, SendGuarded
    <3> QED
      BY <3>2, <3>3, <3>4, <3>5, <3>6, <3>7 DEF Next, Work
  <2>2. UNCHANGED sent
    BY <2>1 DEF ReadCmdline
  <2> QED
    BY <1>1, <1>2, <1>3, <1>6, <2>2 DEF Guarded!Next, Guarded!Ask
<1>7. CASE Waiting /\ ~Waiting'
  <2>1. CASE UNCHANGED sent
    BY <1>1, <1>2, <1>3, <1>7, <2>1 DEF Guarded!Next, Guarded!Withdraw
  <2>2. CASE ~UNCHANGED sent
    <3>1. SendKill
      BY <1>2, <1>7, <2>2 DEF Next, Work, Key, Kernel, ShowImmediate, ListBegin, ScanStatus, ScanStat, ScanSkip,
         ShowList, ListFails, RefreshBegin, ReadStatus, ReadStat, ReadFails, ReadCmdline, Leave,
         PollTimeout, KeyIgnored, KeyQuit, KeyError, KeyBack, KeyProcesses, KeyLearn, KeyTopic,
         KeySort, KeyMove, KeyOpen, KeySearch, KeyEdit, KeyApply, KeyExplain, KeyConfirm, KeyYes,
         KeyOn, SendCheck
    <3>2. /\ sent' = [pid |-> selected_detail.pid, hit |-> last[selected_detail.pid],
                      name |-> selected_detail.name,
                      starttime |-> selected_detail.starttime,
                      signal |-> Requested]
          /\ pc = "kill"
      BY <2>2, <3>1 DEF SendKill
    <3>3. /\ selected_detail.pid \in Pids /\ selected_detail.pid # Self
          /\ selected_detail.name = selected_detail.starttime
          /\ selected_detail.starttime # 0
      BY <1>7, <3>2 DEF IInv, ScreenIsOneInstance, SendGuarded, DetailBased
    <3>4. sent' # Nothing
      BY <3>2, <3>3, PidsAssumption DEF Nothing
    <3>5. Delivered' = Asked
      BY <1>1, <1>7, <3>2, <3>3, <3>4 DEF Delivered
    <3>6. Asked.pid # Self /\ Asked.start # 0
      BY <1>1, <1>7, <3>3
    <3> QED
      BY <1>1, <1>2, <1>7, <3>5, <3>6 DEF Guarded!Next, Guarded!Deliver
  <2> QED
    BY <2>1, <2>2
<1>8. CASE Waiting /\ Waiting'
  <2>1. UNCHANGED <<selected_detail, screen, sent>>
    BY <1>8 DEF Next, Work, Key, Kernel, ShowImmediate, ListBegin, ScanStatus, ScanStat, ScanSkip,
       ShowList, ListFails, RefreshBegin, ReadStatus, ReadStat, ReadFails, ReadCmdline, Leave, Read,
       PollTimeout, KeyIgnored, KeyQuit, KeyError, KeyBack, KeyProcesses, KeyLearn, KeyTopic,
       KeySort, KeyMove, KeyOpen, KeySearch, KeyEdit, KeyApply, KeyExplain, KeyConfirm, KeyYes,
       KeyOn, GoTo, SendCheck, SendKill, SignalResult
  <2> QED
    BY <1>1, <1>3, <1>8, <2>1 DEF Requested
<1> QED
    BY <1>5, <1>6, <1>7, <1>8

\* The process screens implement GuardedSignal.
THEOREM Refinement == Spec => SignalsAreGuarded
<1>1. Init => Guarded!Init
    BY DEF Init, Asked, Delivered, Guarded!Init, Guarded!Nobody, Nothing
<1> QED
    BY <1>1, Invariance, StepIsGuarded, PTL DEF Spec, SignalsAreGuarded, Guarded!Spec

\* Scrolling never loses the highlight: with 22 lines or more it is drawn, wherever
\* in a list of any length it is.
LEMMA HighlightDrawn ==
    ASSUME NEW height \in Nat, height >= 22,
           NEW count \in Nat, NEW highlight \in 0 .. count - 1
    PROVE  highlight \in Drawn(height, count, highlight)
BY DEF Drawn, FirstRow, Visible, about_row, table_row

\* In every frame of the process list the selected process, the one Enter and 'k'
\* act on, is among the rows on the screen, for all terminals of 22 lines or more.
THEOREM SelectionInView ==
    Spec => [](pc = "key" /\ screen = "PROCESSES" /\ rows # << >> =>
                 \A height \in Nat : height >= 22 =>
                    selected \in Drawn(height, Len(rows), selected))
<1>1. IInv => (pc = "key" /\ screen = "PROCESSES" /\ rows # << >> =>
                 \A height \in Nat : height >= 22 =>
                    selected \in Drawn(height, Len(rows), selected))
  <2> SUFFICES ASSUME IInv, pc = "key", screen = "PROCESSES", rows # << >>,
                      NEW height \in Nat, height >= 22
               PROVE  selected \in Drawn(height, Len(rows), selected)
      OBVIOUS
  <2>1. selected \in Nat /\ rows \in Seq(Row) /\ selected + 1 \in DOMAIN rows
    BY DEF IInv, TypeOK, HighlightIsSelection
  <2>2. Len(rows) \in Nat /\ selected \in 0 .. Len(rows) - 1
    BY <2>1
  <2> QED
    BY <2>2, HighlightDrawn
<1> QED
    BY Invariance, <1>1, PTL
=============================================================================
