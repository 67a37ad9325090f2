--------------------------- MODULE LifecycleProofs ---------------------------
EXTENDS Lifecycle, TLAPS

\* No step of the program, and no signal, leaves the invariant.
LEMMA StepKeepsLInv == LInv /\ [Next]_vars => LInv'
<1> SUFFICES ASSUME LInv, [Next]_vars PROVE LInv'
    OBVIOUS
<1> USE DEF LInv, modes, Return, Ended, Setup
<1>1. CASE InstallHandlers
  <2>1. disposition' \in [StopSignals -> {"default", "handle_stop"}]
    BY <1>1 DEF InstallHandlers
  <2> QED
    BY <1>1, <2>1 DEF InstallHandlers, TypeOK, ModesTracked, ExitRestoresTerminal
<1>2. CASE RegisterCleanup
  BY <1>2 DEF RegisterCleanup, TypeOK, ModesTracked, ExitRestoresTerminal
<1>3. CASE EnterRaw
  <2>1. cleanup
    BY <1>3 DEF EnterRaw, ModesTracked
  <2>2. failed = {}
    BY <1>3 DEF EnterRaw, ModesTracked
  <2>3. CASE SetRaw /\ pc' = "raw_mode" /\ UNCHANGED status
    BY <1>3, <2>1, <2>2, <2>3 DEF EnterRaw, SetRaw, TypeOK, ModesTracked, ExitRestoresTerminal
  <2>4. CASE Return(1) /\ UNCHANGED <<raw, active>>
    BY <1>3, <2>1, <2>2, <2>4 DEF EnterRaw, TypeOK, ModesTracked, ExitRestoresTerminal
  <2> QED
    BY <1>3, <2>3, <2>4 DEF EnterRaw
<1>4. CASE EnterScreen
  BY <1>4 DEF EnterScreen, TypeOK, ModesTracked, ExitRestoresTerminal
<1>5. CASE Loop
  BY <1>5 DEF Loop, LoopTest, TypeOK, ModesTracked, ExitRestoresTerminal
<1>6. CASE Frame
  BY <1>6 DEF Frame, TypeOK, ModesTracked, ExitRestoresTerminal, Screens, Timed, Sampling
<1>7. CASE Sampled
  BY <1>7 DEF Sampled, TypeOK, ModesTracked, ExitRestoresTerminal
<1>8. CASE RestoreModes \/ ExitProcess
  <2>1. CASE RestoreModes
    <3>1. failed = {} /\ cleanup /\ (alternate => terminal_active)
      BY <2>1 DEF RestoreModes, ModesTracked
    <3>2. raw' \in BOOLEAN /\ failed' \subseteq {"tcsetattr", "write"}
      BY <2>1 DEF RestoreModes, TypeOK
    <3>3. TypeOK' /\ ExitRestoresTerminal'
      BY <2>1, <3>2 DEF RestoreModes, TypeOK, ExitRestoresTerminal
    <3>4. raw' => "tcsetattr" \in failed'
      BY <2>1 DEF RestoreModes, ModesTracked
    <3>5. ModesTracked'
      BY <2>1, <3>1, <3>4 DEF RestoreModes, ModesTracked
    <3> QED
      BY <3>3, <3>5
  <2>2. CASE ExitProcess
    <3>1. TypeOK'
      BY <2>2 DEF ExitProcess, LeaveScreen, WriteLeave, TypeOK
    <3>2. ModesTracked' /\ ExitRestoresTerminal'
      BY <2>2 DEF ExitProcess, LeaveScreen, WriteLeave, TypeOK, ModesTracked, ExitRestoresTerminal
    <3> QED
      BY <3>1, <3>2
  <2> QED
    BY <1>8, <2>1, <2>2
<1>9. CASE PollTimeout
  BY <1>9 DEF PollTimeout, TypeOK, ModesTracked, ExitRestoresTerminal
<1>10. CASE KeyPressed
  <2>1. screen' \in Screens
    BY <1>10 DEF KeyPressed, TypeOK, Leads, Screens, Timed, Sampling
  <2>2. late_keys' \in 0 .. MaxKeys
    BY <1>10, MaxKeysAssumption DEF KeyPressed, TypeOK
  <2> QED
    BY <1>10, <2>1, <2>2 DEF KeyPressed, TypeOK, ModesTracked, ExitRestoresTerminal
<1>11. CASE Quit
  BY <1>11 DEF Quit, TypeOK, ModesTracked, ExitRestoresTerminal
<1>12. CASE \E s \in StopSignals : SignalArrives(s)
  <2>1. PICK s \in StopSignals : SignalArrives(s)
    BY <1>12
  <2>2. disposition' \in [StopSignals -> {"default", "handle_stop"}]
    BY <2>1 DEF SignalArrives, TypeOK
  <2> QED
    BY <2>1, <2>2 DEF SignalArrives, Interrupted, TypeOK, ModesTracked, ExitRestoresTerminal
<1>13. CASE UNCHANGED vars
  BY <1>13 DEF vars, TypeOK, ModesTracked, ExitRestoresTerminal
<1> QED
  BY <1>1, <1>2, <1>3, <1>4, <1>5, <1>6, <1>7, <1>8, <1>9, <1>10, <1>11, <1>12, <1>13
  DEF Next, Program

\* The flags of restore_terminal follow the terminal's modes until one of its own
\* calls fails.
THEOREM LifecycleInvariance == Spec => []LInv
<1>1. Init => LInv
  <2> SUFFICES ASSUME Init PROVE LInv
      OBVIOUS
  <2>1. late_keys \in 0 .. MaxKeys
    BY MaxKeysAssumption DEF Init
  <2>2. disposition \in [StopSignals -> {"default", "handle_stop"}]
    BY DEF Init
  <2>3. ModesTracked /\ ExitRestoresTerminal
    BY DEF Init, ModesTracked, ExitRestoresTerminal, Ended
  <2> QED
    BY <2>1, <2>2, <2>3 DEF Init, LInv, TypeOK, Setup, Ended, Screens, Timed, Sampling
<1> QED
    BY <1>1, StepKeepsLInv, PTL DEF Spec

\* However the program came to it, exit() leaves behind only what a failing call of
\* the exit handler itself could not undo.
THEOREM TerminalRestored == Spec => []ExitRestoresTerminal
<1>1. LInv => ExitRestoresTerminal
    BY DEF LInv
<1> QED
    BY LifecycleInvariance, <1>1, PTL

\* Why a stop is not delayed by more than one key: while the loop has not looked at
\* the flag again, no key has been counted.
CountedOnce ==
    /\ ~stop_requested \/ pc \in {"frame", "sample", "poll"} => late_keys = 0
    /\ OneKeyAfterStop

\* Every step keeps the count right: a key leads back to the loop's test, and the
\* test passes only without a stop request.
LEMMA StepCountsOnce == LInv /\ CountedOnce /\ [Next]_vars => CountedOnce'
<1> SUFFICES ASSUME LInv, CountedOnce, [Next]_vars PROVE CountedOnce'
    OBVIOUS
<1> USE DEF LInv, TypeOK, CountedOnce, OneKeyAfterStop, Return
<1>1. CASE Program
  <2>1. CASE InstallHandlers \/ RegisterCleanup \/ EnterRaw \/ EnterScreen \/ RestoreModes \/ ExitProcess
    BY <2>1 DEF InstallHandlers, RegisterCleanup, EnterRaw, EnterScreen, RestoreModes, ExitProcess
  <2>2. CASE Loop
    BY <2>2 DEF Loop, LoopTest
  <2>3. CASE Frame \/ Sampled
    BY <2>3 DEF Frame, Sampled
  <2> QED
    BY <1>1, <2>1, <2>2, <2>3 DEF Program
<1>2. CASE PollTimeout \/ Quit
  BY <1>2 DEF PollTimeout, Quit
<1>3. CASE KeyPressed
  <2>1. stop_requested' = stop_requested /\ pc' = "loop" /\ late_keys = 0
    BY <1>3 DEF KeyPressed
  <2>2. late_keys' = IF stop_requested THEN 1 ELSE 0
    BY <1>3, <2>1, MaxKeysAssumption DEF KeyPressed
  <2> QED
    BY <2>1, <2>2
<1>4. CASE \E s \in StopSignals : SignalArrives(s)
  <2>1. PICK s \in StopSignals : SignalArrives(s)
    BY <1>4
  <2> QED
    BY <2>1 DEF SignalArrives, Interrupted
<1>5. CASE UNCHANGED vars
  BY <1>5 DEF vars
<1> QED
  BY <1>1, <1>2, <1>3, <1>4, <1>5 DEF Next

\* After a stop request at most one more key is acted on, whatever was typed ahead.
THEOREM StopNotDelayed == Spec => []OneKeyAfterStop
<1>1. Init => CountedOnce
    BY DEF Init, CountedOnce, OneKeyAfterStop
<1>2. CountedOnce => OneKeyAfterStop
    BY DEF CountedOnce
<1> QED
    BY <1>1, <1>2, StepCountsOnce, LifecycleInvariance, PTL DEF Spec
=============================================================================
