---------------------------- MODULE OverviewProofs ----------------------------
EXTENDS Overview, TLAPS

\* The values a sample may bring are numbers.
LEMMA ViewValues ==
    TypeOK => /\ view.cpu \in 0 .. 100 /\ view.memory \in 0 .. 100 /\ view.disk \in 0 .. 100
              /\ view.host_ok \in BOOLEAN
              /\ view.load1 \in Nat /\ view.thermal_c \in Int
<1> SUFFICES ASSUME TypeOK
             PROVE  /\ view.cpu \in 0 .. 100 /\ view.memory \in 0 .. 100 /\ view.disk \in 0 .. 100
                    /\ view.host_ok \in BOOLEAN
                    /\ view.load1 \in Nat /\ view.thermal_c \in Int
    OBVIOUS
<1>1. CASE view \in View
  <2>1. Temps \cup {NoTemp} \subseteq Int
    BY ValuesAssumption DEF NoTemp
  <2>2. /\ view.cpu \in Percents /\ view.memory \in Percents /\ view.disk \in Percents
        /\ view.host_ok \in BOOLEAN
        /\ view.load1 \in Loads /\ view.thermal_c \in Temps \cup {NoTemp}
    BY <1>1 DEF View
  <2> QED
    BY <2>1, <2>2, ValuesAssumption
<1>2. CASE view = Zeroed
  BY <1>2 DEF Zeroed, NoTemp
<1> QED
  BY <1>1, <1>2 DEF TypeOK

\* Turning the pages of the lessons goes round and never leaves their table.
LEMMA TurnStaysInside ==
    ASSUME lesson \in 0 .. TEACH_COUNT - 1
    PROVE  Neighbours \subseteq 0 .. TEACH_COUNT - 1
BY DEF Neighbours, TEACH_COUNT

\* A diagnosis names a lesson of the table.
LEMMA LessonInside == diagnosis_lesson \in 0 .. TEACH_COUNT - 1
BY DEF diagnosis_lesson, Concepts, TEACH_COUNT

\* The inductive invariant: the menu's highlight goes along with the topic.
OInv == TypeOK /\ MenuFollowsTopic

\* A key that leads from one screen to another changes nothing else of the view.
LEMMA StepKeepsOInv == OInv /\ [Next]_vars => OInv'
<1> SUFFICES ASSUME OInv, [Next]_vars PROVE OInv'
    OBVIOUS
<1> USE DEF OInv, menu, Press, Screens, MenuFollowsTopic
<1>1. CASE Refresh
  BY <1>1 DEF Refresh, TypeOK
<1>2. CASE Draw \/ KeyOther \/ KeyProcesses \/ Quit
  BY <1>2 DEF Draw, KeyOther, KeyProcesses, Quit, TypeOK
<1>3. CASE KeyExplain
  BY <1>3, LessonInside DEF KeyExplain, TypeOK
<1>4. CASE KeyLearn
  BY <1>4 DEF KeyLearn, TypeOK
<1>5. CASE KeyMove
  <2>1. learn_selected' \in 0 .. TEACH_COUNT - 1
    BY <1>5 DEF KeyMove, TypeOK, TEACH_COUNT
  <2> QED
    BY <1>5, <2>1 DEF KeyMove, TypeOK
<1>6. CASE KeyTopic
  BY <1>6 DEF KeyTopic, TypeOK
<1>7. CASE KeyTurn
  <2>1. lesson' \in 0 .. TEACH_COUNT - 1
    BY <1>7, TurnStaysInside DEF KeyTurn, TypeOK
  <2> QED
    BY <1>7, <2>1 DEF KeyTurn, FollowTopic, TypeOK
<1>8. CASE KeyBack
  BY <1>8 DEF KeyBack, TypeOK
<1>9. CASE UNCHANGED vars
  BY <1>9 DEF vars, TypeOK
<1> QED
  BY <1>1, <1>2, <1>3, <1>4, <1>5, <1>6, <1>7, <1>8, <1>9 DEF Next

\* The lesson and the highlight stay inside the table of lessons, and the highlight
\* on the topic on display, for any samples.
THEOREM OverviewInvariance == Spec => [](TypeOK /\ MenuFollowsTopic)
<1>1. Init => OInv
  <2>1. Concepts.TEACH_CPU \in 0 .. TEACH_COUNT - 1 /\ 0 \in 0 .. TEACH_COUNT - 1
    BY DEF Concepts, TEACH_COUNT
  <2> QED
    BY <2>1 DEF Init, OInv, TypeOK, MenuFollowsTopic, Screens
<1>2. OInv <=> TypeOK /\ MenuFollowsTopic
    BY DEF OInv
<1> QED
    BY <1>1, <1>2, StepKeepsOInv, PTL DEF Spec

\* Escape from a topic finds the menu's highlight on it.
THEOREM MenuFollows == Spec => []MenuFollowsTopic
BY OverviewInvariance, PTL

\* Whatever the numbers: overall_status is never HEALTHY above a constraint
\* diagnosis_build names, is CRITICAL exactly above the full disk, and calls for
\* ATTENTION above "Nothing looks constrained" only over the disk or the heat.
THEOREM JudgesAgree == Spec => []VerdictsAgree
<1>1. TypeOK => VerdictsAgree
    BY ViewValues DEF VerdictsAgree, focus, overall_status, load_ratio
<1> QED
    BY <1>1, OverviewInvariance, PTL
=============================================================================
