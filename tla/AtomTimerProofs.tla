--------------------------- MODULE AtomTimerProofs ---------------------------
(***************************************************************************)
(* Theorems about AtomTimer.                                               *)
(***************************************************************************)
EXTENDS AtomTimer, TLAPS

\* While an OFF is followed (it began calm and the timer did not expire), the
\* chain callback - work item - start is at rest and nobody is in an ON, so
\* timer_running still tells whether the timer is armed, and who is past
\* hrtimer_cancel, or found the flag clear, knows that it is not.
Undisturbed ==
  off # "no" =>
    /\ ~callback /\ ~queued /\ wpc = "none"
    /\ armed => timer_running
    /\ \A u \in Users : /\ upc[u] \notin OnPcs
                        /\ upc[u] \in {"offClear", "offPin"} => ~armed

HeldInv == TypeOK /\ Undisturbed /\ HeldDark

LEMMA InitHeldInv == Init => HeldInv
  <1> SUFFICES ASSUME Init PROVE HeldInv
    OBVIOUS
  <1>1. TypeOK
    <2>1. lit \in BOOLEAN /\ timer_running \in BOOLEAN
      BY DEF Init
    <2>2. armed \in BOOLEAN /\ callback \in BOOLEAN /\ queued \in BOOLEAN
      BY DEF Init
    <2> QED BY <2>1, <2>2 DEF Init, TypeOK
  <1>2. Undisturbed /\ HeldDark
    BY DEF Init, Undisturbed, HeldDark
  <1> QED BY <1>1, <1>2 DEF HeldInv

LEMMA NextTypeOK == TypeOK /\ [Next]_vars => TypeOK'
  <1> SUFFICES ASSUME TypeOK, [Next]_vars PROVE TypeOK'
    OBVIOUS
  <1> USE DEF TypeOK, OnPcs, OffPcs
  <1>1. CASE Expire \/ dw_fp_key_work \/ WorkStart
    BY <1>1 DEF Expire, dw_fp_key_work, WorkStart
  <1>2. CASE WorkPin
    <2>1. NextIndex \in 0 .. 10
      BY DEF NextIndex
    <2> QED BY <1>2, <2>1 DEF WorkPin, Level
  <1>3. CASE WorkFlag \/ WorkArm
    BY <1>3 DEF WorkFlag, WorkArm
  <1>4. ASSUME NEW u \in Users, On(u) \/ OnFlag(u) \/ OnArm(u) PROVE TypeOK'
    <2>1. lit' \in BOOLEAN
      BY <1>4 DEF On, OnFlag, OnArm
    <2> QED BY <1>4, <2>1 DEF On, OnFlag, OnArm
  <1>5. ASSUME NEW u \in Users, Off(u) \/ OffCheck(u) PROVE TypeOK'
    BY <1>5 DEF Off, OffCheck
  <1>6. ASSUME NEW u \in Users, OffCancel(u) \/ OffClear(u) \/ OffPin(u)
        PROVE TypeOK'
    BY <1>6 DEF OffCancel, OffClear, OffPin
  <1>7. CASE UNCHANGED vars
    BY <1>7 DEF vars
  <1> QED
    BY <1>1, <1>2, <1>3, <1>4, <1>5, <1>6, <1>7
    DEF Next, work_timeOutFunc, InCall

LEMMA NextHeldInv == HeldInv /\ [Next]_vars => HeldInv'
  <1> SUFFICES ASSUME HeldInv, [Next]_vars PROVE Undisturbed' /\ HeldDark'
    BY NextTypeOK DEF HeldInv
  <1> USE DEF HeldInv, TypeOK, Undisturbed, HeldDark, OnPcs, OffPcs
  <1>1. CASE Expire
    <2>1. off' = "no"
      BY <1>1 DEF Expire
    <2> QED BY <2>1
  <1>2. CASE dw_fp_key_work \/ work_timeOutFunc
    <2>1. off' = "no"
      BY <1>2 DEF dw_fp_key_work, work_timeOutFunc, WorkStart, WorkPin,
         WorkFlag, WorkArm
    <2> QED BY <2>1
  <1>3. ASSUME NEW u \in Users, On(u) \/ OnFlag(u) \/ OnArm(u)
        PROVE Undisturbed' /\ HeldDark'
    <2>1. off' = "no"
      BY <1>3 DEF On, OnFlag, OnArm
    <2> QED BY <2>1
  <1>4. ASSUME NEW u \in Users, Off(u) PROVE Undisturbed' /\ HeldDark'
    BY <1>4 DEF Off, Calm
  <1>5. ASSUME NEW u \in Users, OffCheck(u) PROVE Undisturbed' /\ HeldDark'
    BY <1>5 DEF OffCheck
  <1>6. ASSUME NEW u \in Users, OffCancel(u) PROVE Undisturbed' /\ HeldDark'
    BY <1>6 DEF OffCancel
  <1>7. ASSUME NEW u \in Users, OffClear(u) PROVE Undisturbed' /\ HeldDark'
    BY <1>7 DEF OffClear
  <1>8. ASSUME NEW u \in Users, OffPin(u) PROVE Undisturbed' /\ HeldDark'
    BY <1>8 DEF OffPin
  <1>9. CASE UNCHANGED vars
    BY <1>9 DEF vars
  <1> QED
    BY <1>1, <1>2, <1>3, <1>4, <1>5, <1>6, <1>7, <1>8, <1>9 DEF Next, InCall

\* The variables keep their types; the slot counter stays within a period.
THEOREM TypeTheorem == Spec => []TypeOK
  <1>1. Init => TypeOK
    BY InitHeldInv DEF HeldInv
  <1> QED BY <1>1, NextTypeOK, PTL DEF Spec

\* An OFF that begins while the timer waits, and during which it does not
\* expire, keeps the LED dark and the timer off until the next ON, for any
\* number of users.
THEOREM HeldTheorem == Spec => []HeldDark
  <1>1. HeldInv => HeldDark
    BY DEF HeldInv
  <1> QED BY <1>1, InitHeldInv, NextHeldInv, PTL DEF Spec
==============================================================================
