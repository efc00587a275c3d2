-------------------------- MODULE FingerButtonProofs --------------------------
(***************************************************************************)
(* Theorems about FingerButton.                                            *)
(***************************************************************************)
EXTENDS FingerButton, TLAPS

\* Each side changes depth and flag only after it read the flag in the one
\* state the other side cannot change: a set flag is cleared by the handler
\* alone, a clear one is set by the worker alone.
FlagOwned ==
  /\ hpc \in {"disable", "clear"} => irq_enable
  /\ wpc \in {"enable", "set"} => ~irq_enable

\* Nothing runs before its part of the probe.
Started ==
  /\ probe \in {"start", "failed"} => hpc = "none"
  /\ probe \in {"start", "requested", "failed"} => ~irq_enable /\ depth = 0
  /\ queued \/ wpc # "none" => probe = "done"

FlagInv == TypeOK /\ FlagOwned /\ Started /\ FlagTracksDepth

LEMMA InitFlagInv == Init => FlagInv
  <1> SUFFICES ASSUME Init PROVE FlagInv
    OBVIOUS
  <1>1. TypeOK
    BY DEF Init, TypeOK, ProbePcs, HandlerPcs, WorkPcs
  <1>2. FlagOwned /\ FlagTracksDepth
    BY DEF Init, FlagOwned, FlagTracksDepth
  <1>3. Started
    BY DEF Init, Started
  <1> QED BY <1>1, <1>2, <1>3 DEF FlagInv

LEMMA NextFlagInv == FlagInv /\ [Next]_vars => FlagInv'
  <1> SUFFICES ASSUME FlagInv, [Next]_vars PROVE FlagInv'
    OBVIOUS
  <1> USE DEF FlagInv, TypeOK, FlagOwned, Started, FlagTracksDepth, ProbePcs,
          HandlerPcs, WorkPcs
  <1>1. CASE Press \/ Release
    <2>1. TypeOK'
      BY <1>1 DEF Press, Release
    <2>2. UNCHANGED <<probe, depth, irq_enable, hpc, queued, wpc>>
      BY <1>1 DEF Press, Release
    <2> QED BY <2>1, <2>2
  <1>2. CASE RequestIrq
    BY <1>2 DEF RequestIrq
  <1>3. CASE ProbeFlag
    BY <1>3 DEF ProbeFlag
  <1>4. CASE InitWork
    BY <1>4 DEF InitWork
  <1>5. CASE Interrupt
    BY <1>5 DEF Interrupt
  <1>6. CASE HandlerCheck
    BY <1>6 DEF HandlerCheck
  <1>7. CASE DisableNosync
    BY <1>7 DEF DisableNosync
  <1>8. CASE HandlerClear
    BY <1>8 DEF HandlerClear
  <1>9. CASE ScheduleWork
    BY <1>9 DEF ScheduleWork
  <1>10. CASE WorkStart \/ ReportDown \/ Poll \/ ReportUp
    <2>1. CASE WorkStart
      BY <2>1 DEF WorkStart
    <2>2. CASE ReportDown
      <3>1. TypeOK'
        BY <2>2 DEF ReportDown
      <3>2. /\ UNCHANGED <<probe, depth, irq_enable, hpc, queued>>
            /\ wpc = "down" /\ wpc' = "poll"
        BY <2>2 DEF ReportDown
      <3> QED BY <3>1, <3>2
    <2>3. CASE Poll
      BY <2>3 DEF Poll
    <2>4. CASE ReportUp
      BY <2>4 DEF ReportUp
    <2> QED BY <1>10, <2>1, <2>2, <2>3, <2>4
  <1>11. CASE EnableCheck
    BY <1>11 DEF EnableCheck
  <1>12. CASE EnableIrq
    BY <1>12 DEF EnableIrq
  <1>13. CASE EnableSet
    BY <1>13 DEF EnableSet
  <1>14. CASE UNCHANGED vars
    BY <1>14 DEF vars
  <1> QED
    BY <1>1, <1>2, <1>3, <1>4, <1>5, <1>6, <1>7, <1>8, <1>9, <1>10, <1>11,
       <1>12, <1>13, <1>14
    DEF Next, fingerbutton_probe, fingerbutton_irq_routing,
        fingerbutton_irq_work

\* The variables keep their types; in particular enable_irq is never called on
\* a line that is not disabled (depth stays a natural number).
THEOREM TypeTheorem == Spec => []TypeOK
  <1>1. FlagInv => TypeOK
    BY DEF FlagInv
  <1> QED BY <1>1, InitFlagInv, NextFlagInv, PTL DEF Spec

\* The unlocked flag and the kernel's disable count agree outside the two
\* windows, with or without presses during the probe.
THEOREM FlagTheorem == Spec => []FlagTracksDepth
  <1>1. FlagInv => FlagTracksDepth
    BY DEF FlagInv
  <1> QED BY <1>1, InitFlagInv, NextFlagInv, PTL DEF Spec

\* Without presses during the probe no interrupt is handled before INIT_WORK.
Quiet == /\ probe # "done" => pin = "high" /\ hpc = "none"
         /\ probe = "flagged" => irq_enable

\* When the button is left alone until the probe has returned, a disabled
\* interrupt always has someone who will enable it.
THEOREM SomeoneTheorem == ~PressDuringProbe => (Spec => []SomeoneEnables)
  <1> SUFFICES ASSUME ~PressDuringProbe PROVE Spec => []SomeoneEnables
    OBVIOUS
  <1> DEFINE Inv == FlagInv /\ Quiet /\ SomeoneEnables
  <1>1. Init => Inv
    BY InitFlagInv DEF Init, Quiet, SomeoneEnables
  <1>2. Inv /\ [Next]_vars => Inv'
    <2> SUFFICES ASSUME Inv, [Next]_vars PROVE Quiet' /\ SomeoneEnables'
      BY NextFlagInv
    <2>1. Quiet'
      BY DEF FlagInv, TypeOK, Quiet, Next, vars, Press, Release,
         fingerbutton_probe, RequestIrq, ProbeFlag, InitWork, Interrupt,
         fingerbutton_irq_routing, HandlerCheck, DisableNosync, HandlerClear,
         ScheduleWork, fingerbutton_irq_work, WorkStart, ReportDown, Poll,
         ReportUp, EnableCheck, EnableIrq, EnableSet
    <2>2. SomeoneEnables'
      <3> USE DEF FlagInv, TypeOK, FlagOwned, Started, FlagTracksDepth,
              SomeoneEnables, Quiet, ProbePcs, HandlerPcs, WorkPcs
      <3>1. CASE Press \/ Release \/ UNCHANGED vars
        <4>1. UNCHANGED <<probe, depth, hpc, queued, wpc>>
          BY <3>1 DEF Press, Release, vars
        <4> QED BY <4>1
      <3>2. CASE fingerbutton_probe
        <4>1. probe # "done" /\ depth' = depth
          BY <3>2 DEF fingerbutton_probe, RequestIrq, ProbeFlag, InitWork
        <4>2. probe' = "done" => irq_enable /\ depth = 0
          BY <3>2, <4>1 DEF fingerbutton_probe, RequestIrq, ProbeFlag, InitWork
        <4> QED BY <4>1, <4>2
      <3>3. CASE Interrupt \/ fingerbutton_irq_routing
        BY <3>3 DEF Interrupt, fingerbutton_irq_routing, HandlerCheck,
           DisableNosync, HandlerClear, ScheduleWork
      <3>4. CASE fingerbutton_irq_work
        BY <3>4 DEF fingerbutton_irq_work, WorkStart, ReportDown, Poll,
           ReportUp, EnableCheck, EnableIrq, EnableSet
      <3> QED BY <3>1, <3>2, <3>3, <3>4 DEF Next
    <2> QED BY <2>1, <2>2
  <1> QED BY <1>1, <1>2, PTL DEF Spec
==============================================================================
