---------------------------- MODULE FingerButton ----------------------------
(***************************************************************************)
(* The finger button driver (atom_irq/fingerbutton/fingerbutton.c): a      *)
(* level-triggered interrupt whose handler disables it and schedules a     *)
(* work item, and the work item that reports the press, waits for the      *)
(* release and enables the interrupt again.  The flag irq_enable is read   *)
(* and written by both without a lock, next to the kernel's own count of   *)
(* disables.  Handler and worker run on different CPUs and interleave;     *)
(* each step is one access of what they share.                             *)
(***************************************************************************)
EXTENDS Integers

CONSTANT PressDuringProbe   \* the button may go down before the probe returns

ASSUME FingerAssumption == PressDuringProbe \in BOOLEAN

VARIABLES
  pin,         \* level of BUTTON_PIN, "low": pressed
  probe,       \* progress of fingerbutton_probe
  depth,       \* kernel: how often the line is disabled (interrupt on: 0)
  irq_enable,  \* the driver's flag
  hpc,         \* the interrupt handler's program counter
  queued,      \* kernel: irq_work is pending
  wpc,         \* the work item's program counter
  reported,    \* argument of the last dwFPKeySys_button_down
  unseen       \* history: the pin went low and no press was reported since

vars == <<pin, probe, depth, irq_enable, hpc, queued, wpc, reported, unseen>>

ProbePcs   == {"start", "requested", "flagged", "done", "failed"}
HandlerPcs == {"none", "check", "disable", "clear", "schedule"}
WorkPcs    == {"none", "down", "poll", "up", "check", "enable", "set"}

TypeOK ==
  /\ pin \in {"low", "high"} /\ probe \in ProbePcs
  /\ depth \in Nat /\ irq_enable \in BOOLEAN
  /\ hpc \in HandlerPcs /\ queued \in BOOLEAN /\ wpc \in WorkPcs
  /\ reported \in {0, 1} /\ unseen \in BOOLEAN

Init ==
  /\ pin = "high" /\ probe = "start"
  /\ depth = 0 /\ irq_enable = FALSE
  /\ hpc = "none" /\ queued = FALSE /\ wpc = "none"
  /\ reported = 0 /\ unseen = FALSE

(***************************************************************************)
(* The button.                                                             *)
(***************************************************************************)
Press ==
  /\ pin = "high" /\ (probe = "done" \/ PressDuringProbe)
  /\ pin' = "low" /\ unseen' = TRUE
  /\ UNCHANGED <<probe, depth, irq_enable, hpc, queued, wpc, reported>>

Release ==
  /\ pin = "low" /\ pin' = "high"
  /\ UNCHANGED <<probe, depth, irq_enable, hpc, queued, wpc, reported, unseen>>

(***************************************************************************)
(* fingerbutton_probe: the interrupt is live before the flag is set and    *)
(* the flag is set before the work item exists.                            *)
(***************************************************************************)
RequestIrq ==
  /\ probe = "start" /\ probe' \in {"requested", "failed"}
  /\ UNCHANGED <<pin, depth, irq_enable, hpc, queued, wpc, reported, unseen>>

ProbeFlag ==
  /\ probe = "requested" /\ probe' = "flagged"
  /\ irq_enable' = TRUE
  /\ UNCHANGED <<pin, depth, hpc, queued, wpc, reported, unseen>>

InitWork ==
  /\ probe = "flagged" /\ probe' = "done"
  /\ queued' = FALSE
  /\ UNCHANGED <<pin, depth, irq_enable, hpc, wpc, reported, unseen>>

fingerbutton_probe == RequestIrq \/ ProbeFlag \/ InitWork

(***************************************************************************)
(* fingerbutton_irq_routing.                                               *)
(***************************************************************************)
\* The line is low, not disabled, and not being handled: the CPU takes it.
Interrupt ==
  /\ probe \notin {"start", "failed"}
  /\ pin = "low" /\ depth = 0 /\ hpc = "none"
  /\ hpc' = "check"
  /\ UNCHANGED <<pin, probe, depth, irq_enable, queued, wpc, reported, unseen>>

\* Mutant: the flag is not looked at, every interrupt is counted as a disable.
HandlerCheck_Always ==
  /\ hpc = "check"
  /\ hpc' = "disable"
  /\ UNCHANGED <<pin, probe, depth, irq_enable, queued, wpc, reported, unseen>>

HandlerCheck ==
  /\ hpc = "check"
  /\ hpc' = IF irq_enable THEN "disable" ELSE "schedule"
  /\ UNCHANGED <<pin, probe, depth, irq_enable, queued, wpc, reported, unseen>>

DisableNosync ==
  /\ hpc = "disable" /\ hpc' = "clear"
  /\ depth' = depth + 1
  /\ UNCHANGED <<pin, probe, irq_enable, queued, wpc, reported, unseen>>

HandlerClear ==
  /\ hpc = "clear" /\ hpc' = "schedule"
  /\ irq_enable' = FALSE
  /\ UNCHANGED <<pin, probe, depth, queued, wpc, reported, unseen>>

\* schedule_work on a work item that INIT_WORK has not set up yet is refused by
\* the work queue, with a warning.
ScheduleWork ==
  /\ hpc = "schedule" /\ hpc' = "none"
  /\ queued' = IF probe = "done" THEN TRUE ELSE queued
  /\ UNCHANGED <<pin, probe, depth, irq_enable, wpc, reported, unseen>>

fingerbutton_irq_routing ==
  HandlerCheck \/ DisableNosync \/ HandlerClear \/ ScheduleWork

(***************************************************************************)
(* fingerbutton_irq_work; an item runs on one CPU at a time and may be     *)
(* queued again while it runs.                                             *)
(***************************************************************************)
WorkStart ==
  /\ wpc = "none" /\ queued
  /\ queued' = FALSE /\ wpc' = "down"
  /\ UNCHANGED <<pin, probe, depth, irq_enable, hpc, reported, unseen>>

ReportDown ==
  /\ wpc = "down" /\ wpc' = "poll"
  /\ reported' = 1 /\ unseen' = FALSE
  /\ UNCHANGED <<pin, probe, depth, irq_enable, hpc, queued>>

Poll ==
  /\ wpc = "poll" /\ pin = "high" /\ wpc' = "up"
  /\ UNCHANGED <<pin, probe, depth, irq_enable, hpc, queued, reported, unseen>>

ReportUp ==
  /\ wpc = "up" /\ wpc' = "check"
  /\ reported' = 0
  /\ UNCHANGED <<pin, probe, depth, irq_enable, hpc, queued, unseen>>

\* Mutant: the interrupt is enabled whatever the flag says.
EnableCheck_Always ==
  /\ wpc = "check"
  /\ wpc' = "enable"
  /\ UNCHANGED <<pin, probe, depth, irq_enable, hpc, queued, reported, unseen>>

\* Mutant: the test of the flag is the wrong way round.
EnableCheck_Inverted ==
  /\ wpc = "check"
  /\ wpc' = IF irq_enable THEN "enable" ELSE "none"
  /\ UNCHANGED <<pin, probe, depth, irq_enable, hpc, queued, reported, unseen>>

EnableCheck ==
  /\ wpc = "check"
  /\ wpc' = IF irq_enable THEN "none" ELSE "enable"
  /\ UNCHANGED <<pin, probe, depth, irq_enable, hpc, queued, reported, unseen>>

EnableIrq ==
  /\ wpc = "enable" /\ wpc' = "set"
  /\ depth' = depth - 1
  /\ UNCHANGED <<pin, probe, irq_enable, hpc, queued, reported, unseen>>

\* Mutant: the flag stays off after the interrupt was enabled.
EnableSet_Never ==
  /\ wpc = "set" /\ wpc' = "none"
  /\ UNCHANGED <<pin, probe, depth, irq_enable, hpc, queued, reported, unseen>>

EnableSet ==
  /\ wpc = "set" /\ wpc' = "none"
  /\ irq_enable' = TRUE
  /\ UNCHANGED <<pin, probe, depth, hpc, queued, reported, unseen>>

fingerbutton_irq_work ==
  \/ WorkStart \/ ReportDown \/ Poll \/ ReportUp
  \/ EnableCheck \/ EnableIrq \/ EnableSet

Next == \/ Press \/ Release \/ fingerbutton_probe
        \/ Interrupt \/ fingerbutton_irq_routing \/ fingerbutton_irq_work

Spec == Init /\ [][Next]_vars

\* The CPU takes a pending interrupt, and handler and worker, which run on CPUs
\* of their own, go on.  Nobody is obliged to press or to let go.
Fairness ==
  /\ WF_vars(fingerbutton_probe)
  /\ WF_vars(Interrupt) /\ WF_vars(fingerbutton_irq_routing)
  /\ WF_vars(fingerbutton_irq_work)

FairSpec == Spec /\ Fairness

(***************************************************************************)
(* Properties.                                                             *)
(***************************************************************************)
\* The flag that handler (77-81) and worker (59-63) share without a lock never
\* disagrees with the kernel's count outside the two windows 79-80 and 61-62,
\* so no disable is doubled and no enable is unbalanced.
FlagTracksDepth ==
  probe \in {"flagged", "done"} =>
    depth = IF hpc = "clear" \/ (~irq_enable /\ wpc # "set") THEN 1 ELSE 0

\* A disabled interrupt always has a handler or work item that will enable it,
\* also when the handler ran while an earlier work item was finishing.
SomeoneEnables ==
  probe = "done" /\ depth > 0 =>
    hpc # "none" \/ queued \/ wpc \in WorkPcs \ {"none", "set"}

\* A button held down is reported as pressed.
HeldIsReported ==
  (pin = "low" /\ probe = "done") ~> (reported = 1 \/ pin = "high")

\* Once the button is left alone the release has been reported and the
\* interrupt is on again, whatever handlers and work items overlapped.
ButtonRests ==
  (<>[](pin = "high") /\ <>(probe = "done"))
     => <>[](depth = 0 /\ irq_enable /\ reported = 0)

\* "The interrupt is on by default after a successful registration" (141).
ProbeLeavesIrqOn ==
  probe = "done" /\ hpc = "none" /\ ~queued /\ wpc = "none" => depth = 0

\* "Report the button press here" (96): a press is reported only if the button
\* went down since the last report.
PressIsReal == [][reported = 0 /\ reported' = 1 => unseen]_vars
==============================================================================
