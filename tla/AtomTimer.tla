------------------------------ MODULE AtomTimer ------------------------------
(***************************************************************************)
(* The LED of the atom light driver, blinked in software: an hrtimer whose *)
(* callback only schedules a work item, and the work item that sets the    *)
(* pin and starts the timer again (atom_timer/atom_timer.c), under the ON  *)
(* and OFF requests of the users (atom_date/atom_date.c).  No lock orders  *)
(* the users, the callback and the work item; timer_running is all that    *)
(* OFF looks at.  Each step is one access of what they share.              *)
(***************************************************************************)
EXTENDS Integers

CONSTANT Users   \* callers of _atom_ioctl, which the kernel does not serialise

VARIABLES
  timer_running,  \* the driver's flag
  index,          \* the work item's static counter
  pin,            \* what was last selected: "low" or "high"
  armed,          \* kernel: work_timer is enqueued
  callback,       \* kernel: dw_fp_key_work is running
  queued,         \* kernel: workTimeOut is pending
  wpc,            \* the work item's program counter
  upc,            \* where the request of each user is
  off,            \* history: an OFF nothing interfered with, see Calm
  lit             \* history: the LED was started and no OFF came since

vars == <<timer_running, index, pin, armed, callback, queued, wpc, upc, off,
          lit>>

OnPcs  == {"onFlag", "onArm"}
OffPcs == {"offCheck", "offCancel", "offClear", "offPin"}

TypeOK ==
  /\ timer_running \in BOOLEAN /\ index \in 0 .. 10 /\ pin \in {"low", "high"}
  /\ armed \in BOOLEAN /\ callback \in BOOLEAN /\ queued \in BOOLEAN
  /\ wpc \in {"none", "pin", "flag", "arm"}
  /\ upc \in [Users -> {"idle"} \cup OnPcs \cup OffPcs]
  /\ off \in {"no", "trying", "held"} /\ lit \in BOOLEAN

\* After probe; the pin is what the boot loader left.
Init ==
  /\ timer_running = FALSE /\ index = 0 /\ pin \in {"low", "high"}
  /\ armed = FALSE /\ callback = FALSE /\ queued = FALSE
  /\ wpc = "none" /\ upc = [u \in Users |-> "idle"]
  /\ off = "no" /\ lit = FALSE

(***************************************************************************)
(* The timer and the work item.                                            *)
(***************************************************************************)
\* The timer expires; one CPU at a time runs its callback.
Expire ==
  /\ armed /\ ~callback
  /\ armed' = FALSE /\ callback' = TRUE
  /\ off' = IF off = "trying" THEN "no" ELSE off
  /\ UNCHANGED <<timer_running, index, pin, queued, wpc, upc, lit>>

\* The callback does not restart the timer.
dw_fp_key_work ==
  /\ callback
  /\ callback' = FALSE /\ queued' = TRUE
  /\ UNCHANGED <<timer_running, index, pin, armed, wpc, upc, off, lit>>

WorkStart ==
  /\ queued /\ wpc = "none"
  /\ queued' = FALSE /\ wpc' = "pin"
  /\ UNCHANGED <<timer_running, index, pin, armed, callback, upc, off, lit>>

\* Mutant: the counter is not reset.
NextIndex_NoReset == index + 1

NextIndex == (IF index = 10 THEN 0 ELSE index) + 1

Level(i) == IF i <= 8 THEN "low" ELSE "high"

\* Eight slots of a period are dark, two are light.
WorkPin ==
  /\ wpc = "pin" /\ wpc' = "flag"
  /\ index' = NextIndex
  /\ pin' = Level(NextIndex)
  /\ UNCHANGED <<timer_running, armed, callback, queued, upc, off, lit>>

\* timer_start, in the work item.
WorkFlag ==
  /\ wpc = "flag" /\ wpc' = "arm"
  /\ timer_running' = TRUE
  /\ UNCHANGED <<index, pin, armed, callback, queued, upc, off, lit>>

\* Mutant: the work item does not start the timer again.
WorkArm_Once ==
  /\ wpc = "arm" /\ wpc' = "none"
  /\ UNCHANGED <<timer_running, index, pin, armed, callback, queued, upc, off,
                 lit>>

WorkArm ==
  /\ wpc = "arm" /\ wpc' = "none"
  /\ armed' = TRUE
  /\ UNCHANGED <<timer_running, index, pin, callback, queued, upc, off, lit>>

work_timeOutFunc == WorkStart \/ WorkPin \/ WorkFlag \/ WorkArm

(***************************************************************************)
(* ATOM_WRITE_ON: timer_start.                                             *)
(***************************************************************************)
On(u) ==
  /\ upc[u] = "idle"
  /\ upc' = [upc EXCEPT ![u] = "onFlag"]
  /\ off' = "no"
  /\ UNCHANGED <<timer_running, index, pin, armed, callback, queued, wpc, lit>>

OnFlag(u) ==
  /\ upc[u] = "onFlag"
  /\ upc' = [upc EXCEPT ![u] = "onArm"]
  /\ timer_running' = TRUE
  /\ UNCHANGED <<index, pin, armed, callback, queued, wpc, off, lit>>

OnArm(u) ==
  /\ upc[u] = "onArm"
  /\ upc' = [upc EXCEPT ![u] = "idle"]
  /\ armed' = TRUE
  /\ lit' = (lit \/ \A v \in Users : upc[v] \notin OffPcs)
  /\ UNCHANGED <<timer_running, index, pin, callback, queued, wpc, off>>

(***************************************************************************)
(* ATOM_WRITE_OFF: timer_stop, then the pin.  Calm: the timer is not       *)
(* between its expiry and its next start, timer_running tells the truth    *)
(* and nobody else is in a request.  off follows an OFF that begins like   *)
(* that: "trying" until the timer expires (then "no") or the pin is set    *)
(* (then "held"); the next ON ends it.                                     *)
(***************************************************************************)
Calm == /\ ~callback /\ ~queued /\ wpc = "none"
        /\ armed => timer_running
        /\ \A v \in Users : upc[v] = "idle"

Off(u) ==
  /\ upc[u] = "idle"
  /\ upc' = [upc EXCEPT ![u] = "offCheck"]
  /\ off' = IF off = "no" /\ Calm THEN "trying" ELSE off
  /\ lit' = FALSE
  /\ UNCHANGED <<timer_running, index, pin, armed, callback, queued, wpc>>

OffCheck(u) ==
  /\ upc[u] = "offCheck"
  /\ upc' = [upc EXCEPT ![u] = IF timer_running THEN "offCancel" ELSE "offPin"]
  /\ UNCHANGED <<timer_running, index, pin, armed, callback, queued, wpc, off,
                 lit>>

\* Mutant: the flag is cleared, the timer is left running.
OffCancel_Leave(u) ==
  /\ upc[u] = "offCancel"
  /\ upc' = [upc EXCEPT ![u] = "offClear"]
  /\ UNCHANGED <<timer_running, index, pin, armed, callback, queued, wpc, off,
                 lit>>

\* hrtimer_cancel waits for a running callback, then dequeues the timer.
OffCancel(u) ==
  /\ upc[u] = "offCancel" /\ ~callback
  /\ upc' = [upc EXCEPT ![u] = "offClear"]
  /\ armed' = FALSE
  /\ UNCHANGED <<timer_running, index, pin, callback, queued, wpc, off, lit>>

OffClear(u) ==
  /\ upc[u] = "offClear"
  /\ upc' = [upc EXCEPT ![u] = "offPin"]
  /\ timer_running' = FALSE
  /\ UNCHANGED <<index, pin, armed, callback, queued, wpc, off, lit>>

OffPin(u) ==
  /\ upc[u] = "offPin"
  /\ upc' = [upc EXCEPT ![u] = "idle"]
  /\ pin' = "low"
  /\ off' = IF off = "trying" THEN "held" ELSE off
  /\ UNCHANGED <<timer_running, index, armed, callback, queued, wpc, lit>>

InCall(u) == \/ OnFlag(u) \/ OnArm(u)
             \/ OffCheck(u) \/ OffCancel(u) \/ OffClear(u) \/ OffPin(u)

Next == \/ Expire \/ dw_fp_key_work \/ work_timeOutFunc
        \/ \E u \in Users : On(u) \/ Off(u) \/ InCall(u)

Spec == Init /\ [][Next]_vars

\* An armed timer expires, its callback and the work item run, and a request
\* that was made goes on.  Nobody is obliged to make one.
Fairness ==
  /\ WF_vars(Expire) /\ WF_vars(dw_fp_key_work) /\ WF_vars(work_timeOutFunc)
  /\ \A u \in Users : WF_vars(InCall(u))

FairSpec == Spec /\ Fairness

(***************************************************************************)
(* Properties.                                                             *)
(***************************************************************************)
\* An OFF that begins while the timer waits, and during which it does not
\* expire, is final: timer_stop (134-142) then finds the timer, and nothing
\* lights the LED or arms the timer until the next ON, whatever other OFFs
\* overlap.  (An OFF that meets the work item is not: 173 arms it again.)
HeldDark == off = "held" => pin = "low" /\ ~armed

\* A LED that was started when nobody was switching it off, and that nobody
\* switches off again, blinks for ever: the chain callback - work item - start
\* (146, 173) is not broken by requests that raced before.
Blinks == <>[]lit => []<>(pin = "high") /\ []<>(pin = "low")
==============================================================================
