------------------------------ MODULE KdSensor ------------------------------
(***************************************************************************)
(* The camera sensor list (atom_i2c/kernel/kd_sensorlist.c): which sensor  *)
(* drivers are selected, which are open, and what has power.               *)
(*                                                                         *)
(* Every ioctl runs under kdCam_Mutex, so at most one call is in progress; *)
(* but open and release of the device files take no lock, and release cuts *)
(* the power.  A call is therefore a sequence of steps, one for each call  *)
(* of a power or sensor function, with releases in between.                *)
(*                                                                         *)
(* Power.  kdCISModulePowerOn is outside the repository; the functions     *)
(* exported to it, _hwPowerOn and _hwPowerDown, count enables of a         *)
(* regulator.  power[s] is that count for the supplies of socket s.        *)
(* checkPowerBeforClose, also outside, leaves nothing enabled.             *)
(*                                                                         *)
(* Left out: GetInfo, GetResolution, FeatureControl and Control, which     *)
(* call the selected sensors but change nothing kept here; I2C; delays;    *)
(* the lists of names for /proc.  The sensor table is reduced to what an   *)
(* entry can do: initialise a sensor, have no SensorInit, yield no sensor. *)
(***************************************************************************)
EXTENDS Integers

CONSTANTS
    Sockets,    \* DUAL_CAMERA_MAIN_SENSOR, _SUB_, ...: one bit each
    NoSocket,   \* DUAL_CAMERA_NONE_SENSOR
    Sensors,    \* entries of the sensor list that yield a driver
    NoSensor,   \* NULL, and the name KDIMGSENSOR_NOSENSOR
    Files1,     \* open files of CAMERA_HW_DRVNAME1
    Files2,     \* open files of CAMERA_HW_DRVNAME2
    MaxPower    \* bound: no open is begun when a count has reached it

ASSUME KdAssumption ==
    /\ NoSocket \notin Sockets
    /\ NoSensor \notin Sensors
    /\ Files1 \cap Files2 = {}
    /\ MaxPower \in Nat

Index == {0, 1}        \* KDIMGSENSOR_MAX_INVOKE_DRIVERS = 2
Files == Files1 \cup Files2

VARIABLES
    opened,         \* open files; g_CamDrvOpenCnt(2) count them
    shut,           \* history: the file released last was one of Files1
    call,           \* the ioctl that holds kdCam_Mutex, or "none"
    caller,         \* the set of the file it came through, or {}
    pc,             \* where the call is
    i,              \* its loop index
    enabled,        \* g_bEnableDriver
    socket,         \* g_invokeSocketIdx
    func,           \* g_pInvokeSensorFunc
    name,           \* g_invokeSensorNameStr
    current,        \* g_CurrentSensorIdx, a bit mask, as a set
    power,          \* enables of the supplies of each socket
    running,        \* sockets whose sensor was opened and not closed
    robbed,         \* history: sockets that lost power to a release or to a
                    \*   failed search since SensorOpen's power-on
    before,         \* history: power when this open, close or search began
    disturbed       \* history: during this call a search's power-on failed
                    \*   or a release took place

drivers == <<enabled, socket, func, name>>
hardware == <<power, running, robbed>>
vars == <<opened, shut, call, caller, pc, i, drivers, current, hardware, before, disturbed>>

Init ==
    /\ opened = {} /\ shut = TRUE
    /\ call = "none" /\ caller = {} /\ pc = "idle" /\ i = 0
    /\ enabled = [k \in Index |-> FALSE]
    /\ socket = [k \in Index |-> NoSocket]
    /\ func = [k \in Index |-> NoSensor]
    /\ name = [k \in Index |-> NoSensor]
    /\ current = {}
    /\ power = [s \in Sockets |-> 0]
    /\ running = {} /\ robbed = {}
    /\ before = [s \in Sockets |-> 0] /\ disturbed = FALSE

-----------------------------------------------------------------------------
(* Open and close of the device files.  A file with a call in progress     *)
(* cannot be released.                                                     *)

FileOpen(f) ==
    /\ f \notin opened
    /\ opened' = opened \cup {f}
    /\ UNCHANGED <<shut, call, caller, pc, i, drivers, current, hardware, before, disturbed>>

checkPowerBeforClose ==
    /\ robbed' = robbed \cup {s \in Sockets : power[s] > 0}
    /\ power' = [s \in Sockets |-> 0]
    /\ disturbed' = (call # "none")
    /\ UNCHANGED running

\* Mutant: the test that is commented out, with its sense reversed.
Release_Early(f) ==
    /\ f \in opened \cap Files1
    /\ f \notin caller
    /\ opened' = opened \ {f} /\ shut' = TRUE
    /\ IF opened' # {}
       THEN checkPowerBeforClose
       ELSE UNCHANGED <<hardware, disturbed>>
    /\ UNCHANGED <<call, caller, pc, i, drivers, current, before>>

\* CAMERA_HW_Release: the test for the last close is commented out.
Release(f) ==
    /\ f \in opened \cap Files1
    /\ f \notin caller
    /\ opened' = opened \ {f} /\ shut' = TRUE
    /\ checkPowerBeforClose
    /\ UNCHANGED <<call, caller, pc, i, drivers, current, before>>

\* CAMERA_HW_Release2: no power is touched.
Release2(f) ==
    /\ f \in opened \cap Files2
    /\ f \notin caller
    /\ opened' = opened \ {f} /\ shut' = FALSE
    /\ UNCHANGED <<call, caller, pc, i, drivers, current, hardware, before, disturbed>>

-----------------------------------------------------------------------------
(* CAMERA_HW_Ioctl                                                         *)

Enter(f, c, p, k) ==
    /\ call = "none"
    /\ f \in opened
    /\ call' = c /\ caller' = {f} /\ pc' = p /\ i' = k

Snapshot == before' = power /\ disturbed' = FALSE

Goto(p, k) == pc' = p /\ i' = k /\ UNCHANGED <<call, caller>>
Return == Goto("return", 0)

Leave ==
    /\ pc = "return"
    /\ call' = "none" /\ caller' = {} /\ pc' = "idle"
    /\ before' = [s \in Sockets |-> 0] /\ disturbed' = FALSE
    /\ UNCHANGED <<opened, shut, i, drivers, current, hardware>>

\* kdSetCurrentSensorIdx
SetCurrent(f) ==
    /\ Enter(f, "current", "return", 0)
    /\ current' \in SUBSET Sockets
    /\ UNCHANGED <<opened, shut, drivers, hardware, before, disturbed>>

-----------------------------------------------------------------------------
(* kdSetDriver.  The sockets of both arguments are taken unchecked from    *)
(* the caller: two drivers may name the same one.                          *)

SetDriver(f) ==
    /\ Enter(f, "driver", "select", 0)
    /\ UNCHANGED <<opened, shut, drivers, current, hardware, before, disturbed>>

NextDriver == IF i = 0 THEN Goto("select", 1) ELSE Return

\* Lines 1181 and 1210: no socket, or an index past the list.
SkipDriver ==
    /\ pc = "select"
    /\ socket' \in {[socket EXCEPT ![i] = s] : s \in Sockets \cup {NoSocket}}
    /\ enabled' = [enabled EXCEPT ![i] = FALSE]
    /\ NextDriver
    /\ UNCHANGED <<opened, shut, func, name, current, hardware, before, disturbed>>

\* Mutant: kdSetDriver fails before the driver is disabled.
FailDriver_Leave ==
    /\ pc = "select"
    /\ socket' \in {[socket EXCEPT ![i] = s] : s \in Sockets}
    /\ func' \in {func, [func EXCEPT ![i] = NoSensor]}
    /\ Return
    /\ UNCHANGED <<opened, shut, enabled, name, current, hardware, before, disturbed>>

\* Lines 1211 and 1217: no SensorInit, or SensorInit yields nothing.
FailDriver ==
    /\ pc = "select"
    /\ socket' \in {[socket EXCEPT ![i] = s] : s \in Sockets}
    /\ enabled' = [enabled EXCEPT ![i] = FALSE]
    /\ func' \in {func, [func EXCEPT ![i] = NoSensor]}
    /\ Return
    /\ UNCHANGED <<opened, shut, name, current, hardware, before, disturbed>>

SelectDriver ==
    /\ pc = "select"
    /\ socket' \in {[socket EXCEPT ![i] = s] : s \in Sockets}
    /\ \E d \in Sensors : /\ func' = [func EXCEPT ![i] = d]
                          /\ name' = [name EXCEPT ![i] = d]
    /\ enabled' = [enabled EXCEPT ![i] = TRUE]
    /\ NextDriver
    /\ UNCHANGED <<opened, shut, current, hardware, before, disturbed>>

-----------------------------------------------------------------------------
(* Power and the loop condition of kd_MultiSensorOpen and -Close           *)

PowerUp(s) == power' = [power EXCEPT ![s] = @ + 1]
\* Mutant: an enable count that is not checked.
PowerDown_Below(s) == power' = [power EXCEPT ![s] = @ - 1]

PowerDown(s) == power' = [power EXCEPT ![s] = IF @ > 0 THEN @ - 1 ELSE 0]

Callable(k) == enabled[k] /\ func[k] # NoSensor
Addressed(k) == Callable(k) /\ socket[k] \in current

(* kd_MultiSensorOpen, from the last driver to the first                   *)

OpenSensors(f) ==
    /\ Enter(f, "open", "open", 1)
    /\ \A s \in Sockets : power[s] < MaxPower
    /\ Snapshot
    /\ UNCHANGED <<opened, shut, drivers, current, hardware>>

NextOpen == IF i = 1 THEN Goto("open", 0) ELSE Return

OpenSkip ==
    /\ pc = "open"
    /\ ~Addressed(i)
    /\ NextOpen
    /\ UNCHANGED <<opened, shut, drivers, current, hardware, before, disturbed>>

OpenPower ==
    /\ pc = "open"
    /\ Addressed(i)
    /\ PowerUp(socket[i])
    /\ robbed' = robbed \ {socket[i]}
    /\ Goto("sensor_open", i)
    /\ UNCHANGED <<opened, shut, drivers, current, running, before, disturbed>>

OpenPowerFails ==
    /\ pc = "open"
    /\ Addressed(i)
    /\ Return
    /\ UNCHANGED <<opened, shut, drivers, current, hardware, before, disturbed>>

SensorOpen ==
    /\ pc = "sensor_open"
    /\ running' = running \cup {socket[i]}
    /\ NextOpen
    /\ UNCHANGED <<opened, shut, drivers, current, power, robbed, before, disturbed>>

\* Only the failed SensorOpen's enable is given back; sensors opened before
\* stay, one in the same socket too as long as its socket has power.
SensorOpenFails ==
    /\ pc = "sensor_open"
    /\ PowerDown(socket[i])
    /\ running' = {s \in running : power'[s] > 0 \/ s # socket[i]}
    /\ Return
    /\ UNCHANGED <<opened, shut, drivers, current, robbed, before, disturbed>>

-----------------------------------------------------------------------------
(* kd_MultiSensorClose, from the first driver to the last; called by the   *)
(* close request and by a search                                           *)

CloseSensors(f) ==
    /\ Enter(f, "close", "close", 0)
    /\ Snapshot
    /\ UNCHANGED <<opened, shut, drivers, current, hardware>>

CloseDone == IF call = "search" THEN Goto("search_off", 0) ELSE Return
NextClose == IF i = 0 THEN Goto("close", 1) ELSE CloseDone

CloseSkip ==
    /\ pc = "close"
    /\ ~Addressed(i)
    /\ NextClose
    /\ UNCHANGED <<opened, shut, drivers, current, hardware, before, disturbed>>

SensorClose ==
    /\ pc = "close"
    /\ Addressed(i)
    /\ running' = running \ {socket[i]}
    /\ Goto("close_power", i)
    /\ UNCHANGED <<opened, shut, drivers, current, power, robbed, before, disturbed>>

\* Power goes off whatever SensorClose returned; an error ends the loop.
ClosePower ==
    /\ pc = "close_power"
    /\ PowerDown(socket[i])
    /\ NextClose \/ CloseDone
    /\ UNCHANGED <<opened, shut, drivers, current, running, robbed, before, disturbed>>

-----------------------------------------------------------------------------
(* adopt_CAMERA_HW_CheckIsAlive: power everything selected, ask for the    *)
(* identities, close, power everything down                                *)

CheckIsAlive(f) ==
    /\ Enter(f, "search", "search_on", 0)
    /\ Snapshot
    /\ UNCHANGED <<opened, shut, drivers, current, hardware>>

\* Mutant: the mask is not cleared before SensorClose.
SearchClose_Current == UNCHANGED current /\ Goto("close", 0)

\* Line 1498, after the power is on; then SensorClose of line 1553.
SearchClose == current' = {} /\ Goto("close", 0)
NextSearchOn ==
    IF i = 0 THEN Goto("search_on", 1) /\ UNCHANGED current ELSE SearchClose

\* Mutant: the power-on of a search, commented out as in adopt_CAMERA_HW_Open.
SearchPower_None ==
    /\ pc = "search_on"
    /\ NextSearchOn
    /\ UNCHANGED <<opened, shut, drivers, hardware, before, disturbed>>

SearchPower ==
    /\ pc = "search_on"
    /\ IF enabled[i] THEN PowerUp(socket[i]) ELSE UNCHANGED power
    /\ NextSearchOn
    /\ UNCHANGED <<opened, shut, drivers, running, robbed, before, disturbed>>

\* kdModulePowerOn returns at the first failure, and the search goes on.
SearchPowerFails ==
    /\ pc = "search_on"
    /\ enabled[i]
    /\ disturbed' = TRUE
    /\ SearchClose
    /\ UNCHANGED <<opened, shut, drivers, hardware, before>>

NextSearchOff == IF i = 0 THEN Goto("search_off", 1) ELSE Return

SearchOff ==
    /\ pc = "search_off"
    /\ IF enabled[i]
       THEN /\ PowerDown(socket[i])
            /\ robbed' = IF disturbed THEN robbed \cup {socket[i]} ELSE robbed
       ELSE UNCHANGED <<power, robbed>>
    /\ NextSearchOff
    /\ UNCHANGED <<opened, shut, drivers, current, running, before, disturbed>>

\* Powering down what has no power may be refused, which ends the loop.
SearchOffRefused ==
    /\ pc = "search_off"
    /\ enabled[i] /\ power[socket[i]] = 0
    /\ Return
    /\ UNCHANGED <<opened, shut, drivers, current, hardware, before, disturbed>>

-----------------------------------------------------------------------------
Request(f) ==
    \/ SetCurrent(f) \/ SetDriver(f) \/ OpenSensors(f) \/ CloseSensors(f)
    \/ CheckIsAlive(f)

Step ==
    \/ SkipDriver \/ FailDriver \/ SelectDriver
    \/ OpenSkip \/ OpenPower \/ OpenPowerFails \/ SensorOpen \/ SensorOpenFails
    \/ CloseSkip \/ SensorClose \/ ClosePower
    \/ SearchPower \/ SearchPowerFails \/ SearchOff \/ SearchOffRefused
    \/ Leave

Next ==
    \/ \E f \in Files : FileOpen(f) \/ Release(f) \/ Release2(f) \/ Request(f)
    \/ Step

Spec == Init /\ [][Next]_vars

-----------------------------------------------------------------------------
(* Properties                                                              *)

Calls == {"none", "current", "driver", "open", "close", "search"}
Places == {"idle", "return", "select", "open", "sensor_open", "close",
           "close_power", "search_on", "search_off"}

\* Types, and what ties the mutex to the call that holds it.
TypeOK ==
    /\ opened \subseteq Files /\ shut \in BOOLEAN
    /\ call \in Calls /\ pc \in Places /\ i \in Index
    /\ caller \subseteq opened
    /\ (call = "none") <=> (pc = "idle")
    /\ (call = "none") <=> (caller = {})
    /\ enabled \in [Index -> BOOLEAN]
    /\ socket \in [Index -> Sockets \cup {NoSocket}]
    /\ func \in [Index -> Sensors \cup {NoSensor}]
    /\ name \in [Index -> Sensors \cup {NoSensor}]
    /\ current \subseteq Sockets
    /\ power \in [Sockets -> Nat]
    /\ running \subseteq Sockets /\ robbed \subseteq Sockets
    /\ before \in [Sockets -> Nat] /\ disturbed \in BOOLEAN

\* A driver that open, close and search will call has a socket, a function
\* table, and the name of that table's sensor (which decides the power
\* sequence), whatever calls of kdSetDriver failed half-way before.
EnabledIsWhole ==
    \A k \in Index :
        enabled[k] => /\ socket[k] \in Sockets
                      /\ func[k] # NoSensor
                      /\ name[k] = func[k]

\* A sensor that was opened and not closed has power, unless a release of
\* some file, or a search whose power-on failed, took it away.
OpenIsPowered == \A s \in running \ robbed : power[s] > 0

\* How many enabled drivers a socket has: kdSetDriver may give it both.
Drive(k, s) == IF enabled[k] /\ socket[k] = s THEN 1 ELSE 0
Drives(s) == Drive(0, s) + Drive(1, s)

\* What a call leaves enabled, undisturbed by a release or a power failure:
\* a search what it found; an open at most one more for each driver of a
\* socket, and only where it leaves a sensor open, so a failed SensorOpen
\* gives its enable back; a close at most one less for each driver, and only
\* where the sensor is closed.
PowerBalance ==
    pc = "return" /\ ~disturbed =>
        /\ call = "search" => power = before
        /\ call = "open" =>
              \A s \in Sockets : \/ power[s] = before[s]
                                 \/ /\ s \in running
                                    /\ power[s] \in before[s] .. before[s] + Drives(s)
        /\ call = "close" =>
              \A s \in Sockets : \/ power[s] = before[s]
                                 \/ /\ s \notin running
                                    /\ power[s] \in before[s] - Drives(s) .. before[s]

\* When every file has been closed, after whatever sequence of calls, nothing
\* has power -- if the last was one of the first node: CAMERA_HW_Release2
\* leaves everything on.
ClosedIsDark == opened = {} /\ shut => \A s \in Sockets : power[s] = 0

\* Line 3564: "Shut down the device on last close".
LastCloseOnly ==
    [][opened' # opened /\ (\E s \in Sockets : power'[s] < power[s])
        => opened' = {}]_vars
=============================================================================
