--------------------------- MODULE KdSensorProofs ---------------------------
(***************************************************************************)
(* Theorems about KdSensor, for every set of sockets, sensors and files.   *)
(***************************************************************************)
EXTENDS KdSensor, TLAPS

-----------------------------------------------------------------------------
(* Types                                                                   *)

LEMMA FilesTypeOK ==
    ASSUME TypeOK, NEW f \in Files, FileOpen(f) \/ Release(f) \/ Release2(f)
    PROVE  TypeOK'
  <1> USE DEF TypeOK, drivers, hardware
  <1>1. CASE FileOpen(f)
    BY <1>1 DEF FileOpen
  <1>2. CASE Release(f)
    <2>1. power' \in [Sockets -> Nat] /\ robbed' \subseteq Sockets
      BY <1>2 DEF Release, checkPowerBeforClose
    <2>2. caller' \subseteq opened' /\ opened' \subseteq Files
      BY <1>2 DEF Release
    <2> QED BY <1>2, <2>1, <2>2 DEF Release, checkPowerBeforClose
  <1>3. CASE Release2(f)
    <2>1. caller' \subseteq opened' /\ opened' \subseteq Files
      BY <1>3 DEF Release2
    <2> QED BY <1>3, <2>1 DEF Release2
  <1> QED BY <1>1, <1>2, <1>3

LEMMA RequestTypeOK ==
    ASSUME TypeOK, NEW f \in Files, Request(f)
    PROVE  TypeOK'
  <1> USE DEF TypeOK, drivers, hardware, Enter, Snapshot, Calls, Places, Index
  <1>1. CASE SetCurrent(f) \/ SetDriver(f)
    BY <1>1 DEF SetCurrent, SetDriver
  <1>2. CASE OpenSensors(f) \/ CloseSensors(f) \/ CheckIsAlive(f)
    BY <1>2 DEF OpenSensors, CloseSensors, CheckIsAlive
  <1> QED BY <1>1, <1>2 DEF Request

LEMMA PowerTypeOK ==
    ASSUME TypeOK, NEW s \in Sockets
    PROVE  /\ PowerUp(s) => power' \in [Sockets -> Nat]
           /\ PowerDown(s) => power' \in [Sockets -> Nat]
  BY DEF TypeOK, PowerUp, PowerDown

LEMMA DriverTypeOK ==
    ASSUME TypeOK, SkipDriver \/ FailDriver \/ SelectDriver
    PROVE  TypeOK'
  <1> USE DEF TypeOK, drivers, hardware, Goto, Return, NextDriver, Calls,
              Places, Index
  <1>1. CASE SkipDriver
    BY <1>1 DEF SkipDriver
  <1>2. CASE FailDriver
    BY <1>2 DEF FailDriver
  <1>3. CASE SelectDriver
    <2> PICK d \in Sensors : /\ func' = [func EXCEPT ![i] = d]
                             /\ name' = [name EXCEPT ![i] = d]
      BY <1>3 DEF SelectDriver
    <2> QED BY <1>3 DEF SelectDriver
  <1> QED BY <1>1, <1>2, <1>3

\* What a driver has that is called: a socket to power, so the count that
\* changes is one of power's.
EnabledHasSocket ==
    /\ EnabledIsWhole
    /\ pc \in {"sensor_open", "close_power"} => Addressed(i)

LEMMA StepTypeOK ==
    ASSUME TypeOK, EnabledHasSocket, Step
    PROVE  TypeOK'
  <1>1. ASSUME enabled[i] PROVE socket[i] \in Sockets
    BY <1>1 DEF TypeOK, EnabledHasSocket, EnabledIsWhole
  <1>2. CASE SkipDriver \/ FailDriver \/ SelectDriver
    BY <1>2, DriverTypeOK
  <1> USE DEF Goto, Return, NextOpen, NextClose, CloseDone, NextSearchOn,
              NextSearchOff, SearchClose, Calls, Places, Index
  <1>3. CASE OpenSkip \/ OpenPowerFails \/ CloseSkip
    BY <1>3 DEF TypeOK, drivers, hardware, OpenSkip, OpenPowerFails, CloseSkip
  <1>4. CASE OpenPower
    <2>1. power' \in [Sockets -> Nat]
      BY <1>1, <1>4, PowerTypeOK DEF OpenPower, Addressed, Callable
    <2> QED BY <1>4, <2>1 DEF TypeOK, drivers, OpenPower
  <1>5. CASE SensorOpen \/ SensorClose
    BY <1>1, <1>5
    DEF TypeOK, drivers, EnabledHasSocket, SensorOpen, SensorClose, Addressed,
        Callable
  <1>6. CASE SensorOpenFails \/ ClosePower
    <2>1. power' \in [Sockets -> Nat]
      BY <1>1, <1>6, PowerTypeOK
      DEF EnabledHasSocket, SensorOpenFails, ClosePower, Addressed, Callable
    <2> QED BY <1>6, <2>1 DEF TypeOK, drivers, SensorOpenFails, ClosePower
  <1>7. CASE SearchPower
    <2>1. power' \in [Sockets -> Nat]
      BY <1>1, <1>7, PowerTypeOK DEF TypeOK, SearchPower
    <2> QED BY <1>7, <2>1 DEF TypeOK, drivers, SearchPower
  <1>8. CASE SearchPowerFails
    BY <1>8 DEF TypeOK, drivers, hardware, SearchPowerFails
  <1>9. CASE SearchOff
    <2>1. power' \in [Sockets -> Nat] /\ robbed' \subseteq Sockets
      BY <1>1, <1>9, PowerTypeOK DEF TypeOK, SearchOff
    <2> QED BY <1>9, <2>1 DEF TypeOK, drivers, SearchOff
  <1>10. CASE SearchOffRefused
    BY <1>10 DEF TypeOK, drivers, hardware, SearchOffRefused
  <1>11. CASE Leave
    BY <1>11 DEF TypeOK, drivers, hardware, Leave
  <1> QED
    BY <1>2, <1>3, <1>4, <1>5, <1>6, <1>7, <1>8, <1>9, <1>10, <1>11 DEF Step

-----------------------------------------------------------------------------
(* Drivers                                                                 *)

DriverInv == TypeOK /\ EnabledHasSocket

LEMMA InitDriverInv == Init => DriverInv
  <1> SUFFICES ASSUME Init PROVE DriverInv
    OBVIOUS
  <1>1. shut \in BOOLEAN /\ disturbed \in BOOLEAN
    BY DEF Init
  <1>2. enabled \in [Index -> BOOLEAN] /\ \A k \in Index : ~enabled[k]
    BY DEF Init
  <1>3. TypeOK
    BY <1>1, <1>2 DEF Init, TypeOK, Calls, Places, Index
  <1>4. EnabledHasSocket
    BY <1>2 DEF Init, EnabledHasSocket, EnabledIsWhole
  <1> QED BY <1>3, <1>4 DEF DriverInv

\* Everything outside kdSetDriver leaves the drivers alone.
LEMMA DriversKept ==
    ASSUME TypeOK, Next, ~SkipDriver, ~FailDriver, ~SelectDriver
    PROVE  UNCHANGED drivers /\ (pc' \in {"sensor_open", "close_power"} =>
                 \/ pc' = pc /\ UNCHANGED <<i, current>>
                 \/ Addressed(i) /\ UNCHANGED <<i, current>>)
  <1> USE DEF drivers, Goto, Return, NextOpen, NextClose, CloseDone,
              NextSearchOn, NextSearchOff, SearchClose, Enter, Snapshot
  <1>1. ASSUME NEW f \in Files, FileOpen(f) \/ Release(f) \/ Release2(f)
        PROVE  UNCHANGED <<drivers, pc, i, current>>
    BY <1>1 DEF FileOpen, Release, Release2
  <1>2. ASSUME NEW f \in Files, Request(f)
        PROVE  UNCHANGED drivers /\ pc' \notin {"sensor_open", "close_power"}
    BY <1>2 DEF Request, SetCurrent, SetDriver, OpenSensors, CloseSensors,
                CheckIsAlive
  <1>3. CASE OpenSkip \/ OpenPowerFails \/ SensorOpen \/ SensorOpenFails
             \/ CloseSkip \/ ClosePower
    BY <1>3 DEF OpenSkip, OpenPowerFails, SensorOpen, SensorOpenFails,
                CloseSkip, ClosePower
  <1>4. CASE OpenPower \/ SensorClose
    BY <1>4 DEF OpenPower, SensorClose
  <1>5. CASE SearchPower \/ SearchPowerFails \/ SearchOff \/ SearchOffRefused
             \/ Leave
    BY <1>5 DEF SearchPower, SearchPowerFails, SearchOff, SearchOffRefused,
                Leave
  <1> QED BY <1>1, <1>2, <1>3, <1>4, <1>5 DEF Next, Step

LEMMA NextDriverInv == DriverInv /\ [Next]_vars => DriverInv'
  <1> SUFFICES ASSUME DriverInv, [Next]_vars PROVE DriverInv'
    OBVIOUS
  <1>1. TypeOK'
    <2>1. CASE UNCHANGED vars
      BY <2>1 DEF DriverInv, TypeOK, vars, drivers, hardware
    <2>2. CASE Next
      BY <2>2, FilesTypeOK, RequestTypeOK, StepTypeOK DEF Next, DriverInv
    <2> QED BY <2>1, <2>2
  <1>2. CASE SkipDriver \/ FailDriver \/ SelectDriver
    <2>1. EnabledIsWhole'
      <3> USE DEF DriverInv, EnabledHasSocket, EnabledIsWhole, TypeOK, Index
      <3>1. CASE SkipDriver
        BY <3>1 DEF SkipDriver
      <3>2. CASE FailDriver
        BY <3>2 DEF FailDriver
      <3>3. CASE SelectDriver
        BY <3>3, KdAssumption DEF SelectDriver
      <3> QED BY <1>2, <3>1, <3>2, <3>3
    <2>2. pc' \notin {"sensor_open", "close_power"}
      BY <1>2 DEF SkipDriver, FailDriver, SelectDriver, NextDriver, Goto, Return
    <2> QED BY <1>1, <2>1, <2>2 DEF DriverInv, EnabledHasSocket
  <1>3. CASE Next /\ ~SkipDriver /\ ~FailDriver /\ ~SelectDriver
    <2>1. UNCHANGED drivers
      BY <1>3, DriversKept DEF DriverInv
    <2>2. pc' \in {"sensor_open", "close_power"} => Addressed(i)'
      BY <1>3, <2>1, DriversKept
      DEF DriverInv, EnabledHasSocket, Addressed, Callable, drivers
    <2> QED
      BY <1>1, <2>1, <2>2
      DEF DriverInv, EnabledHasSocket, EnabledIsWhole, drivers
  <1>4. CASE UNCHANGED vars
    BY <1>1, <1>4
    DEF DriverInv, EnabledHasSocket, EnabledIsWhole, Addressed, Callable,
        vars, drivers
  <1> QED BY <1>2, <1>3, <1>4

\* The variables keep their types, and the mutex its holder.
THEOREM TypeTheorem == Spec => []TypeOK
  BY InitDriverInv, NextDriverInv, PTL DEF Spec, DriverInv

\* Whatever selections failed half-way, what is enabled can be called.
THEOREM WholeTheorem == Spec => []EnabledIsWhole
  <1>1. DriverInv => EnabledIsWhole
    BY DEF DriverInv, EnabledHasSocket
  <1> QED BY <1>1, InitDriverInv, NextDriverInv, PTL DEF Spec

-----------------------------------------------------------------------------
(* Power                                                                   *)

\* How many enables the search in progress holds of a socket: one for each
\* driver below its index on the way up, from it on the way down.
Lit(s) ==
    CASE pc = "search_on" -> IF i = 0 THEN 0 ELSE Drive(0, s)
      [] pc = "search_off" -> IF i = 0 THEN Drives(s) ELSE Drive(1, s)
      [] OTHER -> Drives(s)

\* An open sensor has a share of its own in the count of its socket, besides
\* what an undisturbed search holds.  A search closes nothing because it has
\* cleared the mask.
SearchHolds ==
    /\ pc \in {"search_on", "search_off"} => call = "search"
    /\ call = "search" =>
         /\ pc \in {"search_on", "search_off", "close", "return"}
         /\ pc = "close" => current = {}
         /\ pc # "return" /\ ~disturbed =>
              \A s \in running \ robbed : power[s] > Lit(s)

\* A sensor is only opened under power, and only unpowered when closed.
PowerInv ==
    /\ DriverInv
    /\ OpenIsPowered
    /\ SearchHolds
    /\ pc = "sensor_open" => socket[i] \in robbed \/ power[socket[i]] > 0
    /\ pc = "close_power" => socket[i] \notin running

LEMMA InitPowerInv == Init => PowerInv
  BY InitDriverInv DEF Init, PowerInv, OpenIsPowered, SearchHolds

LEMMA DriveNat ==
    \A s : /\ Drive(0, s) \in {0, 1} /\ Drive(1, s) \in {0, 1}
          /\ Drives(s) \in Nat /\ Lit(s) \in Nat
  <1>1. \A s : Drive(0, s) \in {0, 1} /\ Drive(1, s) \in {0, 1}
    BY DEF Drive
  <1>2. \A s : Drives(s) \in Nat
    BY <1>1 DEF Drives
  <1> QED BY <1>1, <1>2 DEF Lit

\* What a search powers and gives back, of a socket.
LEMMA LitMoves ==
    ASSUME TypeOK, EnabledIsWhole
    PROVE  /\ SearchPower => \A s \in Sockets :
                 /\ Lit(s)' = Lit(s) + Drive(i, s)
                 /\ power'[s] = power[s] + Drive(i, s)
           /\ SearchOff => \A s \in Sockets :
                 /\ i = 0 => Lit(s)' = Lit(s) - Drive(i, s)
                 /\ i = 1 => Lit(s) = Drive(i, s)
                 /\ power[s] >= Drive(i, s) =>
                       power'[s] = power[s] - Drive(i, s)
  <1>1. i \in {0, 1} /\ power \in [Sockets -> Nat]
    BY DEF TypeOK, Index
  <1>2. enabled[i] => socket[i] \in Sockets
    BY <1>1 DEF EnabledIsWhole, Index
  <1> USE DriveNat
  <1>3. ASSUME SearchPower, NEW s \in Sockets
        PROVE  /\ Lit(s)' = Lit(s) + Drive(i, s)
               /\ power'[s] = power[s] + Drive(i, s)
    <2>1. pc = "search_on" /\ Drive(0, s)' = Drive(0, s)
          /\ Drive(1, s)' = Drive(1, s)
      BY <1>3 DEF SearchPower, Drive, drivers
    <2>2. Drives(s)' = Drives(s)
      BY <2>1 DEF Drives
    <2>3. ASSUME i = 0 PROVE Lit(s)' = Lit(s) + Drive(i, s)
      <3>1. pc' = "search_on" /\ i' = 1
        BY <1>3, <2>3 DEF SearchPower, NextSearchOn, Goto
      <3>2. Lit(s) = 0
        BY <2>1, <2>3 DEF Lit
      <3>3. Lit(s)' = Drive(0, s)
        BY <2>1, <3>1 DEF Lit
      <3>4. Drive(i, s) = Drive(0, s) /\ Drive(0, s) \in Int
        BY <2>3
      <3> QED BY <3>2, <3>3, <3>4
    <2>4. ASSUME i = 1 PROVE Lit(s)' = Lit(s) + Drive(i, s)
      <3>1. pc' = "close"
        BY <1>3, <2>4 DEF SearchPower, NextSearchOn, SearchClose, Goto
      <3>2. Lit(s) = Drive(0, s)
        BY <2>1, <2>4 DEF Lit
      <3>3. Lit(s)' = Drive(0, s) + Drive(1, s)
        BY <2>2, <3>1 DEF Lit, Drives
      <3>4. /\ Drive(i, s) = Drive(1, s)
            /\ Drive(0, s) \in Int /\ Drive(1, s) \in Int
        BY <2>4
      <3> QED BY <3>2, <3>3, <3>4
    <2>5. Lit(s)' = Lit(s) + Drive(i, s)
      BY <1>1, <2>3, <2>4
    <2>6. power'[s] = power[s] + Drive(i, s)
      BY <1>1, <1>2, <1>3 DEF SearchPower, PowerUp, Drive
    <2> QED BY <2>5, <2>6
  <1>4. ASSUME SearchOff, NEW s \in Sockets
        PROVE  /\ i = 0 => Lit(s)' = Lit(s) - Drive(i, s)
               /\ i = 1 => Lit(s) = Drive(i, s)
               /\ power[s] >= Drive(i, s) =>
                     power'[s] = power[s] - Drive(i, s)
    <2>1. pc = "search_off" /\ Drive(0, s)' = Drive(0, s)
          /\ Drive(1, s)' = Drive(1, s)
      BY <1>4 DEF SearchOff, Drive, drivers
    <2>2. i = 0 => Lit(s)' = Lit(s) - Drive(i, s)
      <3>1. i = 0 => pc' = "search_off" /\ i' = 1
        BY <1>4 DEF SearchOff, NextSearchOff, Goto
      <3> QED BY <2>1, <3>1 DEF Lit, Drives
    <2>3. i = 1 => Lit(s) = Drive(i, s)
      BY <2>1 DEF Lit
    <2>4. power[s] >= Drive(i, s) => power'[s] = power[s] - Drive(i, s)
      BY <1>1, <1>2, <1>4 DEF SearchOff, PowerDown, Drive
    <2> QED BY <2>2, <2>3, <2>4
  <1> QED BY <1>3, <1>4

LEMMA NextPowerInv == PowerInv /\ [Next]_vars => PowerInv'
  <1> SUFFICES ASSUME PowerInv, [Next]_vars PROVE PowerInv'
    OBVIOUS
  <1>1. DriverInv'
    BY NextDriverInv DEF PowerInv
  <1>2. \A k \in Index : enabled[k] => socket[k] \in Sockets
    BY DEF PowerInv, DriverInv, EnabledHasSocket, EnabledIsWhole
  <1>3. pc \in {"sensor_open", "close_power"} =>
            Addressed(i) /\ socket[i] \in Sockets
    BY <1>2 DEF PowerInv, DriverInv, EnabledHasSocket, Addressed, Callable,
                TypeOK
  <1>4. i \in {0, 1} /\ power \in [Sockets -> Nat] /\ running \subseteq Sockets
    BY DEF PowerInv, DriverInv, TypeOK, Index
  <1> USE DEF OpenIsPowered, SearchHolds, Goto, Return
  <1>5. ASSUME NEW f \in Files, FileOpen(f) \/ Release2(f) PROVE PowerInv'
    BY <1>1, <1>5 DEF PowerInv, FileOpen, Release2, drivers, hardware, Lit,
                      Drives, Drive
  <1>6. ASSUME NEW f \in Files, Release(f) PROVE PowerInv'
    <2>1. running \subseteq robbed'
      BY <1>4, <1>6 DEF PowerInv, Release, checkPowerBeforClose
    <2>2. pc = "sensor_open" => socket[i] \in robbed'
      BY <1>3, <1>6 DEF PowerInv, Release, checkPowerBeforClose
    <2> QED
      BY <1>1, <1>6, <2>1, <2>2
      DEF PowerInv, Release, checkPowerBeforClose, drivers
  <1>7. ASSUME NEW f \in Files, Request(f) PROVE PowerInv'
    <2> USE DEF Enter, Snapshot, drivers, hardware
    <2>1. CASE SetCurrent(f) \/ SetDriver(f)
      BY <1>1, <1>7, <2>1 DEF PowerInv, SetCurrent, SetDriver
    <2>2. CASE OpenSensors(f) \/ CloseSensors(f)
      BY <1>1, <1>7, <2>2 DEF PowerInv, OpenSensors, CloseSensors
    <2>3. CASE CheckIsAlive(f)
      <3>1. \A s : Lit(s)' = 0
        BY <2>3 DEF CheckIsAlive, Lit
      <3> QED BY <1>1, <2>3, <3>1 DEF PowerInv, CheckIsAlive
    <2> QED BY <1>7, <2>1, <2>2, <2>3 DEF Request
  <1>8. CASE SkipDriver \/ FailDriver \/ SelectDriver
    BY <1>1, <1>8
    DEF PowerInv, SkipDriver, FailDriver, SelectDriver, NextDriver, hardware
  <1>9. CASE OpenSkip \/ OpenPowerFails
    BY <1>1, <1>9
    DEF PowerInv, OpenSkip, OpenPowerFails, NextOpen, drivers, hardware
  <1>10. CASE OpenPower
    <2>1. socket[i] \in Sockets
      BY <1>2, <1>4, <1>10 DEF OpenPower, Addressed, Callable, Index
    <2>2. \A s \in Sockets :
              power'[s] = IF s = socket[i] THEN power[s] + 1 ELSE power[s]
      BY <1>4, <1>10, <2>1 DEF OpenPower, PowerUp
    <2>3. power'[socket[i]] > 0
      BY <1>4, <2>1, <2>2
    <2>4. \A s \in running \ robbed' : power'[s] > 0
      BY <1>4, <1>10, <2>1, <2>2 DEF OpenPower, PowerInv
    <2> QED
      BY <1>1, <1>10, <2>3, <2>4 DEF PowerInv, OpenPower, drivers
  <1>11. CASE SensorOpen
    BY <1>1, <1>11 DEF PowerInv, SensorOpen, NextOpen, drivers
  <1>12. CASE SensorOpenFails \/ ClosePower
    <2>1. \A s \in Sockets : s # socket[i] => power'[s] = power[s]
      BY <1>4, <1>12 DEF SensorOpenFails, ClosePower, PowerDown
    <2>2. running' \subseteq running /\ running' \subseteq Sockets
      BY <1>4, <1>12 DEF SensorOpenFails, ClosePower
    <2>3. \A s \in running' \ robbed' : power'[s] > 0
      <3>1. CASE SensorOpenFails
        BY <2>1, <2>2, <3>1 DEF PowerInv, SensorOpenFails
      <3>2. CASE ClosePower
        BY <2>1, <2>2, <3>2 DEF PowerInv, ClosePower
      <3> QED BY <1>12, <3>1, <3>2
    <2>4. call # "search" /\ pc' \in {"close", "return"} /\ call' = call
      BY <1>12
      DEF PowerInv, SensorOpenFails, ClosePower, NextClose, CloseDone
    <2> QED BY <1>1, <2>3, <2>4 DEF PowerInv
  <1>13. CASE CloseSkip
    <2> USE DEF PowerInv, CloseSkip, NextClose, CloseDone, drivers, hardware
    <2>1. call = "search" => \A s : Lit(s)' = Lit(s)
      BY <1>4, <1>13 DEF Lit, Drives, Drive
    <2> QED BY <1>1, <1>13, <2>1
  <1>14. CASE SensorClose
    <2>1. call # "search"
      BY <1>14 DEF PowerInv, SensorClose, Addressed
    <2> QED BY <1>1, <1>14, <2>1 DEF PowerInv, SensorClose, drivers
  <1>15. CASE SearchPower
    <2>1. call = "search" /\ call' = call
      BY <1>15 DEF PowerInv, SearchPower, NextSearchOn, SearchClose
    <2>2. \A s \in running' \ robbed' :
              power'[s] > 0 /\ (~disturbed => power'[s] > Lit(s)')
      <3> TAKE s \in running' \ robbed'
      <3>1. s \in running \ robbed /\ s \in Sockets /\ power[s] > 0
        BY <1>4, <1>15 DEF SearchPower, PowerInv
      <3>2. ~disturbed => power[s] > Lit(s)
        BY <1>15, <2>1, <3>1 DEF PowerInv, SearchPower
      <3>3. Lit(s)' = Lit(s) + Drive(i, s) /\ power'[s] = power[s] + Drive(i, s)
        BY <1>15, <3>1, LitMoves DEF PowerInv, DriverInv, EnabledHasSocket
      <3>4. power[s] \in Nat /\ Lit(s) \in Nat /\ Drive(i, s) \in {0, 1}
        BY <1>4, <3>1, DriveNat
      <3> QED BY <3>1, <3>2, <3>3, <3>4
    <2> QED
      BY <1>1, <1>15, <2>1, <2>2
      DEF PowerInv, SearchPower, NextSearchOn, SearchClose, drivers
  <1>16. CASE SearchPowerFails
    BY <1>1, <1>16
    DEF PowerInv, SearchPowerFails, SearchClose, drivers, hardware
  <1>17. CASE SearchOff
    <2>1. ASSUME NEW s \in running' \ robbed'
          PROVE  power'[s] > 0 /\ (~disturbed /\ pc' # "return" => power'[s] > Lit(s)')
      <3>1. s \in running \ robbed /\ s \in Sockets /\ power[s] > 0
        BY <1>4, <1>17, <2>1 DEF SearchOff, PowerInv
      <3>2. call = "search" /\ (~disturbed => power[s] > Lit(s))
        BY <1>17, <3>1 DEF PowerInv, SearchOff
      <3>3. power[s] \in Nat /\ Lit(s) \in Nat /\ Drive(i, s) \in {0, 1}
        BY <1>4, <3>1, DriveNat
      <3>4. Drive(i, s) = 1 => ~disturbed
        BY <1>17, <2>1 DEF SearchOff, Drive
      <3>5. /\ i = 0 => Lit(s)' = Lit(s) - Drive(i, s)
            /\ i = 1 => Lit(s) = Drive(i, s)
            /\ power[s] >= Drive(i, s) => power'[s] = power[s] - Drive(i, s)
        BY <1>17, <3>1, LitMoves DEF PowerInv, DriverInv, EnabledHasSocket
      <3>6. power'[s] = power[s] - Drive(i, s)
        BY <3>1, <3>3, <3>5
      <3>7. Lit(s) >= Drive(i, s)
        BY <1>17, <1>4, <3>5, DriveNat DEF SearchOff, Lit, Drives
      <3>8. pc' # "return" => i = 0
        BY <1>4, <1>17 DEF SearchOff, NextSearchOff
      <3> QED BY <3>1, <3>2, <3>3, <3>4, <3>5, <3>6, <3>7, <3>8
    <2> QED
      BY <1>1, <1>17, <2>1 DEF PowerInv, SearchOff, NextSearchOff, drivers
  <1>18. CASE SearchOffRefused
    BY <1>1, <1>18 DEF PowerInv, SearchOffRefused, drivers, hardware
  <1>19. CASE Leave
    BY <1>1, <1>19 DEF PowerInv, Leave, drivers, hardware
  <1>20. CASE UNCHANGED vars
    BY <1>1, <1>20 DEF PowerInv, vars, drivers, hardware, Lit, Drives, Drive
  <1> QED
    BY <1>5, <1>6, <1>7, <1>8, <1>9, <1>10, <1>11, <1>12, <1>13, <1>14, <1>15,
       <1>16, <1>17, <1>18, <1>19, <1>20
    DEF Next, Step

\* An open sensor has power, unless a release or a search whose power-on
\* failed took it: no other call, failed or not, unpowers it.
THEOREM PowerTheorem == Spec => []OpenIsPowered
  <1>1. PowerInv => OpenIsPowered
    BY DEF PowerInv
  <1> QED BY <1>1, InitPowerInv, NextPowerInv, PTL DEF Spec

LEMMA NextClosedIsDark == DriverInv /\ ClosedIsDark /\ [Next]_vars => ClosedIsDark'
  <1> SUFFICES ASSUME DriverInv, ClosedIsDark, [Next]_vars, (opened = {} /\ shut)'
               PROVE  (\A s \in Sockets : power[s] = 0)'
    BY DEF ClosedIsDark
  <1>1. ASSUME NEW f \in Files, Release(f) PROVE \A s \in Sockets : power'[s] = 0
    BY <1>1 DEF Release, checkPowerBeforClose
  <1>2. ASSUME NEW f \in Files, FileOpen(f) \/ Release2(f) PROVE FALSE
    BY <1>2 DEF FileOpen, Release2
  <1>3. ASSUME NEW f \in Files, Request(f) PROVE FALSE
    BY <1>3 DEF Request, SetCurrent, SetDriver, OpenSensors, CloseSensors,
                CheckIsAlive, Enter
  <1>4. CASE Step
    <2>1. call # "none"
      BY <1>4
      DEF DriverInv, TypeOK, Step, SkipDriver, FailDriver, SelectDriver,
          OpenSkip, OpenPower, OpenPowerFails, SensorOpen, SensorOpenFails,
          CloseSkip, SensorClose, ClosePower, SearchPower, SearchPowerFails,
          SearchOff, SearchOffRefused, Leave
    <2>2. UNCHANGED opened
      BY <1>4
      DEF Step, SkipDriver, FailDriver, SelectDriver,
          OpenSkip, OpenPower, OpenPowerFails, SensorOpen, SensorOpenFails,
          CloseSkip, SensorClose, ClosePower, SearchPower, SearchPowerFails,
          SearchOff, SearchOffRefused, Leave
    <2> QED BY <2>1, <2>2 DEF DriverInv, TypeOK
  <1>5. CASE UNCHANGED vars
    BY <1>5 DEF ClosedIsDark, vars, hardware
  <1> QED BY <1>1, <1>2, <1>3, <1>4, <1>5 DEF Next

\* After the last release, of the first node, nothing has power: a call in
\* progress keeps its file open, so none can power anything afterwards.
THEOREM DarkTheorem == Spec => []ClosedIsDark
  <1>1. Init => ClosedIsDark
    BY DEF Init, ClosedIsDark
  <1> QED BY <1>1, InitDriverInv, NextDriverInv, NextClosedIsDark, PTL DEF Spec
-----------------------------------------------------------------------------
(* The balance of a call                                                   *)

\* Where each call can be.  A search closes no sensor.
CallPlaces ==
    /\ call = "open" => pc \in {"open", "sensor_open", "return"}
    /\ call = "close" => pc \in {"close", "close_power", "return"}
    /\ pc \in {"open", "sensor_open"} => call = "open"
    /\ pc = "close_power" => call = "close"
    /\ pc = "close" => call \in {"close", "search"}

\* How many times an open has powered a socket, and a close unpowered it: at
\* most once for each driver its loop has passed.
Powered(s) ==
    CASE pc = "open" -> IF i = 1 THEN 0 ELSE Drive(1, s)
      [] pc = "sensor_open" -> IF i = 1 THEN Drive(1, s) ELSE Drives(s)
      [] OTHER -> Drives(s)
Unpowered(s) ==
    CASE pc \in {"close", "close_power"} -> IF i = 0 THEN 0 ELSE Drive(0, s)
      [] OTHER -> Drives(s)

SearchBalance ==
    IF pc = "return"
    THEN power = before
    ELSE \A s \in Sockets : power[s] = before[s] + Lit(s)

OpenBalance ==
    /\ \A s \in Sockets :
           /\ power[s] \in before[s] .. before[s] + Powered(s)
           /\ \/ power[s] = before[s]
              \/ s \in running
              \/ /\ pc = "sensor_open" /\ s = socket[i]
                 /\ power[s] = before[s] + 1
    /\ pc = "sensor_open" => power[socket[i]] > before[socket[i]]

CloseBalance ==
    \A s \in Sockets :
        /\ power[s] \in before[s] - Unpowered(s) .. before[s]
        /\ power[s] = before[s] \/ s \notin running

\* How far the count of each socket has moved, at every place of a call.
BalanceInv ==
    ~disturbed => /\ call = "search" => SearchBalance
                  /\ call = "open" => OpenBalance
                  /\ call = "close" => CloseBalance

CallInv == PowerInv /\ CallPlaces

LEMMA NextCallPlaces == CallInv /\ [Next]_vars => CallPlaces'
  <1> SUFFICES ASSUME CallInv, [Next]_vars PROVE CallPlaces'
    OBVIOUS
  <1> USE DEF CallInv, CallPlaces, Goto, Return
  <1>1. ASSUME NEW f \in Files, FileOpen(f) \/ Release(f) \/ Release2(f)
        PROVE  CallPlaces'
    BY <1>1 DEF FileOpen, Release, Release2
  <1>2. ASSUME NEW f \in Files, Request(f) PROVE CallPlaces'
    BY <1>2 DEF Request, SetCurrent, SetDriver, OpenSensors, CloseSensors,
                CheckIsAlive, Enter
  <1>3. CASE SkipDriver \/ FailDriver \/ SelectDriver
    BY <1>3 DEF SkipDriver, FailDriver, SelectDriver, NextDriver, PowerInv,
                SearchHolds
  <1>4. CASE OpenSkip \/ OpenPower \/ OpenPowerFails \/ SensorOpen
             \/ SensorOpenFails
    BY <1>4 DEF OpenSkip, OpenPower, OpenPowerFails, SensorOpen,
                SensorOpenFails, NextOpen
  <1>5. CASE CloseSkip \/ SensorClose \/ ClosePower
    BY <1>5 DEF CloseSkip, SensorClose, ClosePower, NextClose, CloseDone,
                PowerInv, SearchHolds, Addressed
  <1>6. CASE SearchPower \/ SearchPowerFails \/ SearchOff \/ SearchOffRefused
    BY <1>6 DEF SearchPower, SearchPowerFails, SearchOff, SearchOffRefused,
                NextSearchOn, NextSearchOff, SearchClose, PowerInv, SearchHolds
  <1>7. CASE Leave \/ UNCHANGED vars
    BY <1>7 DEF Leave, vars
  <1> QED BY <1>1, <1>2, <1>3, <1>4, <1>5, <1>6, <1>7 DEF Next, Step

\* What the step lemmas below need of the state.
LEMMA BalanceFacts ==
    ASSUME CallInv
    PROVE  /\ i \in {0, 1} /\ running \subseteq Sockets
           /\ power \in [Sockets -> Nat] /\ before \in [Sockets -> Nat]
           /\ \A k \in Index : enabled[k] => socket[k] \in Sockets
           /\ pc \in {"sensor_open", "close_power"} => enabled[i]
  BY DEF CallInv, PowerInv, DriverInv, TypeOK, Index, EnabledHasSocket,
         EnabledIsWhole, Addressed, Callable

LEMMA DrivesKept ==
    ASSUME UNCHANGED drivers
    PROVE  \A s : /\ Drive(0, s)' = Drive(0, s) /\ Drive(1, s)' = Drive(1, s)
                 /\ Drives(s)' = Drives(s)
  BY DEF drivers, Drives, Drive

LEMMA OpenKeepsBalance ==
    ASSUME CallInv, BalanceInv,
           OpenSkip \/ OpenPower \/ OpenPowerFails \/ SensorOpen
               \/ SensorOpenFails
    PROVE  BalanceInv'
  <1>1. call = "open" /\ call' = call /\ disturbed' = disturbed
        /\ UNCHANGED drivers /\ UNCHANGED before
    BY DEF CallInv, CallPlaces, OpenSkip, OpenPower, OpenPowerFails,
           SensorOpen, SensorOpenFails, NextOpen, Goto, Return, hardware,
           drivers
  <1> SUFFICES ASSUME ~disturbed PROVE OpenBalance'
    BY <1>1 DEF BalanceInv
  <1>2. OpenBalance
    BY <1>1 DEF BalanceInv
  <1> USE BalanceFacts, DriveNat DEF NextOpen, Goto, Return
  <1>3. \A s : /\ Drive(0, s)' = Drive(0, s) /\ Drive(1, s)' = Drive(1, s)
              /\ Drives(s)' = Drives(s)
    BY <1>1, DrivesKept
  <1>4. before' = before /\ socket' = socket
    BY <1>1 DEF drivers
  <1>5. \A s : Powered(s) \in Nat /\ Powered(s)' \in Nat
    BY <1>3 DEF Powered
  \* The bound grows with the loop.
  <1>51. ASSUME OpenSkip \/ OpenPowerFails \/ SensorOpen \/ SensorOpenFails
         PROVE  \A s : Powered(s)' >= Powered(s)
    <2>1. CASE i = 1
      <3>1. pc = "open" => \A s : Powered(s) = 0
        BY <2>1 DEF Powered
      <3>2. pc = "sensor_open" => \A s : Powered(s) = Drive(1, s)
        BY <2>1 DEF Powered
      <3>3. pc \in {"open", "sensor_open"}
            /\ (pc' = "return" \/ (pc' = "open" /\ i' = 0))
        BY <1>51, <2>1 DEF OpenSkip, OpenPowerFails, SensorOpen, SensorOpenFails
      <3>4. \A s : Powered(s)' = Drive(1, s) \/ Powered(s)' = Drives(s)
        BY <1>3, <3>3 DEF Powered
      <3>5. \A s : Drives(s) >= Drive(1, s)
        BY DEF Drives
      <3> QED BY <1>5, <3>1, <3>2, <3>3, <3>4, <3>5
    <2>2. CASE i = 0
      <3>1. pc \in {"open", "sensor_open"} /\ pc' = "return"
        BY <1>51, <2>2 DEF OpenSkip, OpenPowerFails, SensorOpen, SensorOpenFails
      <3>2. \A s : Powered(s) = Drive(1, s) \/ Powered(s) = Drives(s)
        BY <2>2, <3>1 DEF Powered
      <3>3. \A s : Powered(s)' = Drives(s)
        BY <1>3, <3>1 DEF Powered
      <3>4. \A s : Drives(s) >= Drive(1, s)
        BY DEF Drives
      <3> QED BY <1>5, <3>2, <3>3, <3>4
    <2> QED BY <2>1, <2>2
  <1>6. CASE OpenSkip \/ OpenPowerFails
    <2>1. UNCHANGED <<power, running>> /\ pc = "open"
          /\ pc' \in {"open", "return"}
      BY <1>6 DEF OpenSkip, OpenPowerFails, hardware
    <2>2. \A s : Powered(s)' >= Powered(s) /\ Powered(s) \in Nat /\ Powered(s)' \in Nat
      BY <1>5, <1>51, <1>6
    <2> QED BY <1>2, <1>4, <2>1, <2>2 DEF OpenBalance
  <1>7. CASE OpenPower
    <2>1. socket[i] \in Sockets /\ enabled[i]
          /\ pc = "open" /\ pc' = "sensor_open" /\ i' = i /\ running' = running
      BY <1>7 DEF OpenPower, Addressed, Callable, Index
    <2>2. \A s \in Sockets :
              power'[s] = IF s = socket[i] THEN power[s] + 1 ELSE power[s]
      BY <1>7, <2>1 DEF OpenPower, PowerUp
    <2>3. \A s : /\ Powered(s) \in Nat
                /\ Powered(s)' = Powered(s) + (IF s = socket[i] THEN 1 ELSE 0)
      BY <1>3, <2>1 DEF Powered, Drives, Drive
    <2>4. ASSUME NEW s \in Sockets
          PROVE  /\ power'[s] \in before[s] .. before[s] + Powered(s)'
                 /\ \/ power'[s] = before[s]
                    \/ s \in running
                    \/ s = socket[i] /\ power'[s] = before[s] + 1
                 /\ s = socket[i] => power'[s] > before[s]
      BY <1>2, <2>1, <2>2, <2>3 DEF OpenBalance
    <2> QED BY <1>4, <2>1, <2>4 DEF OpenBalance
  <1>8. CASE SensorOpen \/ SensorOpenFails
    <2>1. pc = "sensor_open" /\ socket[i] \in Sockets
          /\ pc' \in {"open", "return"}
      BY <1>8 DEF SensorOpen, SensorOpenFails, Index
    <2>2. power[socket[i]] > before[socket[i]]
      BY <1>2, <2>1 DEF OpenBalance
    <2>3. \A s : Powered(s)' >= Powered(s) /\ Powered(s) \in Nat /\ Powered(s)' \in Nat
      BY <1>5, <1>51, <1>8
    <2>4. CASE SensorOpen
      <3>1. power' = power /\ running' = running \cup {socket[i]}
        BY <2>4 DEF SensorOpen
      <3> QED BY <1>2, <1>4, <2>1, <2>3, <3>1 DEF OpenBalance
    <2>5. CASE SensorOpenFails
      <3>1. \A s \in Sockets : power'[s] = IF s = socket[i]
                                           THEN power[s] - 1 ELSE power[s]
        BY <2>1, <2>2, <2>5 DEF SensorOpenFails, PowerDown
      <3>2. \A s \in running : power'[s] > 0 \/ s # socket[i] => s \in running'
        BY <2>5 DEF SensorOpenFails
      <3>3. ASSUME NEW s \in Sockets
            PROVE  /\ power'[s] \in before[s] .. before[s] + Powered(s)'
                   /\ power'[s] = before[s] \/ s \in running'
        <4>1. power[s] \in before[s] .. before[s] + Powered(s)
              /\ power[s] \in Nat /\ before[s] \in Nat
          BY <1>2 DEF OpenBalance
        <4>2. CASE s = socket[i]
          <5>1. power'[s] = power[s] - 1 /\ power[s] > before[s]
            BY <2>2, <3>1, <4>2
          <5>2. power[s] = before[s] + 1 \/ s \in running
            BY <1>2, <5>1, <4>1 DEF OpenBalance
          <5> QED BY <2>3, <3>2, <4>1, <5>1, <5>2
        <4>3. CASE s # socket[i]
          <5>1. power'[s] = power[s]
            BY <3>1, <4>3
          <5>2. power[s] = before[s] \/ s \in running
            BY <1>2, <4>3 DEF OpenBalance
          <5> QED BY <2>3, <3>2, <4>1, <4>3, <5>1, <5>2
        <4> QED BY <4>2, <4>3
      <3> QED BY <1>4, <2>1, <3>3 DEF OpenBalance
    <2> QED BY <1>8, <2>4, <2>5
  <1> QED BY <1>6, <1>7, <1>8

LEMMA CloseKeepsBalance ==
    ASSUME CallInv, BalanceInv, CloseSkip \/ SensorClose \/ ClosePower
    PROVE  BalanceInv'
  <1>1. call \in {"close", "search"} /\ call' = call /\ disturbed' = disturbed
        /\ UNCHANGED drivers /\ UNCHANGED before
    BY DEF CallInv, CallPlaces, CloseSkip, SensorClose, ClosePower, NextClose,
           CloseDone, Goto, Return, hardware, drivers
  <1> USE BalanceFacts, DriveNat DEF NextClose, CloseDone, Goto, Return
  <1>2. \A s : /\ Drive(0, s)' = Drive(0, s) /\ Drive(1, s)' = Drive(1, s)
              /\ Drives(s)' = Drives(s)
    BY <1>1, DrivesKept
  <1>3. before' = before /\ socket' = socket
    BY <1>1 DEF drivers
  <1>4. CASE call = "search"
    <2>1. CloseSkip
      BY <1>4 DEF CallInv, PowerInv, SearchHolds, CallPlaces, SensorClose,
                  ClosePower, Addressed
    <2>2. pc = "close" /\ pc' \in {"close", "search_off"} /\ power' = power
          /\ (pc' = "search_off" => i' = 0)
      BY <1>4, <2>1 DEF CloseSkip, hardware
    <2>3. \A s : Lit(s)' = Lit(s)
      BY <1>2, <2>2 DEF Lit
    <2> QED BY <1>1, <1>4, <2>2, <2>3 DEF BalanceInv, SearchBalance
  <1>5. CASE call = "close"
    <2> SUFFICES ASSUME ~disturbed PROVE CloseBalance'
      BY <1>1, <1>5 DEF BalanceInv
    <2>1. CloseBalance
      BY <1>1, <1>5 DEF BalanceInv
    <2>2. CASE CloseSkip \/ SensorClose
      <3>1. power' = power /\ running' \subseteq running
        BY <2>2 DEF CloseSkip, SensorClose, hardware
      <3>2. \A s : Unpowered(s)' >= Unpowered(s) /\ Unpowered(s) \in Nat
                  /\ Unpowered(s)' \in Nat
        BY <1>2, <1>5, <2>2 DEF CloseSkip, SensorClose, Unpowered, Drives
      <3> QED BY <1>3, <2>1, <3>1, <3>2 DEF CloseBalance
    <2>3. CASE ClosePower
      <3>1. pc = "close_power" /\ socket[i] \in Sockets /\ enabled[i]
            /\ socket[i] \notin running /\ running' = running
            /\ pc' \in {"close", "return"} /\ (pc' = "close" => i = 0 /\ i' = 1)
        BY <1>5, <2>3 DEF ClosePower, Index, CallInv, PowerInv
      <3>2. \A s \in Sockets :
                /\ s # socket[i] => power'[s] = power[s]
                /\ s = socket[i] => power'[s] \in {power[s], power[s] - 1}
        BY <2>3, <3>1 DEF ClosePower, PowerDown
      <3>3. \A s \in Sockets :
                  /\ Unpowered(s) \in Nat /\ Unpowered(s)' \in Nat
                  /\ Unpowered(s)' >= Unpowered(s)
                  /\ s = socket[i] => Unpowered(s)' >= Unpowered(s) + 1
        BY <1>2, <3>1 DEF Unpowered, Drives, Drive
      <3>4. ASSUME NEW s \in Sockets
            PROVE  /\ power'[s] \in before[s] - Unpowered(s)' .. before[s]
                   /\ power'[s] = before[s] \/ s \notin running'
        <4>1. /\ power[s] \in before[s] - Unpowered(s) .. before[s]
              /\ power[s] = before[s] \/ s \notin running
              /\ power[s] \in Nat /\ before[s] \in Nat
          BY <2>1 DEF CloseBalance
        <4>2. CASE s = socket[i]
          <5>1. power'[s] \in {power[s], power[s] - 1} /\ s \notin running'
            BY <3>1, <3>2, <4>2
          <5>2. Unpowered(s) \in Nat /\ Unpowered(s)' \in Nat
                /\ Unpowered(s)' >= Unpowered(s) + 1
            BY <3>3, <4>2
          <5>3. before[s] - Unpowered(s) <= power[s] /\ power[s] <= before[s]
            BY <4>1, <5>2
          <5>4. power'[s] \in Int /\ before[s] - Unpowered(s)' <= power'[s]
                /\ power'[s] <= before[s]
            BY <4>1, <5>1, <5>2, <5>3
          <5> QED BY <4>1, <5>1, <5>2, <5>4
        <4>3. CASE s # socket[i]
          <5>1. power'[s] = power[s] /\ running' = running
            BY <3>1, <3>2, <4>3
          <5>2. Unpowered(s) \in Nat /\ Unpowered(s)' \in Nat
                /\ Unpowered(s)' >= Unpowered(s)
            BY <3>3
          <5> QED BY <4>1, <5>1, <5>2
        <4> QED BY <4>2, <4>3
      <3> QED BY <1>3, <3>4 DEF CloseBalance
    <2> QED BY <2>2, <2>3
  <1> QED BY <1>1, <1>4, <1>5

LEMMA SearchKeepsBalance ==
    ASSUME CallInv, BalanceInv,
           SearchPower \/ SearchPowerFails \/ SearchOff \/ SearchOffRefused
    PROVE  BalanceInv'
  <1>1. call = "search" /\ call' = call /\ UNCHANGED before
    BY DEF CallInv, PowerInv, SearchHolds, SearchPower, SearchPowerFails,
           SearchOff, SearchOffRefused, NextSearchOn, NextSearchOff,
           SearchClose, Goto, Return, drivers
  <1> USE BalanceFacts, DriveNat
      DEF NextSearchOn, NextSearchOff, SearchClose, Goto, Return
  <1>2. CASE SearchPowerFails
    BY <1>2 DEF SearchPowerFails, BalanceInv
  <1>3. ~SearchPowerFails => disturbed' = disturbed
    BY DEF SearchPower, SearchOff, SearchOffRefused
  <1> SUFFICES ASSUME ~disturbed, ~SearchPowerFails PROVE SearchBalance'
    BY <1>1, <1>2, <1>3 DEF BalanceInv
  <1>4. pc \in {"search_on", "search_off"} /\ SearchBalance
    BY <1>1 DEF BalanceInv, SearchPower, SearchOff, SearchOffRefused
  <1>5. \A s \in Sockets : power[s] = before[s] + Lit(s)
    BY <1>4 DEF SearchBalance
  <1>6. TypeOK /\ EnabledIsWhole /\ before' = before
    BY <1>1 DEF CallInv, PowerInv, DriverInv, EnabledHasSocket
  <1>7. CASE SearchPower
    <2>1. pc' # "return"
      BY <1>7 DEF SearchPower
    <2> QED BY <1>5, <1>6, <1>7, <2>1, LitMoves DEF SearchBalance
  <1>8. CASE SearchOff
    <2>1. \A s \in Sockets : Lit(s) >= Drive(i, s)
      BY <1>8 DEF SearchOff, Lit, Drives
    <2>2. \A s \in Sockets : power'[s] = power[s] - Drive(i, s)
      BY <1>5, <1>6, <1>8, <2>1, LitMoves
    <2>3. power' \in [Sockets -> Int]
      BY <1>8 DEF SearchOff, PowerDown
    <2>4. CASE i = 0
      <3>1. pc' = "search_off"
        BY <1>8, <2>4 DEF SearchOff
      <3>2. \A s \in Sockets : Lit(s)' = Lit(s) - Drive(i, s)
        BY <1>6, <1>8, <2>4, LitMoves
      <3> QED BY <1>5, <1>6, <2>2, <3>1, <3>2 DEF SearchBalance
    <2>5. CASE i = 1
      <3>1. \A s \in Sockets : Lit(s) = Drive(i, s)
        BY <1>6, <1>8, <2>5, LitMoves
      <3>2. \A s \in Sockets : power'[s] = before[s]
        BY <1>5, <2>2, <2>5, <3>1
      <3>3. pc' = "return"
        BY <1>8, <2>5 DEF SearchOff
      <3> QED BY <1>6, <2>3, <3>2, <3>3 DEF SearchBalance
    <2> QED BY <2>4, <2>5
  <1>9. CASE SearchOffRefused
    <2>1. socket[i] \in Sockets /\ Lit(socket[i]) > 0
      BY <1>9 DEF SearchOffRefused, Lit, Index, Drives, Drive
    <2> QED BY <1>5, <1>9, <2>1 DEF SearchOffRefused
  <1> QED BY <1>7, <1>8, <1>9

LEMMA NextBalance == CallInv /\ BalanceInv /\ [Next]_vars => BalanceInv'
  <1> SUFFICES ASSUME CallInv, BalanceInv, [Next]_vars PROVE BalanceInv'
    OBVIOUS
  <1>1. ASSUME NEW f \in Files, FileOpen(f) \/ Release2(f) PROVE BalanceInv'
    <2>1. UNCHANGED <<call, pc, i, drivers, hardware, before, disturbed>>
      BY <1>1 DEF FileOpen, Release2
    <2> QED
      BY <2>1 DEF BalanceInv, SearchBalance, OpenBalance, CloseBalance,
                  Powered, Unpowered, Lit, Drives, Drive, drivers, hardware
  <1>2. ASSUME NEW f \in Files, Release(f) PROVE BalanceInv'
    BY <1>2 DEF Release, checkPowerBeforClose, BalanceInv
  <1>3. ASSUME NEW f \in Files, Request(f) PROVE BalanceInv'
    <2>1. CASE SetCurrent(f) \/ SetDriver(f)
      BY <2>1 DEF SetCurrent, SetDriver, Enter, BalanceInv
    <2>2. CASE OpenSensors(f) \/ CloseSensors(f)
      <3>1. \A s : Powered(s)' \in Nat /\ Unpowered(s)' \in Nat
        BY <2>2, DriveNat, DrivesKept
        DEF OpenSensors, CloseSensors, Enter, Powered, Unpowered
      <3> QED
        BY <2>2, <3>1, BalanceFacts
        DEF OpenSensors, CloseSensors, Enter, Snapshot, hardware, BalanceInv,
            OpenBalance, CloseBalance
    <2>3. CASE CheckIsAlive(f)
      <3>1. \A s : Lit(s)' = 0
        BY <2>3 DEF CheckIsAlive, Enter, Lit
      <3> QED
        BY <2>3, <3>1, BalanceFacts
        DEF CheckIsAlive, Enter, Snapshot, hardware, BalanceInv, SearchBalance
    <2> QED BY <1>3, <2>1, <2>2, <2>3 DEF Request
  <1>4. CASE SkipDriver \/ FailDriver \/ SelectDriver
    <2>1. call \notin {"open", "close", "search"} /\ call' = call
      BY <1>4 DEF CallInv, CallPlaces, PowerInv, SearchHolds, SkipDriver,
                  FailDriver, SelectDriver, NextDriver, Goto, Return
    <2> QED BY <2>1 DEF BalanceInv
  <1>5. CASE Leave
    BY <1>5 DEF Leave, BalanceInv
  <1>6. CASE UNCHANGED vars
    BY <1>6 DEF vars, drivers, hardware, BalanceInv, SearchBalance,
                OpenBalance, CloseBalance, Powered, Unpowered, Lit, Drives,
                Drive
  <1> QED
    BY <1>1, <1>2, <1>3, <1>4, <1>5, <1>6, OpenKeepsBalance,
       CloseKeepsBalance, SearchKeepsBalance
    DEF Next, Step

\* However a call ends, undisturbed by a release or a power failure, it has
\* given back what it took: a search all of it, an open what it did not leave
\* with a running sensor, a close at most one enable of a closed one.
THEOREM BalanceTheorem == Spec => []PowerBalance
  <1>1. Init => CallInv /\ BalanceInv
    BY InitPowerInv DEF Init, CallInv, CallPlaces, BalanceInv
  <1>2. CallInv /\ BalanceInv /\ [Next]_vars => (CallInv /\ BalanceInv)'
    BY NextPowerInv, NextCallPlaces, NextBalance DEF CallInv
  <1>3. CallInv /\ BalanceInv => PowerBalance
    BY DEF CallInv, BalanceInv, PowerBalance, SearchBalance, OpenBalance,
           CloseBalance, Powered, Unpowered
  <1> QED BY <1>1, <1>2, <1>3, PTL DEF Spec
=============================================================================
