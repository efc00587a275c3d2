------------------------------ MODULE KdExposure -----------------------------
(***************************************************************************)
(* The delayed exposure and gain of the camera sensors (atom_i2c/kernel/   *)
(* kd_sensorlist.c).  SET_SENSOR_SYNC leaves values and three delays, in   *)
(* frames, in g_NewSensorExpGain; each frame counts them down and applies  *)
(* what is due, to the main sensor whichever the request was for.          *)
(* SET_ESHUTTER_GAIN stores its values over those that wait.  The ioctls   *)
(* and the frames hold kdCam_Mutex; the ISP takes the raw gains without    *)
(* it, and without the spin lock that covers the stores.                   *)
(***************************************************************************)
EXTENDS Naturals

CONSTANTS
  Cameras,   \* the sensors a request may be for
  Main,      \* DUAL_CAMERA_MAIN_SENSOR, one of them
  Delays,    \* the delays a request may ask for
  MaxSyncs,  \* bound: requests
  MaxFrames  \* bound: frames after a request

Off == 255  \* 0xFF: nothing is pending

ASSUME ExposureAssumption ==
  /\ Main \in Cameras
  /\ MaxSyncs \in Nat /\ MaxFrames \in 0 .. 200
  /\ Delays \subseteq (0 .. 200) \cup {Off}

VARIABLES
  kd_delay,    \* [exp, gain]: the delays of the sensor's exposure and gain
  kd_value,    \* the request whose exposure and gain are stored, or NoRequest
  kd_isp,      \* the delay of the ISP's gains
  kd_gains,    \* the requests whose values the two halves of the gains are
  kd_pc,       \* what the holder of kdCam_Mutex does; "free": nobody
  kd_ask,      \* its request, from the copy-in to the stores
  kd_flag,     \* setExpGainDoneFlag
  kd_reader,   \* kdGetRawGainInfoPtr: "idle", "half", "rest" or "off"
  kd_got,      \* the halves it has read
  kd_syncs,    \* history: requests so far (numbers them)
  kd_asked,    \* history: the last request not cancelled
  kd_age,      \* history: frames since it
  kd_shot,     \* history: the age at which its values were overwritten, or Off
  kd_done,     \* history: the age at which exposure and gain were applied
  kd_given,    \* history: then to which sensor, and whose values
  kd_taken,    \* history: how often the ISP took the gains (at most 2)
  kd_crossed,  \* history: the ISP was reading when the delays were stored
  kd_overlap   \* history: stores ran during the ISP's reading

sensorVars == <<kd_delay, kd_value, kd_shot, kd_done, kd_given>>
ispVars == <<kd_isp, kd_gains, kd_crossed, kd_overlap>>
readerVars == <<kd_reader, kd_got, kd_taken>>
kdVars == <<sensorVars, ispVars, readerVars, kd_pc, kd_ask, kd_flag, kd_syncs,
            kd_asked, kd_age>>

Fields == {"exp", "gain"}
NoDelays == [x \in Fields |-> Off]
NoRequest == 0
NoAsk == [exp |-> Off, gain |-> Off, isp |-> Off, to |-> Main, n |-> NoRequest]
Byte == 0 .. 255
Requests == [exp : Delays \cup {Off}, gain : Delays \cup {Off},
             isp : Delays \cup {Off}, to : Cameras, n : 0 .. MaxSyncs]
Gift(to, of) == [to |-> to, of |-> of]
NoGifts == [x \in Fields |-> Gift(Main, NoRequest)]
Gifts == [to : Cameras, of : 0 .. MaxSyncs]

ExposureTypeOK ==
  /\ kd_delay \in [Fields -> Byte] /\ kd_isp \in Byte
  /\ kd_gains \in [1 .. 2 -> 0 .. MaxSyncs]
  /\ kd_pc \in {"free", "stores", "test", "dec", "wait"}
  /\ kd_ask \in Requests /\ kd_asked \in Requests
  /\ kd_value \in 0 .. MaxSyncs
  /\ kd_flag \in BOOLEAN
  /\ kd_reader \in {"idle", "half", "rest", "off"}
  /\ kd_got \in [1 .. 2 -> 0 .. MaxSyncs]
  /\ kd_syncs \in 0 .. MaxSyncs
  /\ kd_age \in 0 .. MaxFrames
  /\ kd_shot = Off \/ kd_shot \in 0 .. kd_age
  /\ kd_done \in [Fields -> Byte]
  /\ kd_given \in [Fields -> Gifts]
  /\ kd_taken \in 0 .. 2
  /\ kd_crossed \in BOOLEAN /\ kd_overlap \in BOOLEAN

ExposureInit ==
  /\ kd_delay = NoDelays /\ kd_isp = Off
  /\ kd_gains = [h \in 1 .. 2 |-> 0] /\ kd_got = [h \in 1 .. 2 |-> 0]
  /\ kd_pc = "free" /\ kd_flag = FALSE /\ kd_reader = "idle"
  /\ kd_ask = NoAsk /\ kd_asked = NoAsk
  /\ kd_value = NoRequest /\ kd_shot = Off
  /\ kd_given = NoGifts
  /\ kd_syncs = 0 /\ kd_age = 0 /\ kd_done = NoDelays
  /\ kd_taken = 0 /\ kd_crossed = FALSE /\ kd_overlap = FALSE

\* A value whose delay is 0 is given to the sensor, once; else it is counted.
Due(d) == d = 0
Count(d) == IF d = 0 THEN Off ELSE IF d # Off THEN d - 1 ELSE d

Applied(d, old, new) == [x \in Fields |-> IF Due(d[x]) THEN new ELSE old[x]]
Counted(d) == [x \in Fields |-> Count(d[x])]

(***************************************************************************)
(* SET_SENSOR_SYNC.  The stores are under the spin lock; the ISP, which    *)
(* does not take it to read, may run between them.  An exposure of 0 or    *)
(* 0xFFFF is no exposure.                                                  *)
(***************************************************************************)
SyncStart(c, e, g, i, blank) ==
  /\ kd_pc = "free" /\ kd_syncs < MaxSyncs
  /\ kd_pc' = "stores" /\ kd_syncs' = kd_syncs + 1
  /\ kd_ask' = [exp |-> IF blank THEN Off ELSE e, gain |-> g, isp |-> i,
                to |-> c, n |-> kd_syncs + 1]
  /\ kd_gains' = [kd_gains EXCEPT ![1] = kd_syncs + 1]
  /\ kd_overlap' = (kd_reader # "idle")
  /\ UNCHANGED <<sensorVars, kd_isp, kd_crossed, kd_flag, readerVars, kd_asked,
                 kd_age>>

SyncStores ==
  /\ kd_pc = "stores" /\ kd_pc' = "test"
  /\ kd_gains' = [kd_gains EXCEPT ![2] = kd_syncs]
  /\ kd_value' = kd_ask.n
  /\ kd_delay' = Counted([x \in Fields |-> kd_ask[x]])
  /\ kd_done' = Applied([x \in Fields |-> kd_ask[x]], NoDelays, 0)
  /\ kd_given' = Applied([x \in Fields |-> kd_ask[x]], NoGifts,
                         Gift(kd_ask.to, kd_ask.n))
  /\ kd_isp' = kd_ask.isp
  /\ kd_asked' = kd_ask /\ kd_ask' = NoAsk /\ kd_age' = 0 /\ kd_shot' = Off
  /\ kd_taken' = 0
  /\ kd_crossed' = (kd_reader # "idle")
  /\ kd_overlap' = (kd_reader # "idle")
  /\ UNCHANGED <<kd_flag, kd_reader, kd_got, kd_syncs>>

\* kdSensorSyncFunctionPtr, at each frame: the sensor is the main one.
Frame ==
  /\ kd_pc = "free" /\ kd_age < MaxFrames
  /\ kd_pc' = "test" /\ kd_age' = kd_age + 1
  /\ kd_done' = Applied(kd_delay, kd_done, kd_age + 1)
  /\ kd_given' = Applied(kd_delay, kd_given, Gift(Main, kd_value))
  /\ kd_delay' = Counted(kd_delay)
  /\ UNCHANGED <<kd_value, kd_shot, ispVars, readerVars, kd_ask, kd_flag,
                 kd_syncs, kd_asked>>

\* Both then look at the delay of the ISP's gains, and count it in a later
\* step.
TestIsp ==
  /\ kd_pc = "test"
  /\ kd_pc' = IF kd_isp # Off /\ kd_isp # 0 THEN "dec" ELSE "free"
  /\ UNCHANGED <<sensorVars, ispVars, readerVars, kd_ask, kd_flag, kd_syncs,
                 kd_asked, kd_age>>

CountIsp ==
  /\ kd_pc = "dec" /\ kd_pc' = "free"
  /\ kd_isp' = (kd_isp + 255) % 256
  /\ UNCHANGED <<sensorVars, kd_gains, kd_crossed, kd_overlap, readerVars,
                 kd_ask, kd_flag, kd_syncs, kd_asked, kd_age>>

\* Mutant: the cancellation forgets the sensor's own delays.
Cancel_Isp ==
  /\ kd_pc = "free"
  /\ kd_isp' = Off
  /\ kd_asked' = NoAsk /\ kd_done' = NoDelays /\ kd_given' = NoGifts
  /\ UNCHANGED <<kd_delay, kd_value, kd_shot, kd_gains, kd_crossed, kd_overlap,
                 readerVars, kd_pc, kd_ask, kd_flag, kd_syncs, kd_age>>

\* SET_ESHUTTER, SET_GAIN and closing the sensor drop what is pending.
Cancel ==
  /\ kd_pc = "free"
  /\ kd_delay' = NoDelays /\ kd_isp' = Off
  /\ kd_asked' = NoAsk /\ kd_done' = NoDelays /\ kd_given' = NoGifts
  /\ UNCHANGED <<kd_value, kd_shot, kd_gains, kd_crossed, kd_overlap,
                 readerVars, kd_pc, kd_ask, kd_flag, kd_syncs, kd_age>>

\* SET_ESHUTTER_GAIN stores its values over those of a request that waits,
\* leaves the delays, and applies them at once to its own sensor.  The flag is
\* clear only inside.
kdSetExpGain ==
  /\ kd_pc = "free" /\ kd_flag' = TRUE
  /\ kd_value' = NoRequest
  /\ kd_shot' = IF kd_shot = Off THEN kd_age ELSE kd_shot
  /\ UNCHANGED <<kd_delay, kd_done, kd_given, ispVars, readerVars, kd_pc,
                 kd_ask, kd_syncs, kd_asked, kd_age>>

\* kdSensorSetExpGainWaitDone holds the mutex that kdSetExpGain needs: with
\* the flag clear it ends by its timeout or a signal, and stops the frames.
WaitDone ==
  /\ \/ kd_pc = "free" /\ ~kd_flag /\ kd_pc' = "wait"
     \/ kd_pc = "wait" /\ kd_pc' = "free"
  /\ UNCHANGED <<sensorVars, ispVars, readerVars, kd_ask, kd_flag, kd_syncs,
                 kd_asked, kd_age>>

(***************************************************************************)
(* kdGetRawGainInfoPtr.                                                    *)
(***************************************************************************)
ReadStart ==
  /\ kd_reader = "idle" /\ kd_isp = 0
  /\ kd_reader' = "half" /\ kd_overlap' = (kd_pc = "stores")
  /\ UNCHANGED <<sensorVars, kd_isp, kd_gains, kd_crossed, kd_got, kd_taken,
                 kd_pc, kd_ask, kd_flag, kd_syncs, kd_asked, kd_age>>

ReadHalf(h, from, to) ==
  /\ kd_reader = from /\ kd_reader' = to
  /\ kd_got' = [kd_got EXCEPT ![h] = kd_gains[h]]
  /\ UNCHANGED <<sensorVars, ispVars, kd_taken, kd_pc, kd_ask, kd_flag,
                 kd_syncs, kd_asked, kd_age>>

\* Mutant: the delay is left as it is.
ReadEnd_Keep ==
  /\ kd_reader = "off" /\ kd_reader' = "idle"
  /\ kd_taken' = IF kd_taken < 2 THEN kd_taken + 1 ELSE 2
  /\ UNCHANGED <<sensorVars, ispVars, kd_got, kd_pc, kd_ask, kd_flag, kd_syncs,
                 kd_asked, kd_age>>

ReadEnd ==
  /\ kd_reader = "off" /\ kd_reader' = "idle"
  /\ kd_taken' = IF kd_taken < 2 THEN kd_taken + 1 ELSE 2
  /\ kd_isp' = Off
  /\ UNCHANGED <<sensorVars, kd_gains, kd_crossed, kd_overlap, kd_got, kd_pc,
                 kd_ask, kd_flag, kd_syncs, kd_asked, kd_age>>

ExposureNext ==
  \/ \E c \in Cameras, e, g, i \in Delays, blank \in BOOLEAN :
       SyncStart(c, e, g, i, blank)
  \/ SyncStores \/ Frame \/ TestIsp \/ CountIsp \/ Cancel \/ kdSetExpGain
  \/ WaitDone \/ ReadStart \/ ReadHalf(1, "half", "rest")
  \/ ReadHalf(2, "rest", "off") \/ ReadEnd

ExposureSpec == ExposureInit /\ [][ExposureNext]_kdVars

-----------------------------------------------------------------------------
\* The exposure and the gain of the last request that was not cancelled are
\* given exactly once, at the frame the request asked for and not before,
\* whether the request's own countdown (2096-2123) or a frame's (1312-1335)
\* reaches zero; to the request's own sensor if it asked for no delay, to the
\* main sensor if a frame gives them; and with the request's own values unless
\* a SET_ESHUTTER_GAIN stored others before they were due (2163-2164), which
\* are then given in their place, never those of an earlier request.
ExposureOnTime ==
  \A x \in Fields :
    /\ kd_done[x] = IF kd_asked[x] <= kd_age THEN kd_asked[x] ELSE Off
    /\ kd_done[x] # Off =>
         kd_given[x] = Gift(IF kd_asked[x] = 0 THEN kd_asked.to ELSE Main,
                            IF kd_asked[x] <= kd_shot THEN kd_asked.n
                            ELSE NoRequest)

\* The frames left before the ISP may take the gains, one less than asked.
IspDue == IF kd_asked.isp <= kd_age + 1 THEN 0 ELSE kd_asked.isp - 1 - kd_age

\* Unless stores overlap the ISP's reading (1358-1367), the ISP gets the four
\* gains of one request, the last; and unless it was reading when the delay
\* was stored, in which case the new request can be lost or its delay become
\* 0xFE, the gains wait for their frame, neither early nor again.
GainsWhole ==
  /\ kd_reader = "off" /\ ~kd_overlap =>
       kd_got[1] = kd_got[2] /\ kd_got[1] = kd_syncs
  /\ kd_pc \in {"free", "wait"} /\ ~kd_crossed /\ kd_isp # Off =>
       kd_isp = IspDue
  /\ ~kd_crossed => kd_taken <= 1
==============================================================================
