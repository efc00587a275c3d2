--------------------------------- MODULE KdI2c --------------------------------
(***************************************************************************)
(* The functions that call every selected sensor in turn and the I2C       *)
(* transfers those sensors make (atom_i2c/kernel/kd_sensorlist.c).  The    *)
(* ioctls and the frames hold kdCam_Mutex: of theirs one function, one     *)
(* sensor and one transfer are in progress at most.  The writers of        *)
(* /proc/driver/camsensor, 2 and 3 call feature control without it, at any *)
(* time; they are a second actor here.  What functions share from one call *)
(* to the next is the selected bus and, per bus, the client with its       *)
(* address and flags.                                                      *)
(*                                                                         *)
(* Sensors are outside the repository: one called makes any transfers, and *)
(* returns an error or not.  Left out: data, lengths, delays, bus speed;   *)
(* the power of the sensors, which KdSensor models.                        *)
(***************************************************************************)
EXTENDS Integers

\* The sockets and the bus each sensor is on: DUAL_CAMERA_SUB_SENSOR has the
\* second, the others the first.
Sockets == {"main", "sub", "main2"}
None == "none"
Index == {0, 1}   \* KDIMGSENSOR_MAX_INVOKE_DRIVERS = 2
Buses == {1, 2}
Home(s) == IF s = "sub" THEN 2 ELSE 1

Reads == {"iReadReg", "iMultiReadReg"}
Ops == Reads \cup {"iWriteReg", "iBurstWriteReg", "iMultiWriteReg"}
Unselecting == {"info", "resolution"}
Functions == Unselecting \cup {"open", "feature", "control", "close", "search",
                               "suspend", "resume"}
Nobody == 2       \* an address that is no driver's

VARIABLES
  kb_socket,   \* the sockets of the enabled drivers
  kb_bus,      \* gI2CBusNum
  kb_addr,     \* the driver whose address each client has
  kb_flags,    \* the ext_flag of each client
  kb_search,   \* g_IsSearchSensor
  kb_fn,       \* the function in progress
  kb_for,      \* the sockets it addresses
  kb_i,        \* its loop index
  kb_pc,       \* "idle", "loop", "sensor", "send" or "recv"
  kb_op,       \* the transfer in progress
  kb_left,     \* attempts left of it
  kb_old,      \* old_addr of a burst
  kb_proc,     \* the socket that a write to /proc addresses
  kb_mixed     \* history: such a write overlaps this function

busVars == <<kb_bus, kb_addr, kb_flags>>
loopVars == <<kb_fn, kb_for, kb_i, kb_search>>
opVars == <<kb_op, kb_left, kb_old>>
procVars == <<kb_proc, kb_mixed>>
kbVars == <<kb_socket, busVars, loopVars, kb_pc, opVars, procVars>>

I2cTypeOK ==
  /\ kb_socket \in [Index -> Sockets \cup {None}]
  /\ kb_bus \in Buses
  /\ kb_addr \in [Buses -> 0 .. Nobody]
  /\ kb_flags \in [Buses -> SUBSET {"dma", "filter"}]
  /\ kb_search \in BOOLEAN
  /\ kb_fn \in Functions \cup {None} /\ kb_for \subseteq Sockets
  /\ kb_i \in -1 .. 3
  /\ kb_pc \in {"idle", "loop", "sensor", "send", "recv"}
  /\ kb_op \in Ops \cup {None} /\ kb_left \in 0 .. 4
  /\ kb_old \in 0 .. Nobody
  /\ kb_proc \in Sockets \cup {None} /\ kb_mixed \in BOOLEAN

\* kdSetDriver gives the drivers their sockets and leaves the bus of the last
\* one selected.
I2cInit ==
  /\ kb_socket \in [Index -> Sockets \cup {None}]
  /\ kb_bus \in Buses
  /\ kb_addr = [b \in Buses |-> Nobody] /\ kb_flags = [b \in Buses |-> {}]
  /\ kb_search = FALSE /\ kb_fn = None /\ kb_for = {} /\ kb_i = 0
  /\ kb_pc = "idle" /\ kb_op = None /\ kb_left = 0 /\ kb_old = Nobody
  /\ kb_proc = None /\ kb_mixed = FALSE

-----------------------------------------------------------------------------
\* kd_MultiSensorOpen goes through the drivers downwards, the others upwards.
First(fn) == IF fn = "open" THEN 1 ELSE 0
Following(fn, k) == IF fn = "open" THEN k - 1 ELSE k + 1
Selected(k) == k \in Index /\ kb_socket[k] \in kb_for

\* Sockets without a driver make no difference.
Driven == {kb_socket[k] : k \in Index} \cap Sockets

Begin(fn, addressed) ==
  /\ kb_fn' = fn /\ kb_for' = addressed \cap Driven /\ kb_i' = First(fn)
  /\ kb_pc' = "loop"

\* Open and close address the sensors of g_CurrentSensorIdx, feature control
\* and control one socket, the others every sensor.
Enter ==
  /\ kb_pc = "idle"
  /\ \/ \E fn \in {"open", "close"}, S \in SUBSET Sockets : Begin(fn, S)
     \/ \E fn \in {"feature", "control"}, s \in Sockets : Begin(fn, {s})
     \/ \E fn \in Unselecting : Begin(fn, Sockets)
  /\ kb_mixed' = (kb_proc # None)
  /\ UNCHANGED <<kb_socket, busVars, kb_search, opVars, kb_proc>>

\* CheckIsAlive asks every enabled sensor for its identity, by feature
\* control.
CheckIsAlive ==
  /\ kb_pc = "idle" /\ Begin("search", Sockets) /\ kb_search' = TRUE
  /\ kb_mixed' = (kb_proc # None)
  /\ UNCHANGED <<kb_socket, busVars, opVars, kb_proc>>

Skip ==
  /\ kb_pc = "loop" /\ kb_i \in Index /\ ~Selected(kb_i)
  /\ kb_i' = Following(kb_fn, kb_i)
  /\ UNCHANGED <<kb_socket, busVars, kb_fn, kb_for, kb_search, kb_pc, opVars,
                 procVars>>

\* A sensor is called with its bus selected; kd_MultiSensorGetInfo and
\* kd_MultiSensorGetResolution call it with whichever is.
Call ==
  /\ kb_pc = "loop" /\ Selected(kb_i) /\ kb_pc' = "sensor"
  /\ kb_bus' = IF kb_fn \in Unselecting THEN kb_bus ELSE Home(kb_socket[kb_i])
  /\ UNCHANGED <<kb_socket, kb_addr, kb_flags, loopVars, opVars, procVars>>

\* An error ends the loop, but not that of a search.
Failed == 3

Back ==
  /\ kb_pc = "sensor" /\ kb_pc' = "loop"
  /\ \/ kb_i' = Following(kb_fn, kb_i)
     \/ kb_fn # "search" /\ kb_i' = Failed
  /\ UNCHANGED <<kb_socket, busVars, kb_fn, kb_for, kb_search, opVars,
                 procVars>>

\* With two sensors kd_MultiSensorControl, unless it failed, ends by suspending
\* and resuming the second one, whatever that returns.
Resumes ==
  /\ kb_socket[1] # None
  /\ kb_fn = "suspend" \/ (kb_fn = "control" /\ kb_i # Failed)

Return ==
  /\ kb_pc = "loop" /\ kb_i \notin Index
  /\ IF Resumes
     THEN /\ Begin(IF kb_fn = "control" THEN "suspend" ELSE "resume",
                   {kb_socket[1]})
          /\ UNCHANGED <<kb_search, kb_mixed>>
     ELSE /\ kb_pc' = "idle" /\ kb_fn' = None /\ kb_for' = {} /\ kb_i' = 0
          /\ kb_search' = FALSE /\ kb_mixed' = FALSE
  /\ UNCHANGED <<kb_socket, busVars, opVars, kb_proc>>

-----------------------------------------------------------------------------
Filtered(flags) == IF kb_search THEN flags \cup {"filter"}
                   ELSE flags \ {"filter"}

\* Mutant: writing leaves the flag of a burst before it.
Flags_Write(op, b) ==
  CASE op = "iReadReg" -> Filtered(IF b = 1 THEN kb_flags[b] \ {"dma"}
                                   ELSE kb_flags[b])
    [] op = "iMultiReadReg" -> kb_flags[b]
    [] op = "iWriteReg" -> kb_flags[b]
    [] OTHER -> kb_flags[b] \cup {"dma"}

\* What a function makes of the flags of its client.  On the second bus a read
\* leaves I2C_DMA_FLAG as it was, and iMultiReadReg does so on both.
Flags(op, b) ==
  CASE op = "iReadReg" -> Filtered(IF b = 1 THEN kb_flags[b] \ {"dma"}
                                   ELSE kb_flags[b])
    [] op = "iMultiReadReg" -> kb_flags[b]
    [] op = "iWriteReg" -> kb_flags[b] \ {"dma"}
    [] OTHER -> kb_flags[b] \cup {"dma"}

Attempts(op) ==
  CASE op = "iWriteReg" -> 4 [] op = "iBurstWriteReg" -> 3 [] OTHER -> 1

\* A burst that is too long or finds no memory returns before it does anything.
Start(op) ==
  /\ kb_pc = "sensor" /\ kb_pc' = "send"
  /\ kb_op' = op /\ kb_left' = Attempts(op)
  /\ kb_addr' = [kb_addr EXCEPT ![kb_bus] = kb_i]
  /\ kb_flags' = [kb_flags EXCEPT ![kb_bus] = Flags(op, kb_bus)]
  /\ kb_old' = IF op = "iBurstWriteReg" THEN kb_addr[kb_bus] ELSE Nobody
  /\ UNCHANGED <<kb_socket, kb_bus, loopVars, procVars>>

Done ==
  /\ kb_pc' = "sensor" /\ kb_op' = None /\ kb_left' = 0 /\ kb_old' = Nobody
  /\ kb_addr' = IF kb_op = "iBurstWriteReg"
                THEN [kb_addr EXCEPT ![kb_bus] = kb_old] ELSE kb_addr
  /\ UNCHANGED <<kb_socket, kb_bus, kb_flags, loopVars, procVars>>

\* iWriteReg looks at the length only after it has set up the client.
Refuse == kb_pc = "send" /\ kb_op = "iWriteReg" /\ kb_left = 4 /\ Done

Sent ==
  /\ kb_pc = "send"
  /\ \/ /\ kb_op \in Reads /\ kb_pc' = "recv"
        /\ UNCHANGED <<kb_socket, busVars, loopVars, opVars, procVars>>
     \/ kb_op \notin Reads /\ Done

\* Mutant: the attempts are counted but not tested.
SendFails_Forever ==
  /\ kb_pc = "send" /\ kb_left' = kb_left - 1
  /\ UNCHANGED <<kb_socket, busVars, loopVars, kb_pc, kb_op, kb_old, procVars>>

\* A write that failed is tried again; after the last attempt it returns 0 like
\* one that went through.  A read that failed returns an error.
SendFails ==
  /\ kb_pc = "send"
  /\ \/ /\ kb_left > 1 /\ kb_left' = kb_left - 1
        /\ UNCHANGED <<kb_socket, busVars, loopVars, kb_pc, kb_op, kb_old,
                       procVars>>
     \/ kb_left = 1 /\ Done

\* iMultiReadReg takes every length but one for a failure (311).
Receive == kb_pc = "recv" /\ Done

-----------------------------------------------------------------------------
(* A write to /proc/driver/camsensor (main), camsensor2 (main2) or camsensor3 *)
(* (sub): feature control of the drivers of its socket, under no lock.        *)

ProcStart(s) ==
  /\ kb_proc = None /\ kb_proc' = s
  /\ kb_mixed' = (kb_pc # "idle")
  /\ UNCHANGED <<kb_socket, busVars, loopVars, kb_pc, opVars>>

ProcEnd ==
  /\ kb_proc # None /\ kb_proc' = None
  /\ UNCHANGED <<kb_socket, busVars, loopVars, kb_pc, opVars, kb_mixed>>

\* It selects the bus and its sensors set up transfers on what then is the
\* selected one; the end of a burst puts back whichever address it found.
ProcSteps ==
  /\ kb_proc # None
  /\ \E k \in Index :
       /\ kb_socket[k] = kb_proc
       /\ \/ kb_bus' = Home(kb_proc) /\ UNCHANGED <<kb_addr, kb_flags>>
          \/ \E op \in Ops, b \in Buses :
               /\ kb_addr' = [kb_addr EXCEPT ![b] = k]
               /\ kb_flags' = [kb_flags EXCEPT ![b] = Flags(op, b)]
               /\ UNCHANGED kb_bus
          \/ \E b \in Buses, a \in 0 .. Nobody :
               /\ kb_addr' = [kb_addr EXCEPT ![b] = a]
               /\ UNCHANGED <<kb_bus, kb_flags>>
  /\ UNCHANGED <<kb_socket, loopVars, kb_pc, opVars, procVars>>

I2cNext ==
  \/ Enter \/ CheckIsAlive \/ Skip \/ Call \/ Back \/ Return
  \/ \E op \in Ops : Start(op)
  \/ Refuse \/ Sent \/ SendFails \/ Receive
  \/ \E s \in Driven : ProcStart(s)
  \/ ProcSteps \/ ProcEnd

I2cSpec == I2cInit /\ [][I2cNext]_kbVars

-----------------------------------------------------------------------------
\* Whatever was called before, in whatever order, with whatever failures, and
\* whatever a write to /proc did then: in a call that no such write overlaps, a
\* sensor's transfer goes to its own address, retries included, over the bus of
\* its own socket, except for the two functions that select none (865-875,
\* 896-906); it moves data by DMA when the buffer was made for it (or
\* iMultiWriteReg asked for it), and else only where a read inherits the flag
\* (iMultiReadReg at 296-302; the second bus at 374-383); and the error
\* messages of a read are filtered in a search and in no other call.
TransferFits ==
  kb_pc \in {"send", "recv"} /\ ~kb_mixed =>
    /\ kb_addr[kb_bus] = kb_i
    /\ kb_fn \notin Unselecting => kb_bus = Home(kb_socket[kb_i])
    /\ kb_op \in {"iBurstWriteReg", "iMultiWriteReg"} =>
         "dma" \in kb_flags[kb_bus]
    /\ kb_op = "iWriteReg" \/ (kb_op = "iReadReg" /\ kb_bus = 1) =>
         "dma" \notin kb_flags[kb_bus]
    /\ kb_op = "iReadReg" =>
         ("filter" \in kb_flags[kb_bus]) = (kb_fn = "search")
==============================================================================
