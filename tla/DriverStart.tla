----------------------------- MODULE DriverStart -----------------------------
(***************************************************************************)
(* How the drivers start, unwind a failed start, and stop.  A driver is a  *)
(* list of steps; a step gets resources, and when it fails control goes to *)
(* a label that gives some back.  Calls of users can come as soon as the   *)
(* resource that publishes the driver is held, and use others.             *)
(***************************************************************************)
EXTENDS Naturals, Sequences

\* A step that can fail, with what its label gives back, in order, and the
\* step that control goes on to (0: the start has failed).
Step(res, can, undo, next) == [res |-> res, can |-> can, undo |-> undo,
                               next |-> next]
Try(res, undo) == Step(res, "fail", undo, 0)
Skip(res, undo, next) == Step(res, "fail", undo, next)
\* A step whose failure nobody looks at, and one that cannot fail.
Hope(res) == Step(res, "miss", <<>>, 0)
Do(res) == Step(res, "no", <<>>, 0)

(***************************************************************************)
(* The drivers.                                                            *)
(***************************************************************************)
lcminfo_init ==
  << Try("devno", <<>>), Try("devp", <<"devno">>), Try("data", <<"devp">>),
     Try("cdev", <<"devp">>), Do("sem"), Do("lock"),
     Try("class", <<"cdev", "class", "devno", "devp">>),
     Try("device", <<"class", "devno", "devp">>), Hope("proc") >>
lcminfo_exit ==
  <<"proc", "device", "class", "cdev", "data", "devp", "devno">>

\* A failure of alloc_chrdev_region leaves err 0: cdev_del of no cdev.
_atom_probe ==
  << Try("devno", <<"cdev">>), Try("cdev", <<"devno">>),
     Try("class", <<"cdev", "devno">>), Hope("device"), Hope("pins"),
     Do("func"), Do("timer") >>
_atom_remove == <<"cdev", "devno", "device", "class">>

\* Two devices; OBD_FREE leaves the pointer disks as it is.
outMem1 == <<"blkdev", "ioctl">>
\* Mutant: the label forgets the array of devices.
outMem2_Short == outMem1

outMem2 == <<"loop_dev">> \o outMem1
outMem3 == <<"disks">> \o outMem2
outMem4 == <<"disk1", "disk0">> \o outMem3

lloop_init ==
  << Try("blkdev", <<>>), Try("ioctl", <<"blkdev">>),
     Try("loop_dev", outMem1), Try("disks", outMem2), Do("pointer"),
     Try("disk0", outMem3), Try("disk1", <<"disk0">> \o outMem3),
     Do("mutex"), Try("queue0", outMem4), Try("queue1", <<"queue0">> \o outMem4),
     Do("added0"), Do("added1") >>

\* Mutant: the calls are unregistered when the devices are gone.
lloop_exit_Late ==
  <<"added0", "queue0", "disk0", "added1", "queue1", "disk1", "blkdev",
    "disks", "loop_dev", "ioctl">>

lloop_exit ==
  <<"ioctl", "added0", "queue0", "disk0", "added1", "queue1", "disk1",
    "blkdev", "disks", "loop_dev">>

\* The i2c probe of a sensor node; next is where the module goes on when there
\* is no device or the probe fails.  Its resources end in the node's suffix.
RegisterCAMERA_HWCharDrv(next) ==
  << Skip("devno", <<>>, next), Skip("cdevmem", <<"devno">>, next),
     Skip("cdev", <<"devno">>, next), Skip("class", <<>>, next), Hope("device") >>
CAMERA_HW_i2c_probe(next) ==
  <<Skip("client", <<>>, next)>> \o RegisterCAMERA_HWCharDrv(next)
  \o <<Hope("regulators")>>

RegisterCAMERA_HWCharDrv2(next) ==
  << Skip("devno2", <<>>, next), Skip("cdevmem2", <<"devno2">>, next),
     Skip("cdev2", <<"devno2">>, next), Skip("class2", <<>>, next),
     Hope("device2") >>
CAMERA_HW_i2c_probe2(next) ==
  <<Skip("client2", <<>>, next)>> \o RegisterCAMERA_HWCharDrv2(next)

\* A platform driver's probe registers the i2c driver; whether it does is not
\* the module's business, which goes on with the second one at step 11, and
\* with the proc files at step 19.
CAMERA_HW_i2C_init ==
  <<Hope("list"), Try("pdrv1", <<>>), Skip("i2cdrv1", <<>>, 11)>>
  \o CAMERA_HW_i2c_probe(11)
  \o <<Try("pdrv2", <<>>), Skip("i2cdrv2", <<>>, 19)>>
  \o CAMERA_HW_i2c_probe2(19) \o <<Hope("proc"), Do("counters")>>
\* Unregistering removes the i2c drivers, whose own remove does nothing.
CAMERA_HW_i2C_exit == <<"i2cdrv1", "pdrv1", "i2cdrv2", "pdrv2">>

\* The probe allocates a client and then takes the one it is given.
ncp1854_driver_probe(next) == <<Skip("mem", <<>>, next), Do("client")>>
ncp1854_init ==
  <<Skip("i2cdrv", <<>>, 4)>> \o ncp1854_driver_probe(4)
  \o <<Try("pdev", <<>>), Try("pdrv", <<>>), Hope("attr")>>
ncp1854_exit == <<"i2cdrv">>

Drivers == {"lcm_info", "atom_light", "lloop", "kd", "ncp1854"}

Steps == [lcm_info |-> lcminfo_init, atom_light |-> _atom_probe,
          lloop |-> lloop_init, kd |-> CAMERA_HW_i2C_init,
          ncp1854 |-> ncp1854_init]
Stops == [lcm_info |-> lcminfo_exit, atom_light |-> _atom_remove,
          lloop |-> lloop_exit, kd |-> CAMERA_HW_i2C_exit,
          ncp1854 |-> ncp1854_exit]

\* What lets users in, and what their calls use.
Uses == [lcm_info |-> [cdev |-> {"devp", "data", "sem", "lock"}],
         atom_light |-> [cdev |-> {"func", "timer", "pins"}],
         lloop |-> [ioctl |-> {"loop_dev", "disks", "mutex", "queue0",
                               "queue1"}],
         kd |-> [cdev |-> {"client", "client2", "counters", "regulators"},
                 cdev2 |-> {"client", "client2", "counters", "regulators"}],
         ncp1854 |-> [attr |-> {"client"}]]

\* State of memory, not something to give back; and what may be given back
\* when it was never got (a NULL or an error pointer is ignored, and only the
\* driver that a probe registered is unregistered with it).
Marks == {"sem", "lock", "func", "pins", "pointer", "mutex", "client",
          "client2", "counters", "regulators"}
NullSafe == {"class", "device", "proc", "ioctl", "attr", "i2cdrv1", "i2cdrv2"}

VARIABLES
  drv,    \* the driver
  phase,  \* "start", "unwind", "on", "stop", and the ends "failed" and "off"
  at,     \* the step that failed last, 0 when none did
  step,   \* the next step
  todo,   \* what is still to be given back
  held,   \* the resources that are held
  wrong   \* history: what was given back without being held

startVars == <<drv, phase, at, step, todo, held, wrong>>

StartTypeOK ==
  /\ drv \in Drivers
  /\ phase \in {"start", "unwind", "on", "stop", "failed", "off"}
  /\ at \in Nat /\ step \in Nat /\ Len(todo) < 12
  /\ \A r \in wrong : r \notin NullSafe

StartInit == /\ drv \in Drivers /\ phase = "start" /\ at = 0 /\ step = 1
             /\ todo = <<>> /\ held = {} /\ wrong = {}

Now == Steps[drv][step]

Advance(h) == /\ held' = h /\ step' = step + 1
              /\ phase' = IF step = Len(Steps[drv]) THEN "on" ELSE "start"
              /\ UNCHANGED <<drv, at, todo, wrong>>

StepWorks == phase = "start" /\ Advance(held \cup {Now.res})

StepMisses == phase = "start" /\ Now.can = "miss" /\ Advance(held)

StepFails ==
  /\ phase = "start" /\ Now.can = "fail"
  /\ phase' = "unwind" /\ at' = step /\ todo' = Now.undo
  /\ UNCHANGED <<drv, step, held, wrong>>

GiveBack ==
  /\ phase \in {"unwind", "stop"} /\ todo # <<>>
  /\ held' = held \ {Head(todo)}
  /\ wrong' = wrong \cup ({Head(todo)} \ (held \cup NullSafe))
  /\ todo' = Tail(todo)
  /\ UNCHANGED <<drv, phase, at, step>>

Unwound ==
  /\ phase = "unwind" /\ todo = <<>>
  /\ IF Now.next = 0 THEN phase' = "failed" /\ UNCHANGED step
                      ELSE phase' = "start" /\ step' = Now.next
  /\ UNCHANGED <<drv, at, todo, held, wrong>>

\* The driver is removed when nobody uses it.
Stop == /\ phase = "on" /\ phase' = "stop" /\ todo' = Stops[drv]
        /\ UNCHANGED <<drv, at, step, held, wrong>>

Stopped == /\ phase = "stop" /\ todo = <<>> /\ phase' = "off"
           /\ UNCHANGED <<drv, at, step, todo, held, wrong>>

StartNext == \/ StepWorks \/ StepMisses \/ StepFails \/ GiveBack \/ Unwound
             \/ Stop \/ Stopped

StartSpec == StartInit /\ [][StartNext]_startVars

-----------------------------------------------------------------------------
\* What a failed start or a stop of each driver leaves behind.
FailedStep == IF at = 0 THEN "none" ELSE Steps[drv][at].res

LcmLeaks == IF phase = "off" THEN {}
            ELSE CASE FailedStep = "data" -> {"devno"}
                   [] FailedStep = "cdev" -> {"devno", "data"}
                   [] FailedStep = "class" -> {"data"}
                   [] FailedStep = "device" -> {"data", "cdev"}
                   [] OTHER -> {}
AtomLeaks == IF phase = "off" THEN {"timer"} ELSE {}
KdNodes == {"devno", "cdevmem", "cdev", "class", "device", "list", "proc",
            "devno2", "cdevmem2", "cdev2", "class2", "device2"}
KdLeaks == IF FailedStep = "pdrv2" THEN KdNodes \cup {"pdrv1", "i2cdrv1"}
                                   ELSE KdNodes
NcpLeaks == {"i2cdrv", "mem", "pdev", "pdrv", "attr"}

\* After a failed start, whatever step failed, and after a stop, lloop holds
\* nothing; atom_light leaves, when it is removed, its timer with the work item
\* it queues, which nothing stops (atom_light.c:434-450), and else nothing;
\* lcm_info, whose labels are in the wrong order (lcm_info.c:386-397), leaves
\* exactly LcmLeaks; the sensor driver, whose remove functions are empty
\* (kd_sensorlist.c:3705, 3874), and ncp1854, whose exit stops the i2c driver
\* only (ncp1854.c:740), leave part of what they made.
\* Nothing is given back without being held but the cdev of atom_light when no
\* device number is left (atom_light.c:423) and the i2c driver of ncp1854, whose
\* failure to register is only logged (718).
StartLeavesNothing ==
  phase \in {"failed", "off"} =>
    LET left == held \ Marks IN
    /\ drv = "lloop" => left = {}
    /\ drv = "atom_light" => left = AtomLeaks
    /\ drv = "lcm_info" => left = LcmLeaks
    /\ drv = "kd" => left \subseteq KdLeaks
    /\ drv = "ncp1854" => left \subseteq NcpLeaks
    /\ wrong \subseteq
         CASE drv = "atom_light" /\ FailedStep = "devno" -> {"cdev"}
           [] drv = "ncp1854" -> {"i2cdrv"}
           [] OTHER -> {}

\* The ways in that are open, and what a call through one would not find.
\* A call of lloop uses nothing while the pointer disks is NULL.
Open == {n \in DOMAIN Uses[drv] \cap held : drv = "lloop" => "pointer" \in held}
Missing(n) == Uses[drv][n] \ held
CodeLoaded == phase \notin {"failed", "off"}

\* A call that users can make finds all it uses, from the end of the start to
\* the end of the stop, and through every unwinding that ends well.  The
\* exceptions: while a driver starts its node is there early; while lloop
\* unwinds, disks points to freed memory with the ioctl registered (838-850),
\* and while atom_light does, its functions were never set;
\* lcm_info whose device_create failed leaves a live cdev in freed memory; the
\* sensor driver and ncp1854 leave nodes to code that is gone; and what nobody
\* checks may be missing: the pins, the regulators, the client of the other
\* sensor node and that of the charger.
CallsFindReady ==
  \A n \in Open :
    \/ Missing(n) = {} /\ CodeLoaded
    \/ phase = "start"
    \/ phase = "unwind" /\ drv \in {"lloop", "atom_light"}
    \/ phase # "on" /\ drv = "lcm_info" /\ FailedStep = "device"
    \/ phase \in {"unwind", "failed", "off"} /\ drv \in {"kd", "ncp1854"}
    \/ drv = "atom_light" /\ Missing(n) = {"pins"}
    \/ drv = "kd" /\ Missing(n) \subseteq
         {"regulators", IF n = "cdev" THEN "client2" ELSE "client"}
    \/ drv = "ncp1854"
==============================================================================
