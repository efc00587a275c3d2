---------------------------- MODULE LloopControl -----------------------------
(***************************************************************************)
(* The control calls over all the devices of the Lustre loop driver        *)
(* (atom_Block/lloop.c): attach and detach by number through an open       *)
(* Lustre file, detach through the device itself, opens and closes of the  *)
(* devices and the removal of the module.  lloop_mutex admits one control  *)
(* call; lo_open and lo_release do not take it, so they run between its    *)
(* steps.  What a worker does with bios is in LloopDevice.                 *)
(***************************************************************************)
EXTENDS Naturals

CONSTANTS
  MaxLoop,     \* max_loop: the number of devices
  Files,       \* the open files the calls are made on
  Inodes,      \* the inodes behind them
  Inode,       \* the inode of each file
  Attachable,  \* the regular Lustre files of a size a sector_t can hold
  MaxOpens,    \* bound: how often the users open one device
  None         \* the NULL of lo_backing_file

Devices == 0 .. MaxLoop - 1

ASSUME ControlAssumption ==
  /\ MaxLoop \in Nat \ {0} /\ MaxOpens \in Nat
  /\ Inode \in [Files -> Inodes] /\ Attachable \subseteq Files
  /\ None \notin Files

VARIABLES
  lo_state,         \* "UNBOUND", "BOUND" or "RUNDOWN", for each device
  lo_backing_file,  \* the file of each device, or None
  lo_refcnt,        \* the opens of each device, the attachment's included
  users,            \* the opens of each device that users hold
  file_refs,        \* the references the driver holds on each file
  module_refs,      \* the references loop_set_fd took for each device
  module,           \* "live", "going" (being removed) or "gone"
  call              \* the control call that holds lloop_mutex

devVars == <<lo_state, lo_backing_file, file_refs, module_refs>>
vars == <<devVars, lo_refcnt, users, module, call>>

\* A call: its step, its device, its file, and the opens it counts as its own.
Free == [pc |-> "free", dev |-> 0, file |-> None, own |-> 0]
CallPcs == {"free", "get", "file", "module", "set", "thread", "hung",
            "refused", "fput", "clear", "fields", "unbind", "drop", "release",
            "put"}
Calls == [pc : CallPcs, dev : Devices, file : Files \cup {None},
          own : {0, 1, 2}]

TypeOK ==
  /\ lo_state \in [Devices -> {"UNBOUND", "BOUND", "RUNDOWN"}]
  /\ lo_backing_file \in [Devices -> Files \cup {None}]
  /\ lo_refcnt \in [Devices -> Nat] /\ users \in [Devices -> Nat]
  /\ file_refs \in [Files -> Nat] /\ module_refs \in [Devices -> Nat]
  /\ module \in {"live", "going", "gone"}
  /\ call \in Calls

Init ==
  /\ lo_state = [d \in Devices |-> "UNBOUND"]
  /\ lo_backing_file = [d \in Devices |-> None]
  /\ lo_refcnt = [d \in Devices |-> 0] /\ users = [d \in Devices |-> 0]
  /\ file_refs = [f \in Files |-> 0] /\ module_refs = [d \in Devices |-> 0]
  /\ module = "live" /\ call = Free

\* Opening a device pins the module (lo_fops.owner); it fails once it is going.
lo_open(d) == /\ module = "live" /\ users[d] < MaxOpens
              /\ users' = [users EXCEPT ![d] = @ + 1]
              /\ lo_refcnt' = [lo_refcnt EXCEPT ![d] = @ + 1]
              /\ UNCHANGED <<devVars, module, call>>

\* The handle a detach came through stays open until the call returns.
InCall(d) == call.pc # "free" /\ call.own = 2 /\ call.dev = d

lo_release(d) == /\ users[d] > (IF InCall(d) THEN 1 ELSE 0)
                 /\ users' = [users EXCEPT ![d] = @ - 1]
                 /\ lo_refcnt' = [lo_refcnt EXCEPT ![d] = @ - 1]
                 /\ UNCHANGED <<devVars, module, call>>

(***************************************************************************)
(* LL_IOC_LLOOP_ATTACH on file f.                                          *)
(***************************************************************************)
\* Mutant: the scan compares the open files and not their inodes.
Holds_File(d, f) == lo_backing_file[d] = f

Holds(d, f) == Inode[lo_backing_file[d]] = Inode[f]

Taken(f) == \E d \in Devices : lo_state[d] # "UNBOUND" /\ Holds(d, f)

LoFree(d) == /\ lo_state[d] = "UNBOUND"
             /\ \A e \in 0 .. d - 1 : lo_state[e] # "UNBOUND"

\* The scan and the number given to the user; put_user may fault, and then,
\* as when the scan refuses, nothing has changed and there is no such step.
Attach(f) ==
  /\ call = Free /\ module # "gone" /\ ~Taken(f)
  /\ \E d \in Devices : LoFree(d) /\ call' = [pc |-> "get", dev |-> d,
                                              file |-> f, own |-> 1]
  /\ UNCHANGED <<devVars, lo_refcnt, users, module>>

\* blkdev_get_by_dev, which calls lo_open.
GetDevice ==
  /\ call.pc = "get"
  /\ \/ /\ module = "live"
        /\ lo_refcnt' = [lo_refcnt EXCEPT ![call.dev] = @ + 1]
        /\ call' = [call EXCEPT !.pc = "file"]
     \/ call' = Free /\ UNCHANGED lo_refcnt
  /\ UNCHANGED <<devVars, users, module>>

get_file ==
  /\ call.pc = "file"
  /\ file_refs' = [file_refs EXCEPT ![call.file] = @ + 1]
  /\ call' = [call EXCEPT !.pc = "module"]
  /\ UNCHANGED <<lo_state, lo_backing_file, module_refs, lo_refcnt, users,
                 module>>

\* try_module_get, which fails once the module is going: -ENODEV, past the
\* module_put of the other refusals.
try_module_get ==
  /\ call.pc = "module"
  /\ IF module = "live"
     THEN /\ module_refs' = [module_refs EXCEPT ![call.dev] = @ + 1]
          /\ call' = [call EXCEPT !.pc = "set"]
     ELSE call' = [call EXCEPT !.pc = "fput"] /\ UNCHANGED module_refs
  /\ UNCHANGED <<lo_state, lo_backing_file, file_refs, lo_refcnt, users,
                 module>>

\* loop_set_fd from its tests to the thread.
CanSet(d, f) == lo_state[d] = "UNBOUND" /\ f \in Attachable

loop_set_fd ==
  /\ call.pc = "set"
  /\ IF CanSet(call.dev, call.file)
     THEN /\ lo_backing_file' = [lo_backing_file EXCEPT ![call.dev] = call.file]
          /\ call' = [call EXCEPT !.pc = "thread"]
     ELSE /\ call' = [call EXCEPT !.pc = "refused"]
          /\ UNCHANGED lo_backing_file
  /\ UNCHANGED <<lo_state, file_refs, module_refs, lo_refcnt, users, module>>

\* The worker reports that it runs; or no thread starts, which loop_set_fd
\* does not look at: it waits for ever.
loop_thread ==
  /\ call.pc = "thread"
  /\ \/ /\ lo_state' = [lo_state EXCEPT ![call.dev] = "BOUND"]
        /\ call' = Free
     \/ call' = [call EXCEPT !.pc = "hung"] /\ UNCHANGED lo_state
  /\ UNCHANGED <<lo_backing_file, file_refs, module_refs, lo_refcnt, users,
                 module>>

(***************************************************************************)
(* LL_IOC_LLOOP_DETACH through the device, where two opens are the call's, *)
(* and LL_IOC_LLOOP_DETACH_BYDEV through a file, where one is.             *)
(***************************************************************************)
StartDetach(d, own) ==
  /\ call = Free /\ lo_state[d] = "BOUND"
  /\ call' = [pc |-> "clear", dev |-> d, file |-> None, own |-> own]
  /\ UNCHANGED <<devVars, lo_refcnt, users, module>>

Detach(d) == users[d] > 0 /\ StartDetach(d, 2)
DetachByDev(d) == module # "gone" /\ StartDetach(d, 1)

\* The test of lo_refcnt, without lo_ctl_mutex, and the run-down.
Busy(d) == lo_refcnt[d] > call.own

loop_clr_fd ==
  /\ call.pc = "clear"
  /\ IF Busy(call.dev)
     THEN call' = Free /\ UNCHANGED lo_state
     ELSE /\ lo_state' = [lo_state EXCEPT ![call.dev] = "RUNDOWN"]
          /\ call' = [call EXCEPT !.pc = "fields",
                                  !.file = lo_backing_file[call.dev]]
  /\ UNCHANGED <<lo_backing_file, file_refs, module_refs, lo_refcnt, users,
                 module>>

\* The worker has ended.
ClearFields ==
  /\ call.pc = "fields"
  /\ lo_backing_file' = [lo_backing_file EXCEPT ![call.dev] = None]
  /\ call' = [call EXCEPT !.pc = "unbind"]
  /\ UNCHANGED <<lo_state, file_refs, module_refs, lo_refcnt, users, module>>

Unbind ==
  /\ call.pc = "unbind"
  /\ lo_state' = [lo_state EXCEPT ![call.dev] = "UNBOUND"]
  /\ call' = [call EXCEPT !.pc = "drop"]
  /\ UNCHANGED <<lo_backing_file, file_refs, module_refs, lo_refcnt, users,
                 module>>

(***************************************************************************)
(* Giving back.  A refused attach puts module, file and device, a detach   *)
(* file, module and device.                                                *)
(***************************************************************************)
\* Mutant: the refused attach keeps its reference on the file.
fput_DetachOnly ==
  /\ call.pc \in {"fput", "drop"}
  /\ file_refs' = IF call.pc = "fput" THEN file_refs
                  ELSE [file_refs EXCEPT ![call.file] = @ - 1]
  /\ call' = [call EXCEPT !.pc = IF @ = "fput" THEN "put" ELSE "release"]
  /\ UNCHANGED <<lo_state, lo_backing_file, module_refs, lo_refcnt, users,
                 module>>

fput ==
  /\ call.pc \in {"fput", "drop"}
  /\ file_refs' = [file_refs EXCEPT ![call.file] = @ - 1]
  /\ call' = [call EXCEPT !.pc = IF @ = "fput" THEN "put" ELSE "release"]
  /\ UNCHANGED <<lo_state, lo_backing_file, module_refs, lo_refcnt, users,
                 module>>

module_put ==
  /\ call.pc \in {"refused", "release"}
  /\ module_refs' = [module_refs EXCEPT ![call.dev] = @ - 1]
  /\ call' = [call EXCEPT !.pc = IF @ = "refused" THEN "fput" ELSE "put"]
  /\ UNCHANGED <<lo_state, lo_backing_file, file_refs, lo_refcnt, users,
                 module>>

\* blkdev_put, which calls lo_release.
PutDevice ==
  /\ call.pc = "put"
  /\ lo_refcnt' = [lo_refcnt EXCEPT ![call.dev] = @ - 1]
  /\ call' = Free
  /\ UNCHANGED <<devVars, users, module>>

(***************************************************************************)
(* Removing the module: the kernel starts it when nothing pins the module, *)
(* and lloop_exit first unregisters the calls, waiting for one under way.  *)
(***************************************************************************)
Unpinned == \A d \in Devices : lo_refcnt[d] = 0 /\ module_refs[d] = 0

StartRemoval == /\ module = "live" /\ Unpinned /\ module' = "going"
                /\ UNCHANGED <<devVars, lo_refcnt, users, call>>

lloop_exit == /\ module = "going" /\ call = Free /\ module' = "gone"
              /\ UNCHANGED <<devVars, lo_refcnt, users, call>>

Next ==
  \/ \E d \in Devices : lo_open(d) \/ lo_release(d) \/ Detach(d)
                        \/ DetachByDev(d)
  \/ \E f \in Files : Attach(f)
  \/ GetDevice \/ get_file \/ try_module_get \/ loop_set_fd \/ loop_thread
  \/ loop_clr_fd \/ ClearFields \/ Unbind
  \/ fput \/ module_put \/ PutDevice
  \/ StartRemoval \/ lloop_exit

Spec == Init /\ [][Next]_vars

-----------------------------------------------------------------------------
\* What the attachments and the users' opens account for, counter by counter.
One(b) == IF b THEN 1 ELSE 0

FileRefs == \A f \in Files :
  file_refs[f] = One(\E d \in Devices : lo_backing_file[d] = f)
ModuleRefs == \A d \in Devices :
  module_refs[d] = One(lo_backing_file[d] # None)
OpenRefs == \A d \in Devices :
  lo_refcnt[d] = users[d] + One(lo_backing_file[d] # None)

\* Nothing is left of the driver's devices.
Idle == /\ \A d \in Devices : lo_state[d] = "UNBOUND" /\ lo_refcnt[d] = 0
        /\ \A f \in Files : file_refs[f] = 0

\* Once a call is over (or waits for ever for a worker that never started),
\* whatever path it took (refused for want of the module, at the tests of
\* loop_set_fd or by open devices, done, and with opens and closes of the
\* device between its steps), the references on files, module and block
\* devices are exactly those of the attachments and opens that exist: what
\* was taken at 713, 719 and 478 was given back at 724, 722 and 543 or at
\* 617/753, 578 and 580.  And the module, which a call in progress only pins
\* through these references, is not being removed before all are given back.
ReferencesBalance ==
  /\ call.pc \in {"free", "hung"} => FileRefs /\ ModuleRefs /\ OpenRefs
  /\ module # "live" => Idle

\* The driver keeps a table of attachments: one device for an inode, although
\* the scan that looks for the inode (684-702) and the worker that makes the
\* device BOUND are separate steps, with a device open, a failed attach or
\* the removal of the module between them.
Table == INSTANCE LloopTable WITH
  table <- [d \in Devices |-> IF lo_state[d] = "UNBOUND" THEN None
                              ELSE lo_backing_file[d]]

ImplementsTable == Table!Spec
==============================================================================
