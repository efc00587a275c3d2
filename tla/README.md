# Verification of the GW_Linux_Kernel drivers

The repository holds a set of Linux device drivers (`00.atom/`): a Lustre loop
block device, a software-blinked LED, a finger button, an LCM information
device, a trusted-zone memory disk, two battery chargers and a camera sensor
list. They share no code; what they have in common is that interrupt
handlers, timers, work items, kernel threads and user calls meet on a few
variables, mostly without a lock. This directory holds TLA+ models of them,
TLC configurations and TLAPS proofs. Line numbers are those of the files in
the repository; paths are relative to `00.atom/`.

## 1. Inventory

| Component | State | Operations | What is hard | Correct when |
|---|---|---|---|---|
| `atom_Block/lloop.c`, one device | list of bios (`lo_bio`, `lo_biotail`), `lo_pending`, `lo_state`, `lo_flags`, `lo_backing_file`, `lo_sem`, `lo_refcnt` | make_request / loop_add_bio, loop_thread, loop_set_fd, loop_clr_fd, open, release | list under a spin lock, counter outside it; state tested before it is used; attach resets the list without the lock; one semaphore for two messages | the counter accounts for every bio; no bio is ended twice; a bio reaches only the file attached when it was listed; the file outlives the worker; bios are served, detach returns |
| `atom_Block/lloop.c`, control | the device array, `lloop_mutex`, disks | lloop_ioctl, lo_ioctl, lloop_init, lloop_exit | choice of a free device, refusals after a partial open, start-up order, unwinding | references balance; no file is attached twice |
| `atom_irq/fingerbutton/fingerbutton.c` | `irq_enable`, the kernel's disable depth, the work item | probe, interrupt handler, work item | flag and depth are changed in two steps by handler and worker | disables balance, the interrupt always comes back, presses are reported |
| `atom_timer.c`, `atom_date.c` (in `atom_thread_no_wake`, `atom_five`) | `timer_running`, `index`, the hrtimer, the work item, the pin | ON, OFF, timer callback, work item | nothing is locked; cancel against restart | OFF holds, ON blinks |
| `atom_light.c` (six versions) | cdev, class, device, pin states, function table | probe, remove, ioctl | node visible before it is usable; unwinding | no call before the set-up, nothing leaks |
| `lcm_info/lcm_info.c` | data, semaphore, open count, file positions | read, write, llseek, ioctl CLEAN, init, exit | paths that keep the semaphore; CLEAN takes none; unwinding | one call copies at a time, inside the data; the semaphore is given back |
| `atom_Block/tz_mem.c` | disk, session, size | request function, probe on demand | ranges at the end of the disk, publication before set-up | every byte of a request is transferred once, in range |
| `atom_i2c/kernel/ncp1854.c` | registers behind `ncp1854_i2c_access` | field setters | read and write are two critical sections | a setter changes its field only |
| `atom_i2c/lk/bq24296.c` | registers, switches of the BC1.1 block, charger type | setters, charger detection, charging_enable | a plug that changes, a bus that fails, switches left closed by a test | the limits fit the charger, no switch stays closed |
| `atom_i2c/kernel/kd_sensorlist.c` | enabled drivers, sockets, power, delayed exposure and gain, I2C clients and their flags, buffers of a call, open count | set driver, open, close, feature control, release, frame callback, ISP's read, wait for gain, I2C transfers | partial failure, stale enables and flags, waits under the global mutex, release on any close, reads and proc writes without the mutex | what is open is powered, what is closed is not; an exposure is applied once and on time, and it is known to which sensor; a call frees and restores all; a transfer reaches its own sensor |

Interaction: none between components; within one, by shared variables, the
kernel's wait queues, work queues, timers, and callbacks (block layer to
`loop_make_request`, Lustre to `lloop_ioctl`, interrupt to handler).

`PROJECT.json` lists every hazard found while reading, at its line.

## 2. Modules

| Module | Models |
|---|---|
| `LloopService` | abstract: what a loop device promises about the bios it accepts |
| `LloopDevice` | one loop device in detail, an access to shared state per step; implements `LloopService` |
| `MCLloopDevice` | instances of it for TLC |
| `LloopDeviceProofs` | theorems about `LloopDevice` |
| `FingerButton`, `FingerButtonProofs` | the finger button driver and theorems about it |
| `AtomTimer`, `AtomTimerProofs` | the blinked LED and theorems about it |
| `KdSensor` | selection, opening, closing and search of camera sensors, their power, the device files |
| `MCKdSensor`, `KdSensorProofs` | its symmetry for TLC, and theorems about it |
| `LloopTable` | abstract: a table of attachments with one device for an inode |
| `LloopControl` | the control calls over all loop devices; implements `LloopTable` |
| `MCLloopControl`, `LloopControlProofs` | its instance for TLC, and theorems about it |
| `LcmInfo` | the calls of the lcm_info device |
| `TzMem` | probe and requests of the tz_mem disk |
| `DriverStart`, `DriverStartProofs` | start, unwinding and stop of five drivers, what calls find meanwhile, and theorems about it |
| `Ncp1854` | the register fields of the kernel's charger |
| `Bq24296` | the boot loader's charger: registers, detection, limits |
| `MCDevices`, `DevicesProofs` | the five modules above, one beside the other, for TLC, and theorems about them |
| `KdExposure` | delayed exposure and gain of the cameras |
| `KdFeature` | the camera calls that move data: buffers, copies, pointers |
| `KdI2c` | the loops over the sensors and their I2C transfers |
| `MCKdCalls`, `KdCallsProofs` | the three modules of the camera calls for TLC, and theorems about them |

### LloopDevice

Variables carry the names of the fields of `struct lloop_device`.

* The linked list is the sequence `lo_bio` of bios that can be reached from the
  head. `lo_biotail` is kept separately because the code keeps it separately:
  when the unlocked reset in `loop_set_fd` (515) races with a late
  `loop_add_bio`, the tail may point at a bio that is off the list, and the next
  bio chained to it is unreachable. Such bios go to the history variable
  `lost`.
* A `make_request` call is the program counter `rpc[b]`: state test (352), flag
  test (358), listing under `lo_lock` (275-281), increment (283), wake-up (284).
  `PeekQueue` is the read of `waitqueue_active()` moved before the increment,
  which nothing in the code forbids.
* The worker is `wpc`, with the bios it took in `batch`. `asleep` is a worker on
  the wait queue; `check` and `recheck` are the two tests at 429 and 432;
  `lbug` is a thread that failed a `LASSERT`.
* `lloop_mutex` is held during a whole attach or detach, so one program counter
  `ioctl` is enough. A refused call changes nothing and is no step. The two
  stores of line 515 are two steps in either order.
* `lo_sem` is the count of the semaphore; `up` in 425 and 465, `down` in 538
  and 567.
* History: `attaches` numbers the attachments, and `lo_backing_file` is the
  number of the one whose file it is; `listed[b]` is its value when `b` was put
  on the list; `ends[b]` counts `cfs_bio_endio` and `cfs_bio_io_error` calls.

What the driver does not do: a write that passed the tests of 352 and 358 under
a writable attachment, and whose caller then waits while the device is
detached and attached to a read-only file, is listed on the new attachment and
written to the read-only file. Nothing in the code prevents that, so no property
forbids it; `ServedAsListed` says how far it goes: the attachment in force when
the bio is listed (275-281) is the one whose file it reaches, although the list is
reset without the lock. A bio that falls off the list is never ended, and the
detach after it waits for ever; this is described (`lost`, and the exceptions of
`DetachReturns`), not excluded.

Left out: sectors and offsets, the transfer itself (`ll_direct_rw_pages` is the
step `loop_handle_bio`), queue limits, page cache calls, module references,
the debug statistics of 445-455.

### FingerButton

`depth` is the kernel's nesting count of `disable_irq`; the interrupt fires when
the line is low, `depth = 0` and no handler is running. The handler's steps are
those of `fingerbutton_disable_irq_nosync` (77, 79, 80) and `schedule_work`
(89); the work item's are the report (98), the wait for the release (102), the
second report and the steps of `fingerbutton_enable_irq` (59, 61, 62). Probe has
its three steps in the order of the code. `msleep` debouncing is left out: it
promises no ordering. `PressDuringProbe` says whether the button may be pressed
before the probe has returned; the theorem and the passing run about who will
enable the interrupt need it to be FALSE, `FlagTheorem` does not.

### AtomTimer

`armed` and `callback` are the hrtimer's two bits, `queued` and `wpc` the work
item, `upc[u]` the request of user `u`. `hrtimer_cancel` is a step that waits
for a running callback. The history variable `off` follows an OFF that began
when the chain timer - callback - work item was at rest but for the armed
timer, and through which the timer did not expire.

What OFF does not do: when it meets the callback or the work item, the work
item starts the timer again (173) and the LED goes on blinking; and when it
clears `timer_running` after the work item armed the timer, the next OFF finds
the flag clear and cancels nothing. No text in the repository promises
otherwise, so this is stated here and in the hazards, not as a violated
property.

### KdSensor

`enabled`, `socket`, `func`, `name` and `current` are the arrays and the mask of
the file. `kdCam_Mutex` is `call`: one ioctl at a time, in steps (`pc`, loop
index `i`), a step for each call of a power or sensor function. `Release` and
`Release2` take no mutex and happen between any two steps, but never for the
file the call came through (`caller`).

`power[s]` counts the enables of the supplies of socket `s`. The function that
switches them, `kdCISModulePowerOn`, is not in the repository; `_hwPowerOn` and
`_hwPowerDown`, exported to it, count as the regulator framework does, and
disabling what has no enable left changes nothing. `checkPowerBeforClose`,
outside as well, is taken to leave no enable, as "shut down the device" says.
`kdSetDriver` takes both sockets unchecked (1171-1176), so two enabled drivers may
share one; the properties count per driver (`Drives`). A power-on and a
`SensorOpen` may fail; a `SensorClose` may report an error after it closed the
sensor.

History: `robbed` holds the sockets whose power was taken by a release or by a
search whose power-on failed, since their last open; `before` is `power` when
the call began, `disturbed` whether such a loss happened during it; `shut` says
that the last release was of the first node.

Some behaviours of the code are exceptions written into the properties:

* two opens in a row enable the power twice (the test of `g_CamHWOpend` is
  commented out, 1444-1470), and one close gives back one enable;
* a close gives back an enable also of a sensor that was never opened;
* a search leaves `g_CurrentSensorIdx` zero (1498), so that a close after it
  closes nothing until the mask is set again;
* `CAMERA_HW_Release2` leaves everything powered, although its comment (3764)
  is the same as that of `CAMERA_HW_Release`.

### LloopControl

The devices under `lloop_mutex`, which is `call`: one control call at a time, in
steps where something else may come between. `lo_open` and `lo_release` are
not under the mutex and happen between any two. The scan of ATTACH (688-698)
is `Taken` and `LoFree`; the call then opens the device (713-717), takes the file
(`get_file`, 719) and the module (`try_module_get`, 478), runs `loop_set_fd` up to
its refusals (481-535), and starts the worker or gives back what it took: the
module (`module_put`, 543), the file (`fput`, 722) and the open (723), each in a
step. When the module is going away, 479 returns past the `module_put`. A detach
is the run-down (547-565), the fields (567-576), the state (577), then `fput` (578),
`module_put` (580) and the open. The worker, which `LloopDevice` models, is here the one
step that makes the device BOUND. When it does not start, the call stays
in `hung`, as `down()` at 538 does.

`LloopControl` and `LloopDevice` share `lo_state`, `lo_backing_file` and
`lo_refcnt` of a device: the accepted calls of the first are the `Attach` and
`ClrFd` steps of the second, which splits them further.

`lo_ioctl` and `lloop_ioctl` also answer LL_IOC_LLOOP_INFO, which reads.

### LcmInfo

A call of a thread is its pc, the kernel's copy of the file position, and what
it still has to copy. `p` is read before the semaphore is waited for (144, 173).
A cell is copied in a step, so that CLEAN falls between two. `lcm_past` records
the return past the end that keeps the semaphore; nobody copies afterwards, and
that is stated, since no text promises otherwise. Write differs from read in
the direction and in `>=` for `>`.

### TzMem

In sectors. The probe's steps are queue, `add_disk`, session, size (239-274);
requests may arrive from `add_disk` on. A request is a list of segments, because
`__blk_end_request_cur` ends one and the next is tested again. Each segment reads
the session (147) before it tests the size (153). When the end of the probe falls
between the two, the segment is asked for with a session that is none; `tz_blind`
counts these, and there is at most one. What the trusted
world answers is not looked at by the driver, and is not in the model.

### DriverStart

A driver's start is a list of steps; a step gets one resource and names the
label it goes to when it fails as the list of what that label gives back. The
lists are the code's, in its order, with the code's omissions; a small
interpreter runs them (`StepWorks`, `StepMisses`, `StepFails`, `GiveBack`). `Uses`
says what users can call through, and what those calls touch. Five drivers:
lcm_info, atom_light, lloop, the camera sensor list with both of its nodes, and
the ncp1854.

What a start or stop leaves behind is written into `StartLeavesNothing` per
driver: nothing for lloop; for atom_light, when it is removed, the timer with its
work item, which `_atom_remove` (434-450) does not stop; for lcm_info exactly what its labels
in the wrong order forget (386-397); for the cameras the nodes, since the remove
functions are empty (3705, 3874) and the Unregister functions are never called.

### Ncp1854 and Bq24296

Registers are sets of bits. On the ncp1854 every setter is a read and a write,
each under the mutex; between them another setter may run. A thread's copy is
stale when its read failed or another setter wrote since. `NcpCoherent` says what
is left of atomic setters: a register no stale copy was written to holds every
field as asked. On the bq24296 nothing runs in between, so a setter is one step;
instead the plug may change, other parts of the boot loader may set other
fields (`BqOthers`), and transfers may fail, in which case the code goes
on with the register's number in place of its value. The BC1.1 comparator says
something about the plug only when all switches are set as its test wants them.
The responses of the plugs come from the decision tree and its log messages;
they are outside the repository.

### KdExposure, KdFeature, KdI2c

`KdExposure`: a request leaves its values and three delays, counted down by
frames; 255 is the 0xFF of the code. What has no delay goes to the sensor of the
request (2103, 2115), what a frame gives to the main one (1314, 1327). An
ESHUTTER_GAIN stores its values over those that wait (2163-2164) and applies them at
once. `kd_given` records to whom the exposure and the gain went and whose values
they were. The delays' stores and the two halves of the gains (taken by the ISP
without a lock) are steps. `KdFeature`: the calls are sequences of steps
(allocate, copy in, point a word of the parameter to a buffer, call the sensors,
copy out, free), each with what its failure frees and where it goes; a feature
stands for all that the code treats alike. A parameter is long enough for the
two words. `KdI2c`: the sensors, which are outside the repository, make any
transfers when they are called; each sets up the client of the selected bus. All
loops over the sensors are there; those of GetInfo and GetResolution (839-917)
select no bus (`Unselecting`). The writers of the three proc files (4257-4398)
call feature control without `kdCam_Mutex`: they are a second actor (`ProcStart`,
`ProcSteps`, `ProcEnd`), which may change bus, addresses and flags between any two
steps of a call; `kb_mixed` says that one overlaps the call in progress.

Behaviours of the code that appear as exceptions in these properties:

* a failed write on the bus is reported as success (519, 736), and the results
  of the sensors are ignored in GetInfo, GetInfo2 and GetResolution;
* SYNC and ESHUTTER_GAIN lose their parameter when the copy fails (2080, 2158),
  and the second allocation of the features listed at `Forgets` when it fails;
* the 32-bit GETINFO writes a configuration over the information (3053-3056);
* the ISP may switch off the delay of a request stored while it was reading;
* a delayed exposure meant for another sensor is given to the main one, and one
  overwritten by an ESHUTTER_GAIN is given with that call's values;
* in GetInfo and GetResolution a transfer goes over whichever bus is selected;
  in a call that a proc write overlaps it may go anywhere, while the calls after
  it are as good as ever;
* the exposure wait holds the mutex the frames need: frames stop until it
  times out, and are on time by the count of frames, not by the clock.

## 3. Runs

| Run | Instance | Shows |
|---|---|---|
| `lloop_queue` | 3 bios of a page (write, write, read), 2 opens, 2 attachments, `MaxSegments` 2, both failures, reordering; 3,387,420 states up to symmetry of the two writes | types, `PendingAccounts`, `EndedOnce`, `ServedAsListed`, `WorkerKeepsFile`, `StartsAlone`, `RefcntAccounts`, and that the device implements `LloopService` |
| `lloop_live` | 2 writes, 2 attachments, no failure, no reordering, fairness | `ListedIsServed`, `DetachReturns` |
| `lloop_lassert` | as `lloop_queue` | the assertion of line 458 can fail |
| `finger_button` | the whole model, no press during probe, fairness | flag and depth agree, the interrupt always comes back, a held button is reported, the button comes to rest |
| `finger_probe` | presses during probe | the interrupt may be off for good after a successful probe |
| `finger_press` | no press during probe | a press may be reported twice |
| `kd_sensor` | 2 sockets, 2 sensors, 1 file of each node, counts up to 2 before an open; 3,990,040 states up to symmetry | types, what is enabled is whole, what is open has power, calls balance, the last release of the first node leaves the dark |
| `kd_release` | 2 files of the first node, 1 sensor | a release that is not the last cuts the power |
| `atom_timer` | 2 users, fairness | an undisturbed OFF is final; a LED left on blinks |
| `lloop_control` | 3 devices, 2 opens of one inode, one of another, a pipe; 2 opens per device; 7,944 states | references balance; the calls implement `LloopTable` |
| `devices` | the small drivers one at a time; 1,337,992 states | the semaphore of lcm_info, the pieces and the session of tz_mem, starts and stops, both chargers |
| `kd_calls` | two sensors to ask for, delays 0, 2 and 0xFF, 2 requests, 3 frames; all features; two drivers, three sockets, a proc writer; 3,301,116 states | exposures on time, from whom and to whom, whole gains, clean calls, fitting transfers |

Bounds. The interesting cases of the list are: empty, one element, split in
two, and a late bio that meets the reset; three bios reach all of them with one
to spare, and three bios with `MaxSegments = 2` give batches of one and two,
ended by direction and by the end of the list. The two writes
come through the same handle and no action tells them apart, hence the symmetry. Two attachments are needed for a bio that
passed the state test under one and is listed under the next; `MaxAttach` bounds
only the number of Attach steps. Each bio is submitted once: its identity is
the request, and a second submission would be another bio. FingerButton has no
bound. AtomTimer has two users since every race in it is between two requests
or a request and the chain. KdSensor: the two drivers of the code, two sockets
(one each or both on one), two sensors so that a stale name differs from the right one; calls exclude
each other, so one file that calls and one that is released meet every
interleaving. `MaxPower = 2` lets an open find a sensor open twice.

LloopControl: two files of one inode are needed for the collision of the scan,
a third device for a free one beyond a taken one, and a second inode for two
devices attached at once. LcmInfo: two cells and two callers are one cell
before CLEAN and one after, and a holder with a waiter. TzMem: pieces of two in
a pool of five give no piece, whole pieces, a rest, and both sides of the end.
Ncp1854: two threads, two fields of one register of two bits; the proof is for
any. Bq24296: two enables, one fault, two changes of the plug, the real set-up
list and the usual placement of the fields, two of which share registers with
the limits. DriverStart and KdFeature have no bound.
KdExposure: two requests so that one replaces or overlaps another; three
frames, past the longest delay; a delay of 2 is 1 after a frame; a main sensor
and another one; the proofs are for any. KdI2c has no bound: one proc writer
stands for any number, since each of its steps is any of theirs.

Deadlock is not checked in `lloop_control`, since a module that was removed
stops, nor in `devices`, whose drivers end failed or off and whose bounds on plugs
and enables end. It is not checked in the lloop and finger runs: a loop device whose
bios are used up and whose attach waits for a thread that was never started
stops, and so does a button whose probe failed.

### Fairness

* LloopDevice: weak fairness of the worker, of each call inside
  `make_request`, and of the call that holds `lloop_mutex`: the kernel schedules
  threads that can run, and every spin lock is held for one step. No fairness
  for new requests, opens, closes, attaches or detaches. Nothing is assumed of
  `down()`: the step is disabled while the count is zero.
* FingerButton: the CPU takes a pending interrupt; handler, work queue and
  probe go on. Nobody has to press or release.
* KdSensor, LloopControl, and the modules of `MCDevices` and `MCKdCalls`: none;
  only safety is checked.
* AtomTimer: an armed timer expires, callback and work item run, a request that
  was made goes on. `hrtimer_cancel` is only weakly fair, and no property needs
  it to succeed between two expiries.

`ListedIsServed` and `DetachReturns` name their exceptions: a worker that failed
its assertion or is gone, and a bio that fell off the list, which keeps
`lo_pending` above zero so that the worker spins on "missing bio" (441) and
detach waits at 567 with `lloop_mutex` held. With `Reorder = TRUE`
`ListedIsServed` fails in the expected way (nobody wakes the worker until the
next bio), so the liveness run is made without it.

## 4. What disagrees with the code's own text

1. `lloop.c:458`, `LASSERT(count <= atomic_read(&lo->lo_pending))`, does not hold:
   a bio can be taken before its submitter increments the counter (run
   `lloop_lassert`).
2. `fingerbutton.c:141` says the interrupt is on after registration; a press
   before `INIT_WORK` turns it off for good (run `finger_probe`).
3. `fingerbutton.c:96` reports a press; a press in the window 61-62 is reported
   a second time after the release (run `finger_press`).
4. `kd_sensorlist.c:3564`, "Shut down the device on last close": every close
   does (run `kd_release`). The same comment at 3764 stands over a release that
   shuts nothing down; no run is spent on it.

## 5. Proofs

Every invariant that a run checks is a theorem, for every value of the
constants that satisfies the assumption of its module. The assumptions are the
types of the constants (`LloopAssumption`, `FingerAssumption`, `KdAssumption`,
`ControlAssumption`, `NcpAssumption`, `TzAssumption`), and in three modules a
little more:

* `ExposureAssumption`: a delay is below 0xFF, which means that none is pending.
* `LcmAssumption`: there is a cell and there is a file.
* `BqAssumption`: the masks and shifts of the bq24296, which come from a header
  that is not in the repository, give the fields of a register disjoint bits,
  and each field room for the values that `charging_enable` and the other setters
  of the model put there (`Fits`). `MCDevices` has the usual placement, for
  which TLC evaluates the assumption.

`AtomTimer`, `DriverStart`, `KdFeature` and `KdI2c` have no constants. The proofs are
in eight modules: `LloopDeviceProofs`, `LloopControlProofs`, `FingerButtonProofs`,
`AtomTimerProofs`, `KdSensorProofs`, `DriverStartProofs`, `KdCallsProofs` (KdExposure,
KdFeature, KdI2c) and `DevicesProofs` (LcmInfo, TzMem, Ncp1854, Bq24296, and the
small drivers together). The parts of `MCDevices` and `MCKdCalls` are proved
apart; `DevicesTheorem` and `CallsTheorem` carry the results over to the
specifications that the runs check.

LloopDevice. None of the checked invariants but `RefcntAccounts` and
`PendingAccounts` is close to inductive by itself. The proof is in layers:

* `ControlInv` = types, `SubtractsWhatIsThere`, `BatchHeld` and `Handshake`. The
  last is the heart: a disjunction over where the ioctl is, which says how far
  the worker can then be and which tokens are in `lo_sem`. It gives
  `WorkerKeepsFile` and `StartsAlone`, and with `SubtractsWhatIsThere` (after
  the assertion of 458 only the worker itself lowers the counter) that
  `lo_pending` stays a natural number.
* `RefcntAccounts`, `PendingAccounts`: counting arguments over `ControlInv`, with
  the library's theorems on cardinality.
* `OwnershipInv`: list without repetition, and each bio in at most one of list,
  batch and ended. Gives `EndedOnce`. It rests on two lemmas about sequences:
  what `SubSeq` and `Append` do to `Range` and to injectivity.
* `ListedInv`: while an attachment is in force (`InForce`: from the moment the
  head of the old list is gone until the file is cleared), list and batch hold
  only bios that were listed under it. Gives `ServedAsListed`. It rests on the
  head being reset after the new file is stored and before the worker starts.
* `ServiceTheorem`: `Spec => Service!Spec`. The refinement maps `queue` to
  `lo_bio` and `busy` to the batch until it is ended; each step is a step of the
  service or a stutter, with `OwnershipInv` to show that an arriving bio is
  fresh.

FingerButton. `FlagOwned` is the strengthening: a set flag can only be cleared
by the handler and a clear one only be set by the worker, so each side may
trust what it read. `SomeoneEnables` needs in addition that nothing runs before
the probe is done.

AtomTimer. `Undisturbed`: while an OFF is being followed, the chain is at rest
and `timer_running` tells the truth, so whoever is past the cancel knows that
the timer is off, whatever other OFFs overlap.

KdSensor, state of the drivers. `DriverInv` adds to the types that a step which powers a driver does so
for one that is callable. `PowerInv` is the strengthening of `OpenIsPowered`: a
search that was not disturbed holds enables of its own (`SearchHolds`, where
`Lit` counts for each socket the drivers the search has powered and not yet
given back), so that giving them back leaves the sensor's. Since two drivers may
share a socket, `Lit` is a number; and the mask must be zero, or the search would
close sensors. `DarkTheorem` needs only that a call keeps its file open.

KdSensor, balance. `PowerBalance` speaks of the end of a call only. `BalanceInv`
says for each place of each call how far the count of a socket has moved since
the call began: for a search by `Lit` exactly; for an open by `Powered` at most,
and for a close by `Unpowered`, which count the drivers of the socket that the
loop has passed. `CallPlaces` says which call can be
where; with it a search closes no sensor.

LloopControl. `FilesHeld`, `ModulesHeld` and `OpensHeld` count each reference at
every step: those of the attachments, plus what the call in progress holds for
itself between its taking and its giving back. `ReferencesBalance` is what they say
when the call is over. `IInv` adds `CallOK`, what the call under way has established and
nobody else writes (the file is not attached yet, the device still unbound),
`FileIsBound` and `OneDevice`. One lemma per action; `TableTheorem` then maps
attach to the step that makes the device BOUND, where `CallOK` gives that no other
device has the inode, and detach to the one that unbinds it.

KdExposure. `OnTimeTheorem`: what is left of a delay is a function of what was
asked and of the frames since (`DelayInv`), so zero is reached at the right frame
and once; and the stored values are those of the request as long as no
ESHUTTER_GAIN came since (`ValueInv`), which with `kd_shot`, the frame at which one
did, tells whose values a frame gives. `GainsTheorem` splits into three invariants: the stores (`StoresInv`),
what a reader that met no stores has (`ReaderInv`), and the ISP's delay, which is
one ahead between the two steps of a frame (`IspInv`).

KdI2c. `I2cInv`: while a sensor is called and makes its transfers, the bus is the
one of its socket, but in the two functions that select none, and the search
flag is set exactly in a search, also when the call before broke off. A proc
write in progress during a call implies `kb_mixed`, so in the other calls nobody
else moves the bus or the flags; what a write left behind before the call
needs no invariant, and neither do the flags of earlier transfers: each
transfer sets up its client, which is what the proof shows.

KdFeature. The list of steps differs per call, so the invariant is in the style
of Hoare's triples. `Leads(c, x, s, t)` says that step `x` of call `c` takes
the buffers from `s` to `t` as it should, and that each of its failures
leaves what the rest of the call expects (`FailsWell`); `Runs(c, u, s, t)` says it
of a list of steps. `RunsThen` composes lists, `RunsOn` takes the first step off.
One lemma per list of the code (`OneValueRuns`, `TwoValueRuns`, `StructRuns`,
`WindowRuns`, `ResolutionRuns`, ...) gives its triple, `CallRuns` that of every
call: from nothing allocated and the user's pointers to the same. The invariant
`CleanInv` is then short: as long as no failure has ended the call, the steps
left have a triple from the present state to one with nothing allocated
(`OnCourse`); afterwards only the end of `CAMERA_HW_Ioctl` is left (`OffCourse`).
The states of a triple suppose that the sensors filled what they were asked
for; `Tracks` relates them to the real ones, where one may have failed.

DriverStart. `StartInv` is a statement about any driver: what it holds lies
between what the steps so far must have got and what they may have got (`Must`,
`May`), less what the list that is being given back has already given. A
step that can be missed, or that a failure jumped over, is in `May` only.
`TableOf` is what this needs of a driver's tables: a list gives nothing back
twice, and only what is in `Must` there, but for the cases named in
`StartLeavesNothing`. It is proved for each of the five drivers by evaluating the
tables; nothing else about them enters. Both theorems are then read off the
tables; for `CallsFindReady` the cameras need in addition that a node is never
held without the client of its own driver (`NodesInv`).

Ncp1854. A copy that is not stale is the register it is about to replace
(`CopyIsRegister`); every write keeps that for the others by making them stale.

LcmInfo. `HolderInv` ties the semaphore to its holder or to the return past the
end; `CopyInv` says that a reader CLEAN did not meet still sees the data of the
moment it got the semaphore.

TzMem. `TzInv`: until the disk is ready its size is zero, so a segment that passed
the test lies in the pool; after `i` pieces exactly the first `i * Piece` sectors
were asked for. The arithmetic (`i` whole pieces and the rest make up the
segment) is a lemma of its own, and so is what appending a piece does to the
list of sectors. `BlindInv`: a segment without a session passes the test only if the
size was set since the session was read, and then every later read finds the
session.

Bq24296. `DetectInv`: between two tests only the bias is on, so each test closes
exactly its own switches and the comparator tells the plug; this also gives
`Bc11IsOff`. `LimitsInv` lists how far the accesses of `charging_enable` have got and
which fields they have set. `FieldAccess` is the lemma on bits: setting a field
gives it its value and leaves the others of the register as they were.

Only model-checked, since liveness under fairness is out of the prover's reach:
`ListedIsServed` and `DetachReturns` (lloop), `HeldIsReported` and `ButtonRests` (finger
button), `Blinks` (LED timer). The runs that end in a violation (section 4) are
counterexamples and have no theorem.

## 6. Plan

What the first plan listed is built, and every safety property is proved. Open,
in this order: the safety part of the liveness properties, that is, invariants
which say that somebody who will serve the waiting party always exists (as
`SomeoneEnables` does for the finger button); a proof that `LloopDevice` and
`LloopControl` agree on the device they share; liveness of a caller of lcm_info
(it holds only until the first call past the end); byte arithmetic with
wrap-around in tz_mem, when the width of a sector position is fixed by the build.

## 7. Not modelled

* `remove`, suspend and resume of the finger button; its exported enable and
  disable, which nobody calls.
* The five earlier versions of `atom_light.c`: the same driver at earlier stages.
  The copies of the timer and date files of `atom_five` have the code modelled.
* lloop: LL_IOC_LLOOP_INFO, sectors and the transfer itself.
* lcm_info: the proc file, which only reads (53-93).
* tz_mem: wrap-around of byte positions; `tzmem_blkdev_init`; the ioctl, which
  refuses everything.
* ncp1854: reading fields for the caller, the pins set at probe (577-601).
* bq24296: the read-outs (442-504), the branch for external power (619-624), the
  register dump, what the chip does when told to reset, and other callers of the
  setters of the limits (none is in the repository).
* Camera sensor list: sensor tables and regulator names, pins, regulators, the
  clock multiplexer, what the proc files read and the parsing of what is written
  to them; early returns of the 32-bit conversions
  before the call; parameters shorter than the driver's own words;
  `kdSetI2CBusNum` and `kdSetI2CSpeed`, which nobody here calls; `iReadRegI2C` and
  `iWriteRegI2C` as transfers of their own (they have the steps of `iReadReg` and
  `iWriteReg`).
* The LED test programs, PWM register writes and build files, which hold no
  state.

The header comment of each module says what it leaves out.
