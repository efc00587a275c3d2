----------------------------- MODULE LloopDevice -----------------------------
(***************************************************************************)
(* One device of the Lustre loop driver (atom_Block/lloop.c): the list of  *)
(* bios and the counter lo_pending that make_request fills, the worker     *)
(* thread that empties them, and the attach (loop_set_fd) and detach       *)
(* (loop_clr_fd) calls that start and stop the worker through lo_sem.      *)
(*                                                                         *)
(* Each step is one access, or one run of accesses under a single lock     *)
(* hold, of the state several contexts share.  lloop_mutex serialises the  *)
(* ioctls, so a single program counter, ioctl, stands for the call that    *)
(* holds it ("free" when nobody does).                                     *)
(***************************************************************************)
EXTENDS Integers, Sequences, FiniteSets, Functions

CONSTANTS
  Bios,         \* the requests the block layer submits, each at most once
  Handles,      \* user opens of the device node
  Rw,           \* bi_rw of a bio: "READ", "WRITE", "READA" or "OTHER"
  Vcnt,         \* bi_vcnt of a bio: its number of pages
  Via,          \* the open a bio is submitted through
  MaxSegments,  \* LLOOP_MAX_SEGMENTS
  MaxAttach,    \* bound: how often the device is attached
  Failures,     \* what may fail: subset of {"kthread", "env"}
  Reorder,      \* the CPU may read waitqueue_active() before the increment
  NoBio         \* the NULL of lo_biotail

Directions == {"READ", "WRITE", "READA", "OTHER"}
LoFlags == {"LO_FLAGS_READ_ONLY"}

ASSUME LloopAssumption ==
  /\ IsFiniteSet(Bios) /\ IsFiniteSet(Handles)
  /\ MaxSegments \in Nat /\ MaxAttach \in Nat
  /\ Rw \in [Bios -> Directions]
  /\ Vcnt \in [Bios -> 0 .. MaxSegments]
  /\ Via \in [Bios -> Handles]
  /\ Failures \subseteq {"kthread", "env"}
  /\ Reorder \in BOOLEAN
  /\ NoBio \notin Bios

VARIABLES
  lo_state,         \* "UNBOUND", "BOUND" or "RUNDOWN"
  lo_bio,           \* the bios reachable from the list head, in order
  lo_biotail,       \* the bio the next one is chained to, or NoBio
  lo_pending,       \* the atomic counter
  lo_flags,         \* the flags that are set, a subset of LoFlags
  lo_backing_file,  \* number of the attachment whose file is set, 0: NULL
  lo_sem,           \* the semaphore's count
  lo_refcnt,        \* opens of the block device, the attachment's included
  open,             \* the handles that are open
  ioctl,            \* where the holder of lloop_mutex is, "free": nobody
  wpc, batch,       \* the worker's program counter and the bios it holds
  rpc,              \* where the make_request call of each bio is
  attaches,         \* history: attachments so far (numbers them)
  listed,           \* history: the attachment in force when a bio was listed
  lost,             \* history: the bios that fell off the list
  ends              \* history: how often each bio was ended (cfs_bio_endio)

devVars   == <<lo_flags, lo_backing_file, attaches>>
listVars  == <<lo_bio, lo_biotail, lost>>
userVars  == <<lo_refcnt, open>>
workVars  == <<wpc, batch>>
vars == <<lo_state, devVars, listVars, lo_pending, lo_sem, userVars, ioctl,
          workVars, rpc, listed, ends>>

RequestPcs == {"idle", "flags", "add", "inc", "incNoWake", "wake", "back",
               "refused"}
WorkerPcs  == {"none", "bound", "env", "wait", "asleep", "check", "recheck",
               "get", "assert", "handle", "sub", "exit", "lbug"}
IoctlPcs   == {"free", "reset", "resetHead", "resetTail", "kthread",
               "setDown", "rundown", "clrDown", "clrFields", "unbind"}

TypeOK ==
  /\ lo_state \in {"UNBOUND", "BOUND", "RUNDOWN"}
  /\ lo_bio \in Seq(Bios) /\ lo_biotail \in Bios \cup {NoBio}
  /\ lo_pending \in Nat
  /\ lo_flags \in SUBSET LoFlags
  /\ lo_backing_file \in Nat
  /\ lo_sem \in Nat
  /\ lo_refcnt \in Int
  /\ open \in SUBSET Handles
  /\ ioctl \in IoctlPcs
  /\ wpc \in WorkerPcs /\ batch \in Seq(Bios)
  /\ rpc \in [Bios -> RequestPcs]
  /\ attaches \in Nat /\ listed \in [Bios -> Nat]
  /\ lost \in Seq(Bios)
  /\ ends \in [Bios -> Nat]

Init ==
  /\ lo_state = "UNBOUND"
  /\ lo_bio = <<>> /\ lo_biotail = NoBio /\ lo_pending = 0
  /\ lo_flags = {} /\ lo_backing_file = 0
  /\ lo_sem = 0 /\ lo_refcnt = 0 /\ open = {}
  /\ ioctl = "free"
  /\ wpc = "none" /\ batch = <<>>
  /\ rpc = [b \in Bios |-> "idle"]
  /\ attaches = 0 /\ listed = [b \in Bios |-> 0]
  /\ lost = <<>>
  /\ ends = [b \in Bios |-> 0]

(***************************************************************************)
(* Opening and closing the device node.  lo_release waits for nothing: the *)
(* bios submitted through the open may still be on their way.              *)
(***************************************************************************)
lo_open(h) ==
  /\ h \notin open
  /\ open' = open \cup {h}
  /\ lo_refcnt' = lo_refcnt + 1
  /\ UNCHANGED <<lo_state, devVars, listVars, lo_pending, lo_sem, ioctl,
                 workVars, rpc, listed, ends>>

lo_release(h) ==
  /\ h \in open
  /\ open' = open \ {h}
  /\ lo_refcnt' = lo_refcnt - 1
  /\ UNCHANGED <<lo_state, devVars, listVars, lo_pending, lo_sem, ioctl,
                 workVars, rpc, listed, ends>>

(***************************************************************************)
(* loop_make_request and loop_add_bio, in the caller's context.  The queue *)
(* has this make_request function from the first attachment on.            *)
(***************************************************************************)
Refuse(b) ==
  /\ rpc' = [rpc EXCEPT ![b] = "refused"]
  /\ ends' = [ends EXCEPT ![b] = @ + 1]

CheckState(b) ==
  /\ rpc[b] = "idle" /\ Via[b] \in open /\ attaches > 0
  /\ IF lo_state # "BOUND"
     THEN Refuse(b)
     ELSE rpc' = [rpc EXCEPT ![b] = "flags"] /\ UNCHANGED ends
  /\ UNCHANGED <<lo_state, devVars, listVars, lo_pending, lo_sem, userVars,
                 ioctl, workVars, listed>>

Permitted(b) == \/ Rw[b] \in {"READ", "READA"}
                \/ Rw[b] = "WRITE" /\ "LO_FLAGS_READ_ONLY" \notin lo_flags

CheckFlags(b) ==
  /\ rpc[b] = "flags"
  /\ IF Permitted(b)
     THEN rpc' = [rpc EXCEPT ![b] = "add"] /\ UNCHANGED ends
     ELSE Refuse(b)
  /\ UNCHANGED <<lo_state, devVars, listVars, lo_pending, lo_sem, userVars,
                 ioctl, workVars, listed>>

\* The tail is the last bio of the list: a chained bio is reachable.
TailOnList == lo_bio # <<>> /\ lo_bio[Len(lo_bio)] = lo_biotail

\* Mutant: the new bio goes to the front of the list.
Enlist_Front(b) ==
  /\ lo_biotail' = IF lo_biotail = NoBio THEN b ELSE lo_biotail
  /\ lo_bio' = <<b>> \o lo_bio
  /\ UNCHANGED lost

\* The critical section of loop_add_bio.  With the tail NULL the head is
\* overwritten; with a tail that is off the list the bio is unreachable.
Enlist(b) ==
  /\ lo_biotail' = b
  /\ IF lo_biotail = NoBio
     THEN lo_bio' = <<b>> /\ lost' = lost \o lo_bio
     ELSE IF TailOnList
          THEN lo_bio' = Append(lo_bio, b) /\ UNCHANGED lost
          ELSE lost' = Append(lost, b) /\ UNCHANGED lo_bio

AddBio(b) ==
  /\ rpc[b] = "add"
  /\ Enlist(b)
  /\ listed' = [listed EXCEPT ![b] = lo_backing_file]
  /\ rpc' = [rpc EXCEPT ![b] = "inc"]
  /\ UNCHANGED <<lo_state, devVars, lo_pending, lo_sem, userVars, ioctl,
                 workVars, ends>>

\* No barrier orders waitqueue_active() after atomic_inc(): with Reorder the
\* caller may have seen an empty wait queue before it increments.
PeekQueue(b) ==
  /\ Reorder /\ rpc[b] = "inc" /\ wpc # "asleep"
  /\ rpc' = [rpc EXCEPT ![b] = "incNoWake"]
  /\ UNCHANGED <<lo_state, devVars, listVars, lo_pending, lo_sem, userVars,
                 ioctl, workVars, listed, ends>>

IncPending(b) ==
  /\ rpc[b] \in {"inc", "incNoWake"}
  /\ lo_pending' = lo_pending + 1
  /\ rpc' = [rpc EXCEPT ![b] = IF @ = "inc" THEN "wake" ELSE "back"]
  /\ UNCHANGED <<lo_state, devVars, listVars, lo_sem, userVars, ioctl,
                 workVars, listed, ends>>

\* wake_up(&lo->lo_bh_wait): a sleeping worker evaluates its condition again.
WakeUp == wpc' = IF wpc = "asleep" THEN "wait" ELSE wpc

\* Mutant: the wake-up is forgotten.
WakeWorker_None(b) ==
  /\ rpc[b] = "wake"
  /\ rpc' = [rpc EXCEPT ![b] = "back"]
  /\ UNCHANGED <<lo_state, devVars, listVars, lo_pending, lo_sem, userVars,
                 ioctl, workVars, listed, ends>>

WakeWorker(b) ==
  /\ rpc[b] = "wake"
  /\ WakeUp
  /\ rpc' = [rpc EXCEPT ![b] = "back"]
  /\ UNCHANGED <<lo_state, devVars, listVars, lo_pending, lo_sem, userVars,
                 ioctl, batch, listed, ends>>

Request(b) == \/ CheckState(b) \/ CheckFlags(b) \/ AddBio(b)
              \/ PeekQueue(b) \/ IncPending(b) \/ WakeWorker(b)

(***************************************************************************)
(* loop_thread.                                                            *)
(***************************************************************************)
idleWorker == <<devVars, listVars, userVars, ioctl, rpc, listed>>

\* The worker itself publishes the state, without lo_lock.
ThreadBound ==
  /\ wpc = "bound"
  /\ lo_state' = "BOUND"
  /\ wpc' = "env"
  /\ UNCHANGED <<idleWorker, lo_pending, lo_sem, batch, ends>>

\* cl_env_get: when it fails the thread raises lo_sem once and is gone.
ThreadEnv ==
  /\ wpc = "env"
  /\ \/ wpc' = "wait"
     \/ "env" \in Failures /\ wpc' = "none"
  /\ lo_sem' = lo_sem + 1
  /\ UNCHANGED <<idleWorker, lo_state, lo_pending, batch, ends>>

loop_active == lo_pending # 0 \/ lo_state = "RUNDOWN"

ThreadWait ==
  /\ wpc = "wait"
  /\ wpc' = IF loop_active THEN "check" ELSE "asleep"
  /\ UNCHANGED <<idleWorker, lo_state, lo_pending, lo_sem, batch, ends>>

ThreadCheck ==
  /\ wpc = "check"
  /\ wpc' = IF lo_pending = 0 THEN "recheck" ELSE "get"
  /\ UNCHANGED <<idleWorker, lo_state, lo_pending, lo_sem, batch, ends>>

ThreadRecheck ==
  /\ wpc = "recheck"
  /\ wpc' = IF lo_state = "RUNDOWN" THEN "exit" ELSE "get"
  /\ UNCHANGED <<idleWorker, lo_state, lo_pending, lo_sem, batch, ends>>

\* The first n bios of q go out together: one direction, pages within bounds.
Pages(q) == FoldFunction(LAMBDA b, sum : Vcnt[b] + sum, 0, q)

Fits(q, n) == /\ \A i \in 1 .. n : Rw[q[i]] = Rw[q[1]]
              /\ Pages(SubSeq(q, 1, n)) <= MaxSegments

\* Mutant: the whole list was taken and the head still points at it.
Detached_KeepHead(n) ==
  IF n < Len(lo_bio)
  THEN lo_bio' = SubSeq(lo_bio, n + 1, Len(lo_bio)) /\ UNCHANGED lo_biotail
  ELSE lo_biotail' = NoBio /\ UNCHANGED lo_bio

\* The head moves behind the first n bios; at the end of the queue the tail
\* is reset with it.
Detached(n) ==
  /\ lo_bio' = SubSeq(lo_bio, n + 1, Len(lo_bio))
  /\ lo_biotail' = IF n < Len(lo_bio) THEN lo_biotail ELSE NoBio

\* loop_get_bio: the longest prefix that fits, or "missing bio".
loop_get_bio ==
  /\ wpc = "get"
  /\ \/ /\ lo_bio = <<>>
        /\ wpc' = "wait"
        /\ UNCHANGED <<lo_bio, lo_biotail, batch>>
     \/ \E n \in 1 .. Len(lo_bio) :
          /\ Fits(lo_bio, n)
          /\ n < Len(lo_bio) => ~Fits(lo_bio, n + 1)
          /\ batch' = SubSeq(lo_bio, 1, n)
          /\ Detached(n)
          /\ wpc' = "assert"
  /\ UNCHANGED <<devVars, userVars, ioctl, rpc, listed, lost, lo_state,
                 lo_pending, lo_sem, ends>>

\* Mutant: the assertion is compiled out.
ThreadAssert_Off ==
  /\ wpc = "assert"
  /\ wpc' = "handle"
  /\ UNCHANGED <<idleWorker, lo_state, lo_pending, lo_sem, batch, ends>>

\* LASSERT(count <= atomic_read(&lo->lo_pending)): a thread that fails it
\* never runs again.
ThreadAssert ==
  /\ wpc = "assert"
  /\ wpc' = IF Len(batch) <= lo_pending THEN "handle" ELSE "lbug"
  /\ UNCHANGED <<idleWorker, lo_state, lo_pending, lo_sem, batch, ends>>

\* do_bio_lustrebacked and the ending of every bio it was given.
loop_handle_bio ==
  /\ wpc = "handle"
  /\ ends' = [b \in Bios |-> IF b \in Range(batch) THEN ends[b] + 1
                             ELSE ends[b]]
  /\ wpc' = "sub"
  /\ UNCHANGED <<idleWorker, lo_state, lo_pending, lo_sem, batch>>

\* Mutant: one unit is subtracted, not one for each bio.
Served_One == lo_pending - 1

Served == lo_pending - Len(batch)

ThreadSub ==
  /\ wpc = "sub"
  /\ lo_pending' = Served
  /\ batch' = <<>>
  /\ wpc' = "wait"
  /\ UNCHANGED <<idleWorker, lo_state, lo_sem, ends>>

ThreadExit ==
  /\ wpc = "exit"
  /\ lo_sem' = lo_sem + 1
  /\ wpc' = "none"
  /\ UNCHANGED <<idleWorker, lo_state, lo_pending, batch, ends>>

loop_thread ==
  \/ ThreadBound \/ ThreadEnv \/ ThreadWait \/ ThreadCheck \/ ThreadRecheck
  \/ loop_get_bio \/ ThreadAssert \/ loop_handle_bio \/ ThreadSub
  \/ ThreadExit

(***************************************************************************)
(* LL_IOC_LLOOP_ATTACH and loop_set_fd, under lloop_mutex.  A call that is *)
(* refused leaves no trace and is not a step.  Attach is the prefix up to  *)
(* the assignment of lo_backing_file: before it only lo_refcnt changes.    *)
(***************************************************************************)
Attach(flags) ==
  /\ ioctl = "free" /\ lo_state = "UNBOUND" /\ attaches < MaxAttach
  /\ lo_refcnt' = lo_refcnt + 1
  /\ attaches' = attaches + 1
  /\ lo_backing_file' = attaches + 1
  /\ lo_flags' = flags
  /\ ioctl' = "reset"
  /\ UNCHANGED <<lo_state, listVars, lo_pending, lo_sem, open, workVars, rpc,
                 listed, ends>>

\* Mutant: only the tail is reset, and the head of the last attachment stays.
ClearHead_Keep == UNCHANGED <<lo_bio, lost>>

\* lo->lo_bio = lo->lo_biotail = NULL takes no lock: a late loop_add_bio may
\* come between the two stores, which the compiler may issue in any order.
ClearHead == lo_bio' = <<>> /\ lost' = lost \o lo_bio
ClearTail == lo_biotail' = NoBio

ResetList ==
  /\ \/ /\ ioctl \in {"reset", "resetHead"}
        /\ ioctl' = IF ioctl = "reset" THEN "resetTail" ELSE "kthread"
        /\ ClearHead
        /\ UNCHANGED lo_biotail
     \/ /\ ioctl \in {"reset", "resetTail"}
        /\ ioctl' = IF ioctl = "reset" THEN "resetHead" ELSE "kthread"
        /\ ClearTail
        /\ UNCHANGED <<lo_bio, lost>>
  /\ UNCHANGED <<lo_state, devVars, lo_pending, lo_sem, userVars, workVars,
                 rpc, listed, ends>>

\* The result of kthread_run is not looked at.
KthreadRun ==
  /\ ioctl = "kthread"
  /\ ioctl' = "setDown"
  /\ \/ wpc' = "bound"
     \/ "kthread" \in Failures /\ UNCHANGED wpc
  /\ UNCHANGED <<lo_state, devVars, listVars, lo_pending, lo_sem, userVars,
                 batch, rpc, listed, ends>>

SetFdDown ==
  /\ ioctl = "setDown" /\ lo_sem > 0
  /\ lo_sem' = lo_sem - 1
  /\ ioctl' = "free"
  /\ UNCHANGED <<lo_state, devVars, listVars, lo_pending, userVars, workVars,
                 rpc, listed, ends>>

(***************************************************************************)
(* loop_clr_fd, from LL_IOC_LLOOP_DETACH on an open handle (two opens are  *)
(* allowed: the caller's and the attachment's) or from DETACH_BYDEV (one). *)
(***************************************************************************)
ClrFdCheck(count) ==
  /\ ioctl = "free" /\ lo_state = "BOUND"
  /\ count = 2 => open # {}
  /\ lo_refcnt <= count
  /\ lo_backing_file # 0
  /\ ioctl' = "rundown"
  /\ UNCHANGED <<lo_state, devVars, listVars, lo_pending, lo_sem, userVars,
                 workVars, rpc, listed, ends>>

\* Mutant: the state is published but the sleeping worker is not woken.
ClrFdRundown_NoWake ==
  /\ ioctl = "rundown"
  /\ lo_state' = "RUNDOWN"
  /\ ioctl' = "clrDown"
  /\ UNCHANGED <<devVars, listVars, lo_pending, lo_sem, userVars, workVars,
                 rpc, listed, ends>>

ClrFdRundown ==
  /\ ioctl = "rundown"
  /\ lo_state' = "RUNDOWN"
  /\ WakeUp
  /\ ioctl' = "clrDown"
  /\ UNCHANGED <<devVars, listVars, lo_pending, lo_sem, userVars, batch, rpc,
                 listed, ends>>

\* Mutant: detach does not wait for the worker.
ClrFdDown_NoWait ==
  /\ ioctl = "clrDown"
  /\ ioctl' = "clrFields"
  /\ UNCHANGED <<lo_state, devVars, listVars, lo_pending, lo_sem, userVars,
                 workVars, rpc, listed, ends>>

ClrFdDown ==
  /\ ioctl = "clrDown" /\ lo_sem > 0
  /\ lo_sem' = lo_sem - 1
  /\ ioctl' = "clrFields"
  /\ UNCHANGED <<lo_state, devVars, listVars, lo_pending, userVars, workVars,
                 rpc, listed, ends>>

ClrFdFields ==
  /\ ioctl = "clrFields"
  /\ lo_backing_file' = 0
  /\ lo_flags' = {}
  /\ ioctl' = "unbind"
  /\ UNCHANGED <<lo_state, attaches, listVars, lo_pending, lo_sem, userVars,
                 workVars, rpc, listed, ends>>

\* Mutant: the attachment's open of the block device is not given back.
ClrFdUnbind_NoPut ==
  /\ ioctl = "unbind"
  /\ lo_state' = "UNBOUND"
  /\ ioctl' = "free"
  /\ UNCHANGED <<devVars, listVars, lo_pending, lo_sem, userVars, workVars,
                 rpc, listed, ends>>

\* lo_state = LLOOP_UNBOUND, then blkdev_put of the attachment's open.
ClrFdUnbind ==
  /\ ioctl = "unbind"
  /\ lo_state' = "UNBOUND"
  /\ lo_refcnt' = lo_refcnt - 1
  /\ ioctl' = "free"
  /\ UNCHANGED <<devVars, listVars, lo_pending, lo_sem, open, workVars, rpc,
                 listed, ends>>

IoctlCalls == \/ \E flags \in SUBSET LoFlags : Attach(flags)
              \/ \E count \in {1, 2} : ClrFdCheck(count)
IoctlSteps == \/ ResetList \/ KthreadRun \/ SetFdDown
              \/ ClrFdRundown \/ ClrFdDown \/ ClrFdFields \/ ClrFdUnbind

Next == \/ \E h \in Handles : lo_open(h) \/ lo_release(h)
        \/ \E b \in Bios : Request(b)
        \/ loop_thread
        \/ IoctlCalls
        \/ IoctlSteps

Spec == Init /\ [][Next]_vars

\* The scheduler runs every kernel thread that can run: the worker, a call
\* that is inside make_request and an ioctl that holds the mutex go on.  That
\* a user submits, opens, closes, attaches or detaches is not promised.
Fairness ==
  /\ WF_vars(loop_thread)
  /\ \A b \in Bios : WF_vars(Request(b) /\ rpc[b] # "idle")
  /\ WF_vars(IoctlSteps)

FairSpec == Spec /\ Fairness

(***************************************************************************)
(* Properties.                                                             *)
(***************************************************************************)
Adding == {b \in Bios : rpc[b] \in {"inc", "incNoWake"}}

\* lo_pending counts exactly the bios that are listed, held by the worker or
\* fallen off the list, except those whose caller has not incremented it yet:
\* loop_add_bio (275-283), loop_get_bio, the subtraction after the endings
\* (460) and the unlocked reset of the list (515) never lose or gain a unit.
PendingAccounts ==
  lo_pending + Cardinality(Adding) = Len(lo_bio) + Len(batch) + Len(lost)

\* No bio is ended twice: not by the worker when the list was split (324-332)
\* or dropped, and not by both the refusing caller and the worker.
EndedOnce == \A b \in Bios : ends[b] <= 1

\* A bio only reaches the file that was attached when loop_add_bio listed it:
\* bios listed behind the worker's exit or on the detached device do not get to
\* the file of the next attachment, whichever of the two unlocked stores of 515
\* comes first and wherever a late loop_add_bio falls between them.  (A call
\* that passed 352 and 358 before a detach and lists its bio after the next
\* attachment does reach the new file, writable or not.)
ServedAsListed ==
  wpc = "handle" => \A b \in Range(batch) : listed[b] = lo_backing_file

\* While the worker uses the backing file (190), and between the start of the
\* thread and its exit, detach has neither cleared the file nor unbound the
\* device: down(&lo->lo_sem) (567) waited for the right up().
WorkerKeepsFile ==
  wpc \notin {"none", "lbug"} =>
     /\ lo_backing_file = attaches /\ attaches > 0
     /\ wpc # "bound" => lo_state # "UNBOUND"

\* A thread is only started when the previous one is gone and every up() of
\* lo_sem was consumed, so no stale token lets set_fd or clr_fd go on early.
StartsAlone ==
  ioctl = "kthread" => wpc = "none" /\ lo_sem = 0 /\ batch = <<>>

\* lo_refcnt is the number of opens plus the attachment's, over the refused and
\* the detaching paths: the test at 556 compares a true count.
RefcntAccounts ==
  lo_refcnt = Cardinality(open)
              + (IF lo_backing_file # 0 \/ ioctl = "unbind" THEN 1 ELSE 0)

\* LASSERT(count <= atomic_read(&lo->lo_pending)) (458): the counter never lags
\* behind the bios the worker took.
LassertCount == wpc = "assert" => Len(batch) <= lo_pending

\* A bio on the list is ended, or falls off it, unless the worker stops.
ListedIsServed ==
  \A b \in Bios : (b \in Range(lo_bio) /\ wpc # "none")
                    ~> (ends[b] > 0 \/ b \in Range(lost) \/ wpc \in {"none", "lbug"})

\* A detach waiting for the worker returns, unless a bio that fell off the list
\* keeps lo_pending above zero or the worker failed its assertion.
DetachReturns ==
  ioctl = "clrDown" ~> (ioctl # "clrDown" \/ lost # <<>> \/ wpc = "lbug")

\* The device as a first-in first-out service of bios (module LloopService).
Service == INSTANCE LloopService WITH
             queue <- lo_bio,
             busy  <- IF wpc \in {"assert", "handle", "lbug"} THEN batch ELSE <<>>

\* Enlisting, batching, counting and waking implement that service.
ImplementsService == Service!Spec
==============================================================================
