-------------------------- MODULE LloopDeviceProofs --------------------------
(***************************************************************************)
(* Theorems about LloopDevice for every set of bios and handles, every     *)
(* number of attachments and every combination of failures.                *)
(***************************************************************************)
EXTENDS LloopDevice, TLAPS, FiniteSetTheorems, SequenceTheorems

(***************************************************************************)
(* The inductive invariant, in parts.                                      *)
(***************************************************************************)
\* The subtraction never takes lo_pending below zero: after the LASSERT only
\* the worker itself lowers the counter.
SubtractsWhatIsThere ==
  wpc \in {"handle", "sub"} => Len(batch) <= lo_pending

\* The worker holds bios only between loop_get_bio and the subtraction.
BatchHeld ==
  wpc \notin {"assert", "handle", "sub", "lbug"} => batch = <<>>

Running == {"wait", "asleep", "check", "recheck", "get", "assert", "handle",
            "sub", "lbug"}

Attached == lo_backing_file = attaches /\ attaches > 0

\* Where the ioctl is decides how far the worker can be and what is in lo_sem.
Handshake ==
  \/ /\ ioctl = "free" /\ lo_sem = 0
     /\ \/ lo_state = "UNBOUND" /\ wpc = "none" /\ lo_backing_file = 0
        \/ lo_state = "BOUND" /\ wpc \in Running \cup {"none"} /\ Attached
  \/ /\ ioctl \in {"reset", "resetHead", "resetTail", "kthread"}
     /\ lo_sem = 0 /\ lo_state = "UNBOUND" /\ wpc = "none" /\ Attached
  \/ /\ ioctl = "setDown" /\ Attached
     /\ \/ lo_state = "UNBOUND" /\ lo_sem = 0 /\ wpc \in {"none", "bound"}
        \/ lo_state = "BOUND" /\ lo_sem = 0 /\ wpc = "env"
        \/ lo_state = "BOUND" /\ lo_sem = 1 /\ wpc \in Running \cup {"none"}
  \/ /\ ioctl = "rundown" /\ Attached
     /\ lo_sem = 0 /\ lo_state = "BOUND" /\ wpc \in Running \cup {"none"}
  \/ /\ ioctl = "clrDown" /\ Attached /\ lo_state = "RUNDOWN"
     /\ \/ lo_sem = 0 /\ wpc \in Running \cup {"none", "exit"}
        \/ lo_sem = 1 /\ wpc = "none"
  \/ /\ ioctl = "clrFields" /\ Attached
     /\ lo_state = "RUNDOWN" /\ lo_sem = 0 /\ wpc = "none"
  \/ /\ ioctl = "unbind" /\ lo_backing_file = 0
     /\ lo_state = "RUNDOWN" /\ lo_sem = 0 /\ wpc = "none"

\* Types, counters and the attach/detach handshake with the worker.
ControlInv == TypeOK /\ SubtractsWhatIsThere /\ BatchHeld /\ Handshake

\* A bio is on its way to the list only until loop_add_bio put it there, and
\* then in at most one of list, batch and ended.
Located(b) ==
  /\ rpc[b] \in {"idle", "flags", "add"} =>
       /\ ends[b] = 0
       /\ b \notin Range(lo_bio) /\ b \notin Range(batch)
  /\ rpc[b] = "refused" =>
       ends[b] = 1 /\ b \notin Range(lo_bio) /\ b \notin Range(batch)
  /\ b \in Range(lo_bio) => ends[b] = 0 /\ b \notin Range(batch)
  /\ b \in Range(batch) /\ wpc # "sub" => ends[b] = 0
  /\ ends[b] <= 1

OwnershipInv == IsInjective(lo_bio) /\ \A b \in Bios : Located(b)

\* An attachment is in force from the moment the old list's head is gone until
\* the file is cleared.  Meanwhile list and batch hold its own bios only.
InForce == lo_backing_file # 0 /\ ioctl \notin {"reset", "resetHead"}

ListedInv ==
  InForce => \A b \in Range(lo_bio) \cup Range(batch) :
               listed[b] = lo_backing_file

-----------------------------------------------------------------------------
(***************************************************************************)
(* Lemmas about the list.                                                  *)
(***************************************************************************)
\* What loop_get_bio leaves behind and takes are lists of bios again.
LEMMA SplitType ==
  ASSUME NEW q \in Seq(Bios), NEW n \in 1 .. Len(q)
  PROVE  /\ SubSeq(q, 1, n) \in Seq(Bios)
         /\ SubSeq(q, n + 1, Len(q)) \in Seq(Bios)
         /\ Len(SubSeq(q, 1, n)) = n
         /\ Len(SubSeq(q, n + 1, Len(q))) = Len(q) - n
  <1>1. \A i \in 1 .. Len(q) : q[i] \in Bios
    BY ElementOfSeq
  <1>2. Len(q) \in Nat
    BY LenProperties
  <1>3. SubSeq(q, 1, n) \in Seq(Bios) /\ Len(SubSeq(q, 1, n)) = n
    BY <1>1, <1>2, SubSeqProperties
  <1>4. /\ SubSeq(q, n + 1, Len(q)) \in Seq(Bios)
        /\ Len(SubSeq(q, n + 1, Len(q))) = Len(q) - n
    BY <1>1, <1>2, SubSeqProperties
  <1> QED BY <1>3, <1>4

-----------------------------------------------------------------------------
(***************************************************************************)
(* Types, counters and handshake are inductive together.                   *)
(***************************************************************************)
LEMMA InitControlInv == Init => ControlInv
  BY EmptySeq
  DEF Init, ControlInv, TypeOK, SubtractsWhatIsThere, BatchHeld, Handshake,
      RequestPcs, WorkerPcs, IoctlPcs

\* What loop_add_bio leaves on the list, and what it drops, are bios.
LEMMA EnlistType ==
  ASSUME TypeOK, NEW b \in Bios, Enlist(b)
  PROVE  lo_bio' \in Seq(Bios) /\ lost' \in Seq(Bios)
  <1>1. lo_bio \in Seq(Bios) /\ lost \in Seq(Bios)
    BY DEF TypeOK
  <1>2. CASE lo_biotail = NoBio
    <2>1. <<b>> \in Seq(Bios) /\ lost \o lo_bio \in Seq(Bios)
      BY <1>1
    <2> QED
      BY <1>2, <2>1 DEF Enlist
  <1>3. CASE lo_biotail # NoBio /\ TailOnList
    BY <1>1, <1>3 DEF Enlist
  <1>4. CASE lo_biotail # NoBio /\ ~TailOnList
    BY <1>1, <1>4 DEF Enlist
  <1> QED BY <1>2, <1>3, <1>4

LEMMA RefuseType ==
  ASSUME TypeOK, NEW b \in Bios, Refuse(b)
  PROVE  /\ rpc' \in [Bios -> RequestPcs]
         /\ ends' \in [Bios -> Nat]
  <1>1. rpc' \in [Bios -> RequestPcs]
    BY DEF TypeOK, Refuse, RequestPcs
  <1>2. ends' \in [Bios -> Nat]
    BY DEF TypeOK, Refuse
  <1> QED BY <1>1, <1>2

\* A call that only moves on, is let in or is refused leaves the rest alone.
LEMMA CallFrame ==
  ASSUME ControlInv,
         rpc' \in [Bios -> RequestPcs], ends' \in [Bios -> Nat],
         UNCHANGED <<lo_state, devVars, listVars, lo_pending, lo_sem, userVars,
                     ioctl, workVars, listed>>
  PROVE  ControlInv'
  BY DEF ControlInv, TypeOK, SubtractsWhatIsThere, BatchHeld, Handshake,
     Attached, devVars, listVars, userVars, workVars

LEMMA RequestControlInv ==
  ASSUME ControlInv, NEW b \in Bios, Request(b)
  PROVE  ControlInv'
  <1>0. /\ TypeOK
        /\ rpc \in [Bios -> RequestPcs] /\ listed \in [Bios -> Nat]
        /\ ends \in [Bios -> Nat] /\ lo_pending \in Nat /\ lo_backing_file \in Nat
        /\ {"flags", "add", "inc", "incNoWake", "wake", "back"} \subseteq RequestPcs
    BY DEF ControlInv, TypeOK, RequestPcs
  <1>1. CASE CheckState(b)
    <2>1. UNCHANGED <<lo_state, devVars, listVars, lo_pending, lo_sem,
                      userVars, ioctl, workVars, listed>>
      BY <1>1 DEF CheckState
    <2>2. CASE lo_state = "BOUND"
      <3>1. rpc' \in [Bios -> RequestPcs] /\ ends' = ends
        BY <1>0, <1>1, <2>2 DEF CheckState
      <3> QED BY <1>0, <2>1, <3>1, CallFrame
    <2>3. CASE lo_state # "BOUND"
      <3>1. Refuse(b)
        BY <1>1, <2>3 DEF CheckState
      <3> QED BY <1>0, <2>1, <3>1, RefuseType, CallFrame
    <2> QED BY <2>2, <2>3
  <1>2. CASE CheckFlags(b)
    <2>1. UNCHANGED <<lo_state, devVars, listVars, lo_pending, lo_sem,
                      userVars, ioctl, workVars, listed>>
      BY <1>2 DEF CheckFlags
    <2>2. CASE Permitted(b)
      <3>1. rpc' \in [Bios -> RequestPcs] /\ ends' = ends
        BY <1>0, <1>2, <2>2 DEF CheckFlags
      <3> QED BY <1>0, <2>1, <3>1, CallFrame
    <2>3. CASE ~Permitted(b)
      <3>1. Refuse(b)
        BY <1>2, <2>3 DEF CheckFlags
      <3> QED BY <1>0, <2>1, <3>1, RefuseType, CallFrame
    <2> QED BY <2>2, <2>3
  <1>3. CASE AddBio(b)
    <2>1. lo_bio' \in Seq(Bios) /\ lost' \in Seq(Bios)
      BY <1>0, <1>3, EnlistType DEF AddBio
    <2>2. lo_biotail' = b
      BY <1>3 DEF AddBio, Enlist
    <2>3. rpc' \in [Bios -> RequestPcs] /\ listed' \in [Bios -> Nat]
      BY <1>0, <1>3 DEF AddBio
    <2> QED
      BY <1>3, <2>1, <2>2, <2>3
      DEF AddBio, devVars, userVars, workVars, ControlInv, TypeOK,
          SubtractsWhatIsThere, BatchHeld, Handshake, Attached
  <1>4. CASE PeekQueue(b)
    <2>1. rpc' \in [Bios -> RequestPcs]
      BY <1>0, <1>4 DEF PeekQueue
    <2> QED BY <1>0, <1>4, <2>1, CallFrame DEF PeekQueue
  <1>5. CASE IncPending(b)
    <2>1. rpc' \in [Bios -> RequestPcs] /\ lo_pending' = lo_pending + 1
      BY <1>0, <1>5 DEF IncPending
    <2> QED
      BY <1>0, <1>5, <2>1
      DEF IncPending, devVars, listVars, userVars, workVars, ControlInv,
          TypeOK, SubtractsWhatIsThere, BatchHeld, Handshake, Attached
  <1>6. CASE WakeWorker(b)
    <2>1. rpc' \in [Bios -> RequestPcs]
      BY <1>0, <1>6 DEF WakeWorker
    <2> QED
      BY <1>6, <2>1
      DEF WakeWorker, WakeUp, devVars, listVars, userVars, ControlInv, TypeOK,
          SubtractsWhatIsThere, BatchHeld, Handshake, Attached, Running,
          WorkerPcs
  <1> QED
    BY <1>1, <1>2, <1>3, <1>4, <1>5, <1>6 DEF Request

LEMMA ThreadControlInv ==
  ASSUME ControlInv, loop_thread
  PROVE  ControlInv'
  <1> USE DEF ControlInv, TypeOK, SubtractsWhatIsThere, BatchHeld,
          Handshake, Running, Attached, RequestPcs, WorkerPcs, IoctlPcs
  <1>1. CASE ThreadBound
    BY <1>1 DEF ThreadBound, idleWorker, devVars, listVars, userVars
  <1>2. CASE ThreadEnv
    BY <1>2 DEF ThreadEnv, idleWorker, devVars, listVars, userVars
  <1>3. CASE ThreadWait
    BY <1>3 DEF ThreadWait, idleWorker, devVars, listVars, userVars
  <1>4. CASE ThreadCheck
    BY <1>4 DEF ThreadCheck, idleWorker, devVars, listVars, userVars
  <1>5. CASE ThreadRecheck
    BY <1>5 DEF ThreadRecheck, idleWorker, devVars, listVars, userVars
  <1>6. CASE loop_get_bio
    <2>1. CASE lo_bio = <<>> /\ wpc' = "wait" /\ UNCHANGED <<lo_bio, lo_biotail, batch>>
      BY <1>6, <2>1 DEF loop_get_bio, devVars, userVars
    <2>2. ASSUME NEW n \in 1 .. Len(lo_bio), Detached(n), wpc' = "assert",
                 batch' = SubSeq(lo_bio, 1, n)
          PROVE  ControlInv'
      <3>1. lo_bio' \in Seq(Bios) /\ batch' \in Seq(Bios)
        BY <2>2, SplitType DEF Detached
      <3> QED
        BY <1>6, <2>2, <3>1 DEF loop_get_bio, Detached, devVars, userVars
    <2> QED
      BY <1>6, <2>1, <2>2 DEF loop_get_bio
  <1>7. CASE ThreadAssert
    BY <1>7 DEF ThreadAssert, idleWorker, devVars, listVars, userVars
  <1>8. CASE loop_handle_bio
    BY <1>8 DEF loop_handle_bio, idleWorker, devVars, listVars, userVars
  <1>9. CASE ThreadSub
    <2>1. Len(batch) \in Nat /\ Len(batch) <= lo_pending
      BY <1>9 DEF ThreadSub
    <2> QED
      BY <1>9, <2>1 DEF ThreadSub, Served, idleWorker, devVars, listVars, userVars
  <1>10. CASE ThreadExit
    BY <1>10 DEF ThreadExit, idleWorker, devVars, listVars, userVars
  <1> QED
    BY <1>1, <1>2, <1>3, <1>4, <1>5, <1>6, <1>7, <1>8, <1>9, <1>10
    DEF loop_thread

LEMMA IoctlControlInv ==
  ASSUME ControlInv, IoctlCalls \/ IoctlSteps
  PROVE  ControlInv'
  <1> USE DEF ControlInv, TypeOK, SubtractsWhatIsThere, BatchHeld,
          Handshake, Running, Attached, RequestPcs, WorkerPcs, IoctlPcs
  <1>1. ASSUME NEW flags \in SUBSET LoFlags, Attach(flags) PROVE ControlInv'
    BY <1>1 DEF Attach, listVars, workVars
  <1>2. ASSUME NEW count \in {1, 2}, ClrFdCheck(count) PROVE ControlInv'
    BY <1>2 DEF ClrFdCheck, devVars, listVars, userVars, workVars
  <1>3. CASE ResetList
    <2>1. lo_bio' \in Seq(Bios) /\ lost' \in Seq(Bios)
      <3>1. lost \o lo_bio \in Seq(Bios)
        OBVIOUS
      <3> QED
        BY <1>3, <3>1 DEF ResetList, ClearHead
    <2> QED
      BY <1>3, <2>1 DEF ResetList, ClearTail, devVars, userVars, workVars
  <1>4. CASE KthreadRun
    BY <1>4 DEF KthreadRun, devVars, listVars, userVars
  <1>5. CASE SetFdDown
    BY <1>5 DEF SetFdDown, devVars, listVars, userVars, workVars
  <1>6. CASE ClrFdRundown
    BY <1>6 DEF ClrFdRundown, WakeUp, devVars, listVars, userVars
  <1>7. CASE ClrFdDown
    BY <1>7 DEF ClrFdDown, devVars, listVars, userVars, workVars
  <1>8. CASE ClrFdFields
    BY <1>8 DEF ClrFdFields, listVars, userVars, workVars
  <1>9. CASE ClrFdUnbind
    BY <1>9 DEF ClrFdUnbind, devVars, listVars, workVars
  <1> QED
    BY <1>1, <1>2, <1>3, <1>4, <1>5, <1>6, <1>7, <1>8, <1>9
    DEF IoctlCalls, IoctlSteps

LEMMA NextControlInv == ControlInv /\ [Next]_vars => ControlInv'
  <1> SUFFICES ASSUME ControlInv, [Next]_vars PROVE ControlInv'
    OBVIOUS
  <1>1. ASSUME NEW h \in Handles, lo_open(h) \/ lo_release(h) PROVE ControlInv'
    <2>1. lo_refcnt' \in Int /\ open' \in SUBSET Handles
      BY <1>1 DEF lo_open, lo_release, ControlInv, TypeOK
    <2> QED
      BY <1>1, <2>1
      DEF lo_open, lo_release, ControlInv, TypeOK, SubtractsWhatIsThere,
       BatchHeld, Handshake, Attached, devVars, listVars, workVars
  <1>2. CASE UNCHANGED vars
    BY <1>2 DEF vars, ControlInv, TypeOK, SubtractsWhatIsThere, BatchHeld,
       Handshake, Attached, devVars, listVars, userVars, workVars
  <1> QED
    BY <1>1, <1>2, RequestControlInv, ThreadControlInv, IoctlControlInv DEF Next

\* Every variable keeps its type; in particular lo_pending, lo_sem and the
\* numbers of attachments never go below zero.
THEOREM TypeCorrect == Spec => []TypeOK
  <1>1. Spec => []ControlInv
    BY InitControlInv, NextControlInv, PTL DEF Spec
  <1> QED
    BY <1>1, PTL DEF ControlInv

\* The handshake puts the file and the device state at the worker's disposal.
LEMMA ControlKeepsFile == ControlInv => WorkerKeepsFile
  BY DEF ControlInv, Handshake, Running, Attached, WorkerKeepsFile

LEMMA ControlStartsAlone == ControlInv => StartsAlone
  BY DEF ControlInv, Handshake, BatchHeld, StartsAlone

LEMMA ControlInvariant == Spec => []ControlInv
  BY InitControlInv, NextControlInv, PTL DEF Spec

\* The worker never runs without its backing file or on an unbound device:
\* loop_clr_fd's down() is matched by the up() of the thread's exit.
THEOREM WorkerFileTheorem == Spec => []WorkerKeepsFile
  BY ControlInvariant, ControlKeepsFile, PTL

\* loop_set_fd starts a thread only when no other one lives and no token is
\* left in lo_sem.
THEOREM StartsAloneTheorem == Spec => []StartsAlone
  BY ControlInvariant, ControlStartsAlone, PTL

-----------------------------------------------------------------------------
(***************************************************************************)
(* lo_refcnt.                                                              *)
(***************************************************************************)
LEMMA NextRefcnt ==
  ASSUME ControlInv, RefcntAccounts, [Next]_vars
  PROVE  RefcntAccounts'
  <1> DEFINE held == IF lo_backing_file # 0 \/ ioctl = "unbind" THEN 1 ELSE 0
  <1>1. IsFiniteSet(open) /\ Cardinality(open) \in Nat
    BY LloopAssumption, FS_Subset, FS_CardinalityType DEF ControlInv, TypeOK
  <1>2. ASSUME NEW h \in Handles, lo_open(h) PROVE RefcntAccounts'
    <2>1. Cardinality(open') = Cardinality(open) + 1
      BY <1>1, <1>2, FS_AddElement DEF lo_open
    <2> QED
      BY <1>1, <1>2, <2>1 DEF lo_open, devVars, RefcntAccounts
  <1>3. ASSUME NEW h \in Handles, lo_release(h) PROVE RefcntAccounts'
    <2>1. Cardinality(open') = Cardinality(open) - 1
      BY <1>1, <1>3, FS_RemoveElement DEF lo_release
    <2> QED
      BY <1>1, <1>3, <2>1 DEF lo_release, devVars, RefcntAccounts
  <1>4. ASSUME NEW b \in Bios, Request(b) PROVE RefcntAccounts'
    BY <1>4 DEF Request, CheckState, CheckFlags, AddBio, PeekQueue, IncPending,
       WakeWorker, devVars, userVars, RefcntAccounts
  <1>5. CASE loop_thread
    BY <1>5 DEF loop_thread, ThreadBound, ThreadEnv, ThreadWait, ThreadCheck,
       ThreadRecheck, loop_get_bio, ThreadAssert, loop_handle_bio, ThreadSub,
       ThreadExit, idleWorker, devVars, userVars, RefcntAccounts
  <1>6. ASSUME NEW flags \in SUBSET LoFlags, Attach(flags) PROVE RefcntAccounts'
    <2>1. lo_backing_file = 0 /\ lo_backing_file' # 0
      BY <1>6 DEF Attach, ControlInv, Handshake, TypeOK
    <2> QED
      BY <1>1, <1>6, <2>1 DEF Attach, RefcntAccounts
  <1>7. CASE ClrFdFields
    <2>1. lo_backing_file # 0
      BY <1>7 DEF ClrFdFields, ControlInv, Handshake, Attached, TypeOK
    <2> QED
      BY <1>7, <2>1 DEF ClrFdFields, userVars, RefcntAccounts
  <1>8. CASE ClrFdUnbind
    <2>1. lo_backing_file = 0
      BY <1>8 DEF ClrFdUnbind, ControlInv, Handshake
    <2> QED
      BY <1>1, <1>8, <2>1 DEF ClrFdUnbind, devVars, RefcntAccounts
  <1>9. ASSUME NEW count \in {1, 2}, ClrFdCheck(count) PROVE RefcntAccounts'
    BY <1>9 DEF ClrFdCheck, devVars, userVars, RefcntAccounts
  <1>10. CASE ResetList \/ KthreadRun \/ SetFdDown \/ ClrFdRundown \/ ClrFdDown
    BY <1>10 DEF ResetList, KthreadRun, SetFdDown, ClrFdRundown, ClrFdDown,
       devVars, userVars, RefcntAccounts
  <1>11. CASE UNCHANGED vars
    BY <1>11 DEF vars, devVars, userVars, RefcntAccounts
  <1> QED
    BY <1>2, <1>3, <1>4, <1>5, <1>6, <1>7, <1>8, <1>9, <1>10, <1>11
    DEF Next, IoctlCalls, IoctlSteps

\* The count that loop_clr_fd compares is the number of opens that exist.
THEOREM RefcntTheorem == Spec => []RefcntAccounts
  <1>1. Init => RefcntAccounts
    BY FS_EmptySet DEF Init, RefcntAccounts
  <1> QED
    BY <1>1, NextRefcnt, ControlInvariant, PTL DEF Spec

-----------------------------------------------------------------------------
(***************************************************************************)
(* lo_pending.                                                             *)
(***************************************************************************)
LEMMA AddingFinite ==
  ASSUME TypeOK
  PROVE  IsFiniteSet(Adding) /\ Cardinality(Adding) \in Nat
  BY LloopAssumption, FS_Subset, FS_CardinalityType DEF Adding

LEMMA NextPending ==
  ASSUME ControlInv, PendingAccounts, [Next]_vars
  PROVE  PendingAccounts'
  <1> USE DEF PendingAccounts
  <1>1. TypeOK /\ IsFiniteSet(Adding) /\ Cardinality(Adding) \in Nat
    BY AddingFinite DEF ControlInv
  <1>2. /\ Len(lo_bio) \in Nat /\ Len(batch) \in Nat /\ Len(lost) \in Nat
        /\ lo_pending \in Nat
    BY <1>1, LenProperties DEF TypeOK
  <1>3. ASSUME NEW b \in Bios, AddBio(b) PROVE PendingAccounts'
    <2>1. Adding' = Adding \cup {b} /\ b \notin Adding
      BY <1>1, <1>3 DEF AddBio, Adding, TypeOK
    <2>2. Cardinality(Adding') = Cardinality(Adding) + 1
      BY <1>1, <2>1, FS_AddElement
    <2>3. Len(lo_bio') + Len(lost') = Len(lo_bio) + Len(lost) + 1
      <3>1. CASE lo_biotail = NoBio
        <4>1. lo_bio' = <<b>> /\ lost' = lost \o lo_bio
          BY <1>3, <3>1 DEF AddBio, Enlist
        <4>2. Len(lost \o lo_bio) = Len(lost) + Len(lo_bio)
          BY <1>1, ConcatProperties DEF TypeOK
        <4> QED BY <1>2, <4>1, <4>2
      <3>2. CASE lo_biotail # NoBio /\ TailOnList
        <4>1. lo_bio' = Append(lo_bio, b) /\ lost' = lost
          BY <1>3, <3>2 DEF AddBio, Enlist
        <4> QED BY <1>1, <1>2, <4>1 DEF TypeOK
      <3>3. CASE lo_biotail # NoBio /\ ~TailOnList
        <4>1. lost' = Append(lost, b) /\ lo_bio' = lo_bio
          BY <1>3, <3>3 DEF AddBio, Enlist
        <4> QED BY <1>1, <1>2, <4>1 DEF TypeOK
      <3> QED BY <3>1, <3>2, <3>3
    <2>4. lo_pending' = lo_pending /\ batch' = batch
      BY <1>3 DEF AddBio, workVars
    <2>5. Len(lo_bio') \in Nat /\ Len(lost') \in Nat
      BY <1>1, <1>3, EnlistType, LenProperties DEF AddBio
    <2> QED BY <1>1, <1>2, <2>2, <2>3, <2>4, <2>5
  <1>4. ASSUME NEW b \in Bios, IncPending(b) PROVE PendingAccounts'
    <2>1. Adding' = Adding \ {b} /\ b \in Adding
      BY <1>1, <1>4 DEF IncPending, Adding, TypeOK
    <2>2. Cardinality(Adding') = Cardinality(Adding) - 1
      BY <1>1, <2>1, FS_RemoveElement
    <2> QED
      BY <1>1, <1>2, <1>4, <2>2 DEF IncPending, listVars, workVars
  <1>5. ASSUME NEW b \in Bios,
               CheckState(b) \/ CheckFlags(b) \/ PeekQueue(b) \/ WakeWorker(b)
        PROVE  PendingAccounts'
    <2>1. Adding' = Adding
      BY <1>1, <1>5 DEF CheckState, CheckFlags, Refuse, PeekQueue, WakeWorker,
         Adding, TypeOK
    <2> QED
      BY <1>5, <2>1 DEF CheckState, CheckFlags, PeekQueue, WakeWorker,
         listVars, workVars
  <1>6. CASE loop_get_bio
    <2>1. Adding' = Adding /\ lo_pending' = lo_pending /\ lost' = lost
      BY <1>6 DEF loop_get_bio, Adding
    <2>2. batch = <<>>
      BY <1>6 DEF loop_get_bio, ControlInv, BatchHeld
    <2>3. CASE lo_bio' = lo_bio /\ batch' = batch
      BY <2>1, <2>3
    <2>4. ASSUME NEW n \in 1 .. Len(lo_bio), Detached(n),
                 batch' = SubSeq(lo_bio, 1, n)
          PROVE  PendingAccounts'
      <3>1. Len(batch') = n /\ Len(lo_bio') = Len(lo_bio) - n
        BY <1>1, <2>4, SplitType DEF Detached, TypeOK
      <3> QED BY <1>1, <1>2, <2>1, <2>2, <3>1
    <2> QED BY <1>6, <2>3, <2>4 DEF loop_get_bio
  <1>7. CASE ThreadSub
    <2>1. batch' = <<>> /\ lo_pending' = lo_pending - Len(batch)
      BY <1>7 DEF ThreadSub, Served
    <2>2. Adding' = Adding /\ lo_bio' = lo_bio /\ lost' = lost
      BY <1>7 DEF ThreadSub, idleWorker, listVars, Adding
    <2> QED BY <1>1, <1>2, <2>1, <2>2
  <1>8. CASE \/ ThreadBound \/ ThreadEnv \/ ThreadWait \/ ThreadCheck
             \/ ThreadRecheck \/ ThreadAssert \/ loop_handle_bio \/ ThreadExit
    <2>1. UNCHANGED <<rpc, lo_pending, lo_bio, batch, lost>>
      BY <1>8 DEF ThreadBound, ThreadEnv, ThreadWait, ThreadCheck,
         ThreadRecheck, ThreadAssert, loop_handle_bio, ThreadExit, idleWorker,
         listVars
    <2> QED BY <2>1 DEF Adding
  <1>9. CASE ResetList
    <2>1. Adding' = Adding /\ lo_pending' = lo_pending /\ batch' = batch
      BY <1>9 DEF ResetList, Adding, workVars
    <2>2. CASE ClearHead
      <3>1. Len(lost \o lo_bio) = Len(lost) + Len(lo_bio)
        BY <1>1, ConcatProperties DEF TypeOK
      <3>2. Len(lo_bio') = 0 /\ Len(lost') = Len(lost) + Len(lo_bio)
        BY <2>2, <3>1 DEF ClearHead
      <3> QED BY <1>1, <1>2, <2>1, <3>2
    <2>3. CASE UNCHANGED <<lo_bio, lost>>
      BY <2>1, <2>3
    <2> QED BY <1>9, <2>2, <2>3 DEF ResetList
  <1>10. CASE \/ \E flags \in SUBSET LoFlags : Attach(flags)
              \/ \E count \in {1, 2} : ClrFdCheck(count)
              \/ KthreadRun \/ SetFdDown \/ ClrFdRundown \/ ClrFdDown
              \/ ClrFdFields \/ ClrFdUnbind
              \/ \E h \in Handles : lo_open(h) \/ lo_release(h)
              \/ UNCHANGED vars
    <2>1. UNCHANGED <<rpc, lo_pending, lo_bio, batch, lost>>
      BY <1>10 DEF Attach, ClrFdCheck, KthreadRun, SetFdDown, ClrFdRundown,
         ClrFdDown, ClrFdFields, ClrFdUnbind, lo_open, lo_release, vars,
         listVars, workVars
    <2> QED BY <2>1 DEF Adding
  <1> QED
    BY <1>3, <1>4, <1>5, <1>6, <1>7, <1>8, <1>9, <1>10
    DEF Next, Request, loop_thread, IoctlCalls, IoctlSteps

\* lo_pending accounts for every bio that is listed, taken or dropped, up to
\* the callers that are between the list and the increment.
THEOREM PendingTheorem == Spec => []PendingAccounts
  <1>1. Init => PendingAccounts
    <2> SUFFICES ASSUME Init PROVE PendingAccounts
      OBVIOUS
    <2>1. Adding = {}
      BY DEF Init, Adding
    <2> QED BY <2>1, FS_EmptySet DEF Init, PendingAccounts
  <1> QED
    BY <1>1, NextPending, ControlInvariant, PTL DEF Spec

-----------------------------------------------------------------------------
(***************************************************************************)
(* Where a bio is.                                                         *)
(***************************************************************************)
LEMMA SplitRange ==
  ASSUME NEW q \in Seq(Bios), IsInjective(q), NEW n \in 1 .. Len(q)
  PROVE  LET front == SubSeq(q, 1, n)
             rest  == SubSeq(q, n + 1, Len(q))
         IN  /\ Range(front) \subseteq Range(q)
             /\ Range(rest) \subseteq Range(q)
             /\ Range(front) \cap Range(rest) = {}
             /\ IsInjective(rest)
  <1> DEFINE front == SubSeq(q, 1, n)
             rest  == SubSeq(q, n + 1, Len(q))
  <1>1. Len(q) \in Nat /\ DOMAIN q = 1 .. Len(q) /\ \A i \in 1 .. Len(q) : q[i] \in Bios
    BY LenProperties, ElementOfSeq
  <1>2. DOMAIN front = 1 .. n /\ \A i \in 1 .. n : front[i] = q[i]
    BY <1>1, SubSeqProperties, LenProperties
  <1>3. DOMAIN rest = 1 .. Len(q) - n /\ \A i \in 1 .. Len(q) - n : rest[i] = q[n + i]
    BY <1>1, SubSeqProperties, LenProperties
  <1>4. \A i, j \in 1 .. Len(q) : q[i] = q[j] => i = j
    BY <1>1 DEF IsInjective
  <1>5. Range(front) \subseteq Range(q) /\ Range(rest) \subseteq Range(q)
    BY <1>1, <1>2, <1>3 DEF Range
  <1>6. ASSUME NEW x \in Range(front), x \in Range(rest) PROVE FALSE
    <2>1. PICK i \in 1 .. n : x = q[i]
      BY <1>2, <1>6 DEF Range
    <2>2. PICK j \in 1 .. Len(q) - n : x = q[n + j]
      BY <1>3, <1>6 DEF Range
    <2>3. i \in 1 .. Len(q) /\ n + j \in 1 .. Len(q) /\ i # n + j
      BY <1>1
    <2>4. q[i] = q[n + j]
      BY <2>1, <2>2
    <2> QED BY <1>4, <2>3, <2>4
  <1>7. IsInjective(rest)
    <2> SUFFICES ASSUME NEW i \in 1 .. Len(q) - n, NEW j \in 1 .. Len(q) - n,
                        rest[i] = rest[j]
                 PROVE  i = j
      BY <1>3 DEF IsInjective
    <2>1. q[n + i] = q[n + j] /\ n + i \in 1 .. Len(q) /\ n + j \in 1 .. Len(q)
      BY <1>1, <1>3
    <2>2. n + i = n + j
      BY <1>4, <2>1
    <2> QED BY <2>2
  <1> QED BY <1>5, <1>6, <1>7

LEMMA AppendRange ==
  ASSUME NEW q \in Seq(Bios), NEW b \in Bios
  PROVE  /\ Range(Append(q, b)) = Range(q) \cup {b}
         /\ IsInjective(q) /\ b \notin Range(q) => IsInjective(Append(q, b))
  <1>1. Len(q) \in Nat /\ DOMAIN q = 1 .. Len(q)
    BY LenProperties
  <1>2. /\ DOMAIN Append(q, b) = 1 .. Len(q) + 1
        /\ \A i \in 1 .. Len(q) : Append(q, b)[i] = q[i]
        /\ Append(q, b)[Len(q) + 1] = b
    BY <1>1, AppendProperties
  <1>3. Range(Append(q, b)) = Range(q) \cup {b}
    <2>1. ASSUME NEW x \in Range(q) PROVE x \in Range(Append(q, b))
      BY <1>1, <1>2, <2>1 DEF Range
    <2>2. b \in Range(Append(q, b))
      BY <1>1, <1>2 DEF Range
    <2>3. ASSUME NEW x \in Range(Append(q, b)) PROVE x \in Range(q) \cup {b}
      <3>1. PICK i \in 1 .. Len(q) + 1 : x = Append(q, b)[i]
        BY <1>2, <2>3 DEF Range
      <3> QED BY <1>1, <1>2, <3>1 DEF Range
    <2> QED BY <2>1, <2>2, <2>3
  <1>4. ASSUME IsInjective(q), b \notin Range(q),
               NEW i \in 1 .. Len(q) + 1, NEW j \in 1 .. Len(q) + 1,
               Append(q, b)[i] = Append(q, b)[j]
        PROVE  i = j
    <2>1. CASE i \in 1 .. Len(q) /\ j \in 1 .. Len(q)
      BY <1>1, <1>2, <1>4, <2>1 DEF IsInjective
    <2>2. CASE i = Len(q) + 1 /\ j \in 1 .. Len(q)
      BY <1>1, <1>2, <1>4, <2>2 DEF Range
    <2>3. CASE i \in 1 .. Len(q) /\ j = Len(q) + 1
      BY <1>1, <1>2, <1>4, <2>3 DEF Range
    <2> QED BY <1>1, <2>1, <2>2, <2>3
  <1> QED BY <1>2, <1>3, <1>4 DEF IsInjective

LEMMA SmallRanges ==
  ASSUME NEW b
  PROVE  /\ Range(<<>>) = {} /\ IsInjective(<<>>)
         /\ Range(<<b>>) = {b} /\ IsInjective(<<b>>)
  BY DEF Range, IsInjective

\* Steps that leave list, batch, endings and the calls alone.
LEMMA OwnershipFrame ==
  ASSUME OwnershipInv, UNCHANGED <<rpc, lo_bio, batch, ends>>,
         wpc' = "sub" <=> wpc = "sub"
  PROVE  OwnershipInv'
  BY DEF OwnershipInv, Located

LEMMA EnlistOwnership ==
  ASSUME ControlInv, OwnershipInv, NEW b \in Bios, AddBio(b)
  PROVE  OwnershipInv'
  <1> USE DEF ControlInv, TypeOK
  <1>1. b \notin Range(lo_bio) /\ b \notin Range(batch) /\ ends[b] = 0
    BY DEF AddBio, OwnershipInv, Located
  <1>2. UNCHANGED <<batch, wpc, ends>> /\ rpc' = [rpc EXCEPT ![b] = "inc"]
    BY DEF AddBio, workVars
  <1>3. IsInjective(lo_bio') /\ Range(lo_bio') \subseteq Range(lo_bio) \cup {b}
    <2>1. CASE lo_biotail = NoBio
      BY <2>1, SmallRanges DEF AddBio, Enlist
    <2>2. CASE lo_biotail # NoBio /\ TailOnList
      <3>1. lo_bio' = Append(lo_bio, b)
        BY <2>2 DEF AddBio, Enlist
      <3> QED BY <1>1, <3>1, AppendRange DEF OwnershipInv
    <2>3. CASE lo_biotail # NoBio /\ ~TailOnList
      BY <2>3 DEF AddBio, Enlist, OwnershipInv
    <2> QED BY <2>1, <2>2, <2>3
  <1>4. ASSUME NEW c \in Bios PROVE Located(c)'
    <2>1. Located(c)
      BY DEF OwnershipInv
    <2>2. CASE c = b
      BY <1>1, <1>2, <2>2 DEF Located
    <2>3. CASE c # b
      BY <1>2, <1>3, <2>1, <2>3 DEF Located
    <2> QED BY <2>2, <2>3
  <1> QED BY <1>3, <1>4 DEF OwnershipInv

LEMMA RefuseOwnership ==
  ASSUME ControlInv, OwnershipInv, NEW b \in Bios, Refuse(b),
         rpc[b] \in {"idle", "flags"}, UNCHANGED <<lo_bio, batch, wpc>>
  PROVE  OwnershipInv'
  <1>1. /\ rpc' = [rpc EXCEPT ![b] = "refused"]
        /\ ends' = [ends EXCEPT ![b] = ends[b] + 1]
        /\ rpc \in [Bios -> RequestPcs] /\ ends \in [Bios -> Nat]
    BY DEF Refuse, ControlInv, TypeOK
  <1>2. ASSUME NEW c \in Bios PROVE Located(c)'
    <2>1. Located(c)
      BY DEF OwnershipInv
    <2>2. CASE c = b
      BY <1>1, <2>1, <2>2 DEF Located
    <2>3. CASE c # b
      BY <1>1, <2>1, <2>3 DEF Located
    <2> QED BY <2>2, <2>3
  <1> QED BY <1>2 DEF OwnershipInv

LEMMA MoveOwnership ==
  ASSUME ControlInv, OwnershipInv, NEW b \in Bios, NEW pc \in RequestPcs,
         rpc[b] # "refused", pc \notin {"idle", "add", "refused"},
         pc = "flags" => rpc[b] = "idle",
         rpc' = [rpc EXCEPT ![b] = pc], UNCHANGED <<lo_bio, batch, ends>>,
         wpc' = "sub" <=> wpc = "sub"
  PROVE  OwnershipInv'
  <1>1. ASSUME NEW c \in Bios PROVE Located(c)'
    <2>1. Located(c) /\ rpc \in [Bios -> RequestPcs]
      BY DEF OwnershipInv, ControlInv, TypeOK
    <2>2. CASE c = b
      BY <2>1, <2>2 DEF Located
    <2>3. CASE c # b
      BY <2>1, <2>3 DEF Located
    <2> QED BY <2>2, <2>3
  <1> QED BY <1>1 DEF OwnershipInv

LEMMA RequestOwnership ==
  ASSUME ControlInv, OwnershipInv, NEW b \in Bios, Request(b)
  PROVE  OwnershipInv'
  <1>0. rpc \in [Bios -> RequestPcs] /\ {"flags", "add", "incNoWake", "wake", "back"} \subseteq RequestPcs
    BY DEF ControlInv, TypeOK, RequestPcs
  <1>1. CASE CheckState(b)
    <2>1. CASE lo_state = "BOUND"
      BY <1>0, <1>1, <2>1, MoveOwnership
      DEF CheckState, listVars, workVars
    <2>2. CASE lo_state # "BOUND"
      BY <1>1, <2>2, RefuseOwnership DEF CheckState, listVars, workVars
    <2> QED BY <2>1, <2>2
  <1>2. CASE CheckFlags(b)
    <2>1. CASE Permitted(b)
      <3>1. /\ rpc[b] = "flags" /\ rpc' = [rpc EXCEPT ![b] = "add"]
            /\ UNCHANGED <<lo_bio, batch, ends, wpc>>
        BY <1>2, <2>1 DEF CheckFlags, listVars, workVars
      <3>2. ASSUME NEW c \in Bios PROVE Located(c)'
        BY <1>0, <3>1 DEF OwnershipInv, Located
      <3> QED BY <3>1, <3>2 DEF OwnershipInv
    <2>2. CASE ~Permitted(b)
      BY <1>2, <2>2, RefuseOwnership DEF CheckFlags, listVars, workVars
    <2> QED BY <2>1, <2>2
  <1>3. CASE AddBio(b)
    BY <1>3, EnlistOwnership
  <1>4. CASE PeekQueue(b)
    BY <1>0, <1>4, MoveOwnership DEF PeekQueue, listVars, workVars
  <1>5. CASE IncPending(b)
    BY <1>0, <1>5, MoveOwnership DEF IncPending, listVars, workVars
  <1>6. CASE WakeWorker(b)
    BY <1>0, <1>6, MoveOwnership DEF WakeWorker, WakeUp, listVars
  <1> QED BY <1>1, <1>2, <1>3, <1>4, <1>5, <1>6 DEF Request

LEMMA ThreadOwnership ==
  ASSUME ControlInv, OwnershipInv, loop_thread
  PROVE  OwnershipInv'
  <1>1. CASE \/ ThreadBound \/ ThreadEnv \/ ThreadWait \/ ThreadCheck
             \/ ThreadRecheck \/ ThreadAssert \/ ThreadExit
    BY <1>1, OwnershipFrame DEF ThreadBound, ThreadEnv, ThreadWait,
       ThreadCheck, ThreadRecheck, ThreadAssert, ThreadExit, idleWorker,
       listVars
  <1>2. CASE loop_get_bio
    <2>1. CASE UNCHANGED <<lo_bio, batch>> /\ wpc' = "wait"
      BY <1>2, <2>1, OwnershipFrame DEF loop_get_bio
    <2>2. ASSUME NEW n \in 1 .. Len(lo_bio), Detached(n), wpc' = "assert",
                 batch' = SubSeq(lo_bio, 1, n)
          PROVE  OwnershipInv'
      <3>1. lo_bio \in Seq(Bios) /\ IsInjective(lo_bio)
        BY DEF ControlInv, TypeOK, OwnershipInv
      <3>2. /\ Range(batch') \subseteq Range(lo_bio)
            /\ Range(lo_bio') \subseteq Range(lo_bio)
            /\ Range(batch') \cap Range(lo_bio') = {}
            /\ IsInjective(lo_bio')
        BY <2>2, <3>1, SplitRange DEF Detached
      <3>3. UNCHANGED <<rpc, ends>>
        BY <1>2 DEF loop_get_bio
      <3>4. ASSUME NEW c \in Bios PROVE Located(c)'
        BY <2>2, <3>2, <3>3 DEF OwnershipInv, Located
      <3> QED BY <3>2, <3>4 DEF OwnershipInv
    <2> QED BY <1>2, <2>1, <2>2 DEF loop_get_bio
  <1>3. CASE loop_handle_bio
    <2>1. /\ wpc = "handle" /\ wpc' = "sub"
          /\ UNCHANGED <<rpc, lo_bio, batch>>
          /\ ends \in [Bios -> Nat]
      BY <1>3 DEF loop_handle_bio, idleWorker, listVars, ControlInv, TypeOK
    <2>2. ASSUME NEW c \in Bios PROVE Located(c)'
      <3>1. Located(c)
        BY DEF OwnershipInv
      <3>2. CASE c \in Range(batch)
        <4>1. ends'[c] = 1
          BY <1>3, <2>1, <3>1, <3>2 DEF loop_handle_bio, Located
        <4> QED BY <2>1, <3>1, <3>2, <4>1 DEF Located
      <3>3. CASE c \notin Range(batch)
        <4>1. ends'[c] = ends[c]
          BY <1>3, <2>1, <3>3 DEF loop_handle_bio
        <4> QED BY <2>1, <3>1, <3>3, <4>1 DEF Located
      <3> QED BY <3>2, <3>3
    <2> QED BY <2>1, <2>2 DEF OwnershipInv
  <1>4. CASE ThreadSub
    <2>1. UNCHANGED <<rpc, lo_bio, ends>> /\ Range(batch') = {}
      BY <1>4, SmallRanges DEF ThreadSub, idleWorker, listVars
    <2> QED BY <2>1 DEF OwnershipInv, Located
  <1> QED BY <1>1, <1>2, <1>3, <1>4 DEF loop_thread

LEMMA NextOwnership ==
  ASSUME ControlInv, OwnershipInv, [Next]_vars
  PROVE  OwnershipInv'
  <1>1. CASE ResetList
    <2>1. UNCHANGED <<rpc, batch, wpc, ends>>
      BY <1>1 DEF ResetList, workVars
    <2>2. CASE lo_bio' = <<>>
      BY <2>1, <2>2, SmallRanges DEF OwnershipInv, Located
    <2>3. CASE lo_bio' = lo_bio
      BY <2>1, <2>3, OwnershipFrame
    <2> QED BY <1>1, <2>2, <2>3 DEF ResetList, ClearHead
  <1>2. CASE KthreadRun
    <2>1. wpc = "none"
      BY <1>2 DEF KthreadRun, ControlInv, Handshake
    <2> QED
      BY <1>2, <2>1, OwnershipFrame DEF KthreadRun, listVars
  <1>3. CASE \/ \E flags \in SUBSET LoFlags : Attach(flags)
             \/ \E count \in {1, 2} : ClrFdCheck(count)
             \/ SetFdDown \/ ClrFdRundown \/ ClrFdDown
             \/ ClrFdFields \/ ClrFdUnbind
             \/ \E h \in Handles : lo_open(h) \/ lo_release(h)
             \/ UNCHANGED vars
    BY <1>3, OwnershipFrame DEF Attach, ClrFdCheck, SetFdDown, ClrFdRundown,
       WakeUp, ClrFdDown, ClrFdFields, ClrFdUnbind, lo_open, lo_release, vars,
       listVars, workVars
  <1> QED
    BY <1>1, <1>2, <1>3, RequestOwnership, ThreadOwnership
    DEF Next, IoctlCalls, IoctlSteps

LEMMA OwnershipInvariant == Spec => []OwnershipInv
  <1>1. Init => OwnershipInv
    <2> SUFFICES ASSUME Init PROVE OwnershipInv
      OBVIOUS
    <2>1. /\ Range(lo_bio) = {} /\ IsInjective(lo_bio) /\ Range(batch) = {}
          /\ \A b \in Bios : rpc[b] = "idle" /\ ends[b] = 0
      BY SmallRanges DEF Init
    <2> QED BY <2>1 DEF OwnershipInv, Located
  <1> QED BY <1>1, NextOwnership, ControlInvariant, PTL DEF Spec

\* Every bio is ended at most once: list, batch and refused calls are disjoint.
THEOREM EndedOnceTheorem == Spec => []EndedOnce
  <1>1. OwnershipInv => EndedOnce
    BY DEF OwnershipInv, Located, EndedOnce
  <1> QED BY <1>1, OwnershipInvariant, PTL
-----------------------------------------------------------------------------
(***************************************************************************)
(* Bios and the attachment they were listed under.                         *)
(***************************************************************************)
LEMMA ListedFrame ==
  ASSUME ListedInv, UNCHANGED <<listed, lo_bio, batch, lo_backing_file>>,
         InForce' => InForce
  PROVE  ListedInv'
  BY DEF ListedInv

LEMMA AddBioListed ==
  ASSUME ControlInv, ListedInv, NEW b \in Bios, AddBio(b)
  PROVE  ListedInv'
  <1>1. /\ UNCHANGED <<lo_backing_file, ioctl, batch>>
        /\ listed' = [listed EXCEPT ![b] = lo_backing_file]
        /\ Enlist(b)
    BY DEF AddBio, devVars, workVars
  <1>2. lo_bio \in Seq(Bios) /\ listed \in [Bios -> Nat]
    BY DEF ControlInv, TypeOK
  <1>3. Range(lo_bio') \subseteq Range(lo_bio) \cup {b}
    <2>1. CASE lo_biotail = NoBio
      BY <1>1, <2>1, SmallRanges DEF Enlist
    <2>2. CASE lo_biotail # NoBio /\ TailOnList
      <3>1. lo_bio' = Append(lo_bio, b)
        BY <1>1, <2>2 DEF Enlist
      <3> QED BY <1>2, <3>1, AppendRange
    <2>3. CASE lo_biotail # NoBio /\ ~TailOnList
      BY <1>1, <2>3 DEF Enlist
    <2> QED BY <2>1, <2>2, <2>3
  <1>4. ASSUME InForce', NEW c \in Range(lo_bio') \cup Range(batch')
        PROVE  listed'[c] = lo_backing_file'
    <2>1. InForce
      BY <1>1, <1>4 DEF InForce
    <2>2. CASE c = b
      BY <1>1, <1>2, <2>2
    <2>3. CASE c # b
      <3>1. c \in Range(lo_bio) \cup Range(batch)
        BY <1>1, <1>3, <1>4, <2>3
      <3>2. listed[c] = lo_backing_file
        BY <2>1, <3>1 DEF ListedInv
      <3> QED BY <1>1, <1>2, <2>3, <3>2
    <2> QED BY <2>2, <2>3
  <1> QED BY <1>4 DEF ListedInv

LEMMA GetBioListed ==
  ASSUME ControlInv, OwnershipInv, ListedInv, loop_get_bio
  PROVE  ListedInv'
  <1>1. UNCHANGED <<listed, lo_backing_file, ioctl>>
    BY DEF loop_get_bio, devVars
  <1>2. CASE UNCHANGED <<lo_bio, batch>>
    BY <1>1, <1>2, ListedFrame DEF InForce
  <1>3. ASSUME NEW n \in 1 .. Len(lo_bio), Detached(n),
               batch' = SubSeq(lo_bio, 1, n)
        PROVE  ListedInv'
    <2>1. lo_bio \in Seq(Bios) /\ IsInjective(lo_bio)
      BY DEF ControlInv, TypeOK, OwnershipInv
    <2>2. /\ Range(batch') \subseteq Range(lo_bio)
          /\ Range(lo_bio') \subseteq Range(lo_bio)
      BY <1>3, <2>1, SplitRange DEF Detached
    <2> QED BY <1>1, <2>2 DEF ListedInv, InForce
  <1> QED BY <1>2, <1>3 DEF loop_get_bio

\* The list is empty when the head is cleared, and no worker holds a bio then.
LEMMA ResetListed ==
  ASSUME ControlInv, ListedInv, ResetList
  PROVE  ListedInv'
  <1>1. UNCHANGED <<listed, lo_backing_file, batch>>
    BY DEF ResetList, devVars, workVars
  <1>2. batch = <<>>
    BY DEF ResetList, ControlInv, Handshake, BatchHeld
  <1>3. CASE lo_bio' = <<>>
    BY <1>1, <1>2, <1>3, SmallRanges DEF ListedInv
  <1>4. CASE lo_bio' = lo_bio /\ ioctl = "reset" /\ ioctl' = "resetHead"
    BY <1>4 DEF ListedInv, InForce
  <1>5. CASE lo_bio' = lo_bio /\ ioctl = "resetTail" /\ ioctl' = "kthread"
    BY <1>1, <1>5, ListedFrame DEF InForce
  <1> QED BY <1>3, <1>4, <1>5 DEF ResetList, ClearHead

LEMMA NextListed ==
  ASSUME ControlInv, OwnershipInv, ListedInv, [Next]_vars
  PROVE  ListedInv'
  <1>1. ASSUME NEW flags \in SUBSET LoFlags, Attach(flags) PROVE ListedInv'
    BY <1>1 DEF Attach, ListedInv, InForce
  <1>2. CASE ClrFdFields
    BY <1>2 DEF ClrFdFields, ListedInv, InForce
  <1>3. ASSUME NEW b \in Bios, Request(b) PROVE ListedInv'
    <2>1. CASE CheckState(b) \/ CheckFlags(b) \/ PeekQueue(b)
                \/ IncPending(b) \/ WakeWorker(b)
      BY <2>1, ListedFrame DEF CheckState, CheckFlags, PeekQueue, IncPending,
         WakeWorker, devVars, listVars, workVars, InForce
    <2> QED BY <1>3, <2>1, AddBioListed DEF Request
  <1>4. CASE ThreadSub
    <2>1. UNCHANGED <<listed, lo_bio, lo_backing_file, ioctl>> /\ batch' = <<>>
      BY <1>4 DEF ThreadSub, idleWorker, devVars, listVars
    <2> QED BY <2>1, SmallRanges DEF ListedInv, InForce
  <1>5. CASE \/ ThreadBound \/ ThreadEnv \/ ThreadWait \/ ThreadCheck
             \/ ThreadRecheck \/ ThreadAssert \/ loop_handle_bio \/ ThreadExit
    BY <1>5, ListedFrame DEF ThreadBound, ThreadEnv, ThreadWait, ThreadCheck,
       ThreadRecheck, ThreadAssert, loop_handle_bio, ThreadExit, idleWorker,
       devVars, listVars, InForce
  <1>6. CASE \/ \E count \in {1, 2} : ClrFdCheck(count)
             \/ KthreadRun \/ SetFdDown \/ ClrFdRundown \/ ClrFdDown
             \/ \E h \in Handles : lo_open(h) \/ lo_release(h)
             \/ UNCHANGED vars
    BY <1>6, ListedFrame DEF ClrFdCheck, KthreadRun, SetFdDown, ClrFdRundown,
       ClrFdDown, lo_open, lo_release, vars, devVars, listVars, workVars,
       InForce
  <1>7. CASE ClrFdUnbind
    <2>1. lo_backing_file' = 0
      BY <1>7 DEF ClrFdUnbind, devVars, ControlInv, Handshake
    <2> QED BY <2>1 DEF ListedInv, InForce
  <1> QED
    BY <1>1, <1>2, <1>3, <1>4, <1>5, <1>6, <1>7, GetBioListed, ResetListed
    DEF Next, IoctlCalls, IoctlSteps, loop_thread

LEMMA ListedInvariant == Spec => []ListedInv
  <1>1. Init => ListedInv
    BY DEF Init, ListedInv, InForce
  <1> QED
    BY <1>1, NextListed, ControlInvariant, OwnershipInvariant, PTL DEF Spec

\* What the worker hands to the file was listed under that very attachment: no
\* bio of an earlier attachment, or of the time between two, survives 515.
THEOREM ServedAsListedTheorem == Spec => []ServedAsListed
  <1>1. ControlInv /\ ListedInv => ServedAsListed
    <2> SUFFICES ASSUME ControlInv, ListedInv, wpc = "handle",
                        NEW b \in Range(batch)
                 PROVE  listed[b] = lo_backing_file
      BY DEF ServedAsListed
    <2>1. lo_backing_file = attaches /\ attaches > 0 /\ attaches \in Nat
      BY DEF ControlInv, TypeOK, Handshake, Attached
    <2>2. ioctl \notin {"reset", "resetHead"}
      BY DEF ControlInv, Handshake
    <2>3. InForce
      BY <2>1, <2>2 DEF InForce
    <2> QED BY <2>3 DEF ListedInv
  <1> QED BY <1>1, ControlInvariant, ListedInvariant, PTL

-----------------------------------------------------------------------------
(***************************************************************************)
(* The device implements LloopService.                                     *)
(***************************************************************************)
Busy == IF wpc \in {"assert", "handle", "lbug"} THEN batch ELSE <<>>

\* A step that leaves the mapped variables alone stutters.
LEMMA ServiceFrame ==
  ASSUME UNCHANGED <<lo_bio, ends, Busy>>
  PROVE  UNCHANGED Service!serviceVars
  BY DEF Service!serviceVars, Busy

\* LloopService has a Range of its own, the same operator.
LEMMA SameRange == \A f : Service!Range(f) = Range(f)
  BY DEF Service!Range, Range

\* A bio whose call has not listed it yet is new to the service.
LEMMA FreshBio ==
  ASSUME OwnershipInv, NEW b \in Bios, rpc[b] \in {"idle", "flags", "add"}
  PROVE  Service!Fresh(b)
  <1>1. b \notin Range(lo_bio) /\ b \notin Range(batch) /\ ends[b] = 0
    BY DEF OwnershipInv, Located
  <1>2. b \notin Range(Busy)
    BY <1>1, SmallRanges DEF Busy
  <1> QED BY <1>1, <1>2, SameRange DEF Service!Fresh, Busy

LEMMA RefusedStep ==
  ASSUME ControlInv, OwnershipInv, NEW b \in Bios, Refuse(b),
         rpc[b] \in {"idle", "flags"}, UNCHANGED <<lo_bio, wpc, batch>>
  PROVE  Service!Next
  <1>1. ends' = [ends EXCEPT ![b] = 1]
    <2>1. ends' = [ends EXCEPT ![b] = ends[b] + 1] /\ ends[b] = 0
      BY DEF Refuse, OwnershipInv, Located
    <2> QED BY <2>1
  <1>2. Service!Refused(b)
    BY <1>1, FreshBio DEF Service!Refused
  <1> QED BY <1>2 DEF Service!Next

LEMMA RequestStep ==
  ASSUME ControlInv, OwnershipInv, NEW b \in Bios, Request(b)
  PROVE  [Service!Next]_(Service!serviceVars)
  <1>1. CASE CheckState(b)
    <2>1. CASE lo_state = "BOUND"
      <3>1. UNCHANGED <<lo_bio, ends, Busy>>
        BY <1>1, <2>1 DEF CheckState, listVars, workVars, Busy
      <3> QED BY <3>1, ServiceFrame
    <2>2. CASE lo_state # "BOUND"
      BY <1>1, <2>2, RefusedStep DEF CheckState, listVars, workVars
    <2> QED BY <2>1, <2>2
  <1>2. CASE CheckFlags(b)
    <2>1. CASE Permitted(b)
      <3>1. UNCHANGED <<lo_bio, ends, Busy>>
        BY <1>2, <2>1 DEF CheckFlags, listVars, workVars, Busy
      <3> QED BY <3>1, ServiceFrame
    <2>2. CASE ~Permitted(b)
      BY <1>2, <2>2, RefusedStep DEF CheckFlags, listVars, workVars
    <2> QED BY <2>1, <2>2
  <1>3. CASE AddBio(b)
    <2>1. UNCHANGED <<ends, batch, wpc>>
      BY <1>3 DEF AddBio, workVars
    <2>2. CASE lo_bio' = lo_bio
      BY <2>1, <2>2, ServiceFrame DEF Busy
    <2>3. CASE lo_bio' \in {Append(lo_bio, b), <<b>>}
      <3>1. Service!Fresh(b)
        BY <1>3, FreshBio DEF AddBio
      <3>2. Service!Arrives(b)
        BY <2>1, <2>3, <3>1 DEF Service!Arrives
      <3> QED BY <3>2 DEF Service!Next
    <2> QED BY <1>3, <2>2, <2>3 DEF AddBio, Enlist
  <1>4. CASE PeekQueue(b) \/ IncPending(b)
    <2>1. UNCHANGED <<lo_bio, ends, Busy>>
      BY <1>4 DEF PeekQueue, IncPending, listVars, workVars, Busy
    <2> QED BY <2>1, ServiceFrame
  <1>5. CASE WakeWorker(b)
    <2>1. UNCHANGED <<lo_bio, ends, Busy>>
      BY <1>5 DEF WakeWorker, WakeUp, listVars, Busy
    <2> QED BY <2>1, ServiceFrame
  <1> QED BY <1>1, <1>2, <1>3, <1>4, <1>5 DEF Request

LEMMA ThreadStep ==
  ASSUME ControlInv, OwnershipInv, loop_thread
  PROVE  [Service!Next]_(Service!serviceVars)
  <1>1. CASE \/ ThreadBound \/ ThreadEnv \/ ThreadWait \/ ThreadCheck
             \/ ThreadRecheck \/ ThreadAssert \/ ThreadSub \/ ThreadExit
    <2>1. UNCHANGED <<lo_bio, ends, Busy>>
      BY <1>1 DEF ThreadBound, ThreadEnv, ThreadWait, ThreadCheck,
         ThreadRecheck, ThreadAssert, ThreadSub, ThreadExit, idleWorker,
         listVars, Busy
    <2> QED BY <2>1, ServiceFrame
  <1>2. CASE loop_get_bio
    <2>1. ends' = ends /\ wpc = "get"
      BY <1>2 DEF loop_get_bio
    <2>2. CASE wpc' = "wait" /\ UNCHANGED <<lo_bio, batch>>
      BY <2>1, <2>2, ServiceFrame DEF Busy
    <2>3. ASSUME NEW n \in 1 .. Len(lo_bio), Fits(lo_bio, n), Detached(n),
                 wpc' = "assert", batch' = SubSeq(lo_bio, 1, n)
          PROVE  Service!Next
      <3>1. Service!Starts
        BY <2>1, <2>3 DEF Service!Starts, Fits, Detached
      <3> QED BY <3>1 DEF Service!Next
    <2> QED BY <1>2, <2>2, <2>3 DEF loop_get_bio
  <1>3. CASE loop_handle_bio
    <2>1. /\ wpc = "handle" /\ wpc' = "sub" /\ UNCHANGED <<lo_bio, batch>>
          /\ ends \in [Bios -> Nat]
      BY <1>3 DEF loop_handle_bio, idleWorker, listVars, ControlInv, TypeOK
    <2>2. CASE batch = <<>>
      <3>1. ends' = ends
        BY <1>3, <2>1, <2>2, SmallRanges DEF loop_handle_bio
      <3> QED BY <2>1, <2>2, <3>1, ServiceFrame DEF Busy
    <2>3. CASE batch # <<>>
      <3>1. ASSUME NEW b \in Bios PROVE b \in Range(batch) => ends[b] = 0
        BY <2>1 DEF OwnershipInv, Located
      <3>2. ends' = [b \in Bios |-> IF b \in Range(batch) THEN 1 ELSE ends[b]]
        BY <1>3, <3>1 DEF loop_handle_bio
      <3>3. Service!Completes
        BY <2>1, <2>3, <3>2, SameRange DEF Service!Completes
      <3> QED BY <3>3 DEF Service!Next
    <2> QED BY <2>2, <2>3
  <1> QED BY <1>1, <1>2, <1>3 DEF loop_thread

LEMMA NextStep ==
  ASSUME ControlInv, OwnershipInv, [Next]_vars
  PROVE  [Service!Next]_(Service!serviceVars)
  <1>1. CASE ResetList
    <2>1. wpc = "none" /\ UNCHANGED <<ends, wpc, batch>>
      BY <1>1 DEF ResetList, workVars, ControlInv, Handshake
    <2>2. CASE lo_bio' = <<>>
      <3>1. Service!Dropped
        BY <2>1, <2>2 DEF Service!Dropped
      <3> QED BY <3>1 DEF Service!Next
    <2>3. CASE lo_bio' = lo_bio
      BY <2>1, <2>3, ServiceFrame DEF Busy
    <2> QED BY <1>1, <2>2, <2>3 DEF ResetList, ClearHead
  <1>2. CASE KthreadRun
    <2>1. wpc = "none"
      BY <1>2 DEF KthreadRun, ControlInv, Handshake
    <2>2. UNCHANGED <<lo_bio, ends, Busy>>
      BY <1>2, <2>1 DEF KthreadRun, listVars, Busy
    <2> QED BY <2>2, ServiceFrame
  <1>3. CASE \/ \E flags \in SUBSET LoFlags : Attach(flags)
             \/ \E count \in {1, 2} : ClrFdCheck(count)
             \/ SetFdDown \/ ClrFdRundown \/ ClrFdDown
             \/ ClrFdFields \/ ClrFdUnbind
             \/ \E h \in Handles : lo_open(h) \/ lo_release(h)
             \/ UNCHANGED vars
    <2>1. UNCHANGED <<lo_bio, ends, Busy>>
      BY <1>3 DEF Attach, ClrFdCheck, SetFdDown, ClrFdRundown, WakeUp,
         ClrFdDown, ClrFdFields, ClrFdUnbind, lo_open, lo_release, vars,
         listVars, workVars, Busy
    <2> QED BY <2>1, ServiceFrame
  <1> QED
    BY <1>1, <1>2, <1>3, RequestStep, ThreadStep
    DEF Next, IoctlCalls, IoctlSteps

\* Enlisting, splitting, counting and waking give a first-in first-out service
\* of bios: no bio overtakes another, none is transferred twice, and a transfer
\* has one direction; bios only leave unserved when set_fd drops the list.
THEOREM ServiceTheorem == Spec => ImplementsService
  <1>1. Init => Service!Init
    BY DEF Init, Service!Init
  <1> QED
    BY <1>1, NextStep, ControlInvariant, OwnershipInvariant, PTL
    DEF Spec, ImplementsService, Service!Spec
==============================================================================
