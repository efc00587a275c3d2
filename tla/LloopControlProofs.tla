------------------------- MODULE LloopControlProofs --------------------------
(***************************************************************************)
(* References balance, and the driver implements the table of attachments. *)
(* The invariant adds what each step of a call may count on, and what the  *)
(* call under way holds between its steps.                                 *)
(***************************************************************************)
EXTENDS LloopControl, TLAPS

\* The steps between which a call holds the file, the module and the device
\* for itself, no attachment accounting for them.
FilePcs   == {"module", "set", "refused", "fput", "unbind", "drop"}
ModulePcs == {"set", "refused", "unbind", "drop", "release"}
OpenPcs   == FilePcs \cup ModulePcs \cup {"file", "put"}

FilesHeld == \A f \in Files :
  file_refs[f] = One(\E d \in Devices : lo_backing_file[d] = f)
                 + One(call.file = f /\ call.pc \in FilePcs)
ModulesHeld == \A d \in Devices :
  module_refs[d] = One(lo_backing_file[d] # None)
                   + One(call.dev = d /\ call.pc \in ModulePcs)
OpensHeld == \A d \in Devices :
  lo_refcnt[d] = users[d] + One(lo_backing_file[d] # None)
                 + One(call.dev = d /\ call.pc \in OpenPcs)

\* What the control call under way has established; nobody else writes it.
CallOK ==
  /\ call.pc \in {"get", "file", "module", "set", "thread", "hung"} =>
       call.file \in Files /\ ~Taken(call.file)
  /\ call.pc \in {"get", "file", "module", "set", "refused", "fput", "put",
                  "drop", "release"} =>
       lo_state[call.dev] = "UNBOUND" /\ lo_backing_file[call.dev] = None
  /\ call.pc \in {"thread", "hung"} => /\ lo_state[call.dev] = "UNBOUND"
                                       /\ lo_backing_file[call.dev] = call.file
  /\ call.pc \in FilePcs => call.file \in Files
  /\ call.pc = "clear" => lo_state[call.dev] = "BOUND"
  /\ call.pc = "fields" => /\ lo_state[call.dev] = "RUNDOWN"
                           /\ lo_backing_file[call.dev] = call.file
  /\ call.pc = "unbind" => /\ lo_state[call.dev] = "RUNDOWN"
                           /\ lo_backing_file[call.dev] = None

\* A device has a file exactly while it is not unbound, but for the one that is
\* being attached or detached.
BoundHasFile == \A d \in Devices :
  lo_state[d] # "UNBOUND" =>
    lo_backing_file[d] # None \/ (call.dev = d /\ call.pc = "unbind")
FileIsBound == \A d \in Devices :
  /\ lo_backing_file[d] # None /\ lo_state[d] = "UNBOUND"
  => call.dev = d /\ call.pc \in {"thread", "hung"}

OneDevice == \A d, e \in Devices :
  /\ lo_backing_file[d] # None /\ lo_backing_file[e] # None
  /\ Inode[lo_backing_file[d]] = Inode[lo_backing_file[e]]
  => d = e

RemovedIsIdle == module # "live" => Idle

IInv == /\ TypeOK /\ FilesHeld /\ ModulesHeld /\ OpensHeld /\ CallOK
        /\ BoundHasFile /\ FileIsBound /\ OneDevice /\ RemovedIsIdle

LEMMA FreeIsCall == Free \in Calls
BY ControlAssumption, SMT DEF Free, Calls, CallPcs, Devices

LEMMA CallTypes ==
  ASSUME IInv
  PROVE  /\ call.dev \in Devices /\ call.file \in Files \cup {None}
         /\ call.own \in {0, 1, 2} /\ call.pc \in CallPcs
         /\ call = [pc |-> call.pc, dev |-> call.dev, file |-> call.file,
                    own |-> call.own]
BY DEF IInv, TypeOK, Calls

LEMMA Initially == Init => IInv
<1>1. 0 \in Devices
  BY ControlAssumption, SMT DEF Devices
<1> QED
  BY <1>1, ControlAssumption, FreeIsCall
  DEF Init, IInv, TypeOK, FilesHeld, ModulesHeld, OpensHeld, CallOK,
      BoundHasFile, FileIsBound, OneDevice, RemovedIsIdle, One, CallPcs,
      FilePcs, ModulePcs, OpenPcs, Free

LEMMA lo_openStep ==
  ASSUME IInv, NEW d \in Devices, lo_open(d)
  PROVE  IInv'
<1> USE ControlAssumption DEF vars, devVars
<1>0. /\ TypeOK /\ FilesHeld /\ ModulesHeld /\ OpensHeld /\ CallOK
      /\ BoundHasFile /\ FileIsBound /\ OneDevice /\ RemovedIsIdle
  BY DEF IInv
<1>a. /\ call.dev \in Devices /\ call.file \in Files \cup {None}
      /\ call.own \in {0, 1, 2} /\ call.pc \in CallPcs
      /\ call = [pc |-> call.pc, dev |-> call.dev, file |-> call.file,
                 own |-> call.own]
  BY CallTypes
<1>b. /\ UNCHANGED <<call, lo_backing_file, lo_state>>
  BY <1>0, <1>a DEF lo_open, Free, TypeOK
<1>1. TypeOK'
  BY <1>0, <1>a, <1>b DEF TypeOK, lo_open, Calls, CallPcs, CallOK, FilesHeld,
      ModulesHeld, OpensHeld, One, FilePcs, ModulePcs, OpenPcs
<1>2. FilesHeld'
  BY <1>0, <1>a, <1>b DEF FilesHeld, lo_open, TypeOK, One, FilePcs, CallOK,
      OneDevice, FileIsBound, Taken, Holds
<1>3. ModulesHeld'
  BY <1>0, <1>a, <1>b DEF ModulesHeld, lo_open, TypeOK, One, ModulePcs, CallOK
<1>4. OpensHeld'
  BY <1>0, <1>a, <1>b DEF OpensHeld, lo_open, TypeOK, One, CallOK, FilePcs,
      ModulePcs, OpenPcs
<1>5. CallOK'
  BY <1>0, <1>a, <1>b DEF CallOK, lo_open, TypeOK, FilePcs, FileIsBound,
      BoundHasFile, Taken, Holds
<1>6. BoundHasFile'
  BY <1>0, <1>a, <1>b DEF BoundHasFile, lo_open, TypeOK, CallOK, FilePcs
<1>7. FileIsBound'
  BY <1>0, <1>a, <1>b DEF FileIsBound, lo_open, TypeOK, CallOK, FilePcs
<1>8. OneDevice'
  BY <1>0, <1>a, <1>b DEF OneDevice, lo_open, TypeOK, CallOK, FileIsBound,
      Taken, Holds
<1>9. RemovedIsIdle'
  BY <1>0, <1>a, <1>b DEF RemovedIsIdle, lo_open, TypeOK, OpensHeld,
      FilesHeld, Idle, One, CallOK, BoundHasFile, FileIsBound, FilePcs,
      ModulePcs, OpenPcs
<1> QED
  BY <1>1, <1>2, <1>3, <1>4, <1>5, <1>6, <1>7, <1>8, <1>9 DEF IInv

LEMMA lo_releaseStep ==
  ASSUME IInv, NEW d \in Devices, lo_release(d)
  PROVE  IInv'
<1> USE ControlAssumption DEF vars, devVars
<1>0. /\ TypeOK /\ FilesHeld /\ ModulesHeld /\ OpensHeld /\ CallOK
      /\ BoundHasFile /\ FileIsBound /\ OneDevice /\ RemovedIsIdle
  BY DEF IInv
<1>a. /\ call.dev \in Devices /\ call.file \in Files \cup {None}
      /\ call.own \in {0, 1, 2} /\ call.pc \in CallPcs
      /\ call = [pc |-> call.pc, dev |-> call.dev, file |-> call.file,
                 own |-> call.own]
  BY CallTypes
<1>b. /\ UNCHANGED <<call, lo_backing_file, lo_state>>
  BY <1>0, <1>a DEF lo_release, Free, TypeOK
<1>1. TypeOK'
  BY <1>0, <1>a, <1>b DEF TypeOK, lo_release, Calls, CallPcs, CallOK,
      FilesHeld, ModulesHeld, OpensHeld, One, FilePcs, ModulePcs, OpenPcs
<1>2. FilesHeld'
  BY <1>0, <1>a, <1>b DEF FilesHeld, lo_release, TypeOK, One, FilePcs, CallOK,
      OneDevice, FileIsBound, Taken, Holds
<1>3. ModulesHeld'
  BY <1>0, <1>a, <1>b DEF ModulesHeld, lo_release, TypeOK, One, ModulePcs,
      CallOK
<1>4. OpensHeld'
  BY <1>0, <1>a, <1>b DEF OpensHeld, lo_release, TypeOK, One, CallOK, FilePcs,
      ModulePcs, OpenPcs
<1>5. CallOK'
  BY <1>0, <1>a, <1>b DEF CallOK, lo_release, TypeOK, FilePcs, FileIsBound,
      BoundHasFile, Taken, Holds
<1>6. BoundHasFile'
  BY <1>0, <1>a, <1>b DEF BoundHasFile, lo_release, TypeOK, CallOK, FilePcs
<1>7. FileIsBound'
  BY <1>0, <1>a, <1>b DEF FileIsBound, lo_release, TypeOK, CallOK, FilePcs
<1>8. OneDevice'
  BY <1>0, <1>a, <1>b DEF OneDevice, lo_release, TypeOK, CallOK, FileIsBound,
      Taken, Holds
<1>9. RemovedIsIdle'
  BY <1>0, <1>a, <1>b DEF RemovedIsIdle, lo_release, TypeOK, OpensHeld,
      FilesHeld, Idle, One, CallOK, BoundHasFile, FileIsBound, FilePcs,
      ModulePcs, OpenPcs
<1> QED
  BY <1>1, <1>2, <1>3, <1>4, <1>5, <1>6, <1>7, <1>8, <1>9 DEF IInv

LEMMA AttachStep ==
  ASSUME IInv, NEW f \in Files, Attach(f)
  PROVE  IInv'
<1> USE ControlAssumption DEF vars, devVars
<1>0. /\ TypeOK /\ FilesHeld /\ ModulesHeld /\ OpensHeld /\ CallOK
      /\ BoundHasFile /\ FileIsBound /\ OneDevice /\ RemovedIsIdle
  BY DEF IInv
<1>a. /\ call.dev \in Devices /\ call.file \in Files \cup {None}
      /\ call.own \in {0, 1, 2} /\ call.pc \in CallPcs
      /\ call = [pc |-> call.pc, dev |-> call.dev, file |-> call.file,
                 own |-> call.own]
  BY CallTypes
<1>b. /\ call'.pc = "get" /\ call'.dev \in Devices /\ call'.file = f
      /\ lo_state[call'.dev] = "UNBOUND"
      /\ call.pc = "free" /\ ~Taken(f)
  BY <1>0, <1>a DEF Attach, LoFree, Free, TypeOK
<1>1. TypeOK'
  BY <1>0, <1>a, <1>b DEF TypeOK, Attach, LoFree, Calls, CallPcs, CallOK,
      FilesHeld, ModulesHeld, OpensHeld, One, FilePcs, ModulePcs, OpenPcs
<1>2. FilesHeld'
  BY <1>0, <1>a, <1>b DEF FilesHeld, Attach, LoFree, TypeOK, One, FilePcs,
      CallOK, OneDevice, FileIsBound, Taken, Holds
<1>3. ModulesHeld'
  BY <1>0, <1>a, <1>b DEF ModulesHeld, Attach, LoFree, TypeOK, One, ModulePcs,
      CallOK
<1>4. OpensHeld'
  BY <1>0, <1>a, <1>b DEF OpensHeld, Attach, LoFree, TypeOK, One, CallOK,
      FilePcs, ModulePcs, OpenPcs
<1>5. CallOK'
  BY <1>0, <1>a, <1>b DEF CallOK, Attach, LoFree, TypeOK, FilePcs,
      FileIsBound, BoundHasFile, Taken, Holds
<1>6. BoundHasFile'
  BY <1>0, <1>a, <1>b DEF BoundHasFile, Attach, LoFree, TypeOK, CallOK,
      FilePcs
<1>7. FileIsBound'
  BY <1>0, <1>a, <1>b DEF FileIsBound, Attach, LoFree, TypeOK, CallOK, FilePcs
<1>8. OneDevice'
  BY <1>0, <1>a, <1>b DEF OneDevice, Attach, LoFree, TypeOK, CallOK,
      FileIsBound, Taken, Holds
<1>9. RemovedIsIdle'
  BY <1>0, <1>a, <1>b DEF RemovedIsIdle, Attach, LoFree, TypeOK, OpensHeld,
      FilesHeld, Idle, One, CallOK, BoundHasFile, FileIsBound, FilePcs,
      ModulePcs, OpenPcs
<1> QED
  BY <1>1, <1>2, <1>3, <1>4, <1>5, <1>6, <1>7, <1>8, <1>9 DEF IInv

LEMMA StartDetachStep ==
  ASSUME IInv, NEW d \in Devices, NEW own \in {1, 2}, StartDetach(d, own)
  PROVE  IInv'
<1> USE ControlAssumption DEF vars, devVars
<1>0. /\ TypeOK /\ FilesHeld /\ ModulesHeld /\ OpensHeld /\ CallOK
      /\ BoundHasFile /\ FileIsBound /\ OneDevice /\ RemovedIsIdle
  BY DEF IInv
<1>a. /\ call.dev \in Devices /\ call.file \in Files \cup {None}
      /\ call.own \in {0, 1, 2} /\ call.pc \in CallPcs
      /\ call = [pc |-> call.pc, dev |-> call.dev, file |-> call.file,
                 own |-> call.own]
  BY CallTypes
<1>b. /\ call'.pc = "clear" /\ call'.dev = d
      /\ call.pc = "free"
  BY <1>0, <1>a DEF StartDetach, Free, TypeOK
<1>1. TypeOK'
  BY <1>0, <1>a, <1>b DEF TypeOK, StartDetach, Calls, CallPcs, CallOK,
      FilesHeld, ModulesHeld, OpensHeld, One, FilePcs, ModulePcs, OpenPcs
<1>2. FilesHeld'
  BY <1>0, <1>a, <1>b DEF FilesHeld, StartDetach, TypeOK, One, FilePcs,
      CallOK, OneDevice, FileIsBound, Taken, Holds
<1>3. ModulesHeld'
  BY <1>0, <1>a, <1>b DEF ModulesHeld, StartDetach, TypeOK, One, ModulePcs,
      CallOK
<1>4. OpensHeld'
  BY <1>0, <1>a, <1>b DEF OpensHeld, StartDetach, TypeOK, One, CallOK,
      FilePcs, ModulePcs, OpenPcs
<1>5. CallOK'
  BY <1>0, <1>a, <1>b DEF CallOK, StartDetach, TypeOK, FilePcs, FileIsBound,
      BoundHasFile, Taken, Holds
<1>6. BoundHasFile'
  BY <1>0, <1>a, <1>b DEF BoundHasFile, StartDetach, TypeOK, CallOK, FilePcs
<1>7. FileIsBound'
  BY <1>0, <1>a, <1>b DEF FileIsBound, StartDetach, TypeOK, CallOK, FilePcs
<1>8. OneDevice'
  BY <1>0, <1>a, <1>b DEF OneDevice, StartDetach, TypeOK, CallOK, FileIsBound,
      Taken, Holds
<1>9. RemovedIsIdle'
  BY <1>0, <1>a, <1>b DEF RemovedIsIdle, StartDetach, TypeOK, OpensHeld,
      FilesHeld, Idle, One, CallOK, BoundHasFile, FileIsBound, FilePcs,
      ModulePcs, OpenPcs
<1> QED
  BY <1>1, <1>2, <1>3, <1>4, <1>5, <1>6, <1>7, <1>8, <1>9 DEF IInv

LEMMA GetDeviceStep ==
  ASSUME IInv, GetDevice
  PROVE  IInv'
<1> USE ControlAssumption DEF vars, devVars
<1>0. /\ TypeOK /\ FilesHeld /\ ModulesHeld /\ OpensHeld /\ CallOK
      /\ BoundHasFile /\ FileIsBound /\ OneDevice /\ RemovedIsIdle
  BY DEF IInv
<1>a. /\ call.dev \in Devices /\ call.file \in Files \cup {None}
      /\ call.own \in {0, 1, 2} /\ call.pc \in CallPcs
      /\ call = [pc |-> call.pc, dev |-> call.dev, file |-> call.file,
                 own |-> call.own]
  BY CallTypes
<1>b. /\ call'.pc \in {"file", "free"} /\ call.pc = "get"
      /\ call'.pc = "file" =>
           call'.dev = call.dev /\ call'.file = call.file /\ module = "live"
      /\ call'.pc = "file" =>
           lo_refcnt' = [lo_refcnt EXCEPT ![call.dev] = @ + 1]
      /\ call'.pc = "free" => lo_refcnt' = lo_refcnt
  BY <1>0, <1>a DEF GetDevice, Free, TypeOK
<1>1. TypeOK'
  <2>1. call' \in Calls
    BY <1>0, <1>a, FreeIsCall DEF GetDevice, TypeOK, Calls, CallPcs
  <2>2. lo_refcnt' \in [Devices -> Nat]
    BY <1>0, <1>a DEF GetDevice, TypeOK
  <2> QED
    BY <1>0, <2>1, <2>2 DEF GetDevice, TypeOK
<1>2. FilesHeld'
  BY <1>0, <1>a, <1>b DEF FilesHeld, GetDevice, TypeOK, One, FilePcs, CallOK,
      OneDevice, FileIsBound, Taken, Holds
<1>3. ModulesHeld'
  BY <1>0, <1>a, <1>b DEF ModulesHeld, GetDevice, TypeOK, One, ModulePcs,
      CallOK
<1>4. OpensHeld'
  BY <1>0, <1>a, <1>b DEF OpensHeld, GetDevice, TypeOK, One, CallOK, FilePcs,
      ModulePcs, OpenPcs
<1>5. CallOK'
  BY <1>0, <1>a, <1>b DEF CallOK, GetDevice, TypeOK, FilePcs, FileIsBound,
      BoundHasFile, Taken, Holds
<1>6. BoundHasFile'
  BY <1>0, <1>a, <1>b DEF BoundHasFile, GetDevice, TypeOK, CallOK, FilePcs
<1>7. FileIsBound'
  BY <1>0, <1>a, <1>b DEF FileIsBound, GetDevice, TypeOK, CallOK, FilePcs
<1>8. OneDevice'
  BY <1>0, <1>a, <1>b DEF OneDevice, GetDevice, TypeOK, CallOK, FileIsBound,
      Taken, Holds
<1>9. RemovedIsIdle'
  BY <1>0, <1>a, <1>b DEF RemovedIsIdle, GetDevice, TypeOK, OpensHeld,
      FilesHeld, Idle, One, CallOK, BoundHasFile, FileIsBound, FilePcs,
      ModulePcs, OpenPcs
<1> QED
  BY <1>1, <1>2, <1>3, <1>4, <1>5, <1>6, <1>7, <1>8, <1>9 DEF IInv

LEMMA GetFileStep ==
  ASSUME IInv, get_file
  PROVE  IInv'
<1> USE ControlAssumption DEF vars, devVars
<1>0. /\ TypeOK /\ FilesHeld /\ ModulesHeld /\ OpensHeld /\ CallOK
      /\ BoundHasFile /\ FileIsBound /\ OneDevice /\ RemovedIsIdle
  BY DEF IInv
<1>a. /\ call.dev \in Devices /\ call.file \in Files \cup {None}
      /\ call.own \in {0, 1, 2} /\ call.pc \in CallPcs
      /\ call = [pc |-> call.pc, dev |-> call.dev, file |-> call.file,
                 own |-> call.own]
  BY CallTypes
<1>b. /\ call.pc = "file" /\ call'.pc = "module"
      /\ call'.dev = call.dev /\ call'.file = call.file
  BY <1>0, <1>a DEF get_file, Free, TypeOK
<1>1. TypeOK'
  BY <1>0, <1>a, <1>b DEF TypeOK, get_file, Calls, CallPcs, CallOK, FilesHeld,
      ModulesHeld, OpensHeld, One, FilePcs, ModulePcs, OpenPcs
<1>2. FilesHeld'
  BY <1>0, <1>a, <1>b DEF FilesHeld, get_file, TypeOK, One, FilePcs, CallOK,
      OneDevice, FileIsBound, Taken, Holds
<1>3. ModulesHeld'
  BY <1>0, <1>a, <1>b DEF ModulesHeld, get_file, TypeOK, One, ModulePcs,
      CallOK
<1>4. OpensHeld'
  BY <1>0, <1>a, <1>b DEF OpensHeld, get_file, TypeOK, One, CallOK, FilePcs,
      ModulePcs, OpenPcs
<1>5. CallOK'
  BY <1>0, <1>a, <1>b DEF CallOK, get_file, TypeOK, FilePcs, FileIsBound,
      BoundHasFile, Taken, Holds
<1>6. BoundHasFile'
  BY <1>0, <1>a, <1>b DEF BoundHasFile, get_file, TypeOK, CallOK, FilePcs
<1>7. FileIsBound'
  BY <1>0, <1>a, <1>b DEF FileIsBound, get_file, TypeOK, CallOK, FilePcs
<1>8. OneDevice'
  BY <1>0, <1>a, <1>b DEF OneDevice, get_file, TypeOK, CallOK, FileIsBound,
      Taken, Holds
<1>9. RemovedIsIdle'
  BY <1>0, <1>a, <1>b DEF RemovedIsIdle, get_file, TypeOK, OpensHeld,
      FilesHeld, Idle, One, CallOK, BoundHasFile, FileIsBound, FilePcs,
      ModulePcs, OpenPcs
<1> QED
  BY <1>1, <1>2, <1>3, <1>4, <1>5, <1>6, <1>7, <1>8, <1>9 DEF IInv

LEMMA ModuleGetStep ==
  ASSUME IInv, try_module_get
  PROVE  IInv'
<1> USE ControlAssumption DEF vars, devVars
<1>0. /\ TypeOK /\ FilesHeld /\ ModulesHeld /\ OpensHeld /\ CallOK
      /\ BoundHasFile /\ FileIsBound /\ OneDevice /\ RemovedIsIdle
  BY DEF IInv
<1>a. /\ call.dev \in Devices /\ call.file \in Files \cup {None}
      /\ call.own \in {0, 1, 2} /\ call.pc \in CallPcs
      /\ call = [pc |-> call.pc, dev |-> call.dev, file |-> call.file,
                 own |-> call.own]
  BY CallTypes
<1>b. /\ call.pc = "module" /\ call'.dev = call.dev
      /\ call'.file = call.file
      /\ \/ /\ call'.pc = "set"
            /\ module_refs' = [module_refs EXCEPT ![call.dev] = @ + 1]
         \/ call'.pc = "fput" /\ module_refs' = module_refs
  BY <1>0, <1>a DEF try_module_get, Free, TypeOK
<1>1. TypeOK'
  BY <1>0, <1>a, <1>b DEF TypeOK, try_module_get, Calls, CallPcs, CallOK,
      FilesHeld, ModulesHeld, OpensHeld, One, FilePcs, ModulePcs, OpenPcs
<1>2. FilesHeld'
  BY <1>0, <1>a, <1>b DEF FilesHeld, try_module_get, TypeOK, One, FilePcs,
      CallOK, OneDevice, FileIsBound, Taken, Holds
<1>3. ModulesHeld'
  BY <1>0, <1>a, <1>b DEF ModulesHeld, try_module_get, TypeOK, One, ModulePcs,
      CallOK
<1>4. OpensHeld'
  BY <1>0, <1>a, <1>b DEF OpensHeld, try_module_get, TypeOK, One, CallOK,
      FilePcs, ModulePcs, OpenPcs
<1>5. CallOK'
  BY <1>0, <1>a, <1>b DEF CallOK, try_module_get, TypeOK, FilePcs,
      FileIsBound, BoundHasFile, Taken, Holds
<1>6. BoundHasFile'
  BY <1>0, <1>a, <1>b DEF BoundHasFile, try_module_get, TypeOK, CallOK,
      FilePcs
<1>7. FileIsBound'
  BY <1>0, <1>a, <1>b DEF FileIsBound, try_module_get, TypeOK, CallOK, FilePcs
<1>8. OneDevice'
  BY <1>0, <1>a, <1>b DEF OneDevice, try_module_get, TypeOK, CallOK,
      FileIsBound, Taken, Holds
<1>9. RemovedIsIdle'
  BY <1>0, <1>a, <1>b DEF RemovedIsIdle, try_module_get, TypeOK, OpensHeld,
      FilesHeld, Idle, One, CallOK, BoundHasFile, FileIsBound, FilePcs,
      ModulePcs, OpenPcs
<1> QED
  BY <1>1, <1>2, <1>3, <1>4, <1>5, <1>6, <1>7, <1>8, <1>9 DEF IInv

LEMMA SetFdStep ==
  ASSUME IInv, loop_set_fd
  PROVE  IInv'
<1> USE ControlAssumption DEF vars, devVars
<1>0. /\ TypeOK /\ FilesHeld /\ ModulesHeld /\ OpensHeld /\ CallOK
      /\ BoundHasFile /\ FileIsBound /\ OneDevice /\ RemovedIsIdle
  BY DEF IInv
<1>a. /\ call.dev \in Devices /\ call.file \in Files \cup {None}
      /\ call.own \in {0, 1, 2} /\ call.pc \in CallPcs
      /\ call = [pc |-> call.pc, dev |-> call.dev, file |-> call.file,
                 own |-> call.own]
  BY CallTypes
<1>b. /\ call.pc = "set" /\ call'.dev = call.dev /\ call'.file = call.file
      /\ \/ /\ call'.pc = "thread"
            /\ lo_backing_file' = [lo_backing_file EXCEPT
                                     ![call.dev] = call.file]
         \/ call'.pc = "refused" /\ lo_backing_file' = lo_backing_file
  BY <1>0, <1>a DEF loop_set_fd, CanSet, Free, TypeOK
<1>1. TypeOK'
  BY <1>0, <1>a, <1>b DEF TypeOK, loop_set_fd, CanSet, Calls, CallPcs, CallOK,
      FilesHeld, ModulesHeld, OpensHeld, One, FilePcs, ModulePcs, OpenPcs
<1>2. FilesHeld'
  BY <1>0, <1>a, <1>b DEF FilesHeld, loop_set_fd, CanSet, TypeOK, One,
      FilePcs, CallOK, OneDevice, FileIsBound, Taken, Holds
<1>3. ModulesHeld'
  BY <1>0, <1>a, <1>b DEF ModulesHeld, loop_set_fd, CanSet, TypeOK, One,
      ModulePcs, CallOK
<1>4. OpensHeld'
  BY <1>0, <1>a, <1>b DEF OpensHeld, loop_set_fd, CanSet, TypeOK, One, CallOK,
      FilePcs, ModulePcs, OpenPcs
<1>5. CallOK'
  BY <1>0, <1>a, <1>b DEF CallOK, loop_set_fd, CanSet, TypeOK, FilePcs,
      FileIsBound, BoundHasFile, Taken, Holds
<1>6. BoundHasFile'
  BY <1>0, <1>a, <1>b DEF BoundHasFile, loop_set_fd, CanSet, TypeOK, CallOK,
      FilePcs
<1>7. FileIsBound'
  BY <1>0, <1>a, <1>b DEF FileIsBound, loop_set_fd, CanSet, TypeOK, CallOK,
      FilePcs
<1>8. OneDevice'
  BY <1>0, <1>a, <1>b DEF OneDevice, loop_set_fd, CanSet, TypeOK, CallOK,
      FileIsBound, Taken, Holds
<1>9. RemovedIsIdle'
  BY <1>0, <1>a, <1>b DEF RemovedIsIdle, loop_set_fd, CanSet, TypeOK,
      OpensHeld, FilesHeld, Idle, One, CallOK, BoundHasFile, FileIsBound,
      FilePcs, ModulePcs, OpenPcs
<1> QED
  BY <1>1, <1>2, <1>3, <1>4, <1>5, <1>6, <1>7, <1>8, <1>9 DEF IInv

LEMMA ThreadStep ==
  ASSUME IInv, loop_thread
  PROVE  IInv'
<1> USE ControlAssumption DEF vars, devVars
<1>0. /\ TypeOK /\ FilesHeld /\ ModulesHeld /\ OpensHeld /\ CallOK
      /\ BoundHasFile /\ FileIsBound /\ OneDevice /\ RemovedIsIdle
  BY DEF IInv
<1>a. /\ call.dev \in Devices /\ call.file \in Files \cup {None}
      /\ call.own \in {0, 1, 2} /\ call.pc \in CallPcs
      /\ call = [pc |-> call.pc, dev |-> call.dev, file |-> call.file,
                 own |-> call.own]
  BY CallTypes
<1>b. /\ call.pc = "thread"
      /\ \/ /\ call'.pc = "free"
            /\ lo_state' = [lo_state EXCEPT ![call.dev] = "BOUND"]
         \/ /\ call'.pc = "hung" /\ lo_state' = lo_state
            /\ call'.dev = call.dev /\ call'.file = call.file
  <2>1. CASE call' = Free /\ lo_state' = [lo_state EXCEPT ![call.dev] = "BOUND"]
    BY <2>1 DEF loop_thread, Free
  <2>2. CASE call' = [call EXCEPT !.pc = "hung"] /\ UNCHANGED lo_state
    <3>1. call' = [pc |-> "hung", dev |-> call.dev, file |-> call.file,
                   own |-> call.own]
      BY <1>a, <2>2
    <3> QED BY <2>2, <3>1 DEF loop_thread
  <2> QED BY <2>1, <2>2 DEF loop_thread
<1>1. TypeOK'
  <2>1. call' \in Calls
    <3>1. [call EXCEPT !.pc = "hung"] \in Calls
      BY <1>a DEF Calls, CallPcs
    <3> QED BY <3>1, FreeIsCall DEF loop_thread
  <2>2. lo_state' \in [Devices -> {"UNBOUND", "BOUND", "RUNDOWN"}]
    BY <1>0, <1>b DEF TypeOK
  <2> QED
    BY <1>0, <2>1, <2>2 DEF loop_thread, TypeOK
<1>2. FilesHeld'
  BY <1>0, <1>a, <1>b DEF FilesHeld, loop_thread, TypeOK, One, FilePcs,
      CallOK, OneDevice, FileIsBound, Taken, Holds
<1>3. ModulesHeld'
  BY <1>0, <1>a, <1>b DEF ModulesHeld, loop_thread, TypeOK, One, ModulePcs,
      CallOK
<1>4. OpensHeld'
  BY <1>0, <1>a, <1>b DEF OpensHeld, loop_thread, TypeOK, One, CallOK,
      FilePcs, ModulePcs, OpenPcs
<1>5. CallOK'
  BY <1>0, <1>a, <1>b DEF CallOK, loop_thread, TypeOK, FilePcs, FileIsBound,
      BoundHasFile, Taken, Holds
<1>6. BoundHasFile'
  BY <1>0, <1>a, <1>b DEF BoundHasFile, loop_thread, TypeOK, CallOK, FilePcs
<1>7. FileIsBound'
  BY <1>0, <1>a, <1>b DEF FileIsBound, loop_thread, TypeOK, CallOK, FilePcs
<1>8. OneDevice'
  BY <1>0, <1>a, <1>b DEF OneDevice, loop_thread, TypeOK, CallOK, FileIsBound,
      Taken, Holds
<1>9. RemovedIsIdle'
  BY <1>0, <1>a, <1>b DEF RemovedIsIdle, loop_thread, TypeOK, OpensHeld,
      FilesHeld, Idle, One, CallOK, BoundHasFile, FileIsBound, FilePcs,
      ModulePcs, OpenPcs
<1> QED
  BY <1>1, <1>2, <1>3, <1>4, <1>5, <1>6, <1>7, <1>8, <1>9 DEF IInv

LEMMA ClrFdStep ==
  ASSUME IInv, loop_clr_fd
  PROVE  IInv'
<1> USE ControlAssumption DEF vars, devVars
<1>0. /\ TypeOK /\ FilesHeld /\ ModulesHeld /\ OpensHeld /\ CallOK
      /\ BoundHasFile /\ FileIsBound /\ OneDevice /\ RemovedIsIdle
  BY DEF IInv
<1>a. /\ call.dev \in Devices /\ call.file \in Files \cup {None}
      /\ call.own \in {0, 1, 2} /\ call.pc \in CallPcs
      /\ call = [pc |-> call.pc, dev |-> call.dev, file |-> call.file,
                 own |-> call.own]
  BY CallTypes
<1>b. /\ call.pc = "clear"
      /\ \/ call'.pc = "free" /\ lo_state' = lo_state
         \/ /\ call'.pc = "fields"
            /\ lo_state' = [lo_state EXCEPT ![call.dev] = "RUNDOWN"]
            /\ call'.dev = call.dev /\ call'.file = lo_backing_file[call.dev]
  <2>1. CASE Busy(call.dev)
    BY <2>1 DEF loop_clr_fd, Free
  <2>2. CASE ~Busy(call.dev)
    <3>1. call' = [pc |-> "fields", dev |-> call.dev,
                   file |-> lo_backing_file[call.dev], own |-> call.own]
      BY <1>a, <2>2 DEF loop_clr_fd
    <3> QED BY <2>2, <3>1 DEF loop_clr_fd
  <2> QED BY <2>1, <2>2
<1>1. TypeOK'
  <2>1. call' \in Calls
    <3>1. CASE Busy(call.dev)
      BY <3>1, FreeIsCall DEF loop_clr_fd
    <3>2. CASE ~Busy(call.dev)
      <4>1. lo_backing_file[call.dev] \in Files \cup {None}
        BY <1>0, <1>a DEF TypeOK
      <4>2. call' = [pc |-> "fields", dev |-> call.dev,
                     file |-> lo_backing_file[call.dev], own |-> call.own]
        BY <1>a, <3>2 DEF loop_clr_fd
      <4> QED BY <1>a, <4>1, <4>2 DEF Calls, CallPcs
    <3> QED BY <3>1, <3>2
  <2>2. lo_state' \in [Devices -> {"UNBOUND", "BOUND", "RUNDOWN"}]
    BY <1>0, <1>a DEF loop_clr_fd, TypeOK
  <2> QED
    BY <1>0, <2>1, <2>2 DEF loop_clr_fd, TypeOK
<1>2. FilesHeld'
  BY <1>0, <1>a, <1>b DEF FilesHeld, loop_clr_fd, TypeOK, One, FilePcs,
      CallOK, OneDevice, FileIsBound, Taken, Holds
<1>3. ModulesHeld'
  BY <1>0, <1>a, <1>b DEF ModulesHeld, loop_clr_fd, TypeOK, One, ModulePcs,
      CallOK
<1>4. OpensHeld'
  BY <1>0, <1>a, <1>b DEF OpensHeld, loop_clr_fd, TypeOK, One, CallOK,
      FilePcs, ModulePcs, OpenPcs
<1>5. CallOK'
  BY <1>0, <1>a, <1>b DEF CallOK, loop_clr_fd, TypeOK, FilePcs, FileIsBound,
      BoundHasFile, Taken, Holds
<1>6. BoundHasFile'
  BY <1>0, <1>a, <1>b DEF BoundHasFile, loop_clr_fd, TypeOK, CallOK, FilePcs
<1>7. FileIsBound'
  BY <1>0, <1>a, <1>b DEF FileIsBound, loop_clr_fd, TypeOK, CallOK, FilePcs
<1>8. OneDevice'
  BY <1>0, <1>a, <1>b DEF OneDevice, loop_clr_fd, TypeOK, CallOK, FileIsBound,
      Taken, Holds
<1>9. RemovedIsIdle'
  BY <1>0, <1>a, <1>b DEF RemovedIsIdle, loop_clr_fd, TypeOK, OpensHeld,
      FilesHeld, Idle, One, CallOK, BoundHasFile, FileIsBound, FilePcs,
      ModulePcs, OpenPcs
<1> QED
  BY <1>1, <1>2, <1>3, <1>4, <1>5, <1>6, <1>7, <1>8, <1>9 DEF IInv

LEMMA ClearFieldsStep ==
  ASSUME IInv, ClearFields
  PROVE  IInv'
<1> USE ControlAssumption DEF vars, devVars
<1>0. /\ TypeOK /\ FilesHeld /\ ModulesHeld /\ OpensHeld /\ CallOK
      /\ BoundHasFile /\ FileIsBound /\ OneDevice /\ RemovedIsIdle
  BY DEF IInv
<1>a. /\ call.dev \in Devices /\ call.file \in Files \cup {None}
      /\ call.own \in {0, 1, 2} /\ call.pc \in CallPcs
      /\ call = [pc |-> call.pc, dev |-> call.dev, file |-> call.file,
                 own |-> call.own]
  BY CallTypes
<1>b. /\ call.pc = "fields" /\ call'.pc = "unbind"
      /\ call'.dev = call.dev /\ call'.file = call.file
  BY <1>0, <1>a DEF ClearFields, Free, TypeOK
<1>c. /\ lo_backing_file[call.dev] # None
      /\ lo_backing_file' = [lo_backing_file EXCEPT ![call.dev] = None]
      /\ UNCHANGED <<users, lo_refcnt, module_refs>>
  BY <1>0, <1>a, <1>b DEF ClearFields, CallOK, BoundHasFile
<1>1. TypeOK'
  BY <1>0, <1>a, <1>b, <1>c DEF TypeOK, ClearFields, Calls, CallPcs, CallOK,
      FilesHeld, ModulesHeld, OpensHeld, One, FilePcs, ModulePcs, OpenPcs
<1>2. FilesHeld'
  BY <1>0, <1>a, <1>b, <1>c DEF FilesHeld, ClearFields, TypeOK, One, FilePcs,
      CallOK, OneDevice, FileIsBound, Taken, Holds
<1>3. ModulesHeld'
  <2>1. ASSUME NEW d \in Devices
        PROVE  One(lo_backing_file'[d] # None)
                 + One(call'.dev = d /\ call'.pc \in ModulePcs)
               = One(lo_backing_file[d] # None)
                 + One(call.dev = d /\ call.pc \in ModulePcs)
    BY <1>0, <1>a, <1>b, <1>c DEF TypeOK, One, ModulePcs
  <2> QED BY <1>0, <1>c, <2>1 DEF ModulesHeld
<1>4. OpensHeld'
  <2>1. ASSUME NEW d \in Devices
        PROVE  /\ One(lo_backing_file'[d] # None) = IF d = call.dev THEN 0
                    ELSE One(lo_backing_file[d] # None)
               /\ One(call'.dev = d /\ call'.pc \in OpenPcs)
                    = One(d = call.dev)
               /\ One(call.dev = d /\ call.pc \in OpenPcs) = 0
    BY <1>0, <1>a, <1>b, <1>c DEF TypeOK, One, OpenPcs, FilePcs, ModulePcs
  <2>2. One(lo_backing_file[call.dev] # None) = 1 /\ One(TRUE) = 1
        /\ One(FALSE) = 0
    BY <1>c DEF One
  <2> QED
    <3>1. ASSUME NEW d \in Devices, d = call.dev
          PROVE  lo_refcnt'[d] = users'[d] + One(lo_backing_file'[d] # None)
                   + One(call'.dev = d /\ call'.pc \in OpenPcs)
      BY <1>0, <1>c, <2>1, <2>2, <3>1 DEF OpensHeld, TypeOK
    <3>2. ASSUME NEW d \in Devices, d # call.dev
          PROVE  lo_refcnt'[d] = users'[d] + One(lo_backing_file'[d] # None)
                   + One(call'.dev = d /\ call'.pc \in OpenPcs)
      <4>1. One(d = call.dev) = 0
        BY <3>2 DEF One
      <4> QED
        BY <1>0, <1>c, <2>1, <3>2, <4>1 DEF OpensHeld, TypeOK
    <3> QED BY <3>1, <3>2 DEF OpensHeld
<1>5. CallOK'
  BY <1>0, <1>a, <1>b, <1>c DEF CallOK, ClearFields, TypeOK, FilePcs,
      FileIsBound, BoundHasFile, Taken, Holds
<1>6. BoundHasFile'
  BY <1>0, <1>a, <1>b, <1>c DEF BoundHasFile, ClearFields, TypeOK, CallOK,
      FilePcs
<1>7. FileIsBound'
  BY <1>0, <1>a, <1>b, <1>c DEF FileIsBound, ClearFields, TypeOK, CallOK,
      FilePcs
<1>8. OneDevice'
  BY <1>0, <1>a, <1>b, <1>c DEF OneDevice, ClearFields, TypeOK, CallOK,
      FileIsBound, Taken, Holds
<1>9. RemovedIsIdle'
  BY <1>0, <1>a, <1>b, <1>c DEF RemovedIsIdle, ClearFields, TypeOK, OpensHeld,
      FilesHeld, Idle, One, CallOK, BoundHasFile, FileIsBound, FilePcs,
      ModulePcs, OpenPcs
<1> QED
  BY <1>1, <1>2, <1>3, <1>4, <1>5, <1>6, <1>7, <1>8, <1>9 DEF IInv

LEMMA UnbindStep ==
  ASSUME IInv, Unbind
  PROVE  IInv'
<1> USE ControlAssumption DEF vars, devVars
<1>0. /\ TypeOK /\ FilesHeld /\ ModulesHeld /\ OpensHeld /\ CallOK
      /\ BoundHasFile /\ FileIsBound /\ OneDevice /\ RemovedIsIdle
  BY DEF IInv
<1>a. /\ call.dev \in Devices /\ call.file \in Files \cup {None}
      /\ call.own \in {0, 1, 2} /\ call.pc \in CallPcs
      /\ call = [pc |-> call.pc, dev |-> call.dev, file |-> call.file,
                 own |-> call.own]
  BY CallTypes
<1>b. /\ call.pc = "unbind" /\ call'.pc = "drop"
      /\ call'.dev = call.dev /\ call'.file = call.file
  BY <1>0, <1>a DEF Unbind, Free, TypeOK
<1>1. TypeOK'
  BY <1>0, <1>a, <1>b DEF TypeOK, Unbind, Calls, CallPcs, CallOK, FilesHeld,
      ModulesHeld, OpensHeld, One, FilePcs, ModulePcs, OpenPcs
<1>2. FilesHeld'
  BY <1>0, <1>a, <1>b DEF FilesHeld, Unbind, TypeOK, One, FilePcs, CallOK,
      OneDevice, FileIsBound, Taken, Holds
<1>3. ModulesHeld'
  BY <1>0, <1>a, <1>b DEF ModulesHeld, Unbind, TypeOK, One, ModulePcs, CallOK
<1>4. OpensHeld'
  BY <1>0, <1>a, <1>b DEF OpensHeld, Unbind, TypeOK, One, CallOK, FilePcs,
      ModulePcs, OpenPcs
<1>5. CallOK'
  BY <1>0, <1>a, <1>b DEF CallOK, Unbind, TypeOK, FilePcs, FileIsBound,
      BoundHasFile, Taken, Holds
<1>6. BoundHasFile'
  BY <1>0, <1>a, <1>b DEF BoundHasFile, Unbind, TypeOK, CallOK, FilePcs
<1>7. FileIsBound'
  BY <1>0, <1>a, <1>b DEF FileIsBound, Unbind, TypeOK, CallOK, FilePcs
<1>8. OneDevice'
  BY <1>0, <1>a, <1>b DEF OneDevice, Unbind, TypeOK, CallOK, FileIsBound,
      Taken, Holds
<1>9. RemovedIsIdle'
  BY <1>0, <1>a, <1>b DEF RemovedIsIdle, Unbind, TypeOK, OpensHeld, FilesHeld,
      Idle, One, CallOK, BoundHasFile, FileIsBound, FilePcs, ModulePcs,
      OpenPcs
<1> QED
  BY <1>1, <1>2, <1>3, <1>4, <1>5, <1>6, <1>7, <1>8, <1>9 DEF IInv

LEMMA FputStep ==
  ASSUME IInv, fput
  PROVE  IInv'
<1> USE ControlAssumption DEF vars, devVars
<1>0. /\ TypeOK /\ FilesHeld /\ ModulesHeld /\ OpensHeld /\ CallOK
      /\ BoundHasFile /\ FileIsBound /\ OneDevice /\ RemovedIsIdle
  BY DEF IInv
<1>a. /\ call.dev \in Devices /\ call.file \in Files \cup {None}
      /\ call.own \in {0, 1, 2} /\ call.pc \in CallPcs
      /\ call = [pc |-> call.pc, dev |-> call.dev, file |-> call.file,
                 own |-> call.own]
  BY CallTypes
<1>b. /\ call.pc \in {"fput", "drop"} /\ call'.dev = call.dev
      /\ call'.file = call.file
      /\ call'.pc = IF call.pc = "fput" THEN "put" ELSE "release"
  BY <1>0, <1>a DEF fput, Free, TypeOK
<1>1. TypeOK'
  BY <1>0, <1>a, <1>b DEF TypeOK, fput, Calls, CallPcs, CallOK, FilesHeld,
      ModulesHeld, OpensHeld, One, FilePcs, ModulePcs, OpenPcs
<1>2. FilesHeld'
  BY <1>0, <1>a, <1>b DEF FilesHeld, fput, TypeOK, One, FilePcs, CallOK,
      OneDevice, FileIsBound, Taken, Holds
<1>3. ModulesHeld'
  BY <1>0, <1>a, <1>b DEF ModulesHeld, fput, TypeOK, One, ModulePcs, CallOK
<1>4. OpensHeld'
  BY <1>0, <1>a, <1>b DEF OpensHeld, fput, TypeOK, One, CallOK, FilePcs,
      ModulePcs, OpenPcs
<1>5. CallOK'
  BY <1>0, <1>a, <1>b DEF CallOK, fput, TypeOK, FilePcs, FileIsBound,
      BoundHasFile, Taken, Holds
<1>6. BoundHasFile'
  BY <1>0, <1>a, <1>b DEF BoundHasFile, fput, TypeOK, CallOK, FilePcs
<1>7. FileIsBound'
  BY <1>0, <1>a, <1>b DEF FileIsBound, fput, TypeOK, CallOK, FilePcs
<1>8. OneDevice'
  BY <1>0, <1>a, <1>b DEF OneDevice, fput, TypeOK, CallOK, FileIsBound, Taken,
      Holds
<1>9. RemovedIsIdle'
  BY <1>0, <1>a, <1>b DEF RemovedIsIdle, fput, TypeOK, OpensHeld, FilesHeld,
      Idle, One, CallOK, BoundHasFile, FileIsBound, FilePcs, ModulePcs,
      OpenPcs
<1> QED
  BY <1>1, <1>2, <1>3, <1>4, <1>5, <1>6, <1>7, <1>8, <1>9 DEF IInv

LEMMA ModulePutStep ==
  ASSUME IInv, module_put
  PROVE  IInv'
<1> USE ControlAssumption DEF vars, devVars
<1>0. /\ TypeOK /\ FilesHeld /\ ModulesHeld /\ OpensHeld /\ CallOK
      /\ BoundHasFile /\ FileIsBound /\ OneDevice /\ RemovedIsIdle
  BY DEF IInv
<1>a. /\ call.dev \in Devices /\ call.file \in Files \cup {None}
      /\ call.own \in {0, 1, 2} /\ call.pc \in CallPcs
      /\ call = [pc |-> call.pc, dev |-> call.dev, file |-> call.file,
                 own |-> call.own]
  BY CallTypes
<1>b. /\ call.pc \in {"refused", "release"} /\ call'.dev = call.dev
      /\ call'.file = call.file
      /\ call'.pc = IF call.pc = "refused" THEN "fput" ELSE "put"
  BY <1>0, <1>a DEF module_put, Free, TypeOK
<1>1. TypeOK'
  BY <1>0, <1>a, <1>b DEF TypeOK, module_put, Calls, CallPcs, CallOK,
      FilesHeld, ModulesHeld, OpensHeld, One, FilePcs, ModulePcs, OpenPcs
<1>2. FilesHeld'
  BY <1>0, <1>a, <1>b DEF FilesHeld, module_put, TypeOK, One, FilePcs, CallOK,
      OneDevice, FileIsBound, Taken, Holds
<1>3. ModulesHeld'
  BY <1>0, <1>a, <1>b DEF ModulesHeld, module_put, TypeOK, One, ModulePcs,
      CallOK
<1>4. OpensHeld'
  BY <1>0, <1>a, <1>b DEF OpensHeld, module_put, TypeOK, One, CallOK, FilePcs,
      ModulePcs, OpenPcs
<1>5. CallOK'
  BY <1>0, <1>a, <1>b DEF CallOK, module_put, TypeOK, FilePcs, FileIsBound,
      BoundHasFile, Taken, Holds
<1>6. BoundHasFile'
  BY <1>0, <1>a, <1>b DEF BoundHasFile, module_put, TypeOK, CallOK, FilePcs
<1>7. FileIsBound'
  BY <1>0, <1>a, <1>b DEF FileIsBound, module_put, TypeOK, CallOK, FilePcs
<1>8. OneDevice'
  BY <1>0, <1>a, <1>b DEF OneDevice, module_put, TypeOK, CallOK, FileIsBound,
      Taken, Holds
<1>9. RemovedIsIdle'
  BY <1>0, <1>a, <1>b DEF RemovedIsIdle, module_put, TypeOK, OpensHeld,
      FilesHeld, Idle, One, CallOK, BoundHasFile, FileIsBound, FilePcs,
      ModulePcs, OpenPcs
<1> QED
  BY <1>1, <1>2, <1>3, <1>4, <1>5, <1>6, <1>7, <1>8, <1>9 DEF IInv

LEMMA PutDeviceStep ==
  ASSUME IInv, PutDevice
  PROVE  IInv'
<1> USE ControlAssumption DEF vars, devVars
<1>0. /\ TypeOK /\ FilesHeld /\ ModulesHeld /\ OpensHeld /\ CallOK
      /\ BoundHasFile /\ FileIsBound /\ OneDevice /\ RemovedIsIdle
  BY DEF IInv
<1>a. /\ call.dev \in Devices /\ call.file \in Files \cup {None}
      /\ call.own \in {0, 1, 2} /\ call.pc \in CallPcs
      /\ call = [pc |-> call.pc, dev |-> call.dev, file |-> call.file,
                 own |-> call.own]
  BY CallTypes
<1>b. /\ call.pc = "put" /\ call'.pc = "free"
  BY <1>0, <1>a DEF PutDevice, Free, TypeOK
<1>1. TypeOK'
  <2>1. call' \in Calls
    BY <1>0, <1>a, FreeIsCall DEF PutDevice, TypeOK, Calls, CallPcs
  <2>2. lo_refcnt' \in [Devices -> Nat]
    <3>1. lo_refcnt[call.dev] > 0
      BY <1>0, <1>a, <1>b DEF TypeOK, OpensHeld, One, OpenPcs
    <3> QED
      BY <1>0, <1>a, <3>1 DEF PutDevice, TypeOK
  <2> QED
    BY <1>0, <2>1, <2>2 DEF PutDevice, TypeOK
<1>2. FilesHeld'
  BY <1>0, <1>a, <1>b DEF FilesHeld, PutDevice, TypeOK, One, FilePcs, CallOK,
      OneDevice, FileIsBound, Taken, Holds
<1>3. ModulesHeld'
  BY <1>0, <1>a, <1>b DEF ModulesHeld, PutDevice, TypeOK, One, ModulePcs,
      CallOK
<1>4. OpensHeld'
  BY <1>0, <1>a, <1>b DEF OpensHeld, PutDevice, TypeOK, One, CallOK, FilePcs,
      ModulePcs, OpenPcs
<1>5. CallOK'
  BY <1>0, <1>a, <1>b DEF CallOK, PutDevice, TypeOK, FilePcs, FileIsBound,
      BoundHasFile, Taken, Holds
<1>6. BoundHasFile'
  BY <1>0, <1>a, <1>b DEF BoundHasFile, PutDevice, TypeOK, CallOK, FilePcs
<1>7. FileIsBound'
  BY <1>0, <1>a, <1>b DEF FileIsBound, PutDevice, TypeOK, CallOK, FilePcs
<1>8. OneDevice'
  BY <1>0, <1>a, <1>b DEF OneDevice, PutDevice, TypeOK, CallOK, FileIsBound,
      Taken, Holds
<1>9. RemovedIsIdle'
  BY <1>0, <1>a, <1>b DEF RemovedIsIdle, PutDevice, TypeOK, OpensHeld,
      FilesHeld, Idle, One, CallOK, BoundHasFile, FileIsBound, FilePcs,
      ModulePcs, OpenPcs
<1> QED
  BY <1>1, <1>2, <1>3, <1>4, <1>5, <1>6, <1>7, <1>8, <1>9 DEF IInv

LEMMA RemovalStep ==
  ASSUME IInv, StartRemoval
  PROVE  IInv'
<1> USE ControlAssumption DEF vars, devVars
<1>0. /\ TypeOK /\ FilesHeld /\ ModulesHeld /\ OpensHeld /\ CallOK
      /\ BoundHasFile /\ FileIsBound /\ OneDevice /\ RemovedIsIdle
  BY DEF IInv
<1>a. /\ call.dev \in Devices /\ call.file \in Files \cup {None}
      /\ call.own \in {0, 1, 2} /\ call.pc \in CallPcs
      /\ call = [pc |-> call.pc, dev |-> call.dev, file |-> call.file,
                 own |-> call.own]
  BY CallTypes
<1>b. /\ UNCHANGED <<call, lo_backing_file, lo_state>>
  BY <1>0, <1>a DEF StartRemoval, Unpinned, Free, TypeOK
<1>1. TypeOK'
  BY <1>0, <1>a, <1>b DEF TypeOK, StartRemoval, Unpinned, Calls, CallPcs,
      CallOK, FilesHeld, ModulesHeld, OpensHeld, One, FilePcs, ModulePcs,
      OpenPcs
<1>2. FilesHeld'
  BY <1>0, <1>a, <1>b DEF FilesHeld, StartRemoval, Unpinned, TypeOK, One,
      FilePcs, CallOK, OneDevice, FileIsBound, Taken, Holds
<1>3. ModulesHeld'
  BY <1>0, <1>a, <1>b DEF ModulesHeld, StartRemoval, Unpinned, TypeOK, One,
      ModulePcs, CallOK
<1>4. OpensHeld'
  BY <1>0, <1>a, <1>b DEF OpensHeld, StartRemoval, Unpinned, TypeOK, One,
      CallOK, FilePcs, ModulePcs, OpenPcs
<1>5. CallOK'
  BY <1>0, <1>a, <1>b DEF CallOK, StartRemoval, Unpinned, TypeOK, FilePcs,
      FileIsBound, BoundHasFile, Taken, Holds
<1>6. BoundHasFile'
  BY <1>0, <1>a, <1>b DEF BoundHasFile, StartRemoval, Unpinned, TypeOK,
      CallOK, FilePcs
<1>7. FileIsBound'
  BY <1>0, <1>a, <1>b DEF FileIsBound, StartRemoval, Unpinned, TypeOK, CallOK,
      FilePcs
<1>8. OneDevice'
  BY <1>0, <1>a, <1>b DEF OneDevice, StartRemoval, Unpinned, TypeOK, CallOK,
      FileIsBound, Taken, Holds
<1>9. RemovedIsIdle'
  BY <1>0, <1>a, <1>b DEF RemovedIsIdle, StartRemoval, Unpinned, TypeOK,
      OpensHeld, FilesHeld, Idle, One, CallOK, BoundHasFile, FileIsBound,
      FilePcs, ModulePcs, OpenPcs
<1> QED
  BY <1>1, <1>2, <1>3, <1>4, <1>5, <1>6, <1>7, <1>8, <1>9 DEF IInv

LEMMA ExitStep ==
  ASSUME IInv, lloop_exit
  PROVE  IInv'
<1> USE ControlAssumption DEF vars, devVars
<1>0. /\ TypeOK /\ FilesHeld /\ ModulesHeld /\ OpensHeld /\ CallOK
      /\ BoundHasFile /\ FileIsBound /\ OneDevice /\ RemovedIsIdle
  BY DEF IInv
<1>a. /\ call.dev \in Devices /\ call.file \in Files \cup {None}
      /\ call.own \in {0, 1, 2} /\ call.pc \in CallPcs
      /\ call = [pc |-> call.pc, dev |-> call.dev, file |-> call.file,
                 own |-> call.own]
  BY CallTypes
<1>b. /\ UNCHANGED <<call, lo_backing_file, lo_state>>
  BY <1>0, <1>a DEF lloop_exit, Free, TypeOK
<1>1. TypeOK'
  BY <1>0, <1>a, <1>b DEF TypeOK, lloop_exit, Calls, CallPcs, CallOK,
      FilesHeld, ModulesHeld, OpensHeld, One, FilePcs, ModulePcs, OpenPcs
<1>2. FilesHeld'
  BY <1>0, <1>a, <1>b DEF FilesHeld, lloop_exit, TypeOK, One, FilePcs, CallOK,
      OneDevice, FileIsBound, Taken, Holds
<1>3. ModulesHeld'
  BY <1>0, <1>a, <1>b DEF ModulesHeld, lloop_exit, TypeOK, One, ModulePcs,
      CallOK
<1>4. OpensHeld'
  BY <1>0, <1>a, <1>b DEF OpensHeld, lloop_exit, TypeOK, One, CallOK, FilePcs,
      ModulePcs, OpenPcs
<1>5. CallOK'
  BY <1>0, <1>a, <1>b DEF CallOK, lloop_exit, TypeOK, FilePcs, FileIsBound,
      BoundHasFile, Taken, Holds
<1>6. BoundHasFile'
  BY <1>0, <1>a, <1>b DEF BoundHasFile, lloop_exit, TypeOK, CallOK, FilePcs
<1>7. FileIsBound'
  BY <1>0, <1>a, <1>b DEF FileIsBound, lloop_exit, TypeOK, CallOK, FilePcs
<1>8. OneDevice'
  BY <1>0, <1>a, <1>b DEF OneDevice, lloop_exit, TypeOK, CallOK, FileIsBound,
      Taken, Holds
<1>9. RemovedIsIdle'
  BY <1>0, <1>a, <1>b DEF RemovedIsIdle, lloop_exit, TypeOK, OpensHeld,
      FilesHeld, Idle, One, CallOK, BoundHasFile, FileIsBound, FilePcs,
      ModulePcs, OpenPcs
<1> QED
  BY <1>1, <1>2, <1>3, <1>4, <1>5, <1>6, <1>7, <1>8, <1>9 DEF IInv

-----------------------------------------------------------------------------
LEMMA Inductive == IInv /\ [Next]_vars => IInv'
<1> SUFFICES ASSUME IInv, [Next]_vars PROVE IInv'
  OBVIOUS
<1>1. CASE UNCHANGED vars
  BY <1>1
  DEF vars, devVars, IInv, TypeOK, FilesHeld, ModulesHeld, OpensHeld, CallOK,
      BoundHasFile, FileIsBound, OneDevice, RemovedIsIdle, Idle, One, Taken,
      Holds
<1>2. ASSUME NEW d \in Devices, lo_open(d) PROVE IInv'
  BY <1>2, lo_openStep
<1>3. ASSUME NEW d \in Devices, lo_release(d) PROVE IInv'
  BY <1>3, lo_releaseStep
<1>4. ASSUME NEW d \in Devices, Detach(d) PROVE IInv'
  BY <1>4, StartDetachStep DEF Detach
<1>5. ASSUME NEW d \in Devices, DetachByDev(d) PROVE IInv'
  BY <1>5, StartDetachStep DEF DetachByDev
<1>6. ASSUME NEW f \in Files, Attach(f) PROVE IInv'
  BY <1>6, AttachStep
<1> QED
  BY <1>1, <1>2, <1>3, <1>4, <1>5, <1>6, GetDeviceStep, GetFileStep,
     ModuleGetStep, SetFdStep, ThreadStep, ClrFdStep, ClearFieldsStep,
     UnbindStep, FputStep, ModulePutStep, PutDeviceStep, RemovalStep, ExitStep
  DEF Next

THEOREM AlwaysIInv == Spec => []IInv
BY Initially, Inductive, PTL DEF Spec

\* Between calls the references are those of the attachments and opens, and
\* nothing is left of the devices when the module goes (ReferencesBalance), for
\* any number of devices, files and inodes.
THEOREM ReferencesTheorem == Spec => []ReferencesBalance
<1>1. IInv => ReferencesBalance
  <2> SUFFICES ASSUME IInv PROVE ReferencesBalance
    OBVIOUS
  <2>1. ASSUME call.pc \in {"free", "hung"}
        PROVE  FileRefs /\ ModuleRefs /\ OpenRefs
    <3>1. FileRefs
      BY <2>1 DEF IInv, FilesHeld, FilePcs, FileRefs, One
    <3>2. ModuleRefs
      BY <2>1 DEF IInv, ModulesHeld, ModulePcs, ModuleRefs, One
    <3>3. OpenRefs
      BY <2>1 DEF IInv, TypeOK, OpensHeld, OpenPcs, FilePcs, ModulePcs,
         OpenRefs, One
    <3> QED BY <3>1, <3>2, <3>3
  <2> QED BY <2>1 DEF IInv, RemovedIsIdle, ReferencesBalance
<1> QED
  BY <1>1, AlwaysIInv, PTL

-----------------------------------------------------------------------------
(***************************************************************************)
(* The refinement: the worker's report is the abstract attach, the reset   *)
(* of the file the abstract detach, and every other step a stutter.        *)
(***************************************************************************)
Attached == [d \in Devices |-> IF lo_state[d] = "UNBOUND" THEN None
                               ELSE lo_backing_file[d]]

LEMMA InitialTable == Init => Table!Init
BY DEF Init, Table!Init

LEMMA OtherSteps ==
  ASSUME IInv, [Next]_vars, ~loop_thread, ~ClearFields
  PROVE  Attached' = Attached
<1>0. call.dev \in Devices
  BY CallTypes
<1>1. CASE UNCHANGED vars
  BY <1>1 DEF vars, devVars, Attached
<1>2. CASE loop_clr_fd
  <2>1. CASE Busy(call.dev)
    BY <1>2, <2>1 DEF loop_clr_fd, Attached
  <2>2. CASE ~Busy(call.dev)
    <3>1. lo_state[call.dev] = "BOUND"
      BY <1>2 DEF loop_clr_fd, IInv, CallOK
    <3> QED
      BY <1>0, <1>2, <2>2, <3>1 DEF loop_clr_fd, Attached, IInv, TypeOK
  <2> QED
    BY <2>1, <2>2
<1>3. CASE loop_set_fd
  <2>1. lo_state[call.dev] = "UNBOUND" /\ UNCHANGED lo_state
    BY <1>3 DEF loop_set_fd, IInv, CallOK
  <2>2. \A d \in Devices :
          d # call.dev => lo_backing_file'[d] = lo_backing_file[d]
    BY <1>0, <1>3 DEF loop_set_fd, IInv, TypeOK
  <2> QED
    BY <2>1, <2>2 DEF Attached
<1>4. CASE Unbind
  <2>1. /\ lo_backing_file[call.dev] = None /\ UNCHANGED lo_backing_file
        /\ lo_state' = [lo_state EXCEPT ![call.dev] = "UNBOUND"]
    BY <1>4 DEF Unbind, IInv, CallOK
  <2> QED
    BY <1>0, <2>1 DEF Attached, IInv, TypeOK
<1> QED
  BY <1>1, <1>2, <1>3, <1>4
  DEF Next, devVars, Attached, lo_open, lo_release, Detach, DetachByDev,
      StartDetach, Attach, GetDevice, get_file, try_module_get, fput,
      module_put, PutDevice, StartRemoval, lloop_exit

LEMMA AttachStepOfTable ==
  ASSUME IInv, loop_thread
  PROVE  [Table!Next]_Attached
<1>0. call.dev \in Devices /\ call.file \in Files
  BY CallTypes DEF IInv, CallOK, loop_thread
<1>1. CASE UNCHANGED lo_state
  BY <1>1 DEF loop_thread, Attached
<1>2. CASE lo_state' = [lo_state EXCEPT ![call.dev] = "BOUND"]
  <2>1. /\ lo_state[call.dev] = "UNBOUND"
        /\ lo_backing_file[call.dev] = call.file
        /\ ~Taken(call.file)
    BY DEF IInv, CallOK, loop_thread
  <2>2. Attached[call.dev] = None
    BY <1>0, <2>1 DEF Attached
  <2>3. Attached' = [Attached EXCEPT ![call.dev] = call.file]
    BY <1>0, <1>2, <2>1 DEF loop_thread, Attached, IInv, TypeOK
  <2>4. Table!Behind(Inode[call.file]) = {}
    BY <2>1 DEF Table!Behind, Taken, Holds, Attached
  <2>5. Table!Attach(call.dev, call.file)
    BY <2>2, <2>3, <2>4 DEF Table!Attach, Attached
  <2>6. Table!Next
    BY <1>0, <2>5 DEF Table!Next, Table!Attach, Table!Behind, Attached
  <2> QED
    BY <2>6
<1> QED
  BY <1>1, <1>2 DEF loop_thread

LEMMA DetachStepOfTable ==
  ASSUME IInv, ClearFields
  PROVE  [Table!Next]_Attached
<1>0. call.dev \in Devices
  BY CallTypes
<1>1. lo_state[call.dev] = "RUNDOWN" /\ lo_backing_file[call.dev] # None
  BY <1>0 DEF IInv, CallOK, ClearFields, BoundHasFile
<1>2. Attached[call.dev] # None
  BY <1>0, <1>1 DEF Attached
<1>3. Attached' = [Attached EXCEPT ![call.dev] = None]
  BY <1>0, <1>1 DEF ClearFields, Attached, IInv, TypeOK
<1>4. Table!Detach(call.dev)
  BY <1>2, <1>3 DEF Table!Detach, Attached
<1>5. Table!Next
  BY <1>0, <1>4 DEF Table!Next, Table!Detach, Attached
<1> QED
  BY <1>5

\* The driver implements the table of attachments (ImplementsTable): no inode
\* is ever behind two devices.
THEOREM TableTheorem == Spec => ImplementsTable
<1>1. IInv /\ [Next]_vars => [Table!Next]_Attached
  BY OtherSteps, AttachStepOfTable, DetachStepOfTable
<1> QED
  BY <1>1, AlwaysIInv, InitialTable, PTL
  DEF Spec, ImplementsTable, Table!Spec, Attached
==============================================================================
