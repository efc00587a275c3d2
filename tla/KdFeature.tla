------------------------------- MODULE KdFeature ------------------------------
(***************************************************************************)
(* The ioctls of the camera sensor list that move data between a user and  *)
(* the sensors (atom_i2c/kernel/kd_sensorlist.c): FeatureControl, Control, *)
(* GetInfo, GetInfo2 and GetResolution, also as called by 32-bit users.    *)
(*                                                                         *)
(* They hold kdCam_Mutex from end to end and are straight lines of steps:  *)
(* allocate, copy in, call the sensors, copy out, free.  Any step but the  *)
(* last may fail.  A call is written here as its steps, and each step says *)
(* what its failure frees and whether the call then goes on, goes to the   *)
(* end of CAMERA_HW_Ioctl, or is over.                                     *)
(*                                                                         *)
(* Of the data the model keeps who filled a buffer and where it went, and  *)
(* where the two words of a parameter point that the driver may redirect   *)
(* to a buffer of its own.  A caller's parameter is long enough for them.  *)
(***************************************************************************)
EXTENDS Naturals, Sequences

\* Features: all that the driver treats in a way of their own, and one each of
\* those it only passes on: copied in, out, both or neither.
OneValue == {"GET_DEFAULT_FRAME_RATE_BY_SCENARIO", "GET_SENSOR_PDAF_CAPACITY"}
TwoValues == {"GET_AE_AWB_LOCK_INFO", "AUTOTEST_CMD"}
Struct0 == {"GET_EV_AWB_REF", "GET_EXIF_INFO", "GET_SHUTTER_GAIN_AWB_GAIN",
            "GET_DELAY_INFO", "GET_AE_FLASHLIGHT_INFO"}
Struct1 == {"GET_CROP_INFO", "GET_VC_INFO", "GET_PDAF_INFO", "GET_PDAF_DATA"}
Windows == {"SET_AF_WINDOW", "SET_AE_WINDOW"}
Deferred == {"SET_SENSOR_SYNC", "SET_ESHUTTER_GAIN"}
CopiedIn == (OneValue \cup TwoValues \cup Struct0 \cup Struct1 \cup Windows
             \cup {"SET_REGISTER", "GET_REGISTER"}) \ {"AUTOTEST_CMD"}
CopiedOut == (OneValue \cup TwoValues \cup Struct0 \cup Struct1
              \cup {"GET_REGISTER", "GET_PERIOD"})
             \ {"AUTOTEST_CMD", "GET_PDAF_DATA"}
Features == CopiedIn \cup CopiedOut \cup Deferred
            \cup {"AUTOTEST_CMD", "CANCEL_AF"}

Commands == {"GETINFO", "GETINFO2", "GETRESOLUTION2", "CONTROL"}
NoCall == [cmd |-> "none", compat |-> FALSE]
Calls == [cmd : Commands \cup Features, compat : BOOLEAN]

\* Kernel memory: allocated, on the stack, or the ginfo arrays.
Heap == {"buff", "para", "value0", "value1", "struct", "res0", "res1"}
Other == {"len", "info0", "info1", "config0", "config1", "info2", "window",
          "config", "resolution"}

VARIABLES
  kf_call,   \* the call in progress, or the last one
  kf_todo,   \* its remaining steps
  kf_live,   \* heap buffers it has allocated and not freed
  kf_word,   \* where the words 0 and 1 of pFeaturePara point
  kf_set,    \* the buffers the sensors have filled
  kf_got,    \* history: <<kernel buffer, user buffer>> pairs copied out
  kf_broke,  \* history: the first failure that ended it
  kf_blind   \* history: a failure was ignored

kfVars == <<kf_call, kf_todo, kf_live, kf_word, kf_set, kf_got, kf_broke,
            kf_blind>>

-----------------------------------------------------------------------------
(***************************************************************************)
(* Steps.                                                                  *)
(***************************************************************************)
Step(op, bufs, to, frees, fail) ==
  [op |-> op, bufs |-> bufs, to |-> to, frees |-> frees, fail |-> fail]
NoStep == Step("none", {}, "", {}, "next")

Alloc(bufs, frees) == Step("alloc", bufs, "", frees, "tail")
Take(b, frees) == Step("in", {b}, "", frees, "tail")
TryTake(b) == Step("in", {b}, "", {}, "next")
Put(b, u, frees) == Step("out", {b}, u, frees, "tail")
TryPut(b, u) == Step("out", {b}, u, {}, "next")
Sensor(fills) == Step("sensor", fills, "", {}, "next")
Point(w, b) == Step("point", {b}, w, {}, "next")
Restore(w) == Point(w, "user")
Free(bufs) == Step("free", bufs, "", {}, "next")
Null == Step("in", {"len"}, "", {}, "tail")  \* a test for null pointers

\* What surrounds every call: the argument, copied in and out.
Before == <<[Alloc({"buff"}, {}) EXCEPT !.fail = "exit"],
            [Take("buff", {"buff"}) EXCEPT !.fail = "exit"]>>
After == <<[Put("buff", "buff", {"buff"}) EXCEPT !.fail = "exit"],
           Free({"buff"})>>

-----------------------------------------------------------------------------
(***************************************************************************)
(* FeatureControl.                                                         *)
(***************************************************************************)
\* SYNC and ESHUTTER_GAIN return without freeing the parameter.
CopyIn(f) == IF f \in Deferred THEN <<Take("para", {})>>
             ELSE IF f \in CopiedIn THEN <<Take("para", {"para"})>> ELSE <<>>

\* A value of the sensor takes the place of the word.
OneValueSteps == <<Alloc({"value1"}, {}), Point("1", "value1"),
                   Sensor({"value1"}), Restore("1"), Free({"value1"})>>

\* Both are allocated before either is tested.
TwoValueSteps == <<Alloc({"value0", "value1"}, {}), Point("0", "value0"),
                   Point("1", "value1"), Sensor({"value0", "value1"}),
                   Restore("0"), Restore("1"), Free({"value0", "value1"})>>

\* Mutant: the pointer of the user is not put back.
StructSteps_Keep(w) ==
  <<Alloc({"struct"}, {}), Point(w, "struct"), Sensor({"struct"}),
    TryPut("struct", "struct"), Free({"struct"})>>

StructSteps(w) ==
  <<Alloc({"struct"}, {}), Point(w, "struct"), Sensor({"struct"}),
    TryPut("struct", "struct"), Free({"struct"}), Restore(w)>>

WindowSteps ==
  <<Alloc({"struct"}, {}), Point("0", "struct"), TryTake("struct"),
    Sensor({}), Free({"struct"}), Restore("0")>>

Nested(f) == CASE f \in OneValue -> OneValueSteps
               [] f \in TwoValues -> TwoValueSteps
               [] f \in Struct0 -> StructSteps("0")
               [] f \in Struct1 -> StructSteps("1")
               [] f \in Windows -> WindowSteps
               [] OTHER -> <<Sensor({"para"})>>

CopyOut(f) == IF f \in CopiedOut THEN <<Put("para", "para", {"para"})>>
              ELSE <<>>

FeatureControl(f) ==
  <<Null, Take("len", {}), Alloc({"para"}, {})>> \o CopyIn(f) \o Nested(f)
    \o CopyOut(f) \o <<Free({"para"}), Put("len", "len", {})>>

-----------------------------------------------------------------------------
(***************************************************************************)
(* The other calls.  None of them looks at the result of the sensors.      *)
(***************************************************************************)
GetResolution ==
  <<Alloc({"res0"}, {}), Alloc({"res1"}, {"res0"}), Sensor({"res0", "res1"}),
    TryPut("res0", "res0"), TryPut("res1", "res1"), Free({"res0"}),
    Free({"res1"})>>

\* The 32-bit conversion takes the pointer to a configuration from pInfo.
ConfigTo(config, info, compat) == IF compat THEN info ELSE config

GetInfo(compat) ==
  <<Null, Sensor({"info0", "info1", "config0", "config1"}),
    Put("info0", "info0", {}),
    Put("config0", ConfigTo("config0", "info0", compat), {}),
    Put("info1", "info1", {}),
    Put("config1", ConfigTo("config1", "info1", compat), {})>>

\* Ten calls, for ten scenarios, make up one structure.
GetInfo2 == <<Sensor({"info2"}), Put("info2", "info2", {}),
              Sensor({"resolution"}), Put("resolution", "resolution", {})>>

Control == <<Null, Take("window", {}), Take("config", {}),
             Sensor({"window", "config"}), Put("window", "window", {}),
             Put("config", "config", {})>>

Body(c) == CASE c.cmd = "GETINFO" -> GetInfo(c.compat)
             [] c.cmd = "GETINFO2" -> GetInfo2
             [] c.cmd = "GETRESOLUTION2" -> GetResolution
             [] c.cmd = "CONTROL" -> Control
             [] OTHER -> FeatureControl(c.cmd)

-----------------------------------------------------------------------------
(***************************************************************************)
(* The run of a call.                                                      *)
(***************************************************************************)
FeatureInit ==
  /\ kf_call = NoCall /\ kf_todo = <<>> /\ kf_live = {}
  /\ kf_word = [w \in {"0", "1"} |-> "user"] /\ kf_set = {} /\ kf_got = {}
  /\ kf_broke = NoStep /\ kf_blind = FALSE

\* What the call before left behind is forgotten here.
CAMERA_HW_Ioctl(c) ==
  /\ kf_todo = <<>>
  /\ kf_call' = c /\ kf_todo' = Before \o Body(c) \o After
  /\ kf_live' = {} /\ kf_word' = [w \in {"0", "1"} |-> "user"]
  /\ kf_set' = {} /\ kf_got' = {} /\ kf_broke' = NoStep /\ kf_blind' = FALSE

Doing(op) == kf_todo # <<>> /\ Head(kf_todo).op = op
This == Head(kf_todo)
Goes == kf_todo' = Tail(kf_todo)

Allocate ==
  /\ Doing("alloc") /\ Goes /\ kf_live' = kf_live \cup This.bufs
  /\ UNCHANGED <<kf_call, kf_word, kf_set, kf_got, kf_broke, kf_blind>>

Copy ==
  /\ Doing("in") \/ Doing("out")
  /\ Goes
  /\ kf_got' = IF This.op = "in" THEN kf_got
               ELSE kf_got \cup (This.bufs \X {This.to})
  /\ UNCHANGED <<kf_call, kf_live, kf_word, kf_set, kf_broke, kf_blind>>

\* A failing step frees what it names.  Of several buffers allocated together
\* some may have been.
Fails ==
  /\ Doing("alloc") \/ Doing("in") \/ Doing("out")
  /\ \E some \in SUBSET This.bufs :
       /\ some = {} \/ (This.op = "alloc" /\ some # This.bufs)
       /\ kf_live' = (kf_live \ This.frees) \cup some
  /\ kf_todo' = CASE This.fail = "next" -> Tail(kf_todo)
                   [] This.fail = "tail" -> After
                   [] OTHER -> <<>>
  /\ kf_blind' = (kf_blind \/ This.fail = "next")
  /\ kf_broke' = IF kf_broke = NoStep /\ This.fail # "next" THEN This
                 ELSE kf_broke
  /\ UNCHANGED <<kf_call, kf_word, kf_set, kf_got>>

\* The sensors fill what they are asked for, but a sensor that is not there or
\* fails leaves it as it was.
CallSensor ==
  /\ Doing("sensor") /\ Goes
  /\ \/ kf_set' = kf_set \cup This.bufs /\ UNCHANGED kf_blind
     \/ kf_blind' = TRUE /\ UNCHANGED kf_set
  /\ UNCHANGED <<kf_call, kf_live, kf_word, kf_got, kf_broke>>

Redirect ==
  /\ Doing("point") /\ Goes
  /\ \E b \in This.bufs : kf_word' = [kf_word EXCEPT ![This.to] = b]
  /\ UNCHANGED <<kf_call, kf_live, kf_set, kf_got, kf_broke, kf_blind>>

FreeBuffers ==
  /\ Doing("free") /\ Goes /\ kf_live' = kf_live \ This.bufs
  /\ UNCHANGED <<kf_call, kf_word, kf_set, kf_got, kf_broke, kf_blind>>

FeatureNext ==
  \/ \E c \in Calls : CAMERA_HW_Ioctl(c)
  \/ Allocate \/ Copy \/ Fails \/ CallSensor \/ Redirect \/ FreeBuffers

FeatureSpec == FeatureInit /\ [][FeatureNext]_kfVars

-----------------------------------------------------------------------------
FeatureTypeOK ==
  /\ kf_call \in Calls \cup {NoCall}
  /\ kf_live \subseteq Heap /\ kf_set \subseteq Heap \cup Other
  /\ kf_word \in [{"0", "1"} -> Heap \cup {"user"}]
  /\ kf_got \subseteq (Heap \cup Other) \X (Heap \cup Other)
  /\ kf_blind \in BOOLEAN

\* The failures after which the parameter is lost: the copy of a deferred
\* setting (2080, 2158) and the second allocation of a feature (2196, 2256,
\* 2292, 2325, 2360, 2396, 2432, 2465, 2501, 2536, 2573, 2611).
Forgets(s) ==
  \/ s = Take("para", {})
  \/ s.op = "alloc" /\ s.bufs \subseteq {"value0", "value1", "struct"}

\* Whatever step of whatever call fails, all that the call allocated is freed
\* when it returns, but after those failures; the sensors are never given a
\* pointer to memory that was freed, a user never a pointer to the kernel's;
\* what is copied out is alive, was filled by the sensors, if none failed, and
\* goes to the buffer meant for it, but for the configurations of a 32-bit
\* GETINFO, which overwrite the information (3053-3056).
CallsAreClean ==
  /\ kf_todo = <<>> /\ kf_live # {} =>
       Forgets(kf_broke) /\ kf_live \subseteq {"para", "value0", "value1"}
  /\ Doing("sensor") =>
       \A w \in {"0", "1"} : kf_word[w] \in kf_live \cup {"user"}
  /\ Doing("out") => /\ This.bufs \cap Heap \subseteq kf_live
                     /\ This.bufs \ {"buff", "len", "para"} \subseteq kf_set
                          \/ kf_blind
                     /\ This.bufs = {"para"} =>
                          \A w \in {"0", "1"} : kf_word[w] = "user"
  /\ \A p \in kf_got : \/ p[1] = p[2]
                       \/ kf_call.compat /\ kf_call.cmd = "GETINFO"
==============================================================================
