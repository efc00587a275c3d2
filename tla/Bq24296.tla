-------------------------------- MODULE Bq24296 ------------------------------
(***************************************************************************)
(* The charger in the boot loader (atom_i2c/lk/bq24296.c): the set-up of   *)
(* its registers, the detection of the charger type with the BC1.1 block   *)
(* of the power chip, and the limits chosen from the type.  There is one   *)
(* thread, but the plug may be pulled and another one inserted at any      *)
(* time.  A register is the set of its bits that are one.                  *)
(***************************************************************************)
EXTENDS Integers, Sequences

CONSTANTS
  BqMask,      \* field -> its bits, from the header outside the repository
  BqShift,     \* field -> its lowest bit
  BqOthers,    \* setters that other parts of the boot loader call
  MaxEnables,  \* bound: calls of charging_enable
  MaxFaults,   \* bound: failed bus transfers
  MaxPlugs     \* bound: changes of the plug

FieldsCon0 == {"en_hiz", "vindpm", "iinlim"}
FieldsCon1 == {"reg_rst", "wdt_rst", "chg_config", "sys_min", "boost_lim"}
FieldsCon2 == {"ichg"}
FieldsCon3 == {"iprechg", "iterm"}
FieldsCon4 == {"vreg", "batlowv", "vrechg"}
FieldsCon5 == {"en_term", "watchdog", "en_timer", "chg_timer"}
FieldsCon6 == {"treg"}
FieldsCon7 == {"tmr2x_en", "batfet_disable", "int_mask"}

BqRegOf(f) == CASE f \in FieldsCon0 -> 0
                [] f \in FieldsCon1 -> 1
                [] f \in FieldsCon2 -> 2
                [] f \in FieldsCon3 -> 3
                [] f \in FieldsCon4 -> 4
                [] f \in FieldsCon5 -> 5
                [] f \in FieldsCon6 -> 6
                [] f \in FieldsCon7 -> 7

\* The fields that charging_enable sets are taken to be nobody else's; what the
\* charger does when it is told to reset is not in the model.
BqFields == UNION {FieldsCon0, FieldsCon1, FieldsCon2, FieldsCon3, FieldsCon4,
                   FieldsCon5, FieldsCon6, FieldsCon7}
Own == {"iinlim", "ichg", "en_hiz", "chg_config", "wdt_rst", "reg_rst"}

Byte == 0 .. 7
BitsOf(n) == {i \in Byte : (n \div 2^i) % 2 = 1}

\* What is plugged in; the responses of these lines to the four tests.
Plugs == {"none", "host", "charging_host", "standard", "apple", "nonstandard"}
Response(plug, test) ==
  CASE test = "DCD" -> plug \in {"none", "apple", "nonstandard"}
    [] test = "A1"  -> plug = "apple"
    [] test = "A2"  -> plug \in {"charging_host", "standard"}
    [] test = "B2"  -> plug = "standard"

VARIABLES
  bq_reg,        \* the charger's registers
  bq_todo,       \* the register accesses of the running function
  bq_pc,         \* "boot", "ready", "set" (a setter), a test of the detection,
                 \* "done" or "limits"
  bq_bc11,       \* the switches of the BC1.1 block
  g_chr_type_num,
  bq_found,      \* CHR_Type_num, the result of the running detection
  bq_on,         \* the argument of charging_enable
  bq_plug,       \* what is plugged in
  bq_moved,      \* history: the plug changed under or since the last enable
  bq_enables, bq_faults, bq_plugs  \* what the bounds count

bqVars == <<bq_reg, bq_todo, bq_pc, bq_bc11, g_chr_type_num, bq_found, bq_on,
            bq_plug, bq_moved, bq_enables, bq_faults, bq_plugs>>

Bc11Switches == {"BIAS_EN", "VSRC_EN", "VREF_VTH", "CMP_EN", "IPU_EN",
                 "IPD_EN"}
Bc11Off == [s \in Bc11Switches |-> 0]

Types == {"CHARGER_UNKNOWN", "STANDARD_HOST", "CHARGING_HOST",
          "NONSTANDARD_CHARGER", "STANDARD_CHARGER", "APPLE_2_1A_CHARGER"}
Tests == {"DCD", "A1", "A2", "B2"}

SetTo(f, n) == [reg |-> BqRegOf(f), mask |-> BqMask[f],
                val |-> {i + BqShift[f] : i \in BitsOf(n)} \cap Byte]

Put(r, n) == [reg |-> r, mask |-> Byte, val |-> BitsOf(n)]

\* The fields of a register share no bit, and have room for what is set here.
Fits(f, n) == SetTo(f, n).val \subseteq BqMask[f]

ASSUME BqAssumption ==
  /\ BqOthers \subseteq BqFields \ Own
  /\ MaxEnables \in Nat /\ MaxFaults \in Nat /\ MaxPlugs \in Nat
  /\ \A f \in BqFields : BqMask[f] \subseteq Byte
  /\ \A f, g \in BqFields : f # g /\ BqRegOf(f) = BqRegOf(g) =>
                              BqMask[f] \cap BqMask[g] = {}
  /\ Fits("iinlim", 2) /\ Fits("iinlim", 6) /\ Fits("en_hiz", 0)
  /\ \A f \in BqOthers \cup {"chg_config", "wdt_rst"}, n \in 0 .. 1 : Fits(f, n)

\* The setters before these writes are commented out (527-548).
bq24296_hw_init ==
  << Put(6, 124), Put(0, 192), Put(2, 190), Put(4, 17), Put(5, 4),
     Put(1, 240) >>

BqTypeOK ==
  /\ bq_reg \in [0 .. 10 -> SUBSET Byte]
  /\ bq_todo \in Seq([reg : 0 .. 10, mask : SUBSET Byte, val : SUBSET Byte])
  /\ bq_pc \in {"boot", "ready", "set", "done", "limits"} \cup Tests
  /\ bq_bc11 \in [Bc11Switches -> 0 .. 2]
  /\ g_chr_type_num \in Types /\ bq_found \in Types
  /\ bq_on \in {0, 1}
  /\ bq_plug \in Plugs
  /\ bq_moved \in BOOLEAN
  /\ bq_enables \in 0 .. MaxEnables /\ bq_faults \in 0 .. MaxFaults
  /\ bq_plugs \in 0 .. MaxPlugs

BqInit ==
  /\ bq_reg = [r \in 0 .. 10 |-> {}]
  /\ bq_todo = bq24296_hw_init
  /\ bq_pc = "boot"
  /\ bq_bc11 = Bc11Off
  /\ g_chr_type_num = "CHARGER_UNKNOWN" /\ bq_found = "CHARGER_UNKNOWN"
  /\ bq_on = 0
  /\ bq_plug \in Plugs
  /\ bq_moved = FALSE
  /\ bq_enables = 0 /\ bq_faults = 0 /\ bq_plugs = 0

Plug(p) ==
  /\ bq_plugs < MaxPlugs /\ p # bq_plug
  /\ bq_plug' = p
  /\ bq_plugs' = bq_plugs + 1
  /\ bq_moved' = TRUE
  /\ UNCHANGED <<bq_reg, bq_todo, bq_pc, bq_bc11, g_chr_type_num, bq_found,
                 bq_on, bq_enables, bq_faults>>

(***************************************************************************)
(* One access of a register.  config_interface goes on after a failed read *)
(* with what read_byte put in the buffer first, the number of the register.*)
(***************************************************************************)
BqConfigured(seen, m, v) == (seen \ m) \cup v

BqAccess ==
  LET a == Head(bq_todo) IN
  /\ bq_todo # <<>>
  /\ bq_todo' = Tail(bq_todo)
  /\ \/ /\ bq_reg' = [bq_reg EXCEPT ![a.reg] = BqConfigured(@, a.mask, a.val)]
        /\ UNCHANGED bq_faults
     \/ /\ bq_faults < MaxFaults
        /\ bq_faults' = bq_faults + 1
        /\ \/ UNCHANGED bq_reg
           \/ a.mask # Byte /\ bq_reg' = [bq_reg EXCEPT ![a.reg] =
                                 BqConfigured(BitsOf(a.reg), a.mask, a.val)]
  /\ UNCHANGED <<bq_pc, bq_bc11, g_chr_type_num, bq_found, bq_on, bq_plug,
                 bq_moved, bq_enables, bq_plugs>>

BqReturn ==
  /\ bq_pc \in {"boot", "set", "limits"} /\ bq_todo = <<>>
  /\ bq_pc' = "ready"
  /\ UNCHANGED <<bq_reg, bq_todo, bq_bc11, g_chr_type_num, bq_found, bq_on,
                 bq_plug, bq_moved, bq_enables, bq_faults, bq_plugs>>

BqSet(f, n) ==
  /\ bq_pc = "ready"
  /\ bq_todo' = <<SetTo(f, n)>> /\ bq_pc' = "set"
  /\ UNCHANGED <<bq_reg, bq_bc11, g_chr_type_num, bq_found, bq_on, bq_plug,
                 bq_moved, bq_enables, bq_faults, bq_plugs>>

(***************************************************************************)
(* hw_charging_get_charger_type.  Each test closes its switches, waits,    *)
(* reads the comparator and opens them again.  With any other setting of   *)
(* the switches the comparator says nothing about the plug.                *)
(***************************************************************************)
Setting(test) ==
  [Bc11Off EXCEPT !["BIAS_EN"]  = 1,
                  !["VSRC_EN"]  = IF test = "A2" THEN 2 ELSE 0,
                  !["VREF_VTH"] = IF test \in {"DCD", "B2"} THEN 1 ELSE 0,
                  !["CMP_EN"]   = IF test = "DCD" THEN 2 ELSE 1,
                  !["IPU_EN"]   = IF test \in {"DCD", "B2"} THEN 2 ELSE 0,
                  !["IPD_EN"]   = IF test = "B2" THEN 0 ELSE 1]

CmpOut(switches, test) ==
  IF switches = Setting(test) THEN {Response(bq_plug, test)} ELSE BOOLEAN

\* The switches a test sets to its own values, and those it opens after.
Closed(test) ==
  CASE test = "DCD" -> [bq_bc11 EXCEPT !["IPU_EN"] = 2, !["IPD_EN"] = 1,
                                       !["VREF_VTH"] = 1, !["CMP_EN"] = 2]
    [] test = "A1"  -> [bq_bc11 EXCEPT !["IPD_EN"] = 1, !["VREF_VTH"] = 0,
                                       !["CMP_EN"] = 1]
    [] test = "A2"  -> [bq_bc11 EXCEPT !["VSRC_EN"] = 2, !["IPD_EN"] = 1,
                                       !["VREF_VTH"] = 0, !["CMP_EN"] = 1]
    [] test = "B2"  -> [bq_bc11 EXCEPT !["IPU_EN"] = 2, !["VREF_VTH"] = 1,
                                       !["CMP_EN"] = 1]

\* Mutant: the test of the data contact leaves the pull-up on.
Opened_PullUp(test, c) ==
  CASE test = "DCD" -> [c EXCEPT !["IPD_EN"] = 0,
                                 !["CMP_EN"] = 0, !["VREF_VTH"] = 0]
    [] test = "A1"  -> [c EXCEPT !["IPD_EN"] = 0, !["CMP_EN"] = 0]
    [] test = "A2"  -> [c EXCEPT !["VSRC_EN"] = 0, !["IPD_EN"] = 0,
                                 !["CMP_EN"] = 0]
    [] test = "B2"  -> [c EXCEPT !["IPU_EN"] = 0, !["CMP_EN"] = 0,
                                 !["VREF_VTH"] = 0]

Opened(test, c) ==
  CASE test = "DCD" -> [c EXCEPT !["IPU_EN"] = 0, !["IPD_EN"] = 0,
                                 !["CMP_EN"] = 0, !["VREF_VTH"] = 0]
    [] test = "A1"  -> [c EXCEPT !["IPD_EN"] = 0, !["CMP_EN"] = 0]
    [] test = "A2"  -> [c EXCEPT !["VSRC_EN"] = 0, !["IPD_EN"] = 0,
                                 !["CMP_EN"] = 0]
    [] test = "B2"  -> [c EXCEPT !["IPU_EN"] = 0, !["CMP_EN"] = 0,
                                 !["VREF_VTH"] = 0]

\* The voltage source stays on when the second step sees a charging host.
KeptOn(test, out) == IF test = "B2" /\ ~out THEN 2 ELSE bq_bc11["VSRC_EN"]

Verdict(test, out) ==
  CASE test = "A1" -> IF out THEN "APPLE_2_1A_CHARGER" ELSE "NONSTANDARD_CHARGER"
    [] test = "B2" -> IF out THEN "STANDARD_CHARGER" ELSE "CHARGING_HOST"
    [] test = "A2" /\ ~out -> "STANDARD_HOST"
    [] OTHER -> bq_found

NextTest(test, out) == CASE test = "DCD" -> IF out THEN "A1" ELSE "A2"
                         [] test = "A2" /\ out -> "B2"
                         [] OTHER -> "done"

BqTest ==
  /\ bq_pc \in Tests
  /\ \E out \in CmpOut(Closed(bq_pc), bq_pc) :
       /\ bq_bc11' = [Opened(bq_pc, Closed(bq_pc)) EXCEPT
                        !["VSRC_EN"] = KeptOn(bq_pc, out)]
       /\ bq_found' = Verdict(bq_pc, out)
       /\ bq_pc' = NextTest(bq_pc, out)
  /\ UNCHANGED <<bq_reg, bq_todo, g_chr_type_num, bq_on, bq_plug, bq_moved,
                 bq_enables, bq_faults, bq_plugs>>

\* get_i_sense_volt may be below PRECC_BATVOL (low).
Limits(type, low, on) ==
  << SetTo("iinlim", IF type = "STANDARD_CHARGER" THEN 6 ELSE 2),
     SetTo("ichg", IF type = "STANDARD_CHARGER" /\ ~low THEN 23 ELSE 0),
     SetTo("en_hiz", 0), SetTo("chg_config", on), SetTo("wdt_rst", 1) >>

ChooseLimits(type) ==
  /\ \E low \in BOOLEAN : bq_todo' = Limits(type, low, bq_on')
  /\ bq_pc' = "limits"

\* Mutant: the voltage source is forgotten at the end.
hw_bc11_done_Source ==
  /\ bq_pc = "done"
  /\ bq_bc11' = [Bc11Off EXCEPT !["VSRC_EN"] = bq_bc11["VSRC_EN"]]
  /\ g_chr_type_num' = bq_found
  /\ UNCHANGED <<bq_reg, bq_found, bq_on, bq_plug, bq_moved, bq_enables,
                 bq_faults, bq_plugs>>
  /\ ChooseLimits(bq_found)

\* hw_bc11_done opens every switch; the type is kept for good.
hw_bc11_done ==
  /\ bq_pc = "done"
  /\ bq_bc11' = Bc11Off
  /\ g_chr_type_num' = bq_found
  /\ UNCHANGED <<bq_reg, bq_found, bq_on, bq_plug, bq_moved, bq_enables,
                 bq_faults, bq_plugs>>
  /\ ChooseLimits(bq_found)

bq24296_charging_enable(on) ==
  /\ bq_pc = "ready" /\ bq_enables < MaxEnables
  /\ bq_enables' = bq_enables + 1
  /\ bq_on' = on
  /\ IF g_chr_type_num = "CHARGER_UNKNOWN" /\ bq_plug # "none"
     THEN /\ bq_pc' = "DCD"
          /\ bq_bc11' = [Bc11Off EXCEPT !["BIAS_EN"] = 1]
          /\ bq_moved' = FALSE
          /\ UNCHANGED bq_todo
     ELSE /\ ChooseLimits(g_chr_type_num)
          /\ bq_moved' = (bq_moved /\ g_chr_type_num # "CHARGER_UNKNOWN")
          /\ UNCHANGED bq_bc11
  /\ UNCHANGED <<bq_reg, g_chr_type_num, bq_found, bq_plug, bq_faults,
                 bq_plugs>>

BqNext == \/ \E p \in Plugs : Plug(p)
          \/ \E f \in BqOthers, n \in 0 .. 1 : BqSet(f, n)
          \/ BqAccess \/ BqReturn \/ BqTest \/ hw_bc11_done
          \/ \E on \in {0, 1} : bq24296_charging_enable(on)

BqSpec == BqInit /\ [][BqNext]_bqVars

(***************************************************************************)
(* Properties.                                                             *)
(***************************************************************************)
FieldIs(f, n) == bq_reg[BqRegOf(f)] \cap BqMask[f] = SetTo(f, n).val

\* Once charging_enable has returned, over a bus without faults and with a plug
\* that stayed where it was from the start of the detection, the charger draws
\* 2 A from a standard charger and 500 mA from everything else, is not in high
\* impedance although hw_init left it there (550), and charges as last told,
\* whatever other fields of these registers were set since.
LimitFitsCharger ==
  bq_pc = "ready" /\ bq_enables > 0 /\ ~bq_moved /\ bq_faults = 0 =>
     /\ FieldIs("iinlim", IF bq_plug = "standard" THEN 6 ELSE 2)
     /\ FieldIs("en_hiz", 0)
     /\ FieldIs("chg_config", bq_on)

\* Outside a detection no switch of the BC1.1 block is closed, whatever test the
\* detection ended with: the second step leaves the source on for a host (803).
Bc11IsOff == bq_pc \in {"boot", "ready", "set", "limits"} => bq_bc11 = Bc11Off
==============================================================================
