-------------------------------- MODULE Ncp1854 ------------------------------
(***************************************************************************)
(* The register fields of the ncp1854 charger (atom_i2c/kernel/ncp1854.c): *)
(* the charging thread, the USB driver and writers of the sysfs file call  *)
(* setters that read a register, replace a field and write the register    *)
(* back.  The mutex ncp1854_i2c_access covers the read and the write, each *)
(* by itself.  A register, a mask and a value are sets of bit positions;   *)
(* the header that places the fields is not in the repository.             *)
(***************************************************************************)
EXTENDS Naturals

CONSTANTS
  Threads,  \* callers of setters
  Bits,     \* the bits of a register
  Mask,     \* the bits of each field: MASK << SHIFT
  Setters   \* the setters that are called

SettersCon1 == {"reset", "chg_en", "otg_en", "fctry_mode", "tj_warn_opt",
                "tchg_rst", "int_mask"}
SettersCon2 == {"wdto_dis", "chgto_dis", "pwr_path", "trans_en",
                "iinset_pin_en", "iinlim_en", "aicl_en"}
SettersCon14 == {"ctrl_vbat"}
SettersCon15 == {"ichg_high", "ieoc", "ichg"}
SettersCon16 == {"iweak", "ctrl_vfet", "iinlim"}
SettersCon17 == {"iinlim_ta"}

NcpSetters == UNION {SettersCon1, SettersCon2, SettersCon14, SettersCon15,
                     SettersCon16, SettersCon17}

ASSUME NcpAssumption ==
  Setters \subseteq NcpSetters /\ Mask \in [Setters -> SUBSET Bits]

RegOf(f) == CASE f \in SettersCon1  -> 1
              [] f \in SettersCon2  -> 2
              [] f \in SettersCon14 -> 14
              [] f \in SettersCon15 -> 15
              [] f \in SettersCon16 -> 16
              [] OTHER -> 17

Regs == {RegOf(f) : f \in Setters}

VARIABLES
  ncp_chip,    \* the registers in the charger
  ncp_pc,      \* where each thread is: "idle", "read" or "write"
  ncp_call,    \* the register, mask and value of its config_interface call
  ncp_seen,    \* its local copy of the register
  ncp_want,    \* history: the registers if every field write was exact
  ncp_stale,   \* history: its copy is no longer, or never was, the register
  ncp_tainted  \* history: registers spoilt by a stale copy or a wide value

ncpVars == <<ncp_chip, ncp_pc, ncp_call, ncp_seen, ncp_want, ncp_stale,
             ncp_tainted>>

NcpCalls == [reg : Regs, mask : SUBSET Bits, val : SUBSET Bits]

NcpTypeOK ==
  /\ ncp_chip \in [Regs -> SUBSET Bits]
  /\ ncp_pc \in [Threads -> {"idle", "read", "write"}]
  /\ ncp_call \in [Threads -> NcpCalls]
  /\ ncp_seen \in [Threads -> SUBSET Bits]
  /\ ncp_want \in [Regs -> SUBSET Bits]
  /\ ncp_stale \in [Threads -> BOOLEAN]
  /\ ncp_tainted \subseteq Regs

NcpInit ==
  /\ ncp_chip \in [Regs -> SUBSET Bits]
  /\ ncp_pc = [t \in Threads |-> "idle"]
  /\ ncp_call \in [Threads -> [reg : Regs, mask : {{}}, val : {{}}]]
  /\ ncp_seen = [t \in Threads |-> {}]
  /\ ncp_want = ncp_chip
  /\ ncp_stale = [t \in Threads |-> FALSE]
  /\ ncp_tainted = {}

Begin(t, r, m, v) ==
  /\ ncp_pc[t] = "idle"
  /\ ncp_pc' = [ncp_pc EXCEPT ![t] = "read"]
  /\ ncp_call' = [ncp_call EXCEPT ![t] = [reg |-> r, mask |-> m, val |-> v]]
  /\ UNCHANGED <<ncp_chip, ncp_seen, ncp_want, ncp_stale, ncp_tainted>>

\* A setter: the value is shifted but not cut to the width of the field.
SetField(t, f, v) == Begin(t, RegOf(f), Mask[f], v)

\* At probe, with disable_ncp1854_fctry_mod in the device tree.
CustomerSetting(t) == "fctry_mode" \in Setters /\ SetField(t, "fctry_mode", {})

\* The sysfs file writes a whole register, through the same function.
StoreAccess(t, r, v) == Begin(t, r, Bits, v)

\* ncp1854_read_byte under the mutex.  Nobody looks at its result: after a
\* failure the copy is zero.
ReadByte(t) ==
  /\ ncp_pc[t] = "read"
  /\ \E ok \in BOOLEAN :
       /\ ncp_seen' = [ncp_seen EXCEPT
                         ![t] = IF ok THEN ncp_chip[ncp_call[t].reg] ELSE {}]
       /\ ncp_stale' = [ncp_stale EXCEPT ![t] = ~ok]
  /\ ncp_pc' = [ncp_pc EXCEPT ![t] = "write"]
  /\ UNCHANGED <<ncp_chip, ncp_call, ncp_want, ncp_tainted>>

\* Mutant: the old value of the field is not cleared.
Configured_Or(seen, m, v) == seen \cup v

Configured(seen, m, v) == (seen \ m) \cup v

\* ncp1854_write_byte under the mutex; when it fails the chip keeps its value.
WriteByte(t) ==
  LET c == ncp_call[t]
      exact == ~ncp_stale[t] /\ c.val \subseteq c.mask IN
  /\ ncp_pc[t] = "write"
  /\ ncp_pc' = [ncp_pc EXCEPT ![t] = "idle"]
  /\ \/ UNCHANGED <<ncp_chip, ncp_want, ncp_stale, ncp_tainted>>
     \/ /\ ncp_chip' = [ncp_chip EXCEPT
                          ![c.reg] = Configured(ncp_seen[t], c.mask, c.val)]
        /\ ncp_want' = [ncp_want EXCEPT
                          ![c.reg] = (@ \ c.mask) \cup (c.val \cap c.mask)]
        /\ ncp_stale' = [u \in Threads |->
                          ncp_stale[u] \/ (u # t /\ ncp_call[u].reg = c.reg)]
        /\ ncp_tainted' = IF c.mask = Bits THEN ncp_tainted \ {c.reg}
                          ELSE IF exact THEN ncp_tainted
                          ELSE ncp_tainted \cup {c.reg}
  /\ UNCHANGED <<ncp_call, ncp_seen>>

NcpNext ==
  \E t \in Threads :
     \/ \E f \in Setters, v \in SUBSET Bits : SetField(t, f, v)
     \/ \E r \in Regs, v \in SUBSET Bits : StoreAccess(t, r, v)
     \/ CustomerSetting(t)
     \/ ReadByte(t)
     \/ WriteByte(t)

NcpSpec == NcpInit /\ [][NcpNext]_ncpVars

(***************************************************************************)
(* Properties.                                                             *)
(***************************************************************************)
\* A register holds exactly what its setters asked for, field by field, unless
\* a setter wrote back a copy that failed to read (163) or that another setter
\* had overtaken between the two critical sections (103, 112), or gave a value
\* wider than its field (167); a later write of the whole register repairs it.
NcpCoherent == \A r \in Regs \ ncp_tainted : ncp_chip[r] = ncp_want[r]
==============================================================================
