------------------------------- MODULE MCDevices ------------------------------
(* The small drivers for TLC: the lcm_info and tz_mem devices, the start and  *)
(* stop of all drivers, and the two chargers.  They share nothing: an initial *)
(* state chooses one, and the others keep still.                              *)
EXTENDS LcmInfo, TzMem, DriverStart, Ncp1854, Bq24296

VARIABLE part

vars == <<part, lcmVars, tzVars, startVars, ncpVars, bqVars>>

Init == /\ part \in {"lcm_info", "tz_mem", "start", "ncp1854", "bq24296"}
        /\ LcmInit /\ TzInit /\ StartInit /\ NcpInit /\ BqInit
        /\ part # "start" => drv = "lloop"
        /\ part # "ncp1854" => ncp_chip = [r \in Regs |-> {}]
        /\ part # "bq24296" => bq_plug = "none"

Next ==
  /\ \/ part = "lcm_info" /\ LcmNext
          /\ UNCHANGED <<tzVars, startVars, ncpVars, bqVars>>
     \/ part = "tz_mem" /\ TzNext
          /\ UNCHANGED <<lcmVars, startVars, ncpVars, bqVars>>
     \/ part = "start" /\ StartNext
          /\ UNCHANGED <<lcmVars, tzVars, ncpVars, bqVars>>
     \/ part = "ncp1854" /\ NcpNext
          /\ UNCHANGED <<lcmVars, tzVars, startVars, bqVars>>
     \/ part = "bq24296" /\ BqNext
          /\ UNCHANGED <<lcmVars, tzVars, startVars, ncpVars>>
  /\ UNCHANGED part

Spec == Init /\ [][Next]_vars

\* Two callers; two fields of one register, a bit each.
MCThreads == {"thread", "sysfs"}
MCBits == 0 .. 1
MCSetters == {"chg_en", "fctry_mode"}
MCMask == [chg_en |-> {0}, fctry_mode |-> {1}]

\* The placement of the fields on the bq24296.
MCBqShift == [en_hiz |-> 7, vindpm |-> 3, iinlim |-> 0, reg_rst |-> 7,
              wdt_rst |-> 6, chg_config |-> 4, sys_min |-> 1, boost_lim |-> 0,
              ichg |-> 2, iprechg |-> 4, iterm |-> 0, vreg |-> 2,
              batlowv |-> 1, vrechg |-> 0, en_term |-> 7, watchdog |-> 4,
              en_timer |-> 3, chg_timer |-> 1, treg |-> 0, tmr2x_en |-> 6,
              batfet_disable |-> 5, int_mask |-> 0]
MCBqMask == [en_hiz |-> {7}, vindpm |-> 3 .. 6, iinlim |-> 0 .. 2,
             reg_rst |-> {7}, wdt_rst |-> {6}, chg_config |-> 4 .. 5,
             sys_min |-> 1 .. 3, boost_lim |-> {0}, ichg |-> 2 .. 7,
             iprechg |-> 4 .. 7, iterm |-> 0 .. 3, vreg |-> 2 .. 7,
             batlowv |-> {1}, vrechg |-> {0}, en_term |-> {7},
             watchdog |-> 4 .. 5, en_timer |-> {3}, chg_timer |-> 1 .. 2,
             treg |-> 0 .. 1, tmr2x_en |-> {6}, batfet_disable |-> {5},
             int_mask |-> 0 .. 1]

TypeOK == LcmTypeOK /\ TzTypeOK /\ StartTypeOK /\ NcpTypeOK /\ BqTypeOK
==============================================================================
