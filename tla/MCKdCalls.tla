------------------------------- MODULE MCKdCalls ------------------------------
(* What the calls of the camera sensor list do besides selecting and powering *)
(* sensors, for TLC: the delayed exposure, the buffers of the calls, and the  *)
(* I2C transfers.  They share no state: an initial state chooses one.         *)
EXTENDS KdExposure, KdFeature, KdI2c

VARIABLE part

vars == <<part, kdVars, kfVars, kbVars>>

Init ==
  /\ part \in {"exposure", "feature", "i2c"}
  /\ ExposureInit /\ FeatureInit /\ I2cInit
  /\ part # "i2c" => kb_socket = [k \in Index |-> None] /\ kb_bus = 1

Next ==
  /\ \/ part = "exposure" /\ ExposureNext /\ UNCHANGED <<kfVars, kbVars>>
     \/ part = "feature" /\ FeatureNext /\ UNCHANGED <<kdVars, kbVars>>
     \/ part = "i2c" /\ I2cNext /\ UNCHANGED <<kdVars, kfVars>>
  /\ UNCHANGED part

Spec == Init /\ [][Next]_vars

TypeOK == ExposureTypeOK /\ FeatureTypeOK /\ I2cTypeOK
==============================================================================
