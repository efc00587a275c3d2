SPECIFICATION Spec
CONSTANT PressDuringProbe = TRUE
INVARIANT ProbeLeavesIrqOn
CHECK_DEADLOCK FALSE
