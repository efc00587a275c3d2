SPECIFICATION Spec
CONSTANT PressDuringProbe = FALSE
PROPERTY PressIsReal
CHECK_DEADLOCK FALSE
