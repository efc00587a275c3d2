SPECIFICATION FairSpec
CONSTANT PressDuringProbe = FALSE
INVARIANTS TypeOK FlagTracksDepth SomeoneEnables
PROPERTIES HeldIsReported ButtonRests
CHECK_DEADLOCK FALSE
