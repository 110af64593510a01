SPECIFICATION FairSpec
CONSTANT Presses = 3
INVARIANTS ChargerFollows SetSticks ExitLeavesOff
PROPERTY LitGoesOff
CHECK_DEADLOCK FALSE
