SPECIFICATION ScanFairSpec
CONSTANTS
  KeyList <- MCKeyList
  BounceTime = 1
  RepeatTime = 1
  LongTime = 2
  Deltas = {0, 1}
INVARIANTS DialPostsOnce PressHeard ComboIsHeld
PROPERTY HeldKeyRepeats
