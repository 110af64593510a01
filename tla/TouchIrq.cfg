CONSTANTS
  Xs = {0, 576}
  MaxReports = 2
  MaxTicks = 1
  MaxResets = 1
SPECIFICATION Spec
INVARIANTS NoLostEdge MovementAddsUp TickTold
PROPERTY PollsKeepUp
CHECK_DEADLOCK FALSE
