CONSTANTS
  Places = {"SDC2_CLK", "MDP_CLK", "I2C_CLK", "id", "on", "level", "speed", "config", "disable"}
  Commands = {"PCOM_CLKCTL_RPC_ENABLED"}
  Null = "NULL"
  Garbage = 7
  Clocks = {"SDC2_CLK", "MDP_CLK", "I2C_CLK"}
  Rates = {245000000, 384000000}
  Instances = {2, 5}
  Boot = 18
  BootSlots = {0}
  MaxPrograms = 2
SPECIFICATION Spec
CHECK_DEADLOCK FALSE
INVARIANTS OwnAnswer TableKept RailSet CoreSafe
PROPERTIES CallEnds
