CONSTANTS
  Devs = {k1, k2}
  ExDevs = {k1, k2}
  Callers = {n1}
  Locks = {"off", "caps"}
  Off = "off"
  Unit = 1
  MaxStops = 1
  MaxPend = 1
  Flaky = {k2}
SPECIFICATION Spec
INVARIANTS KeysAccounted NotifyEverywhere TogglesAgree SignalHonest
