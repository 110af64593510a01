CONSTANTS
  m1 = m1
  m2 = m2
  p1 = p1
  p2 = p2
  Mice <- MCMice
  Panels <- MCPanels
  Flaky <- MCFlaky
  Resolution <- MCResolution
  Virtual = 2
  Unit = 1
  MaxMove = 2
  MaxLost = 2
  MaxStops = 1
SPECIFICATION PointerSpec
INVARIANTS MovementKept
PROPERTIES PointersHeard
