SPECIFICATION FairSpec
CONSTANTS
  Capacity = 2
  KeyNames = {up, dial}
  Fns = {f, g}
  Handles = {h1, h2}
  MaxTyped = 3
INVARIANTS NotifyPending NotifiedFirst RegisteredOnce
PROPERTY NotifyDelivered
