SPECIFICATION QueueSpec
CONSTANTS
  Size = 4
  Keys = {up, dial, none}
  Partial = none
  NotReady = notready
PROPERTY IsFifo
