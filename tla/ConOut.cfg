CONSTANTS
  Devs <- MCDevs
  ErrDevs <- MCErrDevs
  Modes <- MCModes
  GopModes <- MCGopModes
  Standard = "800x600"
  Wanted <- MCWanted
  Colours = {128}
  Places <- MCPlaces
  Unit = 2
  Flaky = {}
SPECIFICATION Spec
INVARIANTS MapFaithful FirstSharedAgree StartSyncs
