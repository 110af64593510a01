CONSTANTS
  Strings <- MCStrings
  Greeting <- MCGreeting
  Basic <- MCBasic
  Large <- MCLarge
  Defined <- MCDefined
  Glyphs <- MCGlyphs
  GopModes <- MCGopModes
  Wanted = "480x800"
  Standard = "800x600"
  Highest = "highest"
  Colours = {0, 5}
  Places <- MCPlaces
SPECIFICATION Spec
INVARIANTS CursorDrawnOnce
PROPERTIES TerminalSpec
