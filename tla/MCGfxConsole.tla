---------------------------- MODULE MCGfxConsole ----------------------------
EXTENDS GfxConsole

MCStrings ==
  {<<"a">>, <<"a", "b", "a">>, <<"linefeed">>, <<"return">>, <<"backspace", "backspace">>,
   <<"a", "return", "linefeed", "backspace", "b">>,
   <<"widen", "w", "w", "narrow", "a">>, <<"widen", "unknown">>}
MCGreeting == <<"a", "linefeed", "return">>
MCGopModes == <<"480x800", "800x600">>
MCBasic == <<2, 1>>
MCLarge == <<4, 3>>
MCDefined == <<<<4, 2>>, <<2, 1>>>>
MCGlyphs == [res \in ToSet(MCGopModes) |-> IF res = "480x800" THEN <<3, 2>> ELSE <<4, 2>>]
MCPlaces == {<<2, 1>>, <<1, 0>>}
=============================================================================
