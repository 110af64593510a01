------------------------------ MODULE MCConOut ------------------------------
EXTENDS ConOut

d1 == "d1"
d2 == "d2"
d3 == "d3"
MCDevs == {d1, d2, d3}
MCErrDevs == {d1}
(* Only d2, which may be on both lists, has mode 1; d2 and d3 lack a mode  *)
(* of d1, and number the one they share with it otherwise.                 *)
MCModes == d1 :> <<Base, NoSize, <<3, 2>>, <<2, 3>>>> @@
           d2 :> <<Base, <<1, 3>>, <<2, 3>>>> @@
           d3 :> <<Base>>
MCGopModes == d1 :> <<"480x800", "800x600">> @@ d2 :> <<>> @@ d3 :> <<"800x600">>
MCPlaces == {<<1, 2>>}
MCWanted == <<3, 2>>
=============================================================================
