----------------------------- MODULE MCKeyScan -----------------------------
(* A key with a scan code and two with a character, in the order the device *)
(* reads them; a unit of time is longer than BounceTime.                    *)
EXTENDS KeyScan

MCKeyList == <<"up", "down", "back", "dial">>
=============================================================================
