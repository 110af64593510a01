------------------------------- MODULE KeyScan -------------------------------
(***************************************************************************)
(* The key scanner: KeypadDeviceImplLib reads each key in turn and          *)
(* LibKeyUpdateKeyStatus turns its level into key events.  A tap is         *)
(* reported when it ends; a key that is held repeats; Dial never repeats,   *)
(* and held long it reports a character that depends on the volume keys.    *)
(*                                                                         *)
(* A scan is a sequence of ScanKey steps, one per key of KeyList, which all *)
(* see the same time since the scan before.  Keys are named, and stand for  *)
(* their scan code or character; the user may press or release any key      *)
(* between two reads of it.                                                 *)
(***************************************************************************)
EXTENDS Integers, Sequences, Functions

CONSTANTS
  KeyList,      (* The valid keys, in the order of KeyList[].              *)
  BounceTime,   (* 10 ms, 200 ms and 500 ms, in units of Deltas.           *)
  RepeatTime,
  LongTime,
  Deltas        (* The times that can pass between two scans.              *)

(* KeypadDeviceImplReset gives these their scan codes, ...                  *)
ScanCodeKeys == {"power", "up", "down", "home"}
(* ... and these a character; their scan code is 0.                         *)
UnicodeKeys == {"back", "windows", "dial"}
AllKeys == ScanCodeKeys \cup UnicodeKeys

(* The keys that KeyList[] has before every key with a character.          *)
EarlyKeys == {"power", "up", "down"}

(* gKeyDataPowerDown, gKeyDataPowerUp and gKeyDataPowerLongpress.           *)
Combos == {"s", "e", "space"}
NoEvent == "none"
Events == AllKeys \cup Combos

ValidKeys == Range(KeyList)

ASSUME ScanAssumption ==
  /\ KeyList \in Seq(AllKeys) /\ KeyList # <<>>
  /\ \A i, j \in 1 .. Len(KeyList) :
       /\ KeyList[i] = KeyList[j] => i = j
       /\ KeyList[i] \in EarlyKeys /\ KeyList[j] \in UnicodeKeys => i < j
  /\ KeyList[Len(KeyList)] = "dial"   (* Every device has it, as its last. *)
  /\ BounceTime \in Nat /\ RepeatTime \in Nat /\ LongTime \in Nat
  /\ BounceTime <= LongTime /\ RepeatTime <= LongTime
  /\ Deltas \subseteq Nat

VARIABLES
  key,      (* EfiKeyContext of each key: State, Time, Repeat, Longpress.  *)
  bits,     (* gBitmapScanCodes, and the one bit of gBitmapUnicodeChars    *)
            (* in use: KeySetState indexes it with the scan code, 0.       *)
  sweep,    (* The scan in progress: the next key's index, 0 for none, and *)
            (* Delta.                                                      *)
  posted,   (* The event that the last step pushed, or NoEvent.            *)
  press,    (* History of each key's press: the events pushed for it, of   *)
            (* which 2 are counted; was Dial down with it; did it just end. *)
  held      (* History: the keys found pressed when last read.             *)

scanVars == <<key, bits, sweep, posted, press, held>>

(* KEY_CONTEXT without its KeyData; the history of a press.                *)
Contexts ==
  [state : {"RELEASED", "PRESSED", "LONGPRESS_RELEASE"}, time : 0 .. LongTime,
   repeat : BOOLEAN, longpress : BOOLEAN]
Presses == [posted : 0 .. 2, dial : BOOLEAN, ended : BOOLEAN]

Released == [state |-> "RELEASED", time |-> 0, repeat |-> FALSE, longpress |-> FALSE]
NoPress == [posted |-> 0, dial |-> FALSE, ended |-> FALSE]

(* Every time the code compares against is at most LongTime.               *)
Saturated(t) == IF t < LongTime THEN t ELSE LongTime

(* Mutant: a released key stays set.                                       *)
StickySetState(k, pressed) ==
  IF k \in ScanCodeKeys
  THEN [bits EXCEPT !.scan = IF pressed THEN @ \cup {k} ELSE @]
  ELSE [bits EXCEPT !.uni = pressed]

KeySetState(k, pressed) ==
  IF k \in ScanCodeKeys
  THEN [bits EXCEPT !.scan = IF pressed THEN @ \cup {k} ELSE @ \ {k}]
  ELSE [bits EXCEPT !.uni = pressed]

(* The character that a long press of Dial reports.                        *)
Combo(b) ==
  CASE "down" \in b.scan -> "s"
    [] "down" \notin b.scan /\ "up" \in b.scan -> "e"
    [] OTHER -> "space"

(* A held key that repeats; a held key that becomes a long press.          *)
Repeats(c) == c.repeat /\ c.time >= RepeatTime
TurnsLong(c) == ~Repeats(c) /\ ~c.longpress /\ c.time >= LongTime

Becomes(c, event) == [c |-> c, event |-> event]

(* Mutant: the first repeat does not arm the following ones.                *)
HeldOnce(c, b, k) ==
  CASE Repeats(c) -> Becomes([c EXCEPT !.time = 0], k)
    [] TurnsLong(c) /\ k = "dial" -> Becomes([c EXCEPT !.longpress = TRUE], Combo(b))
    [] TurnsLong(c) /\ k # "dial" /\ ~b.uni ->
         Becomes([c EXCEPT !.longpress = TRUE, !.time = 0], k)
    [] OTHER -> Becomes(c, NoEvent)

(* KEYSTATE_PRESSED and the key is still down.  The bit that KeyGetState    *)
(* tests for Dial is the one of the character key that was read last.       *)
Held(c, b, k) ==
  CASE Repeats(c) -> Becomes([c EXCEPT !.time = 0], k)
    [] TurnsLong(c) /\ k = "dial" -> Becomes([c EXCEPT !.longpress = TRUE], Combo(b))
    [] TurnsLong(c) /\ k # "dial" /\ ~b.uni ->
         Becomes([c EXCEPT !.longpress = TRUE, !.repeat = TRUE, !.time = 0], k)
    [] TurnsLong(c) /\ k # "dial" /\ b.uni ->
         Becomes([c EXCEPT !.longpress = TRUE], NoEvent)
    [] OTHER -> Becomes(c, NoEvent)

(* Mutant: the end of a long press reports the key again.                  *)
LiftedReports(c, k) ==
  IF c.longpress /\ c.time < BounceTime THEN Becomes(c, NoEvent)
  ELSE Becomes([c EXCEPT !.state = "LONGPRESS_RELEASE"], k)

(* Mutant: the end of a long press leaves Longpress set.                   *)
LiftedStaysLong(c, k) ==
  CASE ~c.longpress -> Becomes([c EXCEPT !.state = "LONGPRESS_RELEASE"], k)
    [] c.longpress /\ c.time >= BounceTime ->
         Becomes([Released EXCEPT !.longpress = TRUE], NoEvent)
    [] OTHER -> Becomes(c, NoEvent)

(* KEYSTATE_PRESSED and the key is up: the end of a tap, or of a long press *)
(* unless the contact bounces.                                              *)
Lifted(c, k) ==
  CASE ~c.longpress -> Becomes([c EXCEPT !.state = "LONGPRESS_RELEASE"], k)
    [] c.longpress /\ c.time >= BounceTime -> Becomes(Released, NoEvent)
    [] OTHER -> Becomes(c, NoEvent)

(* The switch of LibKeyUpdateKeyStatus, for context c of key k after Time   *)
(* was advanced, with the bitmaps b.                                        *)
Updated(c, b, k, pressed) ==
  CASE c.state = "RELEASED" /\ pressed ->
         Becomes([c EXCEPT !.time = 0, !.state = "PRESSED"], NoEvent)
    [] c.state = "PRESSED" /\ pressed -> Held(c, b, k)
    [] c.state = "PRESSED" /\ ~pressed -> Lifted(c, k)
    [] c.state = "LONGPRESS_RELEASE" -> Becomes(Released, NoEvent)
    [] OTHER -> Becomes(c, NoEvent)

(* History: the press p of key k, whose state goes from old to new.        *)
Recorded(p, k, old, new, event) ==
  LET combo == k # "dial" /\ "dial" \in held
  IN IF old = "RELEASED"
     THEN [NoPress EXCEPT !.dial = combo /\ new # "RELEASED"]
     ELSE [posted |-> IF event = NoEvent \/ p.posted = 2 THEN p.posted ELSE p.posted + 1,
           dial |-> p.dial \/ combo,
           ended |-> new = "RELEASED"]
-----------------------------------------------------------------------------
(* KeypadTimerHandler enters KeypadDeviceImplGetKeys.                      *)
StartSweep(delta) ==
  /\ sweep.at = 0
  /\ sweep' = [at |-> 1, delta |-> delta]
  /\ posted' = NoEvent
  /\ UNCHANGED <<key, bits, press, held>>

(* One turn of its loop: the key is read, and its context updated.         *)
ScanKey(pressed) ==
  /\ sweep.at # 0
  /\ LET k == KeyList[sweep.at]
         c == [key[k] EXCEPT !.time = Saturated(@ + sweep.delta)]
         u == Updated(c, KeySetState(k, pressed), k, pressed)
     IN /\ bits' = KeySetState(k, pressed)
        /\ key' = [key EXCEPT ![k] = u.c]
        /\ posted' = u.event
        /\ press' = [press EXCEPT ![k] = Recorded(@, k, key[k].state, u.c.state, u.event)]
        /\ held' = IF pressed THEN held \cup {k} ELSE held \ {k}
  /\ sweep' = [sweep EXCEPT !.at = IF @ = Len(KeyList) THEN 0 ELSE @ + 1]

(* KeypadDeviceImplReset: the contexts start again; the bitmaps stay.      *)
DeviceReset ==
  /\ sweep.at = 0
  /\ key' = [k \in ValidKeys |-> Released]
  /\ press' = [k \in ValidKeys |-> NoPress]
  /\ posted' = NoEvent
  /\ UNCHANGED <<bits, sweep, held>>

ScanInit ==
  /\ key = [k \in ValidKeys |-> Released]
  /\ bits = [scan |-> {}, uni |-> FALSE]
  /\ sweep = [at |-> 0, delta |-> 0]
  /\ posted = NoEvent
  /\ press = [k \in ValidKeys |-> NoPress]
  /\ held = {}

ScanNext ==
  \/ \E delta \in Deltas : StartSweep(delta)
  \/ \E pressed \in BOOLEAN : ScanKey(pressed)
  \/ DeviceReset

ScanSpec == ScanInit /\ [][ScanNext]_scanVars
-----------------------------------------------------------------------------
ScanTypeOK ==
  /\ key \in [ValidKeys -> Contexts]
  /\ bits \in [scan : SUBSET ScanCodeKeys, uni : BOOLEAN]
  /\ sweep \in [at : 0 .. Len(KeyList), delta : Deltas \cup {0}]
  /\ posted \in Events \cup {NoEvent}
  /\ press \in [ValidKeys -> Presses]
  /\ held \subseteq ValidKeys

(* A press of Dial posts one event: its own, or one character if it was     *)
(* long, but never both, never a repeat, and never none.                    *)
DialPostsOnce ==
  /\ press["dial"].posted <= 1
  /\ press["dial"].ended => press["dial"].posted = 1

(* A press of Power or of a volume key posts an event, whatever the other   *)
(* keys do, unless it was part of a combination with Dial.                  *)
PressHeard ==
  \A k \in ValidKeys \cap EarlyKeys :
    press[k].ended => press[k].posted > 0 \/ press[k].dial

(* Comment of LibKeyUpdateKeyStatus: "only start keyrepeat if we're not     *)
(* doing a combo".  Every key that is no part of one is heard.              *)
EveryPressHeard ==
  \A k \in ValidKeys : press[k].ended => press[k].posted > 0 \/ press[k].dial

(* The character of a long press of Dial is the one of the volume key that  *)
(* is down in the same scan.                                                *)
ComboIsHeld ==
  /\ posted \in Combos => "dial" \in held
  /\ posted = "s" => "down" \in held
  /\ posted = "e" => "up" \in held /\ "down" \notin held
  /\ posted = "space" => held \cap {"up", "down"} = {}

(* The timer scans for ever, every KEYPAD_TIMER_INTERVAL: a scan ends, and  *)
(* time passes between scans.                                               *)
ScanFairness ==
  /\ WF_scanVars(\E pressed \in BOOLEAN : ScanKey(pressed))
  /\ SF_scanVars(\E delta \in Deltas \ {0} : StartSweep(delta))

ScanFairSpec == ScanSpec /\ ScanFairness

(* A volume key that is held, with no other key down, repeats for ever,     *)
(* unless it was part of a combination or the device is reset for ever.     *)
HeldKeyRepeats ==
  \A k \in ValidKeys \cap {"up", "down"} :
    <>[](held = {k}) => []<>(posted = k \/ key[k] = Released \/ press[k].dial)
=============================================================================
