------------------------------ MODULE GpioPins ------------------------------
(***************************************************************************)
(* GpioDxe with the clients whose updates meet in a register: the charger  *)
(* (ChargingDxe), the keypad LED (KeypadDeviceImplLib) and the reset of the *)
(* touch panel (TouchDxe).                                                  *)
(*                                                                         *)
(* gpio_set reads and writes two registers, each in two steps.  Code at     *)
(* TPL_NOTIFY is not interrupted by other users of the pins and is one      *)
(* action; a call from the application or from a TPL_CALLBACK function is   *)
(* four, between which anything at TPL_NOTIFY may run.                      *)
(*                                                                         *)
(* The pins are those that one level relies on while another writes their   *)
(* register: 16, 22 and 27 of bank 1, and the keypad LED.  What the port,   *)
(* the battery and the I2C bus say may be anything.  The LED of the MicroP  *)
(* is left out.                                                             *)
(***************************************************************************)
EXTENDS Naturals

CONSTANT Presses     (* Bound: how often a key that lights the LED is seen. *)

ASSUME PressesAssumption == Presses \in Nat

VARIABLES
  reg,       (* Of each bank, the pins that are high (out) and driven (oe). *)
  op,        (* The call of gpio_set in progress at each lower level.       *)
  cable,     (* CheckUsbStatus: a cable is plugged in.                      *)
  charger,   (* gState.                                                    *)
  led,       (* Keypad LED: timerRunning, whether the timer of              *)
             (* m_CallbackTimer is armed, how many events that no variable  *)
             (* names are, and how many notifications are queued.           *)
  seen,      (* The presses seen so far.                                   *)
  past       (* History: SetCharger was called, what it wrote was           *)
             (* overwritten; boot services ended.                           *)

pinVars == <<reg, op, cable, charger, led, seen, past>>

Levels == {"app", "callback"}
ChargerPins == {"enable", "current"}
Pins == ChargerPins \cup {"h2wClk", "kpLed"}
Bank(pin) == IF pin = "kpLed" THEN 2 ELSE 1

States == {"CHG_OFF", "CHG_AC", "CHG_USB_LOW", "CHG_OFF_FULL_BAT"}
Charging == {"CHG_AC", "CHG_USB_LOW"}
-----------------------------------------------------------------------------
(* GpioDxe                                                                 *)

With(pins, pin, on) == IF on THEN pins \cup {pin} ELSE pins \ {pin}

(* Mutant: gpio_set does not keep the other pins of the register.          *)
AlonePin(r, pin, on) == [out |-> With({}, pin, on), oe |-> r.oe \cup {pin}]

(* gpio_set, undisturbed.                                                  *)
Pin(r, pin, on) == [out |-> With(r.out, pin, on), oe |-> r.oe \cup {pin}]

NoCall == [pc |-> "idle", pin |-> "h2wClk", on |-> TRUE, v |-> {}]
Begun(pin, on) == [pc |-> "readOe", pin |-> pin, on |-> on, v |-> {}]

(* A queued notification and a callback run before the application goes on. *)
MayRun(l) == ~past.exited /\ (l = "app" => led.queued = 0 /\ op["callback"].pc = "idle")

(* gpio_config: the register of directions is read, then written.          *)
ReadOe(l) ==
  /\ MayRun(l) /\ op[l].pc = "readOe"
  /\ op' = [op EXCEPT ![l].v = reg[Bank(op[l].pin)].oe, ![l].pc = "writeOe"]
  /\ UNCHANGED <<reg, cable, charger, led, seen, past>>

WriteOe(l) ==
  /\ MayRun(l) /\ op[l].pc = "writeOe"
  /\ reg' = [reg EXCEPT ![Bank(op[l].pin)].oe = op[l].v \cup {op[l].pin}]
  /\ past' = [past EXCEPT
       !.torn = @ \/ (Bank(op[l].pin) = 1 /\ op[l].v # reg[1].oe)]
  /\ op' = [op EXCEPT ![l].pc = "readOut"]
  /\ UNCHANGED <<cable, charger, led, seen>>

ReadOut(l) ==
  /\ MayRun(l) /\ op[l].pc = "readOut"
  /\ op' = [op EXCEPT ![l].v = reg[Bank(op[l].pin)].out, ![l].pc = "writeOut"]
  /\ UNCHANGED <<reg, cable, charger, led, seen, past>>

(* Mutant: the levels of the pins are not read before they are written.    *)
WriteOutBlind(l) ==
  /\ MayRun(l) /\ op[l].pc = "writeOut"
  /\ reg' = [reg EXCEPT ![Bank(op[l].pin)].out = With({}, op[l].pin, op[l].on)]
  /\ op' = [op EXCEPT ![l].pc = IF l = "callback" THEN "flag" ELSE "idle", ![l].v = {}]
  /\ UNCHANGED <<cable, charger, led, seen, past>>

WriteOut(l) ==
  /\ MayRun(l) /\ op[l].pc = "writeOut"
  /\ reg' = [reg EXCEPT ![Bank(op[l].pin)].out = With(op[l].v, op[l].pin, op[l].on)]
  /\ past' = [past EXCEPT
       !.torn = @ \/ (Bank(op[l].pin) = 1 /\ op[l].v # reg[1].out)]
  /\ op' = [op EXCEPT ![l].pc = IF l = "callback" THEN "flag" ELSE "idle", ![l].v = {}]
  /\ UNCHANGED <<cable, charger, led, seen>>

(* TsResetController pulls the clock line of the headset low, then high.   *)
TouchReset(on) ==
  /\ MayRun("app") /\ op["app"].pc = "idle"
  /\ op' = [op EXCEPT !["app"] = Begun("h2wClk", on)]
  /\ UNCHANGED <<reg, cable, charger, led, seen, past>>
-----------------------------------------------------------------------------
(* ChargingDxe                                                             *)

SetEnable(r, s) == Pin(r, "enable", s \notin Charging)
SetCurrent(r, s) == Pin(r, "current", s # "CHG_USB_LOW")

(* SetCharger writes both pins; its order matters to nobody at these levels. *)
SetCharger(s) ==
  /\ charger' = s
  /\ reg' = [reg EXCEPT ![1] = SetCurrent(SetEnable(@, s), s)]

Cable ==
  /\ ~past.exited
  /\ cable' = ~cable
  /\ UNCHANGED <<reg, op, charger, led, seen, past>>

(* The state wanted of what the port and the gauge say.                    *)
Wanted(ac, full) ==
  IF ~cable THEN "CHG_OFF" ELSE IF full THEN "CHG_OFF_FULL_BAT"
  ELSE IF ac THEN "CHG_AC" ELSE "CHG_USB_LOW"

(* Every 100 ms; the pins are written when the state changes.              *)
WantsCharging ==
  /\ ~past.exited
  /\ \E ac, full \in BOOLEAN : LET s == Wanted(ac, full) IN
       /\ IF s = charger THEN UNCHANGED <<charger, reg>> ELSE SetCharger(s)
       /\ past' = [past EXCEPT !.set = @ \/ s # charger, !.torn = @ /\ s = charger]
  /\ UNCHANGED <<op, cable, led, seen>>
-----------------------------------------------------------------------------
(* The keypad LED                                                          *)

(* Mutant: the LED is lit again, but the timer keeps running.              *)
PressKeepsTimer ==
  /\ ~past.exited /\ seen < Presses
  /\ seen' = seen + 1
  /\ reg' = [reg EXCEPT ![2] = Pin(@, "kpLed", TRUE)]
  /\ led' = IF led.running THEN led
              ELSE [led EXCEPT !.lost = IF led.armed THEN @ + 1 ELSE @,
                                 !.armed = TRUE, !.running = TRUE]
  /\ UNCHANGED <<op, cable, charger, past>>

(* EnableKeypadLedWithTimer, in a scan: the timer that runs is cancelled,   *)
(* and a new event replaces it in m_CallbackTimer whatever the old one does. *)
Press ==
  /\ ~past.exited /\ seen < Presses
  /\ seen' = seen + 1
  /\ reg' = [reg EXCEPT ![2] = Pin(@, "kpLed", TRUE)]
  /\ led' = [led EXCEPT
       !.lost = IF led.armed /\ ~led.running THEN @ + 1 ELSE @,
       !.armed = TRUE, !.running = TRUE]
  /\ UNCHANGED <<op, cable, charger, past>>

(* A timer of 5 s expires.                                                 *)
Expire ==
  /\ ~past.exited
  /\ \/ led.armed /\ led' = [led EXCEPT !.armed = FALSE, !.queued = @ + 1]
     \/ led.lost > 0 /\ led' = [led EXCEPT !.lost = @ - 1, !.queued = @ + 1]
  /\ UNCHANGED <<reg, op, cable, charger, seen, past>>

(* DisableKeyPadLed is called: gpio_set, then timerRunning.                *)
DisableKeyPadLed ==
  /\ ~past.exited /\ led.queued > 0 /\ op["callback"].pc = "idle"
  /\ led' = [led EXCEPT !.queued = @ - 1]
  /\ op' = [op EXCEPT !["callback"] = Begun("kpLed", FALSE)]
  /\ UNCHANGED <<reg, cable, charger, seen, past>>

TimerStopped ==
  /\ ~past.exited /\ op["callback"].pc = "flag"
  /\ led' = [led EXCEPT !.running = FALSE]
  /\ op' = [op EXCEPT !["callback"] = NoCall]
  /\ UNCHANGED <<reg, cable, charger, seen, past>>

(* Mutant: the event of the keypad comes too late.                         *)
ExitBootServicesLit ==
  /\ MayRun("app") /\ op["app"].pc = "idle"
  /\ charger' = "CHG_OFF"
  /\ reg' = [reg EXCEPT
       ![1] = IF charger = "CHG_OFF" THEN @ ELSE SetCurrent(SetEnable(@, "CHG_OFF"), "CHG_OFF")]
  /\ past' = [past EXCEPT !.exited = TRUE,
       !.set = @ \/ charger # "CHG_OFF", !.torn = @ /\ charger = "CHG_OFF"]
  /\ UNCHANGED <<op, cable, led, seen>>

(* The events of both drivers as the application ends boot services, with   *)
(* the timer off: nothing is called after them.                             *)
ExitBootServices ==
  /\ MayRun("app") /\ op["app"].pc = "idle"
  /\ charger' = "CHG_OFF"
  /\ reg' = [reg EXCEPT
       ![1] = IF charger = "CHG_OFF" THEN @ ELSE SetCurrent(SetEnable(@, "CHG_OFF"), "CHG_OFF"),
       ![2] = Pin(@, "kpLed", FALSE)]
  /\ past' = [past EXCEPT !.exited = TRUE,
       !.set = @ \/ charger # "CHG_OFF", !.torn = @ /\ charger = "CHG_OFF"]
  /\ UNCHANGED <<op, cable, led, seen>>
-----------------------------------------------------------------------------
(* The boot loader may leave the pins of the charger either way.           *)
PinInit ==
  /\ \E high, driven \in SUBSET ChargerPins :
       reg = [b \in 1 .. 2 |-> IF b = 1 THEN [out |-> high, oe |-> driven]
                               ELSE [out |-> {}, oe |-> {}]]
  /\ op = [l \in Levels |-> NoCall]
  /\ cable \in BOOLEAN
  /\ charger = "CHG_OFF"
  /\ led = [running |-> FALSE, armed |-> FALSE, lost |-> 0, queued |-> 0]
  /\ seen = 0
  /\ past = [set |-> FALSE, torn |-> FALSE, exited |-> FALSE]

GpioStep(l) == ReadOe(l) \/ WriteOe(l) \/ ReadOut(l) \/ WriteOut(l)

PinNext ==
  \/ \E l \in Levels : GpioStep(l)
  \/ \E on \in BOOLEAN : TouchReset(on)
  \/ Cable \/ WantsCharging \/ Press \/ Expire \/ DisableKeyPadLed \/ TimerStopped
  \/ ExitBootServices

PinSpec == PinInit /\ [][PinNext]_pinVars

(* Timers tick, and a callback that is due runs to its end.                *)
PinFairness ==
  /\ WF_pinVars(WantsCharging) /\ WF_pinVars(Expire)
  /\ WF_pinVars(DisableKeyPadLed) /\ WF_pinVars(TimerStopped) /\ WF_pinVars(GpioStep("callback"))

FairSpec == PinSpec /\ PinFairness
-----------------------------------------------------------------------------
PinCalls == [pc : {"idle", "readOe", "writeOe", "readOut", "writeOut", "flag"},
          pin : Pins, on : BOOLEAN, v : SUBSET Pins]

TypeOK ==
  /\ reg \in [1 .. 2 -> [out : SUBSET Pins, oe : SUBSET Pins]]
  /\ op \in [Levels -> PinCalls]
  /\ cable \in BOOLEAN /\ charger \in States
  /\ led \in [running : BOOLEAN, armed : BOOLEAN, lost : Nat, queued : Nat]
  /\ led.lost + led.queued <= seen /\ seen \in 0 .. Presses
  /\ past \in [set : BOOLEAN, torn : BOOLEAN, exited : BOOLEAN]

(* "0 enable; 1 disable": both pins of the charger are driven, and as gState *)
(* says.                                                                    *)
PinsAgree ==
  /\ ChargerPins \subseteq reg[1].oe
  /\ "enable" \in reg[1].out <=> charger \notin Charging
  /\ "current" \in reg[1].out <=> charger # "CHG_USB_LOW"

(* Once SetCharger was called, a write of the application of what it had     *)
(* read before is all that can make the pins differ from gState.            *)
ChargerFollows == past.set /\ ~past.torn => PinsAgree

(* No callback or scan disturbs a pin that the application sets, though all  *)
(* of them write the register while it is at it.                            *)
SetSticks ==
  op["app"].pc = "idle" /\ "h2wClk" \in reg[1].oe =>
    ("h2wClk" \in reg[1].out <=> op["app"].on)

(* A lit keypad LED is never forgotten: a timer, a queued notification or    *)
(* the callback will put it out.                                            *)
LitHasTimer ==
  "kpLed" \in reg[2].out =>
    \/ led.armed \/ led.lost > 0 \/ led.queued > 0
    \/ op["callback"].pc \in {"readOe", "writeOe", "readOut", "writeOut"}

(* The next stage gets the keypad LED off, the charger off, and its pins so  *)
(* unless an update was lost or none was ever made.                         *)
ExitLeavesOff ==
  past.exited =>
    /\ "kpLed" \notin reg[2].out
    /\ past.set /\ ~past.torn => ChargerPins \subseteq reg[1].out \cap reg[1].oe

(* The keypad LED goes off, however presses, timers and their callbacks are  *)
(* interleaved.                                                             *)
LitGoesOff == "kpLed" \in reg[2].out ~> "kpLed" \notin reg[2].out

(* "0 enable; 1 disable": the pins are as gState says, whoever else uses     *)
(* their register.                                                          *)
ChargerAlwaysFollows == past.set => PinsAgree
=============================================================================
