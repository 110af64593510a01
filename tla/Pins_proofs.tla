----------------------------- MODULE Pins_proofs -----------------------------
(***************************************************************************)
(* Of the pins of the phone.                                               *)
(*                                                                         *)
(* The pins of GpioPins, for any number of presses: types, and the four     *)
(* invariants of the charger, the reset line and the keypad LED.  They are  *)
(* proved together: turning the charger off as boot services end needs that *)
(* its pins agreed with gState before.                                      *)
(*                                                                         *)
(* The interrupt of the touch panel, for any reports, and any number of     *)
(* reports, timer interrupts and resets: no edge is lost, the movement adds *)
(* up and the core is told the right period.                               *)
(***************************************************************************)
EXTENDS GpioPins, TouchIrq, TLAPS


Registers == [out : SUBSET Pins, oe : SUBSET Pins]
Timers == [running : BOOLEAN, armed : BOOLEAN, lost : Nat, queued : Nat]

(* Who calls gpio_set at which level, and that each event of the keypad LED *)
(* is one press.                                                            *)
Callers ==
  /\ op["app"].pin = "h2wClk" /\ op["app"].pc # "flag"
  /\ op["callback"].pc \in {"readOe", "writeOe", "readOut", "writeOut"} =>
       op["callback"].pin = "kpLed" /\ op["callback"].on = FALSE
  /\ led.lost + led.queued + (IF led.armed THEN 1 ELSE 0) <= seen

PinInv ==
  /\ TypeOK /\ Callers
  /\ ChargerFollows /\ SetSticks /\ LitHasTimer /\ ExitLeavesOff

(* What a write of one pin does to its register, as a reader sees it.      *)
Changed(r, s, pin, on) ==
  /\ s \in Registers
  /\ s.oe = r.oe \cup {pin}
  /\ pin \in s.out <=> on
  /\ \A q \in Pins \ {pin} : q \in s.out <=> q \in r.out

(* gpio_set gives the pin its level, drives it and leaves the others alone. *)
LEMMA PinChanges ==
  ASSUME NEW r \in Registers, NEW pin \in Pins, NEW on \in BOOLEAN
  PROVE  Changed(r, Pin(r, pin, on), pin, on)
<1>1. Pin(r, pin, on) \in Registers
  BY DEF Pin, With, Registers
<1>2. CASE on
  BY <1>1, <1>2 DEF Pin, With, Changed
<1>3. CASE ~on
  BY <1>1, <1>3 DEF Pin, With, Changed
<1> QED
  BY <1>2, <1>3

(* SetCharger leaves both pins of the charger driven and as the new state   *)
(* says, and the reset line as it was.                                      *)
ChargerSet(r, s, state) ==
  /\ s \in Registers
  /\ s.oe = r.oe \cup ChargerPins
  /\ "enable" \in s.out <=> state \notin Charging
  /\ "current" \in s.out <=> state # "CHG_USB_LOW"
  /\ "h2wClk" \in s.out <=> "h2wClk" \in r.out

LEMMA SetChargerSets ==
  ASSUME NEW r \in Registers, NEW state \in States
  PROVE  ChargerSet(r, SetCurrent(SetEnable(r, state), state), state)
<1> DEFINE e == SetEnable(r, state)
           c == SetCurrent(e, state)
<1>1. Changed(r, e, "enable", state \notin Charging)
  BY PinChanges DEF SetEnable, Pins, ChargerPins
<1>2. Changed(e, c, "current", state # "CHG_USB_LOW")
  BY <1>1, PinChanges DEF SetCurrent, Changed, Pins, ChargerPins
<1> HIDE DEF e, c
<1>3. c.oe = r.oe \cup ChargerPins
  BY <1>1, <1>2 DEF Changed, ChargerPins
<1>4. ChargerSet(r, c, state)
  BY <1>1, <1>2, <1>3 DEF Changed, ChargerSet, Pins, ChargerPins
<1> QED
  BY <1>4 DEF c, e
-----------------------------------------------------------------------------
(* Four facts decide the invariants: who calls, what the registers hold,     *)
(* the timers and the history.  One lemma for each kind of step.            *)

(* A read by gpio_set changes nothing but its own call.                     *)
LEMMA ReadsKeep ==
  ASSUME PinInv, NEW l \in Levels, ReadOe(l) \/ ReadOut(l)
  PROVE  PinInv'
<1>1. PICK v \in SUBSET Pins, pc \in {"writeOe", "writeOut"} :
        /\ op' = [op EXCEPT ![l].v = v, ![l].pc = pc]
        /\ op[l].pc \in {"readOe", "readOut"}
        /\ UNCHANGED <<reg, cable, charger, led, seen, past>>
  <2>1. reg[Bank(op[l].pin)] \in Registers
    BY DEF PinInv, TypeOK, Registers, Bank
  <2> QED
    BY <2>1 DEF ReadOe, ReadOut, Registers
<1>2. op[l] \in PinCalls
  BY DEF PinInv, TypeOK
<1>3. /\ op'[l].pc = pc /\ op'[l].pin = op[l].pin /\ op'[l].on = op[l].on
      /\ \A k \in Levels \ {l} : op'[k] = op[k]
      /\ op' \in [Levels -> PinCalls]
  BY <1>1, <1>2 DEF PinInv, TypeOK, PinCalls
<1>4. TypeOK'
  BY <1>1, <1>3 DEF PinInv, TypeOK
<1>5. Callers'
  BY <1>1, <1>3 DEF PinInv, Callers, Levels
<1>6. SetSticks' /\ LitHasTimer'
  BY <1>1, <1>3 DEF PinInv, SetSticks, LitHasTimer, Levels
<1>7. ChargerFollows' /\ ExitLeavesOff'
  BY <1>1 DEF PinInv, ChargerFollows, ExitLeavesOff, PinsAgree
<1> QED
  BY <1>4, <1>5, <1>6, <1>7 DEF PinInv

(* The application writes the directions it read, with its pin: what it     *)
(* undoes is remembered as torn.                                            *)
LEMMA AppWritesOe == ASSUME PinInv, WriteOe("app") PROVE PinInv'
<1>1. op["app"] \in PinCalls /\ op["app"].pin = "h2wClk" /\ reg[1] \in Registers
  BY DEF PinInv, TypeOK, Callers, Levels, Registers
<1>2. /\ reg'[1].out = reg[1].out /\ reg'[1].oe = op["app"].v \cup {"h2wClk"}
      /\ reg'[1] \in Registers /\ reg'[2] = reg[2]
      /\ reg' \in [1 .. 2 -> Registers]
  BY <1>1 DEF WriteOe, Bank, PinInv, TypeOK, Registers, PinCalls, Pins
<1>3. /\ op'["app"].pc = "readOut" /\ op'["callback"] = op["callback"]
      /\ op'["app"].pin = "h2wClk" /\ op' \in [Levels -> PinCalls]
  BY <1>1 DEF WriteOe, PinInv, TypeOK, PinCalls, Levels
<1>4. /\ past'.set = past.set /\ ~past.exited /\ past'.exited = past.exited
      /\ past'.torn = (past.torn \/ op["app"].v # reg[1].oe)
      /\ past' \in [set : BOOLEAN, torn : BOOLEAN, exited : BOOLEAN]
  BY <1>1 DEF WriteOe, Bank, MayRun, PinInv, TypeOK
<1>5. UNCHANGED <<cable, charger, led, seen>>
  BY DEF WriteOe
<1>6. TypeOK' /\ Callers'
  BY <1>2, <1>3, <1>4, <1>5 DEF PinInv, TypeOK, Callers, Registers
<1>7. SetSticks' /\ LitHasTimer' /\ ExitLeavesOff'
  BY <1>2, <1>3, <1>4, <1>5 DEF PinInv, SetSticks, LitHasTimer, ExitLeavesOff
<1>8. ChargerFollows'
  BY <1>2, <1>4, <1>5 DEF PinInv, ChargerFollows, PinsAgree
<1> QED
  BY <1>6, <1>7, <1>8 DEF PinInv

(* The same of the levels; the call is then over, and its pin as asked.     *)
LEMMA AppWritesOut == ASSUME PinInv, WriteOut("app") PROVE PinInv'
<1>1. op["app"] \in PinCalls /\ op["app"].pin = "h2wClk" /\ reg[1] \in Registers
  BY DEF PinInv, TypeOK, Callers, Levels, Registers
<1>2. /\ reg'[1].oe = reg[1].oe
      /\ reg'[1].out = With(op["app"].v, "h2wClk", op["app"].on)
      /\ reg'[2] = reg[2] /\ reg' \in [1 .. 2 -> Registers]
  BY <1>1 DEF WriteOut, Bank, PinInv, TypeOK, Registers, PinCalls, Pins, With
<1>3. /\ op'["app"].pc = "idle" /\ op'["callback"] = op["callback"]
      /\ op'["app"].pin = "h2wClk" /\ op'["app"].on = op["app"].on
      /\ op' \in [Levels -> PinCalls]
  BY <1>1 DEF WriteOut, PinInv, TypeOK, PinCalls, Levels
<1>4. /\ past'.set = past.set /\ ~past.exited /\ past'.exited = past.exited
      /\ past'.torn = (past.torn \/ op["app"].v # reg[1].out)
      /\ past' \in [set : BOOLEAN, torn : BOOLEAN, exited : BOOLEAN]
  BY <1>1 DEF WriteOut, Bank, MayRun, PinInv, TypeOK
<1>5. UNCHANGED <<cable, charger, led, seen>>
  BY DEF WriteOut
<1>6. TypeOK' /\ Callers'
  BY <1>2, <1>3, <1>4, <1>5 DEF PinInv, TypeOK, Callers, Registers
<1>7. SetSticks' /\ LitHasTimer' /\ ExitLeavesOff'
  BY <1>1, <1>2, <1>3, <1>4, <1>5
     DEF PinInv, SetSticks, LitHasTimer, ExitLeavesOff, With, PinCalls
<1>8. ChargerFollows'
  BY <1>2, <1>4, <1>5 DEF PinInv, ChargerFollows, PinsAgree, With
<1> QED
  BY <1>6, <1>7, <1>8 DEF PinInv
(* DisableKeyPadLed writes the register of the LED only: the charger and    *)
(* the reset line are in another.                                           *)
LEMMA CallbackWrites ==
  ASSUME PinInv, WriteOe("callback") \/ WriteOut("callback")
  PROVE  PinInv'
<1>1. /\ op["callback"] \in PinCalls /\ op["callback"].pin = "kpLed"
      /\ op["callback"].on = FALSE /\ reg[2] \in Registers
      /\ op["callback"].pc \in {"writeOe", "writeOut"}
  BY DEF PinInv, TypeOK, Callers, Levels, Registers, WriteOe, WriteOut
<1>2. /\ reg'[1] = reg[1] /\ reg' \in [1 .. 2 -> Registers]
      /\ \/ op'["callback"].pc = "readOut" /\ reg'[2].out = reg[2].out
         \/ op'["callback"].pc = "flag" /\ "kpLed" \notin reg'[2].out
  BY <1>1 DEF WriteOe, WriteOut, With, Bank, PinInv, TypeOK, Registers, PinCalls, Pins, Levels
<1>3. /\ op'["app"] = op["app"] /\ op' \in [Levels -> PinCalls]
      /\ op'["callback"].pin = "kpLed" /\ op'["callback"].on = FALSE
  BY <1>1 DEF WriteOe, WriteOut, PinInv, TypeOK, PinCalls, Levels
<1>4. /\ ~past.exited /\ past' = past
      /\ UNCHANGED <<cable, charger, led, seen>>
  <2>1. past'.torn = past.torn
    BY <1>1 DEF WriteOe, WriteOut, Bank, PinInv, TypeOK
  <2> QED
    BY <1>1, <2>1 DEF WriteOe, WriteOut, MayRun, Bank, PinInv, TypeOK
<1>5. TypeOK' /\ Callers'
  BY <1>2, <1>3, <1>4 DEF PinInv, TypeOK, Callers, Registers
<1>6. ChargerFollows' /\ SetSticks'
  BY <1>2, <1>3, <1>4 DEF PinInv, ChargerFollows, PinsAgree, SetSticks
<1>7. LitHasTimer'
  BY <1>1, <1>2, <1>4 DEF PinInv, LitHasTimer
<1>8. ExitLeavesOff'
  BY <1>4 DEF ExitLeavesOff
<1> QED
  BY <1>5, <1>6, <1>7, <1>8 DEF PinInv

(* A call of gpio_set begins: TouchReset at application level, the callback *)
(* of an expired timer above it.                                            *)
LEMMA CallsBegin ==
  ASSUME PinInv, (\E on \in BOOLEAN : TouchReset(on)) \/ DisableKeyPadLed
  PROVE  PinInv'
<1>1. CASE \E on \in BOOLEAN : TouchReset(on)
  <2>1. PICK on \in BOOLEAN : TouchReset(on)
    BY <1>1
  <2>2. /\ op'["app"] = Begun("h2wClk", on) /\ op'["callback"] = op["callback"]
        /\ op' \in [Levels -> PinCalls]
        /\ UNCHANGED <<reg, cable, charger, led, seen, past>>
    BY <2>1 DEF TouchReset, Begun, PinInv, TypeOK, PinCalls, Levels, Pins
  <2>3. TypeOK' /\ Callers' /\ SetSticks'
    BY <2>2 DEF PinInv, TypeOK, Callers, SetSticks, Begun
  <2> QED
    BY <2>2, <2>3 DEF PinInv, LitHasTimer, ChargerFollows, PinsAgree, ExitLeavesOff
<1>2. CASE DisableKeyPadLed
  <2>1. /\ op'["callback"] = Begun("kpLed", FALSE) /\ op'["app"] = op["app"]
        /\ op' \in [Levels -> PinCalls]
        /\ UNCHANGED <<reg, cable, charger, seen, past>>
    BY <1>2 DEF DisableKeyPadLed, Begun, PinInv, TypeOK, PinCalls, Levels, Pins
  <2>2. /\ led' \in Timers /\ led'.armed = led.armed
        /\ led'.lost + led'.queued < led.lost + led.queued
    BY <1>2 DEF DisableKeyPadLed, PinInv, TypeOK, Timers
  <2>3. led \in Timers /\ seen \in 0 .. Presses
    BY DEF PinInv, TypeOK, Timers
  <2>4. led'.lost + led'.queued <= seen'
    BY <2>1, <2>2, <2>3 DEF PinInv, TypeOK, Timers
  <2>5. TypeOK'
    BY <2>1, <2>2, <2>4 DEF PinInv, TypeOK, Timers
  <2>6. Callers'
    BY <2>1, <2>2, <2>3, PressesAssumption DEF PinInv, Callers, Begun, Timers
  <2>7. LitHasTimer'
    BY <2>1 DEF LitHasTimer, Begun
  <2> QED
    BY <2>1, <2>5, <2>6, <2>7
       DEF PinInv, SetSticks, ChargerFollows, PinsAgree, ExitLeavesOff
<1> QED
  BY <1>1, <1>2
(* WantsCharging sets both pins whenever gState changes, which repairs what *)
(* was undone before.                                                       *)
LEMMA ChargerSteps == ASSUME PinInv, WantsCharging PROVE PinInv'
<1>1. PICK ac \in BOOLEAN, full \in BOOLEAN :
        LET s == Wanted(ac, full) IN
        /\ IF s = charger THEN UNCHANGED <<charger, reg>> ELSE SetCharger(s)
        /\ past' = [past EXCEPT !.set = @ \/ s # charger, !.torn = @ /\ s = charger]
  BY DEF WantsCharging
<1> DEFINE s == Wanted(ac, full)
<1>2. /\ s \in States /\ ~past.exited /\ past'.exited = past.exited
      /\ past' \in [set : BOOLEAN, torn : BOOLEAN, exited : BOOLEAN]
      /\ UNCHANGED <<op, cable, led, seen>>
  BY <1>1 DEF WantsCharging, Wanted, States, PinInv, TypeOK
<1>3. CASE s = charger
  <2>1. /\ UNCHANGED <<charger, reg, op, cable, led, seen>>
        /\ past'.set = past.set /\ past'.torn = past.torn
    BY <1>1, <1>2, <1>3 DEF PinInv, TypeOK
  <2> QED
    BY <1>2, <2>1 DEF PinInv, TypeOK, Callers, ChargerFollows, PinsAgree, SetSticks,
       LitHasTimer, ExitLeavesOff
<1>4. CASE s # charger
  <2>1. reg[1] \in Registers
    BY DEF PinInv, TypeOK, Registers
  <2>2. /\ charger' = s /\ reg'[2] = reg[2]
        /\ reg'[1] = SetCurrent(SetEnable(reg[1], s), s)
    BY <1>1, <1>4 DEF SetCharger, PinInv, TypeOK
  <2>3. ChargerSet(reg[1], reg'[1], s)
    BY <1>2, <2>1, <2>2, SetChargerSets
  <2>4. reg' \in [1 .. 2 -> Registers]
    BY <1>1, <1>4, <2>2, <2>3 DEF SetCharger, ChargerSet, PinInv, TypeOK, Registers
  <2>5. TypeOK' /\ Callers'
    BY <1>2, <2>2, <2>4 DEF PinInv, TypeOK, Callers, Registers
  <2>6. ChargerFollows'
    BY <2>2, <2>3 DEF ChargerFollows, PinsAgree, ChargerSet
  <2>7. SetSticks' /\ LitHasTimer' /\ ExitLeavesOff'
    BY <1>2, <2>2, <2>3
       DEF PinInv, SetSticks, LitHasTimer, ExitLeavesOff, ChargerSet, ChargerPins
  <2> QED
    BY <2>5, <2>6, <2>7 DEF PinInv
<1> QED
  BY <1>3, <1>4

(* What an event that expires does to the timer.                            *)
LEMMA TimerExpires ==
  ASSUME NEW t \in Timers, NEW is \in BOOLEAN, NEW lost \in Nat, NEW queued \in Nat
  PROVE  /\ [t EXCEPT !.armed = is, !.queued = queued] \in Timers
         /\ [t EXCEPT !.lost = lost, !.queued = queued] \in Timers
  BY DEF Timers

(* A press lights the LED and arms a timer; the event it replaces stays in  *)
(* the count.                                                               *)
LEMMA PressArms == ASSUME PinInv, Press PROVE PinInv'
<1>1. reg[2] \in Registers /\ led \in Timers
  BY DEF PinInv, TypeOK, Registers, Timers
<1>2. /\ reg'[1] = reg[1] /\ reg'[2] = Pin(reg[2], "kpLed", TRUE)
      /\ ~past.exited /\ UNCHANGED <<op, cable, charger, past>>
  BY DEF Press, PinInv, TypeOK
<1>3. reg' \in [1 .. 2 -> Registers]
  BY <1>1, PinChanges DEF Press, Changed, PinInv, TypeOK, Registers, Pins
<1>4. /\ led' \in Timers /\ led'.armed
      /\ led'.queued = led.queued
      /\ led'.lost = IF led.armed /\ ~led.running THEN led.lost + 1 ELSE led.lost
  <2> DEFINE l == IF led.armed /\ ~led.running THEN led.lost + 1 ELSE led.lost
  <2>1. l \in Nat
    BY <1>1 DEF Timers
  <2>2. led' = [led EXCEPT !.lost = l, !.armed = TRUE, !.running = TRUE]
    BY DEF Press
  <2> HIDE DEF l
  <2>3. led' \in Timers
    BY <1>1, <2>1, <2>2 DEF Timers
  <2>4. led'.armed /\ led'.queued = led.queued /\ led'.lost = l
    BY <1>1, <2>2 DEF Timers
  <2> QED
    BY <2>3, <2>4 DEF l
<1>5. seen' = seen + 1 /\ seen' \in 0 .. Presses
  BY PressesAssumption DEF Press, PinInv, TypeOK
<1>6. led'.lost + led'.queued + 1 <= seen'
  BY <1>1, <1>4, <1>5, PressesAssumption DEF PinInv, TypeOK, Callers, Timers
<1>7. TypeOK'
  BY <1>2, <1>3, <1>4, <1>5, <1>6 DEF PinInv, TypeOK, Registers, Timers
<1>8. Callers'
  BY <1>2, <1>4, <1>6 DEF PinInv, Callers
<1> QED
  BY <1>2, <1>4, <1>7, <1>8
     DEF PinInv, ChargerFollows, PinsAgree, SetSticks, LitHasTimer, ExitLeavesOff

(* An event expires, or clears timerRunning: the LED keeps what will put it *)
(* out.                                                                     *)
LEMMA TimersRun == ASSUME PinInv, Expire \/ TimerStopped PROVE PinInv'
<1>1. led \in Timers /\ seen \in Nat
  BY PressesAssumption DEF PinInv, TypeOK, Timers
<1>2. CASE Expire
  <2>1. /\ led' \in Timers /\ led'.queued > 0
        /\ led'.lost + led'.queued + (IF led'.armed THEN 1 ELSE 0)
             = led.lost + led.queued + (IF led.armed THEN 1 ELSE 0)
    <3>1. led.lost \in Nat /\ led.queued \in Nat
      BY <1>1 DEF Timers
    <3>2. CASE led.armed /\ led' = [led EXCEPT !.armed = FALSE, !.queued = @ + 1]
      <4>1. /\ led' \in Timers /\ ~led'.armed
            /\ led'.queued = led.queued + 1 /\ led'.lost = led.lost
        <5>1. led' \in Timers
          <6>1. led.queued + 1 \in Nat
            BY <3>1
          <6> QED
            BY <1>1, <6>1, <3>2, TimerExpires
        <5>2. ~led'.armed
          BY <1>1, <3>2 DEF Timers
        <5>3. led'.queued = led.queued + 1 /\ led'.lost = led.lost
          BY <1>1, <3>2 DEF Timers
        <5> QED
          BY <5>1, <5>2, <5>3
      <4> QED
        BY <3>1, <3>2, <4>1
    <3>3. CASE led.lost > 0 /\ led' = [led EXCEPT !.lost = @ - 1, !.queued = @ + 1]
      <4>1. /\ led' \in Timers /\ led'.armed = led.armed
            /\ led'.queued = led.queued + 1 /\ led'.lost = led.lost - 1
        <5>1. led' \in Timers
          <6>1. led.lost - 1 \in Nat /\ led.queued + 1 \in Nat
            BY <3>1, <3>3
          <6> QED
            BY <1>1, <6>1, <3>3, TimerExpires
        <5>2. led'.armed = led.armed
          BY <1>1, <3>3 DEF Timers
        <5>3. led'.queued = led.queued + 1 /\ led'.lost = led.lost - 1
          BY <1>1, <3>3 DEF Timers
        <5> QED
          BY <5>1, <5>2, <5>3
      <4> QED
        BY <3>1, <4>1
    <3> QED
      BY <1>2, <3>2, <3>3 DEF Expire
  <2>2. ~past.exited /\ UNCHANGED <<reg, op, cable, charger, seen, past>>
    BY <1>2 DEF Expire
  <2>3. led'.lost + led'.queued <= seen'
    BY <1>1, <2>1, <2>2 DEF PinInv, Callers, Timers
  <2>4. TypeOK' /\ Callers'
    BY <2>1, <2>2, <2>3 DEF PinInv, TypeOK, Callers, Timers
  <2> QED
    BY <2>1, <2>2, <2>4
       DEF PinInv, ChargerFollows, PinsAgree, SetSticks, LitHasTimer, ExitLeavesOff
<1>3. CASE TimerStopped
  <2>1. /\ led' \in Timers /\ led'.armed = led.armed
        /\ led'.lost = led.lost /\ led'.queued = led.queued
    BY <1>1, <1>3 DEF TimerStopped, Timers
  <2>2. /\ op'["callback"] = NoCall /\ op'["app"] = op["app"]
        /\ op' \in [Levels -> PinCalls] /\ op["callback"].pc = "flag"
        /\ ~past.exited /\ UNCHANGED <<reg, cable, charger, seen, past>>
    BY <1>3 DEF TimerStopped, NoCall, PinInv, TypeOK, PinCalls, Levels, Pins
  <2>3. TypeOK' /\ Callers'
    BY <2>1, <2>2 DEF PinInv, TypeOK, Callers, Timers, NoCall
  <2> QED
    BY <2>1, <2>2, <2>3
       DEF PinInv, ChargerFollows, PinsAgree, SetSticks, LitHasTimer, ExitLeavesOff
<1> QED
  BY <1>2, <1>3
(* The handlers of both drivers leave the charger and the LED off.          *)
LEMMA BootServicesEnd == ASSUME PinInv, ExitBootServices PROVE PinInv'
<1>1. /\ reg[1] \in Registers /\ reg[2] \in Registers
      /\ charger' = "CHG_OFF" /\ ~past.exited
      /\ UNCHANGED <<op, cable, led, seen>>
  BY DEF ExitBootServices, MayRun, PinInv, TypeOK, Registers
<1>2. reg'[2] = Pin(reg[2], "kpLed", FALSE)
  BY DEF ExitBootServices, PinInv, TypeOK
<1>3. reg'[2] \in Registers /\ "kpLed" \notin reg'[2].out
  <2>1. "kpLed" \in Pins /\ FALSE \in BOOLEAN
    BY DEF Pins
  <2>2. Changed(reg[2], reg'[2], "kpLed", FALSE)
    BY <1>1, <1>2, <2>1, PinChanges
  <2> QED
    BY <2>2 DEF Changed
<1>4. reg'[1] = IF charger = "CHG_OFF" THEN reg[1]
                ELSE SetCurrent(SetEnable(reg[1], "CHG_OFF"), "CHG_OFF")
  BY DEF ExitBootServices, PinInv, TypeOK
<1>5. /\ past' \in [set : BOOLEAN, torn : BOOLEAN, exited : BOOLEAN]
      /\ past'.exited
      /\ past'.set = (past.set \/ charger # "CHG_OFF")
      /\ past'.torn = (past.torn /\ charger = "CHG_OFF")
  BY DEF ExitBootServices, PinInv, TypeOK
<1>6. reg'[1] \in Registers /\ ChargerFollows' /\ SetSticks'
  <2>1. CASE charger = "CHG_OFF"
    BY <1>1, <1>4, <1>5, <2>1 DEF PinInv, ChargerFollows, PinsAgree, SetSticks
  <2>2. CASE charger # "CHG_OFF"
    <3>1. ChargerSet(reg[1], reg'[1], "CHG_OFF")
      BY <1>1, <1>4, <2>2, SetChargerSets DEF States
    <3> QED
      BY <1>1, <3>1 DEF ChargerSet, PinInv, ChargerFollows, PinsAgree, SetSticks,
         ChargerPins, Charging
  <2> QED
    BY <2>1, <2>2
<1>7. reg' \in [1 .. 2 -> Registers]
  BY <1>3, <1>6 DEF ExitBootServices, PinInv, TypeOK, Registers
<1>8. TypeOK' /\ Callers'
  BY <1>1, <1>5, <1>7 DEF PinInv, TypeOK, Callers, Registers, States
<1>9. ExitLeavesOff'
  BY <1>1, <1>3, <1>6 DEF ExitLeavesOff, ChargerFollows, PinsAgree, ChargerPins, Charging
<1>10. LitHasTimer'
  BY <1>3 DEF LitHasTimer
<1> QED
  BY <1>6, <1>8, <1>9, <1>10 DEF PinInv

LEMMA Starts == PinInit => PinInv
<1> SUFFICES ASSUME PinInit PROVE PinInv
  OBVIOUS
<1>1. op["app"] = NoCall /\ op["callback"] = NoCall /\ NoCall \in PinCalls
  BY DEF PinInit, NoCall, PinCalls, Pins, Levels
<1>2. reg \in [1 .. 2 -> Registers] /\ reg[1].oe \subseteq ChargerPins /\ reg[2].out = {}
  BY DEF PinInit, Registers, Pins
<1>3. TypeOK
  BY <1>1, <1>2, PressesAssumption DEF PinInit, TypeOK, Registers, States
<1>4. Callers
  BY <1>1, PressesAssumption DEF PinInit, Callers, NoCall
<1>5. ChargerFollows /\ SetSticks /\ LitHasTimer /\ ExitLeavesOff
  BY <1>2 DEF PinInit, ChargerFollows, SetSticks, LitHasTimer, ExitLeavesOff, ChargerPins
<1> QED
  BY <1>3, <1>4, <1>5 DEF PinInv

(* The invariant holds through every interleaving of the three levels.      *)
THEOREM PinsInductive == PinSpec => []PinInv
<1>1. PinInv /\ [PinNext]_pinVars => PinInv'
  <2> SUFFICES ASSUME PinInv, [PinNext]_pinVars PROVE PinInv'
    OBVIOUS
  <2>1. ASSUME NEW l \in Levels, GpioStep(l) PROVE PinInv'
    BY <2>1, ReadsKeep, AppWritesOe, AppWritesOut, CallbackWrites DEF GpioStep, Levels
  <2>2. CASE (\E on \in BOOLEAN : TouchReset(on)) \/ DisableKeyPadLed
    BY <2>2, CallsBegin
  <2>3. CASE WantsCharging
    BY <2>3, ChargerSteps
  <2>4. CASE Press
    BY <2>4, PressArms
  <2>5. CASE Expire \/ TimerStopped
    BY <2>5, TimersRun
  <2>6. CASE ExitBootServices
    BY <2>6, BootServicesEnd
  <2>7. CASE Cable \/ UNCHANGED pinVars
    <3>1. UNCHANGED <<reg, op, charger, led, seen, past>> /\ cable' \in BOOLEAN
      BY <2>7 DEF Cable, pinVars, PinInv, TypeOK
    <3>2. TypeOK'
      BY <3>1 DEF PinInv, TypeOK
    <3>3. Callers'
      BY <3>1 DEF PinInv, Callers
    <3>4. ChargerFollows' /\ SetSticks'
      BY <3>1 DEF PinInv, ChargerFollows, PinsAgree, SetSticks
    <3>5. LitHasTimer' /\ ExitLeavesOff'
      BY <3>1 DEF PinInv, LitHasTimer, ExitLeavesOff, PinsAgree
    <3> QED
      BY <3>2, <3>3, <3>4, <3>5 DEF PinInv
  <2> QED
    BY <2>1, <2>2, <2>3, <2>4, <2>5, <2>6, <2>7 DEF PinNext
<1> QED
  BY Starts, <1>1, PTL DEF PinSpec

(* The registers, calls and timers keep their types, and no more timer      *)
(* events are alive than presses were seen.                                 *)
THEOREM PinTypesCorrect == PinSpec => []TypeOK
  BY PinsInductive, PTL DEF PinInv

(* The pins of the charger follow gState but for what the application       *)
(* writes back.                                                             *)
THEOREM ChargerIsFollowed == PinSpec => []ChargerFollows
  BY PinsInductive, PTL DEF PinInv

(* The reset line of the touch panel keeps the level it was given.          *)
THEOREM ResetLineSticks == PinSpec => []SetSticks
  BY PinsInductive, PTL DEF PinInv

(* A lit keypad LED has a timer, a notification or a callback that puts it  *)
(* out.                                                                     *)
THEOREM LedNotForgotten == PinSpec => []LitHasTimer
  BY PinsInductive, PTL DEF PinInv

(* The next stage gets the LED off, and the charger off where its pins      *)
(* followed gState.                                                         *)
THEOREM HandedOverOff == PinSpec => []ExitLeavesOff
  BY PinsInductive, PTL DEF PinInv
-----------------------------------------------------------------------------
(* The interrupt of the touch panel.                                       *)


USE DEF INT_DEBUG_TIMER_EXP, INT_SIRC_0, INT_GPIO_GROUP1, INT_GPIO_GROUP2

(* Where the main thread is, in the order it gets there.                   *)
Untimed == {"timer", "timer period", "timer protocol"}
Unlined == Untimed \cup {"core timer", "gpio", "sirc"}
Off == {"timer off", "off"}
Pcs == Unlined \cup Off \cup
       {"probe", "arm", "enable", "line", "line on", "idle", "read", "copy", "forget",
        "latch", "acknowledge", "return", "power up", "vic off"}

Handlers == {None, "timer", "sirc", "gpio", "touch"}
Places == Handlers \cup {"vector", "clear", "acknowledge", "sirc acknowledge", "end"}

Typed ==
  /\ DOMAIN main = {"pc", "client"} /\ main.pc \in Pcs
  /\ stack \in Seq(Places)
  /\ handlers \in [Sources -> Handlers]
  /\ mLine \in {None, "touch"}

(* The handlers that are registered.                                       *)
Registered ==
  /\ \A source \in Sources : handlers[source] = "timer" => source = INT_DEBUG_TIMER_EXP
  /\ main.pc \notin Unlined => handlers[INT_SIRC_0] = "sirc"

(* The handler of the timer has a period to tell, or is not run.           *)
Timed ==
  /\ notify => main.pc \notin Untimed
  /\ main.pc \notin Untimed \cup Off => mTimerPeriod = PcdTimerPeriod
  /\ main.pc \in Off => /\ INT_DEBUG_TIMER_EXP \notin enabled
                        /\ \A i \in DOMAIN stack : stack[i] # "timer"

(* The second level of interrupts.                                         *)
Serving == {"sirc", "touch", "clear", "acknowledge", "sirc acknowledge"}
Served == \E i \in DOMAIN stack : stack[i] \in Serving

Raised ==
  /\ <<latch, armed, lineOn, sirc>> \in BOOLEAN \X BOOLEAN \X BOOLEAN \X BOOLEAN
  /\ lineOn => main.pc \notin Unlined
  /\ lineOn \/ main.pc = "line on" => mLine = "touch"
  /\ sirc => lineOn
  /\ latch /\ armed /\ lineOn => sirc
  /\ sirc /\ master => INT_SIRC_0 \in pending \/ Served

IInv == Typed /\ Registered /\ Timed /\ TickTold /\ Raised

LEMMA InvInit == Init => IInv
<1> SUFFICES ASSUME Init PROVE IInv
  OBVIOUS
<1>1. Typed
  BY DEF Init, Typed, Pcs, Unlined, Untimed, Handlers
<1>2. Registered /\ Timed /\ TickTold
  BY DEF Init, Registered, Timed, TickTold, Unlined, Untimed, Off, None
<1>3. Raised
  BY DEF Init, Raised
<1> QED
  BY <1>1, <1>2, <1>3 DEF IInv
-----------------------------------------------------------------------------
(* The stack.                                                              *)

(* The innermost handler goes on to another place.                         *)
LEMMA GotoPlace ==
  ASSUME stack \in Seq(Places), stack # <<>>, NEW at \in Places, Goto(at)
  PROVE  /\ stack' \in Seq(Places)
         /\ DOMAIN stack' = DOMAIN stack
         /\ \A i \in DOMAIN stack : stack'[i] = IF i = Len(stack) THEN at ELSE stack[i]
         /\ Len(stack) \in DOMAIN stack
  BY DEF Goto

LEMMA PushPlace ==
  ASSUME stack \in Seq(Places), NEW at \in Places, stack' = Append(stack, at)
  PROVE  /\ stack' \in Seq(Places)
         /\ \A i \in DOMAIN stack : i \in DOMAIN stack' /\ stack'[i] = stack[i]
         /\ \A i \in DOMAIN stack' : i \in DOMAIN stack \/ stack'[i] = at
  OBVIOUS

LEMMA PopPlace ==
  ASSUME stack \in Seq(Places), stack # <<>>, stack' = SubSeq(stack, 1, Len(stack) - 1)
  PROVE  /\ stack' \in Seq(Places)
         /\ \A i \in DOMAIN stack' : i \in DOMAIN stack /\ stack'[i] = stack[i]
         /\ \A i \in DOMAIN stack : i \in DOMAIN stack' \/ stack[i] = stack[Len(stack)]
  OBVIOUS

(* The registers are written, with nothing lost that was raised.           *)
LEMMA WireRaised ==
  ASSUME Raised,
         NEW l \in BOOLEAN, NEW a \in BOOLEAN, NEW on \in BOOLEAN, NEW acked \in BOOLEAN,
         Wire(l, a, on, acked), master' => master, acked \/ (Served => Served'),
         on => main'.pc \notin Unlined, on \/ main'.pc = "line on" => mLine' = "touch"
  PROVE  Raised'
  BY DEF Raised, Wire

(* They are not, and what was raised is pending or served still.            *)
LEMMA StillRaised ==
  ASSUME Raised, UNCHANGED wires, master' => master,
         sirc /\ master' /\ (INT_SIRC_0 \in pending \/ Served) => INT_SIRC_0 \in pending' \/ Served',
         lineOn => main'.pc \notin Unlined, lineOn \/ main'.pc = "line on" => mLine' = "touch"
  PROVE  Raised'
  BY DEF Raised, wires
-----------------------------------------------------------------------------
(* Interrupts.                                                             *)

unchangedByAll == <<main, handlers, mLine, notify, mTimerPeriod, enabled, master>>

(* The stack stays one, and no handler of the timer gets on it.            *)
StackKept ==
  /\ stack' \in Seq(Places)
  /\ (\A i \in DOMAIN stack : stack[i] # "timer") => \A i \in DOMAIN stack' : stack'[i] # "timer"

LEMMA IrqKeeps ==
  ASSUME IInv, StackKept \/ (stack' \in Seq(Places) /\ INT_DEBUG_TIMER_EXP \in enabled),
         UNCHANGED unchangedByAll, told' \subseteq {PcdTimerPeriod}, Raised'
  PROVE  IInv'
  BY DEF IInv, Typed, Registered, Timed, TickTold, StackKept, unchangedByAll

(* A handler that is served goes on to another place.                      *)
LEMMA GotoKeeps ==
  ASSUME stack \in Seq(Places), NEW here \in Places, NEW at \in Places,
         At(here), Goto(at), at # "timer"
  PROVE  /\ StackKept
         /\ here \notin Serving => (Served => Served')
         /\ at \in Serving => Served'
<1> USE DEF At, Top
<1>1. /\ stack' \in Seq(Places) /\ DOMAIN stack' = DOMAIN stack
      /\ \A i \in DOMAIN stack : stack'[i] = IF i = Len(stack) THEN at ELSE stack[i]
      /\ Len(stack) \in DOMAIN stack
  BY GotoPlace
<1> QED
  BY <1>1 DEF StackKept, Served

LEMMA IrqStep == ASSUME IInv, Irq PROVE IInv'
<1> USE DEF unchangedByAll, unchangedByIrq, vic, timer
<1>0. Typed /\ Registered /\ Timed /\ TickTold /\ Raised
  BY DEF IInv
<1>a. stack \in Seq(Places)
  BY <1>0 DEF Typed
<1>b. ("end" \in Places) /\ {"vector", "timer", "sirc", "touch", "clear"} \subseteq Places
      /\ "acknowledge" \in Places /\ "sirc acknowledge" \in Places
  BY DEF Places, Handlers
<1>c. /\ lineOn => main.pc \notin Unlined
      /\ lineOn \/ main.pc = "line on" => mLine = "touch"
      /\ latch \in BOOLEAN /\ armed \in BOOLEAN /\ lineOn \in BOOLEAN
  BY <1>0 DEF Raised
<1>1. ASSUME TakeIrq PROVE IInv'
  <2>0. stack' = Append(stack, "vector")
    BY <1>1 DEF TakeIrq
  <2>1. StackKept /\ (Served => Served')
    BY <2>0, <1>a, <1>b, PushPlace DEF StackKept, Served
  <2>2. Raised'
    BY <1>0, <1>1, <1>c, <2>1, StillRaised DEF TakeIrq
  <2> QED
    BY <1>0, <1>1, <2>1, <2>2, IrqKeeps DEF TakeIrq, TickTold
<1>2. ASSUME Vector PROVE IInv'
  <2>1. PICK source \in pending \cap enabled :
          /\ pending' = pending \ {source}
          /\ Goto(IF HandlerOf(source) = None THEN "end" ELSE HandlerOf(source))
    BY <1>2, Zenon DEF Vector, Cleared
  <2> DEFINE at == IF HandlerOf(source) = None THEN "end" ELSE HandlerOf(source)
  <2>2. at \in Places /\ (at = "timer" => source = INT_DEBUG_TIMER_EXP)
    BY <1>0 DEF Typed, Registered, HandlerOf, Places, Handlers, None
  <2>3. At("vector") /\ UNCHANGED unchangedByAll /\ UNCHANGED <<wires, told>>
    BY <1>2 DEF Vector
  <2> HIDE DEF at
  <2>4. stack' \in Seq(Places)
    BY <2>1, <2>2, <2>3, <1>a, GotoPlace DEF At, at
  <2>5. at # "timer" => StackKept /\ (Served => Served') /\ (at \in Serving => Served')
    BY <2>1, <2>2, <2>3, <1>a, <1>b, GotoKeeps DEF Serving, at
  <2>6. CASE source = INT_SIRC_0
    <3>1. lineOn => at \in Serving
      BY <1>0, <1>c, <2>6 DEF Typed, Registered, HandlerOf, Sources, Serving, at, None
    <3>2. at # "timer"
      BY <2>2, <2>6
    <3>3. Raised'
      BY <1>0, <1>c, <2>3, <2>5, <3>1, <3>2, StillRaised DEF Raised
    <3> QED
      BY <1>0, <2>3, <2>5, <3>2, <3>3, IrqKeeps DEF TickTold
  <2>7. CASE source # INT_SIRC_0 /\ at # "timer"
    <3>1. Raised'
      BY <1>0, <1>c, <2>1, <2>3, <2>5, <2>7, StillRaised
    <3> QED
      BY <1>0, <2>3, <2>5, <2>7, <3>1, IrqKeeps DEF TickTold
  <2>8. CASE at = "timer"
    <3>1. Served => Served'
      BY <2>1, <2>2, <2>3, <1>a, GotoPlace DEF At, Top, Served, Serving, at
    <3>2. INT_SIRC_0 \in pending => INT_SIRC_0 \in pending'
      BY <2>1, <2>2, <2>8
    <3>a. UNCHANGED <<wires, master, main, mLine>>
      BY <2>3
    <3>3. Raised'
      BY <1>0, <1>c, <3>a, <3>1, <3>2, StillRaised
    <3> QED
      BY <1>0, <2>1, <2>2, <2>3, <2>4, <2>8, <3>3, IrqKeeps DEF TickTold
  <2> QED
    BY <2>6, <2>7, <2>8
<1>3. ASSUME TimerInterruptHandler PROVE IInv'
  <2>1. StackKept /\ (Served => Served')
    BY <1>3, <1>a, <1>b, GotoKeeps DEF TimerInterruptHandler, Serving
  <2>2. Raised'
    BY <1>0, <1>3, <1>c, <2>1, StillRaised DEF TimerInterruptHandler
  <2>3. told' \subseteq {PcdTimerPeriod}
    BY <1>0, <1>3, <1>a DEF TimerInterruptHandler, At, Top, Timed, TickTold
  <2> QED
    BY <1>3, <2>1, <2>2, <2>3, IrqKeeps DEF TimerInterruptHandler
<1>4. ASSUME SircInterruptHandler PROVE IInv'
  <2> DEFINE at == IF sirc /\ mLine # None THEN mLine ELSE "end"
  <2>1. /\ at \in Places /\ at # "timer"
        /\ sirc => at = "touch"
    BY <1>0 DEF Typed, Raised, None, Places, Handlers
  <2>2. At("sirc") /\ Goto(at) /\ UNCHANGED unchangedByAll /\ UNCHANGED <<wires, pending, told>>
    BY <1>4 DEF SircInterruptHandler
  <2> HIDE DEF at
  <2>3. StackKept /\ (at \in Serving => Served')
    BY <2>1, <2>2, <1>a, <1>b, GotoKeeps
  <2>4. Raised'
    BY <1>0, <1>c, <2>1, <2>2, <2>3, StillRaised DEF Serving
  <2> QED
    BY <1>0, <2>2, <2>3, <2>4, IrqKeeps DEF TickTold
<1>5. ASSUME TsInterruptHandler PROVE IInv'
  <2>1. StackKept /\ Served'
    BY <1>5, <1>a, <1>b, GotoKeeps DEF TsInterruptHandler, Serving
  <2>2. Raised'
    BY <1>0, <1>5, <1>c, <2>1, StillRaised DEF TsInterruptHandler
  <2> QED
    BY <1>0, <1>5, <2>1, <2>2, IrqKeeps DEF TsInterruptHandler, TickTold
<1>6. ASSUME TsInterruptClear PROVE IInv'
  <2>1. StackKept /\ Served'
    BY <1>6, <1>a, <1>b, GotoKeeps DEF TsInterruptClear, Serving
  <2>2. Wire(FALSE, armed, lineOn, FALSE) /\ UNCHANGED unchangedByAll /\ UNCHANGED told
    BY <1>6 DEF TsInterruptClear, TsAckInterrupt
  <2>3. Raised'
    BY <1>0, <1>c, <2>1, <2>2, WireRaised
  <2> QED
    BY <1>0, <2>1, <2>2, <2>3, IrqKeeps DEF TickTold
<1>7. ASSUME TsInterruptAcknowledge \/ SircAcknowledge PROVE IInv'
  <2>1. StackKept
    BY <1>7, <1>a, <1>b, GotoKeeps DEF TsInterruptAcknowledge, SircAcknowledge
  <2>2. Wire(latch, armed, lineOn, TRUE) /\ UNCHANGED unchangedByAll /\ UNCHANGED told
    BY <1>7 DEF TsInterruptAcknowledge, SircAcknowledge
  <2>3. Raised'
    BY <1>0, <1>c, <2>2, WireRaised
  <2> QED
    BY <1>0, <2>1, <2>2, <2>3, IrqKeeps DEF TickTold
<1>8. ASSUME IrqEnd PROVE IInv'
  <2>1. /\ stack # <<>> /\ stack[Len(stack)] = "end"
        /\ stack' = SubSeq(stack, 1, Len(stack) - 1)
        /\ UNCHANGED unchangedByAll /\ UNCHANGED <<wires, pending, told>>
    BY <1>8 DEF IrqEnd, At, Top, CameIn
  <2>3. StackKept /\ (Served => Served')
    BY <2>1, <1>a, PopPlace DEF StackKept, Served, Serving
  <2>4. Raised'
    BY <1>0, <1>c, <2>1, <2>3, StillRaised
  <2> QED
    BY <1>0, <2>1, <2>3, <2>4, IrqKeeps DEF TickTold
<1> QED
  BY <1>1, <1>2, <1>3, <1>4, <1>5, <1>6, <1>7, <1>8, Zenon DEF Irq
-----------------------------------------------------------------------------
(* The main thread.                                                        *)

(* It steps on while no interrupt is handled, and does not leave, or turns  *)
(* the timer off.                                                          *)
LEMMA MainKeeps ==
  ASSUME IInv, stack = <<>>, UNCHANGED <<stack, told>>,
         DOMAIN main' = {"pc", "client"}, main'.pc \in Pcs,
         handlers' \in [Sources -> Handlers], mLine' \in {None, "touch"},
         Registered', Raised',
         notify' => main'.pc \notin Untimed,
         main'.pc \notin Untimed \cup Off => mTimerPeriod' = PcdTimerPeriod,
         main'.pc \in Off => INT_DEBUG_TIMER_EXP \notin enabled'
  PROVE  IInv'
  BY DEF IInv, Typed, Timed, TickTold

LEMMA StartStep == ASSUME IInv, Start PROVE IInv'
<1> USE DEF Step, Running, unchangedByMain, timer, vic, history
<1>0. Typed /\ Registered /\ Timed /\ Raised
  BY DEF IInv
<1>c. /\ lineOn => main.pc \notin Unlined
      /\ lineOn \/ main.pc = "line on" => mLine = "touch"
      /\ latch \in BOOLEAN /\ armed \in BOOLEAN /\ lineOn \in BOOLEAN
  BY <1>0 DEF Raised
<1> DEFINE Kept == /\ handlers' \in [Sources -> Handlers]
                   /\ \A source \in Sources :
                        handlers'[source] = "timer" => source = INT_DEBUG_TIMER_EXP
           Moves(from, to) == /\ stack = <<>> /\ UNCHANGED <<stack, told, mLine, master>>
                              /\ main.pc = from /\ main'.pc = to /\ DOMAIN main' = {"pc", "client"}
<1>r. ASSUME NEW sources, NEW handler \in Handlers, RegisterInterruptSource(sources, handler),
             handler = "timer" => sources = {INT_DEBUG_TIMER_EXP}
      PROVE  Kept
  BY <1>0, <1>r DEF RegisterInterruptSource, Typed, Registered
<1>t. "timer" \in Handlers /\ "gpio" \in Handlers /\ "sirc" \in Handlers
  BY DEF Handlers
<1>1. ASSUME TimerInitialize \/ TimerDriverSetTimerPeriod \/ TimerPeriodRecorded \/ TimerDriverRegisterHandler
      PROVE  IInv'
  <2>1. UNCHANGED <<stack, told, wires, pending, mLine, master>>
    BY <1>1 DEF TimerInitialize, TimerDriverSetTimerPeriod, TimerPeriodRecorded,
       TimerDriverRegisterHandler, history
  <2>2. \/ TimerInitialize /\ Moves("timer", "timer period")
        \/ TimerDriverSetTimerPeriod /\ Moves("timer period", "timer protocol")
        \/ TimerPeriodRecorded /\ Moves("timer protocol", "core timer")
        \/ TimerDriverRegisterHandler /\ Moves("core timer", "gpio")
    BY <1>0, <1>1, <2>1 DEF TimerInitialize, TimerDriverSetTimerPeriod, TimerPeriodRecorded,
       TimerDriverRegisterHandler, Typed
  <2>3. Kept
    <3>1. CASE TimerInitialize
      BY <1>r, <1>t, <3>1 DEF TimerInitialize
    <3>2. CASE UNCHANGED handlers
      BY <1>0, <3>2 DEF Typed, Registered
    <3> QED
      BY <1>1, <3>1, <3>2 DEF TimerDriverSetTimerPeriod, TimerPeriodRecorded, TimerDriverRegisterHandler
  <2>4. notify' => main'.pc \notin Untimed
    BY <1>0, <2>2 DEF TimerInitialize, TimerDriverSetTimerPeriod, TimerPeriodRecorded,
       TimerDriverRegisterHandler, Timed, Untimed
  <2>5. main'.pc \notin Untimed => mTimerPeriod' = PcdTimerPeriod
    BY <1>0, <2>2 DEF TimerInitialize, TimerDriverSetTimerPeriod, TimerPeriodRecorded,
       TimerDriverRegisterHandler, Timed, Untimed, Recorded, Off
  <2>6. main.pc \in Unlined /\ main'.pc \in Unlined /\ main'.pc \notin Off
    BY <2>2 DEF Unlined, Untimed, Off
  <2>7. Raised'
    BY <1>0, <1>c, <2>1, <2>6, StillRaised DEF Served, Unlined, Untimed
  <2> QED
    BY <1>0, <2>1, <2>2, <2>3, <2>4, <2>5, <2>6, <2>7, MainKeeps DEF Registered, Typed, Pcs
<1>2. ASSUME GpioDxeInitialize \/ SircDxeInitialize PROVE IInv'
  <2>1. UNCHANGED <<stack, told, mLine, master, notify, mTimerPeriod>>
    BY <1>2 DEF GpioDxeInitialize, SircDxeInitialize, history
  <2>2. \/ GpioDxeInitialize /\ Moves("gpio", "sirc")
        \/ SircDxeInitialize /\ Moves("sirc", "probe")
    BY <1>0, <1>2, <2>1 DEF GpioDxeInitialize, SircDxeInitialize, Typed
  <2>3. Kept
    BY <1>2, <1>r, <1>t DEF GpioDxeInitialize, SircDxeInitialize
  <2>4. SircDxeInitialize => handlers'[INT_SIRC_0] = "sirc"
    BY DEF SircDxeInitialize, RegisterInterruptSource, Sources
  <2>5. \E l, a \in BOOLEAN : Wire(l, a, FALSE, FALSE)
    <3>1. CASE GpioDxeInitialize
      BY <1>c, <2>2, <3>1 DEF GpioDxeInitialize, Unlined
    <3>2. CASE SircDxeInitialize
      BY <1>c, <3>2 DEF SircDxeInitialize
    <3> QED
      BY <1>2, <3>1, <3>2
  <2>a. main'.pc # "line on"
    BY <2>2
  <2>6. Raised'
    BY <1>0, <2>1, <2>5, <2>a, WireRaised DEF Served
  <2>7. Registered'
    BY <2>2, <2>3, <2>4 DEF Registered, Unlined
  <2>8. /\ main.pc \notin Untimed \cup Off /\ main'.pc \notin Untimed \cup Off
        /\ main'.pc \in Pcs
    BY <2>2 DEF Unlined, Untimed, Off, Pcs
  <2> QED
    BY <1>0, <2>1, <2>2, <2>3, <2>6, <2>7, <2>8, MainKeeps DEF Timed, Typed
<1>3. ASSUME \/ \E found \in BOOLEAN : TsDetectController(found)
             \/ TsArmInterrupt \/ TsArmEnable \/ SircRegisterLine \/ SircLineEnable
      PROVE  IInv'
  <2>1. /\ stack = <<>> /\ UNCHANGED <<stack, told, handlers, master, notify, mTimerPeriod>>
        /\ DOMAIN main' = {"pc", "client"}
        /\ main.pc \in {"probe", "arm", "enable", "line", "line on"}
        /\ main'.pc \in {"arm", "enable", "line", "line on", "idle"}
        /\ mLine' \in {None, "touch"}
    BY <1>0, <1>3 DEF TsDetectController, TsArmInterrupt, TsArmEnable, SircRegisterLine,
       SircLineEnable, Typed
  <2>2. \E l, a, on \in BOOLEAN :
          /\ Wire(l, a, on, FALSE)
          /\ on \/ main'.pc = "line on" => mLine' = "touch"
    BY <1>0, <1>c, <1>3 DEF TsDetectController, TsArmInterrupt, TsArmEnable, SircRegisterLine,
       SircLineEnable, Typed, Controller, PinLow
  <2>4. Raised'
    BY <1>0, <2>1, <2>2, WireRaised DEF Served, Unlined, Untimed
  <2> QED
    BY <1>0, <2>1, <2>4, MainKeeps DEF Typed, Registered, Timed, Pcs, Unlined, Untimed, Off
<1> QED
  BY <1>1, <1>2, <1>3, Zenon DEF Start

(* Where it is once its drivers have started.                              *)
Started == {"idle", "read", "copy", "forget", "latch", "acknowledge", "return", "power up"}

LEMMA CallsStep == ASSUME IInv, Calls PROVE IInv'
<1> USE DEF Step, Running, unchangedByMain, timer, vic, history
<1>0. Typed /\ Registered /\ Timed /\ Raised
  BY DEF IInv
<1>c. /\ lineOn => main.pc \notin Unlined
      /\ lineOn \/ main.pc = "line on" => mLine = "touch"
      /\ latch \in BOOLEAN /\ armed \in BOOLEAN /\ lineOn \in BOOLEAN
  BY <1>0 DEF Raised
<1> DEFINE Moves == /\ stack = <<>> /\ UNCHANGED <<stack, told, vic, mLine, timer>>
                    /\ DOMAIN main' = {"pc", "client"}
                    /\ main.pc \in Started /\ main'.pc \in Started
           Wires == UNCHANGED <<wires, pending>> \/ \E l, acked \in BOOLEAN : Wire(l, armed, lineOn, acked)
<1>1. ASSUME Moves, Wires PROVE IInv'
  <2>1. CASE UNCHANGED <<wires, pending>>
    <3>1. Raised'
      BY <1>0, <1>c, <1>1, <2>1, StillRaised DEF Started, Served, Unlined, Untimed
    <3> QED
      BY <1>0, <1>1, <3>1, MainKeeps DEF Typed, Registered, Timed, Pcs, Started, Unlined, Untimed, Off
  <2>2. CASE \E l, acked \in BOOLEAN : Wire(l, armed, lineOn, acked)
    <3>1. Raised'
      BY <1>0, <1>c, <1>1, <2>2, WireRaised DEF Started, Served, Unlined, Untimed
    <3> QED
      BY <1>0, <1>1, <3>1, MainKeeps DEF Typed, Registered, Timed, Pcs, Started, Unlined, Untimed, Off
  <2> QED
    BY <1>1, <2>1, <2>2
<1>2. ASSUME \E client \in Clients : Poll(client) PROVE Moves /\ Wires
  BY <1>0, <1>2 DEF Poll, Typed, Started
<1>3. ASSUME TsAbsoluteReset \/ TsSimpleReset PROVE Moves /\ Wires
  BY <1>0, <1>c, <1>3 DEF TsAbsoluteReset, TsSimpleReset, TsResetController, Typed, Started, Controller, PinLow
<1>4. ASSUME NEW ok \in BOOLEAN, TsReadReport(ok) PROVE Moves /\ Wires
  BY <1>0, <1>c, <1>4 DEF TsReadReport, Typed, Started, Controller, PinLow
<1>5. ASSUME CopyAnnounced \/ ForgetAnnounced \/ Return PROVE Moves /\ Wires
  BY <1>0, <1>5 DEF CopyAnnounced, ForgetAnnounced, Return, Typed, Started
<1>6. ASSUME TsAckLatch \/ TsAckSirc PROVE Moves /\ Wires
  BY <1>0, <1>c, <1>6 DEF TsAckLatch, TsAckSirc, Typed, Started
<1>7. ASSUME NEW q, ResetDone(q) PROVE Moves /\ Wires
  BY <1>0, <1>c, <1>7 DEF ResetDone, Typed, Started, Controller, PinLow
<1> QED
  BY <1>1, <1>2, <1>3, <1>4, <1>5, <1>6, <1>7, Zenon DEF Calls

LEMMA ExitStep == ASSUME IInv, TimerExit \/ InterruptExit PROVE IInv'
<1>0. Typed /\ Registered /\ Timed /\ Raised
  BY DEF IInv
<1> USE DEF unchangedByMain, timer, history
<1>1. /\ stack = <<>> /\ UNCHANGED <<stack, told, handlers, mLine, notify, wires>>
      /\ main.pc \in {"idle", "vic off", "timer off"}
  BY DEF TimerExit, InterruptExit, Running
<1>2. DOMAIN main' = {"pc", "client"} /\ main'.pc \in Off \cup {"vic off"}
  BY <1>0 DEF TimerExit, InterruptExit, Typed, Off
<1>3. main'.pc \in Off => INT_DEBUG_TIMER_EXP \notin enabled'
  <2>1. CASE TimerExit
    <3>1. VicBit(INT_DEBUG_TIMER_EXP) = INT_DEBUG_TIMER_EXP
      BY DEF VicBit
    <3> QED
      BY <2>1, <3>1, Zenon DEF TimerExit, DisableInterruptSource
  <2>2. CASE InterruptExit
    BY <2>2 DEF InterruptExit
  <2> QED
    BY <2>1, <2>2
<1>4. main'.pc = "vic off" => mTimerPeriod' = PcdTimerPeriod
  BY <1>0 DEF TimerExit, InterruptExit, Timed, Untimed, Off, Typed
<1>5. Raised'
  <2>1. main.pc # "line on" /\ main'.pc \notin Unlined \cup {"line on"}
    BY <1>1, <1>2 DEF Unlined, Untimed, Off
  <2>2. lineOn => mLine = "touch"
    BY <1>0 DEF Raised
  <2>4. Served' <=> Served
    BY <1>1 DEF Served
  <2> QED
    <3>1. CASE TimerExit
      BY <1>0, <1>1, <2>1, <2>2, <2>4, <3>1, StillRaised DEF TimerExit
    <3>2. CASE InterruptExit
      BY <1>0, <1>1, <2>1, <2>2, <3>2, StillRaised DEF InterruptExit
    <3> QED
      BY <3>1, <3>2
<1>6. main.pc \notin Unlined /\ main'.pc \notin Unlined \cup Untimed /\ main'.pc \in Pcs
  BY <1>1, <1>2 DEF Unlined, Untimed, Off, Pcs
<1> QED
  BY <1>0, <1>1, <1>2, <1>3, <1>4, <1>5, <1>6, MainKeeps DEF Typed, Registered, Timed, Off

LEMMA HardwareStep == ASSUME IInv, Tick \/ \E r \in Reports : Report(r) PROVE IInv'
<1> USE DEF vic, timer, history
<1>0. Raised
  BY DEF IInv
<1>1. UNCHANGED <<main, handlers, mLine, notify, mTimerPeriod, enabled, master, told, stack>>
  BY DEF Tick, Report
<1>2. Raised'
  <2>1. CASE Tick
    <3>1. UNCHANGED wires /\ pending \subseteq pending'
      BY <2>1 DEF Tick
    <3>2. /\ lineOn => main.pc \notin Unlined
          /\ lineOn \/ main.pc = "line on" => mLine = "touch"
      BY <1>0 DEF Raised
    <3> QED
      BY <1>0, <1>1, <3>1, <3>2, StillRaised DEF Served
  <2>2. ASSUME NEW r \in Reports, Report(r) PROVE Raised'
    <3>1. \E l \in BOOLEAN : Wire(l, armed, lineOn, FALSE)
      BY <1>0, <2>2 DEF Report, Controller, PinLow, Raised
    <3>2. /\ lineOn => main.pc \notin Unlined
          /\ lineOn \/ main.pc = "line on" => mLine = "touch"
          /\ armed \in BOOLEAN /\ lineOn \in BOOLEAN
      BY <1>0 DEF Raised
    <3> QED
      BY <1>0, <1>1, <3>1, <3>2, WireRaised DEF Served
  <2> QED
    BY <2>1, <2>2
<1> QED
  BY <1>1, <1>2 DEF IInv, Typed, Registered, Timed, TickTold

LEMMA InvNext == IInv /\ [Next]_vars => IInv'
<1> SUFFICES ASSUME IInv, [Next]_vars PROVE IInv'
  OBVIOUS
<1>1. CASE UNCHANGED vars
  BY <1>1 DEF vars, wires, vic, timer, history, IInv, Typed, Registered, Timed, TickTold, Raised, Served
<1> QED
  BY <1>1, IrqStep, StartStep, CallsStep, ExitStep, HardwareStep, Zenon DEF Next

(* Types, registrations, the timer and what each level of interrupt is at,   *)
(* whatever is interrupted: what the safety of TsInterruptHandler and         *)
(* TimerInterruptHandler rests on.                                          *)
THEOREM TouchInductive == Spec => []IInv
  BY InvInit, InvNext, PTL DEF Spec

(* The core is never told a period other than the one the timer is set to.  *)
THEOREM TicksTold == Spec => []TickTold
<1>1. IInv => TickTold
  BY DEF IInv
<1> QED
  BY <1>1, TouchInductive, PTL

(* No edge is lost between the pin and the handler that looks at it.       *)
THEOREM EdgesKept == Spec => []NoLostEdge
<1>1. IInv => NoLostEdge
  BY DEF IInv, Raised, Served, Serving, NoLostEdge
<1> QED
  BY <1>1, TouchInductive, PTL
-----------------------------------------------------------------------------
(* The movement.                                                           *)

Said == Reports \cup {PowerUp}
Fields == {"ready", "announced", "byInterrupt", "panel", "last", "down"}

(* A report that is about to be read waits.                                *)
Moving ==
  /\ queue \in Seq(Said)
  /\ DOMAIN main = {"pc", "client"} /\ (main.pc = "read" => queue # <<>>)
  /\ DOMAIN ts = Fields /\ ts.panel \in Int /\ ts.last \in Int
  /\ moved \in Int /\ base \in Int
  /\ MovementAddsUp

(* A coordinate is scaled to a number.                                     *)
LEMMA Scaled == \A x \in Xs : TsScale(x) \in Int
<1> SUFFICES ASSUME NEW x \in Xs PROVE TsScale(x) \in Int
  OBVIOUS
<1>1. x \in Int
  BY TouchIrqAssumption
<1> QED
  BY <1>1 DEF TsScale, HTCLEO_TOUCH_X_MIN, HTCLEO_TOUCH_X_MAX, AbsoluteMaxX

LEMMA MovingInit == Init => Moving
  BY DEF Init, Moving, MovementAddsUp, Said, Fields

(* What the steps of a poll do to the device.                              *)
LEMMA PollMoves ==
  ASSUME Moving,
         \/ \E ok \in BOOLEAN : TsReadReport(ok)
         \/ CopyAnnounced \/ ForgetAnnounced \/ Return
  PROVE  Moving'
<1> USE DEF Moving, Fields, history
<1>0. ASSUME \/ \E ok \in BOOLEAN : TsReadReport(ok)
             \/ CopyAnnounced \/ ForgetAnnounced \/ Return
      PROVE  DOMAIN main' = {"pc", "client"} /\ main'.pc # "read"
  BY <1>0 DEF TsReadReport, CopyAnnounced, ForgetAnnounced, Return, Step
<1>1. ASSUME NEW ok \in BOOLEAN, TsReadReport(ok) PROVE Moving'
  <2>1. Head(queue) \in Said /\ Tail(queue) \in Seq(Said)
    BY <1>1 DEF TsReadReport, Step
  <2>2. Head(queue) # PowerUp => TsScale(Head(queue).x) \in Int
    BY <2>1, Scaled DEF Said, Reports
  <2>3. queue' \in Seq(Said)
    BY <1>1, <2>1 DEF TsReadReport, Controller
  <2>4. /\ DOMAIN ts' = Fields /\ ts'.panel \in Int /\ ts'.last = ts.last
        /\ UNCHANGED <<moved, base>>
    BY <1>1, <2>2 DEF TsReadReport
  <2> QED
    BY <1>0, <1>1, <2>3, <2>4 DEF MovementAddsUp
<1>2. ASSUME CopyAnnounced \/ ForgetAnnounced PROVE Moving'
  BY <1>0, <1>2 DEF CopyAnnounced, ForgetAnnounced, MovementAddsUp
<1>3. ASSUME Return PROVE Moving'
  BY <1>0, <1>3 DEF Return, Ends, OtherEnd, MovementAddsUp
<1> QED
  BY <1>1, <1>2, <1>3

LEMMA MovingNext == Moving /\ [Next]_vars => Moving'
<1> SUFFICES ASSUME Moving, [Next]_vars PROVE Moving'
  OBVIOUS
<1> USE DEF history, timer, vic, unchangedByIrq, unchangedByMain
<1>1. ASSUME UNCHANGED <<queue, ts, moved, base>>, DOMAIN main' = {"pc", "client"}, main'.pc # "read" \/ UNCHANGED main
      PROVE  Moving'
  BY <1>1 DEF Moving, MovementAddsUp
<1>2. ASSUME NEW q \in Seq(Said), Controller(q), UNCHANGED <<moved, base>>,
             DOMAIN main' = {"pc", "client"}, main'.pc # "read" \/ (UNCHANGED main /\ q # <<>>),
             DOMAIN ts' = Fields, ts'.panel = ts.panel, ts'.last = ts.last
      PROVE  Moving'
  BY <1>2 DEF Moving, MovementAddsUp, Controller
<1>e. <<>> \in Seq(Said) /\ <<PowerUp>> \in Seq(Said)
  <2>1. PowerUp \in Said
    BY DEF Said
  <2> QED
    BY <2>1
<1>3. CASE UNCHANGED vars \/ Tick
  BY <1>1, <1>3 DEF vars, Tick, Moving
<1>4. ASSUME NEW r \in Reports, Report(r) PROVE Moving'
  <2>1. Append(queue, r) \in Seq(Said) /\ Append(queue, r) # <<>>
    BY DEF Moving, Said
  <2> QED
    BY <1>2, <1>4, <2>1 DEF Report, Moving
<1>5. CASE Irq
  <2>1. CASE TsInterruptHandler
    <3>1. /\ UNCHANGED <<queue, main, moved, base>> /\ DOMAIN ts' = DOMAIN ts
          /\ ts'.panel = ts.panel /\ ts'.last = ts.last
      BY <2>1 DEF TsInterruptHandler, Moving, Fields
    <3> QED
      BY <3>1 DEF Moving, MovementAddsUp
  <2>2. CASE ~TsInterruptHandler
    BY <1>1, <1>5, <2>2 DEF Irq, TakeIrq, Vector, TimerInterruptHandler, SircInterruptHandler,
       TsInterruptClear, TsInterruptAcknowledge, SircAcknowledge, IrqEnd, Moving
  <2> QED
    BY <2>1, <2>2
<1>6. CASE Start
  <2>1. ASSUME NEW found \in BOOLEAN, TsDetectController(found) PROVE Moving'
    BY <1>2, <1>e, <2>1 DEF TsDetectController, Step, Moving, Fields
  <2>2. CASE TimerInitialize \/ TimerDriverSetTimerPeriod \/ TimerPeriodRecorded
             \/ TimerDriverRegisterHandler \/ GpioDxeInitialize \/ SircDxeInitialize
    BY <1>1, <2>2 DEF TimerInitialize, TimerDriverSetTimerPeriod, TimerPeriodRecorded,
       TimerDriverRegisterHandler, GpioDxeInitialize, SircDxeInitialize, Step, Moving
  <2>3. CASE TsArmInterrupt \/ TsArmEnable \/ SircRegisterLine \/ SircLineEnable
    BY <1>1, <2>3 DEF TsArmInterrupt, TsArmEnable, SircRegisterLine, SircLineEnable, Step, Moving
  <2> QED
    BY <1>6, <2>1, <2>2, <2>3, Zenon DEF Start
<1>7. CASE Calls
  <2>1. ASSUME NEW client \in Clients, Poll(client) PROVE Moving'
    <3>1. UNCHANGED <<queue, ts, moved, base>> /\ DOMAIN main' = {"pc", "client"}
          /\ (main'.pc = "read" => queue # <<>>)
      BY <2>1 DEF Poll, PinLow, Moving
    <3> QED
      BY <3>1 DEF Moving, MovementAddsUp
  <2>2. CASE TsAbsoluteReset
    BY <1>2, <1>e, <2>2 DEF TsAbsoluteReset, TsResetController, Moving, Fields
  <2>3. CASE TsSimpleReset
    <3>1. queue' = <<>> /\ DOMAIN main' = {"pc", "client"} /\ main'.pc = "power up"
      BY <2>3 DEF TsSimpleReset, TsResetController, Controller, Moving
    <3>2. /\ DOMAIN ts' = Fields /\ ts'.panel = ts.panel /\ ts'.last = ts.panel
          /\ moved' = 0 /\ base' = ts.panel /\ ts.panel \in Int
      BY <2>3 DEF TsSimpleReset, TsResetController, Moving, Fields
    <3>3. queue' \in Seq(Said)
      BY <1>e, <3>1
    <3>4. MovementAddsUp' /\ moved' \in Int /\ base' \in Int /\ ts'.last \in Int /\ ts'.panel \in Int
      BY <3>2 DEF MovementAddsUp
    <3> QED
      BY <3>1, <3>2, <3>3, <3>4 DEF Moving
  <2>4. CASE TsAckLatch \/ TsAckSirc
    BY <1>1, <2>4 DEF TsAckLatch, TsAckSirc, Step, Moving
  <2>5. ASSUME NEW q \in {<<>>, <<PowerUp>>}, ResetDone(q) PROVE Moving'
    <3>1. q \in Seq(Said)
      BY <1>e
    <3> QED
      BY <1>2, <2>5, <3>1 DEF ResetDone, Step, Moving
  <2> QED
    BY <1>7, <2>1, <2>2, <2>3, <2>4, <2>5, PollMoves, Zenon DEF Calls
<1>8. CASE TimerExit \/ InterruptExit
  BY <1>1, <1>8 DEF TimerExit, InterruptExit, Moving
<1> QED
  BY <1>3, <1>4, <1>5, <1>6, <1>7, <1>8, Zenon DEF Next

(* The movement told by the simple pointer adds up.                        *)
THEOREM MovementTold == Spec => []MovementAddsUp
<1>1. Moving => MovementAddsUp
  BY DEF Moving
<1> QED
  BY <1>1, MovingInit, MovingNext, PTL DEF Spec
=============================================================================
