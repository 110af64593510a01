------------------------------ MODULE TouchIrq ------------------------------
(***************************************************************************)
(* From a finger to a pointer: the interrupt of the touch controller goes    *)
(* through the pin controller (TLMM), the second-level controller (SircDxe)   *)
(* and the vectored one (InterruptDxe) to TouchDxe, while callers poll the    *)
(* same report by three protocols and the timer (TimerDxe) interrupts both.   *)
(*                                                                         *)
(* The drivers start one after the other on the main thread; interrupts are  *)
(* taken between any two of its accesses, and the timer handler lets further *)
(* ones in before it returns.  One axis is modelled, Y is treated as X is.   *)
(* The hardware is external: a report that waits holds the pin low, and the  *)
(* falling edge is latched; INT_SIRC_0 is raised when a line of the          *)
(* second-level controller rises, and again when a line that was             *)
(* acknowledged is still high.                                              *)
(***************************************************************************)
EXTENDS Integers, Sequences

CONSTANTS
  Xs,            (* What the controller may report for X.                  *)
  MaxReports,    (* Bound on the reports of the controller.                *)
  MaxTicks,      (* Bound on the interrupts of the timer.                  *)
  MaxResets      (* Bound on the resets by callers.                        *)

ASSUME TouchIrqAssumption ==
  /\ Xs \subseteq 0 .. 4095 /\ MaxReports \in Nat /\ MaxTicks \in Nat /\ MaxResets \in Nat

VARIABLES
  queue,         (* Reports waiting in the controller.                     *)
  latch,         (* The pin's bit of GPIO_INT_STATUS_3.                    *)
  armed,         (* The pin's bit of GPIO_INT_EN_3.                        *)
  lineOn,        (* GPIO_GROUP1 in SIRC_INT_ENABLE.                        *)
  sirc,          (* GPIO_GROUP1 in SIRC_IRQ0_STATUS.                       *)
  pending,       (* Sources latched by the VIC.                            *)
  enabled,       (* Sources of VIC_INT_EN.                                 *)
  master,        (* VIC_INT_MASTEREN.                                      *)
  service,       (* An interrupt is in service.                            *)
  dgt,           (* DGT_ENABLE.                                            *)
  handlers,      (* gRegisteredInterruptHandlers.                          *)
  mLine,         (* The handler of GPIO_GROUP1.                            *)
  mTimerPeriod,  (* Period that the handler is told.                       *)
  notify,        (* mTimerNotifyFunction is set.                           *)
  ts,            (* TOUCH_DEVICE.                                          *)
  main,          (* The main thread.                                       *)
  stack,         (* Where each interrupt being handled is, the innermost   *)
                 (* last.                                                  *)
  masked,        (* The processor takes no interrupt.                      *)
  left,          (* What the bounds leave of reports, ticks and resets.    *)
  moved,         (* History: the movement told since the last reset.       *)
  base,          (* History: where it began.                               *)
  told           (* History: periods the notify function was told.         *)

wires == <<latch, armed, lineOn, sirc>>
vic == <<enabled, master, handlers>>
timer == <<dgt, mTimerPeriod, notify>>
history == <<moved, base, told>>
vars == <<queue, wires, pending, vic, service, timer, mLine, ts, main, stack, masked, left, history>>

INT_DEBUG_TIMER_EXP == 8
INT_SIRC_0 == 9
INT_GPIO_GROUP1 == 73
INT_GPIO_GROUP2 == 74
Sources == {INT_DEBUG_TIMER_EXP, INT_SIRC_0, INT_GPIO_GROUP1, INT_GPIO_GROUP2}
None == "none"
PcdTimerPeriod == 10000
HTCLEO_TOUCH_X_MIN == 6
HTCLEO_TOUCH_X_MAX == 576
AbsoluteMaxX == 479
PowerUp == [contact |-> 85]       (* What the controller says after power up.  *)
Clients == {"poll", "absolute", "simple"}
-----------------------------------------------------------------------------
(* The wires.                                                              *)

PinLow(q) == q # <<>>

(* The second-level status and INT_SIRC_0, once the latch, the two enable    *)
(* bits and an acknowledgement are as given.                                *)
Wire(l, a, on, acked) ==
  LET high == on /\ ((l /\ a) \/ (sirc /\ ~acked))
  IN /\ latch' = l /\ armed' = a /\ lineOn' = on /\ sirc' = high
     /\ pending' = IF high /\ (~sirc \/ acked) THEN pending \cup {INT_SIRC_0} ELSE pending

(* The queue of the controller becomes q.                                  *)
Controller(q) ==
  /\ queue' = q
  /\ Wire(latch \/ (~PinLow(queue) /\ PinLow(q)), armed, lineOn, FALSE)

Powered == main.pc # "power up"

Report(r) ==
  /\ Powered /\ left.reports > 0
  /\ Controller(Append(queue, r))
  /\ left' = [left EXCEPT !.reports = @ - 1]
  /\ UNCHANGED <<vic, service, timer, mLine, ts, main, stack, masked, history>>

Tick ==
  /\ dgt /\ left.ticks > 0
  /\ pending' = pending \cup {INT_DEBUG_TIMER_EXP}
  /\ left' = [left EXCEPT !.ticks = @ - 1]
  /\ UNCHANGED <<queue, wires, vic, service, timer, mLine, ts, main, stack, masked, history>>
-----------------------------------------------------------------------------
(* Interrupts: IrqInterruptHandler and the handlers it calls.              *)

Top == stack[Len(stack)]
Goto(at) == stack' = [stack EXCEPT ![Len(stack)] = at]
At(at) == stack # <<>> /\ Top = at
unchangedByIrq == <<queue, vic, timer, mLine, main, left, moved, base>>

(* The processor takes a pending interrupt.                                *)
TakeIrq ==
  /\ master /\ ~masked /\ ~service /\ pending \cap enabled # {}
  /\ stack' = Append(stack, "vector")
  /\ masked' = TRUE
  /\ UNCHANGED <<wires, pending, service, ts, told, unchangedByIrq>>

HandlerOf(source) == IF source \in DOMAIN handlers THEN handlers[source] ELSE None

(* The vector is read and its source cleared before the handler runs.      *)
Cleared(source) == pending \ {source}

Vector ==
  /\ At("vector")
  /\ \E source \in pending \cap enabled :
       /\ service' = TRUE
       /\ pending' = Cleared(source)
       /\ Goto(IF HandlerOf(source) = None THEN "end" ELSE HandlerOf(source))
  /\ UNCHANGED <<wires, ts, masked, told, unchangedByIrq>>

(* TimerInterruptHandler ends its interrupt, and restores the task priority *)
(* that lets the next one in, before it returns.                           *)
TimerInterruptHandler ==
  /\ At("timer")
  /\ told' = IF notify THEN told \cup {mTimerPeriod} ELSE told
  /\ service' = FALSE /\ masked' = FALSE
  /\ Goto("end")
  /\ UNCHANGED <<wires, pending, ts, unchangedByIrq>>

(* SircInterruptHandler reads the status once.                             *)
SircInterruptHandler ==
  /\ At("sirc")
  /\ Goto(IF sirc /\ mLine # None THEN mLine ELSE "end")
  /\ UNCHANGED <<wires, pending, service, ts, masked, told, unchangedByIrq>>

(* Mutant: the latch is left to be cleared by the next read.               *)
AcksNothing == latch
(* TsAckInterrupt clears the latch of the pin.                             *)
TsAckInterrupt == FALSE

(* TsInterruptHandler: the touch is announced and its latch cleared, then   *)
(* the second level is acknowledged.                                       *)
TsInterruptHandler ==
  /\ At("touch")
  /\ \/ latch /\ ts' = [ts EXCEPT !.announced = TRUE] /\ Goto("clear")
     \/ ~latch /\ ts' = ts /\ Goto("acknowledge")
  /\ UNCHANGED <<wires, pending, service, masked, told, unchangedByIrq>>

TsInterruptClear ==
  /\ At("clear")
  /\ Wire(TsAckInterrupt, armed, lineOn, FALSE)
  /\ Goto("acknowledge")
  /\ UNCHANGED <<service, ts, masked, told, unchangedByIrq>>

TsInterruptAcknowledge ==
  /\ At("acknowledge")
  /\ Wire(latch, armed, lineOn, TRUE)
  /\ Goto("sirc acknowledge")
  /\ UNCHANGED <<service, ts, masked, told, unchangedByIrq>>

(* SircInterruptHandler acknowledges the lines that it handled, again.     *)
SircAcknowledge ==
  /\ At("sirc acknowledge")
  /\ Wire(latch, armed, lineOn, TRUE)
  /\ Goto("end")
  /\ UNCHANGED <<service, ts, masked, told, unchangedByIrq>>

(* Mutant: the source is cleared after its handler instead.                *)
ClearedLate == pending \ {INT_SIRC_0}

(* What came in while the handler ran stays pending.                       *)
CameIn == pending

(* The end of IrqInterruptHandler, and the return from the exception.      *)
IrqEnd ==
  /\ At("end")
  /\ service' = FALSE /\ masked' = FALSE
  /\ stack' = SubSeq(stack, 1, Len(stack) - 1)
  /\ pending' = CameIn
  /\ UNCHANGED <<wires, ts, told, unchangedByIrq>>

Irq ==
  \/ TakeIrq \/ Vector \/ TimerInterruptHandler \/ SircInterruptHandler
  \/ TsInterruptHandler \/ TsInterruptClear \/ TsInterruptAcknowledge
  \/ SircAcknowledge \/ IrqEnd
-----------------------------------------------------------------------------
(* The main thread: the drivers start, then callers poll.                  *)

Running == stack = <<>>       (* No interrupt is being handled.             *)
Step(from, to) == Running /\ main.pc = from /\ main' = [main EXCEPT !.pc = to]
unchangedByMain == <<master, service, stack, masked>>

(* The VIC has 64 sources; the bit of a higher one is that of another.     *)
VicBit(source) == IF source > 31 THEN 32 + (source % 32) ELSE source

RegisterInterruptSource(sources, handler) ==
  /\ \A source \in sources : handlers[source] = None
  /\ handlers' = [source \in Sources |-> IF source \in sources THEN handler ELSE handlers[source]]
  /\ enabled' = enabled \cup {VicBit(source) : source \in sources}

DisableInterruptSource(source) == enabled' = enabled \ {VicBit(source)}

(* TimerInitialize: the timer is stopped, its handler registered, ...      *)
TimerInitialize ==
  /\ Step("timer", "timer period")
  /\ dgt' = FALSE /\ mTimerPeriod' = 0
  /\ RegisterInterruptSource({INT_DEBUG_TIMER_EXP}, "timer")
  /\ UNCHANGED <<queue, wires, pending, notify, mLine, ts, left, history, unchangedByMain>>

(* ... and the timer started and its source enabled, ...                   *)
TimerDriverSetTimerPeriod ==
  /\ Step("timer period", "timer protocol")
  /\ dgt' = TRUE /\ enabled' = enabled \cup {INT_DEBUG_TIMER_EXP}
  /\ UNCHANGED <<queue, wires, pending, handlers, mTimerPeriod, notify, mLine, ts, left, history, unchangedByMain>>

(* Mutant: the count of milliseconds is recorded.                          *)
TimerCount == PcdTimerPeriod \div 10000

(* ... its period being recorded after that, before the protocol of the     *)
(* timer is installed.                                                     *)
Recorded == PcdTimerPeriod

TimerPeriodRecorded ==
  /\ Step("timer protocol", "core timer")
  /\ mTimerPeriod' = Recorded
  /\ UNCHANGED <<queue, wires, pending, enabled, handlers, dgt, notify, mLine, ts, left, history, unchangedByMain>>

(* TimerDriverRegisterHandler, which the core calls then.                  *)
TimerDriverRegisterHandler ==
  /\ Step("core timer", "gpio")
  /\ notify' = TRUE
  /\ UNCHANGED <<queue, wires, pending, enabled, handlers, dgt, mTimerPeriod, mLine, ts, left, history, unchangedByMain>>

(* GpioDxeInitialize.                                                      *)
GpioDxeInitialize ==
  /\ Step("gpio", "sirc")
  /\ Wire(FALSE, FALSE, lineOn, FALSE)
  /\ RegisterInterruptSource({INT_GPIO_GROUP1, INT_GPIO_GROUP2}, "gpio")
  /\ UNCHANGED <<queue, timer, mLine, ts, left, history, unchangedByMain>>

(* SircDxeInitialize; without its protocol TouchDxe does not start.        *)
SircDxeInitialize ==
  /\ RegisterInterruptSource({INT_SIRC_0}, "sirc")
  /\ Wire(latch, armed, FALSE, FALSE)
  /\ Step("sirc", "probe")
  /\ UNCHANGED <<queue, timer, mLine, ts, left, history, unchangedByMain>>

(* TouchDxeInitialize up to its protocols: the controller is reset, and     *)
(* detected by what it says after power up.                                *)
TsDetectController(found) ==
  /\ Step("probe", IF found THEN "arm" ELSE "idle")
  /\ Controller(<<>>)
  /\ ts' = [ts EXCEPT !.ready = found]
  /\ UNCHANGED <<vic, timer, mLine, left, history, unchangedByMain>>

(* TsArmInterrupt: a report that waits already is no edge any more.        *)
TsArmInterrupt ==
  /\ Step("arm", "enable")
  /\ Wire(FALSE, armed, lineOn, FALSE)
  /\ UNCHANGED <<queue, vic, timer, mLine, ts, left, history, unchangedByMain>>

TsArmEnable ==
  /\ Step("enable", "line")
  /\ Wire(latch, TRUE, lineOn, FALSE)
  /\ UNCHANGED <<queue, vic, timer, mLine, ts, left, history, unchangedByMain>>

(* SircRegisterLine of GPIO_GROUP1, disabled until its handler is set.     *)
SircRegisterLine ==
  /\ Step("line", "line on")
  /\ mLine' = "touch"
  /\ Wire(latch, armed, FALSE, FALSE)
  /\ UNCHANGED <<queue, vic, timer, ts, left, history, unchangedByMain>>

SircLineEnable ==
  /\ Step("line on", "idle")
  /\ Wire(latch, armed, TRUE, FALSE)
  /\ UNCHANGED <<queue, vic, timer, mLine, ts, left, history, unchangedByMain>>

Start ==
  \/ TimerInitialize \/ TimerDriverSetTimerPeriod \/ TimerPeriodRecorded
  \/ TimerDriverRegisterHandler \/ GpioDxeInitialize \/ SircDxeInitialize
  \/ \E found \in BOOLEAN : TsDetectController(found)
  \/ TsArmInterrupt \/ TsArmEnable \/ SircRegisterLine \/ SircLineEnable
-----------------------------------------------------------------------------
(* The calls of TouchDxe's three protocols.                                *)

(* TsScale, to the largest coordinate rather than to the resolution.       *)
TsScale(value) ==
  IF value <= HTCLEO_TOUCH_X_MIN THEN 0
  ELSE IF value >= HTCLEO_TOUCH_X_MAX THEN AbsoluteMaxX - 1
  ELSE ((value - HTCLEO_TOUCH_X_MIN) * (AbsoluteMaxX - 1))
         \div (HTCLEO_TOUCH_X_MAX - HTCLEO_TOUCH_X_MIN)

(* Mutant: a read by another protocol moves the place that the movement is  *)
(* counted from.                                                           *)
MovesLast(t) == [t EXCEPT !.last = t.panel]

(* What the end of a poll leaves, by other protocols than the simple one.  *)
OtherEnd(t) == t

(* The call ends.  TsSimpleGetState tells the movement since the last one,  *)
(* whatever the poll has found; its callers want a state.                  *)
Ends(t) ==
  IF main.client = "simple"
  THEN /\ ts' = [t EXCEPT !.last = t.panel]
       /\ moved' = moved + t.panel - t.last
  ELSE ts' = OtherEnd(t) /\ UNCHANGED moved

(* TsPollReport finds the pin, ...                                         *)
Poll(client) ==
  /\ Running /\ main.pc = "idle"
  /\ main' = [main EXCEPT !.client = client, !.pc = IF ts.ready /\ PinLow(queue) THEN "read" ELSE "return"]
  /\ UNCHANGED <<queue, wires, pending, vic, timer, mLine, ts, left, history, unchangedByMain>>

(* ... reads a report by I2C, which may fail or bring no report, ...       *)
TsReadReport(ok) ==
  LET report == ok /\ Head(queue) # PowerUp
  IN /\ Step("read", IF report THEN "copy" ELSE "return")
     /\ IF ok THEN Controller(Tail(queue)) ELSE UNCHANGED <<queue, wires, pending>>
     /\ ts' = IF report
              THEN [ts EXCEPT !.panel = TsScale(Head(queue).x), !.down = Head(queue).points # 0]
              ELSE ts
     /\ UNCHANGED <<vic, timer, mLine, left, history, unchangedByMain>>

(* ... notes whether it was announced, ...                                 *)
CopyAnnounced ==
  /\ Step("copy", "forget")
  /\ ts' = [ts EXCEPT !.byInterrupt = ts.announced]
  /\ UNCHANGED <<queue, wires, pending, vic, timer, mLine, left, history, unchangedByMain>>

ForgetAnnounced ==
  /\ Running /\ main.pc = "forget"
  /\ ts' = [ts EXCEPT !.announced = FALSE]
  /\ main' = [main EXCEPT !.pc = IF PinLow(queue) THEN "latch" ELSE "return"]
  /\ UNCHANGED <<queue, wires, pending, vic, timer, mLine, left, history, unchangedByMain>>

(* ... and drops the edge of a further report that waits already.          *)
TsAckLatch ==
  /\ Step("latch", "acknowledge")
  /\ Wire(FALSE, armed, lineOn, FALSE)
  /\ UNCHANGED <<queue, vic, timer, mLine, ts, left, history, unchangedByMain>>

TsAckSirc ==
  /\ Step("acknowledge", "return")
  /\ Wire(latch, armed, lineOn, TRUE)
  /\ UNCHANGED <<queue, vic, timer, mLine, ts, left, history, unchangedByMain>>

Return ==
  /\ Step("return", "idle")
  /\ Ends(ts)
  /\ UNCHANGED <<queue, wires, pending, vic, timer, mLine, left, base, told, unchangedByMain>>

(* TsResetController, after which the device is t: the power of the         *)
(* controller is cut, and what it had to say is gone; ...                  *)
TsResetController(t) ==
  /\ Running /\ main.pc = "idle" /\ ts.ready
  /\ left.resets > 0 /\ left' = [left EXCEPT !.resets = @ - 1]
  /\ main' = [main EXCEPT !.pc = "power up"]
  /\ Controller(<<>>)
  /\ ts' = [t EXCEPT !.down = FALSE, !.announced = FALSE, !.byInterrupt = FALSE]
  /\ UNCHANGED <<vic, timer, mLine, told, unchangedByMain>>

TsAbsoluteReset == TsResetController(ts) /\ UNCHANGED <<moved, base>>

TsSimpleReset ==
  /\ TsResetController([ts EXCEPT !.last = ts.panel])
  /\ moved' = 0 /\ base' = ts.panel

(* ... it comes back with something to say, or in silence, and is enabled, *)
(* or not: the call fails without a further change.                        *)
ResetDone(q) ==
  /\ Step("power up", "idle")
  /\ Controller(q)
  /\ UNCHANGED <<vic, timer, mLine, ts, left, history, unchangedByMain>>

(* ExitBootServices: the events of TimerDxe and InterruptDxe, either first. *)
TimerExit ==
  /\ Running /\ main.pc \in {"idle", "vic off"}
  /\ main' = [main EXCEPT !.pc = IF main.pc = "idle" THEN "timer off" ELSE "off"]
  /\ dgt' = FALSE /\ mTimerPeriod' = 0
  /\ DisableInterruptSource(INT_DEBUG_TIMER_EXP)
  /\ UNCHANGED <<queue, wires, pending, handlers, notify, mLine, ts, left, history, unchangedByMain>>

InterruptExit ==
  /\ Running /\ main.pc \in {"idle", "timer off"}
  /\ main' = [main EXCEPT !.pc = IF main.pc = "idle" THEN "vic off" ELSE "off"]
  /\ enabled' = {} /\ master' = FALSE /\ pending' = {}
  /\ UNCHANGED <<queue, wires, handlers, timer, mLine, ts, left, history, service, stack, masked>>

Calls ==
  \/ \E client \in Clients : Poll(client)
  \/ TsAbsoluteReset \/ TsSimpleReset
  \/ \E ok \in BOOLEAN : TsReadReport(ok)
  \/ CopyAnnounced \/ ForgetAnnounced \/ TsAckLatch \/ TsAckSirc \/ Return
  \/ \E q \in {<<>>, <<PowerUp>>} : ResetDone(q)
-----------------------------------------------------------------------------
(* A finger, or, at the lowest X, none.                                    *)
Reports == {r \in [x : Xs, points : {0, 1}] : r.points = 0 => \A x \in Xs : r.x <= x}

(* InterruptDxe has started, and the touch controller has power.           *)
Init ==
  /\ queue = <<PowerUp>>
  /\ latch = FALSE /\ armed = FALSE /\ lineOn = FALSE /\ sirc = FALSE
  /\ pending = {} /\ enabled = {0, 32} /\ master = TRUE /\ service = FALSE
  /\ dgt = FALSE /\ handlers = [source \in Sources |-> None] /\ mLine = None
  /\ mTimerPeriod = 0 /\ notify = FALSE
  /\ ts = [ready |-> FALSE, announced |-> FALSE, byInterrupt |-> FALSE,
           panel |-> 0, last |-> 0, down |-> FALSE]
  /\ main = [pc |-> "timer", client |-> "poll"]
  /\ stack = <<>> /\ masked = FALSE
  /\ left = [reports |-> MaxReports, ticks |-> MaxTicks, resets |-> MaxResets]
  /\ moved = 0 /\ base = 0 /\ told = {}

Next ==
  \/ \E r \in Reports : Report(r)
  \/ Tick \/ Irq \/ Start \/ Calls \/ TimerExit \/ InterruptExit

(* Interrupts are taken, and the main thread runs when none is handled; a   *)
(* read by I2C does not fail for ever.                                     *)
Fairness ==
  /\ WF_vars(Irq) /\ WF_vars(Start \/ Calls)
  /\ SF_vars(TsReadReport(TRUE))

Spec == Init /\ [][Next]_vars /\ Fairness
-----------------------------------------------------------------------------
(* Whichever of a poll, an interrupt and the controller comes first, an edge *)
(* that is latched while the way up is open is going to be looked at:       *)
(* INT_SIRC_0 is pending, or a handler that will read or acknowledge has    *)
(* begun (IrqInterruptHandler, TsInterruptHandler, TsPollReport).           *)
NoLostEdge ==
  latch /\ armed /\ lineOn /\ master =>
    \/ INT_SIRC_0 \in pending
    \/ \E i \in DOMAIN stack : stack[i] \in {"sirc", "touch", "clear", "acknowledge", "sirc acknowledge"}

(* What the simple pointer has told adds up to the way since its last reset,*)
(* though two other protocols read the same reports (TsSimpleGetState).     *)
MovementAddsUp == base + moved = ts.last

(* The core is never told a period that its timer was not set to, although *)
(* the timer runs before the period is recorded (TimerDriverSetTimerPeriod).*)
TickTold == told \subseteq {PcdTimerPeriod}

(* However interrupts come, nested or again and again, the main thread gets *)
(* to read every report that waits, until the firmware is left              *)
(* (TsInterruptHandler must clear what it was called for).                 *)
PollsKeepUp == []<>(queue = <<>> \/ main.pc \in {"timer off", "vic off", "off"} \/ ~ts.ready)
=============================================================================
