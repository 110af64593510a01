----------------------------- MODULE CoreClock -------------------------------
(***************************************************************************)
(* acpuclock.c of ClockDxe: the clock of the processor core, which runs     *)
(* from one of two raw sources or from the PLL of the core (SCPLL), and     *)
(* must be stepped aside while that PLL is changed.                        *)
(*                                                                         *)
(* The functions are sequences of accesses of registers, made one by one;  *)
(* the PLL takes its time to change frequency.                             *)
(***************************************************************************)
EXTENDS Integers, Sequences

CONSTANT BootSlots      (* The raw slots a boot loader may leave in use.      *)

ASSUME CoreAssumption == BootSlots \subseteq {0, 1}

VARIABLES
  sel,           (* SPSS_CLK_SEL: the raw slot, and the source.            *)
  cntl,          (* SPSS_CLK_CNTL: the configuration of each slot.         *)
  scpll,         (* The PLL: its mode, its L value, and whether it is      *)
                 (* changing frequency (SCPLL_CTL, FSM_CTL_EXT, STATUS).   *)
  speed          (* The place of current_speed in the table, 0 for NULL.   *)

coreVars == <<sel, cntl, scpll, speed>>

Raw == "SRC_RAW"
Scpll == "SRC_SCPLL"
Axi == "axi"           (* The source acpuclk_find_speed calls 2.           *)
ModemPll == "CLK_MODEM_PLL"
Tcxo == "CLK_TCXO"
Dead == "dead"         (* A source that does not run.                      *)

PowerDown == "PLLMODE_POWERDOWN"
Standby == "PLLMODE_STANDBY"
Normal == "PLLMODE_NORMAL"

(* acpu_freq_tbl.                                                          *)
FreqTable ==
  [i \in 1 .. 18 |->
     IF i = 1 THEN [khz |-> 245000, sel |-> Raw, l |-> 0]
     ELSE [khz |-> 38400 * (8 + i), sel |-> Scpll, l |-> 8 + i]]

(* The state a boot loader may leave behind.                               *)
CoreInit ==
  /\ sel \in [slot : BootSlots, src : {Raw, Scpll, Axi}]
  /\ cntl = [i \in {0, 1} |-> IF sel = [slot |-> i, src |-> Raw] THEN Tcxo ELSE Dead]
  /\ scpll \in [mode : {PowerDown, Normal}, l : {20}, busy : {FALSE}]
  /\ sel.src = Scpll => scpll.mode = Normal
  /\ speed = 0
-----------------------------------------------------------------------------
(* The functions, as sequences of accesses.                                *)
Do(op) == [op |-> op, arg |-> ""]
DoWith(op, arg) == [op |-> op, arg |-> arg]

(* select_clock: the slot that is not in use is configured, and then used. *)
SelectClock(src) ==
  (IF src = Raw THEN <<Do("configure"), Do("swap")>> ELSE <<>>) \o <<DoWith("source", src)>>

ScpllPowerDown == <<Do("wait"), DoWith("mode", Standby), DoWith("mode", PowerDown)>>

Hop(l) == <<DoWith("target", l), Do("start"), Do("wait")>>

(* scpll_set_freq, after its first wait: a PLL that is not running is      *)
(* started at 384 MHz.                                                     *)
SetFreq(l) ==
  (IF scpll.mode = Normal THEN <<>>
   ELSE <<DoWith("mode", Standby), DoWith("target", 10), Do("start"), Do("wait")>>) \o Hop(l)

ClampedL(l) == IF l > 33 THEN 33 ELSE IF l < 10 THEN 10 ELSE l

ScpllSetFreq(l) == <<Do("wait"), DoWith("set_freq", ClampedL(l))>>

(* Mutant: the PLL is changed while the core runs from it.                 *)
NeverAside == <<>>

(* The step aside to the standby clock, unless the core is on it.          *)
StepAside == IF FreqTable[speed].sel = Raw THEN <<>> ELSE SelectClock(Raw)

(* acpuclk_set_rate to entry i of the table.                               *)
SetRate(i) ==
  (IF FreqTable[i].sel = Scpll
   THEN StepAside \o ScpllSetFreq(FreqTable[i].l) \o SelectClock(Scpll)
   ELSE IF FreqTable[speed].sel = Scpll
   THEN SelectClock(Raw) \o SelectClock(Raw) \o ScpllPowerDown
   ELSE SelectClock(Raw)) \o <<DoWith("speed", i)>>

(* The end of acpuclk_init, with entry i.                                  *)
RampUp(i) ==
  <<DoWith("speed", i)>> \o SelectClock(Raw) \o ScpllPowerDown \o
  ScpllSetFreq(FreqTable[i].l) \o SelectClock(Scpll)
-----------------------------------------------------------------------------
(* The accesses.                                                           *)
ConfigureSlot(a) ==
  /\ a.op = "configure" /\ cntl' = [cntl EXCEPT ![1 - sel.slot] = ModemPll]
  /\ UNCHANGED <<sel, scpll, speed>>

SwapSlot(a) ==
  /\ a.op = "swap" /\ sel' = [sel EXCEPT !.slot = 1 - @]
  /\ UNCHANGED <<cntl, scpll, speed>>

SelectSource(a) ==
  /\ a.op = "source" /\ sel' = [sel EXCEPT !.src = a.arg]
  /\ UNCHANGED <<cntl, scpll, speed>>

WaitForSwitch(a) ==
  /\ a.op = "wait" /\ ~scpll.busy
  /\ UNCHANGED coreVars

WriteMode(a) ==
  /\ a.op = "mode" /\ scpll' = [scpll EXCEPT !.mode = a.arg]
  /\ UNCHANGED <<sel, cntl, speed>>

WriteTarget(a) ==
  /\ a.op = "target" /\ scpll' = [scpll EXCEPT !.l = a.arg]
  /\ UNCHANGED <<sel, cntl, speed>>

(* SCPLL_CTL is written with PLLMODE_NORMAL, which starts the change.      *)
StartSwitch(a) ==
  /\ a.op = "start" /\ scpll' = [scpll EXCEPT !.mode = Normal, !.busy = TRUE]
  /\ UNCHANGED <<sel, cntl, speed>>

RecordSpeed(a) ==
  /\ a.op = "speed" /\ speed' = a.arg
  /\ UNCHANGED <<sel, cntl, scpll>>

Access(a) ==
  \/ ConfigureSlot(a) \/ SwapSlot(a) \/ SelectSource(a)
  \/ WaitForSwitch(a) \/ WriteMode(a) \/ WriteTarget(a) \/ StartSwitch(a)
  \/ RecordSpeed(a)

(* The PLL has changed its frequency.                                      *)
SwitchDone ==
  /\ scpll.busy /\ scpll' = [scpll EXCEPT !.busy = FALSE]
  /\ UNCHANGED <<sel, cntl, speed>>

(* acpuclk_find_speed, which knows no other sources: it spins for ever.    *)
FindsSpeed == sel.src # Raw
FindSpeed == IF sel.src = Scpll THEN scpll.l * 38400 ELSE 128000
=============================================================================
