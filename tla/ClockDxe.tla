------------------------------ MODULE ClockDxe -------------------------------
(***************************************************************************)
(* ClockDxe with the libraries below it: its start brings the core to its   *)
(* boot frequency, after it has asked the modem for the PLL that the core   *)
(* stands on meanwhile; then it switches clocks, and MsmPcomClientLib pins  *)
(* and regulators, by calls to the modem.                                  *)
(*                                                                         *)
(* A program is a sequence of operations yet to do: accesses of the core's  *)
(* registers (CoreClock) and calls (Modem).  The main program runs one      *)
(* after the other, and the callback of a timer one of its own in between.  *)
(***************************************************************************)
EXTENDS Modem, CoreClock, FiniteSets, SequencesExt

CONSTANTS
  Clocks,        (* The clocks callers name.                               *)
  Rates,         (* The rates they ask for, of clocks and of the core.     *)
  Instances,     (* Instances of the SD controller that callers name.      *)
  Boot,          (* The place of the boot frequency in the table, 17 + 1.  *)
  MaxPrograms    (* Bound on the programs and callbacks after the start.   *)

VARIABLES
  installed,     (* The clock protocol has been installed.                 *)
  goal,          (* History: what was last asked of the regulator.         *)
  ran            (* History: how many programs and callbacks there were.   *)

Locals == [c \in Contexts |-> IF c = Main THEN {"id", "on", "level", "speed"} ELSE {"config", "disable"}]

ASSUME ClockAssumption ==
  /\ Places = Clocks \cup Locals[Main] \cup Locals[Callback]
  /\ Clocks \cap (Locals[Main] \cup Locals[Callback]) = {}
  /\ Boot \in 2 .. 18

vars == <<modemVars, coreVars, todo, installed, goal, ran>>

(* ClocksLookup as FillClocksLookup leaves it.                             *)
Filled ==
  [ICODEC_RX_CLK |-> 50, ICODEC_TX_CLK |-> 52, ECODEC_CLK |-> 42, SDAC_MCLK |-> 64,
   IMEM_CLK |-> 55, GRP_CLK |-> 56, ADM_CLK |-> 19, UART1DM_CLK |-> 78,
   UART2DM_CLK |-> 80, VFE_AXI_CLK |-> 24, VFE_MDC_CLK |-> 40, VFE_CLK |-> 41,
   MDC_CLK |-> 53, SPI_CLK |-> 95, MDP_CLK |-> 9, SDC1_CLK |-> 66, SDC2_CLK |-> 67,
   SDC1_PCLK |-> 17, SDC2_PCLK |-> 16]

LookedUp(id) == IF id \in DOMAIN Filled THEN Filled[id] ELSE -1

(* The rates above which CotullaClkSetRate takes the next speed.           *)
Steps(id) ==
  CASE id \in {"ICODEC_RX_CLK", "ICODEC_TX_CLK"} ->
         {2048000, 2822400, 3072000, 4096000, 5644800, 6144000, 8192000, 11289600}
    [] id = "SDAC_MCLK" -> {256000, 352800, 384000, 512000, 705600, 768000, 1024000, 1411200}
    [] id \in {"UART1DM_CLK", "UART2DM_CLK"} ->
         {3840000, 7372800, 7680000, 14745600, 15360000, 16000000, 24000000, 32000000,
          40000000, 48000000, 51200000, 56000000, 58982400, 61440000}
    [] id = "ECODEC_CLK" -> {128000, 2048000}
    [] id = "SPI_CLK" -> {960000, 4800000, 9600000, 15360000}
    [] id \in {"SDC1_CLK", "SDC2_CLK"} ->
         {144000, 400000, 49152000, 50000000} \cup {n * 5000000 : n \in 1 .. 9}
    [] OTHER -> {}

(* The speeds of the clocks that have only certain rates.                  *)
Fixed(id) ==
  CASE id = "VFE_MDC_CLK" -> <<<<96000000, 37>>, <<48000000, 32>>, <<24000000, 22>>,
                               <<12000000, 14>>, <<6000000, 6>>, <<3000000, 1>>>>
    [] id = "VFE_CLK" -> <<<<36000000, 1>>, <<48000000, 2>>, <<64000000, 3>>,
                           <<78000000, 4>>, <<96000000, 5>>>>
    [] OTHER -> <<>>

(* The speed for a rate, or 0 if CotullaClkSetRate makes no call.          *)
SpeedOf(id, rate) ==
  IF Steps(id) # {} THEN 1 + Cardinality({s \in Steps(id) : rate > s})
  ELSE LET at == {i \in DOMAIN Fixed(id) : Fixed(id)[i][1] = rate}
       IN IF at = {} THEN 0 ELSE Fixed(id)[CHOOSE i \in at : TRUE][2]
-----------------------------------------------------------------------------
Call(command, p1, p2) == DoWith("call", [command |-> command, p1 |-> p1, p2 |-> p2])
CallUntil(command, p1, p2) == DoWith("until", [command |-> command, p1 |-> p1, p2 |-> p2])
Let(values) == DoWith("let", values)

TlmmConfig == "PCOM_RPC_GPIO_TLMM_CONFIG_EX"

(* The pins of each instance of the SD controller.                         *)
Pins == <<6, 6, 10, 6>>

(* The check of acpuclk_init that the modem PLL is on.                     *)
CheckMpll == <<Do("check")>>

(* acpuclk_init: the modem PLL is requested and dropped again, each time   *)
(* with arguments of its own.                                              *)
AcpuclkInit ==
  <<Do("find"), Call(PllRequest, "id", "on"), Let([id |-> 0, on |-> 0]), Call(PllRequest, "id", "on")>> \o
  CheckMpll \o RampUp(Boot)

Init ==
  /\ ModemInit /\ CoreInit
  /\ mem = [p \in Places |-> IF p \in Clocks THEN LookedUp(p) ELSE IF p = "on" THEN 1 ELSE 0]
  /\ todo = [c \in Contexts |-> IF c = Main THEN AcpuclkInit \o <<Do("install")>> ELSE <<>>]
  /\ installed = FALSE
  /\ goal = [level |-> 0, on |-> 0] /\ ran = 0
-----------------------------------------------------------------------------
(* Context c goes on with its program.                                     *)
Next1(c) == todo' = [todo EXCEPT ![c] = Tail(@)]
At(c, op) == todo[c] # <<>> /\ Head(todo[c]).op = op /\ Runs(c) /\ call[c].pc = "idle"
Stays == UNCHANGED <<app, modem, last>>

(* A call begins, runs, and has come back.                                 *)
Begin(c) ==
  /\ At(c, "call") \/ At(c, "until")
  /\ LET a == Head(todo[c]).arg IN Called(c, a.command, a.p1, a.p2)
  /\ Stays /\ UNCHANGED <<mem, coreVars, todo, installed, goal, ran>>

InCall(c) == ProcComm(c) /\ UNCHANGED <<coreVars, todo, installed, goal, ran>>

(* With their function the local variables are gone.                       *)
Leaves(c) ==
  mem' = [p \in Places |-> IF p \in Locals[c] /\ (Len(todo[c]) = 1 \/ todo[c][2].op = "let")
                          THEN 0 ELSE mem[p]]

(* Mutant: the call is repeated when it has succeeded.                     *)
RepeatsWrong(op) == op = "until" /\ app.status = Success

(* APP_STATUS is read once more after the call, and decides whether it is  *)
(* made again.                                                             *)
Repeats(op) == op = "until" /\ app.status # Success

(* The loop ends on the success of a call that came in between.            *)
TakenForDone(c) ==
  Head(todo[c]).op = "until" /\ app.status = Success /\ call[c].got.status # Success

Back(c) ==
  /\ Runs(c) /\ call[c].pc = "back"
  /\ call' = [call EXCEPT ![c] = NoCall] /\ last' = NoAnswer
  /\ IF Repeats(Head(todo[c]).op) THEN UNCHANGED <<todo, mem>> ELSE Next1(c) /\ Leaves(c)
  /\ disturbed' = (disturbed \/ TakenForDone(c))
  /\ UNCHANGED <<app, modem, renamed, coreVars, installed, goal, ran>>

(* The accesses of the core's registers.                                   *)
CoreAccess ==
  /\ todo[Main] # <<>> /\ Runs(Main) /\ Access(Head(todo[Main])) /\ Next1(Main)
  /\ Stays /\ UNCHANGED <<call, mem, history, installed, goal, ran>>

ScpllSetsFreq ==
  /\ At(Main, "set_freq")
  /\ todo' = [todo EXCEPT ![Main] = SetFreq(Head(@).arg) \o Tail(@)]
  /\ Stays /\ UNCHANGED <<call, mem, history, coreVars, installed, goal, ran>>

(* Where the boot loader has left a raw clock the search never ends.       *)
FindsAtStart ==
  /\ At(Main, "find") /\ FindsSpeed /\ Next1(Main)
  /\ Stays /\ UNCHANGED <<call, mem, history, coreVars, installed, goal, ran>>

(* The arguments of a call get their values.                               *)
Lets(c) ==
  /\ At(c, "let") /\ Next1(c)
  /\ LET values == Head(todo[c]).arg
     IN mem' = [p \in Places |-> IF p \in DOMAIN values THEN values[p] ELSE mem[p]]
  /\ Stays /\ UNCHANGED <<call, history, coreVars, installed, goal, ran>>

(* Without the PLL the code stays here for ever.                           *)
FindsMpllOn ==
  /\ At(Main, "check") /\ mpll /\ Next1(Main)
  /\ Stays /\ UNCHANGED <<call, mem, history, coreVars, installed, goal, ran>>

Installs ==
  /\ At(Main, "install") /\ Next1(Main) /\ installed' = TRUE
  /\ Stays /\ UNCHANGED <<call, mem, history, coreVars, goal, ran>>

PllSwitches == SwitchDone /\ Stays /\ UNCHANGED <<call, mem, history, todo, installed, goal, ran>>
-----------------------------------------------------------------------------
(* The functions callers call.                                             *)

(* The main program begins one.                                            *)
Start(program) ==
  /\ installed /\ todo[Main] = <<>> /\ Runs(Main)
  /\ ran < MaxPrograms /\ ran' = ran + 1
  /\ todo' = [todo EXCEPT ![Main] = program]
  /\ Stays /\ UNCHANGED <<mem, call, history, coreVars, installed>>

(* ClkEnable and ClkDisable: the entry of the table itself is the argument.*)
ClkEnable(id) ==
  mem[id] # -1 /\ Start(<<Call("PCOM_CLK_REGIME_SEC_ENABLE", id, Null)>>) /\ UNCHANGED goal

ClkDisable(id) ==
  mem[id] # -1 /\ Start(<<Call("PCOM_CLK_REGIME_SEC_DISABLE", id, Null)>>) /\ UNCHANGED goal

(* ClkSetRate with CotullaClkSetRate.                                      *)
ClkSetRate(id, rate) ==
  /\ SpeedOf(id, rate) # 0
  /\ Start(<<Let([speed |-> SpeedOf(id, rate)]),
             Call("PCOM_CLK_REGIME_SEC_SEL_SPEED", id, "speed")>>)
  /\ UNCHANGED goal

(* acpuclk_set_rate: a rate not in the table changes nothing.              *)
AcpuclkSetRate(rate) ==
  /\ installed /\ rate \div 1000 # FreqTable[speed].khz
  /\ \E i \in DOMAIN FreqTable : FreqTable[i].khz = rate \div 1000 /\ Start(SetRate(i))
  /\ UNCHANGED goal

(* pcom_gpio_tlmm_config and the others of MsmPcomLib.                     *)
Pcom(command, x, y) == <<Let([id |-> x, on |-> y]), Call(command, "id", "on")>>

(* The functions of MsmPcomClientLib that make one such call.              *)
PcomClient(command) == Start(Pcom(command, 1, 1)) /\ UNCHANGED goal

(* Those for the clocks of a card make it if there is such an instance.    *)
PcomSdcardClk(command, instance) == instance \in DOMAIN Pins /\ PcomClient(command)

(* pcom_sdcard_gpio_config: one pin after the other.                       *)
PcomSdcardGpioConfig(instance) ==
  /\ instance \in DOMAIN Pins
  /\ Start([k \in 1 .. 2 * Pins[instance] |->
              IF k % 2 = 1 THEN Let([id |-> (k + 1) \div 2, on |-> 0]) ELSE Call(TlmmConfig, "id", "on")])
  /\ UNCHANGED goal

(* pcom_sdcard_power.                                                      *)
PcomSdcardPower(state) ==
  /\ Start(<<Let([id |-> 1, on |-> state]), CallUntil(Switch, "id", "on")>>)
  /\ goal' = [goal EXCEPT !.on = state]

(* pcom_vreg_control: the level is set before the regulator is turned on.  *)
PcomVregControl(level, state) ==
  /\ Start(<<Let([id |-> 1, level |-> level, on |-> state])>> \o
           (IF state = 1 THEN <<CallUntil(SetLevel, "id", "level")>> ELSE <<>>) \o
           <<CallUntil(Switch, "id", "on")>>)
  /\ goal' = [level |-> IF state = 1 THEN level ELSE goal.level, on |-> state]

(* PlatformReboot and ResetShutdown, with which LibResetSystem ends: the    *)
(* code waits for ever for what the modem does then.                       *)
LibResetSystem(command, reason) ==
  Start(<<Let([id |-> 1]), Call(command, reason, Null), Do("CpuDeadLoop")>>) /\ UNCHANGED goal

(* The callback of ChargingDxe's timer finds the bus stuck: msm_set_i2c_mux*)
(* makes two calls, for the two pins.                                      *)
SetI2cMux ==
  /\ installed /\ todo[Callback] = <<>>
  /\ ran < MaxPrograms /\ ran' = ran + 1
  /\ todo' = [todo EXCEPT ![Callback] =
                <<Let([config |-> 95, disable |-> 0]), Call(TlmmConfig, "config", "disable"),
                  Let([config |-> 96, disable |-> 0]), Call(TlmmConfig, "config", "disable")>>]
  /\ Stays /\ UNCHANGED <<mem, call, history, coreVars, installed, goal>>

Goes(c) == Begin(c) \/ Lets(c) \/ InCall(c) \/ Back(c)

MainGoes ==
  \/ Goes(Main)
  \/ CoreAccess \/ ScpllSetsFreq \/ FindsAtStart \/ FindsMpllOn \/ Installs

Next ==
  \/ ModemNext /\ UNCHANGED <<coreVars, todo, installed, goal, ran>>
  \/ PllSwitches
  \/ MainGoes
  \/ Goes(Callback)
  \/ \E id \in Clocks : ClkEnable(id) \/ ClkDisable(id) \/ \E rate \in Rates : ClkSetRate(id, rate)
  \/ \E rate \in Rates : AcpuclkSetRate(rate)
  \/ \E command \in Commands : PcomClient(command) \/ \E n \in Instances : PcomSdcardClk(command, n)
  \/ \E n \in Instances : PcomSdcardGpioConfig(n)
  \/ \E state \in {0, 1} : PcomSdcardPower(state) \/ PcomVregControl(1, state)
  \/ LibResetSystem("PCOM_RESET_CHIP", "id") \/ LibResetSystem("PCOM_POWER_DOWN", Null)
  \/ SetI2cMux

(* The modem comes up and answers; a timer leaves the main program time.   *)
Fairness ==
  /\ WF_vars(ModemUp /\ UNCHANGED <<coreVars, todo, installed, goal, ran>>)
  /\ WF_vars(Take /\ UNCHANGED <<coreVars, todo, installed, goal, ran>>)
  /\ WF_vars(Answer /\ UNCHANGED <<coreVars, todo, installed, goal, ran>>)
  /\ WF_vars(Goes(Callback))
  /\ SF_vars(InCall(Main))

Spec == Init /\ [][Next]_vars /\ Fairness
-----------------------------------------------------------------------------
(* ClkEnable, ClkDisable and CotullaClkSetRate hand the entry of           *)
(* ClocksLookup itself to msm_proc_comm, which writes the first word of the *)
(* answer there.  An entry stops naming its clock only if a request for     *)
(* that very clock was answered, other than by plain failure, with another  *)
(* first word, or was crossed by a call of the callback: what is left in    *)
(* the words by a failure, by earlier calls, by calls for other clocks or   *)
(* by calls that the callback makes before or after does not reach it.      *)
TableKept == \A id \in Clocks : LookedUp(id) \in renamed \/ mem[id] = LookedUp(id)

(* When pcom_vreg_control or pcom_sdcard_power has returned, after any      *)
(* number of failures and repetitions, the regulator is as it was asked     *)
(* for, and at its level.  Three things that the code does not guard        *)
(* against, each of which breaks this, are left out (disturbed): an answer  *)
(* other than plain failure to a request for the regulator that replaces    *)
(* the arguments of the next; a call of the callback that crosses such a    *)
(* request; and a loop that ends because APP_STATUS, read again, tells the  *)
(* success of a call the callback has made since the loop's own returned.   *)
(* Calls of the callback at any other time, one that fails between return   *)
(* and reading included, do no harm.                                        *)
RailSet ==
  todo[Main] = <<>> /\ ~disturbed =>
    rail.on = goal.on /\ (goal.on = 1 => rail.level = goal.level)

(* Between any two accesses the source the core runs from runs itself: the *)
(* PLL is neither stopped nor changed under it, and the modem PLL is not   *)
(* taken before it is up; and when nothing is left to do, current_speed is *)
(* what the registers say (acpuclk_set_rate, acpuclk_init).                *)
CoreSafe ==
  /\ sel.src = Scpll => scpll.mode = Normal /\ ~scpll.busy
  /\ sel.src = Raw => cntl[sel.slot] = Tcxo \/ (cntl[sel.slot] = ModemPll /\ mpll)
  /\ installed /\ todo[Main] = <<>> =>
       /\ sel.src = FreqTable[speed].sel
       /\ sel.src = Scpll => FindSpeed = FreqTable[speed].khz
=============================================================================
