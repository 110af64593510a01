------------------------------- MODULE Modem ---------------------------------
(***************************************************************************)
(* MsmPcomLib: calls to the modem processor through four words of shared    *)
(* memory, an interrupt to it, and loops that wait for its answer.         *)
(*                                                                         *)
(* A call takes pointers to its two arguments, which the answer replaces.   *)
(* The code takes no lock: a timer callback (ChargingDxe, whose transfer    *)
(* recovers the I2C bus) may run between any two statements of the main     *)
(* program and make a call of its own; the main program is suspended until  *)
(* it returns.  What the modem does is not in the repository: it takes the  *)
(* words when it is interrupted, and answers later.                        *)
(***************************************************************************)
EXTENDS Integers, Sequences

CONSTANTS
  Places,        (* Variables that arguments of calls point to.            *)
  Commands,      (* The other commands than those named below.             *)
  Null,          (* The null pointer.                                      *)
  Garbage        (* What the modem may answer instead of what it was asked.*)

VARIABLES
  app,           (* APP_COMMAND, APP_STATUS, APP_DATA1 and APP_DATA2.      *)
  ready,         (* MDM_STATUS is PCOM_READY.                              *)
  irq,           (* MSM_A2M_INT(6).                                        *)
  work,          (* What the modem has taken to do, or Nothing.            *)
  mpll,          (* The modem PLL runs.                                    *)
  rail,          (* A voltage regulator: its level, and whether it is on.  *)
  call,          (* The calls of msm_proc_comm under way.                  *)
  todo,          (* What each context has yet to do.                       *)
  mem,           (* The values of the Places.                              *)
  last,          (* History: what the modem answered last, and to what.    *)
  renamed,       (* History: the clock numbers for which a request was     *)
                 (* answered with another first word, or was crossed.      *)
  disturbed      (* History: a request for the regulator was answered in   *)
                 (* other words, was crossed, or was taken for done when   *)
                 (* another call was.                                      *)

modem == <<ready, irq, work, mpll, rail>>
history == <<renamed, disturbed>>
modemVars == <<app, modem, call, mem, last, history>>

Idle == "PCOM_CMD_IDLE"
Done == "PCOM_CMD_DONE"
PllRequest == "PCOM_CLKCTL_RPC_PLL_REQUEST"
SetLevel == "PCOM_VREG_SET_LEVEL"
Switch == "PCOM_VREG_SWITCH"
ForRegulator == {SetLevel, Switch}
ForClock == {"PCOM_CLK_REGIME_SEC_ENABLE", "PCOM_CLK_REGIME_SEC_DISABLE", "PCOM_CLK_REGIME_SEC_SEL_SPEED"}

(* The regulator that rail is, among those that requests may name.         *)
Regulator == 1

Success == "PCOM_CMD_SUCCESS"
Fail == "PCOM_CMD_FAIL"
OtherFail == "PCOM_CMD_FAIL_SERVER_NOT_YET_READY"
InvalidStatus == "PCOM_INVALID_STATUS"

Main == "main"
Callback == "callback"
Contexts == {Main, Callback}

ASSUME ModemAssumption ==
  /\ Null \notin Places
  /\ Commands \cap ({Idle, Done, PllRequest} \cup ForRegulator \cup ForClock) = {}

Nothing == [command |-> Idle, data1 |-> 0, data2 |-> 0]
NoAnswer == [asked |-> Nothing, status |-> InvalidStatus, data1 |-> 0, data2 |-> 0]

(* A call; asked, got and crossed are history.                             *)
NoCall == [pc |-> "idle", command |-> Idle, p1 |-> Null, p2 |-> Null,
           asked |-> Nothing, got |-> NoAnswer, ret |-> 0, crossed |-> FALSE]

(* The main program stands still while a callback runs.                    *)
Runs(c) == c = Callback \/ todo[Callback] = <<>>

(* A callback now would find the words in use by the main program.         *)
InUse == call[Main].pc \in {"data1", "data2", "notify", "done", "status", "read1", "read2"}

ModemInit ==
  /\ app = [command |-> Idle, status |-> InvalidStatus, data1 |-> 0, data2 |-> 0]
  /\ ready = FALSE /\ irq = FALSE /\ work = Nothing
  /\ mpll \in BOOLEAN
  /\ rail = [level |-> 0, on |-> 0]
  /\ call = [c \in Contexts |-> NoCall]
  /\ last = NoAnswer
  /\ renamed = {} /\ disturbed = FALSE
-----------------------------------------------------------------------------
(* The modem.                                                              *)

(* It comes up, and brings its PLL up once.                                *)
ModemUp ==
  /\ ~ready /\ ready' = TRUE
  /\ UNCHANGED <<app, irq, work, mpll, rail, call, mem, last, history>>

(* It is interrupted and takes the words, if there is a command in them.   *)
Take ==
  /\ ready /\ irq /\ work = Nothing
  /\ irq' = FALSE
  /\ work' = IF app.command \in {Idle, Done} THEN Nothing
             ELSE [command |-> app.command, data1 |-> app.data1, data2 |-> app.data2]
  /\ UNCHANGED <<app, ready, mpll, rail, call, mem, last, history>>

(* What it answers need not be what it was asked: a query is answered in the*)
(* very words (pcom_clock_get_rate), and nothing says what other requests  *)
(* leave there.                                                            *)
Answers(data) == {data, Garbage}

(* After plain failure nobody reads the words.                             *)
Differs(status, data, word) == status # Fail /\ word # data

Reply(status, data1, data2) ==
  /\ app' = [command |-> Done, status |-> status, data1 |-> data1, data2 |-> data2]
  /\ last' = [asked |-> work, status |-> status, data1 |-> data1, data2 |-> data2]
  /\ work' = Nothing
  /\ renamed' = renamed \cup
       {n \in {work.data1} : work.command \in ForClock /\ Differs(status, n, data1)}
  /\ disturbed' = (disturbed \/ (/\ work.command \in ForRegulator
                                /\ \/ Differs(status, work.data1, data1)
                                   \/ Differs(status, work.data2, data2)))

(* It has done what was asked.  The PLL stays up once it is up.            *)
Succeed(data1, data2) ==
  /\ Reply(Success, data1, data2)
  /\ mpll' = (mpll \/ (work.command = PllRequest /\ work.data2 = 1))
  /\ rail' = CASE work.command = SetLevel /\ work.data1 = Regulator -> [rail EXCEPT !.level = work.data2]
               [] work.command = Switch /\ work.data1 = Regulator -> [rail EXCEPT !.on = work.data2]
               [] OTHER -> rail
  /\ UNCHANGED <<ready, irq, call, mem>>

(* It has not, which it may say in several ways.                           *)
Refuse(status, data1, data2) ==
  /\ Reply(status, data1, data2)
  /\ UNCHANGED <<ready, irq, mpll, rail, call, mem>>

Answer ==
  /\ work # Nothing
  /\ \/ Refuse(Fail, Garbage, Garbage)
     \/ Refuse(OtherFail, work.data1, work.data2) \/ Refuse(OtherFail, Garbage, Garbage)
     \/ \E data1 \in Answers(work.data1), data2 \in Answers(work.data2) : Succeed(data1, data2)

ModemNext ==
  \/ ModemUp
  \/ Take
  \/ Answer
-----------------------------------------------------------------------------
(* msm_proc_comm, statement by statement.                                  *)

ValueAt(p) == IF p = Null THEN 0 ELSE mem[p]

(* Statement pc has been executed in c, and next follows.                  *)
Step(c, pc, next) ==
  /\ Runs(c) /\ call[c].pc = pc
  /\ call' = [call EXCEPT ![c].pc = next]

(* A call begins; one in a callback may cross with one of the main program.*)
Called(c, command, p1, p2) ==
  LET crossing == c = Callback /\ InUse
      new == [pc |-> "ready", command |-> command, p1 |-> p1, p2 |-> p2,
              asked |-> [command |-> command, data1 |-> ValueAt(p1), data2 |-> ValueAt(p2)],
              got |-> NoAnswer, ret |-> 0, crossed |-> crossing]
  IN /\ call' = IF crossing THEN [call EXCEPT ![c] = new, ![Main].crossed = TRUE]
                ELSE [call EXCEPT ![c] = new]
     /\ renamed' = renamed \cup
          {n \in {call[Main].asked.data1} : crossing /\ call[Main].command \in ForClock}
     /\ disturbed' = (disturbed \/ (crossing /\ call[Main].command \in ForRegulator))

(* Mutant: the loop ends with any command in the word.                     *)
DoneAtOnce == TRUE

(* The condition pcom_wait_for waits for.                                  *)
ModemIsDone == app.command = Done

(* msm_pcom_wait_for_modem_ready.                                          *)
WaitForModemReady(c) == ready /\ Step(c, "ready", "command") /\ UNCHANGED <<app, modem, mem, last, history>>

WriteCommand(c) ==
  /\ Step(c, "command", "data1") /\ app' = [app EXCEPT !.command = call[c].command]
  /\ UNCHANGED <<modem, mem, last, history>>

WriteData1(c) ==
  /\ Step(c, "data1", "data2") /\ app' = [app EXCEPT !.data1 = ValueAt(call[c].p1)]
  /\ UNCHANGED <<modem, mem, last, history>>

WriteData2(c) ==
  /\ Step(c, "data2", "notify") /\ app' = [app EXCEPT !.data2 = ValueAt(call[c].p2)]
  /\ UNCHANGED <<modem, mem, last, history>>

(* Mutant: the modem is not interrupted.                                   *)
NeverNotified(c) == Step(c, "notify", "done") /\ UNCHANGED <<app, modem, mem, last, history>>

(* notify_modem.                                                           *)
NotifyModem(c) ==
  /\ Step(c, "notify", "done") /\ irq' = TRUE
  /\ UNCHANGED <<app, ready, work, mpll, rail, mem, last, history>>

(* pcom_wait_for.                                                          *)
WaitForDone(c) ==
  /\ ModemIsDone /\ Step(c, "done", "status")
  /\ UNCHANGED <<app, modem, mem, last, history>>

(* Mutant: the arguments take whatever is in the words.                    *)
KeepsNothing(status) == FALSE

(* Only plain failure keeps the arguments as they were.                    *)
Keeps(status) == status = Fail

ReadStatus(c) ==
  /\ Runs(c) /\ call[c].pc = "status"
  /\ call' = [call EXCEPT ![c].pc = IF Keeps(app.status) THEN "clear" ELSE "read1",
                          ![c].got = last,
                          ![c].ret = IF Keeps(app.status) THEN -1 ELSE 0]
  /\ UNCHANGED <<app, modem, mem, last, history>>

Stored(p, value) == IF p = Null THEN mem ELSE [mem EXCEPT ![p] = value]

ReadData1(c) ==
  /\ Step(c, "read1", "read2") /\ mem' = Stored(call[c].p1, app.data1)
  /\ UNCHANGED <<app, modem, last, history>>

ReadData2(c) ==
  /\ Step(c, "read2", "clear") /\ mem' = Stored(call[c].p2, app.data2)
  /\ UNCHANGED <<app, modem, last, history>>

ClearCommand(c) ==
  /\ Step(c, "clear", "back") /\ app' = [app EXCEPT !.command = Idle]
  /\ UNCHANGED <<modem, mem, last, history>>

ProcComm(c) ==
  \/ WaitForModemReady(c)
  \/ WriteCommand(c) \/ WriteData1(c) \/ WriteData2(c) \/ NotifyModem(c)
  \/ WaitForDone(c)
  \/ ReadStatus(c) \/ ReadData1(c) \/ ReadData2(c) \/ ClearCommand(c)
-----------------------------------------------------------------------------
(* A call that has come back without having crossed with another was about *)
(* the very command and arguments the modem took together and answered,    *)
(* and what its arguments point to is that answer: nothing of an earlier   *)
(* call is in it, and the modem never sees half of a request               *)
(* (msm_proc_comm).                                                        *)
OwnAnswer ==
  \A c \in Contexts :
    call[c].pc = "back" /\ ~call[c].crossed =>
      /\ call[c].got.asked = call[c].asked
      /\ call[c].ret = 0 /\ call[c].p1 # Null => mem[call[c].p1] = call[c].got.data1
      /\ call[c].ret = 0 /\ call[c].p2 # Null => mem[call[c].p2] = call[c].got.data2

(* Every call comes back, however long the modem takes to come up and to   *)
(* answer, unless it crosses with another one (pcom_wait_for has no        *)
(* limit of time).                                                         *)
CallEnds ==
  \A c \in Contexts : call[c].pc = "ready" ~> (call[c].pc = "back" \/ call[c].crossed)
=============================================================================
