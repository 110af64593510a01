------------------------------- MODULE I2CBus -------------------------------
(***************************************************************************)
(* The I2C master driver, GPLDrivers/I2CDxe/I2CDxe.c.                      *)
(*                                                                         *)
(* One global record, dev, describes the transfer in progress.  It is set  *)
(* up and torn down by msm_i2c_xfer and advanced byte by byte by           *)
(* msm_i2c_interrupt_locked, which runs both as the interrupt handler and  *)
(* as a direct call of msm_i2c_xfer.  Nothing protects it: the callers run *)
(* at several task priority levels (a touch or MicroP call of the          *)
(* application, ChargingDxe's timer callback at TPL_NOTIFY), and a higher  *)
(* level may enter msm_i2c_xfer between any two of the steps a lower one   *)
(* takes below: around the first poll, after dev.msg is set, before and    *)
(* inside the direct call of the handler, and after it.                    *)
(*                                                                         *)
(* The controller and the slave are external: modelled from the registers  *)
(* the driver reads and writes and from the comments that describe them.   *)
(* A pending interrupt of an enabled source is taken before the next       *)
(* instruction of thread code; a poll loop gives up only when neither the  *)
(* controller nor the handler can make progress (200 reads cover over 1 ms *)
(* and a byte takes 25 us at the 400 kHz of i2c_pdata).  As an interrupt   *)
(* the handler is one step.  Called directly it can be preempted after its *)
(* check of dev.msg, and what it does with the NULL it then finds is       *)
(* LostUses.  The write of an address and the dev.pos++ that follows are    *)
(* one step (a byte takes 25 us), and so is the tail after them, which     *)
(* does nothing in a direct call: the buffer has just been filled.         *)
(* ClkEnable and ClkDisable of I2C_CLK do nothing in ClockDxe and are left  *)
(* out.                                                                    *)
(***************************************************************************)
EXTENDS Integers, Sequences

CONSTANTS
  Levels,      (* Task priority levels that call the driver: 1 .. Levels.  *)
  Retries,     (* MSM_I2C_READ_RETRY_TIMES = MSM_I2C_WRITE_RETRY_TIMES.    *)
  ReadLens,    (* Lengths of the buffers callers read into.                *)
  WriteLens,   (* Lengths of the buffers callers write.                    *)
  MaxFlush,    (* Bound on the stop requests the controller ignores.       *)
  MaxCalls     (* Driver calls of one run of the callback: 3 in the code.  *)

ASSUME BusAssumption ==
  /\ Levels \in Nat \ {0}
  /\ Retries \in Nat /\ MaxFlush \in Nat /\ MaxCalls \in Nat
  /\ ReadLens \subseteq Nat \ {0} /\ WriteLens \subseteq Nat \ {0}

VARIABLES
  dev,    (* static struct msm_i2c_dev dev, and the static int timeout.    *)
  hw,     (* The controller's registers and the bus it drives.             *)
  irq,    (* INT_PWB_I2C at the interrupt controller.                      *)
  xfer    (* The call each level is in: its program counter and locals.    *)

vars == <<dev, hw, irq, xfer>>

Ctx == 1 .. Levels
Nobody == 0

ERROR == -1
ERR_NOT_READY == -3
ERR_TIMED_OUT == -13

Write(n) == <<[rd |-> FALSE, len |-> n]>>
Read(n) == <<[rd |-> TRUE, len |-> n]>>

(* The message lists callers pass: msm_i2c_write and microp_i2c_write, the *)
(* bare read of TsReadReport, msm_i2c_read and microp_i2c_read.            *)
Messages ==
  {Write(n) : n \in WriteLens} \cup {Read(n) : n \in ReadLens}
    \cup {Write(1) \o Read(n) : n \in ReadLens \cup {1}}

(* What each level calls and how often it retries: the bare read of a touch *)
(* report never does.  The levels above the lowest run ChargingDxe's        *)
(* callback, which reads registers of the DS2746 and sets the MicroP's LED. *)
CallsOf(c) ==
  {[msgs |-> Write(n), tries |-> Retries] : n \in WriteLens}
    \cup {[msgs |-> Write(1) \o Read(n), tries |-> Retries] :
             n \in IF c = 1 THEN ReadLens ELSE {1}}
    \cup {[msgs |-> Read(n), tries |-> 0] : n \in IF c = 1 THEN ReadLens ELSE {}}

TotalBytes(msgs) == msgs[1].len + (IF Len(msgs) > 1 THEN msgs[2].len ELSE 0)

NoByte == [kind |-> "none", rd |-> FALSE, last |-> FALSE, own |-> Nobody]
Byte(kind, rd, last, own) ==
  [kind |-> kind, rd |-> rd, last |-> last, own |-> own]

IdleBus ==
  [act |-> FALSE, wr |-> NoByte, reading |-> FALSE, rd |-> FALSE,
   stop |-> FALSE, err |-> FALSE, stuck |-> FALSE]

IdleDev ==
  [own |-> Nobody, idx |-> 0, rem |-> 0, pos |-> 0, cnt |-> 0, ret |-> 0,
   needFlush |-> FALSE, flushCnt |-> 0, timedOut |-> FALSE]

(* A level outside the driver.                                             *)
Idle == [pc |-> "idle", msgs |-> <<>>, ret |-> 0, late |-> FALSE, tries |-> 0,
         moved |-> 0, cut |-> "none", calls |-> 0]

(* dev.msg dereferenced.                                                   *)
Msg(d) == xfer[d.own].msgs[d.idx]
Num(c) == Len(xfer[c].msgs)
-----------------------------------------------------------------------------
(* msm_i2c_interrupt_locked, as a function of dev d and of the registers h. *)

(* msm_i2c_fill_write_buffer, when the write buffer is empty: `more' is     *)
(* its result.                                                              *)
FillWriteBuffer(d, h) ==
  CASE d.pos < 0 ->
         [d |-> [d EXCEPT !.pos = 0],
          h |-> [h EXCEPT !.act = TRUE, !.wr = Byte("addr", Msg(d).rd, FALSE, d.own)],
          more |-> TRUE]
    [] d.pos >= 0 /\ ~Msg(d).rd /\ d.cnt > 0 ->
         [d |-> [d EXCEPT !.pos = @ + 1, !.cnt = @ - 1],
          h |-> [h EXCEPT !.act = TRUE,
                          !.wr = Byte("data", FALSE, d.cnt = 1 /\ d.rem = 1, d.own)],
          more |-> TRUE]
    [] OTHER -> [d |-> d, h |-> h, more |-> FALSE]

(* I2C_WRITE_DATA_LAST_BYTE during a read.  The request may be ignored; one *)
(* that finds another outstanding is an invalid write.                      *)
StopRequests(d, h) ==
  {IF h.stop THEN [h EXCEPT !.err = TRUE] ELSE [h EXCEPT !.stop = TRUE]}
    \cup (IF d.flushCnt < MaxFlush THEN {h} ELSE {})

(* The byte in the read buffer belongs to the message.                      *)
Expected(d) == Msg(d).rd /\ d.pos >= 0 /\ d.cnt > 0

(* msm_i2c_read_buffer: the byte in the read buffer is either expected, and *)
(* stored, or flushed.  One outcome for each fate of the stop request.      *)
ReadBuffer(d, h) ==
  LET expected == Expected(d)
      short == d.cnt = 1 /\ d.pos = 0
      asks == IF expected THEN short \/ d.cnt = 2 ELSE d.flushCnt % 2 = 1
      stored == [d EXCEPT !.needFlush = @ \/ short, !.cnt = @ - 1, !.pos = @ + 1]
      flushed == IF d.needFlush THEN [d EXCEPT !.needFlush = FALSE]
                 ELSE [d EXCEPT !.flushCnt = @ + 1]
  IN {[d |-> IF expected THEN stored ELSE flushed,
       h |-> [g EXCEPT !.rd = FALSE],
       got |-> expected] : g \in IF asks THEN StopRequests(d, h) ELSE {h}}

(* Mutant: the end of a transfer does not clear the sticky timeout.         *)
AdvanceKeepsTimeout(d, more) ==
  IF d.pos >= 0 /\ d.cnt = 0 /\ d.rem > 1
  THEN [d EXCEPT !.rem = @ - 1, !.idx = @ + 1, !.pos = -1,
                 !.cnt = xfer[d.own].msgs[d.idx + 1].len]
  ELSE d

(* The tail: the next message, or the end of the transfer.                  *)
Advance(d, more) ==
  CASE d.pos >= 0 /\ d.cnt = 0 /\ d.rem > 1 ->
         [d EXCEPT !.rem = @ - 1, !.idx = @ + 1, !.pos = -1,
                   !.cnt = xfer[d.own].msgs[d.idx + 1].len]
    [] d.pos >= 0 /\ d.cnt = 0 /\ d.rem <= 1 /\ ~more /\ ~d.needFlush ->
         [d EXCEPT !.timedOut = FALSE]
    [] OTHER -> d

(* The whole function.  Reading the status register clears its error bits:  *)
(* the driver never writes it, and a transfer after a NAK starts clean.     *)
Serve(d, h) ==
  LET free == h.wr = NoByte
      filled == IF free THEN FillWriteBuffer(d, h)
                ELSE [d |-> d, h |-> h, more |-> TRUE]
      read == IF h.rd THEN ReadBuffer(filled.d, filled.h)
              ELSE {[d |-> filled.d, h |-> filled.h, got |-> FALSE]}
  IN CASE d.own = Nobody ->
            {[d |-> d, h |-> [h EXCEPT !.err = FALSE], got |-> FALSE]}
       [] d.own # Nobody /\ h.err ->
            {[d |-> [d EXCEPT !.ret = ERROR, !.timedOut = TRUE],
              h |-> [h EXCEPT !.err = FALSE], got |-> FALSE]}
       [] OTHER ->
            {[o EXCEPT !.d = Advance(o.d, filled.more)] : o \in read}

(* Bytes moved for level c: history, not in the code.                      *)
Credit(x, c, got) == IF got THEN [x EXCEPT ![c].moved = @ + 1] ELSE x
-----------------------------------------------------------------------------
(* The controller and the slave.                                           *)

HwReady == hw.act /\ ~hw.stuck
HwMoves == HwReady /\ (hw.wr # NoByte \/ (hw.reading /\ ~hw.rd))
Raise == irq' = [irq EXCEPT !.pending = TRUE]

(* The slave acknowledges the address: a read starts shifting bytes in.  An *)
(* address with the mark of a last byte ends with a stop.                   *)
HwAddress ==
  /\ HwReady /\ hw.wr.kind = "addr"
  /\ hw' = [hw EXCEPT !.wr = NoByte, !.act = ~hw.wr.last,
                      !.reading = hw.wr.rd /\ ~hw.wr.last]
  /\ Raise
  /\ UNCHANGED <<dev, xfer>>

(* The slave acknowledges a data byte; the last one ends with a stop.      *)
HwData ==
  /\ HwReady /\ hw.wr.kind = "data"
  /\ hw' = [hw EXCEPT !.wr = NoByte, !.act = ~hw.wr.last]
  /\ xfer' = Credit(xfer, hw.wr.own, TRUE)
  /\ Raise
  /\ UNCHANGED dev

(* The slave does not acknowledge; the bus may or may not be released.     *)
HwNack ==
  /\ HwReady /\ hw.wr # NoByte
  /\ \E act \in BOOLEAN :
       hw' = [hw EXCEPT !.wr = NoByte, !.err = TRUE, !.act = act, !.reading = FALSE]
  /\ Raise
  /\ UNCHANGED <<dev, xfer>>

(* A byte arrives in the read buffer; it is the last after a stop request. *)
HwShiftIn ==
  /\ HwReady /\ hw.reading /\ ~hw.rd /\ hw.wr = NoByte
  /\ hw' = [hw EXCEPT !.rd = TRUE, !.act = ~hw.stop, !.reading = ~hw.stop,
                      !.stop = FALSE]
  /\ Raise
  /\ UNCHANGED <<dev, xfer>>

(* A slave stretches the clock, or holds the data line, beyond any poll.   *)
HwStick ==
  /\ HwReady
  /\ hw' = [hw EXCEPT !.stuck = TRUE]
  /\ UNCHANGED <<dev, irq, xfer>>

(* I2CInterruptHandler, after the vector's interrupt was cleared.          *)
Interrupt ==
  /\ irq.on /\ irq.pending
  /\ \E o \in Serve(dev, hw) :
       /\ dev' = o.d
       /\ hw' = o.h
       /\ xfer' = Credit(xfer, dev.own, o.got)
       /\ irq' = [irq EXCEPT !.pending = o.h.err]
-----------------------------------------------------------------------------
(* msm_i2c_recover_bus_busy: nothing to do, or nine clock pulses by hand    *)
(* that either release the bus, or find a slave that goes on holding it.    *)
Recoveries(h) ==
  IF ~h.act /\ h.wr = NoByte THEN {[h |-> h, ok |-> TRUE]}
  ELSE {[h |-> IdleBus, ok |-> TRUE],
        [h |-> [h EXCEPT !.rd = FALSE, !.stuck = TRUE], ok |-> FALSE]}

(* What msm_i2c_poll_notbusy leaves: its reads of the status clear an error *)
(* that no handler has seen.                                                *)
Polled(h) == [h EXCEPT !.err = FALSE]

(* Level c runs: no higher level is in the driver, no interrupt is due.     *)
Turn(c, at) ==
  /\ xfer[c].pc = at
  /\ \A k \in Ctx : k > c => xfer[k].pc = "idle"
  /\ ~(irq.on /\ irq.pending)

Goto(c, at) == xfer' = [xfer EXCEPT ![c].pc = at]

(* The poll loops end without success only when nothing moves any more.     *)
GivesUp == hw.act /\ ~HwMoves

(* A caller enters the driver, over any transfer of a lower level.  `cut'   *)
(* (history) is the place where an attempt was preempted: one place, as an  *)
(* attempt takes a few ms and the callback has a period of 100 ms, with up  *)
(* to MaxCalls calls of the one run of the callback.                        *)
Call(c) ==
  /\ Turn(c, "idle")
  /\ \A k \in Ctx : k < c =>
       xfer[k].cut \in {"none", xfer[k].pc} /\ xfer[k].calls < MaxCalls
  /\ \E call \in CallsOf(c) :
       xfer' = [k \in Ctx |->
         IF k = c THEN [Idle EXCEPT !.pc = "enable", !.msgs = call.msgs,
                                    !.tries = call.tries]
         ELSE IF xfer[k].pc = "idle" THEN xfer[k]
         ELSE [xfer[k] EXCEPT !.cut = xfer[k].pc, !.calls = @ + 1]]
  /\ UNCHANGED <<dev, hw, irq>>

(* ClkEnable, EnableInterruptSource.                                        *)
Enable(c) ==
  /\ Turn(c, "enable")
  /\ irq' = [irq EXCEPT !.on = TRUE]
  /\ xfer' = [xfer EXCEPT ![c].pc = "pre", ![c].moved = 0, ![c].cut = "none", ![c].calls = 0,
                          ![c].late = FALSE]
  /\ UNCHANGED <<dev, hw>>

(* The first poll finds the bus free, or gives up and tries to recover it.  *)
PollBefore(c) ==
  /\ Turn(c, "pre")
  /\ \/ /\ ~hw.act
        /\ Goto(c, "set")
        /\ hw' = Polled(hw)
     \/ /\ GivesUp
        /\ \E r \in Recoveries(Polled(hw)) :
             /\ hw' = r.h
             /\ xfer' = [xfer EXCEPT ![c].pc = IF r.ok THEN "set" ELSE "off",
                                     ![c].ret = IF r.ok THEN @ ELSE ERR_NOT_READY]
  /\ UNCHANGED <<dev, irq>>

(* dev.msg = msgs; dev.rem = num; dev.pos = -1.                             *)
SetMessages(c) ==
  /\ Turn(c, "set")
  /\ dev' = [dev EXCEPT !.own = c, !.idx = 1, !.rem = Num(c), !.pos = -1]
  /\ Goto(c, "kick")
  /\ UNCHANGED <<hw, irq>>

(* dev.ret = num; dev.need_flush = false; dev.flush_cnt = 0;               *)
(* dev.cnt = msgs->len.                                                     *)
SetCounts(c) ==
  /\ Turn(c, "kick")
  /\ dev' = [dev EXCEPT !.ret = Num(c), !.needFlush = FALSE, !.flushCnt = 0,
                         !.cnt = xfer[c].msgs[1].len]
  /\ Goto(c, "call")
  /\ UNCHANGED <<hw, irq>>

(* The direct call of the handler begins: it reads the status, and returns  *)
(* if dev.msg is NULL.                                                      *)
CheckMessage(c) ==
  /\ Turn(c, "call")
  /\ IF dev.own = Nobody THEN hw' = [hw EXCEPT !.err = FALSE] /\ Goto(c, "wait")
     ELSE UNCHANGED hw /\ Goto(c, "use")
  /\ UNCHANGED <<dev, irq>>

(* What is read at NULL as a message: any flags, the bytes of nobody.        *)
Strays == [kind : {"addr"}, rd : BOOLEAN, last : BOOLEAN, own : {Nobody}]

(* What the rest of the direct call does when a callback came after the     *)
(* check, and its transfer left dev cleared and dev.msg NULL.  The status   *)
(* is the one read before: an empty bus without an error.  Address 0 is     *)
(* mapped, as device memory, and may read as anything.  Resumed before it   *)
(* looks at dev.pos, the handler finds nothing to write and takes the       *)
(* transfer for done; resumed later, it writes the address of a message     *)
(* that is not there (if the buffer has been filled, an invalid write,      *)
(* whose error the poll that follows clears).                               *)
LostUses(d, h) ==
  {[d |-> [d EXCEPT !.timedOut = @ /\ d.needFlush], h |-> h, got |-> FALSE]}
    \cup {[d |-> [d EXCEPT !.pos = @ + 1],
           h |-> IF h.wr = NoByte THEN [h EXCEPT !.act = TRUE, !.wr = b] ELSE h,
           got |-> FALSE] : b \in Strays}

(* The direct call goes on, with dev.msg as it is now.                      *)
Use(c) ==
  /\ Turn(c, "use")
  /\ \E o \in IF dev.own = Nobody THEN LostUses(dev, hw) ELSE Serve(dev, hw) :
       /\ dev' = o.d
       /\ hw' = o.h
       /\ xfer' = Credit([xfer EXCEPT ![c].pc = "wait"], c, o.got)
       /\ irq' = [irq EXCEPT !.pending = @ \/ o.h.err]

(* Mutant: no retry limit, the loop waits for the bus for ever.            *)
PollAfterForever(c) ==
  /\ Turn(c, "wait")
  /\ IF hw.act THEN UNCHANGED xfer ELSE Goto(c, "collect")
  /\ hw' = Polled(hw)
  /\ UNCHANGED <<dev, irq>>

(* The second poll: the bus was released, or 200 reads all found it busy.   *)
PollAfter(c) ==
  /\ Turn(c, "wait")
  /\ \/ ~hw.act /\ Goto(c, "collect")
     \/ GivesUp /\ xfer' = [xfer EXCEPT ![c].pc = "collect", ![c].late = TRUE]
  /\ hw' = Polled(hw)
  /\ UNCHANGED <<dev, irq>>

(* Mutant: dev.msg is left pointing at the caller's array.                 *)
CollectKeepsMsg(c) ==
  /\ Turn(c, "collect")
  /\ xfer' = [xfer EXCEPT ![c].pc = "after", ![c].ret = dev.ret]
  /\ dev' = [IdleDev EXCEPT !.timedOut = dev.timedOut, !.needFlush = dev.needFlush,
                            !.own = dev.own, !.idx = dev.idx]
  /\ UNCHANGED <<hw, irq>>

(* ret = dev.ret, and dev is cleared; timeout keeps its value.              *)
Collect(c) ==
  /\ Turn(c, "collect")
  /\ xfer' = [xfer EXCEPT ![c].pc = "after", ![c].ret = dev.ret]
  /\ dev' = [IdleDev EXCEPT !.timedOut = dev.timedOut, !.needFlush = dev.needFlush]
  /\ UNCHANGED <<hw, irq>>

(* After the transfer: a late bus is recovered, and a failure to do so      *)
(* leaves with ret as it is; else timeout decides, and an error recovers.   *)
Conclude(c) ==
  /\ Turn(c, "after")
  /\ \E r1 \in IF xfer[c].late THEN Recoveries(hw) ELSE {[h |-> hw, ok |-> TRUE]} :
       LET ret == IF r1.ok /\ dev.timedOut THEN ERR_TIMED_OUT ELSE xfer[c].ret
       IN \E r2 \in IF r1.ok /\ ret < 0 THEN Recoveries(r1.h) ELSE {r1} :
            /\ hw' = r2.h
            /\ xfer' = [xfer EXCEPT ![c].pc = "off", ![c].ret = ret]
  /\ UNCHANGED <<dev, irq>>

(* The callers compare the result with the number of messages.              *)
Succeeded(c) == xfer[c].ret = Num(c)

(* DisableInterruptSource, ClkDisable; the caller is satisfied, retries, or *)
(* reports a failure.                                                       *)
Disable(c) ==
  /\ Turn(c, "off")
  /\ irq' = [irq EXCEPT !.on = FALSE]
  /\ xfer' = IF Succeeded(c) \/ xfer[c].tries = 0
             THEN [xfer EXCEPT ![c] = Idle]
             ELSE [xfer EXCEPT ![c].pc = "enable", ![c].tries = @ - 1]
  /\ UNCHANGED <<dev, hw>>
-----------------------------------------------------------------------------
(* After msm_i2c_probe: RegisterInterruptSource left the source enabled.    *)
(* The boot loader may have left a slave holding the bus.                   *)
Init ==
  /\ dev = IdleDev
  /\ hw \in {IdleBus, [IdleBus EXCEPT !.act = TRUE, !.stuck = TRUE]}
  /\ irq = [on |-> TRUE, pending |-> FALSE]
  /\ xfer = [c \in Ctx |-> Idle]

Step(c) ==
  \/ Enable(c) \/ PollBefore(c) \/ SetMessages(c)
  \/ SetCounts(c) \/ CheckMessage(c) \/ Use(c)
  \/ PollAfter(c) \/ Collect(c) \/ Conclude(c) \/ Disable(c)

Hardware == HwAddress \/ HwData \/ HwNack \/ HwShiftIn

Next ==
  \/ \E c \in Ctx : Call(c) \/ Step(c)
  \/ HwAddress \/ HwData \/ HwNack \/ HwShiftIn \/ HwStick
  \/ Interrupt

(* Each level's code runs on whenever no higher one is in the driver (the   *)
(* callback takes far less than its 100 ms period), the interrupt is taken, *)
(* and a slave that does not hold the bus answers.                          *)
Fairness ==
  /\ \A c \in Ctx : SF_vars(Step(c))
  /\ WF_vars(Hardware)
  /\ WF_vars(Interrupt)

Spec == Init /\ [][Next]_vars
FairSpec == Spec /\ Fairness
-----------------------------------------------------------------------------
Pcs == {"none", "idle", "enable", "pre", "set", "kick", "call", "use", "wait",
        "collect", "after", "off"}

TypeOK ==
  /\ dev \in [own : Ctx \cup {Nobody}, idx : 0 .. 2, rem : 0 .. 2, pos : Int,
              cnt : Nat, ret : Int, needFlush : BOOLEAN, flushCnt : Nat,
              timedOut : BOOLEAN]
  /\ hw \in [act : BOOLEAN, reading : BOOLEAN, rd : BOOLEAN, stop : BOOLEAN,
             err : BOOLEAN, stuck : BOOLEAN,
             wr : [kind : {"none", "addr", "data"}, rd : BOOLEAN, last : BOOLEAN,
                   own : Ctx \cup {Nobody}]]
  /\ irq \in [on : BOOLEAN, pending : BOOLEAN]
  /\ xfer \in [Ctx -> [pc : Pcs \ {"none"}, msgs : Messages \cup {<<>>}, ret : Int,
                       late : BOOLEAN, tries : Nat, moved : Nat, cut : Pcs,
                       calls : Nat]]

(* dev.msg points into an array on the stack of msm_i2c_read, _write or of  *)
(* a raw caller.  Wherever a callback preempts that caller, dev.msg is never *)
(* left set when the caller has returned, so that a late interrupt reads    *)
(* and writes no dead stack frame; and a direct call of the handler that    *)
(* has found dev.msg set uses the messages of its own transfer, unless a    *)
(* callback came since the check: then it uses NULL, never the messages of  *)
(* the callback.                                                            *)
NoDanglingMsg ==
  /\ dev.own # Nobody =>
       xfer[dev.own].pc \in {"kick", "call", "use", "wait", "collect"}
  /\ \A c \in Ctx : Turn(c, "use") =>
       dev.own = c \/ (dev.own = Nobody /\ xfer[c].cut = "use")

(* The handler's index stays inside the message's buffer, across message    *)
(* switches, flushes, errors, and a callback that replaces the transfer.    *)
BufferInBounds ==
  dev.own # Nobody /\ dev.pos >= 0 => dev.pos + dev.cnt = Msg(dev).len

(* An attempt that no callback preempted and no slave stalled returns the   *)
(* number of messages exactly when every byte of them crossed the bus: no   *)
(* error is missed, and the static timeout of an earlier failure does not   *)
(* fail it.                                                                 *)
CalmVerdictExact ==
  \A c \in Ctx : xfer[c].pc = "off" /\ xfer[c].cut = "none" /\ ~xfer[c].late =>
    (Succeeded(c) <=> xfer[c].moved = TotalBytes(xfer[c].msgs))

(* Comment of msm_i2c_xfer: "the ISR will transfer the data and wake us up  *)
(* with dev.err set if there was an error".  A success is a transfer.       *)
SuccessIsTransfer ==
  \A c \in Ctx : xfer[c].pc = "off" /\ Succeeded(c) =>
    xfer[c].moved = TotalBytes(xfer[c].msgs)

(* Every call returns, with a stuck bus, lost interrupts and callbacks that *)
(* keep preempting it.                                                      *)
CallReturns ==
  \A c \in Ctx : xfer[c].pc # "idle" ~> xfer[c].pc = "idle"
=============================================================================
