---------------------------- MODULE I2CBus_proofs ----------------------------
(***************************************************************************)
(* That an attempt nobody preempted is judged by what crossed the bus, that *)
(* dev.msg never outlives the call whose messages it points to, and that    *)
(* the handler stays inside their buffers: for any number of priority       *)
(* levels, retries, lengths and calls.                                      *)
(*                                                                          *)
(* The first is inductive only with all that the handler, the controller   *)
(* and the levels know of each other.  IInv says it in parts: the calls     *)
(* and where they were preempted, the transfer dev describes, the bus, who  *)
(* has the interrupt on, and what an attempt left alone has moved so far.   *)
(***************************************************************************)
EXTENDS I2CBus, TLAPS

Pointing == {"kick", "call", "use", "wait", "collect"}

(* Between the first poll and the end of the direct call of the handler.    *)
Setting == {"set", "kick", "call", "use"}

(* From the first poll to the end of the direct call.                        *)
Early == {"pre"} \cup Setting

(* No level above c is in the driver.                                      *)
Top(c) == \A k \in Ctx : k > c => xfer[k].pc = "idle"

(* The handler runs when the controller asks for it, and knows a transfer. *)
Served == irq.on /\ dev.own # Nobody

(* Nothing moves, and nothing is to be served.                             *)
Still ==
  /\ ~irq.pending /\ ~hw.rd
  /\ hw.stuck \/ (hw.wr = NoByte /\ ~hw.reading)

(* Nothing on the bus moves, whether or not the controller is free.         *)
Stopped == hw.stuck \/ ~hw.act \/ (hw.wr = NoByte /\ (hw.reading => hw.rd))

(* The calls levels are in.                                                *)
CallsInv ==
  \A c \in Ctx : xfer[c].pc # "idle" => xfer[c].msgs \in Messages

(* Where an attempt was preempted, and who has the interrupt on.           *)
CutAt(c) ==
  /\ xfer[c].pc = "pre" => xfer[c].cut \in {"none", "pre"}
  /\ xfer[c].pc = "set" => xfer[c].cut \in {"none", "pre", "set"}
  /\ xfer[c].pc = "kick" => xfer[c].cut \in {"none", "pre", "set", "kick"}
  /\ xfer[c].pc = "call" => xfer[c].cut \in {"none", "pre", "set", "kick", "call"}
  /\ xfer[c].pc = "use" => xfer[c].cut \in {"none"} \cup Early
  /\ \A k \in Ctx :
       k < c /\ xfer[c].pc # "idle" /\ xfer[k].pc # "idle" =>
         xfer[k].cut # "none" /\ xfer[k].cut = xfer[k].pc
  /\ Top(c) /\ xfer[c].pc \notin {"idle", "enable"} => (irq.on <=> xfer[c].cut = "none")

CutsInv == \A c \in Ctx : CutAt(c)

(* The message pointer and the position in the message.                    *)
Placed(d) ==
  /\ \/ d.pos = -1 /\ d.cnt = Msg(d).len
     \/ d.pos >= 0 /\ d.pos + d.cnt = Msg(d).len
  /\ d.rem > 1 => d.cnt > 0
  /\ d.cnt > 0 \/ d.needFlush => d.flushCnt = 0

DevInv ==
  dev.own # Nobody =>
    /\ dev.own \in Ctx /\ xfer[dev.own].pc \in Pointing
    /\ dev.idx >= 1 /\ dev.rem >= 1 /\ dev.idx + dev.rem = Num(dev.own) + 1
    /\ xfer[dev.own].pc \in Setting =>
         /\ dev.idx = 1 /\ dev.pos = -1
         /\ \/ Still /\ ~hw.act
            \/ ~irq.on /\ Top(dev.own) /\ xfer[dev.own].cut \in {"pre", "set"}
    /\ xfer[dev.own].pc \in {"call", "use"} =>
         dev.ret = Num(dev.own) /\ ~dev.needFlush
    /\ xfer[dev.own].pc # "kick" => Placed(dev)
    /\ \A c \in Ctx : c > dev.own => xfer[c].pc \notin Pointing

(* A call whose messages dev no longer points to was preempted since it set *)
(* them; one past the check of the handler, after that check.               *)
OwnInv ==
  \A c \in Ctx : xfer[c].pc \in Pointing /\ dev.own # c =>
    xfer[c].cut \in Pointing /\ (xfer[c].pc = "use" => xfer[c].cut = "use")

(* The read in progress has one byte to come, or is being flushed.         *)
LastByte == (dev.cnt = 1 /\ dev.pos >= 1) \/ (dev.cnt = 0 /\ dev.flushCnt % 2 = 0)

(* What the bus is doing.                                                  *)
BusInv ==
  /\ hw.stop => hw.act /\ hw.reading /\ ~hw.rd
  /\ hw.stuck => hw.act
  /\ ~hw.act => hw.wr = NoByte /\ ~hw.reading /\ (hw.rd => Served)
  /\ hw.err => irq.pending /\ hw.wr = NoByte /\ ~hw.reading /\ ~hw.rd
  /\ hw.wr # NoByte => ~hw.rd /\ (hw.stuck \/ ~hw.reading)
  /\ hw.wr = NoByte \/ hw.wr.kind \in {"addr", "data"}
  /\ hw.wr.kind = "addr" /\ hw.wr.last /\ ~hw.stuck => dev.own = Nobody
  /\ dev.own # Nobody /\ hw.rd => irq.pending /\ Msg(dev).rd /\ dev.pos >= 0
  /\ dev.own # Nobody /\ (dev.pos < 0 \/ ~Msg(dev).rd) /\ ~hw.stuck =>
       ~hw.reading /\ ~(hw.wr.kind = "addr" /\ hw.wr.rd)
  /\ hw.wr.kind = "data" /\ ~hw.stuck =>
       /\ Served /\ hw.wr.own = dev.own
       /\ dev.pos >= 0 => dev.pos > 0 /\ ~Msg(dev).rd /\ (hw.wr.last <=> dev.cnt = 0 /\ dev.rem = 1)
       /\ dev.pos < 0 => dev.idx = 2 /\ ~hw.wr.last
  /\ (hw.stop /\ ~hw.stuck) \/ (hw.rd /\ ~hw.reading) => Served /\ LastByte

(* A read nobody serves.                                                   *)
Loose == ~Served /\ (hw.rd \/ (~hw.stuck /\ (hw.reading \/ (hw.wr.kind = "addr" /\ hw.wr.rd))))

(* Level c goes on without the interrupt, and nothing interrupts it.        *)
Losing(c) ==
  /\ Top(c) /\ xfer[c].pc \in {"wait", "collect", "after"}
  /\ xfer[c].cut \in Early
  /\ xfer[c].pc # "wait" => xfer[c].late
  /\ dev.own # Nobody => dev.own = c

(* A read nobody serves is one of such a level, which recovers the bus.     *)
LooseInv ==
  Loose => hw.act /\ ~hw.stop /\ \E c \in Ctx : Losing(c)

(* An attempt starts on a silent bus, and leaves one when it is over.      *)
StillInv ==
  \A c \in Ctx :
    /\ Top(c) /\ irq.on =>
         /\ xfer[c].pc \in Setting => Still /\ ~hw.act
         /\ xfer[c].pc = "collect" /\ dev.own = c => Still
         /\ xfer[c].pc = "off" /\ dev.own # Nobody => Still
    /\ xfer[c].pc = "after" /\ dev.own # Nobody => dev.own > c

(* The bus is at rest, and no error unseen, outside the polls.              *)
RestInv ==
  \A c \in Ctx :
    Top(c) /\ xfer[c].pc \in Setting \cup {"collect", "after", "off"} => Stopped /\ ~hw.err

Total(c) == TotalBytes(xfer[c].msgs)

Before == IF dev.idx = 2 THEN xfer[dev.own].msgs[1].len ELSE 0

InFlight == IF hw.wr.kind = "data" THEN 1 ELSE 0

(* The attempt of level c met an error, which the handler has seen or will. *)
Failed(c) ==
  /\ xfer[c].moved < Total(c)
  /\ hw.wr = NoByte /\ ~hw.reading /\ ~hw.rd
  /\ irq.pending <=> hw.err
  /\ hw.err \/ dev.ret = ERROR

(* It is under way: the bytes moved are those before the position in dev,  *)
(* and the bus or the handler has something to do until the last.          *)
Going(c) ==
  /\ dev.ret = Num(c) /\ ~hw.err
  /\ xfer[c].moved + InFlight = Before + (IF dev.pos < 0 THEN 0 ELSE dev.pos)
  /\ dev.cnt > 0 \/ ~Msg(dev).rd => ~dev.needFlush
  /\ hw.wr.kind = "addr" => dev.pos = 0 /\ dev.cnt > 0
  /\ dev.pos < 0 => dev.idx = 2 /\ (hw.wr.kind = "data" \/ irq.pending)
  /\ dev.pos >= 0 /\ ~Msg(dev).rd => hw.wr # NoByte \/ irq.pending \/ (dev.cnt = 0 /\ ~dev.timedOut)
  /\ dev.pos >= 0 /\ Msg(dev).rd => hw.act \/ hw.rd \/ (dev.cnt = 0 /\ ~dev.timedOut)
  /\ Msg(dev).rd /\ dev.cnt = 0 /\ ~dev.needFlush => ~dev.timedOut

Judged(c, ret) ==
  \/ ret = Num(c) /\ ~dev.timedOut /\ xfer[c].moved = Total(c)
  \/ ret = ERROR /\ xfer[c].moved < Total(c)

(* Attempts that nothing preempted.                                        *)
CalmInv ==
  \A c \in Ctx : xfer[c].cut = "none" =>
    /\ xfer[c].pc \in Pointing => dev.own = c
    /\ xfer[c].pc \in {"pre"} \cup Setting => xfer[c].moved = 0
    /\ xfer[c].pc = "wait" => Going(c) \/ Failed(c)
    /\ xfer[c].pc = "collect" /\ ~xfer[c].late => Judged(c, dev.ret) /\ ~hw.act
    /\ xfer[c].pc = "after" /\ ~xfer[c].late => Judged(c, xfer[c].ret)
    /\ xfer[c].pc = "off" /\ ~xfer[c].late => (Succeeded(c) <=> xfer[c].moved = Total(c))

(* What it takes for CalmInv of a level whose program counter does not move. *)
StaysCalm(c) ==
  /\ xfer[c].pc \in Pointing => dev.own = c
  /\ xfer[c].pc \in {"pre"} \cup Setting => xfer'[c].moved = 0
  /\ xfer[c].pc = "wait" => (Going(c) \/ Failed(c))'
  /\ xfer[c].pc = "collect" /\ ~xfer[c].late => (Judged(c, dev.ret) /\ ~hw.act)'
  /\ xfer[c].pc = "after" /\ ~xfer[c].late => Judged(c, xfer[c].ret)'
  /\ xfer[c].pc = "off" /\ ~xfer[c].late =>
       (Succeeded(c) <=> xfer[c].moved = Total(c))'

IInv ==
  /\ TypeOK /\ CallsInv /\ CutsInv /\ DevInv /\ OwnInv
  /\ BusInv /\ LooseInv /\ StillInv /\ RestInv /\ CalmInv
-----------------------------------------------------------------------------
DevSet ==
  [own : Ctx \cup {Nobody}, idx : 0 .. 2, rem : 0 .. 2, pos : Int, cnt : Nat, ret : Int,
   needFlush : BOOLEAN, flushCnt : Nat, timedOut : BOOLEAN]
ByteSet ==
  [kind : {"none", "addr", "data"}, rd : BOOLEAN, last : BOOLEAN, own : Ctx \cup {Nobody}]
HwSet ==
  [act : BOOLEAN, reading : BOOLEAN, rd : BOOLEAN, stop : BOOLEAN, err : BOOLEAN,
   stuck : BOOLEAN, wr : ByteSet]
LevelSet ==
  [pc : Pcs \ {"none"}, msgs : Messages \cup {<<>>}, ret : Int, late : BOOLEAN, tries : Nat,
   moved : Nat, cut : Pcs, calls : Nat]

(* TypeOK, with names for the sets of records.                             *)
LEMMA Types ==
  TypeOK <=> /\ dev \in DevSet /\ hw \in HwSet
             /\ irq \in [on : BOOLEAN, pending : BOOLEAN]
             /\ xfer \in [Ctx -> LevelSet]
  BY DEF TypeOK, DevSet, HwSet, ByteSet, LevelSet

(* What is on the bus, or nothing.                                         *)
LEMMA Bytes ==
  /\ NoByte \in ByteSet /\ NoByte.kind = "none" /\ NoByte.own = Nobody
  /\ ~NoByte.rd /\ ~NoByte.last
  /\ \A rd, last \in BOOLEAN, own \in Ctx \cup {Nobody} :
       /\ Byte("addr", rd, last, own) \in ByteSet
       /\ Byte("data", rd, last, own) \in ByteSet
  /\ \A kind, rd, last, own :
       /\ Byte(kind, rd, last, own).kind = kind /\ Byte(kind, rd, last, own).rd = rd
       /\ Byte(kind, rd, last, own).last = last /\ Byte(kind, rd, last, own).own = own
  BY DEF NoByte, Byte, ByteSet

(* The messages of a write followed by a read.                             *)
LEMMA Pair ==
  ASSUME NEW a, NEW b
  PROVE  LET m == <<a>> \o <<b>> IN Len(m) = 2 /\ m[1] = a /\ m[2] = b
  OBVIOUS

(* The message lists of callers: one or two messages, none empty; a read is *)
(* the last message.                                                        *)
LEMMA Lists ==
  ASSUME NEW m \in Messages
  PROVE  /\ Len(m) \in {1, 2}
         /\ m[1].rd \in BOOLEAN /\ m[1].len \in Nat \ {0}
         /\ Len(m) = 2 => ~m[1].rd /\ m[2].rd \in BOOLEAN /\ m[2].len \in Nat \ {0}
<1>1. \A n : /\ Len(Write(n)) = 1 /\ Len(Read(n)) = 1
             /\ Write(n)[1].rd = FALSE /\ Write(n)[1].len = n
             /\ Read(n)[1].rd = TRUE /\ Read(n)[1].len = n
  BY DEF Write, Read
<1>2. CASE m \in {Write(n) : n \in WriteLens} \cup {Read(n) : n \in ReadLens}
  <2>1. PICK n \in Nat \ {0} : m = Write(n) \/ m = Read(n)
    BY <1>2, BusAssumption
  <2>2. Len(m) = 1 /\ m[1].rd \in BOOLEAN /\ m[1].len = n
    BY <1>1, <2>1
  <2> QED
    BY <2>1, <2>2
<1>3. CASE m \in {Write(1) \o Read(n) : n \in ReadLens \cup {1}}
  <2>1. PICK n \in ReadLens \cup {1} : m = Write(1) \o Read(n)
    BY <1>3
  <2>2. n \in Nat \ {0}
    BY BusAssumption
  <2> DEFINE a == [rd |-> FALSE, len |-> 1]
             b == [rd |-> TRUE, len |-> n]
  <2>3. Write(1) = <<a>> /\ Read(n) = <<b>>
    BY DEF Write, Read
  <2> HIDE DEF a, b
  <2>4. Len(m) = 2 /\ m[1] = a /\ m[2] = b
    BY <2>1, <2>3, Pair
  <2> QED
    BY <2>2, <2>4 DEF a, b
<1> QED
  BY <1>2, <1>3 DEF Messages
-----------------------------------------------------------------------------
(* What the handler finds, and what it may make of it.                     *)
Ready(d, h) ==
  /\ d \in DevSet /\ h \in HwSet
  /\ d.own # Nobody =>
       /\ xfer[d.own].msgs \in Messages
       /\ d.idx >= 1 /\ d.rem >= 1 /\ d.idx + d.rem = Num(d.own) + 1
       /\ Placed(d)
       /\ h.rd => Msg(d).rd /\ d.pos >= 0 /\ h.wr = NoByte /\ ~h.stop

Ignores(d, h, o) ==
  /\ d.own = Nobody
  /\ o = [d |-> d, h |-> [h EXCEPT !.err = FALSE], got |-> FALSE]

Refuses(d, h, o) ==
  /\ d.own # Nobody /\ h.err
  /\ o = [d |-> [d EXCEPT !.ret = ERROR, !.timedOut = TRUE],
          h |-> [h EXCEPT !.err = FALSE], got |-> FALSE]

Waits(d, h, o) ==
  /\ d.own # Nobody /\ ~h.err /\ ~h.rd
  /\ h.wr = NoByte => d.pos >= 0 /\ (Msg(d).rd \/ d.cnt = 0)
  /\ \/ o.d = d /\ (h.wr # NoByte \/ d.cnt > 0 \/ d.needFlush)
     \/ o.d = [d EXCEPT !.timedOut = FALSE] /\ h.wr = NoByte /\ d.cnt = 0 /\ ~d.needFlush
  /\ o.h = h /\ o.got = FALSE

Addresses(d, h, o) ==
  /\ d.own # Nobody /\ ~h.err /\ ~h.rd /\ h.wr = NoByte
  /\ d.pos = -1 /\ d.cnt = Msg(d).len
  /\ o = [d |-> [d EXCEPT !.pos = 0],
          h |-> [h EXCEPT !.act = TRUE, !.wr = Byte("addr", Msg(d).rd, FALSE, d.own)],
          got |-> FALSE]

Sends(d, h, o) ==
  /\ d.own # Nobody /\ ~h.err /\ ~h.rd /\ h.wr = NoByte
  /\ d.pos >= 0 /\ ~Msg(d).rd /\ d.cnt > 0 /\ (d.cnt = 1 => d.rem = 1)
  /\ o = [d |-> [d EXCEPT !.pos = @ + 1, !.cnt = @ - 1],
          h |-> [h EXCEPT !.act = TRUE, !.wr = Byte("data", FALSE, d.cnt = 1, d.own)],
          got |-> FALSE]

SendsOn(d, h, o) ==
  /\ d.own # Nobody /\ ~h.err /\ ~h.rd /\ h.wr = NoByte
  /\ d.pos >= 0 /\ ~Msg(d).rd /\ d.cnt = 1 /\ d.rem = 2 /\ d.idx = 1
  /\ o = [d |-> [d EXCEPT !.rem = 1, !.idx = 2, !.pos = -1, !.cnt = xfer[d.own].msgs[2].len],
          h |-> [h EXCEPT !.act = TRUE, !.wr = Byte("data", FALSE, FALSE, d.own)],
          got |-> FALSE]

Stores(d, h, o) ==
  /\ d.own # Nobody /\ ~h.err /\ h.rd /\ h.wr = NoByte
  /\ d.pos >= 0 /\ Msg(d).rd /\ d.cnt > 0 /\ d.rem = 1
  /\ \E stop \in BOOLEAN :
       /\ stop => d.cnt = 2 \/ (d.cnt = 1 /\ d.pos = 0)
       /\ o.h = [h EXCEPT !.rd = FALSE, !.stop = stop]
  /\ o.d = [d EXCEPT !.pos = @ + 1, !.cnt = @ - 1,
                     !.needFlush = @ \/ (d.cnt = 1 /\ d.pos = 0),
                     !.timedOut = @ /\ (d.cnt > 1 \/ d.needFlush \/ d.pos = 0)]
  /\ o.got = TRUE

Flushes(d, h, o) ==
  /\ d.own # Nobody /\ ~h.err /\ h.rd /\ h.wr = NoByte
  /\ d.pos >= 0 /\ Msg(d).rd /\ d.cnt = 0 /\ d.rem = 1
  /\ \E stop \in BOOLEAN :
       /\ stop => d.flushCnt % 2 = 1
       /\ o.h = [h EXCEPT !.rd = FALSE, !.stop = stop]
  /\ o.d = [d EXCEPT !.flushCnt = IF d.needFlush THEN d.flushCnt ELSE d.flushCnt + 1,
                     !.needFlush = FALSE, !.timedOut = FALSE]
  /\ o.got = FALSE

Fills(d, h, f) ==
  \/ /\ d.pos = -1 /\ d.cnt = Msg(d).len /\ ~h.rd
     /\ f.d = [d EXCEPT !.pos = 0] /\ f.more = TRUE
     /\ f.h = [h EXCEPT !.act = TRUE, !.wr = Byte("addr", Msg(d).rd, FALSE, d.own)]
  \/ /\ d.pos >= 0 /\ ~Msg(d).rd /\ d.cnt > 0 /\ ~h.rd
     /\ f.d = [d EXCEPT !.pos = @ + 1, !.cnt = @ - 1] /\ f.more = TRUE
     /\ f.h = [h EXCEPT !.act = TRUE,
                    !.wr = Byte("data", FALSE, d.cnt = 1 /\ d.rem = 1, d.own)]
  \/ /\ d.pos >= 0 /\ (Msg(d).rd \/ d.cnt = 0)
     /\ f.d = d /\ f.h = h /\ f.more = FALSE

(* An empty write buffer is filled with an address, with a byte of data,   *)
(* or not at all.                                                          *)
LEMMA FillCases ==
  ASSUME NEW d, NEW h, Ready(d, h), d.own # Nobody, h.wr = NoByte,
         NEW f, f = FillWriteBuffer(d, h)
  PROVE  Fills(d, h, f)
<1>1. d.pos \in Int /\ d.cnt \in Nat /\ (d.pos = -1 \/ d.pos >= 0) /\ (h.rd => Msg(d).rd /\ d.pos >= 0)
  BY DEF Ready, Placed, DevSet
<1>2. CASE d.pos = -1
  BY <1>1, <1>2 DEF FillWriteBuffer, Ready, Placed, Fills
<1>3. CASE d.pos >= 0 /\ ~Msg(d).rd /\ d.cnt > 0
  BY <1>1, <1>3 DEF FillWriteBuffer, Fills
<1>4. CASE d.pos >= 0 /\ (Msg(d).rd \/ d.cnt = 0)
  BY <1>1, <1>4 DEF FillWriteBuffer, Fills
<1>5. \/ d.pos = -1
      \/ d.pos >= 0 /\ ~Msg(d).rd /\ d.cnt > 0
      \/ d.pos >= 0 /\ (Msg(d).rd \/ d.cnt = 0)
  BY <1>1
<1> QED
  BY <1>2, <1>3, <1>4, <1>5, Zenon

(* The message in progress is a read only if it is the last.               *)
LEMMA ReadIsLast ==
  ASSUME NEW d, NEW h, Ready(d, h), d.own # Nobody
  PROVE  /\ d.rem \in {1, 2} /\ d.idx \in {1, 2} /\ (d.rem = 2 => d.idx = 1 /\ ~Msg(d).rd)
         /\ Msg(d).len \in Nat \ {0} /\ Msg(d).rd \in BOOLEAN
         /\ d.rem = 2 => xfer[d.own].msgs[2].len \in Nat \ {0}
<1> DEFINE m == xfer[d.own].msgs
<1>1. m \in Messages /\ d.idx >= 1 /\ d.rem >= 1 /\ d.idx + d.rem = Len(m) + 1
      /\ d.idx \in Int /\ d.rem \in Int /\ Msg(d) = m[d.idx]
  BY DEF Ready, DevSet, Num, Msg
<1> HIDE DEF m
<1>2. /\ Len(m) \in {1, 2}
      /\ m[1].rd \in BOOLEAN /\ m[1].len \in Nat \ {0}
      /\ Len(m) = 2 => ~m[1].rd /\ m[2].rd \in BOOLEAN /\ m[2].len \in Nat \ {0}
  BY <1>1, Lists
<1>3. /\ d.rem \in {1, 2} /\ d.idx \in {1, 2} /\ (d.rem = 2 => d.idx = 1)
      /\ d.idx = 2 \/ d.rem = 2 => Len(m) = 2
  <2>1. CASE Len(m) = 1
    BY <1>1, <2>1
  <2>2. CASE Len(m) = 2
    BY <1>1, <2>2
  <2> QED
    BY <1>2, <2>1, <2>2
<1>4. d.idx = 1 => Msg(d) = m[1]
  BY <1>1
<1>5. d.idx = 2 => Msg(d) = m[2]
  BY <1>1
<1> QED
  BY <1>2, <1>3, <1>4, <1>5 DEF m

(* The handler does one of eight things.                                   *)
LEMMA ServeCases ==
  ASSUME NEW d, NEW h, Ready(d, h), NEW o \in Serve(d, h)
  PROVE  \/ Ignores(d, h, o) \/ Refuses(d, h, o) \/ Waits(d, h, o) \/ Addresses(d, h, o)
         \/ Sends(d, h, o) \/ SendsOn(d, h, o) \/ Stores(d, h, o) \/ Flushes(d, h, o)
<1> DEFINE filled == IF h.wr = NoByte THEN FillWriteBuffer(d, h)
                     ELSE [d |-> d, h |-> h, more |-> TRUE]
           read == IF h.rd THEN ReadBuffer(filled.d, filled.h)
                   ELSE {[d |-> filled.d, h |-> filled.h, got |-> FALSE]}
<1>1. CASE d.own = Nobody
  BY <1>1 DEF Serve, Ignores
<1>2. CASE d.own # Nobody /\ h.err
  BY <1>2 DEF Serve, Refuses
<1>3. CASE d.own # Nobody /\ ~h.err
  <2>1. PICK r \in read : o = [r EXCEPT !.d = Advance(r.d, filled.more)]
    BY <1>3 DEF Serve
  <2>2. /\ d.own \in Ctx /\ d.idx \in Int /\ d.rem \in Int /\ d.pos \in Int /\ d.cnt \in Nat
        /\ d.flushCnt \in Nat /\ d.needFlush \in BOOLEAN /\ d.timedOut \in BOOLEAN
        /\ h.rd \in BOOLEAN /\ h.stop \in BOOLEAN /\ h.err \in BOOLEAN
        /\ d \in DevSet /\ h \in HwSet
    BY <1>3 DEF Ready, DevSet, HwSet
  <2>3. /\ Placed(d) /\ d.idx + d.rem = Num(d.own) + 1
        /\ h.rd => Msg(d).rd /\ d.pos >= 0 /\ h.wr = NoByte /\ ~h.stop
    BY <1>3 DEF Ready
  <2>4. /\ d.rem \in {1, 2} /\ d.idx \in {1, 2} /\ (d.rem = 2 => d.idx = 1 /\ ~Msg(d).rd)
        /\ Msg(d).len \in Nat \ {0} /\ Msg(d).rd \in BOOLEAN
        /\ d.rem = 2 => xfer[d.own].msgs[2].len \in Nat \ {0}
    BY <1>3, ReadIsLast
  <2>5. CASE ~h.rd
    <3>1. r = [d |-> filled.d, h |-> filled.h, got |-> FALSE]
      BY <2>1, <2>5
    <3>2. o = [d |-> Advance(filled.d, filled.more), h |-> filled.h, got |-> FALSE]
      BY <2>1, <3>1
    <3>3. CASE h.wr # NoByte
      <4>1. filled.d = d /\ filled.h = h /\ filled.more = TRUE
        BY <3>3
      <4> HIDE DEF filled
      <4>2. o = [d |-> Advance(d, TRUE), h |-> h, got |-> FALSE]
        BY <3>2, <4>1
      <4>3. Advance(d, TRUE) = d
        BY <2>2, <2>3, <2>4 DEF Advance, Placed
      <4> QED
        BY <4>2, <4>3, <1>3, <2>5, <3>3 DEF Waits
    <3>4. CASE h.wr = NoByte
      <4>0. filled = FillWriteBuffer(d, h)
        BY <3>4
      <4> HIDE DEF filled
      <4>1. ASSUME d.pos = -1, d.cnt = Msg(d).len,
                   filled.d = [d EXCEPT !.pos = 0], filled.more = TRUE,
                   filled.h = [h EXCEPT !.act = TRUE, !.wr = Byte("addr", Msg(d).rd, FALSE, d.own)]
            PROVE  Addresses(d, h, o)
        <5>1. Advance([d EXCEPT !.pos = 0], TRUE) = [d EXCEPT !.pos = 0]
          BY <2>2, <2>4, <4>1 DEF Advance, DevSet
        <5>2. o = [d |-> [d EXCEPT !.pos = 0], got |-> FALSE,
                   h |-> [h EXCEPT !.act = TRUE, !.wr = Byte("addr", Msg(d).rd, FALSE, d.own)]]
          BY <3>2, <4>1, <5>1
        <5> QED
          BY <1>3, <2>5, <3>4, <4>1, <5>2 DEF Addresses
      <4>2. ASSUME d.pos >= 0, ~Msg(d).rd, d.cnt > 0,
                   filled.d = [d EXCEPT !.pos = @ + 1, !.cnt = @ - 1], filled.more = TRUE,
                   filled.h = [h EXCEPT !.act = TRUE,
                                 !.wr = Byte("data", FALSE, d.cnt = 1 /\ d.rem = 1, d.own)]
            PROVE  Sends(d, h, o) \/ SendsOn(d, h, o)
        <5> DEFINE e == [d EXCEPT !.pos = @ + 1, !.cnt = @ - 1]
        <5>1. /\ e.pos = d.pos + 1 /\ e.cnt = d.cnt - 1 /\ e.rem = d.rem /\ e.idx = d.idx
              /\ e.own = d.own /\ e.needFlush = d.needFlush
          BY <2>2 DEF DevSet
        <5>2. CASE d.cnt = 1 /\ d.rem = 2
          <6>1. Advance(e, TRUE) = [e EXCEPT !.rem = @ - 1, !.idx = @ + 1, !.pos = -1,
                   !.cnt = xfer[e.own].msgs[e.idx + 1].len]
            BY <2>2, <4>2, <5>1, <5>2 DEF Advance
          <6> DEFINE f == [d EXCEPT !.rem = 1, !.idx = 2, !.pos = -1,
                                    !.cnt = xfer[d.own].msgs[2].len]
          <6>2. e.rem - 1 = 1 /\ e.idx + 1 = 2 /\ e.own = d.own
            BY <2>4, <5>1, <5>2
          <6>3. [e EXCEPT !.rem = @ - 1, !.idx = @ + 1, !.pos = -1,
                   !.cnt = xfer[e.own].msgs[e.idx + 1].len] =
                [e EXCEPT !.rem = 1, !.idx = 2, !.pos = -1, !.cnt = xfer[d.own].msgs[2].len]
            <7> HIDE DEF e
            <7> QED
              BY <6>2
          <6>4. @ = f
            BY <2>2 DEF DevSet
          <6>5. (d.cnt = 1 /\ d.rem = 1) = FALSE
            BY <5>2
          <6>6. o = [d |-> f, got |-> FALSE,
                     h |-> [h EXCEPT !.act = TRUE, !.wr = Byte("data", FALSE, FALSE, d.own)]]
            <7> HIDE DEF e, f
            <7> QED
              BY <3>2, <4>2, <6>1, <6>3, <6>4, <6>5 DEF e
          <6> QED
            BY <1>3, <2>4, <2>5, <3>4, <4>2, <5>2, <6>6 DEF SendsOn
        <5>3. CASE ~(d.cnt = 1 /\ d.rem = 2)
          <6>1. Advance(e, TRUE) = e
            BY <2>2, <2>4, <4>2, <5>1, <5>3 DEF Advance
          <6>2. (d.cnt = 1 /\ d.rem = 1) = (d.cnt = 1)
            BY <2>4, <5>3
          <6>3. o = [d |-> e, got |-> FALSE,
                     h |-> [h EXCEPT !.act = TRUE, !.wr = Byte("data", FALSE, d.cnt = 1, d.own)]]
            BY <3>2, <4>2, <6>1, <6>2, Zenon
          <6> QED
            BY <1>3, <2>4, <2>5, <3>4, <4>2, <5>3, <6>3 DEF Sends
        <5> QED
          BY <5>2, <5>3
      <4>3. ASSUME d.pos >= 0, Msg(d).rd \/ d.cnt = 0,
                   filled.d = d, filled.h = h, filled.more = FALSE
            PROVE  Waits(d, h, o)
        <5>1. o = [d |-> Advance(d, FALSE), h |-> h, got |-> FALSE]
          BY <3>2, <4>3
        <5>2. CASE d.cnt > 0 \/ d.needFlush
          <6>1. Advance(d, FALSE) = d
            BY <2>2, <2>3, <2>4, <4>3, <5>2 DEF Advance, Placed
          <6> QED
            BY <1>3, <2>5, <3>4, <4>3, <5>1, <5>2, <6>1 DEF Waits
        <5>3. CASE d.cnt = 0 /\ ~d.needFlush
          <6>1. Advance(d, FALSE) = [d EXCEPT !.timedOut = FALSE]
            BY <2>2, <2>3, <2>4, <4>3, <5>3 DEF Advance, Placed
          <6> QED
            BY <1>3, <2>5, <3>4, <4>3, <5>1, <5>3, <6>1 DEF Waits
        <5> QED
          BY <2>2, <5>2, <5>3
      <4>4. Fills(d, h, filled)
        BY <1>3, <3>4, <4>0, FillCases
      <4> QED
        BY <4>1, <4>2, <4>3, <4>4, Zenon DEF Fills
    <3> QED
      BY <3>3, <3>4
  <2>6. CASE h.rd
    <3>1. filled.d = d /\ filled.h = h /\ filled.more = FALSE
      BY <1>3, <2>2, <2>3, <2>6 DEF FillWriteBuffer
    <3>2. Expected(d) <=> d.cnt > 0
      BY <2>3, <2>6 DEF Expected
    <3> DEFINE short == d.cnt = 1 /\ d.pos = 0
               asks == IF Expected(d) THEN short \/ d.cnt = 2 ELSE d.flushCnt % 2 = 1
               stored == [d EXCEPT !.needFlush = @ \/ short, !.cnt = @ - 1, !.pos = @ + 1]
               flushed == IF d.needFlush THEN [d EXCEPT !.needFlush = FALSE]
                          ELSE [d EXCEPT !.flushCnt = @ + 1]
               next == IF Expected(d) THEN stored ELSE flushed
    <3>3. r \in ReadBuffer(d, h) /\ o = [r EXCEPT !.d = Advance(r.d, FALSE)]
      <4> HIDE DEF filled
      <4> QED
        BY <2>1, <2>6, <3>1
    <3>4. PICK g \in IF asks THEN StopRequests(d, h) ELSE {h} :
            r = [d |-> next, h |-> [g EXCEPT !.rd = FALSE], got |-> Expected(d)]
      BY <3>3 DEF ReadBuffer
    <3>5. \E stop \in BOOLEAN :
            (stop => asks) /\ [g EXCEPT !.rd = FALSE] = [h EXCEPT !.rd = FALSE, !.stop = stop]
      <4>1. g = h \/ (asks /\ g = [h EXCEPT !.stop = TRUE])
        BY <2>3, <2>6, <3>4 DEF StopRequests
      <4>2. h = [h EXCEPT !.stop = FALSE]
        BY <2>2, <2>3, <2>6 DEF HwSet
      <4> HIDE DEF asks
      <4>3. CASE g = h
        BY <2>2, <4>2, <4>3 DEF HwSet
      <4>4. CASE asks /\ g = [h EXCEPT !.stop = TRUE]
        BY <2>2, <4>4 DEF HwSet
      <4> QED
        BY <4>1, <4>3, <4>4
    <3>6. o = [d |-> Advance(next, FALSE), h |-> [g EXCEPT !.rd = FALSE], got |-> Expected(d)]
      BY <3>3, <3>4
    <3>7. CASE d.cnt > 0
      <4>1. next = stored
        BY <3>2, <3>7
      <4>2. /\ stored.pos = d.pos + 1 /\ stored.cnt = d.cnt - 1 /\ stored.rem = 1
            /\ stored.needFlush = (d.needFlush \/ short)
        BY <2>2, <2>3, <2>4, <2>6 DEF DevSet
      <4>3. Advance(stored, FALSE) =
              IF d.cnt > 1 \/ d.needFlush \/ d.pos = 0 THEN stored
               ELSE [stored EXCEPT !.timedOut = FALSE]
        <5>1. stored.cnt = 0 <=> d.cnt = 1
          BY <2>2, <3>7, <4>2
        <5>2. stored.pos >= 0 /\ ~(stored.rem > 1)
          BY <2>2, <2>3, <2>6, <4>2
        <5>3. stored.needFlush <=> d.needFlush \/ (d.cnt = 1 /\ d.pos = 0)
          BY <4>2
        <5>4. d.cnt > 1 <=> d.cnt # 1
          BY <2>2, <3>7
        <5> HIDE DEF stored
        <5> QED
          BY <5>1, <5>2, <5>3, <5>4, <4>2 DEF Advance
      <4>4. @ = [d EXCEPT !.pos = @ + 1, !.cnt = @ - 1, !.needFlush = @ \/ short,
                          !.timedOut = @ /\ (d.cnt > 1 \/ d.needFlush \/ d.pos = 0)]
        BY <2>2 DEF DevSet
      <4> QED
        BY <1>3, <2>3, <2>4, <2>6, <3>2, <3>5, <3>6, <3>7, <4>1, <4>3, <4>4 DEF Stores
    <3>8. CASE d.cnt = 0
      <4>1. next = flushed
        BY <3>2, <3>8
      <4>2. /\ flushed.pos = d.pos /\ flushed.cnt = 0 /\ flushed.rem = 1 /\ ~flushed.needFlush
        BY <2>2, <2>3, <2>4, <2>6, <3>8 DEF DevSet
      <4>3. Advance(flushed, FALSE) = [flushed EXCEPT !.timedOut = FALSE]
        BY <2>2, <2>3, <2>6, <4>2 DEF Advance
      <4>4. @ = [d EXCEPT !.flushCnt = IF d.needFlush THEN d.flushCnt ELSE d.flushCnt + 1,
                          !.needFlush = FALSE, !.timedOut = FALSE]
        BY <2>2 DEF DevSet
      <4>5. /\ o.d = [d EXCEPT !.flushCnt = IF d.needFlush THEN d.flushCnt ELSE d.flushCnt + 1,
                             !.needFlush = FALSE, !.timedOut = FALSE]
            /\ o.h = [g EXCEPT !.rd = FALSE] /\ o.got = FALSE
        <5>1. Expected(d) = FALSE
          BY <3>2, <3>8, <2>2 DEF Expected
        <5> HIDE DEF flushed, next
        <5>2. o.d = Advance(next, FALSE) /\ o.h = [g EXCEPT !.rd = FALSE] /\ o.got = FALSE
          BY <3>6, <5>1
        <5> QED
          BY <4>1, <4>3, <4>4, <5>2
      <4>6. asks => d.flushCnt % 2 = 1
        BY <3>2, <3>8
      <4> HIDE DEF asks
      <4>7. \E stop \in BOOLEAN :
              (stop => d.flushCnt % 2 = 1) /\ o.h = [h EXCEPT !.rd = FALSE, !.stop = stop]
        BY <3>5, <4>5, <4>6
      <4> QED
        BY <1>3, <2>3, <2>4, <2>6, <3>8, <4>5, <4>7 DEF Flushes
    <3> QED
      BY <2>2, <3>7, <3>8
  <2> QED
    BY <2>5, <2>6
<1> QED
  BY <1>1, <1>2, <1>3
-----------------------------------------------------------------------------
(* Whatever it does, the registers and the transfer keep their types, and  *)
(* the transfer its owner and its messages.                                *)
LEMMA ServeTyped ==
  ASSUME NEW d, NEW h, Ready(d, h), NEW o \in Serve(d, h)
  PROVE  /\ o.d \in DevSet /\ o.h \in HwSet /\ o.got \in BOOLEAN
         /\ o.d.own = d.own
         /\ d.own # Nobody => o.d.idx >= 1 /\ o.d.rem >= 1 /\ o.d.idx + o.d.rem = d.idx + d.rem
<1>1. d \in DevSet /\ h \in HwSet
  BY DEF Ready
<1>2. /\ d.own \in Ctx \cup {Nobody} /\ d.idx \in 0 .. 2 /\ d.rem \in 0 .. 2
      /\ d.pos \in Int /\ d.cnt \in Nat
      /\ d.flushCnt \in Nat /\ d.needFlush \in BOOLEAN /\ d.timedOut \in BOOLEAN
      /\ d.own # Nobody => d.idx >= 1 /\ d.rem >= 1
  BY <1>1 DEF Ready, DevSet
<1>3. d.own # Nobody => Msg(d).rd \in BOOLEAN /\ (d.rem = 2 => xfer[d.own].msgs[2].len \in Nat)
  BY ReadIsLast
<1> DEFINE Follows(e) ==
             /\ e.own = d.own
             /\ d.own # Nobody => e.idx >= 1 /\ e.rem >= 1 /\ e.idx + e.rem = d.idx + d.rem
           Kept(e) == e \in DevSet /\ Follows(e)
<1>4. CASE Ignores(d, h, o) \/ Waits(d, h, o)
  <2>1. Kept(d) /\ Kept([d EXCEPT !.timedOut = FALSE])
    BY <1>1, <1>2 DEF DevSet
  <2>2. [h EXCEPT !.err = FALSE] \in HwSet
    BY <1>1 DEF HwSet
  <2>3. /\ o.d = d \/ o.d = [d EXCEPT !.timedOut = FALSE]
        /\ o.h = h \/ o.h = [h EXCEPT !.err = FALSE]
        /\ o.got = FALSE
    <3>1. CASE Ignores(d, h, o)
      BY <3>1 DEF Ignores
    <3>2. CASE Waits(d, h, o)
      BY <3>2, Zenon DEF Waits
    <3> QED
      BY <1>4, <3>1, <3>2
  <2> HIDE DEF Kept
  <2>4. Kept(o.d) /\ o.h \in HwSet /\ o.got \in BOOLEAN
    BY <1>1, <2>1, <2>2, <2>3
  <2> QED
    BY <2>4 DEF Kept
<1>5. CASE Refuses(d, h, o)
  <2>1. o.d = [d EXCEPT !.ret = ERROR, !.timedOut = TRUE] /\ o.got = FALSE
    BY <1>5 DEF Refuses
  <2>2. Kept([d EXCEPT !.ret = ERROR, !.timedOut = TRUE])
    <3>1. ERROR \in Int
      BY <1>2 DEF ERROR
    <3>2. [d EXCEPT !.ret = ERROR, !.timedOut = TRUE] \in DevSet
      BY <1>1, <3>1, Zenon DEF DevSet
    <3>3. \A e : e = [d EXCEPT !.ret = ERROR, !.timedOut = TRUE] => Follows(e)
      BY <1>1, <1>2 DEF DevSet
    <3> QED
      BY <3>2, <3>3
  <2>4. o.h = [h EXCEPT !.err = FALSE]
    BY <1>5 DEF Refuses
  <2>5. o.h \in HwSet
    BY <1>1, <2>4 DEF HwSet
  <2> HIDE DEF Kept
  <2>6. Kept(o.d)
    BY <2>1, <2>2
  <2> QED
    BY <2>1, <2>5, <2>6 DEF Kept
<1>6. CASE Addresses(d, h, o)
  <2>1. o.d = [d EXCEPT !.pos = 0] /\ o.got = FALSE
    BY <1>6 DEF Addresses
  <2>2. Kept([d EXCEPT !.pos = 0])
    BY <1>1, <1>2 DEF DevSet
  <2>3. Byte("addr", Msg(d).rd, FALSE, d.own) \in ByteSet
    BY <1>2, <1>3, <1>6, Bytes DEF Addresses
  <2>4. o.h = [h EXCEPT !.act = TRUE, !.wr = Byte("addr", Msg(d).rd, FALSE, d.own)]
    BY <1>6 DEF Addresses
  <2>5. o.h \in HwSet
    BY <1>1, <2>3, <2>4 DEF HwSet
  <2> HIDE DEF Kept
  <2>6. Kept(o.d)
    BY <2>1, <2>2
  <2> QED
    BY <2>1, <2>5, <2>6 DEF Kept
<1>7. CASE Sends(d, h, o)
  <2>1. o.d = [d EXCEPT !.pos = @ + 1, !.cnt = @ - 1] /\ o.got = FALSE
    BY <1>7 DEF Sends
  <2>0. d.pos >= 0 /\ d.cnt > 0
    BY <1>7 DEF Sends
  <2>2. Kept([d EXCEPT !.pos = @ + 1, !.cnt = @ - 1])
    <3>1. d.pos + 1 \in Int /\ d.cnt - 1 \in Nat
      BY <1>2, <1>3, <2>0
    <3>2. [d EXCEPT !.pos = @ + 1, !.cnt = @ - 1] \in DevSet
      BY <1>1, <3>1, Zenon DEF DevSet
    <3>3. \A e : e = [d EXCEPT !.pos = @ + 1, !.cnt = @ - 1] => Follows(e)
      BY <1>1, <1>2 DEF DevSet
    <3> QED
      BY <3>2, <3>3
  <2>3. Byte("data", FALSE, d.cnt = 1, d.own) \in ByteSet
    BY <1>2, <1>3, <1>7, Bytes DEF Sends
  <2>4. o.h = [h EXCEPT !.act = TRUE, !.wr = Byte("data", FALSE, d.cnt = 1, d.own)]
    BY <1>7 DEF Sends
  <2>5. o.h \in HwSet
    BY <1>1, <2>3, <2>4 DEF HwSet
  <2> HIDE DEF Kept
  <2>6. Kept(o.d)
    BY <2>1, <2>2
  <2> QED
    BY <2>1, <2>5, <2>6 DEF Kept
<1>8. CASE SendsOn(d, h, o)
  <2>1. /\ o.d = [d EXCEPT !.rem = 1, !.idx = 2, !.pos = -1, !.cnt = xfer[d.own].msgs[2].len]
        /\ o.got = FALSE
    BY <1>8 DEF SendsOn
  <2>0. d.own # Nobody /\ d.rem = 2 /\ d.idx = 1
    BY <1>8 DEF SendsOn
  <2>2. Kept([d EXCEPT !.rem = 1, !.idx = 2, !.pos = -1, !.cnt = xfer[d.own].msgs[2].len])
    <3>1. 1 \in 0 .. 2 /\ 2 \in 0 .. 2 /\ -1 \in Int /\ xfer[d.own].msgs[2].len \in Nat
      BY <1>2, <1>3, <2>0
    <3>2. [d EXCEPT !.rem = 1, !.idx = 2, !.pos = -1, !.cnt = xfer[d.own].msgs[2].len] \in DevSet
      BY <1>1, <3>1, Zenon DEF DevSet
    <3>3. \A e : e = [d EXCEPT !.rem = 1, !.idx = 2, !.pos = -1, !.cnt = xfer[d.own].msgs[2].len] =>
                 Follows(e)
      BY <1>1, <1>2, <2>0 DEF DevSet
    <3> QED
      BY <3>2, <3>3
  <2>3. Byte("data", FALSE, FALSE, d.own) \in ByteSet
    BY <1>2, <1>3, <1>8, Bytes DEF SendsOn
  <2>4. o.h = [h EXCEPT !.act = TRUE, !.wr = Byte("data", FALSE, FALSE, d.own)]
    BY <1>8 DEF SendsOn
  <2>5. o.h \in HwSet
    BY <1>1, <2>3, <2>4 DEF HwSet
  <2> HIDE DEF Kept
  <2>6. Kept(o.d)
    BY <2>1, <2>2
  <2> QED
    BY <2>1, <2>5, <2>6 DEF Kept
<1>9. CASE Stores(d, h, o)
  <2>1. o.d = [d EXCEPT !.pos = @ + 1, !.cnt = @ - 1,
                     !.needFlush = @ \/ (d.cnt = 1 /\ d.pos = 0),
                     !.timedOut = @ /\ (d.cnt > 1 \/ d.needFlush \/ d.pos = 0)] /\ o.got = TRUE
    BY <1>9 DEF Stores
  <2>0. d.pos >= 0 /\ d.cnt > 0
    BY <1>9 DEF Stores
  <2>2. Kept([d EXCEPT !.pos = @ + 1, !.cnt = @ - 1,
                     !.needFlush = @ \/ (d.cnt = 1 /\ d.pos = 0),
                     !.timedOut = @ /\ (d.cnt > 1 \/ d.needFlush \/ d.pos = 0)])
    <3>1. d.pos + 1 \in Int /\ d.cnt - 1 \in Nat /\ (d.needFlush \/ (d.cnt = 1 /\ d.pos = 0)) \in BOOLEAN
          /\ (d.timedOut /\ (d.cnt > 1 \/ d.needFlush \/ d.pos = 0)) \in BOOLEAN
      BY <1>2, <1>3, <2>0
    <3>2. [d EXCEPT !.pos = @ + 1, !.cnt = @ - 1,
                     !.needFlush = @ \/ (d.cnt = 1 /\ d.pos = 0),
                     !.timedOut = @ /\ (d.cnt > 1 \/ d.needFlush \/ d.pos = 0)] \in DevSet
      BY <1>1, <3>1, Zenon DEF DevSet
    <3>3. \A e : e = [d EXCEPT !.pos = @ + 1, !.cnt = @ - 1,
                     !.needFlush = @ \/ (d.cnt = 1 /\ d.pos = 0),
                     !.timedOut = @ /\ (d.cnt > 1 \/ d.needFlush \/ d.pos = 0)] => Follows(e)
      BY <1>1, <1>2 DEF DevSet
    <3> QED
      BY <3>2, <3>3
  <2>3. PICK stop \in BOOLEAN : o.h = [h EXCEPT !.rd = FALSE, !.stop = stop]
    BY <1>9 DEF Stores
  <2>5. o.h \in HwSet
    BY <1>1, <2>3 DEF HwSet
  <2> HIDE DEF Kept
  <2>6. Kept(o.d)
    BY <2>1, <2>2
  <2> QED
    BY <2>1, <2>5, <2>6 DEF Kept
<1>10. CASE Flushes(d, h, o)
  <2>1. PICK n \in Nat : o.d = [d EXCEPT !.flushCnt = n, !.needFlush = FALSE, !.timedOut = FALSE]
                         /\ o.got = FALSE
    <3>1. CASE d.needFlush
      BY <1>2, <1>10, <3>1 DEF Flushes
    <3>2. CASE ~d.needFlush
      <4>1. d.flushCnt + 1 \in Nat
        BY <1>2
      <4> QED
        BY <1>10, <3>2, <4>1 DEF Flushes
    <3> QED
      BY <3>1, <3>2
  <2>2. Kept([d EXCEPT !.flushCnt = n, !.needFlush = FALSE, !.timedOut = FALSE])
    <3>1. [d EXCEPT !.flushCnt = n, !.needFlush = FALSE, !.timedOut = FALSE] \in DevSet
      BY <1>1, Zenon DEF DevSet
    <3> QED
      BY <1>1, <1>2, <3>1 DEF DevSet
  <2>3. PICK stop \in BOOLEAN : o.h = [h EXCEPT !.rd = FALSE, !.stop = stop]
    BY <1>10 DEF Flushes
  <2>5. o.h \in HwSet
    BY <1>1, <2>3 DEF HwSet
  <2> HIDE DEF Kept
  <2>6. Kept(o.d)
    BY <2>1, <2>2
  <2> QED
    BY <2>1, <2>5, <2>6 DEF Kept
<1> QED
  BY <1>4, <1>5, <1>6, <1>7, <1>8, <1>9, <1>10, ServeCases

(* The handler leaves the position inside the message.                     *)
LEMMA ServePlaced ==
  ASSUME NEW d, NEW h, Ready(d, h), NEW o \in Serve(d, h), d.own # Nobody
  PROVE  Placed(o.d)
<1>1. d \in DevSet /\ Placed(d)
  BY DEF Ready
<1>2. /\ d.own \in Ctx /\ d.idx \in 0 .. 2 /\ d.rem \in 0 .. 2 /\ d.pos \in Int /\ d.cnt \in Nat
      /\ d.flushCnt \in Nat /\ d.needFlush \in BOOLEAN /\ d.timedOut \in BOOLEAN
  BY <1>1 DEF DevSet
<1>3. /\ d.rem \in {1, 2} /\ d.idx \in {1, 2} /\ (d.rem = 2 => d.idx = 1 /\ ~Msg(d).rd)
      /\ Msg(d).len \in Nat \ {0} /\ Msg(d).rd \in BOOLEAN
      /\ d.rem = 2 => xfer[d.own].msgs[2].len \in Nat \ {0}
  BY ReadIsLast
<1>4. Msg(d) = xfer[d.own].msgs[d.idx]
  BY DEF Msg
<1> DEFINE len == Msg(d).len
<1>5. ((d.pos = -1 /\ d.cnt = len) \/ (d.pos >= 0 /\ d.pos + d.cnt = len)) /\ (d.rem > 1 => d.cnt > 0)
      /\ (d.cnt > 0 \/ d.needFlush => d.flushCnt = 0) /\ len \in Nat \ {0}
  BY <1>1, <1>3, Zenon DEF Placed
<1> HIDE DEF len
<1>6. ASSUME o.d.own = d.own, o.d.idx = d.idx PROVE Msg(o.d).len = len
  BY <1>4, <1>6 DEF Msg, len
<1>7. CASE Refuses(d, h, o) \/ Waits(d, h, o)
  <2>1. /\ o.d.own = d.own /\ o.d.idx = d.idx /\ o.d.pos = d.pos /\ o.d.cnt = d.cnt /\ o.d.rem = d.rem
        /\ o.d.needFlush = d.needFlush /\ o.d.flushCnt = d.flushCnt
    <3>1. \/ o.d = [d EXCEPT !.ret = ERROR, !.timedOut = TRUE]
          \/ o.d = [d EXCEPT !.timedOut = FALSE]
          \/ o.d = d
      BY <1>7 DEF Refuses, Waits
    <3>2. CASE o.d = d
      BY <3>2
    <3> QED
      BY <1>1, <3>1, <3>2 DEF DevSet
  <2> QED
    BY <1>5, <1>6, <2>1 DEF Placed
<1>8. CASE Addresses(d, h, o)
  <2>1. /\ o.d.own = d.own /\ o.d.idx = d.idx /\ o.d.pos = 0 /\ o.d.cnt = d.cnt /\ o.d.rem = d.rem
        /\ o.d.needFlush = d.needFlush /\ o.d.flushCnt = d.flushCnt /\ d.cnt = len
    BY <1>1, <1>8 DEF Addresses, DevSet, len
  <2> QED
    BY <1>5, <1>6, <2>1 DEF Placed
<1>9. CASE Sends(d, h, o)
  <2>1. /\ o.d.own = d.own /\ o.d.idx = d.idx /\ o.d.pos = d.pos + 1
        /\ o.d.cnt = d.cnt - 1 /\ o.d.rem = d.rem
        /\ o.d.needFlush = d.needFlush /\ o.d.flushCnt = d.flushCnt
        /\ d.pos >= 0 /\ d.cnt > 0 /\ (d.cnt = 1 => d.rem = 1)
    BY <1>1, <1>9 DEF Sends, DevSet
  <2> QED
    BY <1>2, <1>5, <1>6, <2>1 DEF Placed
<1>10. CASE SendsOn(d, h, o)
  <2>1. /\ o.d.own = d.own /\ o.d.idx = 2 /\ o.d.pos = -1 /\ o.d.rem = 1
        /\ o.d.cnt = xfer[d.own].msgs[2].len
        /\ o.d.needFlush = d.needFlush /\ o.d.flushCnt = d.flushCnt /\ d.cnt = 1
    BY <1>1, <1>10 DEF SendsOn, DevSet
  <2>2. Msg(o.d).len = o.d.cnt
    BY <2>1 DEF Msg
  <2> QED
    BY <1>2, <1>5, <2>1, <2>2 DEF Placed
<1>11. CASE Stores(d, h, o)
  <2>1. /\ o.d.own = d.own /\ o.d.idx = d.idx /\ o.d.pos = d.pos + 1
        /\ o.d.cnt = d.cnt - 1 /\ o.d.rem = 1
        /\ o.d.flushCnt = d.flushCnt /\ d.pos >= 0 /\ d.cnt > 0
    BY <1>1, <1>11 DEF Stores, DevSet
  <2> QED
    BY <1>2, <1>5, <1>6, <2>1 DEF Placed
<1>12. CASE Flushes(d, h, o)
  <2>1. /\ o.d.own = d.own /\ o.d.idx = d.idx /\ o.d.pos = d.pos /\ o.d.cnt = 0 /\ o.d.rem = 1
        /\ ~o.d.needFlush /\ d.pos >= 0 /\ d.cnt = 0
    BY <1>1, <1>12 DEF Flushes, DevSet
  <2> QED
    BY <1>2, <1>5, <1>6, <2>1 DEF Placed
<1>13. ~Ignores(d, h, o)
  BY DEF Ignores
<1> QED
  BY <1>7, <1>8, <1>9, <1>10, <1>11, <1>12, <1>13, ServeCases
-----------------------------------------------------------------------------
(* A byte on the bus has a kind, and the registers exclude one another.    *)
LEMMA Registers ==
  ASSUME IInv
  PROVE  /\ dev \in DevSet /\ hw \in HwSet /\ irq \in [on : BOOLEAN, pending : BOOLEAN]
         /\ xfer \in [Ctx -> LevelSet]
         /\ hw.wr \in ByteSet
         /\ hw.wr.kind \in {"none", "addr", "data"} /\ (hw.wr = NoByte <=> hw.wr.kind = "none")
<1>1. dev \in DevSet /\ hw \in HwSet /\ irq \in [on : BOOLEAN, pending : BOOLEAN]
      /\ xfer \in [Ctx -> LevelSet]
  BY Types DEF IInv
<1>2. hw.wr \in ByteSet
  BY <1>1 DEF HwSet
<1>3. hw.wr.kind \in {"none", "addr", "data"}
  BY <1>2 DEF ByteSet
<1>4. hw.wr = NoByte \/ hw.wr.kind \in {"addr", "data"}
  BY DEF IInv, BusInv
<1> QED
  BY <1>1, <1>2, <1>3, <1>4, Bytes

(* What the controller and the handler leave of the calls.                  *)
SameCalls ==
  \A k \in Ctx :
    xfer'[k].pc = xfer[k].pc /\ xfer'[k].cut = xfer[k].cut /\ xfer'[k].late = xfer[k].late

LEMMA CallsStay ==
  ASSUME IInv, SameCalls, dev'.own = dev.own
  PROVE  /\ OwnInv'
         /\ \A c \in Ctx : (Top(c)' <=> Top(c)) /\ (Losing(c)' <=> Losing(c))
         /\ ~Stopped => RestInv'
<1>1. \A c \in Ctx : Top(c)' <=> Top(c)
  BY DEF SameCalls, Top
<1>2. \A c \in Ctx : Losing(c)' <=> Losing(c)
  BY <1>1 DEF SameCalls, Losing
<1>3. OwnInv'
  BY DEF IInv, OwnInv, SameCalls
<1>4. ~Stopped => RestInv'
  BY <1>1 DEF IInv, RestInv, SameCalls
<1> QED
  BY <1>1, <1>2, <1>3, <1>4

(* Reads lost before are lost still.                                        *)
LEMMA LooseStays ==
  ASSUME IInv, SameCalls, dev'.own = dev.own, Loose' => Loose /\ hw'.act /\ ~hw'.stop
  PROVE  LooseInv'
<1>1. \A c \in Ctx : Losing(c)' <=> Losing(c)
  BY CallsStay
<1>2. SUFFICES ASSUME Loose' PROVE hw'.act /\ ~hw'.stop /\ \E c \in Ctx : Losing(c)'
  BY DEF LooseInv
<1>3. PICK c \in Ctx : Losing(c)
  BY <1>2 DEF IInv, LooseInv
<1>4. Losing(c)'
  BY <1>1, <1>3
<1> QED
  BY <1>2, <1>4

(* An address is acknowledged.                                             *)
LEMMA HwAddressKeeps == ASSUME IInv, HwAddress PROVE IInv'
<1>1. /\ dev \in DevSet /\ hw \in HwSet /\ irq \in [on : BOOLEAN, pending : BOOLEAN]
      /\ xfer \in [Ctx -> LevelSet] /\ hw.wr \in ByteSet
  BY Registers
<1>2. hw.act /\ ~hw.stuck /\ hw.wr.kind = "addr" /\ hw.wr # NoByte
  BY Registers DEF HwAddress, HwReady
<1>3. /\ hw'.wr = NoByte /\ hw'.reading = (hw.wr.rd /\ ~hw.wr.last) /\ hw'.act = ~hw.wr.last
      /\ hw'.rd = hw.rd
      /\ hw'.stop = hw.stop /\ hw'.err = hw.err /\ hw'.stuck = hw.stuck /\ hw' \in HwSet
  <2>1. hw' = [hw EXCEPT !.wr = NoByte, !.act = ~hw.wr.last, !.reading = hw.wr.rd /\ ~hw.wr.last]
    BY DEF HwAddress
  <2>2. (~hw.wr.last) \in BOOLEAN /\ (hw.wr.rd /\ ~hw.wr.last) \in BOOLEAN
    BY <1>1 DEF ByteSet
  <2>3. hw' \in HwSet
    BY <1>1, <2>1, <2>2, Bytes, Zenon DEF HwSet
  <2> QED
    BY <1>1, <2>1, <2>3 DEF HwSet
<1>4. irq'.on = irq.on /\ irq'.pending = TRUE /\ irq' \in [on : BOOLEAN, pending : BOOLEAN]
  BY <1>1 DEF HwAddress, Raise
<1>5. dev' = dev /\ xfer' = xfer
  BY DEF HwAddress
<1>6. ~hw.rd /\ ~hw.reading /\ ~hw.err /\ ~hw.stop /\ (dev.own # Nobody => ~hw.wr.last)
  BY <1>2 DEF IInv, BusInv
<1>7. TypeOK'
  BY <1>1, <1>3, <1>4, <1>5, Types DEF TypeOK, DevSet, HwSet, ByteSet, LevelSet
<1>8. CallsInv' /\ CutsInv'
  BY <1>4, <1>5 DEF IInv, CallsInv, CutsInv, CutAt, Top
<1>9. DevInv'
  BY <1>2, <1>3, <1>4, <1>5 DEF IInv, DevInv, Placed, Msg, Num, Top, Still
<1>10. BusInv'
  BY <1>2, <1>3, <1>4, <1>5, <1>6, Bytes DEF IInv, BusInv, Served, Msg, LastByte
<1>11. LooseInv' /\ OwnInv' /\ RestInv'
  <2>1. SameCalls /\ dev'.own = dev.own
    BY <1>5 DEF SameCalls
  <2>2. Loose' => Loose /\ hw'.act /\ ~hw'.stop
    BY <1>2, <1>3, <1>4, <1>5, <1>6, Bytes DEF IInv, LooseInv, Loose, Served
  <2>3. ~Stopped
    BY <1>2, <1>6 DEF Stopped
  <2> QED
    BY <2>1, <2>2, <2>3, CallsStay, LooseStays
<1>12. StillInv'
  BY <1>2, <1>3, <1>4, <1>5, <1>6 DEF IInv, StillInv, Still, Top, Setting
<1>13. CalmInv'
  <2> SUFFICES ASSUME NEW c \in Ctx, xfer[c].cut = "none"
               PROVE  StaysCalm(c)
    BY <1>5 DEF CalmInv, StaysCalm
  <2>1. xfer[c].pc = "wait" => Going(c) /\ dev.own # Nobody
    BY <1>2 DEF IInv, CalmInv, Failed, Pointing, Ctx, Nobody
  <2>2. Going(c) /\ dev.own # Nobody => Going(c)'
    BY <1>2, <1>3, <1>4, <1>5, <1>6, Bytes DEF Going, Num, InFlight, Before, Msg
  <2> QED
    BY <1>2, <1>3, <1>5, <2>1, <2>2 DEF IInv, CalmInv, Judged, Succeeded, Num, Total, StaysCalm, Setting
<1> QED
  BY <1>7, <1>8, <1>9, <1>10, <1>11, <1>12, <1>13 DEF IInv

(* The position in the message, counted over the whole list.               *)
Passed == Before + (IF dev.pos < 0 THEN 0 ELSE dev.pos)

(* The bytes before the position and those still to come make up the       *)
(* attempt.                                                                *)
LEMMA Position ==
  ASSUME IInv, dev.own # Nobody, xfer[dev.own].pc # "kick"
  PROVE  /\ Passed \in Nat /\ Total(dev.own) \in Nat /\ dev.cnt \in Nat
         /\ dev.rem \in {1, 2}
         /\ dev.rem = 1 => Passed + dev.cnt = Total(dev.own)
         /\ dev.rem = 2 => Passed + dev.cnt < Total(dev.own) /\ dev.cnt > 0
         /\ dev.pos < 0 => dev.cnt > 0
         /\ dev.cnt = 0 => dev.pos > 0
<1> DEFINE m == xfer[dev.own].msgs
<1>1. dev.own \in Ctx /\ xfer[dev.own].pc \in Pointing /\ Placed(dev)
      /\ dev.idx >= 1 /\ dev.rem >= 1 /\ dev.idx + dev.rem = Len(m) + 1
  BY DEF IInv, DevInv, Num
<1>2. m \in Messages
  BY <1>1 DEF IInv, CallsInv, Pointing
<1>3. dev.idx \in 0 .. 2 /\ dev.rem \in 0 .. 2 /\ dev.pos \in Int /\ dev.cnt \in Nat
  BY Registers DEF DevSet
<1>4. Msg(dev) = m[dev.idx]
  BY DEF Msg
<1>5. Total(dev.own) = m[1].len + (IF Len(m) > 1 THEN m[2].len ELSE 0)
  BY DEF Total, TotalBytes
<1>6. Passed = (IF dev.idx = 2 THEN m[1].len ELSE 0) + (IF dev.pos < 0 THEN 0 ELSE dev.pos)
  BY DEF Passed, Before
<1> HIDE DEF m
<1>7. CASE Len(m) = 1
  <2>1. dev.idx = 1 /\ dev.rem = 1 /\ m[1].len \in Nat \ {0}
    BY <1>1, <1>2, <1>3, <1>7, Lists
  <2> QED
    BY <1>1, <1>3, <1>4, <1>5, <1>6, <1>7, <2>1 DEF Placed
<1>8. CASE Len(m) = 2
  <2>1. m[1].len \in Nat \ {0} /\ m[2].len \in Nat \ {0}
    BY <1>2, <1>8, Lists
  <2>2. (dev.idx = 1 /\ dev.rem = 2) \/ (dev.idx = 2 /\ dev.rem = 1)
    BY <1>1, <1>3, <1>8
  <2>3. CASE dev.idx = 1 /\ dev.rem = 2
    BY <1>1, <1>3, <1>4, <1>5, <1>6, <1>8, <2>1, <2>3 DEF Placed
  <2>4. CASE dev.idx = 2 /\ dev.rem = 1
    BY <1>1, <1>3, <1>4, <1>5, <1>6, <1>8, <2>1, <2>4 DEF Placed
  <2> QED
    BY <2>2, <2>3, <2>4
<1> QED
  BY <1>2, <1>7, <1>8, Lists

(* A slave does not acknowledge: the attempt has moved less than           *)
(* everything.                                                             *)
LEMMA HwNackKeeps == ASSUME IInv, HwNack PROVE IInv'
<1>1. /\ dev \in DevSet /\ hw \in HwSet /\ irq \in [on : BOOLEAN, pending : BOOLEAN]
      /\ xfer \in [Ctx -> LevelSet] /\ hw.wr \in ByteSet
  BY Registers
<1>2. hw.act /\ ~hw.stuck /\ hw.wr # NoByte
  BY Registers DEF HwNack, HwReady
<1>3. /\ hw'.wr = NoByte /\ hw'.reading = FALSE /\ hw'.act \in BOOLEAN /\ hw'.rd = hw.rd
      /\ hw'.stop = hw.stop /\ hw'.err = TRUE /\ hw'.stuck = hw.stuck /\ hw' \in HwSet
  <2>1. PICK act \in BOOLEAN :
          hw' = [hw EXCEPT !.wr = NoByte, !.err = TRUE, !.act = act, !.reading = FALSE]
    BY DEF HwNack
  <2>2. hw' \in HwSet
    BY <1>1, <2>1, Bytes, Zenon DEF HwSet
  <2> QED
    BY <1>1, <2>1, <2>2 DEF HwSet
<1>4. irq'.on = irq.on /\ irq'.pending = TRUE /\ irq' \in [on : BOOLEAN, pending : BOOLEAN]
  BY <1>1 DEF HwNack, Raise
<1>5. dev' = dev /\ xfer' = xfer
  BY DEF HwNack
<1>6. ~hw.rd /\ ~hw.reading /\ ~hw.err /\ ~hw.stop
  BY <1>2, Bytes DEF IInv, BusInv
<1>7. TypeOK'
  BY <1>1, <1>3, <1>4, <1>5, Types DEF TypeOK, DevSet, HwSet, ByteSet, LevelSet
<1>8. CallsInv' /\ CutsInv'
  BY <1>4, <1>5 DEF IInv, CallsInv, CutsInv, CutAt, Top
<1>9. DevInv'
  BY <1>2, <1>3, <1>4, <1>5 DEF IInv, DevInv, Placed, Msg, Num, Top, Still
<1>10. BusInv'
  BY <1>2, <1>3, <1>4, <1>5, <1>6, Bytes DEF IInv, BusInv, Served, Msg, LastByte
<1>11. LooseInv' /\ OwnInv' /\ RestInv'
  <2>1. SameCalls /\ dev'.own = dev.own
    BY <1>5 DEF SameCalls
  <2>2. Loose' => Loose /\ hw'.act /\ ~hw'.stop
    BY <1>2, <1>3, <1>4, <1>5, <1>6, Bytes DEF IInv, LooseInv, Loose, Served
  <2>3. ~Stopped
    BY <1>2, <1>6 DEF Stopped
  <2> QED
    BY <2>1, <2>2, <2>3, CallsStay, LooseStays
<1>12. StillInv'
  BY <1>2, <1>3, <1>4, <1>5, <1>6 DEF IInv, StillInv, Still, Top, Setting
<1>13. CalmInv'
  <2> SUFFICES ASSUME NEW c \in Ctx, xfer[c].cut = "none"
               PROVE  StaysCalm(c)
    BY <1>5 DEF CalmInv, StaysCalm
  <2>1. xfer[c].pc = "wait" => Going(c) /\ dev.own = c /\ dev.own # Nobody
    BY <1>2 DEF IInv, CalmInv, Failed, Pointing, Ctx, Nobody
  <2>2. xfer[c].pc = "wait" => Failed(c)'
    <3> SUFFICES ASSUME xfer[c].pc = "wait" PROVE xfer[c].moved < Total(c)
      BY <1>3, <1>4, <1>5, <1>6 DEF Failed, Total
    <3>1. /\ Passed \in Nat /\ Total(c) \in Nat /\ dev.cnt \in Nat
          /\ Passed + dev.cnt <= Total(c)
          /\ dev.pos < 0 => dev.cnt > 0
      BY <2>1, Position
    <3>2. xfer[c].moved + InFlight = Passed /\ xfer[c].moved \in Nat
      BY <1>1, <2>1 DEF Going, Passed, LevelSet
    <3>3. CASE hw.wr.kind = "data"
      BY <3>1, <3>2, <3>3 DEF InFlight
    <3>4. CASE hw.wr.kind = "addr"
      BY <2>1, <3>1, <3>2, <3>4 DEF InFlight, Going
    <3> QED
      BY <1>2, <3>3, <3>4, Registers
  <2> QED
    BY <1>2, <1>3, <1>5, <2>1, <2>2 DEF IInv, CalmInv, Judged, Succeeded, Num, Total, StaysCalm, Setting
<1> QED
  BY <1>7, <1>8, <1>9, <1>10, <1>11, <1>12, <1>13 DEF IInv

(* A byte is shifted in.                                                   *)
LEMMA HwShiftInKeeps == ASSUME IInv, HwShiftIn PROVE IInv'
<1>1. /\ dev \in DevSet /\ hw \in HwSet /\ irq \in [on : BOOLEAN, pending : BOOLEAN]
      /\ xfer \in [Ctx -> LevelSet] /\ hw.wr \in ByteSet
  BY Registers
<1>2. hw.act /\ ~hw.stuck /\ hw.reading /\ ~hw.rd /\ hw.wr = NoByte
  BY Registers DEF HwShiftIn, HwReady
<1>3. /\ hw'.wr = NoByte /\ hw'.reading = ~hw.stop /\ hw'.act = ~hw.stop /\ hw'.rd = TRUE
      /\ hw'.stop = FALSE /\ hw'.err = hw.err /\ hw'.stuck = hw.stuck /\ hw' \in HwSet
  <2>1. hw' = [hw EXCEPT !.rd = TRUE, !.act = ~hw.stop, !.reading = ~hw.stop, !.stop = FALSE]
    BY DEF HwShiftIn
  <2>2. hw' \in HwSet
    BY <1>1, <2>1, Zenon DEF HwSet
  <2> QED
    BY <1>1, <1>2, <2>1, <2>2 DEF HwSet
<1>4. irq'.on = irq.on /\ irq'.pending = TRUE /\ irq' \in [on : BOOLEAN, pending : BOOLEAN]
  BY <1>1 DEF HwShiftIn, Raise
<1>5. dev' = dev /\ xfer' = xfer
  BY DEF HwShiftIn
<1>6. ~hw.err /\ hw.wr.kind = "none" /\ hw.stop \in BOOLEAN
  BY <1>1, <1>2, Bytes DEF IInv, BusInv, HwSet
<1>7. TypeOK'
  BY <1>1, <1>3, <1>4, <1>5, Types DEF TypeOK, DevSet, HwSet, ByteSet, LevelSet
<1>8. CallsInv' /\ CutsInv'
  BY <1>4, <1>5 DEF IInv, CallsInv, CutsInv, CutAt, Top
<1>9. DevInv'
  BY <1>2, <1>3, <1>4, <1>5 DEF IInv, DevInv, Placed, Msg, Num, Top, Still
<1>10. BusInv'
  <2>1. hw.stop => Served /\ LastByte
    BY <1>2 DEF IInv, BusInv
  <2>2. dev.own # Nobody => Msg(dev).rd /\ dev.pos >= 0
    BY <1>1, <1>2 DEF IInv, BusInv, DevSet
  <2>3. Msg(dev)' = Msg(dev) /\ (LastByte' <=> LastByte) /\ (Served' <=> Served)
    BY <1>4, <1>5 DEF Msg, LastByte, Served
  <2>4. hw'.act <=> ~hw.stop
    BY <1>3
  <2>5. hw'.reading <=> ~hw.stop
    BY <1>3
  <2>6. /\ hw'.wr = NoByte /\ hw'.wr.kind = "none" /\ hw'.rd /\ ~hw'.stop /\ ~hw'.err
        /\ irq'.pending /\ hw'.stuck = hw.stuck /\ ~hw.stuck
    BY <1>2, <1>3, <1>4, <1>6, Bytes
  <2>7. dev'.own = dev.own /\ dev'.pos = dev.pos /\ dev.pos \in Int
    BY <1>1, <1>5 DEF DevSet
  <2> QED
    BY <2>1, <2>2, <2>3, <2>4, <2>5, <2>6, <2>7 DEF BusInv
<1>11. LooseInv' /\ OwnInv' /\ RestInv'
  <2>1. SameCalls /\ dev'.own = dev.own
    BY <1>5 DEF SameCalls
  <2>2. Loose' => Loose /\ hw'.act /\ ~hw'.stop
    BY <1>2, <1>3, <1>4, <1>5, <1>6, Bytes DEF IInv, LooseInv, Loose, Served
  <2>3. ~Stopped
    BY <1>2, <1>6 DEF Stopped
  <2> QED
    BY <2>1, <2>2, <2>3, CallsStay, LooseStays
<1>12. StillInv'
  BY <1>2, <1>3, <1>4, <1>5, <1>6 DEF IInv, StillInv, Still, Top, Setting
<1>13. CalmInv'
  <2> SUFFICES ASSUME NEW c \in Ctx, xfer[c].cut = "none"
               PROVE  StaysCalm(c)
    BY <1>5 DEF CalmInv, StaysCalm
  <2>1. xfer[c].pc = "wait" => Going(c)
    BY <1>2 DEF IInv, CalmInv, Failed
  <2>2. Going(c) => Going(c)'
    BY <1>2, <1>3, <1>4, <1>5, <1>6, Bytes DEF Going, Num, InFlight, Before, Msg
  <2> QED
    BY <1>2, <1>3, <1>5, <2>1, <2>2 DEF IInv, CalmInv, Judged, Succeeded, Num, Total, StaysCalm, Setting
<1> QED
  BY <1>7, <1>8, <1>9, <1>10, <1>11, <1>12, <1>13 DEF IInv

(* A slave holds the bus.                                                  *)
LEMMA HwStickKeeps == ASSUME IInv, HwStick PROVE IInv'
<1>1. /\ dev \in DevSet /\ hw \in HwSet /\ irq \in [on : BOOLEAN, pending : BOOLEAN]
      /\ xfer \in [Ctx -> LevelSet] /\ hw.wr \in ByteSet
  BY Registers
<1>2. hw.act /\ ~hw.stuck
  BY Registers DEF HwStick, HwReady
<1>3. /\ hw'.wr = hw.wr /\ hw'.reading = hw.reading /\ hw'.act = hw.act /\ hw'.rd = hw.rd
      /\ hw'.stop = hw.stop /\ hw'.err = hw.err /\ hw'.stuck = TRUE /\ hw' \in HwSet
  BY <1>1, Bytes DEF HwStick, HwSet, ByteSet
<1>4. irq' = irq /\ irq' \in [on : BOOLEAN, pending : BOOLEAN]
  BY <1>1 DEF HwStick, Raise
<1>5. dev' = dev /\ xfer' = xfer
  BY DEF HwStick
<1>6. TRUE
  BY <1>2, Bytes DEF IInv, BusInv
<1>7. TypeOK'
  BY <1>1, <1>3, <1>4, <1>5, Types DEF TypeOK, DevSet, HwSet, ByteSet, LevelSet
<1>8. CallsInv' /\ CutsInv'
  BY <1>4, <1>5 DEF IInv, CallsInv, CutsInv, CutAt, Top
<1>9. DevInv'
  BY <1>2, <1>3, <1>4, <1>5 DEF IInv, DevInv, Placed, Msg, Num, Top, Still
<1>10. BusInv'
  BY <1>2, <1>3, <1>4, <1>5, <1>6, Bytes DEF IInv, BusInv, Served, Msg, LastByte
<1>11. LooseInv' /\ OwnInv' /\ RestInv'
  <2>1. SameCalls /\ dev'.own = dev.own
    BY <1>5 DEF SameCalls
  <2>2. Loose' => Loose /\ hw'.act /\ ~hw'.stop
    BY <1>2, <1>3, <1>4, <1>5, <1>6, Bytes DEF IInv, LooseInv, Loose, Served
  <2>3. RestInv'
    BY <1>3, <1>5 DEF IInv, RestInv, Stopped, Top
  <2> QED
    BY <2>1, <2>2, <2>3, CallsStay, LooseStays
<1>12. StillInv'
  BY <1>2, <1>3, <1>4, <1>5, <1>6 DEF IInv, StillInv, Still, Top, Setting
<1>13. CalmInv'
  <2> SUFFICES ASSUME NEW c \in Ctx, xfer[c].cut = "none"
               PROVE  StaysCalm(c)
    BY <1>5 DEF CalmInv, StaysCalm
  <2>1. xfer[c].pc = "wait" => Going(c) \/ Failed(c)
    BY DEF IInv, CalmInv
  <2>2. (Going(c) => Going(c)') /\ (Failed(c) => Failed(c)')
    BY <1>3, <1>4, <1>5 DEF Going, Failed, Num, InFlight, Before, Msg, Total
  <2> QED
    BY <1>2, <1>3, <1>5, <2>1, <2>2 DEF IInv, CalmInv, Judged, Succeeded, Num, Total, StaysCalm, Setting
<1> QED
  BY <1>7, <1>8, <1>9, <1>10, <1>11, <1>12, <1>13 DEF IInv

(* Crediting a byte changes the count of one level and nothing else.       *)
SameCall(x, y) ==
  x.pc = y.pc /\ x.msgs = y.msgs /\ x.ret = y.ret /\ x.late = y.late /\ x.cut = y.cut

CreditedTo(x, y, own, got) ==
  /\ y \in [Ctx -> LevelSet]
  /\ \A k \in Ctx :
       /\ SameCall(y[k], x[k])
       /\ y[k].moved = IF got /\ k = own THEN x[k].moved + 1 ELSE x[k].moved

(* A byte of data is counted for the level that sent it.                   *)
LEMMA Credited ==
  ASSUME NEW x \in [Ctx -> LevelSet], NEW own, NEW got
  PROVE  CreditedTo(x, Credit(x, own, got), own, got)
<1>0. \A k \in Ctx : SameCall(x[k], x[k])
  BY DEF SameCall
<1>1. CASE ~got
  <2>1. Credit(x, own, got) = x
    BY <1>1 DEF Credit
  <2> QED
    BY <1>0, <1>1, <2>1 DEF CreditedTo
<1>2. CASE own \notin Ctx
  <2>1. Credit(x, own, got) = x
    BY <1>2 DEF Credit
  <2> QED
    BY <1>0, <1>2, <2>1 DEF CreditedTo
<1>3. CASE got /\ own \in Ctx
  <2> DEFINE y == [x[own] EXCEPT !.moved = @ + 1]
  <2>1. Credit(x, own, got) = [x EXCEPT ![own] = y]
    BY <1>3 DEF Credit
  <2>2. x[own] \in LevelSet /\ x[own].moved + 1 \in Nat
    BY <1>3 DEF LevelSet
  <2>3. y \in LevelSet
    BY <2>2, Zenon DEF LevelSet
  <2>4. SameCall(y, x[own]) /\ y.moved = x[own].moved + 1
    BY <2>2 DEF LevelSet, SameCall
  <2> HIDE DEF y
  <2> QED
    BY <1>0, <1>3, <2>1, <2>3, <2>4 DEF CreditedTo
<1> QED
  BY <1>1, <1>2, <1>3

(* A byte of data is acknowledged.                                         *)
LEMMA HwDataKeeps == ASSUME IInv, HwData PROVE IInv'
<1>1. /\ dev \in DevSet /\ hw \in HwSet /\ irq \in [on : BOOLEAN, pending : BOOLEAN]
      /\ xfer \in [Ctx -> LevelSet] /\ hw.wr \in ByteSet
  BY Registers
<1>2. hw.act /\ ~hw.stuck /\ hw.wr.kind = "data" /\ hw.wr # NoByte
  BY Registers DEF HwData, HwReady
<1>3. /\ hw'.wr = NoByte /\ hw'.reading = hw.reading /\ hw'.act = ~hw.wr.last /\ hw'.rd = hw.rd
      /\ hw'.stop = hw.stop /\ hw'.err = hw.err /\ hw'.stuck = hw.stuck /\ hw' \in HwSet
  <2>1. hw' = [hw EXCEPT !.wr = NoByte, !.act = ~hw.wr.last]
    BY DEF HwData
  <2>2. (~hw.wr.last) \in BOOLEAN
    OBVIOUS
  <2>3. hw' \in HwSet
    BY <1>1, <2>1, <2>2, Bytes, Zenon DEF HwSet
  <2> QED
    BY <1>1, <2>1, <2>3 DEF HwSet
<1>4. irq'.on = irq.on /\ irq'.pending = TRUE /\ irq' \in [on : BOOLEAN, pending : BOOLEAN]
  BY <1>1 DEF HwData, Raise
<1>5. /\ dev.own # Nobody /\ irq.on /\ hw.wr.own = dev.own
      /\ dev.pos >= 0 => dev.pos > 0 /\ ~Msg(dev).rd /\ (hw.wr.last <=> dev.cnt = 0 /\ dev.rem = 1)
      /\ dev.pos < 0 => dev.idx = 2 /\ ~hw.wr.last
  BY <1>2 DEF IInv, BusInv, Served
<1>6. ~hw.rd /\ ~hw.reading /\ ~hw.err /\ ~hw.stop
  BY <1>2 DEF IInv, BusInv
<1>7. /\ dev' = dev /\ xfer' \in [Ctx -> LevelSet]
      /\ \A k \in Ctx :
           /\ xfer'[k].pc = xfer[k].pc /\ xfer'[k].msgs = xfer[k].msgs /\ xfer'[k].ret = xfer[k].ret
           /\ xfer'[k].late = xfer[k].late /\ xfer'[k].cut = xfer[k].cut
           /\ xfer'[k].moved = IF k = dev.own THEN xfer[k].moved + 1 ELSE xfer[k].moved
  <2>1. dev' = dev /\ xfer' = Credit(xfer, dev.own, TRUE)
    BY <1>5 DEF HwData
  <2>2. CreditedTo(xfer, xfer', dev.own, TRUE)
    BY <1>1, <2>1, Credited
  <2> QED
    BY <2>1, <2>2 DEF CreditedTo, SameCall
<1>8. TypeOK'
  BY <1>1, <1>3, <1>4, <1>7, Types DEF TypeOK, DevSet, HwSet, ByteSet, LevelSet
<1>9. CallsInv' /\ CutsInv'
  BY <1>4, <1>7 DEF IInv, CallsInv, CutsInv, CutAt, Top
<1>10. DevInv'
  BY <1>2, <1>3, <1>4, <1>7 DEF IInv, DevInv, Placed, Msg, Num, Top, Still
<1>11. BusInv'
  BY <1>2, <1>3, <1>4, <1>5, <1>6, <1>7, Bytes DEF IInv, BusInv, Served, Msg, LastByte
<1>12. LooseInv' /\ OwnInv' /\ RestInv'
  <2>1. SameCalls /\ dev'.own = dev.own
    BY <1>7 DEF SameCalls
  <2>2. ~Loose'
    BY <1>3, <1>4, <1>5, <1>6, <1>7, Bytes DEF Loose, Served
  <2>3. ~Stopped
    BY <1>2, <1>6 DEF Stopped
  <2> QED
    BY <2>1, <2>2, <2>3, CallsStay, LooseStays
<1>13. StillInv'
  BY <1>2, <1>3, <1>4, <1>7 DEF IInv, StillInv, Still, Top, Setting
<1>14. CalmInv'
  <2> SUFFICES ASSUME NEW c \in Ctx, xfer[c].cut = "none"
               PROVE  StaysCalm(c)
    BY <1>7 DEF CalmInv, StaysCalm
  <2>1. xfer[c].pc = "wait" => Going(c) /\ dev.own = c
    BY <1>2 DEF IInv, CalmInv, Failed, Pointing
  <2>2. Going(c) /\ dev.own = c => Going(c)'
    <3>1. xfer[c].moved \in Nat
      BY <1>1 DEF LevelSet
    <3> QED
      BY <1>2, <1>3, <1>4, <1>5, <1>6, <1>7, <3>1, Bytes DEF Going, Num, InFlight, Before, Msg
  <2>3. xfer[c].pc \notin Pointing => c # dev.own
    BY DEF IInv, DevInv, Nobody, Ctx
  <2>4. xfer[c].pc \in Setting => c # dev.own
    BY <1>2, <1>5 DEF IInv, DevInv, Still
  <2>5. xfer[c].pc \in {"pre"} \cup Setting => xfer'[c].moved = 0
    BY <1>7, <2>3, <2>4 DEF IInv, CalmInv, Pointing, Setting
  <2>6. xfer[c].pc \in {"after", "off"} => xfer'[c].moved = xfer[c].moved
    BY <1>7, <2>3 DEF Pointing
  <2>7. xfer[c].pc = "collect" => xfer[c].late
    BY <1>2 DEF IInv, CalmInv
  <2>8. /\ dev'.timedOut = dev.timedOut /\ xfer'[c].ret = xfer[c].ret
        /\ Num(c)' = Num(c) /\ Total(c)' = Total(c)
    BY <1>7 DEF Num, Total
  <2> QED
    BY <2>1, <2>2, <2>5, <2>6, <2>7, <2>8 DEF IInv, CalmInv, Judged, Succeeded, StaysCalm, Setting
<1> QED
  BY <1>8, <1>9, <1>10, <1>11, <1>12, <1>13, <1>14 DEF IInv
-----------------------------------------------------------------------------
(* The interrupt finds the transfer of a level that waits or collects.      *)
LEMMA InterruptReady ==
  ASSUME IInv, irq.on, irq.pending
  PROVE  /\ Ready(dev, hw)
         /\ dev.own # Nobody =>
              /\ dev.own \in Ctx /\ xfer[dev.own].pc \in {"wait", "collect"} /\ Placed(dev)
              /\ dev.idx >= 1 /\ dev.rem >= 1 /\ dev.idx + dev.rem = Num(dev.own) + 1
              /\ \A c \in Ctx : c > dev.own => xfer[c].pc \notin Pointing
<1>1. dev \in DevSet /\ hw \in HwSet
  BY Registers
<1>2. ASSUME dev.own # Nobody
      PROVE  /\ dev.own \in Ctx /\ xfer[dev.own].pc \in {"wait", "collect"} /\ Placed(dev)
             /\ dev.idx >= 1 /\ dev.rem >= 1 /\ dev.idx + dev.rem = Num(dev.own) + 1
             /\ \A c \in Ctx : c > dev.own => xfer[c].pc \notin Pointing
  BY <1>2 DEF IInv, DevInv, Pointing, Setting, Still
<1>3. ASSUME dev.own # Nobody PROVE xfer[dev.own].msgs \in Messages
  BY <1>2, <1>3 DEF IInv, CallsInv
<1>4. ASSUME dev.own # Nobody, hw.rd PROVE Msg(dev).rd /\ dev.pos >= 0 /\ hw.wr = NoByte /\ ~hw.stop
  BY <1>4 DEF IInv, BusInv
<1> QED
  BY <1>1, <1>2, <1>3, <1>4 DEF Ready

(* What every interrupt leaves alone, and what it always does.             *)
Interrupted(o) ==
  /\ dev' = o.d /\ hw' = o.h
  /\ dev' \in DevSet /\ hw' \in HwSet /\ dev'.own = dev.own
  /\ irq' \in [on : BOOLEAN, pending : BOOLEAN]
  /\ irq.on /\ irq.pending /\ irq'.on /\ ~irq'.pending /\ ~hw'.err
  /\ xfer' \in [Ctx -> LevelSet]
  /\ \A k \in Ctx :
       /\ xfer'[k].pc = xfer[k].pc /\ xfer'[k].msgs = xfer[k].msgs /\ xfer'[k].ret = xfer[k].ret
       /\ xfer'[k].late = xfer[k].late /\ xfer'[k].cut = xfer[k].cut
       /\ xfer'[k].moved = IF o.got /\ k = dev.own THEN xfer[k].moved + 1 ELSE xfer[k].moved

(* The interrupt is the handler applied to the transfer and the            *)
(* registers.                                                              *)
LEMMA InterruptFrame ==
  ASSUME IInv, Interrupt
  PROVE  \E o \in Serve(dev, hw) : Interrupted(o)
<1>1. /\ dev \in DevSet /\ hw \in HwSet /\ irq \in [on : BOOLEAN, pending : BOOLEAN]
      /\ xfer \in [Ctx -> LevelSet]
  BY Registers
<1>2. PICK o \in Serve(dev, hw) :
        /\ dev' = o.d /\ hw' = o.h /\ xfer' = Credit(xfer, dev.own, o.got)
        /\ irq' = [irq EXCEPT !.pending = o.h.err]
  BY DEF Interrupt
<1>3. irq.on /\ irq.pending /\ Ready(dev, hw)
  BY InterruptReady DEF Interrupt
<1>4. /\ o.d \in DevSet /\ o.h \in HwSet /\ o.got \in BOOLEAN /\ o.d.own = dev.own
  BY <1>3, ServeTyped
<1>5. o.h.err = FALSE
  <2>1. CASE Ignores(dev, hw, o) \/ Refuses(dev, hw, o)
    BY <1>1, <2>1 DEF Ignores, Refuses, HwSet
  <2>2. CASE Waits(dev, hw, o)
    BY <1>1, <2>2 DEF Waits, HwSet
  <2>3. ASSUME NEW byte, ~hw.err, o.h = [hw EXCEPT !.act = TRUE, !.wr = byte] PROVE o.h.err = FALSE
    BY <1>1, <2>3 DEF HwSet
  <2>5. CASE Addresses(dev, hw, o) \/ Sends(dev, hw, o) \/ SendsOn(dev, hw, o)
    <3>1. ~hw.err /\ \E byte : o.h = [hw EXCEPT !.act = TRUE, !.wr = byte]
      <4>1. CASE Addresses(dev, hw, o)
        BY <4>1 DEF Addresses
      <4>2. CASE Sends(dev, hw, o)
        BY <4>2 DEF Sends
      <4>3. CASE SendsOn(dev, hw, o)
        BY <4>3 DEF SendsOn
      <4> QED
        BY <2>5, <4>1, <4>2, <4>3
    <3> QED
      BY <2>3, <3>1
  <2>4. CASE Stores(dev, hw, o) \/ Flushes(dev, hw, o)
    BY <1>1, <2>4 DEF Stores, Flushes, HwSet
  <2> QED
    BY <1>3, <2>1, <2>2, <2>4, <2>5, ServeCases
<1>6. CreditedTo(xfer, xfer', dev.own, o.got)
  BY <1>1, <1>2, Credited
<1>7. irq' \in [on : BOOLEAN, pending : BOOLEAN] /\ irq'.on /\ ~irq'.pending
  BY <1>1, <1>2, <1>3, <1>5
<1> QED
  BY <1>2, <1>3, <1>4, <1>5, <1>6, <1>7 DEF Interrupted, CreditedTo, SameCall

(* It leaves the bus in order.                                             *)
LEMMA InterruptBus ==
  ASSUME IInv, NEW o \in Serve(dev, hw), Interrupted(o), dev.own # Nobody
  PROVE  BusInv'
<1>1. /\ dev \in DevSet /\ hw \in HwSet /\ hw.wr \in ByteSet
      /\ hw.wr.kind \in {"none", "addr", "data"} /\ (hw.wr = NoByte <=> hw.wr.kind = "none")
  BY Registers
<1>2. /\ dev.own # Nobody /\ irq.on /\ irq.pending
      /\ dev'.own = dev.own /\ dev' = o.d /\ hw' = o.h /\ irq'.on /\ ~irq'.pending
      /\ dev' \in DevSet /\ hw' \in HwSet
  BY DEF Interrupted
<1>3. Ready(dev, hw) /\ Placed(dev) /\ dev.idx \in {1, 2} /\ dev.rem \in {1, 2}
      /\ dev.pos \in Int /\ dev.cnt \in Nat /\ dev.flushCnt \in Nat
  BY <1>1, <1>2, InterruptReady, ReadIsLast DEF DevSet
<1>4. Served /\ Served'
  BY <1>2 DEF Served
<1>5. ASSUME dev'.idx = dev.idx PROVE Msg(dev)' = Msg(dev)
  <2>1. xfer'[dev.own].msgs = xfer[dev.own].msgs
    BY <1>2, InterruptReady DEF Interrupted
  <2> QED
    BY <1>2, <1>5, <2>1 DEF Msg
<1>6. BusInv
  BY DEF IInv
<1>7. CASE Refuses(dev, hw, o)
  <2>1. /\ dev'.idx = dev.idx /\ dev'.pos = dev.pos /\ dev'.cnt = dev.cnt /\ dev'.flushCnt = dev.flushCnt
        /\ dev'.rem = dev.rem
    BY <1>1, <1>2, <1>7 DEF Refuses, DevSet
  <2>2. /\ hw.err /\ hw'.act = hw.act /\ hw'.reading = hw.reading /\ hw'.wr = hw.wr /\ hw'.rd = hw.rd
        /\ hw'.stop = hw.stop /\ ~hw'.err /\ hw'.stuck = hw.stuck
    BY <1>1, <1>2, <1>7 DEF Refuses, HwSet
  <2> QED
    BY <1>2, <1>4, <1>5, <1>6, <2>1, <2>2, Bytes DEF BusInv, LastByte
<1>8. CASE Waits(dev, hw, o)
  <2>1. /\ dev'.idx = dev.idx /\ dev'.pos = dev.pos /\ dev'.cnt = dev.cnt /\ dev'.flushCnt = dev.flushCnt
        /\ dev'.rem = dev.rem
    <3>1. dev' = dev \/ dev' = [dev EXCEPT !.timedOut = FALSE]
      BY <1>2, <1>8 DEF Waits
    <3> QED
      BY <1>1, <3>1 DEF DevSet
  <2>2. hw' = hw /\ ~hw.rd /\ ~hw.err
    BY <1>2, <1>8 DEF Waits
  <2> QED
    BY <1>2, <1>4, <1>5, <1>6, <2>1, <2>2 DEF BusInv, LastByte
<1>9. CASE Addresses(dev, hw, o)
  <2>1. dev'.idx = dev.idx /\ dev.pos = -1 /\ dev'.pos = 0
    BY <1>1, <1>2, <1>9 DEF Addresses, DevSet
  <2>2. /\ ~hw.err /\ ~hw.rd /\ hw.wr = NoByte
        /\ hw'.act = TRUE /\ hw'.reading = hw.reading /\ hw'.rd = hw.rd /\ hw'.stop = hw.stop
        /\ hw'.err = hw.err /\ hw'.stuck = hw.stuck
        /\ hw'.wr = Byte("addr", Msg(dev).rd, FALSE, dev.own)
    BY <1>1, <1>2, <1>9 DEF Addresses, HwSet
  <2>3. hw'.wr.kind = "addr" /\ hw'.wr.rd = Msg(dev).rd /\ ~hw'.wr.last /\ hw'.wr # NoByte
    <3>1. hw'.wr.kind = "addr" /\ hw'.wr.rd = Msg(dev).rd /\ ~hw'.wr.last
      BY <2>2 DEF Byte
    <3> QED
      BY <3>1, Bytes
  <2>4. hw.stuck \/ (~hw.reading /\ ~hw.stop)
    BY <1>2, <1>6, <2>1 DEF BusInv
  <2> QED
    <3>1. Msg(dev)' = Msg(dev) /\ ~(dev'.pos < 0)
      BY <1>5, <2>1
    <3>2. /\ ~hw'.err /\ ~hw'.rd /\ hw'.act /\ hw'.reading = hw.reading /\ hw'.stop = hw.stop
          /\ hw'.stuck = hw.stuck
      BY <2>2
    <3>3. dev.own # Nobody /\ (dev.pos < 0 \/ ~Msg(dev).rd) /\ ~hw.stuck => ~hw.reading
      BY <1>6 DEF BusInv
    <3>4. hw.stop => hw.reading
      BY <1>6 DEF BusInv
    <3> QED
      BY <1>2, <2>3, <2>4, <3>1, <3>2, <3>3, <3>4 DEF BusInv
<1>10. CASE Sends(dev, hw, o)
  <2>1. /\ dev'.idx = dev.idx /\ dev'.rem = dev.rem /\ dev'.pos = dev.pos + 1 /\ dev'.cnt = dev.cnt - 1
        /\ dev.pos >= 0 /\ ~Msg(dev).rd /\ dev.cnt > 0 /\ (dev.cnt = 1 => dev.rem = 1)
    BY <1>1, <1>2, <1>10 DEF Sends, DevSet
  <2>2. /\ ~hw.err /\ ~hw.rd /\ hw.wr = NoByte
        /\ hw'.act = TRUE /\ hw'.reading = hw.reading /\ hw'.rd = hw.rd /\ hw'.stop = hw.stop
        /\ hw'.err = hw.err /\ hw'.stuck = hw.stuck
        /\ hw'.wr = Byte("data", FALSE, dev.cnt = 1, dev.own)
    BY <1>1, <1>2, <1>10 DEF Sends, HwSet
  <2>3. hw'.wr.kind = "data" /\ (hw'.wr.last <=> dev.cnt = 1) /\ hw'.wr # NoByte /\ hw'.wr.own = dev.own
    <3>1. hw'.wr.kind = "data" /\ hw'.wr.last = (dev.cnt = 1) /\ hw'.wr.own = dev.own
      BY <2>2 DEF Byte
    <3>2. hw'.wr.last <=> dev.cnt = 1
      BY <3>1
    <3> QED
      BY <3>1, <3>2, Bytes
  <2>4. hw.stuck \/ (~hw.reading /\ ~hw.stop)
    BY <1>2, <1>6, <2>1 DEF BusInv
  <2>5. (dev'.cnt = 0 /\ dev'.rem = 1) <=> dev.cnt = 1
    BY <1>3, <2>1
  <2>6. dev'.pos > 0 /\ ~(dev'.pos < 0)
    BY <1>3, <2>1
  <2> QED
    BY <1>2, <1>4, <1>5, <1>6, <2>1, <2>2, <2>3, <2>4, <2>5, <2>6 DEF BusInv
<1>11. CASE SendsOn(dev, hw, o)
  <2>1. dev'.idx = 2 /\ dev'.pos = -1 /\ dev.pos >= 0 /\ ~Msg(dev).rd
    BY <1>1, <1>2, <1>11 DEF SendsOn, DevSet
  <2>2. /\ ~hw.err /\ ~hw.rd /\ hw.wr = NoByte
        /\ hw'.act = TRUE /\ hw'.reading = hw.reading /\ hw'.rd = hw.rd /\ hw'.stop = hw.stop
        /\ hw'.err = hw.err /\ hw'.stuck = hw.stuck
        /\ hw'.wr = Byte("data", FALSE, FALSE, dev.own)
    BY <1>1, <1>2, <1>11 DEF SendsOn, HwSet
  <2>3. hw'.wr.kind = "data" /\ ~hw'.wr.last /\ hw'.wr # NoByte /\ hw'.wr.own = dev.own
    <3>1. hw'.wr.kind = "data" /\ ~hw'.wr.last /\ hw'.wr.own = dev.own
      BY <2>2 DEF Byte
    <3> QED
      BY <3>1, Bytes
  <2>4. hw.stuck \/ (~hw.reading /\ ~hw.stop)
    BY <1>2, <1>6, <2>1 DEF BusInv
  <2> QED
    <3>1. dev'.idx = 2 /\ dev'.pos < 0 /\ ~(dev'.pos >= 0)
      BY <2>1
    <3>2. /\ ~hw'.err /\ ~hw'.rd /\ hw'.act /\ hw'.reading = hw.reading /\ hw'.stop = hw.stop
          /\ hw'.stuck = hw.stuck
      BY <2>2
    <3>4. hw.stop => hw.reading
      BY <1>6 DEF BusInv
    <3> QED
      BY <1>2, <1>4, <2>3, <2>4, <3>1, <3>2, <3>4 DEF BusInv
<1>12. CASE Stores(dev, hw, o)
  <2>1. PICK stop \in BOOLEAN :
          /\ stop => dev.cnt = 2 \/ (dev.cnt = 1 /\ dev.pos = 0)
          /\ o.h = [hw EXCEPT !.rd = FALSE, !.stop = stop]
    BY <1>12 DEF Stores
  <2>2. /\ dev'.idx = dev.idx /\ dev'.rem = dev.rem /\ dev'.pos = dev.pos + 1 /\ dev'.cnt = dev.cnt - 1
        /\ dev'.flushCnt = dev.flushCnt /\ dev.pos >= 0 /\ Msg(dev).rd /\ dev.cnt > 0
    BY <1>1, <1>2, <1>12 DEF Stores, DevSet
  <2>3. /\ ~hw.err /\ hw.rd /\ hw.wr = NoByte
        /\ hw'.act = hw.act /\ hw'.reading = hw.reading /\ hw'.rd = FALSE /\ hw'.stop = stop
        /\ hw'.err = hw.err /\ hw'.stuck = hw.stuck /\ hw'.wr = NoByte
    BY <1>1, <1>2, <1>12, <2>1 DEF Stores, HwSet
  <2>4. dev.flushCnt = 0
    BY <1>3, <2>2 DEF Placed
  <2>5. stop => hw.reading /\ hw.act
    BY <1>3, <1>6, <2>1, <2>2, <2>3 DEF BusInv, LastByte
  <2>6. stop => LastByte'
    <3>1. dev'.flushCnt % 2 = 0
      BY <2>2, <2>4
    <3> QED
      BY <1>3, <2>1, <2>2, <3>1 DEF LastByte
  <2>7. ~(dev'.pos < 0)
    BY <1>3, <2>2
  <2> QED
    BY <1>2, <1>4, <1>5, <1>6, <2>2, <2>3, <2>5, <2>6, <2>7, Bytes DEF BusInv
<1>13. CASE Flushes(dev, hw, o)
  <2>1. PICK stop \in BOOLEAN :
          /\ stop => dev.flushCnt % 2 = 1
          /\ o.h = [hw EXCEPT !.rd = FALSE, !.stop = stop]
    BY <1>13 DEF Flushes
  <2>2. /\ dev'.idx = dev.idx /\ dev'.rem = dev.rem /\ dev'.pos = dev.pos /\ dev'.cnt = 0
        /\ dev.pos >= 0 /\ Msg(dev).rd /\ dev.cnt = 0
    BY <1>1, <1>2, <1>13 DEF Flushes, DevSet
  <2>3. /\ ~hw.err /\ hw.rd /\ hw.wr = NoByte
        /\ hw'.act = hw.act /\ hw'.reading = hw.reading /\ hw'.rd = FALSE /\ hw'.stop = stop
        /\ hw'.err = hw.err /\ hw'.stuck = hw.stuck /\ hw'.wr = NoByte
    BY <1>1, <1>2, <1>13, <2>1 DEF Flushes, HwSet
  <2>4. stop => ~dev.needFlush /\ dev'.flushCnt = dev.flushCnt + 1
    <3>1. ASSUME dev.needFlush PROVE ~stop
      BY <1>3, <2>1, <3>1 DEF Placed
    <3>2. ASSUME ~dev.needFlush PROVE dev'.flushCnt = dev.flushCnt + 1
      BY <1>1, <1>2, <1>13, <3>2 DEF Flushes, DevSet
    <3> QED
      BY <3>1, <3>2
  <2>5. stop => hw.reading /\ hw.act
    BY <1>3, <1>6, <2>1, <2>2, <2>3 DEF BusInv, LastByte
  <2>6. stop => LastByte'
    BY <1>3, <2>1, <2>2, <2>4 DEF LastByte
  <2>7. ~(dev'.pos < 0)
    BY <1>3, <2>2
  <2> QED
    BY <1>2, <1>4, <1>5, <1>6, <2>2, <2>3, <2>5, <2>6, <2>7, Bytes DEF BusInv
<1>14. ~Ignores(dev, hw, o)
  BY DEF Ignores
<1> QED
  BY <1>3, <1>7, <1>8, <1>9, <1>10, <1>11, <1>12, <1>13, <1>14, ServeCases

(* A level whose attempt was not preempted is the highest in the driver.   *)
LEMMA CalmTop ==
  ASSUME IInv, NEW c \in Ctx, xfer[c].cut = "none", xfer[c].pc # "idle"
  PROVE  Top(c)
<1> SUFFICES ASSUME NEW k \in Ctx, k > c, xfer[k].pc # "idle" PROVE FALSE
  BY DEF Top
<1>1. c < k
  BY DEF Ctx
<1> QED
  BY <1>1 DEF IInv, CutsInv, CutAt

(* An attempt under way stays so: what the handler sends or stores moves   *)
(* the position, and the end of the last message clears the timeout.       *)
LEMMA InterruptGoing ==
  ASSUME IInv, NEW o \in Serve(dev, hw), Interrupted(o), dev.own # Nobody,
         Going(dev.own), xfer[dev.own].pc = "wait"
  PROVE  Going(dev.own)'
<1> DEFINE c == dev.own
<1>1. /\ dev \in DevSet /\ hw \in HwSet /\ hw.wr \in ByteSet
      /\ hw.wr.kind \in {"none", "addr", "data"} /\ (hw.wr = NoByte <=> hw.wr.kind = "none")
  BY Registers
<1>2. /\ irq.on /\ irq.pending /\ dev'.own = c
      /\ dev' = o.d /\ hw' = o.h /\ irq'.on /\ ~irq'.pending /\ ~hw'.err
      /\ dev' \in DevSet /\ hw' \in HwSet
  BY DEF Interrupted
<1>3. /\ Ready(dev, hw) /\ Placed(dev) /\ dev.idx \in {1, 2} /\ dev.rem \in {1, 2}
      /\ (dev.rem = 2 => dev.idx = 1)
      /\ dev.pos \in Int /\ dev.cnt \in Nat /\ dev.flushCnt \in Nat /\ dev.needFlush \in BOOLEAN
      /\ dev.timedOut \in BOOLEAN /\ c \in Ctx
  BY <1>1, <1>2, InterruptReady, ReadIsLast DEF DevSet
<1>4. /\ xfer'[c].msgs = xfer[c].msgs /\ xfer[c].moved \in Nat
      /\ xfer'[c].moved = IF o.got THEN xfer[c].moved + 1 ELSE xfer[c].moved
  BY <1>3, Registers DEF Interrupted, LevelSet
<1>5. Num(c)' = Num(c)
  BY <1>2, <1>4 DEF Num
<1>6. ASSUME dev'.idx = dev.idx PROVE Msg(dev)' = Msg(dev) /\ Before' = Before
  BY <1>2, <1>4, <1>6 DEF Msg, Before
<1> DEFINE pos == IF dev.pos < 0 THEN 0 ELSE dev.pos
<1>7. /\ dev.ret = Num(c) /\ ~hw.err
      /\ xfer[c].moved + InFlight = Before + pos
      /\ dev.cnt > 0 \/ ~Msg(dev).rd => ~dev.needFlush
      /\ hw.wr.kind = "addr" => dev.pos = 0 /\ dev.cnt > 0
      /\ dev.pos < 0 => dev.idx = 2 /\ (hw.wr.kind = "data" \/ irq.pending)
      /\ dev.pos >= 0 /\ ~Msg(dev).rd => hw.wr # NoByte \/ irq.pending \/ (dev.cnt = 0 /\ ~dev.timedOut)
      /\ dev.pos >= 0 /\ Msg(dev).rd => hw.act \/ hw.rd \/ (dev.cnt = 0 /\ ~dev.timedOut)
      /\ Msg(dev).rd /\ dev.cnt = 0 /\ ~dev.needFlush => ~dev.timedOut
  BY DEF Going
<1>8. Before \in Nat
  BY <1>3, Lists DEF Before, Ready
<1>9. CASE Waits(dev, hw, o)
  <2>1. /\ hw' = hw /\ ~hw.rd /\ o.got = FALSE
        /\ hw.wr = NoByte => dev.pos >= 0 /\ (Msg(dev).rd \/ dev.cnt = 0)
    BY <1>2, <1>9 DEF Waits
  <2>2. \/ dev' = dev /\ (hw.wr # NoByte \/ dev.cnt > 0 \/ dev.needFlush)
        \/ dev' = [dev EXCEPT !.timedOut = FALSE] /\ hw.wr = NoByte /\ dev.cnt = 0 /\ ~dev.needFlush
    BY <1>2, <1>9 DEF Waits
  <2>3. /\ dev'.idx = dev.idx /\ dev'.pos = dev.pos /\ dev'.cnt = dev.cnt /\ dev'.ret = dev.ret
        /\ dev'.needFlush = dev.needFlush /\ (~dev.timedOut => ~dev'.timedOut)
    <3>1. CASE dev' = dev
      BY <3>1
    <3>2. CASE dev' = [dev EXCEPT !.timedOut = FALSE]
      BY <1>1, <3>2 DEF DevSet
    <3> QED
      BY <2>2, <3>1, <3>2
  <2>4. hw.wr = NoByte /\ dev.cnt = 0 /\ ~dev.needFlush => ~dev'.timedOut
    <3>1. CASE dev' = dev /\ (hw.wr # NoByte \/ dev.cnt > 0 \/ dev.needFlush)
      BY <1>3, <3>1
    <3>2. CASE dev' = [dev EXCEPT !.timedOut = FALSE]
      BY <1>1, <3>2 DEF DevSet
    <3> QED
      BY <2>2, <3>1, <3>2
  <2>5. Msg(dev)' = Msg(dev) /\ Before' = Before /\ InFlight' = InFlight
    BY <1>6, <2>1, <2>3 DEF InFlight
  <2>6. dev'.pos < 0 => dev'.idx = 2 /\ hw'.wr.kind = "data"
    BY <1>1, <1>3, <1>7, <2>1, <2>3
  <2>7. dev'.pos >= 0 /\ ~Msg(dev).rd => hw'.wr # NoByte \/ (dev'.cnt = 0 /\ ~dev'.timedOut)
    BY <1>3, <1>7, <2>1, <2>3, <2>4
  <2> QED
    BY <1>2, <1>4, <1>5, <1>7, <2>1, <2>3, <2>5, <2>6, <2>7 DEF Going
<1>10. CASE Addresses(dev, hw, o)
  <2>1. /\ dev'.idx = dev.idx /\ dev.pos = -1 /\ dev'.pos = 0 /\ dev'.cnt = dev.cnt /\ dev'.ret = dev.ret
        /\ dev'.needFlush = dev.needFlush /\ dev.cnt = Msg(dev).len
    BY <1>1, <1>2, <1>10 DEF Addresses, DevSet
  <2>2. /\ hw.wr = NoByte /\ hw'.act = TRUE /\ o.got = FALSE
        /\ hw'.wr = Byte("addr", Msg(dev).rd, FALSE, c)
    BY <1>1, <1>2, <1>10 DEF Addresses, HwSet
  <2>3. hw'.wr.kind = "addr"
    BY <2>2 DEF Byte
  <2>4. hw'.wr # NoByte
    BY <2>3, Bytes
  <2>5. dev.cnt > 0
    BY <1>3, <2>1, ReadIsLast
  <2>6. Msg(dev)' = Msg(dev) /\ Before' = Before
    BY <1>6, <2>1
  <2>7. InFlight = 0 /\ InFlight' = 0
    BY <1>1, <2>2, <2>3 DEF InFlight
  <2>8. xfer'[c].moved + InFlight' = Before + 0
    BY <1>4, <1>7, <1>8, <2>1, <2>2, <2>7
  <2> QED
    <3>1. /\ ~dev'.needFlush /\ dev'.cnt > 0 /\ ~(dev'.cnt = 0) /\ ~(dev'.pos < 0) /\ hw'.act
          /\ dev'.pos = 0 /\ dev'.ret = Num(c)
      BY <1>3, <1>7, <2>1, <2>2, <2>5
    <3> QED
      BY <1>2, <1>5, <2>3, <2>4, <2>6, <2>8, <3>1 DEF Going
<1>11. CASE Sends(dev, hw, o)
  <2>1. /\ dev'.idx = dev.idx /\ dev'.pos = dev.pos + 1 /\ dev'.cnt = dev.cnt - 1 /\ dev'.ret = dev.ret
        /\ dev'.needFlush = dev.needFlush /\ dev.pos >= 0 /\ ~Msg(dev).rd
    BY <1>1, <1>2, <1>11 DEF Sends, DevSet
  <2>2. hw.wr = NoByte /\ o.got = FALSE /\ hw'.wr = Byte("data", FALSE, dev.cnt = 1, c)
    BY <1>1, <1>2, <1>11 DEF Sends, HwSet
  <2>3. hw'.wr.kind = "data"
    BY <2>2 DEF Byte
  <2>4. hw'.wr # NoByte
    BY <2>3, Bytes
  <2>5. Msg(dev)' = Msg(dev) /\ Before' = Before
    BY <1>6, <2>1
  <2>6. InFlight = 0 /\ InFlight' = 1
    BY <1>1, <2>2, <2>3 DEF InFlight
  <2>7. xfer'[c].moved + InFlight' = Before + dev'.pos /\ dev'.pos >= 0 /\ ~(dev'.pos < 0)
    BY <1>3, <1>4, <1>7, <1>8, <2>1, <2>2, <2>6
  <2>8. ~dev'.needFlush
    BY <1>7, <2>1
  <2> QED
    BY <1>2, <1>5, <1>7, <2>1, <2>3, <2>4, <2>5, <2>7, <2>8 DEF Going
<1>12. CASE SendsOn(dev, hw, o)
  <2>1. /\ dev'.idx = 2 /\ dev.idx = 1 /\ dev'.pos = -1 /\ dev'.ret = dev.ret
        /\ dev'.needFlush = dev.needFlush /\ dev.pos >= 0 /\ ~Msg(dev).rd /\ dev.cnt = 1
    BY <1>1, <1>2, <1>12 DEF SendsOn, DevSet
  <2>2. hw.wr = NoByte /\ o.got = FALSE /\ hw'.wr = Byte("data", FALSE, FALSE, c)
    BY <1>1, <1>2, <1>12 DEF SendsOn, HwSet
  <2>3. hw'.wr.kind = "data"
    BY <2>2 DEF Byte
  <2>4. InFlight = 0 /\ InFlight' = 1 /\ Before = 0 /\ Before' = xfer[c].msgs[1].len
    BY <1>1, <1>2, <1>4, <2>1, <2>2, <2>3 DEF InFlight, Before
  <2>5. dev.pos + 1 = xfer[c].msgs[1].len
    BY <1>3, <2>1 DEF Placed, Msg
  <2>6. xfer'[c].moved + InFlight' = Before' + 0
    BY <1>3, <1>4, <1>7, <2>1, <2>2, <2>4, <2>5
  <2>7. ~dev'.needFlush /\ dev'.pos < 0 /\ ~(dev'.pos >= 0) /\ dev'.pos # 0
    BY <1>7, <2>1
  <2>8. Msg(dev)'.rd /\ dev'.cnt = 0 /\ ~dev'.needFlush => ~dev'.timedOut
    <3>1. Num(c) = 2 /\ xfer[c].msgs \in Messages
      <4>1. dev.rem = 2 /\ dev.idx + dev.rem = Num(c) + 1 /\ xfer[c].msgs \in Messages
        BY <1>2, <1>3, <1>12, InterruptReady DEF SendsOn, Ready
      <4>2. Num(c) \in {1, 2}
        BY <4>1, Lists DEF Num
      <4> QED
        BY <2>1, <4>1, <4>2
    <3>2. dev'.cnt = xfer[c].msgs[2].len
      BY <1>1, <1>2, <1>12 DEF SendsOn, DevSet
    <3>3. dev'.cnt > 0
      BY <3>1, <3>2, Lists DEF Num
    <3> QED
      BY <3>3
  <2> QED
    BY <1>2, <1>5, <1>7, <2>1, <2>3, <2>6, <2>7, <2>8 DEF Going
<1>13. CASE Stores(dev, hw, o)
  <2>1. /\ dev'.idx = dev.idx /\ dev'.pos = dev.pos + 1 /\ dev'.cnt = dev.cnt - 1 /\ dev'.ret = dev.ret
        /\ dev.pos >= 0 /\ Msg(dev).rd /\ dev.cnt > 0
        /\ dev'.needFlush = (dev.needFlush \/ (dev.cnt = 1 /\ dev.pos = 0))
        /\ dev'.timedOut = (dev.timedOut /\ (dev.cnt > 1 \/ dev.needFlush \/ dev.pos = 0))
    BY <1>1, <1>2, <1>13 DEF Stores, DevSet
  <2>2. hw.wr = NoByte /\ o.got = TRUE /\ hw'.wr = NoByte /\ hw'.act = hw.act /\ hw.rd
    BY <1>1, <1>2, <1>13 DEF Stores, HwSet
  <2>3. Msg(dev)' = Msg(dev) /\ Before' = Before
    BY <1>6, <2>1
  <2>4. InFlight = 0 /\ InFlight' = 0 /\ hw'.wr.kind = "none"
    BY <1>1, <2>2, Bytes DEF InFlight
  <2>5. xfer'[c].moved + InFlight' = Before + dev'.pos /\ dev'.pos >= 0 /\ ~(dev'.pos < 0)
    BY <1>3, <1>4, <1>7, <1>8, <2>1, <2>2, <2>4
  <2>6. ~dev.needFlush
    BY <1>7, <2>1
  <2>7. dev'.cnt > 0 => ~dev'.needFlush
    BY <1>3, <2>1, <2>6
  <2>8. dev.cnt = 1 /\ dev.pos # 0 => ~dev'.timedOut
    <3> SUFFICES ASSUME dev.cnt = 1, dev.pos # 0 PROVE ~dev'.timedOut
      OBVIOUS
    <3>1. ~(dev.cnt > 1 \/ dev.needFlush \/ dev.pos = 0)
      BY <2>6
    <3> QED
      BY <2>1, <3>1
  <2>9. hw.act \/ (dev.cnt = 1 /\ dev.pos >= 1)
    BY <1>3, <2>1, <2>2 DEF IInv, BusInv, LastByte
  <2>10. hw'.act \/ (dev'.cnt = 0 /\ ~dev'.timedOut)
    BY <1>3, <2>1, <2>2, <2>8, <2>9
  <2>11. dev'.cnt = 0 /\ ~dev'.needFlush => ~dev'.timedOut
    BY <1>3, <2>1, <2>8
  <2> QED
    BY <1>2, <1>5, <1>7, <2>1, <2>3, <2>4, <2>5, <2>7, <2>10, <2>11 DEF Going
<1>14. CASE Flushes(dev, hw, o)
  <2>1. /\ dev'.idx = dev.idx /\ dev'.pos = dev.pos /\ dev'.cnt = 0 /\ dev'.ret = dev.ret
        /\ dev.pos >= 0 /\ Msg(dev).rd /\ ~dev'.needFlush /\ ~dev'.timedOut
    BY <1>1, <1>2, <1>14 DEF Flushes, DevSet
  <2>2. hw.wr = NoByte /\ o.got = FALSE /\ hw'.wr = NoByte
    BY <1>1, <1>2, <1>14 DEF Flushes, HwSet
  <2>3. Msg(dev)' = Msg(dev) /\ Before' = Before
    BY <1>6, <2>1
  <2>4. InFlight = 0 /\ InFlight' = 0 /\ hw'.wr.kind = "none"
    BY <1>1, <2>2, Bytes DEF InFlight
  <2>5. xfer'[c].moved + InFlight' = Before + dev'.pos /\ dev'.pos >= 0 /\ ~(dev'.pos < 0)
    BY <1>3, <1>4, <1>7, <1>8, <2>1, <2>2, <2>4
  <2> QED
    BY <1>2, <1>5, <1>7, <2>1, <2>3, <2>4, <2>5 DEF Going
<1>15. ~Ignores(dev, hw, o) /\ ~Refuses(dev, hw, o)
  BY <1>7 DEF Ignores, Refuses
<1> QED
  BY <1>3, <1>9, <1>10, <1>11, <1>12, <1>13, <1>14, <1>15, ServeCases

(* The interrupt, whatever it finds.                                       *)
LEMMA InterruptKeeps == ASSUME IInv, Interrupt PROVE IInv'
<1>1. PICK o \in Serve(dev, hw) : Interrupted(o)
  BY InterruptFrame
<1>2. /\ dev \in DevSet /\ hw \in HwSet /\ irq \in [on : BOOLEAN, pending : BOOLEAN]
      /\ xfer \in [Ctx -> LevelSet] /\ hw.wr \in ByteSet
  BY Registers
<1>3. /\ dev' = o.d /\ hw' = o.h /\ dev' \in DevSet /\ hw' \in HwSet /\ dev'.own = dev.own
      /\ irq' \in [on : BOOLEAN, pending : BOOLEAN]
      /\ irq.on /\ irq.pending /\ irq'.on /\ ~irq'.pending /\ ~hw'.err
      /\ xfer' \in [Ctx -> LevelSet]
      /\ \A k \in Ctx :
           /\ xfer'[k].pc = xfer[k].pc /\ xfer'[k].msgs = xfer[k].msgs /\ xfer'[k].ret = xfer[k].ret
           /\ xfer'[k].late = xfer[k].late /\ xfer'[k].cut = xfer[k].cut
  BY <1>1 DEF Interrupted
<1>4. /\ Ready(dev, hw)
      /\ dev.own # Nobody =>
           /\ dev.own \in Ctx /\ xfer[dev.own].pc \in {"wait", "collect"} /\ Placed(dev)
           /\ dev.idx >= 1 /\ dev.rem >= 1 /\ dev.idx + dev.rem = Num(dev.own) + 1
           /\ \A c \in Ctx : c > dev.own => xfer[c].pc \notin Pointing
  BY <1>3, InterruptReady
<1>5. ASSUME dev.own = Nobody PROVE dev' = dev /\ hw' = [hw EXCEPT !.err = FALSE] /\ ~o.got
  <2>1. Ignores(dev, hw, o)
    BY <1>4, <1>5, ServeCases
       DEF Refuses, Waits, Addresses, Sends, SendsOn, Stores, Flushes
  <2> QED
    BY <1>3, <2>1 DEF Ignores
<1>6. TypeOK'
  BY <1>3, Types DEF TypeOK, DevSet, HwSet, ByteSet, LevelSet
<1>7. CallsInv' /\ CutsInv'
  BY <1>3 DEF IInv, CallsInv, CutsInv, CutAt, Top
<1>8. DevInv'
  <2> SUFFICES ASSUME dev.own # Nobody
               PROVE  /\ xfer'[dev.own].pc \in Pointing /\ xfer'[dev.own].pc \notin Setting
                      /\ dev'.idx >= 1 /\ dev'.rem >= 1 /\ dev'.idx + dev'.rem = Num(dev.own)' + 1
                      /\ Placed(dev)'
                      /\ \A c \in Ctx : c > dev.own => xfer'[c].pc \notin Pointing
    BY <1>3, <1>4 DEF DevInv, Setting
  <2>1. dev'.idx >= 1 /\ dev'.rem >= 1 /\ dev'.idx + dev'.rem = Num(dev.own) + 1
    BY <1>3, <1>4, ServeTyped
  <2>2. Placed(o.d)
    BY <1>4, ServePlaced
  <2>3. Num(dev.own)' = Num(dev.own) /\ (Placed(dev)' <=> Placed(o.d))
    BY <1>3, <1>4 DEF Num, Placed, Msg
  <2> QED
    BY <1>3, <1>4, <2>1, <2>2, <2>3 DEF Pointing, Setting
<1>9. BusInv'
  <2>1. CASE dev.own # Nobody
    BY <1>1, <2>1, InterruptBus
  <2>2. CASE dev.own = Nobody
    <3>1. /\ hw'.act = hw.act /\ hw'.reading = hw.reading /\ hw'.wr = hw.wr /\ hw'.rd = hw.rd
          /\ hw'.stop = hw.stop /\ hw'.stuck = hw.stuck
      BY <1>2, <1>5, <2>2 DEF HwSet
    <3> QED
      BY <1>3, <2>2, <3>1 DEF IInv, BusInv, Served
  <2> QED
    BY <2>1, <2>2
<1>10. LooseInv' /\ OwnInv'
  <2>0. SameCalls
    BY <1>3 DEF SameCalls
  <2>1. CASE dev.own # Nobody
    BY <1>3, <2>0, <2>1, CallsStay DEF LooseInv, Loose, Served
  <2>2. CASE dev.own = Nobody
    <3>1. /\ hw'.act = hw.act /\ hw'.reading = hw.reading /\ hw'.wr = hw.wr /\ hw'.rd = hw.rd
          /\ hw'.stop = hw.stop /\ hw'.stuck = hw.stuck
      BY <1>2, <1>5, <2>2 DEF HwSet
    <3>2. Loose' => Loose
      BY <1>3, <2>2, <3>1 DEF Loose, Served
    <3>3. Loose => hw'.act /\ ~hw'.stop
      BY <3>1 DEF IInv, LooseInv
    <3> QED
      BY <1>3, <2>0, <3>2, <3>3, CallsStay, LooseStays
  <2> QED
    BY <2>1, <2>2
<1>11. StillInv'
  BY <1>3 DEF IInv, StillInv, Still, Top, Setting
<1>11a. RestInv'
  <2> SUFFICES ASSUME NEW c \in Ctx, Top(c),
                      xfer[c].pc \in Setting \cup {"collect", "after", "off"}
               PROVE  (Stopped /\ ~hw.err)'
    BY <1>3 DEF RestInv, Top
  <2>1. CASE dev.own # Nobody
    <3>1. ~Still
      BY <1>3 DEF Still
    <3>2. dev.own \in Ctx /\ xfer[dev.own].pc # "idle" /\ ~(dev.own > c)
      BY <1>4, <2>1 DEF Top
    <3>3. xfer[c].pc = "collect" => dev.own = c
      BY <1>4, <2>1, <3>2 DEF Pointing, Ctx
    <3> QED
      BY <1>3, <2>1, <3>1, <3>2, <3>3 DEF IInv, StillInv, Setting
  <2>2. CASE dev.own = Nobody
    <3>1. /\ hw'.act = hw.act /\ hw'.reading = hw.reading /\ hw'.wr = hw.wr /\ hw'.rd = hw.rd
          /\ hw'.stuck = hw.stuck
      BY <1>2, <1>5, <2>2 DEF HwSet
    <3> QED
      BY <1>3, <3>1 DEF IInv, RestInv, Stopped
  <2> QED
    BY <2>1, <2>2
<1>12. CalmInv'
  <2> SUFFICES ASSUME NEW c \in Ctx, xfer[c].cut = "none"
               PROVE  StaysCalm(c)
    BY <1>3 DEF CalmInv, StaysCalm
  <2>1. xfer[c].pc \in Pointing => dev.own = c /\ dev.own # Nobody
    BY DEF IInv, CalmInv, Nobody, Ctx
  <2>2. c # dev.own => xfer'[c].moved = xfer[c].moved
    BY <1>1 DEF Interrupted
  <2>3. xfer[c].pc \in {"pre"} \cup Setting => xfer'[c].moved = 0
    <3>1. xfer[c].pc \in {"pre"} \cup Setting => c # dev.own
      BY <1>4 DEF Nobody, Ctx, Setting
    <3> QED
      BY <2>2, <3>1 DEF IInv, CalmInv
  <2>4. xfer[c].pc = "collect" => FALSE
    <3> SUFFICES ASSUME xfer[c].pc = "collect" PROVE FALSE
      OBVIOUS
    <3>1. Top(c)
      BY CalmTop
    <3>2. Still
      BY <1>3, <2>1, <3>1 DEF IInv, StillInv, Pointing
    <3> QED
      BY <1>3, <3>2 DEF Still
  <2>5. Num(c)' = Num(c) /\ Total(c)' = Total(c)
    BY <1>3 DEF Num, Total
  <2>6. xfer[c].pc = "off" => xfer'[c].moved = xfer[c].moved
    <3>1. xfer[c].pc = "off" => c # dev.own
      BY <1>4 DEF Nobody, Ctx
    <3> QED
      BY <2>2, <3>1
  <2>7. xfer[c].pc = "after" => dev' = dev /\ xfer'[c].moved = xfer[c].moved
    <3> SUFFICES ASSUME xfer[c].pc = "after" PROVE dev' = dev /\ xfer'[c].moved = xfer[c].moved
      OBVIOUS
    <3>1. Top(c)
      BY CalmTop
    <3>2. dev.own = Nobody
      <4> SUFFICES ASSUME dev.own # Nobody PROVE FALSE
        OBVIOUS
      <4>1. dev.own > c
        BY DEF IInv, StillInv
      <4>2. dev.own \in Ctx /\ xfer[dev.own].pc # "idle"
        BY <1>4
      <4> QED
        BY <3>1, <4>1, <4>2 DEF Top
    <3>3. c # dev.own
      BY <3>2 DEF Nobody, Ctx
    <3> QED
      BY <1>5, <2>2, <3>2, <3>3
  <2>8. xfer[c].pc = "wait" => (Going(c) \/ Failed(c))'
    <3> SUFFICES ASSUME xfer[c].pc = "wait" PROVE (Going(c) \/ Failed(c))'
      OBVIOUS
    <3>1. dev.own = c /\ dev.own # Nobody
      BY <2>1 DEF Pointing
    <3>2. CASE Going(c)
      <4>1. Going(dev.own)'
        BY <1>1, <3>1, <3>2, InterruptGoing
      <4>2. Going(c)'
        BY <1>3, <3>1, <4>1 DEF Going, Num
      <4> QED
        BY <4>2
    <3>3. CASE Failed(c)
      <4>1. hw.err /\ hw.wr = NoByte /\ ~hw.reading /\ ~hw.rd /\ xfer[c].moved < Total(c)
        BY <1>3, <3>3 DEF Failed
      <4>2. Refuses(dev, hw, o)
        BY <1>4, <3>1, <4>1, ServeCases DEF Ignores, Waits, Addresses, Sends, SendsOn, Stores, Flushes
      <4>3. /\ hw'.wr = hw.wr /\ hw'.reading = hw.reading /\ hw'.rd = hw.rd
            /\ dev'.ret = ERROR /\ ~o.got
        BY <1>2, <1>3, <4>2 DEF Refuses, HwSet, DevSet
      <4>4. xfer'[c].moved = xfer[c].moved
        BY <1>1, <4>3 DEF Interrupted
      <4> QED
        BY <1>3, <2>5, <4>1, <4>3, <4>4 DEF Failed
    <3> QED
      BY <3>2, <3>3 DEF IInv, CalmInv
  <2> QED
    BY <1>3, <2>1, <2>3, <2>4, <2>5, <2>6, <2>7, <2>8 DEF IInv, CalmInv, Judged, Succeeded, StaysCalm
<1> QED
  BY <1>6, <1>7, <1>8, <1>9, <1>10, <1>11, <1>11a, <1>12 DEF IInv
-----------------------------------------------------------------------------
(* Steps of a level.  All lower ones in the driver were preempted.         *)
LEMMA OneCalm ==
  ASSUME IInv, NEW c \in Ctx, Top(c), xfer[c].pc # "idle", NEW j \in Ctx, j # c,
         xfer[j].cut = "none"
  PROVE  xfer[j].pc = "idle"
<1>1. CASE j > c
  BY <1>1 DEF Top
<1>2. CASE j < c
  BY <1>2 DEF IInv, CutsInv, CutAt
<1> QED
  BY <1>1, <1>2 DEF Ctx

(* The others in the driver are below the level that runs.                 *)
LEMMA NotTop ==
  ASSUME NEW c \in Ctx, Top(c), xfer[c].pc # "idle", NEW j \in Ctx, j # c, xfer[j].pc # "idle"
  PROVE  j < c /\ ~Top(j)
<1>1. ~(j > c)
  BY DEF Top
<1>2. j < c
  BY <1>1 DEF Ctx
<1> QED
  BY <1>2 DEF Top, Ctx

(* When level c is in the driver, dev.msg points into c's call or a lower  *)
(* one's; while c itself is at an instruction that uses dev.msg, into c's.  *)
LEMMA OwnerOf ==
  ASSUME IInv, NEW c \in Ctx, Top(c), xfer[c].pc # "idle", dev.own # Nobody
  PROVE  /\ dev.own \in Ctx /\ xfer[dev.own].pc \in Pointing
         /\ dev.own = c \/ (dev.own < c /\ ~Top(dev.own))
         /\ xfer[c].pc \in Pointing => dev.own = c
         /\ xfer[c].pc \notin Pointing => dev.own # c
<1>1. dev.own \in Ctx /\ xfer[dev.own].pc \in Pointing
  BY DEF IInv, DevInv
<1>2. dev.own = c \/ (dev.own < c /\ ~Top(dev.own))
  BY <1>1, NotTop DEF Pointing
<1>3. dev.own < c => xfer[c].pc \notin Pointing
  <2> SUFFICES ASSUME dev.own < c PROVE xfer[c].pc \notin Pointing
    OBVIOUS
  <2>1. c > dev.own
    BY DEF Ctx
  <2> QED
    BY <2>1 DEF IInv, DevInv
<1> QED
  BY <1>1, <1>2, <1>3

(* The lower levels in the driver were preempted where they stand.          *)
LEMMA Below ==
  ASSUME IInv, NEW c \in Ctx, Top(c), xfer[c].pc # "idle", NEW j \in Ctx, j # c,
         xfer[j].pc # "idle"
  PROVE  j < c /\ ~Top(j) /\ xfer[j].cut # "none" /\ xfer[j].cut = xfer[j].pc
<1>1. j < c /\ ~Top(j)
  BY NotTop
<1> QED
  BY <1>1 DEF IInv, CutsInv, CutAt

(* A read nobody serves is one of the level that runs.                      *)
LEMMA LoneLoser ==
  ASSUME IInv, NEW c \in Ctx, Top(c), xfer[c].pc # "idle", Loose
  PROVE  Losing(c) /\ hw.act /\ ~hw.stop
<1>1. PICK j \in Ctx : Losing(j)
  BY DEF IInv, LooseInv
<1>2. j = c
  BY <1>1, NotTop DEF Losing
<1> QED
  BY <1>1, <1>2 DEF IInv, LooseInv

(* The interrupt is enabled, and an attempt begins.                        *)
LEMMA EnableKeeps == ASSUME IInv, NEW c \in Ctx, Enable(c) PROVE IInv'
<1>1. /\ dev \in DevSet /\ hw \in HwSet /\ irq \in [on : BOOLEAN, pending : BOOLEAN]
      /\ xfer \in [Ctx -> LevelSet]
  BY Registers
<1>2. xfer[c].pc = "enable" /\ Top(c)
  BY DEF Enable, Turn, Top
<1>3. dev' = dev /\ hw' = hw /\ irq'.on /\ irq'.pending = irq.pending
      /\ irq' \in [on : BOOLEAN, pending : BOOLEAN]
  BY <1>1 DEF Enable
<1>4. /\ xfer' \in [Ctx -> LevelSet] /\ \A j \in Ctx : j # c => xfer'[j] = xfer[j]
      /\ xfer'[c].pc = "pre" /\ xfer'[c].msgs = xfer[c].msgs /\ xfer'[c].cut = "none"
      /\ xfer'[c].moved = 0
  <2> DEFINE x == [xfer[c] EXCEPT !.pc = "pre", !.moved = 0, !.cut = "none", !.calls = 0, !.late = FALSE]
  <2>1. xfer' = [xfer EXCEPT ![c] = x]
    BY DEF Enable
  <2>2. xfer[c] \in LevelSet
    BY <1>1
  <2>3. x \in LevelSet
    BY <2>2, Zenon DEF LevelSet, Pcs
  <2>4. x.pc = "pre" /\ x.msgs = xfer[c].msgs /\ x.cut = "none" /\ x.moved = 0
    BY <2>2 DEF LevelSet
  <2> HIDE DEF x
  <2> QED
    BY <1>1, <2>1, <2>3, <2>4
<1>5. TypeOK'
  BY <1>1, <1>3, <1>4, Types DEF TypeOK, DevSet, HwSet, ByteSet, LevelSet
<1>6. CallsInv'
  BY <1>2, <1>4 DEF IInv, CallsInv
<1>7. \A j \in Ctx : (Top(j)' <=> Top(j)) /\ (xfer'[j].pc = "idle" <=> xfer[j].pc = "idle")
  BY <1>2, <1>4 DEF Top
<1>8. \A j \in Ctx : j # c /\ Top(j) => xfer[j].pc = "idle"
  BY <1>2, NotTop
<1>9. CutsInv'
  <2> SUFFICES ASSUME NEW j \in Ctx PROVE CutAt(j)'
    BY DEF CutsInv
  <2>1. \A k \in Ctx : k < j /\ xfer[j].pc # "idle" => k # c \/ j = c
    BY <1>2, NotTop DEF Ctx
  <2>2. \A k \in Ctx :
          k < j /\ xfer'[j].pc # "idle" /\ xfer'[k].pc # "idle" =>
            xfer'[k].cut # "none" /\ xfer'[k].cut = xfer'[k].pc
    <3> SUFFICES ASSUME NEW k \in Ctx, k < j, xfer'[j].pc # "idle", xfer'[k].pc # "idle"
                 PROVE  xfer'[k].cut # "none" /\ xfer'[k].cut = xfer'[k].pc
      OBVIOUS
    <3>1. k # c
      BY <1>7, <2>1 DEF Ctx
    <3> QED
      BY <1>4, <1>7, <3>1 DEF IInv, CutsInv, CutAt
  <2>3. CASE j = c
    BY <1>3, <1>4, <2>2, <2>3 DEF CutAt
  <2>4. CASE j # c
    BY <1>4, <1>7, <1>8, <2>2, <2>4 DEF IInv, CutsInv, CutAt
  <2> QED
    BY <2>3, <2>4
<1>10. dev.own # Nobody => dev.own \in Ctx /\ dev.own # c /\ ~Top(dev.own)
  BY <1>2, OwnerOf DEF Pointing, Ctx
<1>11. DevInv'
  BY <1>2, <1>3, <1>4, <1>10 DEF IInv, DevInv, Placed, Msg, Num, Still, Pointing, Setting
<1>12. dev.own # Nobody => Msg(dev)' = Msg(dev)
  BY <1>3, <1>4, <1>10 DEF Msg
<1>13. BusInv'
  BY <1>3, <1>12 DEF IInv, BusInv, Served, LastByte
<1>14. LooseInv' /\ OwnInv'
  <2>1. ~Loose
    BY <1>2, LoneLoser DEF Losing
  <2>2. ~Loose'
    BY <1>3, <2>1 DEF Loose, Served
  <2> QED
    BY <1>3, <1>4, <2>2 DEF IInv, LooseInv, OwnInv, Pointing
<1>15. StillInv' /\ RestInv'
  BY <1>3, <1>4, <1>7, <1>8 DEF IInv, StillInv, RestInv, Still, Setting
<1>16. CalmInv'
  <2>1. \A j \in Ctx : j # c /\ xfer'[j].cut = "none" => xfer'[j].pc = "idle"
    BY <1>2, <1>4, OneCalm
  <2> QED
    BY <1>4, <2>1 DEF CalmInv, Pointing, Setting
<1> QED
  BY <1>5, <1>6, <1>9, <1>11, <1>13, <1>14, <1>15, <1>16 DEF IInv

(* A step of level c inside an attempt changes neither its call nor where   *)
(* it was preempted.                                                        *)
Moves(c) ==
  /\ Top(c) /\ xfer[c].pc \notin {"idle", "enable"}
  /\ xfer' \in [Ctx -> LevelSet] /\ \A j \in Ctx : j # c => xfer'[j] = xfer[j]
  /\ xfer'[c].msgs = xfer[c].msgs /\ xfer'[c].cut = xfer[c].cut
  /\ xfer'[c].pc \notin {"idle", "enable", "pre"}
  /\ xfer'[c].pc = "set" => xfer[c].pc = "pre"
  /\ xfer'[c].pc = "kick" => xfer[c].pc = "set"
  /\ xfer'[c].pc = "call" => xfer[c].pc = "kick"
  /\ xfer'[c].pc = "use" => xfer[c].pc = "call"
  /\ irq'.on = irq.on /\ irq' \in [on : BOOLEAN, pending : BOOLEAN]

(* Such a step keeps what is said of calls and preemptions, and leaves     *)
(* the other levels what they are.                                         *)
LEMMA MoveFrame ==
  ASSUME IInv, NEW c \in Ctx, Moves(c)
  PROVE  /\ CallsInv' /\ CutsInv'
         /\ \A j \in Ctx : Top(j)' <=> Top(j)
         /\ \A j \in Ctx : j # c /\ Top(j) => xfer[j].pc = "idle"
         /\ \A j \in Ctx : j # c /\ xfer'[j].cut = "none" => xfer'[j].pc = "idle"
         /\ Num(c)' = Num(c) /\ Total(c)' = Total(c)
<1>1. CallsInv'
  BY DEF IInv, CallsInv, Moves
<1>2. \A j \in Ctx : (Top(j)' <=> Top(j)) /\ (xfer'[j].pc = "idle" <=> xfer[j].pc = "idle")
  BY DEF Moves, Top
<1>3. \A j \in Ctx : j # c /\ Top(j) => xfer[j].pc = "idle"
  BY NotTop DEF Moves
<1>4. CutsInv'
  <2> SUFFICES ASSUME NEW j \in Ctx PROVE CutAt(j)'
    BY DEF CutsInv
  <2>1. \A k \in Ctx : xfer'[k].cut = xfer[k].cut
    BY DEF Moves
  <2>2. \A k \in Ctx :
          k < j /\ xfer'[j].pc # "idle" /\ xfer'[k].pc # "idle" =>
            xfer'[k].cut # "none" /\ xfer'[k].cut = xfer'[k].pc
    <3> SUFFICES ASSUME NEW k \in Ctx, k < j, xfer'[j].pc # "idle", xfer'[k].pc # "idle"
                 PROVE  xfer'[k].cut # "none" /\ xfer'[k].cut = xfer'[k].pc
      OBVIOUS
    <3>1. k # c
      BY <1>2 DEF Moves, Top, Ctx
    <3> QED
      BY <1>2, <3>1 DEF IInv, CutsInv, CutAt, Moves
  <2>3. CASE j = c
    BY <1>2, <2>1, <2>2, <2>3 DEF IInv, CutsInv, Moves, CutAt, Early, Setting
  <2>4. CASE j # c
    BY <1>2, <1>3, <2>2, <2>4 DEF IInv, CutsInv, Moves, CutAt
  <2> QED
    BY <2>3, <2>4
<1>5. \A j \in Ctx : j # c /\ xfer'[j].cut = "none" => xfer'[j].pc = "idle"
  BY OneCalm DEF Moves
<1> QED
  BY <1>1, <1>2, <1>3, <1>4, <1>5 DEF Moves, Num, Total

(* What is left to show of such a step for OwnInv and RestInv.              *)
LEMMA MoveOwns ==
  ASSUME IInv, NEW c \in Ctx, Moves(c),
         dev'.own # c /\ xfer'[c].pc \in Pointing =>
           xfer[c].cut \in Pointing /\ (xfer'[c].pc = "use" => xfer[c].cut = "use")
  PROVE  OwnInv'
<1> SUFFICES ASSUME NEW j \in Ctx, j # c, xfer[j].pc \in Pointing
             PROVE  xfer[j].cut \in Pointing /\ (xfer[j].pc = "use" => xfer[j].cut = "use")
  BY DEF OwnInv, Moves
<1>1. xfer[j].cut = xfer[j].pc
  BY Below DEF Moves, Pointing
<1> QED
  BY <1>1

LEMMA MoveRests ==
  ASSUME IInv, NEW c \in Ctx, Moves(c),
         xfer'[c].pc \in Setting \cup {"collect", "after", "off"} => (Stopped /\ ~hw.err)'
  PROVE  RestInv'
<1>1. \A j \in Ctx : j # c /\ Top(j)' => xfer'[j].pc = "idle"
  BY MoveFrame DEF Moves
<1> QED
  BY <1>1 DEF RestInv, Setting

(* The message pointer is set, on a silent bus unless the interrupt was    *)
(* turned off meanwhile.                                                   *)
LEMMA SetMessagesKeeps == ASSUME IInv, NEW c \in Ctx, SetMessages(c) PROVE IInv'
<1>1. /\ dev \in DevSet /\ hw \in HwSet /\ irq \in [on : BOOLEAN, pending : BOOLEAN]
      /\ xfer \in [Ctx -> LevelSet]
  BY Registers
<1>2. /\ xfer[c].pc = "set" /\ Top(c) /\ ~(irq.on /\ irq.pending) /\ hw' = hw /\ irq' = irq
      /\ dev' = [dev EXCEPT !.own = c, !.idx = 1, !.rem = Num(c), !.pos = -1]
  BY DEF SetMessages, Turn, Top
<1>3. xfer[c].msgs \in Messages /\ Num(c) \in {1, 2}
  BY <1>2, Lists DEF IInv, CallsInv, Num
<1>4. /\ dev' \in DevSet /\ dev'.own = c /\ dev'.idx = 1 /\ dev'.rem = Num(c) /\ dev'.pos = -1
  <2>1. c \in Ctx \cup {Nobody} /\ 1 \in 0 .. 2 /\ Num(c) \in 0 .. 2 /\ -1 \in Int
    BY <1>3
  <2>2. dev' \in DevSet
    BY <1>1, <1>2, <2>1, Zenon DEF DevSet
  <2> QED
    BY <1>1, <1>2, <2>2 DEF DevSet
<1>5. /\ xfer' \in [Ctx -> LevelSet] /\ \A j \in Ctx : j # c => xfer'[j] = xfer[j]
      /\ xfer'[c].pc = "kick" /\ xfer'[c].msgs = xfer[c].msgs /\ xfer'[c].cut = xfer[c].cut
      /\ xfer'[c].moved = xfer[c].moved
  <2> DEFINE x == [xfer[c] EXCEPT !.pc = "kick"]
  <2>1. xfer' = [xfer EXCEPT ![c] = x]
    BY DEF SetMessages, Goto
  <2>2. xfer[c] \in LevelSet
    BY <1>1
  <2>3. x \in LevelSet
    BY <2>2, Zenon DEF LevelSet, Pcs
  <2>4. x.pc = "kick" /\ x.msgs = xfer[c].msgs /\ x.cut = xfer[c].cut /\ x.moved = xfer[c].moved
    BY <2>2 DEF LevelSet
  <2> HIDE DEF x
  <2> QED
    BY <1>1, <2>1, <2>3, <2>4
<1>6. Moves(c)
  BY <1>1, <1>2, <1>5 DEF Moves
<1>7. /\ CallsInv' /\ CutsInv'
      /\ \A j \in Ctx : Top(j)' <=> Top(j)
      /\ \A j \in Ctx : j # c /\ Top(j) => xfer[j].pc = "idle"
      /\ \A j \in Ctx : j # c /\ xfer'[j].cut = "none" => xfer'[j].pc = "idle"
      /\ Num(c)' = Num(c)
  BY <1>6, MoveFrame
<1>8. TypeOK'
  BY <1>1, <1>2, <1>4, <1>5, Types DEF TypeOK, DevSet, HwSet, ByteSet, LevelSet
<1>9. ~Loose
  BY <1>2, LoneLoser DEF Losing
<1>10. \/ irq.on /\ Still /\ ~hw.act
       \/ ~irq.on /\ xfer[c].cut \in {"pre", "set"}
  BY <1>1, <1>2 DEF IInv, StillInv, CutsInv, CutAt, Setting
<1>10a. Stopped /\ ~hw.err
  BY <1>2 DEF IInv, RestInv, Setting
<1>10b. hw.wr.kind = "addr" /\ ~hw.stuck => FALSE
  BY <1>10a, Bytes DEF IInv, BusInv, Stopped
<1>11. ~hw.rd /\ (hw.stuck \/ (~hw.reading /\ ~(hw.wr.kind = "addr" /\ hw.wr.rd)))
  <2>1. CASE irq.on
    BY <1>10, <2>1, Bytes DEF Still, NoByte
  <2>2. CASE ~irq.on
    BY <1>9, <2>2 DEF Loose, Served
  <2> QED
    BY <2>1, <2>2
<1>12. hw.wr.kind = "data" /\ ~hw.stuck => FALSE
  <2>1. CASE irq.on
    BY <1>10, <2>1 DEF Still, NoByte
  <2>2. CASE ~irq.on
    BY <2>2 DEF IInv, BusInv, Served
  <2> QED
    BY <2>1, <2>2
<1>13. hw.stop => hw.stuck
  BY <1>11 DEF IInv, BusInv
<1>14. DevInv'
  <2>1. Still' <=> Still
    BY <1>2 DEF Still
  <2>2. Top(c)'
    BY <1>2, <1>7
  <2>3. \A j \in Ctx : j > c => xfer'[j].pc \notin Pointing
    BY <2>2 DEF Top, Pointing
  <2> QED
    BY <1>2, <1>3, <1>4, <1>5, <1>7, <1>10, <2>1, <2>2, <2>3 DEF DevInv, Pointing, Setting
<1>15. BusInv'
  <2>1. dev'.pos < 0 /\ ~(dev'.pos >= 0)
    BY <1>4
  <2> QED
    BY <1>2, <1>10b, <1>11, <1>12, <1>13, <2>1 DEF IInv, BusInv
<1>16. LooseInv' /\ OwnInv' /\ RestInv'
  <2>1. RestInv'
    BY <1>2, <1>6, <1>10a, MoveRests DEF Stopped
  <2>2. OwnInv'
    BY <1>4, <1>6, MoveOwns
  <2> QED
    BY <1>2, <1>11, <2>1, <2>2 DEF LooseInv, Loose
<1>17. StillInv'
  <2>1. Still' <=> Still
    BY <1>2 DEF Still
  <2>2. \A j \in Ctx : j # c /\ xfer[j].pc = "after" => dev'.own > j
    <3> SUFFICES ASSUME NEW j \in Ctx, j # c, xfer[j].pc = "after" PROVE dev'.own > j
      OBVIOUS
    <3>1. j < c
      BY <1>2, NotTop
    <3> QED
      BY <1>4, <3>1 DEF Ctx
  <2> QED
    BY <1>2, <1>4, <1>5, <1>7, <1>10, <2>1, <2>2 DEF StillInv, Setting
<1>18. CalmInv'
  BY <1>2, <1>4, <1>5, <1>7 DEF IInv, CalmInv, Pointing, Setting
<1> QED
  BY <1>7, <1>8, <1>14, <1>15, <1>16, <1>17, <1>18 DEF IInv

(* The counts of the transfer are set.                                     *)
LEMMA SetCountsKeeps == ASSUME IInv, NEW c \in Ctx, SetCounts(c) PROVE IInv'
<1>1. /\ dev \in DevSet /\ hw \in HwSet /\ irq \in [on : BOOLEAN, pending : BOOLEAN]
      /\ xfer \in [Ctx -> LevelSet]
  BY Registers
<1>2. /\ xfer[c].pc = "kick" /\ Top(c) /\ hw' = hw /\ irq' = irq
      /\ dev' = [dev EXCEPT !.ret = Num(c), !.needFlush = FALSE, !.flushCnt = 0,
                            !.cnt = xfer[c].msgs[1].len]
  BY DEF SetCounts, Turn, Top
<1>3. /\ xfer[c].msgs \in Messages /\ Num(c) \in {1, 2}
      /\ xfer[c].msgs[1].len \in Nat \ {0}
  BY <1>2, Lists DEF IInv, CallsInv, Num
<1>4. /\ dev' \in DevSet /\ dev'.own = dev.own /\ dev'.idx = dev.idx /\ dev'.rem = dev.rem
      /\ dev'.pos = dev.pos /\ dev'.cnt = xfer[c].msgs[1].len /\ dev'.ret = Num(c)
      /\ dev'.needFlush = FALSE /\ dev'.flushCnt = 0
  <2>1. Num(c) \in Int /\ 0 \in Nat /\ xfer[c].msgs[1].len \in Nat
    BY <1>3
  <2>2. dev' \in DevSet
    BY <1>1, <1>2, <2>1, Zenon DEF DevSet
  <2> QED
    BY <1>1, <1>2, <2>2 DEF DevSet
<1>5. /\ xfer' \in [Ctx -> LevelSet] /\ \A j \in Ctx : j # c => xfer'[j] = xfer[j]
      /\ xfer'[c].pc = "call" /\ xfer'[c].msgs = xfer[c].msgs /\ xfer'[c].cut = xfer[c].cut
      /\ xfer'[c].moved = xfer[c].moved
  <2> DEFINE x == [xfer[c] EXCEPT !.pc = "call"]
  <2>1. xfer' = [xfer EXCEPT ![c] = x]
    BY DEF SetCounts, Goto
  <2>2. xfer[c] \in LevelSet
    BY <1>1
  <2>3. x \in LevelSet
    BY <2>2, Zenon DEF LevelSet, Pcs
  <2>4. x.pc = "call" /\ x.msgs = xfer[c].msgs /\ x.cut = xfer[c].cut /\ x.moved = xfer[c].moved
    BY <2>2 DEF LevelSet
  <2> HIDE DEF x
  <2> QED
    BY <1>1, <2>1, <2>3, <2>4
<1>6. Moves(c)
  BY <1>1, <1>2, <1>5 DEF Moves
<1>7. /\ CallsInv' /\ CutsInv'
      /\ \A j \in Ctx : Top(j)' <=> Top(j)
      /\ \A j \in Ctx : j # c /\ Top(j) => xfer[j].pc = "idle"
      /\ \A j \in Ctx : j # c /\ xfer'[j].cut = "none" => xfer'[j].pc = "idle"
      /\ Num(c)' = Num(c)
  BY <1>6, MoveFrame
<1>8. TypeOK'
  BY <1>1, <1>2, <1>4, <1>5, Types DEF TypeOK, DevSet, HwSet, ByteSet, LevelSet
<1>9. dev.own # Nobody => dev.own = c /\ dev.idx = 1 /\ dev.pos = -1 /\ dev.rem = Num(c)
  <2> SUFFICES ASSUME dev.own # Nobody
               PROVE  dev.own = c /\ dev.idx = 1 /\ dev.pos = -1 /\ dev.rem = Num(c)
    OBVIOUS
  <2>1. dev.own = c
    BY <1>2, OwnerOf DEF Pointing
  <2>2. dev.idx = 1 /\ dev.pos = -1 /\ dev.idx + dev.rem = Num(c) + 1
    BY <1>2, <2>1 DEF IInv, DevInv, Setting
  <2>3. dev.rem \in Int
    BY <1>1 DEF DevSet
  <2> QED
    BY <1>3, <2>1, <2>2, <2>3
<1>10. ~Loose
  BY <1>2, LoneLoser DEF Losing
<1>11. DevInv'
  <2> SUFFICES ASSUME dev.own # Nobody PROVE DevInv'
    BY <1>4 DEF DevInv
  <2>1. Msg(dev)' = xfer[c].msgs[1]
    BY <1>4, <1>5, <1>9 DEF Msg
  <2>2. Placed(dev)'
    BY <1>3, <1>4, <1>9, <2>1 DEF Placed
  <2>3. Still' <=> Still
    BY <1>2 DEF Still
  <2>4. \/ Still /\ ~hw.act
        \/ ~irq.on /\ xfer[c].cut \in {"pre", "set"}
    BY <1>2, <1>9 DEF IInv, DevInv, Setting
  <2>5. \A j \in Ctx : j > c => xfer'[j].pc \notin Pointing
    BY <1>2, <1>5 DEF Top, Pointing, Ctx
  <2>6. c \in Ctx /\ Top(c)'
    BY <1>2, <1>7
  <2> QED
    BY <1>2, <1>3, <1>4, <1>5, <1>7, <1>9, <2>2, <2>3, <2>4, <2>5, <2>6 DEF DevInv, Pointing, Setting
<1>12. BusInv'
  <2>1. dev.own = Nobody => ~Served /\ ~Served'
    BY <1>4 DEF Served
  <2>2. CASE dev.own = Nobody
    BY <1>2, <1>4, <2>1, <2>2 DEF IInv, BusInv
  <2>3. CASE dev.own # Nobody
    <3>1. dev'.pos < 0 /\ ~(dev'.pos >= 0) /\ dev.pos < 0 /\ ~(dev.pos >= 0)
      BY <1>4, <1>9, <2>3
    <3>2. ~hw.rd /\ (hw.stop => hw.stuck)
      BY <2>3, <3>1 DEF IInv, BusInv
    <3>3. Served' <=> Served
      BY <1>2, <1>4 DEF Served
    <3> QED
      BY <1>2, <1>4, <2>3, <3>1, <3>2, <3>3 DEF IInv, BusInv
  <2> QED
    BY <2>2, <2>3
<1>13. LooseInv' /\ OwnInv' /\ RestInv'
  <2>1. RestInv'
    <3>1. Stopped /\ ~hw.err
      BY <1>2 DEF IInv, RestInv, Setting
    <3> QED
      BY <1>2, <1>6, <3>1, MoveRests DEF Stopped
  <2>2. OwnInv'
    <3>1. dev.own # c => xfer[c].cut \in Pointing
      BY <1>2 DEF IInv, OwnInv, Pointing
    <3> QED
      BY <1>4, <1>5, <1>6, <3>1, MoveOwns
  <2>3. ~Loose'
    BY <1>2, <1>4, <1>10 DEF Loose, Served
  <2> QED
    BY <2>1, <2>2, <2>3 DEF LooseInv
<1>14. StillInv'
  <2>1. Still' <=> Still
    BY <1>2 DEF Still
  <2>2. Top(c) /\ irq.on => Still /\ ~hw.act
    BY <1>2 DEF IInv, StillInv, Setting
  <2>3. \A j \in Ctx : j # c /\ xfer[j].pc = "after" /\ dev.own # Nobody => dev.own > j
    BY DEF IInv, StillInv
  <2> QED
    BY <1>2, <1>4, <1>5, <1>7, <2>1, <2>2, <2>3 DEF StillInv, Setting
<1>15. CalmInv'
  BY <1>2, <1>4, <1>5, <1>7 DEF IInv, CalmInv, Pointing, Setting
<1> QED
  BY <1>7, <1>8, <1>11, <1>12, <1>13, <1>14, <1>15 DEF IInv

(* The direct call looks at dev.msg.                                        *)
LEMMA CheckMessageKeeps == ASSUME IInv, NEW c \in Ctx, CheckMessage(c) PROVE IInv'
<1>1. /\ dev \in DevSet /\ hw \in HwSet /\ irq \in [on : BOOLEAN, pending : BOOLEAN]
      /\ xfer \in [Ctx -> LevelSet]
  BY Registers
<1>2. xfer[c].pc = "call" /\ Top(c) /\ dev' = dev /\ irq' = irq
  BY DEF CheckMessage, Turn, Top
<1>3. Stopped /\ ~hw.err
  BY <1>2 DEF IInv, RestInv, Setting
<1>4. hw' = hw
  <2>1. [hw EXCEPT !.err = FALSE] = hw
    BY <1>1, <1>3 DEF HwSet
  <2> QED
    BY <2>1 DEF CheckMessage
<1>5. PICK pc \in {"wait", "use"} :
        Goto(c, pc) /\ (pc = "wait" <=> dev.own = Nobody)
  BY DEF CheckMessage
<1>6. /\ xfer' \in [Ctx -> LevelSet] /\ \A j \in Ctx : j # c => xfer'[j] = xfer[j]
      /\ xfer'[c].pc = pc /\ xfer'[c].msgs = xfer[c].msgs /\ xfer'[c].cut = xfer[c].cut
      /\ xfer'[c].moved = xfer[c].moved
  <2> DEFINE x == [xfer[c] EXCEPT !.pc = pc]
  <2>1. xfer' = [xfer EXCEPT ![c] = x]
    BY <1>5 DEF Goto
  <2>2. xfer[c] \in LevelSet /\ pc \in Pcs \ {"none"}
    BY <1>1 DEF Pcs
  <2>3. x \in LevelSet
    BY <2>2, Zenon DEF LevelSet
  <2>4. x.pc = pc /\ x.msgs = xfer[c].msgs /\ x.cut = xfer[c].cut /\ x.moved = xfer[c].moved
    BY <2>2 DEF LevelSet
  <2> HIDE DEF x
  <2> QED
    BY <1>1, <2>1, <2>3, <2>4
<1>7. Moves(c)
  BY <1>1, <1>2, <1>6 DEF Moves
<1>8. /\ CallsInv' /\ CutsInv'
      /\ \A j \in Ctx : Top(j)' <=> Top(j)
      /\ \A j \in Ctx : j # c /\ Top(j) => xfer[j].pc = "idle"
      /\ \A j \in Ctx : j # c /\ xfer'[j].cut = "none" => xfer'[j].pc = "idle"
      /\ Num(c)' = Num(c)
  BY <1>7, MoveFrame
<1>9. TypeOK'
  BY <1>1, <1>2, <1>4, <1>6, Types DEF TypeOK, DevSet, HwSet, ByteSet, LevelSet
<1>10. dev.own # Nobody => dev.own = c /\ pc = "use" /\ Msg(dev)' = Msg(dev)
  <2>1. dev.own # Nobody => dev.own = c
    BY <1>2, OwnerOf DEF Pointing
  <2> QED
    BY <1>2, <1>5, <1>6, <2>1 DEF Msg
<1>11. dev.own # c => dev.own = Nobody /\ pc = "wait" /\ xfer[c].cut \in Pointing
  <2>1. dev.own # c => xfer[c].cut \in Pointing
    BY <1>2 DEF IInv, OwnInv, Pointing
  <2> QED
    BY <1>5, <1>10, <2>1
<1>12. DevInv'
  <2> SUFFICES ASSUME dev.own # Nobody PROVE DevInv'
    BY <1>2 DEF DevInv
  <2>1. Placed(dev)' <=> Placed(dev)
    BY <1>2, <1>10 DEF Placed
  <2>2. Still' <=> Still
    BY <1>2, <1>4 DEF Still
  <2>3. \A j \in Ctx : j > c => xfer'[j].pc \notin Pointing
    BY <1>2, <1>6 DEF Top, Pointing, Ctx
  <2> QED
    BY <1>2, <1>4, <1>6, <1>8, <1>10, <2>1, <2>2, <2>3 DEF IInv, DevInv, Pointing, Setting
<1>13. BusInv'
  BY <1>2, <1>4, <1>10 DEF IInv, BusInv, Served, LastByte
<1>14. LooseInv' /\ OwnInv' /\ RestInv'
  <2>1. RestInv'
    BY <1>3, <1>4, <1>7, MoveRests DEF Stopped
  <2>2. OwnInv'
    BY <1>2, <1>6, <1>7, <1>11, MoveOwns
  <2>3. ~Loose
    BY <1>2, LoneLoser DEF Losing
  <2>4. ~Loose'
    BY <1>2, <1>4, <2>3 DEF Loose, Served
  <2> QED
    BY <2>1, <2>2, <2>4 DEF LooseInv
<1>15. StillInv'
  <2>1. Still' <=> Still
    BY <1>2, <1>4 DEF Still
  <2>2. Top(c) /\ irq.on => Still /\ ~hw.act
    BY <1>2 DEF IInv, StillInv, Setting
  <2>3. \A j \in Ctx : j # c /\ xfer[j].pc = "after" /\ dev.own # Nobody => dev.own > j
    BY DEF IInv, StillInv
  <2> QED
    BY <1>2, <1>4, <1>6, <1>8, <2>1, <2>2, <2>3 DEF StillInv, Setting
<1>16. CalmInv'
  <2>1. xfer[c].cut = "none" => dev.own = c /\ pc = "use"
    <3>1. c # Nobody
      BY DEF Ctx, Nobody
    <3> QED
      BY <1>2, <1>5, <3>1 DEF IInv, CalmInv, Pointing
  <2>2. xfer[c].cut = "none" => xfer'[c].moved = 0
    BY <1>2, <1>6 DEF IInv, CalmInv, Setting
  <2> QED
    BY <1>2, <1>6, <1>8, <2>1, <2>2 DEF CalmInv, Pointing, Setting
<1> QED
  BY <1>8, <1>9, <1>12, <1>13, <1>14, <1>15, <1>16 DEF IInv

(* The registers after a recovery that found a slave holding the bus.       *)
Held(h) == [h EXCEPT !.rd = FALSE, !.stuck = TRUE]

(* The registers of an idle bus, and what holding and polling change.       *)
LEMMA BusIs ==
  /\ IdleBus \in HwSet /\ ~IdleBus.act /\ IdleBus.wr = NoByte /\ IdleBus.wr.kind = "none"
  /\ ~IdleBus.reading /\ ~IdleBus.rd /\ ~IdleBus.stop /\ ~IdleBus.err /\ ~IdleBus.stuck
  /\ \A h \in HwSet :
       /\ Held(h) \in HwSet /\ Held(h).act = h.act /\ Held(h).wr = h.wr
       /\ Held(h).reading = h.reading /\ Held(h).stop = h.stop /\ Held(h).err = h.err
       /\ ~Held(h).rd /\ Held(h).stuck
       /\ Polled(h) \in HwSet /\ Polled(h).act = h.act /\ Polled(h).wr = h.wr
       /\ Polled(h).reading = h.reading /\ Polled(h).stop = h.stop /\ ~Polled(h).err
       /\ Polled(h).rd = h.rd /\ Polled(h).stuck = h.stuck
<1>1. /\ IdleBus \in HwSet /\ ~IdleBus.act /\ IdleBus.wr = NoByte /\ IdleBus.wr.kind = "none"
      /\ ~IdleBus.reading /\ ~IdleBus.rd /\ ~IdleBus.stop /\ ~IdleBus.err /\ ~IdleBus.stuck
  BY Bytes DEF IdleBus, HwSet
<1>2. ASSUME NEW h \in HwSet
      PROVE  /\ Held(h) \in HwSet /\ Held(h).act = h.act /\ Held(h).wr = h.wr
             /\ Held(h).reading = h.reading /\ Held(h).stop = h.stop /\ Held(h).err = h.err
             /\ ~Held(h).rd /\ Held(h).stuck
  <2>1. Held(h) \in HwSet
    BY Zenon DEF Held, HwSet
  <2> QED
    BY <2>1 DEF Held, HwSet
<1>3. ASSUME NEW h \in HwSet
      PROVE  /\ Polled(h) \in HwSet /\ Polled(h).act = h.act /\ Polled(h).wr = h.wr
             /\ Polled(h).reading = h.reading /\ Polled(h).stop = h.stop /\ ~Polled(h).err
             /\ Polled(h).rd = h.rd /\ Polled(h).stuck = h.stuck
  <2>1. Polled(h) \in HwSet
    BY Zenon DEF Polled, HwSet
  <2> QED
    BY <2>1 DEF Polled, HwSet
<1> QED
  BY <1>1, <1>2, <1>3

(* A recovery has nothing to do, releases the bus, or does not.            *)
LEMMA Recovered ==
  ASSUME NEW h, NEW r \in Recoveries(h)
  PROVE  \/ ~h.act /\ h.wr = NoByte /\ r.h = h /\ r.ok
         \/ r.h = IdleBus /\ r.ok
         \/ ~(~h.act /\ h.wr = NoByte) /\ r.h = Held(h) /\ ~r.ok
<1> DEFINE g == Held(h)
<1>1. \/ ~h.act /\ h.wr = NoByte /\ r = [h |-> h, ok |-> TRUE]
      \/ r = [h |-> IdleBus, ok |-> TRUE]
      \/ ~(~h.act /\ h.wr = NoByte) /\ r = [h |-> g, ok |-> FALSE]
  BY DEF Recoveries, Held
<1> HIDE DEF g
<1>2. CASE ~h.act /\ h.wr = NoByte /\ r = [h |-> h, ok |-> TRUE]
  BY <1>2
<1>3. CASE r = [h |-> IdleBus, ok |-> TRUE]
  BY <1>3
<1>4. CASE ~(~h.act /\ h.wr = NoByte) /\ r = [h |-> g, ok |-> FALSE]
  <2>1. r.h = g /\ ~r.ok
    BY <1>4
  <2> QED
    BY <1>4, <2>1 DEF g
<1> QED
  BY <1>1, <1>2, <1>3, <1>4

(* The first poll ends: the bus is silent, or nothing was moved.           *)
LEMMA PollBeforeKeeps == ASSUME IInv, NEW c \in Ctx, PollBefore(c) PROVE IInv'
<1>1. /\ dev \in DevSet /\ hw \in HwSet /\ irq \in [on : BOOLEAN, pending : BOOLEAN]
      /\ xfer \in [Ctx -> LevelSet]
  BY Registers
<1>2. /\ xfer[c].pc = "pre" /\ Top(c) /\ ~(irq.on /\ irq.pending) /\ dev' = dev /\ irq' = irq
  BY DEF PollBefore, Turn, Top
<1>3. xfer[c].msgs \in Messages /\ Num(c) \in {1, 2} /\ Total(c) \in Nat /\ Total(c) > 0
  <2>1. xfer[c].msgs \in Messages
    BY <1>2 DEF IInv, CallsInv
  <2> QED
    BY <2>1, Lists DEF Num, Total, TotalBytes
<1>4. /\ xfer' \in [Ctx -> LevelSet] /\ \A j \in Ctx : j # c => xfer'[j] = xfer[j]
      /\ xfer'[c].pc \in {"set", "off"} /\ xfer'[c].msgs = xfer[c].msgs
      /\ xfer'[c].cut = xfer[c].cut /\ xfer'[c].moved = xfer[c].moved
      /\ xfer'[c].pc = "off" => xfer'[c].ret = ERR_NOT_READY
  <2>1. PICK pc \in {"set", "off"}, ret \in Int :
          /\ xfer' = [xfer EXCEPT ![c].pc = pc, ![c].ret = ret]
          /\ pc = "off" => ret = ERR_NOT_READY
    <3>1. CASE Goto(c, "set")
      <4>1. xfer' = [xfer EXCEPT ![c].pc = "set", ![c].ret = xfer[c].ret]
        BY <1>1, <3>1 DEF Goto, LevelSet
      <4>2. xfer[c].ret \in Int
        BY <1>1 DEF LevelSet
      <4> QED
        BY <4>1, <4>2
    <3>2. ASSUME NEW r \in Recoveries(Polled(hw)),
                 xfer' = [xfer EXCEPT ![c].pc = IF r.ok THEN "set" ELSE "off",
                                      ![c].ret = IF r.ok THEN @ ELSE ERR_NOT_READY]
          PROVE  \E pc \in {"set", "off"}, ret \in Int :
                   /\ xfer' = [xfer EXCEPT ![c].pc = pc, ![c].ret = ret]
                   /\ pc = "off" => ret = ERR_NOT_READY
      <4>1. xfer[c].ret \in Int /\ ERR_NOT_READY \in Int
        BY <1>1 DEF LevelSet, ERR_NOT_READY
      <4>2. CASE r.ok
        <5>1. xfer' = [xfer EXCEPT ![c].pc = "set", ![c].ret = xfer[c].ret]
          BY <3>2, <4>2
        <5> QED
          BY <4>1, <5>1
      <4>3. CASE ~r.ok
        <5>1. xfer' = [xfer EXCEPT ![c].pc = "off", ![c].ret = ERR_NOT_READY]
          BY <3>2, <4>3
        <5> QED
          BY <4>1, <5>1
      <4> QED
        BY <4>2, <4>3
    <3> QED
      BY <3>1, <3>2 DEF PollBefore
  <2> DEFINE x == [xfer[c] EXCEPT !.pc = pc, !.ret = ret]
  <2>2. xfer' = [xfer EXCEPT ![c] = x]
    BY <2>1
  <2>3. xfer[c] \in LevelSet /\ pc \in Pcs \ {"none"}
    BY <1>1 DEF Pcs
  <2>4. x \in LevelSet
    BY <2>3, Zenon DEF LevelSet
  <2>5. /\ x.pc = pc /\ x.msgs = xfer[c].msgs /\ x.cut = xfer[c].cut /\ x.moved = xfer[c].moved
        /\ x.ret = ret
    BY <2>3 DEF LevelSet
  <2> HIDE DEF x
  <2>6. xfer'[c] = x /\ xfer' \in [Ctx -> LevelSet] /\ \A j \in Ctx : j # c => xfer'[j] = xfer[j]
    BY <1>1, <2>2, <2>4
  <2> QED
    BY <2>1, <2>5, <2>6
<1>5. Moves(c)
  BY <1>1, <1>2, <1>4 DEF Moves
<1>6. /\ CallsInv' /\ CutsInv'
      /\ \A j \in Ctx : Top(j)' <=> Top(j)
      /\ \A j \in Ctx : j # c /\ Top(j) => xfer[j].pc = "idle"
      /\ \A j \in Ctx : j # c /\ xfer'[j].cut = "none" => xfer'[j].pc = "idle"
      /\ Num(c)' = Num(c) /\ Total(c)' = Total(c)
  BY <1>5, MoveFrame
<1>7. dev.own # Nobody => dev.own \in Ctx /\ dev.own # c /\ ~Top(dev.own) /\ Msg(dev)' = Msg(dev)
  BY <1>2, <1>4, OwnerOf DEF Pointing, Ctx, Msg
<1>8. hw' \in HwSet /\ ~hw'.err
      /\ \/ /\ ~hw.act /\ hw'.act = hw.act /\ hw'.wr = hw.wr /\ hw'.reading = hw.reading
            /\ hw'.rd = hw.rd /\ hw'.stop = hw.stop /\ hw'.stuck = hw.stuck
            /\ xfer'[c].pc = "set"
         \/ hw.act /\ hw' = IdleBus /\ xfer'[c].pc = "set"
         \/ /\ hw.act /\ hw'.act = hw.act /\ hw'.wr = hw.wr /\ hw'.reading = hw.reading /\ ~hw'.rd
            /\ hw'.stop = hw.stop /\ hw'.stuck /\ xfer'[c].pc = "off"
  <2>1. CASE ~hw.act /\ Goto(c, "set") /\ hw' = Polled(hw)
    <3>1. xfer'[c].pc = "set"
      BY <1>1, <2>1 DEF Goto, LevelSet
    <3> QED
      BY <1>1, <2>1, <3>1, BusIs
  <2>2. ASSUME GivesUp, NEW r \in Recoveries(Polled(hw)), hw' = r.h,
               xfer' = [xfer EXCEPT ![c].pc = IF r.ok THEN "set" ELSE "off",
                                    ![c].ret = IF r.ok THEN @ ELSE ERR_NOT_READY]
        PROVE  /\ hw' \in HwSet /\ ~hw'.err
               /\ \/ hw.act /\ hw' = IdleBus /\ xfer'[c].pc = "set"
                  \/ /\ hw.act /\ hw'.act = hw.act /\ hw'.wr = hw.wr /\ hw'.reading = hw.reading
                     /\ ~hw'.rd /\ hw'.stop = hw.stop /\ hw'.stuck /\ xfer'[c].pc = "off"
    <3> DEFINE h == Polled(hw)
    <3>1. /\ h \in HwSet /\ h.act = hw.act /\ h.wr = hw.wr /\ h.reading = hw.reading
          /\ h.stop = hw.stop /\ ~h.err
      BY <1>1, BusIs
    <3>2. hw.act
      BY <2>2 DEF GivesUp
    <3>3. \/ r.h = IdleBus /\ r.ok
          \/ r.h = Held(h) /\ ~r.ok
      BY <2>2, <3>1, <3>2, Recovered
    <3>4. xfer'[c].pc = IF r.ok THEN "set" ELSE "off"
      BY <1>1, <2>2 DEF LevelSet
    <3> HIDE DEF h
    <3>5. CASE r.h = IdleBus /\ r.ok
      BY <2>2, <3>2, <3>4, <3>5, BusIs
    <3>6. CASE r.h = Held(h) /\ ~r.ok
      <4>1. /\ Held(h) \in HwSet /\ Held(h).act = h.act /\ Held(h).wr = h.wr
            /\ Held(h).reading = h.reading /\ Held(h).stop = h.stop /\ Held(h).err = h.err
            /\ ~Held(h).rd /\ Held(h).stuck
        BY <3>1, BusIs
      <4>2. hw' = Held(h) /\ xfer'[c].pc = "off"
        BY <2>2, <3>4, <3>6
      <4> QED
        BY <3>1, <3>2, <4>1, <4>2
    <3> QED
      BY <3>3, <3>5, <3>6
  <2> QED
    BY <2>1, <2>2 DEF PollBefore
<1>9. hw' = IdleBus => /\ ~hw'.act /\ hw'.wr = NoByte /\ hw'.wr.kind = "none" /\ ~hw'.reading /\ ~hw'.rd
                       /\ ~hw'.stop /\ ~hw'.err /\ ~hw'.stuck
  BY BusIs
<1>10. irq.on => ~irq.pending
  BY <1>2
<1>11. ~Loose
  BY <1>2, LoneLoser DEF Losing
<1>12. TypeOK'
  BY <1>1, <1>2, <1>4, <1>8, Types DEF TypeOK, DevSet, HwSet, ByteSet, LevelSet
<1>13. DevInv'
  <2> SUFFICES ASSUME dev.own # Nobody
               PROVE  /\ xfer'[dev.own] = xfer[dev.own]
                      /\ xfer[dev.own].pc \in Setting => Still' /\ ~hw'.act
                      /\ \A j \in Ctx : j > dev.own => xfer'[j].pc \notin Pointing
    BY <1>2, <1>6, <1>7 DEF IInv, DevInv, Placed, Num
  <2>1. xfer'[dev.own] = xfer[dev.own]
    BY <1>4, <1>7
  <2>2. xfer[dev.own].pc \in Setting => Still /\ ~hw.act
    BY <1>7 DEF IInv, DevInv
  <2>3. \A j \in Ctx : j > dev.own => xfer'[j].pc \notin Pointing
    BY <1>4 DEF IInv, DevInv, Pointing
  <2> QED
    BY <1>2, <1>8, <2>1, <2>2, <2>3 DEF Still
<1>14. BusInv'
  BY <1>2, <1>7, <1>8, <1>9 DEF IInv, BusInv, Served, LastByte
<1>15. LooseInv' /\ OwnInv' /\ RestInv'
  <2>1. ~Loose'
    BY <1>2, <1>8, <1>9, <1>11 DEF Loose, Served
  <2>2. Stopped'
    BY <1>8, <1>9 DEF Stopped
  <2>3. RestInv'
    BY <1>5, <1>8, <2>2, MoveRests
  <2>4. OwnInv'
    BY <1>4, <1>5, MoveOwns DEF Pointing
  <2> QED
    BY <2>1, <2>3, <2>4 DEF LooseInv
<1>16. StillInv'
  <2>1. irq.on /\ xfer'[c].pc = "set" => Still' /\ ~hw'.act
    <3>1. irq.on => ~irq.pending /\ (dev.own # Nobody => ~hw.rd)
      BY <1>10 DEF IInv, BusInv
    <3>2. irq.on /\ ~hw.act => hw.wr = NoByte /\ ~hw.reading /\ ~hw.rd
      BY <3>1 DEF IInv, BusInv, Served
    <3> QED
      BY <1>2, <1>8, <1>9, <3>1, <3>2 DEF Still
  <2>2. irq.on /\ xfer'[c].pc = "off" => Still'
    BY <1>2, <1>8, <1>10 DEF Still
  <2>3. \A j \in Ctx : j # c /\ xfer[j].pc = "after" /\ dev.own # Nobody => dev.own > j
    BY DEF IInv, StillInv
  <2> QED
    BY <1>2, <1>4, <1>6, <2>1, <2>2, <2>3 DEF StillInv, Setting
<1>17. CalmInv'
  <2>1. xfer[c].cut = "none" => xfer'[c].moved = 0
    BY <1>2, <1>4 DEF IInv, CalmInv
  <2>2. xfer'[c].pc = "off" /\ xfer[c].cut = "none" => ~Succeeded(c)' /\ xfer'[c].moved # Total(c)'
    BY <1>3, <1>4, <1>6, <2>1 DEF Succeeded, ERR_NOT_READY
  <2> QED
    BY <1>4, <1>6, <2>1, <2>2 DEF CalmInv, Pointing, Setting
<1> QED
  BY <1>6, <1>12, <1>13, <1>14, <1>15, <1>16, <1>17 DEF IInv

(* The second poll ends: an attempt that nobody preempted has been judged  *)
(* by the handler, unless it ends late.                                    *)
LEMMA PollAfterKeeps == ASSUME IInv, NEW c \in Ctx, PollAfter(c) PROVE IInv'
<1>1. /\ dev \in DevSet /\ hw \in HwSet /\ irq \in [on : BOOLEAN, pending : BOOLEAN]
      /\ xfer \in [Ctx -> LevelSet]
  BY Registers
<1>2. /\ xfer[c].pc = "wait" /\ Top(c) /\ ~(irq.on /\ irq.pending)
      /\ dev' = dev /\ hw' = Polled(hw) /\ irq' = irq
  BY DEF PollAfter, Turn, Top
<1>3. /\ xfer' \in [Ctx -> LevelSet] /\ \A j \in Ctx : j # c => xfer'[j] = xfer[j]
      /\ xfer'[c].pc = "collect" /\ xfer'[c].msgs = xfer[c].msgs
      /\ xfer'[c].cut = xfer[c].cut /\ xfer'[c].moved = xfer[c].moved
      /\ ~hw.act \/ (GivesUp /\ xfer'[c].late)
  <2>1. PICK late \in BOOLEAN :
          /\ xfer' = [xfer EXCEPT ![c].pc = "collect", ![c].late = late]
          /\ ~hw.act \/ (GivesUp /\ late)
    <3>1. CASE ~hw.act /\ Goto(c, "collect")
      <4>1. xfer' = [xfer EXCEPT ![c].pc = "collect", ![c].late = xfer[c].late]
        BY <1>1, <3>1 DEF Goto, LevelSet
      <4>2. xfer[c].late \in BOOLEAN
        BY <1>1 DEF LevelSet
      <4> QED
        BY <3>1, <4>1, <4>2
    <3>2. CASE GivesUp /\ xfer' = [xfer EXCEPT ![c].pc = "collect", ![c].late = TRUE]
      BY <3>2
    <3> QED
      BY <3>1, <3>2 DEF PollAfter
  <2> DEFINE x == [xfer[c] EXCEPT !.pc = "collect", !.late = late]
  <2>2. xfer' = [xfer EXCEPT ![c] = x]
    BY <2>1
  <2>3. xfer[c] \in LevelSet
    BY <1>1
  <2>4. x \in LevelSet
    BY <2>3, Zenon DEF LevelSet, Pcs
  <2>5. /\ x.pc = "collect" /\ x.msgs = xfer[c].msgs /\ x.cut = xfer[c].cut /\ x.moved = xfer[c].moved
        /\ x.late = late
    BY <2>3 DEF LevelSet
  <2> HIDE DEF x
  <2> QED
    BY <1>1, <2>1, <2>2, <2>4, <2>5
<1>3a. /\ hw' \in HwSet /\ hw'.act = hw.act /\ hw'.wr = hw.wr /\ hw'.reading = hw.reading
       /\ hw'.stop = hw.stop /\ ~hw'.err /\ hw'.rd = hw.rd /\ hw'.stuck = hw.stuck
  BY <1>1, <1>2, BusIs
<1>4. Moves(c)
  BY <1>1, <1>2, <1>3 DEF Moves
<1>5. /\ CallsInv' /\ CutsInv'
      /\ \A j \in Ctx : Top(j)' <=> Top(j)
      /\ \A j \in Ctx : j # c /\ Top(j) => xfer[j].pc = "idle"
      /\ \A j \in Ctx : j # c /\ xfer'[j].cut = "none" => xfer'[j].pc = "idle"
      /\ Num(c)' = Num(c) /\ Total(c)' = Total(c)
  BY <1>4, MoveFrame
<1>6. dev.own # Nobody => dev.own = c /\ Msg(dev)' = Msg(dev)
  BY <1>2, <1>3, OwnerOf DEF Pointing, Msg
<1>7. Served => Still
  BY <1>2, <1>3 DEF IInv, BusInv, Served, Still, GivesUp, HwMoves, HwReady
<1>8. TypeOK'
  BY <1>1, <1>2, <1>3, <1>3a, Types DEF TypeOK, DevSet, HwSet, ByteSet, LevelSet
<1>9. DevInv'
  BY <1>2, <1>3, <1>3a, <1>5, <1>6 DEF IInv, DevInv, Placed, Pointing, Setting
<1>10. BusInv'
  BY <1>2, <1>3a, <1>6 DEF IInv, BusInv, Served, LastByte
<1>11. LooseInv' /\ OwnInv' /\ RestInv'
  <2>1. Loose' <=> Loose
    BY <1>2, <1>3a DEF Loose, Served
  <2>2. ASSUME Loose PROVE Losing(c)' /\ hw'.act /\ ~hw'.stop
    <3>1. Losing(c) /\ hw.act /\ ~hw.stop
      BY <1>2, <2>2, LoneLoser
    <3> QED
      BY <1>2, <1>3, <1>3a, <1>5, <3>1 DEF Losing
  <2>3. LooseInv'
    BY <2>1, <2>2 DEF LooseInv
  <2>4. Stopped'
    BY <1>3, <1>3a DEF Stopped, GivesUp, HwMoves, HwReady
  <2>5. RestInv'
    BY <1>3a, <1>4, <2>4, MoveRests
  <2>6. dev.own # c => xfer[c].cut \in Pointing
    BY <1>2 DEF IInv, OwnInv, Pointing
  <2>7. OwnInv'
    BY <1>2, <1>3, <1>4, <2>6, MoveOwns
  <2> QED
    BY <2>3, <2>5, <2>7
<1>12. StillInv'
  <2>1. Still' <=> Still
    BY <1>2, <1>3a DEF Still
  <2>2. irq.on /\ dev.own = c => Still
    BY <1>7 DEF Served, Nobody, Ctx
  <2>3. \A j \in Ctx : j # c /\ xfer[j].pc = "after" /\ dev.own # Nobody => dev.own > j
    BY DEF IInv, StillInv
  <2> QED
    BY <1>2, <1>3, <1>5, <2>1, <2>2, <2>3 DEF StillInv, Setting
<1>13. ASSUME xfer[c].cut = "none", ~hw.act PROVE Judged(c, dev.ret)
  <2>1. irq.on /\ dev.own = c /\ dev.own # Nobody /\ Still /\ hw.wr = NoByte
    <3>1. irq.on /\ dev.own = c
      BY <1>2, <1>13 DEF IInv, CutsInv, CutAt, CalmInv, Pointing
    <3>2. dev.own # Nobody
      BY <3>1 DEF Ctx, Nobody
    <3> QED
      BY <1>7, <1>13, <3>1, <3>2 DEF IInv, BusInv, Served
  <2>2. CASE Failed(c)
    BY <2>1, <2>2 DEF Failed, Judged, Still
  <2>3. CASE Going(c)
    <3>1. Placed(dev) /\ dev.idx \in {1, 2} /\ dev.rem \in {1, 2} /\ dev.idx + dev.rem = Num(c) + 1
          /\ dev.pos \in Int /\ dev.cnt \in Nat
      BY <1>1, <1>2, <2>1 DEF IInv, DevInv, DevSet
    <3>2. hw.wr.kind = "none" /\ InFlight = 0
      BY <2>1, Bytes DEF InFlight
    <3>3. dev.pos >= 0 /\ dev.cnt = 0 /\ ~dev.timedOut
      BY <1>13, <2>1, <2>3, <3>1, <3>2 DEF Going, Still
    <3>4. Passed = Total(c) /\ Passed \in Nat
      <4>1. /\ Passed \in Nat /\ Total(c) \in Nat
            /\ dev.rem = 1 => Passed + dev.cnt = Total(c)
            /\ dev.rem = 2 => dev.cnt > 0
        BY <1>2, <2>1, Position
      <4> QED
        BY <3>1, <3>3, <4>1
    <3>5. xfer[c].moved \in Nat
      BY <1>1 DEF LevelSet
    <3>6. xfer[c].moved + 0 = Passed /\ dev.ret = Num(c)
      BY <2>3, <3>2 DEF Going, Passed
    <3> QED
      BY <3>3, <3>4, <3>5, <3>6 DEF Judged
  <2> QED
    BY <1>2, <1>13, <2>2, <2>3 DEF IInv, CalmInv
<1>14. CalmInv'
  <2>1. xfer[c].cut = "none" => dev.own = c
    BY <1>2 DEF IInv, CalmInv, Pointing
  <2>2. xfer[c].cut = "none" /\ ~xfer'[c].late => Judged(c, dev.ret)' /\ ~hw'.act
    BY <1>2, <1>3, <1>3a, <1>5, <1>13 DEF Judged
  <2> QED
    BY <1>2, <1>3, <1>5, <2>1, <2>2 DEF CalmInv, Pointing, Setting
<1> QED
  BY <1>5, <1>8, <1>9, <1>10, <1>11, <1>12, <1>14 DEF IInv

(* The result is taken, and the transfer cleared.                          *)
LEMMA CollectKeeps == ASSUME IInv, NEW c \in Ctx, Collect(c) PROVE IInv'
<1>1. /\ dev \in DevSet /\ hw \in HwSet /\ irq \in [on : BOOLEAN, pending : BOOLEAN]
      /\ xfer \in [Ctx -> LevelSet]
  BY Registers
<1>2. /\ xfer[c].pc = "collect" /\ Top(c) /\ ~(irq.on /\ irq.pending)
      /\ hw' = hw /\ irq' = irq
  BY DEF Collect, Turn, Top
<1>3. dev' \in DevSet /\ dev'.own = Nobody /\ dev'.timedOut = dev.timedOut
  <2>1. dev.timedOut \in BOOLEAN /\ dev.needFlush \in BOOLEAN
    BY <1>1 DEF DevSet
  <2>2. dev' = [own |-> Nobody, idx |-> 0, rem |-> 0, pos |-> 0, cnt |-> 0, ret |-> 0,
                needFlush |-> dev.needFlush, flushCnt |-> 0, timedOut |-> dev.timedOut]
    BY DEF Collect, IdleDev
  <2>3. Nobody \in Ctx \cup {Nobody} /\ 0 \in 0 .. 2 /\ 0 \in Int /\ 0 \in Nat
    OBVIOUS
  <2>4. dev' \in DevSet
    BY <2>1, <2>2, <2>3, Zenon DEF DevSet
  <2> QED
    BY <2>2, <2>4
<1>4. /\ xfer' \in [Ctx -> LevelSet] /\ \A j \in Ctx : j # c => xfer'[j] = xfer[j]
      /\ xfer'[c].pc = "after" /\ xfer'[c].msgs = xfer[c].msgs /\ xfer'[c].cut = xfer[c].cut
      /\ xfer'[c].moved = xfer[c].moved /\ xfer'[c].late = xfer[c].late
      /\ xfer'[c].ret = dev.ret
  <2> DEFINE x == [xfer[c] EXCEPT !.pc = "after", !.ret = dev.ret]
  <2>1. xfer' = [xfer EXCEPT ![c] = x]
    BY DEF Collect
  <2>2. xfer[c] \in LevelSet /\ dev.ret \in Int
    BY <1>1 DEF DevSet
  <2>3. x \in LevelSet
    BY <2>2, Zenon DEF LevelSet, Pcs
  <2>4. /\ x.pc = "after" /\ x.msgs = xfer[c].msgs /\ x.cut = xfer[c].cut /\ x.moved = xfer[c].moved
        /\ x.late = xfer[c].late /\ x.ret = dev.ret
    BY <2>2 DEF LevelSet
  <2> HIDE DEF x
  <2> QED
    BY <1>1, <2>1, <2>3, <2>4
<1>5. Moves(c)
  BY <1>1, <1>2, <1>4 DEF Moves
<1>6. /\ CallsInv' /\ CutsInv'
      /\ \A j \in Ctx : Top(j)' <=> Top(j)
      /\ \A j \in Ctx : j # c /\ Top(j) => xfer[j].pc = "idle"
      /\ \A j \in Ctx : j # c /\ xfer'[j].cut = "none" => xfer'[j].pc = "idle"
      /\ Num(c)' = Num(c) /\ Total(c)' = Total(c)
  BY <1>5, MoveFrame
<1>7. Served => Still
  BY <1>2, OwnerOf DEF IInv, StillInv, Served, Pointing
<1>8. TypeOK'
  BY <1>1, <1>2, <1>3, <1>4, Types DEF TypeOK, DevSet, HwSet, ByteSet, LevelSet
<1>9. DevInv'
  BY <1>3 DEF DevInv
<1>10. BusInv'
  <2>1. ~hw.act => ~hw.rd
    BY <1>7 DEF IInv, BusInv, Still
  <2>2. hw.wr.kind = "data" /\ ~hw.stuck => FALSE
    BY <1>7 DEF IInv, BusInv, Still, NoByte
  <2>3. (hw.stop /\ ~hw.stuck) \/ (hw.rd /\ ~hw.reading) => FALSE
    BY <1>7 DEF IInv, BusInv, Still
  <2> QED
    BY <1>2, <1>3, <2>1, <2>2, <2>3 DEF IInv, BusInv
<1>11. LooseInv' /\ OwnInv' /\ RestInv'
  <2>1. Loose' => Loose
    <3>1. NoByte.kind # "addr"
      BY DEF NoByte
    <3> QED
      BY <1>2, <1>7, <3>1 DEF Loose, Still
  <2>2. ASSUME Loose PROVE Losing(c)' /\ hw'.act /\ ~hw'.stop
    <3>1. Losing(c) /\ hw.act /\ ~hw.stop
      BY <1>2, <2>2, LoneLoser
    <3> QED
      BY <1>2, <1>3, <1>4, <1>6, <3>1 DEF Losing
  <2>3. LooseInv'
    BY <2>1, <2>2 DEF LooseInv
  <2>4. Stopped' /\ ~hw'.err
    BY <1>2 DEF IInv, RestInv, Stopped
  <2>5. RestInv'
    BY <1>5, <2>4, MoveRests
  <2>6. OwnInv'
    BY <1>4, <1>5, MoveOwns DEF Pointing
  <2> QED
    BY <2>3, <2>5, <2>6
<1>12. StillInv'
  BY <1>2, <1>3, <1>4, <1>6 DEF StillInv, Setting
<1>13. CalmInv'
  BY <1>2, <1>3, <1>4, <1>6 DEF IInv, CalmInv, Judged, Pointing, Setting
<1> QED
  BY <1>6, <1>8, <1>9, <1>10, <1>11, <1>12, <1>13 DEF IInv

(* What a recovery, or none, makes of the registers.                       *)
Rested(h, g) ==
  g = h \/ g = IdleBus \/ (h.act /\ g = Held(h))

(* The timeout replaces a result only of an attempt that failed.           *)
LEMMA ConcludeKeeps == ASSUME IInv, NEW c \in Ctx, Conclude(c) PROVE IInv'
<1>1. /\ dev \in DevSet /\ hw \in HwSet /\ irq \in [on : BOOLEAN, pending : BOOLEAN]
      /\ xfer \in [Ctx -> LevelSet]
  BY Registers
<1>2. /\ xfer[c].pc = "after" /\ Top(c) /\ dev' = dev /\ irq' = irq
  BY DEF Conclude, Turn, Top
<1>3. dev.own = Nobody
  <2> SUFFICES ASSUME dev.own # Nobody PROVE FALSE
    OBVIOUS
  <2>1. dev.own > c
    BY <1>2 DEF IInv, StillInv
  <2>2. dev.own \in Ctx /\ xfer[dev.own].pc # "idle"
    BY DEF IInv, DevInv, Pointing
  <2> QED
    BY <1>2, <2>1, <2>2 DEF Top
<1>3a. hw.act \/ hw.wr = NoByte
  BY DEF IInv, BusInv
<1>4. PICK ret \in Int :
        /\ xfer' = [xfer EXCEPT ![c].pc = "off", ![c].ret = ret]
        /\ ret = xfer[c].ret \/ (dev.timedOut /\ ret = ERR_TIMED_OUT)
        /\ ~xfer[c].late /\ dev.timedOut => ret = ERR_TIMED_OUT
        /\ Rested(hw, hw')
        /\ xfer[c].late /\ hw.act => hw' = IdleBus \/ hw' = Held(hw)
  <2>1. PICK r1 \in IF xfer[c].late THEN Recoveries(hw) ELSE {[h |-> hw, ok |-> TRUE]} :
          LET ret == IF r1.ok /\ dev.timedOut THEN ERR_TIMED_OUT ELSE xfer[c].ret
          IN \E r2 \in IF r1.ok /\ ret < 0 THEN Recoveries(r1.h) ELSE {r1} :
               /\ hw' = r2.h
               /\ xfer' = [xfer EXCEPT ![c].pc = "off", ![c].ret = ret]
    BY DEF Conclude
  <2> DEFINE res == IF r1.ok /\ dev.timedOut THEN ERR_TIMED_OUT ELSE xfer[c].ret
  <2>2. PICK r2 \in IF r1.ok /\ res < 0 THEN Recoveries(r1.h) ELSE {r1} :
          /\ hw' = r2.h
          /\ xfer' = [xfer EXCEPT ![c].pc = "off", ![c].ret = res]
    BY <2>1
  <2>3. /\ \/ r1.ok /\ (r1.h = hw \/ r1.h = IdleBus)
           \/ ~r1.ok /\ xfer[c].late /\ r1.h = Held(hw) /\ hw.act
        /\ xfer[c].late /\ hw.act => r1.h = IdleBus \/ ~r1.ok
    <3>1. CASE xfer[c].late
      <4>1. r1 \in Recoveries(hw)
        BY <2>1, <3>1
      <4> QED
        BY <1>3a, <3>1, <4>1, Recovered
    <3>2. CASE ~xfer[c].late
      <4>1. r1 = [h |-> hw, ok |-> TRUE]
        BY <2>1, <3>2
      <4> QED
        BY <3>2, <4>1
    <3> QED
      BY <3>1, <3>2
  <2>4. res \in Int
    BY <1>1 DEF LevelSet, ERR_TIMED_OUT
  <2>5. Rested(hw, hw') /\ (xfer[c].late /\ hw.act => hw' = IdleBus \/ hw' = Held(hw))
    <3>1. CASE r2 = r1
      BY <2>2, <2>3, <3>1 DEF Rested
    <3>2. CASE r1.ok /\ r2 \in Recoveries(r1.h)
      <4>1. \/ r2.h = r1.h \/ r2.h = IdleBus
            \/ ~(~r1.h.act /\ r1.h.wr = NoByte) /\ r2.h = Held(r1.h)
        BY <3>2, Recovered
      <4>2. CASE r1.h = IdleBus
        <5>1. r2.h = IdleBus
          BY <4>1, <4>2, BusIs
        <5> QED
          BY <2>2, <5>1 DEF Rested
      <4>3. CASE r1.h = hw
        <5>1. xfer[c].late /\ hw.act => hw = IdleBus
          BY <2>3, <3>2, <4>3
        <5>2. ~(xfer[c].late /\ hw.act)
          BY <5>1, BusIs
        <5> QED
          BY <1>3a, <2>2, <4>1, <4>3, <5>2 DEF Rested
      <4> QED
        BY <2>3, <3>2, <4>2, <4>3
    <3> QED
      BY <2>2, <3>1, <3>2
  <2>6. res = xfer[c].ret \/ (dev.timedOut /\ res = ERR_TIMED_OUT)
    OBVIOUS
  <2>7. ~xfer[c].late /\ dev.timedOut => res = ERR_TIMED_OUT
    BY <2>3
  <2> QED
    BY <2>2, <2>4, <2>5, <2>6, <2>7
<1>5. /\ xfer' \in [Ctx -> LevelSet] /\ \A j \in Ctx : j # c => xfer'[j] = xfer[j]
      /\ xfer'[c].pc = "off" /\ xfer'[c].msgs = xfer[c].msgs /\ xfer'[c].cut = xfer[c].cut
      /\ xfer'[c].moved = xfer[c].moved /\ xfer'[c].late = xfer[c].late
      /\ xfer'[c].ret = ret
  <2> DEFINE x == [xfer[c] EXCEPT !.pc = "off", !.ret = ret]
  <2>1. xfer' = [xfer EXCEPT ![c] = x]
    BY <1>4
  <2>2. xfer[c] \in LevelSet
    BY <1>1
  <2>3. x \in LevelSet
    BY <1>4, <2>2, Zenon DEF LevelSet, Pcs
  <2>4. /\ x.pc = "off" /\ x.msgs = xfer[c].msgs /\ x.cut = xfer[c].cut /\ x.moved = xfer[c].moved
        /\ x.late = xfer[c].late /\ x.ret = ret
    BY <2>2 DEF LevelSet
  <2> HIDE DEF x
  <2> QED
    BY <1>1, <2>1, <2>3, <2>4
<1>6. Moves(c)
  BY <1>1, <1>2, <1>5 DEF Moves
<1>7. /\ CallsInv' /\ CutsInv'
      /\ \A j \in Ctx : Top(j)' <=> Top(j)
      /\ \A j \in Ctx : j # c /\ Top(j) => xfer[j].pc = "idle"
      /\ \A j \in Ctx : j # c /\ xfer'[j].cut = "none" => xfer'[j].pc = "idle"
      /\ Num(c)' = Num(c) /\ Total(c)' = Total(c)
  BY <1>6, MoveFrame
<1>10. /\ hw' \in HwSet
       /\ \/ hw' = hw
          \/ /\ ~hw'.act /\ hw'.wr = NoByte /\ hw'.wr.kind = "none" /\ ~hw'.reading /\ ~hw'.rd
             /\ ~hw'.stop /\ ~hw'.err /\ ~hw'.stuck
          \/ /\ hw.act /\ hw'.act = hw.act /\ hw'.wr = hw.wr /\ hw'.reading = hw.reading /\ ~hw'.rd
             /\ hw'.stop = hw.stop /\ hw'.err = hw.err /\ hw'.stuck
  BY <1>1, <1>4, BusIs DEF Rested
<1>11. TypeOK'
  BY <1>1, <1>2, <1>5, <1>10, Types DEF TypeOK, DevSet, HwSet, ByteSet, LevelSet
<1>12. DevInv'
  BY <1>2, <1>3 DEF DevInv
<1>13. BusInv'
  BY <1>2, <1>3, <1>10 DEF IInv, BusInv, Served
<1>14. LooseInv' /\ OwnInv' /\ RestInv'
  <2>1. ~Loose'
    <3>1. Loose => xfer[c].late /\ hw.act
      BY <1>2, LoneLoser DEF Losing
    <3>2. CASE hw' = hw
      <4>1. ~Loose
        BY <1>1, <1>4, <3>1, <3>2, BusIs DEF Loose
      <4> QED
        BY <1>2, <3>2, <4>1 DEF Loose, Served
    <3>3. CASE hw' # hw
      BY <1>10, <3>3 DEF Loose
    <3> QED
      BY <3>2, <3>3
  <2>2. Stopped /\ ~hw.err
    BY <1>2 DEF IInv, RestInv
  <2>3. Stopped' /\ ~hw'.err
    BY <1>10, <2>2 DEF Stopped
  <2>4. RestInv'
    BY <1>6, <2>3, MoveRests
  <2>5. OwnInv'
    BY <1>5, <1>6, MoveOwns DEF Pointing
  <2> QED
    BY <2>1, <2>4, <2>5 DEF LooseInv
<1>15. StillInv'
  BY <1>2, <1>3, <1>5, <1>7 DEF StillInv, Setting
<1>16. CalmInv'
  <2>1. ASSUME xfer[c].cut = "none", ~xfer[c].late PROVE (Succeeded(c) <=> xfer[c].moved = Total(c))'
    <3>1. Num(c) \in Nat /\ Total(c) \in Nat /\ xfer[c].moved \in Nat
      <4>1. xfer[c].msgs \in Messages
        BY <1>2 DEF IInv, CallsInv
      <4>2. xfer[c].moved \in Nat
        BY <1>1 DEF LevelSet
      <4> DEFINE m == xfer[c].msgs
      <4>3. m \in Messages /\ Num(c) = Len(m) /\ Total(c) = TotalBytes(m)
        BY <4>1 DEF Num, Total
      <4> HIDE DEF m
      <4>4. Len(m) \in {1, 2} /\ m[1].len \in Nat /\ (Len(m) = 2 => m[2].len \in Nat)
        BY <4>3, Lists
      <4>5. Len(m) \in Nat /\ TotalBytes(m) \in Nat
        BY <4>4 DEF TotalBytes
      <4> QED
        BY <4>2, <4>3, <4>5
    <3>2. Judged(c, xfer[c].ret)
      BY <1>2, <2>1 DEF IInv, CalmInv
    <3>3. CASE xfer[c].ret = Num(c) /\ ~dev.timedOut /\ xfer[c].moved = Total(c)
      BY <1>4, <1>5, <1>7, <3>3 DEF Succeeded
    <3>4. CASE xfer[c].ret = ERROR /\ xfer[c].moved < Total(c)
      <4>1. ret < 0
        BY <1>4, <3>4 DEF ERROR, ERR_TIMED_OUT
      <4> QED
        BY <1>5, <1>7, <3>1, <3>4, <4>1 DEF Succeeded
    <3> QED
      BY <3>2, <3>3, <3>4 DEF Judged
  <2> QED
    BY <1>5, <1>7, <2>1 DEF CalmInv, Pointing, Setting
<1> QED
  BY <1>7, <1>11, <1>12, <1>13, <1>14, <1>15, <1>16 DEF IInv

(* What a level between the check of dev.msg and its use finds.             *)
LEMMA AtUse ==
  ASSUME IInv, NEW c \in Ctx, xfer[c].pc = "use", Top(c)
  PROVE  /\ ~hw.err /\ ~Loose
         /\ dev.own = Nobody => xfer[c].cut = "use" /\ ~irq.on
         /\ dev.own # Nobody =>
              /\ dev.own = c /\ dev.idx = 1 /\ dev.rem = Num(c) /\ dev.pos = -1
              /\ Placed(dev) /\ dev.ret = Num(c) /\ ~dev.needFlush
              /\ Msg(dev) = xfer[c].msgs[1] /\ dev.cnt = xfer[c].msgs[1].len
              /\ irq.on => Still /\ ~hw.act
<1>1. ~hw.err
  BY DEF IInv, RestInv, Setting
<1>2. ~Loose
  BY LoneLoser DEF Losing
<1>3. dev.own = Nobody => xfer[c].cut = "use" /\ ~irq.on
  <2> SUFFICES ASSUME dev.own = Nobody PROVE xfer[c].cut = "use" /\ ~irq.on
    OBVIOUS
  <2>1. dev.own # c
    BY DEF Nobody, Ctx
  <2>2. xfer[c].cut = "use"
    BY <2>1 DEF IInv, OwnInv, Pointing
  <2> QED
    BY <2>2 DEF IInv, CutsInv, CutAt
<1>4. ASSUME dev.own # Nobody
      PROVE  /\ dev.own = c /\ dev.idx = 1 /\ dev.rem = Num(c) /\ dev.pos = -1
             /\ Placed(dev) /\ dev.ret = Num(c) /\ ~dev.needFlush
             /\ Msg(dev) = xfer[c].msgs[1] /\ dev.cnt = xfer[c].msgs[1].len
             /\ irq.on => Still /\ ~hw.act
  <2>1. dev.own = c
    BY <1>4, OwnerOf DEF Pointing
  <2>2. dev.idx = 1 /\ dev.pos = -1 /\ (irq.on => Still /\ ~hw.act)
    BY <1>4, <2>1 DEF IInv, DevInv, Setting
  <2>3. dev.idx + dev.rem = Num(c) + 1 /\ dev.ret = Num(c) /\ ~dev.needFlush /\ Placed(dev)
    BY <1>4, <2>1 DEF IInv, DevInv
  <2>4. dev.rem \in Int /\ Num(c) \in Int
    <3>1. xfer[c].msgs \in Messages
      BY DEF IInv, CallsInv
    <3> QED
      BY <3>1, Registers, Lists DEF DevSet, Num
  <2>5. Msg(dev) = xfer[c].msgs[1]
    BY <2>1, <2>2 DEF Msg
  <2>6. dev.rem = Num(c)
    BY <2>2, <2>3, <2>4
  <2>7. dev.cnt = xfer[c].msgs[1].len
    BY <2>2, <2>3, <2>5 DEF Placed
  <2> QED
    BY <2>1, <2>2, <2>3, <2>5, <2>6, <2>7
<1> QED
  BY <1>1, <1>2, <1>3, <1>4

(* The outcomes of the direct call: nothing, or an address sent.            *)
LEMMA UseServes ==
  ASSUME IInv, NEW c \in Ctx, xfer[c].pc = "use", Top(c), dev.own # Nobody,
         NEW o \in Serve(dev, hw)
  PROVE  /\ o.d \in DevSet /\ o.h \in HwSet /\ o.d.own = dev.own
         /\ o.d.idx >= 1 /\ o.d.rem >= 1 /\ o.d.idx + o.d.rem = Num(c) + 1 /\ Placed(o.d)
         /\ o.got = FALSE /\ ~o.h.err
         /\ \/ o.d = dev /\ o.h = hw /\ ~irq.on
            \/ Addresses(dev, hw, o)
<1>1. dev \in DevSet /\ hw \in HwSet /\ irq \in [on : BOOLEAN, pending : BOOLEAN]
  BY Registers
<1>2. /\ ~hw.err /\ dev.own = c /\ dev.idx = 1 /\ dev.rem = Num(c) /\ dev.pos = -1
      /\ Placed(dev) /\ (irq.on => Still /\ ~hw.act)
  BY AtUse
<1>3. xfer[c].msgs \in Messages /\ Num(c) \in {1, 2}
  BY Lists DEF IInv, CallsInv, Num
<1>4. ~hw.rd /\ ~(dev.pos >= 0)
  BY <1>2 DEF IInv, BusInv
<1>5. Ready(dev, hw)
  BY <1>1, <1>2, <1>3, <1>4 DEF Ready
<1>6. /\ o.d \in DevSet /\ o.h \in HwSet /\ o.d.own = dev.own
      /\ o.d.idx >= 1 /\ o.d.rem >= 1 /\ o.d.idx + o.d.rem = dev.idx + dev.rem
  BY <1>5, ServeTyped
<1>7. Placed(o.d)
  BY <1>5, ServePlaced
<1>8. o.d.idx + o.d.rem = Num(c) + 1
  BY <1>2, <1>3, <1>6
<1>9. Waits(dev, hw, o) \/ Addresses(dev, hw, o)
  BY <1>2, <1>4, <1>5, ServeCases DEF Ignores, Refuses, Sends, SendsOn, Stores, Flushes
<1>10. CASE Waits(dev, hw, o)
  <2>1. hw.wr # NoByte
    BY <1>4, <1>10 DEF Waits
  <2>2. o.d = dev /\ o.h = hw /\ o.got = FALSE
    BY <1>10, <2>1 DEF Waits
  <2>3. ~irq.on
    BY <1>2, <2>1 DEF IInv, BusInv
  <2> QED
    BY <1>2, <1>6, <1>7, <1>8, <2>2, <2>3
<1>11. CASE Addresses(dev, hw, o)
  <2>1. o.got = FALSE /\ ~o.h.err
    BY <1>1, <1>2, <1>11 DEF Addresses, HwSet
  <2> QED
    BY <1>6, <1>7, <1>8, <1>11, <2>1
<1> QED
  BY <1>9, <1>10, <1>11

(* The outcomes of the direct call when dev.msg was cleared after its check. *)
LEMMA UseLoses ==
  ASSUME IInv, NEW c \in Ctx, xfer[c].pc = "use", Top(c), dev.own = Nobody,
         NEW o \in LostUses(dev, hw)
  PROVE  /\ o.d \in DevSet /\ o.h \in HwSet /\ o.d.own = Nobody
         /\ o.got = FALSE /\ ~o.h.err
         /\ \/ o.h = hw
            \/ /\ hw.wr = NoByte /\ o.h.act /\ o.h.wr.kind = "addr" /\ o.h.wr # NoByte
               /\ o.h.reading = hw.reading /\ o.h.rd = hw.rd /\ o.h.stop = hw.stop
               /\ o.h.stuck = hw.stuck
<1>1. dev \in DevSet /\ hw \in HwSet /\ ~hw.err
  BY Registers, AtUse
<1> DEFINE timedOut == dev.timedOut /\ dev.needFlush
           quiet == [dev EXCEPT !.timedOut = timedOut]
           moved == [dev EXCEPT !.pos = @ + 1]
           sent(b) == IF hw.wr = NoByte THEN [hw EXCEPT !.act = TRUE, !.wr = b] ELSE hw
<1>2. quiet \in DevSet /\ quiet.own = Nobody
  <2>1. timedOut \in BOOLEAN
    BY <1>1 DEF DevSet
  <2> HIDE DEF timedOut
  <2>2. quiet \in DevSet
    BY <1>1, <2>1, Zenon DEF DevSet
  <2> QED
    BY <1>1, <2>2 DEF DevSet
<1>3. moved \in DevSet /\ moved.own = Nobody
  <2>1. dev.pos + 1 \in Int
    BY <1>1 DEF DevSet
  <2>2. moved \in DevSet
    BY <1>1, <2>1, Zenon DEF DevSet
  <2> QED
    BY <1>1, <2>2 DEF DevSet
<1>4. ASSUME NEW b \in Strays
      PROVE  /\ sent(b) \in HwSet /\ ~sent(b).err
             /\ \/ sent(b) = hw
                \/ /\ hw.wr = NoByte /\ sent(b).act /\ sent(b).wr.kind = "addr" /\ sent(b).wr # NoByte
                   /\ sent(b).reading = hw.reading /\ sent(b).rd = hw.rd
                   /\ sent(b).stop = hw.stop /\ sent(b).stuck = hw.stuck
  <2> DEFINE s == [hw EXCEPT !.act = TRUE, !.wr = b]
  <2>1. b \in ByteSet /\ b.kind = "addr"
    BY DEF Strays, ByteSet
  <2>2. b # NoByte
    BY <2>1, Bytes
  <2>3. s \in HwSet
    BY <1>1, <2>1, Zenon DEF HwSet
  <2>4. /\ ~s.err /\ s.act /\ s.wr = b /\ s.reading = hw.reading /\ s.rd = hw.rd
        /\ s.stop = hw.stop /\ s.stuck = hw.stuck
    BY <1>1, <2>3 DEF HwSet
  <2>5. sent(b) = IF hw.wr = NoByte THEN s ELSE hw
    OBVIOUS
  <2> HIDE DEF s, sent
  <2>6. CASE hw.wr = NoByte
    BY <2>1, <2>2, <2>3, <2>4, <2>5, <2>6
  <2>7. CASE hw.wr # NoByte
    BY <1>1, <2>5, <2>7
  <2> QED
    BY <2>6, <2>7
<1>5. LostUses(dev, hw) =
        {[d |-> quiet, h |-> hw, got |-> FALSE]}
          \cup {[d |-> moved, h |-> sent(b), got |-> FALSE] : b \in Strays}
  BY DEF LostUses
<1> HIDE DEF quiet, moved, sent
<1>6. CASE o = [d |-> quiet, h |-> hw, got |-> FALSE]
  BY <1>1, <1>2, <1>6
<1>7. ASSUME NEW b \in Strays, o = [d |-> moved, h |-> sent(b), got |-> FALSE]
      PROVE  /\ o.d \in DevSet /\ o.h \in HwSet /\ o.d.own = Nobody
             /\ o.got = FALSE /\ ~o.h.err
             /\ \/ o.h = hw
                \/ /\ hw.wr = NoByte /\ o.h.act /\ o.h.wr.kind = "addr" /\ o.h.wr # NoByte
                   /\ o.h.reading = hw.reading /\ o.h.rd = hw.rd /\ o.h.stop = hw.stop
                   /\ o.h.stuck = hw.stuck
  <2>1. o.d = moved /\ o.got = FALSE /\ o.h = sent(b)
    BY <1>7
  <2> QED
    BY <1>3, <1>4, <2>1
<1> QED
  BY <1>5, <1>6, <1>7

(* The direct call of the handler sends the address, unless something is on *)
(* the bus; or it finds dev.msg cleared, and may send an address of nobody. *)
LEMMA UseKeeps == ASSUME IInv, NEW c \in Ctx, Use(c) PROVE IInv'
<1>1. /\ dev \in DevSet /\ hw \in HwSet /\ irq \in [on : BOOLEAN, pending : BOOLEAN]
      /\ xfer \in [Ctx -> LevelSet] /\ hw.wr \in ByteSet
      /\ (hw.wr = NoByte <=> hw.wr.kind = "none")
  BY Registers
<1>2. xfer[c].pc = "use" /\ Top(c) /\ ~(irq.on /\ irq.pending)
  BY DEF Use, Turn, Top
<1>3. xfer[c].msgs \in Messages /\ Num(c) \in {1, 2} /\ xfer[c].msgs[1].len \in Nat \ {0}
  BY <1>2, Lists DEF IInv, CallsInv, Num
<1>4. PICK o \in IF dev.own = Nobody THEN LostUses(dev, hw) ELSE Serve(dev, hw) :
        /\ dev' = o.d /\ hw' = o.h
        /\ xfer' = Credit([xfer EXCEPT ![c].pc = "wait"], c, o.got)
        /\ irq' = [irq EXCEPT !.pending = @ \/ o.h.err]
  BY DEF Use
<1>5. o.d \in DevSet /\ o.h \in HwSet /\ o.d.own = dev.own /\ o.got = FALSE /\ ~o.h.err
  <2>1. CASE dev.own = Nobody
    BY <1>2, <1>4, <2>1, UseLoses
  <2>2. CASE dev.own # Nobody
    BY <1>2, <1>4, <2>2, UseServes
  <2> QED
    BY <2>1, <2>2
<1>6. /\ dev' = o.d /\ hw' = o.h /\ dev'.own = dev.own /\ ~hw'.err
      /\ dev' \in DevSet /\ hw' \in HwSet
  BY <1>4, <1>5
<1>7. irq'.on = irq.on /\ irq'.pending = irq.pending /\ irq' \in [on : BOOLEAN, pending : BOOLEAN]
  <2>1. irq' = [irq EXCEPT !.pending = irq.pending \/ o.h.err] /\ ~o.h.err
    BY <1>4, <1>5
  <2>2. (irq.pending \/ o.h.err) <=> irq.pending
    BY <2>1
  <2> DEFINE p == irq.pending \/ o.h.err
  <2>3. irq' = [irq EXCEPT !.pending = p] /\ p \in BOOLEAN
    BY <2>1
  <2> HIDE DEF p
  <2>4. irq' \in [on : BOOLEAN, pending : BOOLEAN] /\ irq'.on = irq.on
    BY <1>1, <2>3, Zenon
  <2>5. irq'.pending <=> irq.pending
    BY <1>1, <2>2, <2>3 DEF p
  <2> QED
    BY <1>1, <2>4, <2>5
<1>8. /\ xfer' \in [Ctx -> LevelSet] /\ \A j \in Ctx : j # c => xfer'[j] = xfer[j]
      /\ xfer'[c].pc = "wait" /\ xfer'[c].msgs = xfer[c].msgs
      /\ xfer'[c].cut = xfer[c].cut /\ xfer'[c].moved = xfer[c].moved
  <2> DEFINE x == [xfer[c] EXCEPT !.pc = "wait"]
  <2>1. xfer' = [xfer EXCEPT ![c] = x]
    BY <1>4, <1>5 DEF Credit
  <2>2. xfer[c] \in LevelSet
    BY <1>1
  <2>3. x \in LevelSet
    BY <2>2, Zenon DEF LevelSet, Pcs
  <2>4. x.pc = "wait" /\ x.msgs = xfer[c].msgs /\ x.cut = xfer[c].cut /\ x.moved = xfer[c].moved
    BY <2>2 DEF LevelSet
  <2> HIDE DEF x
  <2> QED
    BY <1>1, <2>1, <2>3, <2>4
<1>9. Moves(c)
  BY <1>1, <1>2, <1>7, <1>8 DEF Moves
<1>10. /\ CallsInv' /\ CutsInv'
       /\ \A j \in Ctx : Top(j)' <=> Top(j)
       /\ \A j \in Ctx : j # c /\ Top(j) => xfer[j].pc = "idle"
       /\ \A j \in Ctx : j # c /\ xfer'[j].cut = "none" => xfer'[j].pc = "idle"
       /\ Num(c)' = Num(c) /\ Total(c)' = Total(c)
  BY <1>9, MoveFrame
<1>11. TypeOK'
  BY <1>6, <1>7, <1>8, Types DEF TypeOK, DevSet, HwSet, ByteSet, LevelSet
<1>12. ~hw.err /\ ~Loose
  BY <1>2, AtUse
<1>13. RestInv' /\ OwnInv'
  <2>1. RestInv'
    BY <1>8, <1>9, MoveRests DEF Setting
  <2>2. dev.own # c => xfer[c].cut \in Pointing
    BY <1>2 DEF IInv, OwnInv, Pointing
  <2> QED
    BY <1>6, <1>8, <1>9, <2>1, <2>2, MoveOwns
<1>14. StillInv'
  <2>1. \A j \in Ctx : j # c /\ xfer[j].pc = "after" /\ dev.own # Nobody => dev.own > j
    BY DEF IInv, StillInv
  <2> QED
    BY <1>6, <1>8, <1>10, <2>1 DEF StillInv, Setting
(* What each outcome leaves on the bus.                                    *)
<1>15. CASE dev.own = Nobody
  <2>1. xfer[c].cut = "use" /\ ~irq.on /\ ~Served /\ ~Served'
    BY <1>2, <1>6, <1>15, AtUse DEF Served
  <2>2. \/ hw' = hw
        \/ /\ hw.wr = NoByte /\ hw'.act /\ hw'.wr.kind = "addr" /\ hw'.wr # NoByte
           /\ hw'.reading = hw.reading /\ hw'.rd = hw.rd /\ hw'.stop = hw.stop
           /\ hw'.stuck = hw.stuck
    BY <1>2, <1>4, <1>6, <1>15, UseLoses
  <2>3. ~hw.rd /\ (hw.stuck \/ ~hw.reading) /\ (hw.stop => hw.stuck)
    <3>1. ~hw.rd /\ (hw.stuck \/ ~hw.reading)
      BY <1>12, <2>1 DEF Loose
    <3> QED
      BY <3>1 DEF IInv, BusInv
  <2>4. DevInv'
    BY <1>6, <1>15 DEF DevInv
  <2>5. BusInv'
    <3>1. CASE hw' = hw
      BY <1>6, <1>15, <2>1, <3>1 DEF IInv, BusInv
    <3>2. CASE hw' # hw
      BY <1>6, <1>15, <2>1, <2>2, <2>3, <3>2 DEF IInv, BusInv
    <3> QED
      BY <3>1, <3>2
  <2>6. LooseInv'
    <3>1. CASE hw' = hw
      <4>1. ~Loose'
        BY <1>12, <2>1, <3>1 DEF Loose
      <4> QED
        BY <4>1 DEF LooseInv
    <3>2. CASE hw' # hw
      <4>1. Losing(c)'
        BY <1>2, <1>6, <1>8, <1>10, <1>15, <2>1 DEF Losing, Early, Setting
      <4>2. Loose' => hw'.act /\ ~hw'.stop
        BY <2>2, <2>3, <3>2 DEF Loose
      <4> QED
        BY <4>1, <4>2 DEF LooseInv
    <3> QED
      BY <3>1, <3>2
  <2>7. CalmInv'
    BY <1>8, <1>10, <2>1 DEF CalmInv, Pointing, Setting
  <2> QED
    BY <1>10, <1>11, <1>13, <1>14, <2>4, <2>5, <2>6, <2>7 DEF IInv
<1>16. CASE dev.own # Nobody
  <2>1. /\ dev.own = c /\ dev.idx = 1 /\ dev.rem = Num(c) /\ dev.pos = -1
        /\ dev.ret = Num(c) /\ ~dev.needFlush
        /\ Msg(dev) = xfer[c].msgs[1] /\ dev.cnt = xfer[c].msgs[1].len
    BY <1>2, <1>16, AtUse
  <2>2. /\ dev'.idx >= 1 /\ dev'.rem >= 1 /\ dev'.idx + dev'.rem = Num(c) + 1 /\ Placed(o.d)
        /\ \/ dev' = dev /\ hw' = hw /\ ~irq.on
           \/ Addresses(dev, hw, o)
    BY <1>2, <1>4, <1>6, <1>16, UseServes
  <2>3. ~hw.rd /\ (~hw.stuck => ~hw.reading /\ ~hw.stop /\ ~(hw.wr.kind = "addr" /\ hw.wr.rd))
    <3>1. dev.pos < 0 /\ ~(dev.pos >= 0)
      BY <2>1
    <3> QED
      BY <1>16, <3>1 DEF IInv, BusInv
  <2>4. DevInv'
    <3>1. Placed(dev)' <=> Placed(o.d)
      BY <1>5, <1>6, <1>8, <2>1 DEF Placed, Msg
    <3>2. \A j \in Ctx : j > c => xfer'[j].pc \notin Pointing
      BY <1>2, <1>8 DEF Top, Pointing, Ctx
    <3> QED
      BY <1>6, <1>8, <1>10, <2>1, <2>2, <3>1, <3>2 DEF DevInv, Pointing, Setting
  <2>5. CASE dev' = dev /\ hw' = hw /\ ~irq.on
    <3>1. Msg(dev)' = Msg(dev)
      BY <1>8, <2>1, <2>5 DEF Msg
    <3>2. BusInv'
      BY <1>7, <2>5, <3>1 DEF IInv, BusInv, Served, LastByte
    <3>3. ~Loose'
      BY <1>7, <1>12, <2>5 DEF Loose, Served
    <3>4. xfer[c].cut # "none"
      BY <1>2, <2>5 DEF IInv, CutsInv, CutAt
    <3>5. CalmInv'
      BY <1>8, <1>10, <3>4 DEF CalmInv, Pointing, Setting
    <3> QED
      BY <1>10, <1>11, <1>13, <1>14, <2>4, <3>2, <3>3, <3>5 DEF IInv, LooseInv
  <2>6. CASE Addresses(dev, hw, o)
    <3>1. /\ hw.wr = NoByte
          /\ o.h = [hw EXCEPT !.act = TRUE, !.wr = Byte("addr", Msg(dev).rd, FALSE, dev.own)]
          /\ o.d = [dev EXCEPT !.pos = 0]
      BY <2>6 DEF Addresses
    <3>2. /\ hw'.act = TRUE /\ hw'.reading = hw.reading /\ hw'.rd = hw.rd
          /\ hw'.stop = hw.stop /\ hw'.stuck = hw.stuck
          /\ hw'.wr = Byte("addr", xfer[c].msgs[1].rd, FALSE, dev.own)
      BY <1>1, <1>6, <2>1, <3>1 DEF HwSet
    <3>3. hw'.wr.kind = "addr" /\ hw'.wr.rd = xfer[c].msgs[1].rd /\ ~hw'.wr.last /\ hw'.wr # NoByte
      <4>1. hw'.wr.kind = "addr" /\ hw'.wr.rd = xfer[c].msgs[1].rd /\ ~hw'.wr.last
        BY <3>2 DEF Byte
      <4> QED
        BY <4>1, Bytes
    <3>4. /\ dev'.pos = 0 /\ dev'.idx = 1 /\ dev'.cnt = xfer[c].msgs[1].len /\ dev'.ret = Num(c)
          /\ ~dev'.needFlush
      BY <1>1, <1>6, <2>1, <3>1 DEF DevSet
    <3>5. Msg(dev)' = xfer[c].msgs[1] /\ ~(dev'.pos < 0)
      BY <1>6, <1>8, <2>1, <3>4 DEF Msg
    <3>6. ~hw'.rd /\ (~hw'.stuck => ~hw'.reading /\ ~hw'.stop)
      BY <2>3, <3>2
    <3>7. /\ hw'.stop => hw'.act /\ hw'.reading /\ ~hw'.rd
          /\ hw'.stuck => hw'.act
      BY <3>2, <3>6 DEF IInv, BusInv
    <3>8. BusInv'
      BY <1>6, <1>16, <2>1, <3>2, <3>3, <3>5, <3>6, <3>7 DEF BusInv
    <3>9. LooseInv'
      <4> SUFFICES ASSUME Loose' PROVE hw'.act /\ ~hw'.stop /\ Losing(c)'
        BY DEF LooseInv
      <4>1. ~irq.on /\ ~hw'.stuck
        BY <1>6, <1>7, <1>16, <3>6 DEF Loose, Served
      <4>2. xfer[c].cut \in Early
        BY <1>2, <4>1 DEF IInv, CutsInv, CutAt
      <4> QED
        BY <1>2, <1>6, <1>8, <1>10, <2>1, <3>2, <3>6, <4>1, <4>2 DEF Losing
    <3>10. xfer[c].cut = "none" => Going(c)'
      <4> SUFFICES ASSUME xfer[c].cut = "none" PROVE Going(c)'
        OBVIOUS
      <4>1. xfer'[c].moved = 0
        BY <1>2, <1>8 DEF IInv, CalmInv, Setting
      <4>2. InFlight' = 0 /\ Before' = 0
        BY <3>3, <3>4 DEF InFlight, Before
      <4>3. dev'.cnt > 0 /\ ~(dev'.cnt = 0)
        BY <1>3, <3>4
      <4>4. xfer'[c].moved + InFlight' = Before' + 0
        BY <4>1, <4>2
      <4> QED
        BY <1>6, <1>10, <3>2, <3>3, <3>4, <3>5, <4>3, <4>4 DEF Going
    <3>11. CalmInv'
      BY <1>6, <1>8, <1>10, <2>1, <3>10 DEF CalmInv, Pointing, Setting
    <3> QED
      BY <1>10, <1>11, <1>13, <1>14, <2>4, <3>8, <3>9, <3>11 DEF IInv
  <2> QED
    BY <2>2, <2>5, <2>6
<1> QED
  BY <1>15, <1>16

(* A level outside the driver.                                             *)
LEMMA IdleIs == Idle \in LevelSet /\ Idle.pc = "idle" /\ Idle.cut = "none"
  BY DEF Idle, LevelSet, Pcs

(* The interrupt is disabled: the lower levels in the driver have all      *)
(* been preempted.                                                         *)
LEMMA DisableKeeps == ASSUME IInv, NEW c \in Ctx, Disable(c) PROVE IInv'
<1>1. /\ dev \in DevSet /\ hw \in HwSet /\ irq \in [on : BOOLEAN, pending : BOOLEAN]
      /\ xfer \in [Ctx -> LevelSet]
  BY Registers
<1>2. /\ xfer[c].pc = "off" /\ Top(c) /\ dev' = dev /\ hw' = hw
      /\ ~irq'.on /\ irq'.pending = irq.pending /\ irq' \in [on : BOOLEAN, pending : BOOLEAN]
  BY <1>1 DEF Disable, Turn, Top
<1>3. /\ xfer' \in [Ctx -> LevelSet] /\ \A j \in Ctx : j # c => xfer'[j] = xfer[j]
      /\ \/ xfer'[c].pc = "idle"
         \/ xfer'[c].pc = "enable" /\ xfer'[c].msgs = xfer[c].msgs
  <2>1. CASE xfer' = [xfer EXCEPT ![c] = Idle]
    BY <1>1, <2>1, IdleIs
  <2>2. CASE xfer' = [xfer EXCEPT ![c].pc = "enable", ![c].tries = @ - 1] /\ xfer[c].tries # 0
    <3> DEFINE x == [xfer[c] EXCEPT !.pc = "enable", !.tries = xfer[c].tries - 1]
    <3>1. xfer' = [xfer EXCEPT ![c] = x]
      BY <2>2
    <3>2. xfer[c] \in LevelSet /\ xfer[c].tries - 1 \in Nat
      BY <1>1, <2>2 DEF LevelSet
    <3>3. x \in LevelSet
      BY <3>2, Zenon DEF LevelSet, Pcs
    <3>4. x.pc = "enable" /\ x.msgs = xfer[c].msgs
      BY <3>2 DEF LevelSet
    <3> HIDE DEF x
    <3> QED
      BY <1>1, <3>1, <3>3, <3>4
  <2> QED
    BY <2>1, <2>2 DEF Disable
<1>4. \A j \in Ctx : j # c /\ xfer[j].pc # "idle" =>
        j < c /\ xfer[j].cut # "none" /\ xfer[j].cut = xfer[j].pc
  BY <1>2, Below
<1>5. dev.own # Nobody =>
        /\ dev.own \in Ctx /\ dev.own # c /\ ~Top(dev.own)
        /\ Msg(dev)' = Msg(dev) /\ Num(dev.own)' = Num(dev.own)
  BY <1>2, <1>3, OwnerOf DEF Pointing, Ctx, Msg, Num
<1>6. Served => Still
  BY <1>2 DEF IInv, StillInv, Served
<1>7. ~Served'
  BY <1>2 DEF Served
<1>8. TypeOK'
  BY <1>1, <1>2, <1>3, Types DEF TypeOK, DevSet, HwSet, ByteSet, LevelSet
<1>9. CallsInv'
  BY <1>2, <1>3 DEF IInv, CallsInv
<1>10. CutsInv'
  <2> SUFFICES ASSUME NEW j \in Ctx PROVE CutAt(j)'
    BY DEF CutsInv
  <2>1. \A k \in Ctx :
          k < j /\ xfer'[j].pc # "idle" /\ xfer'[k].pc # "idle" =>
            xfer'[k].cut # "none" /\ xfer'[k].cut = xfer'[k].pc
    <3> SUFFICES ASSUME NEW k \in Ctx, k < j, xfer'[j].pc # "idle", xfer'[k].pc # "idle"
                 PROVE  xfer'[k].cut # "none" /\ xfer'[k].cut = xfer'[k].pc
      OBVIOUS
    <3>1. k # c
      BY <1>2, <1>3 DEF Top, Ctx
    <3> QED
      BY <1>3, <1>4, <3>1
  <2>2. CASE j = c
    BY <1>3, <2>1, <2>2 DEF CutAt
  <2>3. CASE j # c
    <3>1. xfer'[j] = xfer[j]
      BY <1>3, <2>3
    <3>2. xfer[j].pc # "idle" => xfer[j].cut # "none"
      BY <1>4, <2>3
    <3> QED
      BY <1>2, <2>1, <3>1, <3>2 DEF IInv, CutsInv, CutAt
  <2> QED
    BY <2>2, <2>3
<1>11. DevInv'
  <2> SUFFICES ASSUME dev.own # Nobody
               PROVE  /\ xfer'[dev.own] = xfer[dev.own]
                      /\ xfer[dev.own].pc \in Setting => Still' /\ ~hw'.act
                      /\ xfer[dev.own].pc # "kick" => Placed(dev)'
                      /\ \A j \in Ctx : j > dev.own => xfer'[j].pc \notin Pointing
    BY <1>2, <1>5 DEF IInv, DevInv
  <2>1. xfer'[dev.own] = xfer[dev.own]
    BY <1>3, <1>5
  <2>2. xfer[dev.own].pc \in Setting => Still' /\ ~hw'.act
    BY <1>2, <1>5 DEF IInv, DevInv, Still
  <2>3. xfer[dev.own].pc # "kick" => Placed(dev)'
    BY <1>2, <1>5 DEF IInv, DevInv, Placed
  <2>4. \A j \in Ctx : j > dev.own => xfer'[j].pc \notin Pointing
    BY <1>3 DEF IInv, DevInv, Pointing
  <2> QED
    BY <2>1, <2>2, <2>3, <2>4
<1>12. BusInv'
  <2>1. ~hw.act => ~hw.rd
    BY <1>6 DEF IInv, BusInv, Still
  <2>2. hw.wr.kind = "data" /\ ~hw.stuck => FALSE
    BY <1>6 DEF IInv, BusInv, Still, NoByte
  <2>3. (hw.stop /\ ~hw.stuck) \/ (hw.rd /\ ~hw.reading) => FALSE
    BY <1>6 DEF IInv, BusInv, Still
  <2> QED
    BY <1>2, <1>5, <1>7, <2>1, <2>2, <2>3 DEF IInv, BusInv
<1>13. LooseInv' /\ OwnInv' /\ RestInv'
  <2>1. ~Loose
    BY <1>2, LoneLoser DEF Losing
  <2>2. ~Loose'
    <3>1. NoByte.kind # "addr"
      BY DEF NoByte
    <3> QED
      BY <1>2, <1>6, <2>1, <3>1 DEF Loose, Still
  <2>3. Stopped /\ ~hw.err
    BY <1>2 DEF IInv, RestInv
  <2>4. Stopped' /\ ~hw'.err
    BY <1>2, <2>3 DEF Stopped
  <2> QED
    BY <1>2, <1>3, <2>2, <2>4 DEF IInv, LooseInv, OwnInv, RestInv, Pointing
<1>14. StillInv'
  BY <1>2, <1>3 DEF IInv, StillInv
<1>15. CalmInv'
  <2>1. \A j \in Ctx : j # c /\ xfer'[j].cut = "none" => xfer'[j].pc = "idle"
    BY <1>3, <1>4
  <2> QED
    BY <1>3, <2>1 DEF CalmInv, Pointing, Setting
<1> QED
  BY <1>8, <1>9, <1>10, <1>11, <1>12, <1>13, <1>14, <1>15 DEF IInv

(* What callers ask for.                                                   *)
LEMMA CallLists ==
  ASSUME NEW c \in Ctx, NEW call \in CallsOf(c)
  PROVE  call.msgs \in Messages /\ call.tries \in Nat
<1>1. \/ \E n \in WriteLens : call = [msgs |-> Write(n), tries |-> Retries]
      \/ \E n \in IF c = 1 THEN ReadLens ELSE {1} :
           call = [msgs |-> Write(1) \o Read(n), tries |-> Retries]
      \/ \E n \in IF c = 1 THEN ReadLens ELSE {} : call = [msgs |-> Read(n), tries |-> 0]
  BY DEF CallsOf
<1>2. CASE \E n \in WriteLens : call = [msgs |-> Write(n), tries |-> Retries]
  <2>1. PICK n \in WriteLens : call = [msgs |-> Write(n), tries |-> Retries]
    BY <1>2
  <2>2. call.msgs = Write(n) /\ call.tries = Retries
    BY <2>1
  <2> QED
    BY <2>2, BusAssumption DEF Messages
<1>3. CASE \E n \in IF c = 1 THEN ReadLens ELSE {1} :
             call = [msgs |-> Write(1) \o Read(n), tries |-> Retries]
  <2>1. PICK n \in ReadLens \cup {1} : call = [msgs |-> Write(1) \o Read(n), tries |-> Retries]
    BY <1>3
  <2>2. call.msgs = Write(1) \o Read(n) /\ call.tries = Retries
    BY <2>1
  <2> QED
    BY <2>2, BusAssumption DEF Messages
<1>4. CASE \E n \in IF c = 1 THEN ReadLens ELSE {} : call = [msgs |-> Read(n), tries |-> 0]
  <2>1. PICK n \in ReadLens : c = 1 /\ call = [msgs |-> Read(n), tries |-> 0]
    BY <1>4
  <2> QED
    BY <2>1 DEF Messages
<1> QED
  BY <1>1, <1>2, <1>3, <1>4

(* A call preempts all lower levels in the driver, each at one place       *)
(* only.                                                                   *)
LEMMA CallKeeps == ASSUME IInv, NEW c \in Ctx, Call(c) PROVE IInv'
<1>1. /\ dev \in DevSet /\ hw \in HwSet /\ irq \in [on : BOOLEAN, pending : BOOLEAN]
      /\ xfer \in [Ctx -> LevelSet]
  BY Registers
<1>2. /\ xfer[c].pc = "idle" /\ Top(c) /\ dev' = dev /\ hw' = hw /\ irq' = irq
      /\ \A k \in Ctx : k < c => xfer[k].cut \in {"none", xfer[k].pc}
  BY DEF Call, Turn, Top
<1>3. PICK call \in CallsOf(c) :
        xfer' = [k \in Ctx |->
          IF k = c THEN [Idle EXCEPT !.pc = "enable", !.msgs = call.msgs, !.tries = call.tries]
          ELSE IF xfer[k].pc = "idle" THEN xfer[k]
          ELSE [xfer[k] EXCEPT !.cut = xfer[k].pc, !.calls = @ + 1]]
  BY DEF Call
<1>4. call.msgs \in Messages /\ call.tries \in Nat
  BY CallLists
<1>5. /\ xfer'[c] \in LevelSet /\ xfer'[c].pc = "enable" /\ xfer'[c].msgs = call.msgs
  <2>1. xfer'[c] = [Idle EXCEPT !.pc = "enable", !.msgs = call.msgs, !.tries = call.tries]
    BY <1>3
  <2>2. xfer'[c] \in LevelSet
    BY <1>4, <2>1, IdleIs, Zenon DEF LevelSet, Pcs
  <2> QED
    BY <2>1, <2>2, IdleIs DEF LevelSet
<1>6. ASSUME NEW j \in Ctx, j # c
      PROVE  /\ xfer'[j] \in LevelSet /\ xfer'[j].pc = xfer[j].pc /\ xfer'[j].msgs = xfer[j].msgs
             /\ xfer[j].pc # "idle" => xfer'[j].cut = xfer[j].pc /\ xfer'[j].cut # "none" /\ j < c
  <2>1. CASE xfer[j].pc = "idle"
    BY <1>1, <1>3, <1>6, <2>1
  <2>2. CASE xfer[j].pc # "idle"
    <3>1. xfer'[j] = [xfer[j] EXCEPT !.cut = xfer[j].pc, !.calls = xfer[j].calls + 1]
      BY <1>3, <1>6, <2>2
    <3>2. xfer[j] \in LevelSet /\ xfer[j].pc \in Pcs /\ xfer[j].pc # "none" /\ xfer[j].calls + 1 \in Nat
      BY <1>1 DEF LevelSet
    <3>3. xfer'[j] \in LevelSet
      BY <3>1, <3>2, Zenon DEF LevelSet
    <3>4. ~(j > c)
      BY <1>2, <2>2 DEF Top
    <3> QED
      BY <1>6, <3>1, <3>2, <3>3, <3>4 DEF LevelSet, Ctx
  <2> QED
    BY <2>1, <2>2
<1>7. xfer' \in [Ctx -> LevelSet]
  <2>1. xfer' = [k \in Ctx |-> xfer'[k]]
    BY <1>3
  <2>2. \A k \in Ctx : xfer'[k] \in LevelSet
    BY <1>5, <1>6
  <2> QED
    BY <2>1, <2>2, Zenon
<1>8. \A j \in Ctx : Top(j)' => j = c \/ xfer'[j].pc = "idle"
  <2> SUFFICES ASSUME NEW j \in Ctx, j # c, xfer'[j].pc # "idle" PROVE ~Top(j)'
    OBVIOUS
  <2>1. j < c
    BY <1>6
  <2>2. c > j
    BY <2>1 DEF Ctx
  <2> QED
    BY <1>5, <2>2 DEF Top
<1>9. dev.own # Nobody =>
        /\ dev.own \in Ctx /\ dev.own < c /\ xfer[dev.own].pc \in Pointing
        /\ Msg(dev)' = Msg(dev) /\ Num(dev.own)' = Num(dev.own) /\ xfer'[dev.own].pc = xfer[dev.own].pc
        /\ xfer[dev.own].cut \in {"none", xfer[dev.own].pc}
  <2> SUFFICES ASSUME dev.own # Nobody
               PROVE  /\ dev.own \in Ctx /\ dev.own < c /\ xfer[dev.own].pc \in Pointing
                      /\ Msg(dev)' = Msg(dev) /\ Num(dev.own)' = Num(dev.own)
                      /\ xfer'[dev.own].pc = xfer[dev.own].pc
                      /\ xfer[dev.own].cut \in {"none", xfer[dev.own].pc}
    OBVIOUS
  <2>1. dev.own \in Ctx /\ xfer[dev.own].pc \in Pointing
    BY DEF IInv, DevInv
  <2>2. dev.own # c /\ xfer[dev.own].pc # "idle"
    BY <1>2, <2>1 DEF Pointing
  <2>3. dev.own < c /\ xfer'[dev.own].pc = xfer[dev.own].pc /\ xfer'[dev.own].msgs = xfer[dev.own].msgs
    BY <1>6, <2>1, <2>2
  <2> QED
    BY <1>2, <2>1, <2>3 DEF Msg, Num
<1>10. TypeOK'
  BY <1>1, <1>2, <1>7, Types DEF TypeOK, DevSet, HwSet, ByteSet, LevelSet
<1>11. CallsInv'
  <2> SUFFICES ASSUME NEW j \in Ctx, xfer'[j].pc # "idle"
               PROVE  xfer'[j].msgs \in Messages
    BY DEF CallsInv
  <2>1. CASE j = c
    BY <1>4, <1>5, <2>1
  <2>2. CASE j # c
    BY <1>6, <2>2 DEF IInv, CallsInv
  <2> QED
    BY <2>1, <2>2
<1>12. CutsInv'
  <2> SUFFICES ASSUME NEW j \in Ctx PROVE CutAt(j)'
    BY DEF CutsInv
  <2>1. \A k \in Ctx :
          k < j /\ xfer'[j].pc # "idle" /\ xfer'[k].pc # "idle" =>
            xfer'[k].cut # "none" /\ xfer'[k].cut = xfer'[k].pc
    <3> SUFFICES ASSUME NEW k \in Ctx, k < j, xfer'[j].pc # "idle", xfer'[k].pc # "idle"
                 PROVE  xfer'[k].cut # "none" /\ xfer'[k].cut = xfer'[k].pc
      OBVIOUS
    <3>1. CASE k = c
      <4>1. j > c /\ xfer[j].pc # "idle"
        BY <1>6, <3>1 DEF Ctx
      <4> QED
        BY <1>2, <4>1 DEF Top
    <3>2. CASE k # c
      BY <1>6, <3>2
    <3> QED
      BY <3>1, <3>2
  <2>2. CASE j = c
    BY <1>5, <2>1, <2>2 DEF CutAt
  <2>3. CASE j # c
    BY <1>6, <1>8, <2>1, <2>3 DEF CutAt, Early, Setting
  <2> QED
    BY <2>2, <2>3
<1>13. DevInv'
  <2> SUFFICES ASSUME dev.own # Nobody
               PROVE  /\ xfer[dev.own].pc \in Setting => Still' /\ ~hw'.act
                      /\ xfer[dev.own].pc # "kick" => Placed(dev)'
                      /\ \A j \in Ctx : j > dev.own => xfer'[j].pc \notin Pointing
    BY <1>2, <1>9 DEF IInv, DevInv
  <2>1. xfer[dev.own].pc \in Setting => Still' /\ ~hw'.act
    <3> SUFFICES ASSUME xfer[dev.own].pc \in Setting PROVE Still /\ ~hw.act
      BY <1>2 DEF Still
    <3>1. xfer[dev.own].cut \notin {"pre", "set"}
      BY <1>9 DEF Pointing
    <3> QED
      BY <3>1 DEF IInv, DevInv
  <2>2. xfer[dev.own].pc # "kick" => Placed(dev)'
    BY <1>2, <1>9 DEF IInv, DevInv, Placed
  <2>3. \A j \in Ctx : j > dev.own => xfer'[j].pc \notin Pointing
    BY <1>5, <1>6 DEF IInv, DevInv, Pointing
  <2> QED
    BY <2>1, <2>2, <2>3
<1>14. BusInv'
  BY <1>2, <1>9 DEF IInv, BusInv, Served, LastByte
<1>15. LooseInv' /\ OwnInv' /\ RestInv'
  <2>1. ~Loose
    <3> SUFFICES ASSUME NEW j \in Ctx, Losing(j) PROVE FALSE
      BY DEF IInv, LooseInv
    <3>1. xfer[j].pc \notin {"idle"} \cup Early /\ xfer[j].cut \in Early
      BY DEF Losing, Early, Setting
    <3>2. j < c
      BY <1>2, <3>1 DEF Top, Ctx
    <3> QED
      BY <1>2, <3>1, <3>2 DEF Early, Setting
  <2>2. ~Loose'
    BY <1>2, <2>1 DEF Loose, Served
  <2>3. OwnInv'
    BY <1>5, <1>6 DEF OwnInv, Pointing
  <2>4. RestInv'
    BY <1>5, <1>8 DEF RestInv, Setting
  <2> QED
    BY <2>2, <2>3, <2>4 DEF LooseInv
<1>16. StillInv'
  BY <1>2, <1>5, <1>6, <1>8 DEF IInv, StillInv, Setting
<1>17. CalmInv'
  <2>1. \A j \in Ctx : j # c /\ xfer'[j].cut = "none" => xfer'[j].pc = "idle"
    BY <1>6
  <2> QED
    BY <1>5, <2>1 DEF CalmInv, Pointing, Setting
<1> QED
  BY <1>10, <1>11, <1>12, <1>13, <1>14, <1>15, <1>16, <1>17 DEF IInv
-----------------------------------------------------------------------------
(* The invariant holds when the driver has been probed.                    *)
LEMMA InvInit == Init => IInv
<1> SUFFICES ASSUME Init PROVE IInv
  OBVIOUS
<1>1. \A c \in Ctx : xfer[c] = Idle /\ xfer[c].pc = "idle"
  BY IdleIs DEF Init
<1>2. /\ dev \in DevSet /\ dev.own = Nobody
  BY DEF Init, IdleDev, DevSet
<1>3. /\ hw \in HwSet /\ hw.wr = NoByte /\ ~hw.reading /\ ~hw.rd /\ ~hw.stop /\ ~hw.err
      /\ hw.stuck => hw.act
  <2>1. CASE hw = IdleBus
    BY <2>1, Bytes DEF IdleBus, HwSet
  <2>2. CASE hw = [IdleBus EXCEPT !.act = TRUE, !.stuck = TRUE]
    <3>1. hw = [act |-> TRUE, wr |-> NoByte, reading |-> FALSE, rd |-> FALSE, stop |-> FALSE,
                err |-> FALSE, stuck |-> TRUE]
      BY <2>2, Zenon DEF IdleBus
    <3> QED
      BY <3>1, Bytes DEF HwSet
  <2> QED
    BY <2>1, <2>2 DEF Init
<1>4. irq \in [on : BOOLEAN, pending : BOOLEAN] /\ irq.on /\ ~irq.pending
  BY DEF Init
<1>5. xfer \in [Ctx -> LevelSet]
  BY IdleIs DEF Init
<1>6. TypeOK
  BY <1>2, <1>3, <1>4, <1>5, Types
<1>7. CallsInv /\ CutsInv /\ DevInv /\ OwnInv /\ StillInv /\ RestInv /\ CalmInv
  BY <1>1, <1>2 DEF CallsInv, CutsInv, CutAt, DevInv, OwnInv, StillInv, RestInv, CalmInv, Pointing,
     Setting
<1>8. BusInv /\ LooseInv
  BY <1>2, <1>3, Bytes DEF BusInv, LooseInv, Loose
<1> QED
  BY <1>6, <1>7, <1>8 DEF IInv

(* Every step keeps it.                                                    *)
LEMMA InvNext == IInv /\ [Next]_vars => IInv'
<1> SUFFICES ASSUME IInv, [Next]_vars PROVE IInv'
  OBVIOUS
<1>1. ASSUME NEW c \in Ctx, Call(c) \/ Step(c) PROVE IInv'
  BY <1>1, CallKeeps, EnableKeeps, PollBeforeKeeps, SetMessagesKeeps, SetCountsKeeps,
     CheckMessageKeeps, UseKeeps, PollAfterKeeps, CollectKeeps, ConcludeKeeps, DisableKeeps DEF Step
<1>2. CASE HwAddress \/ HwData \/ HwNack \/ HwShiftIn \/ HwStick \/ Interrupt
  BY <1>2, HwAddressKeeps, HwDataKeeps, HwNackKeeps, HwShiftInKeeps, HwStickKeeps, InterruptKeeps
<1>3. CASE UNCHANGED vars
  <2>1. dev' = dev /\ hw' = hw /\ irq' = irq /\ xfer' = xfer
    BY <1>3 DEF vars
  <2>2. TypeOK' /\ CallsInv' /\ CutsInv' /\ DevInv'
    BY <2>1 DEF IInv, TypeOK, CallsInv, CutsInv, CutAt, DevInv, Placed, Msg, Num, Top, Still
  <2>3. BusInv' /\ StillInv' /\ RestInv'
    BY <2>1 DEF IInv, BusInv, StillInv, RestInv, Served, Msg, Top, Still, Stopped, LastByte
  <2>5. LooseInv' /\ OwnInv'
    <3>1. SameCalls /\ dev'.own = dev.own
      BY <2>1 DEF SameCalls
    <3>2. Loose' => Loose /\ hw'.act /\ ~hw'.stop
      BY <2>1 DEF IInv, LooseInv, Loose, Served
    <3> QED
      BY <3>1, <3>2, CallsStay, LooseStays
  <2>4. CalmInv'
    BY <2>1 DEF IInv, CalmInv, Going, Failed, Judged, Succeeded, Num, Total, InFlight, Before, Msg
  <2> QED
    BY <2>2, <2>3, <2>4, <2>5 DEF IInv
<1> QED
  BY <1>1, <1>2, <1>3 DEF Next

(* The invariant holds for any number of levels, retries, lengths and      *)
(* calls.                                                                  *)
THEOREM Inductive == Spec => []IInv
  BY InvInit, InvNext, PTL DEF Spec

(* The variables keep their types: index and remaining messages stay in 0  *)
(* .. 2 and the bytes to come never get negative.                          *)
THEOREM TypeCorrect == Spec => []TypeOK
<1>1. IInv => TypeOK
  BY DEF IInv
<1> QED
  BY <1>1, Inductive, PTL

(* The message pointer never outlives the call whose messages it points    *)
(* to, wherever callbacks preempt that call and whatever is late           *)
(* (msm_i2c_xfer clears dev before it returns); and the direct call of the  *)
(* handler, past its check of dev.msg, uses the messages of its own         *)
(* transfer, or NULL if a callback came between check and use.              *)
THEOREM NothingDangles == Spec => []NoDanglingMsg
<1>1. IInv => NoDanglingMsg
  <2> SUFFICES ASSUME IInv PROVE NoDanglingMsg
    OBVIOUS
  <2>1. dev.own # Nobody => xfer[dev.own].pc \in Pointing
    BY DEF IInv, DevInv
  <2>2. ASSUME NEW c \in Ctx, Turn(c, "use")
        PROVE  dev.own = c \/ (dev.own = Nobody /\ xfer[c].cut = "use")
    <3>1. xfer[c].pc = "use" /\ Top(c)
      BY <2>2 DEF Turn, Top
    <3> QED
      BY <3>1, AtUse
  <2> QED
    BY <2>1, <2>2 DEF NoDanglingMsg, Pointing
<1> QED
  BY <1>1, Inductive, PTL

(* An attempt that no callback preempted and no slave stalled returns the  *)
(* number of its messages exactly when all their bytes crossed the bus:    *)
(* the handler misses no error, and the static timeout left by an earlier  *)
(* failure never spoils it.                                                *)
THEOREM VerdictIsExact == Spec => []CalmVerdictExact
<1>1. IInv => CalmVerdictExact
  BY DEF IInv, CalmInv, CalmVerdictExact, Total
<1> QED
  BY <1>1, Inductive, PTL

(* The index of the handler stays inside the buffer of the message (pos    *)
(* and cnt add up to its length), over message switches, flushes, errors   *)
(* and preemptions.                                                        *)
THEOREM StaysInBuffer == Spec => []BufferInBounds
<1>1. IInv => BufferInBounds
  <2> SUFFICES ASSUME IInv, dev.own # Nobody, dev.pos >= 0 PROVE dev.pos + dev.cnt = Msg(dev).len
    BY DEF BufferInBounds
  <2>1. dev.pos # -1
    BY Registers DEF DevSet
  <2> QED
    BY <2>1 DEF IInv, DevInv, Placed, Setting
<1> QED
  BY <1>1, Inductive, PTL
=============================================================================
