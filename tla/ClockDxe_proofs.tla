-------------------------- MODULE ClockDxe_proofs --------------------------
(***************************************************************************)
(* ClockDxe and the calls to the modem: a call that did not cross with       *)
(* another gets its own answer, the table of clocks and the regulators are   *)
(* what was asked for, and the core never runs from a source that does not,  *)
(* for any clocks, rates, commands and numbers of programs.                  *)
(***************************************************************************)
EXTENDS ClockDxe, SequenceTheorems, TLAPS

Pcs == {"idle", "ready", "command", "data1", "data2", "notify", "done", "status", "read1", "read2",
        "clear", "back"}
CallFields == {"pc", "command", "p1", "p2", "asked", "got", "ret", "crossed"}
WordFields == {"command", "status", "data1", "data2"}

(* The programs are sequences, of operations that the context may make: the *)
(* callback points to variables of its own, and the regulator is set only   *)
(* by calls that are repeated.                                              *)
IsProgram(s) == s \in Seq(Range(s))

Pointers(c) == (IF c = Main THEN Clocks \cup Locals[Main] ELSE Locals[Callback]) \cup {Null}

Allowed(c, o) ==
  /\ o.op \in {"call", "until"} =>
       /\ o.arg.command \notin {Idle, Done}
       /\ o.arg.p1 \in Pointers(c) /\ o.arg.p2 \in Pointers(c)
       /\ o.arg.p1 = o.arg.p2 => o.arg.p1 = Null
       /\ o.arg.command \in {SetLevel, Switch} =>
            /\ c = Main /\ o.op = "until" /\ o.arg.p1 = "id"
            /\ o.arg.p2 = IF o.arg.command = SetLevel THEN "level" ELSE "on"
       /\ o.arg.p1 \in Clocks => o.arg.command \in ForClock
       /\ o.arg.p2 \notin Clocks
  /\ o.op = "let" => DOMAIN o.arg \subseteq Locals[c]

Typed ==
  /\ DOMAIN call = Contexts /\ DOMAIN todo = Contexts
  /\ DOMAIN app = WordFields /\ DOMAIN mem = Places
  /\ \A c \in Contexts :
       /\ DOMAIN call[c] = CallFields /\ call[c].pc \in Pcs /\ call[c].crossed \in BOOLEAN
       /\ IsProgram(todo[c])
       /\ \A i \in DOMAIN todo[c] : Allowed(c, todo[c][i])

IsRequest(r) == r = [command |-> r.command, data1 |-> r.data1, data2 |-> r.data2]

(* A call under way is the first operation of its program.                  *)
Calling ==
  \A c \in Contexts : call[c].pc # "idle" =>
    /\ todo[c] # <<>> /\ todo[c][1].op \in {"call", "until"}
    /\ call[c].command = todo[c][1].arg.command
    /\ call[c].p1 = todo[c][1].arg.p1 /\ call[c].p2 = todo[c][1].arg.p2
    /\ IsRequest(call[c].asked) /\ call[c].asked.command = call[c].command

(* Until a call has written its arguments they are what they were.          *)
Before1 == {"ready", "command", "data1", "data2", "notify", "done", "status", "read1"}
Before2 == Before1 \cup {"read2"}

Unread(c) ==
  /\ call[c].pc \in Before1 => call[c].asked.data1 = ValueAt(call[c].p1)
  /\ call[c].pc \in Before2 => call[c].asked.data2 = ValueAt(call[c].p2)

Arguments == \A c \in Contexts : Unread(c)

UsingWords == {"data1", "data2", "notify", "done", "status", "read1", "read2"}

(* Who uses the words: a call that did not cross is alone with them.        *)
Alone ==
  /\ call[Main].pc \in UsingWords /\ ~call[Main].crossed => call[Callback].pc = "idle"
  /\ call[Callback].pc # "idle" /\ ~call[Callback].crossed => call[Main].pc \notin UsingWords
  /\ call[Main].pc \in {"ready", "command"} => ~call[Main].crossed

(* The modem acts only while a call waits for it; a call of the main program *)
(* that another one crossed finds the words idle and waits for ever, or is   *)
(* past its wait.                                                            *)
Answered == app.command = Done /\ work = Nothing

ModemStill ==
  /\ app.command = Done => work = Nothing
  /\ (\A c \in Contexts : call[c].pc # "done") => ~irq /\ work = Nothing
  /\ call[Callback].pc \in {"status", "read1", "read2", "clear"} => Answered
  /\ call[Main].crossed /\ call[Main].pc \in {"data1", "data2", "notify", "done"}
       /\ call[Callback].pc \in {"idle", "back"} => app.command = Idle /\ work = Nothing

(* What has come back from the modem is about what was asked.                *)
Own(c) == /\ last.asked = call[c].asked /\ last.status = app.status
          /\ last.data1 = app.data1 /\ last.data2 = app.data2
Got(c) == call[c].got.asked = call[c].asked
Words(c) == app.command = call[c].asked.command

InFlight(c) ==
  \/ /\ irq /\ work = Nothing /\ Words(c)
     /\ app.data1 = call[c].asked.data1 /\ app.data2 = call[c].asked.data2
  \/ ~irq /\ work = call[c].asked /\ work # Nothing
  \/ ~irq /\ Answered /\ Own(c)

Stage(c) ==
  LET pc == call[c].pc
  IN /\ pc = "data1" => Words(c)
     /\ pc = "data2" => Words(c) /\ app.data1 = call[c].asked.data1
     /\ pc = "notify" => /\ Words(c) /\ app.data1 = call[c].asked.data1
                         /\ app.data2 = call[c].asked.data2
     /\ pc = "done" => InFlight(c)
     /\ pc = "status" => Answered /\ Own(c)
     /\ pc \in {"read1", "read2", "clear", "back"} => Got(c)
     /\ pc \in {"read1", "read2"} => call[c].got.status # Fail
     /\ pc = "read1" => call[c].got.data1 = app.data1
     /\ pc \in {"read1", "read2"} => call[c].got.data2 = app.data2
     /\ pc = "read2" \/ (pc \in {"clear", "back"} /\ call[c].ret = 0) =>
          (call[c].p1 # Null => mem[call[c].p1] = call[c].got.data1)
     /\ pc \in {"clear", "back"} /\ call[c].ret = 0 =>
          (call[c].p2 # Null => mem[call[c].p2] = call[c].got.data2)

(* The modem serves the callback's call alone unless the main program was   *)
(* already waiting for it.                                                  *)
Undivided(c) == ~call[c].crossed \/ (c = Callback /\ call[Main].pc # "done")

Stages == \A c \in Contexts : Undivided(c) => Stage(c)

WordsInv == Typed /\ Calling /\ Arguments /\ Alone /\ ModemStill /\ Stages
-----------------------------------------------------------------------------
(* Sequences of operations.                                                *)
LEMMA Popped ==
  ASSUME NEW s, IsProgram(s), s # <<>>
  PROVE  /\ IsProgram(Tail(s)) /\ Head(s) = s[1] /\ Len(s) \in Nat \ {0} /\ DOMAIN s = 1 .. Len(s)
         /\ Len(Tail(s)) = Len(s) - 1 /\ DOMAIN Tail(s) = 1 .. Len(s) - 1
         /\ \A i \in 1 .. Len(s) - 1 : Tail(s)[i] = s[i + 1]
<1> DEFINE t == Tail(s)
<1>1. Len(s) \in Nat \ {0} /\ DOMAIN s = 1 .. Len(s)
  BY DEF IsProgram
<1>2. t \in Seq(Range(s)) /\ Len(t) = Len(s) - 1 /\ \A i \in 1 .. Len(s) - 1 : t[i] = s[i + 1]
  BY HeadTailProperties DEF IsProgram
<1>3. DOMAIN t = 1 .. Len(s) - 1
  BY <1>1, <1>2
<1> HIDE DEF t
<1>4. \A i \in 1 .. Len(t) : t[i] \in Range(t)
  BY <1>1, <1>2, <1>3 DEF Range
<1>5. t \in Seq(Range(t))
  BY <1>1, <1>2, <1>3, <1>4
<1> QED
  BY <1>1, <1>2, <1>3, <1>5 DEF t, IsProgram

LEMMA Joined ==
  ASSUME NEW s, NEW t, IsProgram(s), IsProgram(t)
  PROVE  /\ IsProgram(s \o t) /\ Len(s) \in Nat /\ Len(t) \in Nat /\ Len(s \o t) = Len(s) + Len(t)
         /\ DOMAIN s = 1 .. Len(s) /\ DOMAIN t = 1 .. Len(t)
         /\ DOMAIN (s \o t) = 1 .. Len(s) + Len(t)
         /\ \A i \in 1 .. Len(s) : (s \o t)[i] = s[i]
         /\ \A i \in 1 .. Len(t) : (s \o t)[Len(s) + i] = t[i]
<1> DEFINE r == s \o t
<1>1. /\ Len(s) \in Nat /\ DOMAIN s = 1 .. Len(s)
      /\ Len(t) \in Nat /\ DOMAIN t = 1 .. Len(t)
  BY DEF IsProgram
<1> DEFINE S == Range(s) \cup Range(t)
<1>2. s \in Seq(S) /\ t \in Seq(S)
  BY DEF IsProgram
<1>3. /\ r \in Seq(S) /\ Len(r) = Len(s) + Len(t)
      /\ \A i \in 1 .. Len(s) + Len(t) : r[i] = IF i <= Len(s) THEN s[i] ELSE t[i - Len(s)]
  BY <1>2, ConcatProperties
<1>4. DOMAIN r = 1 .. Len(s) + Len(t)
  BY <1>1, <1>3
<1> HIDE DEF r, S
<1>5. r \in Seq(Range(r))
  <2>1. \A i \in 1 .. Len(r) : r[i] \in Range(r)
    BY <1>1, <1>3, <1>4 DEF Range
  <2> QED
    BY <1>1, <1>3, <1>4, <2>1
<1>6. \A i \in 1 .. Len(s) : r[i] = s[i]
  BY <1>1, <1>3
<1>7. \A i \in 1 .. Len(t) : r[Len(s) + i] = t[i]
  BY <1>1, <1>3
<1> QED
  BY <1>1, <1>3, <1>4, <1>5, <1>6, <1>7 DEF r, IsProgram

(* A program of which each operation is allowed.                            *)
IsProgramOf(c, s) == IsProgram(s) /\ \A i \in DOMAIN s : Allowed(c, s[i])

LEMMA JoinedAllowed ==
  ASSUME NEW c, NEW s, NEW t, IsProgramOf(c, s), IsProgramOf(c, t)
  PROVE  IsProgramOf(c, s \o t)
<1>1. /\ IsProgram(s \o t) /\ Len(s) \in Nat /\ Len(t) \in Nat
      /\ DOMAIN s = 1 .. Len(s) /\ DOMAIN t = 1 .. Len(t)
      /\ DOMAIN (s \o t) = 1 .. Len(s) + Len(t)
      /\ \A i \in 1 .. Len(s) : (s \o t)[i] = s[i]
      /\ \A i \in 1 .. Len(t) : (s \o t)[Len(s) + i] = t[i]
  BY Joined DEF IsProgramOf
<1>2. ASSUME NEW i \in 1 .. Len(s) + Len(t) PROVE Allowed(c, (s \o t)[i])
  <2>1. CASE i \in 1 .. Len(s)
    BY <1>1, <2>1 DEF IsProgramOf
  <2>2. CASE i \notin 1 .. Len(s)
    <3>1. i - Len(s) \in 1 .. Len(t) /\ Len(s) + (i - Len(s)) = i
      BY <1>1, <2>2
    <3> QED
      BY <1>1, <3>1 DEF IsProgramOf
  <2> QED
    BY <2>1, <2>2
<1> QED
  BY <1>1, <1>2 DEF IsProgramOf

LEMMA Short ==
  /\ IsProgram(<<>>)
  /\ \A a : IsProgram(<<a>>) /\ DOMAIN <<a>> = {1} /\ Len(<<a>>) = 1
  /\ \A a, b : IsProgram(<<a, b>>) /\ DOMAIN <<a, b>> = {1, 2} /\ Len(<<a, b>>) = 2
  /\ \A a, b, d : IsProgram(<<a, b, d>>) /\ DOMAIN <<a, b, d>> = {1, 2, 3} /\ Len(<<a, b, d>>) = 3
  /\ \A a, b, d, e : IsProgram(<<a, b, d, e>>) /\ DOMAIN <<a, b, d, e>> = {1, 2, 3, 4} /\ Len(<<a, b, d, e>>) = 4
  BY DEF IsProgram, Range
-----------------------------------------------------------------------------
(* The statements of a call.                                               *)
Kept(c) ==
  /\ DOMAIN call' = Contexts /\ DOMAIN call'[c] = CallFields
  /\ \A d \in Contexts \ {c} : call'[d] = call[d]
  /\ call'[c].command = call[c].command /\ call'[c].p1 = call[c].p1 /\ call'[c].p2 = call[c].p2
  /\ call'[c].asked = call[c].asked /\ call'[c].crossed = call[c].crossed

LEMMA StepMoves ==
  ASSUME Typed, NEW c \in Contexts, NEW pc, NEW next, Step(c, pc, next)
  PROVE  /\ Kept(c) /\ Runs(c) /\ call[c].pc = pc /\ call'[c].pc = next
         /\ call'[c].got = call[c].got /\ call'[c].ret = call[c].ret
  BY DEF Typed, Step, CallFields, Kept

(* The main program takes part only while there is no callback.              *)
LEMMA MainAlone ==
  ASSUME Calling, Runs(Main)
  PROVE  call[Callback].pc = "idle"
  BY DEF Calling, Runs, Contexts, Callback, Main


LEMMA TwoContexts == Contexts = {Main, Callback} /\ Main # Callback
  BY DEF Contexts, Main, Callback

(* A statement moves its own call on, and no other.                         *)
InCallPcs == {"ready", "command", "data1", "data2", "notify", "done", "status", "read1", "read2", "clear"}

Statement(c) ==
  /\ Kept(c) /\ Runs(c) /\ UNCHANGED <<todo, ready, mpll, rail, last, renamed, disturbed>>
  /\ DOMAIN app' = WordFields /\ DOMAIN mem' = Places
  /\ \A p \in Places : p # call[c].p1 /\ p # call[c].p2 => mem'[p] = mem[p]
  /\ call[c].pc \in InCallPcs /\ call'[c].pc \in InCallPcs \cup {"back"}
  /\ call'[c].pc \in UsingWords => call[c].pc \in UsingWords \cup {"command"}
  /\ call'[c].pc \in {"ready", "command"} => call[c].pc \in {"ready", "command"}

LEMMA Statements ==
  ASSUME Typed, NEW c \in Contexts, ProcComm(c), UNCHANGED todo
  PROVE  Statement(c)
<1> USE DEF modem, history
<1>1. CASE WaitForModemReady(c)
  BY <1>1, StepMoves DEF WaitForModemReady, Statement, InCallPcs, UsingWords, Typed
<1>2. CASE WriteCommand(c)
  BY <1>2, StepMoves DEF WriteCommand, Statement, InCallPcs, UsingWords, Typed
<1>3. CASE WriteData1(c)
  BY <1>3, StepMoves DEF WriteData1, Statement, InCallPcs, UsingWords, Typed
<1>4. CASE WriteData2(c)
  BY <1>4, StepMoves DEF WriteData2, Statement, InCallPcs, UsingWords, Typed
<1>5. CASE NotifyModem(c)
  BY <1>5, StepMoves DEF NotifyModem, Statement, InCallPcs, UsingWords, Typed
<1>6. CASE WaitForDone(c)
  BY <1>6, StepMoves DEF WaitForDone, Statement, InCallPcs, UsingWords, Typed
<1>7. CASE ReadStatus(c)
  BY <1>7 DEF ReadStatus, Statement, InCallPcs, UsingWords, Typed, Kept, CallFields
<1>8. CASE ReadData1(c)
  BY <1>8, StepMoves DEF ReadData1, Stored, Statement, InCallPcs, UsingWords, Typed
<1>9. CASE ReadData2(c)
  BY <1>9, StepMoves DEF ReadData2, Stored, Statement, InCallPcs, UsingWords, Typed
<1>10. CASE ClearCommand(c)
  BY <1>10, StepMoves DEF ClearCommand, Statement, InCallPcs, UsingWords, Typed
<1> QED
  BY <1>1, <1>2, <1>3, <1>4, <1>5, <1>6, <1>7, <1>8, <1>9, <1>10 DEF ProcComm

LEMMA StatementFrame ==
  ASSUME WordsInv, NEW c \in Contexts, Statement(c)
  PROVE  Typed' /\ Calling' /\ Alone'
<1>1. Typed'
  BY DEF WordsInv, Typed, Statement, Kept, InCallPcs, Pcs
<1>2. Calling'
  BY DEF WordsInv, Calling, Statement, Kept, InCallPcs
<1>3. Alone'
  <2>1. call'[c].pc \in {"ready", "command"} => call[c].pc \in {"ready", "command"}
    BY DEF Statement
  <2>2. c = Main => call[Callback].pc = "idle"
    BY MainAlone DEF WordsInv, Statement
  <2>3. CASE c = Main
    BY <2>1, <2>2, <2>3, TwoContexts DEF WordsInv, Alone, Statement, Kept, InCallPcs, UsingWords
  <2>4. CASE c = Callback
    BY <2>4, TwoContexts DEF WordsInv, Alone, Statement, Kept, InCallPcs
  <2> QED
    BY <2>3, <2>4, TwoContexts
<1> QED
  BY <1>1, <1>2, <1>3

(* Memory that another context's call points to.                            *)
LEMMA PointersApart ==
  ASSUME NEW c \in Contexts, NEW d \in Contexts \ {c}, NEW p \in Pointers(c), NEW q \in Pointers(d), p = q
  PROVE  p = Null
  BY TwoContexts, ClockAssumption DEF Pointers, Locals, Main, Callback, Contexts

LEMMA CallPointers ==
  ASSUME Typed, Calling, NEW c \in Contexts, call[c].pc # "idle"
  PROVE  /\ call[c].p1 \in Pointers(c) /\ call[c].p2 \in Pointers(c)
         /\ call[c].p1 = call[c].p2 => call[c].p1 = Null
         /\ call[c].command \notin {Idle, Done}
<1>1. 1 \in DOMAIN todo[c]
  BY Popped DEF Calling, Typed
<1> QED
  BY <1>1 DEF Typed, Calling, Allowed

LEMMA PlacesOfPointers ==
  ASSUME NEW c \in Contexts, NEW p \in Pointers(c), p # Null
  PROVE  p \in Places
  BY TwoContexts, ClockAssumption DEF Pointers

(* What a statement of c leaves of the call of the other context.           *)
LEMMA OtherStays ==
  ASSUME WordsInv, NEW c \in Contexts, Statement(c), NEW d \in Contexts \ {c}
  PROVE  /\ Unread(d)'
         /\ Undivided(d)' => Stage(d)'
<1> USE DEF ValueAt
<1>0. call'[d] = call[d] /\ call[c].pc # "idle" /\ last' = last
  BY DEF Statement, Kept, InCallPcs
<1>1. CASE c = Main
  <2>1. d = Callback /\ call[d].pc = "idle"
    BY <1>1, TwoContexts, MainAlone DEF Statement, WordsInv
  <2> QED
    BY <1>0, <2>1 DEF Unread, Before1, Before2, Stage
<1>2. CASE c = Callback
  <2>1. d = Main
    BY <1>2, TwoContexts
  <2>2. CASE call[d].pc = "idle"
    BY <1>0, <2>2 DEF Unread, Before1, Before2, Stage
  <2>3. CASE call[d].pc # "idle"
    <3>1. \A p \in Pointers(d) : p # Null => mem'[p] = mem[p]
      <4> SUFFICES ASSUME NEW p \in Pointers(d), p # Null PROVE mem'[p] = mem[p]
        OBVIOUS
      <4>1. p \in Places
        BY PlacesOfPointers
      <4>2. p # call[c].p1 /\ p # call[c].p2
        BY <1>0, CallPointers, PointersApart DEF WordsInv
      <4> QED
        BY <4>1, <4>2 DEF Statement
    <3>2. call[d].p1 \in Pointers(d) /\ call[d].p2 \in Pointers(d)
      BY <2>3, CallPointers DEF WordsInv
    <3>3. Unread(d)'
      BY <1>0, <3>1, <3>2 DEF Unread, WordsInv, Arguments
    <3>4. ASSUME ~call[d].crossed PROVE Stage(d)'
      <4>1. call[d].pc \notin UsingWords
        BY <1>0, <1>2, <2>1, <3>4, TwoContexts DEF WordsInv, Alone
      <4>2. Stage(d)
        BY <3>4 DEF WordsInv, Stages, Undivided
      <4> QED
        BY <1>0, <3>1, <3>2, <4>1, <4>2 DEF Stage, UsingWords, Got
    <3> QED
      BY <1>0, <2>1, <3>3, <3>4, TwoContexts DEF Undivided
  <2> QED
    BY <2>2, <2>3
<1> QED
  BY <1>1, <1>2, TwoContexts

(* What must be shown of a statement of c itself.                           *)
Holds(c) == Unread(c)' /\ (Undivided(c)' => Stage(c)') /\ ModemStill'

LEMMA StatementKeeps ==
  ASSUME WordsInv, NEW c \in Contexts, Statement(c), Holds(c)
  PROVE  WordsInv'
<1>1. Arguments'
  BY OtherStays DEF Holds, Arguments
<1>2. Stages'
  BY OtherStays DEF Holds, Stages
<1> QED
  BY <1>1, <1>2, StatementFrame DEF Holds, WordsInv

(* The call of c before and after one of its statements.                    *)
LEMMA Before ==
  ASSUME WordsInv, NEW c \in Contexts, Statement(c)
  PROVE  /\ Undivided(c)' => Undivided(c)
         /\ Undivided(c) => Stage(c)
         /\ Unread(c)
         /\ call[c].command \notin {Idle, Done} /\ call[c].asked.command = call[c].command
<1>1. call[c].pc # "idle"
  BY DEF Statement, InCallPcs
<1>2. Undivided(c)' => Undivided(c)
  BY TwoContexts DEF Undivided, Statement, Kept
<1>3. call[c].command \notin {Idle, Done} /\ call[c].asked.command = call[c].command
  BY <1>1, CallPointers DEF WordsInv, Calling
<1> QED
  BY <1>1, <1>2, <1>3 DEF WordsInv, Stages, Arguments, ValueAt, Statement, Kept

LEMMA ReadyHolds ==
  ASSUME WordsInv, NEW c \in Contexts, WaitForModemReady(c), Statement(c)
  PROVE  Holds(c)
<1>1. /\ call[c].pc = "ready" /\ call'[c].pc = "command" /\ Kept(c)
      /\ UNCHANGED <<app, irq, work, mem, last>>
  BY StepMoves DEF WaitForModemReady, WordsInv, modem
<1>2. Unread(c)'
  BY <1>1, Before DEF Unread, Before1, Before2, ValueAt, Kept
<1>3. Stage(c)'
  BY <1>1 DEF Stage
<1>4. ModemStill'
  BY <1>1, TwoContexts DEF WordsInv, ModemStill, Answered, Kept
<1> QED
  BY <1>2, <1>3, <1>4 DEF Holds

LEMMA CommandHolds ==
  ASSUME WordsInv, NEW c \in Contexts, WriteCommand(c), Statement(c)
  PROVE  Holds(c)
<1>1. /\ call[c].pc = "command" /\ call'[c].pc = "data1" /\ Kept(c)
      /\ app' = [app EXCEPT !.command = call[c].command]
      /\ UNCHANGED <<irq, work, mem, last>>
  BY StepMoves DEF WriteCommand, WordsInv, modem
<1>2. Unread(c)'
  BY <1>1, Before DEF Unread, Before1, Before2, ValueAt, Kept
<1>3. Stage(c)'
  BY <1>1, Before DEF Stage, Words, Kept, WordsInv, Typed, WordFields
<1>4. ModemStill'
  <2>1. c = Main => ~call[Main].crossed
    BY <1>1 DEF WordsInv, Alone
  <2>2. app'.command # Done
    BY <1>1, Before DEF WordsInv, Typed, WordFields
  <2>3. c = Main => call[Callback].pc = "idle"
    BY MainAlone DEF WordsInv, Statement
  <2> QED
    BY <1>1, <2>1, <2>2, <2>3, TwoContexts DEF WordsInv, ModemStill, Answered, Kept
<1> QED
  BY <1>2, <1>3, <1>4 DEF Holds

LEMMA Data1Holds ==
  ASSUME WordsInv, NEW c \in Contexts, WriteData1(c), Statement(c)
  PROVE  Holds(c)
<1>1. /\ call[c].pc = "data1" /\ call'[c].pc = "data2" /\ Kept(c)
      /\ app' = [app EXCEPT !.data1 = ValueAt(call[c].p1)]
      /\ UNCHANGED <<irq, work, mem, last>>
  BY StepMoves DEF WriteData1, WordsInv, modem
<1>2. app'.command = app.command /\ app'.data1 = ValueAt(call[c].p1)
  BY <1>1 DEF WordsInv, Typed, WordFields
<1>3. Unread(c)'
  BY <1>1, Before DEF Unread, Before1, Before2, ValueAt, Kept
<1>4. Undivided(c)' => Stage(c)'
  BY <1>1, <1>2, Before DEF Stage, Words, Kept, Unread, Before1, Before2
<1>5. ModemStill'
  BY <1>1, <1>2, TwoContexts DEF WordsInv, ModemStill, Answered, Kept
<1> QED
  BY <1>3, <1>4, <1>5 DEF Holds

LEMMA Data2Holds ==
  ASSUME WordsInv, NEW c \in Contexts, WriteData2(c), Statement(c)
  PROVE  Holds(c)
<1>1. /\ call[c].pc = "data2" /\ call'[c].pc = "notify" /\ Kept(c)
      /\ app' = [app EXCEPT !.data2 = ValueAt(call[c].p2)]
      /\ UNCHANGED <<irq, work, mem, last>>
  BY StepMoves DEF WriteData2, WordsInv, modem
<1>2. app'.command = app.command /\ app'.data1 = app.data1 /\ app'.data2 = ValueAt(call[c].p2)
  BY <1>1 DEF WordsInv, Typed, WordFields
<1>3. Unread(c)'
  BY <1>1, Before DEF Unread, Before1, Before2, ValueAt, Kept
<1>4. Undivided(c)' => Stage(c)'
  BY <1>1, <1>2, Before DEF Stage, Words, Kept, Unread, Before1, Before2
<1>5. ModemStill'
  BY <1>1, <1>2, TwoContexts DEF WordsInv, ModemStill, Answered, Kept
<1> QED
  BY <1>3, <1>4, <1>5 DEF Holds

LEMMA NotifyHolds ==
  ASSUME WordsInv, NEW c \in Contexts, NotifyModem(c), Statement(c)
  PROVE  Holds(c)
<1>1. /\ call[c].pc = "notify" /\ call'[c].pc = "done" /\ Kept(c) /\ irq'
      /\ UNCHANGED <<app, work, mem, last>>
  BY StepMoves DEF NotifyModem, WordsInv
<1>2. Unread(c)'
  BY <1>1, Before DEF Unread, Before1, Before2, ValueAt, Kept
<1>3. ASSUME Undivided(c)' PROVE Stage(c)'
  <2>1. \A d \in Contexts : call[d].pc # "done"
    <3>1. CASE c = Main
      BY <1>1, <3>1, MainAlone, TwoContexts DEF WordsInv, Statement
    <3>2. CASE c = Callback
      BY <1>1, <1>3, <3>2, TwoContexts DEF WordsInv, Alone, Undivided, Kept, UsingWords
    <3> QED
      BY <3>1, <3>2, TwoContexts
  <2>2. work = Nothing
    BY <2>1 DEF WordsInv, ModemStill
  <2>3. Words(c)' /\ app.data1 = call[c].asked.data1 /\ app.data2 = call[c].asked.data2
    BY <1>1, <1>3, Before DEF Stage, Words, Kept
  <2> QED
    BY <1>1, <2>2, <2>3 DEF Stage, InFlight, Kept, Words
<1>4. ModemStill'
  BY <1>1, TwoContexts DEF WordsInv, ModemStill, Answered, Kept
<1> QED
  BY <1>2, <1>3, <1>4 DEF Holds

LEMMA DoneHolds ==
  ASSUME WordsInv, NEW c \in Contexts, WaitForDone(c), Statement(c)
  PROVE  Holds(c)
<1>1. /\ call[c].pc = "done" /\ call'[c].pc = "status" /\ Kept(c) /\ app.command = Done
      /\ UNCHANGED <<app, irq, work, mem, last>>
  BY StepMoves DEF WaitForDone, ModemIsDone, WordsInv, modem
<1>2. Unread(c)'
  BY <1>1, Before DEF Unread, Before1, Before2, ValueAt, Kept
<1>3. Answered
  BY <1>1 DEF WordsInv, ModemStill, Answered
<1>4. Undivided(c) => ~irq /\ Own(c)
  BY <1>1, <1>3, Before DEF Stage, InFlight, Answered, Words
<1>5. Undivided(c)' => Stage(c)'
  BY <1>1, <1>3, <1>4, Before DEF Stage, Answered, Own, Kept
<1>6. c = Main => ~call[Main].crossed /\ call[Callback].pc = "idle"
  BY <1>1, MainAlone DEF WordsInv, ModemStill, Statement, Idle, Done
<1>7. ModemStill'
  <2>1. CASE Undivided(c)
    BY <1>1, <1>3, <1>4, <1>6, <2>1, TwoContexts DEF WordsInv, ModemStill, Answered, Kept
  <2>2. CASE ~Undivided(c)
    <3>1. c = Callback /\ call[Main].pc = "done"
      BY <1>6, <2>2, TwoContexts DEF Undivided
    <3> QED
      BY <1>1, <1>3, <3>1, TwoContexts DEF WordsInv, ModemStill, Answered, Kept
  <2> QED
    BY <2>1, <2>2
<1> QED
  BY <1>2, <1>5, <1>7 DEF Holds

LEMMA StatusHolds ==
  ASSUME WordsInv, NEW c \in Contexts, ReadStatus(c), Statement(c)
  PROVE  Holds(c)
<1>1. /\ call[c].pc = "status" /\ call'[c].pc \in {"clear", "read1"} /\ Kept(c)
      /\ call'[c].got = last
      /\ call'[c].pc = "clear" => call'[c].ret = -1
      /\ call'[c].pc = "read1" => app.status # Fail
      /\ UNCHANGED <<app, irq, work, mem, last>>
  BY DEF ReadStatus, Keeps, WordsInv, Typed, CallFields, Statement, modem
<1>2. Unread(c)'
  BY <1>1, Before DEF Unread, Before1, Before2, ValueAt, Kept
<1>3. Undivided(c)' => Stage(c)'
  BY <1>1, Before DEF Stage, Own, Got, Kept
<1>4. ModemStill'
  BY <1>1, TwoContexts DEF WordsInv, ModemStill, Answered, Kept
<1> QED
  BY <1>2, <1>3, <1>4 DEF Holds

(* What p points to after value has been stored there.                      *)
LEMMA StoredThere ==
  ASSUME Typed, Calling, NEW c \in Contexts, call[c].pc # "idle", NEW p \in {call[c].p1, call[c].p2},
         NEW value, mem' = Stored(p, value)
  PROVE  /\ p # Null => mem'[p] = value
         /\ \A q \in Pointers(c) : q # Null /\ q # p => mem'[q] = mem[q]
<1>1. \A q \in Pointers(c) : q # Null => q \in DOMAIN mem
  BY PlacesOfPointers DEF Typed
<1>2. p \in Pointers(c)
  BY CallPointers
<1> QED
  BY <1>1, <1>2 DEF Stored

LEMMA Read1Holds ==
  ASSUME WordsInv, NEW c \in Contexts, ReadData1(c), Statement(c)
  PROVE  Holds(c)
<1>1. /\ call[c].pc = "read1" /\ call'[c].pc = "read2" /\ Kept(c)
      /\ mem' = Stored(call[c].p1, app.data1) /\ call'[c].got = call[c].got
      /\ UNCHANGED <<app, irq, work, last>>
  BY StepMoves DEF ReadData1, WordsInv, modem
<1>2. Unread(c)'
  <2>1. call[c].p2 # Null => mem'[call[c].p2] = mem[call[c].p2]
    BY <1>1, StoredThere, CallPointers DEF WordsInv
  <2> QED
    BY <1>1, <2>1, Before DEF Unread, Before1, Before2, ValueAt, Kept
<1>3. call[c].p1 # Null => mem'[call[c].p1] = app.data1
  BY <1>1, StoredThere DEF WordsInv
<1>4. Undivided(c)' => Stage(c)'
  BY <1>1, <1>3, Before DEF Stage, Got, Kept
<1>5. ModemStill'
  BY <1>1, TwoContexts DEF WordsInv, ModemStill, Answered, Kept
<1> QED
  BY <1>2, <1>4, <1>5 DEF Holds

LEMMA Read2Holds ==
  ASSUME WordsInv, NEW c \in Contexts, ReadData2(c), Statement(c)
  PROVE  Holds(c)
<1>1. /\ call[c].pc = "read2" /\ call'[c].pc = "clear" /\ Kept(c)
      /\ mem' = Stored(call[c].p2, app.data2) /\ call'[c].got = call[c].got
      /\ UNCHANGED <<app, irq, work, last>>
  BY StepMoves DEF ReadData2, WordsInv, modem
<1>2. Unread(c)'
  BY <1>1 DEF Unread, Before1, Before2
<1>3. /\ call[c].p2 # Null => mem'[call[c].p2] = app.data2
      /\ call[c].p1 # Null => mem'[call[c].p1] = mem[call[c].p1]
  BY <1>1, StoredThere, CallPointers DEF WordsInv
<1>4. Undivided(c)' => Stage(c)'
  BY <1>1, <1>3, Before DEF Stage, Got, Kept
<1>5. ModemStill'
  BY <1>1, TwoContexts DEF WordsInv, ModemStill, Answered, Kept
<1> QED
  BY <1>2, <1>4, <1>5 DEF Holds

LEMMA ClearHolds ==
  ASSUME WordsInv, NEW c \in Contexts, ClearCommand(c), Statement(c)
  PROVE  Holds(c)
<1>1. /\ call[c].pc = "clear" /\ call'[c].pc = "back" /\ Kept(c)
      /\ app' = [app EXCEPT !.command = Idle]
      /\ call'[c].got = call[c].got /\ call'[c].ret = call[c].ret
      /\ UNCHANGED <<irq, work, mem, last>>
  BY StepMoves DEF ClearCommand, WordsInv, modem
<1>2. Unread(c)'
  BY <1>1 DEF Unread, Before1, Before2
<1>3. Undivided(c)' => Stage(c)'
  BY <1>1, Before DEF Stage, Got, Kept
<1>4. app'.command = Idle /\ Idle # Done
  BY <1>1 DEF WordsInv, Typed, WordFields, Idle, Done
<1>5. c = Main => call[Callback].pc = "idle"
  BY MainAlone DEF WordsInv, Statement
<1>6. c = Callback => work = Nothing
  BY <1>1 DEF WordsInv, ModemStill, Answered
<1>7. ModemStill'
  BY <1>1, <1>4, <1>5, <1>6, TwoContexts DEF WordsInv, ModemStill, Answered, Kept
<1> QED
  BY <1>2, <1>3, <1>7 DEF Holds

(* A statement of a call leaves the words as they should be.                *)
LEMMA StatementsKeep ==
  ASSUME WordsInv, NEW c \in Contexts, InCall(c)
  PROVE  WordsInv'
<1>1. Statement(c)
  BY Statements DEF InCall, WordsInv
<1>2. Holds(c)
  BY <1>1, ReadyHolds, CommandHolds, Data1Holds, Data2Holds, NotifyHolds, DoneHolds, StatusHolds,
     Read1Holds, Read2Holds, ClearHolds DEF InCall, ProcComm
<1> QED
  BY <1>1, <1>2, StatementKeeps

(* The modem acts only for a call that waits for it.                        *)
LEMMA OnlyDone ==
  ASSUME WordsInv, irq \/ work # Nothing, NEW c \in Contexts, Undivided(c), call[c].pc \in UsingWords
  PROVE  call[c].pc = "done"
<1>1. PICK d \in Contexts : call[d].pc = "done"
  BY DEF WordsInv, ModemStill
<1>2. CASE d # c
  <2>1. CASE c = Main
    BY <1>1, <1>2, <2>1, TwoContexts DEF WordsInv, Alone, Undivided
  <2>2. CASE c = Callback
    BY <1>1, <1>2, <2>2, TwoContexts DEF WordsInv, Alone, Undivided, UsingWords
  <2> QED
    BY <2>1, <2>2, TwoContexts
<1> QED
  BY <1>1, <1>2

LEMMA ModemKeeps ==
  ASSUME WordsInv, ModemNext, UNCHANGED todo
  PROVE  WordsInv'
<1>1. call' = call /\ mem' = mem
  BY DEF ModemNext, ModemUp, Take, Answer, Succeed, Refuse
<1>2. CASE ModemUp
  BY <1>1, <1>2 DEF ModemUp, WordsInv, Typed, Calling, Arguments, Unread, ValueAt, Alone, ModemStill, Answered,
     Stages, Undivided, Stage, Words, InFlight, Own, Got
<1>4. /\ Calling' /\ Arguments' /\ Alone'
  BY <1>1 DEF WordsInv, Calling, Arguments, Unread, ValueAt, Alone
<1>5. ASSUME irq \/ work # Nothing, DOMAIN app' = WordFields, ModemStill',
             \A c \in Contexts : call[c].pc = "done" /\ Undivided(c) => InFlight(c)'
      PROVE  WordsInv'
  <2>1. Typed'
    BY <1>1, <1>5 DEF WordsInv, Typed
  <2>2. ASSUME NEW c \in Contexts, Undivided(c)' PROVE Stage(c)'
    <3>1. Undivided(c) /\ Stage(c)
      BY <1>1, <2>2 DEF Undivided, WordsInv, Stages
    <3> QED
      BY <1>1, <1>5, <3>1, OnlyDone DEF Stage, Got, UsingWords
  <2> QED
    BY <1>4, <1>5, <2>1, <2>2 DEF WordsInv, Stages
<1>6. ASSUME NEW c \in Contexts, call[c].pc = "done", Undivided(c)
      PROVE  InFlight(c) /\ call[c].asked.command \notin {Idle, Done}
  BY <1>6, CallPointers DEF WordsInv, Stages, Stage, Calling
<1>7. CASE Take
  <2>1. ASSUME NEW c \in Contexts, call[c].pc = "done", Undivided(c) PROVE InFlight(c)'
    <3>1. Words(c) /\ app.data1 = call[c].asked.data1 /\ app.data2 = call[c].asked.data2
      BY <1>6, <1>7, <2>1 DEF InFlight, Take
    <3>2. work' = [command |-> app.command, data1 |-> app.data1, data2 |-> app.data2]
      BY <1>6, <1>7, <2>1, <3>1 DEF Take, Words
    <3>3. call[c].asked = [command |-> app.command, data1 |-> app.data1, data2 |-> app.data2]
      <4>1. IsRequest(call[c].asked)
        BY <2>1 DEF WordsInv, Calling
      <4> QED
        BY <3>1, <4>1 DEF IsRequest, Words
    <3>4. work' # Nothing
      BY <1>6, <2>1, <3>2, <3>3 DEF Nothing
    <3> QED
      BY <1>1, <1>7, <3>2, <3>3, <3>4 DEF InFlight, Take
  <2>2. ModemStill'
    BY <1>1, <1>7 DEF WordsInv, ModemStill, Answered, Take
  <2> QED
    BY <1>5, <1>7, <2>1, <2>2 DEF Take, WordsInv, Typed
<1>8. ASSUME NEW status, NEW data1, NEW data2, Reply(status, data1, data2), work # Nothing, irq' = irq
      PROVE  WordsInv'
  <2>1. ASSUME NEW c \in Contexts, call[c].pc = "done", Undivided(c) PROVE InFlight(c)'
    BY <1>1, <1>6, <1>8, <2>1 DEF InFlight, Reply, Own, Answered
  <2>2. ModemStill'
    BY <1>1, <1>8 DEF WordsInv, ModemStill, Answered, Reply
  <2> QED
    BY <1>5, <1>8, <2>1, <2>2 DEF Reply, WordFields
<1>9. CASE Answer
  BY <1>8, <1>9 DEF Answer, Succeed, Refuse
<1> QED
  BY <1>2, <1>7, <1>9 DEF ModemNext

-----------------------------------------------------------------------------
(* What is done between calls: the program of an idle context goes on, and   *)
(* only variables of its own change.                                        *)
Between(c) ==
  /\ call[c].pc = "idle" /\ UNCHANGED <<call, app, irq, work, last, renamed, disturbed>>
  /\ DOMAIN todo' = Contexts /\ \A d \in Contexts \ {c} : todo'[d] = todo[d]
  /\ IsProgramOf(c, todo'[c])
  /\ DOMAIN mem' = Places /\ \A p \in Places \ Locals[c] : mem'[p] = mem[p]

(* The variables of one context are not those of the other.                 *)
LEMMA LocalsApart ==
  ASSUME NEW c \in Contexts, NEW d \in Contexts \ {c}, NEW p \in Pointers(d), p # Null
  PROVE  p \in Places \ Locals[c]
<1>1. p \in Places
  BY PlacesOfPointers
<1>2. Locals[Main] \cap Locals[Callback] = {}
  BY TwoContexts DEF Locals
<1> QED
  BY <1>1, <1>2, TwoContexts, ClockAssumption DEF Pointers

LEMMA BetweenKeeps ==
  ASSUME WordsInv, NEW c \in Contexts, Between(c)
  PROVE  WordsInv'
<1>1. Typed'
  BY DEF WordsInv, Typed, Between, IsProgramOf
<1>2. Calling' /\ Alone' /\ ModemStill'
  BY DEF WordsInv, Calling, Alone, ModemStill, Answered, Between
<1>3. ASSUME NEW d \in Contexts
      PROVE  Unread(d)' /\ (Undivided(d)' => Stage(d)')
  <2>1. CASE d = c
    BY <2>1 DEF Unread, Before1, Before2, Stage, Between
  <2>2. CASE call[d].pc = "idle"
    BY <2>2 DEF Unread, Before1, Before2, Stage, Between
  <2>3. CASE d # c /\ call[d].pc # "idle"
    <3>1. \A p \in {call[d].p1, call[d].p2} : p # Null => mem'[p] = mem[p]
      BY <2>3, LocalsApart, CallPointers DEF WordsInv, Between
    <3>2. Unread(d) /\ (Undivided(d) => Stage(d))
      BY DEF WordsInv, Arguments, Stages
    <3>3. Unread(d)'
      BY <3>1, <3>2 DEF Unread, ValueAt, Between
    <3>4. Undivided(d)' => Undivided(d)
      BY DEF Undivided, Between
    <3> QED
      BY <3>1, <3>2, <3>3, <3>4 DEF Between, Stage, Words, InFlight, Own, Got, Answered
  <2> QED
    BY <2>1, <2>2, <2>3
<1> QED
  BY <1>1, <1>2, <1>3 DEF WordsInv, Arguments, Stages

(* A call begins, and may cross with one of the main program.               *)
Crossing(c) == c = Callback /\ call[Main].pc \in UsingWords

Begun(c) ==
  /\ call[c].pc = "idle" /\ todo[c] # <<>> /\ todo[c][1].op \in {"call", "until"} /\ Runs(c)
  /\ UNCHANGED <<app, irq, work, last, mem, todo>>
  /\ DOMAIN call' = Contexts
  /\ DOMAIN call'[c] = CallFields /\ call'[c].pc = "ready" /\ call'[c].crossed = Crossing(c)
  /\ call'[c].command = todo[c][1].arg.command
  /\ call'[c].p1 = todo[c][1].arg.p1 /\ call'[c].p2 = todo[c][1].arg.p2 /\ call'[c].got = NoAnswer
  /\ IsRequest(call'[c].asked) /\ call'[c].asked.command = todo[c][1].arg.command
  /\ call'[c].asked.data1 = ValueAt(todo[c][1].arg.p1) /\ call'[c].asked.data2 = ValueAt(todo[c][1].arg.p2)
  /\ \A d \in Contexts \ {c} :
       /\ DOMAIN call'[d] = CallFields /\ call'[d].crossed = (Crossing(c) \/ call[d].crossed)
       /\ call'[d].pc = call[d].pc /\ call'[d].command = call[d].command
       /\ call'[d].p1 = call[d].p1 /\ call'[d].p2 = call[d].p2 /\ call'[d].asked = call[d].asked
       /\ call'[d].got = call[d].got /\ call'[d].ret = call[d].ret

LEMMA Begins ==
  ASSUME WordsInv, NEW c \in Contexts, Begin(c)
  PROVE  Begun(c)
<1> DEFINE o == todo[c][1]
<1>1. /\ call[c].pc = "idle" /\ todo[c] # <<>> /\ o.op \in {"call", "until"} /\ Head(todo[c]) = o /\ Runs(c)
      /\ UNCHANGED <<app, irq, work, last, mem, todo>>
  BY Popped DEF Begin, At, Stays, modem, WordsInv, Typed
<1> DEFINE crossing == c = Callback /\ InUse
<1>2. /\ DOMAIN call' = Contexts
      /\ call'[c] = [pc |-> "ready", command |-> o.arg.command, p1 |-> o.arg.p1, p2 |-> o.arg.p2,
                     asked |-> [command |-> o.arg.command, data1 |-> ValueAt(o.arg.p1), data2 |-> ValueAt(o.arg.p2)],
                     got |-> NoAnswer, ret |-> 0, crossed |-> crossing]
      /\ \A d \in Contexts \ {c} :
           call'[d] = IF crossing THEN [call[d] EXCEPT !.crossed = TRUE] ELSE call[d]
  BY <1>1, TwoContexts DEF Begin, Called, WordsInv, Typed
<1>3. /\ DOMAIN call'[c] = CallFields /\ call'[c].pc = "ready" /\ call'[c].command = o.arg.command
      /\ call'[c].p1 = o.arg.p1 /\ call'[c].p2 = o.arg.p2 /\ call'[c].crossed = crossing
      /\ call'[c].got = NoAnswer
      /\ IsRequest(call'[c].asked) /\ call'[c].asked.command = o.arg.command
      /\ call'[c].asked.data1 = ValueAt(o.arg.p1) /\ call'[c].asked.data2 = ValueAt(o.arg.p2)
  BY <1>2 DEF CallFields, IsRequest
<1>4. ASSUME NEW d \in Contexts \ {c}
      PROVE  /\ DOMAIN call'[d] = CallFields /\ call'[d].crossed = (crossing \/ call[d].crossed)
             /\ call'[d].pc = call[d].pc /\ call'[d].command = call[d].command
             /\ call'[d].p1 = call[d].p1 /\ call'[d].p2 = call[d].p2 /\ call'[d].asked = call[d].asked
             /\ call'[d].got = call[d].got /\ call'[d].ret = call[d].ret
  <2>1. DOMAIN call[d] = CallFields /\ call[d].crossed \in BOOLEAN
    BY DEF WordsInv, Typed
  <2>2. CASE crossing
    <3>1. call'[d] = [call[d] EXCEPT !.crossed = TRUE]
      BY <1>2, <2>2
    <3>2. call'[d].crossed = TRUE
      BY <2>1, <3>1 DEF CallFields
    <3> QED
      BY <2>1, <2>2, <3>1, <3>2 DEF CallFields
  <2>3. CASE ~crossing
    BY <1>2, <2>1, <2>3
  <2> QED
    BY <2>2, <2>3
<1>5. crossing = Crossing(c)
  BY DEF InUse, UsingWords, Crossing
<1> HIDE DEF crossing
<1> QED
  BY <1>1, <1>2, <1>3, <1>4, <1>5 DEF Begun

LEMMA BeginKeeps ==
  ASSUME WordsInv, NEW c \in Contexts, Begin(c)
  PROVE  WordsInv'
<1>1. Begun(c)
  BY Begins
<1>2. c = Main => call[Callback].pc = "idle"
  BY <1>1, MainAlone DEF WordsInv, Begun
<1>3. Crossing(c) \in BOOLEAN
  BY DEF Crossing
<1>4. Typed'
  BY <1>1, <1>3 DEF WordsInv, Typed, Pcs, Begun
<1>5. Calling'
  BY <1>1 DEF WordsInv, Calling, Begun
<1>6. Arguments'
  BY <1>1 DEF WordsInv, Arguments, Unread, ValueAt, Begun
<1>7. Alone'
  <2>1. CASE c = Main
    BY <1>1, <1>2, <2>1, TwoContexts DEF WordsInv, Alone, UsingWords, Begun, Crossing
  <2>2. CASE c = Callback
    BY <1>1, <2>2, TwoContexts DEF WordsInv, Alone, UsingWords, Begun, Crossing
  <2> QED
    BY <2>1, <2>2, TwoContexts
<1>8. ModemStill'
  <2>1. (\A d \in Contexts : call'[d].pc # "done") => (\A d \in Contexts : call[d].pc # "done")
    BY <1>1 DEF Begun
  <2>2. call'[Callback].pc \in {"status", "read1", "read2", "clear"} => Answered
    BY <1>1, TwoContexts DEF WordsInv, ModemStill, Begun
  <2>3. call'[Main].crossed /\ call'[Main].pc \in {"data1", "data2", "notify", "done"}
          /\ call'[Callback].pc \in {"idle", "back"} => app.command = Idle /\ work = Nothing
    <3>1. CASE c = Main
      BY <1>1, <3>1 DEF Begun
    <3>2. CASE c = Callback
      BY <1>1, <3>2 DEF Begun
    <3> QED
      BY <3>1, <3>2, TwoContexts
  <2> QED
    BY <1>1, <2>1, <2>2, <2>3 DEF WordsInv, ModemStill, Answered, Begun
<1>9. Stages'
  <2> SUFFICES ASSUME NEW d \in Contexts, Undivided(d)' PROVE Stage(d)'
    BY DEF Stages
  <2>1. CASE d = c
    BY <1>1, <2>1 DEF Stage, Begun
  <2>2. CASE d # c
    <3>1. Undivided(d) \/ call[d].pc = "idle"
      BY <1>1, <1>2, <2>2, TwoContexts DEF Undivided, Begun
    <3> QED
      BY <1>1, <2>2, <3>1 DEF WordsInv, Stages, Stage, Words, InFlight, Own, Got, Answered, Begun
  <2> QED
    BY <2>1, <2>2
<1> QED
  BY <1>4, <1>5, <1>6, <1>7, <1>8, <1>9 DEF WordsInv

(* A call has come back.                                                   *)
Returned(c) ==
  /\ call[c].pc = "back" /\ Runs(c) /\ DOMAIN call' = Contexts /\ call'[c] = NoCall
  /\ \A d \in Contexts \ {c} : call'[d] = call[d]
  /\ UNCHANGED <<app, irq, work, renamed>> /\ last' = NoAnswer
  /\ DOMAIN mem' = Places /\ \A p \in Places \ Locals[c] : mem'[p] = mem[p]

LEMMA Returns ==
  ASSUME WordsInv, NEW c \in Contexts, Back(c)
  PROVE  Returned(c)
  BY DEF Returned, Back, Leaves, WordsInv, Typed, modem

LEMMA BackKeeps ==
  ASSUME WordsInv, NEW c \in Contexts, Back(c)
  PROVE  WordsInv'
<1>1. /\ call[c].pc = "back" /\ Runs(c) /\ DOMAIN call' = Contexts /\ call'[c] = NoCall
      /\ \A d \in Contexts \ {c} : call'[d] = call[d]
      /\ UNCHANGED <<app, irq, work>>
  BY Returns DEF Returned
<1>2. c = Main => call[Callback].pc = "idle"
  BY <1>1, MainAlone DEF WordsInv
<1>3. /\ call'[c].pc = "idle" /\ DOMAIN call'[c] = CallFields /\ call'[c].crossed = FALSE
  BY <1>1 DEF NoCall, CallFields
<1>4. /\ DOMAIN mem' = Places /\ \A p \in Places \ Locals[c] : mem'[p] = mem[p]
  BY Returns DEF Returned
<1>5. /\ DOMAIN todo' = Contexts /\ \A d \in Contexts \ {c} : todo'[d] = todo[d]
      /\ IsProgramOf(c, todo'[c])
  <2>1. todo[c] # <<>> /\ IsProgramOf(c, todo[c]) /\ DOMAIN todo = Contexts
    BY <1>1 DEF WordsInv, Typed, Calling, IsProgramOf
  <2>2. IsProgramOf(c, Tail(todo[c]))
    BY <2>1, Popped DEF IsProgramOf
  <2> QED
    BY <2>1, <2>2 DEF Back, Next1
<1>6. Typed'
  BY <1>1, <1>3, <1>4, <1>5 DEF WordsInv, Typed, Pcs, IsProgramOf
<1>7. Calling'
  BY <1>1, <1>3, <1>5 DEF WordsInv, Calling
<1>8. Alone' /\ ModemStill'
  <2>1. CASE c = Main
    BY <1>1, <1>2, <1>3, <2>1, TwoContexts DEF WordsInv, Alone, ModemStill, Answered
  <2>2. CASE c = Callback
    BY <1>1, <1>3, <2>2, TwoContexts DEF WordsInv, Alone, ModemStill, Answered
  <2> QED
    BY <2>1, <2>2, TwoContexts
<1>9. ASSUME NEW d \in Contexts
      PROVE  Unread(d)' /\ (Undivided(d)' => Stage(d)')
  <2>1. CASE d = c
    BY <1>3, <2>1 DEF Unread, Before1, Before2, Stage
  <2>2. CASE d # c /\ call[d].pc = "idle"
    BY <1>1, <2>2 DEF Unread, Before1, Before2, Stage
  <2>3. CASE d # c /\ call[d].pc # "idle"
    <3>1. \A p \in {call[d].p1, call[d].p2} : p # Null => mem'[p] = mem[p]
      BY <1>4, <2>3, LocalsApart, CallPointers DEF WordsInv
    <3>2. Unread(d) /\ (Undivided(d) => Stage(d))
      BY DEF WordsInv, Arguments, Stages
    <3>3. Unread(d)'
      BY <1>1, <2>3, <3>1, <3>2 DEF Unread, ValueAt
    <3>4. c = Callback /\ d = Main
      BY <1>2, <2>3, TwoContexts
    <3>5. Undivided(d)' => ~call[d].crossed /\ call[d].pc \notin UsingWords
      BY <1>1, <2>3, <3>4, TwoContexts DEF Undivided, WordsInv, Alone
    <3> QED
      BY <1>1, <2>3, <3>1, <3>2, <3>3, <3>5 DEF Undivided, Stage, Got, UsingWords
  <2> QED
    BY <2>1, <2>2, <2>3
<1> QED
  BY <1>6, <1>7, <1>8, <1>9 DEF WordsInv, Arguments, Stages

-----------------------------------------------------------------------------
(* The programs.                                                           *)
OpsIn(s, S) == IsProgram(s) /\ \A i \in DOMAIN s : s[i].op \in S

LEMMA JoinedOps ==
  ASSUME NEW S, NEW s, NEW t, OpsIn(s, S), OpsIn(t, S)
  PROVE  OpsIn(s \o t, S)
<1>1. /\ IsProgram(s \o t) /\ Len(s) \in Nat /\ Len(t) \in Nat
      /\ DOMAIN s = 1 .. Len(s) /\ DOMAIN t = 1 .. Len(t)
      /\ DOMAIN (s \o t) = 1 .. Len(s) + Len(t)
      /\ \A i \in 1 .. Len(s) : (s \o t)[i] = s[i]
      /\ \A i \in 1 .. Len(t) : (s \o t)[Len(s) + i] = t[i]
  BY Joined DEF OpsIn
<1>2. ASSUME NEW i \in 1 .. Len(s) + Len(t) PROVE (s \o t)[i].op \in S
  <2>1. CASE i \in 1 .. Len(s)
    BY <1>1, <2>1 DEF OpsIn
  <2>2. CASE i \notin 1 .. Len(s)
    <3>1. i - Len(s) \in 1 .. Len(t) /\ Len(s) + (i - Len(s)) = i
      BY <1>1, <2>2
    <3> QED
      BY <1>1, <3>1 DEF OpsIn
  <2> QED
    BY <2>1, <2>2
<1> QED
  BY <1>1, <1>2 DEF OpsIn

(* The accesses of the registers, set_freq among them.                       *)
CoreOps == {"configure", "swap", "source", "wait", "mode", "target", "start", "set_freq", "speed"}

LEMMA ShortOps ==
  ASSUME NEW S
  PROVE  /\ OpsIn(<<>>, S)
         /\ \A a : a.op \in S => OpsIn(<<a>>, S)
         /\ \A a, b : a.op \in S /\ b.op \in S => OpsIn(<<a, b>>, S)
         /\ \A a, b, d : a.op \in S /\ b.op \in S /\ d.op \in S => OpsIn(<<a, b, d>>, S)
         /\ \A a, b, d, e : a.op \in S /\ b.op \in S /\ d.op \in S /\ e.op \in S => OpsIn(<<a, b, d, e>>, S)
  BY Short DEF OpsIn

LEMMA CorePrograms ==
  /\ \A src : OpsIn(SelectClock(src), CoreOps)
  /\ OpsIn(ScpllPowerDown, CoreOps)
  /\ \A l : OpsIn(ScpllSetFreq(l), CoreOps) /\ OpsIn(SetFreq(l), CoreOps)
  /\ \A i : OpsIn(SetRate(i), CoreOps) /\ OpsIn(RampUp(i), CoreOps)
<1> DEFINE ok(s) == OpsIn(s, CoreOps)
<1>0. /\ \A arg : /\ DoWith("source", arg).op \in CoreOps /\ DoWith("mode", arg).op \in CoreOps
                  /\ DoWith("target", arg).op \in CoreOps /\ DoWith("set_freq", arg).op \in CoreOps
                  /\ DoWith("speed", arg).op \in CoreOps
      /\ Do("configure").op \in CoreOps /\ Do("swap").op \in CoreOps /\ Do("wait").op \in CoreOps
      /\ Do("start").op \in CoreOps
  BY DEF CoreOps, Do, DoWith
<1>1. ASSUME NEW src PROVE ok(SelectClock(src))
  <2>1. ok(IF src = Raw THEN <<Do("configure"), Do("swap")>> ELSE <<>>) /\ ok(<<DoWith("source", src)>>)
    BY <1>0, ShortOps
  <2> QED
    BY <2>1, JoinedOps DEF SelectClock
<1>2. ok(ScpllPowerDown)
  BY <1>0, ShortOps DEF ScpllPowerDown
<1>3. ASSUME NEW l PROVE ok(ScpllSetFreq(l))
  BY <1>0, ShortOps DEF ScpllSetFreq
<1>4. ASSUME NEW l PROVE ok(SetFreq(l))
  <2>1. /\ ok(IF scpll.mode = Normal THEN <<>>
              ELSE <<DoWith("mode", Standby), DoWith("target", 10), Do("start"), Do("wait")>>)
        /\ ok(Hop(l))
    BY <1>0, ShortOps DEF Hop
  <2> QED
    BY <2>1, JoinedOps DEF SetFreq
<1>5. ASSUME NEW i PROVE ok(SetRate(i))
  <2>1. ok(<<DoWith("speed", i)>>)
    BY <1>0, ShortOps
  <2>2. ok(StepAside)
    BY <1>1, ShortOps DEF StepAside
  <2> DEFINE up == StepAside \o ScpllSetFreq(FreqTable[i].l) \o SelectClock(Scpll)
             down == SelectClock(Raw) \o SelectClock(Raw) \o ScpllPowerDown
  <2>3. ok(up) /\ ok(down)
    <3>1. ok(StepAside \o ScpllSetFreq(FreqTable[i].l)) /\ ok(SelectClock(Raw) \o SelectClock(Raw))
      BY <1>1, <1>3, <2>2, JoinedOps
    <3> QED
      BY <1>1, <1>2, <3>1, JoinedOps
  <2> DEFINE it == IF FreqTable[i].sel = Scpll THEN up
                   ELSE IF FreqTable[speed].sel = Scpll THEN down ELSE SelectClock(Raw)
  <2>4. ok(it)
    BY <1>1, <2>3
  <2>5. SetRate(i) = it \o <<DoWith("speed", i)>>
    BY DEF SetRate
  <2> QED
    BY <2>1, <2>4, <2>5, JoinedOps
<1>6. ASSUME NEW i PROVE ok(RampUp(i))
  <2> DEFINE a == <<DoWith("speed", i)>>
             b == a \o SelectClock(Raw)
             d == b \o ScpllPowerDown
             e == d \o ScpllSetFreq(FreqTable[i].l)
  <2>1. ok(a)
    BY <1>0, ShortOps
  <2>2. ok(b)
    BY <1>1, <2>1, JoinedOps
  <2>3. ok(d)
    BY <1>2, <2>2, JoinedOps
  <2>4. ok(e)
    BY <1>3, <2>3, JoinedOps
  <2>5. RampUp(i) = e \o SelectClock(Scpll)
    BY DEF RampUp
  <2> QED
    BY <1>1, <2>4, <2>5, JoinedOps
<1> QED
  BY <1>1, <1>2, <1>3, <1>4, <1>5, <1>6

(* Each operation of a program is one that its context may make.             *)
LEMMA CoreAllowed ==
  ASSUME NEW c, NEW s, OpsIn(s, CoreOps)
  PROVE  IsProgramOf(c, s)
  BY DEF OpsIn, CoreOps, IsProgramOf, Allowed

LEMMA MainPointers ==
  /\ Clocks \cup {"id", "on", "level", "speed", Null} \subseteq Pointers(Main)
  /\ Clocks \cap {"id", "on", "level", "speed", "config", "disable", Null} = {}
  BY TwoContexts, ClockAssumption, ModemAssumption DEF Pointers, Locals

LEMMA SharedAllowed ==
  ASSUME NEW c, NEW command, command \notin {Idle, Done, SetLevel, Switch},
         NEW p \in Pointers(c), NEW q \in Pointers(c), p = q => p = Null,
         p \in Clocks => command \in ForClock, q \notin Clocks
  PROVE  Allowed(c, Call(command, p, q))
<1>1. Call(command, p, q).op = "call" /\ Call(command, p, q).arg = [command |-> command, p1 |-> p, p2 |-> q]
  BY DEF Call, DoWith
<1> QED
  BY <1>1 DEF Allowed

LEMMA LetAllowed ==
  ASSUME NEW c, NEW values, DOMAIN values \subseteq Locals[c]
  PROVE  Allowed(c, Let(values))
  BY DEF Let, DoWith, Allowed

LEMMA OtherAllowed ==
  ASSUME NEW c, NEW op, op \notin {"call", "until", "let"}
  PROVE  Allowed(c, Do(op))
  BY DEF Do, Allowed

LEMMA RailAllowed ==
  /\ Allowed(Main, CallUntil(Switch, "id", "on"))
  /\ Allowed(Main, CallUntil(SetLevel, "id", "level"))
<1>1. ASSUME NEW command \in {SetLevel, Switch}, NEW q \in {"on", "level"},
             q = IF command = SetLevel THEN "level" ELSE "on"
      PROVE  Allowed(Main, CallUntil(command, "id", q))
  <2>1. /\ CallUntil(command, "id", q).op = "until"
        /\ CallUntil(command, "id", q).arg = [command |-> command, p1 |-> "id", p2 |-> q]
    BY DEF CallUntil, DoWith
  <2> QED
    BY <1>1, <2>1, MainPointers DEF Allowed, Idle, Done, SetLevel, Switch
<1> QED
  BY <1>1 DEF SetLevel, Switch

LEMMA ShortAllowed ==
  ASSUME NEW c
  PROVE  /\ \A a : Allowed(c, a) => IsProgramOf(c, <<a>>)
         /\ \A a, b : Allowed(c, a) /\ Allowed(c, b) => IsProgramOf(c, <<a, b>>)
         /\ \A a, b, d : Allowed(c, a) /\ Allowed(c, b) /\ Allowed(c, d) => IsProgramOf(c, <<a, b, d>>)
         /\ \A a, b, d, e : Allowed(c, a) /\ Allowed(c, b) /\ Allowed(c, d) /\ Allowed(c, e) =>
              IsProgramOf(c, <<a, b, d, e>>)
  BY Short DEF IsProgramOf

LEMMA MainLocals == Locals[Main] = {"id", "on", "level", "speed"} /\ Locals[Callback] = {"config", "disable"}
  BY TwoContexts DEF Locals

LEMMA AcpuclkInitAllowed == IsProgramOf(Main, AcpuclkInit \o <<Do("install")>>)
<1> DEFINE a == <<Do("find"), Call(PllRequest, "id", "on"), Let([id |-> 0, on |-> 0]), Call(PllRequest, "id", "on")>>
<1>1. IsProgramOf(Main, a)
  <2>1. Allowed(Main, Call(PllRequest, "id", "on"))
    BY SharedAllowed, MainPointers DEF Idle, Done, PllRequest, SetLevel, Switch
  <2>2. Allowed(Main, Let([id |-> 0, on |-> 0]))
    BY LetAllowed, MainLocals
  <2> QED
    BY <2>1, <2>2, ShortAllowed, OtherAllowed
<1>2. IsProgramOf(Main, CheckMpll) /\ IsProgramOf(Main, <<Do("install")>>)
  BY ShortAllowed, OtherAllowed DEF CheckMpll
<1>3. IsProgramOf(Main, RampUp(Boot))
  BY CorePrograms, CoreAllowed
<1>4. IsProgramOf(Main, a \o CheckMpll)
  BY <1>1, <1>2, JoinedAllowed
<1>5. IsProgramOf(Main, AcpuclkInit)
  BY <1>3, <1>4, JoinedAllowed DEF AcpuclkInit
<1> QED
  BY <1>2, <1>5, JoinedAllowed

LEMMA GpioAllowed ==
  ASSUME NEW n \in Nat
  PROVE  IsProgramOf(Main,
           [k \in 1 .. n |->
              IF k % 2 = 1 THEN Let([id |-> (k + 1) \div 2, on |-> 0]) ELSE Call(TlmmConfig, "id", "on")])
<1> DEFINE s == [k \in 1 .. n |->
              IF k % 2 = 1 THEN Let([id |-> (k + 1) \div 2, on |-> 0]) ELSE Call(TlmmConfig, "id", "on")]
<1>1. Allowed(Main, Call(TlmmConfig, "id", "on"))
  BY SharedAllowed, MainPointers DEF Idle, Done, TlmmConfig, SetLevel, Switch
<1>2. \A x : Allowed(Main, Let([id |-> x, on |-> 0]))
  BY LetAllowed, MainLocals
<1>3. \A i \in DOMAIN s : Allowed(Main, s[i])
  BY <1>1, <1>2
<1>4. DOMAIN s = 1 .. n /\ s = [k \in 1 .. n |-> s[k]]
  OBVIOUS
<1> HIDE DEF s
<1>5. \A k \in 1 .. n : s[k] \in Range(s)
  BY <1>4 DEF Range
<1>6. s \in Seq(Range(s))
  BY <1>4, <1>5
<1> QED
  BY <1>3, <1>6 DEF IsProgramOf, IsProgram, s

LEMMA SetI2cMuxAllowed ==
  IsProgramOf(Callback, <<Let([config |-> 95, disable |-> 0]), Call(TlmmConfig, "config", "disable"),
                          Let([config |-> 96, disable |-> 0]), Call(TlmmConfig, "config", "disable")>>)
<1>1. Allowed(Callback, Call(TlmmConfig, "config", "disable"))
  <2>1. {"config", "disable"} \subseteq Pointers(Callback)
    BY TwoContexts DEF Pointers, Locals
  <2> QED
    BY <2>1, SharedAllowed, MainPointers DEF Idle, Done, TlmmConfig, SetLevel, Switch
<1>2. \A x : Allowed(Callback, Let([config |-> x, disable |-> 0]))
  BY LetAllowed, MainLocals
<1> QED
  BY <1>1, <1>2, ShortAllowed

(* The programs callers start.                                              *)
LEMMA PcomAllowed ==
  ASSUME NEW command \in Commands, NEW x, NEW y
  PROVE  IsProgramOf(Main, Pcom(command, x, y))
<1>1. Allowed(Main, Call(command, "id", "on"))
  BY SharedAllowed, MainPointers, ModemAssumption DEF ForRegulator
<1>2. Allowed(Main, Let([id |-> x, on |-> y]))
  BY LetAllowed, MainLocals
<1> QED
  BY <1>1, <1>2, ShortAllowed DEF Pcom

LEMMA ClocksAllowed ==
  ASSUME NEW id \in Clocks, NEW x
  PROVE  /\ IsProgramOf(Main, <<Call("PCOM_CLK_REGIME_SEC_ENABLE", id, Null)>>)
         /\ IsProgramOf(Main, <<Call("PCOM_CLK_REGIME_SEC_DISABLE", id, Null)>>)
         /\ IsProgramOf(Main, <<Let([speed |-> x]), Call("PCOM_CLK_REGIME_SEC_SEL_SPEED", id, "speed")>>)
<1>1. id # "speed"
  BY ClockAssumption, MainLocals
<1>2. /\ Allowed(Main, Call("PCOM_CLK_REGIME_SEC_ENABLE", id, Null))
      /\ Allowed(Main, Call("PCOM_CLK_REGIME_SEC_DISABLE", id, Null))
      /\ Allowed(Main, Call("PCOM_CLK_REGIME_SEC_SEL_SPEED", id, "speed"))
  BY <1>1, SharedAllowed, MainPointers DEF Idle, Done, SetLevel, Switch, ForClock
<1>3. Allowed(Main, Let([speed |-> x]))
  BY LetAllowed, MainLocals
<1> QED
  BY <1>2, <1>3, ShortAllowed

LEMMA ResetAllowed ==
  ASSUME NEW command \in {"PCOM_RESET_CHIP", "PCOM_POWER_DOWN"}, NEW reason \in {"id", Null}
  PROVE  IsProgramOf(Main, <<Let([id |-> 1]), Call(command, reason, Null), Do("CpuDeadLoop")>>)
<1>1. Allowed(Main, Call(command, reason, Null))
  BY SharedAllowed, MainPointers DEF Idle, Done, SetLevel, Switch
<1>2. Allowed(Main, Let([id |-> 1]))
  BY LetAllowed, MainLocals
<1> QED
  BY <1>1, <1>2, ShortAllowed, OtherAllowed

LEMMA VregAllowed ==
  ASSUME NEW level, NEW state, NEW sets,
         sets = IF state = 1 THEN <<CallUntil(SetLevel, "id", "level")>> ELSE <<>>
  PROVE  /\ IsProgramOf(Main, <<Let([id |-> 1, level |-> level, on |-> state])>> \o sets \o
                              <<CallUntil(Switch, "id", "on")>>)
         /\ IsProgramOf(Main, <<Let([id |-> 1, on |-> state]), CallUntil(Switch, "id", "on")>>)
<1>1. Allowed(Main, Let([id |-> 1, level |-> level, on |-> state])) /\ Allowed(Main, Let([id |-> 1, on |-> state]))
  BY LetAllowed, MainLocals
<1>2. IsProgramOf(Main, sets)
  BY ShortAllowed, RailAllowed, Short DEF IsProgramOf
<1>3. /\ IsProgramOf(Main, <<Let([id |-> 1, level |-> level, on |-> state])>>)
      /\ IsProgramOf(Main, <<CallUntil(Switch, "id", "on")>>)
  BY <1>1, ShortAllowed, RailAllowed
<1>4. IsProgramOf(Main, <<Let([id |-> 1, level |-> level, on |-> state])>> \o sets)
  BY <1>2, <1>3, JoinedAllowed
<1> QED
  BY <1>1, <1>3, <1>4, JoinedAllowed, ShortAllowed, RailAllowed
-----------------------------------------------------------------------------
(* Every action that is not one of a call or of the modem is done between    *)
(* calls.                                                                   *)
LEMMA PopsBetween ==
  ASSUME WordsInv, NEW c \in Contexts, call[c].pc = "idle", todo[c] # <<>>, Next1(c), Stays, UNCHANGED <<call, renamed, disturbed>>,
         DOMAIN mem' = Places, \A p \in Places \ Locals[c] : mem'[p] = mem[p]
  PROVE  Between(c)
<1>1. IsProgramOf(c, Tail(todo[c]))
  BY Popped DEF WordsInv, Typed, IsProgramOf
<1> QED
  BY <1>1 DEF WordsInv, Typed, Between, Next1, Stays, modem

LEMMA MainBetween ==
  ASSUME WordsInv, CoreAccess \/ ScpllSetsFreq \/ FindsAtStart \/ FindsMpllOn \/ Installs
  PROVE  Between(Main)
<1>1. DOMAIN mem' = Places /\ (\A p \in Places \ Locals[Main] : mem'[p] = mem[p]) /\ Main \in Contexts
  BY TwoContexts DEF CoreAccess, ScpllSetsFreq, FindsAtStart, FindsMpllOn, Installs, WordsInv, Typed
<1>2. CASE CoreAccess
  <2>1. Head(todo[Main]).op \notin {"call", "until"}
    BY <1>2 DEF CoreAccess, Access, ConfigureSlot, SwapSlot, SelectSource, WaitForSwitch, WriteMode, WriteTarget,
       StartSwitch, RecordSpeed
  <2>2. call[Main].pc = "idle"
    BY <1>1, <1>2, <2>1, Popped DEF CoreAccess, WordsInv, Calling, Typed
  <2> QED
    BY <1>1, <1>2, <2>2, PopsBetween DEF CoreAccess, history
<1>3. CASE ScpllSetsFreq
  <2>1. todo[Main] # <<>> /\ IsProgramOf(Main, Tail(todo[Main]))
    BY <1>1, <1>3, Popped DEF ScpllSetsFreq, At, WordsInv, Typed, IsProgramOf
  <2>2. IsProgramOf(Main, SetFreq(Head(todo[Main]).arg) \o Tail(todo[Main]))
    BY <2>1, JoinedAllowed, CorePrograms, CoreAllowed
  <2> QED
    BY <1>1, <1>3, <2>2 DEF ScpllSetsFreq, At, WordsInv, Typed, Between, Stays, modem, history
<1>4. CASE FindsAtStart
  BY <1>1, <1>4, PopsBetween DEF FindsAtStart, At, history
<1>5. CASE FindsMpllOn
  BY <1>1, <1>5, PopsBetween DEF FindsMpllOn, At, history
<1>6. CASE Installs
  BY <1>1, <1>6, PopsBetween DEF Installs, At, history
<1> QED
  BY <1>2, <1>3, <1>4, <1>5, <1>6

LEMMA LetsBetween ==
  ASSUME WordsInv, NEW c \in Contexts, Lets(c)
  PROVE  Between(c)
<1>1. todo[c] # <<>> /\ call[c].pc = "idle" /\ Head(todo[c]).op = "let" /\ Next1(c) /\ Stays
      /\ UNCHANGED <<call, renamed, disturbed>>
  BY DEF Lets, At, history
<1>2. DOMAIN Head(todo[c]).arg \subseteq Locals[c]
  BY <1>1, Popped DEF WordsInv, Typed, Allowed
<1>3. DOMAIN mem' = Places /\ \A p \in Places \ Locals[c] : mem'[p] = mem[p]
  BY <1>2 DEF Lets
<1> QED
  BY <1>1, <1>3, PopsBetween

LEMMA StartBetween ==
  ASSUME WordsInv, NEW c \in Contexts, NEW program, IsProgramOf(c, program), todo[c] = <<>>,
         todo' = [todo EXCEPT ![c] = program], Stays, UNCHANGED <<mem, call, renamed, disturbed>>
  PROVE  Between(c)
  BY DEF Between, WordsInv, Typed, Calling, Stays, modem


LEMMA StartsBetween ==
  ASSUME WordsInv,
         \/ \E id \in Clocks : ClkEnable(id) \/ ClkDisable(id) \/ \E rate \in Rates : ClkSetRate(id, rate)
         \/ \E rate \in Rates : AcpuclkSetRate(rate)
         \/ \E command \in Commands : PcomClient(command) \/ \E n \in Instances : PcomSdcardClk(command, n)
         \/ \E n \in Instances : PcomSdcardGpioConfig(n)
         \/ \E state \in {0, 1} : PcomSdcardPower(state) \/ PcomVregControl(1, state)
         \/ LibResetSystem("PCOM_RESET_CHIP", "id") \/ LibResetSystem("PCOM_POWER_DOWN", Null)
  PROVE  Between(Main)
<1>1. ASSUME NEW program, IsProgramOf(Main, program), Start(program)
      PROVE  Between(Main)
  BY <1>1, StartBetween, TwoContexts DEF Start, history
<1>2. ASSUME NEW id \in Clocks, ClkEnable(id) \/ ClkDisable(id) \/ \E rate \in Rates : ClkSetRate(id, rate)
      PROVE  Between(Main)
  BY <1>1, <1>2, ClocksAllowed DEF ClkEnable, ClkDisable, ClkSetRate
<1>3. ASSUME NEW rate \in Rates, AcpuclkSetRate(rate)
      PROVE  Between(Main)
  BY <1>1, <1>3, CorePrograms, CoreAllowed DEF AcpuclkSetRate
<1>4. ASSUME NEW command \in Commands, PcomClient(command) \/ \E n \in Instances : PcomSdcardClk(command, n)
      PROVE  Between(Main)
  BY <1>1, <1>4, PcomAllowed DEF PcomClient, PcomSdcardClk
<1>5. ASSUME NEW n \in Instances, PcomSdcardGpioConfig(n)
      PROVE  Between(Main)
  <2>1. n \in DOMAIN Pins /\ 2 * Pins[n] \in Nat
    BY <1>5 DEF PcomSdcardGpioConfig, Pins
  <2> QED
    BY <1>1, <1>5, <2>1, GpioAllowed DEF PcomSdcardGpioConfig
<1>6. ASSUME NEW state \in {0, 1}, PcomSdcardPower(state) \/ PcomVregControl(1, state)
      PROVE  Between(Main)
  BY <1>1, <1>6, VregAllowed DEF PcomSdcardPower, PcomVregControl
<1>7. ASSUME LibResetSystem("PCOM_RESET_CHIP", "id") \/ LibResetSystem("PCOM_POWER_DOWN", Null)
      PROVE  Between(Main)
  BY <1>1, <1>7, ResetAllowed DEF LibResetSystem
<1> QED
  BY <1>2, <1>3, <1>4, <1>5, <1>6, <1>7

LEMMA WordsInit == Init => WordsInv
<1> SUFFICES ASSUME Init PROVE WordsInv
  OBVIOUS
<1>1. \A c \in Contexts : call[c] = NoCall /\ call[c].pc = "idle" /\ call[c].crossed = FALSE
                          /\ DOMAIN call[c] = CallFields
  BY DEF Init, ModemInit, NoCall, CallFields
<1>2. \A c \in Contexts : IsProgramOf(c, todo[c])
  BY AcpuclkInitAllowed, TwoContexts, Short DEF Init, IsProgramOf
<1>3. DOMAIN call = Contexts /\ DOMAIN todo = Contexts /\ DOMAIN app = WordFields /\ DOMAIN mem = Places
      /\ ~irq /\ work = Nothing /\ app.command = Idle
  BY DEF Init, ModemInit, WordFields
<1>4. Typed
  BY <1>1, <1>2, <1>3 DEF Typed, Pcs, IsProgramOf
<1>5. Calling /\ Arguments /\ Alone /\ ModemStill /\ Stages
  BY <1>1, <1>3, TwoContexts DEF Calling, Arguments, Unread, Before1, Before2, Alone, UsingWords,
     ModemStill, Stages, Stage, Idle, Done
<1> QED
  BY <1>4, <1>5 DEF WordsInv

(* The kinds of steps.                                                     *)
Standing == UNCHANGED <<call, app, irq, work, last, mem, todo, renamed, disturbed, rail, goal>>

LEMMA NextSteps ==
  ASSUME WordsInv, [Next]_vars
  PROVE  \/ Standing
         \/ ModemNext /\ UNCHANGED <<todo, goal>>
         \/ \E c \in Contexts : Begin(c) \/ InCall(c) \/ Back(c) \/ Between(c)
<1>1. CASE UNCHANGED vars
  BY <1>1 DEF vars, modemVars, modem, history, Standing
<1>2. CASE ModemNext /\ UNCHANGED <<coreVars, todo, installed, goal, ran>>
  BY <1>2
<1>3. CASE PllSwitches
  BY <1>3 DEF PllSwitches, Stays, modem, history, Standing
<1>4. ASSUME NEW c \in Contexts, Goes(c)
      PROVE  Begin(c) \/ InCall(c) \/ Back(c) \/ Between(c)
  BY <1>4, LetsBetween DEF Goes
<1>5. CASE MainGoes
  BY <1>4, <1>5, MainBetween, TwoContexts DEF MainGoes
<1>6. CASE SetI2cMux
  BY <1>6, StartBetween, SetI2cMuxAllowed, TwoContexts DEF SetI2cMux, history
<1>7. ASSUME \/ \E id \in Clocks : ClkEnable(id) \/ ClkDisable(id) \/ \E rate \in Rates : ClkSetRate(id, rate)
             \/ \E rate \in Rates : AcpuclkSetRate(rate)
             \/ \E command \in Commands : PcomClient(command) \/ \E n \in Instances : PcomSdcardClk(command, n)
             \/ \E n \in Instances : PcomSdcardGpioConfig(n)
             \/ \E state \in {0, 1} : PcomSdcardPower(state) \/ PcomVregControl(1, state)
             \/ LibResetSystem("PCOM_RESET_CHIP", "id") \/ LibResetSystem("PCOM_POWER_DOWN", Null)
      PROVE  Between(Main)
  BY <1>7, StartsBetween
<1> QED
  BY <1>1, <1>2, <1>3, <1>4, <1>5, <1>6, <1>7, TwoContexts DEF Next

LEMMA WordsKept == WordsInv /\ [Next]_vars => WordsInv'
<1> SUFFICES ASSUME WordsInv, [Next]_vars PROVE WordsInv'
  OBVIOUS
<1>1. CASE Standing
  BY <1>1 DEF Standing, WordsInv, Typed, Calling, Arguments, Unread, ValueAt, Alone,
     ModemStill, Answered, Stages, Undivided, Stage, Words, InFlight, Own, Got
<1>2. CASE ModemNext /\ UNCHANGED <<todo, goal>>
  BY <1>2, ModemKeeps
<1>3. ASSUME NEW c \in Contexts, Begin(c) \/ InCall(c) \/ Back(c) \/ Between(c) PROVE WordsInv'
  BY <1>3, BeginKeeps, BetweenKeeps, StatementsKeep, BackKeeps
<1> QED
  BY <1>1, <1>2, <1>3, NextSteps

(* A call that has come back without having crossed with another was about   *)
(* the very command and arguments that the modem answered, and its arguments *)
(* are that answer, for any clocks, commands and programs.                   *)
THEOREM OwnAnswers == Spec => []OwnAnswer
<1>1. WordsInv => OwnAnswer
  <2> SUFFICES ASSUME WordsInv, NEW c \in Contexts, call[c].pc = "back", ~call[c].crossed
               PROVE  /\ call[c].got.asked = call[c].asked
                      /\ call[c].ret = 0 /\ call[c].p1 # Null => mem[call[c].p1] = call[c].got.data1
                      /\ call[c].ret = 0 /\ call[c].p2 # Null => mem[call[c].p2] = call[c].got.data2
    BY DEF OwnAnswer
  <2>1. Stage(c)
    BY DEF WordsInv, Stages, Undivided
  <2> QED
    BY <2>1 DEF Stage, Got
<1> QED
  BY <1>1, WordsInit, WordsKept, PTL DEF Spec

-----------------------------------------------------------------------------
(* A request for a clock that was answered with another first word is        *)
(* recorded under the number it named, and so is one that was crossed.       *)
Recorded(a) ==
  a.asked.command \in ForClock /\ Differs(a.status, a.asked.data1, a.data1) => a.asked.data1 \in renamed

CrossedRecorded ==
  call[Main].crossed /\ call[Main].command \in ForClock => call[Main].asked.data1 \in renamed

TableInv ==
  /\ TableKept /\ CrossedRecorded
  /\ Recorded(last) /\ \A c \in Contexts : Recorded(call[c].got)

LEMMA NothingRecorded ==
  Recorded(NoAnswer) /\ (renamed' = renamed => Recorded(NoAnswer)')
  BY DEF Recorded, NoAnswer, Nothing, Idle, ForClock

(* An entry that is not written stays, whatever else is recorded.            *)
LEMMA TableFrame ==
  ASSUME TableKept, renamed \subseteq renamed', \A id \in Clocks : mem'[id] = mem[id]
  PROVE  TableKept'
  BY DEF TableKept

LEMMA ModemTable ==
  ASSUME TableInv, ModemNext
  PROVE  TableInv'
<1>1. call' = call /\ mem' = mem
  BY DEF ModemNext, ModemUp, Take, Answer, Succeed, Refuse
<1>2. CASE last' = last /\ renamed' = renamed
  BY <1>1, <1>2, TableFrame DEF TableInv, CrossedRecorded, Recorded
<1>3. ASSUME NEW status, NEW data1, NEW data2, Reply(status, data1, data2) PROVE TableInv'
  <2>1. renamed \subseteq renamed'
    BY <1>3 DEF Reply
  <2>2. Recorded(last)'
    <3>1. last' = [asked |-> work, status |-> status, data1 |-> data1, data2 |-> data2]
      BY <1>3 DEF Reply
    <3>2. work.command \in ForClock /\ Differs(status, work.data1, data1) => work.data1 \in renamed'
      BY <1>3 DEF Reply
    <3> QED
      BY <3>1, <3>2 DEF Recorded
  <2>3. TableKept'
    BY <1>1, <2>1, TableFrame DEF TableInv
  <2> QED
    BY <1>1, <2>1, <2>2, <2>3 DEF TableInv, CrossedRecorded, Recorded
<1>4. CASE ModemUp \/ Take
  BY <1>2, <1>4 DEF ModemUp, Take, history
<1>5. CASE Answer
  BY <1>3, <1>5 DEF Answer, Succeed, Refuse
<1> QED
  BY <1>4, <1>5 DEF ModemNext

(* Only the main program has a clock for an argument, the first one, and     *)
(* only of a request for a clock.                                            *)
LEMMA ClockPointers ==
  ASSUME WordsInv, NEW c \in Contexts, call[c].pc # "idle"
  PROVE  /\ call[c].p2 \notin Clocks
         /\ call[c].p1 \in Clocks => c = Main /\ call[c].command \in ForClock
<1>1. 1 \in DOMAIN todo[c]
  BY Popped DEF WordsInv, Calling, Typed
<1>2. Allowed(c, todo[c][1])
  BY <1>1 DEF WordsInv, Typed
<1>3. call[c].p1 \in Pointers(c)
  BY CallPointers DEF WordsInv
<1>4. call[c].p1 \in Clocks => c = Main
  BY <1>3, ClockAssumption, ModemAssumption, TwoContexts DEF Pointers
<1> QED
  BY <1>2, <1>4 DEF WordsInv, Calling, Allowed

(* What is written into an entry is what was there.                          *)
LEMMA EntryWritten ==
  ASSUME WordsInv, TableInv, ReadData1(Main), call[Main].p1 \in Clocks
  PROVE  LookedUp(call[Main].p1) \in renamed \/ app.data1 = LookedUp(call[Main].p1)
<1> DEFINE me == call[Main]
<1>1. me.pc = "read1" /\ Main \in Contexts
  BY TwoContexts DEF ReadData1, Step
<1>2. me.p1 # Null /\ me.command \in ForClock /\ me.asked.command = me.command
  BY <1>1, ClockPointers, ClockAssumption, ModemAssumption DEF WordsInv, Calling
<1>3. me.asked.data1 = mem[me.p1]
  BY <1>1, <1>2 DEF WordsInv, Arguments, Unread, Before1, ValueAt
<1> SUFFICES ASSUME LookedUp(me.p1) \notin renamed PROVE app.data1 = LookedUp(me.p1)
  OBVIOUS
<1>4. me.asked.data1 = LookedUp(me.p1) /\ me.asked.data1 \notin renamed
  BY <1>3 DEF TableInv, TableKept
<1>5. ~me.crossed
  BY <1>2, <1>4 DEF TableInv, CrossedRecorded
<1>6. Stage(Main)
  BY <1>1, <1>5 DEF WordsInv, Stages, Undivided
<1>7. me.got.asked = me.asked /\ me.got.status # Fail /\ me.got.data1 = app.data1
  BY <1>1, <1>6 DEF Stage, Got
<1>8. Recorded(me.got)
  BY <1>1 DEF TableInv
<1>9. me.got.data1 = me.asked.data1
  BY <1>2, <1>4, <1>7, <1>8 DEF Recorded, Differs
<1> QED
  BY <1>4, <1>7, <1>9

LEMMA StatementsTable ==
  ASSUME WordsInv, TableInv, NEW c \in Contexts, InCall(c)
  PROVE  TableInv'
<1>1. Statement(c) /\ Typed /\ call[c].pc # "idle"
  BY Statements DEF InCall, WordsInv, Statement, InCallPcs
<1>2. call'[c].got \in {last, call[c].got}
  <2>1. CASE ReadStatus(c)
    BY <1>1, <2>1 DEF ReadStatus, Typed, CallFields
  <2>2. CASE ~ReadStatus(c)
    BY <1>1, <2>2, StepMoves DEF InCall, ProcComm, WaitForModemReady, WriteCommand, WriteData1, WriteData2,
       NotifyModem, WaitForDone, ReadData1, ReadData2, ClearCommand
  <2> QED
    BY <2>1, <2>2
<1>3. \A d \in Contexts : Recorded(call'[d].got)
  <2> SUFFICES ASSUME NEW d \in Contexts PROVE Recorded(call'[d].got)
    OBVIOUS
  <2>1. CASE d = c
    BY <1>2, <2>1 DEF TableInv
  <2>2. CASE d # c
    BY <1>1, <2>2 DEF TableInv, Statement, Kept
  <2> QED
    BY <2>1, <2>2
<1>4. renamed' = renamed /\ last' = last
  BY <1>1 DEF Statement
<1>5. CrossedRecorded'
  BY <1>1, <1>4, TwoContexts DEF TableInv, CrossedRecorded, Statement, Kept
<1>6. TableKept'
  <2> SUFFICES ASSUME NEW id \in Clocks PROVE LookedUp(id) \in renamed \/ mem'[id] = LookedUp(id)
    BY <1>4 DEF TableKept
  <2>1. id \in Places /\ (LookedUp(id) \in renamed \/ mem[id] = LookedUp(id))
    BY ClockAssumption DEF TableInv, TableKept
  <2>2. id # call[c].p2 /\ (id = call[c].p1 => c = Main)
    BY <1>1, ClockPointers
  <2>3. CASE id # call[c].p1
    BY <1>1, <2>1, <2>2, <2>3 DEF Statement
  <2>4. CASE id = call[c].p1 /\ ReadData1(c)
    <3>1. LookedUp(id) \in renamed \/ app.data1 = LookedUp(id)
      BY <2>2, <2>4, EntryWritten
    <3>2. mem'[id] = app.data1
      BY <1>1, <2>1, <2>4, ClockAssumption, ModemAssumption DEF ReadData1, Stored, Typed
    <3> QED
      BY <3>1, <3>2
  <2>5. CASE ~ReadData1(c)
    <3>1. mem'[id] = mem[id]
      <4>1. CASE ReadData2(c)
        BY <1>1, <2>1, <2>2, <4>1 DEF ReadData2, Stored, Typed
      <4>2. CASE ~ReadData2(c)
        BY <2>5, <4>2 DEF InCall, ProcComm, WaitForModemReady, WriteCommand, WriteData1, WriteData2,
           NotifyModem, WaitForDone, ReadStatus, ClearCommand
      <4> QED
        BY <4>1, <4>2
    <3> QED
      BY <2>1, <3>1
  <2> QED
    BY <2>3, <2>4, <2>5
<1>7. Recorded(last)' /\ \A d \in Contexts : Recorded(call[d].got)'
  BY <1>3, <1>4 DEF TableInv, Recorded
<1> QED
  BY <1>5, <1>6, <1>7 DEF TableInv

LEMMA BeginTable ==
  ASSUME WordsInv, TableInv, NEW c \in Contexts, Begin(c)
  PROVE  TableInv'
<1>1. Begun(c)
  BY Begins
<1>2. /\ renamed \subseteq renamed'
      /\ Crossing(c) /\ call[Main].command \in ForClock => call[Main].asked.data1 \in renamed'
  BY DEF Begin, Called, Crossing, InUse, UsingWords
<1>3. TableKept'
  BY <1>1, <1>2, TableFrame DEF TableInv, Begun
<1>4. CrossedRecorded'
  <2>1. CASE c = Main
    BY <1>1, <2>1, TwoContexts DEF Begun, Crossing, CrossedRecorded
  <2>2. CASE c = Callback
    BY <1>1, <1>2, <2>2, TwoContexts DEF Begun, TableInv, CrossedRecorded
  <2> QED
    BY <2>1, <2>2, TwoContexts
<1>5. Recorded(last)' /\ \A d \in Contexts : Recorded(call[d].got)'
  <2>1. \A a : Recorded(a) => (a.asked.command \in ForClock /\ Differs(a.status, a.asked.data1, a.data1) =>
                                 a.asked.data1 \in renamed')
    BY <1>2 DEF Recorded
  <2>2. Recorded(last) /\ \A d \in Contexts : Recorded(call'[d].got)
    <3>1. Recorded(call'[c].got)
      BY <1>1, NothingRecorded DEF Begun
    <3>2. \A d \in Contexts \ {c} : Recorded(call'[d].got)
      BY <1>1 DEF TableInv, Begun
    <3> QED
      BY <3>1, <3>2 DEF TableInv
  <2> QED
    BY <1>1, <2>1, <2>2 DEF Recorded, Begun
<1> QED
  BY <1>3, <1>4, <1>5 DEF TableInv

LEMMA BackTable ==
  ASSUME WordsInv, TableInv, NEW c \in Contexts, Back(c)
  PROVE  TableInv'
<1>1. Returned(c)
  BY Returns
<1>2. TableKept'
  <2>1. Clocks \subseteq Places \ Locals[c]
    BY ClockAssumption, TwoContexts
  <2> QED
    BY <1>1, <2>1, TableFrame DEF TableInv, Returned
<1>3. CrossedRecorded'
  BY <1>1, TwoContexts DEF TableInv, CrossedRecorded, Returned, NoCall
<1>4. Recorded(last)'
  BY <1>1, NothingRecorded DEF Returned, Recorded
<1>5. ASSUME NEW d \in Contexts PROVE Recorded(call[d].got)'
  <2>1. CASE d = c
    <3>1. call'[d].got = NoAnswer
      BY <1>1, <2>1 DEF Returned, NoCall
    <3> QED
      BY <1>1, <3>1, NothingRecorded DEF Returned, Recorded
  <2>2. CASE d # c
    BY <1>1, <2>2 DEF TableInv, Returned, Recorded
  <2> QED
    BY <2>1, <2>2
<1> QED
  BY <1>2, <1>3, <1>4, <1>5 DEF TableInv

LEMMA BetweenTable ==
  ASSUME TableInv, NEW c \in Contexts, Between(c)
  PROVE  TableInv'
<1>1. Clocks \subseteq Places \ Locals[c]
  BY ClockAssumption, TwoContexts
<1>2. TableKept'
  BY <1>1, TableFrame DEF TableInv, Between
<1> QED
  BY <1>2 DEF TableInv, CrossedRecorded, Recorded, Between

LEMMA TableInit == Init => TableInv
<1> SUFFICES ASSUME Init PROVE TableInv
  OBVIOUS
<1>1. \A c \in Contexts : call[c].crossed = FALSE /\ call[c].got = NoAnswer
  BY DEF Init, ModemInit, NoCall
<1>2. last = NoAnswer /\ \A id \in Clocks : mem[id] = LookedUp(id)
  BY ClockAssumption DEF Init, ModemInit
<1> QED
  BY <1>1, <1>2, TwoContexts, NothingRecorded DEF TableInv, TableKept, CrossedRecorded

LEMMA TableStep == WordsInv /\ TableInv /\ [Next]_vars => TableInv'
<1> SUFFICES ASSUME WordsInv, TableInv, [Next]_vars PROVE TableInv'
  OBVIOUS
<1>1. CASE Standing
  BY <1>1, TableFrame DEF Standing, TableInv, CrossedRecorded, Recorded
<1> QED
  BY <1>1, NextSteps, ModemTable, BeginTable, StatementsTable, BackTable, BetweenTable

(* Whatever the modem answers, an entry of the table of clocks stops naming  *)
(* its clock only if a request for that clock was answered, other than by    *)
(* plain failure, with another first word or was crossed by a call of the    *)
(* callback, for any clocks, words and programs.                             *)
THEOREM TableStaysKept == Spec => []TableKept
<1>1. TableInv => TableKept
  BY DEF TableInv
<1> QED
  BY <1>1, WordsInit, WordsKept, TableInit, TableStep, PTL DEF Spec

-----------------------------------------------------------------------------
(* A call for the regulator that is still to be made follows the assignment  *)
(* of its arguments with no other in between.                               *)
IsRail(o) == o.op \in {"call", "until"} /\ o.arg.command \in {SetLevel, Switch}
NoRail(s) == \A i \in DOMAIN s : ~IsRail(s[i])
Pending(command) == \E i \in DOMAIN todo[Main] : IsRail(todo[Main][i]) /\ todo[Main][i].arg.command = command

RailShape ==
  LET t == todo[Main] IN
  \A i \in DOMAIN t : IsRail(t[i]) =>
    /\ \A j \in 2 .. i : IsRail(t[j])
    /\ t[1].op = "let" \/ IsRail(t[1])
    /\ t[1].op = "let" => /\ "id" \in DOMAIN t[1].arg /\ t[1].arg["id"] = Regulator
                          /\ "on" \in DOMAIN t[1].arg /\ t[1].arg["on"] = goal.on
                          /\ t[i].arg.command = SetLevel =>
                               "level" \in DOMAIN t[1].arg /\ t[1].arg["level"] = goal.level
    /\ IsRail(t[1]) => /\ mem["id"] = Regulator /\ mem["on"] = goal.on
                       /\ t[i].arg.command = SetLevel => mem["level"] = goal.level

RailAsAsked(command) ==
  IF command = SetLevel THEN rail.level = goal.level ELSE rail.on = goal.on

(* What is no longer pending has been done.                                 *)
RailDone == \A command \in {SetLevel, Switch} : Pending(command) \/ RailAsAsked(command)

(* A call for the regulator that has been answered with success has done it. *)
RailAnswered ==
  call[Main].command \in ForRegulator =>
    /\ call[Main].pc \in {"read1", "read2", "clear", "back"} /\ call[Main].got.status = Success =>
         RailAsAsked(call[Main].command)
    /\ call[Main].pc = "status" \/ (call[Main].pc = "done" /\ app.command = Done) =>
         (last.status = Success => RailAsAsked(call[Main].command))

(* A request for the regulator is in the words or with the modem only while  *)
(* the main program makes it; when its answer differs, or another call       *)
(* crosses it, that is recorded.                                             *)
OnlyOfMain ==
  app.command \in ForRegulator \/ work.command \in ForRegulator =>
    call[Main].command \in ForRegulator /\ call[Main].pc \in {"data1", "data2", "notify", "done"}

Echoed(a) ==
  a.asked.command \in ForRegulator /\ ~disturbed =>
    ~Differs(a.status, a.asked.data1, a.data1) /\ ~Differs(a.status, a.asked.data2, a.data2)

Undivided1 == call[Main].crossed /\ call[Main].command \in ForRegulator => disturbed

RailWords == OnlyOfMain /\ Undivided1 /\ Echoed(last) /\ Echoed(call[Main].got)

RailInv ==
  /\ DOMAIN rail = {"level", "on"} /\ DOMAIN goal = {"level", "on"}
  /\ ~disturbed => RailShape /\ RailDone /\ RailAnswered

LEMMA RailPlaces ==
  /\ {"id", "on", "level"} \subseteq Places /\ {"id", "on", "level"} \cap Locals[Callback] = {}
  /\ Null \notin {"id", "on", "level"}
  /\ SetLevel # Switch /\ ForRegulator = {SetLevel, Switch}
  BY ClockAssumption, ModemAssumption, MainLocals DEF SetLevel, Switch, ForRegulator

LEMMA RegulatorCommands ==
  Idle \notin ForRegulator /\ Done \notin ForRegulator
  BY DEF Idle, Done, ForRegulator, SetLevel, Switch

(* The regulator's part does not see the other steps.                       *)
LEMMA RailFrame ==
  ASSUME RailShape, RailDone, UNCHANGED <<rail, goal>>, todo'[Main] = todo[Main],
         mem'["id"] = mem["id"], mem'["on"] = mem["on"], mem'["level"] = mem["level"]
  PROVE  RailShape' /\ RailDone'
<1>1. RailShape'
  BY DEF RailShape
<1>2. RailDone'
  BY DEF RailDone, Pending, RailAsAsked
<1> QED
  BY <1>1, <1>2

LEMMA RailCommand ==
  ASSUME WordsInv, call[Main].pc # "idle", call[Main].command \in {SetLevel, Switch}
  PROVE  /\ IsRail(todo[Main][1]) /\ 1 \in DOMAIN todo[Main] /\ todo[Main][1].op = "until"
         /\ call[Main].p1 = "id"
         /\ call[Main].p2 = IF call[Main].command = SetLevel THEN "level" ELSE "on"
         /\ call[Main].p2 # Null
<1>1. 1 \in DOMAIN todo[Main] /\ Main \in Contexts
  BY Popped, TwoContexts DEF WordsInv, Calling, Typed
<1>2. Allowed(Main, todo[Main][1]) /\ call[Main].command = todo[Main][1].arg.command
      /\ call[Main].p1 = todo[Main][1].arg.p1
      /\ call[Main].p2 = todo[Main][1].arg.p2 /\ todo[Main][1].op \in {"call", "until"}
  BY <1>1 DEF WordsInv, Calling, Typed
<1> QED
  BY <1>1, <1>2, RailPlaces, ModemAssumption DEF Allowed, IsRail

LEMMA CallbackCommand ==
  ASSUME WordsInv, call[Callback].pc # "idle"
  PROVE  call[Callback].command \notin {SetLevel, Switch}
<1>1. 1 \in DOMAIN todo[Callback] /\ Callback \in Contexts
  BY Popped, TwoContexts DEF WordsInv, Calling, Typed
<1>2. Allowed(Callback, todo[Callback][1]) /\ call[Callback].command = todo[Callback][1].arg.command
      /\ todo[Callback][1].op \in {"call", "until"}
  BY <1>1 DEF WordsInv, Calling, Typed
<1> QED
  BY <1>1, <1>2, TwoContexts DEF Allowed

(* While a call for something else is made none for the regulator waits.     *)
LEMMA OtherCall ==
  ASSUME WordsInv, RailShape, call[Main].pc # "idle", call[Main].command \notin {SetLevel, Switch}
  PROVE  NoRail(todo[Main])
<1>1. todo[Main][1].op \in {"call", "until"} /\ todo[Main][1].arg.command = call[Main].command
  BY TwoContexts DEF WordsInv, Calling
<1> QED
  BY <1>1 DEF RailShape, NoRail, IsRail

LEMMA NoRailDone ==
  ASSUME RailDone, NoRail(todo[Main])
  PROVE  RailAsAsked(SetLevel) /\ RailAsAsked(Switch)
  BY DEF RailDone, NoRail, Pending

LEMMA NoRailKept ==
  ASSUME RailDone, NoRail(todo[Main]), NoRail(todo'[Main]), UNCHANGED <<rail, goal>>
  PROVE  RailShape' /\ RailDone'
<1>1. RailShape'
  BY DEF RailShape, NoRail
<1>2. RailDone'
  BY NoRailDone DEF RailDone, RailAsAsked, SetLevel, Switch
<1> QED
  BY <1>1, <1>2

(* What a statement leaves of command, status and answer.                   *)
LEMMA StatementStatus ==
  ASSUME WordsInv, NEW c \in Contexts, InCall(c)
  PROVE  /\ app'.command = Done => app.command = Done
         /\ app'.command \in {app.command, Idle, call[c].command} /\ UNCHANGED <<work, rail>>
         /\ app'.command # app.command => app'.command = Idle \/ call'[c].pc = "data1"
         /\ call'[c].pc \in {"data1", "data2", "notify", "done"} =>
              call[c].pc \in {"command", "data1", "data2", "notify"}
         /\ call[c].pc \in {"data1", "data2", "notify"} =>
              call'[c].pc \in {"data2", "notify", "done"} /\ app'.command = app.command
         /\ call[c].pc = "done" => app.command = Done
         /\ call'[c].pc \in {"read1", "read2", "clear", "back"} =>
              \/ call[c].pc = "status" /\ call'[c].got = last
              \/ call[c].pc \in {"read1", "read2", "clear"} /\ call'[c].got = call[c].got
         /\ call'[c].pc = "status" => call[c].pc = "done" /\ app.command = Done
         /\ call'[c].pc = "done" => call[c].pc = "notify" /\ app' = app
         /\ call'[c].got \in {last, call[c].got}
<1> USE DEF modem, ProcComm, InCall
<1>1. Typed /\ app.command = app.command
  BY DEF WordsInv
<1>2. CASE WaitForModemReady(c)
  BY <1>1, <1>2, StepMoves DEF WaitForModemReady
<1>3. CASE WriteCommand(c)
  <2>1. /\ call[c].pc = "command" /\ call'[c].pc = "data1" /\ call'[c].got = call[c].got
        /\ app'.command = call[c].command /\ UNCHANGED <<work, rail>>
    BY <1>1, <1>3, StepMoves DEF WriteCommand, Typed, WordFields
  <2>2. call[c].command # Done
    BY <2>1, CallPointers DEF WordsInv
  <2> QED
    BY <2>1, <2>2
<1>4. CASE WriteData1(c) \/ WriteData2(c)
  BY <1>1, <1>4, StepMoves DEF WriteData1, WriteData2, Typed, WordFields
<1>5. CASE NotifyModem(c) \/ WaitForDone(c)
  BY <1>1, <1>5, StepMoves DEF NotifyModem, WaitForDone, ModemIsDone
<1>6. CASE ReadStatus(c)
  BY <1>1, <1>6 DEF ReadStatus, Typed, CallFields
<1>7. CASE ReadData1(c) \/ ReadData2(c)
  BY <1>1, <1>7, StepMoves DEF ReadData1, ReadData2
<1>8. CASE ClearCommand(c)
  <2>1. app'.command = Idle /\ Idle # Done
    BY <1>1, <1>8 DEF ClearCommand, Typed, WordFields, Idle, Done
  <2> QED
    BY <1>1, <1>8, <2>1, StepMoves DEF ClearCommand
<1> QED
  BY <1>2, <1>3, <1>4, <1>5, <1>6, <1>7, <1>8

LEMMA NothingEchoed ==
  Echoed(NoAnswer)
  BY DEF Echoed, NoAnswer, Nothing, Idle, ForRegulator, SetLevel, Switch

LEMMA EchoedStays ==
  ASSUME NEW a, Echoed(a), disturbed => disturbed'
  PROVE  a.asked.command \in ForRegulator /\ ~disturbed' =>
           ~Differs(a.status, a.asked.data1, a.data1) /\ ~Differs(a.status, a.asked.data2, a.data2)
  BY DEF Echoed

LEMMA ModemRailWords ==
  ASSUME WordsInv, RailWords, ModemNext
  PROVE  RailWords'
<1>1. call' = call
  BY DEF ModemNext, ModemUp, Take, Answer, Succeed, Refuse
<1>2. CASE ModemUp
  BY <1>1, <1>2 DEF ModemUp, history, RailWords, OnlyOfMain, Undivided1, Echoed
<1>3. CASE Take
  <2>1. work'.command \in ForRegulator => app.command \in ForRegulator
    BY <1>3, RegulatorCommands DEF Take, Nothing
  <2> QED
    BY <1>1, <1>3, <2>1 DEF Take, history, RailWords, OnlyOfMain, Undivided1, Echoed
<1>4. ASSUME NEW status, NEW data1, NEW data2, Reply(status, data1, data2) PROVE RailWords'
  <2>1. app'.command \notin ForRegulator /\ work'.command \notin ForRegulator
    BY <1>4, RegulatorCommands DEF Reply, Nothing
  <2>2. disturbed => disturbed'
    BY <1>4 DEF Reply
  <2>3. Echoed(last)'
    <3>1. last' = [asked |-> work, status |-> status, data1 |-> data1, data2 |-> data2]
      BY <1>4 DEF Reply
    <3>2. work.command \in ForRegulator /\ ~disturbed' =>
            ~Differs(status, work.data1, data1) /\ ~Differs(status, work.data2, data2)
      BY <1>4 DEF Reply
    <3> QED
      BY <3>1, <3>2 DEF Echoed
  <2>4. Echoed(call[Main].got)'
    BY <1>1, <2>2, EchoedStays DEF RailWords, Echoed
  <2> QED
    BY <1>1, <2>1, <2>2, <2>3, <2>4 DEF RailWords, OnlyOfMain, Undivided1
<1>5. CASE Answer
  BY <1>4, <1>5 DEF Answer, Succeed, Refuse
<1> QED
  BY <1>2, <1>3, <1>5 DEF ModemNext

LEMMA StatementsRailWords ==
  ASSUME WordsInv, RailWords, NEW c \in Contexts, InCall(c)
  PROVE  RailWords'
<1>1. Statement(c) /\ call[c].pc # "idle" /\ UNCHANGED <<last, disturbed>>
  BY Statements DEF InCall, WordsInv, Statement, InCallPcs
<1>2. call'[Main].got \in {last, call[Main].got} /\ call'[Main].crossed = call[Main].crossed
      /\ call'[Main].command = call[Main].command
  <2>1. CASE c = Main
    BY <1>1, <2>1, StatementStatus DEF Statement, Kept
  <2>2. CASE c = Callback
    BY <1>1, <2>2, TwoContexts DEF Statement, Kept
  <2> QED
    BY <2>1, <2>2, TwoContexts
<1>3. Echoed(last)' /\ Echoed(call[Main].got)' /\ Undivided1'
  BY <1>1, <1>2 DEF RailWords, Echoed, Undivided1
<1>4. OnlyOfMain'
  <2> SUFFICES ASSUME app'.command \in ForRegulator \/ work'.command \in ForRegulator
               PROVE  call[Main].command \in ForRegulator /\ call'[Main].pc \in {"data1", "data2", "notify", "done"}
    BY <1>2 DEF OnlyOfMain
  <2>1. CASE c = Callback
    <3>1. call'[Main].pc = call[Main].pc /\ call[c].command \notin ForRegulator
      BY <1>1, <2>1, CallbackCommand, RailPlaces, TwoContexts DEF Statement, Kept
    <3>2. app'.command \in ForRegulator => app.command \in ForRegulator
      BY <3>1, StatementStatus, RegulatorCommands
    <3> QED
      BY <3>1, <3>2, StatementStatus DEF RailWords, OnlyOfMain
  <2>2. CASE c = Main
    <3>1. CASE app'.command # app.command
      <4>1. app'.command = Idle \/ (app'.command = call[Main].command /\ call'[Main].pc = "data1")
        BY <2>2, <3>1, StatementStatus
      <4>2. CASE app'.command = Idle
        <5>1. work.command \in ForRegulator
          BY <4>2, StatementStatus, RegulatorCommands
        <5>2. call[Main].pc \in {"data1", "data2", "notify", "done"}
          BY <5>1 DEF RailWords, OnlyOfMain
        <5>3. call[Main].pc # "done"
          BY <2>2, <5>1, StatementStatus, RegulatorCommands DEF WordsInv, ModemStill, Nothing
        <5> QED
          BY <2>2, <3>1, <5>2, <5>3, StatementStatus
      <4>3. CASE app'.command = call[Main].command /\ call'[Main].pc = "data1" /\ app'.command # Idle
        <5>1. call[Main].command \in ForRegulator
          <6>1. work' = work
            BY StatementStatus
          <6> QED
            BY <4>3, <6>1 DEF RailWords, OnlyOfMain
        <5> QED
          BY <4>3, <5>1
      <4> QED
        BY <4>1, <4>2, <4>3
    <3>2. CASE app'.command = app.command
      <4>1. call[Main].command \in ForRegulator /\ call[Main].pc \in {"data1", "data2", "notify", "done"}
        BY <3>2, StatementStatus DEF RailWords, OnlyOfMain
      <4>2. call[Main].pc # "done"
        <5>1. call[Main].pc = "done" => app.command = Done /\ work = Nothing
          BY <2>2, StatementStatus DEF WordsInv, ModemStill
        <5> QED
          BY <3>2, <5>1, StatementStatus, RegulatorCommands DEF Nothing
      <4> QED
        BY <2>2, <4>1, <4>2, StatementStatus
    <3> QED
      BY <3>1, <3>2
  <2> QED
    BY <2>1, <2>2, TwoContexts
<1> QED
  BY <1>3, <1>4 DEF RailWords

LEMMA BeginRailWords ==
  ASSUME WordsInv, RailWords, NEW c \in Contexts, Begin(c)
  PROVE  RailWords'
<1>1. Begun(c)
  BY Begins
<1>2. disturbed' = (disturbed \/ (Crossing(c) /\ call[Main].command \in ForRegulator))
  BY DEF Begin, Called, Crossing, InUse, UsingWords
<1>3. Echoed(last)'
  BY <1>1, <1>2, EchoedStays DEF RailWords, Echoed, Begun
<1>4. CASE c = Main
  <2>1. app.command \notin ForRegulator /\ work.command \notin ForRegulator
    BY <1>1, <1>4 DEF RailWords, OnlyOfMain, Begun
  <2>2. call'[Main].got = NoAnswer /\ call'[Main].crossed = FALSE
    BY <1>1, <1>4, TwoContexts DEF Begun, Crossing
  <2>3. Echoed(call[Main].got)'
    BY <1>2, <2>2, NothingEchoed, EchoedStays DEF Echoed
  <2> QED
    BY <1>1, <1>3, <2>1, <2>2, <2>3 DEF RailWords, OnlyOfMain, Undivided1, Begun
<1>5. CASE c = Callback
  <2>1. /\ call'[Main].got = call[Main].got /\ call'[Main].command = call[Main].command
        /\ call'[Main].pc = call[Main].pc /\ call'[Main].crossed = (Crossing(c) \/ call[Main].crossed)
        /\ UNCHANGED <<app, work>>
    BY <1>1, <1>5, TwoContexts DEF Begun
  <2>2. Echoed(call[Main].got)'
    BY <1>2, <2>1, EchoedStays DEF RailWords, Echoed
  <2>3. OnlyOfMain'
    BY <2>1 DEF RailWords, OnlyOfMain
  <2>4. Undivided1'
    BY <1>2, <2>1 DEF RailWords, Undivided1
  <2> QED
    BY <1>3, <2>2, <2>3, <2>4 DEF RailWords
<1> QED
  BY <1>4, <1>5, TwoContexts

LEMMA BackRailWords ==
  ASSUME WordsInv, RailWords, NEW c \in Contexts, Back(c)
  PROVE  RailWords'
<1>1. Returned(c) /\ (disturbed => disturbed')
  BY Returns DEF Back
<1>2. Echoed(last)'
  BY <1>1, NothingEchoed, EchoedStays DEF Returned, Echoed
<1>3. CASE c = Main
  <2>1. app.command \notin ForRegulator /\ work.command \notin ForRegulator
    BY <1>1, <1>3 DEF RailWords, OnlyOfMain, Returned
  <2>2. call'[Main].got = NoAnswer /\ call'[Main].crossed = FALSE
    BY <1>1, <1>3 DEF Returned, NoCall
  <2>3. Echoed(call[Main].got)'
    BY <1>1, <2>2, NothingEchoed, EchoedStays DEF Echoed
  <2> QED
    BY <1>1, <1>2, <2>1, <2>2, <2>3 DEF RailWords, OnlyOfMain, Undivided1, Returned
<1>4. CASE c = Callback
  <2>1. call'[Main] = call[Main] /\ UNCHANGED <<app, work>>
    BY <1>1, <1>4, TwoContexts DEF Returned
  <2>2. Echoed(call[Main].got)'
    BY <1>1, <2>1, EchoedStays DEF RailWords, Echoed
  <2> QED
    BY <1>1, <1>2, <2>1, <2>2 DEF RailWords, OnlyOfMain, Undivided1
<1> QED
  BY <1>3, <1>4, TwoContexts

LEMMA RailWordsStep == WordsInv /\ RailWords /\ [Next]_vars => RailWords'
<1> SUFFICES ASSUME WordsInv, RailWords, [Next]_vars PROVE RailWords'
  OBVIOUS
<1>1. CASE Standing
  BY <1>1 DEF Standing, RailWords, OnlyOfMain, Undivided1, Echoed
<1>2. ASSUME NEW c \in Contexts, Between(c) PROVE RailWords'
  BY <1>2 DEF Between, RailWords, OnlyOfMain, Undivided1, Echoed
<1> QED
  BY <1>1, <1>2, NextSteps, ModemRailWords, BeginRailWords, StatementsRailWords, BackRailWords

LEMMA RailWordsInit == Init => RailWords
<1> SUFFICES ASSUME Init PROVE RailWords
  OBVIOUS
<1>1. /\ call[Main].crossed = FALSE /\ call[Main].got = NoAnswer /\ last = NoAnswer
      /\ app.command = Idle /\ work.command = Idle
  BY TwoContexts DEF Init, ModemInit, NoCall, Nothing
<1> QED
  BY <1>1, NothingEchoed, RegulatorCommands DEF RailWords, OnlyOfMain, Undivided1

(* The main program's request for the regulator, while nothing disturbs it,   *)
(* goes its way alone and asks for what the caller has asked.                *)
LEMMA RailRequest ==
  ASSUME WordsInv, RailWords, RailInv, ~disturbed,
         call[Main].pc # "idle", call[Main].command \in ForRegulator
  PROVE  /\ ~call[Main].crossed /\ Stage(Main) /\ Unread(Main)
         /\ call[Main].asked.command = call[Main].command /\ call[Main].p1 = "id"
         /\ call[Main].p2 = IF call[Main].command = SetLevel THEN "level" ELSE "on"
         /\ mem["id"] = Regulator /\ mem["on"] = goal.on
         /\ call[Main].command = SetLevel => mem["level"] = goal.level
<1>1. ~call[Main].crossed /\ Main \in Contexts
  BY TwoContexts DEF RailWords, Undivided1
<1>2. Stage(Main) /\ Unread(Main) /\ call[Main].asked.command = call[Main].command
  BY <1>1 DEF WordsInv, Stages, Undivided, Arguments, Calling
<1>3. /\ IsRail(todo[Main][1]) /\ 1 \in DOMAIN todo[Main] /\ todo[Main][1].arg.command = call[Main].command
      /\ call[Main].p1 = "id" /\ call[Main].p2 = IF call[Main].command = SetLevel THEN "level" ELSE "on"
  BY <1>1, RailCommand, RailPlaces DEF WordsInv, Calling
<1>4. RailShape
  BY DEF RailInv
<1> QED
  BY <1>1, <1>2, <1>3, <1>4 DEF RailShape

(* The modem sets the regulator as it was asked.                             *)
LEMMA ModemRail ==
  ASSUME WordsInv, RailWords, RailInv, ModemNext, UNCHANGED <<todo, goal>>
  PROVE  RailInv'
<1>1. call' = call /\ mem' = mem
  BY DEF ModemNext, ModemUp, Take, Answer, Succeed, Refuse
<1>2. CASE ModemUp \/ Take
  <2>1. UNCHANGED <<rail, app, last, disturbed>>
    BY <1>2 DEF ModemUp, Take, history
  <2> QED
    BY <1>1, <2>1, RailFrame DEF RailInv, RailAnswered, RailAsAsked
<1>3. ASSUME NEW status, NEW data1, NEW data2, Reply(status, data1, data2), work # Nothing,
             DOMAIN rail' = {"level", "on"},
             rail' = rail \/ status = Success,
             status = Success =>
               rail' = CASE work.command = SetLevel /\ work.data1 = Regulator -> [rail EXCEPT !.level = work.data2]
                         [] work.command = Switch /\ work.data1 = Regulator -> [rail EXCEPT !.on = work.data2]
                         [] OTHER -> rail
      PROVE  RailInv'
  <2>1. /\ last'.status = status /\ app'.command = Done /\ (disturbed => disturbed')
    BY <1>3 DEF Reply
  <2> SUFFICES ASSUME ~disturbed' PROVE RailShape' /\ RailDone' /\ RailAnswered'
    BY <1>3 DEF RailInv
  <2>2. ~disturbed /\ RailShape /\ RailDone /\ RailAnswered
    BY <2>1 DEF RailInv
  <2>3. RailShape'
    BY <1>1, <2>2 DEF RailShape
  <2>4. CASE status # Success
    BY <1>1, <1>3, <2>1, <2>2, <2>3, <2>4 DEF RailDone, RailAnswered, Pending, RailAsAsked
  <2>5. CASE status = Success /\ work.command \notin ForRegulator
    <3>1. rail' = rail
      BY <1>3, <2>5, RailPlaces
    <3>2. call[Main].command \in ForRegulator => call[Main].pc \notin {"status", "done"}
      <4> SUFFICES ASSUME call[Main].command \in ForRegulator, call[Main].pc \in {"status", "done"} PROVE FALSE
        OBVIOUS
      <4>1. Stage(Main) /\ call[Main].asked.command = call[Main].command
        BY <2>2, RailRequest
      <4>2. work = call[Main].asked
        BY <1>3, <4>1 DEF Stage, InFlight, Answered
      <4> QED
        BY <2>5, <4>1, <4>2
    <3> QED
      BY <1>1, <2>2, <2>3, <3>1, <3>2 DEF RailDone, RailAnswered, Pending, RailAsAsked
  <2>6. CASE status = Success /\ work.command \in ForRegulator
    <3>1. call[Main].command \in ForRegulator /\ call[Main].pc \in {"data1", "data2", "notify", "done"}
      BY <2>6 DEF RailWords, OnlyOfMain
    <3>2. /\ ~call[Main].crossed /\ Stage(Main) /\ Unread(Main)
          /\ call[Main].asked.command = call[Main].command /\ call[Main].p1 = "id"
          /\ call[Main].p2 = IF call[Main].command = SetLevel THEN "level" ELSE "on"
          /\ mem["id"] = Regulator /\ mem["on"] = goal.on
          /\ call[Main].command = SetLevel => mem["level"] = goal.level
      BY <2>2, <3>1, RailRequest
    <3>3. call[Main].pc = "done"
      BY <1>3, <3>1, <3>2, OnlyDone, TwoContexts DEF Undivided, UsingWords
    <3>4. work = call[Main].asked
      BY <1>3, <3>2, <3>3 DEF Stage, InFlight, Answered
    <3>5. work.data1 = Regulator
      BY <3>2, <3>3, <3>4, RailPlaces DEF Unread, Before1, ValueAt
    <3>6. work.data2 = IF work.command = SetLevel THEN goal.level ELSE goal.on
      <4>1. work.data2 = mem[call[Main].p2]
        BY <3>2, <3>3, <3>4, RailPlaces DEF Unread, Before1, Before2, ValueAt
      <4> QED
        BY <3>2, <3>4, <4>1, <3>1, RailPlaces
    <3>7. rail' = IF work.command = SetLevel THEN [rail EXCEPT !.level = work.data2]
                  ELSE [rail EXCEPT !.on = work.data2]
      BY <1>3, <2>6, <3>5, RailPlaces
    <3>8. \A command : command = work.command => RailAsAsked(command)'
      BY <2>6, <3>6, <3>7, RailPlaces DEF RailInv, RailAsAsked
    <3>9. \A command \in {SetLevel, Switch} : RailAsAsked(command) => RailAsAsked(command)'
      BY <2>6, <3>6, <3>7, RailPlaces DEF RailInv, RailAsAsked
    <3>10. RailDone'
      BY <1>1, <2>2, <3>9 DEF RailDone, Pending
    <3>11. RailAnswered'
      BY <1>1, <3>2, <3>3, <3>4, <3>8 DEF RailAnswered
    <3> QED
      BY <2>3, <3>10, <3>11
  <2> QED
    BY <2>4, <2>5, <2>6
<1>4. ASSUME NEW data1, NEW data2, Succeed(data1, data2), work # Nothing PROVE RailInv'
  <2>1. DOMAIN rail' = {"level", "on"}
    BY <1>4 DEF Succeed, RailInv
  <2> QED
    BY <1>3, <1>4, <2>1 DEF Succeed
<1>5. ASSUME NEW status \in {Fail, OtherFail}, NEW data1, NEW data2, Refuse(status, data1, data2), work # Nothing
      PROVE  RailInv'
  BY <1>3, <1>5 DEF Refuse, RailInv, Fail, OtherFail, Success
<1>6. CASE Answer
  BY <1>4, <1>5, <1>6 DEF Answer
<1> QED
  BY <1>2, <1>6 DEF ModemNext

(* What a request for the regulator writes is what was there.                *)
LEMMA RailWritten ==
  ASSUME WordsInv, RailWords, RailInv, ~disturbed, call[Main].command \in ForRegulator, InCall(Main)
  PROVE  \A p \in Places : mem'[p] = mem[p]
<1> DEFINE me == call[Main]
<1>1. Typed /\ me.pc # "idle" /\ Main \in Contexts
  BY Statements, TwoContexts DEF InCall, WordsInv, Statement, InCallPcs
<1>2. /\ Stage(Main) /\ Unread(Main) /\ me.asked.command = me.command
      /\ me.p1 = "id" /\ me.p2 \in {"level", "on"}
  BY <1>1, RailRequest
<1>3. Echoed(me.got)
  BY DEF RailWords
<1>4. CASE ReadData1(Main)
  <2>1. me.pc = "read1" /\ mem' = Stored(me.p1, app.data1)
    BY <1>4 DEF ReadData1, Step
  <2>2. app.data1 = me.asked.data1
    BY <1>2, <1>3, <2>1 DEF Stage, Got, Echoed, Differs
  <2>3. me.asked.data1 = mem["id"]
    BY <1>2, <2>1, RailPlaces DEF Unread, Before1, ValueAt
  <2> QED
    BY <1>1, <1>2, <2>1, <2>2, <2>3 DEF Stored, Typed
<1>5. CASE ReadData2(Main)
  <2>1. me.pc = "read2" /\ mem' = Stored(me.p2, app.data2)
    BY <1>5 DEF ReadData2, Step
  <2>2. app.data2 = me.asked.data2
    BY <1>2, <1>3, <2>1 DEF Stage, Got, Echoed, Differs
  <2>3. me.asked.data2 = mem[me.p2]
    BY <1>2, <2>1, RailPlaces DEF Unread, Before2, ValueAt
  <2> QED
    BY <1>1, <1>2, <2>1, <2>2, <2>3 DEF Stored, Typed
<1>6. CASE ~ReadData1(Main) /\ ~ReadData2(Main)
  BY <1>6 DEF InCall, ProcComm, WaitForModemReady, WriteCommand, WriteData1, WriteData2, NotifyModem, WaitForDone,
     ReadStatus, ClearCommand
<1> QED
  BY <1>4, <1>5, <1>6

(* A statement does not touch it.                                           *)
LEMMA StatementsRail ==
  ASSUME WordsInv, RailWords, RailInv, NEW c \in Contexts, InCall(c)
  PROVE  RailInv'
<1>1. Statement(c) /\ UNCHANGED <<todo, rail, goal, disturbed, last>> /\ call[c].pc # "idle"
  BY Statements DEF InCall, WordsInv, Statement, InCallPcs
<1> SUFFICES ASSUME ~disturbed PROVE RailShape' /\ RailDone' /\ RailAnswered'
  BY <1>1 DEF RailInv
<1>2. RailShape /\ RailDone /\ RailAnswered
  BY DEF RailInv
<1>3. CASE c = Callback
  <2>1. call'[Main] = call[Main] /\ (app'.command = Done => app.command = Done)
    BY <1>1, <1>3, StatementStatus, TwoContexts DEF Statement, Kept
  <2>2. \A p \in {"id", "on", "level"} : p # call[c].p1 /\ p # call[c].p2
    BY <1>1, <1>3, CallPointers, RailPlaces, TwoContexts DEF WordsInv, Pointers
  <2>3. mem'["id"] = mem["id"] /\ mem'["on"] = mem["on"] /\ mem'["level"] = mem["level"]
    BY <1>1, <2>2, RailPlaces DEF Statement
  <2>4. RailShape' /\ RailDone'
    BY <1>1, <1>2, <2>3, RailFrame
  <2> QED
    BY <1>1, <1>2, <2>1, <2>4 DEF RailAnswered, RailAsAsked
<1>4. CASE c = Main /\ call[Main].command \notin ForRegulator
  <2>1. NoRail(todo[Main]) /\ call'[Main].command = call[Main].command
    BY <1>1, <1>2, <1>4, OtherCall, RailPlaces DEF Statement, Kept
  <2>2. RailShape' /\ RailDone'
    BY <1>1, <1>2, <2>1, NoRailKept
  <2> QED
    BY <1>4, <2>1, <2>2 DEF RailAnswered
<1>5. CASE c = Main /\ call[Main].command \in ForRegulator
  <2>1. mem'["id"] = mem["id"] /\ mem'["on"] = mem["on"] /\ mem'["level"] = mem["level"]
    BY <1>5, RailWritten, RailPlaces
  <2>2. RailShape' /\ RailDone'
    BY <1>1, <1>2, <2>1, RailFrame
  <2>3. call'[Main].command = call[Main].command
    BY <1>1, <1>5 DEF Statement, Kept
  <2>4. call'[Main].pc = "done" => app'.command # Done
    <3>1. Stage(Main) /\ call[Main].asked.command = call[Main].command
      BY <1>1, <1>5, RailRequest
    <3>2. call'[Main].pc = "done" => call[Main].pc = "notify" /\ app' = app
      BY <1>5, StatementStatus
    <3> QED
      BY <1>5, <3>1, <3>2, RegulatorCommands DEF Stage, Words
  <2>5. RailAnswered'
    <3>1. call'[Main].pc \in {"read1", "read2", "clear", "back"} =>
              \/ call[Main].pc = "status" /\ call'[Main].got = last
              \/ call[Main].pc \in {"read1", "read2", "clear"} /\ call'[Main].got = call[Main].got
      BY <1>5, StatementStatus
    <3>2. call'[Main].pc = "status" => call[Main].pc = "done" /\ app.command = Done
      BY <1>5, StatementStatus
    <3> QED
      BY <1>1, <1>2, <2>3, <2>4, <3>1, <3>2 DEF RailAnswered, RailAsAsked
  <2> QED
    BY <2>2, <2>5
<1> QED
  BY <1>3, <1>4, <1>5, TwoContexts

(* An operation other than a call for the regulator has been done.           *)
LEMMA PopRail ==
  ASSUME RailShape, RailDone, IsProgram(todo[Main]), todo[Main] # <<>>, ~IsRail(todo[Main][1]),
         todo'[Main] = Tail(todo[Main]), UNCHANGED <<rail, goal>>,
         \A i \in DOMAIN todo[Main] : IsRail(todo[Main][i]) =>
           /\ todo[Main][1].op = "let" => /\ mem'["id"] = todo[Main][1].arg["id"]
                                         /\ mem'["on"] = todo[Main][1].arg["on"]
           /\ todo[Main][1].op = "let" /\ todo[Main][i].arg.command = SetLevel =>
                mem'["level"] = todo[Main][1].arg["level"]
  PROVE  RailShape' /\ RailDone'
<1> DEFINE t == todo[Main]
<1>1. /\ Len(t) \in Nat \ {0} /\ DOMAIN t = 1 .. Len(t) /\ DOMAIN Tail(t) = 1 .. Len(t) - 1
      /\ \A i \in 1 .. Len(t) - 1 : Tail(t)[i] = t[i + 1]
  BY Popped
<1> HIDE DEF t
<1>2. ASSUME NEW i \in 1 .. Len(t) - 1, IsRail(t[i + 1])
      PROVE  /\ \A j \in 2 .. i : IsRail(t[j + 1])
             /\ IsRail(t[2]) /\ t[1].op = "let"
             /\ mem'["id"] = Regulator /\ mem'["on"] = goal.on
             /\ t[i + 1].arg.command = SetLevel => mem'["level"] = goal.level
  <2>1. i + 1 \in DOMAIN t /\ 2 \in 2 .. i + 1 /\ \A j \in 2 .. i : j + 1 \in 2 .. i + 1
    BY <1>1
  <2>2. (\A j \in 2 .. i + 1 : IsRail(t[j])) /\ t[1].op = "let"
    BY <1>1, <1>2, <2>1 DEF RailShape, t
  <2>3. mem'["id"] = Regulator /\ mem'["on"] = goal.on
    BY <1>1, <1>2, <2>1, <2>2 DEF RailShape, t
  <2>4. t[i + 1].arg.command = SetLevel => mem'["level"] = goal.level
    BY <1>1, <1>2, <2>1, <2>2 DEF RailShape, t
  <2> QED
    BY <2>1, <2>2, <2>3, <2>4
<1>3. RailShape'
  <2>1. todo'[Main] = Tail(t)
    BY DEF t
  <2> SUFFICES ASSUME NEW i \in 1 .. Len(t) - 1, IsRail(Tail(t)[i])
               PROVE  /\ \A j \in 2 .. i : IsRail(Tail(t)[j])
                      /\ IsRail(Tail(t)[1])
                      /\ mem'["id"] = Regulator /\ mem'["on"] = goal.on
                      /\ Tail(t)[i].arg.command = SetLevel => mem'["level"] = goal.level
    <3>1. ASSUME NEW i \in 1 .. Len(t) - 1, IsRail(Tail(t)[i]), IsRail(Tail(t)[1])
          PROVE  Tail(t)[1].op # "let"
      BY <3>1 DEF IsRail
    <3> QED
      BY <1>1, <2>1, <3>1 DEF RailShape
  <2>2. /\ Tail(t)[i] = t[i + 1] /\ Tail(t)[1] = t[2] /\ \A j \in 2 .. i : Tail(t)[j] = t[j + 1]
    <3>1. 1 \in 1 .. Len(t) - 1 /\ 1 + 1 = 2 /\ \A j \in 2 .. i : j \in 1 .. Len(t) - 1
      BY <1>1
    <3> QED
      BY <1>1, <3>1
  <2> QED
    BY <1>2, <2>2
<1>4. RailDone'
  <2>1. ASSUME NEW command, Pending(command) PROVE Pending(command)'
    <3>1. PICK i \in DOMAIN t : IsRail(t[i]) /\ t[i].arg.command = command
      BY <2>1 DEF Pending, t
    <3>2. i # 1
      BY <3>1 DEF t
    <3>3. i - 1 \in DOMAIN Tail(t) /\ Tail(t)[i - 1] = t[i]
      <4>1. i - 1 \in 1 .. Len(t) - 1 /\ (i - 1) + 1 = i
        BY <1>1, <3>2
      <4> QED
        BY <1>1, <4>1
    <3> QED
      BY <3>1, <3>3 DEF Pending, t
  <2> QED
    BY <2>1 DEF RailDone, RailAsAsked
<1> QED
  BY <1>3, <1>4

LEMMA BeginRail ==
  ASSUME WordsInv, RailInv, NEW c \in Contexts, Begin(c)
  PROVE  RailInv'
<1>1. Begun(c) /\ UNCHANGED <<rail, goal>> /\ (disturbed => disturbed')
  BY Begins DEF Begin, Stays, modem, Called
<1>2. ~disturbed' => RailShape' /\ RailDone'
  BY <1>1, RailFrame DEF Begun, RailInv
<1>3. ~disturbed' => RailAnswered'
  <2>1. CASE c = Main
    BY <1>1, <2>1 DEF Begun, RailAnswered
  <2>2. CASE c = Callback
    BY <1>1, <2>2, TwoContexts DEF Begun, RailAnswered, RailAsAsked, RailInv
  <2> QED
    BY <2>1, <2>2, TwoContexts
<1> QED
  BY <1>1, <1>2, <1>3 DEF RailInv

LEMMA BackRail ==
  ASSUME WordsInv, RailInv, NEW c \in Contexts, Back(c)
  PROVE  RailInv'
<1>1. Returned(c) /\ UNCHANGED <<rail, goal>> /\ disturbed' = (disturbed \/ TakenForDone(c))
  BY Returns DEF Back, modem
<1> SUFFICES ASSUME ~disturbed, ~TakenForDone(c) PROVE RailShape' /\ RailDone' /\ RailAnswered'
  BY <1>1 DEF RailInv
<1>2. CASE c = Callback
  <2>1. /\ todo'[Main] = todo[Main] /\ call'[Main] = call[Main]
        /\ mem'["id"] = mem["id"] /\ mem'["on"] = mem["on"] /\ mem'["level"] = mem["level"]
    <3>1. todo'[Main] = todo[Main]
      BY <1>2, TwoContexts DEF Back, Next1, WordsInv, Typed
    <3> QED
      BY <1>1, <1>2, <3>1, RailPlaces, TwoContexts DEF Returned
  <2>2. last'.status # Success
    BY <1>1 DEF Returned, NoAnswer, InvalidStatus, Success
  <2> QED
    BY <1>1, <2>1, <2>2, RailFrame DEF Returned, RailAnswered, RailAsAsked, RailInv
<1>3. CASE c = Main
  <2> DEFINE t == todo[Main]
  <2>1. RailAnswered'
    BY <1>1, <1>3 DEF Returned, NoCall, RailAnswered
  <2>2. CASE UNCHANGED <<todo, mem>>
    BY <1>1, <2>1, <2>2, RailFrame DEF RailInv
  <2>3. CASE ~Repeats(Head(t).op) /\ Next1(Main) /\ Leaves(Main)
    <3>1. /\ IsProgram(t) /\ t # <<>> /\ todo'[Main] = Tail(t) /\ Head(t) = t[1] /\ t[1].op \in {"call", "until"}
          /\ call[Main].command = t[1].arg.command /\ 1 \in DOMAIN t
      BY <1>1, <1>3, <2>3, Popped, TwoContexts DEF WordsInv, Typed, Calling, Returned, Next1
    <3>2. CASE ~IsRail(t[1])
      <4>1. t[1].op # "let"
        BY <3>1
      <4> HIDE DEF t
      <4>2. RailShape /\ RailDone
        BY DEF RailInv
      <4> QED
        BY <1>1, <2>1, <3>1, <3>2, <4>1, <4>2, PopRail DEF t
    <3>3. CASE IsRail(t[1])
      <4>1. t[1].op = "until" /\ app.status = Success /\ call[Main].got.status = Success
        <5>1. t[1].op = "until"
          BY <1>1, <1>3, <3>1, <3>3, RailCommand DEF Returned, IsRail
        <5> QED
          BY <1>3, <2>3, <3>1, <5>1 DEF Repeats, TakenForDone
      <4>2. RailAsAsked(t[1].arg.command)
        BY <1>1, <1>3, <3>1, <3>3, <4>1, RailPlaces DEF RailInv, RailAnswered, Returned, IsRail
      <4>3. /\ Len(t) \in Nat \ {0} /\ DOMAIN t = 1 .. Len(t) /\ DOMAIN Tail(t) = 1 .. Len(t) - 1
            /\ \A i \in 1 .. Len(t) - 1 : Tail(t)[i] = t[i + 1]
        BY <3>1, Popped
      <4>4. RailShape
        BY DEF RailInv
      <4>5. RailDone'
        <5>1. ASSUME NEW command, Pending(command), command # t[1].arg.command PROVE Pending(command)'
          <6>1. PICK i \in DOMAIN t : IsRail(t[i]) /\ t[i].arg.command = command
            BY <5>1 DEF Pending
          <6>2. i - 1 \in 1 .. Len(t) - 1 /\ (i - 1) + 1 = i
            BY <4>3, <5>1, <6>1
          <6> QED
            BY <3>1, <4>3, <6>1, <6>2 DEF Pending
        <5> QED
          BY <1>1, <4>2, <5>1 DEF RailDone, RailInv, RailAsAsked
      <4>6. ASSUME NEW i \in 1 .. Len(t) - 1, IsRail(t[i + 1])
            PROVE  /\ \A j \in 1 .. i : IsRail(t[j + 1])
                   /\ mem'["id"] = Regulator /\ mem'["on"] = goal.on
                   /\ t[i + 1].arg.command = SetLevel => mem'["level"] = goal.level
        <5>1. i + 1 \in DOMAIN t /\ \A j \in 1 .. i : j + 1 \in 2 .. i + 1
          BY <4>3
        <5>2. \A j \in 2 .. i + 1 : IsRail(t[j])
          BY <4>4, <4>6, <5>1 DEF RailShape
        <5>3. mem["id"] = Regulator /\ mem["on"] = goal.on /\ (t[i + 1].arg.command = SetLevel => mem["level"] = goal.level)
          BY <3>3, <4>4, <4>6, <5>1 DEF RailShape
        <5>4. Len(t) # 1 /\ t[2].op # "let"
          BY <4>3, <5>1, <5>2 DEF IsRail
        <5>5. mem'["id"] = mem["id"] /\ mem'["on"] = mem["on"] /\ mem'["level"] = mem["level"]
          BY <1>1, <2>3, <5>4, RailPlaces DEF Leaves
        <5> QED
          BY <5>1, <5>2, <5>3, <5>5
      <4>7. RailShape'
        <5> HIDE DEF t
        <5> SUFFICES ASSUME NEW i \in 1 .. Len(t) - 1, IsRail(Tail(t)[i])
                     PROVE  /\ \A j \in 2 .. i : IsRail(Tail(t)[j])
                            /\ IsRail(Tail(t)[1])
                            /\ mem'["id"] = Regulator /\ mem'["on"] = goal.on
                            /\ Tail(t)[i].arg.command = SetLevel => mem'["level"] = goal.level
          <6>1. ASSUME NEW i \in 1 .. Len(t) - 1, IsRail(Tail(t)[i]), IsRail(Tail(t)[1])
                PROVE  Tail(t)[1].op # "let"
            BY <6>1 DEF IsRail
          <6> QED
            BY <1>1, <3>1, <4>3, <6>1 DEF RailShape
        <5>1. Tail(t)[i] = t[i + 1] /\ \A j \in 1 .. i : Tail(t)[j] = t[j + 1]
          <6>1. \A j \in 1 .. i : j \in 1 .. Len(t) - 1
            BY <4>3
          <6> QED
            BY <4>3, <6>1
        <5>2. 1 \in 1 .. i
          BY <4>3
        <5> QED
          BY <4>6, <5>1, <5>2
      <4> QED
        BY <2>1, <4>5, <4>7
    <3> QED
      BY <3>2, <3>3
  <2> QED
    BY <1>3, <2>2, <2>3 DEF Back
<1> QED
  BY <1>2, <1>3, TwoContexts


LEMMA CoreNoRail ==
  ASSUME NEW s, OpsIn(s, CoreOps)
  PROVE  NoRail(s)
  BY DEF OpsIn, CoreOps, NoRail, IsRail

LEMMA JoinedNoRail ==
  ASSUME NEW s, NEW t, IsProgram(s), IsProgram(t), NoRail(s), NoRail(t)
  PROVE  NoRail(s \o t)
<1> DEFINE r == s \o t
<1>1. /\ Len(s) \in Nat /\ Len(t) \in Nat /\ DOMAIN s = 1 .. Len(s) /\ DOMAIN t = 1 .. Len(t)
      /\ DOMAIN r = 1 .. Len(s) + Len(t)
      /\ \A i \in 1 .. Len(s) : r[i] = s[i]
      /\ \A i \in 1 .. Len(t) : r[Len(s) + i] = t[i]
  BY Joined
<1> HIDE DEF r
<1>2. ASSUME NEW i \in 1 .. Len(s) + Len(t) PROVE ~IsRail(r[i])
  <2>1. CASE i \in 1 .. Len(s)
    BY <1>1, <2>1 DEF NoRail
  <2>2. CASE i \notin 1 .. Len(s)
    <3>1. i - Len(s) \in 1 .. Len(t) /\ Len(s) + (i - Len(s)) = i
      BY <1>1, <2>2
    <3> QED
      BY <1>1, <3>1 DEF NoRail
  <2> QED
    BY <2>1, <2>2
<1>3. NoRail(r)
  BY <1>1, <1>2 DEF NoRail
<1> QED
  BY <1>3 DEF r

LEMMA LetsRail ==
  ASSUME WordsInv, RailInv, NEW c \in Contexts, Lets(c)
  PROVE  RailInv'
<1>1. UNCHANGED <<call, app, last, rail, goal, disturbed>> /\ call[c].pc = "idle" /\ Main \in Contexts
  BY TwoContexts DEF Lets, Stays, modem, At, history
<1> SUFFICES ASSUME ~disturbed PROVE RailShape' /\ RailDone'
  BY <1>1 DEF RailInv, RailAnswered, RailAsAsked
<1>2. CASE c = Callback
  <2>1. Between(Callback)
    BY <1>2, LetsBetween
  <2>2. /\ todo'[Main] = todo[Main]
        /\ mem'["id"] = mem["id"] /\ mem'["on"] = mem["on"] /\ mem'["level"] = mem["level"]
    BY <2>1, RailPlaces, TwoContexts DEF Between
  <2> QED
    BY <1>1, <2>2, RailFrame DEF RailInv
<1>3. CASE c = Main
  <2> DEFINE t == todo[Main]
  <2>1. /\ t # <<>> /\ IsProgram(t) /\ t[1].op = "let" /\ Head(t) = t[1] /\ todo'[Main] = Tail(t)
    BY <1>1, <1>3, Popped DEF Lets, At, Next1, WordsInv, Typed
  <2>2. \A p \in {"id", "on", "level"} : p \in DOMAIN t[1].arg => mem'[p] = t[1].arg[p]
    BY <1>3, <2>1, RailPlaces DEF Lets
  <2>3. ~IsRail(t[1])
    BY <2>1 DEF IsRail
  <2>4. \A i \in DOMAIN t : IsRail(t[i]) =>
          mem'["id"] = t[1].arg["id"] /\ mem'["on"] = t[1].arg["on"] /\ (t[i].arg.command = SetLevel => mem'["level"] = t[1].arg["level"])
    BY <2>1, <2>2 DEF RailInv, RailShape
  <2>5. RailShape /\ RailDone
    BY DEF RailInv
  <2> QED
    BY <1>1, <2>1, <2>3, <2>4, <2>5, PopRail
<1> QED
  BY <1>2, <1>3, TwoContexts

LEMMA MainRail ==
  ASSUME WordsInv, RailInv, CoreAccess \/ ScpllSetsFreq \/ FindsAtStart \/ FindsMpllOn \/ Installs
  PROVE  RailInv'
<1> DEFINE t == todo[Main]
<1>1. /\ UNCHANGED <<call, app, last, rail, goal, disturbed>> /\ Main \in Contexts
  BY TwoContexts DEF CoreAccess, ScpllSetsFreq, FindsAtStart, FindsMpllOn, Installs, Stays, modem, history
<1> SUFFICES ASSUME ~disturbed PROVE RailShape' /\ RailDone'
  BY <1>1 DEF RailInv, RailAnswered, RailAsAsked
<1>2. /\ t # <<>> /\ IsProgram(t) /\ Head(t) = t[1] /\ t[1].op \notin {"call", "until", "let"}
      /\ todo'[Main] = Tail(t) \/ todo'[Main] = SetFreq(Head(t).arg) \o Tail(t)
  <2>1. t # <<>> /\ IsProgram(t)
    BY <1>1 DEF CoreAccess, ScpllSetsFreq, FindsAtStart, FindsMpllOn, Installs, At, WordsInv, Typed
  <2>2. Head(t) = t[1]
    BY <2>1, Popped
  <2>3. Head(t).op \notin {"call", "until", "let"}
    BY DEF CoreAccess, ScpllSetsFreq, FindsAtStart, FindsMpllOn, Installs, At, Access, ConfigureSlot, SwapSlot,
       SelectSource, WaitForSwitch, WriteMode, WriteTarget, StartSwitch, RecordSpeed
  <2>4. todo'[Main] = Tail(t) \/ todo'[Main] = SetFreq(Head(t).arg) \o Tail(t)
    BY <1>1 DEF CoreAccess, ScpllSetsFreq, FindsAtStart, FindsMpllOn, Installs, Next1, WordsInv, Typed
  <2> QED
    BY <2>1, <2>2, <2>3, <2>4
<1>3. NoRail(t) /\ NoRail(Tail(t))
  <2>1. NoRail(t)
    BY <1>2 DEF RailInv, RailShape, NoRail, IsRail
  <2> HIDE DEF t
  <2>2. DOMAIN t = 1 .. Len(t) /\ Len(t) \in Nat \ {0} /\ DOMAIN Tail(t) = 1 .. Len(t) - 1
        /\ \A i \in 1 .. Len(t) - 1 : Tail(t)[i] = t[i + 1]
    BY <1>2, Popped
  <2>3. ASSUME NEW i \in 1 .. Len(t) - 1 PROVE ~IsRail(Tail(t)[i])
    <3>1. i + 1 \in DOMAIN t
      BY <2>2
    <3> QED
      BY <2>1, <2>2, <3>1 DEF NoRail
  <2> QED
    BY <2>1, <2>2, <2>3 DEF NoRail
<1>4. NoRail(SetFreq(Head(t).arg) \o Tail(t))
  BY <1>2, <1>3, Popped, CorePrograms, CoreNoRail, JoinedNoRail DEF OpsIn
<1> QED
  BY <1>1, <1>2, <1>3, <1>4, NoRailKept DEF RailInv

(* The programs that callers start.                                         *)
LEMMA StartNoRail ==
  ASSUME WordsInv, RailInv, NEW program, Start(program), NoRail(program), UNCHANGED goal
  PROVE  RailInv'
<1>1. /\ UNCHANGED <<call, app, last, rail, goal, disturbed>> /\ todo[Main] = <<>> /\ todo'[Main] = program
  BY TwoContexts DEF Start, Stays, modem, history, WordsInv, Typed
<1>2. NoRail(todo[Main])
  BY <1>1 DEF NoRail
<1> QED
  BY <1>1, <1>2, NoRailKept DEF RailInv, RailAnswered, RailAsAsked

ThreeJoined(x, y, z) == (<<x>> \o <<y>>) \o <<z>>

LEMMA ThreeIn ==
  \A x, y, z : LET q == ThreeJoined(x, y, z)
              IN DOMAIN q = 1 .. 3 /\ q[1] = x /\ q[2] = y /\ q[3] = z
  BY DEF ThreeJoined

LEMMA StartRail ==
  ASSUME WordsInv, RailInv, NEW state \in {0, 1}, PcomSdcardPower(state) \/ PcomVregControl(1, state)
  PROVE  RailInv'
<1>1. /\ UNCHANGED <<call, app, rail, mem, disturbed>> /\ todo[Main] = <<>> /\ DOMAIN goal' = {"level", "on"}
      /\ call[Main].pc = "idle"
  BY TwoContexts DEF PcomSdcardPower, PcomVregControl, Start, Stays, modem, history, RailInv, WordsInv, Calling
<1> SUFFICES ASSUME ~disturbed PROVE RailShape' /\ RailDone'
  BY <1>1 DEF RailInv, RailAnswered
<1>2. RailAsAsked(SetLevel) /\ RailAsAsked(Switch)
  BY <1>1, NoRailDone DEF RailInv, NoRail
<1> DEFINE power == <<Let([id |-> 1, on |-> state]), CallUntil(Switch, "id", "on")>>
<1>3. /\ IsRail(CallUntil(Switch, "id", "on")) /\ IsRail(CallUntil(SetLevel, "id", "level"))
      /\ CallUntil(Switch, "id", "on").arg.command = Switch
      /\ CallUntil(SetLevel, "id", "level").arg.command = SetLevel
      /\ \A values : /\ Let(values).op = "let" /\ Let(values).arg = values /\ ~IsRail(Let(values))
  BY DEF CallUntil, Let, DoWith, IsRail
<1>4. CASE PcomSdcardPower(state)
  <2>1. todo'[Main] = power /\ goal'.on = state /\ goal'.level = goal.level
    BY <1>4, TwoContexts DEF PcomSdcardPower, Start, RailInv, WordsInv, Typed
  <2>2. DOMAIN power = {1, 2} /\ power[1] = Let([id |-> 1, on |-> state])
        /\ power[2] = CallUntil(Switch, "id", "on")
    OBVIOUS
  <2> HIDE DEF power
  <2>3. RailShape'
    BY <1>3, <2>1, <2>2, RailPlaces DEF RailShape, Regulator
  <2>4. RailDone'
    BY <1>1, <1>2, <1>3, <2>1, <2>2, RailPlaces DEF RailDone, Pending, RailAsAsked
  <2> QED
    BY <2>3, <2>4
<1>5. CASE PcomVregControl(1, state)
  <2> DEFINE t == todo'[Main]
             a == Let([id |-> 1, level |-> 1, on |-> state])
             b == CallUntil(SetLevel, "id", "level")
             d == CallUntil(Switch, "id", "on")
  <2>1. t = (<<a>> \o (IF state = 1 THEN <<b>> ELSE <<>>)) \o <<d>>
    BY <1>5, TwoContexts DEF PcomVregControl, Start, WordsInv, Typed
  <2>2. goal'.on = state /\ goal'.level = IF state = 1 THEN 1 ELSE goal.level
    BY <1>5 DEF PcomVregControl
  <2>3. /\ a.op = "let" /\ a.arg = [id |-> 1, level |-> 1, on |-> state] /\ ~IsRail(a)
        /\ IsRail(b) /\ b.arg.command = SetLevel /\ IsRail(d) /\ d.arg.command = Switch
    BY <1>3
  <2> HIDE DEF a, b, d
  <2>4. CASE state = 0
    <3>1. DOMAIN t = {1, 2} /\ t[1] = a /\ t[2] = d
      BY <2>1, <2>4
    <3> HIDE DEF t
    <3>2. RailShape'
      BY <2>2, <2>3, <3>1, RailPlaces DEF RailShape, Regulator, t
    <3>3. RailDone'
      BY <1>1, <1>2, <2>2, <2>3, <2>4, <3>1, RailPlaces DEF RailDone, Pending, RailAsAsked, t
    <3> QED
      BY <3>2, <3>3
  <2>5. CASE state = 1
    <3>0. t = ThreeJoined(a, b, d)
      BY <2>1, <2>5, Zenon DEF ThreeJoined
    <3> HIDE DEF t
    <3>1. DOMAIN t = 1 .. 3 /\ t[1] = a /\ t[2] = b /\ t[3] = d
      BY <3>0, ThreeIn
    <3>2. RailShape'
      BY <2>2, <2>3, <2>5, <3>1, RailPlaces DEF RailShape, Regulator, t
    <3>3. RailDone'
      BY <2>3, <3>1, RailPlaces DEF RailDone, Pending, t
    <3> QED
      BY <3>2, <3>3
  <2> QED
    BY <2>4, <2>5
<1> QED
  BY <1>4, <1>5


LEMMA NotRail ==
  /\ \A command, p, q : command \notin {SetLevel, Switch} => ~IsRail(Call(command, p, q))
  /\ \A values : ~IsRail(Let(values))
  /\ \A op : op \notin {"call", "until"} => ~IsRail(Do(op))
  BY DEF IsRail, Call, DoWith, Let, Do

LEMMA ShortNoRail ==
  /\ \A a : ~IsRail(a) => NoRail(<<a>>)
  /\ \A a, b : ~IsRail(a) /\ ~IsRail(b) => NoRail(<<a, b>>)
  /\ \A a, b, d : ~IsRail(a) /\ ~IsRail(b) /\ ~IsRail(d) => NoRail(<<a, b, d>>)
  BY DEF NoRail

(* No other function sets the regulator.                                    *)
LEMMA OthersNoRail ==
  ASSUME WordsInv, RailInv,
         \/ \E id \in Clocks : ClkEnable(id) \/ ClkDisable(id) \/ \E rate \in Rates : ClkSetRate(id, rate)
         \/ \E rate \in Rates : AcpuclkSetRate(rate)
         \/ \E command \in Commands : PcomClient(command) \/ \E n \in Instances : PcomSdcardClk(command, n)
         \/ \E n \in Instances : PcomSdcardGpioConfig(n)
         \/ LibResetSystem("PCOM_RESET_CHIP", "id") \/ LibResetSystem("PCOM_POWER_DOWN", Null)
  PROVE  RailInv'
<1>1. ASSUME NEW id \in Clocks, ClkEnable(id) \/ ClkDisable(id)
      PROVE  RailInv'
  <2>1. /\ NoRail(<<Call("PCOM_CLK_REGIME_SEC_ENABLE", id, Null)>>)
        /\ NoRail(<<Call("PCOM_CLK_REGIME_SEC_DISABLE", id, Null)>>)
    BY NotRail, ShortNoRail DEF SetLevel, Switch
  <2> QED
    BY <1>1, <2>1, StartNoRail DEF ClkEnable, ClkDisable
<1>2. ASSUME NEW id \in Clocks, NEW rate \in Rates, ClkSetRate(id, rate)
      PROVE  RailInv'
  <2>1. \A x : NoRail(<<Let([speed |-> x]), Call("PCOM_CLK_REGIME_SEC_SEL_SPEED", id, "speed")>>)
    BY NotRail, ShortNoRail DEF SetLevel, Switch
  <2> QED
    BY <1>2, <2>1, StartNoRail DEF ClkSetRate
<1>3. ASSUME NEW rate \in Rates, AcpuclkSetRate(rate)
      PROVE  RailInv'
  <2>1. \A i : NoRail(SetRate(i))
    BY CorePrograms, CoreNoRail
  <2> QED
    BY <1>3, <2>1, StartNoRail DEF AcpuclkSetRate
<1>4. ASSUME NEW command \in Commands, PcomClient(command)
      PROVE  RailInv'
  <2>1. NoRail(Pcom(command, 1, 1))
    BY NotRail, ShortNoRail, ModemAssumption DEF Pcom, ForRegulator
  <2> QED
    BY <1>4, <2>1, StartNoRail DEF PcomClient
<1>5. ASSUME NEW n \in Instances, PcomSdcardGpioConfig(n)
      PROVE  RailInv'
  <2>1. PICK program : Start(program) /\ NoRail(program)
    <3> DEFINE s == [k \in 1 .. 2 * Pins[n] |->
                       IF k % 2 = 1 THEN Let([id |-> (k + 1) \div 2, on |-> 0])
                       ELSE Call(TlmmConfig, "id", "on")]
    <3>1. \A x : ~IsRail(Let([id |-> x, on |-> 0])) /\ ~IsRail(Call(TlmmConfig, "id", "on"))
      BY NotRail DEF TlmmConfig, SetLevel, Switch
    <3>2. NoRail(s)
      BY <3>1 DEF NoRail
    <3>3. Start(s)
      BY <1>5 DEF PcomSdcardGpioConfig
    <3> QED
      BY <3>2, <3>3
  <2> QED
    BY <1>5, <2>1, StartNoRail DEF PcomSdcardGpioConfig
<1>6. ASSUME NEW command \in {"PCOM_RESET_CHIP", "PCOM_POWER_DOWN"}, NEW reason, LibResetSystem(command, reason)
      PROVE  RailInv'
  <2>1. NoRail(<<Let([id |-> 1]), Call(command, reason, Null), Do("CpuDeadLoop")>>)
    BY NotRail, ShortNoRail DEF SetLevel, Switch
  <2> QED
    BY <1>6, <2>1, StartNoRail DEF LibResetSystem
<1> QED
  BY <1>1, <1>2, <1>3, <1>4, <1>5, <1>6 DEF PcomSdcardClk

LEMMA RailInit == Init => RailInv
<1> SUFFICES ASSUME Init PROVE RailInv
  OBVIOUS
<1>1. /\ DOMAIN rail = {"level", "on"} /\ DOMAIN goal = {"level", "on"} /\ rail = goal
      /\ call[Main].pc = "idle"
  BY TwoContexts DEF Init, ModemInit, NoCall
<1>2. NoRail(todo[Main])
  <2> DEFINE a == <<Do("find"), Call(PllRequest, "id", "on"), Let([id |-> 0, on |-> 0]), Call(PllRequest, "id", "on")>>
             s == RampUp(Boot)
  <2>1. ~IsRail(Call(PllRequest, "id", "on"))
    BY NotRail DEF PllRequest, SetLevel, Switch
  <2>2. NoRail(a) /\ NoRail(CheckMpll) /\ NoRail(s) /\ NoRail(<<Do("install")>>)
    BY <2>1, NotRail, ShortNoRail, CorePrograms, CoreNoRail DEF NoRail, CheckMpll
  <2>3. IsProgram(a) /\ IsProgram(CheckMpll) /\ IsProgram(s) /\ IsProgram(<<Do("install")>>)
    BY Short, CorePrograms DEF CheckMpll, OpsIn
  <2>4. todo[Main] = ((a \o CheckMpll) \o s) \o <<Do("install")>>
    BY TwoContexts DEF Init, AcpuclkInit
  <2> HIDE DEF a, s
  <2>5. IsProgram(a \o CheckMpll) /\ NoRail(a \o CheckMpll)
    BY <2>2, <2>3, Joined, JoinedNoRail
  <2>6. IsProgram((a \o CheckMpll) \o s) /\ NoRail((a \o CheckMpll) \o s)
    BY <2>2, <2>3, <2>5, Joined, JoinedNoRail
  <2> QED
    BY <2>2, <2>3, <2>4, <2>6, JoinedNoRail
<1> QED
  BY <1>1, <1>2 DEF RailInv, RailShape, RailDone, RailAsAsked, RailAnswered, NoRail

LEMMA RailStep == WordsInv /\ RailWords /\ RailInv /\ [Next]_vars => RailInv'
<1> SUFFICES ASSUME WordsInv, RailWords, RailInv, [Next]_vars PROVE RailInv'
  OBVIOUS
<1>1. CASE UNCHANGED vars \/ PllSwitches
  <2>1. UNCHANGED <<call, app, last, mem, todo, disturbed, rail, goal>>
    BY <1>1 DEF vars, modemVars, modem, history, PllSwitches, Stays
  <2> QED
    BY <2>1, RailFrame DEF RailInv, RailAnswered, RailAsAsked
<1>2. CASE ModemNext /\ UNCHANGED <<coreVars, todo, installed, goal, ran>>
  BY <1>2, ModemRail
<1>3. ASSUME NEW c \in Contexts, Goes(c) PROVE RailInv'
  BY <1>3, BeginRail, LetsRail, StatementsRail, BackRail DEF Goes
<1>4. CASE MainGoes
  BY <1>3, <1>4, MainRail, TwoContexts DEF MainGoes
<1>5. CASE SetI2cMux
  <2>1. UNCHANGED <<call, app, last, mem, disturbed, rail, goal>> /\ todo'[Main] = todo[Main]
    BY <1>5, TwoContexts DEF SetI2cMux, Stays, modem, history, WordsInv, Typed
  <2> QED
    BY <2>1, RailFrame DEF RailInv, RailAnswered, RailAsAsked
<1>6. CASE \E state \in {0, 1} : PcomSdcardPower(state) \/ PcomVregControl(1, state)
  BY <1>6, StartRail
<1> QED
  BY <1>1, <1>2, <1>3, <1>4, <1>5, <1>6, OthersNoRail, TwoContexts DEF Next

(* When pcom_vreg_control or pcom_sdcard_power has returned, after any number *)
(* of failures and repetitions and whatever the callback called meanwhile,    *)
(* the regulator is as it was asked for, unless its own request was crossed,  *)
(* was answered in other words and not by plain failure, or was given up for  *)
(* the success of another call; for any programs, words and numbers.          *)
THEOREM RailIsSet == Spec => []RailSet
<1>1. RailInv => RailSet
  BY NoRailDone DEF RailInv, RailSet, NoRail, RailAsAsked, SetLevel, Switch
<1> QED
  BY <1>1, WordsInit, WordsKept, RailWordsInit, RailWordsStep, RailInit, RailStep, PTL DEF Spec

-----------------------------------------------------------------------------
(* The accesses of the core's registers that are still to be made.          *)
PllOps == {"mode", "target", "start", "set_freq"}
ToSource(o, src) == o.op = "source" /\ o.arg = src

(* The PLL is left alone until the core is off it, and once it is on it.     *)
OffFirst(t) == \A k \in DOMAIN t : t[k].op \in PllOps => \E j \in 1 .. k - 1 : ToSource(t[j], Raw)
OnLast(t) == \A k \in DOMAIN t : t[k].op \in PllOps => \A j \in 1 .. k - 1 : ~ToSource(t[j], Scpll)

AsideFirst(t) ==
  /\ sel.src = Scpll => scpll.mode = Normal /\ ~scpll.busy /\ OffFirst(t)
  /\ OnLast(t)

(* The core goes to the PLL when that has been started and has settled.     *)
SettledFirst(t) ==
  \A k \in DOMAIN t : ToSource(t[k], Scpll) =>
    /\ k = 1 => scpll.mode = Normal /\ ~scpll.busy
    /\ k = 2 => t[1].op = "set_freq" \/ (t[1].op = "wait" /\ scpll.mode = Normal)
    /\ k > 2 => t[k - 1].op = "set_freq" \/ (t[k - 1].op = "wait" /\ t[k - 2].op = "start")

(* A slot is configured, swapped in, and used, in this order.                *)
SlotRuns == cntl[sel.slot] = Tcxo \/ (cntl[sel.slot] = ModemPll /\ mpll)

ConfiguredFirst(t) ==
  \A k \in DOMAIN t :
    /\ t[k].op = "swap" => IF k = 1 THEN cntl[1 - sel.slot] = ModemPll ELSE t[k - 1].op = "configure"
    /\ ToSource(t[k], Raw) => IF k = 1 THEN SlotRuns ELSE t[k - 1].op = "swap"

(* No slot is touched before the modem PLL is known to run.                  *)
CheckedFirst(t) ==
  \A k \in DOMAIN t : t[k].op \in {"configure", "swap", "install"} => \E j \in 1 .. k - 1 : t[j].op = "check"

Steady(t) ==
  /\ AsideFirst(t) /\ SettledFirst(t) /\ ConfiguredFirst(t)
  /\ mpll \/ (~installed /\ CheckedFirst(t))
  /\ sel.src = Raw => SlotRuns

(* What is now, or will be after the last of the operations ops, is v.       *)
Ends(t, ops, now, v) ==
  \/ now = v /\ \A k \in DOMAIN t : t[k].op \notin ops
  \/ \E m \in DOMAIN t : /\ t[m].op \in ops /\ t[m].arg = v
                         /\ \A k \in m + 1 .. Len(t) : t[k].op \notin ops

Freq == {"target", "set_freq"}

(* Where the program leads: to entry i of the table.                        *)
LeadsTo(t, i) ==
  /\ Ends(t, {"speed"}, speed, i)
  /\ Ends(t, {"source"}, sel.src, FreqTable[i].sel)
  /\ FreqTable[i].sel = Scpll => Ends(t, Freq, scpll.l, FreqTable[i].l)

CoreTyped ==
  /\ DOMAIN sel = {"slot", "src"} /\ sel.slot \in {0, 1}
  /\ DOMAIN cntl = {0, 1} /\ DOMAIN scpll = {"mode", "l", "busy"} /\ scpll.busy \in BOOLEAN

CoreGoes(t) == CoreTyped /\ Steady(t) /\ \E i \in 1 .. 18 : LeadsTo(t, i)

CoreInv == CoreGoes(todo[Main])

(* One operation has been done.                                             *)
LEMMA OrderPopped ==
  ASSUME NEW t, IsProgram(t), t # <<>>
  PROVE  /\ OnLast(t) => OnLast(Tail(t))
         /\ OffFirst(t) /\ ~ToSource(t[1], Raw) => OffFirst(Tail(t))
         /\ OffFirst(t) => t[1].op \notin PllOps
         /\ OnLast(t) /\ ToSource(t[1], Scpll) => OffFirst(Tail(t))
         /\ CheckedFirst(t) /\ t[1].op # "check" => CheckedFirst(Tail(t))
         /\ CheckedFirst(t) => t[1].op \notin {"configure", "swap", "install"}
<1> DEFINE u == Tail(t)
           n == Len(t)
<1>1. /\ n \in Nat \ {0} /\ DOMAIN t = 1 .. n /\ DOMAIN u = 1 .. n - 1
      /\ \A k \in 1 .. n - 1 : u[k] = t[k + 1] /\ k + 1 \in 1 .. n
  BY Popped
<1> HIDE DEF u, n
<1>2. OnLast(t) => OnLast(u)
  <2> SUFFICES ASSUME OnLast(t), NEW k \in 1 .. n - 1, u[k].op \in PllOps, NEW j \in 1 .. k - 1
               PROVE  ~ToSource(u[j], Scpll)
    BY <1>1 DEF OnLast
  <2>1. j + 1 \in 1 .. (k + 1) - 1 /\ j \in 1 .. n - 1
    BY <1>1
  <2> QED
    BY <1>1, <2>1 DEF OnLast
<1>3. ASSUME OffFirst(t), ~ToSource(t[1], Raw) PROVE OffFirst(u)
  <2> SUFFICES ASSUME NEW k \in 1 .. n - 1, u[k].op \in PllOps
               PROVE  \E j \in 1 .. k - 1 : ToSource(u[j], Raw)
    BY <1>1 DEF OffFirst
  <2>1. PICK j \in 1 .. (k + 1) - 1 : ToSource(t[j], Raw)
    BY <1>1, <1>3 DEF OffFirst
  <2>2. j - 1 \in 1 .. k - 1 /\ j - 1 \in 1 .. n - 1 /\ (j - 1) + 1 = j
    BY <1>1, <1>3, <2>1
  <2> QED
    BY <1>1, <2>1, <2>2
<1>4. OffFirst(t) => t[1].op \notin PllOps
  BY <1>1 DEF OffFirst
<1>5. ASSUME OnLast(t), ToSource(t[1], Scpll) PROVE OffFirst(u)
  <2> SUFFICES ASSUME NEW k \in 1 .. n - 1 PROVE u[k].op \notin PllOps
    BY <1>1 DEF OffFirst
  <2>1. 1 \in 1 .. (k + 1) - 1
    BY <1>1
  <2> QED
    BY <1>1, <1>5, <2>1 DEF OnLast
<1>6. ASSUME CheckedFirst(t), t[1].op # "check" PROVE CheckedFirst(u)
  <2> SUFFICES ASSUME NEW k \in 1 .. n - 1, u[k].op \in {"configure", "swap", "install"}
               PROVE  \E j \in 1 .. k - 1 : u[j].op = "check"
    BY <1>1 DEF CheckedFirst
  <2>1. PICK j \in 1 .. (k + 1) - 1 : t[j].op = "check"
    BY <1>1, <1>6 DEF CheckedFirst
  <2>2. j - 1 \in 1 .. k - 1 /\ j - 1 \in 1 .. n - 1 /\ (j - 1) + 1 = j
    BY <1>1, <1>6, <2>1
  <2> QED
    BY <1>1, <2>1, <2>2
<1>7. CheckedFirst(t) => t[1].op \notin {"configure", "swap", "install"}
  BY <1>1 DEF CheckedFirst
<1> QED
  BY <1>2, <1>3, <1>4, <1>5, <1>6, <1>7 DEF u

LEMMA SettledPopped ==
  ASSUME NEW t, IsProgram(t), t # <<>>, SettledFirst(t), t[1].op # "set_freq",
         t[1].op = "wait" /\ scpll.mode = Normal => scpll'.mode = Normal /\ ~scpll'.busy,
         t[1].op = "start" => scpll'.mode = Normal
  PROVE  SettledFirst(Tail(t))'
<1> DEFINE u == Tail(t)
           n == Len(t)
<1>1. /\ n \in Nat \ {0} /\ DOMAIN t = 1 .. n /\ DOMAIN u = 1 .. n - 1
      /\ \A k \in 1 .. n - 1 : u[k] = t[k + 1] /\ k + 1 \in 1 .. n
  BY Popped
<1> HIDE DEF u, n
<1> SUFFICES ASSUME NEW k \in 1 .. n - 1, ToSource(t[k + 1], Scpll)
             PROVE  /\ k = 1 => scpll'.mode = Normal /\ ~scpll'.busy
                    /\ k = 2 => u[1].op = "set_freq" \/ (u[1].op = "wait" /\ scpll'.mode = Normal)
                    /\ k > 2 => u[k - 1].op = "set_freq" \/ (u[k - 1].op = "wait" /\ u[k - 2].op = "start")
  BY <1>1 DEF SettledFirst, u
<1>2. CASE k = 1
  BY <1>1, <1>2 DEF SettledFirst
<1>3. CASE k = 2
  <2>1. t[2].op = "set_freq" \/ (t[2].op = "wait" /\ t[1].op = "start")
    BY <1>1, <1>3 DEF SettledFirst
  <2>2. u[1] = t[2]
    BY <1>1, <1>3
  <2> QED
    BY <1>3, <2>1, <2>2
<1>4. CASE k > 2
  <2>1. t[k].op = "set_freq" \/ (t[k].op = "wait" /\ t[k - 1].op = "start")
    <3>1. k + 1 > 2 /\ (k + 1) - 1 = k /\ (k + 1) - 2 = k - 1 /\ k + 1 # 1 /\ k + 1 # 2
      BY <1>4
    <3> QED
      BY <1>1, <3>1 DEF SettledFirst
  <2>2. u[k - 1] = t[k] /\ u[k - 2] = t[k - 1]
    <3>1. k - 1 \in 1 .. n - 1 /\ k - 2 \in 1 .. n - 1 /\ (k - 1) + 1 = k /\ (k - 2) + 1 = k - 1
      BY <1>1, <1>4
    <3> QED
      BY <1>1, <3>1
  <2> QED
    BY <1>4, <2>1, <2>2
<1> QED
  BY <1>1, <1>2, <1>3, <1>4

LEMMA ConfiguredPopped ==
  ASSUME NEW t, IsProgram(t), t # <<>>, ConfiguredFirst(t),
         t[1].op = "configure" => cntl'[1 - sel'.slot] = ModemPll,
         t[1].op = "swap" => SlotRuns'
  PROVE  ConfiguredFirst(Tail(t))'
<1> DEFINE u == Tail(t)
           n == Len(t)
<1>1. /\ n \in Nat \ {0} /\ DOMAIN t = 1 .. n /\ DOMAIN u = 1 .. n - 1
      /\ \A k \in 1 .. n - 1 : u[k] = t[k + 1] /\ k + 1 \in 1 .. n
  BY Popped
<1> HIDE DEF u, n
<1> SUFFICES ASSUME NEW k \in 1 .. n - 1
             PROVE  /\ t[k + 1].op = "swap" => IF k = 1 THEN cntl'[1 - sel'.slot] = ModemPll
                                               ELSE u[k - 1].op = "configure"
                    /\ ToSource(t[k + 1], Raw) => IF k = 1 THEN SlotRuns' ELSE u[k - 1].op = "swap"
  BY <1>1 DEF ConfiguredFirst, u
<1>2. /\ t[k + 1].op = "swap" => t[k].op = "configure"
      /\ ToSource(t[k + 1], Raw) => t[k].op = "swap"
  <2>1. (k + 1) - 1 = k /\ k + 1 # 1
    OBVIOUS
  <2> QED
    BY <1>1, <2>1 DEF ConfiguredFirst
<1>3. CASE k = 1
  BY <1>2, <1>3
<1>4. CASE k # 1
  <2>1. k - 1 \in 1 .. n - 1 /\ (k - 1) + 1 = k
    BY <1>1, <1>4
  <2>2. u[k - 1] = t[k]
    BY <1>1, <2>1
  <2> QED
    BY <1>2, <1>4, <2>2
<1> QED
  BY <1>3, <1>4

LEMMA EndsPopped ==
  ASSUME NEW t, IsProgram(t), t # <<>>, NEW ops, NEW now, NEW v, Ends(t, ops, now, v)
  PROVE  Ends(Tail(t), ops, IF t[1].op \in ops THEN t[1].arg ELSE now, v)
<1> DEFINE u == Tail(t)
           n == Len(t)
<1>1. /\ n \in Nat \ {0} /\ DOMAIN t = 1 .. n /\ DOMAIN u = 1 .. n - 1 /\ Len(u) = n - 1
      /\ \A k \in 1 .. n - 1 : u[k] = t[k + 1] /\ k + 1 \in 1 .. n
  BY Popped
<1> HIDE DEF u, n
<1>2. CASE now = v /\ \A k \in DOMAIN t : t[k].op \notin ops
  BY <1>1, <1>2 DEF Ends, u
<1>3. ASSUME NEW m \in 1 .. n, t[m].op \in ops, t[m].arg = v, \A k \in m + 1 .. n : t[k].op \notin ops
      PROVE  Ends(u, ops, IF t[1].op \in ops THEN t[1].arg ELSE now, v)
  <2>1. CASE m = 1
    <3>1. \A k \in 1 .. n - 1 : u[k].op \notin ops
      BY <1>1, <1>3, <2>1
    <3> QED
      BY <1>1, <1>3, <2>1, <3>1 DEF Ends
  <2>2. CASE m # 1
    <3>1. m - 1 \in 1 .. n - 1 /\ (m - 1) + 1 = m
      BY <1>1, <2>2
    <3>2. \A k \in (m - 1) + 1 .. n - 1 : u[k].op \notin ops
      <4> SUFFICES ASSUME NEW k \in m .. n - 1 PROVE u[k].op \notin ops
        BY <3>1
      <4>1. k \in 1 .. n - 1 /\ k + 1 \in m + 1 .. n
        BY <1>1, <3>1
      <4> QED
        BY <1>1, <1>3, <4>1
    <3> QED
      BY <1>1, <1>3, <3>1, <3>2 DEF Ends
  <2> QED
    BY <2>1, <2>2
<1> QED
  BY <1>1, <1>2, <1>3 DEF Ends, u, n

LEMMA LeadsPopped ==
  ASSUME NEW t, IsProgram(t), t # <<>>, NEW i, LeadsTo(t, i),
         speed' = IF t[1].op = "speed" THEN t[1].arg ELSE speed,
         sel'.src = IF t[1].op = "source" THEN t[1].arg ELSE sel.src,
         scpll'.l = IF t[1].op \in Freq THEN t[1].arg ELSE scpll.l
  PROVE  LeadsTo(Tail(t), i)'
<1>1. Ends(Tail(t), {"speed"}, speed', i)
  BY EndsPopped DEF LeadsTo
<1>2. Ends(Tail(t), {"source"}, sel'.src, FreqTable[i].sel)
  BY EndsPopped DEF LeadsTo
<1>3. FreqTable[i].sel = Scpll => Ends(Tail(t), Freq, scpll'.l, FreqTable[i].l)
  BY EndsPopped DEF LeadsTo
<1> QED
  BY <1>1, <1>2, <1>3 DEF LeadsTo


(* The operations that do nothing to the core.                               *)
CoreStays == UNCHANGED coreVars /\ (mpll => mpll')

LEMMA CoreFrame ==
  ASSUME NEW t, CoreGoes(t), CoreStays, installed' => installed
  PROVE  CoreGoes(t)'
<1> USE DEF CoreStays, coreVars
<1>1. CoreTyped'
  BY DEF CoreGoes, CoreTyped
<1>2. Steady(t)'
  <2>1. AsideFirst(t)' /\ SettledFirst(t)'
    BY DEF CoreGoes, Steady, AsideFirst, SettledFirst
  <2>2. SlotRuns => SlotRuns'
    BY DEF SlotRuns
  <2>3. ConfiguredFirst(t)'
    BY <2>2 DEF CoreGoes, Steady, ConfiguredFirst
  <2> QED
    BY <2>1, <2>2, <2>3 DEF CoreGoes, Steady
<1>3. ASSUME NEW i, LeadsTo(t, i) PROVE LeadsTo(t, i)'
  BY <1>3 DEF LeadsTo
<1> QED
  BY <1>1, <1>2, <1>3 DEF CoreGoes

LEMMA CorePlain ==
  ASSUME NEW t, IsProgram(t), t # <<>>, CoreGoes(t), CoreStays, t[1].op \notin CoreOps,
         t[1].op = "check" => mpll', installed' => installed \/ t[1].op = "install"
  PROVE  CoreGoes(Tail(t))'
<1> USE DEF CoreStays, coreVars
<1>1. CoreTyped'
  BY DEF CoreGoes, CoreTyped
<1>2. t[1].op \notin {"configure", "swap", "source", "wait", "mode", "target", "start", "set_freq", "speed"}
  BY DEF CoreOps
<1>3. SlotRuns => SlotRuns'
  BY DEF SlotRuns
<1>4. AsideFirst(Tail(t))'
  BY <1>2, OrderPopped DEF CoreGoes, Steady, AsideFirst, ToSource
<1>5. SettledFirst(Tail(t))'
  BY <1>2, SettledPopped DEF CoreGoes, Steady
<1>6. ConfiguredFirst(Tail(t))'
  BY <1>2, ConfiguredPopped DEF CoreGoes, Steady
<1>7. mpll' \/ (~installed' /\ CheckedFirst(Tail(t)))
  BY OrderPopped DEF CoreGoes, Steady
<1>8. Steady(Tail(t))'
  BY <1>3, <1>4, <1>5, <1>6, <1>7 DEF CoreGoes, Steady
<1>9. ASSUME NEW i, LeadsTo(t, i) PROVE LeadsTo(Tail(t), i)'
  BY <1>2, <1>9, LeadsPopped DEF Freq
<1> QED
  BY <1>1, <1>8, <1>9 DEF CoreGoes

(* Each access leaves the core on a source that runs.                        *)
LEMMA CoreDone ==
  ASSUME NEW t, IsProgram(t), t # <<>>, CoreGoes(t), Access(t[1]), UNCHANGED <<mpll, installed>>
  PROVE  CoreGoes(Tail(t))'
<1> DEFINE a == t[1]
<1>1. CoreTyped /\ Steady(t)
  BY DEF CoreGoes
<1>2. /\ a.op \notin {"check", "install", "set_freq"}
      /\ a.op \in {"configure", "swap", "source", "wait", "mode", "target", "start", "speed"}
  BY DEF Access, ConfigureSlot, SwapSlot, SelectSource, WaitForSwitch, WriteMode, WriteTarget, StartSwitch,
     RecordSpeed
<1>3. CoreTyped'
  <2>1. CASE ConfigureSlot(a)
    BY <1>1, <2>1 DEF ConfigureSlot, CoreTyped
  <2>2. CASE SwapSlot(a)
    BY <1>1, <2>2 DEF SwapSlot, CoreTyped
  <2>3. CASE SelectSource(a)
    BY <1>1, <2>3 DEF SelectSource, CoreTyped
  <2>4. CASE WaitForSwitch(a) \/ RecordSpeed(a)
    BY <1>1, <2>4 DEF WaitForSwitch, RecordSpeed, coreVars, CoreTyped
  <2>5. CASE WriteMode(a) \/ WriteTarget(a) \/ StartSwitch(a)
    <3>1. sel' = sel /\ cntl' = cntl
      BY <2>5 DEF WriteMode, WriteTarget, StartSwitch
    <3>2. DOMAIN scpll' = {"mode", "l", "busy"} /\ scpll'.busy \in BOOLEAN
      BY <1>1, <2>5 DEF WriteMode, WriteTarget, StartSwitch, CoreTyped
    <3> QED
      BY <1>1, <3>1, <3>2 DEF CoreTyped
  <2> QED
    BY <2>1, <2>2, <2>3, <2>4, <2>5 DEF Access
<1>4. \A i : LeadsTo(t, i) => LeadsTo(Tail(t), i)'
  <2>1. /\ speed' = IF t[1].op = "speed" THEN t[1].arg ELSE speed
        /\ sel'.src = IF t[1].op = "source" THEN t[1].arg ELSE sel.src
        /\ scpll'.l = IF t[1].op \in Freq THEN t[1].arg ELSE scpll.l
    BY <1>1 DEF Access, ConfigureSlot, SwapSlot, SelectSource, WaitForSwitch, WriteMode, WriteTarget, StartSwitch,
       RecordSpeed, CoreTyped, coreVars, Freq
  <2> QED
    BY <2>1, LeadsPopped
<1>5. mpll' \/ (~installed' /\ CheckedFirst(Tail(t)))
  BY <1>1, <1>2, OrderPopped DEF Steady
<1>6. OnLast(Tail(t))
  BY <1>1, OrderPopped DEF Steady, AsideFirst
<1>7. ASSUME UNCHANGED <<sel, cntl>> PROVE SlotRuns' = SlotRuns
  BY <1>7 DEF SlotRuns
<1>8. SettledFirst(Tail(t))'
  <2>1. /\ a.op = "wait" /\ scpll.mode = Normal => scpll'.mode = Normal /\ ~scpll'.busy
        /\ a.op = "start" => scpll'.mode = Normal
    BY <1>1 DEF Access, ConfigureSlot, SwapSlot, SelectSource, WaitForSwitch, WriteMode, WriteTarget, StartSwitch,
     RecordSpeed, CoreTyped, coreVars
  <2> QED
    BY <1>1, <1>2, <2>1, SettledPopped DEF Steady
<1>9. CASE ConfigureSlot(a)
  <2>1. /\ sel' = sel /\ scpll' = scpll /\ cntl' = [cntl EXCEPT ![1 - sel.slot] = ModemPll] /\ a.op = "configure"
    BY <1>9 DEF ConfigureSlot
  <2>2. cntl'[1 - sel.slot] = ModemPll /\ cntl'[sel.slot] = cntl[sel.slot]
    BY <1>1, <2>1 DEF CoreTyped
  <2>3. SlotRuns' = SlotRuns
    BY <2>1, <2>2 DEF SlotRuns
  <2>4. ConfiguredFirst(Tail(t))'
    BY <1>1, <2>1, <2>2, ConfiguredPopped DEF Steady
  <2>5. AsideFirst(Tail(t))'
    BY <1>1, <1>6, <2>1, OrderPopped DEF Steady, AsideFirst, ToSource
  <2> QED
    BY <1>1, <1>3, <1>4, <1>5, <1>8, <2>1, <2>3, <2>4, <2>5 DEF CoreGoes, Steady
<1>10. CASE SwapSlot(a)
  <2>1. /\ sel'.slot = 1 - sel.slot /\ sel'.src = sel.src /\ scpll' = scpll /\ cntl' = cntl /\ a.op = "swap"
    BY <1>1, <1>10 DEF SwapSlot, CoreTyped
  <2>2. SlotRuns'
    <3>1. cntl[1 - sel.slot] = ModemPll
      BY <1>1, <2>1, Popped DEF Steady, ConfiguredFirst
    <3>2. mpll'
      BY <1>1, <2>1, OrderPopped DEF Steady
    <3> QED
      BY <2>1, <3>1, <3>2 DEF SlotRuns
  <2>3. ConfiguredFirst(Tail(t))'
    BY <1>1, <2>1, <2>2, ConfiguredPopped DEF Steady
  <2>4. AsideFirst(Tail(t))'
    BY <1>1, <1>6, <2>1, OrderPopped DEF Steady, AsideFirst, ToSource
  <2> QED
    BY <1>3, <1>4, <1>5, <1>8, <2>2, <2>3, <2>4 DEF CoreGoes, Steady
<1>11. CASE SelectSource(a)
  <2>1. /\ sel'.src = a.arg /\ sel'.slot = sel.slot /\ scpll' = scpll /\ cntl' = cntl /\ a.op = "source"
    BY <1>1, <1>11 DEF SelectSource, CoreTyped
  <2>2. SlotRuns' = SlotRuns /\ (ToSource(a, Raw) => SlotRuns)
    <3>1. ToSource(a, Raw) => SlotRuns
      BY <1>1, Popped DEF Steady, ConfiguredFirst
    <3> QED
      BY <2>1, <3>1 DEF SlotRuns
  <2>3. ConfiguredFirst(Tail(t))'
    BY <1>1, <2>1, ConfiguredPopped DEF Steady
  <2>4. AsideFirst(Tail(t))'
    <3>1. ToSource(a, Scpll) => scpll.mode = Normal /\ ~scpll.busy
      BY <1>1, Popped DEF Steady, SettledFirst
    <3> QED
      BY <1>1, <1>6, <2>1, <3>1, OrderPopped DEF Steady, AsideFirst, ToSource
  <2> QED
    BY <1>3, <1>4, <1>5, <1>8, <2>1, <2>2, <2>3, <2>4 DEF CoreGoes, Steady, ToSource
<1>12. CASE UNCHANGED <<sel, cntl, scpll>> /\ a.op \in {"wait", "speed"}
  <2>1. ConfiguredFirst(Tail(t))'
    BY <1>1, <1>12, ConfiguredPopped DEF Steady
  <2>2. AsideFirst(Tail(t))'
    BY <1>1, <1>6, <1>12, OrderPopped DEF Steady, AsideFirst, ToSource
  <2> QED
    BY <1>1, <1>3, <1>4, <1>5, <1>7, <1>8, <1>12, <2>1, <2>2 DEF CoreGoes, Steady
<1>13. CASE UNCHANGED <<sel, cntl>> /\ a.op \in {"mode", "target", "start"}
  <2>1. sel.src # Scpll
    BY <1>1, <1>13, OrderPopped DEF Steady, AsideFirst, PllOps
  <2>2. ConfiguredFirst(Tail(t))'
    BY <1>1, <1>13, ConfiguredPopped DEF Steady
  <2>3. AsideFirst(Tail(t))'
    BY <1>6, <1>13, <2>1 DEF AsideFirst
  <2> QED
    BY <1>1, <1>3, <1>4, <1>5, <1>7, <1>8, <1>13, <2>2, <2>3 DEF CoreGoes, Steady
<1>14. CASE WaitForSwitch(a)
  BY <1>12, <1>14 DEF WaitForSwitch, coreVars
<1>15. CASE RecordSpeed(a)
  BY <1>12, <1>15 DEF RecordSpeed
<1>16. CASE WriteMode(a) \/ WriteTarget(a) \/ StartSwitch(a)
  BY <1>13, <1>16 DEF WriteMode, WriteTarget, StartSwitch
<1> QED
  BY <1>9, <1>10, <1>11, <1>14, <1>15, <1>16 DEF Access

(* set_freq is replaced by the accesses it stands for.                       *)
LEMMA EndsJoined ==
  ASSUME NEW s, NEW t, IsProgram(s), IsProgram(t), NEW ops, NEW now, NEW then, NEW v,
         Ends(s, ops, now, then), Ends(t, ops, then, v)
  PROVE  Ends(s \o t, ops, now, v)
<1> DEFINE q == s \o t
           n == Len(s)
           m == Len(t)
<1>1. /\ n \in Nat /\ m \in Nat /\ DOMAIN s = 1 .. n /\ DOMAIN t = 1 .. m
      /\ DOMAIN q = 1 .. n + m /\ Len(q) = n + m
      /\ \A k \in 1 .. n : q[k] = s[k]
      /\ \A k \in 1 .. m : q[n + k] = t[k]
  BY Joined
<1> HIDE DEF q, n, m
<1>2. ASSUME NEW k \in 1 .. n + m, k > n PROVE k - n \in 1 .. m /\ q[k] = t[k - n]
  <2>1. k - n \in 1 .. m /\ n + (k - n) = k
    BY <1>1, <1>2
  <2> QED
    BY <1>1, <2>1
<1>3. ASSUME NEW i \in 1 .. m, t[i].op \in ops, t[i].arg = v, \A k \in i + 1 .. m : t[k].op \notin ops
      PROVE  Ends(q, ops, now, v)
  <2>1. n + i \in 1 .. n + m /\ q[n + i] = t[i]
    BY <1>1
  <2>2. ASSUME NEW k \in (n + i) + 1 .. n + m PROVE q[k].op \notin ops
    <3>1. k \in 1 .. n + m /\ k > n /\ k - n \in i + 1 .. m
      BY <1>1
    <3> QED
      BY <1>2, <1>3, <3>1
  <2> QED
    BY <1>1, <1>3, <2>1, <2>2 DEF Ends
<1>4. ASSUME then = v, \A k \in 1 .. m : t[k].op \notin ops
      PROVE  Ends(q, ops, now, v)
  <2>1. CASE now = then /\ \A k \in 1 .. n : s[k].op \notin ops
    <3>1. \A k \in 1 .. n + m : q[k].op \notin ops
      BY <1>1, <1>2, <1>4, <2>1
    <3> QED
      BY <1>1, <1>4, <2>1, <3>1 DEF Ends
  <2>2. ASSUME NEW i \in 1 .. n, s[i].op \in ops, s[i].arg = then, \A k \in i + 1 .. n : s[k].op \notin ops
        PROVE  Ends(q, ops, now, v)
    <3>1. i \in 1 .. n + m /\ q[i] = s[i]
      BY <1>1
    <3>2. ASSUME NEW k \in i + 1 .. n + m PROVE q[k].op \notin ops
      <4>1. CASE k > n
        BY <1>1, <1>2, <1>4, <4>1
      <4>2. CASE ~(k > n)
        <5>1. k \in i + 1 .. n /\ k \in 1 .. n
          BY <1>1, <4>2
        <5> QED
          BY <1>1, <2>2, <5>1
      <4> QED
        BY <4>1, <4>2
    <3> QED
      BY <1>1, <1>4, <2>2, <3>1, <3>2 DEF Ends
  <2> QED
    BY <1>1, <2>1, <2>2 DEF Ends, n
<1> QED
  BY <1>1, <1>3, <1>4 DEF Ends, q, m

HopOps == {"mode", "target", "start", "wait"}

(* The accesses end when the change has been started and waited for.        *)
IsHop(s, l) ==
  /\ OpsIn(s, HopOps) /\ Len(s) > 2
  /\ s[Len(s)].op = "wait" /\ s[Len(s) - 1].op = "start"
  /\ Ends(s, Freq, scpll.l, l)

FourThree(a, b, c, d, e, f, g) == <<a, b, c, d>> \o <<e, f, g>>
NoneThree(e, f, g) == <<>> \o <<e, f, g>>

LEMMA HopIn ==
  /\ \A a, b, c, d, e, f, g :
       LET q == FourThree(a, b, c, d, e, f, g)
       IN /\ Len(q) = 7 /\ DOMAIN q = 1 .. 7
          /\ q[1] = a /\ q[2] = b /\ q[3] = c /\ q[4] = d /\ q[5] = e /\ q[6] = f /\ q[7] = g
  /\ \A e, f, g :
       LET q == NoneThree(e, f, g)
       IN Len(q) = 3 /\ DOMAIN q = 1 .. 3 /\ q[1] = e /\ q[2] = f /\ q[3] = g
  BY DEF FourThree, NoneThree

LEMMA SetFreqHops == ASSUME NEW l PROVE IsHop(SetFreq(l), l)
<1> DEFINE e == DoWith("target", l)
           q == FourThree(DoWith("mode", Standby), DoWith("target", 10), Do("start"), Do("wait"),
                          e, Do("start"), Do("wait"))
           r == NoneThree(e, Do("start"), Do("wait"))
<1>0. /\ DoWith("mode", Standby).op = "mode" /\ DoWith("target", 10).op = "target" /\ e.op = "target"
      /\ e.arg = l /\ Do("start").op = "start" /\ Do("wait").op = "wait"
  BY DEF Do, DoWith
<1>1. /\ Len(q) = 7 /\ DOMAIN q = 1 .. 7
      /\ q[1].op = "mode" /\ q[2].op = "target" /\ q[3].op = "start" /\ q[4].op = "wait"
      /\ q[5].op = "target" /\ q[5].arg = l /\ q[6].op = "start" /\ q[7].op = "wait"
  BY <1>0, HopIn
<1>2. /\ Len(r) = 3 /\ DOMAIN r = 1 .. 3
      /\ r[1].op = "target" /\ r[1].arg = l /\ r[2].op = "start" /\ r[3].op = "wait"
  BY <1>0, HopIn
<1>3. OpsIn(q, HopOps) /\ OpsIn(r, HopOps)
  BY JoinedOps, ShortOps DEF Do, DoWith, HopOps, FourThree, NoneThree
<1>4. SetFreq(l) = IF scpll.mode = Normal THEN r ELSE q
  BY Zenon DEF SetFreq, Hop, FourThree, NoneThree
<1> HIDE DEF e, q, r
<1>5. IsHop(q, l)
  <2>1. Ends(q, Freq, scpll.l, l)
    BY <1>1 DEF Ends, Freq
  <2> QED
    BY <1>1, <1>3, <2>1 DEF IsHop
<1>6. IsHop(r, l)
  <2>1. Ends(r, Freq, scpll.l, l)
    BY <1>2 DEF Ends, Freq
  <2> QED
    BY <1>2, <1>3, <2>1 DEF IsHop
<1> QED
  BY <1>4, <1>5, <1>6

LEMMA CoreExpanded ==
  ASSUME NEW t, IsProgram(t), t # <<>>, t[1].op = "set_freq", CoreGoes(t),
         NEW s, IsHop(s, t[1].arg)
  PROVE  CoreGoes(s \o Tail(t))
<1> DEFINE u == Tail(t)
           q == s \o u
           n == Len(s)
           m == Len(t)
<1>1. /\ IsProgram(u) /\ m \in Nat \ {0} /\ DOMAIN t = 1 .. m /\ DOMAIN u = 1 .. m - 1 /\ Len(u) = m - 1
      /\ \A k \in 1 .. m - 1 : u[k] = t[k + 1]
  BY Popped
<1>2. /\ IsProgram(s) /\ n \in Nat /\ n > 2 /\ DOMAIN s = 1 .. n /\ DOMAIN q = 1 .. n + (m - 1)
      /\ \A k \in 1 .. n : q[k] = s[k]
      /\ \A k \in 1 .. m - 1 : q[n + k] = u[k]
  BY <1>1, Joined DEF IsHop, OpsIn
<1>3. Steady(t) /\ CoreTyped
  BY DEF CoreGoes
<1>4. CoreGoes(t) => \E i \in 1 .. 18 : LeadsTo(t, i)
  BY DEF CoreGoes
<1> HIDE DEF u, q, n, m
(* Operation k of the new program is one of the hop, or operation k - n + 1. *)
<1>5. ASSUME NEW k \in 1 .. n + (m - 1), k > n
      PROVE  /\ (k - n) + 1 \in 1 .. m /\ (k - n) + 1 > 1
             /\ q[k] = t[(k - n) + 1]
  <2>1. k - n \in 1 .. m - 1 /\ n + (k - n) = k
    BY <1>1, <1>2, <1>5
  <2>2. q[n + (k - n)] = u[k - n] /\ u[k - n] = t[(k - n) + 1]
    BY <1>1, <1>2, <2>1
  <2>3. (k - n) + 1 \in 1 .. m /\ (k - n) + 1 > 1
    BY <1>1, <2>1
  <2> QED
    BY <2>1, <2>2, <2>3
<1>6. \A k \in 1 .. n : q[k].op \in HopOps
  BY <1>2 DEF IsHop, OpsIn
<1>7. ASSUME NEW k \in 1 .. n + (m - 1), q[k].op \notin HopOps PROVE k > n
  BY <1>1, <1>2, <1>6, <1>7
<1>8. sel.src # Scpll
  BY <1>3, OrderPopped DEF Steady, AsideFirst, PllOps
<1>9. OnLast(q)
  <2> SUFFICES ASSUME NEW k \in 1 .. n + (m - 1), q[k].op \in PllOps, NEW j \in 1 .. k - 1, ToSource(q[j], Scpll)
               PROVE  FALSE
    BY <1>2 DEF OnLast
  <2>1. j \in 1 .. n + (m - 1) /\ q[j].op \notin HopOps
    BY <1>1, <1>2 DEF ToSource, HopOps
  <2>2. j > n
    BY <1>7, <2>1
  <2>3. k > n
    BY <1>1, <1>2, <2>2
  <2>4. (j - n) + 1 \in 1 .. ((k - n) + 1) - 1
    BY <1>1, <1>2, <2>2, <2>3
  <2> QED
    BY <1>1, <1>3, <1>5, <2>1, <2>2, <2>3, <2>4 DEF Steady, AsideFirst, OnLast
<1>10. SettledFirst(q)
  <2> SUFFICES ASSUME NEW k \in 1 .. n + (m - 1), ToSource(q[k], Scpll)
               PROVE  k > 2 /\ (q[k - 1].op = "set_freq" \/ (q[k - 1].op = "wait" /\ q[k - 2].op = "start"))
    BY <1>2 DEF SettledFirst
  <2>1. k > n
    BY <1>7 DEF ToSource, HopOps
  <2> DEFINE h == (k - n) + 1
  <2>2. h \in 1 .. m /\ h > 1 /\ q[k] = t[h]
    BY <1>5, <2>1
  <2>3. CASE h = 2
    <3>1. k - 1 = n /\ k - 2 = n - 1 /\ n \in 1 .. n /\ n - 1 \in 1 .. n
      BY <1>2, <2>3
    <3>2. q[n] = s[n] /\ q[n - 1] = s[n - 1]
      BY <1>2, <3>1
    <3> QED
      BY <1>2, <3>1, <3>2 DEF IsHop, n
  <2>4. CASE h # 2
    <3>1. h > 2 /\ k - 1 > n /\ k - 1 \in 1 .. n + (m - 1) /\ ((k - 1) - n) + 1 = h - 1
      BY <1>1, <1>2, <2>1, <2>2, <2>4
    <3>2. q[k - 1] = t[h - 1]
      BY <1>5, <3>1
    <3>3. t[h - 1].op = "set_freq" \/ (t[h - 1].op = "wait" /\ t[h - 2].op = "start")
      BY <1>1, <1>3, <2>2, <3>1 DEF Steady, SettledFirst
    <3>4. CASE h = 3
      <4>1. h - 2 = 1
        BY <3>4
      <4> QED
        BY <1>2, <2>1, <3>2, <3>3, <4>1
    <3>5. CASE h # 3
      <4>1. k - 2 > n /\ k - 2 \in 1 .. n + (m - 1) /\ ((k - 2) - n) + 1 = h - 2
        BY <1>1, <1>2, <3>1, <3>5
      <4>2. q[k - 2] = t[h - 2]
        BY <1>5, <4>1
      <4> QED
        BY <1>2, <2>1, <3>2, <3>3, <4>2
    <3> QED
      BY <3>4, <3>5
  <2> QED
    BY <2>3, <2>4
<1>11. ConfiguredFirst(q)
  <2> SUFFICES ASSUME NEW k \in 1 .. n + (m - 1), q[k].op = "swap" \/ ToSource(q[k], Raw)
               PROVE  /\ k > 1
                      /\ q[k].op = "swap" => q[k - 1].op = "configure"
                      /\ ToSource(q[k], Raw) => q[k - 1].op = "swap"
    BY <1>2 DEF ConfiguredFirst
  <2>1. k > n
    BY <1>7 DEF ToSource, HopOps
  <2> DEFINE h == (k - n) + 1
  <2>2. h \in 1 .. m /\ h > 1 /\ q[k] = t[h]
    BY <1>5, <2>1
  <2>3. /\ t[h].op = "swap" => t[h - 1].op = "configure"
        /\ ToSource(t[h], Raw) => t[h - 1].op = "swap"
    BY <1>1, <1>3, <2>2 DEF Steady, ConfiguredFirst
  <2>4. h # 2
    <3> SUFFICES ASSUME h = 2 PROVE FALSE
      OBVIOUS
    <3>1. h - 1 = 1
      OBVIOUS
    <3> QED
      BY <2>2, <2>3, <3>1
  <2>5. k - 1 > n /\ k - 1 \in 1 .. n + (m - 1) /\ ((k - 1) - n) + 1 = h - 1
    BY <1>1, <1>2, <2>1, <2>2, <2>4
  <2>6. q[k - 1] = t[h - 1]
    BY <1>5, <2>5
  <2> QED
    BY <1>2, <2>1, <2>2, <2>3, <2>6
<1>12. CheckedFirst(t) => CheckedFirst(q)
  <2> SUFFICES ASSUME CheckedFirst(t), NEW k \in 1 .. n + (m - 1), q[k].op \in {"configure", "swap", "install"}
               PROVE  \E j \in 1 .. k - 1 : q[j].op = "check"
    BY <1>2 DEF CheckedFirst
  <2>1. k > n
    BY <1>7 DEF HopOps
  <2> DEFINE h == (k - n) + 1
  <2>2. h \in 1 .. m /\ h > 1 /\ q[k] = t[h]
    BY <1>5, <2>1
  <2>3. PICK i \in 1 .. h - 1 : t[i].op = "check"
    BY <1>1, <2>2 DEF CheckedFirst
  <2>4. i # 1
    BY <2>3
  <2>5. i - 1 \in 1 .. m - 1 /\ (i - 1) + 1 = i /\ n + (i - 1) \in 1 .. k - 1
    BY <1>1, <1>2, <2>1, <2>2, <2>3, <2>4
  <2>6. q[n + (i - 1)] = t[i]
    BY <1>1, <1>2, <2>5
  <2> QED
    BY <2>3, <2>5, <2>6
<1>13. ASSUME NEW i, LeadsTo(t, i) PROVE LeadsTo(q, i)
  <2>1. \A ops \in {{"speed"}, {"source"}} : \A now : Ends(s, ops, now, now)
    BY <1>2, <1>6 DEF Ends, IsHop, OpsIn, HopOps
  <2>2. \A ops \in {{"speed"}, {"source"}} : \A now, v : Ends(t, ops, now, v) => Ends(u, ops, now, v)
    BY EndsPopped DEF u
  <2>3. \A v : Ends(t, Freq, scpll.l, v) => Ends(u, Freq, t[1].arg, v)
    BY EndsPopped DEF u, Freq
  <2>4. Ends(q, {"speed"}, speed, i)
    BY <1>1, <1>2, <1>13, <2>1, <2>2, EndsJoined DEF LeadsTo, q
  <2>5. Ends(q, {"source"}, sel.src, FreqTable[i].sel)
    BY <1>1, <1>2, <1>13, <2>1, <2>2, EndsJoined DEF LeadsTo, q
  <2>6. FreqTable[i].sel = Scpll => Ends(q, Freq, scpll.l, FreqTable[i].l)
    BY <1>1, <1>2, <1>13, <2>3, EndsJoined DEF LeadsTo, q, IsHop
  <2> QED
    BY <2>4, <2>5, <2>6 DEF LeadsTo
<1>14. Steady(q)
  BY <1>3, <1>8, <1>9, <1>10, <1>11, <1>12 DEF Steady, AsideFirst
<1> QED
  BY <1>3, <1>4, <1>13, <1>14 DEF CoreGoes, q, u

(* Programs that only call leave the core where it is.                       *)
QuietOps == {"call", "until", "let", "CpuDeadLoop"}

LEMMA QuietGoes ==
  ASSUME CoreGoes(<<>>), mpll, NEW s, OpsIn(s, QuietOps)
  PROVE  CoreGoes(s)
<1>1. /\ \A k \in DOMAIN s : /\ s[k].op \notin CoreOps \cup {"check", "install"}
                              /\ s[k].op \notin PllOps /\ ~ToSource(s[k], Raw) /\ ~ToSource(s[k], Scpll)
  BY DEF OpsIn, QuietOps, CoreOps, PllOps, ToSource
<1>2. /\ CoreTyped /\ (sel.src = Scpll => scpll.mode = Normal /\ ~scpll.busy) /\ (sel.src = Raw => SlotRuns)
  BY DEF CoreGoes, Steady, AsideFirst
<1>3. \A k \in DOMAIN s : s[k].op \notin {"configure", "swap", "speed", "source"} /\ s[k].op \notin Freq
  BY <1>1 DEF CoreOps, Freq
<1>4. Steady(s)
  BY <1>1, <1>2, <1>3 DEF Steady, AsideFirst, OffFirst, OnLast, SettledFirst, ConfiguredFirst
<1>5. DOMAIN <<>> = {}
  OBVIOUS
<1>6. \A ops, now, v : Ends(<<>>, ops, now, v) => now = v
  BY <1>5 DEF Ends
<1>7. ASSUME NEW i, LeadsTo(<<>>, i) PROVE LeadsTo(s, i)
  <2>1. Ends(s, {"speed"}, speed, i)
    BY <1>3, <1>6, <1>7 DEF LeadsTo, Ends
  <2>2. Ends(s, {"source"}, sel.src, FreqTable[i].sel)
    BY <1>3, <1>6, <1>7 DEF LeadsTo, Ends
  <2>3. FreqTable[i].sel = Scpll => Ends(s, Freq, scpll.l, FreqTable[i].l)
    BY <1>3, <1>6, <1>7 DEF LeadsTo, Ends
  <2> QED
    BY <2>1, <2>2, <2>3 DEF LeadsTo
<1>8. CoreGoes(<<>>) => \E i \in 1 .. 18 : LeadsTo(<<>>, i)
  BY DEF CoreGoes
<1> QED
  BY <1>2, <1>4, <1>7, <1>8 DEF CoreGoes

(* The four programs of acpuclk_set_rate.                                    *)
RawToScpll(w, f, p, v) == ((<<>> \o <<w, f>>) \o (<<>> \o <<p>>)) \o <<v>>
ScpllToScpll(c, s, r, w, f, p, v) == (((<<c, s>> \o <<r>>) \o <<w, f>>) \o (<<>> \o <<p>>)) \o <<v>>
ScpllToRaw(c, s, r, w, m, n, v) == (((<<c, s>> \o <<r>>) \o (<<c, s>> \o <<r>>)) \o <<w, m, n>>) \o <<v>>
RawToRaw(c, s, r, v) == (<<c, s>> \o <<r>>) \o <<v>>

LEMMA RawToScpllIn ==
  \A w, f, p, v : LET q == RawToScpll(w, f, p, v)
                  IN Len(q) = 4 /\ DOMAIN q = 1 .. 4 /\ q[1] = w /\ q[2] = f /\ q[3] = p /\ q[4] = v
  BY DEF RawToScpll

LEMMA ScpllToScpllIn ==
  \A c, s, r, w, f, p, v :
     LET q == ScpllToScpll(c, s, r, w, f, p, v)
     IN /\ Len(q) = 7 /\ DOMAIN q = 1 .. 7
        /\ q[1] = c /\ q[2] = s /\ q[3] = r /\ q[4] = w /\ q[5] = f /\ q[6] = p /\ q[7] = v
  BY DEF ScpllToScpll

LEMMA ScpllToRawIn ==
  \A c, s, r, w, m, n, v :
     LET q == ScpllToRaw(c, s, r, w, m, n, v)
     IN /\ Len(q) = 10 /\ DOMAIN q = 1 .. 10
        /\ q[1] = c /\ q[2] = s /\ q[3] = r /\ q[4] = c /\ q[5] = s /\ q[6] = r
        /\ q[7] = w /\ q[8] = m /\ q[9] = n /\ q[10] = v
  BY DEF ScpllToRaw

LEMMA RawToRawIn ==
  \A c, s, r, v : LET q == RawToRaw(c, s, r, v)
                  IN Len(q) = 4 /\ DOMAIN q = 1 .. 4 /\ q[1] = c /\ q[2] = s /\ q[3] = r /\ q[4] = v
  BY DEF RawToRaw

(* The table: the first entry is the raw source, the others are of the PLL,  *)
(* with an L value that is not clamped.                                      *)
LEMMA TableEntries ==
  ASSUME NEW i \in 1 .. 18
  PROVE  /\ DOMAIN FreqTable = 1 .. 18
         /\ FreqTable[i].sel \in {Raw, Scpll} /\ (FreqTable[i].sel = Raw => i = 1)
         /\ i > 1 => FreqTable[i].sel = Scpll /\ FreqTable[i].l = 8 + i /\ FreqTable[i].khz = 38400 * (8 + i)
         /\ FreqTable[i].sel = Scpll => ClampedL(FreqTable[i].l) = FreqTable[i].l
<1>1. DOMAIN FreqTable = 1 .. 18
  BY DEF FreqTable
<1>2. CASE i = 1
  <2>1. FreqTable[i].sel = Raw
    BY <1>2 DEF FreqTable
  <2> QED
    BY <1>1, <1>2, <2>1 DEF Raw, Scpll
<1>3. CASE i > 1
  <2>1. FreqTable[i].sel = Scpll /\ FreqTable[i].l = 8 + i /\ FreqTable[i].khz = 38400 * (8 + i)
    BY <1>3 DEF FreqTable
  <2>2. ClampedL(8 + i) = 8 + i
    BY <1>3 DEF ClampedL
  <2> QED
    BY <1>1, <1>3, <2>1, <2>2 DEF Raw, Scpll
<1> QED
  BY <1>2, <1>3

LEMMA Sources ==
  \A i \in 1 .. 18 : /\ FreqTable[i].sel \in {Raw, Scpll}
                     /\ FreqTable[i].sel = Scpll => ClampedL(FreqTable[i].l) = FreqTable[i].l
  BY TableEntries

(* Operations of the programs by what they are.                              *)
LEMMA CoreOperations ==
  /\ \A src : DoWith("source", src).op = "source" /\ DoWith("source", src).arg = src
  /\ \A l : DoWith("set_freq", l).op = "set_freq" /\ DoWith("set_freq", l).arg = l
  /\ \A i : DoWith("speed", i).op = "speed" /\ DoWith("speed", i).arg = i
  /\ \A m : DoWith("mode", m).op = "mode"
  /\ Do("configure").op = "configure" /\ Do("swap").op = "swap" /\ Do("wait").op = "wait"
  BY DEF Do, DoWith

IsRate(q, i) ==
  /\ sel.src = Scpll => OffFirst(q)
  /\ OnLast(q) /\ SettledFirst(q) /\ ConfiguredFirst(q)
  /\ LeadsTo(q, i)

LEMMA RateFromRaw ==
  ASSUME NEW i, FreqTable[i].sel = Scpll, ClampedL(FreqTable[i].l) = FreqTable[i].l, sel.src # Scpll, sel.src = Raw,
         FreqTable[speed].sel = Raw
  PROVE  IsRate(SetRate(i), i)
<1> DEFINE w == Do("wait")
           f == DoWith("set_freq", ClampedL(FreqTable[i].l))
           p == DoWith("source", Scpll)
           v == DoWith("speed", i)
           q == RawToScpll(w, f, p, v)
<1>1. SetRate(i) = q
  <2>1. Scpll # Raw
    BY DEF Scpll, Raw
  <2> QED
    BY <2>1, Zenon DEF SetRate, StepAside, ScpllSetFreq, SelectClock, RawToScpll
<1>2. /\ w.op = "wait" /\ f.op = "set_freq" /\ f.arg = FreqTable[i].l /\ p.op = "source" /\ p.arg = Scpll
      /\ v.op = "speed" /\ v.arg = i
  BY CoreOperations
<1> HIDE DEF w, f, p, v
<1>3. Len(q) = 4 /\ DOMAIN q = 1 .. 4 /\ q[1] = w /\ q[2] = f /\ q[3] = p /\ q[4] = v
  BY RawToScpllIn
<1> HIDE DEF q
<1>4. OnLast(q)
  BY <1>2, <1>3 DEF OnLast, ToSource, PllOps
<1>5. SettledFirst(q)
  BY <1>2, <1>3 DEF SettledFirst, ToSource
<1>6. ConfiguredFirst(q)
  BY <1>2, <1>3 DEF ConfiguredFirst, ToSource, Raw, Scpll
<1>7. Ends(q, {"speed"}, speed, i)
  BY <1>2, <1>3 DEF Ends
<1>8. Ends(q, {"source"}, sel.src, FreqTable[i].sel)
  BY <1>2, <1>3 DEF Ends
<1>9. Ends(q, Freq, scpll.l, FreqTable[i].l)
  BY <1>2, <1>3 DEF Ends, Freq
<1> QED
  BY <1>1, <1>4, <1>5, <1>6, <1>7, <1>8, <1>9 DEF IsRate, LeadsTo

LEMMA RateOnScpll ==
  ASSUME NEW i, FreqTable[i].sel = Scpll, ClampedL(FreqTable[i].l) = FreqTable[i].l,
         FreqTable[speed].sel # Raw
  PROVE  IsRate(SetRate(i), i)
<1> DEFINE c == Do("configure")
           s == Do("swap")
           r == DoWith("source", Raw)
           w == Do("wait")
           f == DoWith("set_freq", ClampedL(FreqTable[i].l))
           p == DoWith("source", Scpll)
           v == DoWith("speed", i)
           q == ScpllToScpll(c, s, r, w, f, p, v)
<1>1. SetRate(i) = q
  <2>1. Scpll # Raw
    BY DEF Scpll, Raw
  <2> QED
    BY <2>1, Zenon DEF SetRate, StepAside, ScpllSetFreq, SelectClock, ScpllToScpll
<1>2. /\ c.op = "configure" /\ s.op = "swap" /\ r.op = "source" /\ r.arg = Raw
      /\ w.op = "wait" /\ f.op = "set_freq" /\ f.arg = FreqTable[i].l /\ p.op = "source" /\ p.arg = Scpll
      /\ v.op = "speed" /\ v.arg = i
  BY CoreOperations
<1> HIDE DEF c, s, r, w, f, p, v
<1>3. /\ Len(q) = 7 /\ DOMAIN q = 1 .. 7
      /\ q[1] = c /\ q[2] = s /\ q[3] = r /\ q[4] = w /\ q[5] = f /\ q[6] = p /\ q[7] = v
  BY ScpllToScpllIn
<1> HIDE DEF q
<1>4. OnLast(q)
  BY <1>2, <1>3 DEF OnLast, ToSource, PllOps, Raw, Scpll
<1>5. SettledFirst(q)
  BY <1>2, <1>3 DEF SettledFirst, ToSource, Raw, Scpll
<1>6. ConfiguredFirst(q)
  BY <1>2, <1>3 DEF ConfiguredFirst, ToSource, Raw, Scpll
<1>7. Ends(q, {"speed"}, speed, i)
  BY <1>2, <1>3 DEF Ends
<1>8. Ends(q, {"source"}, sel.src, FreqTable[i].sel)
  BY <1>2, <1>3 DEF Ends
<1>9. Ends(q, Freq, scpll.l, FreqTable[i].l)
  BY <1>2, <1>3 DEF Ends, Freq
<1>10. OffFirst(q)
  <2>1. \A k \in 1 .. 7 : q[k].op \in PllOps => k = 5
    BY <1>2, <1>3 DEF PllOps
  <2>2. ToSource(q[3], Raw) /\ 3 \in 1 .. 5 - 1
    BY <1>2, <1>3 DEF ToSource
  <2> QED
    BY <1>3, <2>1, <2>2 DEF OffFirst
<1> QED
  BY <1>1, <1>4, <1>5, <1>6, <1>7, <1>8, <1>9, <1>10 DEF IsRate, LeadsTo

LEMMA RateToRaw ==
  ASSUME NEW i, FreqTable[i].sel = Raw, FreqTable[speed].sel = Scpll
  PROVE  IsRate(SetRate(i), i)
<1> DEFINE c == Do("configure")
           s == Do("swap")
           r == DoWith("source", Raw)
           w == Do("wait")
           m == DoWith("mode", Standby)
           n == DoWith("mode", PowerDown)
           v == DoWith("speed", i)
           q == ScpllToRaw(c, s, r, w, m, n, v)
<1>0. Scpll # Raw
  BY DEF Scpll, Raw
<1>1. SetRate(i) = q
  BY <1>0, Zenon DEF SetRate, ScpllPowerDown, SelectClock, ScpllToRaw
<1>2. /\ c.op = "configure" /\ s.op = "swap" /\ r.op = "source" /\ r.arg = Raw
      /\ w.op = "wait" /\ m.op = "mode" /\ n.op = "mode" /\ v.op = "speed" /\ v.arg = i
  BY CoreOperations
<1> HIDE DEF c, s, r, w, m, n, v
<1>3. /\ Len(q) = 10 /\ DOMAIN q = 1 .. 10
      /\ q[1] = c /\ q[2] = s /\ q[3] = r /\ q[4] = c /\ q[5] = s /\ q[6] = r
      /\ q[7] = w /\ q[8] = m /\ q[9] = n /\ q[10] = v
  BY ScpllToRawIn
<1> HIDE DEF q
<1>4. \A k \in 1 .. 10 : ~ToSource(q[k], Scpll) /\ (ToSource(q[k], Raw) => k \in {3, 6})
  BY <1>2, <1>3 DEF ToSource, Raw, Scpll
<1>5. OnLast(q) /\ SettledFirst(q)
  BY <1>3, <1>4 DEF OnLast, SettledFirst
<1>6. ConfiguredFirst(q)
  <2>1. \A k \in 1 .. 10 : q[k].op = "swap" => k \in {2, 5}
    BY <1>2, <1>3
  <2> QED
    BY <1>2, <1>3, <1>4, <2>1 DEF ConfiguredFirst
<1>7. Ends(q, {"speed"}, speed, i)
  BY <1>2, <1>3 DEF Ends
<1>8. Ends(q, {"source"}, sel.src, FreqTable[i].sel)
  <2>1. \A k \in 6 + 1 .. 10 : q[k].op \notin {"source"}
    BY <1>2, <1>3
  <2>2. 6 \in DOMAIN q /\ q[6].op \in {"source"} /\ q[6].arg = FreqTable[i].sel
    BY <1>2, <1>3
  <2> QED
    BY <1>3, <2>1, <2>2 DEF Ends
<1>9. OffFirst(q)
  <2>1. \A k \in 1 .. 10 : q[k].op \in PllOps => k \in {8, 9}
    BY <1>2, <1>3 DEF PllOps
  <2>2. ToSource(q[3], Raw) /\ 3 \in 1 .. 8 - 1 /\ 3 \in 1 .. 9 - 1
    BY <1>2, <1>3 DEF ToSource
  <2> QED
    BY <1>3, <2>1, <2>2 DEF OffFirst
<1> QED
  BY <1>0, <1>1, <1>5, <1>6, <1>7, <1>8, <1>9 DEF IsRate, LeadsTo

LEMMA RateOnRaw ==
  ASSUME NEW i, FreqTable[i].sel = Raw, FreqTable[speed].sel # Scpll
  PROVE  IsRate(SetRate(i), i)
<1> DEFINE c == Do("configure")
           s == Do("swap")
           r == DoWith("source", Raw)
           v == DoWith("speed", i)
           q == RawToRaw(c, s, r, v)
<1>0. Scpll # Raw
  BY DEF Scpll, Raw
<1>1. SetRate(i) = q
  BY <1>0, Zenon DEF SetRate, SelectClock, RawToRaw
<1>2. /\ c.op = "configure" /\ s.op = "swap" /\ r.op = "source" /\ r.arg = Raw /\ v.op = "speed" /\ v.arg = i
  BY CoreOperations
<1> HIDE DEF c, s, r, v
<1>3. Len(q) = 4 /\ DOMAIN q = 1 .. 4 /\ q[1] = c /\ q[2] = s /\ q[3] = r /\ q[4] = v
  BY RawToRawIn
<1> HIDE DEF q
<1>4. \A k \in 1 .. 4 : q[k].op \notin PllOps /\ ~ToSource(q[k], Scpll)
  BY <1>2, <1>3 DEF ToSource, PllOps, Raw, Scpll
<1>5. OnLast(q) /\ OffFirst(q) /\ SettledFirst(q)
  BY <1>3, <1>4 DEF OnLast, OffFirst, SettledFirst
<1>6. ConfiguredFirst(q)
  BY <1>2, <1>3 DEF ConfiguredFirst, ToSource
<1>7. Ends(q, {"speed"}, speed, i) /\ Ends(q, {"source"}, sel.src, FreqTable[i].sel)
  BY <1>2, <1>3 DEF Ends
<1> QED
  BY <1>0, <1>1, <1>5, <1>6, <1>7 DEF IsRate, LeadsTo

LEMMA RateGoes ==
  ASSUME CoreGoes(<<>>), mpll, NEW i \in 1 .. 18
  PROVE  CoreGoes(SetRate(i))
<1>1. /\ CoreTyped /\ (sel.src = Scpll => scpll.mode = Normal /\ ~scpll.busy) /\ (sel.src = Raw => SlotRuns)
      /\ \E j \in 1 .. 18 : LeadsTo(<<>>, j)
  BY DEF CoreGoes, Steady, AsideFirst
<1>2. PICK j \in 1 .. 18 : LeadsTo(<<>>, j)
  BY <1>1
<1>3. speed = j /\ sel.src = FreqTable[j].sel
  <2>1. DOMAIN <<>> = {}
    OBVIOUS
  <2> QED
    BY <1>2, <2>1 DEF LeadsTo, Ends
<1>4. IsRate(SetRate(i), i)
  <2>1. /\ FreqTable[j].sel \in {Raw, Scpll} /\ FreqTable[i].sel \in {Raw, Scpll}
        /\ FreqTable[i].sel = Scpll => ClampedL(FreqTable[i].l) = FreqTable[i].l
    BY Sources
  <2>2. Raw # Scpll
    BY DEF Raw, Scpll
  <2> QED
    BY <1>3, <2>1, <2>2, RateFromRaw, RateOnScpll, RateToRaw, RateOnRaw
<1> QED
  BY <1>1, <1>4 DEF IsRate, CoreGoes, Steady, AsideFirst

(* The start of the driver.                                                  *)
FromBoot(f, l, t, k, v, c, s, r, w, m, n, g, p, x) ==
  ((<<f, l, t, l>> \o <<k>>) \o ((((<<v>> \o (<<c, s>> \o <<r>>)) \o <<w, m, n>>) \o <<w, g>>) \o (<<>> \o <<p>>)))
  \o <<x>>

LEMMA FromBootIn ==
  \A f, l, t, k, v, c, s, r, w, m, n, g, p, x :
     LET q == FromBoot(f, l, t, k, v, c, s, r, w, m, n, g, p, x)
     IN /\ Len(q) = 16 /\ DOMAIN q = 1 .. 16
        /\ q[1] = f /\ q[2] = l /\ q[3] = t /\ q[4] = l /\ q[5] = k /\ q[6] = v /\ q[7] = c /\ q[8] = s
        /\ q[9] = r /\ q[10] = w /\ q[11] = m /\ q[12] = n /\ q[13] = w /\ q[14] = g /\ q[15] = p /\ q[16] = x
  BY DEF FromBoot

LEMMA BootPll ==
  /\ Boot \in 1 .. 18 /\ FreqTable[Boot].sel = Scpll
  /\ ClampedL(FreqTable[Boot].l) = FreqTable[Boot].l
  BY ClockAssumption, TableEntries

LEMMA CoreStart == Init => CoreInv
<1> SUFFICES ASSUME Init PROVE CoreInv
  OBVIOUS
<1> DEFINE f == Do("find")
           l == Call(PllRequest, "id", "on")
           t == Let([id |-> 0, on |-> 0])
           k == Do("check")
           v == DoWith("speed", Boot)
           c == Do("configure")
           s == Do("swap")
           r == DoWith("source", Raw)
           w == Do("wait")
           m == DoWith("mode", Standby)
           n == DoWith("mode", PowerDown)
           g == DoWith("set_freq", ClampedL(FreqTable[Boot].l))
           p == DoWith("source", Scpll)
           x == Do("install")
           q == FromBoot(f, l, t, k, v, c, s, r, w, m, n, g, p, x)
<1>0. Scpll # Raw
  BY DEF Scpll, Raw
<1>1. todo[Main] = q
  <2>1. todo[Main] = AcpuclkInit \o <<Do("install")>>
    BY TwoContexts DEF Init
  <2>2. AcpuclkInit \o <<Do("install")>> = q
    BY <1>0, Zenon DEF AcpuclkInit, CheckMpll, RampUp, SelectClock, ScpllPowerDown, ScpllSetFreq, FromBoot
  <2> QED
    BY <2>1, <2>2, Zenon
<1>2. /\ c.op = "configure" /\ s.op = "swap" /\ r.op = "source" /\ r.arg = Raw
      /\ w.op = "wait" /\ m.op = "mode" /\ n.op = "mode" /\ v.op = "speed" /\ v.arg = Boot
      /\ g.op = "set_freq" /\ g.arg = FreqTable[Boot].l /\ p.op = "source" /\ p.arg = Scpll
  BY CoreOperations, BootPll
<1>3. f.op = "find" /\ l.op = "call" /\ t.op = "let" /\ k.op = "check" /\ x.op = "install"
  BY DEF Do, DoWith, Call, Let
<1> HIDE DEF f, l, t, k, v, c, s, r, w, m, n, g, p, x
<1>4. /\ Len(q) = 16 /\ DOMAIN q = 1 .. 16
      /\ q[1] = f /\ q[2] = l /\ q[3] = t /\ q[4] = l /\ q[5] = k /\ q[6] = v /\ q[7] = c /\ q[8] = s
      /\ q[9] = r /\ q[10] = w /\ q[11] = m /\ q[12] = n /\ q[13] = w /\ q[14] = g /\ q[15] = p /\ q[16] = x
  BY FromBootIn
<1> HIDE DEF q
<1>5. /\ DOMAIN sel = {"slot", "src"} /\ sel.slot \in {0, 1} /\ sel = [slot |-> sel.slot, src |-> sel.src]
      /\ DOMAIN cntl = {0, 1} /\ DOMAIN scpll = {"mode", "l", "busy"} /\ scpll.busy = FALSE
      /\ sel.src = Scpll => scpll.mode = Normal
      /\ cntl = [i \in {0, 1} |-> IF sel = [slot |-> i, src |-> Raw] THEN Tcxo ELSE Dead]
  BY CoreAssumption DEF Init, CoreInit
<1>6. sel.src = Raw => SlotRuns
  BY <1>5 DEF SlotRuns
<1>7. /\ \A j \in 1 .. 16 : q[j].op \in PllOps => j \in {11, 12, 14}
      /\ \A j \in 1 .. 16 : ToSource(q[j], Scpll) => j = 15
      /\ \A j \in 1 .. 16 : ToSource(q[j], Raw) => j = 9
      /\ \A j \in 1 .. 16 : q[j].op = "swap" => j = 8
      /\ \A j \in 1 .. 16 : q[j].op \in {"configure", "swap", "install"} => j \in {7, 8, 16}
  BY <1>0, <1>2, <1>3, <1>4 DEF PllOps, ToSource
<1>8. OffFirst(q)
  <2>1. ToSource(q[9], Raw) /\ 9 \in 1 .. 11 - 1 /\ 9 \in 1 .. 12 - 1 /\ 9 \in 1 .. 14 - 1
    BY <1>2, <1>4 DEF ToSource
  <2> QED
    BY <1>4, <1>7, <2>1 DEF OffFirst
<1>9. OnLast(q)
  BY <1>4, <1>7 DEF OnLast
<1>10. SettledFirst(q)
  BY <1>2, <1>4, <1>7 DEF SettledFirst
<1>11. ConfiguredFirst(q)
  BY <1>2, <1>4, <1>7 DEF ConfiguredFirst
<1>12. CheckedFirst(q)
  <2>1. q[5].op = "check" /\ 5 \in 1 .. 7 - 1 /\ 5 \in 1 .. 8 - 1 /\ 5 \in 1 .. 16 - 1
    BY <1>3, <1>4
  <2> QED
    BY <1>4, <1>7, <2>1 DEF CheckedFirst
<1>13. LeadsTo(q, Boot)
  <2>1. Ends(q, {"speed"}, speed, Boot)
    <3>1. \A j \in 6 + 1 .. 16 : q[j].op # "speed"
      BY <1>2, <1>3, <1>4
    <3>2. 6 \in DOMAIN q /\ q[6].op \in {"speed"} /\ q[6].arg = Boot
      BY <1>2, <1>4
    <3> QED
      BY <1>4, <3>1, <3>2 DEF Ends
  <2>2. Ends(q, {"source"}, sel.src, FreqTable[Boot].sel)
    <3>1. \A j \in 15 + 1 .. 16 : q[j].op # "source"
      BY <1>3, <1>4
    <3>2. 15 \in DOMAIN q /\ q[15].op \in {"source"} /\ q[15].arg = FreqTable[Boot].sel
      BY <1>2, <1>4, BootPll
    <3> QED
      BY <1>4, <3>1, <3>2 DEF Ends
  <2>3. Ends(q, Freq, scpll.l, FreqTable[Boot].l)
    <3>1. \A j \in 14 + 1 .. 16 : q[j].op \notin Freq
      BY <1>2, <1>3, <1>4 DEF Freq
    <3>2. 14 \in DOMAIN q /\ q[14].op \in Freq /\ q[14].arg = FreqTable[Boot].l
      BY <1>2, <1>4 DEF Freq
    <3> QED
      BY <1>4, <3>1, <3>2 DEF Ends
  <2> QED
    BY <2>1, <2>2, <2>3 DEF LeadsTo
<1>14. installed = FALSE
  BY DEF Init
<1>15. Steady(q) /\ CoreTyped
  BY <1>5, <1>6, <1>8, <1>9, <1>10, <1>11, <1>12, <1>14 DEF Steady, AsideFirst, CoreTyped
<1> QED
  BY <1>1, <1>13, <1>15, BootPll DEF CoreInv, CoreGoes

(* The programs callers start.                                               *)
LEMMA StartCore ==
  ASSUME WordsInv, CoreInv, NEW program, Start(program),
         CoreGoes(<<>>) /\ mpll => CoreGoes(program)
  PROVE  CoreInv'
<1>1. /\ CoreStays /\ installed' = installed /\ installed /\ todo[Main] = <<>> /\ todo'[Main] = program
  BY TwoContexts DEF Start, Stays, modem, CoreStays, WordsInv, Typed
<1>2. CoreGoes(<<>>) /\ mpll
  BY <1>1 DEF CoreInv, CoreGoes, Steady
<1>3. CoreGoes(program)'
  BY <1>1, <1>2, CoreFrame
<1> QED
  BY <1>1, <1>3 DEF CoreInv

LEMMA QuietOperations ==
  /\ \A command, x, y : Call(command, x, y).op \in QuietOps /\ CallUntil(command, x, y).op \in QuietOps
  /\ \A values : Let(values).op \in QuietOps
  /\ Do("CpuDeadLoop").op \in QuietOps
  BY DEF Call, CallUntil, Let, Do, DoWith, QuietOps

LEMMA StartsCore ==
  ASSUME WordsInv, CoreInv,
         \/ \E id \in Clocks : ClkEnable(id) \/ ClkDisable(id) \/ \E rate \in Rates : ClkSetRate(id, rate)
         \/ \E rate \in Rates : AcpuclkSetRate(rate)
         \/ \E command \in Commands : PcomClient(command) \/ \E n \in Instances : PcomSdcardClk(command, n)
         \/ \E n \in Instances : PcomSdcardGpioConfig(n)
         \/ \E state \in {0, 1} : PcomSdcardPower(state) \/ PcomVregControl(1, state)
         \/ LibResetSystem("PCOM_RESET_CHIP", "id") \/ LibResetSystem("PCOM_POWER_DOWN", Null)
  PROVE  CoreInv'
<1>1. ASSUME NEW program, OpsIn(program, QuietOps), Start(program)
      PROVE  CoreInv'
  BY <1>1, StartCore, QuietGoes
<1>2. ASSUME NEW id \in Clocks, ClkEnable(id) \/ ClkDisable(id) \/ \E rate \in Rates : ClkSetRate(id, rate)
      PROVE  CoreInv'
  BY <1>1, <1>2, ShortOps, QuietOperations DEF ClkEnable, ClkDisable, ClkSetRate
<1>3. ASSUME NEW rate \in Rates, AcpuclkSetRate(rate)
      PROVE  CoreInv'
  <2>1. PICK i \in 1 .. 18 : Start(SetRate(i))
    <3>1. DOMAIN FreqTable = 1 .. 18
      BY DEF FreqTable
    <3> QED
      BY <1>3, <3>1 DEF AcpuclkSetRate
  <2>2. CoreGoes(<<>>) /\ mpll => CoreGoes(SetRate(i))
    BY RateGoes
  <2> QED
    BY <2>1, <2>2, StartCore
<1>4. ASSUME NEW command, PcomClient(command)
      PROVE  CoreInv'
  <2>1. OpsIn(Pcom(command, 1, 1), QuietOps)
    BY ShortOps, QuietOperations DEF Pcom
  <2> QED
    BY <1>1, <1>4, <2>1 DEF PcomClient
<1>5. ASSUME NEW n \in Instances, PcomSdcardGpioConfig(n)
      PROVE  CoreInv'
  <2> DEFINE s == [k \in 1 .. 2 * Pins[n] |->
                     IF k % 2 = 1 THEN Let([id |-> (k + 1) \div 2, on |-> 0]) ELSE Call(TlmmConfig, "id", "on")]
  <2>1. IsProgram(s) /\ Start(s)
    <3>1. 2 * Pins[n] \in Nat
      BY <1>5 DEF PcomSdcardGpioConfig, Pins
    <3> QED
      BY <1>5, <3>1, GpioAllowed DEF PcomSdcardGpioConfig, IsProgramOf
  <2>2. \A k \in DOMAIN s : s[k].op \in QuietOps
    BY QuietOperations
  <2> HIDE DEF s
  <2> QED
    BY <1>1, <2>1, <2>2 DEF OpsIn
<1>6. ASSUME NEW state \in {0, 1}, PcomSdcardPower(state)
      PROVE  CoreInv'
  <2>1. OpsIn(<<Let([id |-> 1, on |-> state]), CallUntil(Switch, "id", "on")>>, QuietOps)
    BY ShortOps, QuietOperations
  <2> QED
    BY <1>1, <1>6, <2>1 DEF PcomSdcardPower
<1>7. ASSUME NEW state \in {0, 1}, PcomVregControl(1, state)
      PROVE  CoreInv'
  <2> DEFINE a == <<Let([id |-> 1, level |-> 1, on |-> state])>>
             b == IF state = 1 THEN <<CallUntil(SetLevel, "id", "level")>> ELSE <<>>
             d == <<CallUntil(Switch, "id", "on")>>
  <2>1. OpsIn(a, QuietOps) /\ OpsIn(b, QuietOps) /\ OpsIn(d, QuietOps)
    BY ShortOps, QuietOperations
  <2>2. Start((a \o b) \o d)
    BY <1>7 DEF PcomVregControl
  <2> HIDE DEF a, b, d
  <2> QED
    BY <1>1, <2>1, <2>2, JoinedOps
<1>8. ASSUME NEW command, NEW reason, LibResetSystem(command, reason)
      PROVE  CoreInv'
  <2>1. OpsIn(<<Let([id |-> 1]), Call(command, reason, Null), Do("CpuDeadLoop")>>, QuietOps)
    BY ShortOps, QuietOperations
  <2> QED
    BY <1>1, <1>8, <2>1 DEF LibResetSystem
<1> QED
  BY <1>2, <1>3, <1>4, <1>5, <1>6, <1>7, <1>8 DEF PcomSdcardClk

(* The steps.                                                                *)
LEMMA MainStays ==
  ASSUME CoreInv, CoreStays, installed' = installed, todo'[Main] = todo[Main]
  PROVE  CoreInv'
  BY CoreFrame DEF CoreInv

LEMMA MainPops ==
  ASSUME WordsInv, CoreInv, CoreStays, todo[Main] # <<>>, todo'[Main] = Tail(todo[Main]),
         todo[Main][1].op \notin CoreOps, todo[Main][1].op = "check" => mpll',
         installed' => installed \/ todo[Main][1].op = "install"
  PROVE  CoreInv'
<1>1. IsProgram(todo[Main])
  BY TwoContexts DEF WordsInv, Typed
<1> QED
  BY <1>1, CorePlain DEF CoreInv

LEMMA ModemLeavesCore ==
  ASSUME ModemNext, UNCHANGED coreVars
  PROVE  CoreStays
<1>1. mpll => mpll'
  BY Zenon DEF ModemNext, ModemUp, Take, Answer, Succeed, Refuse
<1> QED
  BY <1>1 DEF CoreStays

LEMMA GoesCore ==
  ASSUME WordsInv, CoreInv, NEW c \in Contexts, Goes(c)
  PROVE  CoreInv'
<1>1. UNCHANGED <<coreVars, mpll, installed>>
  BY DEF Goes, Begin, Lets, InCall, Back, Stays, ProcComm, WaitForModemReady, WriteCommand, WriteData1, WriteData2,
     NotifyModem, WaitForDone, ReadStatus, ReadData1, ReadData2, ClearCommand, modem
<1>2. CoreStays
  BY <1>1 DEF CoreStays
<1>3. \/ todo' = todo
      \/ /\ Next1(c) /\ todo[c] # <<>>
         /\ todo[c][1].op \in {"call", "until", "let"}
  <2>1. CASE Begin(c) \/ InCall(c)
    BY <2>1 DEF Begin, InCall
  <2>2. CASE Lets(c)
    <3>1. todo[c] # <<>> /\ IsProgram(todo[c])
      BY <2>2 DEF Lets, At, WordsInv, Typed
    <3>2. Head(todo[c]) = todo[c][1]
      BY <3>1, Popped
    <3> QED
      BY <2>2, <3>1, <3>2 DEF Lets, At
  <2>3. CASE Back(c)
    <3>1. todo[c] # <<>> /\ todo[c][1].op \in {"call", "until"}
      BY <2>3 DEF Back, WordsInv, Calling
    <3>2. todo' = todo \/ Next1(c)
      BY <2>3 DEF Back
    <3> QED
      BY <3>1, <3>2
  <2> QED
    BY <2>1, <2>2, <2>3 DEF Goes
<1>4. CASE todo'[Main] = todo[Main]
  BY <1>1, <1>2, <1>4, MainStays
<1>5. CASE c = Main /\ Next1(c) /\ todo[c] # <<>> /\ todo[c][1].op \in {"call", "until", "let"}
  <2>1. todo'[Main] = Tail(todo[Main])
    BY <1>5 DEF Next1, WordsInv, Typed
  <2> QED
    BY <1>1, <1>2, <1>5, <2>1, MainPops DEF CoreOps
<1>6. CASE c # Main /\ Next1(c)
  <2>1. todo'[Main] = todo[Main]
    BY <1>6, TwoContexts DEF Next1, WordsInv, Typed
  <2> QED
    BY <1>4, <2>1
<1> QED
  BY <1>3, <1>4, <1>5, <1>6

LEMMA MainCore ==
  ASSUME WordsInv, CoreInv, CoreAccess \/ ScpllSetsFreq \/ FindsAtStart \/ FindsMpllOn \/ Installs
  PROVE  CoreInv'
<1> DEFINE t == todo[Main]
<1>1. /\ DOMAIN todo = Contexts /\ Main \in Contexts /\ IsProgram(t) /\ t # <<>>
      /\ mpll' = mpll
  BY TwoContexts DEF WordsInv, Typed, CoreAccess, ScpllSetsFreq, FindsAtStart, FindsMpllOn, Installs, At, Stays, modem
<1>2. Head(t) = t[1] /\ IsProgram(Tail(t))
  BY <1>1, Popped
<1>3. CASE CoreAccess
  <2>1. Access(t[1]) /\ UNCHANGED <<mpll, installed>> /\ todo'[Main] = Tail(t)
    BY <1>1, <1>2, <1>3 DEF CoreAccess, Next1
  <2>2. CoreGoes(t)
    BY DEF CoreInv
  <2> HIDE DEF t
  <2>3. \A u : u = Tail(t) => CoreGoes(u)'
    BY <1>1, <2>1, <2>2, CoreDone
  <2> QED
    BY <2>1, <2>3 DEF CoreInv
<1>4. CASE ScpllSetsFreq
  <2>1. /\ t[1].op = "set_freq" /\ CoreStays /\ installed' = installed
        /\ todo'[Main] = SetFreq(t[1].arg) \o Tail(t)
    BY <1>1, <1>2, <1>4 DEF ScpllSetsFreq, At, CoreStays
  <2>2. CoreGoes(SetFreq(t[1].arg) \o Tail(t))
    BY <1>1, <2>1, SetFreqHops, CoreExpanded DEF CoreInv
  <2> HIDE DEF t
  <2>3. \A u : u = SetFreq(t[1].arg) \o Tail(t) => CoreGoes(u)'
    BY <2>1, <2>2, CoreFrame
  <2> QED
    BY <2>1, <2>3 DEF CoreInv
<1>5. CASE FindsAtStart \/ FindsMpllOn \/ Installs
  <2>1. /\ CoreStays /\ todo'[Main] = Tail(t) /\ t[1].op \in {"find", "check", "install"}
        /\ t[1].op = "check" => mpll'
        /\ installed' => installed \/ t[1].op = "install"
    BY <1>1, <1>2, <1>5 DEF FindsAtStart, FindsMpllOn, Installs, At, Next1, CoreStays
  <2> QED
    BY <1>1, <2>1, MainPops DEF CoreOps
<1> QED
  BY <1>3, <1>4, <1>5

LEMMA SwitchCore ==
  ASSUME CoreInv, PllSwitches
  PROVE  CoreInv'
<1>1. /\ scpll.busy /\ scpll' = [scpll EXCEPT !.busy = FALSE] /\ UNCHANGED <<sel, cntl, speed, mpll, installed, todo>>
  BY DEF PllSwitches, SwitchDone, Stays, modem
<1>2. ASSUME NEW t, CoreGoes(t) PROVE CoreGoes(t)'
  <2>1. /\ CoreTyped /\ sel.src # Scpll
        /\ scpll'.mode = scpll.mode /\ scpll'.l = scpll.l /\ scpll'.busy = FALSE /\ DOMAIN scpll' = DOMAIN scpll
    BY <1>1, <1>2 DEF CoreGoes, CoreTyped, Steady, AsideFirst
  <2>2. CoreTyped'
    BY <1>1, <2>1 DEF CoreTyped
  <2>3. AsideFirst(t)' /\ SettledFirst(t)'
    BY <1>1, <1>2, <2>1 DEF CoreGoes, Steady, AsideFirst, SettledFirst
  <2>4. SlotRuns' = SlotRuns
    BY <1>1 DEF SlotRuns
  <2>5. ConfiguredFirst(t)'
    BY <1>1, <1>2, <2>4 DEF CoreGoes, Steady, ConfiguredFirst
  <2>6. Steady(t)'
    BY <1>1, <1>2, <2>3, <2>4, <2>5 DEF CoreGoes, Steady
  <2>7. ASSUME NEW i, LeadsTo(t, i) PROVE LeadsTo(t, i)'
    BY <1>1, <2>1, <2>7 DEF LeadsTo
  <2> QED
    BY <1>2, <2>2, <2>6, <2>7 DEF CoreGoes
<1> QED
  BY <1>1, <1>2 DEF CoreInv

LEMMA CoreStep == WordsInv /\ CoreInv /\ [Next]_vars => CoreInv'
<1> SUFFICES ASSUME WordsInv, CoreInv, [Next]_vars PROVE CoreInv'
  OBVIOUS
<1>1. CASE UNCHANGED vars
  <2>1. CoreStays /\ installed' = installed /\ todo' = todo
    BY <1>1 DEF vars, modemVars, modem, CoreStays
  <2> QED
    BY <2>1, MainStays
<1>2. CASE ModemNext /\ UNCHANGED <<coreVars, todo, installed, goal, ran>>
  BY <1>2, ModemLeavesCore, MainStays
<1>3. CASE SetI2cMux
  <2>1. CoreStays /\ installed' = installed /\ todo'[Main] = todo[Main]
    BY <1>3, TwoContexts DEF SetI2cMux, Stays, modem, CoreStays, WordsInv, Typed
  <2> QED
    BY <2>1, MainStays
<1>4. CASE MainGoes
  BY <1>4, GoesCore, MainCore, TwoContexts DEF MainGoes
<1> QED
  BY <1>1, <1>2, <1>3, <1>4, GoesCore, SwitchCore, StartsCore, TwoContexts DEF Next

LEMMA CoreIsSafe == CoreInv => CoreSafe
<1> SUFFICES ASSUME CoreInv PROVE CoreSafe
  OBVIOUS
<1>1. /\ sel.src = Scpll => scpll.mode = Normal /\ ~scpll.busy
      /\ sel.src = Raw => SlotRuns
  BY DEF CoreInv, CoreGoes, Steady, AsideFirst
<1>2. ASSUME todo[Main] = <<>>
      PROVE  /\ sel.src = FreqTable[speed].sel
             /\ sel.src = Scpll => FindSpeed = FreqTable[speed].khz
  <2>1. DOMAIN <<>> = {}
    OBVIOUS
  <2>2. PICK i \in 1 .. 18 : LeadsTo(<<>>, i)
    BY <1>2 DEF CoreInv, CoreGoes
  <2>3. /\ speed = i /\ sel.src = FreqTable[i].sel
        /\ FreqTable[i].sel = Scpll => scpll.l = FreqTable[i].l
    BY <2>1, <2>2 DEF LeadsTo, Ends
  <2>4. ASSUME sel.src = Scpll PROVE FindSpeed = FreqTable[speed].khz
    <3>1. Scpll # Raw
      BY DEF Scpll, Raw
    <3>2. i # 1
      BY <2>3, <2>4, <3>1 DEF FreqTable
    <3>3. FreqTable[i].l = 8 + i /\ FreqTable[i].khz = 38400 * (8 + i)
      BY <3>2 DEF FreqTable
    <3> QED
      BY <2>3, <2>4, <3>3 DEF FindSpeed
  <2> QED
    BY <2>3, <2>4
<1> QED
  BY <1>1, <1>2 DEF CoreSafe, SlotRuns

(* Between any two accesses of its registers the core runs from a source that *)
(* itself runs, and when no function is under way current_speed is what the   *)
(* registers say, whatever the boot loader left, for every boot frequency of  *)
(* the PLL and every rate asked for (acpuclk_init, acpuclk_set_rate).         *)
THEOREM CoreStaysSafe == Spec => []CoreSafe
<1> QED
  BY WordsInit, WordsKept, CoreStart, CoreStep, CoreIsSafe, PTL DEF Spec
=============================================================================
