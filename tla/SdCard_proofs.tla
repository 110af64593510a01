--------------------------- MODULE SdCard_proofs ---------------------------
(***************************************************************************)
(* What check_clear_read_status and check_clear_write_status may say of a   *)
(* block, and which blocks a request has moved, for a card of any size, any *)
(* numbers of blocks, and whatever flags the boot loader and                *)
(* read_SCR_register leave.                                                 *)
(***************************************************************************)
EXTENDS SdCard, TLAPS

Fields == {"pc", "what", "lba", "n", "run", "moved", "status", "before", "good"}
IsJob(j) == DOMAIN j = Fields /\ j.before \in FlagSets /\ j.good \in BOOLEAN

Typed ==
  /\ IsJob(job)
  /\ flags \in FlagSets
  /\ last \in [ok : BOOLEAN, good : BOOLEAN, before : FlagSets]

(* Where no block is in transfer.                                          *)
Outside == {"start", "absent", "init", "identify", "powerup", "transfer", "scr", "cmd",
            "ready", "crashed", "dead"}
Judged == {"clear", "dataend", "cleared", "prog"}

(* The flags a block starts with stay; the check sees at least their errors. *)
Kept ==
  /\ job.pc \in Outside \cup {"data", "status"} \cup Judged
  /\ job.pc = "data" => due = {} /\ flags = job.before
  /\ job.pc = "status" => job.before.err \subseteq flags.err
  /\ job.pc \in Judged => job.before.err = {}

(* A block with clean flags meets only its own.                             *)
Own ==
  job.before = Clean =>
    /\ job.pc = "status" => /\ flags.blkEnd => job.good
                            /\ flags.err # {} => ~job.good
                            /\ "good" \in due => job.good
                            /\ "bad" \in due => ~job.good
    /\ job.pc \in Judged => job.good

IInv == Typed /\ Kept /\ Own /\ FailStop /\ CleanVerdictExact

(* A job that starts, wherever it starts, is typed and without a block.     *)
LEMMA JobTyped ==
  ASSUME NEW pc, NEW what, NEW lba, NEW n
  PROVE  IsJob(Job(pc, what, lba, n)) /\ Job(pc, what, lba, n).pc = pc
<1>1. Clean \in FlagSets
  BY DEF Clean, FlagSets
<1> QED
  BY <1>1 DEF Job, IsJob, Fields

Leaves == IsJob(job') /\ job'.pc \in Outside

(* Behind a verdict no block is in transfer.                                *)
LEMMA VerdictLeaves ==
  ASSUME Typed, NEW ok, NEW good, NEW before, Verdict(ok, good, before)
  PROVE  Leaves /\ last' = [ok |-> ok, good |-> good, before |-> before]
<1> USE DEF Outside
<1>1. ASSUME Crash PROVE Leaves
  BY <1>1 DEF Crash, Goto, Typed, IsJob, Fields, Leaves
<1>2. ASSUME NextBlock(ok) PROVE Leaves
  BY <1>2 DEF NextBlock, Typed, IsJob, Fields, Leaves
<1>3. ASSUME DecodeCsd PROVE Leaves
  BY <1>1, <1>3, JobTyped DEF DecodeCsd, Leaves
<1>4. ASSUME ScanNext(ok) PROVE Leaves
  BY <1>4, JobTyped DEF ScanNext, Leaves, Typed, IsJob, Fields
<1>5. job' = Job("cmd", "first", 0, 1) => Leaves
  BY JobTyped DEF Leaves
<1> QED
  BY <1>1, <1>2, <1>3, <1>4, <1>5, Zenon DEF Verdict

(* A verdict that follows from the invariant keeps it.                      *)
LEMMA VerdictKeeps ==
  ASSUME IInv, NEW ok \in BOOLEAN, NEW good \in BOOLEAN, NEW before \in FlagSets,
         Verdict(ok, good, before), flags' \in FlagSets,
         before.err # {} => ~ok, before = Clean => (ok <=> good)
  PROVE  IInv'
<1>1. Leaves /\ last' = [ok |-> ok, good |-> good, before |-> before]
  BY VerdictLeaves DEF IInv
<1>2. Typed'
  BY <1>1 DEF Typed, Leaves
<1>3. Kept' /\ Own'
  BY <1>1 DEF Leaves, Kept, Own, Outside, Judged
<1>4. FailStop' /\ CleanVerdictExact'
  BY <1>1 DEF FailStop, CleanVerdictExact
<1> QED
  BY <1>2, <1>3, <1>4 DEF IInv

(* A step to a place without a block keeps the invariant.                   *)
LEMMA OutsideKeeps ==
  ASSUME IInv, flags' \in FlagSets, UNCHANGED last, Leaves
  PROVE  IInv'
  BY DEF IInv, Typed, Kept, Own, FailStop, CleanVerdictExact, Leaves, Outside, Judged

LEMMA InvInit == Init => IInv
<1> SUFFICES ASSUME Init PROVE IInv
  OBVIOUS
<1>1. Typed /\ job.pc = "start"
  BY JobTyped DEF Init, Typed, Clean, FlagSets
<1>2. last.ok = FALSE /\ last.good = FALSE
  BY DEF Init
<1> QED
  BY <1>1, <1>2 DEF IInv, Kept, Own, FailStop, CleanVerdictExact, Outside, Judged

LEMMA InvNext == IInv /\ [Next]_vars => IInv'
<1> SUFFICES ASSUME IInv, [Next]_vars PROVE IInv'
  OBVIOUS
<1>0. Typed /\ Kept /\ Own
  BY DEF IInv
<1>1. ASSUME SdCardInitialize \/ SDCn_init \/ Identify \/ CardTransferInit PROVE IInv'
  <2>1. UNCHANGED last /\ flags' \in {flags, Clean}
    BY <1>1, Zenon DEF SdCardInitialize, SDCn_init, Identify, CardTransferInit
  <2>2. Leaves
    BY <1>0, <1>1 DEF SdCardInitialize, SDCn_init, Identify, CardTransferInit, Crash, Goto,
       Typed, IsJob, Fields, Leaves, Outside
  <2>3. Clean \in FlagSets
    BY DEF Clean, FlagSets
  <2> QED
    BY <1>0, <2>1, <2>2, <2>3, OutsideKeeps DEF Typed
<1>2. ASSUME ReadScr PROVE IInv'
  <2>1. Leaves
    BY <1>0, <1>2, JobTyped DEF ReadScr, ReadSdStatus, Crash, Goto, Typed, IsJob, Fields, Leaves,
       Outside
  <2>2. UNCHANGED last /\ flags' \in FlagSets
    BY <1>0, <1>2 DEF ReadScr, Typed
  <2> QED
    BY <2>1, <2>2, OutsideKeeps
<1>3. ASSUME NEW what \in {"read", "write"}, NEW lba \in 0 .. Sectors, NEW n \in Counts,
             Request(what, lba, n)
      PROVE  IInv'
  <2>1. Leaves
    BY <1>3, JobTyped DEF Request, Leaves, Outside
  <2>2. UNCHANGED last /\ flags' \in FlagSets
    BY <1>0, <1>3 DEF Request, Typed
  <2> QED
    BY <2>1, <2>2, OutsideKeeps
<1>4. ASSUME Command PROVE IInv'
  <2>1. CASE Verdict(FALSE, FALSE, flags)
    BY <1>0, <1>4, <2>1, VerdictKeeps DEF Command, Typed
  <2>2. CASE /\ job' = [job EXCEPT !.pc = "data", !.before = flags]
             /\ UNCHANGED <<dev, last, flags, due>> /\ due = {}
    <3>1. IsJob(job') /\ job'.pc = "data" /\ job'.before = flags
      BY <1>0, <2>2 DEF Typed, IsJob, Fields
    <3> QED
      BY <2>2, <3>1 DEF IInv, Typed, Kept, Own, FailStop, CleanVerdictExact, Outside, Judged
  <2> QED
    BY <1>4, <2>1, <2>2 DEF Command
<1>5. ASSUME At("data"), AllMoved PROVE IInv'
  <2>1. PICK v \in {"good", "bad"} :
          /\ due' = {"end", v}
          /\ job' = [job EXCEPT !.pc = "status", !.good = v = "good"]
    BY <1>5 DEF AllMoved
  <2>2. /\ IsJob(job') /\ job'.pc = "status" /\ job'.before = job.before
        /\ job'.good = (v = "good")
    BY <1>0, <2>1 DEF Typed, IsJob, Fields
  <2>3. UNCHANGED <<flags, last>> /\ job.pc = "data"
    BY <1>5 DEF AllMoved, At
  <2>4. Typed' /\ Kept'
    BY <1>0, <2>2, <2>3 DEF Typed, Kept, Outside, Judged
  <2>5. job'.before = Clean => ~flags'.blkEnd /\ flags'.err = {}
    BY <1>0, <2>2, <2>3 DEF Kept, Clean
  <2>6. ("good" \in due' => v = "good") /\ ("bad" \in due' => v # "good")
    BY <2>1
  <2>7. Own'
    BY <2>2, <2>5, <2>6 DEF Own, Judged
  <2> QED
    BY <2>3, <2>4, <2>7 DEF IInv, FailStop, CleanVerdictExact
<1>6. ASSUME At("data"), TimedOut PROVE IInv'
  <2>1. flags' \in FlagSets /\ job.before \in FlagSets
    BY <1>0, <1>6 DEF TimedOut, Typed, FlagSets, IsJob, Fields
  <2> QED
    BY <1>6, <2>1, VerdictKeeps DEF TimedOut
<1>7. ASSUME NEW f \in {"good", "bad", "end"}, HwFlag(f) PROVE IInv'
  <2>1. /\ UNCHANGED <<job, last>> /\ f \in due /\ due' \subseteq due
        /\ flags' = [blkEnd |-> flags.blkEnd \/ f = "good",
                     dataEnd |-> flags.dataEnd \/ f = "end",
                     err |-> IF f = "bad" THEN flags.err \cup {"crc"} ELSE flags.err]
    BY <1>7 DEF HwFlag
  <2>2. flags' \in FlagSets
    BY <1>0, <2>1 DEF Typed, FlagSets
  <2>3. Kept'
    BY <1>0, <2>1 DEF Kept
  <2>4. Own'
    BY <1>0, <2>1 DEF Own
  <2> QED
    BY <1>0, <2>1, <2>2, <2>3, <2>4 DEF IInv, Typed, FailStop, CleanVerdictExact
<1>8. ASSUME Status PROVE IInv'
  <2>1. CASE flags.err # {} /\ Verdict(FALSE, job.good, job.before)
    <3>1. job.pc = "status" /\ UNCHANGED flags
      BY <1>8 DEF Status, At
    <3>2. job.before = Clean => ~job.good
      BY <1>0, <2>1, <3>1 DEF Own
    <3> QED
      BY <1>0, <2>1, <3>1, <3>2, VerdictKeeps DEF Typed, IsJob, Fields
  <2>2. CASE flags.err = {} /\ flags.blkEnd /\ Goto("clear") /\ UNCHANGED <<dev, last>>
    <3>1. job.pc = "status" /\ UNCHANGED flags
      BY <1>8 DEF Status, At
    <3>2. /\ IsJob(job') /\ job'.pc = "clear" /\ job'.before = job.before
          /\ job'.good = job.good
      BY <1>0, <2>2 DEF Goto, Typed, IsJob, Fields
    <3>3. Typed' /\ Kept'
      BY <1>0, <2>2, <3>1, <3>2 DEF Typed, Kept, Outside, Judged
    <3>4. Own'
      BY <1>0, <2>2, <3>1, <3>2 DEF Own, Judged
    <3> QED
      BY <2>2, <3>3, <3>4 DEF IInv, FailStop, CleanVerdictExact
  <2> QED
    BY <1>8, <2>1, <2>2 DEF Status
<1>9. ASSUME NEW pc \in Judged, job.pc \in Judged, Goto(pc), flags' \in FlagSets,
             UNCHANGED last
      PROVE  IInv'
  <2>1. /\ IsJob(job') /\ job'.pc = pc /\ job'.before = job.before
        /\ job'.good = job.good
    BY <1>0, <1>9 DEF Goto, Typed, IsJob, Fields, Judged
  <2>2. Typed' /\ Kept'
    BY <1>0, <1>9, <2>1 DEF Typed, Kept, Judged
  <2>3. Own'
    BY <1>0, <1>9, <2>1 DEF Own, Judged
  <2> QED
    BY <1>9, <2>2, <2>3 DEF IInv, FailStop, CleanVerdictExact
<1>10. CASE Clear \/ DataEnd
  <2>1. flags' \in FlagSets /\ UNCHANGED last /\ job.pc \in Judged
    BY <1>0, <1>10 DEF Clear, DataEnd, At, Typed, FlagSets, Judged
  <2>2. Goto("dataend") \/ Goto("cleared")
    BY <1>10 DEF Clear, DataEnd
  <2> QED
    BY <1>9, <2>1, <2>2 DEF Judged
<1>11. CASE Cleared
  <2>1. flags' \in FlagSets /\ job.pc \in Judged
    BY <1>0, <1>11 DEF Cleared, At, Typed, FlagSets, Judged
  <2>2. CASE Goto("prog") /\ UNCHANGED <<dev, last>>
    BY <1>9, <2>1, <2>2 DEF Judged
  <2>3. CASE Verdict(TRUE, job.good, job.before)
    BY <1>0, <2>1, <2>3, VerdictKeeps DEF Kept, Own, Typed, IsJob, Fields
  <2> QED
    BY <1>11, <2>2, <2>3 DEF Cleared
<1>12. CASE Programmed
  <2>1. PICK ok \in BOOLEAN : Verdict(ok, ok /\ job.good, job.before)
    BY <1>12 DEF Programmed
  <2>2. UNCHANGED flags /\ job.pc \in Judged
    BY <1>12 DEF Programmed, At, Judged
  <2>3. job.good \in BOOLEAN /\ job.before \in FlagSets /\ flags' \in FlagSets
    BY <1>0, <2>2 DEF Typed, IsJob, Fields
  <2>4. job.before.err = {} /\ (job.before = Clean => job.good)
    BY <1>0, <2>2 DEF Kept, Own
  <2>5. (ok /\ job.good) \in BOOLEAN /\ (job.before = Clean => (ok <=> (ok /\ job.good)))
    BY <2>4
  <2> QED
    BY <2>1, <2>3, <2>4, <2>5, VerdictKeeps
<1>13. CASE UNCHANGED vars
  BY <1>13 DEF vars, IInv, Typed, Kept, Own, FailStop, CleanVerdictExact
<1> QED
  BY <1>1, <1>2, <1>3, <1>4, <1>5, <1>6, <1>7, <1>8, <1>10, <1>11, <1>12, <1>13
     DEF Next, Driver, ReadData, WriteData, ReadStatus, WriteStatus

(* No block is reported good while an error of an earlier one is outstanding. *)
THEOREM ErrorsStop == Spec => []FailStop
<1>1. IInv => FailStop
  BY DEF IInv
<1> QED
  BY <1>1, InvInit, InvNext, PTL DEF Spec

(* A block that starts with clean flags is reported good exactly if it was.   *)
THEOREM CleanVerdicts == Spec => []CleanVerdictExact
<1>1. IInv => CleanVerdictExact
  BY DEF IInv
<1> QED
  BY <1>1, InvInit, InvNext, PTL DEF Spec
-----------------------------------------------------------------------------
(* Which sectors a request has moved.                                      *)

(* The driver has not asked the card how it is addressed, or never goes on.  *)
Unasked == {"start", "absent", "init", "identify", "powerup", "crashed"}

(* A job moves its blocks in order: those moved are the ones before lba, and *)
(* where a block is under way there is one left to move.                    *)
InOrder(j) ==
  /\ j.what \in {"none", "status", "first", "scan", "read", "write"}
  /\ j.lba \in Nat /\ j.n \in Nat \ {0} /\ j.run \in 0 .. j.n
  /\ j.moved \in Seq(Int) /\ Len(j.moved) = j.run
  /\ j.pc \in InTransfer \cup {"cmd"} => j.run < j.n
  /\ j.what \in {"read", "write"} => \A i \in 1 .. j.run : j.moved[i] = j.lba - j.run + i - 1

(* Driver and card agree on the way of addressing before the first block.   *)
Addressed ==
  /\ card.hc \in BOOLEAN /\ card.per \in BlockSizes
  /\ dev \in [hc : BOOLEAN, lba : 0 .. Sectors, blksz : BlockSizes \cup {0}]
  /\ due \in SUBSET {"end", "good", "bad"}
  /\ job.pc \notin Unasked => dev.hc = card.hc

MovedInv == InOrder(job) /\ Addressed

(* A job that starts has moved nothing.                                    *)
LEMMA JobInOrder ==
  ASSUME NEW pc, NEW what \in {"none", "status", "first", "scan", "read", "write"},
         NEW lba \in Nat, NEW n \in Nat \ {0}
  PROVE  InOrder(Job(pc, what, lba, n)) /\ Job(pc, what, lba, n).pc = pc
<1> DEFINE j == Job(pc, what, lba, n)
<1>1. /\ j.what = what /\ j.lba = lba /\ j.n = n /\ j.run = 0 /\ j.moved = <<>> /\ j.pc = pc
  BY DEF Job
<1> HIDE DEF j
<1>2. InOrder(j)
  BY <1>1 DEF InOrder
<1> QED
  BY <1>1, <1>2 DEF j

(* The sector that the card takes the driver's address for.                *)
LEMMA SectorIsBlock ==
  ASSUME NEW lba \in Nat, card.hc \in BOOLEAN, dev.hc = card.hc
  PROVE  Sector(lba) = lba
<1>1. (lba * 512) \div 512 = lba
  OBVIOUS
<1> QED
  BY <1>1 DEF Sector, SectorAt, Address

(* The size in larger blocks is no larger.                                 *)
LEMMA QuotientBounded ==
  ASSUME NEW n \in Nat, NEW d \in Nat \ {0}
  PROVE  n \div d \in 0 .. n
<1> DEFINE q == n \div d
<1>1. q \in Int /\ q * d <= n /\ n < q * d + d
  BY Z3
<1> HIDE DEF q
<1>2. q >= 0
  <2>1. CASE q <= -1
    <3>1. q * d <= (-1) * d
      BY <1>1, <2>1, Z3
    <3> QED
      BY <1>1, <3>1
  <2> QED
    BY <1>1, <2>1
<1>3. q <= n
  <2>1. q * 1 <= q * d
    BY <1>1, <1>2, Z3
  <2> QED
    BY <1>1, <2>1
<1> QED
  BY <1>1, <1>2, <1>3 DEF q

(* A step that only moves the place of the driver.                         *)
LEMMA PlaceInOrder ==
  ASSUME Typed, InOrder(job), NEW pc, Goto(pc),
         pc \in InTransfer \cup {"cmd"} => job.run < job.n
  PROVE  InOrder(job') /\ job'.pc = pc
<1>1. /\ job'.pc = pc /\ job'.what = job.what /\ job'.lba = job.lba /\ job'.n = job.n
      /\ job'.run = job.run /\ job'.moved = job.moved
  BY DEF Goto, Typed, IsJob, Fields
<1> QED
  BY <1>1 DEF InOrder

(* The next block of a request.                                            *)
LEMMA NextBlockInOrder ==
  ASSUME Typed, MovedInv, NEW ok \in BOOLEAN, NextBlock(ok),
         job.pc \in InTransfer \cup {"cmd"}, job.what \in {"read", "write"}
  PROVE  InOrder(job') /\ job'.pc \in {"cmd", "ready"}
<1>0. InOrder(job) /\ dev.hc = card.hc /\ card.hc \in BOOLEAN /\ job.run < job.n
  BY DEF MovedInv, Addressed, InOrder, Unasked, InTransfer
<1>1. CASE ~ok
  <2>1. /\ job'.pc = "ready" /\ job'.what = job.what /\ job'.lba = job.lba /\ job'.n = job.n
        /\ job'.run = job.run /\ job'.moved = job.moved
    BY <1>1 DEF NextBlock, Typed, IsJob, Fields
  <2> QED
    BY <1>0, <2>1 DEF InOrder, InTransfer
<1>2. CASE ok
  <2>1. /\ job'.pc = (IF job.run + 1 < job.n THEN "cmd" ELSE "ready")
        /\ job'.what = job.what /\ job'.lba = job.lba + 1 /\ job'.n = job.n
        /\ job'.run = job.run + 1 /\ job'.moved = Append(job.moved, Sector(job.lba))
    BY <1>2 DEF NextBlock, Typed, IsJob, Fields
  <2>2. Sector(job.lba) = job.lba
    BY <1>0, SectorIsBlock DEF InOrder
  <2> DEFINE old == job.moved
             lba == job.lba
             run == job.run
             new == Append(old, lba)
  <2>3. /\ old \in Seq(Int) /\ Len(old) = run /\ run \in Nat /\ lba \in Nat
        /\ \A i \in 1 .. run : old[i] = lba - run + i - 1
    BY <1>0 DEF InOrder
  <2>4. job'.lba = lba + 1 /\ job'.run = run + 1 /\ job'.moved = new /\ run < job.n
    BY <1>0, <2>1, <2>2
  <2> HIDE DEF lba, run, old
  <2>5. /\ new \in Seq(Int) /\ Len(new) = run + 1
        /\ \A i \in 1 .. run : new[i] = old[i]
        /\ new[run + 1] = lba
    BY <2>3
  <2> HIDE DEF new
  <2>6. ASSUME NEW i \in 1 .. run + 1 PROVE new[i] = lba + 1 - (run + 1) + i - 1
    <3>1. CASE i \in 1 .. run
      BY <2>3, <2>5, <3>1
    <3>2. CASE i = run + 1
      BY <2>3, <2>5, <3>2
    <3> QED
      BY <2>3, <3>1, <3>2
  <2>7. /\ job'.what = job.what /\ job'.n = job.n /\ job'.pc = IF run + 1 < job.n THEN "cmd" ELSE "ready"
    BY <2>1 DEF run
  <2>8. job.n \in Nat \ {0} /\ job.what \in {"none", "status", "first", "scan", "read", "write"}
    BY <1>0 DEF InOrder
  <2> QED
    BY <2>3, <2>4, <2>5, <2>6, <2>7, <2>8 DEF InOrder, InTransfer
<1> QED
  BY <1>1, <1>2

(* Every way on from a verdict.                                            *)
LEMMA VerdictInOrder ==
  ASSUME Typed, MovedInv, NEW ok \in BOOLEAN, NEW good, NEW before, Verdict(ok, good, before),
         job.pc \in InTransfer \cup {"cmd"}, card' = card, due' \in SUBSET {"end", "good", "bad"}
  PROVE  MovedInv'
<1> USE DEF Unasked
<1>0. /\ InOrder(job) /\ Addressed /\ dev.hc = card.hc /\ 0 \in Nat /\ 1 \in Nat \ {0}
  BY DEF MovedInv, Addressed, InTransfer
<1> DEFINE On == InOrder(job') /\ (job'.pc \in Outside)
<1>1. ASSUME Crash PROVE InOrder(job') /\ job'.pc = "crashed"
  BY <1>0, <1>1, PlaceInOrder DEF Crash, InTransfer
<1>2. CASE UNCHANGED dev /\ InOrder(job')
  BY <1>0, <1>2 DEF MovedInv, Addressed
<1>3. CASE DecodeCsd
  <2>1. CASE ~card.known
    BY <1>1, <1>2, <1>3, <2>1 DEF DecodeCsd
  <2>2. CASE card.known
    <3>1. InOrder(job')
      BY <1>0, <1>3, <2>2, JobInOrder DEF DecodeCsd
    <3>2. Sectors \div card.per \in 0 .. Sectors
      BY <1>0, SdAssumption, QuotientBounded DEF Addressed
    <3>3. dev' = [dev EXCEPT !.lba = Sectors \div card.per, !.blksz = card.per]
      BY <1>3, <2>2 DEF DecodeCsd
    <3>4. /\ dev' \in [hc : BOOLEAN, lba : 0 .. Sectors, blksz : BlockSizes \cup {0}]
          /\ dev'.hc = dev.hc
      <4> HIDE DEF Unasked
      <4> QED
        BY <1>0, <3>2, <3>3 DEF Addressed
    <3> QED
      BY <1>0, <3>1, <3>4 DEF MovedInv, Addressed
  <2> QED
    BY <2>1, <2>2
<1>4. ASSUME job' = Job("cmd", "first", 0, 1) PROVE InOrder(job')
  BY <1>0, <1>4, JobInOrder
<1>5. ASSUME ScanNext(ok) PROVE InOrder(job')
  <2>1. job.lba + 1 \in Nat
    BY <1>0 DEF InOrder
  <2>2. job' = [job EXCEPT !.pc = "dead"] => InOrder(job')
    BY <1>0, PlaceInOrder DEF Goto, InTransfer
  <2>3. job' = Job("ready", "none", 0, 1) => InOrder(job')
    BY <1>0, JobInOrder
  <2>4. job' = Job("cmd", "scan", job.lba + 1, 1) => InOrder(job')
    <3>1. \A x \in Nat : InOrder(Job("cmd", "scan", x, 1))
      BY <1>0, JobInOrder
    <3> QED
      BY <2>1, <3>1
  <2> QED
    BY <1>5, <2>2, <2>3, <2>4 DEF ScanNext
<1>6. ASSUME NextBlock(ok), job.what \in {"read", "write"} PROVE InOrder(job')
  BY <1>6, NextBlockInOrder
<1> QED
  BY <1>1, <1>2, <1>3, <1>4, <1>5, <1>6, Zenon DEF Verdict

LEMMA MovedInit == Init => MovedInv
<1> SUFFICES ASSUME Init PROVE MovedInv
  OBVIOUS
<1>1. InOrder(job) /\ job.pc = "start"
  <2>1. 0 \in Nat /\ 1 \in Nat \ {0}
    OBVIOUS
  <2> QED
    BY <2>1, JobInOrder DEF Init
<1>2. /\ card.hc \in BOOLEAN /\ card.per \in BlockSizes /\ due = {}
      /\ dev \in [hc : BOOLEAN, lba : 0 .. Sectors, blksz : BlockSizes \cup {0}]
  <2>1. 0 \in 0 .. Sectors
    BY SdAssumption
  <2>2. /\ dev = [hc |-> FALSE, lba |-> 0, blksz |-> 0] /\ due = {}
        /\ card \in [hc : {TRUE}, per : BlockSizes \cap {1}, known : BOOLEAN, mbr : SUBSET {0, 1}]
                    \cup [hc : {FALSE}, per : BlockSizes, known : BOOLEAN, mbr : SUBSET {0, 1}]
    BY DEF Init
  <2>3. card.hc \in BOOLEAN /\ card.per \in BlockSizes
    BY <2>2
  <2> QED
    BY <2>1, <2>2, <2>3
<1> QED
  BY <1>1, <1>2 DEF MovedInv, Addressed, Unasked

LEMMA MovedNext == IInv /\ MovedInv /\ [Next]_vars => MovedInv'
<1> SUFFICES ASSUME IInv, MovedInv, [Next]_vars PROVE MovedInv'
  OBVIOUS
<1>0. Typed /\ InOrder(job) /\ Addressed
  BY DEF IInv, MovedInv
<1>a. ASSUME UNCHANGED <<card, dev, due>>, InOrder(job'), job'.pc \notin Unasked => job.pc \notin Unasked
      PROVE  MovedInv'
  BY <1>0, <1>a DEF MovedInv, Addressed
<1>b. ASSUME UNCHANGED <<card, dev, due>>, NEW pc, Goto(pc), job.run < job.n,
             job.pc \notin Unasked \/ pc \in Unasked
      PROVE  MovedInv'
  BY <1>0, <1>a, <1>b, PlaceInOrder
<1>c. job.pc \in InTransfer \cup {"cmd"} => job.run < job.n /\ job.pc \notin Unasked
  BY <1>0 DEF InOrder, InTransfer, Unasked
<1>1. CASE SdCardInitialize \/ SDCn_init
  <2>1. /\ UNCHANGED <<card, dev, due>>
        /\ Goto("init") \/ Goto("absent") \/ Goto("identify")
    BY <1>1 DEF SdCardInitialize, SDCn_init
  <2>2. InOrder(job') /\ job'.pc \in Unasked
    BY <1>0, <2>1, PlaceInOrder DEF Unasked, InTransfer
  <2> QED
    BY <1>a, <2>1, <2>2
<1>2. CASE Identify
  <2>1. CASE Crash /\ UNCHANGED dev
    <3>1. UNCHANGED <<card, due>> /\ Goto("crashed")
      BY <1>2, <2>1 DEF Identify, Crash
    <3>2. InOrder(job') /\ job'.pc \in Unasked
      BY <1>0, <3>1, PlaceInOrder DEF Unasked, InTransfer
    <3> QED
      BY <1>a, <2>1, <3>1, <3>2
  <2>2. ASSUME NEW cmd8 \in BOOLEAN, dev' = [dev EXCEPT !.hc = cmd8 /\ card.hc],
               Goto(IF card.hc => cmd8 THEN "transfer" ELSE "powerup")
        PROVE  MovedInv'
    <3> DEFINE b == cmd8 /\ card.hc
    <3>0. UNCHANGED <<card, due>>
      BY <1>2 DEF Identify
    <3>1. dev' = [dev EXCEPT !.hc = b] /\ b \in BOOLEAN
      BY <1>0, <2>2 DEF Addressed
    <3> HIDE DEF b
    <3>2. dev' \in [hc : BOOLEAN, lba : 0 .. Sectors, blksz : BlockSizes \cup {0}] /\ dev'.hc = b
      BY <1>0, <3>1 DEF Addressed
    <3>3. CASE card.hc => cmd8
      <4>1. Goto("transfer")
        BY <2>2, <3>3
      <4>2. InOrder(job')
        BY <1>0, <4>1, PlaceInOrder DEF InTransfer
      <4>3. b = card.hc
        BY <1>0, <3>3 DEF b, Addressed
      <4> QED
        BY <1>0, <3>0, <3>2, <4>2, <4>3 DEF MovedInv, Addressed
    <3>4. CASE ~(card.hc => cmd8)
      <4>1. Goto("powerup")
        BY <2>2, <3>4
      <4>2. InOrder(job') /\ job'.pc = "powerup"
        BY <1>0, <4>1, PlaceInOrder DEF InTransfer
      <4> QED
        BY <1>0, <3>0, <3>2, <4>2 DEF MovedInv, Addressed, Unasked
    <3> QED
      BY <3>3, <3>4
  <2> QED
    BY <1>2, <2>1, <2>2 DEF Identify
<1>3. CASE CardTransferInit
  <2>1. UNCHANGED <<card, dev, due>> /\ (Goto("crashed") \/ Goto("scr")) /\ job.pc = "transfer"
    BY <1>3 DEF CardTransferInit, Crash, At
  <2>2. InOrder(job')
    BY <1>0, <2>1, PlaceInOrder DEF InTransfer
  <2> QED
    BY <1>a, <2>1, <2>2 DEF Unasked
<1>4. CASE ReadScr
  <2>1. UNCHANGED <<card, dev>> /\ job.pc = "scr"
    BY <1>4 DEF ReadScr, At
  <2>2. CASE Crash /\ UNCHANGED due
    <3>1. InOrder(job')
      BY <1>0, <2>2, PlaceInOrder DEF Crash, InTransfer
    <3> QED
      BY <1>a, <2>1, <2>2, <3>1 DEF Unasked
  <2>3. CASE (\E v \in {"good", "bad"} : due' = {"end", v}) /\ job' = ReadSdStatus
    <3>1. InOrder(job')
      <4>1. 0 \in Nat /\ 1 \in Nat \ {0}
        OBVIOUS
      <4> QED
        BY <2>3, <4>1, JobInOrder DEF ReadSdStatus
    <3> QED
      BY <1>0, <2>1, <2>3, <3>1 DEF MovedInv, Addressed, Unasked
  <2> QED
    BY <1>4, <2>2, <2>3 DEF ReadScr
<1>5. ASSUME NEW what \in {"read", "write"}, NEW lba \in 0 .. Sectors, NEW n \in Counts,
             Request(what, lba, n)
      PROVE  MovedInv'
  <2>1. lba \in Nat /\ n \in Nat \ {0}
    BY SdAssumption
  <2>2. InOrder(job')
    BY <1>5, <2>1, JobInOrder DEF Request
  <2>3. UNCHANGED <<card, dev, due>> /\ job.pc = "ready"
    BY <1>5 DEF Request, At
  <2> QED
    BY <1>a, <2>2, <2>3 DEF Unasked
<1>6. ASSUME job.pc \in InTransfer \cup {"cmd"}, UNCHANGED <<card, due>>,
             NEW ok \in BOOLEAN, NEW good, NEW before, Verdict(ok, good, before)
      PROVE  MovedInv'
  BY <1>0, <1>6, VerdictInOrder DEF Addressed
<1>7. CASE Command
  <2>1. job.pc = "cmd" /\ UNCHANGED <<card, due>>
    BY <1>7 DEF Command, At
  <2>2. CASE job' = [job EXCEPT !.pc = "data", !.before = flags] /\ UNCHANGED <<dev, last>>
    <3>1. /\ job'.what = job.what /\ job'.lba = job.lba /\ job'.n = job.n
          /\ job'.run = job.run /\ job'.moved = job.moved
      BY <1>0, <2>2 DEF Typed, IsJob, Fields
    <3>2. InOrder(job')
      BY <1>0, <1>c, <2>1, <3>1 DEF InOrder
    <3> QED
      BY <1>a, <2>1, <2>2, <3>2 DEF Unasked
  <2> QED
    BY <1>6, <1>7, <2>1, <2>2 DEF Command
<1>8. ASSUME At("data"), AllMoved, UNCHANGED card PROVE MovedInv'
  <2>1. PICK v \in {"good", "bad"} :
          /\ due' = {"end", v}
          /\ job' = [job EXCEPT !.pc = "status", !.good = v = "good"]
    BY <1>8 DEF AllMoved
  <2>2. /\ job'.what = job.what /\ job'.lba = job.lba /\ job'.n = job.n
        /\ job'.run = job.run /\ job'.moved = job.moved
    BY <1>0, <2>1 DEF Typed, IsJob, Fields
  <2>3. job.pc = "data" /\ UNCHANGED dev
    BY <1>8 DEF At, AllMoved
  <2>4. InOrder(job')
    BY <1>0, <1>c, <2>2, <2>3 DEF InOrder, InTransfer
  <2> QED
    BY <1>0, <1>8, <2>1, <2>3, <2>4 DEF MovedInv, Addressed, Unasked
<1>9. ASSUME At("data"), TimedOut, UNCHANGED card PROVE MovedInv'
  BY <1>6, <1>9 DEF At, TimedOut, InTransfer
<1>10. ASSUME NEW f \in {"good", "bad", "end"}, HwFlag(f) PROVE MovedInv'
  BY <1>0, <1>10 DEF HwFlag, MovedInv, Addressed
<1>11. CASE Status
  BY <1>6, <1>11, <1>b, <1>c DEF Status, At, InTransfer
<1>12. CASE Clear \/ DataEnd
  BY <1>12, <1>b, <1>c DEF Clear, DataEnd, At, InTransfer
<1>13. CASE Cleared
  BY <1>6, <1>13, <1>b, <1>c DEF Cleared, At, InTransfer
<1>14. CASE Programmed
  BY <1>6, <1>14 DEF Programmed, At, InTransfer
<1>15. CASE UNCHANGED vars
  BY <1>15 DEF vars, MovedInv, Addressed
<1> QED
  BY <1>1, <1>2, <1>3, <1>4, <1>5, <1>7, <1>8, <1>9, <1>10, <1>11, <1>12, <1>13, <1>14, <1>15
     DEF Next, Driver, ReadData, WriteData, ReadStatus, WriteStatus

(* Type correctness: lba stays on the card whatever its CSD says, and no     *)
(* request moves more blocks than it asks for.                              *)
THEOREM SdTypeCorrect == Spec => []TypeOK
<1>1. IInv /\ MovedInv => TypeOK
  BY DEF IInv, Typed, Kept, IsJob, MovedInv, InOrder, Addressed, TypeOK, Outside, Judged, InTransfer
<1> QED
  BY <1>1, InvInit, InvNext, MovedInit, MovedNext, PTL DEF Spec

(* However a request ends, the blocks that mmc_bread and mmc_bwrite count as *)
(* moved are its first ones, in order: card and driver agree on the way of  *)
(* addressing before any block is moved.                                    *)
THEOREM FirstBlocksMoved == Spec => []PrefixMoved
<1>1. MovedInv => PrefixMoved
  BY DEF MovedInv, InOrder, PrefixMoved
<1> QED
  BY <1>1, InvInit, InvNext, MovedInit, MovedNext, PTL DEF Spec
=============================================================================
