------------------------------- MODULE SdCard -------------------------------
(***************************************************************************)
(* The SD card: SdCardDxe.c, the block device it publishes, over mmc.c,    *)
(* which moves one block of 512 bytes at a time by polling (USE_DM,        *)
(* USE_HIGH_SPEED_MODE and USE_4_BIT_BUS_MODE are not defined).            *)
(*                                                                         *)
(* The status flags of the controller stay set until they are cleared by   *)
(* name.  The flags of a block arrive only after its last word, while the  *)
(* driver checks and clears them one after the other: a check may see the  *)
(* flags that an earlier block left.                                       *)
(*                                                                         *)
(* The card and the controller are external.  Their flags have arrived by  *)
(* the time a later command was answered (96 clocks against the 16 of a    *)
(* checksum); flow control (MCI_CLK__FLOW_ENA) prevents overruns; a        *)
(* command that fails moves no data; a start bit error counts as a         *)
(* checksum error; every write is programmed in the end.                   *)
(***************************************************************************)
EXTENDS Integers, Sequences

CONSTANTS
  Sectors,      (* The size of the card in sectors of 512 bytes.           *)
  BlockSizes,   (* The sectors per block its CSD may say: 1 or 2.          *)
  ScanLimit,    (* The last block searched for an MBR, 50 in the code.     *)
  Counts        (* The numbers of blocks of a request.                     *)

ASSUME SdAssumption ==
  /\ Sectors \in Nat /\ ScanLimit \in Nat
  /\ BlockSizes \subseteq Nat \ {0} /\ Counts \subseteq Nat \ {0}
  /\ \A per \in BlockSizes : Sectors \div per > ScanLimit

VARIABLES
  card,    (* The card: high capacity, sectors per block, a CSD of a known *)
           (* structure, and the sectors that end in 55 AA.                *)
  dev,     (* high_capacity, and mmc_dev: lba, and blksz in sectors.       *)
  flags,   (* MCI_STATUS: DATA_BLK_END, DATAEND, and the data errors.      *)
  due,     (* The flags of the block in transfer that are still to come.   *)
  job,     (* Where the driver is: pc, what for, and the locals.           *)
  last     (* History: the verdict on the last block, how its transfer     *)
           (* went, and the flags before it.                               *)

vars == <<card, dev, flags, due, job, last>>

Clean == [blkEnd |-> FALSE, dataEnd |-> FALSE, err |-> {}]
FlagSets == [blkEnd : BOOLEAN, dataEnd : BOOLEAN, err : SUBSET {"crc", "timeout"}]

Job(pc, what, lba, n) ==
  [pc |-> pc, what |-> what, lba |-> lba, n |-> n, run |-> 0, moved |-> <<>>,
   status |-> "none", before |-> Clean, good |-> FALSE]

At(pc) == job.pc = pc
Goto(pc) == job' = [job EXCEPT !.pc = pc]

(* Mutant: every card is addressed by block.                               *)
BlockAddress(lba) == lba

Address(lba) == IF dev.hc THEN lba ELSE lba * 512

(* The sector the card takes an address for.                               *)
SectorAt(address) == IF card.hc THEN address ELSE address \div 512
Sector(lba) == SectorAt(Address(lba))
-----------------------------------------------------------------------------
(* What follows the verdict on a block.                                    *)

(* mmc_legacy_init fails, which SdCardInitialize ignores: the block_read it *)
(* calls next is NULL.                                                      *)
Crash == Goto("crashed")

(* mmc_bread, mmc_bwrite: the next block, or the number of blocks moved, of  *)
(* which any but 0 is EFI_SUCCESS.                                          *)
NextBlock(ok) ==
  LET run == IF ok THEN job.run + 1 ELSE job.run
      more == ok /\ run < job.n
  IN job' = [job EXCEPT
       !.run = run,
       !.moved = IF ok THEN Append(@, Sector(job.lba)) ELSE @,
       !.lba = IF ok THEN @ + 1 ELSE @,
       !.pc = IF more THEN "cmd" ELSE "ready",
       !.status = IF more THEN "none" ELSE IF run > 0 THEN "EFI_SUCCESS"
                  ELSE "EFI_DEVICE_ERROR"]

(* mmc_decode_csd, which gives up on a structure it does not know.          *)
DecodeCsd ==
  IF card.known
  THEN /\ dev' = [dev EXCEPT !.lba = Sectors \div card.per, !.blksz = card.per]
       /\ job' = Job("cmd", "scan", 0, 1)
  ELSE Crash /\ UNCHANGED dev

(* The search for an MBR; without one the driver stops in CpuDeadLoop.      *)
ScanNext(ok) ==
  job' = IF ok /\ Sector(job.lba) \in card.mbr THEN Job("ready", "none", 0, 1)
         ELSE IF job.lba < dev.lba /\ job.lba < ScanLimit
         THEN Job("cmd", "scan", job.lba + 1, 1)
         ELSE [job EXCEPT !.pc = "dead"]

(* read_a_block or write_a_block returns ok; good tells how it went.        *)
Verdict(ok, good, before) ==
  /\ last' = [ok |-> ok, good |-> good, before |-> before]
  /\ \/ job.what = "status" /\ ok /\ job' = Job("cmd", "first", 0, 1) /\ UNCHANGED dev
     \/ job.what = "first" /\ ok /\ DecodeCsd
     \/ job.what \in {"status", "first"} /\ ~ok /\ Crash /\ UNCHANGED dev
     \/ job.what = "scan" /\ ScanNext(ok) /\ UNCHANGED dev
     \/ job.what \in {"read", "write"} /\ NextBlock(ok) /\ UNCHANGED dev
-----------------------------------------------------------------------------
(* SdCardInitialize: without a card in its slot nothing is published.       *)
SdCardInitialize ==
  /\ At("start")
  /\ Goto("init") \/ Goto("absent")
  /\ UNCHANGED <<card, dev, flags, due, last>>

(* All status bits that the boot loader left are cleared.                   *)
SDCn_init ==
  /\ At("init")
  /\ flags' = Clean
  /\ Goto("identify")
  /\ UNCHANGED <<card, dev, due, last>>

(* card_identification_selection.  If CMD8 fails, a card of high capacity is *)
(* not asked for it, and its power up is awaited for ever.                  *)
Identify ==
  /\ At("identify")
  /\ \/ Crash /\ UNCHANGED dev
     \/ \E cmd8 \in BOOLEAN :
          /\ dev' = [dev EXCEPT !.hc = cmd8 /\ card.hc]
          /\ Goto(IF card.hc => cmd8 THEN "transfer" ELSE "powerup")
  /\ UNCHANGED <<card, flags, due, last>>

(* card_transfer_init asks for the CSD and the CID and selects the card.    *)
CardTransferInit ==
  /\ At("transfer")
  /\ Crash \/ Goto("scr")
  /\ UNCHANGED <<card, dev, flags, due, last>>

(* read_SD_status: 64 bytes, moved and checked as a block is.               *)
ReadSdStatus == Job("cmd", "status", 0, 1)

(* read_SCR_register takes two words and leaves the flags.  A command of it  *)
(* or after it may fail.                                                    *)
ReadScr ==
  /\ At("scr")
  /\ \/ Crash /\ UNCHANGED due
     \/ /\ \E v \in {"good", "bad"} : due' = {"end", v}
        /\ job' = ReadSdStatus
  /\ UNCHANGED <<card, dev, flags, last>>

(* MMCHSReadBlocks and MMCHSWriteBlocks, for blocks that BlockIo says exist. *)
Request(what, lba, n) ==
  /\ At("ready")
  /\ lba + n - 1 <= dev.lba
  /\ job' = Job("cmd", what, lba, n)
  /\ UNCHANGED <<card, dev, flags, due, last>>

(* The commands that start a block: the last flags are there by then.       *)
Command ==
  /\ At("cmd") /\ due = {}
  /\ UNCHANGED <<card, flags, due>>
  /\ \/ job' = [job EXCEPT !.pc = "data", !.before = flags] /\ UNCHANGED <<dev, last>>
     \/ Verdict(FALSE, FALSE, flags)

(* All words of a block that exists are moved, and its flags will come.     *)
AllMoved ==
  /\ Sector(job.lba) < Sectors
  /\ \E v \in {"good", "bad"} :
       /\ due' = {"end", v}
       /\ job' = [job EXCEPT !.pc = "status", !.good = v = "good"]
  /\ UNCHANGED <<dev, flags, last>>

TimedOut ==
  /\ flags' = [flags EXCEPT !.err = @ \cup {"timeout"}]
  /\ UNCHANGED due
  /\ Verdict(FALSE, FALSE, job.before)

(* The words of a read; the receiver stops if the card times out.           *)
ReadData ==
  /\ At("data") /\ job.what # "write"
  /\ AllMoved \/ TimedOut
  /\ UNCHANGED card

(* The words of a write, which also finds the timeout of an earlier block.  *)
WriteData ==
  /\ At("data") /\ job.what = "write"
  /\ ("timeout" \notin flags.err /\ AllMoved) \/ TimedOut
  /\ UNCHANGED card

(* The controller sets a flag.                                             *)
HwFlag(f) ==
  /\ f \in due
  /\ due' = due \ {f}
  /\ flags' = [blkEnd |-> flags.blkEnd \/ f = "good",
               dataEnd |-> flags.dataEnd \/ f = "end",
               err |-> IF f = "bad" THEN flags.err \cup {"crc"} ELSE flags.err]
  /\ UNCHANGED <<card, dev, job, last>>
-----------------------------------------------------------------------------
(* check_clear_read_status, check_clear_write_status.                      *)

(* Mutant: the end of the block is looked at before its errors.            *)
StatusEndFirst ==
  /\ At("status")
  /\ UNCHANGED <<card, flags, due>>
  /\ \/ flags.blkEnd /\ Goto("clear") /\ UNCHANGED <<dev, last>>
     \/ ~flags.blkEnd /\ flags.err # {} /\ Verdict(FALSE, job.good, job.before)

(* Mutant: the end of the data is taken for the end of the block.          *)
StatusDataEnd ==
  /\ At("status")
  /\ UNCHANGED <<card, flags, due>>
  /\ \/ flags.err # {} /\ Verdict(FALSE, job.good, job.before)
     \/ flags.err = {} /\ (flags.blkEnd \/ flags.dataEnd) /\ Goto("clear")
        /\ UNCHANGED <<dev, last>>

(* The loop on MCI_STATUS: an error returns with all flags left.           *)
Status ==
  /\ At("status")
  /\ UNCHANGED <<card, flags, due>>
  /\ \/ flags.err # {} /\ Verdict(FALSE, job.good, job.before)
     \/ flags.err = {} /\ flags.blkEnd /\ Goto("clear") /\ UNCHANGED <<dev, last>>

(* The checks of a read and of a write differ in the overrun they look for. *)
ReadStatus == job.what # "write" /\ Status
WriteStatus == job.what = "write" /\ Status

(* Mutant: all flags are cleared at once.                                  *)
ClearAll ==
  /\ At("clear")
  /\ flags' = Clean
  /\ Goto("dataend")
  /\ UNCHANGED <<card, dev, due, last>>

Clear ==
  /\ At("clear")
  /\ flags' = [flags EXCEPT !.blkEnd = FALSE, !.err = {}]
  /\ Goto("dataend")
  /\ UNCHANGED <<card, dev, due, last>>

(* DATAEND is waited for and cleared.                                      *)
DataEnd ==
  /\ At("dataend") /\ flags.dataEnd
  /\ flags' = [flags EXCEPT !.dataEnd = FALSE]
  /\ Goto("cleared")
  /\ UNCHANGED <<card, dev, due, last>>

(* It is waited for to be clear, and DATA_BLK_END cleared again: a read has *)
(* succeeded.                                                              *)
Cleared ==
  /\ At("cleared") /\ ~flags.dataEnd
  /\ flags' = [flags EXCEPT !.blkEnd = FALSE]
  /\ UNCHANGED <<card, due>>
  /\ IF job.what = "write" THEN Goto("prog") /\ UNCHANGED <<dev, last>>
     ELSE Verdict(TRUE, job.good, job.before)

(* SEND_STATUS after a write, and its PROG_DONE.                           *)
Programmed ==
  /\ At("prog")
  /\ UNCHANGED <<card, flags, due>>
  /\ \E ok \in BOOLEAN : Verdict(ok, ok /\ job.good, job.before)

Init ==
  /\ card \in [hc : {TRUE}, per : BlockSizes \cap {1}, known : BOOLEAN, mbr : SUBSET {0, 1}]
              \cup [hc : {FALSE}, per : BlockSizes, known : BOOLEAN, mbr : SUBSET {0, 1}]
  /\ dev = [hc |-> FALSE, lba |-> 0, blksz |-> 0]
  /\ flags \in FlagSets /\ due = {}
  /\ job = Job("start", "none", 0, 1)
  /\ last = [ok |-> FALSE, good |-> FALSE, before |-> Clean]

Driver ==
  \/ SdCardInitialize \/ SDCn_init \/ Identify \/ CardTransferInit \/ ReadScr
  \/ Command \/ ReadData \/ WriteData \/ ReadStatus \/ WriteStatus
  \/ Clear \/ DataEnd \/ Cleared \/ Programmed

Next ==
  \/ Driver
  \/ \E what \in {"read", "write"}, lba \in 0 .. Sectors, n \in Counts : Request(what, lba, n)
  \/ \E f \in {"good", "bad", "end"} : HwFlag(f)

Spec == Init /\ [][Next]_vars

(* The driver polls, and the flags of a block that was moved arrive.       *)
Fairness ==
  /\ WF_vars(Driver)
  /\ \A f \in {"good", "bad", "end"} : WF_vars(HwFlag(f))

FairSpec == Spec /\ Fairness
-----------------------------------------------------------------------------
InTransfer == {"data", "status", "clear", "dataend", "cleared", "prog"}

TypeOK ==
  /\ dev \in [hc : BOOLEAN, lba : 0 .. Sectors, blksz : BlockSizes \cup {0}]
  /\ flags \in FlagSets
  /\ due \in SUBSET {"end", "good", "bad"}
  /\ job.pc \in InTransfer \cup {"start", "absent", "init", "identify", "powerup", "transfer",
                            "scr", "cmd", "ready", "crashed", "dead"}
  /\ job.what \in {"none", "status", "first", "scan", "read", "write"}
  /\ job.run \in 0 .. job.n /\ Len(job.moved) = job.run
  /\ job.before \in FlagSets /\ job.good \in BOOLEAN

(* However a request ends, the blocks it counts as moved are its first ones, *)
(* in order, on a card of either way of addressing, if its blocks are of one *)
(* sector.                                                                  *)
PrefixMoved ==
  At("ready") /\ job.what \in {"read", "write"} /\ dev.blksz = 1 =>
    \A i \in 1 .. job.run : job.moved[i] = job.lba - job.run + i - 1

(* No block is reported good while the error of an earlier block is          *)
(* outstanding, and none of the flags that block left hides it.             *)
FailStop == last.before.err # {} => ~last.ok

(* A block that starts with clean flags is judged by its own: it is reported *)
(* good exactly if its checksum was, and it was programmed.                 *)
CleanVerdictExact == last.before = Clean => (last.ok <=> last.good)

(* A block that starts with clean flags ends, good or bad: no wait of the    *)
(* check is for a flag that it cleared itself.                              *)
CleanReturns ==
  (job.before = Clean /\ job.pc \in InTransfer) ~> job.pc \notin InTransfer

(* "EFI_SUCCESS           The data was read correctly from the device":     *)
(* all of it, in blocks of the size that BlockIo says.                      *)
SuccessIsComplete ==
  At("ready") /\ job.status = "EFI_SUCCESS" => Len(job.moved) = job.n * dev.blksz
=============================================================================
