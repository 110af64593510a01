# Formal models of the HTC Leo UEFI package

This directory holds TLA+ models of HtcLeoPkg, a UEFI firmware for the HTC HD2
(QSD8250): what its drivers promise, how they work, TLC runs on small instances
and TLAPS proofs for all instances. Everything is translated from the C code
under `src/QSD8250Pkg`; the path of each definition is in `PROJECT.json` (`map`).

## 1. The system

The firmware is one address space and one CPU. Concurrency comes from

* **task priority levels (TPL)**: application code runs at `TPL_APPLICATION`,
  event callbacks at `TPL_CALLBACK` and `TPL_NOTIFY`. A callback of a higher
  level preempts lower code at any instruction and runs to its end first;
* **interrupts**: a handler runs between any two instructions at any level below
  `TPL_HIGH_LEVEL`;
* **hardware**: the I2C controller, the SD card controller, the modem processor, the
  timer.

| component | state it keeps | operations | talks to | hard because | correct when |
|---|---|---|---|---|---|
| I2CDxe | `dev`, the transfer in progress; static `timeout` | `Xfer`, `Read`, `Write`, interrupt | MicroP, Touch, DS2746 call it | callers at several TPLs share `dev`; NAKs, stuck bus | no stale message pointer, exact results, every call returns |
| MicroPDxe | chip address | read, write, LED, ADC | I2CDxe; Charging calls it | retries | what is written arrives, failures are reported |
| DS2746Lib | none | voltage, current, temperature | I2CDxe | two-byte values, ignored failures | values are real readings |
| ChargingDxe | `gState`, timer event | 100 ms callback, ExitBootServices | DS2746, MicroP, Gpio | callback after exit, bad readings | charger off when unplugged, full or booted |
| TouchDxe | report, announce flag, last position | poll, interrupt, GetState x2, reset | I2CDxe, SircDxe; ConSplitter | three protocols and an interrupt share a report | no edge lost, movement told once |
| InterruptDxe | handler table, VIC registers | register, enable, disable, dispatch, EOI | every driver | nesting, end of interrupt | each interrupt is served |
| SircDxe | line table | register line, enable, dispatch | InterruptDxe; Touch | a level line behind an edge | a line that is high is heard |
| TimerDxe | period, handler | tick, set period | InterruptDxe; DXE core | ticks from the moment the source is enabled | the core is told the right period |
| Key scanner | `KEY_CONTEXT` per key, bitmaps | scan, reset | Gpio; KeypadDxe calls it | debounce, repeat, combinations | each press is reported as pressed |
| KeypadDxe | two key queues, `NotifyList`, event, binding | Start, Stop, scan timer, ReadKeyStroke, WaitForKey, (Un)RegisterKeyNotify, Reset | scanner; ConSplitter | functions that scan, register and reset while the handler is at their entry; a Stop that is refused | no key lost, every function called |
| GpioDxe | output and direction registers | set, configure, interrupts | most drivers | read-modify-write at several TPLs | a pin keeps what was set last |
| SdCardDxe, mmc | card descriptor, status flags of the controller | identify, read, write blocks | BlockIo clients | flags left by earlier blocks, errors, partial transfers | a verdict is about its own block |
| pcom, pcom_clients | shared command words | `proc_comm`, power and clock calls | modem | handshake, endless waits, callbacks | answers match questions |
| ClockDxe, acpuclock | clock table, CPU clock | enable, disable, set rate, ramp | pcom | table updated in place, a PLL under the core | entries name their clock, the core's source runs |
| ConSplitterDxe, output | lists of consoles, tables of modes, graphics modes | Start, Stop, SetMode, cursor, attribute, reset | text consoles | tables grown, cut, rebuilt; consoles on both splitters | a shared mode is that mode everywhere |
| ConSplitterDxe, keyboards | lists, queue of keys, toggle state, notifications | Start, Stop, two reads, reset, state, (un)register | keyboards | two protocols over one queue, late toggles, failures | no key lost, all keyboards alike |
| ConSplitterDxe, pointers | two lists, two flags | Start, Stop, GetState, reset, wait | mice and panels | movement is gone once read | movement adds up, callers are told |
| GraphicsConsoleDxe | mode, line buffer, cursor drawn in the pixels | Start, Stop, text output | graphics output | the cursor is an XOR, calls nest | a terminal, with one cursor |
| smem, smem_ptable, ptable | partition table | lookup, convert | boot menu | bounds | partitions are those of the device |
| PrePi, BootShim, boot manager, menu | boot selection | start-up, boot a kernel | all | runs once | hand-over state |
| frame buffer, SMBIOS, logo, games | none shared | EDK II protocols | - | input and output | - |

The hazards these give rise to, each at its line, are listed in `PROJECT.json`
(`hazards`), with the properties that would catch them.

## 2. Modules

| module | models | kind |
|---|---|---|
| `I2CBus`, `I2CBus_proofs` | I2CDxe with its callers and the controller | state machine |
| `DropOldest` | the contents of a key queue as a sequence | operators |
| `KeyFifo` | what a key queue promises | abstract specification |
| `KeyQueue` | the ring buffer `EFI_KEY_QUEUE` | implements `KeyFifo` |
| `KeyScan`, `MCKeyScan`, `Keypad_proofs` | the scanner | state machine |
| `Keypad`, `Keypad_proofs` | KeypadDxe above the scanner and the queues; the proofs are of `KeyQueue` too | state machine |
| `SdCard`, `SdCard_proofs` | SdCardDxe and mmc.c with the card and its controller | state machine |
| `GpioPins`, `Pins_proofs` | GpioDxe with the charger, the keypad LED and the touch reset | composition |
| `TouchIrq`, `Pins_proofs` | TouchDxe, SircDxe, InterruptDxe, TimerDxe and the pin interrupts | composition |
| `ConOut`, `MCConOut`, `ConOut_proofs` | the output splitters and their graphics output | state machine |
| `ConIn`, `ConIn_proofs` | the keyboards of the input splitter | state machine |
| `Pointers`, `MCPointers`, `Console_proofs` | the pointers of the input splitter | state machine |
| `Terminal` | what a text console promises | abstract specification |
| `GfxConsole`, `MCGfxConsole`, `Console_proofs` | GraphicsConsoleDxe | implements `Terminal` |
| `Modem` | msm_proc_comm and the modem | state machine, extended by |
| `CoreClock` | acpuclock.c, access by access | operators, extended by |
| `ClockDxe`, `ClockDxe_proofs` | ClockDxe and the clients of the modem calls | composition |

They fit together by interface: `KeyQueue` shows that the ring of slots is the
sequence of `DropOldest`, and `Keypad` uses the sequence for its two queues;
`KeyScan` shows what a scan posts, and in `Keypad` a scan posts any keystrokes;
`GpioPins` has the charger whose transfers are the upper level of `I2CBus`;
`TouchIrq` has the polls that `Pointers` assumes of a device, `Keypad` is a keyboard of
`ConIn`, and `GfxConsole` a console of `ConOut`.

The 12 runs take 10 to 120 seconds each with two workers.

### I2CBus

`dev` is `struct msm_i2c_dev`: `own` and `idx` say which message of which caller
`dev.msg` points at (`Nobody` is NULL), `timedOut` is the static `timeout`. `hw`
is the status register and the state of the bus, `irq` the interrupt source, and
`xfer` the program counter and locals of `msm_i2c_xfer` at each priority level.
One action per group of statements of `msm_i2c_xfer` (`Enable`, `PollBefore`,
`SetMessages`, `SetCounts`, `CheckMessage`, `Use`, `PollAfter`, `Collect`, `Conclude`,
`Disable`). `Serve` is the whole of `msm_i2c_interrupt_locked`. As the interrupt handler it is
one step (`Interrupt`); called directly from `msm_i2c_xfer` it is two, since a callback may
come between the check of `dev.msg` (`CheckMessage`) and its uses (`Use`). Where one did, its
transfer has left `dev` cleared, and the uses find NULL: `LostUses` is what they then do,
address 0 being mapped on this machine. `Call(c)` is a caller at level `c`, allowed at any
program counter of a lower level: ChargingDxe's callback, at `TPL_NOTIFY`, preempts a touch
call of the application or an LED call of the keypad's timer.

Assignments to `dev` are grouped where a callback between two of them does what one before or
after the group does: it leaves `dev.msg` NULL, which the handler finds when it is called, and `dev.ret`
as the assignments to come make it.
Still one step are the write of an address with the `dev.pos++` after it, as the byte takes 25 us on the
bus, and the tail of the direct call, which has nothing to do right after the buffer was filled.
The polls clear error bits of the status as they read it. A bus recovery
that fails does so on a slave that goes on holding the bus. That it lets go later by itself is
left out: a read cut off by three levels could then go on under an attempt of another, and
`CalmVerdictExact` has a counterexample.

The controller is external and modelled from the register comments. A poll loop
gives up only when neither the controller nor the handler can move; a pending,
enabled interrupt is taken before thread code goes on.

* Run `i2c_bus`: two levels, one retry, reads of 1 or 2 bytes and writes of 2, one
  ignored stop request, one call of one callback per attempt. Two-byte reads reach
  both stop-request cases of `msm_i2c_read_buffer` (one byte left at the start, two left);
  one retry shows the loop, and further ones repeat it. The code has three levels: touch
  calls at `TPL_APPLICATION`, LED calls at `TPL_CALLBACK`, ChargingDxe at `TPL_NOTIFY`. Two,
  the callback and whom it preempts, show every preemption; the safety properties also hold
  with three, and are proved for any number. `NoDanglingMsg`, `CalmVerdictExact`, `CallReturns`.

`SuccessIsTransfer` does not hold: `dev.ret` is preset to the number of messages, so a
transfer that stalls, or is replaced by a callback, is reported as complete.

Fairness: strong for each level (its step is disabled while a higher level runs,
and the callback runs briefly every 100 ms), weak for interrupt delivery and for a slave that
answers. A slave may stop answering for ever (`HwStick`); calls return all the same.

### KeyQueue and KeyFifo

One action per queue function, each atomic because every caller is at
`TPL_NOTIFY`. `did` records the last operation and the key it took or gave, so
the refinement compares answers as well as contents. Run `key_queue` with 4
slots passes through every combination of head and tail, full and empty.

### KeyScan

A scan is a `StartSweep` followed by a `ScanKey` for each key of `KeyList`, so the
user can press or release keys between two reads of one scan. Times are in units
of `Deltas` and saturate at the largest time the code compares with. `bits.uni` is
one bit for all character keys, as `KeySetState` indexes the bitmap with the scan
code, which is 0 for them. `press` and `held` are history.

* Run `key_scan`: two volume keys, one character key and Dial; times 1, 1 and 2, so a
  scan may fall before, on and after each threshold.

`EveryPressHeard` does not hold: the long press of a character key finds its own bit
set, takes it for Dial's, and posts nothing. `PressHeard` is about the other keys.

Fairness: the timer keeps scanning, scans end, and time passes between scans.

### Keypad

A scan (`BeginScan`, `Type`*, `EndScan`) raises the level to `TPL_NOTIFY`: nothing interleaves
with its keys but the driver's own loops. The timer and the handler are both notified at
`TPL_CALLBACK`, so a timer scan never comes while the handler runs (`TimerEvent`). `handler` is `KeyNotifyProcessHandler`
with the stroke and list entry it holds; while it is in a function
(`pc = "call"`), that function may scan, register, remove another entry or reset.
`driver` is the binding: Start installs the interfaces last, and a Stop that is
refused has closed timer and events already and leaves the driver `mute`, with functions
that callers may still use. `owed` and `done` are history: the calls due and made.

* Run `keypad`: queue of 2, two keys, two functions, two entries, three
  keystrokes: overflow, duplicates, registration, removal, Start and Stop at any time.

`CalledOnce` does not hold: with two entries for a key it is queued twice, and each copy
calls both functions.

Fairness: the handler goes on, scans end (weak); the event is dispatched and
functions return in spite of other calls (strong: timer scans and nested calls
disable them for a while, and each is short).

Assumed: a function does not remove the entry it is being called from (the handler
reads that node afterwards), and only the application calls Stop. Left out: `KeypadErr`
(no caller of `KeypadError`), partial keys (the scanner posts none), `SetState` (no effect
on anything modelled), and a failed `AllocateZeroPool` in Start, after which the error path
walks the `NotifyList` of a NULL pointer.

### SdCard

`job` is the driver: where it is (`pc`), what it moves a block for (`what`: the SD
status, the first block, the search for an MBR, a read, a write) and the locals of
`mmc_bread` and `mmc_bwrite`. `dev` is `high_capacity` and `mmc_dev`. One action per
part of a block's transfer that polls or clears: `Command` (`sdcc_send_cmd`), `Data`
(the loop on the FIFO), `Status`, `Clear`, `DataEnd` and `Cleared` (the check of the
flags), `Programmed`. `Verdict` is the return to whoever asked for the block, up to
the next command: `NextBlock`, `DecodeCsd`, `ScanNext`. The build defines none of
`USE_DM`, `USE_4_BIT_BUS_MODE`, `USE_HIGH_SPEED_MODE`, so the data mover is never used.

`flags` are the sticky flags of `MCI_STATUS`, `due` those of the block in transfer
that are still to come: the driver may be done with the last word before the
controller has its checksum. `card` and `HwFlag` are external. `last` is history.

* Run `sd_card`: a card of 4 sectors, of high or standard capacity, blocks of 1 or 2
  sectors, an MBR in sector 0, 1, both or neither, requests of 1 or 2 blocks up to
  `LastBlock`, the search limited to block 1; any command, block or power-up may fail.
  Two blocks show a failure before and after the first one moved.

`SuccessIsComplete` does not hold: a request of which some blocks were moved is reported
as `EFI_SUCCESS` (`SdCardDxe.c:175`). `PrefixMoved` says what is true of it.

`read_SCR_register` leaves its flags set, so a check can end before its own block's flags
arrive and leave those behind in turn. The properties therefore speak of a block that
starts with clean flags: it is judged by its own (`CleanVerdictExact`) and does not wait
for ever (`CleanReturns`); a block that starts with stale ones is only promised not to hide
an error (`FailStop`).

The driver stops for good where the code does: in `CpuDeadLoop` without an MBR, in a
call of a NULL `block_read` after a failed initialisation (`crashed`), or awaiting the power-up of a card
that did not answer CMD8; deadlock is therefore not checked. Fairness: the driver
polls, and the flags of a block that was moved arrive (weak).

### GpioPins

`gpio_set` reads and writes the register of directions, then reads and writes the
register of levels, at whatever priority its caller has. `reg` holds both registers
of the two banks that matter, as sets of pins; `op` is the call in progress at
application and at callback level, one action per access (`ReadOe`, `WriteOe`,
`ReadOut`, `WriteOut`). A call at `TPL_NOTIFY` (`WantsCharging`, `Press`,
`ExitBootServices`) is one action that may fall between any two of them. The pins are
those that one level relies on while another writes their register: the
charger's 22 and 16, the touch panel's 27 (bank 1), and the keypad LED's 48. The
columns of the keypad (31 to 33) are in bank 1 too, but every scan sets them anew
before it reads a key. `led` counts the events of the LED: `EnableKeypadLedWithTimer`
replaces `m_CallbackTimer` without closing or, once `DisableKeyPadLed` has cleared
`timerRunning`, cancelling the old one, so leaked timers are `lost`. `past` is history.

* Run `gpio_pins`: three presses; a leaked timer needs a second press and its effect
  on a later light a third. The charger's port and battery may say anything, at any time.

`ChargerAlwaysFollows` does not hold: a pointer `Reset` calls
`TsResetController`, whose write to pin 27 restores the charger pins it
read before; `gState` then has the state wanted, so nothing sets them again.
`ChargerFollows` is what remains true: only such a write can make the pins differ
(`past.torn`), and the next change of state repairs them. Fairness: the 100 ms timer
ticks, timers expire, and callbacks that are due run to their end (weak). After `ExitBootServices`
nothing runs; deadlock is therefore not checked.

### TouchIrq

The drivers start one after the other on the main thread (`main.pc`), which then polls by
one of three protocols (`Clients`), one action per access that an interrupt can separate.
`stack` is the interrupts being handled, the innermost last, as places in the dispatch
(`vector`), in a handler and after it (`end`). The timer handler ends its interrupt before
it returns, so the stack nests. A handler takes the latch, the line and the source back in
the order of the code: `TsInterruptHandler`, `TsInterruptClear`,
`TsInterruptAcknowledge`, `SircAcknowledge`, `IrqEnd`. The hardware is external: an
edge is latched, the line follows latch and enable, and a line that is high when it is
acknowledged raises `INT_SIRC_0` again. `told`, `moved` and `base` are history.

* Run `touch_irq`: two reports of an X of 0 or 576, a power-up report, one tick, one reset. Two
  reports let one come while another is read; the tick may fall at any access, also during
  start-up. The two values of X give both movement and none.

Sources 73 and 74, at which GpioDxe registers `MsmGpioIsr`, are the bits 41 and 42 of the
controller: that handler is never called, and the model has it so.

Fairness: interrupts are taken and the main thread runs when none is handled (weak); a read
over I2C does not fail for ever (strong). After `ExitBootServices` nothing runs, so
deadlock is not checked.

### ConOut

`sp` is `mConOut` and `mStdErr`: the list of consoles, the sizes of the shared modes
(`query`), and the table that maps a shared mode to a mode of each console (`map`, rows of
`cap` columns). The two buffers grow at different times and by different steps, which
`GrowMapTable` and `GrowQuery` keep. Each entry point is one action; `added` is history.
What is assumed of a console is what `InitializeGraphicsConsoleTextMode` builds: mode 0 of a
size all have, mode 1 of another or missing, later modes present and of neither size
(`ModesAssumption`), no mode 0xFF; a size is wanted (`PcdConOutColumn`, `PcdConOutRow` not 0).

* Run `con_out`: three consoles, the first of them on both splitters, with modes of
  different sizes and numbers, one without mode 1, two with screens; the unit of growth is
  2, so that the third console makes the tables grow.

`GopGoesAway` does not hold: the graphics output stays installed when the last screen
leaves, as `UninstallMultipleProtocolInterfaces` is given a list that begins with NULL.
`NullConsole` and `GopAgree` hold of this instance as well. The list of failing consoles is
empty in the run: a `SetMode` that fails is recorded all the same, so none of the
properties is promised then.

### ConIn

`dev` is the keyboards: the notifications registered, the toggle state, whether it reports
partial keys, the keys that wait and the toggles still to be delivered. They are external
and move between the calls (`Press`, `Toggle`); a set `bad` of keyboards refuses the call
being made. `queue` is `KeyQueue`, `handles` the `NotifyHandleList` of each notification.
`owed`, `torn` and `stops` are history: the keys a caller may expect, whether some
keyboard did not take the toggle state, and whether one was removed.

* Run `con_in`: two keyboards, one that may fail, one notification besides the splitter's
  own, two toggle states, one removal, one thing waiting in a keyboard, unit of growth 1.
  Two keyboards are enough for one to be served before the other fails; one key each is
  enough for the queue to hold one keyboard's key while the other's is returned.

A keyboard that is removed was unplugged, and comes back fresh. One whose extended
protocol could not be added stays on the other list for good: its Stop fails. All four
properties are proved for any constants.

### Pointers

`list` and `signalled` are the two lists and flags, `unread` and `fresh` the devices:
what each has moved since it was read, and whether its event is signalled. `due` and `lost` are
history, in units of the virtual pointer: what was moved but not told, and the part of it that
is gone. When one mouse fails, `PrivateGetState` goes on to read the others, but
returns `EFI_DEVICE_ERROR`, with which the caller has no movement: what the others gave away is
`lost`. `MovementKept` says that nothing else is: the movement not told waits in the mice, or was
lost in this way. A division that truncates takes less than a unit per mouse from
a read that succeeds; this is in no account.

* Run `pointers`: two mice, one of twice the resolution of the other, two panels, one of
  each failing at times, movement up to 2, at most 2 units lost, one removal, unit of growth 1.

Fairness: a caller waits for each pointer again and again (weak) and reads when it was
told, and devices do not fail for ever (strong). The model takes a device's event as one
that can be checked. TouchDxe creates its own as a notify-signal event, for which
`CheckEvent` fails, so over that driver the wait of the splitter does not end.

### GfxConsole and Terminal

`Terminal` is a window of cells, a cursor and an attribute, written character by
character. `GfxConsole` draws runs of characters, wraps, scrolls, and calls itself
for spaces and line ends. `ink` is the set of places that are inverted; `FlushCursor`
toggles one. The refinement forgets `ink`, the line buffer and the graphics mode
(`TerminalSpec`, proved as `ConsoleIsTerminal`), and `CursorDrawnOnce` says what `ink` is. `spoiled` is history.

* Run `gfx_console`: eight strings with line ends, backspaces at the origin, wide
  characters at the last column and one without a glyph; text modes 2 x 1, 4 x 3 and
  4 x 2 on screens of 3 x 2 and 4 x 2 cells, so that lines wrap and scroll at once and some modes do
  not fit; two attributes, one of them black.

`ConsoleStillValid` does not hold (`GraphicsConsole.c:1309`): the old line buffer has been freed.

The loop over a string is a recursive function of its turns: a character takes one turn, or
two where only half of it fits into the row, so twice the length of the string is enough.

ConSplitterDxe and GraphicsConsoleDxe of the tree are not what the platform builds:
its description names the drivers of MdeModulePkg, with the two of the tree commented out.
Two closing braces are missing in `GraphicsConsole.c` (in
`GraphicsConsoleControllerDriverSupported` and in the error path of Start); the model is of the file
with the braces where the indentation has them.

### Modem, CoreClock and ClockDxe

`Modem` is `msm_proc_comm` with one action per word read or written; `app` is the words,
`work` what the modem has taken, `call` the calls of the main program and of a timer callback,
which suspends the main program wherever it is and until it returns (`Runs`). `crossed` marks a call another one was
made within. The modem may answer in other words than it was asked (`Garbage`), as a question for
a clock's rate is (`pcom.c:150`), whatever the request and whether it did what
was asked or failed in a way other than `PCOM_CMD_FAIL`; `msm_proc_comm` then writes these words over the arguments. `CoreClock` is the accesses of `acpuclock.c` to the registers of the core's clock,
as sequences of steps. `ClockDxe` runs programs of calls and accesses (`todo`), one
at a time per context: `ClkEnable`, `ClkDisable`, `ClkSetRate`, `acpuclk_init`, the clients of
the modem, the reset.

* Run `clocks`: the start of the driver and two programs, one of which may be a callback;
  two clocks (one in the table, one not), two rates, two SD card instances (one valid), a boot from
  the raw source. Two programs show every pair, and a callback in the midst of each. One other
  word is enough to tell an argument that was replaced.

`TableKept` and `RailSet` name what can go wrong, each of which TLC reaches. An entry of the table of clocks is itself
the argument, so that a request for this clock answered with another first word, or
crossed by the callback, renames it (`renamed`). The regulator is not set as asked
when a request for it is answered in other words, which become the arguments of the
repetition; when it is crossed; or when the loop, which reads `APP_STATUS` again after the call
returned, finds there the success of a callback's call (`disturbed`). The code guards against none of these; the
properties say that nothing else does any harm, a callback before, after or
between the repetitions included, and plain failures in any number.

Fairness: the modem comes up, takes and answers, and the callback goes on (weak); the main
program's call goes on though callbacks interrupt it (strong). Deadlock is not checked, as the code
stops: a crossed call waits for ever, `acpuclk_find_speed` spins on the raw source,
`CpuDeadLoop` follows a reset. Hence `CallEnds` excepts crossed calls.

Nothing calls `acpuclk_set_rate` after start-up; the ramp is modelled for every pair of speeds.
A comment there speaks of 768 MHz, the index it uses is 998.4 MHz.

## 3. Proofs

All are checked by TLAPS for every value of the constants under the named
assumptions.

| theorem | states | argument |
|---|---|---|
| `Keypad_proofs!RingTypeCorrect` | indices stay in the buffer | `QueueTypeOK` is inductive; `(i+1) % Size` is a slot |
| `Keypad_proofs!RingIsFifo` | `QueueSpec => IsFifo` | lemmas on `Contents` after a push (with and without room), a pop and a run of pops; `QueueTypeOK` is the invariant needed |
| `Keypad_proofs!ScanTypeCorrect` | types | case analysis of `Updated`, once, in `Transitions` |
| `Keypad_proofs!ScanInductive` | `ScanInv` | ties `press` to the context's state, and `bits` to `held` up to the key being scanned |
| `Keypad_proofs!DialOnce`, `PressesHeard`, `CombosHeld` | the three safety properties | from `ScanInv`; the shared bit is harmless for early keys as only Dial can set it before they are read |
| `Keypad_proofs!NoLostWakeup` | `NotifyPending` | inductive as it stands; the handler leaves only with an empty queue |
| `Keypad_proofs!NoDoubleRegistration` | `RegisteredOnce` | strengthened to all positions of the list |
| `Keypad_proofs!NotifiedBeforeQuiet` | `NotifiedFirst` | `OwedInv`, and `NotifyPending`; see below |
| `Pins_proofs!PinsInductive` | `PinInv` | a lemma for each kind of step; `SetCharger` and `gpio_set` as lemmas about a register |
| `Pins_proofs!ChargerIsFollowed`, `ResetLineSticks`, `LedNotForgotten`, `HandedOverOff` | `ChargerFollows`, `SetSticks`, `LitHasTimer`, `ExitLeavesOff` | from `PinInv` |
| `SdCard_proofs!ErrorsStop`, `CleanVerdicts` | `FailStop`, `CleanVerdictExact` | from `IInv`, which says what the flags seen and still due have to do with the block under way |
| `SdCard_proofs!FirstBlocksMoved`, `SdTypeCorrect` | `PrefixMoved`, `TypeOK` | `MovedInv`, with the invariant above for the places; see below |
| `Pins_proofs!TouchInductive`, `TicksTold`, `EdgesKept` | `IInv`, `TickTold`, `NoLostEdge` | one lemma per place of the interrupt stack; see below |
| `Pins_proofs!MovementTold` | `MovementAddsUp` | a second invariant, of the reports and the last position only |
| `I2CBus_proofs!Inductive`, `VerdictIsExact` | `IInv`, `CalmVerdictExact` | the handler as one of eight outcomes (`ServeCases`), then one lemma per step; see below |
| `I2CBus_proofs!NothingDangles`, `StaysInBuffer` | `NoDanglingMsg`, `BufferInBounds` | from `IInv` (`DevInv`, and `OwnInv` for a direct call that goes on); no run checks the second, which only the proof states |
| `ConIn_proofs!ToldEverywhere`, `LocksAgree`, `SignalMeansKey` | `NotifyEverywhere`, `TogglesAgree`, `SignalHonest` | one lemma per entry point; see below |
| `ConIn_proofs!NoKeyIsLost` | `KeysAccounted` | `Counted`, with the invariant above: per keyboard, the keys owed are those queued and those still to be read, in order |
| `Console_proofs!MovementIsKept` | `MovementKept` | `PointerInv`: the movement callers were not told of is the sum over the listed mice, and what failing reads lost; see below |
| `Console_proofs!ConsoleIsTerminal` | `Spec => TerminalSpec` | `Typing`: a run of the loop shows and moves what its characters do one by one; see below |
| `Console_proofs!CursorIsDrawnOnce` | `CursorDrawnOnce` | `GfxInv`, and a lemma for each operation on the screen, nested calls included; see below |
| `ConOut_proofs!TablesInductive` | `ConOutInv` | `Sound` of both splitters, kept by each loop over the rows and by each entry point; see below |
| `ConOut_proofs!ModesAreFaithful`, `SharedConsoleAgrees`, `StartBringsInStep` | `MapFaithful`, `FirstSharedAgree`, `StartSyncs` | from `ConOutInv` |
| `ClockDxe_proofs!OwnAnswers` | `OwnAnswer` | `WordsInv`: who uses the words, and what is in them at each statement; see below |
| `ClockDxe_proofs!TableStaysKept`, `RailIsSet`, `CoreStaysSafe` | `TableKept`, `RailSet`, `CoreSafe` | `TableInv`, `RailInv` and `CoreInv`, each with `WordsInv`: what the rest of a program still does |

In `Keypad` each call that is owed must stay within reach: `OwedInv` says that its stroke is in the
queue, or is the handler's and then its entry stands *behind* the handler's position in the
list. Registering appends, a function cannot remove the entry it was called from, and a full queue drops
with a stroke what is owed for it; so the handler, going on in the list, skips nobody. When the
application goes on, no wake-up is left, hence by `NotifyPending` no stroke, hence no owed call.

In `GpioPins` the properties are inductive only together: `ExitLeavesOff` needs
`ChargerFollows` where the charger is off already, and all need that the callback only
writes the LED's pin (`Callers`). `TypeOK` bounds the events alive by the
presses seen, for which `Callers` counts the armed one as well.

`ScanInv` is needed because `DialPostsOnce` says nothing about a press that is
under way: the invariant says how many events a press has posted in each state of
its context.

In `SdCard` an error must be carried from the check that finds it to the return of its
block (`Kept`), and the flags of a clean block are its own as long as those
due have not arrived (`Own`); `FailStop` and `CleanVerdictExact` follow at the return.
`MovedInv` says that the blocks a job has moved are those before its `lba` (`InOrder`) and that
driver and card agree on the way of addressing wherever a block can be under way (`Addressed`):
a card of high capacity that CMD8 did not reach waits for its power up and gets no further.

In `TouchIrq`, `NoLostEdge` is kept by `Raised`: a line that is high is pending, or
somewhere on the stack is a handler that will look at it. A step of the innermost handler
must not take that witness away for an outer one, so the stack has lemmas of its own (push,
pop, go on). `TickTold` needs that the source of the timer is not taken before the period is
recorded: the processor is masked until then (`Timed`).

In `I2CBus`, `CalmVerdictExact` speaks of an attempt left alone, but holds only if those before it
left nothing behind. `CutsInv` says that the interrupt is on at the innermost attempt exactly
when nobody preempted it, `StillInv` that it then begins on a silent bus. `Going` counts the
bytes: those moved and the one on the bus are those before the position, and as long as some are
missing either the bus moves or an interrupt is due; `Failed` is the other way to go on. `OwnInv` says whose
transfer a direct call finds when it goes on after its check, and `Losing` what `LostUses` may
leave behind on the bus; `RestInv` that no retry begins on it. The hard case
is a read whose level was preempted: it may be left on the bus with nobody to serve it
(`Loose`). That no attempt begins beside one needs that only the lowest level's calls begin with a
read (`CallsInv`), and that a level is preempted at one place per attempt, an assumption of
the model: its attempt takes a few ms, the callback comes every 100 ms. The timeout, which is not
cleared with the rest of `dev`, is cleared by the end of the last message (`Judged`).

In `ConIn`, `TogglesAgree` is not inductive, since a keyboard with a toggle still to be
heard may be in any state: `InStep` says that such a keyboard has the state of the *last* toggle
it has to report, which becomes everybody's when it is heard. It needs `Told`, for a toggle by
hand is only reported because the splitter's own notification is registered. `Told` in
turn needs that handle *i* of a notification is of keyboard *i* as long as none was
removed. Least elements and removals from lists are lemmas (`MinIsLeast`, `Removal`).

In `ClockDxe` four invariants are proved, one after the other. `WordsInv` follows a call
through the words: for each statement it says what is written already, who has the request (the
words, the modem, or the answer) and that nobody else does, as long as the call has not crossed. A
callback's call is served alone unless the main program was waiting, when the modem may
still answer the old one. `TableInv` follows an answer in other words from the modem to the entry it renames: a
request for a clock whose answer differs is `Recorded`, and so is one that is crossed, so
that an entry which is not gets its own value back.
`RailInv` ties what was asked of the regulator to what is *still to do*: a call in the rest of
the program, or one whose success has been seen. `RailWords` says for every request of the
regulator, in the words or in a call, that it was answered in its own (`Echoed`) as long as nothing is `disturbed`. `CoreInv` is a statement about the rest of
the main program alone (`CoreGoes`): the PLL is touched only after the core is off it and never
after it is on it (`OffFirst`, `OnLast`), the core is put on the PLL only after a wait for it
(`SettledFirst`), on a slot only after it is configured (`ConfiguredFirst`), and speed, source and L
value end at one entry of the table (`LeadsTo`). An operation done takes the head off such a
program and leaves one of the same kind; the programs that are started are examined once each.

Five of these proofs follow data through a list: the keys of one keyboard in a queue
(`KeysIn`), the sum over the mice (`Sum`), the turns of a loop (`Written`), the characters typed (`Typed`), the rows of a table
(`RowsKept`, `Rebuilt`). Each is a recursive function in the model. That the function exists is
proved from its beginning on, and what it
gives by induction over the length; a set of numbers with 0 and closed under successor is all of
them because `Nat` is well founded, so that no theorem with an operator as parameter is needed.

In the pointers, a mouse is read, goes, comes or is reset, and the sum over the list changes by what
that mouse had moved (`TakenFromSum`, `AddedToSum`, `ComesWithNothing`, `GoesWithNothing`).
This needs that a mouse is listed once (`Lists`) and that only listed mice that signal have
moved (`Moves`), as a read skips all others.

In `GfxConsole`, `On` and `Off` say that the cursor is all that is inverted, or nothing. A nested
call that writes a line break finds the cursor on and leaves it on; the caller, which has
it off, calls `FlushCursor` on either side. A nested blank over a character, called with
the cursor off, draws one first and covers it. The blank for half of a wide character leaves the
cursor on in column 0, and it is the rest of the loop that covers it: `Turning` says that the loop
has the cursor off, or a wide character ahead that fits (`Ahead`), and bounds the turns to go. The
state's invariant has to know the window too (`Open`, `Inside`): a cursor outside of
it would be covered by nothing.

`ConsoleIsTerminal` compares two folds over one string, of characters and of turns of the loop. `Typing`
relates them: after each turn the screen shows what the terminal shows after the characters written so
far, or is in column 0 after the blank for half of a wide character, where the next `Put` finds
the terminal as well. That a run is its characters one by one (`RunTyped`) is an induction over its
length (`Following`), whose step is that drawing one character more is drawing them all (`Drawn`).

In `ConOut`, `MapFaithful` speaks of the modes offered now; that a step keeps it needs `Sound`:
each row names for each console a mode of the row's size, the first two rows are modes
0 and 1, only mode 1 may lack a console, and nothing is kept in the columns of consoles to come, which
the next console reads before it writes. `RowsStay` says, by induction over
the rows, that what the cut collects are rows as they were, in their order, and `CutRows`
that compacting them loses none; `GrownMap` that the old step is used to read the old table.
`FirstSharedAgree` compares two tables that were cut apart: `CutAlike` shows that the same
console leaves the same sizes in both, for which a later mode must not have the size
of mode 0 or 1 (`RowSizes`); this is what `ModesAssumption` is for. `StartSyncs` needs that the mode
recorded is out of reach while a console is added (`Longer`): it is 0xFF, so `SetMode` skips
no console, and where the wanted mode is refused, mode 0 is taken by all (`BaseTaken`).

Only model-checked: liveness (`CallReturns`, `HeldKeyRepeats`, `NotifyDelivered`,
`CleanReturns`, `LitGoesOff`, `PollsKeepUp`, `PointersHeard`, `CallEnds`), which the prover does
not handle under fairness.

## 4. What is left

The values DS2746 composes from failed or torn reads, and the charger state they lead to.

### Not modelled

* Start-up code that runs once with interrupts off (PrePi, PeiUniCore, BootShim, memory maps).
* The partition table and shared memory: lookups in tables that never change.
* The boot manager, the menu and the hand-over to a kernel: a loop of one actor, then a jump.
* `ClkGetRate` (`ClockDxe.c:228`) and `clock_config`, which nothing calls.
* Debug output, SMBIOS tables, logo, component names, glyph bitmaps, the example game.
* Within modelled drivers: encodings of registers, pin and clock set-up of the SD and I2C
  controllers, the data mover (not built), UGA (not built), the Y and Z axes of
  pointers, allocation failures except where named.
