------------------------------ MODULE Pointers -------------------------------
(***************************************************************************)
(* The pointers of ConSplitterDxe: mConIn gives the caller one simple       *)
(* pointer for the mice, and one absolute pointer for the panels, that come *)
(* and go below it.                                                        *)
(*                                                                         *)
(* Of the state of a pointer only the horizontal movement is kept, the     *)
(* other axes being treated alike and buttons and positions not being      *)
(* remembered by the splitter.  The devices are not part of it: they       *)
(* signal an event while they have something new, which a read takes away, *)
(* and their calls may fail.  Memory for the lists is never short.         *)
(***************************************************************************)
EXTENDS Integers, Sequences, SequencesExt, FiniteSets, FiniteSetsExt

CONSTANTS
  Mice,          (* Devices with the simple pointer protocol.              *)
  Panels,        (* Devices with the absolute pointer protocol.            *)
  Flaky,         (* Devices whose calls may fail.                          *)
  Virtual,       (* SimplePointerMode.ResolutionX, 0x10000 in the code.    *)
  Resolution,    (* Mode->ResolutionX of each mouse, or 0.                 *)
  Unit,          (* CONSOLE_SPLITTER_ALLOC_UNIT, 32 in the code.           *)
  MaxMove,       (* Bound on the movement a mouse gathers.                 *)
  MaxLost,       (* Bound on the movement lost to reads that fail.         *)
  MaxStops       (* Bound on the devices that are removed.                 *)

Devices == Mice \cup Panels

ASSUME PointersAssumption ==
  /\ Mice \cap Panels = {} /\ Flaky \subseteq Devices
  /\ Virtual \in Nat /\ Resolution \in [Mice -> Nat]
  /\ Unit \in Nat \ {0} /\ MaxMove \in Nat /\ MaxLost \in Nat /\ MaxStops \in Nat

VARIABLES
  list,          (* PointerList and AbsolutePointerList, by Kinds.         *)
  count,         (* PointerListCount and AbsolutePointerListCount.         *)
  signalled,     (* InputEventSignalState, AbsoluteInputEventSignalState.  *)
  fresh,         (* The devices that have something new.                   *)
  unread,        (* What each mouse has moved since it was read.           *)
  due,           (* History: the movement that callers were not told of,   *)
                 (* in the units of the virtual pointer.                   *)
  lost,          (* History: the part of it that reads took from the mice  *)
                 (* although they returned an error to the caller.         *)
  stops          (* History: how many devices have been removed.           *)

pointerVars == <<list, count, signalled, fresh, unread, due, lost, stops>>

Simple == "simple"
Absolute == "absolute"
Kinds == {Simple, Absolute}
KindOf(d) == IF d \in Mice THEN Simple ELSE Absolute
-----------------------------------------------------------------------------
(* A movement in virtual units; division truncates towards 0.  What it cuts *)
(* off at a read, less than a unit for each mouse, is gone from the mouse   *)
(* and in no account here.                                                  *)
Scaled(d, m) ==
  IF m = 0 \/ Resolution[d] = 0 THEN 0
  ELSE IF m > 0 THEN (m * Virtual) \div Resolution[d]
  ELSE -((-m * Virtual) \div Resolution[d])

(* The sum of a sequence of numbers.                                       *)
Sum(terms) ==
  LET upTo[i \in 0 .. Len(terms)] == IF i = 0 THEN 0 ELSE upTo[i - 1] + terms[i]
  IN upTo[Len(terms)]

(* What each mouse of the list adds to a sum over those of S.              *)
Terms(S) ==
  [i \in 1 .. Len(list[Simple]) |->
     LET d == list[Simple][i] IN IF d \in S THEN Scaled(d, unread[d]) ELSE 0]

(* Mutant: the movement of the last mouse replaces that of the others.     *)
OfLastMouse(S) ==
  LET new == {i \in 1 .. Len(list[Simple]) : list[Simple][i] \in S \cap fresh}
  IN IF new = {} THEN 0 ELSE Terms(S)[Max(new)]

(* State->RelativeMovementX after the loop over the mice, of which those   *)
(* of S answer; one that has nothing new says so without a movement.       *)
Movement(S) == Sum(Terms(S \cap fresh))

(* The movement callers are not told of when the mice of S are taken away. *)
Forgotten(S) == Sum(Terms(S))

(* What a read or a reset leaves in the devices of S.                      *)
Taken(S) == /\ fresh' = fresh \ S
            /\ unread' = [d \in Mice |-> IF d \in S THEN 0 ELSE unread[d]]
-----------------------------------------------------------------------------
(* The part of ConSplitterTextInConstructor that is about pointers.        *)
PointerInit ==
  /\ list = [k \in Kinds |-> <<>>] /\ count = [k \in Kinds |-> Unit]
  /\ signalled = [k \in Kinds |-> FALSE]
  /\ fresh = {} /\ unread = [d \in Mice |-> 0]
  /\ due = 0 /\ lost = 0 /\ stops = 0

(* Mouse d moves, or a button of it changes when m is 0.                   *)
Move(d, m) ==
  /\ d \in ToSet(list[Simple]) /\ unread[d] + m \in -MaxMove .. MaxMove
  /\ unread' = [unread EXCEPT ![d] = @ + m]
  /\ due' = due + Scaled(d, unread[d] + m) - Scaled(d, unread[d])
  /\ fresh' = fresh \cup {d}
  /\ UNCHANGED <<list, count, signalled, lost, stops>>

(* Panel d is touched or let go.                                           *)
Touch(d) ==
  /\ d \in ToSet(list[Absolute]) /\ fresh' = fresh \cup {d}
  /\ UNCHANGED <<list, count, signalled, unread, due, lost, stops>>

(* ConSplitterSupported: the device can be opened BY_DRIVER.               *)
IsNew(d) == d \notin ToSet(list[KindOf(d)])

(* What the two AddDevice functions do to their list.                      *)
Added(d, k) ==
  /\ count' = [count EXCEPT ![k] = IF Len(list[k]) >= @ THEN @ + Unit ELSE @]
  /\ list' = [list EXCEPT ![k] = Append(@, d)]

(* ConSplitterSimplePointerAddDevice, ConSplitterAbsolutePointerAddDevice. *)
SimplePointerAddDevice(d) == Added(d, Simple)
AbsolutePointerAddDevice(d) == Added(d, Absolute)

(* The Start of the two driver bindings, with ConSplitterStart.            *)
SimplePointerStart(d) ==
  /\ IsNew(d) /\ SimplePointerAddDevice(d)
  /\ UNCHANGED <<signalled, fresh, unread, due, lost, stops>>

AbsolutePointerStart(d) ==
  /\ IsNew(d) /\ AbsolutePointerAddDevice(d)
  /\ UNCHANGED <<signalled, fresh, unread, due, lost, stops>>

(* The two DeleteDevice functions: the list is closed up.                  *)
Removed(d, k) == list' = [list EXCEPT ![k] = RemoveFirst(@, d)]
SimplePointerDeleteDevice(d) == Removed(d, Simple)
AbsolutePointerDeleteDevice(d) == Removed(d, Absolute)

(* A device is unplugged, with what it has to tell.                        *)
Unplug(d) ==
  /\ stops < MaxStops /\ stops' = stops + 1
  /\ Taken({d}) /\ due' = due - Forgotten({d})

(* The Stop of the two driver bindings, with ConSplitterStop.              *)
SimplePointerStop(d) ==
  /\ d \in ToSet(list[Simple]) /\ SimplePointerDeleteDevice(d)
  /\ Unplug(d) /\ UNCHANGED <<count, signalled, lost>>

AbsolutePointerStop(d) ==
  /\ d \in ToSet(list[Absolute]) /\ AbsolutePointerDeleteDevice(d)
  /\ Unplug(d) /\ UNCHANGED <<count, signalled, lost>>

(* All devices of a list but those that fail are reset.                    *)
ResetAll(k, bad) ==
  LET reset == ToSet(list[k]) \ bad
  IN /\ signalled' = [signalled EXCEPT ![k] = FALSE]
     /\ Taken(reset) /\ due' = due - Forgotten(reset)
     /\ UNCHANGED <<list, count, lost, stops>>

(* ConSplitterSimplePointerReset, ConSplitterAbsolutePointerReset.         *)
SimplePointerReset(bad) == ResetAll(Simple, bad)
AbsolutePointerReset(bad) == ResetAll(Absolute, bad)

(* ConSplitterSimplePointerPrivateGetState: all mice are read, those after *)
(* one that fails too.  With one that fails the call returns                *)
(* EFI_DEVICE_ERROR, and the caller has no movement although the others     *)
(* have given theirs away.                                                  *)
PrivateGetState(bad) ==
  LET read == ToSet(list[Simple]) \ bad
      success == bad \cap ToSet(list[Simple]) = {}
  IN /\ Taken(read)
     /\ \/ success /\ due' = due - Movement(read) /\ lost' = lost
        \/ ~success /\ due' = due /\ lost' = lost + Forgotten(read)
     /\ lost' \in -MaxLost .. MaxLost

(* ConSplitterSimplePointerGetState.                                       *)
SimplePointerGetState(bad) ==
  /\ signalled' = [signalled EXCEPT ![Simple] = FALSE]
  /\ PrivateGetState(bad)
  /\ UNCHANGED <<list, count, stops>>

(* ConSplitterAbsolutePointerGetState: all panels are read, the last that  *)
(* has something new being the one the caller is told of.                  *)
AbsolutePointerGetState(bad) ==
  /\ signalled' = [signalled EXCEPT ![Absolute] = FALSE]
  /\ Taken(ToSet(list[Absolute]) \ bad)
  /\ UNCHANGED <<list, count, due, lost, stops>>

(* Mutant: the last device of the list is not asked.                       *)
AnyButLast(k) == \E i \in 1 .. Len(list[k]) - 1 : list[k][i] \in fresh

(* A device of the list signals its event.                                 *)
AnySignals(k) == \E d \in ToSet(list[k]) : d \in fresh

(* A caller waits for an event of the splitter.                            *)
Wait(k) ==
  /\ signalled' = [signalled EXCEPT ![k] = @ \/ AnySignals(k)]
  /\ UNCHANGED <<list, count, fresh, unread, due, lost, stops>>

(* ConSplitterSimplePointerWaitForInput, and the absolute pointer's.       *)
SimplePointerWaitForInput == Wait(Simple)
AbsolutePointerWaitForInput == Wait(Absolute)
-----------------------------------------------------------------------------
PointerNext ==
  \/ \E d \in Mice :
       \/ \E m \in -1 .. 1 : Move(d, m)
       \/ SimplePointerStart(d)
       \/ SimplePointerStop(d)
  \/ \E d \in Panels : Touch(d) \/ AbsolutePointerStart(d) \/ AbsolutePointerStop(d)
  \/ \E bad \in SUBSET Flaky :
       \/ SimplePointerReset(bad) \/ SimplePointerGetState(bad)
       \/ AbsolutePointerReset(bad) \/ AbsolutePointerGetState(bad)
  \/ SimplePointerWaitForInput
  \/ AbsolutePointerWaitForInput

(* A caller waits for each of the two pointers again and again, and reads  *)
(* it when it was told to; the calls of a device do not fail for ever.     *)
PointerFairness ==
  /\ WF_pointerVars(SimplePointerWaitForInput)
  /\ WF_pointerVars(AbsolutePointerWaitForInput)
  /\ SF_pointerVars(signalled[Simple] /\ SimplePointerGetState({}))
  /\ SF_pointerVars(signalled[Absolute] /\ AbsolutePointerGetState({}))

PointerSpec == PointerInit /\ [][PointerNext]_pointerVars /\ PointerFairness
-----------------------------------------------------------------------------
(* Whatever mice come and go, fail, or are reset, in any order with the    *)
(* reads, what callers were not told of the movement of the mice still     *)
(* waits in them, or was taken by a read that returned EFI_DEVICE_ERROR:   *)
(* a read that succeeds loses nothing, and no read tells anything twice    *)
(* (ConSplitterSimplePointerPrivateGetState).                              *)
MovementKept ==
  /\ due = Forgotten(ToSet(list[Simple])) + lost
  /\ \A k \in Kinds : Len(list[k]) <= count[k]

(* What any listed device has to tell is read in the end by a caller that  *)
(* waits for the splitter's event before each read, although devices fail  *)
(* and others come and go (ConSplitterAbsolutePointerWaitForInput).        *)
PointersHeard ==
  \A d \in Devices : d \in fresh ~> d \notin fresh
=============================================================================
