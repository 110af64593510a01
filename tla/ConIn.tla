------------------------------- MODULE ConIn --------------------------------
(***************************************************************************)
(* The keyboard half of ConSplitterDxe: the virtual console mConIn over     *)
(* the physical keyboards that come and go.  It merges their keys, keeps    *)
(* their toggle state (caps lock) the same, and registers every             *)
(* notification with each of them.                                          *)
(*                                                                         *)
(* A keyboard works by itself between the calls: keys arrive, locks are     *)
(* toggled by hand, and the notifications of toggles are delivered late.    *)
(* Its calls may fail.  PcdConInConnectOnDemand is unset on this platform.  *)
(***************************************************************************)
EXTENDS Integers, Sequences, SequencesExt, FiniteSets, FiniteSetsExt

CONSTANTS
  Devs,          (* Keyboards.                                             *)
  ExDevs,        (* Those that have the extended protocol too.             *)
  Callers,       (* Notifications that callers register.                   *)
  Locks,         (* Toggle states, all of them valid.                      *)
  Off,           (* The one without a lock.                                *)
  Unit,          (* CONSOLE_SPLITTER_ALLOC_UNIT, 32 in the code.           *)
  MaxStops,      (* Bound on the keyboards that are removed.               *)
  MaxPend,       (* Bound on the keys, and toggles, waiting in a keyboard. *)
  Flaky          (* Keyboards whose calls may fail.                        *)

Invalid == "invalid"

ASSUME ConInAssumption ==
  /\ ExDevs \subseteq Devs /\ Flaky \subseteq Devs /\ Off \in Locks /\ Invalid \notin Locks
  /\ Unit \in Nat \ {0} /\ MaxPend \in Nat /\ MaxStops \in Nat

VARIABLES
  textIn,        (* TextInList.                                            *)
  ex,            (* TextInExList.                                          *)
  cap,           (* TextInExListCount.                                     *)
  queue,         (* KeyQueue, of pairs of a keyboard and its key.          *)
  signalled,     (* KeyEventSignalState.                                   *)
  exported,      (* VirtualKeyStateExported.                               *)
  physical,      (* PhysicalKeyToggleState, or Invalid.                    *)
  notify,        (* NotifyList, of notifications.                          *)
  handles,       (* Of those of callers, their NotifyHandleList, a handle  *)
                 (* being the keyboard it was given by.                    *)
  dev,           (* The keyboards.                                         *)
  owed,          (* History: the keys of each that a caller may expect.    *)
  torn,          (* History: some keyboard did not take the toggle state.  *)
  stops          (* History: how many keyboards have been removed.         *)

splitter == <<textIn, ex, cap, queue, signalled, exported, physical, notify, handles>>
history == <<owed, torn, stops>>
vars == <<splitter, dev, history>>

(* The notification of ToggleStateSyncKeyNotify.                           *)
Sync == "sync"
None == "none"
Partial == 0        (* SCAN_NULL with CHAR_NULL.                           *)
Numbers == 1 .. MaxPend + 1      (* Enough to tell the keys of one apart. *)
Reports == {Partial} \cup Numbers

(* The members of s that are in S, in their order.                         *)
Kept(s, S) ==
  LET upTo[i \in 0 .. Len(s)] ==
        IF i = 0 THEN <<>> ELSE IF s[i] \in S THEN Append(upTo[i - 1], s[i]) ELSE upTo[i - 1]
  IN upTo[Len(s)]
-----------------------------------------------------------------------------
(* The physical keyboards.                                                 *)

(* A keyboard as it is plugged in.                                         *)
Plugged == [reg |-> {}, toggle |-> Off, exposed |-> FALSE, pend |-> <<>>, notes |-> <<>>]

(* Its full keys.                                                          *)
FullKeys(D, d) == Kept(D[d].pend, Numbers)

(* SetState: an invalid state is refused.                                  *)
SetStateOf(D, d, state, bad) ==
  IF state = Invalid \/ d \in bad THEN D
  ELSE [D EXCEPT ![d].toggle = state, ![d].exposed = TRUE]

Refuses(d, state, bad) == state = Invalid \/ d \in bad

SetStateOfAll(D, list, state, bad) ==
  [d \in Devs |-> IF d \in ToSet(list) THEN SetStateOf(D, d, state, bad)[d] ELSE D[d]]

(* Reset: nothing waits any more, and partial keys are not reported.       *)
ResetOfAll(D, list, bad) ==
  [d \in Devs |-> IF d \in ToSet(list) \ bad
                  THEN [D[d] EXCEPT !.pend = <<>>, !.notes = <<>>, !.exposed = FALSE]
                  ELSE D[d]]

(* The keys that a read of keyboard d leaves out, up to the first full one; *)
(* 0 when there is none.                                                   *)
FullAt(D, d) ==
  LET full == {i \in 1 .. Len(D[d].pend) : D[d].pend[i] # Partial}
  IN IF full = {} THEN 0 ELSE Min(full)

(* The number of the next key differs from those still owed.               *)
NextKey(d) == IF owed[d] = <<>> THEN 1 ELSE 1 + (Last(owed[d]) % Max(Numbers))

(* A key arrives in a managed keyboard.                                    *)
Press(d) ==
  /\ d \in ToSet(textIn)
  /\ Len(dev[d].pend) < MaxPend
  /\ dev' = [dev EXCEPT ![d].pend = Append(@, NextKey(d))]
  /\ owed' = [owed EXCEPT ![d] = Append(@, NextKey(d))]
  /\ UNCHANGED <<splitter, torn, stops>>

(* A lock of a managed keyboard is toggled by hand; the keyboard reports it *)
(* if it shall.                                                            *)
Toggle(d, t) ==
  /\ d \in ToSet(textIn) /\ t # dev[d].toggle
  /\ IF dev[d].exposed
     THEN /\ Len(dev[d].pend) < MaxPend /\ Len(dev[d].notes) < MaxPend
          /\ dev' = [dev EXCEPT ![d].toggle = t, ![d].pend = Append(@, Partial),
                                ![d].notes = IF Sync \in dev[d].reg THEN Append(@, t) ELSE @]
     ELSE dev' = [dev EXCEPT ![d].toggle = t]
  /\ UNCHANGED <<splitter, history>>
-----------------------------------------------------------------------------
(* ToggleStateSyncKeyNotify, called for the oldest toggle of keyboard d.   *)
ToggleStateSyncKeyNotify(d) ==
  /\ dev[d].notes # <<>>
  /\ LET t == Head(dev[d].notes)
         D == [dev EXCEPT ![d].notes = Tail(@)]
     IN \/ t = physical /\ dev' = D /\ UNCHANGED <<physical, torn>>
        \/ \E bad \in SUBSET Flaky :
             /\ t # physical
             /\ dev' = SetStateOfAll(D, ex, t, bad) /\ physical' = t
             /\ torn' = (bad \cap ToSet(ex) # {})
  /\ UNCHANGED <<textIn, ex, cap, queue, signalled, exported, notify, handles, owed, stops>>

ToggleStateSyncInitialization ==
  exported = FALSE /\ physical = Off /\ notify = <<Sync>>

(* ConSplitterTextInConstructor.                                           *)
Init ==
  /\ textIn = <<>> /\ ex = <<>> /\ cap = Unit /\ queue = <<>>
  /\ signalled = FALSE
  /\ ToggleStateSyncInitialization
  /\ handles = <<>>
  /\ dev = [d \in Devs |-> Plugged]
  /\ owed = [d \in Devs |-> <<>>]
  /\ torn = FALSE /\ stops = 0

(* The first of the notifications that keyboard d cannot take, or none;    *)
(* one it has already is given the handle it had.                          *)
FirstRefused(list, d, bad) ==
  LET refused == {i \in 1 .. Len(list) : d \in bad /\ list[i] \notin dev[d].reg}
  IN IF refused = {} THEN 0 ELSE Min(refused)

(* ConSplitterTextInExAddDevice: with one notification refused, those      *)
(* before it are withdrawn and the keyboard is not added.                  *)
Registered(d, bad) ==
  LET f == FirstRefused(notify, d, bad)
  IN IF f = 0 THEN dev[d].reg \cup ToSet(notify)
     ELSE dev[d].reg \ {notify[i] : i \in 1 .. f - 1}

(* Mutant: a new keyboard keeps its own toggle state.                      *)
Unsynced(D, d, deaf) == D

(* The toggle state given to a new keyboard.                               *)
Synced(D, d, deaf) == SetStateOf(D, d, physical, deaf)

TextInExAddDevice(d, bad, deaf) ==
  LET grown == IF Len(ex) < cap THEN cap ELSE cap + Unit
      added == FirstRefused(notify, d, bad) = 0
      D == [dev EXCEPT ![d].reg = Registered(d, bad)]
  IN /\ cap' = grown
     /\ handles' = [n \in DOMAIN handles |-> [i \in 1 .. grown |->
                      IF i = Len(ex) + 1 /\ added THEN d
                      ELSE IF i \in DOMAIN handles[n] THEN handles[n][i] ELSE None]]
     /\ ex' = IF added THEN Append(ex, d) ELSE ex
     /\ dev' = IF added THEN Synced(D, d, deaf) ELSE D
     /\ torn' = (torn \/ (added /\ Refuses(d, physical, deaf)))

(* ConSplitterTextInAddDevice.                                             *)
TextInAddDevice(d) == textIn' = Append(textIn, d)

(* ConSplitterConInDriverBindingStart, of a keyboard that is not managed,  *)
(* with ConSplitterStart.                                                  *)
ConInStart(d, bad, deaf) ==
  /\ d \notin ToSet(textIn)
  /\ TextInAddDevice(d)
  /\ IF d \in ExDevs THEN TextInExAddDevice(d, bad, deaf)
                     ELSE UNCHANGED <<cap, handles, ex, dev, torn>>
  /\ UNCHANGED <<queue, signalled, exported, physical, notify, owed, stops>>

(* ConSplitterTextInDeleteDevice.                                          *)
TextInDeleteDevice(d) == textIn' = RemoveFirst(textIn, d)

(* ConSplitterTextInExDeleteDevice: the list is closed up, the lists of    *)
(* handles are not.                                                        *)
TextInExDeleteDevice(d) ==
  /\ ex' = RemoveFirst(ex, d)
  /\ handles' = [n \in DOMAIN handles |-> [i \in 1 .. cap |->
                   IF i <= Len(ex') THEN handles[n][i] ELSE None]]

(* ConSplitterConInDriverBindingStop with ConSplitterStop, of a keyboard    *)
(* that is unplugged.  A keyboard that was not added to the extended list is *)
(* not removed from the other either.                                      *)
ConInStop(d) ==
  /\ d \in ToSet(textIn)
  /\ d \in ExDevs => d \in ToSet(ex)
  /\ TextInDeleteDevice(d)
  /\ TextInExDeleteDevice(d)
  /\ stops < MaxStops /\ stops' = stops + 1
  /\ dev' = [dev EXCEPT ![d] = Plugged]
  /\ owed' = [owed EXCEPT ![d] = SubSeq(@, 1, Len(@) - Len(FullKeys(dev, d)))]
  /\ UNCHANGED <<cap, queue, signalled, exported, physical, notify, torn>>
-----------------------------------------------------------------------------
(* Mutant: the flag stays, though the key is gone.                         *)
KeepSignal == UNCHANGED signalled

(* A read and a reset take KeyEventSignalState back.                       *)
ClearSignal == signalled' = FALSE

(* Mutant: a reset empties the queue even when a keyboard failed.          *)
AlwaysEmptied(worst) == <<>>

(* What a reset leaves in the queue.                                       *)
QueueAfterReset(worst) == IF worst THEN queue ELSE <<>>

(* The keys of d that a reset of the list takes no part in: those in the   *)
(* queue if some keyboard failed, and those in d if d did.                 *)
StillOwed(d, reset, worst) ==
  LET taken == Len(owed[d]) - Len(FullKeys(dev, d))
  IN (IF worst THEN SubSeq(owed[d], 1, taken) ELSE <<>>) \o
     (IF d \in reset THEN <<>> ELSE SubSeq(owed[d], taken + 1, Len(owed[d])))

ToggleStateSyncReInitialization(D, deaf) ==
  /\ physical' = Off /\ exported' = FALSE
  /\ dev' = SetStateOfAll(D, ex, Off, deaf)
  /\ torn' = (deaf \cap ToSet(ex) # {})

(* ConSplitterTextInResetEx; the toggle states are set anew only when all  *)
(* keyboards have been reset.                                              *)
Reset(list, bad, deaf) ==
  LET worst == bad \cap ToSet(list) # {}
      D == ResetOfAll(dev, list, bad)
  IN /\ ClearSignal
     /\ queue' = QueueAfterReset(worst)
     /\ owed' = [d \in Devs |-> StillOwed(d, ToSet(list) \ bad, worst)]
     /\ IF worst
        THEN dev' = D /\ torn' = TRUE /\ UNCHANGED <<exported, physical>>
        ELSE ToggleStateSyncReInitialization(D, deaf)
     /\ UNCHANGED <<textIn, ex, cap, notify, handles, stops>>

(* ConSplitterTextInReset: the same on the other list.                     *)
TextInReset(bad, deaf) == Reset(textIn, bad, deaf)

(* Key k of keyboard d is handed to a caller.                              *)
Returned(pair) ==
  [owed EXCEPT ![pair[1]] = IF pair[2] = Partial THEN @ ELSE Tail(@)]

(* ConSplitterTextInExDequeueKey, n times.                                 *)
Dequeued(q, n) == SubSeq(q, n + 1, Len(q))

(* ConSplitterTextInPrivateReadKeyStroke: the first full key of the queue, *)
(* the partial ones before it being dropped, or else the first that a      *)
(* keyboard gives, in the order of the list.                               *)
PrivateReadKeyStroke(bad) ==
  LET full == {i \in 1 .. Len(queue) : queue[i][2] # Partial}
      asked == Kept(textIn, Devs \ bad)
      givers == {i \in 1 .. Len(asked) : FullAt(dev, asked[i]) # 0}
      last == IF givers = {} THEN Len(asked) ELSE Min(givers)
      read == {asked[i] : i \in 1 .. last}
      Left(d) == IF FullAt(dev, d) = 0 THEN <<>>
                 ELSE SubSeq(dev[d].pend, FullAt(dev, d) + 1, Len(dev[d].pend))
  IN /\ IF full # {}
        THEN /\ queue' = Dequeued(queue, Min(full))
             /\ owed' = Returned(queue[Min(full)])
             /\ UNCHANGED dev
        ELSE /\ queue' = <<>>
             /\ dev' = [d \in Devs |-> IF d \in read THEN [dev[d] EXCEPT !.pend = Left(d)] ELSE dev[d]]
             /\ owed' = IF givers = {} THEN owed
                        ELSE Returned(<<asked[last], dev[asked[last]].pend[FullAt(dev, asked[last])]>>)
     /\ UNCHANGED <<textIn, ex, cap, exported, physical, notify, handles, torn, stops>>

(* ConSplitterTextInReadKeyStroke.                                         *)
ReadKeyStroke(bad) == ClearSignal /\ PrivateReadKeyStroke(bad)

(* One read of each keyboard: the partial keys are kept if they were asked *)
(* for.                                                                    *)
Collected(readers) ==
  Kept([i \in DOMAIN readers |-> <<readers[i], Head(dev[readers[i]].pend)>>],
       Devs \X IF exported THEN Reports ELSE Numbers)

(* ConSplitterTextInReadKeyStrokeEx: a key that waits in the queue, or     *)
(* else one of each keyboard, of which the first is returned.              *)
ReadKeyStrokeEx(bad) ==
  LET readers == Kept(ex, {d \in Devs \ bad : dev[d].pend # <<>>})
      got == IF queue # <<>> THEN queue ELSE Collected(readers)
  IN /\ ClearSignal
     /\ dev' = IF queue # <<>> THEN dev
               ELSE [d \in Devs |-> IF d \in ToSet(ex) \ bad /\ dev[d].pend # <<>>
                                    THEN [dev[d] EXCEPT !.pend = Tail(@)] ELSE dev[d]]
     /\ IF got = <<>> THEN UNCHANGED <<queue, owed>>
        ELSE queue' = Dequeued(got, 1) /\ owed' = Returned(Head(got))
     /\ UNCHANGED <<textIn, ex, cap, exported, physical, notify, handles, torn, stops>>

(* ConSplitterTextInWaitForKey, by which a caller waits: a keyboard        *)
(* signals when it has a full key.                                         *)
WaitForKey ==
  /\ signalled' = (signalled \/ \E d \in ToSet(textIn) : FullAt(dev, d) # 0)
  /\ UNCHANGED <<textIn, ex, cap, queue, exported, physical, notify, handles, dev, history>>

(* ConSplitterTextInSetState: the keyboards before the first that fails    *)
(* have taken the state, which is not recorded then.                       *)
SetState(state, expose, bad) ==
  LET f == {i \in 1 .. Len(ex) : Refuses(ex[i], state, bad)}
      took == IF f = {} THEN ex ELSE SubSeq(ex, 1, Min(f) - 1)
  IN /\ dev' = SetStateOfAll(dev, took, state, bad)
     /\ IF f = {} THEN physical' = state /\ exported' = expose /\ torn' = FALSE
        ELSE torn' = (torn \/ Min(f) > 1) /\ UNCHANGED <<physical, exported>>
     /\ UNCHANGED <<textIn, ex, cap, queue, signalled, notify, handles, owed, stops>>

(* Mutant: the keyboards before the one that failed keep the notification. *)
NotWithdrawn(n, bad) ==
  LET f == {i \in 1 .. Len(ex) : ex[i] \in bad /\ n \notin dev[ex[i]].reg}
  IN [d \in Devs |-> IF d \in {ex[i] : i \in 1 .. (IF f = {} THEN Len(ex) ELSE Min(f) - 1)}
                     THEN dev[d].reg \cup {n} ELSE dev[d].reg]

(* The registrations after RegisterKeyNotify of n: on all keyboards, or,   *)
(* when one fails, on none of those before it.                             *)
RegisteredOnAll(n, bad) ==
  LET f == {i \in 1 .. Len(ex) : ex[i] \in bad /\ n \notin dev[ex[i]].reg}
      before == {ex[i] : i \in 1 .. (IF f = {} THEN Len(ex) ELSE Min(f) - 1)}
  IN [d \in Devs |-> IF d \notin before THEN dev[d].reg
                     ELSE IF f = {} THEN dev[d].reg \cup {n} ELSE dev[d].reg \ {n}]

IsKeyRegistered(n) == n \in ToSet(notify)

(* ConSplitterTextInRegisterKeyNotify: one that is known is not registered *)
(* again.                                                                  *)
RegisterKeyNotify(n, bad) ==
  /\ ~IsKeyRegistered(n)
  /\ dev' = [d \in Devs |-> [dev[d] EXCEPT !.reg = RegisteredOnAll(n, bad)[d]]]
  /\ IF \A d \in ToSet(ex) : n \in RegisteredOnAll(n, bad)[d]
     THEN /\ notify' = Append(notify, n)
          /\ handles' = [m \in DOMAIN handles \cup {n} |->
                           IF m # n THEN handles[m]
                           ELSE [i \in 1 .. cap |-> IF i <= Len(ex) THEN ex[i] ELSE None]]
     ELSE UNCHANGED <<notify, handles>>
  /\ UNCHANGED <<textIn, ex, cap, queue, signalled, exported, physical, history>>

(* ConSplitterTextInUnregisterKeyNotify: keyboard i of the list is given   *)
(* handle i; it refuses the handle of another.                             *)
UnregisterKeyNotify(n) ==
  /\ n \in ToSet(notify) /\ n # Sync
  /\ dev' = [d \in Devs |->
               IF \E i \in 1 .. Len(ex) : ex[i] = d /\ handles[n][i] = d
               THEN [dev[d] EXCEPT !.reg = @ \ {n}] ELSE dev[d]]
  /\ notify' = RemoveFirst(notify, n)
  /\ handles' = [m \in DOMAIN handles \ {n} |-> handles[m]]
  /\ UNCHANGED <<textIn, ex, cap, queue, signalled, exported, physical, history>>
-----------------------------------------------------------------------------
Next ==
  \/ \E d \in Devs :
       \/ Press(d)
       \/ \E t \in Locks : Toggle(d, t)
       \/ ToggleStateSyncKeyNotify(d)
       \/ \E bad \in SUBSET Flaky, deaf \in SUBSET Flaky : ConInStart(d, bad, deaf)
       \/ ConInStop(d)
  \/ \E bad \in SUBSET Flaky :
       \/ \E deaf \in SUBSET Flaky : TextInReset(bad, deaf) \/ Reset(ex, bad, deaf)
       \/ ReadKeyStroke(bad)
       \/ ReadKeyStrokeEx(bad)
       \/ \E t \in Locks, expose \in BOOLEAN : SetState(t, expose, bad)
       \/ SetState(Invalid, FALSE, bad)
       \/ \E n \in Callers : RegisterKeyNotify(n, bad)
  \/ WaitForKey
  \/ \E n \in Callers : UnregisterKeyNotify(n)

Spec == Init /\ [][Next]_vars
-----------------------------------------------------------------------------
(* The full keys of keyboard d in the queue q.                             *)
KeysIn(q, d) ==
  LET mine == Kept(q, {d} \X Numbers) IN [i \in DOMAIN mine |-> mine[i][2]]

(* The keys of keyboard d that wait in the queue and in the keyboard.      *)
Waiting(d) == KeysIn(queue, d) \o FullKeys(dev, d)

(* A caller that is told of a key finds one, unless a keyboard was removed *)
(* in between: no read and no reset leaves KeyEventSignalState behind      *)
(* (ConSplitterTextInWaitForKey).                                          *)
SignalHonest == signalled /\ stops = 0 => \E d \in ToSet(textIn) : FullAt(dev, d) # 0

(* Whichever of the two protocols the callers read by, and whatever        *)
(* keyboards come, go or fail in between, the full keys of each keyboard   *)
(* are handed out once, in the order they were pressed, and none is lost   *)
(* but by a reset; and the queue never outgrows its memory                 *)
(* (ConSplitterTextInReadKeyStrokeEx).                                     *)
KeysAccounted ==
  /\ Len(queue) <= cap
  /\ \A d \in Devs : Waiting(d) = owed[d]

(* Every keyboard of the list has all notifications registered, after      *)
(* whatever failures; and until the first keyboard was removed, no others  *)
(* (ConSplitterTextInRegisterKeyNotify, ConSplitterTextInExAddDevice).     *)
NotifyEverywhere ==
  \A d \in ToSet(ex) : /\ ToSet(notify) \subseteq dev[d].reg
                       /\ stops = 0 => dev[d].reg = ToSet(notify)

(* Although each keyboard is toggled by hand at any time and its toggles   *)
(* are heard late and in any order between keyboards, a keyboard from      *)
(* which nothing is left to be heard has the toggle state of all others,   *)
(* unless a keyboard refused one (ToggleStateSyncKeyNotify).               *)
TogglesAgree ==
  ~torn => \A d \in ToSet(ex) : dev[d].notes = <<>> => dev[d].toggle = physical
=============================================================================
