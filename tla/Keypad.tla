------------------------------- MODULE Keypad -------------------------------
(***************************************************************************)
(* KeypadDxe, the driver that turns scans of the keypad into keystrokes for *)
(* ConIn, and that calls the functions registered for a key.                *)
(*                                                                         *)
(* A scan runs inside ReadKeyStroke and WaitForKey, or from the timer event,*)
(* whose notification is of TPL_CALLBACK too and so never comes while the   *)
(* handler runs.  It raises the level to TPL_NOTIFY, pushes a key that      *)
(* somebody registered for to EfiKeyQueueForNotify as well, and signals     *)
(* KeyNotifyProcessEvent.                                                   *)
(* KeyNotifyProcessHandler runs at TPL_CALLBACK: before the application, at *)
(* TPL_APPLICATION, goes on, but not while it runs already.  It calls the   *)
(* functions, and these call the driver again while the handler stands at   *)
(* their entry of NotifyList.                                               *)
(*                                                                         *)
(* The scanner of KeyScan is abstract here: a scan posts any keys.  What it *)
(* posts has no shift state and is never the key without scan code and      *)
(* character, so SetState's IsSupportPartialKey makes no difference; nothing *)
(* calls KeypadError, so KeypadErr stays FALSE.                             *)
(*                                                                         *)
(* The driver is bound by the UEFI driver model: the application connects   *)
(* and disconnects the keypad.  The timer runs before the interfaces are    *)
(* installed, and a Stop that cannot uninstall them leaves them without it.  *)
(***************************************************************************)
EXTENDS DropOldest, FiniteSets, FiniteSetsExt

CONSTANTS
  KeyNames,   (* The keystrokes that a scan posts.                         *)
  Fns,        (* Notification functions.                                   *)
  Handles,    (* The addresses that AllocateZeroPool returns for entries.  *)
  MaxTyped    (* Bound on the keystrokes posted.                           *)

ASSUME KeypadAssumption ==
  /\ Capacity \in Nat \ {0} /\ MaxTyped \in Nat
  /\ IsFiniteSet(Handles)

VARIABLES
  typed,      (* History: how many keystrokes were posted.                 *)
  efiq,       (* EfiKeyQueue: keystrokes [n, k], the n-th one being key k.  *)
  notifyq,    (* EfiKeyQueueForNotify.                                     *)
  notify,     (* NotifyList: [h, fn, k, shift], h being the entry's address *)
              (* and shift TRUE if KeyShiftState or KeyToggleState is not 0. *)
  signalled,  (* KeyNotifyProcessEvent is signalled.                       *)
  handler,    (* KeyNotifyProcessHandler: pc, the keystroke e it popped, the *)
              (* entry it calls, and (history) whether it did so before.     *)
  scan,       (* The scan in progress: who asked for it, or "no".           *)
  driver,     (* "stopped"; "starting" until the interfaces are installed;   *)
              (* "started"; "mute" if TimerEvent is closed but they are there. *)
  owed, done  (* History: the calls <<n, h>> that are due, and those made.  *)

queues == <<efiq, notifyq>>
history == <<typed, owed, done>>
vars == <<typed, efiq, notifyq, notify, signalled, handler, scan, driver, owed, done>>

NoStroke == [n |-> 0, k |-> "none"]
NoEntry == [h |-> "none", fn |-> "none", k |-> "none", shift |-> FALSE]
Off == [pc |-> "off", e |-> NoStroke, at |-> NoEntry, again |-> FALSE]

Elements(q) == {q[i] : i \in DOMAIN q}

(* IsKeyRegistered(&r.KeyData, key k with the given shift).                 *)
IsKeyRegistered(r, k, shift) == r.k = k /\ (r.shift => shift)

Registered(k) == {r \in Elements(notify) : IsKeyRegistered(r, k, FALSE)}

(* How many entries a key matches: that many times it is pushed.            *)
Matches(k) == Cardinality({i \in DOMAIN notify : notify[i] \in Registered(k)})

(* Who may call the driver: the application, which resumes when no event    *)
(* of TPL_CALLBACK is left to dispatch, or the function being called.       *)
Quiet == handler.pc = "off" /\ ~signalled
MayCall == /\ driver \in {"started", "mute"}
           /\ scan = "no" /\ (Quiet \/ handler.pc = "call")
-----------------------------------------------------------------------------
(* KeypadTimerHandler enters GetKeys.                                      *)
BeginScan(by) ==
  /\ scan' = by
  /\ UNCHANGED <<queues, notify, signalled, handler, driver, history>>

(* The timer event runs, which waits for the handler to end.                *)
TimerEvent ==
  /\ driver \in {"starting", "started"}
  /\ scan = "no" /\ handler.pc = "off"
  /\ BeginScan("timer")

(* KeypadReadKeyStroke; no key that it takes is partial.                    *)
ReadKeyStroke == MayCall /\ BeginScan("read")

(* KeypadReadKeyStrokeEx would return a partial key: the first is taken too. *)
ReadKeyStrokeEx == MayCall /\ BeginScan("read")

(* KeypadWaitForKey, for either protocol: the check of its event scans.     *)
WaitForKey == MayCall /\ BeginScan("wait")

(* KeypadReturnApiPushEfikeyBufTail: for every entry that matches, the key  *)
(* is pushed and the event signalled.  A stroke that the full queue drops    *)
(* is no longer due.                                                        *)
Type(k) ==
  /\ scan # "no"
  /\ typed < MaxTyped
  /\ typed' = typed + 1
  /\ LET e == [n |-> typed + 1, k |-> k]
         due == owed \cup {<<e.n, r.h>> : r \in Registered(k)}
     IN /\ efiq' = Pushed(efiq, e)
        /\ notifyq' = IF Registered(k) = {} THEN notifyq ELSE PushedTimes(notifyq, Matches(k), e)
        /\ signalled' = (signalled \/ Registered(k) # {})
        /\ owed' = {c \in due : \E s \in Elements(notifyq') \cup {handler.e} : s.n = c[1]}
  /\ UNCHANGED <<notify, handler, scan, driver, done>>

(* GetKeys returns, and ReadKeyStroke takes the first key.                  *)
EndScan ==
  /\ scan # "no"
  /\ efiq' = IF scan = "read" THEN Rest(efiq) ELSE efiq
  /\ scan' = "no"
  /\ UNCHANGED <<notifyq, notify, signalled, handler, driver, history>>

(* KeypadEfiReset: InitKeypad empties both queues.                          *)
EfiReset ==
  /\ MayCall
  /\ efiq' = <<>> /\ notifyq' = <<>>
  /\ owed' = {c \in owed : c[1] = handler.e.n}
  /\ UNCHANGED <<typed, notify, signalled, handler, scan, driver, done>>

EfiResetEx == EfiReset

(* Mutant: a function is registered again for the same key.                 *)
RegisterAgain(fn, k, shift) ==
  /\ MayCall
  /\ \E h \in Handles \ {r.h : r \in Elements(notify)} :
       notify' = Append(notify, [h |-> h, fn |-> fn, k |-> k, shift |-> shift])
  /\ UNCHANGED <<queues, signalled, handler, scan, driver, history>>

(* KeypadRegisterKeyNotify: nothing if the function is there for that key.  *)
RegisterKeyNotify(fn, k, shift) ==
  /\ MayCall
  /\ \A r \in Elements(notify) : ~(r.fn = fn /\ IsKeyRegistered(r, k, shift))
  /\ \E h \in Handles \ {r.h : r \in Elements(notify)} :
       notify' = Append(notify, [h |-> h, fn |-> fn, k |-> k, shift |-> shift])
  /\ UNCHANGED <<queues, signalled, handler, scan, driver, history>>

(* The list without its i-th entry.                                        *)
Without(i) ==
  [j \in 1 .. Len(notify) - 1 |-> IF j < i THEN notify[j] ELSE notify[j + 1]]

(* KeypadUnregisterKeyNotify.  A function does not remove the entry it is   *)
(* called from, which the handler reads when it returns.                    *)
UnregisterKeyNotify(i) ==
  /\ MayCall
  /\ handler.at # notify[i]
  /\ notify' = Without(i)
  /\ owed' = {c \in owed : c[2] # notify[i].h}
  /\ done' = {c \in done : c[2] # notify[i].h}
  /\ UNCHANGED <<queues, signalled, handler, scan, driver, typed>>
-----------------------------------------------------------------------------
(* Mutant: the handler ends with its first stroke.                         *)
VisitLast(from, e) ==
  LET next == {i \in DOMAIN notify : i >= from /\ notify[i] \in Registered(e.k)}
  IN IF next = {}
     THEN handler' = Off /\ UNCHANGED <<owed, done>>
     ELSE LET r == notify[Min(next)]
          IN /\ handler' = [pc |-> "call", e |-> e, at |-> r,
                             again |-> <<e.n, r.h>> \in done]
             /\ owed' = owed \ {<<e.n, r.h>>}
             /\ done' = done \cup {<<e.n, r.h>>}

(* KeyNotifyProcessHandler goes on from position `from' of NotifyList with  *)
(* stroke e: it calls the next function, or is done with the stroke.        *)
Visit(from, e) ==
  LET next == {i \in DOMAIN notify : i >= from /\ notify[i] \in Registered(e.k)}
  IN IF next = {}
     THEN /\ handler' = [Off EXCEPT !.pc = "pop"]
          /\ UNCHANGED <<owed, done>>
     ELSE LET r == notify[Min(next)]
          IN /\ handler' = [pc |-> "call", e |-> e, at |-> r,
                             again |-> <<e.n, r.h>> \in done]
             /\ owed' = owed \ {<<e.n, r.h>>}
             /\ done' = done \cup {<<e.n, r.h>>}

(* The event is dispatched.                                                *)
Dispatch ==
  /\ scan = "no" /\ handler.pc = "off" /\ signalled
  /\ signalled' = FALSE
  /\ handler' = [Off EXCEPT !.pc = "pop"]
  /\ UNCHANGED <<queues, notify, scan, driver, history>>

(* The loop pops a stroke, or ends.                                        *)
NotifyPop ==
  /\ handler.pc = "pop"
  /\ \/ /\ notifyq = <<>>
        /\ handler' = Off
        /\ UNCHANGED <<notifyq, owed, done>>
     \/ /\ notifyq # <<>>
        /\ notifyq' = Rest(notifyq)
        /\ Visit(1, Head(notifyq))
  /\ UNCHANGED <<efiq, notify, signalled, scan, driver, typed>>

(* Mutant: the first function that matches is the only one.                *)
FnReturnsStops ==
  /\ handler.pc = "call" /\ scan = "no"
  /\ handler' = [Off EXCEPT !.pc = "pop"]
  /\ UNCHANGED <<queues, notify, signalled, scan, driver, history>>

(* A function returns; GetNextNode reads the list as it is by now.          *)
FnReturns ==
  /\ handler.pc = "call" /\ scan = "no"
  /\ \E i \in DOMAIN notify : notify[i] = handler.at /\ Visit(i + 1, handler.e)
  /\ UNCHANGED <<queues, notify, signalled, scan, driver, typed>>
-----------------------------------------------------------------------------
(* KeypadControllerDriverSupported: OpenProtocol by BY_DRIVER fails while    *)
(* the driver has the keypad open, and until Stop has uninstalled.          *)
Supported == driver = "stopped" /\ scan = "no"

(* KeypadControllerDriverStart on a keypad, up to the reset of the new      *)
(* device: its periodic timer is set, and nothing is installed yet.         *)
Start ==
  /\ Supported
  /\ driver' = "starting"
  /\ UNCHANGED <<queues, notify, signalled, handler, scan, history>>

(* InstallMultipleProtocolInterfaces.                                      *)
Install ==
  /\ driver = "starting" /\ scan = "no"
  /\ driver' = "started"
  /\ UNCHANGED <<queues, notify, signalled, handler, scan, history>>

(* The device is freed: its events with what they signal, both queues and,  *)
(* in KbdFreeNotifyList, the entries of NotifyList.                         *)
FreeDevice ==
  /\ efiq' = <<>> /\ notifyq' = <<>> /\ notify' = <<>>
  /\ signalled' = FALSE
  /\ owed' = {} /\ done' = {}
  /\ driver' = "stopped"
  /\ UNCHANGED <<typed, handler, scan>>

(* A step of Start fails after the timer is set.                            *)
StartFails ==
  /\ driver = "starting" /\ scan = "no"
  /\ FreeDevice

(* KeypadControllerDriverStop, called by the application.                   *)
Stop ==
  /\ driver \in {"started", "mute"} /\ scan = "no" /\ Quiet
  /\ FreeDevice

(* The interfaces cannot be uninstalled: the timer is gone nevertheless.     *)
StopFails ==
  /\ driver \in {"started", "mute"} /\ scan = "no" /\ Quiet
  /\ driver' = "mute"
  /\ UNCHANGED <<queues, notify, signalled, handler, scan, history>>

Init ==
  /\ driver = "stopped"
  /\ typed = 0
  /\ efiq = <<>> /\ notifyq = <<>> /\ notify = <<>>
  /\ signalled = FALSE /\ handler = Off /\ scan = "no"
  /\ owed = {} /\ done = {}

Next ==
  \/ TimerEvent \/ ReadKeyStroke \/ ReadKeyStrokeEx \/ WaitForKey
  \/ \E k \in KeyNames : Type(k)
  \/ EndScan
  \/ EfiReset \/ EfiResetEx
  \/ \E fn \in Fns, k \in KeyNames, shift \in BOOLEAN : RegisterKeyNotify(fn, k, shift)
  \/ \E i \in DOMAIN notify : UnregisterKeyNotify(i)
  \/ Dispatch \/ NotifyPop \/ FnReturns
  \/ Start \/ Install \/ StartFails \/ Stop \/ StopFails

Spec == Init /\ [][Next]_vars

(* A scan ends, the handler runs on, the event is dispatched in its turn     *)
(* among the timer's, and a function returns, whatever it calls before.      *)
Fairness ==
  /\ WF_vars(EndScan) /\ WF_vars(NotifyPop)
  /\ SF_vars(Dispatch) /\ SF_vars(FnReturns)

FairSpec == Spec /\ Fairness
-----------------------------------------------------------------------------
Strokes == [n : 1 .. MaxTyped, k : KeyNames]
Entries == [h : Handles, fn : Fns, k : KeyNames, shift : BOOLEAN]

TypeOK ==
  /\ typed \in 0 .. MaxTyped
  /\ \A q \in {efiq, notifyq} : Elements(q) \subseteq Strokes /\ Len(q) <= Capacity
  /\ Elements(notify) \subseteq Entries
  /\ signalled \in BOOLEAN
  /\ handler \in [pc : {"off", "pop", "call"}, e : Strokes \cup {NoStroke},
                  at : Entries \cup {NoEntry}, again : BOOLEAN]
  /\ scan \in {"no", "timer", "read", "wait"}
  /\ driver \in {"stopped", "starting", "started", "mute"}
  /\ owed \cup done \subseteq (1 .. MaxTyped) \X Handles

(* No wake-up is lost: a key that waits for its functions has the event     *)
(* signalled or the handler running, and the handler's last look at the     *)
(* queue does not race with a key that arrives.                             *)
NotifyPending == notifyq # <<>> => signalled \/ handler.pc # "off"

(* When the application goes on, after a ReadKeyStroke as after anything    *)
(* else, every function registered for a key typed so far was called, unless *)
(* a reset, a full queue or its removal came first.                         *)
NotifiedFirst == Quiet => owed = {}

(* No keystroke reaches one function through two entries.                   *)
RegisteredOnce ==
  \A k \in KeyNames : \A r, s \in Registered(k) : r.fn = s.fn => r = s

(* "KeyNotificationFunction    Points to the function to be called when the *)
(* key sequence is typed": it is called once for a key typed once.          *)
CalledOnce == handler.pc = "call" => ~handler.again

(* Every call that is due is made, or cancelled.                            *)
NotifyDelivered == owed # {} ~> owed = {}
=============================================================================
