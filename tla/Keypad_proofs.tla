--------------------------- MODULE Keypad_proofs ---------------------------
(***************************************************************************)
(* KeypadDxe: no wake-up of KeyNotifyProcessHandler is lost, no function is *)
(* registered twice for a keystroke, and each is called before the           *)
(* application goes on, for any number of keys, functions, entries and any   *)
(* capacity of the queues; its ring buffer is, for every size, the bounded   *)
(* queue that drops its oldest key; and its scanner reports every press of  *)
(* the power and volume keys, and exactly one event for a press of Dial,    *)
(* for any keys in the order of KeyList[], thresholds and times.            *)
(***************************************************************************)
EXTENDS Keypad, KeyQueue, KeyScan, SequenceTheorems, FiniteSetTheorems,
        WellFoundedInduction, TLAPS

(* A keystroke that waits for its functions has the event signalled or the   *)
(* handler running: no step takes both away, and only the handler's last     *)
(* look at an empty queue ends it.                                          *)
THEOREM NoLostWakeup == Spec => []NotifyPending
<1>1. Init => NotifyPending
  BY DEF Init, NotifyPending
<1>2. NotifyPending /\ [Next]_vars => NotifyPending'
  <2> SUFFICES ASSUME NotifyPending, [Next]_vars PROVE NotifyPending'
    OBVIOUS
  <2> USE DEF NotifyPending
  <2>1. ASSUME TimerEvent \/ ReadKeyStroke \/ ReadKeyStrokeEx \/ WaitForKey
       PROVE  NotifyPending'
    BY <2>1 DEF TimerEvent, ReadKeyStroke, ReadKeyStrokeEx, WaitForKey, BeginScan, queues
  <2>2. ASSUME NEW k, Type(k) PROVE NotifyPending'
    <3>1. CASE Registered(k) = {}
      <4>1. UNCHANGED <<notifyq, handler>> /\ signalled' = (signalled \/ FALSE)
        BY <2>2, <3>1 DEF Type
      <4> QED
        BY <4>1
    <3>2. CASE Registered(k) # {}
      BY <2>2, <3>2 DEF Type
    <3> QED
      BY <3>1, <3>2
  <2>3. CASE EndScan
    BY <2>3 DEF EndScan
  <2>4. CASE EfiReset \/ EfiResetEx
    BY <2>4 DEF EfiReset, EfiResetEx
  <2>5. ASSUME NEW fn, NEW k, NEW shift, RegisterKeyNotify(fn, k, shift)
        PROVE  NotifyPending'
    BY <2>5 DEF RegisterKeyNotify, queues
  <2>6. ASSUME NEW i, UnregisterKeyNotify(i) PROVE NotifyPending'
    BY <2>6 DEF UnregisterKeyNotify, queues
  <2>7. CASE Dispatch
    BY <2>7 DEF Dispatch, Off
  <2>8. ASSUME NEW from, NEW e, Visit(from, e) PROVE handler'.pc # "off"
    BY <2>8 DEF Visit, Off
  <2>9. CASE NotifyPop
    <3>1. CASE notifyq = <<>> /\ UNCHANGED notifyq
      BY <3>1
    <3>2. CASE Visit(1, Head(notifyq))
      BY <3>2, <2>8
    <3> QED
      BY <2>9, <3>1, <3>2 DEF NotifyPop
  <2>10. CASE FnReturns
    BY <2>10, <2>8 DEF FnReturns
  <2>11. CASE Start \/ Install \/ StopFails
    BY <2>11 DEF Start, Install, StopFails, queues
  <2>12. CASE StartFails \/ Stop
    BY <2>12 DEF StartFails, Stop, FreeDevice
  <2>13. CASE UNCHANGED vars
    BY <2>13 DEF vars
  <2> QED
    BY <2>1, <2>2, <2>3, <2>4, <2>5, <2>6, <2>7, <2>9, <2>10, <2>11, <2>12, <2>13
       DEF Next
<1> QED
  BY <1>1, <1>2, PTL DEF Spec
-----------------------------------------------------------------------------
(* The positions of NotifyList that match one plain keystroke have different *)
(* functions.                                                               *)
ListInv ==
  /\ Len(notify) \in Nat /\ DOMAIN notify = 1 .. Len(notify)
  /\ \A i, j \in DOMAIN notify :
       /\ notify[i].fn = notify[j].fn /\ notify[i].k = notify[j].k
       /\ ~notify[i].shift /\ ~notify[j].shift
       => i = j

(* A function is in the list at most once for any keystroke, whatever the    *)
(* order in which shifted and plain keys are registered and removed.         *)
THEOREM NoDoubleRegistration == Spec => []RegisteredOnce
<1>1. Init => ListInv
  BY DEF Init, ListInv
<1>2. ListInv /\ [Next]_vars => ListInv'
  <2> SUFFICES ASSUME ListInv, [Next]_vars PROVE ListInv'
    OBVIOUS
  <2>1. ASSUME UNCHANGED notify PROVE ListInv'
    BY <2>1 DEF ListInv
  <2>2. ASSUME NEW fn, NEW k, NEW shift \in BOOLEAN, RegisterKeyNotify(fn, k, shift)
        PROVE  ListInv'
    <3>1. PICK h : notify' = Append(notify, [h |-> h, fn |-> fn, k |-> k, shift |-> shift])
      BY <2>2 DEF RegisterKeyNotify
    <3> DEFINE r == [h |-> h, fn |-> fn, k |-> k, shift |-> shift]
    <3>2. /\ Len(notify') = Len(notify) + 1 /\ DOMAIN notify' = 1 .. Len(notify) + 1
          /\ \A i \in DOMAIN notify : notify'[i] = notify[i]
          /\ notify'[Len(notify) + 1] = r
      BY <3>1 DEF ListInv
    <3>3. \A i \in DOMAIN notify :
            ~(notify[i].fn = fn /\ notify[i].k = k /\ (notify[i].shift => shift))
      BY <2>2 DEF RegisterKeyNotify, IsKeyRegistered, Elements
    <3> QED
      BY <3>2, <3>3 DEF ListInv
  <2>3. ASSUME NEW i \in DOMAIN notify, UnregisterKeyNotify(i) PROVE ListInv'
    BY <2>3 DEF UnregisterKeyNotify, Without, ListInv
  <2>4. ASSUME StartFails \/ Stop PROVE ListInv'
    <3>1. notify' = <<>>
      BY <2>4 DEF StartFails, Stop, FreeDevice
    <3> QED
      BY <3>1 DEF ListInv
  <2> QED
    BY <2>1, <2>2, <2>3, <2>4 DEF Next, vars, TimerEvent, ReadKeyStroke, ReadKeyStrokeEx, WaitForKey,
       BeginScan, Type, EndScan, EfiReset, EfiResetEx, Dispatch, NotifyPop, FnReturns, Start, Install,
       StopFails
<1>3. ListInv => RegisteredOnce
  BY DEF ListInv, RegisteredOnce, Registered, Elements, IsKeyRegistered
<1> QED
  BY <1>1, <1>2, <1>3, PTL DEF Spec
-----------------------------------------------------------------------------
(* Each call that is owed has its stroke in the queue and its entry in the   *)
(* list or, if it is the handler's stroke, an entry after the handler's.     *)
IsQueue(q) == q \in Seq(Elements(q))

Queued(c) ==
  \E s \in Elements(notifyq) : s.n = c[1] /\ \E r \in Registered(s.k) : r.h = c[2]

Later(c) ==
  \E i \in DOMAIN notify : \E j \in DOMAIN notify :
    /\ i < j /\ notify[i] = handler.at
    /\ notify[j].h = c[2] /\ notify[j] \in Registered(handler.e.k)

(* Strokes are numbered, and entries have addresses of their own.            *)
Numbered ==
  /\ typed \in Nat /\ IsQueue(notifyq) /\ IsQueue(notify)
  /\ handler.e.n \in 0 .. typed
  /\ IF handler.pc = "call" THEN handler.e.n # 0 ELSE handler.e = NoStroke
  /\ \A s \in Elements(notifyq) : s.n \in 1 .. typed /\ (s.n = handler.e.n => s = handler.e)
  /\ \A s, t \in Elements(notifyq) : s.n = t.n => s = t
  /\ \A i, j \in DOMAIN notify : notify[i].h = notify[j].h => i = j

OwedInv ==
  /\ Numbered
  /\ \A c \in owed :
       /\ c = <<c[1], c[2]>> /\ c[1] \in 1 .. typed
       /\ c[1] = handler.e.n => Later(c)
       /\ c[1] # handler.e.n => Queued(c)

(* The least of some numbers is one of them.                                *)
LEMMA MinIsLeast ==
  ASSUME NEW S \in SUBSET Nat, S # {}
  PROVE  Min(S) \in S /\ \A y \in S : Min(S) <= y
<1>1. PICK x \in S : \A y \in S : <<y, x>> \notin OpToRel(<, Nat)
  BY NatLessThanWellFounded, WFMin, Zenon
<1>2. \A y \in S : x <= y
  <2>1. \A y \in S : ~(y < x)
    BY <1>1, Zenon DEF OpToRel
  <2> QED
    BY <2>1
<1> QED
  BY <1>2 DEF Min

(* What a pop takes from a queue, and what it leaves.                       *)
LEMMA RestElements ==
  ASSUME NEW q, IsQueue(q), q # <<>>
  PROVE  /\ IsQueue(Rest(q)) /\ Elements(Rest(q)) \subseteq Elements(q)
         /\ Head(q) \in Elements(q)
         /\ \A s \in Elements(q) : s = Head(q) \/ s \in Elements(Rest(q))
<1> DEFINE t == Tail(q)
<1>1. /\ Len(q) \in Nat \ {0} /\ DOMAIN q = 1 .. Len(q) /\ Head(q) = q[1]
      /\ t \in Seq(Elements(q)) /\ Len(t) = Len(q) - 1 /\ \A i \in 1 .. Len(q) - 1 : t[i] = q[i + 1]
  BY HeadTailProperties DEF IsQueue
<1>2. Rest(q) = t
  BY DEF Rest
<1> HIDE DEF t
<1>3. DOMAIN t = 1 .. Len(q) - 1
  BY <1>1
<1>4. t \in Seq(Elements(t))
  <2>1. t \in [1 .. Len(q) - 1 -> Elements(q)]
    BY <1>1, LenProperties
  <2>2. t = [i \in 1 .. Len(q) - 1 |-> t[i]]
    BY <2>1
  <2>3. \A i \in 1 .. Len(q) - 1 : t[i] \in Elements(t)
    BY <1>3 DEF Elements
  <2>4. t \in [1 .. Len(q) - 1 -> Elements(t)]
    BY <2>2, <2>3
  <2> QED
    BY <1>1, <2>4, SeqDef
<1>5. Elements(t) \subseteq Elements(q)
  <2> SUFFICES ASSUME NEW i \in 1 .. Len(q) - 1 PROVE t[i] \in Elements(q)
    BY <1>3 DEF Elements
  <2>1. i + 1 \in DOMAIN q
    BY <1>1
  <2> QED
    BY <1>1, <2>1 DEF Elements
<1>6. ASSUME NEW i \in DOMAIN q PROVE q[i] = Head(q) \/ q[i] \in Elements(t)
  <2>1. CASE i = 1
    BY <1>1, <2>1
  <2>2. CASE i # 1
    <3>1. i - 1 \in 1 .. Len(q) - 1 /\ (i - 1) + 1 = i
      BY <1>1, <2>2
    <3> QED
      BY <1>1, <1>3, <3>1 DEF Elements
  <2> QED
    BY <2>1, <2>2
<1> QED
  BY <1>1, <1>2, <1>4, <1>5, <1>6 DEF IsQueue, Elements

(* What pushes of one keystroke put into a queue.                           *)
LEMMA PushedElements ==
  ASSUME NEW q, IsQueue(q), NEW m \in Nat, NEW k
  PROVE  /\ IsQueue(PushedTimes(q, m, k))
         /\ \A s \in Elements(PushedTimes(q, m, k)) : s \in Elements(q) \/ s = k
<1> DEFINE p == PushedTimes(q, m, k)
           lost == IF Len(q) + m > Capacity THEN Len(q) + m - Capacity ELSE 0
           n == Len(q) + m - lost
<1>1. Len(q) \in Nat /\ DOMAIN q = 1 .. Len(q) /\ n \in Nat /\ lost \in Nat
  BY KeypadAssumption DEF IsQueue
<1>2. p = [i \in 1 .. n |-> IF i + lost <= Len(q) THEN q[i + lost] ELSE k]
  BY DEF PushedTimes
<1> HIDE DEF p, n, lost
<1>3. DOMAIN p = 1 .. n /\ p = [i \in 1 .. n |-> p[i]]
  BY <1>2
<1>4. \A i \in 1 .. n : p[i] \in Elements(p)
  BY <1>3 DEF Elements
<1>5. p \in Seq(Elements(p))
  BY <1>1, <1>3, <1>4
<1>6. ASSUME NEW i \in 1 .. n PROVE p[i] \in Elements(q) \/ p[i] = k
  <2>1. i + lost <= Len(q) => i + lost \in DOMAIN q
    BY <1>1
  <2> QED
    BY <1>2, <2>1 DEF Elements
<1> QED
  BY <1>3, <1>5, <1>6 DEF p, IsQueue, Elements

(* The entries that match are counted.                                      *)
LEMMA MatchesCount == ASSUME IsQueue(notify), NEW k PROVE Matches(k) \in Nat
<1> DEFINE S == {i \in DOMAIN notify : notify[i] \in Registered(k)}
<1>1. IsFiniteSet(1 .. Len(notify)) /\ DOMAIN notify = 1 .. Len(notify)
  BY FS_Interval DEF IsQueue
<1>2. IsFiniteSet(S)
  BY <1>1, FS_Subset
<1> QED
  BY <1>2, FS_CardinalityType DEF Matches

(* The steps.                                                                *)
LEMMA OwedInit == Init => OwedInv
<1> SUFFICES ASSUME Init PROVE OwedInv
  OBVIOUS
<1>1. Elements(<<>>) = {} /\ IsQueue(<<>>)
  BY DEF Elements, IsQueue
<1> QED
  BY <1>1 DEF Init, OwedInv, Numbered, Off, NoStroke

(* The list, the queue and the handler stay, or fewer calls are owed.        *)
LEMMA OwedStays ==
  ASSUME OwedInv, UNCHANGED <<typed, notifyq, notify, handler>>, owed' \subseteq owed
  PROVE  OwedInv'
<1>1. Numbered'
  BY DEF OwedInv, Numbered
<1>2. ASSUME NEW c \in owed PROVE (Queued(c) => Queued(c)') /\ (Later(c) => Later(c)')
  BY DEF Queued, Later, Registered
<1> QED
  BY <1>1, <1>2 DEF OwedInv

(* A keystroke: what the full queue drops is owed no more.                  *)
LEMMA TypeOwed ==
  ASSUME OwedInv, NEW k, Type(k)
  PROVE  OwedInv'
<1> DEFINE e == [n |-> typed + 1, k |-> k]
<1>1. /\ typed' = typed + 1 /\ UNCHANGED <<notify, handler>>
      /\ IsQueue(notifyq') /\ \A s \in Elements(notifyq') : s \in Elements(notifyq) \/ s = e
      /\ \A c \in owed' : /\ c \in owed \/ \E r \in Registered(k) : c = <<e.n, r.h>>
                          /\ \E s \in Elements(notifyq') \cup {handler.e} : s.n = c[1]
  <2>1. notifyq' = IF Registered(k) = {} THEN notifyq ELSE PushedTimes(notifyq, Matches(k), e)
    BY DEF Type
  <2>2. IsQueue(notifyq') /\ \A s \in Elements(notifyq') : s \in Elements(notifyq) \/ s = e
    BY <2>1, PushedElements, MatchesCount DEF OwedInv, Numbered
  <2>3. owed' = {c \in owed \cup {<<e.n, r.h>> : r \in Registered(k)} :
                   \E s \in Elements(notifyq') \cup {handler.e} : s.n = c[1]}
    BY DEF Type
  <2> QED
    BY <2>2, <2>3 DEF Type
<1>2. /\ typed \in Nat /\ e.n = typed + 1 /\ e.k = k /\ handler.e.n \in 0 .. typed
  BY DEF OwedInv, Numbered
<1> HIDE DEF e
<1>3. Numbered'
  <2>1. \A s \in Elements(notifyq') : s.n \in 1 .. typed + 1 /\ (s.n = handler.e.n => s = handler.e)
    BY <1>1, <1>2 DEF OwedInv, Numbered
  <2>2. \A s, t \in Elements(notifyq') : s.n = t.n => s = t
    BY <1>1, <1>2 DEF OwedInv, Numbered
  <2>3. handler'.e.n \in 0 .. typed + 1
    BY <1>1, <1>2
  <2> QED
    BY <1>1, <1>2, <2>1, <2>2, <2>3 DEF OwedInv, Numbered
<1>4. ASSUME NEW c \in owed'
      PROVE  /\ c = <<c[1], c[2]>> /\ c[1] \in 1 .. typed'
             /\ c[1] = handler'.e.n => Later(c)'
             /\ c[1] # handler'.e.n => Queued(c)'
  <2>1. PICK s \in Elements(notifyq') \cup {handler.e} : s.n = c[1]
    BY <1>1
  <2>2. CASE c \in owed
    <3>1. /\ c = <<c[1], c[2]>> /\ c[1] \in 1 .. typed
          /\ c[1] = handler.e.n => Later(c)
          /\ c[1] # handler.e.n => Queued(c)
      BY <2>2 DEF OwedInv
    <3>2. Later(c) => Later(c)'
      BY <1>1 DEF Later, Registered
    <3>3. ASSUME c[1] # handler.e.n PROVE Queued(c)'
      <4>1. PICK x \in Elements(notifyq) : x.n = c[1] /\ \E r \in Registered(x.k) : r.h = c[2]
        BY <3>1, <3>3 DEF Queued
      <4>2. s \in Elements(notifyq') /\ s # e
        BY <1>2, <2>1, <3>1, <3>3
      <4>3. s \in Elements(notifyq)
        BY <1>1, <4>2
      <4>4. s = x
        BY <2>1, <4>1, <4>3 DEF OwedInv, Numbered
      <4> QED
        BY <1>1, <4>1, <4>2, <4>4 DEF Queued, Registered
    <3>4. c[1] \in 1 .. typed'
      BY <1>1, <1>2, <3>1
    <3> QED
      BY <1>1, <3>1, <3>2, <3>3, <3>4
  <2>3. CASE c \notin owed
    <3>1. PICK r \in Registered(k) : c = <<e.n, r.h>>
      BY <1>1, <2>3
    <3>2. c[1] = typed + 1 /\ c[2] = r.h /\ c = <<c[1], c[2]>>
      BY <1>2, <3>1
    <3>3. c[1] # handler.e.n
      BY <1>2, <3>2
    <3>4. s \in Elements(notifyq') /\ s \notin Elements(notifyq)
      BY <1>2, <2>1, <3>2, <3>3 DEF OwedInv, Numbered
    <3>5. s = e
      BY <1>1, <3>4
    <3>6. Queued(c)'
      BY <1>1, <1>2, <3>1, <3>2, <3>4, <3>5 DEF Queued, Registered
    <3>7. c[1] \in 1 .. typed'
      BY <1>1, <1>2, <3>2
    <3> QED
      BY <1>1, <3>2, <3>3, <3>6, <3>7
  <2> QED
    BY <2>2, <2>3
<1> QED
  BY <1>3, <1>4 DEF OwedInv

(* A reset empties the queue: the handler's stroke is still owed.           *)
LEMMA ResetOwed ==
  ASSUME OwedInv, EfiReset
  PROVE  OwedInv'
<1>1. /\ notifyq' = <<>> /\ UNCHANGED <<typed, notify, handler>> /\ owed' = {c \in owed : c[1] = handler.e.n}
  BY DEF EfiReset
<1>2. Elements(notifyq') = {} /\ IsQueue(notifyq')
  BY <1>1 DEF Elements, IsQueue
<1>3. Numbered'
  BY <1>1, <1>2 DEF OwedInv, Numbered
<1>4. \A c : Later(c) => Later(c)'
  BY <1>1 DEF Later, Registered
<1> QED
  BY <1>1, <1>3, <1>4 DEF OwedInv

(* An entry at the end of the list, with an address of its own.             *)
LEMMA RegisterOwed ==
  ASSUME OwedInv, NEW fn, NEW k, NEW shift, RegisterKeyNotify(fn, k, shift)
  PROVE  OwedInv'
<1>1. /\ UNCHANGED <<typed, notifyq, handler, owed>>
      /\ \E h \in Handles \ {r.h : r \in Elements(notify)} :
           notify' = Append(notify, [h |-> h, fn |-> fn, k |-> k, shift |-> shift])
  BY DEF RegisterKeyNotify, queues, history
<1>2. PICK h \in Handles \ {r.h : r \in Elements(notify)} :
        notify' = Append(notify, [h |-> h, fn |-> fn, k |-> k, shift |-> shift])
  BY <1>1
<1> DEFINE r == [h |-> h, fn |-> fn, k |-> k, shift |-> shift]
           n == Len(notify)
<1>3. /\ n \in Nat /\ DOMAIN notify = 1 .. n /\ DOMAIN notify' = 1 .. n + 1
      /\ \A i \in 1 .. n : notify'[i] = notify[i]
      /\ notify'[n + 1] = r /\ r.h = h
      /\ Len(notify') = n + 1
  BY <1>2 DEF OwedInv, Numbered, IsQueue
<1> HIDE DEF r, n
<1>4. IsQueue(notify')
  <2>1. notify' = [i \in 1 .. n + 1 |-> notify'[i]]
    BY <1>2, <1>3 DEF n, OwedInv, Numbered, IsQueue
  <2>2. \A i \in 1 .. n + 1 : notify'[i] \in Elements(notify')
    BY <1>3 DEF Elements
  <2> QED
    BY <1>3, <2>1, <2>2 DEF IsQueue
<1>5. \A i \in 1 .. n : notify[i].h # h
  BY <1>2, <1>3 DEF Elements
<1>6. \A i, j \in DOMAIN notify' : notify'[i].h = notify'[j].h => i = j
  BY <1>3, <1>5 DEF OwedInv, Numbered
<1>7. Numbered'
  BY <1>1, <1>4, <1>6 DEF OwedInv, Numbered
<1>8. Elements(notify) \subseteq Elements(notify')
  BY <1>3 DEF Elements
<1>9. \A c : Queued(c) => Queued(c)'
  BY <1>1, <1>8 DEF Queued, Registered, IsKeyRegistered
<1>10. \A c : Later(c) => Later(c)'
  <2>1. \A i \in DOMAIN notify : i \in DOMAIN notify' /\ notify'[i] = notify[i]
    BY <1>3
  <2>2. \A k2 : Registered(k2) \subseteq Registered(k2)'
    BY <1>8 DEF Registered, IsKeyRegistered
  <2> QED
    BY <1>1, <2>1, <2>2 DEF Later
<1> QED
  BY <1>1, <1>7, <1>9, <1>10 DEF OwedInv

(* An entry goes with its calls, never the handler's: the rest keeps its order. *)
LEMMA UnregisterOwed ==
  ASSUME OwedInv, NEW i \in DOMAIN notify, UnregisterKeyNotify(i)
  PROVE  OwedInv'
<1> DEFINE n == Len(notify)
           to(j) == IF j < i THEN j ELSE j - 1
<1>1. /\ UNCHANGED <<typed, notifyq, handler>> /\ handler.at # notify[i]
      /\ owed' = {c \in owed : c[2] # notify[i].h}
      /\ notify' = [j \in 1 .. n - 1 |-> IF j < i THEN notify[j] ELSE notify[j + 1]]
  BY DEF UnregisterKeyNotify, queues, Without
<1>2. n \in Nat \ {0} /\ DOMAIN notify = 1 .. n /\ i \in 1 .. n
  BY DEF OwedInv, Numbered, IsQueue
<1> HIDE DEF n
<1>3. /\ DOMAIN notify' = 1 .. n - 1 /\ Len(notify') = n - 1
      /\ \A j \in 1 .. n - 1 : notify'[j] = IF j < i THEN notify[j] ELSE notify[j + 1]
  BY <1>1, <1>2
<1>4. IsQueue(notify')
  <2>1. \A j \in 1 .. n - 1 : notify'[j] \in Elements(notify')
    BY <1>3 DEF Elements
  <2> QED
    BY <1>1, <1>2, <1>3, <2>1 DEF IsQueue
<1>5. ASSUME NEW j \in 1 .. n, j # i
      PROVE  to(j) \in 1 .. n - 1 /\ notify'[to(j)] = notify[j]
  <2>1. CASE j < i
    BY <1>2, <1>3, <2>1
  <2>2. CASE ~(j < i)
    <3>1. j - 1 \in 1 .. n - 1 /\ ~(j - 1 < i) /\ (j - 1) + 1 = j
      BY <1>2, <1>5, <2>2
    <3> QED
      BY <1>3, <2>2, <3>1
  <2> QED
    BY <2>1, <2>2
<1>6. ASSUME NEW j \in 1 .. n, NEW l \in 1 .. n, j # i, l # i, j < l PROVE to(j) < to(l)
  BY <1>2, <1>6
<1>7. \A j, l \in DOMAIN notify' : notify'[j].h = notify'[l].h => j = l
  <2> SUFFICES ASSUME NEW j \in 1 .. n - 1, NEW l \in 1 .. n - 1, notify'[j].h = notify'[l].h PROVE j = l
    BY <1>3
  <2> DEFINE fj == IF j < i THEN j ELSE j + 1
             fl == IF l < i THEN l ELSE l + 1
  <2>1. fj \in 1 .. n /\ fl \in 1 .. n /\ notify'[j] = notify[fj] /\ notify'[l] = notify[fl]
    BY <1>2, <1>3
  <2>2. fj = fl
    BY <1>2, <2>1 DEF OwedInv, Numbered
  <2> QED
    BY <1>2, <2>2
<1>8. Numbered'
  BY <1>1, <1>4, <1>7 DEF OwedInv, Numbered
<1>9. \A c : c[2] # notify[i].h /\ Queued(c) => Queued(c)'
  <2> SUFFICES ASSUME NEW c, c[2] # notify[i].h, Queued(c) PROVE Queued(c)'
    OBVIOUS
  <2>1. PICK s \in Elements(notifyq) : s.n = c[1] /\ \E r \in Registered(s.k) : r.h = c[2]
    BY DEF Queued
  <2>2. PICK j \in 1 .. n : notify[j].h = c[2] /\ IsKeyRegistered(notify[j], s.k, FALSE)
    BY <1>2, <2>1 DEF Registered, Elements
  <2>3. notify[j] \in Elements(notify')
    BY <1>3, <1>5, <2>2 DEF Elements
  <2> QED
    BY <1>1, <2>1, <2>2, <2>3 DEF Queued, Registered
<1>10. \A c : c[2] # notify[i].h /\ Later(c) => Later(c)'
  <2> SUFFICES ASSUME NEW c, c[2] # notify[i].h, Later(c) PROVE Later(c)'
    OBVIOUS
  <2>1. PICK a \in 1 .. n, b \in 1 .. n : /\ a < b /\ notify[a] = handler.at
                                        /\ notify[b].h = c[2] /\ IsKeyRegistered(notify[b], handler.e.k, FALSE)
    BY <1>2 DEF Later, Registered
  <2>2. a # i /\ b # i
    BY <1>1, <2>1
  <2>3. to(a) < to(b) /\ to(a) \in DOMAIN notify' /\ to(b) \in DOMAIN notify'
        /\ notify'[to(a)] = notify[a] /\ notify'[to(b)] = notify[b]
    BY <1>3, <1>5, <1>6, <2>1, <2>2
  <2> HIDE DEF to
  <2>4. notify'[to(b)] \in Elements(notify')
    BY <2>3 DEF Elements
  <2> QED
    BY <1>1, <2>1, <2>3, <2>4 DEF Later, Registered
<1> QED
  BY <1>1, <1>8, <1>9, <1>10 DEF OwedInv

(* The handler takes the next entry of the list: calls of its stroke that are *)
(* owed lie at from or later, the others have their strokes in the queue.    *)
LEMMA VisitOwed ==
  ASSUME OwedInv, NEW from \in Nat, NEW e, Visit(from, e), UNCHANGED <<typed, notify>>,
         IsQueue(notifyq'), Elements(notifyq') \subseteq Elements(notifyq),
         e.n \in 1 .. typed, \A s \in Elements(notifyq') : s.n = e.n => s = e,
         \A c \in owed : IF c[1] = e.n
                         THEN \E j \in DOMAIN notify : j >= from /\ notify[j].h = c[2] /\ notify[j] \in Registered(e.k)
                         ELSE \E s \in Elements(notifyq') : s.n = c[1] /\ \E r \in Registered(s.k) : r.h = c[2]
  PROVE  OwedInv'
<1> DEFINE next == {i \in DOMAIN notify : i >= from /\ notify[i] \in Registered(e.k)}
<1>1. /\ typed \in Nat /\ DOMAIN notify = 1 .. Len(notify) /\ Len(notify) \in Nat
      /\ \A c \in owed : c = <<c[1], c[2]>> /\ c[1] \in 1 .. typed
  BY DEF OwedInv, Numbered, IsQueue
<1>2. \A c : c \in owed /\ c[1] # e.n => Queued(c)'
  BY DEF Queued, Registered
<1>3. CASE next = {}
  <2>1. handler'.pc = "pop" /\ handler'.e = NoStroke /\ owed' = owed
    BY <1>3 DEF Visit, Off
  <2>2. handler'.e.n = 0
    BY <2>1 DEF NoStroke
  <2>3. \A c \in owed : c[1] # e.n
    BY <1>3
  <2>4. Numbered'
    BY <1>1, <2>1, <2>2 DEF OwedInv, Numbered
  <2> QED
    BY <1>1, <1>2, <2>1, <2>2, <2>3, <2>4 DEF OwedInv
<1>4. CASE next # {}
  <2> DEFINE m == Min(next)
  <2>1. m \in next /\ \A i \in next : m <= i
    <3>1. next \in SUBSET Nat
      BY <1>1
    <3> HIDE DEF next
    <3> QED
      BY <1>4, <3>1, MinIsLeast
  <2>2. /\ handler'.pc = "call" /\ handler'.e = e /\ handler'.at = notify[m]
        /\ owed' = owed \ {<<e.n, notify[m].h>>}
    BY <1>4 DEF Visit
  <2> HIDE DEF m
  <2>3. Numbered'
    BY <1>1, <2>2 DEF OwedInv, Numbered
  <2>4. ASSUME NEW c \in owed', c[1] = e.n PROVE Later(c)'
    <3>1. c \in owed /\ c # <<e.n, notify[m].h>>
      BY <2>2
    <3>2. PICK j \in DOMAIN notify : j >= from /\ notify[j].h = c[2] /\ notify[j] \in Registered(e.k)
      BY <2>4, <3>1
    <3>3. c = <<c[1], c[2]>>
      BY <1>1, <3>1
    <3>4. m # j
      BY <2>4, <3>1, <3>2, <3>3
    <3>5. m < j /\ m \in DOMAIN notify
      BY <1>1, <2>1, <3>2, <3>4
    <3> QED
      BY <2>2, <3>2, <3>5 DEF Later, Registered
  <2> QED
    BY <1>1, <1>2, <2>2, <2>3, <2>4 DEF OwedInv
<1> QED
  BY <1>3, <1>4

(* A stroke taken from the queue is owed to the entries of the whole list.  *)
LEMMA NotifyPopOwed ==
  ASSUME OwedInv, NotifyPop
  PROVE  OwedInv'
<1>1. UNCHANGED <<typed, notify>> /\ handler.pc = "pop"
  BY DEF NotifyPop
<1>2. handler.e = NoStroke /\ handler.e.n = 0
  BY <1>1 DEF OwedInv, Numbered, NoStroke
<1>3. CASE notifyq = <<>>
  <2>1. Elements(notifyq) = {}
    BY <1>3 DEF Elements
  <2>2. owed = {}
    BY <1>2, <2>1 DEF OwedInv, Queued
  <2>3. notifyq' = notifyq /\ owed' = owed /\ handler' = Off
    BY <1>3 DEF NotifyPop
  <2>4. Numbered'
    BY <1>1, <2>1, <2>3 DEF OwedInv, Numbered, Off, NoStroke
  <2> QED
    BY <2>2, <2>3, <2>4 DEF OwedInv
<1>4. CASE notifyq # <<>>
  <2> DEFINE e == Head(notifyq)
  <2>1. notifyq' = Rest(notifyq) /\ Visit(1, e)
    BY <1>4 DEF NotifyPop
  <2>2. /\ IsQueue(notifyq') /\ Elements(notifyq') \subseteq Elements(notifyq) /\ e \in Elements(notifyq)
        /\ \A s \in Elements(notifyq) : s = e \/ s \in Elements(notifyq')
    BY <1>4, <2>1, RestElements DEF OwedInv, Numbered
  <2> HIDE DEF e
  <2>3. e.n \in 1 .. typed /\ \A s \in Elements(notifyq) : s.n = e.n => s = e
    BY <2>2 DEF OwedInv, Numbered
  <2>4. ASSUME NEW c \in owed
        PROVE  IF c[1] = e.n
               THEN \E j \in DOMAIN notify : j >= 1 /\ notify[j].h = c[2] /\ notify[j] \in Registered(e.k)
               ELSE \E s \in Elements(notifyq') : s.n = c[1] /\ \E r \in Registered(s.k) : r.h = c[2]
    <3>1. c[1] \in 1 .. typed /\ Queued(c)
      BY <1>2 DEF OwedInv
    <3>2. PICK s \in Elements(notifyq) : s.n = c[1] /\ \E r \in Registered(s.k) : r.h = c[2]
      BY <3>1 DEF Queued
    <3>3. CASE c[1] = e.n
      <4>1. s = e
        BY <2>3, <3>2, <3>3
      <4>2. PICK r \in Registered(e.k) : r.h = c[2]
        BY <3>2, <4>1
      <4>3. PICK j \in DOMAIN notify : notify[j] = r
        BY DEF Registered, Elements
      <4>4. j >= 1
        BY DEF OwedInv, Numbered, IsQueue
      <4> QED
        BY <3>3, <4>2, <4>3, <4>4
    <3>4. CASE c[1] # e.n
      BY <2>2, <3>2, <3>4
    <3> QED
      BY <3>3, <3>4
  <2> QED
    BY <1>1, <2>1, <2>2, <2>3, <2>4, VisitOwed
<1> QED
  BY <1>3, <1>4

(* A function returned: the handler looks behind its entry.                 *)
LEMMA FnReturnsOwed ==
  ASSUME OwedInv, FnReturns
  PROVE  OwedInv'
<1> DEFINE e == handler.e
<1>1. /\ UNCHANGED <<typed, notify, notifyq>> /\ handler.pc = "call"
      /\ \E i \in DOMAIN notify : notify[i] = handler.at /\ Visit(i + 1, e)
  BY DEF FnReturns, queues
<1>2. PICK i \in DOMAIN notify : notify[i] = handler.at /\ Visit(i + 1, e)
  BY <1>1
<1>3. i \in Nat /\ DOMAIN notify \subseteq Nat
  BY DEF OwedInv, Numbered, IsQueue
<1>4. IsQueue(notifyq) /\ (\A s \in Elements(notifyq) : s.n = e.n => s = e) /\ e.n \in 0 .. typed
  BY DEF OwedInv, Numbered
<1>5. ASSUME NEW c \in owed
      PROVE  IF c[1] = e.n
             THEN \E j \in DOMAIN notify : j >= i + 1 /\ notify[j].h = c[2] /\ notify[j] \in Registered(e.k)
             ELSE \E s \in Elements(notifyq) : s.n = c[1] /\ \E r \in Registered(s.k) : r.h = c[2]
  <2>1. CASE c[1] = e.n
    <3>1. PICK a \in DOMAIN notify, j \in DOMAIN notify :
             /\ a < j /\ notify[a] = handler.at /\ notify[j].h = c[2] /\ notify[j] \in Registered(e.k)
      BY <2>1 DEF OwedInv, Later
    <3>2. a = i
      BY <1>2, <3>1 DEF OwedInv, Numbered
    <3> QED
      BY <1>3, <2>1, <3>1, <3>2
  <2>2. CASE c[1] # e.n
    BY <2>2 DEF OwedInv, Queued
  <2> QED
    BY <2>1, <2>2
<1>6. e.n \in 1 .. typed
  BY <1>1, <1>4 DEF OwedInv, Numbered
<1> QED
  BY <1>1, <1>2, <1>3, <1>4, <1>5, <1>6, VisitOwed

(* The owed calls stay within reach through every step of the program.      *)
LEMMA OwedStep == OwedInv /\ [Next]_vars => OwedInv'
<1> SUFFICES ASSUME OwedInv, [Next]_vars PROVE OwedInv'
  OBVIOUS
<1>1. CASE TimerEvent \/ ReadKeyStroke \/ ReadKeyStrokeEx \/ WaitForKey \/ EndScan
           \/ Start \/ Install \/ StopFails \/ UNCHANGED vars
  <2>1. UNCHANGED <<typed, notify, notifyq, handler, owed>>
    BY <1>1 DEF TimerEvent, ReadKeyStroke, ReadKeyStrokeEx, WaitForKey, BeginScan, EndScan,
       Start, Install, StopFails, vars, queues, history
  <2> QED
    BY <2>1, OwedStays
<1>2. ASSUME NEW k \in KeyNames, Type(k) PROVE OwedInv'
  BY <1>2, TypeOwed
<1>3. CASE EfiReset \/ EfiResetEx
  BY <1>3, ResetOwed DEF EfiResetEx
<1>4. ASSUME NEW fn \in Fns, NEW k \in KeyNames, NEW shift \in BOOLEAN, RegisterKeyNotify(fn, k, shift)
      PROVE  OwedInv'
  BY <1>4, RegisterOwed
<1>5. ASSUME NEW i \in DOMAIN notify, UnregisterKeyNotify(i) PROVE OwedInv'
  BY <1>5, UnregisterOwed
<1>6. CASE Dispatch
  <2>1. /\ UNCHANGED <<typed, notify, notifyq, owed>>
        /\ handler'.e = NoStroke /\ handler'.pc = "pop" /\ handler.pc = "off"
    BY <1>6 DEF Dispatch, Off, queues, history
  <2>2. handler.e = NoStroke
    BY <2>1 DEF OwedInv, Numbered
  <2>3. NoStroke.n = 0
    BY DEF NoStroke
  <2>4. Numbered'
    BY <2>1, <2>2 DEF OwedInv, Numbered, Elements, IsQueue
  <2>5. ASSUME NEW c \in owed'
        PROVE  /\ c = <<c[1], c[2]>> /\ c[1] \in 1 .. typed'
               /\ c[1] # 0 /\ Queued(c)'
    <3>1. c \in owed
      BY <2>1
    <3>2. c = <<c[1], c[2]>> /\ c[1] \in 1 .. typed /\ typed \in Nat
      BY <3>1 DEF OwedInv, Numbered
    <3>3. c[1] # handler.e.n
      BY <2>2, <2>3, <3>2
    <3>4. Queued(c)
      BY <3>1, <3>3 DEF OwedInv
    <3>5. notify' = notify /\ notifyq' = notifyq
      BY <2>1
    <3>6. Queued(c)'
      BY <3>4, <3>5 DEF Queued, Registered
    <3> QED
      BY <2>1, <2>3, <3>2, <3>3, <3>6, <2>2
  <2> QED
    BY <2>1, <2>3, <2>4, <2>5 DEF OwedInv
<1>7. CASE NotifyPop
  BY <1>7, NotifyPopOwed
<1>8. CASE FnReturns
  BY <1>8, FnReturnsOwed
<1>9. CASE StartFails \/ Stop
  <2>1. notify' = <<>> /\ notifyq' = <<>> /\ owed' = {} /\ UNCHANGED <<typed, handler>>
    BY <1>9 DEF StartFails, Stop, FreeDevice
  <2>2. IsQueue(<<>>) /\ Elements(<<>>) = {} /\ DOMAIN <<>> = {}
    BY DEF IsQueue, Elements
  <2>3. IsQueue(notify)' /\ IsQueue(notifyq)' /\ Elements(notifyq)' = {} /\ DOMAIN notify' = {}
    BY <2>1, <2>2 DEF IsQueue, Elements
  <2>4. Numbered'
    BY <2>1, <2>3 DEF OwedInv, Numbered
  <2> QED
    BY <2>1, <2>4 DEF OwedInv
<1> QED
  BY <1>1, <1>2, <1>3, <1>4, <1>5, <1>6, <1>7, <1>8, <1>9 DEF Next

(* When the application goes on, every function registered for a key typed   *)
(* so far was called: with the handler back and no wake-up left the queue is *)
(* empty, and a call still owed would have its stroke in it.                *)
THEOREM NotifiedBeforeQuiet == Spec => []NotifiedFirst
<1>1. Init => OwedInv
  BY OwedInit
<1>2. OwedInv /\ NotifyPending => NotifiedFirst
  <2> SUFFICES ASSUME OwedInv, NotifyPending, Quiet, NEW c \in owed PROVE FALSE
    BY DEF NotifiedFirst
  <2>1. notifyq = <<>> /\ handler.pc = "off"
    BY DEF Quiet, NotifyPending
  <2>2. handler.e.n = 0
    BY <2>1 DEF OwedInv, Numbered, NoStroke
  <2>3. Queued(c)
    BY <2>2 DEF OwedInv, Numbered
  <2> QED
    BY <2>1, <2>3 DEF Queued, Elements
<1> QED
  BY <1>1, <1>2, OwedStep, NoLostWakeup, PTL DEF Spec
-----------------------------------------------------------------------------
(* The ring buffer: type correctness, then the refinement of KeyFifo,       *)
(* operation by operation.                                                 *)

(* The index arithmetic: a step of an index wraps at the end of the buffer. *)
LEMMA AdvancedWraps ==
  ASSUME NEW i \in Slots
  PROVE  Advanced(i) \in Slots /\ Advanced(i) = IF i + 1 = Size THEN 0 ELSE i + 1
<1>1. Size \in Nat /\ Size > 0 /\ i \in 0 .. Size - 1
  BY QueueAssumption DEF Slots
<1>2. Advanced(i) = IF i + 1 = Size THEN 0 ELSE i + 1
  <2>1. CASE i + 1 = Size
    BY <1>1, <2>1 DEF Advanced
  <2>2. CASE i + 1 < Size
    BY <1>1, <2>2 DEF Advanced
  <2> QED
    BY <1>1, <2>1, <2>2
<1> QED
  BY <1>1, <1>2 DEF Slots

(* Every index stays inside the buffer and the buffer holds keys only,      *)
(* through every push, pop, wait and reset of the key queues.               *)
THEOREM RingTypeCorrect == QueueSpec => []QueueTypeOK
<1>1. QueueInit => QueueTypeOK
  BY QueueAssumption DEF QueueInit, QueueTypeOK, Did, Slots
<1>2. QueueTypeOK /\ [QueueNext]_queueVars => QueueTypeOK'
  <2> SUFFICES ASSUME QueueTypeOK, [QueueNext]_queueVars PROVE QueueTypeOK'
    OBVIOUS
  <2> USE QueueAssumption DEF QueueTypeOK, Did
  <2>1. ASSUME NEW k \in Keys, Push(k) PROVE QueueTypeOK'
    <3>1. Advanced(tail) \in Slots /\ Advanced(head) \in Slots
      BY AdvancedWraps
    <3> QED
      BY <2>1, <3>1 DEF Push
  <2>2. CASE Pop
    <3>1. Advanced(head) \in Slots
      BY AdvancedWraps
    <3> QED
      BY <2>2, <3>1 DEF Pop
  <2>3. CASE WaitForKeyPops
    <3>1. ASSUME NEW n \in 0 .. Count PROVE Slot(n + 1) \in Slots
      BY DEF Slot, Count, Slots
    <3> QED
      BY <2>3, <3>1 DEF WaitForKeyPops
  <2>4. CASE Reset
    BY <2>4 DEF Reset, Slots
  <2>5. CASE UNCHANGED queueVars
    BY <2>5 DEF queueVars
  <2> QED
    BY <2>1, <2>2, <2>3, <2>4, <2>5 DEF QueueNext
<1> QED
  BY <1>1, <1>2, PTL DEF QueueSpec
-----------------------------------------------------------------------------
(* The sequence that a ring of the right type stands for.                  *)
ContentsFacts ==
  /\ Count \in 0 .. Size - 1
  /\ \A i \in 1 .. Count : Slot(i) \in Slots /\ buffer[Slot(i)] \in Keys
  /\ Contents \in Seq(Keys)
  /\ Len(Contents) = Count
  /\ \A i \in 1 .. Count : Contents[i] = buffer[Slot(i)]

(* Contents is a sequence of Count keys, read off the slots in order.      *)
LEMMA ContentsProperties == QueueTypeOK => ContentsFacts
<1> SUFFICES ASSUME QueueTypeOK PROVE ContentsFacts
  OBVIOUS
<1>1. Count \in 0 .. Size - 1
  BY QueueAssumption DEF QueueTypeOK, Count, Slots
<1>2. ASSUME NEW i \in 1 .. Count
      PROVE  Slot(i) \in Slots /\ buffer[Slot(i)] \in Keys
  BY <1>1, QueueAssumption DEF QueueTypeOK, Slot, Count, Slots
<1>3. Contents \in [1 .. Count -> Keys]
  BY <1>2 DEF Contents
<1>4. Contents \in Seq(Keys) /\ Len(Contents) = Count
  BY <1>1, <1>3
<1> QED
  BY <1>1, <1>2, <1>4 DEF Contents, ContentsFacts

(* Emptiness and fullness, seen from the indices and from the keys.        *)
LEMMA EmptyAndFull ==
  ASSUME QueueTypeOK
  PROVE  /\ IsEfikeyBufEmpty <=> Count = 0
         /\ IsFull <=> Count = Size - 1
<1>1. Advanced(tail) = IF tail + 1 = Size THEN 0 ELSE tail + 1
  BY AdvancedWraps DEF QueueTypeOK
<1> QED
  BY <1>1, QueueAssumption DEF QueueTypeOK, IsEfikeyBufEmpty, IsFull, Count, Slots

(* A push appends its key, after dropping the oldest of a full queue.      *)
LEMMA PushImplements ==
  ASSUME QueueTypeOK, QueueTypeOK', NEW k \in Keys, Push(k)
  PROVE  Fifo!Push(k)
<1> USE QueueAssumption
<1>1. /\ Advanced(tail) = IF tail + 1 = Size THEN 0 ELSE tail + 1
      /\ Advanced(head) = IF head + 1 = Size THEN 0 ELSE head + 1
  BY AdvancedWraps DEF QueueTypeOK
<1>2. /\ head \in 0 .. Size - 1 /\ tail \in 0 .. Size - 1
      /\ tail' = Advanced(tail) /\ did' = Did("push", k)
      /\ buffer' = [buffer EXCEPT ![tail] = k]
      /\ buffer \in [0 .. Size - 1 -> Keys]
  BY DEF Push, QueueTypeOK, Slots
<1>3. ContentsFacts /\ ContentsFacts'
  <2>1. QueueTypeOK' => ContentsFacts'
    BY ContentsProperties, PTL
  <2> QED
    BY ContentsProperties, <2>1
<1>4. CASE IsFull
  <2>1. Count = Size - 1 /\ head' = Advanced(head)
    BY <1>4, EmptyAndFull DEF Push
  <2>2. Count' = Size - 1
    BY <1>1, <1>2, <2>1 DEF Count
  <2>3. ASSUME NEW i \in 1 .. Size - 2
        PROVE  Contents'[i] = Contents[i + 1]
    <3>1. Slot(i)' = Slot(i + 1) /\ Slot(i + 1) \in 0 .. Size - 1 /\ Slot(i + 1) # tail
      BY <1>1, <1>2, <2>1 DEF Slot, Count
    <3>2. buffer'[Slot(i)'] = buffer[Slot(i + 1)]
      BY <1>2, <3>1
    <3> QED
      BY <1>3, <2>1, <2>2, <3>2 DEF ContentsFacts
  <2>4. Contents'[Size - 1] = k
    <3>1. Slot(Size - 1)' = tail
      BY <1>1, <1>2, <2>1, <2>2 DEF Slot, Count
    <3>2. buffer'[Slot(Size - 1)'] = k
      BY <1>2, <3>1
    <3> QED
      BY <1>3, <2>2, <3>2 DEF ContentsFacts
  <2>5. /\ Tail(Contents) \in Seq(Keys) /\ Len(Tail(Contents)) = Size - 2
        /\ \A i \in 1 .. Size - 2 : Tail(Contents)[i] = Contents[i + 1]
    <3>1. Contents # <<>>
      BY <1>3, <2>1 DEF ContentsFacts
    <3> QED
      BY <1>3, <2>1, <3>1, HeadTailProperties DEF ContentsFacts
  <2>6. Contents' = Append(Tail(Contents), k)
    <3> DEFINE new == Append(Tail(Contents), k)
    <3>1. /\ new \in Seq(Keys) /\ Len(new) = Size - 1
          /\ \A i \in 1 .. Size - 2 : new[i] = Tail(Contents)[i]
          /\ new[Size - 1] = k
      BY <2>5, AppendProperties
    <3>2. \A i \in 1 .. Size - 1 : Contents'[i] = new[i]
      BY <2>3, <2>4, <2>5, <3>1
    <3> HIDE DEF new
    <3>3. Contents' = new
      BY <1>3, <2>2, <3>1, <3>2, SeqEqual DEF ContentsFacts
    <3> QED
      BY <3>3 DEF new
  <2> QED
    BY <1>2, <1>3, <2>1, <2>6 DEF Did, Fifo!Did, Fifo!Push, Fifo!Pushed, ContentsFacts
<1>5. CASE ~IsFull
  <2>1. Count < Size - 1 /\ head' = head
    BY <1>3, <1>5, EmptyAndFull DEF Push, ContentsFacts
  <2>2. Count' = Count + 1
    BY <1>1, <1>2, <2>1 DEF Count
  <2>3. ASSUME NEW i \in 1 .. Count
        PROVE  Contents'[i] = Contents[i]
    <3>1. Slot(i)' = Slot(i) /\ Slot(i) \in 0 .. Size - 1 /\ Slot(i) # tail
      BY <1>2, <2>1 DEF Slot, Count
    <3>2. buffer'[Slot(i)'] = buffer[Slot(i)]
      BY <1>2, <3>1
    <3> QED
      BY <1>3, <2>2, <3>2 DEF ContentsFacts
  <2>4. ASSUME NEW i \in 1 .. Size - 1, i = Count + 1
        PROVE  Contents'[i] = k
    <3>1. Slot(i)' = tail
      BY <1>2, <2>1, <2>4 DEF Slot, Count
    <3>2. buffer'[Slot(i)'] = k
      BY <1>2, <3>1
    <3> QED
      BY <1>3, <2>2, <2>4, <3>2 DEF ContentsFacts
  <2>5. Contents' = Append(Contents, k)
    <3> DEFINE new == Append(Contents, k)
    <3>1. /\ new \in Seq(Keys) /\ Len(new) = Count + 1
          /\ \A i \in 1 .. Count : new[i] = Contents[i]
          /\ new[Count + 1] = k
      BY <1>3, AppendProperties DEF ContentsFacts
    <3>2. \A i \in 1 .. Count + 1 : Contents'[i] = new[i]
      BY <1>3, <2>1, <2>3, <2>4, <3>1 DEF ContentsFacts
    <3> HIDE DEF new
    <3>3. Contents' = new
      BY <1>3, <2>2, <3>1, <3>2, SeqEqual DEF ContentsFacts
    <3> QED
      BY <3>3 DEF new
  <2> QED
    BY <1>2, <1>3, <2>1, <2>5 DEF Did, Fifo!Did, Fifo!Push, Fifo!Pushed, ContentsFacts
<1> QED
  BY <1>4, <1>5

(* Moving the head over n keys removes the n oldest.                       *)
LEMMA HeadMoves ==
  ASSUME QueueTypeOK, QueueTypeOK', NEW n \in 0 .. Count,
         head' = Slot(n + 1), tail' = tail, buffer' = buffer
  PROVE  Contents' = SubSeq(Contents, n + 1, Len(Contents))
<1> USE QueueAssumption
<1>1. /\ head \in 0 .. Size - 1 /\ tail \in 0 .. Size - 1
      /\ head' \in 0 .. Size - 1
  BY DEF QueueTypeOK, Slots
<1>2. ContentsFacts /\ ContentsFacts'
  <2>1. QueueTypeOK' => ContentsFacts'
    BY ContentsProperties, PTL
  <2> QED
    BY ContentsProperties, <2>1
<1>3. Count \in 0 .. Size - 1 /\ Count' = Count - n
  BY <1>1, <1>2 DEF Count, Slot, ContentsFacts
<1>4. ASSUME NEW i \in 1 .. Count - n
      PROVE  Contents'[i] = Contents[n + i]
  <2>1. Slot(i)' = Slot(n + i)
    BY <1>1, <1>3 DEF Slot, Count
  <2> QED
    BY <1>2, <1>3, <2>1 DEF ContentsFacts
<1> DEFINE rest == SubSeq(Contents, n + 1, Count)
<1>5. /\ rest \in Seq(Keys) /\ Len(rest) = Count - n
      /\ \A i \in 1 .. Count - n : rest[i] = Contents[n + i]
  <2>1. \A i \in n + 1 .. Count : Contents[i] \in Keys
    BY <1>2 DEF ContentsFacts
  <2>2. n + 1 \in Int /\ Count \in Int
    BY <1>3
  <2>3. /\ rest \in Seq(Keys)
        /\ Len(rest) = IF n + 1 <= Count THEN Count - (n + 1) + 1 ELSE 0
        /\ \A i \in 1 .. Count - (n + 1) + 1 : rest[i] = Contents[n + 1 + i - 1]
    BY <2>1, <2>2, SubSeqProperties
  <2> QED
    BY <1>3, <2>3
<1>6. \A i \in 1 .. Count - n : Contents'[i] = rest[i]
  BY <1>4, <1>5
<1> HIDE DEF rest
<1>7. Contents' = rest
  BY <1>2, <1>3, <1>5, <1>6, SeqEqual DEF ContentsFacts
<1> QED
  BY <1>2, <1>7 DEF rest, ContentsFacts

(* A pop takes the oldest key, or reports that there is none.              *)
LEMMA PopImplements ==
  ASSUME QueueTypeOK, QueueTypeOK', Pop
  PROVE  Fifo!Pop
<1> USE QueueAssumption
<1>1. ContentsFacts
  BY ContentsProperties
<1>2. CASE IsEfikeyBufEmpty
  <2>1. Contents = <<>>
    BY <1>1, <1>2, EmptyAndFull DEF ContentsFacts
  <2>2. Contents' = Contents /\ did' = Did("pop", NotReady)
    BY <1>2 DEF Pop, Contents, Count, Slot
  <2> QED
    BY <2>1, <2>2 DEF Did, Fifo!Did, Fifo!Pop, Fifo!First, Fifo!Rest
<1>3. CASE ~IsEfikeyBufEmpty
  <2>1. Count \in 1 .. Size - 1 /\ Contents # <<>>
    BY <1>1, <1>3, EmptyAndFull DEF ContentsFacts
  <2>2. Slot(1) = head /\ Slot(2) = Advanced(head)
    <3>1. Advanced(head) = IF head + 1 = Size THEN 0 ELSE head + 1
      BY AdvancedWraps DEF QueueTypeOK
    <3> QED
      BY <3>1 DEF Slot, QueueTypeOK, Slots
  <2>3. did' = Did("pop", Head(Contents))
    BY <1>1, <1>3, <2>1, <2>2 DEF Pop, ContentsFacts
  <2>4. Contents' = SubSeq(Contents, 2, Len(Contents))
    <3>1. head' = Slot(1 + 1) /\ tail' = tail /\ buffer' = buffer
      BY <1>3, <2>2 DEF Pop
    <3> QED
      BY <2>1, <3>1, HeadMoves
  <2>5. Contents' = Tail(Contents)
    BY <1>1, <2>1, <2>4, TailIsSubSeq DEF ContentsFacts
  <2> QED
    BY <2>1, <2>3, <2>5 DEF Did, Fifo!Did, Fifo!Pop, Fifo!First, Fifo!Rest
<1> QED
  BY <1>2, <1>3

(* Waiting drops the partial keys at the head and reports what is left.    *)
LEMMA WaitImplements ==
  ASSUME QueueTypeOK, QueueTypeOK', WaitForKeyPops
  PROVE  Fifo!Wait
<1> USE QueueAssumption
<1>1. PICK n \in 0 .. Count :
        /\ \A i \in 1 .. n : buffer[Slot(i)] = Partial
        /\ n < Count => buffer[Slot(n + 1)] # Partial
        /\ head' = Slot(n + 1)
        /\ did' = Did("wait", IF n = Count THEN NotReady ELSE buffer[Slot(n + 1)])
        /\ tail' = tail /\ buffer' = buffer
  BY DEF WaitForKeyPops
<1>2. ContentsFacts /\ ContentsFacts'
  <2>1. QueueTypeOK' => ContentsFacts'
    BY ContentsProperties, PTL
  <2> QED
    BY ContentsProperties, <2>1
<1>3. Contents' = SubSeq(Contents, n + 1, Len(Contents))
  BY <1>1, HeadMoves
<1>4. Fifo!SkipsTo(Contents, n)
  BY <1>1, <1>2 DEF Fifo!SkipsTo, ContentsFacts
<1>5. did' = Did("wait", Fifo!First(Contents'))
  <2>1. CASE n = Count
    <3>1. Contents' = <<>>
      BY <1>2, <1>3, <2>1, SubSeqEmpty DEF ContentsFacts
    <3> QED
      BY <1>1, <2>1, <3>1 DEF Fifo!First
  <2>2. CASE n < Count
    <3>1. n + 1 \in 1 .. Len(Contents) /\ Len(Contents) \in n + 1 .. Len(Contents)
      BY <1>2, <2>2 DEF ContentsFacts
    <3>2. Head(Contents') = Contents[n + 1]
      BY <1>2, <1>3, <3>1, HeadTailOfSubSeq DEF ContentsFacts
    <3>3. Contents[n + 1] = buffer[Slot(n + 1)]
      BY <1>2, <2>2 DEF ContentsFacts
    <3>4. Contents' # <<>>
      <4>1. \A i \in n + 1 .. Len(Contents) : Contents[i] \in Keys
        BY <1>2 DEF ContentsFacts
      <4>2. Len(Contents') = Len(Contents) - (n + 1) + 1
        BY <1>2, <1>3, <3>1, <4>1, SubSeqProperties DEF ContentsFacts
      <4> QED
        BY <1>2, <3>1, <4>2 DEF ContentsFacts
    <3> QED
      BY <1>1, <2>2, <3>2, <3>3, <3>4 DEF Fifo!First
  <2> QED
    BY <1>2, <2>1, <2>2 DEF ContentsFacts
<1> QED
  BY <1>2, <1>3, <1>4, <1>5 DEF Did, Fifo!Did, Fifo!Wait, ContentsFacts

(* The ring of any size implements the bounded queue: no wrap, overrun,     *)
(* wait or reset loses, repeats or reorders a key it should have kept.      *)
THEOREM RingIsFifo == QueueSpec => IsFifo
<1>1. QueueInit => Fifo!FifoInit
  <2> SUFFICES ASSUME QueueInit PROVE Fifo!FifoInit
    OBVIOUS
  <2>1. Count = 0
    BY DEF QueueInit, Count
  <2>2. Contents = <<>>
    BY <2>1 DEF Contents
  <2> QED
    BY <2>2 DEF QueueInit, Did, Fifo!Did, Fifo!FifoInit
<1>2. QueueTypeOK /\ QueueTypeOK' /\ [QueueNext]_queueVars => [Fifo!FifoNext]_(Fifo!fifoVars)
  <2> SUFFICES ASSUME QueueTypeOK, QueueTypeOK', [QueueNext]_queueVars
               PROVE  [Fifo!FifoNext]_(Fifo!fifoVars)
    OBVIOUS
  <2>1. ASSUME NEW k \in Keys, Push(k) PROVE Fifo!FifoNext
    BY <2>1, PushImplements DEF Fifo!FifoNext
  <2>2. CASE Pop
    BY <2>2, PopImplements DEF Fifo!FifoNext
  <2>3. CASE WaitForKeyPops
    BY <2>3, WaitImplements DEF Fifo!FifoNext
  <2>4. CASE Reset
    <3>1. Count' = 0
      BY <2>4 DEF Reset, Count
    <3>2. Contents' = <<>>
      BY <3>1 DEF Contents
    <3> QED
      BY <2>4, <3>2 DEF Reset, Did, Fifo!Did, Fifo!Reset, Fifo!FifoNext
  <2>5. CASE UNCHANGED queueVars
    BY <2>5 DEF queueVars, Fifo!fifoVars, Contents, Count, Slot
  <2> QED
    BY <2>1, <2>2, <2>3, <2>4, <2>5 DEF QueueNext
<1> QED
  BY <1>1, <1>2, RingTypeCorrect, PTL DEF QueueSpec, IsFifo, Fifo!FifoSpec
-----------------------------------------------------------------------------
(* KeyList names each valid key once, and Dial last.                       *)
LEMMA KeyListFacts ==
  /\ Len(KeyList) \in Nat \ {0}
  /\ \A i \in 1 .. Len(KeyList) : KeyList[i] \in ValidKeys
  /\ ValidKeys \subseteq AllKeys
  /\ "dial" \in ValidKeys
<1>1. Len(KeyList) \in Nat \ {0} /\ DOMAIN KeyList = 1 .. Len(KeyList)
  BY ScanAssumption
<1>2. \A i \in 1 .. Len(KeyList) : KeyList[i] \in ValidKeys /\ KeyList[i] \in AllKeys
  BY <1>1, ScanAssumption DEF ValidKeys, Range
<1> QED
  BY <1>1, <1>2, ScanAssumption DEF ValidKeys, Range

(* What the proofs need of the times.                                      *)
LEMMA TimeFacts == 0 \in 0 .. LongTime /\ LongTime \in Nat /\ Deltas \subseteq Nat
  BY ScanAssumption

(* The transitions of the switch in LibKeyUpdateKeyStatus, from context c   *)
(* of key k to the context and event u.                                     *)
TurnFacts(c, b, k, pressed, u) ==
  /\ c.state = "RELEASED" =>
       /\ u.event = NoEvent /\ u.c.state \in {"RELEASED", "PRESSED"}
       /\ u.c.longpress = c.longpress /\ u.c.repeat = c.repeat
  /\ c.state = "PRESSED" =>
       \/ /\ u.c.state = "PRESSED" /\ u.c.longpress = c.longpress
          /\ u.c.repeat = c.repeat
          /\ u.event = NoEvent \/ c.repeat
       \/ /\ u.c.state = "PRESSED" /\ ~c.longpress /\ u.c.longpress
          /\ u.event # NoEvent \/ (k # "dial" /\ b.uni)
          /\ k = "dial" => u.c.repeat = c.repeat
       \/ /\ u.c.state = "LONGPRESS_RELEASE" /\ ~c.longpress
          /\ u.event # NoEvent /\ u.c.repeat = c.repeat
       \/ u.c = Released /\ c.longpress /\ u.event = NoEvent
  /\ c.state = "LONGPRESS_RELEASE" => u.c = Released /\ u.event = NoEvent
  /\ u.event \in Combos => k = "dial" /\ pressed /\ u.event = Combo(b)

(* Every turn is one of them.                                              *)
LEMMA Transitions ==
  ASSUME NEW c \in Contexts, NEW b, NEW k \in AllKeys, NEW pressed \in BOOLEAN
  PROVE  TurnFacts(c, b, k, pressed, Updated(c, b, k, pressed))
<1> DEFINE u == Updated(c, b, k, pressed)
<1>0. u = Updated(c, b, k, pressed)
  OBVIOUS
<1> HIDE DEF u
<1> SUFFICES TurnFacts(c, b, k, pressed, u)
  BY <1>0
<1> USE DEF TurnFacts
<1>1. k # NoEvent /\ Combo(b) # NoEvent /\ k \notin Combos /\ NoEvent \notin Combos
  BY DEF AllKeys, ScanCodeKeys, UnicodeKeys, NoEvent, Combo, Combos
<1>2. CASE c.state = "PRESSED" /\ pressed
  <2>1. u = Held(c, b, k)
    BY <1>0, <1>2 DEF Updated
  <2>2. CASE Repeats(c)
    <3>1. u = Becomes([c EXCEPT !.time = 0], k)
      BY <2>1, <2>2 DEF Held, TurnsLong
    <3>2. u.event = k /\ u.c = [c EXCEPT !.time = 0]
      BY <3>1 DEF Becomes
    <3>3. u.c.state = "PRESSED" /\ u.c.longpress = c.longpress /\ u.c.repeat = c.repeat
      BY <1>2, <3>2 DEF Contexts
    <3> QED
      BY <1>1, <1>2, <2>2, <3>2, <3>3 DEF Repeats, TurnsLong
  <2>3. CASE TurnsLong(c) /\ k = "dial"
    <3>1. u = Becomes([c EXCEPT !.longpress = TRUE], Combo(b))
      BY <2>1, <2>3 DEF Held, TurnsLong
    <3>2. u.event = Combo(b) /\ u.c = [c EXCEPT !.longpress = TRUE]
      BY <3>1 DEF Becomes
    <3>3. u.c.state = "PRESSED" /\ u.c.longpress = TRUE /\ u.c.repeat = c.repeat
      BY <1>2, <3>2 DEF Contexts
    <3> QED
      BY <1>1, <1>2, <2>3, <3>2, <3>3 DEF Repeats, TurnsLong
  <2>4. CASE TurnsLong(c) /\ k # "dial" /\ ~b.uni
    <3>1. u = Becomes([c EXCEPT !.longpress = TRUE, !.repeat = TRUE, !.time = 0], k)
      BY <2>1, <2>4 DEF Held, TurnsLong
    <3>2. u.event = k /\ u.c = [c EXCEPT !.longpress = TRUE, !.repeat = TRUE, !.time = 0]
      BY <3>1 DEF Becomes
    <3>3. u.c.state = "PRESSED" /\ u.c.longpress = TRUE /\ u.c.repeat = TRUE
      BY <1>2, <3>2 DEF Contexts
    <3> QED
      BY <1>1, <1>2, <2>4, <3>2, <3>3 DEF Repeats, TurnsLong
  <2>5. CASE TurnsLong(c) /\ k # "dial" /\ b.uni
    <3>1. u = Becomes([c EXCEPT !.longpress = TRUE], NoEvent)
      BY <2>1, <2>5 DEF Held, TurnsLong
    <3>2. u.event = NoEvent /\ u.c = [c EXCEPT !.longpress = TRUE]
      BY <3>1 DEF Becomes
    <3>3. u.c.state = "PRESSED" /\ u.c.longpress = TRUE /\ u.c.repeat = c.repeat
      BY <1>2, <3>2 DEF Contexts
    <3> QED
      BY <1>1, <1>2, <2>5, <3>2, <3>3 DEF Repeats, TurnsLong
  <2>6. CASE ~Repeats(c) /\ ~TurnsLong(c)
    <3>1. u = Becomes(c, NoEvent)
      BY <2>1, <2>6 DEF Held
    <3>2. u.event = NoEvent /\ u.c = c
      BY <3>1 DEF Becomes
    <3> QED
      BY <1>1, <1>2, <3>2
  <2> QED
    BY <2>2, <2>3, <2>4, <2>5, <2>6
<1>3. CASE c.state = "PRESSED" /\ ~pressed
  <2>1. u = Lifted(c, k)
    BY <1>0, <1>3 DEF Updated
  <2>2. CASE ~c.longpress
    <3>1. u = Becomes([c EXCEPT !.state = "LONGPRESS_RELEASE"], k)
      BY <2>1, <2>2 DEF Lifted
    <3>2. u.event = k /\ u.c = [c EXCEPT !.state = "LONGPRESS_RELEASE"]
      BY <3>1 DEF Becomes
    <3>3. u.c.state = "LONGPRESS_RELEASE" /\ u.c.longpress = c.longpress /\ u.c.repeat = c.repeat
      BY <1>3, <3>2 DEF Contexts
    <3> QED
      BY <1>1, <1>3, <2>2, <3>2, <3>3 DEF Repeats, TurnsLong
  <2>3. CASE c.longpress
    <3>1. u = Becomes(c, NoEvent) \/ u = Becomes(Released, NoEvent)
      BY <2>1, <2>3 DEF Lifted
    <3>2. u.event = NoEvent /\ (u.c = c \/ u.c = Released)
      BY <3>1 DEF Becomes
    <3> QED
      BY <1>1, <1>3, <2>3, <3>2
  <2> QED
    BY <2>2, <2>3
<1>4. CASE c.state = "RELEASED" /\ pressed
  <2>1. u = Becomes([c EXCEPT !.time = 0, !.state = "PRESSED"], NoEvent)
    BY <1>0, <1>4 DEF Updated
  <2>2. u.event = NoEvent /\ u.c = [c EXCEPT !.time = 0, !.state = "PRESSED"]
    BY <2>1 DEF Becomes
  <2>3. u.c.state = "PRESSED" /\ u.c.longpress = c.longpress /\ u.c.repeat = c.repeat
    BY <2>2 DEF Contexts
  <2> QED
    BY <1>1, <1>4, <2>2, <2>3
<1>5. CASE c.state = "RELEASED" /\ ~pressed
  <2>1. u = Becomes(c, NoEvent)
    BY <1>0, <1>5 DEF Updated
  <2> QED
    BY <1>1, <1>5, <2>1 DEF Becomes
<1>6. CASE c.state = "LONGPRESS_RELEASE"
  <2>1. u = Becomes(Released, NoEvent)
    BY <1>0, <1>6 DEF Updated
  <2> QED
    BY <1>1, <1>6, <2>1 DEF Becomes
<1>7. c.state \in {"RELEASED", "PRESSED", "LONGPRESS_RELEASE"}
  BY DEF Contexts
<1> QED
  BY <1>2, <1>3, <1>4, <1>5, <1>6, <1>7

(* One turn of the switch gives a well-formed context and an event.        *)
LEMMA UpdatedType ==
  ASSUME NEW c \in Contexts, NEW b, NEW k \in AllKeys, NEW pressed \in BOOLEAN
  PROVE  /\ Updated(c, b, k, pressed).c \in Contexts
         /\ Updated(c, b, k, pressed).event \in Events \cup {NoEvent}
<1> DEFINE u == Updated(c, b, k, pressed)
<1>1. Combo(b) \in Events
  BY DEF Combo, Combos, Events
<1>2. Released \in Contexts
  BY ScanAssumption DEF Contexts, Released
<1>3. [c EXCEPT !.time = 0, !.state = "PRESSED"] \in Contexts
  BY TimeFacts DEF Contexts
<1>4. [c EXCEPT !.time = 0] \in Contexts
  BY TimeFacts DEF Contexts
<1>5. [c EXCEPT !.longpress = TRUE] \in Contexts
  BY DEF Contexts
<1>6. [c EXCEPT !.longpress = TRUE, !.repeat = TRUE, !.time = 0] \in Contexts
  BY TimeFacts DEF Contexts
<1>7. [c EXCEPT !.state = "LONGPRESS_RELEASE"] \in Contexts
  BY DEF Contexts
<1>8. \E d \in Contexts, e \in Events \cup {NoEvent} : u = Becomes(d, e)
  <2> HIDE DEF u
  <2>1. u = Updated(c, b, k, pressed)
    BY DEF u
  <2>2. k \in Events
    BY DEF Events
  <2>3. NoEvent \in Events \cup {NoEvent}
    OBVIOUS
  <2>4. \/ u = Becomes([c EXCEPT !.time = 0, !.state = "PRESSED"], NoEvent)
        \/ u = Becomes([c EXCEPT !.time = 0], k)
        \/ u = Becomes([c EXCEPT !.longpress = TRUE], Combo(b))
        \/ u = Becomes([c EXCEPT !.longpress = TRUE, !.repeat = TRUE, !.time = 0], k)
        \/ u = Becomes([c EXCEPT !.longpress = TRUE], NoEvent)
        \/ u = Becomes([c EXCEPT !.state = "LONGPRESS_RELEASE"], k)
        \/ u = Becomes(Released, NoEvent)
        \/ u = Becomes(c, NoEvent)
    <3>1. CASE c.state = "PRESSED" /\ pressed
      <4>1. u = Held(c, b, k)
        BY <2>1, <3>1 DEF Updated
      <4> QED
        BY <4>1 DEF Held, TurnsLong
    <3>2. CASE c.state = "PRESSED" /\ ~pressed
      <4>1. u = Lifted(c, k)
        BY <2>1, <3>2 DEF Updated
      <4> QED
        BY <4>1 DEF Lifted
    <3>3. CASE c.state # "PRESSED"
      BY <2>1, <3>3 DEF Updated
    <3> QED
      BY <3>1, <3>2, <3>3
  <2> QED
    BY <1>1, <1>2, <1>3, <1>4, <1>5, <1>6, <1>7, <2>2, <2>3, <2>4, Zenon
<1> QED
  BY <1>8 DEF Becomes

(* What ScanKey does to key k, whose context c, with the time advanced,     *)
(* gives the context and event u.                                           *)
KeyTurn(k, c, u, pressed) ==
  /\ k = KeyList[sweep.at] /\ k \in AllKeys
  /\ sweep.at \in 1 .. Len(KeyList)
  /\ c = [key[k] EXCEPT !.time = Saturated(@ + sweep.delta)]
  /\ TurnFacts(c, KeySetState(k, pressed), k, pressed, u)
  /\ u.c \in Contexts /\ u.event \in Events \cup {NoEvent}
  /\ key' = [key EXCEPT ![k] = u.c]
  /\ posted' = u.event
  /\ bits' = KeySetState(k, pressed)
  /\ press' = [press EXCEPT ![k] = Recorded(@, k, key[k].state, u.c.state, u.event)]
  /\ held' = IF pressed THEN held \cup {k} ELSE held \ {k}
  /\ sweep' = [sweep EXCEPT !.at = IF @ = Len(KeyList) THEN 0 ELSE @ + 1]

(* Each step of a scan is such a turn.                                     *)
LEMMA ScanKeyFacts ==
  ASSUME ScanTypeOK, NEW pressed \in BOOLEAN, ScanKey(pressed)
  PROVE  \E k \in ValidKeys, c \in Contexts : \E u : KeyTurn(k, c, u, pressed)
<1> DEFINE k == KeyList[sweep.at]
           c == [key[k] EXCEPT !.time = Saturated(@ + sweep.delta)]
           u == Updated(c, KeySetState(k, pressed), k, pressed)
<1>1. sweep.at \in 1 .. Len(KeyList) /\ k \in ValidKeys /\ k \in AllKeys
  BY KeyListFacts DEF ScanKey, ScanTypeOK
<1>2. c \in Contexts
  <2> HIDE DEF k
  <2>1. sweep.delta \in Nat /\ key[k] \in Contexts
    <3>1. sweep.delta \in Deltas \cup {0} /\ key[k] \in Contexts
      BY <1>1 DEF ScanTypeOK
    <3>2. 0 \in Nat
      OBVIOUS
    <3> QED
      BY <3>1, <3>2, TimeFacts, Zenon
  <2>2. key[k].time \in Nat
    BY <2>1, TimeFacts DEF Contexts
  <2>3. Saturated(key[k].time + sweep.delta) \in 0 .. LongTime
    BY <2>1, <2>2, ScanAssumption DEF Saturated
  <2> QED
    BY <2>1, <2>3 DEF Contexts
<1>3. u.c \in Contexts /\ u.event \in Events \cup {NoEvent}
  <2> HIDE DEF c, k
  <2> QED
    BY <1>1, <1>2, UpdatedType
<1>4. /\ key' = [key EXCEPT ![k] = u.c] /\ posted' = u.event
      /\ bits' = KeySetState(k, pressed)
      /\ press' = [press EXCEPT ![k] = Recorded(@, k, key[k].state, u.c.state, u.event)]
      /\ held' = IF pressed THEN held \cup {k} ELSE held \ {k}
      /\ sweep' = [sweep EXCEPT !.at = IF @ = Len(KeyList) THEN 0 ELSE @ + 1]
  BY DEF ScanKey
<1>5. /\ k = KeyList[sweep.at]
      /\ c = [key[k] EXCEPT !.time = Saturated(@ + sweep.delta)]
  OBVIOUS
<1>6. TurnFacts(c, KeySetState(k, pressed), k, pressed, u)
  <2> HIDE DEF c, k
  <2> QED
    BY <1>1, <1>2, Transitions
<1> HIDE DEF k, c, u
<1>7. KeyTurn(k, c, u, pressed)
  BY <1>1, <1>3, <1>4, <1>5, <1>6 DEF KeyTurn
<1> QED
  BY <1>1, <1>2, <1>7

(* The history of a press is well formed.                                  *)
LEMMA RecordedType ==
  ASSUME NEW p \in Presses, NEW k, NEW old, NEW new, NEW event
  PROVE  Recorded(p, k, old, new, event) \in Presses
<1>1. p.posted \in 0 .. 2 /\ p.dial \in BOOLEAN /\ p.ended \in BOOLEAN
  BY DEF Presses
<1>2. CASE old = "RELEASED"
  <2>1. Recorded(p, k, old, new, event) =
          [posted |-> 0, dial |-> (k # "dial" /\ "dial" \in held) /\ new # "RELEASED",
           ended |-> FALSE]
    BY <1>2 DEF Recorded, NoPress
  <2> QED
    BY <2>1 DEF Presses
<1>3. CASE old # "RELEASED"
  <2>1. (IF event = NoEvent \/ p.posted = 2 THEN p.posted ELSE p.posted + 1) \in 0 .. 2
    BY <1>1
  <2> QED
    BY <1>1, <1>3, <2>1 DEF Recorded, Presses
<1> QED
  BY <1>2, <1>3

(* Contexts, bitmaps and the scan index stay well formed, with a bounded     *)
(* time, through scans and resets of the keypad.                            *)
THEOREM ScanTypeCorrect == ScanSpec => []ScanTypeOK
<1>1. ScanInit => ScanTypeOK
  <2>1. Released \in Contexts /\ NoPress \in Presses
    BY ScanAssumption DEF Released, NoPress, Contexts, Presses
  <2> QED
    BY <2>1, ScanAssumption, KeyListFacts DEF ScanInit, ScanTypeOK
<1>2. ScanTypeOK /\ [ScanNext]_scanVars => ScanTypeOK'
  <2> SUFFICES ASSUME ScanTypeOK, [ScanNext]_scanVars PROVE ScanTypeOK'
    OBVIOUS
  <2>1. ASSUME NEW delta \in Deltas, StartSweep(delta) PROVE ScanTypeOK'
    BY <2>1, KeyListFacts DEF StartSweep, ScanTypeOK
  <2>2. ASSUME NEW pressed \in BOOLEAN, ScanKey(pressed) PROVE ScanTypeOK'
    <3>0. PICK k \in ValidKeys, c \in Contexts : \E u : KeyTurn(k, c, u, pressed)
      BY <2>2, ScanKeyFacts
    <3>1. PICK u : KeyTurn(k, c, u, pressed)
      BY <3>0
    <3> USE DEF KeyTurn
    <3>2. bits' \in [scan : SUBSET ScanCodeKeys, uni : BOOLEAN]
      BY <3>1 DEF KeySetState, ScanTypeOK
    <3>3. Recorded(press[k], k, key[k].state, u.c.state, u.event) \in Presses
      <4>1. press[k] \in Presses
        BY DEF ScanTypeOK
      <4> QED
        BY <4>1, RecordedType
    <3>4. press' \in [ValidKeys -> Presses] /\ key' \in [ValidKeys -> Contexts]
      BY <3>1, <3>3 DEF ScanTypeOK
    <3>5. sweep' \in [at : 0 .. Len(KeyList), delta : Deltas \cup {0}]
      BY <3>1, KeyListFacts DEF ScanTypeOK
    <3>6. held' \subseteq ValidKeys /\ posted' \in Events \cup {NoEvent}
      BY <3>1 DEF ScanTypeOK
    <3> QED
      BY <3>2, <3>4, <3>5, <3>6 DEF ScanTypeOK
  <2>3. CASE DeviceReset
    <3>1. Released \in Contexts /\ NoPress \in Presses
      BY ScanAssumption DEF Released, NoPress, Contexts, Presses
    <3> QED
      BY <2>3, <3>1 DEF DeviceReset, ScanTypeOK
  <2>4. CASE UNCHANGED scanVars
    BY <2>4 DEF scanVars, ScanTypeOK
  <2> QED
    BY <2>1, <2>2, <2>3, <2>4 DEF ScanNext
<1> QED
  BY <1>1, <1>2, PTL DEF ScanSpec
-----------------------------------------------------------------------------
(* The bitmaps record what the scan read: the scan codes of the keys that   *)
(* are held, and, until this scan reads a key with a character, Dial.       *)
BitsInv ==
  /\ \A k \in ValidKeys \cap ScanCodeKeys : k \in bits.scan <=> k \in held
  /\ \A k \in ScanCodeKeys \ ValidKeys : k \notin bits.scan
  /\ (\A i \in 1 .. sweep.at - 1 : KeyList[i] \notin UnicodeKeys) =>
        (bits.uni <=> "dial" \in held)

(* What a press has posted when its key is in each state.                  *)
DialInv ==
  LET c == key["dial"]
      p == press["dial"]
  IN /\ ~c.repeat
     /\ c.state = "RELEASED" => ~c.longpress
     /\ c.state = "PRESSED" => ~p.ended /\ p.posted = IF c.longpress THEN 1 ELSE 0
     /\ c.state = "LONGPRESS_RELEASE" => ~p.ended /\ p.posted = 1

EarlyInv ==
  \A k \in ValidKeys \cap EarlyKeys :
    LET c == key[k]
        p == press[k]
    IN /\ c.state = "RELEASED" => ~c.longpress
       /\ c.state = "PRESSED" => ~p.ended /\ (c.longpress => p.posted > 0 \/ p.dial)
       /\ c.state = "LONGPRESS_RELEASE" => ~p.ended /\ p.posted > 0

ScanInv ==
  ScanTypeOK /\ BitsInv /\ DialInv /\ EarlyInv /\ ComboIsHeld /\ DialPostsOnce
    /\ PressHeard

(* The history of a press after one turn.                                  *)
LEMMA RecordedFacts ==
  ASSUME NEW p \in Presses, NEW k, NEW old, NEW new, NEW event
  PROVE  LET r == Recorded(p, k, old, new, event)
         IN /\ old = "RELEASED" => r.posted = 0 /\ ~r.ended
            /\ old # "RELEASED" =>
                 /\ r.ended <=> new = "RELEASED"
                 /\ event = NoEvent => r.posted = p.posted
                 /\ event # NoEvent => r.posted = IF p.posted = 2 THEN 2 ELSE p.posted + 1
                 /\ p.dial \/ (k # "dial" /\ "dial" \in held) => r.dial
<1>1. CASE old = "RELEASED"
  <2>1. Recorded(p, k, old, new, event).posted = 0
    BY <1>1 DEF Recorded, NoPress
  <2>2. Recorded(p, k, old, new, event).ended = FALSE
    BY <1>1 DEF Recorded, NoPress
  <2> QED
    BY <1>1, <2>1, <2>2
<1>2. CASE old # "RELEASED"
  BY <1>2 DEF Recorded
<1> QED
  BY <1>1, <1>2

(* Reading a key keeps the bitmaps in step with what is held.              *)
LEMMA BitsStep ==
  ASSUME ScanInv, NEW pressed \in BOOLEAN, ScanKey(pressed)
  PROVE  BitsInv'
<1>0. PICK k \in ValidKeys, c \in Contexts : \E u : KeyTurn(k, c, u, pressed)
  BY ScanKeyFacts DEF ScanInv
<1>1. PICK u : KeyTurn(k, c, u, pressed)
  BY <1>0
<1> USE DEF KeyTurn
<1>2. bits \in [scan : SUBSET ScanCodeKeys, uni : BOOLEAN]
  BY DEF ScanInv, ScanTypeOK
<1>3. \A j \in AllKeys : j \in ScanCodeKeys <=> j \notin UnicodeKeys
  BY DEF AllKeys, ScanCodeKeys, UnicodeKeys
<1>4. /\ \A j \in ValidKeys \cap ScanCodeKeys : j \in bits.scan' <=> j \in held'
      /\ \A j \in ScanCodeKeys \ ValidKeys : j \notin bits.scan'
  BY <1>1, <1>2 DEF ScanInv, BitsInv, KeySetState
<1>5. ASSUME \A i \in 1 .. sweep.at' - 1 : KeyList[i] \notin UnicodeKeys
      PROVE  bits.uni' <=> "dial" \in held'
  <2>1. CASE k = "dial"
    BY <1>1, <1>2, <2>1 DEF KeySetState, ScanCodeKeys
  <2>2. CASE k # "dial"
    <3>1. sweep.at < Len(KeyList) /\ sweep.at' = sweep.at + 1
      BY <1>1, <2>2, ScanAssumption, KeyListFacts DEF ScanInv, ScanTypeOK
    <3>2. k \notin UnicodeKeys /\ (\A i \in 1 .. sweep.at - 1 : KeyList[i] \notin UnicodeKeys)
      BY <1>1, <1>5, <3>1
    <3>3. bits.uni' = bits.uni /\ ("dial" \in held' <=> "dial" \in held)
      BY <1>1, <1>2, <1>3, <2>2, <3>2 DEF KeySetState
    <3> QED
      BY <3>2, <3>3 DEF ScanInv, BitsInv
  <2> QED
    BY <2>1, <2>2
<1> QED
  BY <1>4, <1>5 DEF BitsInv

(* A character that a long press of Dial posts is that of the held keys.    *)
LEMMA ComboStep ==
  ASSUME ScanInv, NEW pressed \in BOOLEAN, ScanKey(pressed)
  PROVE  ComboIsHeld'
<1>0. PICK k \in ValidKeys, c \in Contexts : \E u : KeyTurn(k, c, u, pressed)
  BY ScanKeyFacts DEF ScanInv
<1>1. PICK u : KeyTurn(k, c, u, pressed)
  BY <1>0
<1> USE DEF KeyTurn
<1>2. u.event \in Combos => k = "dial" /\ pressed /\ u.event = Combo(bits')
  BY <1>1 DEF TurnFacts
<1>3. BitsInv'
  BY BitsStep
<1>4. \A j \in ScanCodeKeys : j \in bits.scan' <=> j \in held'
  <2>1. held' \subseteq ValidKeys
    BY <1>1 DEF ScanInv, ScanTypeOK
  <2> QED
    BY <1>3, <2>1 DEF BitsInv
<1>5. "up" \in ScanCodeKeys /\ "down" \in ScanCodeKeys
  BY DEF ScanCodeKeys
<1> QED
  BY <1>1, <1>2, <1>4, <1>5 DEF ComboIsHeld, Combo, Combos

(* Dial posts one event a press.                                           *)
LEMMA DialStep ==
  ASSUME ScanInv, NEW pressed \in BOOLEAN, ScanKey(pressed)
  PROVE  DialInv' /\ DialPostsOnce'
<1>0. PICK k \in ValidKeys, c \in Contexts : \E u : KeyTurn(k, c, u, pressed)
  BY ScanKeyFacts DEF ScanInv
<1>1. PICK u : KeyTurn(k, c, u, pressed)
  BY <1>0
<1> USE DEF KeyTurn
<1>2. key \in [ValidKeys -> Contexts] /\ press \in [ValidKeys -> Presses] /\ "dial" \in ValidKeys
  BY KeyListFacts DEF ScanInv, ScanTypeOK
<1>3. CASE k # "dial"
  BY <1>1, <1>2, <1>3 DEF ScanInv, DialInv, DialPostsOnce
<1>4. CASE k = "dial"
  <2> DEFINE o == key["dial"]
             p == press["dial"]
             r == press'["dial"]
  <2>1. key'["dial"] = u.c /\ r = Recorded(p, k, o.state, u.c.state, u.event)
    BY <1>1, <1>2, <1>4
  <2>2. o \in Contexts /\ p \in Presses
    BY <1>2
  <2>3. c.state = o.state /\ c.longpress = o.longpress /\ c.repeat = o.repeat
    BY <1>1, <1>4, <2>2 DEF Contexts
  <2>4. /\ ~o.repeat
        /\ o.state = "RELEASED" => ~o.longpress
        /\ o.state = "PRESSED" => ~p.ended /\ p.posted = IF o.longpress THEN 1 ELSE 0
        /\ o.state = "LONGPRESS_RELEASE" => ~p.ended /\ p.posted = 1
    BY DEF ScanInv, DialInv
  <2>5. r \in Presses
    BY <2>1, <2>2, RecordedType
  <2>6. /\ o.state = "RELEASED" => r.posted = 0 /\ ~r.ended
        /\ o.state # "RELEASED" =>
             /\ r.ended <=> u.c.state = "RELEASED"
             /\ u.event = NoEvent => r.posted = p.posted
             /\ u.event # NoEvent => r.posted = IF p.posted = 2 THEN 2 ELSE p.posted + 1
    BY <2>1, <2>2, RecordedFacts
  <2>7. Released.state = "RELEASED" /\ ~Released.longpress /\ ~Released.repeat
    BY DEF Released
  <2>8. o.state \in {"RELEASED", "PRESSED", "LONGPRESS_RELEASE"}
    BY <2>2 DEF Contexts
  <2> HIDE DEF o, p, r
  <2>9. /\ ~u.c.repeat
        /\ u.c.state = "RELEASED" => ~u.c.longpress
        /\ u.c.state = "PRESSED" => ~r.ended /\ r.posted = IF u.c.longpress THEN 1 ELSE 0
        /\ u.c.state = "LONGPRESS_RELEASE" => ~r.ended /\ r.posted = 1
        /\ r.posted <= 1
        /\ r.ended => r.posted = 1
    <3>1. CASE o.state = "RELEASED"
      <4>1. /\ u.event = NoEvent /\ u.c.state \in {"RELEASED", "PRESSED"}
            /\ u.c.longpress = c.longpress /\ u.c.repeat = c.repeat
        BY <1>1, <2>3, <3>1 DEF TurnFacts
      <4> QED
        BY <2>3, <2>4, <2>6, <3>1, <4>1
    <3>2. CASE o.state = "PRESSED"
      <4>1. \/ /\ u.c.state = "PRESSED" /\ u.c.longpress = c.longpress
               /\ u.c.repeat = c.repeat
               /\ u.event = NoEvent \/ c.repeat
            \/ /\ u.c.state = "PRESSED" /\ ~c.longpress /\ u.c.longpress
               /\ u.event # NoEvent
               /\ u.c.repeat = c.repeat
            \/ /\ u.c.state = "LONGPRESS_RELEASE" /\ ~c.longpress
               /\ u.event # NoEvent /\ u.c.repeat = c.repeat
            \/ u.c = Released /\ c.longpress /\ u.event = NoEvent
        BY <1>1, <1>4, <2>3, <3>2 DEF TurnFacts
      <4> QED
        BY <2>3, <2>4, <2>6, <2>7, <3>2, <4>1
    <3>3. CASE o.state = "LONGPRESS_RELEASE"
      <4>1. u.c = Released /\ u.event = NoEvent
        BY <1>1, <2>3, <3>3 DEF TurnFacts
      <4> QED
        BY <2>4, <2>6, <2>7, <3>3, <4>1
    <3> QED
      BY <2>8, <3>1, <3>2, <3>3
  <2> QED
    BY <2>1, <2>9 DEF DialInv, DialPostsOnce, r
<1> QED
  BY <1>3, <1>4

(* Before a power or volume key is read, the bit that stands for Dial is    *)
(* Dial's: no other key with a character was read in this scan.             *)
LEMMA EarlyOrder ==
  ASSUME ScanTypeOK, BitsInv, sweep.at \in 1 .. Len(KeyList), KeyList[sweep.at] \in EarlyKeys
  PROVE  bits.uni <=> "dial" \in held
<1>1. Len(KeyList) \in Nat
  BY KeyListFacts
<1>2. \A i \in 1 .. sweep.at - 1 : KeyList[i] \notin UnicodeKeys
  BY <1>1, ScanAssumption
<1> QED
  BY <1>2 DEF BitsInv

(* A power or volume key is heard, or was pressed together with Dial.       *)
LEMMA EarlyStep ==
  ASSUME ScanInv, NEW pressed \in BOOLEAN, ScanKey(pressed)
  PROVE  EarlyInv' /\ PressHeard'
<1>0. PICK k \in ValidKeys, c \in Contexts : \E u : KeyTurn(k, c, u, pressed)
  BY ScanKeyFacts DEF ScanInv
<1>1. PICK u : KeyTurn(k, c, u, pressed)
  BY <1>0
<1> USE DEF KeyTurn
<1>2. key \in [ValidKeys -> Contexts] /\ press \in [ValidKeys -> Presses]
  BY DEF ScanInv, ScanTypeOK
<1> SUFFICES ASSUME NEW j \in ValidKeys \cap EarlyKeys
             PROVE  /\ key'[j].state = "RELEASED" => ~key'[j].longpress
                    /\ key'[j].state = "PRESSED" =>
                         /\ ~press'[j].ended
                         /\ key'[j].longpress => press'[j].posted > 0 \/ press'[j].dial
                    /\ key'[j].state = "LONGPRESS_RELEASE" =>
                         ~press'[j].ended /\ press'[j].posted > 0
                    /\ press'[j].ended => press'[j].posted > 0 \/ press'[j].dial
  BY DEF EarlyInv, PressHeard
<1> DEFINE o == key[j]
           p == press[j]
           r == press'[j]
<1>3. /\ o.state = "RELEASED" => ~o.longpress
      /\ o.state = "PRESSED" => ~p.ended /\ (o.longpress => p.posted > 0 \/ p.dial)
      /\ o.state = "LONGPRESS_RELEASE" => ~p.ended /\ p.posted > 0
      /\ p.ended => p.posted > 0 \/ p.dial
  BY DEF ScanInv, EarlyInv, PressHeard
<1>4. CASE k # j
  BY <1>1, <1>2, <1>3, <1>4
<1>5. CASE k = j
  <2>1. key'[j] = u.c /\ r = Recorded(p, k, o.state, u.c.state, u.event)
    BY <1>1, <1>2, <1>5
  <2>2. o \in Contexts /\ p \in Presses
    BY <1>2
  <2>3. c.state = o.state /\ c.longpress = o.longpress
    BY <1>1, <1>5, <2>2 DEF Contexts
  <2>4. k # "dial" /\ k \in ScanCodeKeys
    BY <1>5 DEF EarlyKeys, ScanCodeKeys
  <2>5. KeySetState(k, pressed).uni => "dial" \in held
    <3>1. bits.uni <=> "dial" \in held
      BY <1>1, <1>5, EarlyOrder DEF ScanInv
    <3>2. bits \in [scan : SUBSET ScanCodeKeys, uni : BOOLEAN]
      BY DEF ScanInv, ScanTypeOK
    <3> QED
      BY <2>4, <3>1, <3>2 DEF KeySetState
  <2>6. r \in Presses
    BY <2>1, <2>2, RecordedType
  <2>7. /\ o.state = "RELEASED" => r.posted = 0 /\ ~r.ended
        /\ o.state # "RELEASED" =>
             /\ r.ended <=> u.c.state = "RELEASED"
             /\ u.event = NoEvent => r.posted = p.posted
             /\ u.event # NoEvent => r.posted = IF p.posted = 2 THEN 2 ELSE p.posted + 1
             /\ p.dial \/ (k # "dial" /\ "dial" \in held) => r.dial
    BY <2>1, <2>2, RecordedFacts
  <2>8. Released.state = "RELEASED" /\ ~Released.longpress
    BY DEF Released
  <2>9. o.state \in {"RELEASED", "PRESSED", "LONGPRESS_RELEASE"}
    BY <2>2 DEF Contexts
  <2>10. p.posted \in 0 .. 2 /\ r.posted \in 0 .. 2
    BY <2>2, <2>6 DEF Presses
  <2> HIDE DEF o, p, r
  <2>11. /\ u.c.state = "RELEASED" => ~u.c.longpress
         /\ u.c.state = "PRESSED" => ~r.ended /\ (u.c.longpress => r.posted > 0 \/ r.dial)
         /\ u.c.state = "LONGPRESS_RELEASE" => ~r.ended /\ r.posted > 0
         /\ r.ended => r.posted > 0 \/ r.dial
    <3>1. CASE o.state = "RELEASED"
      <4>1. /\ u.event = NoEvent /\ u.c.state \in {"RELEASED", "PRESSED"}
            /\ u.c.longpress = c.longpress
        BY <1>1, <2>3, <3>1 DEF TurnFacts
      <4> QED
        BY <1>3, <2>3, <2>7, <3>1, <4>1 DEF o, p
    <3>2. CASE o.state = "PRESSED"
      <4>1. \/ /\ u.c.state = "PRESSED" /\ u.c.longpress = c.longpress
            \/ /\ u.c.state = "PRESSED" /\ ~c.longpress /\ u.c.longpress
               /\ u.event # NoEvent \/ KeySetState(k, pressed).uni
            \/ /\ u.c.state = "LONGPRESS_RELEASE" /\ ~c.longpress
               /\ u.event # NoEvent
            \/ u.c = Released /\ c.longpress /\ u.event = NoEvent
        BY <1>1, <2>3, <3>2 DEF TurnFacts
      <4>2. /\ ~p.ended /\ (o.longpress => p.posted > 0 \/ p.dial)
            /\ p.ended => p.posted > 0 \/ p.dial
        BY <1>3, <3>2 DEF o, p
      <4> QED
        BY <2>3, <2>4, <2>5, <2>7, <2>8, <2>10, <3>2, <4>1, <4>2
    <3>3. CASE o.state = "LONGPRESS_RELEASE"
      <4>1. u.c = Released /\ u.event = NoEvent
        BY <1>1, <2>3, <3>3 DEF TurnFacts
      <4> QED
        BY <1>3, <2>7, <2>8, <3>3, <4>1 DEF o, p
    <3> QED
      BY <2>9, <3>1, <3>2, <3>3
  <2> QED
    BY <2>1, <2>11 DEF r
<1> QED
  BY <1>4, <1>5

(* The inductive invariant of the scanner.                                 *)
THEOREM ScanInductive == ScanSpec => []ScanInv
<1>1. ScanInit => ScanInv
  <2> SUFFICES ASSUME ScanInit PROVE ScanInv
    OBVIOUS
  <2>1. ScanTypeOK
    <3>1. Released \in Contexts /\ NoPress \in Presses
      BY ScanAssumption DEF Released, NoPress, Contexts, Presses
    <3> QED
      BY <3>1, KeyListFacts DEF ScanInit, ScanTypeOK
  <2>2. BitsInv /\ ComboIsHeld
    BY DEF ScanInit, BitsInv, ComboIsHeld, NoEvent, Combos
  <2>3. \A k \in ValidKeys : key[k] = Released /\ press[k] = NoPress
    BY DEF ScanInit
  <2>4. DialInv /\ DialPostsOnce
    BY <2>3, KeyListFacts DEF DialInv, DialPostsOnce, Released, NoPress
  <2>5. EarlyInv /\ PressHeard
    BY <2>3 DEF EarlyInv, PressHeard, Released, NoPress
  <2> QED
    BY <2>1, <2>2, <2>4, <2>5 DEF ScanInv
<1>2. ScanInv /\ ScanTypeOK' /\ [ScanNext]_scanVars => ScanInv'
  <2> SUFFICES ASSUME ScanInv, ScanTypeOK', [ScanNext]_scanVars PROVE ScanInv'
    OBVIOUS
  <2>1. ASSUME NEW delta \in Deltas, StartSweep(delta) PROVE ScanInv'
    <3>1. BitsInv'
      <4>1. sweep.at = 0 /\ sweep'.at = 1 /\ UNCHANGED <<bits, held>>
        BY <2>1 DEF StartSweep
      <4> QED
        BY <4>1 DEF ScanInv, BitsInv
    <3>2. DialInv' /\ DialPostsOnce' /\ EarlyInv' /\ PressHeard'
      BY <2>1 DEF StartSweep, ScanInv, DialInv, DialPostsOnce, EarlyInv, PressHeard
    <3>3. ComboIsHeld'
      BY <2>1 DEF StartSweep, ComboIsHeld, NoEvent, Combos
    <3> QED
      BY <3>1, <3>2, <3>3 DEF ScanInv
  <2>2. ASSUME NEW pressed \in BOOLEAN, ScanKey(pressed) PROVE ScanInv'
    BY <2>2, BitsStep, ComboStep, DialStep, EarlyStep DEF ScanInv
  <2>3. CASE DeviceReset
    <3>1. BitsInv' /\ ComboIsHeld'
      BY <2>3 DEF DeviceReset, ScanInv, BitsInv, ComboIsHeld, NoEvent, Combos
    <3>2. \A k \in ValidKeys : key'[k] = Released /\ press'[k] = NoPress
      BY <2>3 DEF DeviceReset
    <3>3. DialInv' /\ DialPostsOnce'
      BY <3>2, KeyListFacts DEF DialInv, DialPostsOnce, Released, NoPress
    <3>4. EarlyInv' /\ PressHeard'
      BY <3>2 DEF EarlyInv, PressHeard, Released, NoPress
    <3> QED
      BY <3>1, <3>3, <3>4 DEF ScanInv
  <2>4. CASE UNCHANGED scanVars
    BY <2>4 DEF scanVars, ScanInv, BitsInv, ComboIsHeld, DialInv, DialPostsOnce,
                EarlyInv, PressHeard
  <2> QED
    BY <2>1, <2>2, <2>3, <2>4 DEF ScanNext
<1> QED
  BY <1>1, <1>2, ScanTypeCorrect, PTL DEF ScanSpec

(* A press of Dial posts exactly one event.                                *)
THEOREM DialOnce == ScanSpec => []DialPostsOnce
<1>1. ScanInv => DialPostsOnce
  BY DEF ScanInv
<1> QED
  BY <1>1, ScanInductive, PTL

(* A press of Power or of a volume key is heard unless Dial is down too.    *)
THEOREM PressesHeard == ScanSpec => []PressHeard
<1>1. ScanInv => PressHeard
  BY DEF ScanInv
<1> QED
  BY <1>1, ScanInductive, PTL

(* The character of a long press of Dial is that of the volume key held.    *)
THEOREM CombosHeld == ScanSpec => []ComboIsHeld
<1>1. ScanInv => ComboIsHeld
  BY DEF ScanInv
<1> QED
  BY <1>1, ScanInductive, PTL
=============================================================================
