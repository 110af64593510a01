---------------------------- MODULE ConIn_proofs ----------------------------
(***************************************************************************)
(* That the keyboards of ConIn are registered with, toggled and signalled   *)
(* alike, and that their keys are all accounted for, for any keyboards,     *)
(* callers, locks and numbers of keys, and for any calls that fail.         *)
(*                                                                         *)
(* What Kept leaves of a sequence is defined by recursion.  Its laws are    *)
(* proved by induction stated for a set: of numbers, from the fact that     *)
(* they are well-founded, and from that of sequences.                       *)
(***************************************************************************)
EXTENDS ConIn, SequenceTheorems, WellFoundedInduction, TLAPS

(* A set of numbers has a least one, which is what Min says.               *)
LEMMA MinIsLeast ==
  ASSUME NEW S \in SUBSET Nat, S # {}
  PROVE  Min(S) \in S /\ \A y \in S : Min(S) <= y
<1>1. IsWellFoundedOn(OpToRel(<, Nat), Nat)
  BY NatLessThanWellFounded
<1>2. PICK x \in S : \A y \in S : <<y, x>> \notin OpToRel(<, Nat)
  BY <1>1, WFMin
<1>3. \A y \in S : ~(y < x)
  BY <1>2 DEF OpToRel
<1>4. \A y \in S : x <= y
  BY <1>3
<1> QED
  BY <1>4 DEF Min

Distinct(s) == \A i, j \in 1 .. Len(s) : s[i] = s[j] => i = j

(* RemoveFirst leaves the others.                                          *)
LEMMA Removal ==
  ASSUME NEW S, NEW s \in Seq(S), NEW e
  PROVE  /\ RemoveFirst(s, e) \in Seq(S)
         /\ ToSet(s) \ {e} \subseteq ToSet(RemoveFirst(s, e))
         /\ ToSet(RemoveFirst(s, e)) \subseteq ToSet(s)
         /\ Len(RemoveFirst(s, e)) <= Len(s)
         /\ Distinct(s) => /\ Distinct(RemoveFirst(s, e))
                           /\ ToSet(RemoveFirst(s, e)) = ToSet(s) \ {e}
<1> DEFINE I == {i \in 1 .. Len(s) : s[i] = e}
<1>1. CASE I = {}
  <2>1. RemoveFirst(s, e) = s /\ e \notin ToSet(s)
    BY <1>1 DEF RemoveFirst, ToSet
  <2> QED
    BY <2>1
<1>2. CASE I # {}
  <2> DEFINE m == Min(I)
  <2>0. I \in SUBSET Nat
    OBVIOUS
  <2>1. m \in 1 .. Len(s) /\ s[m] = e
    BY <1>2, <2>0, MinIsLeast
  <2> HIDE DEF m
  <2>2. RemoveFirst(s, e) = SubSeq(s, 1, m - 1) \o SubSeq(s, m + 1, Len(s))
    BY <1>2 DEF RemoveFirst, RemoveAt, SelectInSeq, m
  <2> DEFINE r == SubSeq(s, 1, m - 1) \o SubSeq(s, m + 1, Len(s))
           front == SubSeq(s, 1, m - 1)
           back == SubSeq(s, m + 1, Len(s))
  <2>a. /\ front \in Seq(S) /\ Len(front) = m - 1
        /\ \A i \in 1 .. m - 1 : front[i] = s[i]
    BY <2>1
  <2>b. /\ back \in Seq(S) /\ Len(back) = Len(s) - m
        /\ \A i \in 1 .. Len(s) - m : back[i] = s[m + i]
    BY <2>1
  <2> HIDE DEF front, back, r
  <2>3. /\ r \in Seq(S) /\ Len(r) = Len(s) - 1
        /\ \A i \in 1 .. Len(s) - 1 : r[i] = IF i < m THEN s[i] ELSE s[i + 1]
    <3>1. r = front \o back
      BY DEF front, back, r
    <3>2. r \in Seq(S) /\ Len(r) = Len(s) - 1
      BY <2>1, <2>a, <2>b, <3>1
    <3>3. \A i \in 1 .. Len(s) - 1 : r[i] = IF i < m THEN front[i] ELSE back[i - (m - 1)]
      BY <2>1, <2>a, <2>b, <3>1
    <3>4. ASSUME NEW i \in 1 .. Len(s) - 1 PROVE r[i] = IF i < m THEN s[i] ELSE s[i + 1]
      <4>1. CASE i < m
        BY <2>1, <2>a, <3>3, <4>1
      <4>2. CASE ~(i < m)
        <5>1. i - (m - 1) \in 1 .. Len(s) - m /\ m + (i - (m - 1)) = i + 1
          BY <2>1, <4>2
        <5> QED
          BY <2>b, <3>3, <4>2, <5>1
      <4> QED
        BY <4>1, <4>2
    <3> QED
      BY <3>2, <3>4
  <2>4. ToSet(r) \subseteq ToSet(s)
    BY <2>1, <2>3 DEF ToSet
  <2>5. \A i \in 1 .. Len(s) : i # m => \E j \in 1 .. Len(s) - 1 : r[j] = s[i]
    <3> TAKE i \in 1 .. Len(s)
    <3>1. CASE i < m
      BY <2>1, <2>3, <3>1
    <3>2. CASE i > m
      <4>1. i - 1 \in 1 .. Len(s) - 1 /\ ~(i - 1 < m) /\ (i - 1) + 1 = i
        BY <2>1, <3>2
      <4> QED
        BY <2>3, <4>1
    <3> QED
      BY <2>1, <3>1, <3>2
  <2>6. ToSet(s) \ {e} \subseteq ToSet(r)
    BY <2>1, <2>3, <2>5 DEF ToSet
  <2>7. ASSUME Distinct(s) PROVE Distinct(r) /\ e \notin ToSet(r)
    <3> DEFINE old(i) == IF i < m THEN i ELSE i + 1
    <3>1. \A i \in 1 .. Len(r) : old(i) \in 1 .. Len(s) /\ old(i) # m /\ r[i] = s[old(i)]
      BY <2>1, <2>3
    <3>2. \A i, j \in 1 .. Len(r) : old(i) = old(j) => i = j
      BY <2>1, <2>3
    <3> HIDE DEF old
    <3>3. Distinct(r)
      BY <2>7, <3>1, <3>2 DEF Distinct
    <3>4. \A i \in 1 .. Len(r) : r[i] # e
      BY <2>1, <2>7, <3>1 DEF Distinct
    <3> QED
      BY <2>3, <3>3, <3>4 DEF ToSet
  <2> QED
    <3>1. RemoveFirst(s, e) = r
      BY <2>2 DEF r
    <3>2. Len(s) - 1 <= Len(s)
      BY <2>1
    <3> QED
      BY <2>3, <2>4, <2>6, <2>7, <3>1, <3>2
<1> QED
  BY <1>1, <1>2
(* Append adds one.                                                        *)
LEMMA Addition ==
  ASSUME NEW S, NEW s \in Seq(S), NEW e \in S
  PROVE  /\ Append(s, e) \in Seq(S) /\ Len(Append(s, e)) = Len(s) + 1
         /\ ToSet(Append(s, e)) = ToSet(s) \cup {e}
         /\ \A i \in 1 .. Len(s) : Append(s, e)[i] = s[i]
         /\ Append(s, e)[Len(s) + 1] = e
         /\ Distinct(s) /\ e \notin ToSet(s) => Distinct(Append(s, e))
<1>1. /\ Append(s, e) \in Seq(S) /\ Len(Append(s, e)) = Len(s) + 1 /\ Len(s) \in Nat
      /\ \A i \in 1 .. Len(s) : Append(s, e)[i] = s[i]
      /\ Append(s, e)[Len(s) + 1] = e
  OBVIOUS
<1> DEFINE r == Append(s, e)
<1> HIDE DEF r
<1>2. /\ r \in Seq(S) /\ Len(r) = Len(s) + 1 /\ r[Len(s) + 1] = e
      /\ \A i \in 1 .. Len(s) : r[i] = s[i]
  BY <1>1 DEF r
<1>3. ToSet(r) = ToSet(s) \cup {e}
  BY <1>1, <1>2 DEF ToSet
<1>4. ASSUME Distinct(s), e \notin ToSet(s) PROVE Distinct(r)
  <2>1. \A i \in 1 .. Len(s) : s[i] # e
    BY <1>4 DEF ToSet
  <2> QED
    BY <1>1, <1>2, <1>4, <2>1 DEF Distinct
<1> QED
  BY <1>1, <1>3, <1>4 DEF r
(* The last of a sequence stays the last when the first is taken.          *)
LEMMA LastOfTail ==
  ASSUME NEW S, NEW s \in Seq(S), s # <<>>, Len(s) # 1
  PROVE  Tail(s) # <<>> /\ Last(Tail(s)) = Last(s)
<1>1. Len(s) \in Nat /\ Len(s) > 1
  <2> DEFINE n == Len(s)
  <2>1. n \in Nat \ {0} /\ n # 1
    BY EmptySeq
  <2> HIDE DEF n
  <2>2. n \in Nat /\ n > 1
    BY <2>1
  <2> QED
    BY <2>2 DEF n
<1>2. Len(Tail(s)) = Len(s) - 1 /\ \A i \in 1 .. Len(s) - 1 : Tail(s)[i] = s[i + 1]
  BY <1>1
<1>3. Tail(s)[Len(s) - 1] = s[Len(s)]
  BY <1>1, <1>2
<1>4. Tail(s) # <<>>
  <2>1. Len(<<>>) = 0 /\ Len(Tail(s)) # 0
    BY <1>1, <1>2, EmptySeq
  <2> QED
    BY <2>1
<1>5. Last(Tail(s)) = Tail(s)[Len(s) - 1] /\ Last(s) = s[Len(s)]
  BY <1>2 DEF Last
<1> QED
  BY <1>3, <1>4, <1>5
-----------------------------------------------------------------------------
(* The keyboards.                                                          *)

Fields == {"reg", "toggle", "exposed", "pend", "notes"}
Keyboards(D) == DOMAIN D = Devs /\ \A d \in Devs : DOMAIN D[d] = Fields
Sequence(s) == \E S : s \in Seq(S)

Lists ==
  /\ textIn \in Seq(Devs) /\ ex \in Seq(Devs)
  /\ Distinct(ex) /\ ToSet(ex) \subseteq ToSet(textIn)
  /\ cap \in Nat /\ Len(ex) <= cap
  /\ notify \in Seq(Callers \cup {Sync}) /\ Distinct(notify) /\ Sync \in ToSet(notify)
  /\ stops \in Nat

Shaped ==
  /\ Keyboards(dev)
  /\ \A d \in Devs : dev[d].notes \in Seq(Locks) /\ Sequence(dev[d].pend)

(* While no keyboard was removed, handle i of a notification is that of     *)
(* keyboard i.                                                             *)
HandlesMatch ==
  \A n \in ToSet(notify) \ {Sync} :
    /\ n \in DOMAIN handles /\ DOMAIN handles[n] = 1 .. cap
    /\ \A i \in 1 .. Len(ex) : handles[n][i] = ex[i]

Told ==
  /\ \A d \in ToSet(ex) : ToSet(notify) \subseteq dev[d].reg
  /\ stops = 0 => /\ HandlesMatch
                  /\ \A d \in Devs : dev[d].reg = IF d \in ToSet(ex) THEN ToSet(notify) ELSE {}

(* A keyboard that has more to tell has the last of it, or is in step.      *)
InStep ==
  ~torn => \A d \in ToSet(ex) :
    /\ dev[d].exposed
    /\ dev[d].toggle = physical \/ (dev[d].notes # <<>> /\ dev[d].toggle = Last(dev[d].notes))

HasFull(d) == \E i \in 1 .. Len(dev[d].pend) : dev[d].pend[i] # Partial

Signalled == signalled /\ stops = 0 => \E d \in ToSet(textIn) : HasFull(d)

LEMMA FullIsFound == \A d : FullAt(dev, d) # 0 <=> HasFull(d)
<1> TAKE d
<1> DEFINE full == {i \in 1 .. Len(dev[d].pend) : dev[d].pend[i] # Partial}
<1>1. CASE full = {}
  BY <1>1 DEF FullAt, HasFull
<1>2. CASE full # {}
  <2>1. full \in SUBSET Nat /\ 0 \notin full
    BY DEF HasFull
  <2>2. Min(full) \in full
    BY <1>2, <2>1, MinIsLeast
  <2> QED
    BY <1>2, <2>1, <2>2 DEF FullAt, HasFull
<1> QED
  BY <1>1, <1>2

IInv == Lists /\ Shaped /\ Told /\ InStep /\ Signalled

LEMMA InvInit == Init => IInv
<1> SUFFICES ASSUME Init PROVE IInv
  OBVIOUS
<1>1. textIn = <<>> /\ ex = <<>> /\ notify = <<Sync>> /\ cap = Unit /\ stops = 0 /\ ~signalled
      /\ dev = [d \in Devs |-> Plugged]
  BY DEF Init, ToggleStateSyncInitialization
<1>2. ToSet(<<>>) = {} /\ ToSet(<<Sync>>) = {Sync}
  BY DEF ToSet
<1>3. Lists
  BY <1>1, <1>2, ConInAssumption DEF Lists, Distinct
<1>4. Shaped
  <2>1. Keyboards(dev)
    BY <1>1 DEF Keyboards, Fields, Plugged
  <2>2. \A d \in Devs : dev[d].notes = <<>> /\ dev[d].pend = <<>>
    BY <1>1 DEF Plugged
  <2>3. <<>> \in Seq(Locks) /\ Sequence(<<>>)
    <3>1. \A S : <<>> \in Seq(S)
      OBVIOUS
    <3> QED
      BY <3>1 DEF Sequence
  <2> QED
    BY <2>1, <2>2, <2>3 DEF Shaped
<1>5. Told /\ InStep /\ Signalled
  BY <1>1, <1>2 DEF Told, HandlesMatch, InStep, Signalled, Plugged
<1> QED
  BY <1>3, <1>4, <1>5 DEF IInv
-----------------------------------------------------------------------------
(* What a step that leaves them alone keeps.                               *)

LEMMA ListsKept == Lists /\ UNCHANGED <<textIn, ex, cap, notify, stops>> => Lists'
  BY DEF Lists

LEMMA ToldKept ==
  /\ Lists /\ Told /\ UNCHANGED <<ex, cap, notify, handles, stops>>
  /\ \A d \in Devs : dev'[d].reg = dev[d].reg
  => Told'
<1> SUFFICES ASSUME Lists, Told, UNCHANGED <<ex, cap, notify, handles, stops>>,
                    \A d \in Devs : dev'[d].reg = dev[d].reg
             PROVE  Told'
  OBVIOUS
<1>1. HandlesMatch => HandlesMatch'
  BY DEF HandlesMatch
<1>2. ToSet(ex) \subseteq Devs
  BY DEF Lists, ToSet
<1> QED
  BY <1>1, <1>2 DEF Told

LEMMA InStepKept ==
  /\ Lists /\ InStep /\ UNCHANGED <<ex, physical, torn>>
  /\ \A d \in Devs : /\ dev'[d].toggle = dev[d].toggle /\ dev'[d].exposed = dev[d].exposed
                     /\ dev'[d].notes = dev[d].notes
  => InStep'
<1>1. Lists => ToSet(ex) \subseteq Devs
  BY DEF Lists, ToSet
<1> QED
  BY <1>1 DEF InStep

LEMMA SignalKept ==
  /\ Lists /\ Signalled /\ UNCHANGED <<textIn, signalled, stops>>
  /\ \A d \in Devs : HasFull(d) => HasFull(d)'
  => Signalled'
<1>1. Lists => ToSet(textIn) \subseteq Devs
  BY DEF Lists, ToSet
<1> QED
  BY <1>1 DEF Signalled

(* A keyboard with one thing more to report still has its full keys.       *)
LEMMA FullKept ==
  ASSUME NEW d, Sequence(dev[d].pend), NEW k, dev'[d].pend = Append(dev[d].pend, k)
  PROVE  Sequence(dev'[d].pend) /\ (HasFull(d) => HasFull(d)')
<1>1. PICK S : dev[d].pend \in Seq(S)
  BY DEF Sequence
<1>2. dev[d].pend \in Seq(S \cup {k})
  BY <1>1
<1>3. /\ dev'[d].pend \in Seq(S \cup {k}) /\ Len(dev'[d].pend) = Len(dev[d].pend) + 1
      /\ \A i \in 1 .. Len(dev[d].pend) : dev'[d].pend[i] = dev[d].pend[i]
  BY <1>2, Addition
<1>4. Len(dev[d].pend) \in Nat
  BY <1>1
<1> QED
  BY <1>3, <1>4 DEF HasFull, Sequence
-----------------------------------------------------------------------------
(* The keyboards by themselves.                                            *)

LEMMA PressKeeps == ASSUME IInv, NEW d \in Devs, Press(d) PROVE IInv'
<1>1. /\ Keyboards(dev')
      /\ \A c \in Devs : /\ dev'[c].reg = dev[c].reg /\ dev'[c].toggle = dev[c].toggle
                         /\ dev'[c].exposed = dev[c].exposed /\ dev'[c].notes = dev[c].notes
                         /\ dev'[c].pend = IF c = d THEN Append(dev[c].pend, NextKey(d)) ELSE dev[c].pend
  BY DEF Press, IInv, Shaped, Keyboards, Fields
<1>2. \A c \in Devs : Sequence(dev'[c].pend) /\ (HasFull(c) => HasFull(c)')
  <2> TAKE c \in Devs
  <2>1. Sequence(dev[c].pend)
    BY DEF IInv, Shaped
  <2>2. CASE c = d
    BY <1>1, <2>1, <2>2, FullKept
  <2>3. CASE c # d
    BY <1>1, <2>1, <2>3 DEF HasFull
  <2> QED
    BY <2>2, <2>3
<1>3. UNCHANGED <<splitter, torn, stops>>
  BY DEF Press
<1>4. Shaped'
  BY <1>1, <1>2 DEF IInv, Shaped
<1> QED
  BY <1>1, <1>2, <1>3, <1>4, ListsKept, ToldKept, InStepKept, SignalKept DEF IInv, splitter

LEMMA ToggleKeeps == ASSUME IInv, NEW d \in Devs, NEW t \in Locks, Toggle(d, t) PROVE IInv'
<1>1. UNCHANGED <<splitter, history>>
  BY DEF Toggle
<1>2. CASE ~dev[d].exposed
  <2>1. /\ Keyboards(dev')
        /\ \A c \in Devs : /\ dev'[c].reg = dev[c].reg /\ dev'[c].exposed = dev[c].exposed
                           /\ dev'[c].notes = dev[c].notes /\ dev'[c].pend = dev[c].pend
                           /\ c # d => dev'[c].toggle = dev[c].toggle
    <3>1. dev' = [dev EXCEPT ![d].toggle = t]
      BY <1>2, Zenon DEF Toggle
    <3> QED
      BY <3>1 DEF IInv, Shaped, Keyboards, Fields
  <2>2. Shaped'
    BY <2>1 DEF IInv, Shaped
  <2>3. \A c \in Devs : HasFull(c) => HasFull(c)'
    BY <2>1 DEF HasFull
  <2>4. InStep'
    <3>1. ToSet(ex) \subseteq Devs
      BY DEF IInv, Lists, ToSet
    <3>2. ~torn => d \notin ToSet(ex)
      BY <1>2 DEF IInv, InStep
    <3> QED
      BY <1>1, <2>1, <3>1, <3>2 DEF IInv, InStep, splitter, history
  <2> QED
    BY <1>1, <2>1, <2>2, <2>3, <2>4, ListsKept, ToldKept, SignalKept DEF IInv, splitter, history
<1>3. CASE dev[d].exposed
  <2> DEFINE heard == IF Sync \in dev[d].reg THEN Append(dev[d].notes, t) ELSE dev[d].notes
  <2> HIDE DEF heard
  <2>1. dev' = [dev EXCEPT ![d].toggle = t, ![d].pend = Append(@, Partial), ![d].notes = heard]
    BY <1>3, Zenon DEF Toggle, heard
  <2>2. /\ Keyboards(dev')
        /\ \A c \in Devs : dev'[c].reg = dev[c].reg /\ dev'[c].exposed = dev[c].exposed
        /\ dev'[d].toggle = t /\ dev'[d].pend = Append(dev[d].pend, Partial) /\ dev'[d].notes = heard
        /\ \A c \in Devs \ {d} : dev'[c] = dev[c]
    BY <2>1 DEF IInv, Shaped, Keyboards, Fields
  <2>3. \A c \in Devs : Sequence(dev'[c].pend) /\ (HasFull(c) => HasFull(c)')
    <3> TAKE c \in Devs
    <3>1. Sequence(dev[c].pend)
      BY DEF IInv, Shaped
    <3>2. CASE c = d
      BY <2>2, <3>1, <3>2, FullKept
    <3>3. CASE c # d
      BY <2>2, <3>1, <3>3 DEF HasFull
    <3> QED
      BY <3>2, <3>3
  <2>4. dev[d].notes \in Seq(Locks)
    BY DEF IInv, Shaped
  <2>5. heard \in Seq(Locks) /\ (Sync \in dev[d].reg => heard # <<>> /\ Last(heard) = t)
    BY <2>4, Addition DEF heard, Last
  <2>6. Shaped'
    BY <2>2, <2>3, <2>5 DEF IInv, Shaped
  <2>7. InStep'
    <3>1. ToSet(ex) \subseteq Devs
      BY DEF IInv, Lists, ToSet
    <3>2. d \in ToSet(ex) => Sync \in dev[d].reg
      BY DEF IInv, Lists, Told
    <3> QED
      BY <1>1, <2>2, <2>5, <3>1, <3>2 DEF IInv, InStep, splitter, history
  <2> QED
    BY <1>1, <2>2, <2>3, <2>6, <2>7, ListsKept, ToldKept, SignalKept DEF IInv, splitter, history
<1> QED
  BY <1>2, <1>3

(* A notification is heard; the one heard last is the one that counts.      *)
LEMMA SyncKeeps == ASSUME IInv, NEW d \in Devs, ToggleStateSyncKeyNotify(d) PROVE IInv'
<1> DEFINE t == Head(dev[d].notes)
           D == [dev EXCEPT ![d].notes = Tail(@)]
<1>1. dev[d].notes # <<>> /\ UNCHANGED <<textIn, ex, cap, queue, signalled, notify, handles, stops>>
  BY DEF ToggleStateSyncKeyNotify
<1>2. dev[d].notes \in Seq(Locks)
  BY DEF IInv, Shaped
<1>3. t \in Locks /\ Tail(dev[d].notes) \in Seq(Locks)
  BY <1>1, <1>2
<1>4. /\ Keyboards(D) /\ \A c \in Devs \ {d} : D[c] = dev[c]
      /\ D[d].reg = dev[d].reg /\ D[d].toggle = dev[d].toggle /\ D[d].exposed = dev[d].exposed
      /\ D[d].pend = dev[d].pend /\ D[d].notes = Tail(dev[d].notes)
  BY DEF IInv, Shaped, Keyboards, Fields
<1>5. ToSet(ex) \subseteq Devs
  BY DEF IInv, Lists, ToSet
<1>6. CASE t = physical /\ dev' = D /\ UNCHANGED <<physical, torn>>
  <2>1. Shaped'
    BY <1>3, <1>4, <1>6 DEF IInv, Shaped
  <2>2. InStep'
    <3> SUFFICES ASSUME ~torn, d \in ToSet(ex)
                 PROVE  \/ dev[d].toggle = physical
                        \/ Tail(dev[d].notes) # <<>> /\ dev[d].toggle = Last(Tail(dev[d].notes))
      BY <1>1, <1>4, <1>5, <1>6 DEF IInv, InStep
    <3>1. CASE Len(dev[d].notes) = 1
      BY <1>1, <1>2, <1>6, <3>1 DEF IInv, InStep, Last
    <3>2. CASE Len(dev[d].notes) # 1
      <4>1. Tail(dev[d].notes) # <<>> /\ Last(Tail(dev[d].notes)) = Last(dev[d].notes)
        BY <1>1, <1>2, <3>2, LastOfTail
      <4> QED
        BY <4>1 DEF IInv, InStep
    <3> QED
      BY <3>1, <3>2
  <2>3. \A c \in Devs : dev'[c].reg = dev[c].reg /\ dev'[c].pend = dev[c].pend
    BY <1>4, <1>6
  <2>4. \A c \in Devs : HasFull(c) => HasFull(c)'
    BY <2>3 DEF HasFull
  <2> QED
    BY <1>1, <2>1, <2>2, <2>3, <2>4, ListsKept, ToldKept, SignalKept DEF IInv
<1>7. ASSUME NEW bad, t # physical, dev' = SetStateOfAll(D, ex, t, bad), physical' = t,
             torn' = (bad \cap ToSet(ex) # {})
      PROVE  IInv'
  <2> HIDE DEF t, D
  <2>1. /\ Keyboards(dev')
        /\ \A c \in Devs : /\ dev'[c].reg = D[c].reg /\ dev'[c].pend = D[c].pend /\ dev'[c].notes = D[c].notes
                           /\ c \in ToSet(ex) /\ ~Refuses(c, t, bad)
                              => dev'[c].toggle = t /\ dev'[c].exposed = TRUE
    BY <1>4, <1>7 DEF SetStateOfAll, SetStateOf, Refuses, Keyboards, Fields
  <2>2. \A c \in Devs : dev'[c].reg = dev[c].reg /\ dev'[c].pend = dev[c].pend
    BY <1>4, <2>1
  <2>3. Shaped'
    <3>1. \A c \in Devs : dev'[c].notes \in Seq(Locks)
      BY <1>3, <1>4, <2>1 DEF IInv, Shaped
    <3> QED
      BY <2>1, <2>2, <3>1 DEF IInv, Shaped
  <2>4. InStep'
    BY <1>1, <1>3, <1>5, <1>7, <2>1, ConInAssumption DEF InStep, Refuses
  <2>5. \A c \in Devs : HasFull(c) => HasFull(c)'
    BY <2>2 DEF HasFull
  <2> QED
    BY <1>1, <2>2, <2>3, <2>4, <2>5, ListsKept, ToldKept, SignalKept DEF IInv
<1> QED
  BY <1>6, <1>7, Zenon DEF ToggleStateSyncKeyNotify
-----------------------------------------------------------------------------
(* Keyboards come and go.                                                  *)

(* What TextInExAddDevice does, by whether the keyboard takes all.         *)
LEMMA ExAddKeeps ==
  ASSUME IInv, NEW d \in Devs, d \notin ToSet(textIn), NEW bad, NEW deaf,
         TextInExAddDevice(d, bad, deaf), TextInAddDevice(d),
         UNCHANGED <<signalled, physical, notify, stops>>
  PROVE  IInv'
<1> DEFINE grown == IF Len(ex) < cap THEN cap ELSE cap + Unit
           added == FirstRefused(notify, d, bad) = 0
           R == Registered(d, bad)
           D == [dev EXCEPT ![d].reg = R]
<1>1. /\ textIn \in Seq(Devs) /\ ex \in Seq(Devs) /\ Distinct(ex) /\ ToSet(ex) \subseteq ToSet(textIn)
      /\ cap \in Nat /\ Len(ex) <= cap /\ Len(ex) \in Nat
  BY DEF IInv, Lists
<1>2. grown \in Nat /\ cap <= grown /\ Len(ex) + 1 <= grown
  BY <1>1, ConInAssumption
<1>3. /\ cap' = grown
      /\ handles' = [n \in DOMAIN handles |-> [i \in 1 .. grown |->
                      IF i = Len(ex) + 1 /\ added THEN d
                      ELSE IF i \in DOMAIN handles[n] THEN handles[n][i] ELSE None]]
      /\ ex' = IF added THEN Append(ex, d) ELSE ex
      /\ dev' = IF added THEN Synced(D, d, deaf) ELSE D
      /\ torn' = (torn \/ (added /\ Refuses(d, physical, deaf)))
  BY DEF TextInExAddDevice
<1>4. textIn' \in Seq(Devs) /\ ToSet(textIn') = ToSet(textIn) \cup {d}
  BY <1>1, Addition DEF TextInAddDevice
<1>5. /\ R = IF added THEN dev[d].reg \cup ToSet(notify)
              ELSE dev[d].reg \ {notify[i] : i \in 1 .. FirstRefused(notify, d, bad) - 1}
  BY DEF Registered
<1>6. /\ Keyboards(D) /\ \A c \in Devs \ {d} : D[c] = dev[c]
      /\ D[d].reg = R /\ D[d].pend = dev[d].pend /\ D[d].notes = dev[d].notes
  BY DEF IInv, Shaped, Keyboards, Fields
<1> HIDE DEF grown, added, R, D
<1>7. /\ Keyboards(dev') /\ \A c \in Devs \ {d} : dev'[c] = dev[c]
      /\ dev'[d].reg = R /\ dev'[d].pend = dev[d].pend /\ dev'[d].notes = dev[d].notes
      /\ added /\ ~Refuses(d, physical, deaf) => dev'[d].toggle = physical /\ dev'[d].exposed = TRUE
  <2>1. CASE added
    BY <1>3, <1>6, <2>1 DEF Synced, SetStateOf, Refuses, Keyboards, Fields
  <2>2. CASE ~added
    BY <1>3, <1>6, <2>2
  <2> QED
    BY <2>1, <2>2
<1>8. d \notin ToSet(ex) /\ ToSet(ex) \subseteq Devs
  <2>1. ToSet(ex) \subseteq Devs
    BY <1>1 DEF ToSet
  <2> QED
    BY <1>1, <2>1
<1>9. /\ ex' \in Seq(Devs) /\ Distinct(ex') /\ Len(ex') <= grown
      /\ ToSet(ex') = IF added THEN ToSet(ex) \cup {d} ELSE ToSet(ex)
      /\ Len(ex') = IF added THEN Len(ex) + 1 ELSE Len(ex)
      /\ \A i \in 1 .. Len(ex') : ex'[i] = IF i = Len(ex) + 1 THEN d ELSE ex[i]
  <2>1. CASE added
    BY <1>1, <1>2, <1>3, <1>8, <2>1, Addition
  <2>2. CASE ~added
    BY <1>1, <1>2, <1>3, <2>2
  <2> QED
    BY <2>1, <2>2
<1>10. Lists'
  BY <1>1, <1>2, <1>3, <1>4, <1>9 DEF IInv, Lists
<1>11. Shaped'
  BY <1>7 DEF IInv, Shaped
<1>12. Told'
  <2>1. \A c \in ToSet(ex') : ToSet(notify) \subseteq dev'[c].reg
    <3> TAKE c \in ToSet(ex')
    <3>1. CASE c = d
      BY <1>5, <1>7, <1>8, <1>9, <3>1
    <3>2. CASE c # d
      BY <1>7, <1>8, <1>9, <3>2 DEF IInv, Told
    <3> QED
      BY <3>1, <3>2
  <2>2. ASSUME stops = 0
        PROVE  \A c \in Devs : dev'[c].reg = IF c \in ToSet(ex') THEN ToSet(notify) ELSE {}
    <3> TAKE c \in Devs
    <3>1. CASE c = d
      <4>1. dev[d].reg = {}
        BY <1>8, <2>2 DEF IInv, Told
      <4> QED
        BY <1>5, <1>7, <1>8, <1>9, <3>1, <4>1
    <3>2. CASE c # d
      BY <1>7, <1>9, <2>2, <3>2 DEF IInv, Told
    <3> QED
      BY <3>1, <3>2
  <2>3. ASSUME stops = 0
        PROVE  \A n \in ToSet(notify) \ {Sync} :
                 /\ n \in DOMAIN handles' /\ DOMAIN handles'[n] = 1 .. cap'
                 /\ \A i \in 1 .. Len(ex') : handles'[n][i] = ex'[i]
    <3> TAKE n \in ToSet(notify) \ {Sync}
    <3>1. /\ n \in DOMAIN handles /\ DOMAIN handles[n] = 1 .. cap
          /\ \A i \in 1 .. Len(ex) : handles[n][i] = ex[i]
      BY <2>3 DEF IInv, Told, HandlesMatch
    <3>2. /\ n \in DOMAIN handles' /\ DOMAIN handles'[n] = 1 .. cap'
          /\ \A i \in 1 .. grown : handles'[n][i] =
                 IF i = Len(ex) + 1 /\ added THEN d
                 ELSE IF i \in 1 .. cap THEN handles[n][i] ELSE None
      BY <1>3, <3>1
    <3>3. \A i \in 1 .. Len(ex') : /\ i \in 1 .. grown
                                   /\ (i = Len(ex) + 1 /\ added) \/ i \in 1 .. Len(ex)
                                   /\ i \in 1 .. Len(ex) => i \in 1 .. cap /\ i # Len(ex) + 1
      BY <1>1, <1>2, <1>9
    <3> QED
      BY <1>9, <3>1, <3>2, <3>3
  <2> QED
    BY <2>1, <2>2, <2>3 DEF Told, HandlesMatch
<1>13. InStep'
  <2> SUFFICES ASSUME ~torn', NEW c \in ToSet(ex')
               PROVE  /\ dev'[c].exposed
                      /\ \/ dev'[c].toggle = physical
                         \/ dev'[c].notes # <<>> /\ dev'[c].toggle = Last(dev'[c].notes)
    BY DEF InStep
  <2>1. ~torn /\ (added => ~Refuses(d, physical, deaf))
    BY <1>3
  <2>2. CASE c = d
    BY <1>7, <1>8, <1>9, <2>1, <2>2
  <2>3. CASE c # d
    BY <1>7, <1>8, <1>9, <2>1, <2>3 DEF IInv, InStep
  <2> QED
    BY <2>2, <2>3
<1>14. Signalled'
  <2>1. ToSet(textIn) \subseteq Devs
    BY <1>1 DEF ToSet
  <2>2. \A c \in ToSet(textIn) : c \in ToSet(textIn') /\ dev'[c] = dev[c]
    BY <1>4, <1>7, <2>1
  <2>3. \A c \in ToSet(textIn) : HasFull(c) => HasFull(c)'
    BY <2>2 DEF HasFull
  <2> QED
    BY <2>2, <2>3 DEF IInv, Signalled
<1> QED
  BY <1>10, <1>11, <1>12, <1>13, <1>14 DEF IInv

LEMMA StartKeeps ==
  ASSUME IInv, NEW d \in Devs, NEW bad, NEW deaf, ConInStart(d, bad, deaf)
  PROVE  IInv'
<1>1. CASE d \in ExDevs
  BY <1>1, ExAddKeeps DEF ConInStart
<1>2. CASE d \notin ExDevs
  <2>1. UNCHANGED <<cap, handles, ex, dev, torn, signalled, physical, notify, stops>>
    BY <1>2 DEF ConInStart
  <2>2. textIn \in Seq(Devs) /\ textIn' = Append(textIn, d)
    BY DEF IInv, Lists, ConInStart, TextInAddDevice
  <2>3. textIn' \in Seq(Devs) /\ ToSet(textIn') = ToSet(textIn) \cup {d}
    BY <2>2, Addition
  <2>4. Lists'
    BY <2>1, <2>3 DEF IInv, Lists
  <2>5. Shaped' /\ \A c \in Devs : HasFull(c) <=> HasFull(c)'
    BY <2>1 DEF IInv, Shaped, HasFull
  <2>6. Signalled'
    <3>1. ToSet(textIn) \subseteq Devs
      BY <2>2 DEF ToSet
    <3> QED
      BY <2>1, <2>3, <2>5, <3>1 DEF IInv, Signalled
  <2> QED
    BY <2>1, <2>4, <2>5, <2>6, ToldKept, InStepKept DEF IInv
<1> QED
  BY <1>1, <1>2

LEMMA StopKeeps == ASSUME IInv, NEW d \in Devs, ConInStop(d) PROVE IInv'
<1>1. /\ textIn \in Seq(Devs) /\ ex \in Seq(Devs) /\ Distinct(ex) /\ ToSet(ex) \subseteq ToSet(textIn)
      /\ cap \in Nat /\ Len(ex) <= cap /\ stops \in Nat
  BY DEF IInv, Lists
<1>2. /\ textIn' = RemoveFirst(textIn, d) /\ ex' = RemoveFirst(ex, d) /\ stops' = stops + 1
      /\ dev' = [dev EXCEPT ![d] = Plugged]
      /\ UNCHANGED <<cap, physical, notify, torn>>
  BY DEF ConInStop, TextInDeleteDevice, TextInExDeleteDevice
<1>3. textIn' \in Seq(Devs) /\ ToSet(textIn) \ {d} \subseteq ToSet(textIn')
  BY <1>1, <1>2, Removal
<1>4. ex' \in Seq(Devs) /\ Len(ex') <= Len(ex) /\ Distinct(ex') /\ ToSet(ex') = ToSet(ex) \ {d}
  BY <1>1, <1>2, Removal
<1>5. /\ Keyboards(dev') /\ dev'[d] = Plugged /\ \A c \in Devs \ {d} : dev'[c] = dev[c]
  BY <1>2 DEF IInv, Shaped, Keyboards, Fields, Plugged
<1>6. Lists'
  <2>1. Len(ex') \in Nat /\ Len(ex) \in Nat
    BY <1>1, <1>4
  <2> QED
    BY <1>1, <1>2, <1>3, <1>4, <2>1 DEF IInv, Lists
<1>7. Shaped'
  <2>1. \A S : <<>> \in Seq(S)
    OBVIOUS
  <2>2. Plugged.notes = <<>> /\ Plugged.pend = <<>>
    BY DEF Plugged
  <2> QED
    BY <1>5, <2>1, <2>2 DEF IInv, Shaped, Sequence
<1>8. ToSet(ex) \subseteq Devs /\ stops' # 0
  <2>1. ToSet(ex) \subseteq Devs
    BY <1>1 DEF ToSet
  <2> QED
    BY <1>1, <1>2, <2>1
<1>9. Told' /\ InStep' /\ Signalled'
  BY <1>2, <1>4, <1>5, <1>8 DEF IInv, Told, InStep, Signalled
<1> QED
  BY <1>6, <1>7, <1>9 DEF IInv
-----------------------------------------------------------------------------
(* Resets, reads and toggle states.                                        *)

LEMMA EmptySequence == \A S : <<>> \in Seq(S)
  OBVIOUS

LEMMA ResetKeeps ==
  ASSUME IInv, NEW list, NEW bad, NEW deaf, Reset(list, bad, deaf)
  PROVE  IInv'
<1> DEFINE worst == bad \cap ToSet(list) # {}
           D == ResetOfAll(dev, list, bad)
<1>1. ~signalled' /\ UNCHANGED <<textIn, ex, cap, notify, handles, stops>>
  BY DEF Reset, ClearSignal
<1>2. /\ Keyboards(D)
      /\ \A c \in Devs : /\ D[c].reg = dev[c].reg
                         /\ D[c].notes = dev[c].notes \/ D[c].notes = <<>>
                         /\ D[c].pend = dev[c].pend \/ D[c].pend = <<>>
  BY DEF ResetOfAll, IInv, Shaped, Keyboards, Fields
<1>3. \/ worst /\ dev' = D /\ torn'
      \/ /\ physical' = Off /\ torn' = (deaf \cap ToSet(ex) # {})
         /\ dev' = SetStateOfAll(D, ex, Off, deaf)
  BY DEF Reset, ToggleStateSyncReInitialization
<1> HIDE DEF worst, D
<1>4. /\ Keyboards(dev')
      /\ \A c \in Devs : dev'[c].reg = D[c].reg /\ dev'[c].pend = D[c].pend /\ dev'[c].notes = D[c].notes
      /\ ~torn' => \A c \in Devs : c \in ToSet(ex) => dev'[c].toggle = physical' /\ dev'[c].exposed = TRUE
  <2>1. CASE dev' = D /\ torn'
    BY <1>2, <2>1
  <2>2. CASE /\ physical' = Off /\ torn' = (deaf \cap ToSet(ex) # {})
             /\ dev' = SetStateOfAll(D, ex, Off, deaf)
    BY <1>2, <2>2, ConInAssumption DEF SetStateOfAll, SetStateOf, Keyboards, Fields
  <2> QED
    BY <1>3, <2>1, <2>2
<1>5. Shaped'
  BY <1>2, <1>4, EmptySequence DEF IInv, Shaped, Sequence
<1>6. ToSet(ex) \subseteq Devs
  BY DEF IInv, Lists, ToSet
<1>7. InStep' /\ Signalled'
  BY <1>1, <1>4, <1>6 DEF InStep, Signalled
<1> QED
  BY <1>1, <1>2, <1>4, <1>5, <1>7, ListsKept, ToldKept DEF IInv

(* A read takes keys from keyboards, and the signal back.                  *)
LEMMA ReadKeeps ==
  ASSUME IInv, ~signalled', UNCHANGED <<textIn, ex, cap, physical, notify, handles, torn, stops>>,
         Keyboards(dev'),
         \A c \in Devs : /\ dev'[c].reg = dev[c].reg /\ dev'[c].toggle = dev[c].toggle
                         /\ dev'[c].exposed = dev[c].exposed /\ dev'[c].notes = dev[c].notes
                         /\ Sequence(dev'[c].pend)
  PROVE  IInv'
<1>1. Shaped'
  BY DEF IInv, Shaped
<1>2. Signalled'
  BY DEF Signalled
<1> QED
  BY <1>1, <1>2, ListsKept, ToldKept, InStepKept DEF IInv

LEMMA ReadKeyStrokeKeeps == ASSUME IInv, NEW bad, ReadKeyStroke(bad) PROVE IInv'
<1> DEFINE Left(d) == IF FullAt(dev, d) = 0 THEN <<>>
                      ELSE SubSeq(dev[d].pend, FullAt(dev, d) + 1, Len(dev[d].pend))
<1>1. ~signalled' /\ UNCHANGED <<textIn, ex, cap, physical, notify, handles, torn, stops>>
  BY DEF ReadKeyStroke, ClearSignal, PrivateReadKeyStroke
<1>2. \/ dev' = dev
      \/ \E read : dev' = [d \in Devs |-> IF d \in read THEN [dev[d] EXCEPT !.pend = Left(d)] ELSE dev[d]]
  <2> DEFINE full == {i \in 1 .. Len(queue) : queue[i][2] # Partial}
             asked == Kept(textIn, Devs \ bad)
             givers == {i \in 1 .. Len(asked) : FullAt(dev, asked[i]) # 0}
             last == IF givers = {} THEN Len(asked) ELSE Min(givers)
             read == {asked[i] : i \in 1 .. last}
  <2>1. \/ dev' = dev
        \/ dev' = [d \in Devs |-> IF d \in read THEN [dev[d] EXCEPT !.pend = Left(d)] ELSE dev[d]]
    BY DEF ReadKeyStroke, PrivateReadKeyStroke
  <2> HIDE DEF read
  <2> QED
    BY <2>1
<1>3. \A d \in Devs : Sequence(Left(d)) /\ Sequence(dev[d].pend)
  <2> TAKE d \in Devs
  <2>1. Sequence(dev[d].pend)
    BY DEF IInv, Shaped
  <2>2. PICK S : dev[d].pend \in Seq(S)
    BY <2>1 DEF Sequence
  <2>3. CASE FullAt(dev, d) = 0
    BY <2>1, <2>3, EmptySequence DEF Sequence
  <2>4. CASE FullAt(dev, d) # 0
    <3> DEFINE full == {i \in 1 .. Len(dev[d].pend) : dev[d].pend[i] # Partial}
    <3>1. full # {} /\ FullAt(dev, d) = Min(full)
      BY <2>4 DEF FullAt
    <3>2. full \in SUBSET Nat
      OBVIOUS
    <3>3. Min(full) \in full
      BY <3>1, <3>2, MinIsLeast
    <3>4. FullAt(dev, d) \in 1 .. Len(dev[d].pend)
      BY <3>1, <3>3
    <3>5. SubSeq(dev[d].pend, FullAt(dev, d) + 1, Len(dev[d].pend)) \in Seq(S)
      BY <2>2, <3>4
    <3> QED
      BY <2>1, <2>4, <3>5 DEF Sequence
  <2> QED
    BY <2>3, <2>4
<1> HIDE DEF Left
<1>4. /\ Keyboards(dev')
      /\ \A c \in Devs : /\ dev'[c].reg = dev[c].reg /\ dev'[c].toggle = dev[c].toggle
                         /\ dev'[c].exposed = dev[c].exposed /\ dev'[c].notes = dev[c].notes
                         /\ Sequence(dev'[c].pend)
  <2>1. CASE dev' = dev
    BY <1>3, <2>1 DEF IInv, Shaped
  <2>2. ASSUME NEW read,
               dev' = [d \in Devs |-> IF d \in read THEN [dev[d] EXCEPT !.pend = Left(d)] ELSE dev[d]]
        PROVE  <1>4
    BY <1>3, <2>2 DEF IInv, Shaped, Keyboards, Fields
  <2> QED
    BY <1>2, <2>1, <2>2
<1> QED
  BY <1>1, <1>4, ReadKeeps

LEMMA ReadKeyStrokeExKeeps == ASSUME IInv, NEW bad, ReadKeyStrokeEx(bad) PROVE IInv'
<1>1. ~signalled' /\ UNCHANGED <<textIn, ex, cap, physical, notify, handles, torn, stops>>
  BY DEF ReadKeyStrokeEx, ClearSignal
<1>2. \/ dev' = dev
      \/ dev' = [d \in Devs |-> IF d \in ToSet(ex) \ bad /\ dev[d].pend # <<>>
                                THEN [dev[d] EXCEPT !.pend = Tail(@)] ELSE dev[d]]
  BY Zenon DEF ReadKeyStrokeEx
<1>3. \A d \in Devs : Sequence(dev[d].pend) /\ (dev[d].pend # <<>> => Sequence(Tail(dev[d].pend)))
  <2> TAKE d \in Devs
  <2>1. PICK S : dev[d].pend \in Seq(S)
    BY DEF IInv, Shaped, Sequence
  <2>2. dev[d].pend # <<>> => Tail(dev[d].pend) \in Seq(S)
    BY <2>1
  <2> QED
    BY <2>1, <2>2 DEF Sequence
<1>4. /\ Keyboards(dev')
      /\ \A c \in Devs : /\ dev'[c].reg = dev[c].reg /\ dev'[c].toggle = dev[c].toggle
                         /\ dev'[c].exposed = dev[c].exposed /\ dev'[c].notes = dev[c].notes
                         /\ Sequence(dev'[c].pend)
  <2>1. CASE dev' = dev
    BY <1>3, <2>1 DEF IInv, Shaped
  <2>2. CASE dev' = [d \in Devs |-> IF d \in ToSet(ex) \ bad /\ dev[d].pend # <<>>
                                   THEN [dev[d] EXCEPT !.pend = Tail(@)] ELSE dev[d]]
    BY <1>3, <2>2 DEF IInv, Shaped, Keyboards, Fields
  <2> QED
    BY <1>2, <2>1, <2>2
<1> QED
  BY <1>1, <1>4, ReadKeeps

LEMMA WaitKeeps == ASSUME IInv, WaitForKey PROVE IInv'
<1>1. UNCHANGED <<textIn, ex, cap, physical, notify, handles, dev, torn, stops>>
  BY DEF WaitForKey, history
<1>2. signalled' => signalled \/ \E d \in ToSet(textIn) : HasFull(d)
  BY FullIsFound DEF WaitForKey
<1>3. \A d : HasFull(d) <=> HasFull(d)'
  BY <1>1 DEF HasFull
<1>4. Signalled'
  BY <1>1, <1>2, <1>3 DEF IInv, Signalled
<1>5. Shaped'
  BY <1>1 DEF IInv, Shaped
<1> QED
  BY <1>1, <1>4, <1>5, ListsKept, ToldKept, InStepKept DEF IInv

(* A state that all took is the state of all; one that the first refused    *)
(* has changed nothing.                                                    *)
LEMMA SetStateKeeps ==
  ASSUME IInv, NEW state, NEW expose, NEW bad, SetState(state, expose, bad)
  PROVE  IInv'
<1> DEFINE f == {i \in 1 .. Len(ex) : Refuses(ex[i], state, bad)}
           took == IF f = {} THEN ex ELSE SubSeq(ex, 1, Min(f) - 1)
<1>1. UNCHANGED <<textIn, ex, cap, signalled, notify, handles, stops>>
  BY DEF SetState
<1>2. /\ dev' = SetStateOfAll(dev, took, state, bad)
      /\ IF f = {} THEN physical' = state /\ torn' = FALSE
         ELSE torn' = (torn \/ Min(f) > 1) /\ UNCHANGED physical
  BY DEF SetState
<1>3. ex \in Seq(Devs) /\ ToSet(ex) \subseteq Devs
  <2>1. ex \in Seq(Devs)
    BY DEF IInv, Lists
  <2> QED
    BY <2>1 DEF ToSet
<1>4. f # {} => Min(f) \in 1 .. Len(ex)
  <2>1. f \in SUBSET Nat
    OBVIOUS
  <2>2. f # {} => Min(f) \in f
    BY <2>1, MinIsLeast
  <2> QED
    BY <2>2
<1>5. f # {} /\ ~(Min(f) > 1) => ToSet(took) = {}
  <2> HIDE DEF f
  <2> SUFFICES ASSUME f # {}, ~(Min(f) > 1) PROVE ToSet(took) = {}
    OBVIOUS
  <2>1. Min(f) = 1
    BY <1>4
  <2>2. took = SubSeq(ex, 1, 0)
    BY <2>1
  <2>3. Len(SubSeq(ex, 1, 0)) = 0
    BY <1>3
  <2> QED
    BY <2>2, <2>3 DEF ToSet
<1>6. f = {} => \A d \in ToSet(ex) : ~Refuses(d, state, bad)
  BY DEF ToSet
<1>7. f = {} => took = ex
  OBVIOUS
<1> HIDE DEF f, took
<1>8. /\ Keyboards(dev')
      /\ \A c \in Devs : dev'[c].reg = dev[c].reg /\ dev'[c].pend = dev[c].pend /\ dev'[c].notes = dev[c].notes
      /\ \A c \in Devs : IF c \in ToSet(took) /\ ~Refuses(c, state, bad)
                         THEN dev'[c].toggle = state /\ dev'[c].exposed = TRUE
                         ELSE dev'[c] = dev[c]
  BY <1>2 DEF SetStateOfAll, SetStateOf, Refuses, IInv, Shaped, Keyboards, Fields
<1>9. Shaped'
  BY <1>8 DEF IInv, Shaped
<1>10. InStep'
  <2>1. CASE f = {}
    BY <1>1, <1>2, <1>3, <1>6, <1>7, <1>8, <2>1 DEF InStep
  <2>2. CASE f # {}
    <3> SUFFICES ASSUME ~torn' PROVE InStep'
      BY DEF InStep
    <3>1. ~torn /\ ~(Min(f) > 1) /\ physical' = physical
      BY <1>2, <2>2
    <3>2. \A c \in Devs : dev'[c] = dev[c]
      BY <1>5, <1>8, <2>2, <3>1
    <3> QED
      BY <1>1, <1>3, <3>1, <3>2 DEF IInv, InStep
  <2> QED
    BY <2>1, <2>2
<1>11. \A c \in Devs : HasFull(c) => HasFull(c)'
  BY <1>8 DEF HasFull
<1> QED
  BY <1>1, <1>8, <1>9, <1>10, <1>11, ListsKept, ToldKept, SignalKept DEF IInv
-----------------------------------------------------------------------------
(* Registrations.                                                          *)

LEMMA RegisterKeeps ==
  ASSUME IInv, NEW n \in Callers, NEW bad, RegisterKeyNotify(n, bad)
  PROVE  IInv'
<1> DEFINE f == {i \in 1 .. Len(ex) : ex[i] \in bad /\ n \notin dev[ex[i]].reg}
           before == {ex[i] : i \in 1 .. (IF f = {} THEN Len(ex) ELSE Min(f) - 1)}
           all == \A d \in ToSet(ex) : n \in RegisteredOnAll(n, bad)[d]
           took == [m \in DOMAIN handles \cup {n} |->
                           IF m # n THEN handles[m]
                           ELSE [i \in 1 .. cap |-> IF i <= Len(ex) THEN ex[i] ELSE None]]
<1>1. /\ UNCHANGED <<textIn, ex, cap, signalled, physical, torn, stops>>
      /\ n \notin ToSet(notify)
  BY DEF RegisterKeyNotify, IsKeyRegistered, history
<1>2. /\ dev' = [d \in Devs |-> [dev[d] EXCEPT !.reg = RegisteredOnAll(n, bad)[d]]]
      /\ IF all THEN notify' = Append(notify, n) /\ handles' = took ELSE UNCHANGED <<notify, handles>>
  BY DEF RegisterKeyNotify
<1>3. \A d \in Devs : RegisteredOnAll(n, bad)[d] =
         IF d \notin before THEN dev[d].reg
         ELSE IF f = {} THEN dev[d].reg \cup {n} ELSE dev[d].reg \ {n}
  BY DEF RegisteredOnAll
<1>4. ToSet(ex) \subseteq Devs /\ ex \in Seq(Devs)
  <2>1. ex \in Seq(Devs)
    BY DEF IInv, Lists
  <2> QED
    BY <2>1 DEF ToSet
<1>5. f = {} => before = ToSet(ex)
  <2> HIDE DEF f
  <2> SUFFICES ASSUME f = {} PROVE before = ToSet(ex)
    OBVIOUS
  <2>1. before = {ex[i] : i \in 1 .. Len(ex)}
    OBVIOUS
  <2> QED
    BY <1>4, <2>1 DEF ToSet
<1>6. f # {} => \E d \in ToSet(ex) : n \notin dev[d].reg
  BY DEF ToSet
<1> HIDE DEF f, before
<1>7. all <=> f = {}
  BY <1>3, <1>4, <1>5, <1>6
<1> HIDE DEF all, took
<1>8. /\ Keyboards(dev')
      /\ \A c \in Devs : /\ dev'[c].reg = RegisteredOnAll(n, bad)[c]
                         /\ dev'[c].toggle = dev[c].toggle /\ dev'[c].exposed = dev[c].exposed
                         /\ dev'[c].notes = dev[c].notes /\ dev'[c].pend = dev[c].pend
  BY <1>2 DEF IInv, Shaped, Keyboards, Fields
<1>9. Shaped' /\ \A c \in Devs : HasFull(c) => HasFull(c)'
  BY <1>8 DEF IInv, Shaped, HasFull
<1>10. CASE f = {}
  <2>1. notify' = Append(notify, n) /\ handles' = took
    BY <1>2, <1>7, <1>10
  <2>2. /\ notify' \in Seq(Callers \cup {Sync}) /\ ToSet(notify') = ToSet(notify) \cup {n} /\ Distinct(notify')
    <3>1. notify \in Seq(Callers \cup {Sync}) /\ Distinct(notify) /\ n \in Callers \cup {Sync}
      BY DEF IInv, Lists
    <3> QED
      BY <1>1, <2>1, <3>1, Addition
  <2>3. Lists'
    BY <1>1, <2>2 DEF IInv, Lists
  <2>4. \A c \in Devs : dev'[c].reg = IF c \in ToSet(ex) THEN dev[c].reg \cup {n} ELSE dev[c].reg
    BY <1>3, <1>5, <1>8, <1>10
  <2>5. HandlesMatch => HandlesMatch'
    <3> SUFFICES ASSUME HandlesMatch, NEW m \in ToSet(notify') \ {Sync}
                 PROVE  /\ m \in DOMAIN handles' /\ DOMAIN handles'[m] = 1 .. cap
                        /\ \A i \in 1 .. Len(ex) : handles'[m][i] = ex[i]
      BY <1>1 DEF HandlesMatch
    <3>1. CASE m = n
      <4>1. m \in DOMAIN handles' /\ handles'[m] = [i \in 1 .. cap |-> IF i <= Len(ex) THEN ex[i] ELSE None]
        BY <2>1, <3>1 DEF took
      <4>2. Len(ex) \in Nat /\ cap \in Nat /\ Len(ex) <= cap
        BY <1>4 DEF IInv, Lists
      <4> QED
        BY <4>1, <4>2
    <3>2. CASE m # n
      <4>1. m \in ToSet(notify) \ {Sync}
        BY <2>2, <3>2
      <4>2. /\ m \in DOMAIN handles /\ DOMAIN handles[m] = 1 .. cap
            /\ \A i \in 1 .. Len(ex) : handles[m][i] = ex[i]
        BY <4>1 DEF HandlesMatch
      <4>3. m \in DOMAIN handles' /\ handles'[m] = handles[m]
        BY <2>1, <3>2, <4>2 DEF took
      <4> QED
        BY <4>2, <4>3
    <3> QED
      BY <3>1, <3>2
  <2>6. Told'
    BY <1>1, <1>4, <2>2, <2>4, <2>5 DEF IInv, Told
  <2> QED
    BY <1>1, <1>8, <1>9, <2>3, <2>6, InStepKept, SignalKept DEF IInv
<1>11. CASE f # {}
  <2>1. UNCHANGED <<notify, handles>>
    BY <1>2, <1>7, <1>11
  <2>2. \A c \in Devs : dev'[c].reg = dev[c].reg \/ dev'[c].reg = dev[c].reg \ {n}
    BY <1>3, <1>8, <1>11
  <2>3. HandlesMatch => HandlesMatch'
    BY <1>1, <2>1 DEF HandlesMatch
  <2>4. Told'
    <3>1. \A c \in ToSet(ex) : ToSet(notify) \subseteq dev'[c].reg
      BY <1>1, <1>4, <2>2 DEF IInv, Told
    <3>2. stops = 0 => \A c \in Devs : dev'[c].reg = dev[c].reg
      <4> SUFFICES ASSUME stops = 0, NEW c \in Devs PROVE dev'[c].reg = dev[c].reg
        OBVIOUS
      <4>1. dev[c].reg = IF c \in ToSet(ex) THEN ToSet(notify) ELSE {}
        BY DEF IInv, Told
      <4>2. n \notin dev[c].reg
        BY <1>1, <4>1
      <4> QED
        BY <2>2, <4>2
    <3> QED
      BY <1>1, <2>1, <2>3, <3>1, <3>2 DEF IInv, Told
  <2> QED
    BY <1>1, <1>8, <1>9, <2>1, <2>4, ListsKept, InStepKept, SignalKept DEF IInv
<1> QED
  BY <1>10, <1>11

LEMMA UnregisterKeeps ==
  ASSUME IInv, NEW n \in Callers, UnregisterKeyNotify(n)
  PROVE  IInv'
<1>1. /\ UNCHANGED <<textIn, ex, cap, signalled, physical, torn, stops>>
      /\ n \in ToSet(notify) /\ n # Sync
      /\ notify' = RemoveFirst(notify, n)
      /\ handles' = [m \in DOMAIN handles \ {n} |-> handles[m]]
  BY DEF UnregisterKeyNotify, history
<1>2. dev' = [d \in Devs |->
               IF \E i \in 1 .. Len(ex) : ex[i] = d /\ handles[n][i] = d
               THEN [dev[d] EXCEPT !.reg = @ \ {n}] ELSE dev[d]]
  BY DEF UnregisterKeyNotify
<1>3. /\ Keyboards(dev')
      /\ \A c \in Devs : /\ dev'[c].reg = dev[c].reg \/ dev'[c].reg = dev[c].reg \ {n}
                         /\ (\E i \in 1 .. Len(ex) : ex[i] = c /\ handles[n][i] = c)
                              => dev'[c].reg = dev[c].reg \ {n}
                         /\ dev'[c].toggle = dev[c].toggle /\ dev'[c].exposed = dev[c].exposed
                         /\ dev'[c].notes = dev[c].notes /\ dev'[c].pend = dev[c].pend
  BY <1>2 DEF IInv, Shaped, Keyboards, Fields
<1>4. Shaped' /\ \A c \in Devs : HasFull(c) => HasFull(c)'
  BY <1>3 DEF IInv, Shaped, HasFull
<1>5. /\ notify' \in Seq(Callers \cup {Sync}) /\ Distinct(notify') /\ ToSet(notify') = ToSet(notify) \ {n}
  <2>1. notify \in Seq(Callers \cup {Sync}) /\ Distinct(notify)
    BY DEF IInv, Lists
  <2> QED
    BY <1>1, <2>1, Removal
<1>6. Lists'
  BY <1>1, <1>5 DEF IInv, Lists
<1>7. ToSet(ex) \subseteq Devs
  BY DEF IInv, Lists, ToSet
<1>8. HandlesMatch => HandlesMatch'
  BY <1>1, <1>5 DEF HandlesMatch
<1>9. HandlesMatch => \A c \in ToSet(ex) : dev'[c].reg = dev[c].reg \ {n}
  <2> SUFFICES ASSUME HandlesMatch, NEW c \in ToSet(ex) PROVE dev'[c].reg = dev[c].reg \ {n}
    OBVIOUS
  <2>1. PICK i \in 1 .. Len(ex) : ex[i] = c
    BY DEF ToSet
  <2>2. handles[n][i] = c
    BY <1>1, <2>1 DEF HandlesMatch
  <2> QED
    BY <1>3, <1>7, <2>1, <2>2
<1>10. Told'
  <2>1. \A c \in ToSet(ex') : ToSet(notify') \subseteq dev'[c].reg
    BY <1>1, <1>3, <1>5, <1>7 DEF IInv, Told
  <2>2. stops = 0 => \A c \in Devs : dev'[c].reg = IF c \in ToSet(ex) THEN ToSet(notify') ELSE {}
    <3> SUFFICES ASSUME stops = 0, NEW c \in Devs
                 PROVE  dev'[c].reg = IF c \in ToSet(ex) THEN ToSet(notify') ELSE {}
      OBVIOUS
    <3>1. dev[c].reg = IF c \in ToSet(ex) THEN ToSet(notify) ELSE {}
      BY DEF IInv, Told
    <3>2. CASE c \in ToSet(ex)
      BY <1>5, <1>9, <3>1, <3>2 DEF IInv, Told
    <3>3. CASE c \notin ToSet(ex)
      BY <1>3, <3>1, <3>3
    <3> QED
      BY <3>2, <3>3
  <2> QED
    BY <1>1, <1>8, <2>1, <2>2 DEF IInv, Told
<1> QED
  BY <1>1, <1>3, <1>4, <1>6, <1>10, InStepKept, SignalKept DEF IInv
-----------------------------------------------------------------------------
LEMMA StutterKeeps == ASSUME IInv, UNCHANGED vars PROVE IInv'
<1>1. UNCHANGED <<textIn, ex, cap, signalled, physical, notify, handles, dev, torn, stops>>
  BY DEF vars, splitter, history
<1>2. Shaped' /\ \A c \in Devs : HasFull(c) => HasFull(c)'
  BY <1>1 DEF IInv, Shaped, HasFull
<1> QED
  BY <1>1, <1>2, ListsKept, ToldKept, InStepKept, SignalKept DEF IInv

LEMMA InvNext == IInv /\ [Next]_vars => IInv'
<1> SUFFICES ASSUME IInv, [Next]_vars PROVE IInv'
  OBVIOUS
<1>1. ASSUME NEW d \in Devs, Press(d) PROVE IInv'
  BY <1>1, PressKeeps
<1>2. ASSUME NEW d \in Devs, NEW t \in Locks, Toggle(d, t) PROVE IInv'
  BY <1>2, ToggleKeeps
<1>3. ASSUME NEW d \in Devs, ToggleStateSyncKeyNotify(d) PROVE IInv'
  BY <1>3, SyncKeeps
<1>4. ASSUME NEW d \in Devs, NEW bad, NEW deaf, ConInStart(d, bad, deaf) PROVE IInv'
  BY <1>4, StartKeeps
<1>5. ASSUME NEW d \in Devs, ConInStop(d) PROVE IInv'
  BY <1>5, StopKeeps
<1>6. ASSUME NEW bad, NEW deaf, TextInReset(bad, deaf) \/ Reset(ex, bad, deaf) PROVE IInv'
  BY <1>6, ResetKeeps DEF TextInReset
<1>7. ASSUME NEW bad, ReadKeyStroke(bad) PROVE IInv'
  BY <1>7, ReadKeyStrokeKeeps
<1>8. ASSUME NEW bad, ReadKeyStrokeEx(bad) PROVE IInv'
  BY <1>8, ReadKeyStrokeExKeeps
<1>9. ASSUME NEW state, NEW expose, NEW bad, SetState(state, expose, bad) PROVE IInv'
  BY <1>9, SetStateKeeps
<1>10. ASSUME NEW bad, NEW n \in Callers, RegisterKeyNotify(n, bad) PROVE IInv'
  BY <1>10, RegisterKeeps
<1>11. CASE WaitForKey
  BY <1>11, WaitKeeps
<1>12. ASSUME NEW n \in Callers, UnregisterKeyNotify(n) PROVE IInv'
  BY <1>12, UnregisterKeeps
<1>13. CASE UNCHANGED vars
  BY <1>13, StutterKeeps
<1> QED
  BY <1>1, <1>2, <1>3, <1>4, <1>5, <1>6, <1>7, <1>8, <1>9, <1>10, <1>11, <1>12, <1>13 DEF Next

LEMMA Always == Spec => []IInv
  BY InvInit, InvNext, PTL DEF Spec

-----------------------------------------------------------------------------
(* Sequences and what is kept of them.                                     *)

Below == {ss \in Nat \X Nat : ss[1] < ss[2]}

(* Induction over the natural numbers, for a set of them.                  *)
LEMMA Induction ==
  ASSUME NEW S \in SUBSET Nat, 0 \in S, \A n \in S : n + 1 \in S
  PROVE  S = Nat
<1>1. IsWellFoundedOn(Below, Nat)
  BY NatLessThanWellFounded DEF Below, OpToRel
<1>2. SUFFICES ASSUME Nat \ S # {} PROVE FALSE
  OBVIOUS
<1>3. PICK n \in Nat \ S : \A m \in Nat \ S : <<m, n>> \notin Below
  BY <1>1, <1>2, WFMin
<1>4. n # 0 /\ n - 1 \in Nat /\ n - 1 < n /\ <<n - 1, n>> \in Below
  BY <1>3 DEF Below
<1>5. n - 1 \in S
  BY <1>3, <1>4
<1>6. (n - 1) + 1 \in S
  BY <1>5
<1> QED
  BY <1>3, <1>6

(* A sequence that is not empty is its front and one more.                 *)
LEMMA FrontAndLast ==
  ASSUME NEW T, NEW s \in Seq(T), NEW n \in Nat, Len(s) = n + 1
  PROVE  /\ SubSeq(s, 1, n) \in Seq(T) /\ Len(SubSeq(s, 1, n)) = n /\ s[n + 1] \in T
         /\ s = Append(SubSeq(s, 1, n), s[n + 1])
<1> DEFINE r == SubSeq(s, 1, n)
<1>1. /\ r \in Seq(T) /\ Len(r) = n /\ s[n + 1] \in T
      /\ \A i \in 1 .. n : r[i] = s[i]
  OBVIOUS
<1> HIDE DEF r
<1>2. /\ Append(r, s[n + 1]) \in Seq(T) /\ Len(Append(r, s[n + 1])) = n + 1
      /\ \A i \in 1 .. n : Append(r, s[n + 1])[i] = r[i]
      /\ Append(r, s[n + 1])[n + 1] = s[n + 1]
  BY <1>1
<1> DEFINE a == Append(r, s[n + 1])
<1> HIDE DEF a
<1>3. a \in Seq(T) /\ Len(a) = Len(s) /\ \A i \in 1 .. Len(s) : a[i] = s[i]
  BY <1>1, <1>2 DEF a
<1>4. a = s
  BY <1>3, SeqEqual
<1> QED
  BY <1>1, <1>4 DEF r, a

(* Induction over sequences, for a set of them.                            *)
LEMMA SequenceInduction ==
  ASSUME NEW T, NEW X \in SUBSET Seq(T), <<>> \in X,
         \A s \in X, e \in T : Append(s, e) \in X
  PROVE  X = Seq(T)
<1> DEFINE S == {n \in Nat : \A s \in Seq(T) : Len(s) = n => s \in X}
<1>1. S \in SUBSET Nat /\ 0 \in S
  <2>1. \A s \in Seq(T) : Len(s) = 0 => s = <<>>
    BY EmptySeq
  <2> QED
    BY <2>1
<1>2. ASSUME NEW n \in S PROVE n + 1 \in S
  <2> SUFFICES ASSUME NEW s \in Seq(T), Len(s) = n + 1 PROVE s \in X
    OBVIOUS
  <2> DEFINE r == SubSeq(s, 1, n)
  <2>1. r \in Seq(T) /\ Len(r) = n /\ s[n + 1] \in T /\ s = Append(r, s[n + 1])
    BY FrontAndLast
  <2> HIDE DEF r
  <2> QED
    BY <2>1
<1> HIDE DEF S
<1>3. S = Nat
  BY <1>1, <1>2, Induction
<1>4. \A s \in Seq(T) : Len(s) \in S => s \in X
  BY DEF S
<1> QED
  BY <1>3, <1>4

(* The function by which Kept is defined.                                  *)
IsFilter(g, s, S, m) ==
  /\ g[0] = <<>>
  /\ \A i \in 1 .. m : g[i] = IF s[i] \in S THEN Append(g[i - 1], s[i]) ELSE g[i - 1]
Filters(s, S, T, m) == {g \in [0 .. m -> Seq(T)] : IsFilter(g, s, S, m)}

(* There is one for every sequence.                                        *)
LEMMA FiltersExist ==
  ASSUME NEW T, NEW s \in Seq(T), NEW S PROVE Filters(s, S, T, Len(s)) # {}
<1> DEFINE n == Len(s)
           X == {m \in Nat : m <= n => Filters(s, S, T, m) # {}}
<1>0. n \in Nat /\ \A i \in 1 .. n : s[i] \in T
  OBVIOUS
<1>1. Filters(s, S, T, 0) # {}
  <2> DEFINE g == [i \in 0 .. 0 |-> <<>>]
  <2>1. <<>> \in Seq(T)
    OBVIOUS
  <2>2. g \in Filters(s, S, T, 0)
    BY <2>1 DEF Filters, IsFilter
  <2> QED
    BY <2>2
<1>2. ASSUME NEW m \in Nat, m + 1 <= n, Filters(s, S, T, m) # {} PROVE Filters(s, S, T, m + 1) # {}
  <2>1. PICK g \in [0 .. m -> Seq(T)] :
          /\ g[0] = <<>>
          /\ \A i \in 1 .. m : g[i] = IF s[i] \in S THEN Append(g[i - 1], s[i]) ELSE g[i - 1]
    BY <1>2 DEF Filters, IsFilter
  <2> DEFINE new == IF s[m + 1] \in S THEN Append(g[m], s[m + 1]) ELSE g[m]
  <2>2. new \in Seq(T)
    <3>1. g[m] \in Seq(T) /\ m + 1 \in 1 .. n
      BY <1>2, <2>1
    <3>2. s[m + 1] \in T
      BY <1>0, <3>1
    <3> QED
      BY <3>1, <3>2
  <2> HIDE DEF new
  <2> DEFINE h == [i \in 0 .. m + 1 |-> IF i = m + 1 THEN new ELSE g[i]]
  <2>3. h \in [0 .. m + 1 -> Seq(T)]
    BY <2>1, <2>2
  <2>4. h[0] = <<>> /\ h[m + 1] = new /\ \A i \in 0 .. m : h[i] = g[i]
    BY <1>2, <2>1
  <2> HIDE DEF h
  <2>5. ASSUME NEW i \in 1 .. m + 1
        PROVE  h[i] = IF s[i] \in S THEN Append(h[i - 1], s[i]) ELSE h[i - 1]
    <3>1. CASE i = m + 1
      <4>1. h[i] = new /\ i - 1 = m /\ h[m] = g[m]
        BY <2>4, <3>1
      <4> QED
        BY <3>1, <4>1 DEF new
    <3>2. CASE i # m + 1
      <4>1. i \in 1 .. m /\ i - 1 \in 0 .. m /\ i \in 0 .. m
        BY <3>2
      <4>2. h[i] = g[i] /\ h[i - 1] = g[i - 1]
        BY <2>4, <4>1
      <4>3. g[i] = IF s[i] \in S THEN Append(g[i - 1], s[i]) ELSE g[i - 1]
        BY <2>1, <4>1
      <4> QED
        BY <4>2, <4>3
    <3> QED
      BY <3>1, <3>2
  <2>6. h \in Filters(s, S, T, m + 1)
    BY <2>3, <2>4, <2>5 DEF Filters, IsFilter
  <2> QED
    BY <2>6
<1>3. X \in SUBSET Nat /\ 0 \in X
  BY <1>1
<1>4. ASSUME NEW m \in X PROVE m + 1 \in X
  <2>1. m \in Nat /\ (m <= n => Filters(s, S, T, m) # {})
    OBVIOUS
  <2> HIDE DEF X
  <2>2. m + 1 <= n => Filters(s, S, T, m + 1) # {}
    <3> SUFFICES ASSUME m + 1 <= n PROVE Filters(s, S, T, m + 1) # {}
      OBVIOUS
    <3>1. m <= n
      BY <1>0, <2>1
    <3> QED
      BY <1>2, <2>1, <3>1
  <2> QED
    BY <2>1, <2>2 DEF X
<1> HIDE DEF X
<1>5. X = Nat
  BY <1>3, <1>4, Induction
<1>6. n \in X
  BY <1>0, <1>5
<1>7. n <= n
  BY <1>0
<1> QED
  BY <1>6, <1>7 DEF X

(* There is one such function only.                                        *)
LEMMA FiltersAgree ==
  ASSUME NEW s, NEW S, NEW m \in Nat, NEW f, NEW g,
         IsFilter(f, s, S, m), IsFilter(g, s, S, m)
  PROVE  f[m] = g[m]
<1> DEFINE X == {k \in Nat : k <= m => f[k] = g[k]}
<1>1. X \in SUBSET Nat /\ 0 \in X
  BY DEF IsFilter
<1>2. ASSUME NEW k \in X PROVE k + 1 \in X
  <2>1. CASE k + 1 <= m
    <3>1. k \in Nat /\ k + 1 \in 1 .. m /\ (k + 1) - 1 = k /\ f[k] = g[k]
      BY <2>1
    <3>2. /\ f[k + 1] = IF s[k + 1] \in S THEN Append(f[k], s[k + 1]) ELSE f[k]
          /\ g[k + 1] = IF s[k + 1] \in S THEN Append(g[k], s[k + 1]) ELSE g[k]
      BY <3>1 DEF IsFilter
    <3> QED
      BY <3>1, <3>2
  <2>2. CASE ~(k + 1 <= m)
    BY <2>2
  <2> QED
    BY <2>1, <2>2
<1> HIDE DEF X
<1>3. X = Nat
  BY <1>1, <1>2, Induction
<1>4. m \in X
  BY <1>3
<1> QED
  BY <1>4 DEF X

(* What is kept is its last value.                                         *)
LEMMA KeptIsLast ==
  ASSUME NEW T, NEW s \in Seq(T), NEW S, NEW g \in Filters(s, S, T, Len(s))
  PROVE  Kept(s, S) = g[Len(s)]
<1> DEFINE f == CHOOSE F : F = [i \in 0 .. Len(s) |->
                  IF i = 0 THEN <<>> ELSE IF s[i] \in S THEN Append(F[i - 1], s[i]) ELSE F[i - 1]]
<1>1. Kept(s, S) = f[Len(s)]
  BY DEF Kept
<1>2. g = [i \in 0 .. Len(s) |->
             IF i = 0 THEN <<>> ELSE IF s[i] \in S THEN Append(g[i - 1], s[i]) ELSE g[i - 1]]
  <2> DEFINE h == [i \in 0 .. Len(s) |->
             IF i = 0 THEN <<>> ELSE IF s[i] \in S THEN Append(g[i - 1], s[i]) ELSE g[i - 1]]
  <2>1. g \in [0 .. Len(s) -> Seq(T)]
    BY DEF Filters
  <2>2. ASSUME NEW i \in 0 .. Len(s) PROVE g[i] = h[i]
    <3>1. CASE i = 0
      BY <3>1 DEF Filters, IsFilter
    <3>2. CASE i # 0
      <4>1. i \in 1 .. Len(s)
        BY <3>2
      <4>2. g[i] = IF s[i] \in S THEN Append(g[i - 1], s[i]) ELSE g[i - 1]
        BY <4>1 DEF Filters, IsFilter
      <4> QED
        BY <3>2, <4>2
    <3> QED
      BY <3>1, <3>2
  <2>3. DOMAIN h = 0 .. Len(s) /\ h = [i \in 0 .. Len(s) |-> h[i]]
    OBVIOUS
  <2> HIDE DEF h
  <2>4. g = h
    BY <2>1, <2>2, <2>3
  <2> QED
    BY <2>4 DEF h
<1>3. f = [i \in 0 .. Len(s) |->
             IF i = 0 THEN <<>> ELSE IF s[i] \in S THEN Append(f[i - 1], s[i]) ELSE f[i - 1]]
  BY <1>2
<1> HIDE DEF f
<1>4. Len(s) \in Nat
  OBVIOUS
<1>5. IsFilter(f, s, S, Len(s))
  <2>1. \A i \in 0 .. Len(s) : f[i] =
           IF i = 0 THEN <<>> ELSE IF s[i] \in S THEN Append(f[i - 1], s[i]) ELSE f[i - 1]
    BY <1>3
  <2>2. 0 \in 0 .. Len(s) /\ \A i \in 1 .. Len(s) : i \in 0 .. Len(s) /\ i # 0
    BY <1>4
  <2> QED
    BY <2>1, <2>2 DEF IsFilter
<1>6. IsFilter(g, s, S, Len(s))
  BY DEF Filters
<1> DEFINE n == Len(s)
<1> HIDE DEF n
<1>7. n \in Nat /\ n = Len(s)
  BY <1>4 DEF n
<1>8. f[n] = g[n]
  BY <1>5, <1>6, <1>7, FiltersAgree
<1> QED
  BY <1>1, <1>7, <1>8

(* Nothing is kept of nothing.                                             *)
LEMMA KeptEmpty == ASSUME NEW S PROVE Kept(<<>>, S) = <<>>
<1>1. <<>> \in Seq({}) /\ Len(<<>>) = 0
  OBVIOUS
<1>2. PICK g \in Filters(<<>>, S, {}, Len(<<>>)) : TRUE
  BY <1>1, FiltersExist
<1>3. Kept(<<>>, S) = g[0]
  BY <1>1, <1>2, KeptIsLast
<1> QED
  BY <1>2, <1>3 DEF Filters, IsFilter

(* One more is kept if it is in the set.                                   *)
LEMMA KeptAppend ==
  ASSUME NEW T, NEW s \in Seq(T), NEW e \in T, NEW S
  PROVE  /\ Kept(s, S) \in Seq(T)
         /\ Kept(Append(s, e), S) = IF e \in S THEN Append(Kept(s, S), e) ELSE Kept(s, S)
<1> DEFINE r == Append(s, e)
           n == Len(s)
<1>1. /\ r \in Seq(T) /\ Len(r) = n + 1 /\ n \in Nat /\ r[n + 1] = e
      /\ \A i \in 1 .. n : r[i] = s[i]
  OBVIOUS
<1> HIDE DEF r
<1>2. PICK f \in Filters(s, S, T, n) : TRUE
  BY FiltersExist
<1>3. PICK g \in Filters(r, S, T, n + 1) : TRUE
  BY <1>1, FiltersExist
<1>4. Kept(s, S) = f[n] /\ f[n] \in Seq(T)
  <2>1. f \in Filters(s, S, T, Len(s)) /\ f \in [0 .. n -> Seq(T)] /\ n \in 0 .. n
    BY <1>1, <1>2 DEF Filters
  <2> QED
    BY <2>1, KeptIsLast
<1>5. Kept(r, S) = g[n + 1]
  BY <1>1, <1>3, KeptIsLast
<1>6. /\ IsFilter(f, s, S, n) /\ g[0] = <<>>
      /\ \A i \in 1 .. n + 1 : g[i] = IF r[i] \in S THEN Append(g[i - 1], r[i]) ELSE g[i - 1]
  BY <1>2, <1>3 DEF Filters, IsFilter
<1>7. IsFilter(g, s, S, n)
  <2> SUFFICES ASSUME NEW i \in 1 .. n
               PROVE  g[i] = IF s[i] \in S THEN Append(g[i - 1], s[i]) ELSE g[i - 1]
    BY <1>6 DEF IsFilter
  <2>1. i \in 1 .. n + 1 /\ r[i] = s[i]
    BY <1>1
  <2>2. g[i] = IF r[i] \in S THEN Append(g[i - 1], r[i]) ELSE g[i - 1]
    BY <1>6, <2>1
  <2> QED
    BY <2>1, <2>2
<1> HIDE DEF n
<1>8. f[n] = g[n]
  BY <1>1, <1>6, <1>7, FiltersAgree
<1>9. n + 1 \in 1 .. n + 1 /\ (n + 1) - 1 = n
  BY <1>1
<1>10. g[n + 1] = IF r[n + 1] \in S THEN Append(g[n], r[n + 1]) ELSE g[n]
  BY <1>6, <1>9
<1> QED
  BY <1>1, <1>4, <1>5, <1>8, <1>10 DEF r

(* What is kept are members of the sequence that are in the set.           *)
LEMMA KeptType ==
  ASSUME NEW T, NEW s \in Seq(T), NEW S
  PROVE  Kept(s, S) \in Seq(T \cap S) /\ Kept(s, S) \in Seq(T) /\ Len(Kept(s, S)) <= Len(s)
<1> DEFINE X == {r \in Seq(T) : Kept(r, S) \in Seq(T \cap S) /\ Len(Kept(r, S)) <= Len(r)}
<1>1. X \in SUBSET Seq(T) /\ <<>> \in X
  <2>1. Kept(<<>>, S) = <<>>
    BY KeptEmpty
  <2>2. <<>> \in Seq(T) /\ <<>> \in Seq(T \cap S) /\ Len(<<>>) <= Len(<<>>)
    OBVIOUS
  <2> QED
    BY <2>1, <2>2
<1>2. ASSUME NEW r \in X, NEW e \in T PROVE Append(r, e) \in X
  <2>1. /\ r \in Seq(T) /\ Kept(r, S) \in Seq(T \cap S) /\ Len(Kept(r, S)) <= Len(r)
        /\ Append(r, e) \in Seq(T) /\ Len(Append(r, e)) = Len(r) + 1
        /\ Len(r) \in Nat /\ Len(Kept(r, S)) \in Nat
    OBVIOUS
  <2>2. Kept(Append(r, e), S) = IF e \in S THEN Append(Kept(r, S), e) ELSE Kept(r, S)
    BY <2>1, KeptAppend
  <2>3. Kept(Append(r, e), S) \in Seq(T \cap S) /\ Len(Kept(Append(r, e), S)) <= Len(Append(r, e))
    <3>1. CASE e \in S
      BY <2>1, <2>2, <3>1
    <3>2. CASE e \notin S
      BY <2>1, <2>2, <3>2
    <3> QED
      BY <3>1, <3>2
  <2> QED
    BY <2>1, <2>3
<1> HIDE DEF X
<1>3. s \in X
  BY <1>1, <1>2, SequenceInduction
<1>4. Kept(s, S) \in Seq(T \cap S) /\ Len(Kept(s, S)) <= Len(s)
  BY <1>3 DEF X
<1>5. Seq(T \cap S) \subseteq Seq(T)
  OBVIOUS
<1> QED
  BY <1>4, <1>5

(* Concatenation is associative where an element is added last.            *)
LEMMA AppendLast ==
  ASSUME NEW T, NEW s \in Seq(T), NEW t \in Seq(T), NEW e \in T
  PROVE  s \o Append(t, e) = Append(s \o t, e)
<1> DEFINE a == s \o Append(t, e)
           b == Append(s \o t, e)
<1>1. a \in Seq(T) /\ b \in Seq(T) /\ Len(a) = Len(b)
  OBVIOUS
<1>2. ASSUME NEW i \in 1 .. Len(a) PROVE a[i] = b[i]
  OBVIOUS
<1> HIDE DEF a, b
<1> QED
  BY <1>1, <1>2, SeqEqual DEF a, b

(* What is kept of two sequences one after the other.                      *)
LEMMA KeptConcat ==
  ASSUME NEW T, NEW s \in Seq(T), NEW t \in Seq(T), NEW S
  PROVE  Kept(s \o t, S) = Kept(s, S) \o Kept(t, S)
<1> DEFINE X == {r \in Seq(T) : Kept(s \o r, S) = Kept(s, S) \o Kept(r, S)}
<1>1. s \o <<>> = s /\ Kept(s, S) \o <<>> = Kept(s, S) /\ <<>> \in Seq(T)
  <2>1. Kept(s, S) \in Seq(T)
    BY KeptType
  <2> QED
    BY <2>1, ConcatEmptySeq
<1>2. X \in SUBSET Seq(T) /\ <<>> \in X
  BY <1>1, KeptEmpty
<1>3. ASSUME NEW r \in X, NEW e \in T PROVE Append(r, e) \in X
  <2>1. r \in Seq(T) /\ s \o r \in Seq(T) /\ Append(r, e) \in Seq(T)
    OBVIOUS
  <2>2. Kept(s \o r, S) = Kept(s, S) \o Kept(r, S)
    OBVIOUS
  <2>3. s \o Append(r, e) = Append(s \o r, e)
    BY <2>1, AppendLast
  <2> HIDE DEF X
  <2>4. Kept(Append(s \o r, e), S) = IF e \in S THEN Append(Kept(s \o r, S), e) ELSE Kept(s \o r, S)
    <3> DEFINE c == s \o r
    <3> HIDE DEF c
    <3>1. c \in Seq(T)
      BY <2>1 DEF c
    <3>2. Kept(Append(c, e), S) = IF e \in S THEN Append(Kept(c, S), e) ELSE Kept(c, S)
      BY <3>1, KeptAppend
    <3> QED
      BY <3>2 DEF c
  <2>5. Kept(Append(r, e), S) = IF e \in S THEN Append(Kept(r, S), e) ELSE Kept(r, S)
    BY <2>1, KeptAppend
  <2>6. Kept(s, S) \in Seq(T) /\ Kept(r, S) \in Seq(T)
    BY <2>1, KeptType
  <2>7. Kept(s, S) \o Append(Kept(r, S), e) = Append(Kept(s, S) \o Kept(r, S), e)
    BY <2>6, AppendLast
  <2>8. Kept(s \o Append(r, e), S) = Kept(s, S) \o Kept(Append(r, e), S)
    <3>1. CASE e \in S
      BY <2>2, <2>3, <2>4, <2>5, <2>7, <3>1
    <3>2. CASE e \notin S
      BY <2>2, <2>3, <2>4, <2>5, <3>2
    <3> QED
      BY <3>1, <3>2
  <2> QED
    BY <2>1, <2>8 DEF X
<1> HIDE DEF X
<1>4. t \in X
  BY <1>2, <1>3, SequenceInduction
<1> QED
  BY <1>4 DEF X
(* Nothing is kept of a sequence with no member in the set.                *)
LEMMA KeptNone ==
  ASSUME NEW T, NEW s \in Seq(T), NEW S, \A i \in 1 .. Len(s) : s[i] \notin S
  PROVE  Kept(s, S) = <<>>
<1>1. s \in Seq(ToSet(s)) /\ ToSet(s) \cap S = {}
  BY DEF ToSet
<1>2. Kept(s, S) \in Seq({})
  BY <1>1, KeptType
<1>3. Len(Kept(s, S)) = 0
  BY <1>2
<1> QED
  BY <1>2, <1>3, EmptySeq

(* A sequence in two parts.                                                *)
LEMMA Parts ==
  ASSUME NEW T, NEW s \in Seq(T), NEW m \in 0 .. Len(s)
  PROVE  /\ SubSeq(s, 1, m) \in Seq(T) /\ SubSeq(s, m + 1, Len(s)) \in Seq(T)
         /\ Len(SubSeq(s, 1, m)) = m /\ Len(SubSeq(s, m + 1, Len(s))) = Len(s) - m
         /\ \A i \in 1 .. m : SubSeq(s, 1, m)[i] = s[i]
         /\ \A i \in 1 .. Len(s) - m : SubSeq(s, m + 1, Len(s))[i] = s[m + i]
         /\ s = SubSeq(s, 1, m) \o SubSeq(s, m + 1, Len(s))
<1> DEFINE a == SubSeq(s, 1, m)
           b == SubSeq(s, m + 1, Len(s))
<1>1. /\ a \in Seq(T) /\ Len(a) = m /\ \A i \in 1 .. m : a[i] = s[i]
      /\ Len(s) \in Nat
  OBVIOUS
<1>2. b \in Seq(T) /\ Len(b) = Len(s) - m /\ \A i \in 1 .. Len(s) - m : b[i] = s[m + i]
  OBVIOUS
<1> HIDE DEF a, b
<1>3. a \o b \in Seq(T) /\ Len(a \o b) = Len(s)
  BY <1>1, <1>2
<1>4. ASSUME NEW i \in 1 .. Len(s) PROVE (a \o b)[i] = s[i]
  <2>1. CASE i <= m
    BY <1>1, <1>2, <2>1
  <2>2. CASE ~(i <= m)
    <3>1. i - m \in 1 .. Len(s) - m /\ m + (i - m) = i
      BY <1>1, <2>2
    <3>2. (a \o b)[i] = b[i - m]
      BY <1>1, <1>2, <2>2
    <3> QED
      BY <1>2, <3>1, <3>2
  <2> QED
    BY <2>1, <2>2
<1>5. a \o b = s
  BY <1>3, <1>4, SeqEqual
<1> QED
  BY <1>1, <1>2, <1>5 DEF a, b

(* The first member that is in the set comes first in what is kept.        *)
LEMMA KeptFirst ==
  ASSUME NEW T, NEW s \in Seq(T), NEW S, NEW m \in 1 .. Len(s), s[m] \in S,
         \A i \in 1 .. m - 1 : s[i] \notin S
  PROVE  /\ Kept(SubSeq(s, m + 1, Len(s)), S) \in Seq(T)
         /\ Kept(s, S) = <<s[m]>> \o Kept(SubSeq(s, m + 1, Len(s)), S)
<1> DEFINE f == SubSeq(s, 1, m - 1)
           a == SubSeq(s, 1, m)
           b == SubSeq(s, m + 1, Len(s))
<1>1. /\ a \in Seq(T) /\ b \in Seq(T) /\ Len(a) = (m - 1) + 1 /\ s = a \o b
      /\ \A i \in 1 .. m : a[i] = s[i]
  <2>1. m \in 0 .. Len(s) /\ (m - 1) + 1 = m
    OBVIOUS
  <2> QED
    BY <2>1, Parts
<1>2. /\ f \in Seq(T) /\ Len(f) = m - 1 /\ \A i \in 1 .. m - 1 : f[i] = s[i]
  OBVIOUS
<1>3. a = Append(f, s[m]) /\ s[m] \in T
  <2>1. m - 1 \in Nat /\ (m - 1) + 1 = m /\ m \in 1 .. m
    OBVIOUS
  <2>2. SubSeq(a, 1, m - 1) = f
    <3>1. SubSeq(a, 1, m - 1) \in Seq(T) /\ Len(SubSeq(a, 1, m - 1)) = m - 1
          /\ \A i \in 1 .. m - 1 : SubSeq(a, 1, m - 1)[i] = a[i]
      <4> HIDE DEF a
      <4> QED
        BY <1>1, <2>1
    <3>2. \A i \in 1 .. m - 1 : i \in 1 .. m /\ a[i] = s[i]
      BY <1>1
    <3> HIDE DEF f, a
    <3> QED
      BY <1>2, <3>1, <3>2, SeqEqual
  <2> HIDE DEF a, f
  <2>3. a = Append(SubSeq(a, 1, m - 1), a[(m - 1) + 1])
    BY <1>1, <2>1, FrontAndLast
  <2> QED
    BY <1>1, <2>1, <2>2, <2>3
<1> HIDE DEF f, a, b
<1>4. Kept(s, S) = Kept(a, S) \o Kept(b, S)
  BY <1>1, KeptConcat
<1>5. Kept(f, S) = <<>>
  BY <1>2, KeptNone
<1>6. Kept(a, S) = Append(Kept(f, S), s[m])
  <2> DEFINE e == s[m]
  <2> HIDE DEF e
  <2>1. e \in T /\ e \in S /\ a = Append(f, e)
    BY <1>3 DEF e
  <2>2. Kept(Append(f, e), S) = IF e \in S THEN Append(Kept(f, S), e) ELSE Kept(f, S)
    BY <1>2, <2>1, KeptAppend
  <2> QED
    BY <2>1, <2>2 DEF e
<1>7. Append(<<>>, s[m]) = <<s[m]>>
  OBVIOUS
<1>8. Kept(b, S) \in Seq(T)
  BY <1>1, KeptType
<1> QED
  BY <1>4, <1>5, <1>6, <1>7, <1>8 DEF b

(* One that is the only member in the set is all that is kept.             *)
LEMMA KeptOne ==
  ASSUME NEW T, NEW s \in Seq(T), NEW S, NEW m \in 1 .. Len(s), s[m] \in S,
         \A i \in 1 .. Len(s) : s[i] \in S => i = m
  PROVE  Kept(s, S) = <<s[m]>>
<1> DEFINE b == SubSeq(s, m + 1, Len(s))
<1>1. m \in 0 .. Len(s) /\ Len(s) \in Nat
  OBVIOUS
<1>2. b \in Seq(T) /\ Len(b) = Len(s) - m /\ \A i \in 1 .. Len(s) - m : b[i] = s[m + i]
  BY <1>1, Parts
<1> HIDE DEF b
<1>3. \A i \in 1 .. Len(b) : b[i] \notin S
  <2> TAKE i \in 1 .. Len(b)
  <2>1. i \in 1 .. Len(s) - m /\ m + i \in 1 .. Len(s) /\ m + i # m
    BY <1>1, <1>2
  <2> QED
    BY <1>2, <2>1
<1>4. Kept(b, S) = <<>>
  BY <1>2, <1>3, KeptNone
<1>5. Kept(s, S) = <<s[m]>> \o Kept(b, S)
  <2>1. \A i \in 1 .. m - 1 : s[i] \notin S
    BY <1>1
  <2> QED
    BY <2>1, KeptFirst DEF b
<1> QED
  BY <1>4, <1>5

(* What is kept of what is kept.                                           *)
LEMMA KeptTwice ==
  ASSUME NEW T, NEW s \in Seq(T), NEW A, NEW B
  PROVE  Kept(Kept(s, A), B) = Kept(s, A \cap B)
<1> DEFINE X == {r \in Seq(T) : Kept(Kept(r, A), B) = Kept(r, A \cap B)}
<1>1. X \in SUBSET Seq(T) /\ <<>> \in X
  <2>1. Kept(<<>>, A) = <<>> /\ Kept(<<>>, B) = <<>> /\ Kept(<<>>, A \cap B) = <<>> /\ <<>> \in Seq(T)
    BY KeptEmpty
  <2> QED
    BY <2>1
<1>2. ASSUME NEW r \in X, NEW e \in T PROVE Append(r, e) \in X
  <2>1. r \in Seq(T) /\ Append(r, e) \in Seq(T) /\ Kept(Kept(r, A), B) = Kept(r, A \cap B)
    OBVIOUS
  <2> HIDE DEF X
  <2>2. Kept(r, A) \in Seq(T)
    BY <2>1, KeptType
  <2>3. Kept(Append(r, e), A) = IF e \in A THEN Append(Kept(r, A), e) ELSE Kept(r, A)
    BY <2>1, KeptAppend
  <2>4. Kept(Append(r, e), A \cap B) = IF e \in A \cap B THEN Append(Kept(r, A \cap B), e) ELSE Kept(r, A \cap B)
    <3> DEFINE C == A \cap B
    <3> HIDE DEF C
    <3>1. Kept(Append(r, e), C) = IF e \in C THEN Append(Kept(r, C), e) ELSE Kept(r, C)
      BY <2>1, KeptAppend
    <3> QED
      BY <3>1 DEF C
  <2> DEFINE k == Kept(r, A)
  <2> HIDE DEF k
  <2>5. Kept(Append(k, e), B) = IF e \in B THEN Append(Kept(k, B), e) ELSE Kept(k, B)
    BY <2>2, KeptAppend DEF k
  <2>6. Kept(Kept(Append(r, e), A), B) = Kept(Append(r, e), A \cap B)
    <3>1. CASE e \in A /\ e \in B
      BY <2>1, <2>3, <2>4, <2>5, <3>1 DEF k
    <3>2. CASE e \in A /\ e \notin B
      BY <2>1, <2>3, <2>4, <2>5, <3>2 DEF k
    <3>3. CASE e \notin A
      BY <2>1, <2>3, <2>4, <3>3
    <3> QED
      BY <3>1, <3>2, <3>3
  <2> QED
    BY <2>1, <2>6 DEF X
<1> HIDE DEF X
<1>3. s \in X
  BY <1>1, <1>2, SequenceInduction
<1> QED
  BY <1>3 DEF X

(* The members that are kept, each once if each was there once.            *)
LEMMA KeptMembers ==
  ASSUME NEW T, NEW s \in Seq(T), NEW S
  PROVE  /\ ToSet(Kept(s, S)) = ToSet(s) \cap S
         /\ Distinct(s) => Distinct(Kept(s, S))
<1> DEFINE X == {r \in Seq(T) : /\ ToSet(Kept(r, S)) = ToSet(r) \cap S
                                /\ (Distinct(r) => Distinct(Kept(r, S)))}
<1>1. X \in SUBSET Seq(T) /\ <<>> \in X
  <2>1. Kept(<<>>, S) = <<>> /\ <<>> \in Seq(T)
    BY KeptEmpty
  <2>2. ToSet(<<>>) = {} /\ Distinct(<<>>)
    BY DEF ToSet, Distinct
  <2> QED
    BY <2>1, <2>2
<1>2. ASSUME NEW r \in X, NEW e \in T PROVE Append(r, e) \in X
  <2>1. /\ r \in Seq(T) /\ Append(r, e) \in Seq(T) /\ ToSet(Kept(r, S)) = ToSet(r) \cap S
        /\ Distinct(r) => Distinct(Kept(r, S))
    <3>1. r \in Seq(T)
      OBVIOUS
    <3>2. Append(r, e) \in Seq(T)
      BY <3>1
    <3>3. ToSet(Kept(r, S)) = ToSet(r) \cap S /\ (Distinct(r) => Distinct(Kept(r, S)))
      BY Zenon
    <3> QED
      BY <3>1, <3>2, <3>3, Zenon
  <2> HIDE DEF X
  <2>2. Kept(r, S) \in Seq(T)
    BY <2>1, KeptType
  <2>3. Kept(Append(r, e), S) = IF e \in S THEN Append(Kept(r, S), e) ELSE Kept(r, S)
    BY <2>1, KeptAppend
  <2>4. /\ ToSet(Append(r, e)) = ToSet(r) \cup {e} /\ Len(Append(r, e)) = Len(r) + 1 /\ Len(r) \in Nat
        /\ \A i \in 1 .. Len(r) : Append(r, e)[i] = r[i]
        /\ Append(r, e)[Len(r) + 1] = e
    BY <2>1, Addition
  <2>5. /\ ToSet(Append(Kept(r, S), e)) = ToSet(Kept(r, S)) \cup {e}
        /\ Distinct(Kept(r, S)) /\ e \notin ToSet(Kept(r, S)) => Distinct(Append(Kept(r, S), e))
    BY <2>2, Addition
  <2>6. ASSUME Distinct(Append(r, e)) PROVE Distinct(r) /\ e \notin ToSet(r)
    <3>1. Distinct(r)
      <4> SUFFICES ASSUME NEW i \in 1 .. Len(r), NEW j \in 1 .. Len(r), r[i] = r[j] PROVE i = j
        BY DEF Distinct
      <4>1. i \in 1 .. Len(Append(r, e)) /\ j \in 1 .. Len(Append(r, e)) /\ Append(r, e)[i] = Append(r, e)[j]
        BY <2>4
      <4> QED
        BY <2>6, <4>1 DEF Distinct
    <3>2. ASSUME NEW i \in 1 .. Len(r) PROVE r[i] # e
      <4>1. i \in 1 .. Len(Append(r, e)) /\ Len(r) + 1 \in 1 .. Len(Append(r, e)) /\ i # Len(r) + 1
        BY <2>4
      <4> QED
        BY <2>4, <2>6, <4>1 DEF Distinct
    <3> QED
      BY <3>1, <3>2 DEF ToSet
  <2>7. ToSet(Kept(Append(r, e), S)) = ToSet(Append(r, e)) \cap S
    <3>1. CASE e \in S
      BY <2>1, <2>3, <2>4, <2>5, <3>1
    <3>2. CASE e \notin S
      BY <2>1, <2>3, <2>4, <3>2
    <3> QED
      BY <3>1, <3>2
  <2>8. Distinct(Append(r, e)) => Distinct(Kept(Append(r, e), S))
    <3>1. CASE e \in S
      BY <2>1, <2>3, <2>5, <2>6, <3>1
    <3>2. CASE e \notin S
      BY <2>1, <2>3, <2>6, <3>2
    <3> QED
      BY <3>1, <3>2
  <2> QED
    BY <2>1, <2>7, <2>8 DEF X
<1> HIDE DEF X
<1>3. s \in X
  BY <1>1, <1>2, SequenceInduction
<1> QED
  BY <1>3, Zenon DEF X
-----------------------------------------------------------------------------
(* The keys in the queue.                                                  *)

Pairs == Devs \X Reports
Seconds(m) == [i \in DOMAIN m |-> m[i][2]]

(* The second halves of two sequences of pairs one after the other.        *)
LEMMA SecondsConcat ==
  ASSUME NEW d, NEW s \in Seq({d} \X Numbers), NEW t \in Seq({d} \X Numbers)
  PROVE  /\ Seconds(s) \in Seq(Numbers) /\ Seconds(t) \in Seq(Numbers)
         /\ Seconds(s \o t) = Seconds(s) \o Seconds(t)
<1>1. ASSUME NEW m \in Seq({d} \X Numbers)
      PROVE  /\ Seconds(m) \in Seq(Numbers) /\ Len(Seconds(m)) = Len(m)
             /\ \A i \in 1 .. Len(m) : Seconds(m)[i] = m[i][2]
  <2>1. DOMAIN m = 1 .. Len(m) /\ \A i \in 1 .. Len(m) : m[i][2] \in Numbers
    OBVIOUS
  <2>2. Len(m) \in Nat
    OBVIOUS
  <2>3. Seconds(m) = [i \in 1 .. Len(m) |-> m[i][2]]
    BY <2>1 DEF Seconds
  <2>4. Seconds(m) \in [1 .. Len(m) -> Numbers]
    BY <2>1, <2>3
  <2>5. Seconds(m) \in Seq(Numbers) /\ Len(Seconds(m)) = Len(m)
    BY <2>2, <2>3, <2>4
  <2> QED
    BY <2>3, <2>5
<1>2. s \o t \in Seq({d} \X Numbers) /\ Len(s \o t) = Len(s) + Len(t) /\ Len(s) \in Nat /\ Len(t) \in Nat
  OBVIOUS
<1> DEFINE a == Seconds(s \o t)
           b == Seconds(s) \o Seconds(t)
           c == s \o t
<1>3. \A i \in 1 .. Len(s) + Len(t) : c[i] = IF i <= Len(s) THEN s[i] ELSE t[i - Len(s)]
  OBVIOUS
<1>4. c \in Seq({d} \X Numbers) /\ a = Seconds(c) /\ Len(c) = Len(s) + Len(t)
  BY <1>2
<1> HIDE DEF c
<1>5. a \in Seq(Numbers) /\ Len(a) = Len(s) + Len(t) /\ \A i \in 1 .. Len(s) + Len(t) : a[i] = c[i][2]
  BY <1>1, <1>4
<1>6. /\ Seconds(s) \in Seq(Numbers) /\ Len(Seconds(s)) = Len(s)
      /\ Seconds(t) \in Seq(Numbers) /\ Len(Seconds(t)) = Len(t)
      /\ \A i \in 1 .. Len(s) : Seconds(s)[i] = s[i][2]
      /\ \A i \in 1 .. Len(t) : Seconds(t)[i] = t[i][2]
  BY <1>1
<1>7. b \in Seq(Numbers) /\ Len(b) = Len(s) + Len(t)
      /\ \A i \in 1 .. Len(s) + Len(t) : b[i] = IF i <= Len(s) THEN Seconds(s)[i] ELSE Seconds(t)[i - Len(s)]
  <2> DEFINE u == Seconds(s)
             w == Seconds(t)
  <2> HIDE DEF u, w
  <2>1. /\ u \o w \in Seq(Numbers) /\ Len(u \o w) = Len(s) + Len(t)
        /\ \A i \in 1 .. Len(s) + Len(t) : (u \o w)[i] = IF i <= Len(s) THEN u[i] ELSE w[i - Len(s)]
    <3>1. u \in Seq(Numbers) /\ w \in Seq(Numbers) /\ Len(u) = Len(s) /\ Len(w) = Len(t)
      BY <1>6 DEF u, w
    <3>2. /\ u \o w \in Seq(Numbers) /\ Len(u \o w) = Len(u) + Len(w)
          /\ \A i \in 1 .. Len(u) + Len(w) : (u \o w)[i] = IF i <= Len(u) THEN u[i] ELSE w[i - Len(u)]
      <4> HIDE <3>1
      <4>1. u \in Seq(Numbers) /\ w \in Seq(Numbers)
        BY <3>1
      <4> QED
        BY <4>1
    <3> QED
      BY <3>1, <3>2
  <2> QED
    BY <2>1 DEF u, w
<1> HIDE DEF a, b
<1>8. ASSUME NEW i \in 1 .. Len(s) + Len(t) PROVE a[i] = b[i]
  <2>1. CASE i <= Len(s)
    <3>1. i \in 1 .. Len(s)
      BY <1>2, <2>1
    <3>2. a[i] = c[i][2] /\ c[i] = s[i]
      BY <1>3, <1>5, <2>1
    <3>3. b[i] = Seconds(s)[i]
      BY <1>7, <2>1
    <3>4. Seconds(s)[i] = s[i][2]
      BY <1>6, <3>1
    <3> QED
      BY <3>2, <3>3, <3>4
  <2>2. CASE ~(i <= Len(s))
    <3>1. i - Len(s) \in 1 .. Len(t)
      BY <1>2, <2>2
    <3>2. a[i] = c[i][2] /\ c[i] = t[i - Len(s)]
      BY <1>3, <1>5, <2>2
    <3>3. b[i] = Seconds(t)[i - Len(s)]
      BY <1>7, <2>2
    <3>4. Seconds(t)[i - Len(s)] = t[i - Len(s)][2]
      BY <1>6, <3>1
    <3> QED
      BY <3>2, <3>3, <3>4
  <2> QED
    BY <2>1, <2>2
<1>9. a = b
  BY <1>5, <1>7, <1>8, SeqEqual
<1> QED
  BY <1>6, <1>9 DEF a, b

(* The keys of a keyboard in a queue are keys.                             *)
LEMMA KeptPairs ==
  ASSUME NEW q \in Seq(Pairs), NEW d
  PROVE  /\ Kept(q, {d} \X Numbers) \in Seq({d} \X Numbers)
         /\ KeysIn(q, d) = Seconds(Kept(q, {d} \X Numbers))
         /\ KeysIn(q, d) \in Seq(Numbers)
<1> DEFINE B == {d} \X Numbers
<1> HIDE DEF B
<1>1. Kept(q, B) \in Seq(Pairs \cap B)
  BY KeptType
<1>2. Seq(Pairs \cap B) \subseteq Seq(B)
  OBVIOUS
<1>3. KeysIn(q, d) = Seconds(Kept(q, B))
  BY DEF KeysIn, Seconds, B
<1>4. Seconds(Kept(q, B)) \in Seq(Numbers)
  BY <1>1, <1>2, SecondsConcat DEF B
<1> QED
  BY <1>1, <1>2, <1>3, <1>4 DEF B

(* The keys in two queues, one after the other.                            *)
LEMMA KeysInConcat ==
  ASSUME NEW q \in Seq(Pairs), NEW r \in Seq(Pairs), NEW d
  PROVE  KeysIn(q \o r, d) = KeysIn(q, d) \o KeysIn(r, d)
<1> DEFINE B == {d} \X Numbers
           c == q \o r
<1>1. c \in Seq(Pairs)
  OBVIOUS
<1>2. Kept(c, B) = Kept(q, B) \o Kept(r, B)
  BY KeptConcat
<1> HIDE DEF c
<1>3. /\ KeysIn(c, d) = Seconds(Kept(c, B)) /\ KeysIn(q, d) = Seconds(Kept(q, B))
      /\ KeysIn(r, d) = Seconds(Kept(r, B))
      /\ Kept(q, B) \in Seq(B) /\ Kept(r, B) \in Seq(B)
  BY <1>1, KeptPairs
<1>4. Seconds(Kept(q, B) \o Kept(r, B)) = Seconds(Kept(q, B)) \o Seconds(Kept(r, B))
  BY <1>3, SecondsConcat
<1> QED
  BY <1>2, <1>3, <1>4 DEF c

(* A queue without a full key of the keyboard.                             *)
LEMMA KeysInNone ==
  ASSUME NEW q \in Seq(Pairs), NEW d, \A i \in 1 .. Len(q) : ~(q[i][1] = d /\ q[i][2] # Partial)
  PROVE  KeysIn(q, d) = <<>>
<1> DEFINE B == {d} \X Numbers
<1>1. \A i \in 1 .. Len(q) : q[i] \notin B
  BY DEF Numbers, Partial
<1> HIDE DEF B
<1>2. Kept(q, B) = <<>>
  BY <1>1, KeptNone
<1>3. Seconds(<<>>) = <<>>
  BY DEF Seconds
<1> QED
  BY <1>2, <1>3, KeptPairs DEF B

(* A queue with one full key of the keyboard.                              *)
LEMMA KeysInOne ==
  ASSUME NEW q \in Seq(Pairs), NEW d, NEW m \in 1 .. Len(q), q[m][1] = d, q[m][2] # Partial,
         \A i \in 1 .. Len(q) : q[i][1] = d => i = m
  PROVE  KeysIn(q, d) = <<q[m][2]>>
<1> DEFINE B == {d} \X Numbers
<1>1. q[m] \in B
  <2>1. q[m] \in Devs \X Reports
    BY DEF Pairs
  <2> QED
    BY <2>1 DEF Reports
<1>2. \A i \in 1 .. Len(q) : q[i] \in B => i = m
  OBVIOUS
<1> HIDE DEF B
<1>3. Kept(q, B) = <<q[m]>>
  BY <1>1, <1>2, KeptOne
<1>4. Seconds(<<q[m]>>) = <<q[m][2]>>
  BY DEF Seconds
<1> QED
  BY <1>3, <1>4, KeptPairs DEF B

(* What is left of a sequence without its first.                           *)
LEMMA RestOf ==
  ASSUME NEW T, NEW one \in Seq(T), Len(one) = 1, NEW s \in Seq(T)
  PROVE  Tail(one \o s) = s
<1> DEFINE a == one \o s
           r == Tail(a)
<1>1. /\ a \in Seq(T) /\ Len(a) = 1 + Len(s) /\ Len(s) \in Nat
      /\ \A i \in 1 .. 1 + Len(s) : a[i] = IF i <= 1 THEN one[i] ELSE s[i - 1]
  BY ConcatProperties
<1> HIDE DEF a
<1>2. a # <<>>
  <2>1. Len(a) # 0
    BY <1>1
  <2> QED
    BY <1>1, <2>1, EmptySeq
<1>3. r \in Seq(T) /\ Len(r) = Len(s) /\ \A i \in 1 .. Len(s) : r[i] = a[i + 1]
  BY <1>1, <1>2, HeadTailProperties
<1> HIDE DEF r
<1>4. \A i \in 1 .. Len(s) : r[i] = s[i]
  <2> TAKE i \in 1 .. Len(s)
  <2>1. i + 1 \in 1 .. 1 + Len(s) /\ ~(i + 1 <= 1) /\ (i + 1) - 1 = i
    BY <1>1
  <2>2. a[i + 1] = s[(i + 1) - 1]
    BY <1>1, <2>1
  <2> QED
    BY <1>3, <2>1, <2>2
<1>5. r = s
  BY <1>3, <1>4, SeqEqual
<1> QED
  BY <1>5 DEF a, r

(* The first full key of a queue is handed out.                            *)
LEMMA Handing ==
  ASSUME NEW q \in Seq(Pairs), NEW m \in 1 .. Len(q), \A i \in 1 .. m - 1 : q[i][2] = Partial,
         owed \in [Devs -> Seq(Numbers)], NEW F, NEW d \in Devs, F[d] \in Seq(Numbers),
         owed[d] = KeysIn(q, d) \o F[d]
  PROVE  /\ SubSeq(q, m + 1, Len(q)) \in Seq(Pairs) /\ Len(SubSeq(q, m + 1, Len(q))) <= Len(q)
         /\ Returned(q[m])[d] = KeysIn(SubSeq(q, m + 1, Len(q)), d) \o F[d]
<1> DEFINE a == SubSeq(q, 1, m)
           b == SubSeq(q, m + 1, Len(q))
           k == q[m][2]
<1>1. /\ a \in Seq(Pairs) /\ b \in Seq(Pairs) /\ Len(a) = m /\ Len(b) = Len(q) - m /\ q = a \o b
      /\ \A i \in 1 .. m : a[i] = q[i]
  <2>1. m \in 0 .. Len(q)
    OBVIOUS
  <2> QED
    BY <2>1, Parts
<1> HIDE DEF a, b
<1>2. KeysIn(q, d) = KeysIn(a, d) \o KeysIn(b, d) /\ KeysIn(b, d) \in Seq(Numbers)
  BY <1>1, KeysInConcat, KeptPairs
<1>3. q[m] \in Devs \X Reports
  BY DEF Pairs
<1>4. Returned(q[m])[d] = IF q[m][1] = d /\ k # Partial THEN Tail(owed[d]) ELSE owed[d]
  <2>1. CASE k = Partial
    BY <1>3, <2>1 DEF Returned
  <2>2. CASE k # Partial
    BY <1>3, <2>2 DEF Returned
  <2> QED
    BY <2>1, <2>2
<1>5. CASE q[m][1] = d /\ k # Partial
  <2>1. KeysIn(a, d) = <<k>>
    <3>1. \A i \in 1 .. Len(a) : i = m \/ a[i][2] = Partial
      BY <1>1
    <3>2. k \in Numbers
      BY <1>3, <1>5 DEF Reports
    <3> DEFINE f == SubSeq(a, 1, m - 1)
    <3>3. f \in Seq(Pairs) /\ Len(f) = m - 1 /\ \A i \in 1 .. m - 1 : f[i] = a[i]
      BY <1>1
    <3>4. a = Append(f, a[m]) /\ a[m] = q[m]
      <4>1. m - 1 \in Nat /\ Len(a) = (m - 1) + 1
        BY <1>1
      <4>2. a = Append(SubSeq(a, 1, m - 1), a[(m - 1) + 1])
        BY <1>1, <4>1, FrontAndLast
      <4> QED
        BY <1>1, <4>2
    <3> HIDE DEF f
    <3>5. \A i \in 1 .. Len(f) : f[i][2] = Partial
      BY <1>1, <3>3
    <3> DEFINE o == <<q[m]>>
    <3>6. o \in Seq(Pairs) /\ Len(o) = 1 /\ o[1] = q[m]
      BY <1>3 DEF Pairs
    <3>7. a = f \o o
      <4>1. f \o o \in Seq(Pairs) /\ Len(f \o o) = m
        BY <3>3, <3>6
      <4>2. ASSUME NEW i \in 1 .. m PROVE (f \o o)[i] = a[i]
        <5>1. CASE i <= m - 1
          BY <3>3, <3>6, <5>1
        <5>2. CASE i = m
          BY <3>3, <3>4, <3>6, <5>2
        <5>3. m \in Nat /\ (i <= m - 1 \/ i = m)
          OBVIOUS
        <5> QED
          BY <5>1, <5>2, <5>3
      <4> HIDE DEF o
      <4> QED
        BY <1>1, <4>1, <4>2, SeqEqual
    <3> HIDE DEF o
    <3>8. KeysIn(f, d) = <<>>
      BY <3>3, <3>5, KeysInNone
    <3>9. KeysIn(o, d) = <<o[1][2]>>
      <4>1. 1 \in 1 .. Len(o) /\ o[1][1] = d /\ o[1][2] # Partial /\ \A i \in 1 .. Len(o) : i = 1
        BY <1>5, <3>6
      <4> QED
        BY <3>6, <4>1, KeysInOne
    <3>10. KeysIn(a, d) = KeysIn(f, d) \o KeysIn(o, d)
      BY <3>3, <3>6, <3>7, KeysInConcat
    <3>11. <<>> \o <<k>> = <<k>>
      OBVIOUS
    <3> QED
      BY <3>6, <3>8, <3>9, <3>10, <3>11
  <2>2. k \in Numbers
    BY <1>3, <1>5 DEF Reports
  <2> DEFINE x == F[d]
             y == KeysIn(b, d)
  <2> HIDE DEF k, x, y
  <2>3. x \in Seq(Numbers) /\ y \in Seq(Numbers) /\ owed[d] = (<<k>> \o y) \o x
    <3>1. KeysIn(q, d) = <<k>> \o y
      BY <1>2, <2>1 DEF y
    <3> QED
      BY <1>2, <3>1 DEF x, y
  <2>4. Tail((<<k>> \o y) \o x) = y \o x
    <3> DEFINE one == <<k>>
    <3>1. one \in Seq(Numbers) /\ Len(one) = 1
      BY <2>2
    <3> HIDE DEF one
    <3> DEFINE z == y \o x
    <3>2. z \in Seq(Numbers) /\ (one \o y) \o x = one \o z
      <4>1. x \in Seq(Numbers)
        BY <2>3
      <4>2. y \in Seq(Numbers)
        BY <2>3
      <4>3. z \in Seq(Numbers)
        BY <4>1, <4>2
      <4>4. one \in Seq(Numbers)
        BY <3>1
      <4>5. (one \o y) \o x = one \o (y \o x)
        BY <4>1, <4>2, <4>4, ConcatAssociative, SMTT(60)
      <4> QED
        BY <4>3, <4>5
    <3> HIDE DEF z
    <3>3. Tail(one \o z) = z
      BY <3>1, <3>2, RestOf
    <3> QED
      BY <3>2, <3>3 DEF one, z
  <2>5. Returned(q[m])[d] = Tail(owed[d])
    BY <1>4, <1>5
  <2>6. b \in Seq(Pairs) /\ Len(b) <= Len(q)
    BY <1>1
  <2>7. Returned(q[m])[d] = y \o x
    BY <2>3, <2>4, <2>5
  <2> QED
    BY <2>6, <2>7 DEF b, x, y
<1>6. CASE ~(q[m][1] = d /\ k # Partial)
  <2>1. \A i \in 1 .. Len(a) : ~(a[i][1] = d /\ a[i][2] # Partial)
    <3> TAKE i \in 1 .. Len(a)
    <3>1. CASE i = m
      BY <1>1, <1>6, <3>1
    <3>2. CASE i # m
      <4>1. i \in 1 .. m - 1 /\ a[i] = q[i]
        BY <1>1, <3>2
      <4> QED
        BY <4>1
    <3> QED
      BY <3>1, <3>2
  <2>2. KeysIn(a, d) = <<>>
    BY <1>1, <2>1, KeysInNone
  <2>3. <<>> \o KeysIn(b, d) = KeysIn(b, d)
    BY <1>2
  <2>4. KeysIn(q, d) = KeysIn(b, d)
    BY <1>2, <2>2, <2>3
  <2>5. Returned(q[m])[d] = owed[d]
    BY <1>4, <1>6
  <2>6. b \in Seq(Pairs) /\ Len(b) <= Len(q)
    BY <1>1
  <2>7. Returned(q[m])[d] = KeysIn(b, d) \o F[d]
    BY <2>4, <2>5
  <2> QED
    BY <2>6, <2>7 DEF b
<1> QED
  BY <1>5, <1>6
-----------------------------------------------------------------------------
(* That all keys are accounted for.                                        *)

(* The queue holds full and partial keys within its memory, and the keys    *)
(* that callers may expect of a keyboard are those that wait for them.     *)
Counted ==
  /\ queue \in Seq(Pairs) /\ Len(queue) <= cap
  /\ \A d \in Devs : dev[d].pend \in Seq(Reports)
  /\ owed \in [Devs -> Seq(Numbers)]
  /\ \A d \in Devs : owed[d] = Waiting(d)

(* What the queue and the keyboards hold are keys.                         *)
LEMMA WaitingType ==
  ASSUME Counted, NEW d \in Devs
  PROVE  /\ KeysIn(queue, d) \in Seq(Numbers) /\ FullKeys(dev, d) \in Seq(Numbers)
         /\ FullKeys(dev, d) = Kept(dev[d].pend, Numbers)
         /\ owed[d] = KeysIn(queue, d) \o FullKeys(dev, d)
<1>1. queue \in Seq(Pairs) /\ dev[d].pend \in Seq(Reports)
  BY DEF Counted
<1>2. Kept(dev[d].pend, Numbers) \in Seq(Reports \cap Numbers)
  BY <1>1, KeptType
<1>3. Reports \cap Numbers = Numbers
  BY DEF Reports
<1> QED
  BY <1>1, <1>2, <1>3, KeptPairs DEF Counted, Waiting, FullKeys

(* In the beginning nothing waits.                                         *)
LEMMA CountedInit == Init => Counted
<1> SUFFICES ASSUME Init PROVE Counted
  OBVIOUS
<1>1. /\ queue = <<>> /\ cap = Unit /\ dev = [d \in Devs |-> Plugged]
      /\ owed = [d \in Devs |-> <<>>]
  BY DEF Init
<1>2. <<>> \in Seq(Pairs) /\ Len(<<>>) = 0 /\ <<>> \in Seq(Reports) /\ <<>> \in Seq(Numbers)
  OBVIOUS
<1>3. Len(queue) <= cap
  BY <1>1, <1>2, ConInAssumption
<1>4. \A d \in Devs : dev[d].pend = <<>>
  BY <1>1 DEF Plugged
<1>5. owed \in [Devs -> Seq(Numbers)]
  BY <1>1, <1>2
<1>6. ASSUME NEW d \in Devs PROVE owed[d] = Waiting(d)
  <2>1. KeysIn(queue, d) = <<>>
    <3> DEFINE q == <<>>
    <3>1. q \in Seq(Pairs) /\ 1 .. Len(q) = {}
      BY <1>2
    <3> HIDE DEF q
    <3>2. KeysIn(q, d) = <<>>
      BY <3>1, KeysInNone
    <3> QED
      BY <1>1, <3>2 DEF q
  <2>2. FullKeys(dev, d) = <<>>
    BY <1>4, KeptEmpty DEF FullKeys
  <2>3. <<>> \o <<>> = <<>>
    BY <1>2, ConcatEmptySeq
  <2> QED
    BY <1>1, <2>1, <2>2, <2>3 DEF Waiting
<1> QED
  BY <1>1, <1>2, <1>3, <1>4, <1>5, <1>6 DEF Counted

(* A step that moves no key; the queue may be given more memory.           *)
LEMMA CountKept ==
  ASSUME Counted, UNCHANGED <<queue, owed>>, Len(queue) <= cap',
         \A d \in Devs : dev'[d].pend = dev[d].pend
  PROVE  Counted'
<1>1. \A d \in Devs : Waiting(d)' = Waiting(d)
  BY DEF Waiting, KeysIn, FullKeys
<1> QED
  BY <1>1 DEF Counted

(* A toggle state is set without a key moving.                             *)
LEMMA SetStatePend ==
  ASSUME NEW D, Keyboards(D), NEW list, NEW state, NEW bad
  PROVE  \A c \in Devs : SetStateOfAll(D, list, state, bad)[c].pend = D[c].pend
  BY DEF SetStateOfAll, SetStateOf, Keyboards, Fields

(* The number of a key that arrives is one of those there are.             *)
LEMMA NextNumber == ASSUME Counted, NEW d \in Devs PROVE NextKey(d) \in Numbers
<1>1. owed[d] \in Seq(Numbers) /\ MaxPend \in Nat
  BY ConInAssumption DEF Counted
<1>2. Max(Numbers) = MaxPend + 1
  <2>1. MaxPend + 1 \in Numbers /\ \A y \in Numbers : MaxPend + 1 >= y
    BY <1>1 DEF Numbers
  <2>2. Max(Numbers) \in Numbers /\ \A y \in Numbers : Max(Numbers) >= y
    BY <2>1 DEF Max
  <2>3. Max(Numbers) \in Int /\ Max(Numbers) >= MaxPend + 1 /\ MaxPend + 1 >= Max(Numbers)
    BY <2>1, <2>2 DEF Numbers
  <2> QED
    BY <1>1, <2>3
<1>3. CASE owed[d] = <<>>
  BY <1>1, <1>3 DEF NextKey, Numbers
<1>4. CASE owed[d] # <<>>
  <2>1. Len(owed[d]) \in Nat \ {0}
    BY <1>1, <1>4, EmptySeq
  <2>2. Last(owed[d]) \in Numbers
    BY <1>1, <2>1 DEF Last
  <2>3. Last(owed[d]) \in Nat
    BY <2>2 DEF Numbers
  <2>4. Last(owed[d]) % (MaxPend + 1) \in 0 .. MaxPend
    <3> DEFINE n == MaxPend + 1
    <3>1. n \in Nat \ {0}
      BY <1>1
    <3> HIDE DEF n
    <3>2. Last(owed[d]) % n \in 0 .. n - 1
      BY <2>3, <3>1
    <3> QED
      BY <1>1, <3>2 DEF n
  <2> QED
    BY <1>1, <1>2, <1>4, <2>4 DEF NextKey, Numbers
<1> QED
  BY <1>3, <1>4

(* A keyboard that has one thing more to report.                           *)
LEMMA ReportCounts ==
  ASSUME Counted, NEW d \in Devs, NEW k \in Reports, UNCHANGED <<queue, cap>>,
         \A c \in Devs : dev'[c].pend = IF c = d THEN Append(dev[d].pend, k) ELSE dev[c].pend,
         owed' = [owed EXCEPT ![d] = IF k = Partial THEN @ ELSE Append(@, k)]
  PROVE  Counted'
<1>1. /\ queue \in Seq(Pairs) /\ Len(queue) <= cap /\ owed \in [Devs -> Seq(Numbers)]
      /\ \A c \in Devs : dev[c].pend \in Seq(Reports)
  BY DEF Counted
<1>2. Partial \notin Numbers /\ (k # Partial => k \in Numbers)
  BY DEF Partial, Numbers, Reports
<1>3. /\ \A c \in Devs : owed'[c] = IF c = d /\ k # Partial THEN Append(owed[c], k) ELSE owed[c]
      /\ owed' \in [Devs -> Seq(Numbers)]
  <2>1. CASE k = Partial
    BY <1>1, <2>1
  <2>2. CASE k # Partial
    BY <1>1, <1>2, <2>2
  <2> QED
    BY <2>1, <2>2
<1>4. \A c \in Devs : dev'[c].pend \in Seq(Reports)
  <2> TAKE c \in Devs
  <2>1. CASE c = d
    <3> DEFINE p == dev[d].pend
    <3>1. p \in Seq(Reports)
      BY <1>1
    <3> HIDE DEF p
    <3>2. Append(p, k) \in Seq(Reports)
      BY <3>1
    <3> QED
      BY <2>1, <3>2 DEF p
  <2>2. CASE c # d
    BY <1>1, <2>2
  <2> QED
    BY <2>1, <2>2
<1>5. ASSUME NEW c \in Devs PROVE owed'[c] = Waiting(c)'
  <2>1. /\ KeysIn(queue, c) \in Seq(Numbers) /\ FullKeys(dev, c) \in Seq(Numbers)
        /\ FullKeys(dev, c) = Kept(dev[c].pend, Numbers)
        /\ owed[c] = KeysIn(queue, c) \o FullKeys(dev, c)
    BY WaitingType
  <2>2. Waiting(c)' = KeysIn(queue, c) \o Kept(dev'[c].pend, Numbers)
    BY DEF Waiting, KeysIn, FullKeys
  <2>3. CASE c = d /\ k # Partial
    <3>1. Kept(dev'[c].pend, Numbers) = Append(FullKeys(dev, c), k)
      <4>1. dev'[c].pend = Append(dev[c].pend, k)
        BY <2>3
      <4>2. Kept(Append(dev[c].pend, k), Numbers) =
              IF k \in Numbers THEN Append(Kept(dev[c].pend, Numbers), k) ELSE Kept(dev[c].pend, Numbers)
        <5> DEFINE p == dev[c].pend
        <5>1. p \in Seq(Reports)
          BY <1>1
        <5> HIDE DEF p
        <5>2. Kept(Append(p, k), Numbers) = IF k \in Numbers THEN Append(Kept(p, Numbers), k) ELSE Kept(p, Numbers)
          BY <5>1, KeptAppend
        <5> QED
          BY <5>2 DEF p
      <4> QED
        BY <1>2, <2>1, <2>3, <4>1, <4>2
    <3> DEFINE x == KeysIn(queue, c)
               y == FullKeys(dev, c)
    <3> HIDE DEF x, y
    <3>2. x \in Seq(Numbers) /\ y \in Seq(Numbers) /\ k \in Numbers
      BY <1>2, <2>1, <2>3 DEF x, y
    <3>3. x \o Append(y, k) = Append(x \o y, k)
      BY <3>2, AppendLast
    <3> QED
      BY <1>3, <2>1, <2>2, <2>3, <3>1, <3>3 DEF x, y
  <2>4. CASE ~(c = d /\ k # Partial)
    <3>1. Kept(dev'[c].pend, Numbers) = FullKeys(dev, c)
      <4>1. CASE c = d
        <5>1. dev'[c].pend = Append(dev[c].pend, k) /\ k \notin Numbers
          BY <1>2, <2>4, <4>1
        <5>2. Kept(Append(dev[c].pend, k), Numbers) =
                IF k \in Numbers THEN Append(Kept(dev[c].pend, Numbers), k) ELSE Kept(dev[c].pend, Numbers)
          <6> DEFINE p == dev[c].pend
          <6>1. p \in Seq(Reports)
            BY <1>1
          <6> HIDE DEF p
          <6>2. Kept(Append(p, k), Numbers) = IF k \in Numbers THEN Append(Kept(p, Numbers), k) ELSE Kept(p, Numbers)
            BY <6>1, KeptAppend
          <6> QED
            BY <6>2 DEF p
        <5> QED
          BY <2>1, <5>1, <5>2
      <4>2. CASE c # d
        BY <2>1, <4>2
      <4> QED
        BY <4>1, <4>2
    <3> QED
      BY <1>3, <2>1, <2>2, <2>4, <3>1
  <2> QED
    BY <2>3, <2>4
<1> QED
  BY <1>1, <1>3, <1>4, <1>5 DEF Counted

(* A key that arrives is expected from then on.                            *)
LEMMA PressCounts == ASSUME IInv, Counted, NEW d \in Devs, Press(d) PROVE Counted'
<1>1. NextKey(d) \in Numbers
  BY NextNumber
<1> DEFINE k == NextKey(d)
<1>2. /\ dev' = [dev EXCEPT ![d].pend = Append(@, k)]
      /\ owed' = [owed EXCEPT ![d] = Append(@, k)] /\ UNCHANGED <<queue, cap>>
  BY DEF Press, splitter
<1> HIDE DEF k
<1>3. k \in Reports /\ k # Partial
  BY <1>1 DEF k, Reports, Numbers, Partial
<1>4. \A c \in Devs : dev'[c].pend = IF c = d THEN Append(dev[d].pend, k) ELSE dev[c].pend
  BY <1>2 DEF IInv, Shaped, Keyboards, Fields
<1>5. owed' = [owed EXCEPT ![d] = IF k = Partial THEN @ ELSE Append(@, k)]
  BY <1>2, <1>3
<1> QED
  BY <1>2, <1>3, <1>4, <1>5, ReportCounts

(* A toggle is reported by a partial key, which nobody expects.            *)
LEMMA ToggleCounts == ASSUME IInv, Counted, NEW d \in Devs, NEW t, Toggle(d, t) PROVE Counted'
<1>1. UNCHANGED <<queue, cap, owed>>
  BY DEF Toggle, splitter, history
<1>2. CASE dev[d].exposed
  <2> DEFINE heard == IF Sync \in dev[d].reg THEN Append(dev[d].notes, t) ELSE dev[d].notes
  <2> HIDE DEF heard
  <2>1. dev' = [dev EXCEPT ![d].toggle = t, ![d].pend = Append(@, Partial), ![d].notes = heard]
    BY <1>2, Zenon DEF Toggle, heard
  <2>2. \A c \in Devs : dev'[c].pend = IF c = d THEN Append(dev[d].pend, Partial) ELSE dev[c].pend
    BY <2>1 DEF IInv, Shaped, Keyboards, Fields
  <2>3. owed' = [owed EXCEPT ![d] = IF Partial = Partial THEN @ ELSE Append(@, Partial)]
    BY <1>1 DEF Counted
  <2>4. Partial \in Reports
    BY DEF Reports
  <2> QED
    BY <1>1, <2>2, <2>3, <2>4, ReportCounts
<1>3. CASE ~dev[d].exposed
  <2>1. dev' = [dev EXCEPT ![d].toggle = t]
    BY <1>3, Zenon DEF Toggle
  <2>2. \A c \in Devs : dev'[c].pend = dev[c].pend
    BY <2>1 DEF IInv, Shaped, Keyboards, Fields
  <2>3. Len(queue) <= cap'
    BY <1>1 DEF Counted
  <2> QED
    BY <1>1, <2>2, <2>3, CountKept
<1> QED
  BY <1>2, <1>3
-----------------------------------------------------------------------------
(* The two ends of a sequence in two parts.                                *)
LEMMA Ends ==
  ASSUME NEW T, NEW x \in Seq(T), NEW y \in Seq(T), NEW z, z = x \o y
  PROVE  /\ SubSeq(z, 1, Len(z) - Len(y)) = x
         /\ SubSeq(z, Len(z) - Len(y) + 1, Len(z)) = y
<1> DEFINE r == SubSeq(z, 1, Len(x))
           u == SubSeq(z, Len(x) + 1, Len(z))
<1>1. /\ z \in Seq(T) /\ Len(z) = Len(x) + Len(y) /\ Len(x) \in Nat /\ Len(y) \in Nat
      /\ \A i \in 1 .. Len(x) + Len(y) : z[i] = IF i <= Len(x) THEN x[i] ELSE y[i - Len(x)]
  BY ConcatProperties
<1>2. /\ Len(z) - Len(y) = Len(x) /\ Len(x) \in 0 .. Len(z) /\ Len(z) - Len(x) = Len(y)
      /\ \A i \in 1 .. Len(x) : i \in 1 .. Len(x) + Len(y) /\ i <= Len(x)
      /\ \A i \in 1 .. Len(y) : /\ Len(x) + i \in 1 .. Len(x) + Len(y)
                                /\ ~(Len(x) + i <= Len(x)) /\ Len(x) + i - Len(x) = i
  BY <1>1
<1>3. /\ r \in Seq(T) /\ Len(r) = Len(x) /\ \A i \in 1 .. Len(x) : r[i] = z[i]
      /\ u \in Seq(T) /\ Len(u) = Len(z) - Len(x) /\ \A i \in 1 .. Len(z) - Len(x) : u[i] = z[Len(x) + i]
  BY <1>1, <1>2, Parts
<1>4. \A i \in 1 .. Len(x) : r[i] = x[i]
  BY <1>1, <1>2, <1>3
<1>5. \A i \in 1 .. Len(y) : u[i] = y[i]
  <2> TAKE i \in 1 .. Len(y)
  <2>1. u[i] = z[Len(x) + i]
    BY <1>2, <1>3
  <2>2. z[Len(x) + i] = y[Len(x) + i - Len(x)]
    BY <1>1, <1>2
  <2> QED
    BY <1>2, <2>1, <2>2
<1> HIDE DEF r, u
<1>6. r = x
  BY <1>3, <1>4, SeqEqual
<1>7. u = y
  BY <1>2, <1>3, <1>5, SeqEqual
<1> QED
  BY <1>2, <1>6, <1>7 DEF r, u

(* A keyboard is unplugged: what it still holds is no longer expected.     *)
LEMMA StopCounts == ASSUME IInv, Counted, NEW d \in Devs, ConInStop(d) PROVE Counted'
<1>1. /\ UNCHANGED <<queue, cap>> /\ dev' = [dev EXCEPT ![d] = Plugged]
      /\ owed' = [owed EXCEPT ![d] = SubSeq(@, 1, Len(@) - Len(FullKeys(dev, d)))]
  BY DEF ConInStop
<1>2. /\ queue \in Seq(Pairs) /\ Len(queue) <= cap /\ owed \in [Devs -> Seq(Numbers)]
      /\ \A c \in Devs : dev[c].pend \in Seq(Reports)
  BY DEF Counted
<1>3. dev'[d].pend = <<>> /\ \A c \in Devs \ {d} : dev'[c] = dev[c]
  BY <1>1 DEF IInv, Shaped, Keyboards, Plugged
<1> DEFINE x == KeysIn(queue, d)
           y == FullKeys(dev, d)
<1>4. x \in Seq(Numbers) /\ y \in Seq(Numbers) /\ owed[d] = x \o y
  BY WaitingType
<1> HIDE DEF x, y
<1>5. SubSeq(x \o y, 1, Len(x \o y) - Len(y)) = x
  BY <1>4, Ends
<1>6. owed'[d] = x /\ \A c \in Devs \ {d} : owed'[c] = owed[c]
  BY <1>1, <1>2, <1>4, <1>5 DEF y
<1>7. owed' \in [Devs -> Seq(Numbers)]
  BY <1>1, <1>2, <1>4, <1>6
<1>8. ASSUME NEW c \in Devs PROVE owed'[c] = Waiting(c)'
  <2>1. Waiting(c)' = KeysIn(queue, c) \o Kept(dev'[c].pend, Numbers)
    BY <1>1 DEF Waiting, KeysIn, FullKeys
  <2>2. CASE c = d
    <3>1. Kept(dev'[c].pend, Numbers) = <<>>
      BY <1>3, <2>2, KeptEmpty
    <3>2. x \o <<>> = x
      BY <1>4, ConcatEmptySeq
    <3> QED
      BY <1>6, <2>1, <2>2, <3>1, <3>2 DEF x
  <2>3. CASE c # d
    BY <1>3, <1>6, <2>1, <2>3, WaitingType
  <2> QED
    BY <2>2, <2>3
<1>9. \A c \in Devs : dev'[c].pend \in Seq(Reports)
  <2> TAKE c \in Devs
  <2>1. <<>> \in Seq(Reports)
    OBVIOUS
  <2> QED
    BY <1>2, <1>3, <2>1
<1>10. queue' \in Seq(Pairs) /\ Len(queue') <= cap'
  BY <1>1, <1>2
<1> QED
  BY <1>7, <1>8, <1>9, <1>10 DEF Counted

(* A reset: of each keyboard, what was not reset stays expected.           *)
LEMMA ResetCounts ==
  ASSUME IInv, Counted, NEW list, NEW bad, NEW deaf, Reset(list, bad, deaf)
  PROVE  Counted'
<1> DEFINE worst == bad \cap ToSet(list) # {}
           reset == ToSet(list) \ bad
           D == ResetOfAll(dev, list, bad)
<1>1. /\ UNCHANGED cap /\ queue' = (IF worst THEN queue ELSE <<>>)
      /\ owed' = [d \in Devs |-> StillOwed(d, reset, worst)]
      /\ dev' = D \/ dev' = SetStateOfAll(D, ex, Off, deaf)
  BY DEF Reset, ToggleStateSyncReInitialization, QueueAfterReset
<1>2. /\ Keyboards(D)
      /\ \A c \in Devs : D[c].pend = IF c \in reset THEN <<>> ELSE dev[c].pend
  BY DEF ResetOfAll, IInv, Shaped, Keyboards, Fields
<1> HIDE DEF D, worst, reset
<1>3. \A c \in Devs : dev'[c].pend = IF c \in reset THEN <<>> ELSE dev[c].pend
  BY <1>1, <1>2, SetStatePend
<1>4. /\ queue \in Seq(Pairs) /\ Len(queue) <= cap /\ cap \in Nat
      /\ \A c \in Devs : dev[c].pend \in Seq(Reports)
  BY DEF Counted, IInv, Lists
<1>5. \A S : <<>> \in Seq(S) /\ Len(<<>>) = 0
  OBVIOUS
<1>6. queue' \in Seq(Pairs) /\ Len(queue') <= cap'
  <2>1. CASE worst
    BY <1>1, <1>4, <2>1
  <2>2. CASE ~worst
    BY <1>1, <1>4, <1>5, <2>2
  <2> QED
    BY <2>1, <2>2
<1>7. \A c \in Devs : dev'[c].pend \in Seq(Reports)
  BY <1>3, <1>4, <1>5
<1>8. ASSUME NEW d \in Devs PROVE owed'[d] \in Seq(Numbers) /\ owed'[d] = Waiting(d)'
  <2> DEFINE x == KeysIn(queue, d)
             y == FullKeys(dev, d)
             a == IF worst THEN x ELSE <<>>
             b == IF d \in reset THEN <<>> ELSE y
  <2>1. x \in Seq(Numbers) /\ y \in Seq(Numbers) /\ owed[d] = x \o y /\ y = Kept(dev[d].pend, Numbers)
    BY WaitingType
  <2> HIDE DEF x, y
  <2>2. /\ SubSeq(owed[d], 1, Len(owed[d]) - Len(y)) = x
        /\ SubSeq(owed[d], Len(owed[d]) - Len(y) + 1, Len(owed[d])) = y
    BY <2>1, Ends
  <2>3. StillOwed(d, reset, worst) = a \o b
    BY <2>2 DEF StillOwed, y
  <2>4. KeysIn(queue', d) = a
    <3>1. CASE worst
      BY <1>1, <3>1 DEF x
    <3>2. CASE ~worst
      <4> DEFINE q == <<>>
      <4>1. q \in Seq(Pairs) /\ 1 .. Len(q) = {}
        BY <1>5
      <4> HIDE DEF q
      <4>2. KeysIn(q, d) = <<>>
        BY <4>1, KeysInNone
      <4> QED
        BY <1>1, <3>2, <4>2 DEF q
    <3> QED
      BY <3>1, <3>2
  <2>5. Kept(dev'[d].pend, Numbers) = b
    BY <1>3, <2>1, KeptEmpty
  <2>6. Waiting(d)' = KeysIn(queue', d) \o Kept(dev'[d].pend, Numbers)
    BY DEF Waiting, KeysIn, FullKeys
  <2>7. a \in Seq(Numbers) /\ b \in Seq(Numbers)
    BY <1>5, <2>1
  <2> HIDE DEF a, b
  <2>8. a \o b \in Seq(Numbers)
    BY <2>7
  <2> QED
    BY <1>1, <2>3, <2>4, <2>5, <2>6, <2>8
<1>9. owed' \in [Devs -> Seq(Numbers)]
  BY <1>1, <1>8
<1> QED
  BY <1>6, <1>7, <1>8, <1>9 DEF Counted
-----------------------------------------------------------------------------
(* The first full key of a keyboard is that at FullAt.                     *)
LEMMA FirstFull ==
  ASSUME NEW d, dev[d].pend \in Seq(Reports)
  PROVE  LET f == FullAt(dev, d)
             left == SubSeq(dev[d].pend, f + 1, Len(dev[d].pend))
         IN /\ f = 0 => Kept(dev[d].pend, Numbers) = <<>>
            /\ f # 0 => /\ f \in 1 .. Len(dev[d].pend) /\ dev[d].pend[f] \in Numbers
                        /\ left \in Seq(Reports)
                        /\ Kept(left, Numbers) \in Seq(Numbers)
                        /\ Kept(dev[d].pend, Numbers) = <<dev[d].pend[f]>> \o Kept(left, Numbers)
<1> DEFINE p == dev[d].pend
           full == {i \in 1 .. Len(p) : p[i] # Partial}
           f == FullAt(dev, d)
<1>1. p \in Seq(Reports) /\ f = IF full = {} THEN 0 ELSE Min(full)
  BY DEF FullAt
<1>2. full \in SUBSET Nat
  OBVIOUS
<1>3. full # {} => Min(full) \in full /\ \A i \in full : Min(full) <= i
  BY <1>2, MinIsLeast
<1> HIDE DEF p, f
<1>4. \A i \in 1 .. Len(p) : p[i] \in Reports
  BY <1>1
<1>5. \A k \in Reports : k # Partial <=> k \in Numbers
  BY DEF Reports, Partial, Numbers
<1>6. CASE full = {}
  <2>1. \A i \in 1 .. Len(p) : p[i] \notin Numbers
    BY <1>4, <1>5, <1>6
  <2>2. Kept(p, Numbers) = <<>>
    BY <1>1, <2>1, KeptNone
  <2>3. f = 0
    BY <1>1, <1>6
  <2> QED
    BY <2>2, <2>3 DEF p, f
<1>7. CASE full # {}
  <2>1. f \in 1 .. Len(p) /\ p[f] # Partial /\ \A i \in 1 .. Len(p) : p[i] # Partial => f <= i
    BY <1>1, <1>3, <1>7
  <2>2. f # 0 /\ p[f] \in Numbers /\ \A i \in 1 .. f - 1 : p[i] \notin Numbers
    <3>1. f # 0 /\ p[f] \in Numbers
      BY <1>4, <1>5, <2>1
    <3>2. ASSUME NEW i \in 1 .. f - 1 PROVE p[i] \notin Numbers
      <4>1. i \in 1 .. Len(p) /\ ~(f <= i)
        BY <2>1
      <4> QED
        BY <1>4, <1>5, <2>1, <4>1
    <3> QED
      BY <3>1, <3>2
  <2> DEFINE left == SubSeq(p, f + 1, Len(p))
  <2>3. Kept(p, Numbers) = <<p[f]>> \o Kept(left, Numbers)
    <3>1. p \in Seq(Reports) /\ f \in 1 .. Len(p) /\ p[f] \in Numbers
      BY <1>1, <2>1, <2>2
    <3>2. \A i \in 1 .. f - 1 : p[i] \notin Numbers
      BY <2>2
    <3> HIDE <1>1
    <3> QED
      BY <3>1, <3>2, KeptFirst, SMTT(30)
  <2>4. left \in Seq(Reports)
    <3>1. p \in Seq(Reports) /\ f \in 0 .. Len(p)
      BY <1>1, <2>1
    <3> QED
      BY <3>1, Parts
  <2> HIDE DEF left
  <2>5. Kept(left, Numbers) \in Seq(Numbers)
    <3>1. Kept(left, Numbers) \in Seq(Reports \cap Numbers) /\ Reports \cap Numbers = Numbers
      BY <2>4, KeptType DEF Reports
    <3> QED
      BY <3>1
  <2> QED
    BY <2>1, <2>2, <2>3, <2>4, <2>5 DEF p, f, left
<1> QED
  BY <1>6, <1>7

(* A key that a keyboard gives up to a caller, or that it holds no more.   *)
LEMMA ReadCounts == ASSUME IInv, Counted, NEW bad, ReadKeyStroke(bad) PROVE Counted'
<1> DEFINE full == {i \in 1 .. Len(queue) : queue[i][2] # Partial}
<1>1. /\ queue \in Seq(Pairs) /\ Len(queue) <= cap /\ cap \in Nat /\ UNCHANGED cap
      /\ owed \in [Devs -> Seq(Numbers)] /\ textIn \in Seq(Devs)
      /\ \A c \in Devs : dev[c].pend \in Seq(Reports)
  BY DEF Counted, IInv, Lists, ReadKeyStroke, PrivateReadKeyStroke
<1>2. CASE full # {}
  <2> DEFINE m == Min(full)
             q == SubSeq(queue, m + 1, Len(queue))
  <2>1. full \in SUBSET Nat
    OBVIOUS
  <2>2. m \in full /\ \A i \in full : m <= i
    BY <1>2, <2>1, MinIsLeast
  <2> HIDE DEF m
  <2>3. m \in 1 .. Len(queue) /\ \A i \in 1 .. m - 1 : queue[i][2] = Partial
    <3>1. m \in 1 .. Len(queue)
      BY <2>2
    <3>2. ASSUME NEW i \in 1 .. m - 1 PROVE queue[i][2] = Partial
      <4>1. i \in 1 .. Len(queue) /\ ~(m <= i)
        BY <3>1
      <4> QED
        BY <2>2, <4>1
    <3> QED
      BY <3>1, <3>2
  <2>4. queue' = q /\ owed' = Returned(queue[m]) /\ dev' = dev
    BY <1>2 DEF ReadKeyStroke, PrivateReadKeyStroke, Dequeued, m
  <2> HIDE DEF q, full
  <2> DEFINE F == [c \in Devs |-> FullKeys(dev, c)]
  <2>5. \A c \in Devs : F[c] \in Seq(Numbers) /\ F[c] = FullKeys(dev, c) /\ owed[c] = KeysIn(queue, c) \o F[c]
    BY WaitingType
  <2> HIDE DEF F
  <2>6. ASSUME NEW c \in Devs
        PROVE  /\ q \in Seq(Pairs) /\ Len(q) <= Len(queue)
               /\ Returned(queue[m])[c] = KeysIn(q, c) \o F[c]
    BY <1>1, <2>3, <2>5, Handing DEF q
  <2>7. q \in Seq(Pairs) /\ Len(q) <= Len(queue)
    <3>1. m \in 0 .. Len(queue) /\ Len(queue) - m <= Len(queue)
      BY <2>3
    <3> QED
      BY <1>1, <3>1, Parts DEF q
  <2>8. \A c \in Devs : owed'[c] = Waiting(c)'
    <3> TAKE c \in Devs
    <3>1. Waiting(c)' = KeysIn(queue', c) \o FullKeys(dev, c)
      BY <2>4 DEF Waiting, KeysIn, FullKeys
    <3> QED
      BY <2>4, <2>5, <2>6, <3>1
  <2>9. owed' \in [Devs -> Seq(Numbers)]
    <3>1. owed' = [owed EXCEPT ![queue[m][1]] = IF queue[m][2] = Partial THEN @ ELSE Tail(@)]
      BY <2>4 DEF Returned
    <3>2. \A c \in Devs : owed'[c] \in Seq(Numbers)
      <4> TAKE c \in Devs
      <4>1. KeysIn(q, c) \in Seq(Numbers)
        BY <2>7, KeptPairs
      <4> DEFINE x == KeysIn(q, c)
                 y == F[c]
      <4> HIDE DEF x, y
      <4>2. x \in Seq(Numbers) /\ y \in Seq(Numbers)
        BY <2>5, <4>1 DEF x, y
      <4>3. x \o y \in Seq(Numbers)
        BY <4>2
      <4> QED
        BY <2>4, <2>6, <4>3 DEF x, y
    <3> QED
      BY <1>1, <3>1, <3>2
  <2>10. Len(queue') <= cap'
    <3>1. Len(q) \in Nat /\ Len(queue) \in Nat
      BY <1>1, <2>7
    <3> QED
      BY <1>1, <2>4, <2>7, <3>1
  <2> QED
    BY <1>1, <2>4, <2>7, <2>8, <2>9, <2>10 DEF Counted
<1>3. CASE full = {}
  <2> DEFINE asked == Kept(textIn, Devs \ bad)
             givers == {i \in 1 .. Len(asked) : FullAt(dev, asked[i]) # 0}
             last == IF givers = {} THEN Len(asked) ELSE Min(givers)
             read == {asked[i] : i \in 1 .. last}
             Left(d) == IF FullAt(dev, d) = 0 THEN <<>>
                        ELSE SubSeq(dev[d].pend, FullAt(dev, d) + 1, Len(dev[d].pend))
             g == asked[last]
  <2>1. /\ queue' = <<>>
        /\ dev' = [d \in Devs |-> IF d \in read THEN [dev[d] EXCEPT !.pend = Left(d)] ELSE dev[d]]
        /\ owed' = IF givers = {} THEN owed ELSE Returned(<<g, dev[g].pend[FullAt(dev, g)]>>)
    BY <1>3 DEF ReadKeyStroke, PrivateReadKeyStroke
  <2>2. asked \in Seq(Devs)
    BY <1>1, KeptType
  <2>3. givers # {} => /\ last \in 1 .. Len(asked) /\ FullAt(dev, g) # 0
                       /\ \A i \in 1 .. last - 1 : FullAt(dev, asked[i]) = 0
    <3> SUFFICES ASSUME givers # {}
                 PROVE  /\ last \in 1 .. Len(asked) /\ FullAt(dev, g) # 0
                        /\ \A i \in 1 .. last - 1 : FullAt(dev, asked[i]) = 0
      OBVIOUS
    <3> HIDE DEF asked
    <3>1. givers \in SUBSET Nat
      OBVIOUS
    <3>2. last \in givers /\ \A i \in givers : last <= i
      BY <3>1, MinIsLeast
    <3> HIDE DEF last
    <3>3. last \in 1 .. Len(asked) /\ FullAt(dev, asked[last]) # 0
      BY <3>2
    <3>4. ASSUME NEW i \in 1 .. last - 1 PROVE FullAt(dev, asked[i]) = 0
      <4>1. i \in 1 .. Len(asked) /\ ~(last <= i)
        BY <3>3
      <4> QED
        BY <3>2, <4>1
    <3> QED
      BY <3>3, <3>4
  <2>4. givers = {} => last = Len(asked) /\ \A i \in 1 .. Len(asked) : FullAt(dev, asked[i]) = 0
    OBVIOUS
  <2>5. \A d \in read : FullAt(dev, d) = 0 \/ (givers # {} /\ d = g)
    <3> TAKE d \in read
    <3> HIDE DEF asked, givers, last
    <3>1. PICK i \in 1 .. last : d = asked[i]
      OBVIOUS
    <3>2. CASE givers = {}
      BY <2>4, <3>1, <3>2
    <3>3. CASE givers # {} /\ i # last
      <4>1. i \in 1 .. last - 1
        BY <2>3, <3>1, <3>3
      <4> QED
        BY <2>3, <3>1, <3>3, <4>1
    <3>4. CASE givers # {} /\ i = last
      BY <3>1, <3>4
    <3> QED
      BY <3>2, <3>3, <3>4
  <2>6. givers # {} => g \in Devs /\ g \in read
    <3> HIDE DEF asked, givers, last
    <3>1. givers # {} => last \in 1 .. Len(asked) /\ last \in 1 .. last
      BY <2>3
    <3> QED
      BY <2>2, <3>1
  <2> HIDE DEF asked, givers, last, read, g
  <2>7. ASSUME NEW c \in Devs PROVE dev'[c].pend = IF c \in read THEN Left(c) ELSE dev[c].pend
    BY <2>1 DEF IInv, Shaped, Keyboards, Fields
  <2>8. ASSUME NEW c \in Devs PROVE KeysIn(queue, c) = <<>> /\ owed[c] = Kept(dev[c].pend, Numbers)
    <3>1. KeysIn(queue, c) = <<>>
      BY <1>1, <1>3, KeysInNone
    <3>2. FullKeys(dev, c) \in Seq(Numbers) /\ owed[c] = <<>> \o FullKeys(dev, c)
      BY <3>1, WaitingType
    <3>3. <<>> \o FullKeys(dev, c) = FullKeys(dev, c)
      BY <3>2, ConcatEmptySeq
    <3> QED
      BY <3>1, <3>2, <3>3, WaitingType
  <2>9. ASSUME NEW c \in Devs
        PROVE  /\ dev'[c].pend \in Seq(Reports)
               /\ Kept(dev'[c].pend, Numbers) \in Seq(Numbers)
               /\ owed'[c] = Kept(dev'[c].pend, Numbers)
    <3>0. dev[c].pend \in Seq(Reports)
      BY <1>1
    <3>1. /\ FullAt(dev, c) = 0 => owed[c] = <<>>
          /\ FullAt(dev, c) # 0 =>
               /\ dev[c].pend[FullAt(dev, c)] \in Numbers /\ Left(c) \in Seq(Reports)
               /\ Kept(Left(c), Numbers) \in Seq(Numbers)
               /\ owed[c] = <<dev[c].pend[FullAt(dev, c)]>> \o Kept(Left(c), Numbers)
      BY <2>8, <3>0, FirstFull
    <3>2. /\ owed[c] \in Seq(Numbers)
          /\ Kept(<<>>, Numbers) = <<>> /\ <<>> \in Seq(Numbers) /\ <<>> \in Seq(Reports)
      BY <1>1, KeptEmpty
    <3>3. CASE givers # {} /\ c = g
      <4> DEFINE k == dev[c].pend[FullAt(dev, c)]
                 r == Kept(Left(c), Numbers)
      <4>1. FullAt(dev, c) # 0 /\ c \in read
        BY <2>3, <2>6, <3>3
      <4>2. k \in Numbers /\ r \in Seq(Numbers) /\ owed[c] = <<k>> \o r /\ k # Partial
        BY <3>1, <4>1 DEF Numbers, Partial
      <4>3. owed' = Returned(<<c, k>>)
        BY <2>1, <3>3
      <4>4. owed'[c] = Tail(owed[c])
        <5> HIDE DEF k
        <5> QED
          BY <1>1, <4>2, <4>3 DEF Returned
      <4>5. dev'[c].pend = Left(c)
        BY <2>7, <4>1
      <4> DEFINE one == <<k>>
      <4> HIDE DEF k, r
      <4>6. one \in Seq(Numbers) /\ Len(one) = 1
        BY <4>2
      <4> HIDE DEF one
      <4>7. Tail(one \o r) = r
        BY <4>2, <4>6, RestOf
      <4>8. owed'[c] = r
        BY <4>2, <4>4, <4>7 DEF one
      <4> QED
        BY <3>1, <4>1, <4>2, <4>5, <4>8 DEF r
    <3>4. CASE ~(givers # {} /\ c = g)
      <4>1. owed'[c] = owed[c]
        <5>1. CASE givers = {}
          BY <2>1, <5>1
        <5>2. CASE givers # {}
          <6>1. owed' = Returned(<<g, dev[g].pend[FullAt(dev, g)]>>) /\ c # g
            BY <2>1, <3>4, <5>2
          <6> QED
            BY <1>1, <6>1 DEF Returned
        <5> QED
          BY <5>1, <5>2
      <4>2. CASE c \in read
        <5>1. FullAt(dev, c) = 0
          BY <2>5, <3>4, <4>2
        <5>2. dev'[c].pend = <<>> /\ owed[c] = <<>>
          BY <2>7, <3>1, <4>2, <5>1
        <5> QED
          BY <3>2, <4>1, <5>2
      <4>3. CASE c \notin read
        BY <2>7, <2>8, <3>0, <3>2, <4>1, <4>3
      <4> QED
        BY <4>2, <4>3
    <3> QED
      BY <3>3, <3>4
  <2> HIDE DEF Left
  <2>10. \A c \in Devs : owed'[c] = Waiting(c)'
    <3> TAKE c \in Devs
    <3> DEFINE q == <<>>
    <3>1. q \in Seq(Pairs) /\ 1 .. Len(q) = {}
      OBVIOUS
    <3>2. queue' = q
      BY <2>1
    <3> HIDE DEF q
    <3>3. KeysIn(q, c) = <<>>
      BY <3>1, KeysInNone DEF q
    <3>4. Waiting(c)' = KeysIn(queue', c) \o Kept(dev'[c].pend, Numbers)
      BY DEF Waiting, KeysIn, FullKeys
    <3> DEFINE r == Kept(dev'[c].pend, Numbers)
    <3> HIDE DEF r
    <3>5. r \in Seq(Numbers) /\ owed'[c] = r
      BY <2>9 DEF r
    <3>6. <<>> \o r = r
      BY <3>5, ConcatEmptySeq
    <3> QED
      BY <3>2, <3>3, <3>4, <3>5, <3>6 DEF r
  <2>11. owed' \in [Devs -> Seq(Numbers)]
    <3>1. owed' = owed \/ \E p : owed' = Returned(p)
      BY <2>1
    <3>2. DOMAIN owed' = Devs /\ owed' = [c \in Devs |-> owed'[c]]
      <4>1. CASE owed' = owed
        BY <1>1, <4>1
      <4>2. ASSUME NEW p, owed' = Returned(p) PROVE <3>2
        BY <1>1, <4>2 DEF Returned
      <4> QED
        BY <3>1, <4>1, <4>2
    <3>3. \A c \in Devs : owed'[c] \in Seq(Numbers)
      BY <2>9
    <3> QED
      BY <3>2, <3>3
  <2>12. queue' \in Seq(Pairs) /\ Len(queue') <= cap'
    <3>1. <<>> \in Seq(Pairs) /\ Len(<<>>) = 0
      OBVIOUS
    <3> QED
      BY <1>1, <2>1, <3>1
  <2> QED
    BY <2>9, <2>10, <2>11, <2>12 DEF Counted
<1> QED
  BY <1>2, <1>3
(* What is kept of a sequence, by its first member.                        *)
LEMMA KeptHead ==
  ASSUME NEW T, NEW s \in Seq(T), s # <<>>, NEW S
  PROVE  /\ Head(s) \in T /\ Tail(s) \in Seq(T)
         /\ Head(s) \in S => Kept(s, S) = <<Head(s)>> \o Kept(Tail(s), S)
         /\ Head(s) \notin S => Kept(s, S) = Kept(Tail(s), S)
<1>1. /\ Head(s) \in T /\ Tail(s) \in Seq(T) /\ Tail(s) = SubSeq(s, 2, Len(s)) /\ Head(s) = s[1]
      /\ Len(s) \in Nat \ {0}
  BY HeadTailProperties, TailIsSubSeq, EmptySeq
<1>2. 1 \in 1 .. Len(s) /\ 1 \in 0 .. Len(s)
  BY <1>1
<1>3. Head(s) \in S => Kept(s, S) = <<Head(s)>> \o Kept(Tail(s), S)
  <2> SUFFICES ASSUME Head(s) \in S PROVE Kept(s, S) = <<Head(s)>> \o Kept(Tail(s), S)
    OBVIOUS
  <2>1. s[1] \in S /\ \A i \in 1 .. 1 - 1 : s[i] \notin S
    BY <1>1
  <2>2. Kept(s, S) = <<s[1]>> \o Kept(SubSeq(s, 1 + 1, Len(s)), S)
    BY <1>2, <2>1, KeptFirst
  <2>3. SubSeq(s, 1 + 1, Len(s)) = Tail(s)
    BY <1>1
  <2> QED
    BY <1>1, <2>2, <2>3
<1>4. Head(s) \notin S => Kept(s, S) = Kept(Tail(s), S)
  <2> SUFFICES ASSUME s[1] \notin S PROVE Kept(s, S) = Kept(Tail(s), S)
    BY <1>1
  <2> DEFINE a == SubSeq(s, 1, 1)
             b == SubSeq(s, 1 + 1, Len(s))
  <2>1. a \in Seq(T) /\ b \in Seq(T) /\ Len(a) = 1 /\ (\A i \in 1 .. 1 : a[i] = s[i]) /\ s = a \o b
    BY <1>2, Parts
  <2>2. b = Tail(s)
    BY <1>1
  <2> HIDE DEF a, b
  <2>3. Kept(s, S) = Kept(a, S) \o Kept(b, S)
    BY <2>1, KeptConcat
  <2>4. Kept(a, S) = <<>>
    <3>1. \A i \in 1 .. Len(a) : a[i] \notin S
      BY <2>1
    <3> QED
      BY <2>1, <3>1, KeptNone
  <2>5. Kept(b, S) \in Seq(T)
    BY <2>1, KeptType
  <2>6. <<>> \o Kept(b, S) = Kept(b, S)
    BY <2>5, ConcatEmptySeq
  <2> QED
    BY <2>2, <2>3, <2>4, <2>6
<1> QED
  BY <1>1, <1>3, <1>4

(* The keys that one read of each keyboard brings into the queue are those  *)
(* that the keyboards give up for it.                                      *)
LEMMA CollectedKeys ==
  ASSUME IInv, Counted, NEW bad,
         NEW readers, readers = Kept(ex, {d \in Devs \ bad : dev[d].pend # <<>>}),
         NEW c \in Devs
  PROVE  /\ Collected(readers) \in Seq(Pairs) /\ Len(Collected(readers)) <= cap
         /\ c \in ToSet(ex) \ bad /\ dev[c].pend # <<>> =>
              /\ KeysIn(Collected(readers), c) \o Kept(Tail(dev[c].pend), Numbers) = Kept(dev[c].pend, Numbers)
              /\ Tail(dev[c].pend) \in Seq(Reports)
         /\ ~(c \in ToSet(ex) \ bad /\ dev[c].pend # <<>>) => KeysIn(Collected(readers), c) = <<>>
<1> DEFINE ready == {d \in Devs \ bad : dev[d].pend # <<>>}
           pairs == [i \in DOMAIN readers |-> <<readers[i], Head(dev[readers[i]].pend)>>]
           A == Devs \X IF exported THEN Reports ELSE Numbers
           B == {c} \X Numbers
<1>0. /\ ex \in Seq(Devs) /\ Distinct(ex) /\ Len(ex) <= cap /\ cap \in Nat /\ Len(ex) \in Nat
      /\ \A d \in Devs : dev[d].pend \in Seq(Reports)
  BY DEF IInv, Lists, Counted
<1>1. /\ readers \in Seq(Devs \cap ready) /\ Len(readers) <= Len(ex) /\ Distinct(readers)
      /\ ToSet(readers) = ToSet(ex) \cap ready
  <2> HIDE DEF ready
  <2>1. readers = Kept(ex, ready)
    BY DEF ready
  <2>2. Kept(ex, ready) \in Seq(Devs \cap ready) /\ Len(Kept(ex, ready)) <= Len(ex)
    BY <1>0, KeptType
  <2>3. ToSet(Kept(ex, ready)) = ToSet(ex) \cap ready
    BY <1>0, KeptMembers
  <2>4. Distinct(Kept(ex, ready))
    BY <1>0, KeptMembers, Zenon
  <2> QED
    BY <2>1, <2>2, <2>3, <2>4
<1>2. \A i \in 1 .. Len(readers) : readers[i] \in Devs /\ dev[readers[i]].pend # <<>>
  BY <1>1
<1>3. pairs \in Seq(Pairs) /\ Len(pairs) = Len(readers)
      /\ \A i \in 1 .. Len(readers) : pairs[i] = <<readers[i], Head(dev[readers[i]].pend)>>
  <2>1. DOMAIN readers = 1 .. Len(readers) /\ Len(readers) \in Nat
    BY <1>1
  <2>2. pairs = [i \in 1 .. Len(readers) |-> <<readers[i], Head(dev[readers[i]].pend)>>]
    BY <2>1
  <2>3. \A i \in 1 .. Len(readers) : Head(dev[readers[i]].pend) \in Reports
    BY <1>0, <1>2, HeadTailProperties
  <2>4. \A i \in 1 .. Len(readers) : <<readers[i], Head(dev[readers[i]].pend)>> \in Pairs
    BY <1>2, <2>3 DEF Pairs
  <2>5. pairs \in [1 .. Len(readers) -> Pairs]
    BY <2>2, <2>4
  <2>6. pairs \in Seq(Pairs) /\ Len(pairs) = Len(readers)
    <3> DEFINE n == Len(readers)
               e(i) == <<readers[i], Head(dev[readers[i]].pend)>>
    <3>1. n \in Nat /\ pairs = [i \in 1 .. n |-> e(i)] /\ \A i \in 1 .. n : e(i) \in Pairs
      BY <2>1, <2>2, <2>4
    <3> HIDE DEF n, e, pairs
    <3>2. pairs \in Seq(Pairs) /\ Len(pairs) = n
      BY <3>1
    <3> QED
      BY <3>2 DEF n
  <2>7. \A i \in 1 .. Len(readers) : pairs[i] = <<readers[i], Head(dev[readers[i]].pend)>>
    BY <2>2
  <2> QED
    BY <2>6, <2>7
<1> HIDE DEF pairs
<1>4. Collected(readers) = Kept(pairs, A)
  BY DEF Collected, pairs
<1>5. Collected(readers) \in Seq(Pairs) /\ Len(Collected(readers)) <= cap
  <2> HIDE DEF A
  <2>1. Kept(pairs, A) \in Seq(Pairs) /\ Len(Kept(pairs, A)) <= Len(pairs)
    BY <1>3, KeptType
  <2>2. Len(Kept(pairs, A)) \in Nat
    BY <2>1
  <2> QED
    BY <1>0, <1>1, <1>3, <1>4, <2>1, <2>2
<1>6. A \cap B = B
  BY DEF Reports
<1>7. Kept(Collected(readers), B) = Kept(pairs, B)
  <2> HIDE DEF A, B
  <2> QED
    BY <1>3, <1>4, <1>6, KeptTwice
<1>8. KeysIn(Collected(readers), c) = Seconds(Kept(pairs, B)) /\ KeysIn(pairs, c) = Seconds(Kept(pairs, B))
  BY <1>3, <1>5, <1>7, KeptPairs
<1> DEFINE got == Collected(readers)
<1> HIDE DEF got
<1>9. KeysIn(got, c) = KeysIn(pairs, c) /\ KeysIn(pairs, c) \in Seq(Numbers)
  BY <1>3, <1>8, KeptPairs DEF got
<1>10. ASSUME c \in ToSet(ex) \ bad, dev[c].pend # <<>>
       PROVE  /\ KeysIn(got, c) \o Kept(Tail(dev[c].pend), Numbers) = Kept(dev[c].pend, Numbers)
              /\ Tail(dev[c].pend) \in Seq(Reports)
  <2> DEFINE p == dev[c].pend
  <2>1. p \in Seq(Reports) /\ p # <<>>
    BY <1>0, <1>10
  <2>2. c \in ToSet(readers)
    BY <1>1, <1>10
  <2>3. PICK m \in 1 .. Len(readers) : readers[m] = c
    <3>1. DOMAIN readers = 1 .. Len(readers)
      BY <1>1
    <3> QED
      BY <2>2, <3>1 DEF ToSet
  <2>4. \A i \in 1 .. Len(readers) : readers[i] = c => i = m
    BY <1>1, <2>3 DEF Distinct
  <2>5. pairs[m] = <<c, Head(p)>> /\ m \in 1 .. Len(pairs)
    BY <1>3, <2>3
  <2>6. \A i \in 1 .. Len(pairs) : pairs[i][1] = c => i = m
    <3> TAKE i \in 1 .. Len(pairs)
    <3>1. i \in 1 .. Len(readers) /\ pairs[i] = <<readers[i], Head(dev[readers[i]].pend)>>
      BY <1>3
    <3> QED
      BY <2>4, <3>1
  <2> HIDE DEF p
  <2>7. /\ Head(p) \in Reports /\ Tail(p) \in Seq(Reports)
        /\ Head(p) \in Numbers => Kept(p, Numbers) = <<Head(p)>> \o Kept(Tail(p), Numbers)
        /\ Head(p) \notin Numbers => Kept(p, Numbers) = Kept(Tail(p), Numbers)
    BY <2>1, KeptHead
  <2>8. \A k \in Reports : k # Partial <=> k \in Numbers
    BY DEF Reports, Partial, Numbers
  <2>9. CASE Head(p) \in Numbers
    <3>1. KeysIn(pairs, c) = <<pairs[m][2]>>
      <4>1. pairs[m][1] = c /\ pairs[m][2] # Partial
        BY <2>5, <2>7, <2>8, <2>9
      <4> QED
        BY <1>3, <2>5, <2>6, <4>1, KeysInOne
    <3>2. KeysIn(pairs, c) = <<Head(p)>>
      BY <2>5, <3>1
    <3> QED
      BY <1>9, <2>7, <2>9, <3>2 DEF p
  <2>10. CASE Head(p) \notin Numbers
    <3>1. \A i \in 1 .. Len(pairs) : ~(pairs[i][1] = c /\ pairs[i][2] # Partial)
      BY <2>5, <2>6, <2>7, <2>8, <2>10
    <3>2. KeysIn(pairs, c) = <<>>
      BY <1>3, <3>1, KeysInNone
    <3>3. Kept(Tail(p), Numbers) \in Seq(Reports)
      BY <2>7, KeptType
    <3>4. <<>> \o Kept(Tail(p), Numbers) = Kept(Tail(p), Numbers)
      BY <3>3, ConcatEmptySeq
    <3> QED
      BY <1>9, <2>7, <2>10, <3>2, <3>4 DEF p
  <2> QED
    BY <2>9, <2>10
<1>11. ASSUME ~(c \in ToSet(ex) \ bad /\ dev[c].pend # <<>>) PROVE KeysIn(got, c) = <<>>
  <2>1. c \notin ToSet(readers)
    BY <1>1, <1>11
  <2>2. \A i \in 1 .. Len(pairs) : pairs[i][1] # c
    <3> TAKE i \in 1 .. Len(pairs)
    <3>1. i \in 1 .. Len(readers) /\ pairs[i] = <<readers[i], Head(dev[readers[i]].pend)>>
      BY <1>3
    <3>2. DOMAIN readers = 1 .. Len(readers)
      BY <1>1
    <3>3. readers[i] \in ToSet(readers)
      BY <3>1, <3>2 DEF ToSet
    <3> QED
      BY <2>1, <3>1, <3>3
  <2>3. KeysIn(pairs, c) = <<>>
    BY <1>3, <2>2, KeysInNone
  <2> QED
    BY <1>9, <2>3
<1> QED
  BY <1>5, <1>10, <1>11 DEF got

(* A read by the extended protocol.                                        *)
LEMMA ReadExCounts == ASSUME IInv, Counted, NEW bad, ReadKeyStrokeEx(bad) PROVE Counted'
<1> DEFINE readers == Kept(ex, {d \in Devs \ bad : dev[d].pend # <<>>})
           got == IF queue # <<>> THEN queue ELSE Collected(readers)
           taken(c) == queue = <<>> /\ c \in ToSet(ex) \ bad /\ dev[c].pend # <<>>
           pend(c) == IF taken(c) THEN Tail(dev[c].pend) ELSE dev[c].pend
<1>1. /\ UNCHANGED cap
      /\ dev' = (IF queue # <<>> THEN dev
                 ELSE [d \in Devs |-> IF d \in ToSet(ex) \ bad /\ dev[d].pend # <<>>
                                      THEN [dev[d] EXCEPT !.pend = Tail(@)] ELSE dev[d]])
      /\ IF got = <<>> THEN UNCHANGED <<queue, owed>>
         ELSE queue' = Dequeued(got, 1) /\ owed' = Returned(Head(got))
  BY DEF ReadKeyStrokeEx
<1>2. /\ queue \in Seq(Pairs) /\ Len(queue) <= cap /\ cap \in Nat /\ owed \in [Devs -> Seq(Numbers)]
      /\ \A c \in Devs : dev[c].pend \in Seq(Reports)
  BY DEF Counted, IInv, Lists
<1>3. ASSUME NEW c \in Devs PROVE dev'[c].pend = pend(c)
  BY <1>1 DEF IInv, Shaped, Keyboards, Fields
<1> DEFINE F == [c \in Devs |-> Kept(pend(c), Numbers)]
<1>4. ASSUME NEW c \in Devs
      PROVE  /\ got \in Seq(Pairs) /\ Len(got) <= cap
             /\ pend(c) \in Seq(Reports) /\ F[c] \in Seq(Numbers) /\ F[c] = Kept(pend(c), Numbers)
             /\ owed[c] = KeysIn(got, c) \o F[c]
  <2>0. F[c] = Kept(pend(c), Numbers)
    OBVIOUS
  <2>1. /\ KeysIn(queue, c) \in Seq(Numbers) /\ Kept(dev[c].pend, Numbers) \in Seq(Numbers)
        /\ owed[c] = KeysIn(queue, c) \o Kept(dev[c].pend, Numbers)
    BY WaitingType
  <2>2. CASE queue # <<>>
    BY <1>2, <2>0, <2>1, <2>2
  <2>3. CASE queue = <<>>
    <3>1. /\ Collected(readers) \in Seq(Pairs) /\ Len(Collected(readers)) <= cap
          /\ c \in ToSet(ex) \ bad /\ dev[c].pend # <<>> =>
               /\ KeysIn(Collected(readers), c) \o Kept(Tail(dev[c].pend), Numbers) = Kept(dev[c].pend, Numbers)
               /\ Tail(dev[c].pend) \in Seq(Reports)
          /\ ~(c \in ToSet(ex) \ bad /\ dev[c].pend # <<>>) => KeysIn(Collected(readers), c) = <<>>
      BY CollectedKeys
    <3>2. got = Collected(readers)
      BY <2>3
    <3> DEFINE q == <<>>
               k == Kept(dev[c].pend, Numbers)
    <3>3. q \in Seq(Pairs) /\ 1 .. Len(q) = {} /\ queue = q
      BY <2>3
    <3> HIDE DEF q, k
    <3>4. KeysIn(q, c) = <<>>
      BY <3>3, KeysInNone
    <3>5. owed[c] = k /\ k \in Seq(Numbers) /\ <<>> \o k = k
      <4>1. k \in Seq(Numbers)
        BY <2>1 DEF k
      <4>2. <<>> \o k = k
        BY <4>1, ConcatEmptySeq
      <4> QED
        BY <2>1, <3>3, <3>4, <4>1, <4>2 DEF k
    <3> HIDE DEF readers
    <3>6. pend(c) \in Seq(Reports)
      BY <1>2, <2>3, <3>1
    <3>7. Kept(pend(c), Numbers) \in Seq(Numbers)
      <4> HIDE DEF pend
      <4>1. Kept(pend(c), Numbers) \in Seq(Reports \cap Numbers) /\ Reports \cap Numbers = Numbers
        BY <3>6, KeptType DEF Reports
      <4> QED
        BY <4>1
    <3>8. KeysIn(Collected(readers), c) \o Kept(pend(c), Numbers) = k
      <4>1. CASE taken(c)
        BY <2>3, <3>1, <4>1 DEF k
      <4>2. CASE ~taken(c)
        BY <2>3, <3>1, <3>5, <4>2 DEF k
      <4> QED
        BY <4>1, <4>2
    <3> QED
      BY <2>0, <3>1, <3>2, <3>5, <3>6, <3>7, <3>8
  <2> QED
    BY <2>2, <2>3
<1> HIDE DEF got, F, pend
<1>5. ASSUME NEW c \in Devs
      PROVE  dev'[c].pend \in Seq(Reports) /\ Waiting(c)' = KeysIn(queue', c) \o F[c]
  <2>1. dev'[c].pend = pend(c) /\ pend(c) \in Seq(Reports) /\ F[c] = Kept(pend(c), Numbers)
    BY <1>3, <1>4
  <2>2. Waiting(c)' = KeysIn(queue', c) \o Kept(dev'[c].pend, Numbers)
    BY DEF Waiting, KeysIn, FullKeys
  <2> QED
    BY <2>1, <2>2
<1>6. CASE got = <<>>
  <2>1. UNCHANGED <<queue, owed>>
    BY <1>1, <1>6
  <2>2. ASSUME NEW c \in Devs PROVE owed'[c] = Waiting(c)'
    <3>1. queue = <<>>
      BY <1>6 DEF got
    <3>2. owed[c] = KeysIn(queue, c) \o F[c]
      BY <1>4, <1>6, <3>1
    <3> QED
      BY <1>5, <2>1, <3>2
  <2> QED
    BY <1>1, <1>2, <1>5, <2>1, <2>2 DEF Counted
<1>7. CASE got # <<>> /\ Devs # {}
  <2> DEFINE q == SubSeq(got, 1 + 1, Len(got))
  <2>1. got \in Seq(Pairs) /\ Len(got) <= cap
    BY <1>4, <1>7
  <2>2. 1 \in 1 .. Len(got) /\ Head(got) = got[1] /\ Len(got) \in Nat
    BY <1>7, <2>1, EmptySeq
  <2>3. queue' = q /\ owed' = Returned(got[1])
    BY <1>1, <1>7, <2>2 DEF Dequeued
  <2> HIDE DEF q
  <2>4. ASSUME NEW c \in Devs
        PROVE  q \in Seq(Pairs) /\ Len(q) <= Len(got) /\ Returned(got[1])[c] = KeysIn(q, c) \o F[c]
    <3>1. \A i \in 1 .. 1 - 1 : got[i][2] = Partial
      OBVIOUS
    <3>2. owed[c] = KeysIn(got, c) \o F[c] /\ F[c] \in Seq(Numbers)
      BY <1>4
    <3> QED
      BY <1>2, <2>1, <2>2, <3>1, <3>2, Handing DEF q
  <2>5. q \in Seq(Pairs) /\ Len(q) <= cap
    <3>1. q \in Seq(Pairs) /\ Len(q) <= Len(got)
      BY <1>7, <2>4
    <3>2. Len(q) \in Nat
      BY <3>1
    <3> QED
      BY <1>2, <2>1, <2>2, <3>1, <3>2
  <2>6. \A c \in Devs : owed'[c] = Waiting(c)' /\ owed'[c] \in Seq(Numbers)
    <3> TAKE c \in Devs
    <3>1. owed'[c] = KeysIn(q, c) \o F[c] /\ Waiting(c)' = KeysIn(q, c) \o F[c]
      BY <1>5, <2>3, <2>4
    <3>2. KeysIn(q, c) \in Seq(Numbers) /\ F[c] \in Seq(Numbers)
      BY <1>4, <2>5, KeptPairs
    <3> DEFINE x == KeysIn(q, c)
               y == F[c]
    <3> HIDE DEF x, y
    <3>3. x \o y \in Seq(Numbers)
      <4>1. x \in Seq(Numbers) /\ y \in Seq(Numbers)
        BY <3>2 DEF x, y
      <4> QED
        BY <4>1
    <3> QED
      BY <3>1, <3>3 DEF x, y
  <2>7. owed' \in [Devs -> Seq(Numbers)]
    <3>1. DOMAIN owed' = Devs /\ owed' = [c \in Devs |-> owed'[c]]
      <4> DEFINE p == got[1]
      <4> HIDE DEF p
      <4>1. owed' = Returned(p)
        BY <2>3 DEF p
      <4> QED
        BY <1>2, <4>1 DEF Returned
    <3> QED
      BY <2>6, <3>1
  <2> QED
    BY <1>1, <1>5, <2>3, <2>5, <2>6, <2>7 DEF Counted
<1>8. CASE Devs = {}
  <2>1. \A s \in Seq(Pairs) : s = <<>>
    <3>1. Pairs = {}
      BY <1>8 DEF Pairs
    <3>2. \A s \in Seq({}) : s = <<>>
      <4> TAKE s \in Seq({})
      <4>1. Len(s) = 0
        OBVIOUS
      <4> QED
        BY <4>1, EmptySeq
    <3> QED
      BY <3>1, <3>2
  <2>2. queue = <<>>
    BY <1>2, <2>1
  <2>3. got = <<>>
    <3>1. ex \in Seq({}) /\ readers \in Seq({})
      <4>1. ex \in Seq({})
        BY <1>8 DEF IInv, Lists
      <4> QED
        BY <4>1, KeptType
    <3>2. Len(readers) = 0 /\ DOMAIN readers = {}
      <4> HIDE DEF readers
      <4> QED
        BY <3>1
    <3> DEFINE pairs == [i \in DOMAIN readers |-> <<readers[i], Head(dev[readers[i]].pend)>>]
    <3>3. pairs = <<>>
      <4> HIDE DEF readers
      <4> QED
        BY <3>2
    <3>4. Collected(readers) = <<>>
      <4> HIDE DEF readers
      <4>1. Collected(readers) = Kept(pairs, Devs \X IF exported THEN Reports ELSE Numbers)
        BY DEF Collected
      <4> QED
        BY <3>3, <4>1, KeptEmpty
    <3> QED
      BY <2>2, <3>4 DEF got
  <2> QED
    BY <1>6, <2>3
<1> QED
  BY <1>6, <1>7, <1>8

(* No step loses a key.                                                    *)
LEMMA CountedNext == IInv /\ Counted /\ [Next]_vars => Counted'
<1> SUFFICES ASSUME IInv, Counted, [Next]_vars PROVE Counted'
  OBVIOUS
<1>0. /\ Len(queue) <= cap /\ Keyboards(dev) /\ cap \in Nat /\ Len(queue) \in Nat
  BY DEF IInv, Lists, Shaped, Counted
<1>1. ASSUME NEW d \in Devs, Press(d) PROVE Counted'
  BY <1>1, PressCounts
<1>2. ASSUME NEW d \in Devs, NEW t \in Locks, Toggle(d, t) PROVE Counted'
  BY <1>2, ToggleCounts
<1>3. ASSUME NEW d \in Devs, ToggleStateSyncKeyNotify(d) PROVE Counted'
  <2> DEFINE D == [dev EXCEPT ![d].notes = Tail(@)]
  <2>1. UNCHANGED <<queue, owed, cap>>
    BY <1>3 DEF ToggleStateSyncKeyNotify
  <2>2. dev' = D \/ \E t, bad : dev' = SetStateOfAll(D, ex, t, bad)
    BY <1>3, Zenon DEF ToggleStateSyncKeyNotify
  <2>3. Keyboards(D) /\ \A c \in Devs : D[c].pend = dev[c].pend
    BY <1>0 DEF Keyboards, Fields
  <2> HIDE DEF D
  <2>4. \A c \in Devs : dev'[c].pend = dev[c].pend
    BY <2>2, <2>3, SetStatePend
  <2> QED
    BY <1>0, <2>1, <2>4, CountKept
<1>4. ASSUME NEW d \in Devs, NEW bad, NEW deaf, ConInStart(d, bad, deaf) PROVE Counted'
  <2>1. UNCHANGED <<queue, owed>>
    BY <1>4 DEF ConInStart
  <2>2. CASE d \in ExDevs
    <3> DEFINE D == [dev EXCEPT ![d].reg = Registered(d, bad)]
    <3>1. /\ cap' = (IF Len(ex) < cap THEN cap ELSE cap + Unit)
          /\ dev' = D \/ dev' = Synced(D, d, deaf)
      BY <1>4, <2>2 DEF ConInStart, TextInExAddDevice
    <3>2. Keyboards(D) /\ \A c \in Devs : D[c].pend = dev[c].pend
      BY <1>0 DEF Keyboards, Fields
    <3> HIDE DEF D
    <3>3. \A c \in Devs : dev'[c].pend = dev[c].pend
      BY <3>1, <3>2 DEF Synced, SetStateOf, Keyboards, Fields
    <3>4. Len(queue) <= cap'
      BY <1>0, <3>1, ConInAssumption
    <3> QED
      BY <2>1, <3>3, <3>4, CountKept
  <2>3. CASE d \notin ExDevs
    <3>1. UNCHANGED <<cap, dev>>
      BY <1>4, <2>3 DEF ConInStart
    <3> QED
      BY <1>0, <2>1, <3>1, CountKept
  <2> QED
    BY <2>2, <2>3
<1>5. ASSUME NEW d \in Devs, ConInStop(d) PROVE Counted'
  BY <1>5, StopCounts
<1>6. ASSUME NEW bad, NEW deaf, TextInReset(bad, deaf) \/ Reset(ex, bad, deaf) PROVE Counted'
  BY <1>6, ResetCounts DEF TextInReset
<1>7. ASSUME NEW bad, ReadKeyStroke(bad) PROVE Counted'
  BY <1>7, ReadCounts
<1>8. ASSUME NEW bad, ReadKeyStrokeEx(bad) PROVE Counted'
  BY <1>8, ReadExCounts
<1>9. ASSUME NEW state, NEW expose, NEW bad, SetState(state, expose, bad) PROVE Counted'
  <2>1. UNCHANGED <<queue, owed, cap>> /\ \E took : dev' = SetStateOfAll(dev, took, state, bad)
    BY <1>9 DEF SetState
  <2>2. \A c \in Devs : dev'[c].pend = dev[c].pend
    BY <1>0, <2>1, SetStatePend
  <2> QED
    BY <1>0, <2>1, <2>2, CountKept
<1>10. ASSUME NEW bad, NEW n \in Callers, RegisterKeyNotify(n, bad) PROVE Counted'
  <2>1. /\ UNCHANGED <<queue, owed, cap>>
        /\ dev' = [d \in Devs |-> [dev[d] EXCEPT !.reg = RegisteredOnAll(n, bad)[d]]]
    BY <1>10 DEF RegisterKeyNotify, history
  <2>2. \A c \in Devs : dev'[c].pend = dev[c].pend
    BY <1>0, <2>1 DEF Keyboards, Fields
  <2> QED
    BY <1>0, <2>1, <2>2, CountKept
<1>11. CASE WaitForKey
  <2>1. UNCHANGED <<queue, owed, cap, dev>>
    BY <1>11 DEF WaitForKey, history
  <2> QED
    BY <1>0, <2>1, CountKept
<1>12. ASSUME NEW n \in Callers, UnregisterKeyNotify(n) PROVE Counted'
  <2>1. /\ UNCHANGED <<queue, owed, cap>>
        /\ dev' = [d \in Devs |-> IF \E i \in 1 .. Len(ex) : ex[i] = d /\ handles[n][i] = d
                                  THEN [dev[d] EXCEPT !.reg = @ \ {n}] ELSE dev[d]]
    BY <1>12 DEF UnregisterKeyNotify, history
  <2>2. \A c \in Devs : dev'[c].pend = dev[c].pend
    BY <1>0, <2>1 DEF Keyboards, Fields
  <2> QED
    BY <1>0, <2>1, <2>2, CountKept
<1>13. CASE UNCHANGED vars
  <2>1. UNCHANGED <<queue, owed, cap, dev>>
    BY <1>13 DEF vars, splitter, history
  <2> QED
    BY <1>0, <2>1, CountKept
<1> QED
  BY <1>1, <1>2, <1>3, <1>4, <1>5, <1>6, <1>7, <1>8, <1>9, <1>10, <1>11, <1>12, <1>13 DEF Next

(* Whatever keyboards come, go or fail, and whichever way callers read,    *)
(* the full keys of each keyboard are handed out once, in the order they   *)
(* were pressed, and none is lost but by a reset; and the queue does not   *)
(* outgrow its memory (ConSplitterTextInReadKeyStrokeEx,                   *)
(* ConSplitterTextInPrivateReadKeyStroke).                                 *)
THEOREM NoKeyIsLost == Spec => []KeysAccounted
<1>1. Spec => []Counted
  BY InvInit, CountedInit, InvNext, CountedNext, PTL DEF Spec
<1>2. Counted => KeysAccounted
  BY DEF Counted, KeysAccounted
<1> QED
  BY <1>1, <1>2, PTL

(* Every keyboard of the list has all notifications registered, whatever   *)
(* registrations and additions failed on the way, and before the first     *)
(* removal no others (ConSplitterTextInRegisterKeyNotify,                  *)
(* ConSplitterTextInExAddDevice).                                          *)
THEOREM ToldEverywhere == Spec => []NotifyEverywhere
<1>1. IInv => NotifyEverywhere
  <2>1. Lists => ToSet(ex) \subseteq Devs
    BY DEF Lists, ToSet
  <2> QED
    BY <2>1 DEF IInv, Told, NotifyEverywhere
<1> QED
  BY <1>1, Always, PTL

(* A keyboard of which nothing is left to be heard agrees with all others   *)
(* on the locks, unless one refused them (ToggleStateSyncKeyNotify).        *)
THEOREM LocksAgree == Spec => []TogglesAgree
<1>1. IInv => TogglesAgree
  BY DEF IInv, InStep, TogglesAgree
<1> QED
  BY <1>1, Always, PTL

(* Before the first removal, a signal stands for a key that can be read    *)
(* (ConSplitterTextInWaitForKey).                                          *)
THEOREM SignalMeansKey == Spec => []SignalHonest
<1>1. IInv => SignalHonest
  BY FullIsFound DEF IInv, Signalled, SignalHonest
<1> QED
  BY <1>1, Always, PTL
=============================================================================
