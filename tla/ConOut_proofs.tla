--------------------------- MODULE ConOut_proofs ---------------------------
(***************************************************************************)
(* That the mode tables of the virtual consoles are right, for any          *)
(* consoles, modes and failures: each shared mode names for every console a *)
(* mode of the size it is offered with, ConOut and StdErr offer the same    *)
(* while the first console is on both, and a console that was added is in   *)
(* step with the others.                                                   *)
(*                                                                         *)
(* The tables are arrays, so that what a cell holds after a step rests on   *)
(* the arithmetic of rows and columns; what a sequence of steps over a list *)
(* leaves is proved by induction over its length, for a set of numbers.     *)
(***************************************************************************)
EXTENDS ConOut, FiniteSetTheorems, SequenceTheorems, WellFoundedInduction, TLAPS

(* The order of the natural numbers.                                       *)
Below == {ss \in Nat \X Nat : ss[1] < ss[2]}

(* A set of numbers has a least one, which is what Min says.               *)
LEMMA MinIsLeast ==
  ASSUME NEW S \in SUBSET Nat, S # {}
  PROVE  Min(S) \in S /\ \A y \in S : Min(S) <= y
<1>1. IsWellFoundedOn(OpToRel(<, Nat), Nat)
  BY NatLessThanWellFounded
<1>2. PICK x \in S : \A y \in S : <<y, x>> \notin OpToRel(<, Nat)
  BY <1>1, WFMin
<1>3. \A y \in S : ~(y < x)
  BY <1>2 DEF OpToRel
<1>4. \A y \in S : x <= y
  BY <1>3
<1> QED
  BY <1>4 DEF Min

(* Induction over the natural numbers, for a set of them.                  *)
LEMMA Induction ==
  ASSUME NEW S \in SUBSET Nat, 0 \in S, \A n \in S : n + 1 \in S
  PROVE  S = Nat
<1>1. SUFFICES ASSUME Nat \ S # {} PROVE FALSE
  OBVIOUS
<1> DEFINE n == Min(Nat \ S)
<1>2. n \in Nat \ S /\ \A y \in Nat \ S : n <= y
  BY <1>1, MinIsLeast
<1> HIDE DEF n
<1>3. n # 0 /\ n - 1 \in Nat /\ n - 1 \in S
  BY <1>2
<1>4. (n - 1) + 1 \in S
  BY <1>3
<1> QED
  BY <1>2, <1>4

(* A set of numbers with a bound has a greatest one, which is what Max     *)
(* says.                                                                   *)
LEMMA MaxIsGreatest ==
  ASSUME NEW S \in SUBSET Int, S # {}, NEW b \in Int, \A x \in S : x <= b
  PROVE  Max(S) \in S /\ \A y \in S : y <= Max(S)
<1> DEFINE D == {n \in Nat : b - n \in S}
<1>1. D \in SUBSET Nat /\ D # {}
  <2>1. PICK x \in S : TRUE
    OBVIOUS
  <2>2. b - x \in D
    BY <2>1
  <2> QED
    BY <2>2
<1>2. Min(D) \in D /\ \A y \in D : Min(D) <= y
  BY <1>1, MinIsLeast
<1> DEFINE x == b - Min(D)
<1>3. x \in S
  BY <1>2
<1>4. ASSUME NEW y \in S PROVE y <= x
  <2>1. b - y \in D
    OBVIOUS
  <2>2. Min(D) <= b - y /\ Min(D) \in Int
    BY <1>2, <2>1
  <2> QED
    BY <2>2
<1> QED
  BY <1>3, <1>4 DEF Max

LEMMA MaxOfTwo ==
  ASSUME NEW a \in Int, NEW b \in Int
  PROVE  Max({a, b}) \in Int /\ Max({a, b}) >= a /\ Max({a, b}) >= b
<1> DEFINE S == {a, b}
           c == IF a <= b THEN b ELSE a
<1>1. S \in SUBSET Int /\ S # {} /\ c \in Int /\ \A x \in S : x <= c
  OBVIOUS
<1>2. a \in S /\ b \in S
  OBVIOUS
<1> HIDE DEF S, c
<1>3. Max(S) \in S /\ \A y \in S : y <= Max(S)
  BY <1>1, MaxIsGreatest
<1> QED
  BY <1>1, <1>2, <1>3 DEF S

(* What is left of a list.                                                 *)
LEMMA Removal ==
  ASSUME NEW S, NEW s \in Seq(S), NEW e
  PROVE  RemoveFirst(s, e) \in Seq(S) /\ Len(RemoveFirst(s, e)) <= Len(s)
<1> DEFINE I == {i \in 1 .. Len(s) : s[i] = e}
<1>1. CASE I = {}
  BY <1>1 DEF RemoveFirst
<1>2. CASE I # {}
  <2> DEFINE m == Min(I)
  <2>0. I \in SUBSET Nat
    OBVIOUS
  <2>1. m \in 1 .. Len(s)
    BY <1>2, <2>0, MinIsLeast
  <2> HIDE DEF m
  <2>2. RemoveFirst(s, e) = SubSeq(s, 1, m - 1) \o SubSeq(s, m + 1, Len(s))
    BY <1>2 DEF RemoveFirst, RemoveAt, SelectInSeq, m
  <2> DEFINE front == SubSeq(s, 1, m - 1)
           back == SubSeq(s, m + 1, Len(s))
  <2>3. front \in Seq(S) /\ Len(front) = m - 1
    BY <2>1
  <2>4. back \in Seq(S) /\ Len(back) = Len(s) - m
    BY <2>1
  <2>5. RemoveFirst(s, e) = front \o back
    BY <2>2
  <2> HIDE DEF front, back
  <2>6. front \o back \in Seq(S) /\ Len(front \o back) = Len(front) + Len(back)
    BY <2>3, <2>4
  <2> QED
    BY <2>1, <2>3, <2>4, <2>5, <2>6
<1> QED
  BY <1>1, <1>2

(* The number of numbers below one.                                        *)
LEMMA Counted == ASSUME NEW n \in Nat PROVE Cardinality(0 .. n - 1) = n
  BY FS_Interval

(* Row and column of a cell, in a table of N rows.                         *)
IsAt(i, r, c, cap, N) == i \in 0 .. cap * N - 1 /\ i \div cap = r /\ i % cap = c

LEMMA CellOf ==
  ASSUME NEW cap \in Nat, cap > 0, NEW N \in Nat, NEW r \in 0 .. N - 1, NEW c \in 0 .. cap - 1
  PROVE  IsAt(r * cap + c, r, c, cap, N)
<1>1. r * cap + c \in 0 .. cap * N - 1
  OBVIOUS
<1>2. (r * cap + c) \div cap = r
  OBVIOUS
<1>3. (r * cap + c) % cap = c
  OBVIOUS
<1> QED
  BY <1>1, <1>2, <1>3 DEF IsAt

(* Rounding up to whole units.                                             *)
LEMMA UnitFits == Unit \in Nat /\ Unit >= 2
BY Zenon, DeviceAssumption

LEMMA UnitsFit ==
  ASSUME NEW n \in Nat
  PROVE  Units(n) \in Nat /\ Units(n) >= n
<1>0. Unit \in Nat /\ Unit >= 2
  BY UnitFits
<1> DEFINE q == (n + Unit - 1) \div Unit
           k == (n + Unit - 1) % Unit
<1>1. q \in Nat /\ k \in 0 .. Unit - 1 /\ (n + Unit - 1) = Unit * q + k
  BY <1>0
<1> HIDE DEF q, k
<1>2. Units(n) = q * Unit
  BY DEF Units, q
<1>3. q * Unit \in Nat
  BY <1>0, <1>1
<1>4. q * Unit = (n + Unit - 1) - k
  BY <1>0, <1>1
<1> QED
  BY <1>0, <1>1, <1>2, <1>3, <1>4

LEMMA RoomFor ==
  ASSUME NEW n \in Nat, n > 0, NEW k \in Nat
  PROVE  LET N == Units(Max({n, k})) IN N \in Nat /\ N >= n /\ N > 0
<1> DEFINE m == Max({n, k})
<1>1. m \in Int /\ m >= n
  BY MaxOfTwo
<1> HIDE DEF m
<1>2. m \in Nat
  BY <1>1
<1>3. Units(m) \in Nat /\ Units(m) >= m
  BY <1>2, UnitsFit
<1>4. Units(m) >= n /\ Units(m) > 0
  BY <1>1, <1>2, <1>3
<1> QED
  BY <1>3, <1>4 DEF m
-----------------------------------------------------------------------------
(* The rows that stay: what RowsKept has collected of the first r.         *)
Collects(upTo, gone, n) ==
  /\ upTo[0] = <<>>
  /\ \A r \in 1 .. n : upTo[r] = IF r - 1 \in gone THEN upTo[r - 1] ELSE Append(upTo[r - 1], r - 1)
  /\ RowsKept(gone, n) = upTo[n]

LEMMA RowsCollected ==
  ASSUME NEW gone, NEW n \in Nat
  PROVE  \E upTo : Collects(upTo, gone, n)
<1> DEFINE Step(k, r) == IF r - 1 \in gone THEN k ELSE Append(k, r - 1)
           upTo == CHOOSE f : f = [r \in 0 .. n |-> IF r = 0 THEN <<>> ELSE
                                     IF r - 1 \in gone THEN f[r - 1] ELSE Append(f[r - 1], r - 1)]
           P(m) == \E f : f = [r \in 0 .. m |-> IF r = 0 THEN <<>> ELSE Step(f[r - 1], r)]
<1>1. RowsKept(gone, n) = upTo[n]
  BY DEF RowsKept
<1>a. \A f : [r \in 0 .. n |-> IF r = 0 THEN <<>> ELSE Step(f[r - 1], r)]
           = [r \in 0 .. n |-> IF r = 0 THEN <<>> ELSE
                                 IF r - 1 \in gone THEN f[r - 1] ELSE Append(f[r - 1], r - 1)]
  OBVIOUS
<1>b. \A k, r : Step(k, r) = IF r - 1 \in gone THEN k ELSE Append(k, r - 1)
  OBVIOUS
<1> HIDE DEF Step
<1>2. P(0)
  <2> DEFINE f == [r \in 0 .. 0 |-> <<>>]
  <2>1. f = [r \in 0 .. 0 |-> IF r = 0 THEN <<>> ELSE Step(f[r - 1], r)]
    OBVIOUS
  <2> QED
    BY <2>1
<1>3. ASSUME NEW m \in Nat, P(m) PROVE P(m + 1)
  <2>1. PICK f : f = [r \in 0 .. m |-> IF r = 0 THEN <<>> ELSE Step(f[r - 1], r)]
    BY <1>3
  <2> DEFINE h == [r \in 0 .. m + 1 |-> IF r = m + 1 THEN Step(f[m], m + 1) ELSE f[r]]
  <2>2. /\ h[m + 1] = Step(f[m], m + 1) /\ DOMAIN h = 0 .. m + 1
        /\ \A r \in 0 .. m : h[r] = f[r]
    OBVIOUS
  <2>3. h = [r \in DOMAIN h |-> h[r]]
    OBVIOUS
  <2> HIDE DEF h
  <2>4. ASSUME NEW r \in 0 .. m + 1
        PROVE  h[r] = IF r = 0 THEN <<>> ELSE Step(h[r - 1], r)
    <3>1. CASE r = 0
      BY <2>1, <2>2, <3>1
    <3>2. CASE r = m + 1
      <4>1. r # 0 /\ r - 1 = m /\ m \in 0 .. m
        BY <3>2
      <4> QED
        BY <2>2, <3>2, <4>1
    <3>3. CASE r # 0 /\ r # m + 1
      <4>1. r \in 0 .. m /\ r - 1 \in 0 .. m
        BY <3>3
      <4>2. f[r] = Step(f[r - 1], r)
        BY <2>1, <3>3, <4>1
      <4> QED
        BY <2>2, <3>3, <4>1, <4>2
    <3> QED
      BY <3>1, <3>2, <3>3
  <2>5. h = [r \in 0 .. m + 1 |-> IF r = 0 THEN <<>> ELSE Step(h[r - 1], r)]
    BY <2>2, <2>3, <2>4
  <2> QED
    BY <2>5
<1> HIDE DEF P
<1> DEFINE S == {m \in Nat : P(m)}
<1>4. S \in SUBSET Nat /\ 0 \in S /\ \A m \in S : m + 1 \in S
  BY <1>2, <1>3
<1> HIDE DEF S
<1>5. n \in S
  BY <1>4, Induction
<1>6. P(n)
  BY <1>5 DEF S
<1>7. \E f : f = [r \in 0 .. n |-> IF r = 0 THEN <<>> ELSE
                                     IF r - 1 \in gone THEN f[r - 1] ELSE Append(f[r - 1], r - 1)]
  <2>1. PICK f : f = [r \in 0 .. n |-> IF r = 0 THEN <<>> ELSE Step(f[r - 1], r)]
    BY <1>6 DEF P
  <2>2. f = [r \in 0 .. n |-> IF r = 0 THEN <<>> ELSE
                               IF r - 1 \in gone THEN f[r - 1] ELSE Append(f[r - 1], r - 1)]
    BY <2>1, <1>a
  <2> QED
    BY <2>2
<1>8. upTo = [r \in 0 .. n |-> IF r = 0 THEN <<>> ELSE Step(upTo[r - 1], r)]
  BY <1>7, <1>a
<1> HIDE DEF upTo
<1>9. upTo[0] = <<>> /\ \A r \in 1 .. n : upTo[r] = Step(upTo[r - 1], r)
  BY <1>8
<1>10. Collects(upTo, gone, n)
  BY <1>1, <1>9, <1>b DEF Collects
<1> QED
  BY <1>10

(* They are those that are not gone, rows 0 and 1 in their places, and     *)
(* with the others they are all.                                           *)
Gone(gone, n) == {r \in gone : r < n}

StaysAt(r, i, gone, n) ==
  /\ r \notin gone /\ r >= 0 /\ r < n
  /\ i <= 2 => r = i - 1
  /\ i > 2 => r >= 2

Stay(k, gone, n) ==
  /\ k \in Seq(0 .. n - 1)
  /\ n >= 2 => Len(k) >= 2
  /\ \A i \in 1 .. Len(k) : StaysAt(k[i], i, gone, n)
  /\ \A r \in 0 .. n - 1 : r \notin gone => \E i \in 1 .. Len(k) : k[i] = r
  /\ Len(k) + Cardinality(Gone(gone, n)) = n

LEMMA RowsStay ==
  ASSUME NEW n \in Nat, NEW gone \in SUBSET (2 .. n - 1)
  PROVE  Stay(RowsKept(gone, n), gone, n)
<1>1. PICK upTo : Collects(upTo, gone, n)
  BY RowsCollected
<1>0. \A r \in gone : r \in Int /\ r >= 2 /\ r < n
  OBVIOUS
<1>a. \A m \in Nat : \A r : r \in Gone(gone, m) => r \in gone /\ r \in Int /\ r >= 2 /\ r < m
  BY <1>0 DEF Gone
<1>b. \A m \in Nat : \A r \in gone : r < m => r \in Gone(gone, m)
  BY DEF Gone
<1> DEFINE Q == {m \in Nat : m <= n => Stay(upTo[m], gone, m)}
<1>2. Q \in SUBSET Nat /\ 0 \in Q
  <2>1. upTo[0] = <<>>
    BY <1>1 DEF Collects
  <2>2. Gone(gone, 0) = {}
    <3>1. \A r : r \notin Gone(gone, 0)
      BY <1>0, <1>a, <1>b
    <3> QED
      BY <3>1
  <2>3. Stay(<<>>, gone, 0)
    BY <2>2, FS_EmptySet DEF Stay
  <2> QED
    BY <2>1, <2>3
<1>3. ASSUME NEW m \in Q PROVE m + 1 \in Q
  <2>1. SUFFICES ASSUME m + 1 <= n PROVE Stay(upTo[m + 1], gone, m + 1)
    BY <1>3
  <2>2. m \in Nat /\ m + 1 \in 1 .. n /\ Stay(upTo[m], gone, m)
    BY <1>3, <2>1
  <2> DEFINE k == upTo[m]
             G == Gone(gone, m)
             H == Gone(gone, m + 1)
  <2>3. upTo[m + 1] = IF m \in gone THEN k ELSE Append(k, m)
    <3>1. (m + 1) - 1 = m
      BY <2>2
    <3> QED
      BY <1>1, <2>2, <3>1 DEF Collects
  <2>4. Stay(k, gone, m)
    BY <2>2
  <2>5. IsFiniteSet(G) /\ Cardinality(G) \in Nat
    <3>1. \A r \in G : r \in 0 .. m - 1
      BY <1>0, <1>a, <1>b, <2>2
    <3>2. IsFiniteSet(0 .. m - 1)
      BY <2>2, FS_Interval
    <3>3. G \subseteq 0 .. m - 1
      BY <3>1
    <3> QED
      BY <3>2, <3>3, FS_Subset, FS_CardinalityType
  <2> HIDE DEF k
  <2>6. CASE m \in gone
    <3>a. m \notin G /\ \A r : r \in H <=> r \in G \/ r = m
      BY <1>0, <1>a, <1>b, <2>2, <2>6
    <3>1. H = G \cup {m} /\ m \notin G
      BY <3>a
    <3> HIDE DEF G, H
    <3>2. Cardinality(H) = Cardinality(G) + 1
      BY <2>5, <3>1, FS_AddElement
    <3>3. m >= 2
      BY <2>6
    <3>4. k \in Seq(0 .. m) /\ Len(k) \in Nat
      BY <2>2, <2>4 DEF Stay
    <3>5. \A r \in 0 .. (m + 1) - 1 : r \notin gone => r \in 0 .. m - 1
      BY <2>2, <2>6
    <3>6. Len(k) + Cardinality(H) = m + 1
      BY <2>2, <2>4, <2>5, <3>2, <3>4 DEF Stay, G
    <3>7. ASSUME NEW i \in 1 .. Len(k) PROVE StaysAt(k[i], i, gone, m + 1)
      <4>1. StaysAt(k[i], i, gone, m)
        BY <2>4 DEF Stay
      <4>2. k[i] \in Int
        BY <3>4
      <4> QED
        BY <2>2, <4>1, <4>2 DEF StaysAt
    <3>8. Len(k) >= 2
      BY <2>4, <3>3 DEF Stay
    <3>9. (m + 1) - 1 = m
      BY <2>2
    <3>10. \A r \in 0 .. (m + 1) - 1 : r \notin gone => \E i \in 1 .. Len(k) : k[i] = r
      BY <2>4, <3>5 DEF Stay
    <3>11. Stay(k, gone, m + 1)
      BY <3>4, <3>6, <3>7, <3>8, <3>9, <3>10 DEF Stay, H
    <3> QED
      BY <2>3, <2>6, <3>11
  <2>7. CASE m \notin gone
    <3>a. \A r : r \in H <=> r \in G
      BY <1>0, <1>a, <1>b, <2>2, <2>7
    <3>1. H = G
      BY <3>a
    <3> DEFINE j == Append(k, m)
    <3>2. k \in Seq(0 .. m) /\ Len(k) \in Nat
      BY <2>2, <2>4 DEF Stay
    <3>3. /\ j \in Seq(0 .. m) /\ Len(j) = Len(k) + 1 /\ j[Len(k) + 1] = m
          /\ \A i \in 1 .. Len(k) : j[i] = k[i]
      BY <2>2, <3>2
    <3> HIDE DEF j
    <3>4. Len(k) <= m /\ (m < 2 => Len(k) = m) /\ (m >= 2 => Len(k) >= 2)
      <4>1. Len(k) + Cardinality(G) = m
        BY <2>4 DEF Stay
      <4>2. m < 2 => G = {}
        <5>1. m < 2 => \A r : r \notin G
          BY <1>0, <1>a, <1>b, <2>2
        <5> QED
          BY <5>1
      <4>3. m < 2 => Cardinality(G) = 0
        BY <4>2, FS_EmptySet
      <4> QED
        BY <2>2, <2>4, <2>5, <3>2, <4>1, <4>3 DEF Stay
    <3>5. ASSUME NEW i \in 1 .. Len(j) PROVE StaysAt(j[i], i, gone, m + 1)
      <4>1. CASE i \in 1 .. Len(k)
        <5>1. StaysAt(k[i], i, gone, m)
          BY <2>4, <4>1 DEF Stay
        <5>2. k[i] \in Int /\ j[i] = k[i]
          BY <3>2, <3>3, <4>1
        <5> QED
          BY <2>2, <5>1, <5>2 DEF StaysAt
      <4>2. CASE i = Len(k) + 1
        <5>1. i \in Int /\ j[i] = m
          BY <3>2, <3>3, <4>2
        <5> QED
          BY <2>2, <2>7, <3>2, <3>4, <4>2, <5>1 DEF StaysAt
      <4> QED
        BY <3>2, <3>3, <4>1, <4>2
    <3>6. ASSUME NEW r \in 0 .. m, r \notin gone PROVE \E i \in 1 .. Len(j) : j[i] = r
      <4>1. CASE r = m
        <5>1. Len(k) + 1 \in 1 .. Len(j)
          BY <3>2, <3>3
        <5> QED
          BY <3>3, <4>1, <5>1
      <4>2. CASE r # m
        <5>1. PICK i \in 1 .. Len(k) : k[i] = r
          BY <2>2, <2>4, <3>6, <4>2 DEF Stay
        <5>2. i \in 1 .. Len(j) /\ j[i] = r
          BY <3>2, <3>3, <5>1
        <5> QED
          BY <5>2
      <4> QED
        BY <4>1, <4>2
    <3>7. Len(j) + Cardinality(H) = m + 1
      BY <2>2, <2>4, <2>5, <3>1, <3>2, <3>3 DEF Stay, G
    <3>8. (m + 1) - 1 = m
      BY <2>2
    <3>9. m + 1 >= 2 => Len(j) >= 2
      BY <2>2, <3>2, <3>3, <3>4
    <3>10. \A r \in 0 .. (m + 1) - 1 : r \notin gone => \E i \in 1 .. Len(j) : j[i] = r
      BY <3>6, <3>8
    <3>11. Stay(j, gone, m + 1)
      BY <3>3, <3>5, <3>7, <3>8, <3>9, <3>10 DEF Stay, H
    <3> QED
      BY <2>3, <2>7, <3>11 DEF j
  <2> QED
    BY <2>6, <2>7
<1> HIDE DEF Q
<1>4. n \in Q
  BY <1>2, <1>3, Induction
<1>5. Stay(upTo[n], gone, n)
  BY <1>4 DEF Q
<1> QED
  BY <1>1, <1>5 DEF Collects
-----------------------------------------------------------------------------
(* The tables of a splitter.                                               *)

Fields == {"list", "cap", "map", "query", "maxMode", "mode", "cursor", "attr"}

Slots(S) == Cardinality(DOMAIN S.query)
At(S, r, c) == S.map[Cell(r, c, S)]

Shape(S) ==
  /\ DOMAIN S = Fields
  /\ S.list \in Seq(Devs) /\ Len(S.list) <= S.cap
  /\ S.cap \in Nat /\ S.cap >= Unit
  /\ S.mode \in Int
  /\ Slots(S) \in Nat /\ Slots(S) > 0 /\ DOMAIN S.query = 0 .. Slots(S) - 1

(* A row for the consoles of a list: the mode of the first console, and of *)
(* every console the one of the same size; only for mode 1 there may be    *)
(* none.  Nothing is kept for consoles to come.                            *)
RowOK(S, list, r) ==
  /\ At(S, r, 0) \in 0 .. Slots(S) - 1 /\ At(S, r, 0) < Len(Modes[list[1]])
  /\ r < 2 => At(S, r, 0) = r
  /\ r >= 2 => At(S, r, 0) >= 2
  /\ \A c \in Len(list) .. S.cap - 1 : At(S, r, c) = -1
  /\ \A c \in 0 .. Len(list) - 1 :
       \/ SizeOf(list[c + 1], At(S, r, c)) = SizeAt(S, r)
       \/ r = 1 /\ (SizeAt(S, r) = NoSize \/ SizeOf(list[c + 1], At(S, r, c)) = NoSize)
  /\ r = 1 => SizeAt(S, r) \in {NoSize, Modes[list[1]][2]}

Tables(S) ==
  /\ S.maxMode \in 1 .. Slots(S) /\ S.maxMode <= Unset
  /\ DOMAIN S.map = 0 .. S.cap * Slots(S) - 1
  /\ \A r \in 0 .. S.maxMode - 1 : RowOK(S, S.list, r)

Sound(S) == Shape(S) /\ (S.list # <<>> => Tables(S))

LEMMA ShapeFacts ==
  ASSUME NEW S, Shape(S)
  PROVE  /\ DOMAIN S = Fields /\ S.list \in Seq(Devs) /\ S.mode \in Int
         /\ Len(S.list) \in Nat /\ Len(S.list) <= S.cap
         /\ S.cap \in Nat /\ S.cap > 0 /\ S.cap >= Unit
         /\ Slots(S) \in Nat /\ Slots(S) > 0 /\ DOMAIN S.query = 0 .. Slots(S) - 1
<1>1. /\ DOMAIN S = Fields /\ S.list \in Seq(Devs) /\ S.mode \in Int
      /\ Len(S.list) <= S.cap /\ S.cap \in Nat /\ S.cap >= Unit
      /\ Slots(S) \in Nat /\ Slots(S) > 0 /\ DOMAIN S.query = 0 .. Slots(S) - 1
  BY Zenon DEF Shape
<1>2. S.cap > 0
  BY <1>1, UnitFits
<1>3. Len(S.list) \in Nat
  BY <1>1
<1> QED
  BY <1>1, <1>2, <1>3

LEMMA TableFacts ==
  ASSUME NEW S, Sound(S), S.list # <<>>
  PROVE  /\ Shape(S) /\ Tables(S) /\ Len(S.list) > 0
         /\ S.maxMode \in 1 .. Slots(S) /\ S.maxMode \in Nat /\ S.maxMode <= Unset
         /\ DOMAIN S.map = 0 .. S.cap * Slots(S) - 1
         /\ \A r \in 0 .. S.maxMode - 1 : RowOK(S, S.list, r)
<1>1. Shape(S) /\ Tables(S)
  BY Zenon DEF Sound
<1>2. /\ S.maxMode \in 1 .. Slots(S) /\ S.maxMode <= Unset
      /\ DOMAIN S.map = 0 .. S.cap * Slots(S) - 1
      /\ \A r \in 0 .. S.maxMode - 1 : RowOK(S, S.list, r)
  BY Zenon, <1>1 DEF Tables
<1>3. Slots(S) \in Nat /\ S.list \in Seq(Devs)
  BY <1>1, ShapeFacts
<1>4. S.maxMode \in Nat
  BY <1>2, <1>3
<1>5. Len(S.list) > 0
  BY <1>3
<1> QED
  BY <1>1, <1>2, <1>4, <1>5

(* What calls on the consoles leave alone.                                 *)
SameTables(S, T) ==
  /\ DOMAIN T = DOMAIN S /\ T.list = S.list /\ T.cap = S.cap /\ T.map = S.map
  /\ T.query = S.query /\ T.maxMode = S.maxMode

LEMMA TablesKept ==
  ASSUME NEW S, Sound(S), NEW T, SameTables(S, T), T.mode \in Int
  PROVE  Sound(T) /\ \A r : SizeAt(T, r) = SizeAt(S, r)
<1>1. Slots(T) = Slots(S) /\ \A r, c : At(T, r, c) = At(S, r, c)
  BY DEF Slots, At, Cell, SameTables
<1>2. \A r : SizeAt(T, r) = SizeAt(S, r)
  BY DEF SizeAt, Cell, SameTables
<1>3. Shape(T)
  BY <1>1 DEF Shape, Sound, SameTables
<1>4. ASSUME Tables(S) PROVE Tables(T)
  <2>1. \A r : RowOK(S, S.list, r) => RowOK(T, T.list, r)
    BY <1>1, <1>2 DEF RowOK, SameTables
  <2> QED
    BY <1>1, <1>4, <2>1 DEF Tables, SameTables
<1> QED
  BY <1>2, <1>3, <1>4 DEF Sound, SameTables
-----------------------------------------------------------------------------
(* The rows that leave a table, and those that stay.                       *)
Lost(S, entry) == {r \in 2 .. S.maxMode - 1 : entry[r] = -1}
Left(S, entry) == RowsKept(Lost(S, entry), S.maxMode)

(* A table whose cells can be told apart.                                  *)
Table(S) ==
  /\ DOMAIN S = Fields
  /\ S.cap \in Nat /\ S.cap > 0
  /\ Slots(S) \in Nat /\ S.maxMode \in 1 .. Slots(S)
  /\ DOMAIN S.map = 0 .. S.cap * Slots(S) - 1
  /\ S.mode \in Int

LEMMA CutFields ==
  ASSUME NEW S, DOMAIN S = Fields, NEW entry
  PROVE  LET I == GetIntersection(S, entry)
             k == Left(S, entry)
         IN /\ DOMAIN I = Fields /\ I.list = S.list /\ I.cap = S.cap /\ I.query = S.query
            /\ I.maxMode = Len(k)
            /\ I.map = [i \in DOMAIN S.map |-> IF i \div S.cap < Len(k)
                          THEN S.map[Cell(k[(i \div S.cap) + 1], i % S.cap, S)] ELSE -1]
            /\ I.mode = IF S.mode \in Lost(S, entry) THEN -1
                        ELSE S.mode - Cardinality(Gone(Lost(S, entry), S.mode))
<1> DEFINE k == Left(S, entry)
           gone == Lost(S, entry)
           map == [i \in DOMAIN S.map |-> IF i \div S.cap < Len(k)
                     THEN S.map[Cell(k[(i \div S.cap) + 1], i % S.cap, S)] ELSE -1]
           mode == IF S.mode \in gone THEN -1 ELSE S.mode - Cardinality(Gone(gone, S.mode))
<1>1. GetIntersection(S, entry) = [S EXCEPT !.map = map, !.maxMode = Len(k), !.mode = mode]
  BY DEF GetIntersection, Lost, Left, Gone
<1> HIDE DEF k, gone, map, mode
<1>2. LET I == [S EXCEPT !.map = map, !.maxMode = Len(k), !.mode = mode]
      IN /\ DOMAIN I = Fields /\ I.list = S.list /\ I.cap = S.cap /\ I.query = S.query
         /\ I.maxMode = Len(k) /\ I.map = map /\ I.mode = mode
  BY DEF Fields
<1> QED
  BY <1>1, <1>2 DEF k, gone, map, mode

LEMMA CutFacts ==
  ASSUME NEW S, Table(S), NEW entry
  PROVE  LET I == GetIntersection(S, entry)
             k == Left(S, entry)
         IN /\ Stay(k, Lost(S, entry), S.maxMode)
            /\ Table(I) /\ I.maxMode <= S.maxMode
            /\ S.mode >= S.maxMode => I.mode >= I.maxMode
            /\ \A r \in 0 .. I.maxMode - 1 : k[r + 1] \in 0 .. S.maxMode - 1
            /\ \A r \in 0 .. I.maxMode - 1, c \in 0 .. S.cap - 1 : At(I, r, c) = At(S, k[r + 1], c)
<1> DEFINE I == GetIntersection(S, entry)
           k == Left(S, entry)
           gone == Lost(S, entry)
           n == S.maxMode
<1>0. /\ DOMAIN S = Fields /\ S.cap \in Nat /\ S.cap > 0 /\ S.mode \in Int
      /\ Slots(S) \in Nat /\ n \in 1 .. Slots(S) /\ n \in Nat
      /\ DOMAIN S.map = 0 .. S.cap * Slots(S) - 1
  BY DEF Table
<1>1. gone \in SUBSET (2 .. n - 1)
  BY DEF Lost
<1>2. /\ DOMAIN I = Fields /\ I.list = S.list /\ I.cap = S.cap /\ I.query = S.query
      /\ I.maxMode = Len(k)
      /\ I.map = [i \in DOMAIN S.map |-> IF i \div S.cap < Len(k)
                    THEN S.map[Cell(k[(i \div S.cap) + 1], i % S.cap, S)] ELSE -1]
      /\ I.mode = IF S.mode \in gone THEN -1 ELSE S.mode - Cardinality(Gone(gone, S.mode))
  BY <1>0, CutFields
<1>k. k = RowsKept(gone, n)
  BY DEF Left
<1> HIDE DEF I, k, gone, n
<1>3. Stay(k, gone, n)
  BY <1>0, <1>1, <1>k, RowsStay
<1>4. IsFiniteSet(gone)
  <2>1. IsFiniteSet(2 .. n - 1)
    BY <1>0, FS_Interval
  <2> QED
    BY <1>1, <2>1, FS_Subset
<1>5. ASSUME NEW m \in Int PROVE Cardinality(Gone(gone, m)) \in Nat
  <2>1. Gone(gone, m) \subseteq gone
    BY DEF Gone
  <2> QED
    BY <1>4, <2>1, FS_Subset, FS_CardinalityType
<1>6. Len(k) \in Nat /\ Len(k) <= n /\ Len(k) >= 1
  <2>1. Len(k) \in Nat /\ Len(k) + Cardinality(Gone(gone, n)) = n
    BY <1>3 DEF Stay
  <2>2. 0 \notin gone
    BY <1>1
  <2>3. \E i \in 1 .. Len(k) : k[i] = 0
    BY <1>0, <1>3, <2>2 DEF Stay
  <2>4. Cardinality(Gone(gone, n)) \in Nat
    BY <1>0, <1>5
  <2> QED
    BY <1>0, <2>1, <2>3, <2>4
<1>7. I.mode \in Int
  <2>1. Cardinality(Gone(gone, S.mode)) \in Nat
    BY <1>0, <1>5
  <2> QED
    BY <1>0, <1>2, <2>1
<1>8. ASSUME S.mode >= n PROVE I.mode >= I.maxMode
  <2>0. \A r \in gone : r \in Int /\ r < n
    BY <1>0, <1>1
  <2>1. \A r : r \in Gone(gone, S.mode) <=> r \in gone
    BY <1>0, <1>8, <2>0 DEF Gone
  <2>2. \A r : r \in Gone(gone, n) <=> r \in gone
    BY <1>0, <2>0 DEF Gone
  <2>3. Gone(gone, S.mode) = Gone(gone, n)
    BY <2>1, <2>2
  <2>4. S.mode \notin gone
    BY <1>0, <1>8, <2>0
  <2>5. Len(k) + Cardinality(Gone(gone, n)) = n
    BY <1>3 DEF Stay
  <2>6. Cardinality(Gone(gone, n)) \in Nat
    BY <1>0, <1>5
  <2>7. I.mode = S.mode - Cardinality(Gone(gone, n))
    BY <1>2, <2>3, <2>4
  <2> QED
    BY <1>0, <1>2, <1>6, <1>8, <2>5, <2>6, <2>7
<1>9. Slots(I) = Slots(S) /\ DOMAIN I.map = DOMAIN S.map
  BY <1>2 DEF Slots
<1>10. Table(I) /\ I.maxMode <= n
  BY <1>0, <1>2, <1>6, <1>7, <1>9 DEF Table
<1>11. ASSUME NEW r \in 0 .. I.maxMode - 1 PROVE k[r + 1] \in 0 .. n - 1
  BY <1>0, <1>2, <1>3, <1>6 DEF Stay
<1>12. ASSUME NEW r \in 0 .. I.maxMode - 1, NEW c \in 0 .. S.cap - 1
       PROVE  At(I, r, c) = At(S, k[r + 1], c)
  <2> DEFINE i == r * S.cap + c
  <2>1. r \in 0 .. Slots(S) - 1
    BY <1>0, <1>2, <1>6
  <2>2. IsAt(i, r, c, S.cap, Slots(S))
    BY <1>0, <2>1, CellOf
  <2>3. At(I, r, c) = I.map[i]
    BY <1>2 DEF At, Cell
  <2> HIDE DEF i
  <2>4. r < Len(k)
    BY <1>2, <1>6
  <2>5. I.map[i] = S.map[Cell(k[r + 1], c, S)]
    BY <1>0, <1>2, <2>2, <2>4 DEF IsAt
  <2> QED
    BY <2>3, <2>5 DEF At
<1> QED
  BY <1>3, <1>8, <1>10, <1>11, <1>12 DEF I, k, gone, n

(* A table that is cut is one of the rows that stayed.                     *)
LEMMA CutRows ==
  ASSUME NEW S, Table(S), NEW entry, NEW list, Len(list) \in Nat, Len(list) > 0, Len(list) <= S.cap,
         \A r \in (0 .. S.maxMode - 1) \ Lost(S, entry) : RowOK(S, list, r)
  PROVE  LET I == GetIntersection(S, entry)
         IN \A r \in 0 .. I.maxMode - 1 : RowOK(I, list, r) /\ SizeAt(I, r) = SizeAt(S, Left(S, entry)[r + 1])
<1> DEFINE I == GetIntersection(S, entry)
           k == Left(S, entry)
           gone == Lost(S, entry)
           n == S.maxMode
<1>1. /\ Stay(k, gone, n) /\ Table(I)
      /\ \A r \in 0 .. I.maxMode - 1 : k[r + 1] \in 0 .. n - 1
      /\ \A r \in 0 .. I.maxMode - 1, c \in 0 .. S.cap - 1 : At(I, r, c) = At(S, k[r + 1], c)
  BY CutFacts
<1>2. I.cap = S.cap /\ I.query = S.query /\ I.maxMode = Len(k)
  BY CutFields DEF Table
<1>3. \A q \in (0 .. n - 1) \ gone : RowOK(S, list, q)
  OBVIOUS
<1>4. S.cap \in Nat /\ S.cap > 0 /\ Slots(I) = Slots(S) /\ I.maxMode \in Nat
  BY <1>1, <1>2 DEF Table, Slots
<1> HIDE DEF I, k, gone, n
<1>5. ASSUME NEW r \in 0 .. I.maxMode - 1 PROVE RowOK(I, list, r) /\ SizeAt(I, r) = SizeAt(S, k[r + 1])
  <2> DEFINE q == k[r + 1]
  <2>1. q \in 0 .. n - 1 /\ q \notin gone /\ (r < 2 => q = r) /\ (r >= 2 => q >= 2)
    <3>1. r + 1 \in 1 .. Len(k)
      BY <1>2, <1>4
    <3> QED
      BY <1>1, <1>4, <3>1 DEF Stay, StaysAt
  <2>2. \A c \in 0 .. S.cap - 1 : At(I, r, c) = At(S, q, c)
    BY <1>1
  <2> HIDE DEF q
  <2>3. RowOK(S, list, q)
    BY <1>3, <2>1
  <2>4. At(I, r, 0) = At(S, q, 0)
    BY <1>4, <2>2
  <2>5. SizeAt(I, r) = SizeAt(S, q)
    BY <1>2, <2>4 DEF SizeAt, At
  <2>6. (r = 1 <=> q = 1) /\ (r < 2 <=> q < 2) /\ r \in Int /\ q \in Int
    BY <1>4, <2>1
  <2>7. \A c \in Len(list) .. I.cap - 1 : At(I, r, c) = -1
    BY <1>2, <1>4, <2>2, <2>3 DEF RowOK
  <2>8. ASSUME NEW c \in 0 .. Len(list) - 1
        PROVE  \/ SizeOf(list[c + 1], At(I, r, c)) = SizeAt(I, r)
               \/ r = 1 /\ (SizeAt(I, r) = NoSize \/ SizeOf(list[c + 1], At(I, r, c)) = NoSize)
    <3>1. At(I, r, c) = At(S, q, c)
      BY <1>4, <2>2
    <3> QED
      BY <2>3, <2>5, <2>6, <3>1 DEF RowOK
  <2>9. RowOK(I, list, r)
    BY <1>2, <1>4, <2>1, <2>3, <2>4, <2>5, <2>6, <2>7, <2>8 DEF RowOK
  <2> QED
    BY <2>5, <2>9 DEF q
<1> QED
  BY <1>5 DEF I, k
-----------------------------------------------------------------------------
(* Growing: the rows and the columns in use are copied, the others empty.  *)
LEMMA GrownMap ==
  ASSUME NEW S, DOMAIN S = Fields, S.cap \in Nat, S.cap > 0, Slots(S) \in Nat
  PROVE  LET G == GrowMapTable(S)
         IN /\ DOMAIN G = Fields /\ G.list = S.list /\ G.cap = S.cap /\ G.query = S.query
            /\ G.maxMode = S.maxMode /\ G.mode = S.mode
            /\ DOMAIN G.map = 0 .. S.cap * Slots(S) - 1
            /\ \A r \in 0 .. Slots(S) - 1, c \in 0 .. S.cap - 1 :
                 At(G, r, c) = IF S.map # <<>> /\ r < S.maxMode /\ c < Len(S.list)
                               THEN S.map[r * (S.cap - Unit) + c] ELSE -1
<1> DEFINE new(r, c) == IF S.map # <<>> /\ r < S.maxMode /\ c < Len(S.list)
                        THEN S.map[r * (S.cap - Unit) + c] ELSE -1
           map == [i \in 0 .. S.cap * Slots(S) - 1 |-> new(i \div S.cap, i % S.cap)]
           G == [S EXCEPT !.map = map]
<1>1. GrowMapTable(S) = G
  BY DEF GrowMapTable, Slots
<1>2. /\ DOMAIN map = 0 .. S.cap * Slots(S) - 1
      /\ \A i \in 0 .. S.cap * Slots(S) - 1 : map[i] = new(i \div S.cap, i % S.cap)
  OBVIOUS
<1> HIDE DEF map
<1>3. /\ DOMAIN G = Fields /\ G.list = S.list /\ G.cap = S.cap /\ G.query = S.query
      /\ G.maxMode = S.maxMode /\ G.mode = S.mode /\ G.map = map
  BY DEF Fields
<1> HIDE DEF G, new
<1>4. ASSUME NEW r \in 0 .. Slots(S) - 1, NEW c \in 0 .. S.cap - 1
      PROVE  At(G, r, c) = new(r, c)
  <2> DEFINE i == r * S.cap + c
  <2>1. IsAt(i, r, c, S.cap, Slots(S))
    BY CellOf
  <2>2. At(G, r, c) = map[i]
    BY <1>3 DEF At, Cell
  <2> HIDE DEF i
  <2> QED
    BY <1>2, <2>1, <2>2 DEF IsAt
<1> QED
  BY <1>1, <1>2, <1>3, <1>4 DEF new

(* ConSplitterGrowBuffer makes room for one more console.                  *)
LEMMA GrownList ==
  ASSUME NEW S, Sound(S)
  PROVE  LET G == GrowList(S)
         IN /\ Sound(G) /\ G.list = S.list /\ Len(G.list) < G.cap
            /\ G.mode = S.mode /\ G.maxMode = S.maxMode
            /\ (S.list # <<>> => \A r \in 0 .. S.maxMode - 1 : SizeAt(G, r) = SizeAt(S, r))
<1>0. /\ DOMAIN S = Fields /\ S.list \in Seq(Devs) /\ Len(S.list) <= S.cap /\ Len(S.list) \in Nat
      /\ S.cap \in Nat /\ S.cap > 0 /\ S.cap >= Unit /\ S.mode \in Int /\ Unit \in Nat /\ Unit >= 2
      /\ Slots(S) \in Nat /\ Slots(S) > 0 /\ DOMAIN S.query = 0 .. Slots(S) - 1
  <2>1. Shape(S)
    BY DEF Sound
  <2> QED
    BY <2>1, ShapeFacts, UnitFits
<1>1. CASE Len(S.list) < S.cap
  BY <1>1 DEF GrowList
<1>2. CASE ~(Len(S.list) < S.cap)
  <2> DEFINE T == [S EXCEPT !.cap = @ + Unit]
             G == GrowMapTable(T)
  <2>1. GrowList(S) = G
    BY <1>2 DEF GrowList
  <2>2. /\ DOMAIN T = Fields /\ T.list = S.list /\ T.cap = S.cap + Unit /\ T.map = S.map
        /\ T.query = S.query /\ T.maxMode = S.maxMode /\ T.mode = S.mode
    BY <1>0 DEF Fields
  <2> HIDE DEF T
  <2>3. Slots(T) = Slots(S) /\ T.cap \in Nat /\ T.cap > 0 /\ T.cap - Unit = S.cap
    BY <1>0, <2>2 DEF Slots
  <2>4. /\ DOMAIN G = Fields /\ G.list = T.list /\ G.cap = T.cap /\ G.query = T.query
        /\ G.maxMode = T.maxMode /\ G.mode = T.mode
        /\ DOMAIN G.map = 0 .. T.cap * Slots(T) - 1
        /\ \A r \in 0 .. Slots(T) - 1, c \in 0 .. T.cap - 1 :
             At(G, r, c) = IF T.map # <<>> /\ r < T.maxMode /\ c < Len(T.list)
                           THEN T.map[r * (T.cap - Unit) + c] ELSE -1
    BY <1>0, <2>2, <2>3, GrownMap
  <2> HIDE DEF G
  <2>5. Slots(G) = Slots(S)
    BY <2>2, <2>4 DEF Slots
  <2>6. Shape(G) /\ Len(G.list) < G.cap
    BY <1>0, <2>2, <2>3, <2>4, <2>5 DEF Shape
  <2>a. /\ G.cap = S.cap + Unit /\ T.cap = G.cap /\ G.cap \in Nat /\ Slots(T) = Slots(S)
        /\ T.maxMode = S.maxMode /\ T.map = S.map /\ T.list = S.list
    BY <1>0, <2>2, <2>3, <2>4
  <2>7. ASSUME S.list # <<>>
        PROVE  Tables(G) /\ \A r \in 0 .. S.maxMode - 1 : SizeAt(G, r) = SizeAt(S, r)
    <3>1. Tables(S) /\ Len(S.list) > 0
      BY <1>0, <2>7 DEF Sound
    <3>2. /\ S.maxMode \in 1 .. Slots(S) /\ S.maxMode <= Unset
          /\ DOMAIN S.map = 0 .. S.cap * Slots(S) - 1
          /\ \A r \in 0 .. S.maxMode - 1 : RowOK(S, S.list, r)
      BY <3>1 DEF Tables
    <3>3. S.map # <<>>
      <4>1. 0 \in DOMAIN S.map
        BY <1>0, <3>2
      <4> QED
        BY <4>1
    <3>4. ASSUME NEW r \in 0 .. S.maxMode - 1, NEW c \in 0 .. G.cap - 1
          PROVE  At(G, r, c) = IF c < Len(S.list) THEN At(S, r, c) ELSE -1
      <4>1. r \in 0 .. Slots(T) - 1 /\ r < T.maxMode /\ c \in 0 .. T.cap - 1 /\ T.map # <<>>
        <5>1. S.maxMode \in Int /\ Slots(S) \in Int /\ S.maxMode <= Slots(S)
          BY <1>0, <3>2
        <5>2. r \in 0 .. Slots(S) - 1 /\ r < S.maxMode
          BY <5>1
        <5> QED
          BY <2>a, <3>3, <5>2
      <4>2. At(G, r, c) = IF c < Len(T.list) THEN T.map[r * (T.cap - Unit) + c] ELSE -1
        BY <2>4, <4>1
      <4> QED
        BY <2>2, <2>3, <4>2 DEF At, Cell
    <3>5. ASSUME NEW r \in 0 .. S.maxMode - 1
          PROVE  SizeAt(G, r) = SizeAt(S, r) /\ RowOK(G, G.list, r)
      <4>1. At(G, r, 0) = At(S, r, 0)
        <5>1. 0 \in 0 .. G.cap - 1 /\ 0 < Len(S.list)
          BY <1>0, <2>a, <3>1
        <5> QED
          BY <3>4, <5>1
      <4>2. SizeAt(G, r) = SizeAt(S, r)
        BY <2>2, <2>4, <4>1 DEF SizeAt, At
      <4>3. ASSUME NEW c \in 0 .. Len(S.list) - 1 PROVE At(G, r, c) = At(S, r, c)
        <5>1. c \in 0 .. G.cap - 1 /\ c < Len(S.list)
          BY <1>0, <2>a
        <5> QED
          BY <3>4, <5>1
      <4>4. ASSUME NEW c \in Len(S.list) .. G.cap - 1 PROVE At(G, r, c) = -1
        <5>1. c \in 0 .. G.cap - 1 /\ ~(c < Len(S.list))
          BY <1>0, <2>a
        <5> QED
          BY <3>4, <5>1
      <4>5. RowOK(S, S.list, r)
        BY <3>2
      <4> QED
        BY <2>2, <2>4, <2>5, <4>1, <4>2, <4>3, <4>4, <4>5 DEF RowOK
    <3>6. Tables(G)
      BY <2>2, <2>3, <2>4, <2>5, <3>2, <3>5 DEF Tables
    <3> QED
      BY <3>5, <3>6
  <2> QED
    BY <2>1, <2>2, <2>4, <2>6, <2>7 DEF Sound
<1> QED
  BY <1>1, <1>2, <1>0

(* What a console says of a mode.                                          *)
LEMMA ConsoleModes ==
  ASSUME NEW d \in Devs
  PROVE  /\ Len(Modes[d]) \in 1 .. 255 /\ Len(Modes[d]) \in Int
         /\ 1 <= Len(Modes[d]) /\ Len(Modes[d]) <= 255 /\ 0 \in 0 .. Len(Modes[d]) - 1
         /\ SizeOf(d, 0) = Base /\ SizeOf(d, -1) = NoSize
         /\ \A m \in 0 .. Len(Modes[d]) - 1 : SizeOf(d, m) = Modes[d][m + 1]
         /\ \A m \in 0 .. Len(Modes[d]) - 1 : m # 1 => SizeOf(d, m) # NoSize
         /\ \A m \in 2 .. Len(Modes[d]) - 1 : SizeOf(d, m) # Base
         /\ Base # NoSize
<1>1. /\ Len(Modes[d]) \in 1 .. 255 /\ Modes[d][1] = Base
      /\ \A m \in 1 .. Len(Modes[d]) : m # 2 => Modes[d][m] # NoSize
      /\ \A m \in 3 .. Len(Modes[d]) : Modes[d][m] # Base
  BY DeviceAssumption, ModesAssumption
<1>2. \A m \in 0 .. Len(Modes[d]) - 1 : m + 1 \in 1 .. Len(Modes[d]) /\ SizeOf(d, m) = Modes[d][m + 1]
  BY <1>1 DEF SizeOf
<1>3. SizeOf(d, 0) = Base
  BY <1>1, <1>2
<1>4. SizeOf(d, -1) = NoSize
  BY <1>1 DEF SizeOf
<1>5. Base # NoSize
  BY DEF Base, NoSize
<1>6. ASSUME NEW m \in 0 .. Len(Modes[d]) - 1, m # 1 PROVE SizeOf(d, m) # NoSize
  BY <1>1, <1>2, <1>6
<1>7. ASSUME NEW m \in 2 .. Len(Modes[d]) - 1 PROVE SizeOf(d, m) # Base
  <2>1. m + 1 \in 3 .. Len(Modes[d]) /\ m \in 0 .. Len(Modes[d]) - 1
    BY <1>1
  <2> QED
    BY <1>1, <1>2, <2>1
<1>8. /\ Len(Modes[d]) \in Int /\ 1 <= Len(Modes[d]) /\ Len(Modes[d]) <= 255
      /\ 0 \in 0 .. Len(Modes[d]) - 1
  <2> DEFINE n == Len(Modes[d])
  <2>1. n \in 1 .. 255
    BY <1>1
  <2> HIDE DEF n
  <2>2. n \in Int /\ 1 <= n /\ n <= 255 /\ 0 \in 0 .. n - 1
    BY <2>1
  <2> QED
    BY <2>2 DEF n
<1> QED
  BY <1>1, <1>2, <1>3, <1>4, <1>5, <1>6, <1>7, <1>8

(* The first console brings its modes.                                     *)
LEMMA ModeCount ==
  ASSUME NEW d \in Devs
  PROVE  Len(Modes[d]) \in 1 .. 255 /\ Len(Modes[d]) \in Nat
<1>1. Len(Modes[d]) \in 1 .. 255
  BY ConsoleModes
<1> QED
  BY <1>1

LEMMA FirstAdded ==
  ASSUME NEW S, Shape(S), S.list = <<>>, NEW d \in Devs
  PROVE  LET A == [AddOutputMode(S, d) EXCEPT !.list = <<d>>]
         IN Sound(A) /\ A.list = <<d>> /\ A.cap = S.cap /\ A.mode = S.mode
<1> DEFINE n == Len(Modes[d])
           Q == GrowQuery(S, n)
           P == [Q EXCEPT !.maxMode = n]
           G == GrowMapTable(P)
           query == [m \in DOMAIN G.query |-> SizeOf(d, m)]
           map == [i \in DOMAIN G.map |-> IF i % G.cap = 0 /\ i \div G.cap < n
                                          THEN i \div G.cap ELSE G.map[i]]
           A == [G EXCEPT !.query = query, !.map = map, !.list = <<d>>]
<1>0. /\ DOMAIN S = Fields /\ S.cap \in Nat /\ S.cap > 0 /\ S.cap >= Unit /\ S.mode \in Int
      /\ Slots(S) \in Nat /\ Slots(S) > 0 /\ DOMAIN S.query = 0 .. Slots(S) - 1
      /\ Unit \in Nat /\ Unit >= 2
  BY ShapeFacts, UnitFits
<1>1. n \in 1 .. 255 /\ n \in Nat
  BY ModeCount
<1>2. [AddOutputMode(S, d) EXCEPT !.list = <<d>>] = A
  BY DEF AddOutputMode
<1> DEFINE N == Units(Max({n, Slots(S)}))
<1>3. N \in Nat /\ N >= n /\ N > 0
  <2> HIDE DEF n, Q, P, G, query, map, A
  <2>1. n \in Nat /\ n > 0 /\ Slots(S) \in Nat
    BY <1>0, <1>1
  <2> QED
    BY <2>1, RoomFor
<1> HIDE DEF n
<1>4. /\ DOMAIN Q = Fields /\ Q.list = <<>> /\ Q.cap = S.cap /\ Q.mode = S.mode /\ DOMAIN Q.query = 0 .. N - 1
  BY <1>0 DEF GrowQuery, Slots, Fields
<1> HIDE DEF N, Q
<1>5. /\ DOMAIN P = Fields /\ P.list = <<>> /\ P.cap = S.cap /\ P.mode = S.mode /\ DOMAIN P.query = 0 .. N - 1
      /\ P.maxMode = n
  BY <1>4 DEF Fields
<1> HIDE DEF P
<1>6. Slots(P) = N
  BY <1>3, <1>5, Counted DEF Slots
<1>7. /\ DOMAIN G = Fields /\ G.list = P.list /\ G.cap = P.cap /\ G.query = P.query
      /\ G.maxMode = P.maxMode /\ G.mode = P.mode
      /\ DOMAIN G.map = 0 .. P.cap * Slots(P) - 1
      /\ \A r \in 0 .. Slots(P) - 1, c \in 0 .. P.cap - 1 :
           At(G, r, c) = IF P.map # <<>> /\ r < P.maxMode /\ c < Len(P.list)
                         THEN P.map[r * (P.cap - Unit) + c] ELSE -1
  BY <1>0, <1>3, <1>5, <1>6, GrownMap
<1> HIDE DEF G
<1>8. \A r \in 0 .. N - 1, c \in 0 .. S.cap - 1 : At(G, r, c) = -1
  <2>1. Len(P.list) = 0
    BY <1>5
  <2> QED
    BY <1>0, <1>5, <1>6, <1>7, <2>1
<1>9. /\ query = [m \in 0 .. N - 1 |-> SizeOf(d, m)]
      /\ map = [i \in 0 .. S.cap * N - 1 |-> IF i % S.cap = 0 /\ i \div S.cap < n
                                             THEN i \div S.cap ELSE G.map[i]]
  BY <1>5, <1>6, <1>7
<1> HIDE DEF query, map
<1>10. /\ DOMAIN A = Fields /\ A.list = <<d>> /\ A.cap = S.cap /\ A.mode = S.mode
       /\ A.maxMode = n /\ A.query = query /\ A.map = map
  BY <1>5, <1>7 DEF Fields
<1> HIDE DEF A
<1>11. Slots(A) = N /\ DOMAIN A.query = 0 .. N - 1
  BY <1>3, <1>9, <1>10, Counted DEF Slots
<1>12. Shape(A)
  <2>1. A.list \in Seq(Devs) /\ Len(A.list) = 1
    BY <1>10
  <2> QED
    BY <1>0, <1>3, <1>10, <1>11, <2>1 DEF Shape
<1>13. ASSUME NEW r \in 0 .. n - 1, NEW c \in 0 .. S.cap - 1
       PROVE  At(A, r, c) = IF c = 0 THEN r ELSE -1
  <2> DEFINE i == r * S.cap + c
  <2>1. r \in 0 .. N - 1
    BY <1>1, <1>3
  <2>a. S.cap \in Nat /\ S.cap > 0 /\ N \in Nat
    BY <1>0, <1>3
  <2>2. IsAt(i, r, c, S.cap, N)
    BY <2>1, <2>a, CellOf
  <2>3. At(A, r, c) = map[i] /\ At(G, r, c) = G.map[i]
    BY <1>5, <1>7, <1>10 DEF At, Cell
  <2> HIDE DEF i
  <2>4. map[i] = IF c = 0 /\ r < n THEN r ELSE G.map[i]
    BY <1>9, <2>2 DEF IsAt
  <2>5. At(G, r, c) = -1
    BY <1>8, <2>1
  <2> QED
    BY <1>1, <2>3, <2>4, <2>5
<1>14. ASSUME NEW r \in 0 .. n - 1 PROVE RowOK(A, <<d>>, r)
  <2>0. r \in 0 .. N - 1 /\ 0 \in 0 .. S.cap - 1 /\ r \in Int
    BY <1>0, <1>1, <1>3
  <2>1. At(A, r, 0) = r
    BY <1>13, <2>0
  <2>2. SizeAt(A, r) = SizeOf(d, r)
    BY <1>9, <1>10, <2>0, <2>1 DEF SizeAt, At
  <2>3. Len(<<d>>) = 1 /\ <<d>>[1] = d
    OBVIOUS
  <2>4. \A c \in 1 .. A.cap - 1 : At(A, r, c) = -1
    BY <1>0, <1>10, <1>13
  <2>5. r = 1 => SizeAt(A, r) = Modes[d][2]
    <3>1. SizeOf(d, r) = Modes[d][r + 1]
      BY ConsoleModes DEF n
    <3>2. r = 1 => r + 1 = 2
      OBVIOUS
    <3> QED
      BY <2>2, <3>1, <3>2
  <2>6. \A c \in 0 .. 0 : SizeOf(<<d>>[c + 1], At(A, r, c)) = SizeAt(A, r)
    BY <2>1, <2>2, <2>3
  <2> QED
    BY <1>1, <1>11, <2>0, <2>1, <2>3, <2>4, <2>5, <2>6 DEF RowOK, n
<1>15. Tables(A)
  BY <1>1, <1>3, <1>9, <1>10, <1>11, <1>14 DEF Tables, Unset
<1> QED
  BY <1>2, <1>10, <1>12, <1>15 DEF Sound
-----------------------------------------------------------------------------
(* A new console: its column names, in every row that stays, its mode of   *)
(* that size.                                                              *)

(* The first row of a size has it, and none before it has.                 *)
LEMMA FirstRowFacts ==
  ASSUME NEW S, S.maxMode \in Nat, NEW size
  PROVE  /\ FirstRow(S, size) # -1 => FirstRow(S, size) \in 0 .. S.maxMode - 1
                                      /\ SizeAt(S, FirstRow(S, size)) = size
         /\ FirstRow(S, size) = -1 => \A r \in 0 .. S.maxMode - 1 : SizeAt(S, r) # size
         /\ \A r \in 0 .. S.maxMode - 1 : SizeAt(S, r) = size => FirstRow(S, size) \in 0 .. r
<1> DEFINE rows == {r \in 0 .. S.maxMode - 1 : SizeAt(S, r) = size}
<1>1. FirstRow(S, size) = IF rows = {} THEN -1 ELSE Min(rows)
  BY DEF FirstRow
<1>2. rows \in SUBSET Nat
  OBVIOUS
<1>3. rows # {} => Min(rows) \in rows /\ \A y \in rows : Min(rows) <= y
  BY <1>2, MinIsLeast
<1>4. \A r : r \in rows <=> r \in 0 .. S.maxMode - 1 /\ SizeAt(S, r) = size
  OBVIOUS
<1> HIDE DEF rows
<1>5. CASE rows = {}
  BY <1>1, <1>4, <1>5
<1>6. CASE rows # {}
  <2>1. FirstRow(S, size) \in rows /\ \A y \in rows : FirstRow(S, size) <= y
    BY <1>1, <1>3, <1>6
  <2>2. FirstRow(S, size) \in 0 .. S.maxMode - 1 /\ SizeAt(S, FirstRow(S, size)) = size
    BY <1>4, <2>1
  <2>3. FirstRow(S, size) # -1
    BY <2>2
  <2>4. \A r \in 0 .. S.maxMode - 1 : SizeAt(S, r) = size => FirstRow(S, size) \in 0 .. r
    BY <1>4, <2>1, <2>2
  <2> QED
    BY <2>2, <2>3, <2>4
<1> QED
  BY <1>5, <1>6

(* The size of mode 1 goes when a console without it comes.                *)
Narrowed(S, none) == IF none THEN [S EXCEPT !.query[1] = NoSize] ELSE S

LEMMA NarrowedRows ==
  ASSUME NEW S, Shape(S), Tables(S), S.list # <<>>, NEW none \in BOOLEAN
  PROVE  LET Q == Narrowed(S, none)
         IN /\ DOMAIN Q = Fields /\ Q.list = S.list /\ Q.cap = S.cap /\ Q.map = S.map
            /\ Q.maxMode = S.maxMode /\ Q.mode = S.mode /\ Slots(Q) = Slots(S)
            /\ DOMAIN Q.query = DOMAIN S.query
            /\ \A r \in 0 .. S.maxMode - 1 : RowOK(Q, S.list, r) /\ (r = 1 /\ none => SizeAt(Q, r) = NoSize)
<1> DEFINE Q == Narrowed(S, none)
           query == IF none THEN [S.query EXCEPT ![1] = NoSize] ELSE S.query
<1>0. DOMAIN S = Fields /\ Slots(S) \in Nat /\ DOMAIN S.query = 0 .. Slots(S) - 1
      /\ S.maxMode \in 1 .. Slots(S)
  BY DEF Shape, Tables
<1>1. Narrowed(S, none) = IF none THEN [S EXCEPT !.query = query] ELSE S
  BY DEF Narrowed
<1>2. /\ DOMAIN query = DOMAIN S.query
      /\ \A m \in DOMAIN S.query : query[m] = IF none /\ m = 1 THEN NoSize ELSE S.query[m]
  OBVIOUS
<1>a. ~none => query = S.query
  OBVIOUS
<1> HIDE DEF query
<1>3. /\ DOMAIN Q = Fields /\ Q.list = S.list /\ Q.cap = S.cap /\ Q.map = S.map
      /\ Q.maxMode = S.maxMode /\ Q.mode = S.mode /\ Q.query = query
  BY <1>0, <1>1, <1>a DEF Fields
<1> HIDE DEF Q
<1>4. Slots(Q) = Slots(S)
  BY <1>2, <1>3 DEF Slots
<1>5. ASSUME NEW r \in 0 .. S.maxMode - 1
      PROVE  RowOK(Q, S.list, r) /\ (r = 1 /\ none => SizeAt(Q, r) = NoSize)
  <2>1. RowOK(S, S.list, r)
    BY DEF Tables
  <2>2. \A q, c : At(Q, q, c) = At(S, q, c)
    BY <1>3 DEF At, Cell
  <2>3. At(S, r, 0) \in DOMAIN S.query /\ (r < 2 => At(S, r, 0) = r) /\ (r >= 2 => At(S, r, 0) >= 2) /\ r \in Int
    BY <1>0, <2>1 DEF RowOK
  <2>4. SizeAt(Q, r) = query[At(S, r, 0)] /\ SizeAt(S, r) = S.query[At(S, r, 0)]
    BY <1>3, <2>2 DEF SizeAt, At
  <2>5. SizeAt(Q, r) = IF none /\ r = 1 THEN NoSize ELSE SizeAt(S, r)
    <3>1. At(S, r, 0) = 1 <=> r = 1
      BY <1>0, <2>3
    <3> QED
      BY <1>2, <2>3, <2>4, <3>1
  <2> QED
    BY <1>3, <1>4, <2>1, <2>2, <2>5 DEF RowOK
<1> QED
  BY <1>2, <1>3, <1>4, <1>5 DEF Q

LEMMA Synced ==
  ASSUME NEW S, Sound(S), S.list # <<>>, Len(S.list) < S.cap, NEW d \in Devs
  PROVE  LET A == SyncOutputMode(S, d)
         IN /\ Sound(A) /\ A.list = Append(S.list, d) /\ A.cap = S.cap
            /\ (S.mode >= S.maxMode => A.mode >= A.maxMode)
<1> DEFINE c == Len(S.list)
           n == S.maxMode
           none == Len(Modes[d]) > 1 /\ Modes[d][2] = NoSize
           Q == Narrowed(S, none)
           found(r) == {m \in 0 .. Len(Modes[d]) - 1 :
                          SizeOf(d, m) # NoSize /\ FirstRow(Q, SizeOf(d, m)) = r}
           rows == 0 .. Max({Q.maxMode - 1, 1})
           entry == [r \in rows |->
                       IF found(r) # {} THEN Max(found(r)) ELSE IF r = 1 /\ none THEN 1
                       ELSE Q.map[Cell(r, c, Q)]]
           map == [i \in DOMAIN Q.map |->
                     IF i % Q.cap = c /\ i \div Q.cap \in DOMAIN entry THEN entry[i \div Q.cap] ELSE Q.map[i]]
           T == [Q EXCEPT !.map = map]
           I == GetIntersection(T, entry)
           list == Append(S.list, d)
           A == [I EXCEPT !.list = Append(@, d)]
<1>1. SyncOutputMode(S, d) = A
  BY DEF SyncOutputMode, Narrowed
<1>2. /\ Shape(S) /\ Tables(S) /\ DOMAIN S = Fields /\ S.list \in Seq(Devs) /\ S.mode \in Int
      /\ S.cap \in Nat /\ S.cap > 0 /\ S.cap >= Unit /\ c \in Nat /\ c > 0 /\ c < S.cap
      /\ Slots(S) \in Nat /\ Slots(S) > 0 /\ DOMAIN S.query = 0 .. Slots(S) - 1
      /\ n \in 1 .. Slots(S) /\ n \in Nat /\ n <= Unset
      /\ DOMAIN S.map = 0 .. S.cap * Slots(S) - 1
  <2>1. /\ Shape(S) /\ Tables(S) /\ n \in 1 .. Slots(S) /\ n \in Nat /\ n <= Unset
        /\ DOMAIN S.map = 0 .. S.cap * Slots(S) - 1 /\ Len(S.list) > 0
    BY TableFacts
  <2>2. /\ DOMAIN S = Fields /\ S.list \in Seq(Devs) /\ S.mode \in Int /\ Len(S.list) \in Nat
        /\ S.cap \in Nat /\ S.cap > 0 /\ S.cap >= Unit
        /\ Slots(S) \in Nat /\ Slots(S) > 0 /\ DOMAIN S.query = 0 .. Slots(S) - 1
    BY <2>1, ShapeFacts
  <2>3. c \in Nat /\ c > 0 /\ c < S.cap
    BY <2>1, <2>2
  <2> QED
    BY <2>1, <2>2, <2>3
<1>3. /\ DOMAIN Q = Fields /\ Q.list = S.list /\ Q.cap = S.cap /\ Q.map = S.map
      /\ Q.maxMode = n /\ Q.mode = S.mode /\ Slots(Q) = Slots(S) /\ DOMAIN Q.query = DOMAIN S.query
      /\ \A r \in 0 .. n - 1 : RowOK(Q, S.list, r) /\ (r = 1 /\ none => SizeAt(Q, r) = NoSize)
  BY <1>2, NarrowedRows
<1>4. /\ Len(Modes[d]) \in Int /\ Len(Modes[d]) <= 255 /\ 0 \in 0 .. Len(Modes[d]) - 1
      /\ SizeOf(d, 0) = Base /\ SizeOf(d, -1) = NoSize /\ Base # NoSize
  BY ConsoleModes
<1>5. \A r \in 0 .. n - 1 : r \in rows
  <2> DEFINE k == Max({n - 1, 1})
  <2>1. k \in Int /\ k >= n - 1
    <3> DEFINE a == n - 1
             b == 1
    <3>1. a \in Int /\ b \in Int
      BY <1>2
    <3> HIDE DEF n, a, b
    <3>2. Max({a, b}) \in Int /\ Max({a, b}) >= a
      BY <3>1, MaxOfTwo
    <3> QED
      BY <3>2 DEF a, b
  <2>2. rows = 0 .. k
    BY <1>3
  <2> HIDE DEF k, rows, n
  <2> QED
    BY <1>2, <2>1, <2>2
<1> HIDE DEF none, Q, rows
<1>6. ASSUME NEW r \in 0 .. n - 1, NEW m \in found(r)
      PROVE  SizeOf(d, m) = SizeAt(Q, r)
  <2>1. FirstRow(Q, SizeOf(d, m)) = r /\ r # -1
    BY <1>2
  <2> QED
    BY <1>2, <1>3, <2>1, FirstRowFacts
<1>7. 0 \in found(0)
  <2>1. SizeAt(Q, 0) = Base
    <3>1. RowOK(Q, S.list, 0) /\ 0 \in 0 .. Len(S.list) - 1 /\ S.list[1] \in Devs /\ 0 + 1 = 1
      BY <1>2, <1>3
    <3>2. SizeOf(S.list[1], At(Q, 0, 0)) = SizeAt(Q, 0) /\ At(Q, 0, 0) = 0
      BY <3>1 DEF RowOK
    <3> QED
      BY <3>1, <3>2, ConsoleModes
  <2>2. FirstRow(Q, Base) \in 0 .. 0
    BY <1>2, <1>3, <2>1, FirstRowFacts
  <2>3. FirstRow(Q, SizeOf(d, 0)) = 0
    BY <1>4, <2>2
  <2>4. 0 \in 0 .. Len(Modes[d]) - 1
    BY <1>4
  <2>5. SizeOf(d, 0) # NoSize
    BY <1>4
  <2> QED
    BY <2>3, <2>4, <2>5
<1>8. ASSUME NEW r \in 0 .. n - 1, found(r) # {}
      PROVE  Max(found(r)) \in found(r)
  <2>a. \A x \in found(r) : x \in 0 .. Len(Modes[d]) - 1
    OBVIOUS
  <2>b. ASSUME NEW x \in 0 .. Len(Modes[d]) - 1 PROVE x \in Int /\ x <= 255
    <3>1. Len(Modes[d]) \in Int /\ Len(Modes[d]) <= 255
      BY <1>4
    <3> QED
      BY <3>1
  <2>1. found(r) \in SUBSET Int /\ \A x \in found(r) : x <= 255
    BY <2>a, <2>b
  <2> HIDE DEF found
  <2> QED
    BY <1>8, <2>1, MaxIsGreatest
<1> HIDE DEF found
<1>9. ASSUME NEW r \in 0 .. n - 1
      PROVE  entry[r] = IF found(r) # {} THEN Max(found(r)) ELSE IF r = 1 /\ none THEN 1 ELSE At(Q, r, c)
  BY <1>5 DEF At
<1>10. \A r \in 0 .. n - 1 : r \in DOMAIN entry
  BY <1>5
<1> HIDE DEF entry
<1>11. ASSUME NEW r \in 0 .. n - 1
       PROVE  \/ SizeOf(d, entry[r]) = SizeAt(Q, r)
              \/ r # 0 /\ entry[r] = -1
              \/ r = 1 /\ SizeAt(Q, r) = NoSize
  <2>1. CASE found(r) # {}
    BY <1>6, <1>8, <1>9, <2>1
  <2>2. CASE found(r) = {} /\ ~(r = 1 /\ none)
    <3>1. c \in Len(S.list) .. Q.cap - 1
      BY <1>2, <1>3
    <3>2. At(Q, r, c) = -1
      BY <1>3, <3>1 DEF RowOK
    <3>3. entry[r] = -1
      BY <1>9, <2>2, <3>2
    <3> QED
      BY <1>7, <2>2, <3>3
  <2>3. CASE r = 1 /\ none
    BY <1>3, <2>3
  <2> QED
    BY <2>1, <2>2, <2>3
<1>12. /\ DOMAIN T = Fields /\ T.list = S.list /\ T.cap = S.cap /\ T.map = map
       /\ T.maxMode = n /\ T.mode = S.mode /\ T.query = Q.query
  BY <1>3 DEF Fields
<1>13. /\ DOMAIN map = 0 .. S.cap * Slots(S) - 1
       /\ \A i \in 0 .. S.cap * Slots(S) - 1 :
            map[i] = IF i % S.cap = c /\ i \div S.cap \in DOMAIN entry THEN entry[i \div S.cap] ELSE Q.map[i]
  BY <1>2, <1>3
<1> HIDE DEF map, T
<1>14. ASSUME NEW r \in 0 .. n - 1, NEW k \in 0 .. S.cap - 1
       PROVE  At(T, r, k) = IF k = c THEN entry[r] ELSE At(Q, r, k)
  <2> DEFINE i == r * S.cap + k
  <2>1. r \in 0 .. Slots(S) - 1 /\ S.cap \in Nat /\ S.cap > 0 /\ Slots(S) \in Nat
    BY <1>2
  <2>2. IsAt(i, r, k, S.cap, Slots(S))
    BY <2>1, CellOf
  <2>3. At(T, r, k) = map[i] /\ At(Q, r, k) = Q.map[i]
    BY <1>3, <1>12 DEF At, Cell
  <2> HIDE DEF i
  <2> QED
    BY <1>10, <1>13, <2>2, <2>3 DEF IsAt
<1>15. Slots(T) = Slots(S)
  BY <1>3, <1>12 DEF Slots
<1>16. Table(T)
  BY <1>2, <1>12, <1>13, <1>15 DEF Table
<1>17. /\ list \in Seq(Devs) /\ Len(list) = c + 1 /\ list[c + 1] = d
       /\ \A k \in 0 .. c - 1 : list[k + 1] = S.list[k + 1]
  BY <1>2
<1> HIDE DEF list
<1>18. ASSUME NEW r \in (0 .. T.maxMode - 1) \ Lost(T, entry)
       PROVE  RowOK(T, list, r)
  <2>1. r \in 0 .. n - 1 /\ r \in Int /\ (r >= 2 => entry[r] # -1)
    BY <1>2, <1>12 DEF Lost
  <2>2. RowOK(Q, S.list, r)
    BY <1>3, <2>1
  <2>3. 0 \in 0 .. S.cap - 1 /\ 0 # c
    BY <1>2
  <2>4. At(T, r, 0) = At(Q, r, 0)
    BY <1>14, <2>1, <2>3
  <2>5. SizeAt(T, r) = SizeAt(Q, r)
    BY <1>12, <2>4 DEF SizeAt, At
  <2>6. ASSUME NEW k \in Len(list) .. T.cap - 1 PROVE At(T, r, k) = -1
    <3>1. k \in 0 .. S.cap - 1 /\ k # c /\ k \in Len(S.list) .. Q.cap - 1
      BY <1>2, <1>3, <1>12, <1>17
    <3> QED
      BY <1>14, <2>1, <2>2, <3>1 DEF RowOK
  <2>7. ASSUME NEW k \in 0 .. Len(list) - 1
        PROVE  \/ SizeOf(list[k + 1], At(T, r, k)) = SizeAt(T, r)
               \/ r = 1 /\ (SizeAt(T, r) = NoSize \/ SizeOf(list[k + 1], At(T, r, k)) = NoSize)
    <3>1. CASE k = c
      <4>1. At(T, r, k) = entry[r] /\ list[k + 1] = d
        <5>1. c \in 0 .. S.cap - 1
          BY <1>2
        <5> QED
          BY <1>14, <1>17, <2>1, <3>1, <5>1
      <4>2. \/ SizeOf(d, entry[r]) = SizeAt(Q, r)
            \/ r # 0 /\ entry[r] = -1
            \/ r = 1 /\ SizeAt(Q, r) = NoSize
        BY <1>11, <2>1
      <4>3. r # 0 /\ entry[r] = -1 => r = 1 /\ SizeOf(d, entry[r]) = NoSize
        BY <1>2, <1>4, <2>1
      <4> QED
        BY <2>5, <4>1, <4>2, <4>3
    <3>2. CASE k # c
      <4>1. k \in 0 .. c - 1 /\ k \in 0 .. S.cap - 1
        BY <1>2, <1>17, <3>2
      <4>2. At(T, r, k) = At(Q, r, k) /\ list[k + 1] = S.list[k + 1]
        BY <1>14, <1>17, <2>1, <3>2, <4>1
      <4> QED
        BY <2>2, <2>5, <4>1, <4>2 DEF RowOK
    <3> QED
      BY <3>1, <3>2
  <2>8. list[1] = S.list[1]
    <3>1. 0 \in 0 .. c - 1 /\ 0 + 1 = 1
      BY <1>2
    <3> QED
      BY <1>17, <3>1
  <2>9. Slots(T) = Slots(Q)
    BY <1>3, <1>15
  <2> QED
    BY <2>2, <2>4, <2>5, <2>6, <2>7, <2>8, <2>9 DEF RowOK
<1>19. \A r \in 0 .. I.maxMode - 1 : RowOK(I, list, r)
  <2>1. Len(list) \in Nat /\ Len(list) > 0 /\ Len(list) <= T.cap
    BY <1>2, <1>12, <1>17
  <2>2. \A r \in (0 .. T.maxMode - 1) \ Lost(T, entry) : RowOK(T, list, r)
    BY <1>18
  <2> QED
    BY <1>16, <2>1, <2>2, CutRows
<1>20. DOMAIN I = Fields /\ I.list = T.list /\ I.cap = T.cap /\ I.query = T.query
  BY <1>12, CutFields
<1>21. Table(I) /\ I.maxMode <= n /\ (S.mode >= n => I.mode >= I.maxMode)
  BY <1>12, <1>16, CutFacts
<1> HIDE DEF I
<1>22. /\ DOMAIN A = Fields /\ A.list = list /\ A.cap = S.cap /\ A.query = I.query /\ A.map = I.map
       /\ A.maxMode = I.maxMode /\ A.mode = I.mode
  BY <1>12, <1>20 DEF Fields, list
<1> HIDE DEF A
<1>23. Slots(A) = Slots(I) /\ Slots(I) = Slots(S) /\ \A r, k : At(A, r, k) = At(I, r, k)
  BY <1>12, <1>15, <1>20, <1>22 DEF Slots, At, Cell
<1>24. Shape(A)
  BY <1>2, <1>3, <1>12, <1>17, <1>20, <1>21, <1>22, <1>23 DEF Shape, Table
<1>25. ASSUME NEW r \in 0 .. A.maxMode - 1 PROVE RowOK(A, A.list, r)
  <2>1. RowOK(I, list, r)
    BY <1>19, <1>22
  <2>2. SizeAt(A, r) = SizeAt(I, r)
    BY <1>22, <1>23 DEF SizeAt, At
  <2>3. A.cap = I.cap
    BY <1>12, <1>20, <1>22
  <2> QED
    BY <1>22, <1>23, <2>1, <2>2, <2>3 DEF RowOK
<1>26. Tables(A)
  <2>1. A.maxMode \in 1 .. Slots(A) /\ A.maxMode <= Unset
    BY <1>2, <1>21, <1>22, <1>23 DEF Table, Unset
  <2>2. DOMAIN A.map = 0 .. A.cap * Slots(A) - 1
    BY <1>12, <1>20, <1>21, <1>22, <1>23 DEF Table
  <2> QED
    BY <1>25, <2>1, <2>2 DEF Tables
<1> QED
  BY <1>1, <1>21, <1>22, <1>24, <1>26 DEF Sound, list
-----------------------------------------------------------------------------
(* The tables are built anew, one console after the other.                 *)
Builds(upTo, first, list) ==
  /\ upTo[1] = first
  /\ \A n \in 2 .. Len(list) : upTo[n] = SyncOutputMode(upTo[n - 1], list[n])

Emptying(S) == [S EXCEPT !.list = <<>>, !.map = <<>>, !.query = [m \in DOMAIN @ |-> NoSize]]
Starting(S, list) == [AddOutputMode(Emptying(S), list[1]) EXCEPT !.list = <<list[1]>>]

LEMMA RebuiltUnfolds ==
  ASSUME NEW S, NEW list, Len(list) \in Nat, Len(list) > 0
  PROVE  \E upTo : Builds(upTo, Starting(S, list), list) /\ Rebuilt(S, list) = upTo[Len(list)]
<1> DEFINE N == Len(list)
           first == Starting(S, list)
           upTo == CHOOSE f : f = [n \in 1 .. N |-> IF n = 1 THEN first ELSE SyncOutputMode(f[n - 1], list[n])]
           P(m) == \E f : f = [n \in 1 .. m |-> IF n = 1 THEN first ELSE SyncOutputMode(f[n - 1], list[n])]
<1>1. Rebuilt(S, list) = upTo[N] /\ N \in Nat /\ N > 0
  BY DEF Rebuilt, Starting, Emptying
<1> HIDE DEF first, N
<1>2. P(0)
  <2> DEFINE f == [n \in 1 .. 0 |-> first]
  <2>1. f = [n \in 1 .. 0 |-> IF n = 1 THEN first ELSE SyncOutputMode(f[n - 1], list[n])]
    OBVIOUS
  <2> QED
    BY <2>1
<1>3. ASSUME NEW m \in Nat, P(m) PROVE P(m + 1)
  <2>1. PICK f : f = [n \in 1 .. m |-> IF n = 1 THEN first ELSE SyncOutputMode(f[n - 1], list[n])]
    BY <1>3
  <2> DEFINE last == IF m = 0 THEN first ELSE SyncOutputMode(f[m], list[m + 1])
             h == [n \in 1 .. m + 1 |-> IF n = m + 1 THEN last ELSE f[n]]
  <2>2. /\ h[m + 1] = last /\ DOMAIN h = 1 .. m + 1
        /\ \A n \in 1 .. m : h[n] = f[n]
    OBVIOUS
  <2>3. h = [n \in DOMAIN h |-> h[n]]
    OBVIOUS
  <2> HIDE DEF h
  <2>4. ASSUME NEW n \in 1 .. m + 1
        PROVE  h[n] = IF n = 1 THEN first ELSE SyncOutputMode(h[n - 1], list[n])
    <3>1. CASE n = 1 /\ m = 0
      BY <2>2, <3>1
    <3>2. CASE n = 1 /\ m # 0
      <4>1. n \in 1 .. m
        BY <3>2
      <4> QED
        BY <2>1, <2>2, <3>2, <4>1
    <3>3. CASE n = m + 1 /\ m # 0
      <4>1. n # 1 /\ n - 1 = m /\ m \in 1 .. m
        BY <3>3
      <4> QED
        BY <2>2, <3>3, <4>1
    <3>4. CASE n # 1 /\ n # m + 1
      <4>1. n \in 1 .. m /\ n - 1 \in 1 .. m
        BY <3>4
      <4>2. f[n] = SyncOutputMode(f[n - 1], list[n])
        BY <2>1, <3>4, <4>1
      <4> QED
        BY <2>2, <3>4, <4>1, <4>2
    <3> QED
      BY <3>1, <3>2, <3>3, <3>4
  <2>5. h = [n \in 1 .. m + 1 |-> IF n = 1 THEN first ELSE SyncOutputMode(h[n - 1], list[n])]
    BY <2>2, <2>3, <2>4
  <2> QED
    BY <2>5
<1> HIDE DEF P
<1> DEFINE A == {m \in Nat : P(m)}
<1>4. A \in SUBSET Nat /\ 0 \in A /\ \A m \in A : m + 1 \in A
  BY <1>2, <1>3
<1> HIDE DEF A
<1>5. N \in A
  BY <1>1, <1>4, Induction
<1>6. P(N)
  BY <1>5 DEF A
<1>7. upTo = [n \in 1 .. N |-> IF n = 1 THEN first ELSE SyncOutputMode(upTo[n - 1], list[n])]
  BY <1>6 DEF P
<1> HIDE DEF upTo
<1>8. upTo[1] = first /\ \A n \in 2 .. N : upTo[n] = SyncOutputMode(upTo[n - 1], list[n])
  BY <1>1, <1>7
<1>9. Builds(upTo, first, list)
  BY <1>8 DEF N, Builds
<1> QED
  BY <1>1, <1>9 DEF N, first

LEMMA RebuiltSound ==
  ASSUME NEW S, Sound(S), NEW list \in Seq(Devs), Len(list) > 0, Len(list) <= S.cap
  PROVE  Sound(Rebuilt(S, list))
<1> DEFINE N == Len(list)
<1>1. N \in Nat /\ N > 0 /\ \A n \in 1 .. N : list[n] \in Devs
  OBVIOUS
<1>2. PICK upTo : Builds(upTo, Starting(S, list), list) /\ Rebuilt(S, list) = upTo[N]
  BY <1>1, RebuiltUnfolds
<1>3. /\ DOMAIN S = Fields /\ S.cap \in Nat /\ S.cap > 0 /\ S.cap >= Unit /\ S.mode \in Int
      /\ Slots(S) \in Nat /\ Slots(S) > 0 /\ DOMAIN S.query = 0 .. Slots(S) - 1
  <2>1. Shape(S)
    BY DEF Sound
  <2> QED
    BY <2>1, ShapeFacts
<1>4. Shape(Emptying(S)) /\ Emptying(S).list = <<>> /\ Emptying(S).cap = S.cap
  <2> DEFINE E == Emptying(S)
             query == [m \in DOMAIN S.query |-> NoSize]
  <2>1. DOMAIN query = DOMAIN S.query
    OBVIOUS
  <2> HIDE DEF query
  <2>2. /\ DOMAIN E = Fields /\ E.list = <<>> /\ E.cap = S.cap /\ E.mode = S.mode /\ E.query = query
    BY <1>3 DEF Emptying, query, Fields
  <2> HIDE DEF E
  <2>3. Slots(E) = Slots(S)
    BY <2>1, <2>2 DEF Slots
  <2>4. E.list \in Seq(Devs) /\ Len(E.list) = 0
    BY <2>2
  <2> QED
    BY <1>3, <2>1, <2>2, <2>3, <2>4 DEF Shape, E
<1>5. /\ Sound(Starting(S, list)) /\ Starting(S, list).list = <<list[1]>>
      /\ Starting(S, list).cap = S.cap
  <2> DEFINE E == Emptying(S)
             d == list[1]
  <2>1. Starting(S, list) = [AddOutputMode(E, d) EXCEPT !.list = <<d>>] /\ d \in Devs
    BY <1>1 DEF Starting
  <2>2. Shape(E) /\ E.list = <<>> /\ E.cap = S.cap
    BY <1>4
  <2> HIDE DEF E, d
  <2>3. LET A == [AddOutputMode(E, d) EXCEPT !.list = <<d>>]
        IN Sound(A) /\ A.list = <<d>> /\ A.cap = E.cap /\ A.mode = E.mode
    BY <2>1, <2>2, FirstAdded
  <2> QED
    BY <2>1, <2>2, <2>3 DEF d
<1> DEFINE Good(m) == Sound(upTo[m]) /\ Len(upTo[m].list) = m /\ upTo[m].cap = S.cap
           Q == {m \in Nat : m \in 1 .. N => Good(m)}
<1>6. Q \in SUBSET Nat /\ 0 \in Q
  OBVIOUS
<1>7. ASSUME NEW m \in Q PROVE m + 1 \in Q
  <2>1. SUFFICES ASSUME m + 1 \in 1 .. N PROVE Good(m + 1)
    OBVIOUS
  <2>2. CASE m = 0
    <3>1. upTo[1] = Starting(S, list)
      BY <1>2 DEF Builds
    <3>2. Len(<<list[1]>>) = 1
      OBVIOUS
    <3>3. m + 1 = 1
      BY <2>2
    <3>4. Good(1)
      BY <1>5, <3>1, <3>2
    <3> QED
      BY <3>3, <3>4
  <2>3. CASE m # 0
    <3>1. m \in 1 .. N /\ m + 1 \in 2 .. N /\ (m + 1) - 1 = m /\ m < N
      BY <1>1, <2>1, <2>3
    <3>2. Good(m)
      BY <3>1
    <3>3. upTo[m + 1] = SyncOutputMode(upTo[m], list[m + 1])
      BY <1>2, <3>1 DEF Builds
    <3>4. upTo[m].list # <<>> /\ Len(upTo[m].list) < upTo[m].cap /\ upTo[m].list \in Seq(Devs)
      BY <1>3, <3>1, <3>2 DEF Sound, Shape
    <3>5. list[m + 1] \in Devs
      BY <1>1, <2>1
    <3>6. /\ Sound(upTo[m + 1]) /\ upTo[m + 1].list = Append(upTo[m].list, list[m + 1])
          /\ upTo[m + 1].cap = S.cap
      BY <3>2, <3>3, <3>4, <3>5, Synced
    <3> QED
      BY <3>2, <3>4, <3>6
  <2> QED
    BY <2>2, <2>3
<1> HIDE DEF Q
<1>8. N \in Q
  BY <1>1, <1>6, <1>7, Induction
<1>9. Good(N)
  BY <1>1, <1>8 DEF Q
<1> QED
  BY <1>2, <1>9
-----------------------------------------------------------------------------
(* The sizes that ConOut and StdErr offer.                                 *)
Offered(S) == {SizeAt(S, r) : r \in 2 .. S.maxMode - 1}

(* What a table says of the first two modes and of the others.             *)
LEMMA RowSizes ==
  ASSUME NEW S, Sound(S), S.list # <<>>, NEW r \in 0 .. S.maxMode - 1
  PROVE  /\ r = 0 => SizeAt(S, r) = Base
         /\ r = 1 => SizeAt(S, r) = NoSize
                     \/ \E e \in Devs : Len(Modes[e]) > 1 /\ SizeAt(S, r) = Modes[e][2]
         /\ r >= 2 => /\ SizeAt(S, r) # Base /\ SizeAt(S, r) # NoSize
                      /\ \A e \in Devs : Len(Modes[e]) > 1 => SizeAt(S, r) # Modes[e][2]
<1> DEFINE d == S.list[1]
           m == At(S, r, 0)
<1>1. S.list \in Seq(Devs) /\ Len(S.list) > 0 /\ RowOK(S, S.list, r)
  <2>1. S.list \in Seq(Devs)
    BY DEF Sound, Shape
  <2>2. Len(S.list) > 0
    BY <2>1
  <2>3. Tables(S)
    BY DEF Sound
  <2> QED
    BY <2>1, <2>2, <2>3 DEF Tables
<1>2. d \in Devs /\ r \in Int /\ 0 \in 0 .. Len(S.list) - 1 /\ 0 + 1 = 1
  <2>1. S.maxMode \in Int
    BY DEF Sound, Tables
  <2> QED
    BY <1>1, <2>1
<1>3. /\ Slots(S) \in Nat /\ m \in 0 .. Slots(S) - 1 /\ m < Len(Modes[d])
      /\ (r < 2 => m = r) /\ (r >= 2 => m >= 2)
      /\ (r = 1 => SizeAt(S, r) \in {NoSize, Modes[d][2]})
  <2>1. Shape(S)
    BY TableFacts
  <2>2. Slots(S) \in Nat
    BY <2>1, ShapeFacts
  <2> QED
    BY <1>1, <2>2 DEF RowOK
<1>4. r # 1 => SizeOf(d, m) = SizeAt(S, r)
  BY <1>1, <1>2 DEF RowOK
<1>5. Len(Modes[d]) \in Int /\ m \in Int
  BY <1>2, <1>3, ConsoleModes
<1> HIDE DEF d, m
<1>6. CASE r = 0
  <2>1. SizeOf(d, 0) = Base
    BY <1>2, ConsoleModes
  <2> QED
    BY <1>3, <1>4, <1>6, <2>1
<1>7. CASE r = 1
  BY <1>2, <1>3, <1>5, <1>7
<1>8. CASE r >= 2
  <2>1. m \in 2 .. Len(Modes[d]) - 1 /\ m \in 0 .. Len(Modes[d]) - 1 /\ m # 1 /\ r # 1
    BY <1>2, <1>3, <1>5, <1>8
  <2>2. SizeOf(d, m) # Base /\ SizeOf(d, m) # NoSize /\ SizeOf(d, m) = Modes[d][m + 1]
    BY <1>2, <2>1, ConsoleModes
  <2>3. m + 1 \in 3 .. Len(Modes[d])
    BY <1>5, <2>1
  <2>4. \A e \in Devs : Len(Modes[e]) > 1 => Modes[d][m + 1] # Modes[e][2]
    BY <1>2, <2>3, ModesAssumption
  <2> QED
    BY <1>2, <1>4, <1>8, <2>1, <2>2, <2>4
<1> QED
  BY <1>2, <1>6, <1>7, <1>8

(* A splitter with fewer modes.                                            *)
LEMMA CutSound ==
  ASSUME NEW S, Sound(S), S.list # <<>>, NEW entry
  PROVE  LET I == GetIntersection(S, entry)
         IN /\ Sound(I) /\ I.list = S.list /\ (S.mode >= S.maxMode => I.mode >= I.maxMode)
            /\ Offered(I) = {SizeAt(S, r) : r \in (2 .. S.maxMode - 1) \ Lost(S, entry)}
<1> DEFINE I == GetIntersection(S, entry)
           k == Left(S, entry)
           gone == Lost(S, entry)
           n == S.maxMode
<1>1. /\ Shape(S) /\ Tables(S) /\ DOMAIN S = Fields /\ S.list \in Seq(Devs) /\ S.mode \in Int
      /\ S.cap \in Nat /\ S.cap > 0 /\ Len(S.list) \in Nat /\ Len(S.list) > 0 /\ Len(S.list) <= S.cap
      /\ Slots(S) \in Nat /\ n \in 1 .. Slots(S) /\ n \in Nat /\ n <= Unset
      /\ DOMAIN S.map = 0 .. S.cap * Slots(S) - 1
      /\ \A r \in 0 .. n - 1 : RowOK(S, S.list, r)
  <2>1. Shape(S)
    BY TableFacts
  <2> QED
    BY <2>1, TableFacts, ShapeFacts
<1>2. Table(S)
  BY <1>1 DEF Table
<1>3. /\ DOMAIN I = Fields /\ I.list = S.list /\ I.cap = S.cap /\ I.query = S.query /\ I.maxMode = Len(k)
  BY <1>1, CutFields
<1>4. /\ Stay(k, gone, n) /\ Table(I) /\ I.maxMode <= n /\ (S.mode >= n => I.mode >= I.maxMode)
      /\ \A r \in 0 .. I.maxMode - 1 : k[r + 1] \in 0 .. n - 1
  BY <1>2, CutFacts
<1>5. \A r \in 0 .. I.maxMode - 1 : RowOK(I, S.list, r) /\ SizeAt(I, r) = SizeAt(S, k[r + 1])
  <2>1. \A r \in (0 .. n - 1) \ gone : RowOK(S, S.list, r)
    BY <1>1
  <2> QED
    BY <1>1, <1>2, <2>1, CutRows
<1> HIDE DEF I, k, gone, n
<1>6. Slots(I) = Slots(S)
  BY <1>3 DEF Slots
<1>7. Shape(I)
  BY <1>1, <1>3, <1>4, <1>6 DEF Shape, Table
<1>8. Tables(I)
  BY <1>1, <1>3, <1>4, <1>5, <1>6 DEF Tables, Table, Unset
<1>9. I.maxMode \in Nat /\ Len(k) \in Nat
  BY <1>1, <1>3, <1>4 DEF Table
<1>10. ASSUME NEW r \in 2 .. I.maxMode - 1
       PROVE  k[r + 1] \in (2 .. n - 1) \ gone /\ SizeAt(I, r) = SizeAt(S, k[r + 1])
  <2>1. r + 1 \in 1 .. Len(k) /\ r + 1 > 2 /\ r \in 0 .. I.maxMode - 1
    BY <1>3, <1>9
  <2>2. k[r + 1] \notin gone /\ k[r + 1] >= 2
    BY <1>4, <2>1 DEF Stay, StaysAt
  <2>3. k[r + 1] \in 0 .. n - 1
    BY <1>4, <2>1
  <2> QED
    BY <1>1, <1>5, <2>1, <2>2, <2>3
<1>11. ASSUME NEW q \in (2 .. n - 1) \ gone
       PROVE  \E r \in 2 .. I.maxMode - 1 : SizeAt(I, r) = SizeAt(S, q)
  <2>1. q \in 0 .. n - 1 /\ q \notin gone
    BY <1>1
  <2>2. PICK i \in 1 .. Len(k) : k[i] = q
    BY <1>4, <2>1 DEF Stay
  <2>3. i > 2
    <3>1. i <= 2 => k[i] = i - 1
      BY <1>4 DEF Stay, StaysAt
    <3> QED
      BY <1>1, <1>9, <2>2, <3>1
  <2>4. i - 1 \in 2 .. I.maxMode - 1 /\ (i - 1) + 1 = i /\ i - 1 \in 0 .. I.maxMode - 1
    BY <1>3, <1>9, <2>3
  <2>5. SizeAt(I, i - 1) = SizeAt(S, q)
    BY <1>5, <2>2, <2>4
  <2> QED
    BY <2>4, <2>5
<1>12. \A x : x \in Offered(I) <=> x \in {SizeAt(S, r) : r \in (2 .. n - 1) \ gone}
  BY <1>10, <1>11 DEF Offered
<1>13. Offered(I) = {SizeAt(S, r) : r \in (2 .. n - 1) \ gone}
  BY <1>12
<1> QED
  BY <1>3, <1>4, <1>7, <1>8, <1>13 DEF Sound, I, gone, n

(* ConSplitterGetIntersectionBetweenConOutAndStrErr leaves the same sizes. *)
Met(C, E) == {FirstRow(E, SizeAt(C, r)) : r \in 0 .. C.maxMode - 1}
ConOutEntry(C, E) == [r \in 0 .. C.maxMode - 1 |-> IF FirstRow(E, SizeAt(C, r)) = -1 THEN -1 ELSE 1]
StdErrEntry(C, E) == [r \in 0 .. E.maxMode - 1 |-> IF r \in Met(C, E) THEN 1 ELSE -1]

LEMMA CutAlike ==
  ASSUME NEW C, NEW E, Sound(C), Sound(E), C.list # <<>>, E.list # <<>>
  PROVE  Offered(GetIntersection(C, ConOutEntry(C, E))) = Offered(GetIntersection(E, StdErrEntry(C, E)))
<1>1. C.maxMode \in Nat /\ C.maxMode >= 1 /\ E.maxMode \in Nat /\ E.maxMode >= 1
  <2>1. Tables(C) /\ Tables(E) /\ Slots(C) \in Nat /\ Slots(E) \in Nat
    BY DEF Sound, Shape
  <2> QED
    BY <2>1 DEF Tables
<1> DEFINE cut == {SizeAt(C, r) : r \in (2 .. C.maxMode - 1) \ Lost(C, ConOutEntry(C, E))}
           met == {SizeAt(E, r) : r \in (2 .. E.maxMode - 1) \ Lost(E, StdErrEntry(C, E))}
<1>2. Offered(GetIntersection(C, ConOutEntry(C, E))) = cut
  BY CutSound
<1>3. Offered(GetIntersection(E, StdErrEntry(C, E))) = met
  BY CutSound
<1>4. \A r \in 2 .. C.maxMode - 1 : r \notin Lost(C, ConOutEntry(C, E)) <=> FirstRow(E, SizeAt(C, r)) # -1
  <2>1. \A r \in 2 .. C.maxMode - 1 :
          ConOutEntry(C, E)[r] = IF FirstRow(E, SizeAt(C, r)) = -1 THEN -1 ELSE 1
    BY <1>1 DEF ConOutEntry
  <2> QED
    BY <2>1 DEF Lost
<1>5. \A r \in 2 .. E.maxMode - 1 : r \notin Lost(E, StdErrEntry(C, E)) <=> r \in Met(C, E)
  <2>1. \A r \in 2 .. E.maxMode - 1 : StdErrEntry(C, E)[r] = IF r \in Met(C, E) THEN 1 ELSE -1
    BY <1>1 DEF StdErrEntry
  <2> QED
    BY <2>1 DEF Lost
<1>6. ASSUME NEW r \in 2 .. C.maxMode - 1, FirstRow(E, SizeAt(C, r)) # -1
      PROVE  \E q \in 2 .. E.maxMode - 1 : q \in Met(C, E) /\ SizeAt(E, q) = SizeAt(C, r)
  <2> DEFINE q == FirstRow(E, SizeAt(C, r))
  <2>1. q \in 0 .. E.maxMode - 1 /\ SizeAt(E, q) = SizeAt(C, r)
    BY <1>1, <1>6, FirstRowFacts
  <2>2. r \in 0 .. C.maxMode - 1 /\ r >= 2
    BY <1>1
  <2>3. q \in Met(C, E)
    BY <2>2 DEF Met
  <2> HIDE DEF q
  <2>4. /\ SizeAt(C, r) # Base /\ SizeAt(C, r) # NoSize
        /\ \A e \in Devs : Len(Modes[e]) > 1 => SizeAt(C, r) # Modes[e][2]
    BY <2>2, RowSizes
  <2>5. q # 0 /\ q # 1
    BY <2>1, <2>4, RowSizes
  <2>6. q \in 2 .. E.maxMode - 1
    BY <1>1, <2>1, <2>5
  <2> QED
    BY <2>1, <2>3, <2>6
<1>7. ASSUME NEW q \in 2 .. E.maxMode - 1, q \in Met(C, E)
      PROVE  \E r \in 2 .. C.maxMode - 1 : FirstRow(E, SizeAt(C, r)) # -1 /\ SizeAt(C, r) = SizeAt(E, q)
  <2>1. PICK r \in 0 .. C.maxMode - 1 : q = FirstRow(E, SizeAt(C, r))
    BY <1>7 DEF Met
  <2>2. q # -1 /\ q \in 0 .. E.maxMode - 1 /\ q >= 2
    BY <1>1
  <2>3. SizeAt(E, q) = SizeAt(C, r)
    BY <1>1, <2>1, <2>2, FirstRowFacts
  <2>4. /\ SizeAt(E, q) # Base /\ SizeAt(E, q) # NoSize
        /\ \A e \in Devs : Len(Modes[e]) > 1 => SizeAt(E, q) # Modes[e][2]
    BY <2>2, RowSizes
  <2>5. r # 0 /\ r # 1
    BY <2>3, <2>4, RowSizes
  <2>6. r \in 2 .. C.maxMode - 1
    BY <1>1, <2>5
  <2> QED
    BY <2>1, <2>2, <2>3, <2>6
<1>8. \A x : x \in cut => x \in met
  <2> TAKE x
  <2>1. SUFFICES ASSUME x \in cut PROVE x \in met
    OBVIOUS
  <2>2. PICK r \in (2 .. C.maxMode - 1) \ Lost(C, ConOutEntry(C, E)) : x = SizeAt(C, r)
    BY <2>1
  <2>3. PICK q \in 2 .. E.maxMode - 1 : q \in Met(C, E) /\ SizeAt(E, q) = SizeAt(C, r)
    BY <1>4, <1>6, <2>2
  <2> QED
    BY <1>5, <2>2, <2>3
<1>9. \A x : x \in met => x \in cut
  <2> TAKE x
  <2>1. SUFFICES ASSUME x \in met PROVE x \in cut
    OBVIOUS
  <2>2. PICK q \in (2 .. E.maxMode - 1) \ Lost(E, StdErrEntry(C, E)) : x = SizeAt(E, q)
    BY <2>1
  <2>3. PICK r \in 2 .. C.maxMode - 1 : FirstRow(E, SizeAt(C, r)) # -1 /\ SizeAt(C, r) = SizeAt(E, q)
    BY <1>5, <1>7, <2>2
  <2> QED
    BY <1>4, <2>2, <2>3
<1> HIDE DEF cut, met
<1>10. cut = met
  BY <1>8, <1>9
<1> QED
  BY <1>2, <1>3, <1>10
-----------------------------------------------------------------------------
(* The whole state.                                                        *)
Parts == {"sp", "dev", "gop", "pcd"}

WorldOK(w) ==
  /\ DOMAIN w = Parts
  /\ DOMAIN w.sp = Splitters /\ \A s \in Splitters : Sound(w.sp[s])
  /\ DOMAIN w.dev = Devs /\ \A d \in Devs : "mode" \in DOMAIN w.dev[d]
  /\ w.pcd # NoSize

AgreeIn(w) ==
  w.sp["ConOut"].list # <<>> /\ w.sp["StdErr"].list # <<>>
    /\ Head(w.sp["ConOut"].list) \in ToSet(w.sp["StdErr"].list)
  => Offered(w.sp["ConOut"]) = Offered(w.sp["StdErr"])

InStepIn(w, s) ==
  \A d \in ToSet(w.sp[s].list) : SizeOf(d, w.dev[d].mode) = SizeAt(w.sp[s], w.sp[s].mode)

(* Calls on the consoles leave the tables alone.                           *)
Calls(w, v) == WorldOK(v) /\ \A t \in Splitters : SameTables(w.sp[t], v.sp[t])

LEMMA CallsKeep ==
  ASSUME NEW w, WorldOK(w), NEW v, DOMAIN v = Parts, DOMAIN v.sp = Splitters,
         \A t \in Splitters : SameTables(w.sp[t], v.sp[t]) /\ v.sp[t].mode \in Int,
         DOMAIN v.dev = Devs, \A d \in Devs : "mode" \in DOMAIN v.dev[d], v.pcd # NoSize
  PROVE  Calls(w, v)
<1>1. \A t \in Splitters : Sound(v.sp[t])
  BY TablesKept DEF WorldOK
<1> QED
  BY <1>1 DEF Calls, WorldOK

LEMMA CallsTrans ==
  ASSUME NEW w, NEW v, NEW u, Calls(w, v), Calls(v, u)
  PROVE  Calls(w, u)
BY DEF Calls, SameTables

LEMMA CallsAgree ==
  ASSUME NEW w, WorldOK(w), AgreeIn(w), NEW v, Calls(w, v)
  PROVE  AgreeIn(v)
<1>1. \A t \in Splitters : v.sp[t].list = w.sp[t].list /\ Offered(v.sp[t]) = Offered(w.sp[t])
  <2> TAKE t \in Splitters
  <2>1. Sound(w.sp[t]) /\ SameTables(w.sp[t], v.sp[t])
    BY DEF WorldOK, Calls
  <2>2. \A r : SizeAt(v.sp[t], r) = SizeAt(w.sp[t], r)
    BY <2>1 DEF SizeAt, Cell, SameTables
  <2>3. v.sp[t].maxMode = w.sp[t].maxMode /\ v.sp[t].list = w.sp[t].list
    BY <2>1 DEF SameTables
  <2> QED
    BY <2>2, <2>3 DEF Offered
<1>2. "ConOut" \in Splitters /\ "StdErr" \in Splitters
  BY DEF Splitters
<1> QED
  BY <1>1, <1>2 DEF AgreeIn

(* Writing one splitter, and the consoles.                                 *)
LEMMA PutFacts ==
  ASSUME NEW w, DOMAIN w = Parts, DOMAIN w.sp = Splitters, NEW s \in Splitters, NEW S
  PROVE  LET v == [w EXCEPT !.sp[s] = S]
         IN /\ DOMAIN v = Parts /\ DOMAIN v.sp = Splitters /\ v.sp[s] = S
            /\ \A t \in Splitters : t # s => v.sp[t] = w.sp[t]
            /\ v.dev = w.dev /\ v.pcd = w.pcd /\ v.gop = w.gop
BY DEF Parts

LEMMA PutBothFacts ==
  ASSUME NEW w, DOMAIN w = Parts, DOMAIN w.sp = Splitters, NEW s \in Splitters, NEW S, NEW D
  PROVE  LET v == [w EXCEPT !.sp[s] = S, !.dev = D]
         IN /\ DOMAIN v = Parts /\ DOMAIN v.sp = Splitters /\ v.sp[s] = S
            /\ \A t \in Splitters : t # s => v.sp[t] = w.sp[t]
            /\ v.dev = D /\ v.pcd = w.pcd
BY DEF Parts

(* ConSplitterTextOutSetMode changes the mode and the cursor, and the       *)
(* consoles.                                                               *)
LEMMA ModeSet ==
  ASSUME NEW S, DOMAIN S = Fields, NEW m \in Int
  PROVE  SameTables(S, TextOutSetMode(S, m)) /\ TextOutSetMode(S, m).mode = m
BY DEF TextOutSetMode, SameTables, Fields

LEMMA ScreenCleared ==
  ASSUME NEW S, DOMAIN S = Fields
  PROVE  SameTables(S, TextOutClearScreen(S)) /\ TextOutClearScreen(S).mode = S.mode
BY DEF TextOutClearScreen, SameTables, Fields

LEMMA SameAsItself == ASSUME NEW S PROVE SameTables(S, S)
BY DEF SameTables

LEMMA SplitterFacts ==
  ASSUME NEW w, WorldOK(w), NEW s \in Splitters
  PROVE  /\ Sound(w.sp[s]) /\ Shape(w.sp[s]) /\ DOMAIN w.sp[s] = Fields /\ w.sp[s].mode \in Int
         /\ w.sp[s].list \in Seq(Devs)
BY DEF WorldOK, Sound, Shape

LEMMA CallsItself == ASSUME NEW w, WorldOK(w) PROVE Calls(w, w)
BY SameAsItself DEF Calls

LEMMA SetModeCalls ==
  ASSUME NEW w, WorldOK(w), NEW s \in Splitters, NEW m \in Int, NEW bad
  PROVE  /\ Calls(w, SetMode(w, s, m, bad))
         /\ \A t \in Splitters : t # s => SetMode(w, s, m, bad).sp[t] = w.sp[t]
         /\ SetMode(w, s, m, bad).pcd = w.pcd
<1> DEFINE S == w.sp[s]
           D == [d \in Devs |-> IF d \in Consoles(w, s) /\ Takes(S, m, d, bad)
                                THEN [w.dev[d] EXCEPT !.mode = Row(S, m, d)] ELSE w.dev[d]]
           cleared == [w EXCEPT !.sp[s] = TextOutClearScreen(S)]
           set == [w EXCEPT !.sp[s] = TextOutSetMode(S, m), !.dev = D]
<1>1. SetMode(w, s, m, bad) = IF m >= S.maxMode THEN w ELSE IF S.mode = m THEN cleared ELSE set
  BY DEF SetMode
<1>2. /\ DOMAIN w = Parts /\ DOMAIN w.sp = Splitters /\ DOMAIN w.dev = Devs
      /\ \A d \in Devs : "mode" \in DOMAIN w.dev[d]
      /\ w.pcd # NoSize
  BY DEF WorldOK
<1>3. DOMAIN S = Fields /\ S.mode \in Int
  BY SplitterFacts
<1>4. \A t \in Splitters : SameTables(w.sp[t], w.sp[t]) /\ w.sp[t].mode \in Int
  BY SplitterFacts, SameAsItself
<1>5. DOMAIN D = Devs /\ \A d \in Devs : "mode" \in DOMAIN D[d]
  BY <1>2
<1> HIDE DEF D
<1>6. Calls(w, cleared) /\ (\A t \in Splitters : t # s => cleared.sp[t] = w.sp[t]) /\ cleared.pcd = w.pcd
  <2>1. /\ DOMAIN cleared = Parts /\ DOMAIN cleared.sp = Splitters
        /\ cleared.sp[s] = TextOutClearScreen(S)
        /\ \A t \in Splitters : t # s => cleared.sp[t] = w.sp[t]
        /\ cleared.dev = w.dev /\ cleared.pcd = w.pcd
    BY <1>2, PutFacts
  <2> HIDE DEF cleared
  <2>2. SameTables(S, TextOutClearScreen(S)) /\ TextOutClearScreen(S).mode = S.mode
    BY <1>3, ScreenCleared
  <2>3. \A t \in Splitters : SameTables(w.sp[t], cleared.sp[t]) /\ cleared.sp[t].mode \in Int
    BY <1>3, <1>4, <2>1, <2>2
  <2>4. Calls(w, cleared)
    BY <1>2, <2>1, <2>3, CallsKeep
  <2> QED
    BY <2>1, <2>4
<1>7. Calls(w, set) /\ (\A t \in Splitters : t # s => set.sp[t] = w.sp[t]) /\ set.pcd = w.pcd
  <2>1. /\ DOMAIN set = Parts /\ DOMAIN set.sp = Splitters
        /\ set.sp[s] = TextOutSetMode(S, m)
        /\ \A t \in Splitters : t # s => set.sp[t] = w.sp[t]
        /\ set.dev = D /\ set.pcd = w.pcd
    BY <1>2, PutBothFacts
  <2> HIDE DEF set
  <2>2. SameTables(S, TextOutSetMode(S, m)) /\ TextOutSetMode(S, m).mode = m
    BY <1>3, ModeSet
  <2>3. \A t \in Splitters : SameTables(w.sp[t], set.sp[t]) /\ set.sp[t].mode \in Int
    BY <1>4, <2>1, <2>2
  <2>4. Calls(w, set)
    BY <1>2, <1>5, <2>1, <2>3, CallsKeep
  <2> QED
    BY <2>1, <2>4
<1>8. Calls(w, w)
  BY CallsItself
<1> HIDE DEF cleared, set, S
<1> QED
  BY <1>1, <1>6, <1>7, <1>8

(* ConSplitterTextOutSetAttribute changes the colours.                     *)
LEMMA AttributeCalls ==
  ASSUME NEW w, WorldOK(w), NEW s \in Splitters, NEW a
  PROVE  /\ Calls(w, SetAttribute(w, s, a))
         /\ InStepIn(w, s) => InStepIn(SetAttribute(w, s, a), s)
<1> DEFINE S == [w.sp[s] EXCEPT !.attr = a]
           D == [d \in Devs |-> IF d \in Consoles(w, s)
                                THEN [w.dev[d] EXCEPT !.attr = a] ELSE w.dev[d]]
           v == [w EXCEPT !.sp[s] = S, !.dev = D]
<1>1. SetAttribute(w, s, a) = IF a > 127 THEN w ELSE v
  BY DEF SetAttribute
<1>2. /\ DOMAIN w = Parts /\ DOMAIN w.sp = Splitters /\ DOMAIN w.dev = Devs
      /\ \A d \in Devs : "mode" \in DOMAIN w.dev[d]
      /\ w.pcd # NoSize
  BY DEF WorldOK
<1>3. DOMAIN w.sp[s] = Fields /\ w.sp[s].mode \in Int /\ w.sp[s].list \in Seq(Devs)
  BY SplitterFacts
<1>4. \A t \in Splitters : SameTables(w.sp[t], w.sp[t]) /\ w.sp[t].mode \in Int
  BY SplitterFacts, SameAsItself
<1>5. DOMAIN D = Devs /\ \A d \in Devs : "mode" \in DOMAIN D[d] /\ D[d].mode = w.dev[d].mode
  BY <1>2
<1>6. SameTables(w.sp[s], S) /\ S.mode = w.sp[s].mode
  BY <1>3 DEF SameTables, Fields
<1> HIDE DEF D, S
<1>7. /\ DOMAIN v = Parts /\ DOMAIN v.sp = Splitters /\ v.sp[s] = S
      /\ \A t \in Splitters : t # s => v.sp[t] = w.sp[t]
      /\ v.dev = D /\ v.pcd = w.pcd
  BY <1>2, PutBothFacts
<1> HIDE DEF v
<1>8. Calls(w, v)
  <2>1. \A t \in Splitters : SameTables(w.sp[t], v.sp[t]) /\ v.sp[t].mode \in Int
    BY <1>3, <1>4, <1>6, <1>7
  <2> QED
    BY <1>2, <1>5, <1>7, <2>1, CallsKeep
<1>9. InStepIn(w, s) => InStepIn(v, s)
  <2>1. SizeAt(S, S.mode) = SizeAt(w.sp[s], w.sp[s].mode) /\ S.list = w.sp[s].list
    BY <1>6 DEF SizeAt, Cell, SameTables
  <2>2. \A d \in ToSet(w.sp[s].list) : d \in Devs
    BY <1>3 DEF ToSet
  <2> QED
    BY <1>5, <1>7, <2>1, <2>2 DEF InStepIn
<1>10. Calls(w, w)
  BY CallsItself
<1> QED
  BY <1>1, <1>8, <1>9, <1>10
-----------------------------------------------------------------------------
(* What the row of a mode names for a console.                             *)
LEMMA RowNames ==
  ASSUME NEW S, Sound(S), S.list # <<>>, NEW r \in 0 .. S.maxMode - 1, NEW d \in ToSet(S.list)
  PROVE  /\ d \in Devs
         /\ \/ SizeOf(d, Row(S, r, d)) = SizeAt(S, r)
            \/ r = 1 /\ (SizeAt(S, r) = NoSize \/ SizeOf(d, Row(S, r, d)) = NoSize)
<1>1. S.list \in Seq(Devs) /\ RowOK(S, S.list, r)
  BY DEF Sound, Shape, Tables
<1> DEFINE c == CHOOSE i \in 0 .. Len(S.list) - 1 : S.list[i + 1] = d
<1>2. \E i \in 0 .. Len(S.list) - 1 : S.list[i + 1] = d
  <2>1. PICK i \in 1 .. Len(S.list) : S.list[i] = d
    BY <1>1 DEF ToSet
  <2>2. i - 1 \in 0 .. Len(S.list) - 1 /\ (i - 1) + 1 = i
    BY <1>1
  <2> QED
    BY <2>1, <2>2
<1>3. c \in 0 .. Len(S.list) - 1 /\ S.list[c + 1] = d
  BY <1>2
<1>4. Row(S, r, d) = At(S, r, c)
  BY DEF Row, At
<1> HIDE DEF c
<1>5. d \in Devs
  BY <1>1 DEF ToSet
<1> QED
  BY <1>1, <1>3, <1>4, <1>5 DEF RowOK

(* A mode that all consoles take brings them in step.                      *)
LEMMA SetModeSyncs ==
  ASSUME NEW w, WorldOK(w), NEW s \in Splitters, w.sp[s].list # <<>>,
         NEW m \in 0 .. w.sp[s].maxMode - 1, w.sp[s].mode # m, SizeAt(w.sp[s], m) # NoSize,
         ~SetModeFails(w, s, m, {})
  PROVE  InStepIn(SetMode(w, s, m, {}), s)
<1> DEFINE S == w.sp[s]
           D == [d \in Devs |-> IF d \in Consoles(w, s) /\ Takes(S, m, d, {})
                                THEN [w.dev[d] EXCEPT !.mode = Row(S, m, d)] ELSE w.dev[d]]
           set == [w EXCEPT !.sp[s] = TextOutSetMode(S, m), !.dev = D]
<1>1. Sound(S) /\ DOMAIN S = Fields /\ S.mode \in Int /\ S.maxMode \in Int
  <2>1. Sound(S) /\ DOMAIN S = Fields /\ S.mode \in Int
    BY SplitterFacts
  <2>2. Tables(S) /\ Slots(S) \in Nat
    BY <2>1 DEF Sound, Shape
  <2> QED
    BY <2>1, <2>2 DEF Tables
<1>2. ~(m >= S.maxMode) /\ m \in Int
  BY <1>1
<1>3. SetMode(w, s, m, {}) = set
  BY <1>2 DEF SetMode
<1>4. \A d \in ToSet(S.list) : Takes(S, m, d, {}) /\ d \in Devs
  <2>1. \A d \in Consoles(w, s) : Takes(S, m, d, {})
    BY <1>2 DEF SetModeFails
  <2> QED
    BY <1>1, <2>1, RowNames DEF Consoles
<1>5. \A d \in ToSet(S.list) : SizeOf(d, Row(S, m, d)) = SizeAt(S, m)
  <2>1. \A d \in ToSet(S.list) : SizeOf(d, Row(S, m, d)) # NoSize
    BY <1>4 DEF Takes
  <2> QED
    BY <1>1, <2>1, RowNames
<1>6. DOMAIN w = Parts /\ DOMAIN w.sp = Splitters /\ \A d \in Devs : "mode" \in DOMAIN w.dev[d]
  BY DEF WorldOK
<1>7. \A d \in ToSet(S.list) : D[d].mode = Row(S, m, d)
  BY <1>4, <1>6 DEF Consoles
<1> HIDE DEF D
<1>8. set.sp[s] = TextOutSetMode(S, m) /\ set.dev = D
  BY <1>6, PutBothFacts
<1> HIDE DEF set
<1>9. SameTables(S, TextOutSetMode(S, m)) /\ TextOutSetMode(S, m).mode = m
  BY <1>1, <1>2, ModeSet
<1>10. SizeAt(set.sp[s], set.sp[s].mode) = SizeAt(S, m) /\ set.sp[s].list = S.list
  BY <1>8, <1>9 DEF SizeAt, Cell, SameTables
<1> QED
  BY <1>3, <1>5, <1>7, <1>8, <1>10 DEF InStepIn

(* Mode 0 is taken by all.                                                 *)
LEMMA BaseTaken ==
  ASSUME NEW w, WorldOK(w), NEW s \in Splitters, w.sp[s].list # <<>>
  PROVE  /\ 0 \in 0 .. w.sp[s].maxMode - 1 /\ w.sp[s].maxMode \in Int
         /\ SizeAt(w.sp[s], 0) = Base /\ Base # NoSize
         /\ ~SetModeFails(w, s, 0, {})
<1> DEFINE S == w.sp[s]
<1>1. Sound(S)
  BY SplitterFacts
<1>2. 0 \in 0 .. S.maxMode - 1 /\ S.maxMode \in Int /\ ~(0 >= S.maxMode)
  <2>1. Tables(S) /\ Slots(S) \in Nat
    BY <1>1 DEF Sound, Shape
  <2> QED
    BY <2>1 DEF Tables
<1>3. SizeAt(S, 0) = Base
  BY <1>1, <1>2, RowSizes
<1>4. Base # NoSize
  BY DEF Base, NoSize
<1>5. \A d \in ToSet(S.list) : SizeOf(d, Row(S, 0, d)) # NoSize
  BY <1>1, <1>2, <1>3, <1>4, RowNames
<1> QED
  BY <1>2, <1>3, <1>4, <1>5 DEF SetModeFails, Takes, Consoles

(* Only mode 0 has its size.                                               *)
LEMMA OnlyBase ==
  ASSUME NEW S, Sound(S), S.list # <<>>, NEW r \in 0 .. S.maxMode - 1, SizeAt(S, r) = Base
  PROVE  r = 0
<1>1. r \in Int /\ (r = 0 \/ r = 1 \/ r >= 2)
  <2>1. S.maxMode \in Int
    BY DEF Sound, Shape, Tables
  <2> QED
    BY <2>1
<1>2. Base # NoSize
  BY DEF Base, NoSize
<1>3. r # 1
  <2>1. \A e \in Devs : Len(Modes[e]) > 1 => Modes[e][2] # Base
    BY ModesAssumption
  <2> QED
    BY <1>2, <2>1, RowSizes
<1>4. ~(r >= 2)
  BY RowSizes
<1> QED
  BY <1>1, <1>3, <1>4

(* The mode after the call is the one before or the one asked for.         *)
LEMMA SetModeMode ==
  ASSUME NEW w, WorldOK(w), NEW s \in Splitters, NEW m \in Int, NEW bad
  PROVE  SetMode(w, s, m, bad).sp[s].mode \in {w.sp[s].mode, m}
<1> DEFINE S == w.sp[s]
           D == [d \in Devs |-> IF d \in Consoles(w, s) /\ Takes(S, m, d, bad)
                                THEN [w.dev[d] EXCEPT !.mode = Row(S, m, d)] ELSE w.dev[d]]
           cleared == [w EXCEPT !.sp[s] = TextOutClearScreen(S)]
           set == [w EXCEPT !.sp[s] = TextOutSetMode(S, m), !.dev = D]
<1>1. SetMode(w, s, m, bad) = IF m >= S.maxMode THEN w ELSE IF S.mode = m THEN cleared ELSE set
  BY DEF SetMode
<1> HIDE DEF D
<1>2. DOMAIN w = Parts /\ DOMAIN w.sp = Splitters /\ DOMAIN S = Fields
  BY SplitterFacts DEF WorldOK
<1>3. cleared.sp[s] = TextOutClearScreen(S)
  BY <1>2, PutFacts
<1>4. set.sp[s] = TextOutSetMode(S, m)
  BY <1>2, PutBothFacts
<1>5. TextOutClearScreen(S).mode = S.mode /\ TextOutSetMode(S, m).mode = m
  BY <1>2, ScreenCleared, ModeSet
<1> HIDE DEF cleared, set
<1> QED
  BY <1>1, <1>3, <1>4, <1>5

(* What the wanted size is plays no part in what is shown.                 *)
LEMMA WantedSet ==
  ASSUME NEW w, WorldOK(w), NEW size, size # NoSize
  PROVE  /\ Calls(w, [w EXCEPT !.pcd = size])
         /\ \A s \in Splitters : InStepIn(w, s) => InStepIn([w EXCEPT !.pcd = size], s)
<1> DEFINE v == [w EXCEPT !.pcd = size]
<1>1. DOMAIN v = Parts /\ v.sp = w.sp /\ v.dev = w.dev /\ v.pcd = size
  BY DEF WorldOK, Parts
<1> HIDE DEF v
<1>2. Calls(w, v)
  BY <1>1, SameAsItself DEF Calls, WorldOK
<1>3. \A s \in Splitters : InStepIn(w, s) => InStepIn(v, s)
  BY <1>1 DEF InStepIn
<1> QED
  BY <1>2, <1>3 DEF v

(* ConsplitterSetConsoleOutMode: the wanted size if all consoles take it,  *)
(* or else the size of mode 0, which all take.                             *)
LEMMA ConsoleModeSet ==
  ASSUME NEW w, WorldOK(w), NEW s \in Splitters, w.sp[s].list # <<>>, NEW bad
  PROVE  LET X == SetConsoleOutMode(w, s, bad)
         IN /\ Calls(w, X)
            /\ w.sp[s].mode >= w.sp[s].maxMode /\ bad = {} => InStepIn(X, s)
<1> DEFINE S == w.sp[s]
           n == S.maxMode
           Like(size) == {m \in 0 .. n - 1 : TextOutQueryMode(S, m) = size}
           prefer == IF Like(w.pcd) = {} THEN Unset ELSE Max(Like(w.pcd))
           v == SetMode(w, s, prefer, bad)
           u == SetMode(v, s, 0, bad)
           X == SetConsoleOutMode(w, s, bad)
<1>1. /\ Sound(S) /\ DOMAIN S = Fields /\ S.mode \in Int /\ Tables(S)
      /\ S.cap \in Nat /\ S.cap > 0 /\ Slots(S) \in Nat
      /\ n \in 1 .. Slots(S) /\ n <= Unset /\ DOMAIN S.map = 0 .. S.cap * Slots(S) - 1
      /\ w.pcd # NoSize
  <2>1. Sound(S) /\ DOMAIN S = Fields /\ S.mode \in Int /\ w.pcd # NoSize
    BY SplitterFacts DEF WorldOK
  <2>2. Shape(S)
    BY <2>1 DEF Sound
  <2>3. Slots(S) \in Nat /\ S.cap \in Nat /\ S.cap > 0
    BY <2>2, ShapeFacts
  <2> QED
    BY <2>1, <2>3, TableFacts
<1>2. n \in Int /\ n >= 1 /\ Slots(S) > 0
  BY <1>1
<1>3. S.map # <<>>
  <2>1. S.cap * Slots(S) > 0
    BY <1>1, <1>2
  <2>2. 0 \in DOMAIN S.map
    BY <1>1, <2>1
  <2> QED
    BY <2>2
<1>4. \A m \in 0 .. n - 1 : TextOutQueryMode(S, m) = SizeAt(S, m)
  BY <1>2, <1>3 DEF TextOutQueryMode
<1>5. \A size : Like(size) \in SUBSET Int /\ (\A m \in Like(size) : m <= n)
                /\ (\A m : m \in Like(size) <=> m \in 0 .. n - 1 /\ SizeAt(S, m) = size)
  BY <1>2, <1>4
<1>6. X = IF ~SetModeFails(w, s, prefer, bad) THEN v
          ELSE [SetMode(v, s, Max(Like(Base)), bad) EXCEPT !.pcd = Base]
  BY DEF SetConsoleOutMode
<1> HIDE DEF Like, X
<1>7. \/ prefer \in 0 .. n - 1 /\ SizeAt(S, prefer) = w.pcd
      \/ prefer = Unset
  <2>1. CASE Like(w.pcd) = {}
    BY <2>1
  <2>2. CASE Like(w.pcd) # {}
    <3>1. Max(Like(w.pcd)) \in Like(w.pcd)
      BY <1>2, <1>5, <2>2, MaxIsGreatest
    <3> QED
      BY <1>5, <2>2, <3>1
  <2> QED
    BY <2>1, <2>2
<1>8. Max(Like(Base)) = 0
  <2>1. 0 \in Like(Base)
    BY <1>2, <1>5, BaseTaken
  <2>2. Max(Like(Base)) \in Like(Base)
    BY <1>2, <1>5, <2>1, MaxIsGreatest
  <2>3. Max(Like(Base)) \in 0 .. n - 1 /\ SizeAt(S, Max(Like(Base))) = Base
    BY <1>5, <2>2
  <2> QED
    BY <1>1, <2>3, OnlyBase
<1>9. prefer \in Int /\ (prefer = Unset => prefer >= n)
  BY <1>2, <1>1, <1>7 DEF Unset
<1> HIDE DEF prefer, n
<1>10. Calls(w, v) /\ WorldOK(v)
  BY <1>9, SetModeCalls DEF Calls
<1>11. v.sp[s].mode \in {S.mode, prefer} /\ v.sp[s].list = S.list
  <2>1. SameTables(S, v.sp[s])
    BY <1>10 DEF Calls
  <2> QED
    BY <1>9, <2>1, SetModeMode DEF SameTables
<1> HIDE DEF v
<1>12. Base # NoSize
  BY DEF Base, NoSize
<1>13. CASE ~SetModeFails(w, s, prefer, bad)
  <2>1. X = v
    BY <1>6, <1>13
  <2>2. prefer \in 0 .. n - 1 /\ SizeAt(S, prefer) = w.pcd
    BY <1>7, <1>9, <1>13 DEF SetModeFails, n
  <2>3. ASSUME S.mode >= n, bad = {} PROVE InStepIn(X, s)
    <3>1. S.mode # prefer
      BY <1>1, <1>2, <2>2, <2>3
    <3>2. InStepIn(SetMode(w, s, prefer, {}), s)
      BY <1>1, <1>13, <2>2, <2>3, <3>1, SetModeSyncs DEF n
    <3> QED
      BY <2>1, <2>3, <3>2 DEF v
  <2> QED
    BY <1>10, <2>1, <2>3 DEF X, n
<1>14. CASE SetModeFails(w, s, prefer, bad)
  <2>1. X = [u EXCEPT !.pcd = Base]
    BY <1>6, <1>8, <1>14
  <2>2. Calls(v, u) /\ WorldOK(u)
    BY <1>10, SetModeCalls DEF Calls
  <2>3. ASSUME S.mode >= n, bad = {} PROVE InStepIn(u, s)
    <3>1. prefer # 0
      BY <1>14, <2>3, BaseTaken
    <3>2. v.sp[s].mode # 0
      BY <1>1, <1>2, <1>11, <2>3, <3>1
    <3>3. v.sp[s].list # <<>>
      BY <1>11
    <3>4. /\ 0 \in 0 .. v.sp[s].maxMode - 1 /\ SizeAt(v.sp[s], 0) # NoSize
          /\ ~SetModeFails(v, s, 0, {})
      BY <1>10, <3>3, BaseTaken
    <3>5. InStepIn(SetMode(v, s, 0, {}), s)
      BY <1>10, <3>2, <3>3, <3>4, SetModeSyncs
    <3> QED
      BY <2>3, <3>5
  <2> HIDE DEF u
  <2>4. Calls(u, X) /\ (InStepIn(u, s) => InStepIn(X, s))
    BY <1>12, <2>1, <2>2, WantedSet
  <2>5. Calls(w, X)
    BY <1>10, <2>2, <2>4, CallsTrans
  <2> QED
    BY <2>3, <2>4, <2>5 DEF X, n
<1> QED
  BY <1>13, <1>14
-----------------------------------------------------------------------------
(* The graphics modes are no part of the tables.                           *)
LEMMA OthersChange ==
  ASSUME NEW w, WorldOK(w), NEW v, DOMAIN v = Parts, v.sp = w.sp, v.pcd = w.pcd,
         DOMAIN v.dev = Devs, \A d \in Devs : "mode" \in DOMAIN v.dev[d]
  PROVE  Calls(w, v)
BY SameAsItself DEF Calls, WorldOK

LEMMA GopSetModeCalls ==
  ASSUME NEW w, WorldOK(w), NEW m
  PROVE  Calls(w, GopSetMode(w, m)) /\ GopSetMode(w, m).sp = w.sp
<1> DEFINE g == w.gop
           single == g.n = 1 /\ Screens(w) # <<>>
           Can(d) == d \in ToSet(Screens(w)) /\ g.modes[m + 1] \in ToSet(GopModes[d])
           D == [d \in Devs |-> IF Can(d) THEN [w.dev[d] EXCEPT !.res = g.modes[m + 1]] ELSE w.dev[d]]
           v == [w EXCEPT !.dev = D, !.gop.mode = m, !.gop.info = g.modes[m + 1], !.gop.direct = single]
<1>1. GopSetMode(w, m) = IF m >= Len(g.modes) THEN w ELSE v
  BY DEF GopSetMode
<1>2. DOMAIN w = Parts /\ \A d \in Devs : "mode" \in DOMAIN w.dev[d]
  BY DEF WorldOK
<1>3. DOMAIN D = Devs /\ \A d \in Devs : "mode" \in DOMAIN D[d]
  BY <1>2
<1> HIDE DEF D, single, g
<1>4. DOMAIN v = Parts /\ v.sp = w.sp /\ v.pcd = w.pcd /\ v.dev = D
  BY <1>2 DEF Parts
<1> HIDE DEF v
<1>5. Calls(w, v)
  BY <1>3, <1>4, OthersChange
<1> QED
  BY <1>1, <1>4, <1>5, CallsItself

LEMMA GraphicsAdded ==
  ASSUME NEW w, WorldOK(w), NEW d
  PROVE  LET v == Install(AddGraphicsOutputMode(w, d), d)
         IN Calls(w, v) /\ v.sp = w.sp
<1> DEFINE first == w.gop.n = 0
           modes == SharedModes(w.gop, d)
           k == ChosenPlace(modes, w.dev[d].res)
           info == IF first THEN w.dev[d].res ELSE w.gop.info
           g == [w.gop EXCEPT !.n = @ + 1, !.modes = modes, !.info = info, !.direct = first]
           v == [w EXCEPT !.gop = g]
           follows == [v EXCEPT !.gop.mode = k, !.dev[d].res = modes[k + 1]]
           none == [v EXCEPT !.gop.mode = 65535]
           a == AddGraphicsOutputMode(w, d)
           x == Install(a, d)
<1>1. a = IF modes[k + 1] = info THEN follows ELSE GopSetMode(none, k)
  BY DEF AddGraphicsOutputMode
<1>2. DOMAIN w = Parts /\ DOMAIN w.dev = Devs /\ \A e \in Devs : "mode" \in DOMAIN w.dev[e]
  BY DEF WorldOK
<1> HIDE DEF a, first, modes, k, info, g
<1>3. DOMAIN v = Parts /\ v.sp = w.sp /\ v.pcd = w.pcd /\ v.dev = w.dev
  BY <1>2 DEF Parts
<1> HIDE DEF v
<1>4. DOMAIN none = Parts /\ none.sp = w.sp /\ none.pcd = w.pcd /\ none.dev = w.dev
  BY <1>3 DEF Parts
<1> HIDE DEF none
<1>5. Calls(w, none)
  BY <1>2, <1>4, OthersChange
<1>6. Calls(none, GopSetMode(none, k)) /\ GopSetMode(none, k).sp = none.sp
  BY <1>5, GopSetModeCalls DEF Calls
<1>7. Calls(w, GopSetMode(none, k)) /\ GopSetMode(none, k).sp = w.sp
  BY <1>4, <1>5, <1>6, CallsTrans
<1>8. Calls(w, follows) /\ follows.sp = w.sp
  <2> DEFINE D == [w.dev EXCEPT ![d].res = modes[k + 1]]
  <2>1. DOMAIN D = Devs /\ \A e \in Devs : "mode" \in DOMAIN D[e]
    BY <1>2
  <2>2. DOMAIN follows = Parts /\ follows.sp = w.sp /\ follows.pcd = w.pcd /\ follows.dev = D
    BY <1>3 DEF Parts
  <2> HIDE DEF D, follows
  <2> QED
    BY <2>1, <2>2, OthersChange
<1> HIDE DEF follows
<1>9. Calls(w, a) /\ a.sp = w.sp
  BY <1>1, <1>7, <1>8
<1>10. x = IF Gop(d) /\ a.gop.n = 1 THEN [a EXCEPT !.gop.installed = TRUE] ELSE a
  BY DEF Install
<1> HIDE DEF x
<1>11. Calls(w, x) /\ x.sp = w.sp
  <2> DEFINE y == [a EXCEPT !.gop.installed = TRUE]
  <2>1. x = y \/ x = a
    BY <1>10
  <2>2. /\ DOMAIN a = Parts /\ DOMAIN a.dev = Devs /\ a.pcd # NoSize
        /\ \A e \in Devs : "mode" \in DOMAIN a.dev[e]
    BY <1>9 DEF Calls, WorldOK
  <2>3. DOMAIN y = Parts /\ y.sp = a.sp /\ y.pcd = a.pcd /\ y.dev = a.dev
    BY <2>2 DEF Parts
  <2> HIDE DEF y
  <2>4. Calls(a, y)
    BY <1>9, <2>2, <2>3, OthersChange DEF Calls
  <2>5. Calls(w, y) /\ y.sp = w.sp
    BY <1>9, <2>3, <2>4, CallsTrans
  <2> QED
    BY <1>9, <2>1, <2>5
<1> QED
  BY <1>11 DEF x, a
-----------------------------------------------------------------------------
(* ConSplitterGetIntersectionBetweenConOutAndStrErr: whichever way it goes, *)
(* the lists stay, what both offer is the same if the first console is on   *)
(* both, and a splitter without a mode stays without one.                  *)
Between(w, v) ==
  /\ WorldOK(v) /\ AgreeIn(v)
  /\ \A t \in Splitters : /\ v.sp[t].list = w.sp[t].list
                          /\ w.sp[t].list # <<>> /\ w.sp[t].mode >= w.sp[t].maxMode
                             => v.sp[t].mode >= v.sp[t].maxMode

Repaired(v, s) == IF v.sp[s].mode < 0 THEN SetMode(v, s, 0, {}) ELSE v

(* A splitter that is cut, and given mode 0 if its mode is gone.           *)
IsCut(w, v, s, entry) ==
  /\ WorldOK(v) /\ SameTables(GetIntersection(w.sp[s], entry), v.sp[s])
  /\ v.sp[s].list = w.sp[s].list
  /\ w.sp[s].mode >= w.sp[s].maxMode => v.sp[s].mode >= v.sp[s].maxMode
  /\ \A t \in Splitters : t # s => v.sp[t] = w.sp[t]

LEMMA OneCut ==
  ASSUME NEW w, WorldOK(w), NEW s \in Splitters, w.sp[s].list # <<>>, NEW entry
  PROVE  IsCut(w, Repaired([w EXCEPT !.sp[s] = GetIntersection(w.sp[s], entry)], s), s, entry)
<1> DEFINE S == w.sp[s]
           I == GetIntersection(S, entry)
           x == [w EXCEPT !.sp[s] = I]
           v == Repaired(x, s)
<1>1. Sound(S) /\ DOMAIN w = Parts /\ DOMAIN w.sp = Splitters
  BY SplitterFacts DEF WorldOK
<1>2. Sound(I) /\ I.list = S.list /\ (S.mode >= S.maxMode => I.mode >= I.maxMode)
  BY <1>1, CutSound
<1> HIDE DEF I
<1>3. /\ DOMAIN x = Parts /\ DOMAIN x.sp = Splitters /\ x.sp[s] = I
      /\ \A t \in Splitters : t # s => x.sp[t] = w.sp[t]
      /\ x.dev = w.dev /\ x.pcd = w.pcd
  BY <1>1, PutFacts
<1> HIDE DEF x
<1>4. WorldOK(x)
  BY <1>2, <1>3 DEF WorldOK
<1>5. v = IF x.sp[s].mode < 0 THEN SetMode(x, s, 0, {}) ELSE x
  BY DEF Repaired
<1> HIDE DEF v
<1>6. CASE x.sp[s].mode < 0
  <2>1. Calls(x, v) /\ \A t \in Splitters : t # s => v.sp[t] = x.sp[t]
    BY <1>4, <1>5, <1>6, SetModeCalls
  <2>2. ~(S.mode >= S.maxMode)
    <3>1. I.mode \in Int /\ I.maxMode \in Int /\ I.maxMode >= 1
      <4>1. Tables(I) /\ Slots(I) \in Nat /\ I.mode \in Int
        BY <1>2 DEF Sound, Shape
      <4> QED
        BY <4>1 DEF Tables
    <3> QED
      BY <1>2, <1>3, <1>6, <3>1
  <2>3. SameTables(I, v.sp[s]) /\ WorldOK(v)
    BY <1>3, <2>1 DEF Calls
  <2>4. v.sp[s].list = S.list
    BY <1>2, <2>3 DEF SameTables
  <2> QED
    BY <1>3, <2>1, <2>2, <2>3, <2>4 DEF v, x, I, IsCut
<1>7. CASE ~(x.sp[s].mode < 0)
  <2>1. v = x /\ SameTables(I, I)
    BY <1>5, <1>7, SameAsItself
  <2> QED
    BY <1>2, <1>3, <1>4, <2>1 DEF v, x, I, IsCut
<1> QED
  BY <1>6, <1>7

LEMMA CutBetween ==
  ASSUME NEW w, WorldOK(w), NEW v \in GetIntersectionBetween(w)
  PROVE  Between(w, v)
<1> DEFINE C == w.sp["ConOut"]
           E == w.sp["StdErr"]
           cEntry == ConOutEntry(C, E)
           eEntry == StdErrEntry(C, E)
           u == Repaired([w EXCEPT !.sp["ConOut"] = GetIntersection(C, cEntry)], "ConOut")
           both == Repaired([u EXCEPT !.sp["StdErr"] = GetIntersection(E, eEntry)], "StdErr")
<1>1. GetIntersectionBetween(w) =
        IF E.list = <<>> \/ C.list = <<>> THEN {w}
        ELSE IF Head(C.list) \in ToSet(E.list) THEN {both}
        ELSE IF Len(C.list) > 1 THEN {both, w} ELSE {w}
  BY Zenon DEF GetIntersectionBetween, Repaired, ConOutEntry, StdErrEntry, Met
<1>2. "ConOut" \in Splitters /\ "StdErr" \in Splitters /\ Splitters = {"ConOut", "StdErr"}
  BY DEF Splitters
<1>3. Sound(C) /\ Sound(E)
  BY <1>2, SplitterFacts
<1> HIDE DEF both, u, cEntry, eEntry
<1>4. \/ v = w /\ (E.list = <<>> \/ C.list = <<>> \/ Head(C.list) \notin ToSet(E.list))
      \/ v = both /\ E.list # <<>> /\ C.list # <<>>
  BY <1>1
<1>5. CASE v = w /\ (E.list = <<>> \/ C.list = <<>> \/ Head(C.list) \notin ToSet(E.list))
  BY <1>5 DEF Between, AgreeIn
<1>6. CASE v = both /\ E.list # <<>> /\ C.list # <<>>
  <2>1. /\ WorldOK(u) /\ SameTables(GetIntersection(C, cEntry), u.sp["ConOut"])
        /\ u.sp["ConOut"].list = C.list
        /\ (C.mode >= C.maxMode => u.sp["ConOut"].mode >= u.sp["ConOut"].maxMode)
        /\ u.sp["StdErr"] = E
    <3>1. IsCut(w, u, "ConOut", cEntry)
      BY <1>2, <1>6, OneCut DEF u
    <3> QED
      BY <1>2, <3>1 DEF IsCut
  <2>2. /\ WorldOK(both) /\ SameTables(GetIntersection(E, eEntry), both.sp["StdErr"])
        /\ both.sp["StdErr"].list = E.list
        /\ (E.mode >= E.maxMode => both.sp["StdErr"].mode >= both.sp["StdErr"].maxMode)
        /\ both.sp["ConOut"] = u.sp["ConOut"]
    <3>1. u.sp["StdErr"].list # <<>>
      BY <1>6, <2>1
    <3>2. IsCut(u, Repaired([u EXCEPT !.sp["StdErr"] = GetIntersection(u.sp["StdErr"], eEntry)], "StdErr"),
                "StdErr", eEntry)
      BY <1>2, <2>1, <3>1, OneCut
    <3>3. IsCut(u, both, "StdErr", eEntry)
      BY <2>1, <3>2 DEF both
    <3> QED
      BY <1>2, <2>1, <3>3 DEF IsCut
  <2>3. \A S, T : SameTables(S, T) => Offered(T) = Offered(S)
    BY DEF SameTables, Offered, SizeAt, Cell
  <2>4. Offered(both.sp["ConOut"]) = Offered(GetIntersection(C, cEntry))
    BY <2>1, <2>2, <2>3
  <2>5. Offered(both.sp["StdErr"]) = Offered(GetIntersection(E, eEntry))
    BY <2>2, <2>3
  <2>6. Offered(GetIntersection(C, cEntry)) = Offered(GetIntersection(E, eEntry))
    BY <1>3, <1>6, CutAlike DEF cEntry, eEntry
  <2>7. AgreeIn(both)
    BY <2>4, <2>5, <2>6 DEF AgreeIn
  <2>8. \A t \in Splitters : /\ both.sp[t].list = w.sp[t].list
                             /\ w.sp[t].mode >= w.sp[t].maxMode
                                => both.sp[t].mode >= both.sp[t].maxMode
    BY <1>2, <2>1, <2>2
  <2> QED
    BY <1>6, <2>2, <2>7, <2>8 DEF Between
<1> QED
  BY <1>4, <1>5, <1>6
-----------------------------------------------------------------------------
(* Consoles come and go.                                                   *)
LEMMA PutSound ==
  ASSUME NEW w, WorldOK(w), NEW s \in Splitters, NEW S, Sound(S)
  PROVE  LET v == [w EXCEPT !.sp[s] = S]
         IN WorldOK(v) /\ v.sp[s] = S /\ \A t \in Splitters : t # s => v.sp[t] = w.sp[t]
<1> DEFINE v == [w EXCEPT !.sp[s] = S]
<1>1. DOMAIN w = Parts /\ DOMAIN w.sp = Splitters
  BY DEF WorldOK
<1>2. /\ DOMAIN v = Parts /\ DOMAIN v.sp = Splitters /\ v.sp[s] = S
      /\ \A t \in Splitters : t # s => v.sp[t] = w.sp[t]
      /\ v.dev = w.dev /\ v.pcd = w.pcd
  BY <1>1, PutFacts
<1> HIDE DEF v
<1>3. WorldOK(v)
  BY <1>2 DEF WorldOK
<1> QED
  BY <1>2, <1>3 DEF v

(* The splitter has one console more, and no mode yet.                     *)
Longer(s, d) ==
  LET G == GrowList([sp[s] EXCEPT !.mode = Unset])
  IN IF G.list = <<>> THEN [AddOutputMode(G, d) EXCEPT !.list = <<d>>] ELSE SyncOutputMode(G, d)

LEMMA LongerSound ==
  ASSUME NEW s, NEW S, Sound(S), S = sp[s], NEW d \in Devs
  PROVE  LET A == Longer(s, d) IN Sound(A) /\ A.list # <<>> /\ A.mode >= A.maxMode
<1> DEFINE U == [S EXCEPT !.mode = Unset]
           G == GrowList(U)
           A == Longer(s, d)
<1>1. DOMAIN S = Fields /\ Unset \in Int
  BY DEF Sound, Shape, Unset
<1>2. SameTables(S, U) /\ U.mode = Unset
  BY <1>1 DEF SameTables, Fields
<1>3. A = IF G.list = <<>> THEN [AddOutputMode(G, d) EXCEPT !.list = <<d>>] ELSE SyncOutputMode(G, d)
  BY DEF Longer
<1> HIDE DEF A, U
<1>4. Sound(U)
  BY <1>1, <1>2, TablesKept
<1>5. Sound(G) /\ Len(G.list) < G.cap /\ G.mode = Unset
  BY <1>2, <1>4, GrownList
<1> HIDE DEF G
<1>6. \A T : Sound(T) /\ T.list # <<>> => T.maxMode \in Int /\ T.maxMode <= Unset
  BY DEF Sound, Shape, Tables
<1>7. CASE G.list = <<>>
  <2>1. Shape(G)
    BY <1>5 DEF Sound
  <2>2. Sound(A) /\ A.list = <<d>> /\ A.mode = Unset
    BY <1>3, <1>5, <1>7, <2>1, FirstAdded
  <2>3. A.list # <<>>
    BY <2>2
  <2>4. A.maxMode \in Int /\ A.maxMode <= Unset
    BY <1>6, <2>2, <2>3
  <2> QED
    BY <1>1, <2>2, <2>3, <2>4 DEF A
<1>8. CASE G.list # <<>>
  <2>1. G.mode >= G.maxMode
    BY <1>1, <1>5, <1>6, <1>8
  <2>2. Sound(A) /\ A.list = Append(G.list, d) /\ A.mode >= A.maxMode
    BY <1>3, <1>5, <1>8, <2>1, Synced
  <2>3. G.list \in Seq(Devs)
    BY <1>5 DEF Sound, Shape
  <2>4. A.list # <<>>
    BY <2>2, <2>3
  <2> QED
    BY <2>2, <2>4 DEF A
<1> QED
  BY <1>7, <1>8

LEMMA DeviceAdded ==
  ASSUME WorldOK(World), NEW s \in Splitters, NEW d \in Devs, NEW bad, NEW x \in AddDevice(s, d, bad)
  PROVE  WorldOK(x) /\ AgreeIn(x) /\ (bad = {} => InStepIn(x, s))
<1> DEFINE A == Longer(s, d)
           y == [World EXCEPT !.sp[s] = A]
           Shown(w) == IF s = "ConOut" /\ Gop(d) THEN Install(AddGraphicsOutputMode(w, d), d) ELSE w
<1>1. PICK w \in GetIntersectionBetween(y) : x = SetConsoleOutMode(Shown(w), s, bad)
  BY DEF AddDevice, Longer
<1>2. Sound(sp[s])
  BY SplitterFacts DEF World
<1>3. Sound(A) /\ A.list # <<>> /\ A.mode >= A.maxMode
  BY <1>2, LongerSound
<1> HIDE DEF A
<1>4. WorldOK(y) /\ y.sp[s] = A
  BY <1>3, PutSound
<1> HIDE DEF y
<1>5. Between(y, w)
  BY <1>1, <1>4, CutBetween
<1>6. WorldOK(w) /\ AgreeIn(w) /\ w.sp[s].list # <<>> /\ w.sp[s].mode >= w.sp[s].maxMode
  BY <1>3, <1>4, <1>5 DEF Between
<1> DEFINE z == Shown(w)
<1>7. Calls(w, z) /\ z.sp = w.sp
  BY <1>6, GraphicsAdded, CallsItself
<1> HIDE DEF Shown, z
<1>8. WorldOK(z) /\ AgreeIn(z)
  BY <1>6, <1>7, CallsAgree DEF Calls
<1>9. Calls(z, x) /\ (bad = {} => InStepIn(x, s))
  BY <1>1, <1>6, <1>7, <1>8, ConsoleModeSet DEF z
<1> QED
  BY <1>8, <1>9, CallsAgree DEF Calls

LEMMA EmptiedSound ==
  ASSUME NEW S, Sound(S)
  PROVE  Sound(Emptied(S)) /\ Emptied(S).list = <<>>
<1> DEFINE query == [S.query EXCEPT ![0] = Base]
           T == Emptied(S)
<1>1. /\ DOMAIN S = Fields /\ S.cap \in Nat /\ S.cap >= Unit
      /\ Slots(S) \in Nat /\ Slots(S) > 0 /\ DOMAIN S.query = 0 .. Slots(S) - 1
  BY DEF Sound, Shape
<1>2. DOMAIN query = DOMAIN S.query
  OBVIOUS
<1>3. T = [S EXCEPT !.list = <<>>, !.maxMode = 1, !.query = query, !.mode = 0, !.cursor = Origin]
  BY <1>1 DEF Emptied, TextOutSetMode, Fields
<1> HIDE DEF T, query
<1>4. DOMAIN T = Fields /\ T.list = <<>> /\ T.cap = S.cap /\ T.mode = 0 /\ T.query = query
  BY <1>1, <1>3 DEF Fields
<1>5. Slots(T) = Slots(S) /\ Len(T.list) = 0 /\ T.list \in Seq(Devs)
  BY <1>2, <1>4 DEF Slots
<1>6. Len(T.list) <= T.cap /\ T.mode \in Int
  BY <1>1, <1>4, <1>5
<1> QED
  BY <1>1, <1>2, <1>4, <1>5, <1>6 DEF Sound, Shape, T

LEMMA DeviceDeleted ==
  ASSUME WorldOK(World), NEW s \in Splitters, NEW d, NEW x \in DeleteDevice(s, d)
  PROVE  WorldOK(x) /\ AgreeIn(x)
<1> DEFINE S == sp[s]
           stay == RemoveFirst(S.list, d)
           w == [World EXCEPT !.gop.n = IF s = "ConOut" /\ Gop(d) THEN @ - 1 ELSE @]
<1>1. x \in IF stay = <<>> THEN {[w EXCEPT !.sp[s] = Emptied(@)]}
            ELSE GetIntersectionBetween([w EXCEPT !.sp[s] = Rebuilt(@, stay)])
  BY DEF DeleteDevice
<1>2. Sound(S) /\ S.list \in Seq(Devs) /\ Len(S.list) <= S.cap /\ S.cap \in Nat
  <2>1. Sound(S)
    BY SplitterFacts DEF World
  <2> QED
    BY <2>1 DEF Sound, Shape
<1>3. stay \in Seq(Devs) /\ Len(stay) <= Len(S.list)
  BY <1>2, Removal
<1> HIDE DEF stay
<1>4. DOMAIN w = Parts /\ w.sp = sp /\ w.dev = dev /\ w.pcd = pcd
  BY DEF World, Parts
<1>5. World.sp = sp /\ World.dev = dev /\ World.pcd = pcd
  BY DEF World
<1> HIDE DEF w
<1>6. WorldOK(w)
  BY <1>4, <1>5 DEF WorldOK
<1>7. CASE stay = <<>>
  <2> DEFINE E == Emptied(S)
  <2>1. x = [w EXCEPT !.sp[s] = E]
    <3>1. x = [w EXCEPT !.sp[s] = Emptied(w.sp[s])]
      BY <1>1, <1>7
    <3> QED
      BY <1>4, <3>1
  <2>2. Sound(E) /\ E.list = <<>>
    BY <1>2, EmptiedSound
  <2> HIDE DEF E
  <2>3. WorldOK(x) /\ x.sp[s] = E
    BY <1>6, <2>1, <2>2, PutSound
  <2>4. s = "ConOut" \/ s = "StdErr"
    BY DEF Splitters
  <2> QED
    BY <2>2, <2>3, <2>4 DEF AgreeIn
<1>8. CASE stay # <<>>
  <2> DEFINE R == Rebuilt(S, stay)
             y == [w EXCEPT !.sp[s] = R]
  <2>1. x \in GetIntersectionBetween(y)
    BY <1>1, <1>4, <1>8
  <2>2. Len(stay) > 0 /\ Len(stay) <= S.cap
    BY <1>2, <1>3, <1>8
  <2>3. Sound(R)
    BY <1>2, <1>3, <2>2, RebuiltSound
  <2> HIDE DEF R
  <2>4. WorldOK(y)
    BY <1>6, <2>3, PutSound
  <2> HIDE DEF y
  <2> QED
    BY <2>1, <2>4, CutBetween DEF Between
<1> QED
  BY <1>7, <1>8
-----------------------------------------------------------------------------
(* The invariant: the tables of both splitters are right, and what the two *)
(* must share is shared.                                                   *)
ConOutInv == WorldOK(World) /\ AgreeIn(World) /\ StartSyncs

(* A step to a state of which this holds.                                  *)
LEMMA Lands ==
  ASSUME NEW w, WorldOK(w), AgreeIn(w), Changes(w)
  PROVE  WorldOK(World)' /\ AgreeIn(World)' /\ \A s \in Splitters : InStepIn(w, s) => InStep(s)'
<1> DEFINE v == [sp |-> sp', dev |-> dev', gop |-> gop', pcd |-> pcd']
<1>1. /\ DOMAIN v = Parts /\ v.sp = w.sp /\ v.dev = w.dev /\ v.pcd = w.pcd
      /\ v.sp = sp' /\ v.dev = dev' /\ v.pcd = pcd'
  BY DEF Changes, Parts
<1>2. (World)' = v
  BY DEF World
<1> HIDE DEF v
<1>3. WorldOK(v)
  BY <1>1 DEF WorldOK
<1>4. AgreeIn(v)
  BY <1>1 DEF AgreeIn
<1>5. \A s \in Splitters : InStepIn(w, s) => InStep(s)'
  BY <1>1 DEF InStepIn, InStep
<1>6. WorldOK(World)'
  BY <1>2, <1>3
<1>7. AgreeIn(World)'
  BY <1>2, <1>4
<1> QED
  BY <1>5, <1>6, <1>7

(* A step of the services: calls on the consoles and nothing else.         *)
LEMMA Serves ==
  ASSUME ConOutInv, NEW w, Calls(World, w), Becomes(w)
  PROVE  ConOutInv'
<1>1. WorldOK(w) /\ AgreeIn(w)
  BY CallsAgree DEF ConOutInv, Calls
<1>2. WorldOK(World)' /\ AgreeIn(World)'
  BY <1>1, Lands DEF Becomes
<1>3. StartSyncs'
  BY DEF Becomes, StartSyncs
<1> QED
  BY <1>2, <1>3 DEF ConOutInv

LEMMA PutCalls ==
  ASSUME NEW w, WorldOK(w), NEW s \in Splitters, NEW T, SameTables(w.sp[s], T), T.mode \in Int
  PROVE  Calls(w, [w EXCEPT !.sp[s] = T])
<1> DEFINE v == [w EXCEPT !.sp[s] = T]
<1>1. Sound(w.sp[s])
  BY SplitterFacts
<1>2. Sound(T)
  BY <1>1, TablesKept
<1>3. WorldOK(v) /\ v.sp[s] = T /\ \A t \in Splitters : t # s => v.sp[t] = w.sp[t]
  BY <1>2, PutSound
<1> HIDE DEF v
<1>4. \A t \in Splitters : SameTables(w.sp[t], v.sp[t])
  BY <1>3, SameAsItself
<1> QED
  BY <1>3, <1>4 DEF Calls, v

LEMMA CursorCalls ==
  ASSUME NEW w, WorldOK(w), NEW s \in Splitters, NEW pos
  PROVE  Calls(w, [w EXCEPT !.sp[s].cursor = pos])
<1> DEFINE T == [w.sp[s] EXCEPT !.cursor = pos]
<1>1. DOMAIN w.sp[s] = Fields /\ w.sp[s].mode \in Int
  BY SplitterFacts
<1>2. SameTables(w.sp[s], T) /\ T.mode \in Int
  BY <1>1 DEF SameTables, Fields
<1>3. [w EXCEPT !.sp[s].cursor = pos] = [w EXCEPT !.sp[s] = T]
  OBVIOUS
<1> HIDE DEF T
<1> QED
  BY <1>2, <1>3, PutCalls

LEMMA ResetServes ==
  ASSUME ConOutInv, NEW s \in Splitters, TextOutReset(s)
  PROVE  ConOutInv'
<1> DEFINE D == [d \in Devs |-> IF d \in Consoles(World, s) THEN [World.dev[d] EXCEPT !.mode = 0] ELSE World.dev[d]]
           w == [World EXCEPT !.dev = D]
           v == SetAttribute(w, s, sp[s].attr % 16)
           x == [v EXCEPT !.sp[s] = TextOutSetMode(v.sp[s], 0)]
<1>1. Becomes(x)
  BY DEF TextOutReset
<1>2. WorldOK(World)
  BY DEF ConOutInv
<1>3. DOMAIN D = Devs /\ \A d \in Devs : "mode" \in DOMAIN D[d]
  BY <1>2 DEF WorldOK
<1> HIDE DEF D
<1>4. DOMAIN w = Parts /\ w.sp = World.sp /\ w.pcd = World.pcd /\ w.dev = D
  BY DEF World, Parts
<1> HIDE DEF w
<1>5. Calls(World, w)
  BY <1>2, <1>3, <1>4, OthersChange
<1>6. Calls(w, v) /\ WorldOK(v)
  BY <1>5, AttributeCalls DEF Calls
<1> HIDE DEF v
<1>7. SameTables(v.sp[s], TextOutSetMode(v.sp[s], 0)) /\ TextOutSetMode(v.sp[s], 0).mode = 0
  BY <1>6, SplitterFacts, ModeSet
<1>8. Calls(v, x)
  BY <1>6, <1>7, PutCalls
<1> HIDE DEF x
<1>9. Calls(World, x)
  BY <1>5, <1>6, <1>8, CallsTrans
<1> QED
  BY <1>1, <1>9, Serves

LEMMA OutputServes ==
  ASSUME ConOutInv, NEW s \in Splitters, OutputString(s)
  PROVE  ConOutInv'
<1> DEFINE w == SetAttribute(World, s, sp[s].attr)
<1>1. PICK pos : Becomes([w EXCEPT !.sp[s].cursor = pos])
  BY Zenon DEF OutputString
<1>2. Calls(World, w) /\ WorldOK(w)
  BY AttributeCalls DEF ConOutInv, Calls
<1> HIDE DEF w
<1>3. Calls(w, [w EXCEPT !.sp[s].cursor = pos])
  BY <1>2, CursorCalls
<1>4. Calls(World, [w EXCEPT !.sp[s].cursor = pos])
  BY <1>2, <1>3, CallsTrans
<1> QED
  BY <1>1, <1>4, Serves, Zenon

LEMMA ClearServes ==
  ASSUME ConOutInv, NEW s \in Splitters, ClearScreen(s)
  PROVE  ConOutInv'
<1> DEFINE T == TextOutClearScreen(World.sp[s])
<1>1. Becomes([World EXCEPT !.sp[s] = T])
  BY DEF ClearScreen
<1>2. WorldOK(World)
  BY DEF ConOutInv
<1>3. DOMAIN World.sp[s] = Fields /\ World.sp[s].mode \in Int
  BY <1>2, SplitterFacts
<1>4. SameTables(World.sp[s], T) /\ T.mode = World.sp[s].mode
  BY <1>3, ScreenCleared
<1> HIDE DEF T
<1>5. Calls(World, [World EXCEPT !.sp[s] = T])
  BY <1>2, <1>3, <1>4, PutCalls
<1> QED
  BY <1>1, <1>5, Serves

(* A console that was added, and the attribute it is given then.           *)
LEMMA StartLands ==
  ASSUME ConOutInv, NEW s \in Splitters, NEW d \in Devs, NEW bad, NEW a,
         \E w \in AddDevice(s, d, bad) : Changes(SetAttribute(w, s, a)),
         added' = IF bad = {} THEN s ELSE "none"
  PROVE  ConOutInv'
<1>1. PICK w \in AddDevice(s, d, bad) : Changes(SetAttribute(w, s, a))
  OBVIOUS
<1>2. WorldOK(w) /\ AgreeIn(w) /\ (bad = {} => InStepIn(w, s))
  BY DeviceAdded DEF ConOutInv
<1> DEFINE x == SetAttribute(w, s, a)
<1>3. Calls(w, x) /\ (InStepIn(w, s) => InStepIn(x, s))
  BY <1>2, AttributeCalls
<1> HIDE DEF x
<1>4. WorldOK(x) /\ AgreeIn(x)
  BY <1>2, <1>3, CallsAgree DEF Calls
<1>5. WorldOK(World)' /\ AgreeIn(World)' /\ (InStepIn(x, s) => InStep(s)')
  BY <1>1, <1>4, Lands DEF x
<1>6. StartSyncs'
  <2>1. CASE bad = {}
    <3>1. InStep(s)' /\ added' = s
      BY <1>2, <1>3, <1>5, <2>1
    <3>2. added' # "none" => InStep(added)'
      BY <3>1 DEF InStep
    <3> QED
      BY <3>2 DEF StartSyncs
  <2>2. CASE bad # {}
    BY <2>2 DEF StartSyncs
  <2> QED
    BY <2>1, <2>2
<1> QED
  BY <1>5, <1>6 DEF ConOutInv

(* A console that goes.                                                    *)
LEMMA StopLands ==
  ASSUME ConOutInv, NEW s \in Splitters, NEW d, \E w \in DeleteDevice(s, d) : Becomes(w)
  PROVE  ConOutInv'
<1>1. PICK w \in DeleteDevice(s, d) : Becomes(w)
  OBVIOUS
<1>2. WorldOK(w) /\ AgreeIn(w)
  BY DeviceDeleted DEF ConOutInv
<1>3. WorldOK(World)' /\ AgreeIn(World)'
  BY <1>1, <1>2, Lands DEF Becomes
<1>4. StartSyncs'
  BY <1>1 DEF Becomes, StartSyncs
<1> QED
  BY <1>3, <1>4 DEF ConOutInv
-----------------------------------------------------------------------------
(* Before any console came.                                                *)
LEMMA InitHolds == Init => ConOutInv
<1> SUFFICES ASSUME Init PROVE ConOutInv
  OBVIOUS
<1>1. Unit \in Nat /\ Unit >= 2 /\ Unit > 0 /\ Wanted # NoSize
  <2>1. Unit \in Nat /\ Unit >= 2 /\ Wanted[1] > 0
    BY DeviceAssumption
  <2>2. NoSize[1] = 0
    BY DEF NoSize
  <2> QED
    BY <2>1, <2>2
<1>2. ASSUME NEW s \in Splitters PROVE Sound(sp[s]) /\ sp[s].list = <<>>
  <2> DEFINE query == [m \in 0 .. Unit - 1 |-> IF m = 0 THEN Base ELSE NoSize]
  <2>1. /\ DOMAIN sp[s] = Fields /\ sp[s].list = <<>> /\ sp[s].cap = Unit
        /\ sp[s].mode = 0 /\ sp[s].query = query
    BY DEF Init, Fields
  <2>2. DOMAIN query = 0 .. Unit - 1
    OBVIOUS
  <2> HIDE DEF query
  <2>3. Slots(sp[s]) = Unit
    BY <1>1, <2>1, <2>2, Counted DEF Slots
  <2>4. <<>> \in Seq(Devs) /\ Len(<<>>) = 0
    OBVIOUS
  <2>5. Shape(sp[s])
    BY <1>1, <2>1, <2>2, <2>3, <2>4 DEF Shape
  <2> QED
    BY <2>1, <2>5 DEF Sound
<1>3. DOMAIN World = Parts /\ World.sp = sp /\ World.dev = dev /\ World.pcd = pcd
  BY DEF World, Parts
<1>4. DOMAIN sp = Splitters /\ DOMAIN dev = Devs /\ pcd = Wanted
  BY DEF Init
<1>5. \A d \in Devs : "mode" \in DOMAIN dev[d]
  BY DEF Init
<1>6. WorldOK(World)
  BY <1>1, <1>2, <1>3, <1>4, <1>5 DEF WorldOK
<1>7. AgreeIn(World)
  BY <1>2, <1>3 DEF AgreeIn, Splitters
<1>8. StartSyncs
  BY DEF Init, StartSyncs
<1> QED
  BY <1>6, <1>7, <1>8 DEF ConOutInv

LEMMA NextKeeps ==
  ASSUME ConOutInv, [Next]_vars
  PROVE  ConOutInv'
<1>0. "ConOut" \in Splitters /\ "StdErr" \in Splitters /\ WorldOK(World)
  BY DEF Splitters, ConOutInv
<1>1. ASSUME NEW d \in Devs, NEW bad \in SUBSET Flaky, ConOutStart(d, bad)
      PROVE  ConOutInv'
  BY <1>0, <1>1, StartLands DEF ConOutStart
<1>2. ASSUME NEW d \in Devs, NEW bad \in SUBSET Flaky, StdErrStart(d, bad)
      PROVE  ConOutInv'
  BY <1>0, <1>2, StartLands DEF StdErrStart
<1>3. ASSUME NEW d \in Devs, ConOutStop(d)
      PROVE  ConOutInv'
  BY <1>0, <1>3, StopLands DEF ConOutStop
<1>4. ASSUME NEW d \in Devs, StdErrStop(d)
      PROVE  ConOutInv'
  BY <1>0, <1>4, StopLands DEF StdErrStop
<1>5. ASSUME NEW s \in Splitters, TextOutReset(s)
      PROVE  ConOutInv'
  BY <1>5, ResetServes
<1>6. ASSUME NEW s \in Splitters, OutputString(s)
      PROVE  ConOutInv'
  BY <1>6, OutputServes
<1>7. ASSUME NEW s \in Splitters, NEW m \in 0 .. sp[s].maxMode, NEW bad \in SUBSET Flaky,
             CallSetMode(s, m, bad)
      PROVE  ConOutInv'
  <2>1. m \in Int
    OBVIOUS
  <2>2. Calls(World, SetMode(World, s, m, bad))
    BY <1>0, <2>1, SetModeCalls
  <2> QED
    BY <1>7, <2>2, Serves DEF CallSetMode
<1>8. ASSUME NEW s \in Splitters, NEW a \in Colours, CallSetAttribute(s, a)
      PROVE  ConOutInv'
  <2>1. Calls(World, SetAttribute(World, s, a))
    BY <1>0, AttributeCalls
  <2> QED
    BY <1>8, <2>1, Serves DEF CallSetAttribute
<1>9. ASSUME NEW s \in Splitters, ClearScreen(s)
      PROVE  ConOutInv'
  BY <1>9, ClearServes
<1>10. ASSUME NEW s \in Splitters, NEW pos \in Places, SetCursorPosition(s, pos)
       PROVE  ConOutInv'
  <2>1. Calls(World, [World EXCEPT !.sp[s].cursor = pos])
    BY <1>0, CursorCalls
  <2> QED
    BY <1>10, <2>1, Serves DEF SetCursorPosition
<1>11. ASSUME NEW m \in 0 .. Len(gop.modes), CallGopSetMode(m)
       PROVE  ConOutInv'
  <2>1. Calls(World, GopSetMode(World, m))
    BY <1>0, GopSetModeCalls
  <2> QED
    BY <1>11, <2>1, Serves DEF CallGopSetMode
<1>12. ASSUME UNCHANGED vars
       PROVE  ConOutInv'
  <2>1. sp' = sp /\ dev' = dev /\ gop' = gop /\ pcd' = pcd /\ added' = added
    BY <1>12 DEF vars
  <2>2. WorldOK(World)' /\ AgreeIn(World)'
    BY <2>1 DEF ConOutInv, World
  <2>3. StartSyncs'
    BY <2>1 DEF ConOutInv, StartSyncs, InStep
  <2> QED
    BY <2>2, <2>3 DEF ConOutInv
<1> QED
  BY <1>1, <1>2, <1>3, <1>4, <1>5, <1>6, <1>7, <1>8, <1>9, <1>10, <1>11, <1>12 DEF Next

(* The invariant says what the runs check.                                 *)
LEMMA Faithful == ConOutInv => MapFaithful
<1> SUFFICES ASSUME ConOutInv, NEW s \in Splitters, sp[s].list # <<>>,
                    NEW r \in Shared(sp[s]), NEW d \in ToSet(sp[s].list)
             PROVE  SizeOf(d, Row(sp[s], r, d)) = SizeAt(sp[s], r)
  BY DEF MapFaithful
<1>1. Sound(sp[s])
  <2>1. Sound(World.sp[s])
    BY SplitterFacts DEF ConOutInv
  <2> QED
    BY <2>1 DEF World
<1>2. r \in 0 .. sp[s].maxMode - 1 /\ r # 1
  BY DEF Shared
<1> QED
  BY <1>1, <1>2, RowNames

LEMMA Agree == ConOutInv => FirstSharedAgree
BY DEF ConOutInv, AgreeIn, World, FirstSharedAgree, Offered

(* The mode tables of both splitters are right, and agree where they must, *)
(* after every call.                                                       *)
THEOREM TablesInductive == Spec => []ConOutInv
<1>1. Init => ConOutInv
  BY InitHolds
<1>2. ConOutInv /\ [Next]_vars => ConOutInv'
  BY NextKeeps
<1> QED
  BY <1>1, <1>2, PTL DEF Spec

(* However consoles came and went, each shared mode names, for every       *)
(* console of the list, a mode of its own with the size that QueryMode     *)
(* reports (ConSplitterSyncOutputMode, ConSplitterGrowMapTable).           *)
THEOREM ModesAreFaithful == Spec => []MapFaithful
  BY TablesInductive, Faithful, PTL

(* When the first console of ConOut is one of StdErr too, both offer the   *)
(* same sizes beyond mode 1                                                *)
(* (ConSplitterGetIntersectionBetweenConOutAndStrErr).                     *)
THEOREM SharedConsoleAgrees == Spec => []FirstSharedAgree
  BY TablesInductive, Agree, PTL

(* After a console was added and none failed, every console of the list is *)
(* in the size of the current mode (ConsplitterSetConsoleOutMode).         *)
THEOREM StartBringsInStep == Spec => []StartSyncs
<1>1. ConOutInv => StartSyncs
  BY DEF ConOutInv
<1> QED
  BY TablesInductive, <1>1, PTL
=============================================================================
