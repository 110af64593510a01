--------------------------- MODULE Console_proofs ---------------------------
(***************************************************************************)
(* Of the console, the virtual mouse and the text terminal.                 *)
(*                                                                         *)
(* The virtual mouse: for any mice, resolutions and failures, what callers  *)
(* were told and what still waits in the mice add up to what the mice have  *)
(* moved.                                                                  *)
(*                                                                         *)
(* The terminal: for any strings, sizes and modes, the cursor that is drawn *)
(* by inverting is on the screen exactly once after every call, and the     *)
(* console shows and moves what a terminal does that takes the characters   *)
(* of a string one by one.                                                 *)
(*                                                                         *)
(* The sum over the list of mice, the list of text modes and the loop that  *)
(* writes a string are recursive functions.  What they compute is proved    *)
(* by induction over the length of a list, or over the turns of the loop: a *)
(* set of numbers with 0 that is closed under successor is all of them, as  *)
(* Nat is well founded.                                                    *)
(***************************************************************************)
EXTENDS Pointers, GfxConsole, SequenceTheorems, WellFoundedInduction, TLAPS

(* The order of the natural numbers.                                       *)
Below == {ss \in Nat \X Nat : ss[1] < ss[2]}

(* Induction over the natural numbers, for a set of them.                  *)
LEMMA Induction ==
  ASSUME NEW S \in SUBSET Nat, 0 \in S, \A n \in S : n + 1 \in S
  PROVE  S = Nat
<1>1. IsWellFoundedOn(Below, Nat)
  BY NatLessThanWellFounded DEF Below, OpToRel
<1>2. SUFFICES ASSUME Nat \ S # {} PROVE FALSE
  OBVIOUS
<1>3. PICK n \in Nat \ S : \A m \in Nat \ S : <<m, n>> \notin Below
  BY <1>1, <1>2, WFMin
<1>4. n # 0 /\ n - 1 \in Nat /\ n - 1 < n /\ <<n - 1, n>> \in Below
  BY <1>3 DEF Below
<1>5. n - 1 \in S
  BY <1>3, <1>4
<1>6. (n - 1) + 1 \in S
  BY <1>5
<1> QED
  BY <1>3, <1>6

(* The functions that hold the partial sums of w.                          *)
Sums(w) ==
  {g \in [0 .. Len(w) -> Int] :
     g[0] = 0 /\ \A i \in 1 .. Len(w) : g[i] = g[i - 1] + w[i]}

(* There is one, built from the first term on.                             *)
LEMMA SumsExist == ASSUME NEW w \in Seq(Int) PROVE Sums(w) # {}
<1> DEFINE n == Len(w)
           P(m) == \E g \in [0 .. m -> Int] :
                     g[0] = 0 /\ \A i \in 1 .. m : g[i] = g[i - 1] + w[i]
           S == {m \in Nat : m <= n => P(m)}
<1>0. n \in Nat /\ \A i \in 1 .. n : w[i] \in Int
  OBVIOUS
<1>1. P(0)
  <2> DEFINE g == [i \in 0 .. 0 |-> 0]
  <2>1. g \in [0 .. 0 -> Int] /\ g[0] = 0 /\ \A i \in 1 .. 0 : g[i] = g[i - 1] + w[i]
    OBVIOUS
  <2> QED BY <2>1
<1>2. ASSUME NEW m \in Nat, m + 1 <= n, P(m) PROVE P(m + 1)
  <2>1. PICK g \in [0 .. m -> Int] : g[0] = 0 /\ \A i \in 1 .. m : g[i] = g[i - 1] + w[i]
    BY <1>2
  <2> DEFINE h == [i \in 0 .. m + 1 |-> IF i = m + 1 THEN g[m] + w[m + 1] ELSE g[i]]
  <2>2. h \in [0 .. m + 1 -> Int]
    BY <1>0, <1>2, <2>1, SMTT(60)
  <2>3. h[0] = 0 /\ h[m + 1] = g[m] + w[m + 1] /\ \A i \in 0 .. m : h[i] = g[i]
    BY <1>2, <2>1
  <2> HIDE DEF h
  <2>4. ASSUME NEW i \in 1 .. m + 1 PROVE h[i] = h[i - 1] + w[i]
    <3>1. CASE i = m + 1
      BY <2>3, <3>1
    <3>2. CASE i # m + 1
      <4>1. i \in 1 .. m /\ i - 1 \in 0 .. m /\ i \in 0 .. m
        BY <3>2
      <4> QED BY <2>1, <2>3, <4>1
    <3> QED BY <3>1, <3>2
  <2> QED BY <2>2, <2>3, <2>4
<1> HIDE DEF P
<1>3. 0 \in S /\ S \in SUBSET Nat
  BY <1>1
<1>4. ASSUME NEW m \in S PROVE m + 1 \in S
  BY <1>0, <1>2
<1> HIDE DEF S
<1>5. n \in S
  BY <1>0, <1>3, <1>4, Induction
<1>6. P(n)
  BY <1>0, <1>5 DEF S
<1> QED
  BY <1>6 DEF P, Sums

(* Sum is the last value of such a function.                               *)
LEMMA SumIsLast == ASSUME NEW w \in Seq(Int) PROVE \E g \in Sums(w) : Sum(w) = g[Len(w)]
<1> DEFINE f == CHOOSE f : f = [i \in 0 .. Len(w) |-> IF i = 0 THEN 0 ELSE f[i - 1] + w[i]]
<1>1. Sum(w) = f[Len(w)]
  BY DEF Sum
<1>2. PICK g \in Sums(w) : TRUE
  BY SumsExist
<1>3. g = [i \in 0 .. Len(w) |-> IF i = 0 THEN 0 ELSE g[i - 1] + w[i]]
  BY DEF Sums
<1>4. f = [i \in 0 .. Len(w) |-> IF i = 0 THEN 0 ELSE f[i - 1] + w[i]]
  BY <1>3
<1> HIDE DEF f
<1>5. Len(w) \in Nat
  OBVIOUS
<1>6. f[0] = 0 /\ \A i \in 1 .. Len(w) : f[i] = f[i - 1] + w[i]
  BY <1>4, <1>5
<1> DEFINE S == {m \in Nat : m <= Len(w) => f[m] = g[m]}
<1>7. S \in SUBSET Nat /\ 0 \in S
  BY <1>6 DEF Sums
<1>8. ASSUME NEW m \in S PROVE m + 1 \in S
  <2>1. CASE m + 1 <= Len(w)
    <3>1. m + 1 \in 1 .. Len(w) /\ (m + 1) - 1 = m /\ f[m] = g[m]
      BY <1>5, <2>1
    <3>2. f[m + 1] = f[m] + w[m + 1] /\ g[m + 1] = g[m] + w[m + 1]
      BY <1>6, <3>1 DEF Sums
    <3> QED
      BY <3>1, <3>2
  <2>2. CASE ~(m + 1 <= Len(w))
    BY <2>2
  <2> QED
    BY <2>1, <2>2
<1> HIDE DEF S
<1>9. Len(w) \in S
  BY <1>5, <1>7, <1>8, Induction
<1> QED
  BY <1>1, <1>5, <1>9 DEF S

(* Addition is associative and commutative.                                *)
LEMMA Regrouped ==
  ASSUME NEW a \in Int, NEW b \in Int, NEW c \in Int, NEW d \in Int
  PROVE  (a + b) + (c + d) = (a + c) + (b + d)
OBVIOUS

(* Two sequences of numbers whose partial sums are known to be related.    *)
LEMMA SumPlus ==
  ASSUME NEW u \in Seq(Int), NEW v \in Seq(Int), NEW w \in Seq(Int),
         Len(u) = Len(w), Len(v) = Len(w),
         \A i \in 1 .. Len(w) : w[i] = u[i] + v[i]
  PROVE  Sum(w) = Sum(u) + Sum(v)
<1>1. PICK f \in Sums(u) : Sum(u) = f[Len(u)]
  BY SumIsLast
<1>2. PICK g \in Sums(v) : Sum(v) = g[Len(v)]
  BY SumIsLast
<1>3. PICK h \in Sums(w) : Sum(w) = h[Len(w)]
  BY SumIsLast
<1> DEFINE S == {m \in Nat : m <= Len(w) => h[m] = f[m] + g[m]}
<1>4. S \in SUBSET Nat /\ 0 \in S
  BY DEF Sums
<1>5. ASSUME NEW m \in S PROVE m + 1 \in S
  <2>1. CASE m + 1 <= Len(w)
    <3>1. m + 1 \in 1 .. Len(w) /\ (m + 1) - 1 = m /\ h[m] = f[m] + g[m]
      BY <2>1
    <3>2. /\ f[m + 1] = f[m] + u[m + 1] /\ g[m + 1] = g[m] + v[m + 1]
          /\ h[m + 1] = h[m] + w[m + 1] /\ w[m + 1] = u[m + 1] + v[m + 1]
      BY <3>1 DEF Sums
    <3>3. f[m] \in Int /\ g[m] \in Int /\ u[m + 1] \in Int /\ v[m + 1] \in Int
      <4>1. m \in 0 .. Len(u) /\ m \in 0 .. Len(v) /\ m + 1 \in 1 .. Len(u) /\ m + 1 \in 1 .. Len(v)
        BY <3>1, <2>1
      <4>2. f \in [0 .. Len(u) -> Int] /\ g \in [0 .. Len(v) -> Int]
        BY DEF Sums
      <4>3. f[m] \in Int /\ g[m] \in Int
        BY <4>1, <4>2
      <4>4. u[m + 1] \in Int /\ v[m + 1] \in Int
        BY <4>1, ElementOfSeq
      <4> QED
        BY <4>3, <4>4
    <3>4. h[m + 1] = f[m + 1] + g[m + 1]
      <4> DEFINE a == f[m]
                 b == g[m]
                 c == u[m + 1]
                 d == v[m + 1]
      <4>1. a \in Int /\ b \in Int /\ c \in Int /\ d \in Int
        BY <3>3
      <4>2. h[m + 1] = (a + b) + (c + d) /\ f[m + 1] = a + c /\ g[m + 1] = b + d
        BY <3>1, <3>2
      <4> HIDE DEF a, b, c, d
      <4>3. (a + b) + (c + d) = (a + c) + (b + d)
        BY <4>1, Regrouped
      <4> QED
        BY <4>2, <4>3
    <3> QED
      BY <3>4
  <2>2. CASE ~(m + 1 <= Len(w))
    BY <2>2
  <2> QED
    BY <2>1, <2>2
<1> HIDE DEF S
<1>6. Len(w) \in S
  <2>1. S = Nat
    BY <1>4, <1>5, Induction
  <2> QED
    BY <2>1
<1>7. Len(w) \in Nat
  OBVIOUS
<1> QED
  BY <1>1, <1>2, <1>3, <1>6, <1>7 DEF S

(* A sum of integers is an integer.                                        *)
LEMMA SumType == ASSUME NEW w \in Seq(Int) PROVE Sum(w) \in Int
<1>1. PICK f \in Sums(w) : Sum(w) = f[Len(w)]
  BY SumIsLast
<1>2. Len(w) \in 0 .. Len(w)
  OBVIOUS
<1> QED
  BY <1>1, <1>2 DEF Sums

(* A sum of which all terms but one are 0 is that one.                     *)
LEMMA SumOfOne ==
  ASSUME NEW w \in Seq(Int), NEW j \in 1 .. Len(w),
         \A i \in 1 .. Len(w) : i # j => w[i] = 0
  PROVE  Sum(w) = w[j]
<1>1. PICK h \in Sums(w) : Sum(w) = h[Len(w)]
  BY SumIsLast
<1> DEFINE S == {m \in Nat : m <= Len(w) => h[m] = IF m < j THEN 0 ELSE w[j]}
<1>4. S \in SUBSET Nat /\ 0 \in S
  BY DEF Sums
<1>5. ASSUME NEW m \in S PROVE m + 1 \in S
  <2>1. CASE m + 1 <= Len(w)
    <3>1. m + 1 \in 1 .. Len(w) /\ (m + 1) - 1 = m /\ h[m] = IF m < j THEN 0 ELSE w[j]
      BY <2>1
    <3>2. h[m + 1] = h[m] + w[m + 1] /\ w[m + 1] \in Int /\ w[j] \in Int
      BY <3>1 DEF Sums
    <3>3. CASE m + 1 = j
      BY <3>1, <3>2, <3>3
    <3>4. CASE m + 1 # j
      BY <3>1, <3>2, <3>4
    <3> QED
      BY <3>3, <3>4
  <2>2. CASE ~(m + 1 <= Len(w))
    BY <2>2
  <2> QED
    BY <2>1, <2>2
<1> HIDE DEF S
<1>6. Len(w) \in S
  <2>1. S = Nat
    BY <1>4, <1>5, Induction
  <2> QED
    BY <2>1
<1>7. Len(w) \in Nat /\ ~(Len(w) < j)
  OBVIOUS
<1> QED
  BY <1>1, <1>6, <1>7 DEF S

(* A sum of zeros is 0.                                                    *)
LEMMA SumOfNone ==
  ASSUME NEW w \in Seq(Int), \A i \in 1 .. Len(w) : w[i] = 0
  PROVE  Sum(w) = 0
<1>1. Sum(w) = Sum(w) + Sum(w)
  BY SumPlus
<1> QED
  BY <1>1, SumType

(* One more term.                                                          *)
LEMMA SumOfMore ==
  ASSUME NEW v \in Seq(Int), NEW w \in Seq(Int), Len(w) = Len(v) + 1,
         \A i \in 1 .. Len(v) : w[i] = v[i]
  PROVE  Sum(w) = Sum(v) + w[Len(w)]
<1>1. PICK f \in Sums(v) : Sum(v) = f[Len(v)]
  BY SumIsLast
<1>2. PICK h \in Sums(w) : Sum(w) = h[Len(w)]
  BY SumIsLast
<1> DEFINE S == {m \in Nat : m <= Len(v) => h[m] = f[m]}
<1>4. S \in SUBSET Nat /\ 0 \in S
  BY DEF Sums
<1>5. ASSUME NEW m \in S PROVE m + 1 \in S
  <2>1. CASE m + 1 <= Len(v)
    <3>1. m + 1 \in 1 .. Len(v) /\ m + 1 \in 1 .. Len(w) /\ (m + 1) - 1 = m /\ h[m] = f[m]
      BY <2>1
    <3>2. h[m + 1] = h[m] + w[m + 1] /\ f[m + 1] = f[m] + v[m + 1] /\ w[m + 1] = v[m + 1]
      BY <3>1 DEF Sums
    <3> QED
      BY <3>1, <3>2
  <2>2. CASE ~(m + 1 <= Len(v))
    BY <2>2
  <2> QED
    BY <2>1, <2>2
<1> HIDE DEF S
<1>6. Len(v) \in S
  <2>1. S = Nat
    BY <1>4, <1>5, Induction
  <2> QED
    BY <2>1
<1>7. Len(v) \in Nat /\ Len(w) \in 1 .. Len(w) /\ Len(w) - 1 = Len(v)
  OBVIOUS
<1>8. h[Len(w)] = h[Len(v)] + w[Len(w)]
  BY <1>7 DEF Sums
<1> QED
  BY <1>1, <1>2, <1>6, <1>7, <1>8 DEF S

(* One term less, wherever it was.                                         *)
LEMMA SumOfFewer ==
  ASSUME NEW v \in Seq(Int), NEW w \in Seq(Int), Len(w) = Len(v) + 1,
         NEW k \in 1 .. Len(w),
         \A i \in 1 .. Len(v) : v[i] = IF i < k THEN w[i] ELSE w[i + 1]
  PROVE  Sum(v) = Sum(w) - w[k]
<1>1. PICK f \in Sums(v) : Sum(v) = f[Len(v)]
  BY SumIsLast
<1>2. PICK h \in Sums(w) : Sum(w) = h[Len(w)]
  BY SumIsLast
<1> DEFINE S == {m \in Nat : m <= Len(v) =>
                   f[m] = IF m < k THEN h[m] ELSE h[m + 1] - w[k]}
<1>3. /\ f \in [0 .. Len(v) -> Int] /\ f[0] = 0 /\ \A i \in 1 .. Len(v) : f[i] = f[i - 1] + v[i]
      /\ h \in [0 .. Len(w) -> Int] /\ h[0] = 0 /\ \A i \in 1 .. Len(w) : h[i] = h[i - 1] + w[i]
      /\ Len(v) \in Nat
  BY DEF Sums
<1>4. S \in SUBSET Nat /\ 0 \in S
  BY <1>3
<1>5. ASSUME NEW m \in S PROVE m + 1 \in S
  <2>1. CASE m + 1 <= Len(v)
    <3>1. /\ m + 1 \in 1 .. Len(v) /\ m + 1 \in 1 .. Len(w) /\ m + 2 \in 1 .. Len(w)
          /\ (m + 1) - 1 = m /\ (m + 2) - 1 = m + 1 /\ (m + 1) + 1 = m + 2
          /\ f[m] = IF m < k THEN h[m] ELSE h[m + 1] - w[k]
      BY <2>1, <1>3, SMTT(60)
    <3>2. /\ f[m + 1] = f[m] + v[m + 1] /\ h[m + 1] = h[m] + w[m + 1]
          /\ h[m + 2] = h[m + 1] + w[m + 2]
          /\ v[m + 1] = IF m + 1 < k THEN w[m + 1] ELSE w[m + 2]
      BY <1>3, <3>1
    <3>3. /\ h[m] \in Int /\ h[m + 1] \in Int /\ h[m + 2] \in Int /\ w[k] \in Int
          /\ w[m + 1] \in Int /\ w[m + 2] \in Int
      <4>1. m \in 0 .. Len(w) /\ m + 1 \in 0 .. Len(w) /\ m + 2 \in 0 .. Len(w)
        BY <1>3, <3>1, <2>1
      <4>2. w[m + 1] \in Int /\ w[m + 2] \in Int /\ w[k] \in Int
        BY <3>1
      <4> QED
        BY <1>3, <4>1, <4>2
    <3>4. CASE m + 1 < k
      BY <3>1, <3>2, <3>3, <3>4, SMTT(60)
    <3>5. CASE m + 1 = k
      <4>1. f[m + 1] = h[m] + w[m + 2] /\ w[m + 1] = w[k]
        BY <3>1, <3>2, <3>5, SMTT(60)
      <4>2. h[m + 2] - w[k] = (h[m] + w[k] + w[m + 2]) - w[k]
        BY <3>2, <4>1
      <4>3. (h[m] + w[k] + w[m + 2]) - w[k] = h[m] + w[m + 2]
        BY <3>3, SMTT(60)
      <4> QED
        BY <3>1, <3>5, <4>1, <4>2, <4>3
    <3>6. CASE m >= k
      <4>1. f[m + 1] = (h[m + 1] - w[k]) + w[m + 2]
        BY <3>1, <3>2, <3>6
      <4>2. (h[m + 1] - w[k]) + w[m + 2] = (h[m + 1] + w[m + 2]) - w[k]
        BY <3>3
      <4>3. f[m + 1] = h[m + 2] - w[k]
        BY <4>1, <4>2, <3>2
      <4> QED
        BY <3>1, <3>6, <4>3
    <3> QED
      BY <3>4, <3>5, <3>6
  <2>2. CASE ~(m + 1 <= Len(v))
    BY <2>2
  <2> QED
    BY <2>1, <2>2
<1> HIDE DEF S
<1>6. Len(v) \in S
  BY <1>3, <1>4, <1>5, Induction
<1>7. f[Len(v)] = IF Len(v) < k THEN h[Len(v)] ELSE h[Len(v) + 1] - w[k]
  BY <1>3, <1>6 DEF S
<1>8. CASE Len(v) < k
  <2>1. k = Len(w) /\ h[Len(w)] = h[Len(w) - 1] + w[k] /\ Len(w) - 1 = Len(v)
    BY <1>3, <1>8
  <2>2. h[Len(v)] \in Int /\ w[k] \in Int
    BY <1>3
  <2> QED
    BY <1>1, <1>2, <1>7, <1>8, <2>1, <2>2
<1>9. CASE ~(Len(v) < k)
  BY <1>1, <1>2, <1>3, <1>7, <1>9
<1> QED
  BY <1>8, <1>9

(* A list that names nothing twice.                                        *)
Distinct(s) == \A i, j \in 1 .. Len(s) : s[i] = s[j] => i = j

(* A set of numbers has a least one, which is what Min says.               *)
LEMMA MinIsLeast ==
  ASSUME NEW S \in SUBSET Nat, S # {}
  PROVE  Min(S) \in S /\ \A y \in S : Min(S) <= y
<1>1. IsWellFoundedOn(Below, Nat)
  BY NatLessThanWellFounded DEF Below, OpToRel
<1>2. PICK x \in S : \A y \in S : <<y, x>> \notin Below
  BY <1>1, WFMin
<1>3. \A y \in S : ~(y < x)
  BY <1>2 DEF Below
<1>4. \A y \in S : x <= y
  BY <1>3
<1> QED
  BY <1>4 DEF Min

(* Sequence r is s without its element m.                                  *)
Without(s, m, r) ==
  /\ Len(r) = Len(s) - 1
  /\ \A i \in 1 .. Len(s) - 1 : r[i] = IF i < m THEN s[i] ELSE s[i + 1]

(* RemoveFirst closes the gap that an element leaves.                      *)
LEMMA Closed ==
  ASSUME NEW S, NEW s \in Seq(S), NEW e \in ToSet(s)
  PROVE  /\ RemoveFirst(s, e) \in Seq(S)
         /\ \E m \in 1 .. Len(s) : s[m] = e /\ Without(s, m, RemoveFirst(s, e))
<1> DEFINE I == {i \in 1 .. Len(s) : s[i] = e}
           m == Min(I)
<1>0. I \in SUBSET Nat /\ I # {}
  BY DEF ToSet
<1>1. m \in 1 .. Len(s) /\ s[m] = e
  BY <1>0, MinIsLeast
<1> HIDE DEF m
<1>2. RemoveFirst(s, e) = SubSeq(s, 1, m - 1) \o SubSeq(s, m + 1, Len(s))
  BY <1>0 DEF RemoveFirst, RemoveAt, SelectInSeq, m
<1> DEFINE front == SubSeq(s, 1, m - 1)
           back == SubSeq(s, m + 1, Len(s))
           r == front \o back
<1>3. front \in Seq(S) /\ Len(front) = m - 1 /\ \A i \in 1 .. m - 1 : front[i] = s[i]
  BY <1>1
<1>4. back \in Seq(S) /\ Len(back) = Len(s) - m /\ \A i \in 1 .. Len(s) - m : back[i] = s[m + i]
  BY <1>1
<1> HIDE DEF front, back
<1>5. r \in Seq(S) /\ Len(r) = Len(s) - 1
  <2>1. r \in Seq(S) /\ Len(r) = Len(front) + Len(back)
    BY <1>3, <1>4, ConcatProperties
  <2> QED
    BY <1>1, <1>3, <1>4, <2>1
<1>6. \A i \in 1 .. Len(s) - 1 : r[i] = IF i < m THEN front[i] ELSE back[i - (m - 1)]
  BY <1>1, <1>3, <1>4
<1> HIDE DEF r
<1>7. ASSUME NEW i \in 1 .. Len(s) - 1 PROVE r[i] = IF i < m THEN s[i] ELSE s[i + 1]
  <2>1. CASE i < m
    BY <1>1, <1>3, <1>6, <2>1
  <2>2. CASE ~(i < m)
    <3>1. i - (m - 1) \in 1 .. Len(s) - m /\ m + (i - (m - 1)) = i + 1
      BY <1>1, <2>2
    <3> QED
      BY <1>4, <1>6, <2>2, <3>1
  <2> QED
    BY <2>1, <2>2
<1>8. RemoveFirst(s, e) = r
  BY <1>2 DEF r, front, back
<1> QED
  BY <1>1, <1>5, <1>7, <1>8 DEF Without
-----------------------------------------------------------------------------
(* The movement that a list of mice with given movements adds up to.       *)

(* Terms, for a list l and movements u; what all mice of a list add up to. *)
Weights(l, u, S) ==
  [i \in 1 .. Len(l) |-> IF l[i] \in S THEN Scaled(l[i], u[l[i]]) ELSE 0]

Waits(l, u) == Sum(Weights(l, u, ToSet(l)))

(* Terms is that of the list and the movements as they are.                *)
LEMMA TermsAreWeights ==
  /\ \A S : Terms(S) = Weights(list[Simple], unread, S)
  /\ \A S : Terms(S)' = Weights(list[Simple]', unread', S')
BY DEF Terms, Weights, Scaled

(* A movement in virtual units is an integer, and 0 for none.              *)
LEMMA ScaledType ==
  ASSUME NEW d \in Mice, NEW m \in Int
  PROVE  Scaled(d, m) \in Int /\ Scaled(d, 0) = 0
<1>1. Resolution[d] \in Nat /\ Virtual \in Nat
  BY PointersAssumption
<1>2. CASE m = 0 \/ Resolution[d] = 0
  BY <1>2 DEF Scaled
<1>3. CASE m # 0 /\ Resolution[d] # 0
  <2> DEFINE p == m * Virtual
             q == -m * Virtual
  <2>1. p \in Int /\ q \in Int
    BY <1>1
  <2> HIDE DEF p, q
  <2>2. p \div Resolution[d] \in Int /\ -(q \div Resolution[d]) \in Int
    BY <1>1, <1>3, <2>1
  <2> QED
    BY <1>3, <2>2 DEF Scaled, p, q
<1> QED
  BY <1>2, <1>3

(* So is each term.                                                        *)
LEMMA WeightsType ==
  ASSUME NEW l \in Seq(Mice), NEW u \in [Mice -> Int], NEW S
  PROVE  /\ Weights(l, u, S) \in Seq(Int) /\ Len(Weights(l, u, S)) = Len(l)
         /\ \A i \in 1 .. Len(l) :
              /\ l[i] \in Mice
              /\ Weights(l, u, S)[i] = IF l[i] \in S THEN Scaled(l[i], u[l[i]]) ELSE 0
         /\ \A i \in 1 .. Len(l) : Weights(l, u, ToSet(l))[i] = Scaled(l[i], u[l[i]])
<1>1. \A i \in 1 .. Len(l) : l[i] \in Mice /\ l[i] \in ToSet(l)
  BY DEF ToSet
<1>2. \A i \in 1 .. Len(l) : Scaled(l[i], u[l[i]]) \in Int
  BY <1>1, ScaledType
<1> QED
  BY <1>1, <1>2 DEF Weights

(* A sum of what waits is a number.                                        *)
LEMMA WaitsType ==
  ASSUME NEW l \in Seq(Mice), NEW u \in [Mice -> Int]
  PROVE  Waits(l, u) \in Int
<1>1. Weights(l, u, ToSet(l)) \in Seq(Int)
  BY WeightsType
<1> QED
  BY <1>1, SumType DEF Waits

(* What is taken from the mice of S is what their part of the sum was.     *)
LEMMA TakenFromSum ==
  ASSUME NEW l \in Seq(Mice), NEW u \in [Mice -> Int], NEW S,
         NEW v \in [Mice -> Int], \A d \in Mice : v[d] = IF d \in S THEN 0 ELSE u[d]
  PROVE  Waits(l, v) = Waits(l, u) - Sum(Weights(l, u, S))
<1> DEFINE all == Weights(l, u, ToSet(l))
           gone == Weights(l, u, S)
           stay == Weights(l, v, ToSet(l))
<1>1. /\ all \in Seq(Int) /\ gone \in Seq(Int) /\ stay \in Seq(Int)
      /\ Len(all) = Len(l) /\ Len(gone) = Len(l) /\ Len(stay) = Len(l)
  BY WeightsType, SMTT(60)
<1>2. \A i \in 1 .. Len(l) : l[i] \in Mice /\ all[i] = Scaled(l[i], u[l[i]])
  BY WeightsType, SMTT(60)
<1>3. \A i \in 1 .. Len(l) : stay[i] = Scaled(l[i], v[l[i]])
  BY WeightsType, SMTT(60)
<1>4. \A i \in 1 .. Len(l) : gone[i] = IF l[i] \in S THEN Scaled(l[i], u[l[i]]) ELSE 0
  BY WeightsType, SMTT(60)
<1>5. ASSUME NEW i \in 1 .. Len(l) PROVE all[i] = gone[i] + stay[i]
  <2>1. Scaled(l[i], u[l[i]]) \in Int /\ Scaled(l[i], 0) = 0
    BY <1>2, ScaledType
  <2>2. CASE l[i] \in S
    BY <1>2, <1>3, <1>4, <2>1, <2>2
  <2>3. CASE l[i] \notin S
    BY <1>2, <1>3, <1>4, <2>1, <2>3
  <2> QED
    BY <2>2, <2>3
<1> HIDE DEF all, gone, stay
<1>6. Sum(all) = Sum(gone) + Sum(stay)
  BY <1>1, <1>5, SumPlus
<1>7. Sum(all) \in Int /\ Sum(gone) \in Int /\ Sum(stay) \in Int
  BY <1>1, SumType
<1>8. Sum(stay) = Sum(all) - Sum(gone)
  BY <1>6, <1>7
<1> QED
  BY <1>8 DEF Waits, all, gone, stay

(* A mouse that moves adds the difference.                                 *)
LEMMA AddedToSum ==
  ASSUME NEW l \in Seq(Mice), Distinct(l), NEW u \in [Mice -> Int],
         NEW v \in [Mice -> Int], NEW d \in ToSet(l),
         \A e \in Mice : e # d => v[e] = u[e]
  PROVE  Waits(l, v) = Waits(l, u) + Scaled(d, v[d]) - Scaled(d, u[d])
<1> DEFINE old == Weights(l, u, ToSet(l))
           new == Weights(l, v, ToSet(l))
           by == Scaled(d, v[d]) - Scaled(d, u[d])
           more == [i \in 1 .. Len(l) |-> IF l[i] = d THEN by ELSE 0]
<1>0. d \in Mice
  BY DEF ToSet
<1>1. Scaled(d, v[d]) \in Int /\ Scaled(d, u[d]) \in Int
  BY <1>0, ScaledType
<1>2. /\ old \in Seq(Int) /\ new \in Seq(Int) /\ Len(old) = Len(l) /\ Len(new) = Len(l)
  BY WeightsType, SMTT(60)
<1>3. \A i \in 1 .. Len(l) : l[i] \in Mice /\ old[i] = Scaled(l[i], u[l[i]])
  BY WeightsType
<1>4. \A i \in 1 .. Len(l) : new[i] = Scaled(l[i], v[l[i]])
  BY WeightsType
<1>5. by \in Int
  BY <1>1
<1>6. /\ more \in Seq(Int) /\ Len(more) = Len(l)
      /\ \A i \in 1 .. Len(l) : more[i] = IF l[i] = d THEN by ELSE 0
  <2> HIDE DEF by
  <2> QED
    BY <1>5
<1>7. ASSUME NEW i \in 1 .. Len(l) PROVE new[i] = old[i] + more[i]
  <2>1. Scaled(l[i], u[l[i]]) \in Int
    BY <1>3, ScaledType
  <2>2. CASE l[i] = d
    BY <1>1, <1>3, <1>4, <1>6, <2>2
  <2>3. CASE l[i] # d
    BY <1>3, <1>4, <1>6, <2>1, <2>3
  <2> QED
    BY <2>2, <2>3
<1>8. PICK j \in 1 .. Len(l) : l[j] = d
  BY DEF ToSet
<1>9. \A i \in 1 .. Len(l) : i # j => more[i] = 0
  BY <1>6, <1>8 DEF Distinct
<1> HIDE DEF old, new, more, by
<1>10. Sum(new) = Sum(old) + Sum(more)
  BY <1>2, <1>6, <1>7, SumPlus
<1>11. Sum(more) = by
  BY <1>6, <1>8, <1>9, SumOfOne, SMTT(60)
<1>12. Sum(old) \in Int
  BY <1>2, SumType
<1> QED
  BY <1>1, <1>10, <1>11, <1>12 DEF Waits, old, new, by

(* A mouse that comes has not moved yet.                                   *)
LEMMA ComesWithNothing ==
  ASSUME NEW l \in Seq(Mice), NEW u \in [Mice -> Int], NEW d \in Mice, u[d] = 0
  PROVE  Waits(Append(l, d), u) = Waits(l, u)
<1> DEFINE m == Append(l, d)
           old == Weights(l, u, ToSet(l))
           new == Weights(m, u, ToSet(m))
<1>1. /\ m \in Seq(Mice) /\ Len(m) = Len(l) + 1 /\ m[Len(m)] = d
      /\ \A i \in 1 .. Len(l) : m[i] = l[i]
  OBVIOUS
<1> HIDE DEF m
<1>2. /\ old \in Seq(Int) /\ Len(old) = Len(l)
      /\ \A i \in 1 .. Len(l) : old[i] = Scaled(l[i], u[l[i]])
  BY WeightsType
<1>3. /\ new \in Seq(Int) /\ Len(new) = Len(m)
      /\ \A i \in 1 .. Len(m) : new[i] = Scaled(m[i], u[m[i]])
  BY <1>1, WeightsType
<1>4. Len(l) \in Nat /\ Len(m) \in 1 .. Len(m)
  BY <1>1
<1>5. \A i \in 1 .. Len(l) : i \in 1 .. Len(m) /\ new[i] = old[i]
  BY <1>1, <1>2, <1>3, <1>4
<1>6. new[Len(new)] = 0
  BY <1>1, <1>3, <1>4, ScaledType
<1> HIDE DEF old, new
<1>7. Sum(new) = Sum(old) + new[Len(new)] /\ Sum(old) \in Int
  <2>1. Sum(old) \in Int
    BY <1>2, SumType
  <2>2. /\ old \in Seq(Int) /\ new \in Seq(Int) /\ Len(new) = Len(old) + 1
        /\ \A i \in 1 .. Len(old) : new[i] = old[i]
    BY <1>1, <1>2, <1>3, <1>5
  <2>3. Sum(new) = Sum(old) + new[Len(new)]
    BY <2>2, SumOfMore, ZenonT(30)
  <2> QED
    BY <2>1, <2>3
<1> QED
  BY <1>6, <1>7 DEF Waits, old, new, m

(* A mouse that goes has been read, or takes its movement with it.         *)
LEMMA GoesWithNothing ==
  ASSUME NEW l \in Seq(Mice), NEW u \in [Mice -> Int], NEW d \in ToSet(l), u[d] = 0
  PROVE  Waits(RemoveFirst(l, d), u) = Waits(l, u)
<1> DEFINE r == RemoveFirst(l, d)
           old == Weights(l, u, ToSet(l))
           new == Weights(r, u, ToSet(r))
<1> HIDE DEF r, old, new
<1>0. r \in Seq(Mice) /\ \E k \in 1 .. Len(l) : l[k] = d /\ Without(l, k, r)
  BY Closed DEF r
<1>a. PICK k \in 1 .. Len(l) : l[k] = d /\ Without(l, k, r)
  BY <1>0
<1>1. /\ l[k] = d /\ r \in Seq(Mice) /\ Len(r) = Len(l) - 1 /\ k \in Nat
      /\ \A i \in 1 .. Len(l) - 1 : r[i] = IF i < k THEN l[i] ELSE l[i + 1]
  BY <1>0, <1>a, SMTT(60) DEF Without
<1>2. /\ old \in Seq(Int) /\ Len(old) = Len(l)
      /\ \A i \in 1 .. Len(l) : old[i] = Scaled(l[i], u[l[i]])
  BY WeightsType DEF old
<1>3. /\ new \in Seq(Int) /\ Len(new) = Len(r)
      /\ \A i \in 1 .. Len(r) : new[i] = Scaled(r[i], u[r[i]])
  BY <1>1, WeightsType, SMTT(60) DEF new
<1>4. Len(l) \in Nat /\ Len(old) = Len(new) + 1 /\ k \in 1 .. Len(old)
  BY <1>1, <1>2, <1>3
<1>5. ASSUME NEW i \in 1 .. Len(new) PROVE new[i] = IF i < k THEN old[i] ELSE old[i + 1]
  <2>1. i \in 1 .. Len(l) /\ i + 1 \in 1 .. Len(l) /\ i \in 1 .. Len(r) /\ i \in 1 .. Len(l) - 1
    BY <1>1, <1>3, <1>4
  <2>2. CASE i < k
    <3>1. r[i] = l[i] /\ new[i] = Scaled(r[i], u[r[i]])
      BY <1>1, <1>3, <2>1, <2>2
    <3>2. old[i] = Scaled(l[i], u[l[i]])
      BY <1>2, <2>1
    <3> QED
      BY <2>2, <3>1, <3>2
  <2>3. CASE ~(i < k)
    <3>1. r[i] = l[i + 1] /\ new[i] = Scaled(r[i], u[r[i]])
      BY <1>1, <1>3, <2>1, <2>3
    <3>2. old[i + 1] = Scaled(l[i + 1], u[l[i + 1]])
      BY <1>2, <2>1
    <3> QED
      BY <2>3, <3>1, <3>2
  <2> QED
    BY <2>2, <2>3
<1>6. d \in Mice
  BY <1>1
<1>7. old[k] = 0
  BY <1>1, <1>2, <1>6, ScaledType
<1>8. Sum(new) = Sum(old) - old[k] /\ Sum(old) \in Int
  BY <1>2, <1>3, <1>4, <1>5, SumOfFewer, SumType
<1> QED
  BY <1>7, <1>8 DEF Waits, old, new, r

-----------------------------------------------------------------------------
(* The inductive invariant: what waits is in a listed mouse that says so.  *)

(* The lists hold mice and panels, and a mouse once.                       *)
Lists ==
  /\ list \in [Kinds -> Seq(Devices)]
  /\ list[Simple] \in Seq(Mice) /\ list[Absolute] \in Seq(Panels)
  /\ Distinct(list[Simple])

(* A list fits into what was allocated for it.                             *)
Capacity == count \in [Kinds -> Nat] /\ \A k \in Kinds : Len(list[k]) <= count[k]

(* Only listed mice that signal their event have moved.                    *)
Moves ==
  /\ unread \in [Mice -> Int]
  /\ \A d \in Mice : unread[d] # 0 => d \in fresh /\ d \in ToSet(list[Simple])

(* What callers were not told of waits in the mice or was lost.            *)
Told ==
  /\ due \in Int /\ lost \in Int
  /\ due = Waits(list[Simple], unread) + lost

PointerInv == Lists /\ Capacity /\ Moves /\ Told

(* The two lists are two.                                                  *)
LEMMA KindsDiffer == Simple \in Kinds /\ Absolute \in Kinds /\ Simple # Absolute
BY DEF Simple, Absolute, Kinds

(* The invariant is what the run checks, and more.                         *)
LEMMA InvImplies == PointerInv => MovementKept
BY TermsAreWeights DEF PointerInv, Told, Capacity, MovementKept, Forgotten, Waits

(* It holds of the empty lists.                                            *)
LEMMA InitHolds == PointerInit => PointerInv
<1> SUFFICES ASSUME PointerInit PROVE PointerInv
  OBVIOUS
<1>1. list[Simple] = <<>> /\ unread \in [Mice -> Int] /\ \A d \in Mice : unread[d] = 0
  BY KindsDiffer DEF PointerInit
<1>2. Lists /\ Moves
  BY <1>1, KindsDiffer DEF Lists, Moves, Distinct, PointerInit
<1>3. Capacity
  BY PointersAssumption DEF Capacity, PointerInit
<1>4. Told
  <2> DEFINE w == Weights(list[Simple], unread, ToSet(list[Simple]))
  <2>1. w \in Seq(Int) /\ Len(w) = 0
    BY <1>1 DEF Weights
  <2> HIDE DEF w
  <2>2. \A i \in 1 .. Len(w) : w[i] = 0
    BY <2>1
  <2>3. Sum(w) = 0
    BY <2>1, <2>2, SumOfNone
  <2> QED
    BY <2>3 DEF Told, Waits, w, PointerInit
<1> QED
  BY <1>2, <1>3, <1>4 DEF PointerInv

(* The lists and what is counted of them only change with each other.      *)
LEMMA ListsKept == Lists /\ Capacity /\ UNCHANGED <<list, count>> => Lists' /\ Capacity'
BY DEF Lists, Capacity, Distinct

(* A mouse that moves adds the same to what is due and to what waits.      *)
LEMMA MoveKeeps ==
  ASSUME PointerInv, NEW d \in Mice, NEW m \in -1 .. 1, Move(d, m)
  PROVE  PointerInv'
<1> USE DEF PointerInv
<1>1. Lists' /\ Capacity'
  BY ListsKept DEF Move
<1>2. /\ unread' \in [Mice -> Int] /\ unread'[d] = unread[d] + m
      /\ \A e \in Mice : e # d => unread'[e] = unread[e]
      /\ fresh' = fresh \cup {d} /\ list' = list /\ d \in ToSet(list[Simple])
      /\ due' = due + Scaled(d, unread[d] + m) - Scaled(d, unread[d]) /\ lost' = lost
  BY DEF Move, Moves
<1>3. Moves'
  BY <1>2 DEF Moves
<1>4. Waits(list[Simple], unread') =
        Waits(list[Simple], unread) + Scaled(d, unread'[d]) - Scaled(d, unread[d])
  BY <1>2, AddedToSum DEF Lists, Moves
<1>5. Scaled(d, unread'[d]) \in Int /\ Scaled(d, unread[d]) \in Int
  BY <1>2, ScaledType DEF Moves
<1>6. Told'
  <2>1. Waits(list'[Simple], unread') = Waits(list[Simple], unread) + Scaled(d, unread'[d]) - Scaled(d, unread[d])
    BY <1>2, <1>4
  <2>2. due' = due + Scaled(d, unread'[d]) - Scaled(d, unread[d])
    BY <1>2
  <2>3. Waits(list[Simple], unread) \in Int
    BY WaitsType DEF Lists, Moves
  <2> QED
    BY <1>2, <1>5, <2>1, <2>2, <2>3 DEF Told
<1> QED
  BY <1>1, <1>3, <1>6

(* Whatever is taken from devices is told, given up or lost.               *)
LEMMA TakenKeeps ==
  ASSUME PointerInv, NEW S, Taken(S), list' = list,
         \/ due' = due - Forgotten(S) /\ lost' = lost
         \/ due' = due /\ lost' = lost + Forgotten(S)
  PROVE  Moves' /\ Told'
<1> USE DEF PointerInv
<1>1. unread' \in [Mice -> Int] /\ \A d \in Mice : unread'[d] = IF d \in S THEN 0 ELSE unread[d]
  BY DEF Taken, Moves
<1>2. Moves'
  BY <1>1 DEF Moves, Taken
<1>3. Waits(list[Simple], unread') =
        Waits(list[Simple], unread) - Sum(Weights(list[Simple], unread, S))
  BY <1>1, TakenFromSum DEF Lists, Moves
<1>4. Sum(Weights(list[Simple], unread, S)) \in Int
  BY WeightsType, SumType DEF Lists, Moves
<1>5. Told'
  <2>1. Forgotten(S) \in Int /\ Waits(list'[Simple], unread') = Waits(list[Simple], unread) - Forgotten(S)
    BY <1>3, <1>4, TermsAreWeights DEF Forgotten
  <2>2. Waits(list[Simple], unread) \in Int
    BY WaitsType DEF Lists, Moves
  <2> QED
    BY <2>1, <2>2 DEF Told
<1> QED
  BY <1>2, <1>5

(* A reset takes what it forgets.                                          *)
LEMMA ResetKeeps ==
  ASSUME PointerInv, NEW k \in Kinds, NEW bad, ResetAll(k, bad) PROVE PointerInv'
BY ListsKept, TakenKeeps DEF PointerInv, ResetAll

(* Devices without something new have nothing to add.                      *)
LEMMA MovementIsForgotten ==
  ASSUME PointerInv, NEW S PROVE Movement(S) = Forgotten(S)
<1>1. \A i \in 1 .. Len(list[Simple]) : list[Simple][i] \in Mice
  BY DEF PointerInv, Lists
<1>2. \A d \in Mice : d \notin fresh => Scaled(d, unread[d]) = 0
  BY ScaledType DEF PointerInv, Moves
<1>3. Weights(list[Simple], unread, S \cap fresh) = Weights(list[Simple], unread, S)
  BY <1>1, <1>2 DEF Weights
<1> QED
  BY <1>3, TermsAreWeights DEF Movement, Forgotten

(* A read takes what it reports.                                           *)
LEMMA GetStateKeeps ==
  ASSUME PointerInv, NEW bad, SimplePointerGetState(bad) PROVE PointerInv'
BY ListsKept, TakenKeeps, MovementIsForgotten
   DEF PointerInv, SimplePointerGetState, PrivateGetState

(* Panels are no part of the sum.                                          *)
LEMMA PanelsGetStateKeeps ==
  ASSUME PointerInv, NEW bad, AbsolutePointerGetState(bad) PROVE PointerInv'
<1> USE DEF PointerInv
<1>1. Lists' /\ Capacity'
  BY ListsKept DEF AbsolutePointerGetState
<1>2. \A d \in Mice : d \notin ToSet(list[Absolute])
  BY PointersAssumption DEF Lists, ToSet
<1>3. /\ \A d \in Mice : unread'[d] = unread[d] /\ (d \in fresh => d \in fresh')
      /\ unread' \in [Mice -> Int] /\ list' = list /\ due' = due /\ lost' = lost
  BY <1>2 DEF AbsolutePointerGetState, Taken, Moves
<1>4. unread' = unread
  BY <1>3 DEF Moves
<1>5. Moves' /\ Told'
  BY <1>3, <1>4 DEF Moves, Told
<1> QED
  BY <1>1, <1>5

(* A device is added where there is room, or room is made.                 *)
LEMMA CapacityGrows ==
  ASSUME Lists, Capacity, NEW k \in Kinds, NEW d, Added(d, k),
         \A j \in Kinds : Len(list'[j]) = IF j = k THEN Len(list[j]) + 1 ELSE Len(list[j])
  PROVE  Capacity'
<1>1. Unit \in Nat \ {0}
  BY PointersAssumption
<1>2. \A j \in Kinds : Len(list[j]) \in Nat
  BY DEF Lists
<1>3. /\ \A j \in Kinds :
           count'[j] = IF j = k /\ Len(list[j]) >= count[j] THEN count[j] + Unit ELSE count[j]
      /\ count' \in [Kinds -> Nat]
  BY <1>1 DEF Capacity, Added
<1> QED
  BY <1>1, <1>2, <1>3 DEF Capacity

(* A mouse comes, and has not moved.                                       *)
LEMMA SimpleStartKeeps ==
  ASSUME PointerInv, NEW d \in Mice, SimplePointerStart(d) PROVE PointerInv'
<1> USE DEF PointerInv
<1> DEFINE l == list[Simple]
           m == Append(l, d)
<1>1. /\ d \notin ToSet(l) /\ Added(d, Simple) /\ UNCHANGED <<fresh, unread, due, lost>>
  BY DEF SimplePointerStart, IsNew, KindOf, SimplePointerAddDevice
<1>2. list' = [list EXCEPT ![Simple] = m]
  BY <1>1 DEF Added
<1>3. l \in Seq(Mice) /\ l \in Seq(Devices) /\ Distinct(l) /\ d \in Devices
  BY KindsDiffer DEF Lists, Devices
<1>4. /\ m \in Seq(Mice) /\ m \in Seq(Devices) /\ Len(m) = Len(l) + 1 /\ m[Len(l) + 1] = d
      /\ \A i \in 1 .. Len(l) : m[i] = l[i]
  BY <1>3
<1>5. Distinct(m) /\ \A e \in ToSet(l) : e \in ToSet(m)
  BY <1>1, <1>3, <1>4 DEF Distinct, ToSet
<1> HIDE DEF m
<1>6. /\ list' \in [Kinds -> Seq(Devices)] /\ list'[Simple] = m
      /\ list'[Absolute] = list[Absolute]
      /\ \A j \in Kinds : Len(list'[j]) = IF j = Simple THEN Len(list[j]) + 1 ELSE Len(list[j])
  BY <1>2, <1>4, KindsDiffer DEF Lists
<1>7. Lists' /\ Capacity'
  <2>1. Capacity'
    BY <1>1, <1>6, CapacityGrows, KindsDiffer
  <2> QED
    BY <1>4, <1>5, <1>6, <2>1 DEF Lists
<1>8. Moves'
  BY <1>1, <1>5, <1>6 DEF Moves
<1>9. unread[d] = 0
  BY <1>1 DEF Moves
<1>10. Waits(m, unread) = Waits(l, unread)
  BY <1>3, <1>9, ComesWithNothing DEF Moves, m
<1>11. Told'
  BY <1>1, <1>6, <1>10 DEF Told
<1> QED
  BY <1>7, <1>8, <1>11

(* A panel comes, which is no part of the sum.                             *)
LEMMA AbsoluteStartKeeps ==
  ASSUME PointerInv, NEW d \in Panels, AbsolutePointerStart(d) PROVE PointerInv'
<1> USE DEF PointerInv
<1> DEFINE l == list[Absolute]
           m == Append(l, d)
<1>1. Added(d, Absolute) /\ UNCHANGED <<fresh, unread, due, lost>>
  BY DEF AbsolutePointerStart, AbsolutePointerAddDevice
<1>2. list' = [list EXCEPT ![Absolute] = m]
  BY <1>1 DEF Added
<1>3. l \in Seq(Panels) /\ l \in Seq(Devices) /\ d \in Devices
  BY KindsDiffer DEF Lists, Devices
<1>4. m \in Seq(Panels) /\ m \in Seq(Devices) /\ Len(m) = Len(l) + 1
  BY <1>3
<1> HIDE DEF m
<1>6. /\ list' \in [Kinds -> Seq(Devices)] /\ list'[Simple] = list[Simple]
      /\ list'[Absolute] = m
      /\ \A j \in Kinds : Len(list'[j]) = IF j = Absolute THEN Len(list[j]) + 1 ELSE Len(list[j])
  BY <1>2, <1>4, KindsDiffer DEF Lists
<1>7. Capacity'
  BY <1>1, <1>6, CapacityGrows, KindsDiffer
<1>8. Lists' /\ Moves' /\ Told'
  BY <1>1, <1>4, <1>6 DEF Lists, Moves, Told
<1> QED
  BY <1>7, <1>8

(* What a list that is closed up still holds.                              *)
LEMMA ClosedUp ==
  ASSUME NEW S, NEW l \in Seq(S), Distinct(l), NEW d \in ToSet(l)
  PROVE  /\ Distinct(RemoveFirst(l, d))
         /\ \A e \in ToSet(l) : e # d => e \in ToSet(RemoveFirst(l, d))
<1> DEFINE r == RemoveFirst(l, d)
<1> HIDE DEF r
<1>0. r \in Seq(S) /\ \E k \in 1 .. Len(l) : l[k] = d /\ Without(l, k, r)
  BY Closed DEF r
<1>1. PICK k \in 1 .. Len(l) : l[k] = d /\ Without(l, k, r)
  BY <1>0
<1>2. /\ Len(r) = Len(l) - 1 /\ Len(l) \in Nat
      /\ \A i \in 1 .. Len(l) - 1 : r[i] = IF i < k THEN l[i] ELSE l[i + 1]
  BY <1>1 DEF Without
<1> DEFINE old(i) == IF i < k THEN i ELSE i + 1
<1>3. \A i \in 1 .. Len(r) : old(i) \in 1 .. Len(l) /\ r[i] = l[old(i)]
  BY <1>2
<1>4. \A i, j \in 1 .. Len(r) : old(i) = old(j) => i = j
  BY <1>2
<1>5. \A i \in 1 .. Len(l) : i # k => \E j \in 1 .. Len(r) : old(j) = i
  <2> TAKE i \in 1 .. Len(l)
  <2>1. CASE i < k
    BY <1>2, <2>1
  <2>2. CASE i > k
    <3>1. i - 1 \in 1 .. Len(r) /\ ~(i - 1 < k) /\ (i - 1) + 1 = i
      BY <1>2, <2>2
    <3> QED
      BY <3>1
  <2> QED
    BY <1>1, <2>1, <2>2
<1> HIDE DEF old
<1>6. Distinct(r)
  BY <1>3, <1>4 DEF Distinct
<1>7. ASSUME NEW e \in ToSet(l), e # d PROVE e \in ToSet(r)
  <2>1. PICK i \in 1 .. Len(l) : l[i] = e
    BY DEF ToSet
  <2>2. PICK j \in 1 .. Len(r) : old(j) = i
    BY <1>1, <1>5, <1>7, <2>1
  <2>3. r[j] = e
    BY <1>3, <2>1, <2>2
  <2> QED
    BY <1>0, <2>3 DEF ToSet
<1> QED
  BY <1>6, <1>7 DEF r

(* A mouse goes, with what waited in it.                                   *)
LEMMA SimpleStopKeeps ==
  ASSUME PointerInv, NEW d \in Mice, SimplePointerStop(d) PROVE PointerInv'
<1> USE DEF PointerInv
<1> DEFINE l == list[Simple]
           r == RemoveFirst(l, d)
<1>1. /\ d \in ToSet(l) /\ Taken({d}) /\ due' = due - Forgotten({d}) /\ lost' = lost /\ count' = count
      /\ list' = [list EXCEPT ![Simple] = r]
  BY KindsDiffer DEF SimplePointerStop, SimplePointerDeleteDevice, Removed, Unplug, Lists
<1>2. l \in Seq(Mice) /\ l \in Seq(Devices) /\ Distinct(l)
  BY KindsDiffer DEF Lists
<1>3. /\ r \in Seq(Mice) /\ r \in Seq(Devices) /\ Distinct(r)
      /\ \A e \in ToSet(l) : e # d => e \in ToSet(r)
  BY <1>1, <1>2, Closed, ClosedUp
<1>4. Len(r) = Len(l) - 1 /\ Len(l) \in Nat
  BY <1>1, <1>2, Closed DEF Without
<1>5. /\ unread' \in [Mice -> Int] /\ unread'[d] = 0 /\ fresh' = fresh \ {d}
      /\ \A e \in Mice : unread'[e] = IF e \in {d} THEN 0 ELSE unread[e]
  BY <1>1 DEF Taken, Moves
<1>6. Waits(l, unread') = Waits(l, unread) - Sum(Weights(l, unread, {d}))
  BY <1>2, <1>5, TakenFromSum DEF Moves
<1>7. Waits(r, unread') = Waits(l, unread')
  BY <1>1, <1>2, <1>5, GoesWithNothing
<1>8. Sum(Weights(l, unread, {d})) \in Int
  BY <1>2, WeightsType, SumType DEF Moves
<1> HIDE DEF r
<1>9. /\ list' \in [Kinds -> Seq(Devices)] /\ list'[Simple] = r /\ list'[Absolute] = list[Absolute]
      /\ \A j \in Kinds : Len(list'[j]) <= Len(list[j])
  BY <1>1, <1>3, <1>4, KindsDiffer DEF Lists
<1>10. Lists'
  BY <1>3, <1>9 DEF Lists
<1>11. Capacity'
  <2>1. \A j \in Kinds : Len(list[j]) \in Nat /\ Len(list'[j]) \in Nat
    BY <1>9 DEF Lists
  <2> QED
    BY <1>1, <1>9, <2>1 DEF Capacity
<1>12. Moves'
  BY <1>3, <1>5, <1>9 DEF Moves
<1>13. Told'
  <2>1. Forgotten({d}) \in Int /\ Waits(list'[Simple], unread') = Waits(list[Simple], unread) - Forgotten({d})
    BY <1>6, <1>7, <1>8, <1>9, TermsAreWeights DEF Forgotten
  <2>2. Waits(list[Simple], unread) \in Int
    BY WaitsType DEF Lists, Moves
  <2> QED
    BY <1>1, <2>1, <2>2 DEF Told
<1> QED
  BY <1>10, <1>11, <1>12, <1>13

(* A panel goes.                                                           *)
LEMMA AbsoluteStopKeeps ==
  ASSUME PointerInv, NEW d \in Panels, AbsolutePointerStop(d) PROVE PointerInv'
<1> USE DEF PointerInv
<1> DEFINE l == list[Absolute]
           r == RemoveFirst(l, d)
<1>1. /\ d \in ToSet(l) /\ Taken({d}) /\ due' = due - Forgotten({d}) /\ lost' = lost /\ count' = count
      /\ list' = [list EXCEPT ![Absolute] = r]
  BY KindsDiffer DEF AbsolutePointerStop, AbsolutePointerDeleteDevice, Removed, Unplug, Lists
<1>2. l \in Seq(Panels) /\ l \in Seq(Devices)
  BY KindsDiffer DEF Lists
<1>3. /\ r \in Seq(Panels) /\ r \in Seq(Devices) /\ Len(r) = Len(l) - 1 /\ Len(l) \in Nat
  BY <1>1, <1>2, Closed DEF Without
<1> HIDE DEF r
<1>4. /\ list' \in [Kinds -> Seq(Devices)] /\ list'[Simple] = list[Simple] /\ list'[Absolute] = r
      /\ \A j \in Kinds : Len(list'[j]) <= Len(list[j])
  BY <1>1, <1>3, KindsDiffer DEF Lists
<1>5. Lists'
  BY <1>3, <1>4 DEF Lists
<1>6. Capacity'
  <2>1. \A j \in Kinds : Len(list[j]) \in Nat /\ Len(list'[j]) \in Nat
    BY <1>4 DEF Lists
  <2> QED
    BY <1>1, <1>4, <2>1 DEF Capacity
<1>7. d \notin Mice
  BY PointersAssumption
<1>8. /\ unread' \in [Mice -> Int] /\ fresh' = fresh \ {d}
      /\ \A e \in Mice : unread'[e] = IF e \in {d} THEN 0 ELSE unread[e]
  BY <1>1 DEF Taken, Moves
<1>9. Moves'
  BY <1>4, <1>7, <1>8 DEF Moves
<1>10. Waits(list[Simple], unread') =
         Waits(list[Simple], unread) - Sum(Weights(list[Simple], unread, {d}))
  <2> DEFINE S == {d}
  <2>1. /\ list[Simple] \in Seq(Mice) /\ unread \in [Mice -> Int] /\ unread' \in [Mice -> Int]
        /\ \A e \in Mice : unread'[e] = IF e \in S THEN 0 ELSE unread[e]
    BY <1>8 DEF Moves, Lists
  <2> HIDE DEF S
  <2>2. Waits(list[Simple], unread') =
          Waits(list[Simple], unread) - Sum(Weights(list[Simple], unread, S))
    BY <2>1, TakenFromSum
  <2> QED
    BY <2>2 DEF S
<1>11. Sum(Weights(list[Simple], unread, {d})) \in Int
  BY WeightsType, SumType DEF Moves, Lists
<1>12. Told'
  <2>1. Forgotten({d}) \in Int /\ Waits(list'[Simple], unread') = Waits(list[Simple], unread) - Forgotten({d})
    BY <1>4, <1>10, <1>11, TermsAreWeights DEF Forgotten
  <2>2. Waits(list[Simple], unread) \in Int
    BY WaitsType DEF Lists, Moves
  <2> QED
    BY <1>1, <2>1, <2>2 DEF Told
<1> QED
  BY <1>5, <1>6, <1>9, <1>12

(* Every step keeps the invariant.                                         *)
LEMMA InvKept == PointerInv /\ [PointerNext]_pointerVars => PointerInv'
<1> SUFFICES ASSUME PointerInv, [PointerNext]_pointerVars PROVE PointerInv'
  OBVIOUS
<1>1. ASSUME NEW d \in Mice, \E m \in -1 .. 1 : Move(d, m) PROVE PointerInv'
  BY <1>1, MoveKeeps
<1>2. ASSUME NEW d \in Mice, SimplePointerStart(d) PROVE PointerInv'
  BY <1>2, SimpleStartKeeps
<1>3. ASSUME NEW d \in Mice, SimplePointerStop(d) PROVE PointerInv'
  BY <1>3, SimpleStopKeeps
<1>4. ASSUME NEW d \in Panels, Touch(d) PROVE PointerInv'
  BY <1>4 DEF Touch, PointerInv, Lists, Capacity, Moves, Told, Distinct
<1>5. ASSUME NEW d \in Panels, AbsolutePointerStart(d) PROVE PointerInv'
  BY <1>5, AbsoluteStartKeeps
<1>6. ASSUME NEW d \in Panels, AbsolutePointerStop(d) PROVE PointerInv'
  BY <1>6, AbsoluteStopKeeps
<1>7. ASSUME NEW bad, SimplePointerReset(bad) \/ AbsolutePointerReset(bad) PROVE PointerInv'
  BY <1>7, ResetKeeps, KindsDiffer DEF SimplePointerReset, AbsolutePointerReset
<1>8. ASSUME NEW bad, SimplePointerGetState(bad) PROVE PointerInv'
  BY <1>8, GetStateKeeps
<1>9. ASSUME NEW bad, AbsolutePointerGetState(bad) PROVE PointerInv'
  BY <1>9, PanelsGetStateKeeps
<1>10. ASSUME NEW k, Wait(k) PROVE PointerInv'
  BY <1>10 DEF Wait, PointerInv, Lists, Capacity, Moves, Told, Distinct
<1>11. ASSUME UNCHANGED pointerVars PROVE PointerInv'
  BY <1>11 DEF pointerVars, PointerInv, Lists, Capacity, Moves, Told, Distinct
<1> QED
  BY <1>1, <1>2, <1>3, <1>4, <1>5, <1>6, <1>7, <1>8, <1>9, <1>10, <1>11
     DEF PointerNext, SimplePointerWaitForInput, AbsolutePointerWaitForInput

(* For any mice, panels and resolutions, and whatever fails, comes and     *)
(* goes: what callers were not told of the movement of the mice still      *)
(* waits in them, or was taken by a read that returned EFI_DEVICE_ERROR    *)
(* (ConSplitterSimplePointerPrivateGetState).                              *)
THEOREM MovementIsKept == PointerSpec => []MovementKept
<1>1. PointerInv => MovementKept
  BY InvImplies
<1> QED
  BY <1>1, InitHolds, InvKept, PTL DEF PointerSpec
-----------------------------------------------------------------------------
(* The terminal.  A string is written with the cursor taken away.  The line *)
(* break at the end of a row is a call of OutputString that takes a cursor   *)
(* away and draws it again, so FlushCursor is called before and after it.   *)
(* The blank of a backspace is such a call as well: it draws a cursor first *)
(* and covers it, and FlushCursor takes away the one it draws at last.  The *)
(* blank for half of a wide character leaves that one in column 0, where    *)
(* the wide character that follows covers it (Ahead).                       *)
(* The lists of text modes that begin with the basic one.                  *)
ModeSizes == WindowSizes \cup {NoSize}
ModeLists == {m \in Seq(ModeSizes) : Len(m) >= 1 /\ m[1] = Basic}

(* What the loop of InitializeGraphicsConsoleTextMode does to such a list. *)
LEMMA ModeListGrows ==
  ASSUME NEW m \in ModeLists, NEW s \in ModeSizes
  PROVE  Append(m, s) \in ModeLists
<1> DEFINE r == Append(m, s)
<1>1. m \in Seq(ModeSizes) /\ Len(m) \in Nat \ {0} /\ m[1] = Basic
  BY DEF ModeLists
<1>2. r \in Seq(ModeSizes) /\ Len(r) = Len(m) + 1 /\ r[1] = m[1]
  BY <1>1, AppendProperties
<1> HIDE DEF r
<1>3. r \in ModeLists
  BY <1>1, <1>2 DEF ModeLists
<1> QED
  BY <1>3 DEF r

(* Of a graphics mode, each text mode is none or a size, and mode 0 is the *)
(* basic one.                                                              *)
LEMMA ModesType ==
  ASSUME NEW g \in 0 .. Len(GopModes) - 1 PROVE TextModesOf(g) \in ModeLists
<1> DEFINE most == Glyphs[GopModes[g + 1]]
           sizes == Append(Defined, most)
           Fits(s) == s[1] \in 1 .. most[1] /\ s[2] \in 1 .. most[2]
           Listed(modes, s) == IF Fits(s) /\ s \notin ToSet(modes) THEN Append(modes, s) ELSE modes
           start == <<Basic, IF Fits(Large) THEN Large ELSE NoSize>>
           N == Len(sizes)
           Rec(f) == [n \in 0 .. N |-> IF n = 0 THEN start ELSE Listed(f[n - 1], sizes[n])]
           upTo == CHOOSE f : f = Rec(f)
<1>1. most \in WindowSizes
  <2>1. g + 1 \in 1 .. Len(GopModes)
    BY GfxAssumption
  <2>2. GopModes[g + 1] \in ToSet(GopModes)
    BY <2>1, GfxAssumption DEF ToSet
  <2> QED
    BY <2>2, GfxAssumption
<1>2. sizes \in Seq(WindowSizes) /\ N \in Nat
  BY <1>1, GfxAssumption
<1>3. \A n \in 1 .. N : sizes[n] \in ModeSizes
  BY <1>2 DEF ModeSizes
<1>4. start \in ModeLists
  BY GfxAssumption DEF ModeLists, ModeSizes
<1>5. TextModesOf(g) = upTo[N]
  BY DEF TextModesOf
<1>6. \A m \in ModeLists, s \in ModeSizes : Listed(m, s) \in ModeLists
  BY ModeListGrows
<1> HIDE DEF most, sizes, Fits, Listed, start, N
<1> DEFINE P(m) == \E f : f = [n \in 0 .. m |-> IF n = 0 THEN start ELSE Listed(f[n - 1], sizes[n])]
<1>7. P(0)
  <2> DEFINE f == [n \in 0 .. 0 |-> start]
  <2>1. f = [n \in 0 .. 0 |-> IF n = 0 THEN start ELSE Listed(f[n - 1], sizes[n])]
    OBVIOUS
  <2> QED
    BY <2>1
<1>8. ASSUME NEW m \in Nat, P(m) PROVE P(m + 1)
  <2>1. PICK f : f = [n \in 0 .. m |-> IF n = 0 THEN start ELSE Listed(f[n - 1], sizes[n])]
    BY <1>8
  <2> DEFINE h == [n \in 0 .. m + 1 |-> IF n = m + 1 THEN Listed(f[m], sizes[m + 1]) ELSE f[n]]
  <2>2. /\ h[m + 1] = Listed(f[m], sizes[m + 1]) /\ DOMAIN h = 0 .. m + 1
        /\ \A n \in 0 .. m : h[n] = f[n]
    OBVIOUS
  <2>3. h = [n \in DOMAIN h |-> h[n]]
    OBVIOUS
  <2> HIDE DEF h
  <2>4. ASSUME NEW n \in 0 .. m + 1
        PROVE  h[n] = IF n = 0 THEN start ELSE Listed(h[n - 1], sizes[n])
    <3>1. CASE n = 0
      BY <2>1, <2>2, <3>1
    <3>2. CASE n = m + 1
      <4>1. n # 0 /\ n - 1 = m /\ m \in 0 .. m
        BY <3>2
      <4> QED
        BY <2>2, <3>2, <4>1
    <3>3. CASE n # 0 /\ n # m + 1
      <4>1. n \in 0 .. m /\ n - 1 \in 0 .. m
        BY <3>3
      <4>2. f[n] = Listed(f[n - 1], sizes[n])
        BY <2>1, <3>3, <4>1
      <4> QED
        BY <2>2, <3>3, <4>1, <4>2
    <3> QED
      BY <3>1, <3>2, <3>3
  <2>5. h = [n \in 0 .. m + 1 |-> IF n = 0 THEN start ELSE Listed(h[n - 1], sizes[n])]
    BY <2>2, <2>3, <2>4
  <2> QED
    BY <2>5
<1> HIDE DEF P
<1> DEFINE S == {m \in Nat : P(m)}
<1>9. S \in SUBSET Nat /\ 0 \in S /\ \A m \in S : m + 1 \in S
  BY <1>7, <1>8
<1> HIDE DEF S
<1>10. N \in S
  BY <1>2, <1>9, Induction
<1>11. P(N)
  BY <1>10 DEF S
<1>12. \E f : f = Rec(f)
  BY <1>11 DEF P
<1>13. upTo = Rec(upTo)
  BY <1>12
<1> HIDE DEF upTo
<1>14. upTo[0] = start /\ \A n \in 1 .. N : upTo[n] = Listed(upTo[n - 1], sizes[n])
  BY <1>2, <1>13
<1> DEFINE Q == {m \in Nat : m <= N => upTo[m] \in ModeLists}
<1>15. Q \in SUBSET Nat /\ 0 \in Q
  BY <1>4, <1>14
<1>16. ASSUME NEW m \in Q PROVE m + 1 \in Q
  <2>1. CASE m + 1 <= N
    <3>1. m \in Nat /\ m + 1 \in 1 .. N /\ (m + 1) - 1 = m /\ upTo[m] \in ModeLists
      BY <1>2, <2>1
    <3>2. upTo[m + 1] = Listed(upTo[m], sizes[m + 1]) /\ sizes[m + 1] \in ModeSizes
      BY <1>3, <1>14, <3>1
    <3>3. upTo[m + 1] \in ModeLists
      BY <1>6, <3>1, <3>2
    <3> QED
      BY <3>3
  <2>2. CASE ~(m + 1 <= N)
    BY <2>2
  <2> QED
    BY <2>1, <2>2
<1> HIDE DEF Q
<1>17. N \in Q
  BY <1>2, <1>15, <1>16, Induction
<1> QED
  BY <1>2, <1>5, <1>17 DEF Q
(* The turns of the loop that writes a string, one after the other.        *)
Unfolds(after, w, s) ==
  /\ after[0] = [w |-> w, left |-> s]
  /\ \A n \in 1 .. 2 * Len(s) : after[n] = Turn(after[n - 1])
  /\ Written(w, s) = after[2 * Len(s)].w

(* They are what the loop computes.                                        *)
LEMMA WrittenUnfolds ==
  ASSUME NEW w, NEW s, Len(s) \in Nat
  PROVE  \E after : Unfolds(after, w, s)
<1> DEFINE N == 2 * Len(s)
           start == [w |-> w, left |-> s]
           after == CHOOSE f : f = [n \in 0 .. N |-> IF n = 0 THEN start ELSE Turn(f[n - 1])]
           P(m) == \E f : f = [n \in 0 .. m |-> IF n = 0 THEN start ELSE Turn(f[n - 1])]
<1>1. Written(w, s) = after[N].w /\ N \in Nat
  BY DEF Written
<1> HIDE DEF start, N
<1>2. P(0)
  <2> DEFINE f == [n \in 0 .. 0 |-> start]
  <2>1. f = [n \in 0 .. 0 |-> IF n = 0 THEN start ELSE Turn(f[n - 1])]
    OBVIOUS
  <2> QED
    BY <2>1
<1>3. ASSUME NEW m \in Nat, P(m) PROVE P(m + 1)
  <2>1. PICK f : f = [n \in 0 .. m |-> IF n = 0 THEN start ELSE Turn(f[n - 1])]
    BY <1>3
  <2> DEFINE h == [n \in 0 .. m + 1 |-> IF n = m + 1 THEN Turn(f[m]) ELSE f[n]]
  <2>2. /\ h[m + 1] = Turn(f[m]) /\ DOMAIN h = 0 .. m + 1
        /\ \A n \in 0 .. m : h[n] = f[n]
    OBVIOUS
  <2>3. h = [n \in DOMAIN h |-> h[n]]
    OBVIOUS
  <2> HIDE DEF h
  <2>4. ASSUME NEW n \in 0 .. m + 1
        PROVE  h[n] = IF n = 0 THEN start ELSE Turn(h[n - 1])
    <3>1. CASE n = 0
      BY <2>1, <2>2, <3>1
    <3>2. CASE n = m + 1
      <4>1. n # 0 /\ n - 1 = m /\ m \in 0 .. m
        BY <3>2
      <4> QED
        BY <2>2, <3>2, <4>1
    <3>3. CASE n # 0 /\ n # m + 1
      <4>1. n \in 0 .. m /\ n - 1 \in 0 .. m
        BY <3>3
      <4>2. f[n] = Turn(f[n - 1])
        BY <2>1, <3>3, <4>1
      <4> QED
        BY <2>2, <3>3, <4>1, <4>2
    <3> QED
      BY <3>1, <3>2, <3>3
  <2>5. h = [n \in 0 .. m + 1 |-> IF n = 0 THEN start ELSE Turn(h[n - 1])]
    BY <2>2, <2>3, <2>4
  <2> QED
    BY <2>5
<1> HIDE DEF P
<1> DEFINE S == {m \in Nat : P(m)}
<1>4. S \in SUBSET Nat /\ 0 \in S /\ \A m \in S : m + 1 \in S
  BY <1>2, <1>3
<1> HIDE DEF S
<1>5. N \in S
  BY <1>1, <1>4, Induction
<1>6. P(N)
  BY <1>5 DEF S
<1>7. after = [n \in 0 .. N |-> IF n = 0 THEN start ELSE Turn(after[n - 1])]
  BY <1>6 DEF P
<1> HIDE DEF after
<1>8. after[0] = start /\ \A n \in 1 .. N : after[n] = Turn(after[n - 1])
  BY <1>1, <1>7
<1>9. Unfolds(after, w, s)
  BY <1>1, <1>8 DEF start, N, Unfolds
<1> QED
  BY <1>9
-----------------------------------------------------------------------------
(* A console, one that has a mode, and the places of its window.           *)
Consoles ==
  [mode : Int, pos : Int \X Int, attr : Nat, visible : BOOLEAN,
   buffer : {"null", "held", "freed"}, gopMode : Int]

Open(c) ==
  /\ c \in Consoles /\ c.mode # None
  /\ c.gopMode \in 0 .. Len(GopModes) - 1
  /\ c.mode \in 0 .. Len(TextModes[c.gopMode]) - 1
  /\ SizeOf(c) # NoSize

Window(c) == (0 .. SizeOf(c)[1] - 1) \X (0 .. SizeOf(c)[2] - 1)

(* Cells are a function, whatever they show.                               *)
Framed(ce) == ce = [p \in DOMAIN ce |-> ce[p]]

(* What a call works on for such a console, wherever the cursor is.        *)
Works(w, c) ==
  /\ w = [con |-> w.con, cells |-> w.cells, ink |-> w.ink, wide |-> w.wide, lost |-> w.lost]
  /\ w.con = [c EXCEPT !.pos = w.con.pos] /\ w.con.pos \in Int \X Int
  /\ w.wide \in BOOLEAN /\ w.lost \in BOOLEAN
  /\ DOMAIN w.cells = Window(c) /\ Framed(w.cells)

(* The cursor of w as it is drawn; it is, or it is not, and nothing else   *)
(* is inverted; and it is inside the window.                               *)
Image(w) ==
  IF w.con.visible /\ w.con.attr % 16 # Black THEN {<<w.con.pos, w.con.attr % 16>>} ELSE {}
On(w) == w.ink = Image(w)
Off(w) == w.ink = {}
Inside(w) == Column(w) \in 0 .. Columns(w) - 1 /\ Row(w) \in 0 .. Rows(w) - 1

(* Only the cursor and the drawing differ.                                 *)
Same(v, w) == v.wide = w.wide /\ v.lost = w.lost

(* The sizes of the windows.                                               *)
LEMMA OpenSize ==
  ASSUME NEW c, Open(c)
  PROVE  SizeOf(c)[1] \in Nat /\ SizeOf(c)[1] >= 2 /\ SizeOf(c)[2] \in Nat /\ SizeOf(c)[2] >= 1
<1> DEFINE l == TextModes[c.gopMode]
<1>1. l = TextModesOf(c.gopMode) /\ l \in Seq(ModeSizes)
  BY ModesType DEF Open, TextModes, ModeLists
<1>2. c.mode + 1 \in 1 .. Len(l) /\ SizeOf(c) = l[c.mode + 1]
  BY <1>1 DEF Open, SizeOf
<1>3. SizeOf(c) \in WindowSizes
  BY <1>1, <1>2 DEF Open, ModeSizes
<1> QED
  BY <1>3 DEF WindowSizes

(* What a call works on has the size of its console and all that is in it  *)
(* but the place of the cursor.                                            *)
LEMMA WorkFields ==
  ASSUME NEW c, Open(c), NEW w, Works(w, c)
  PROVE  /\ Columns(w) = SizeOf(c)[1] /\ Rows(w) = SizeOf(c)[2]
         /\ Column(w) \in Int /\ Row(w) \in Int /\ w.con.pos = <<Column(w), Row(w)>>
         /\ w.con.visible = c.visible /\ w.con.attr = c.attr /\ w.con.mode = c.mode
         /\ w.con.gopMode = c.gopMode /\ w.con.buffer = c.buffer /\ w.con \in Consoles
<1>1. c \in Consoles
  BY DEF Open
<1>2. /\ w.con.visible = c.visible /\ w.con.attr = c.attr /\ w.con.mode = c.mode
      /\ w.con.gopMode = c.gopMode /\ w.con.buffer = c.buffer /\ w.con \in Consoles
  BY <1>1 DEF Works, Consoles
<1> QED
  BY <1>2 DEF Works, Columns, Rows, Column, Row, SizeOf

(* Moving the cursor draws nothing.                                        *)
LEMMA AtFacts ==
  ASSUME NEW c, Open(c), NEW w, Works(w, c), NEW x \in Int, NEW y \in Int
  PROVE  LET v == At(w, x, y)
         IN /\ Works(v, c) /\ Same(v, w) /\ Column(v) = x /\ Row(v) = y
            /\ v.ink = w.ink /\ v.cells = w.cells
<1> DEFINE v == At(w, x, y)
<1>1. v = [w EXCEPT !.con = [w.con EXCEPT !.pos = <<x, y>>]]
  BY DEF At
<1>2. /\ v = [con |-> [w.con EXCEPT !.pos = <<x, y>>], cells |-> w.cells, ink |-> w.ink,
              wide |-> w.wide, lost |-> w.lost]
  BY <1>1 DEF Works
<1>3. w.con = [c EXCEPT !.pos = w.con.pos] /\ c \in Consoles
  BY DEF Works, Open
<1>4. v.con = [c EXCEPT !.pos = <<x, y>>] /\ v.con.pos = <<x, y>>
  BY <1>2, <1>3 DEF Consoles
<1> QED
  BY <1>2, <1>4 DEF Works, Same, Column, Row

(* FlushCursor draws the cursor that is off and takes the one away that is *)
(* on.                                                                     *)
LEMMA FlushFacts ==
  ASSUME NEW c, Open(c), NEW w, Works(w, c)
  PROVE  LET v == FlushCursor(w)
         IN /\ Works(v, c) /\ Same(v, w) /\ Column(v) = Column(w) /\ Row(v) = Row(w)
            /\ v.cells = w.cells
            /\ Off(w) => On(v)
            /\ On(w) => Off(v)
<1> DEFINE v == FlushCursor(w)
<1>1. v = [w EXCEPT !.ink = SymDiff(w.ink, Image(w))]
  BY WorkFields DEF FlushCursor, Image, CursorPlace, Open
<1>2. v = [con |-> w.con, cells |-> w.cells, ink |-> SymDiff(w.ink, Image(w)),
           wide |-> w.wide, lost |-> w.lost]
  BY <1>1 DEF Works
<1>3. Image(v) = Image(w)
  BY <1>2 DEF Image
<1> QED
  BY <1>2, <1>3 DEF Works, Same, Column, Row, On, Off, SymDiff

(* The width of the characters does not concern the cursor.                *)
LEMMA WidenFacts ==
  ASSUME NEW c, Open(c), NEW w, Works(w, c), NEW b \in BOOLEAN
  PROVE  LET v == Widened(w, b)
         IN /\ Works(v, c) /\ Column(v) = Column(w) /\ Row(v) = Row(w)
            /\ v.lost = w.lost /\ v.wide = b /\ v.ink = w.ink /\ v.cells = w.cells
            /\ (On(v) <=> On(w)) /\ (Off(v) <=> Off(w))
<1> DEFINE v == Widened(w, b)
<1>1. v = [con |-> w.con, cells |-> w.cells, ink |-> w.ink, wide |-> b, lost |-> w.lost]
  BY DEF Works, Widened
<1> QED
  BY <1>1 DEF Works, Column, Row, On, Off, Image

(* A line feed stays inside the window and inverts nothing.                *)
LEMMA LineFeedFacts ==
  ASSUME NEW c, Open(c), NEW w, Works(w, c)
  PROVE  LET v == LineFeed(w)
         IN /\ Works(v, c) /\ Same(v, w) /\ Column(v) = Column(w)
            /\ Row(w) \in 0 .. Rows(w) - 1 => Row(v) \in 0 .. Rows(v) - 1
            /\ Off(w) => Off(v)
<1> DEFINE v == LineFeed(w)
<1>1. CASE Row(w) # Rows(w) - 1
  <2>1. v = At(w, Column(w), Row(w) + 1)
    BY <1>1 DEF LineFeed
  <2>2. Column(w) \in Int /\ Row(w) \in Int /\ Row(w) + 1 \in Int /\ Rows(w) = SizeOf(c)[2]
    BY WorkFields
  <2>3. Works(v, c) /\ Same(v, w) /\ Column(v) = Column(w) /\ Row(v) = Row(w) + 1 /\ v.ink = w.ink
    BY <2>1, <2>2, AtFacts
  <2>4. Rows(v) = SizeOf(c)[2] /\ SizeOf(c)[2] \in Nat
    BY <2>3, WorkFields, OpenSize
  <2> QED
    BY <1>1, <2>2, <2>3, <2>4 DEF Off
<1>2. CASE Row(w) = Rows(w) - 1
  <2> DEFINE a == [p \in DOMAIN w.cells |-> IF p[2] < Rows(w) - 1 THEN w.cells[<<p[1], p[2] + 1>>] ELSE T!Blank]
             b == {<<<<i[1][1], i[1][2] - 1>>, i[2]>> :
                     i \in {j \in w.ink : j[1] \in DOMAIN w.cells /\ j[1][2] > 0}}
                  \cup {i \in w.ink : i[1] \notin DOMAIN w.cells}
  <2>1. v = [w EXCEPT !.cells = a, !.ink = b]
    BY <1>2 DEF LineFeed
  <2>2. DOMAIN a = DOMAIN w.cells /\ (Off(w) => b = {})
    BY DEF Off
  <2>f. Framed(a)
    BY DEF Framed
  <2> HIDE DEF a, b
  <2>3. v = [con |-> w.con, cells |-> a, ink |-> b, wide |-> w.wide, lost |-> w.lost]
    BY <2>1 DEF Works
  <2> QED
    BY <2>2, <2>f, <2>3 DEF Works, Same, Column, Row, Rows, Off
<1> QED
  BY <1>1, <1>2

(* What is drawn covers a cursor that it is drawn over.                    *)
LEMMA DrawFacts ==
  ASSUME NEW c, Open(c), NEW w, Works(w, c),
         NEW A, NEW chars \in Seq(A)
  PROVE  LET v == DrawAtCursor(w, chars)
         IN /\ Works(v, c) /\ Column(v) = Column(w) /\ Row(v) = Row(w) /\ v.wide = w.wide
            /\ w.lost => v.lost
            /\ ~w.wide => v.lost = w.lost
            /\ Off(w) => Off(v)
            /\ On(w) /\ Inside(w) /\ Len(chars) >= 1 =>
                 IF chars[1] # "unknown" THEN Off(v) ELSE w.wide => v.lost
<1> DEFINE v == DrawAtCursor(w, chars)
           width == IF w.wide THEN 2 ELSE 1
           first == Column(w)
           drawn == {p \in DOMAIN w.cells :
                       /\ p[2] = Row(w)
                       /\ p[1] \in first .. first + width * Len(chars) - 1
                       /\ chars[(p[1] - first) \div width + 1] # "unknown"}
           Glyph(p) == IF (p[1] - first) % width = 0 THEN chars[(p[1] - first) \div width + 1] ELSE "<"
           a == [p \in DOMAIN w.cells |-> IF p \in drawn THEN Glyph(p) ELSE w.cells[p]]
           b == {i \in w.ink : i[1] \notin drawn}
           l == w.lost \/ (w.wide /\ "unknown" \in ToSet(chars))
<1>1. v = [w EXCEPT !.cells = a, !.ink = b, !.lost = l]
  BY DEF DrawAtCursor
<1>2. DOMAIN a = DOMAIN w.cells /\ l \in BOOLEAN /\ (w.lost => l) /\ (~w.wide => l = w.lost)
  BY DEF Works
<1>f. Framed(a)
  BY DEF Framed
<1>3. Off(w) => b = {}
  BY DEF Off
<1>a. ASSUME Len(chars) >= 1, chars[1] = "unknown", w.wide PROVE l
  BY <1>a DEF ToSet
<1>4. ASSUME On(w), Inside(w), Len(chars) >= 1, chars[1] # "unknown"
      PROVE  b = {}
  <2>1. chars[1] # "unknown"
    BY <1>4
  <2>2. /\ Columns(w) = SizeOf(c)[1] /\ Rows(w) = SizeOf(c)[2] /\ Column(w) \in Int
        /\ Row(w) \in Int /\ w.con.pos = <<Column(w), Row(w)>>
    BY WorkFields
  <2>3. <<Column(w), Row(w)>> \in DOMAIN w.cells
    BY <1>4, <2>2 DEF Works, Window, Inside
  <2>4. width \in {1, 2} /\ first <= first + width * Len(chars) - 1 /\ (first - first) \div width = 0
    BY <1>4, <2>2
  <2>5. first \in first .. first + width * Len(chars) - 1
    <3>1. first + width * Len(chars) - 1 \in Int
      BY <2>2, <2>4
    <3> QED
      BY <2>2, <2>4, <3>1
  <2>6. chars[(first - first) \div width + 1] = chars[1]
    BY <2>4
  <2>7. w.con.pos \in drawn
    BY <2>1, <2>2, <2>3, <2>5, <2>6
  <2>8. \A i \in w.ink : i[1] = w.con.pos
    BY <1>4 DEF On, Image
  <2> QED
    BY <2>7, <2>8
<1> HIDE DEF a, b, l
<1>5. v = [con |-> w.con, cells |-> a, ink |-> b, wide |-> w.wide, lost |-> l]
  BY <1>1 DEF Works
<1>6. Works(v, c) /\ Column(v) = Column(w) /\ Row(v) = Row(w) /\ v.wide = w.wide
  BY <1>2, <1>f, <1>5 DEF Works, Column, Row
<1> QED
  BY <1>2, <1>3, <1>a, <1>4, <1>5, <1>6 DEF Off
-----------------------------------------------------------------------------
(* The nested calls find the cursor drawn and leave it drawn.              *)
LEMMA OutputCrLfFacts ==
  ASSUME NEW c, Open(c), NEW w, Works(w, c)
  PROVE  LET v == OutputCrLf(w)
         IN /\ Works(v, c) /\ Same(v, w) /\ Column(v) = 0
            /\ Row(w) \in 0 .. Rows(w) - 1 => Inside(v)
            /\ On(w) => On(v)
<1> DEFINE f == FlushCursor(w)
           r == Return(f)
           l == LineFeed(r)
           v == FlushCursor(l)
<1>1. OutputCrLf(w) = v
  BY DEF OutputCrLf
<1>2. Works(f, c) /\ Same(f, w) /\ Row(f) = Row(w) /\ (On(w) => Off(f))
  BY FlushFacts
<1> HIDE DEF f
<1>3. Row(f) \in Int
  BY <1>2, WorkFields
<1>4. Works(r, c) /\ Same(r, f) /\ Column(r) = 0 /\ Row(r) = Row(f) /\ (Off(f) => Off(r))
  BY <1>2, <1>3, AtFacts DEF Return, Off
<1> HIDE DEF r
<1>5. /\ Works(l, c) /\ Same(l, r) /\ Column(l) = 0 /\ (Off(r) => Off(l))
      /\ Row(r) \in 0 .. Rows(r) - 1 => Row(l) \in 0 .. Rows(l) - 1
  BY <1>4, LineFeedFacts
<1> HIDE DEF l
<1>6. Works(v, c) /\ Same(v, l) /\ Column(v) = 0 /\ Row(v) = Row(l) /\ (Off(l) => On(v))
  BY <1>5, FlushFacts
<1> HIDE DEF v
<1>7. /\ Rows(w) = SizeOf(c)[2] /\ Rows(r) = SizeOf(c)[2] /\ Rows(l) = SizeOf(c)[2]
      /\ Rows(v) = SizeOf(c)[2] /\ Columns(v) = SizeOf(c)[1]
  BY <1>4, <1>5, <1>6, WorkFields
<1>8. Same(v, w)
  BY <1>2, <1>4, <1>5, <1>6 DEF Same
<1>9. 0 \in 0 .. Columns(v) - 1
  BY <1>7, OpenSize
<1> QED
  BY <1>1, <1>2, <1>4, <1>5, <1>6, <1>7, <1>8, <1>9 DEF Inside

(* The end of a line.                                                      *)
LEMMA WrapFacts ==
  ASSUME NEW c, Open(c), NEW w, Works(w, c)
  PROVE  LET v == Wrap(w)
         IN /\ Works(v, c) /\ Same(v, w)
            /\ Column(w) >= Columns(w) => Column(v) = 0
            /\ Column(w) < Columns(w) => v = w
            /\ Column(w) >= 0 /\ Row(w) \in 0 .. Rows(w) - 1 => Inside(v)
            /\ Off(w) => Off(v)
<1> DEFINE f == FlushCursor(w)
           n == OutputCrLf(f)
           v == FlushCursor(n)
<1>0. Columns(w) \in Int /\ Column(w) \in Int
  BY WorkFields, OpenSize
<1>1. CASE Column(w) < Columns(w)
  <2>1. Wrap(w) = w
    BY <1>0, <1>1 DEF Wrap
  <2> QED
    BY <1>0, <1>1, <2>1 DEF Same, Inside
<1>2. CASE Column(w) >= Columns(w)
  <2>1. Wrap(w) = v
    BY <1>2 DEF Wrap
  <2>2. Works(f, c) /\ Same(f, w) /\ Row(f) = Row(w) /\ (Off(w) => On(f))
    BY FlushFacts
  <2> HIDE DEF f
  <2>3. /\ Works(n, c) /\ Same(n, f) /\ Column(n) = 0
        /\ Row(f) \in 0 .. Rows(f) - 1 => Inside(n)
        /\ On(f) => On(n)
    BY <2>2, OutputCrLfFacts
  <2> HIDE DEF n
  <2>4. Works(v, c) /\ Same(v, n) /\ Column(v) = Column(n) /\ Row(v) = Row(n) /\ (On(n) => Off(v))
    BY <2>3, FlushFacts
  <2> HIDE DEF v
  <2>5. /\ Rows(f) = Rows(w) /\ Rows(v) = Rows(n) /\ Columns(v) = Columns(n)
    BY <2>2, <2>3, <2>4, WorkFields
  <2>6. Inside(n) => Inside(v)
    BY <2>4, <2>5 DEF Inside
  <2>7. Same(v, w)
    BY <2>2, <2>3, <2>4 DEF Same
  <2> QED
    BY <1>0, <1>2, <2>1, <2>2, <2>3, <2>4, <2>5, <2>6, <2>7
<1> QED
  BY <1>0, <1>1, <1>2

(* A blank is drawn, and the cursor moves on.                              *)
LEMMA OutputSpaceFacts ==
  ASSUME NEW c, Open(c), NEW w, Works(w, c)
  PROVE  LET v == OutputSpace(w)
         IN /\ Works(v, c) /\ Same(v, w)
            /\ Inside(w) =>
                 /\ Inside(v) /\ (Off(w) => On(v))
                 /\ Column(w) + 1 < Columns(w) => Column(v) = Column(w) + 1 /\ Row(v) = Row(w)
                 /\ Column(w) + 1 = Columns(w) => Column(v) = 0
<1> DEFINE f == FlushCursor(w)
           n == Widened(f, FALSE)
           d == DrawAtCursor(n, <<T!Blank>>)
           m == At(d, Column(w) + 1, Row(w))
           r == Wrap(m)
           u == Widened(r, w.wide)
           v == FlushCursor(u)
<1>0. /\ OutputSpace(w) = v
      /\ Columns(w) = SizeOf(c)[1] /\ Rows(w) = SizeOf(c)[2] /\ SizeOf(c)[1] \in Nat
      /\ Column(w) \in Int /\ Row(w) \in Int /\ w.wide \in BOOLEAN
  BY WorkFields, OpenSize DEF OutputSpace, Works
<1>1. Works(f, c) /\ Same(f, w) /\ Column(f) = Column(w) /\ Row(f) = Row(w) /\ (Off(w) => On(f))
  BY FlushFacts
<1> HIDE DEF f
<1>2. /\ Works(n, c) /\ n.lost = f.lost /\ ~n.wide /\ Column(n) = Column(f) /\ Row(n) = Row(f)
      /\ (On(f) => On(n))
  BY <1>1, WidenFacts
<1> HIDE DEF n
<1> DEFINE text == <<T!Blank>>
<1>a. T!Blank # "unknown"
  BY DEF T!Blank
<1>3. text \in Seq({T!Blank}) /\ Len(text) = 1 /\ text[1] # "unknown"
  BY <1>a
<1>b. d = DrawAtCursor(n, text)
  OBVIOUS
<1> HIDE DEF text, d
<1>4. /\ Works(d, c) /\ ~d.wide /\ d.lost = n.lost
      /\ On(n) /\ Inside(n) => Off(d)
  <2>1. /\ Works(d, c) /\ d.wide = n.wide /\ (~n.wide => d.lost = n.lost)
        /\ On(n) /\ Inside(n) /\ Len(text) >= 1 =>
             IF text[1] # "unknown" THEN Off(d) ELSE n.wide => d.lost
    BY <1>2, <1>3, <1>b, DrawFacts
  <2> QED
    BY <1>2, <1>3, <2>1
<1>5. Inside(w) => Inside(n)
  BY <1>0, <1>1, <1>2, WorkFields DEF Inside
<1>6. Works(m, c) /\ Same(m, d) /\ Column(m) = Column(w) + 1 /\ Row(m) = Row(w) /\ (Off(d) => Off(m))
  BY <1>0, <1>4, AtFacts DEF Off
<1> HIDE DEF m
<1>7. /\ Works(r, c) /\ Same(r, m)
      /\ Column(m) >= Columns(m) => Column(r) = 0
      /\ Column(m) < Columns(m) => r = m
      /\ Column(m) >= 0 /\ Row(m) \in 0 .. Rows(m) - 1 => Inside(r)
      /\ Off(m) => Off(r)
  BY <1>6, WrapFacts
<1> HIDE DEF r
<1>8. /\ Works(u, c) /\ u.wide = w.wide /\ u.lost = r.lost /\ Column(u) = Column(r) /\ Row(u) = Row(r)
      /\ (Off(r) => Off(u))
  BY <1>0, <1>7, WidenFacts
<1> HIDE DEF u
<1>9. Works(v, c) /\ Same(v, u) /\ Column(v) = Column(u) /\ Row(v) = Row(u) /\ (Off(u) => On(v))
  BY <1>8, FlushFacts
<1> HIDE DEF v
<1>10. Columns(m) = Columns(w) /\ Rows(m) = Rows(w) /\ Columns(r) = Columns(w) /\ Rows(r) = Rows(w)
       /\ Columns(v) = Columns(w) /\ Rows(v) = Rows(w)
  BY <1>0, <1>6, <1>7, <1>9, WorkFields
<1>11. Same(v, w) /\ d.lost = w.lost
  BY <1>1, <1>2, <1>4, <1>6, <1>7, <1>8, <1>9 DEF Same
<1>12. Inside(r) => Inside(v)
  BY <1>8, <1>9, <1>10 DEF Inside
<1>13. ASSUME Inside(w)
       PROVE  /\ Inside(v) /\ (Off(w) => On(v))
              /\ Column(w) + 1 < Columns(w) => Column(v) = Column(w) + 1 /\ Row(v) = Row(w)
              /\ Column(w) + 1 = Columns(w) => Column(v) = 0
  <2>1. Column(m) >= 0 /\ Row(m) \in 0 .. Rows(m) - 1
    BY <1>0, <1>6, <1>10, <1>13 DEF Inside
  <2>2. Off(w) => Off(m)
    BY <1>1, <1>2, <1>4, <1>5, <1>6, <1>13
  <2>3. Inside(r) /\ Inside(v) /\ (Off(w) => On(v))
    BY <1>7, <1>8, <1>9, <1>12, <2>1, <2>2
  <2> QED
    BY <1>0, <1>6, <1>7, <1>8, <1>9, <1>10, <2>3
<1> QED
  BY <1>0, <1>9, <1>11, <1>13

(* A character is taken back with the cursor left off.                     *)
LEMMA BackspaceFacts ==
  ASSUME NEW c, Open(c), NEW w, Works(w, c)
  PROVE  LET v == Backspace(w)
         IN /\ Works(v, c) /\ Same(v, w)
            /\ Inside(w) => Inside(v) /\ (Off(w) => Off(v))
<1>0. /\ Columns(w) = SizeOf(c)[1] /\ Rows(w) = SizeOf(c)[2]
      /\ SizeOf(c)[1] \in Nat /\ SizeOf(c)[1] >= 2 /\ SizeOf(c)[2] \in Nat
      /\ Column(w) \in Int /\ Row(w) \in Int
  BY WorkFields, OpenSize
<1>1. ASSUME NEW x \in Int, NEW y \in Int, NEW z \in {0, 1}
      PROVE  LET f == FlushCursor(OutputSpace(At(w, x, y)))
             IN /\ Works(f, c) /\ Same(f, w)
                /\ x \in 0 .. Columns(w) - 1 /\ y \in 0 .. Rows(w) - 1 =>
                     /\ Off(w) => Off(f)
                     /\ x + 1 < Columns(w) => Column(f) = x + 1 /\ Row(f) = y
  <2> DEFINE a == At(w, x, y)
             o == OutputSpace(a)
             f == FlushCursor(o)
  <2>1. Works(a, c) /\ Same(a, w) /\ Column(a) = x /\ Row(a) = y /\ (Off(w) => Off(a))
    BY AtFacts DEF Off
  <2> HIDE DEF a
  <2>2. Columns(a) = Columns(w) /\ Rows(a) = Rows(w)
    BY <1>0, <2>1, WorkFields
  <2>3. /\ Works(o, c) /\ Same(o, a)
        /\ Inside(a) =>
             (Off(a) => On(o)) /\ (Column(a) + 1 < Columns(a) => Column(o) = Column(a) + 1 /\ Row(o) = Row(a))
    BY <2>1, OutputSpaceFacts
  <2> HIDE DEF o
  <2>4. Works(f, c) /\ Same(f, o) /\ Column(f) = Column(o) /\ Row(f) = Row(o) /\ (On(o) => Off(f))
    BY <2>3, FlushFacts
  <2>5. Same(f, w)
    BY <2>1, <2>3, <2>4 DEF Same
  <2> HIDE DEF f
  <2>6. f = FlushCursor(OutputSpace(At(w, x, y)))
    BY DEF f, o, a
  <2> QED
    BY <2>1, <2>2, <2>3, <2>4, <2>5, <2>6 DEF Inside
<1>2. CASE Column(w) > 0
  <2> DEFINE f == FlushCursor(OutputSpace(At(w, Column(w) - 1, Row(w))))
             v == At(f, Column(f) - 1, Row(f))
  <2>1. Backspace(w) = v /\ Column(w) - 1 \in Int
    BY <1>0, <1>2 DEF Backspace
  <2>2. /\ Works(f, c) /\ Same(f, w)
        /\ Column(w) - 1 \in 0 .. Columns(w) - 1 /\ Row(w) \in 0 .. Rows(w) - 1 =>
             /\ Off(w) => Off(f)
             /\ (Column(w) - 1) + 1 < Columns(w) => Column(f) = (Column(w) - 1) + 1 /\ Row(f) = Row(w)
    BY <1>0, <1>1, <2>1
  <2> HIDE DEF f
  <2>3. Column(f) \in Int /\ Row(f) \in Int /\ Column(f) - 1 \in Int
    BY <2>2, WorkFields
  <2>4. Works(v, c) /\ Same(v, f) /\ Column(v) = Column(f) - 1 /\ Row(v) = Row(f) /\ (Off(f) => Off(v))
    BY <2>2, <2>3, AtFacts DEF Off
  <2> HIDE DEF v
  <2>5. Columns(v) = Columns(w) /\ Rows(v) = Rows(w)
    BY <1>0, <2>4, WorkFields
  <2>6. Same(v, w)
    BY <2>2, <2>4 DEF Same
  <2>7. ASSUME Inside(w) PROVE Inside(v) /\ (Off(w) => Off(v))
    <3>1. (Off(w) => Off(f)) /\ Column(f) = Column(w) /\ Row(f) = Row(w)
      BY <1>0, <1>2, <2>2, <2>7 DEF Inside
    <3> QED
      BY <1>0, <1>2, <2>4, <2>5, <2>7, <3>1 DEF Inside
  <2> QED
    BY <2>1, <2>4, <2>6, <2>7
<1>3. CASE ~(Column(w) > 0) /\ Row(w) > 0
  <2> DEFINE x == Columns(w) - 1
             y == Row(w) - 1
             f == FlushCursor(OutputSpace(At(w, x, y)))
             v == At(f, x, y)
  <2>1. Backspace(w) = v /\ x \in Int /\ y \in Int
    BY <1>0, <1>3 DEF Backspace
  <2>2. /\ Works(f, c) /\ Same(f, w)
        /\ x \in 0 .. Columns(w) - 1 /\ y \in 0 .. Rows(w) - 1 => (Off(w) => Off(f))
    BY <1>0, <1>1, <2>1
  <2> HIDE DEF f
  <2>3. Works(v, c) /\ Same(v, f) /\ Column(v) = x /\ Row(v) = y /\ (Off(f) => Off(v))
    BY <2>1, <2>2, AtFacts DEF Off
  <2> HIDE DEF v
  <2>4. Columns(v) = Columns(w) /\ Rows(v) = Rows(w) /\ Same(v, w)
    BY <1>0, <2>2, <2>3, WorkFields DEF Same
  <2>5. Inside(w) => x \in 0 .. Columns(w) - 1 /\ y \in 0 .. Rows(w) - 1
    BY <1>0, <1>3 DEF Inside
  <2>6. Inside(w) => Inside(v)
    BY <2>3, <2>4, <2>5 DEF Inside
  <2> QED
    BY <2>1, <2>2, <2>3, <2>4, <2>5, <2>6
<1>4. CASE ~(Column(w) > 0) /\ ~(Row(w) > 0)
  BY <1>4 DEF Backspace, Same
<1> QED
  BY <1>2, <1>3, <1>4
-----------------------------------------------------------------------------
(* A run is as long as the characters up to a control character, or as     *)
(* fits; it is empty only where no wide character fits any more.           *)
LEMMA RunFacts ==
  ASSUME NEW c, Open(c), NEW w, Works(w, c), Inside(w), NEW A, NEW s \in Seq(A), s # <<>>,
         s[1] \notin Controls
  PROVE  LET n == RunLength(w, s)
             width == IF w.wide THEN 2 ELSE 1
         IN /\ n \in 0 .. Len(s) /\ Column(w) + width * n <= Columns(w)
            /\ n = 0 => HalfFits(w, s, n) /\ Column(w) = Columns(w) - 1
<1> DEFINE width == IF w.wide THEN 2 ELSE 1
           fitting == (Columns(w) - Column(w)) \div width
           most == IF fitting < Len(s) THEN fitting ELSE Len(s)
           S == {n \in 0 .. most : n = most \/ s[n + 1] \in Controls}
           n == Min(S)
<1>0. RunLength(w, s) = n
  BY DEF RunLength
<1>1. /\ Columns(w) \in Nat /\ Columns(w) >= 2 /\ Column(w) \in 0 .. Columns(w) - 1
      /\ Len(s) \in Nat /\ Len(s) >= 1
  BY WorkFields, OpenSize DEF Inside
<1>2. width \in {1, 2} /\ fitting \in Nat /\ Column(w) + width * fitting <= Columns(w)
      /\ (fitting = 0 => w.wide /\ Column(w) = Columns(w) - 1)
  <2>1. CASE w.wide
    BY <1>1, <2>1, SMTT(60)
  <2>2. CASE ~w.wide
    BY <1>1, <2>2, SMTT(60)
  <2> QED
    BY <2>1, <2>2
<1> HIDE DEF width, fitting
<1>3. most \in Nat /\ most <= fitting /\ most <= Len(s) /\ (most = 0 => fitting = 0)
  BY <1>1, <1>2
<1>4. most \in S /\ S \in SUBSET Nat
  BY <1>3
<1> HIDE DEF n
<1>5. n \in S
  BY <1>4, MinIsLeast DEF n
<1>6. n \in 0 .. most /\ (n = most \/ s[n + 1] \in Controls)
  BY <1>5
<1> HIDE DEF S, most
<1>7. n \in Nat /\ n <= fitting /\ n <= Len(s)
  BY <1>1, <1>2, <1>3, <1>6
<1>8. Column(w) + width * n <= Columns(w)
  <2>1. CASE width = 1
    BY <1>1, <1>2, <1>7, <2>1
  <2>2. CASE width = 2
    BY <1>1, <1>2, <1>7, <2>2
  <2> QED
    BY <1>2, <2>1, <2>2
<1>9. ASSUME n = 0 PROVE HalfFits(w, s, n) /\ Column(w) = Columns(w) - 1
  <2>1. most = 0
    BY <1>6, <1>9
  <2>2. w.wide /\ Column(w) = Columns(w) - 1
    BY <1>2, <1>3, <2>1
  <2> QED
    BY <1>1, <1>9, <2>2 DEF HalfFits
<1> QED
  BY <1>0, <1>1, <1>7, <1>8, <1>9 DEF width

(* The wide characters that follow find the cursor in the column that they *)
(* are drawn over.                                                         *)
Ahead(w) == w.wide /\ Column(w) = 0 /\ On(w)

(* A run of characters that begins with the cursor off, or with the cursor *)
(* under its first wide character, ends like that: off, or ahead of the    *)
(* rest of the run that did not fit.                                       *)
LEMMA OutputRunFacts ==
  ASSUME NEW c, Open(c), NEW w, Works(w, c), Inside(w), NEW A, NEW s \in Seq(A), s # <<>>,
         s[1] \notin Controls
  PROVE  LET v == OutputRun(w, s)
             n == RunLength(w, s)
         IN /\ Works(v, c) /\ Inside(v) /\ n \in 0 .. Len(s)
            /\ w.lost => v.lost
            /\ Off(w) \/ Ahead(w) =>
                 \/ v.lost
                 \/ Off(v) /\ n # 0
                 \/ /\ Ahead(v) /\ n < Len(s) /\ s[n + 1] \notin Controls
                    /\ Ahead(w) => n # 0
<1> DEFINE n == RunLength(w, s)
           chars == SubSeq(s, 1, n)
           d == DrawAtCursor(w, chars)
           end == Column(w) + (IF w.wide THEN 2 * n ELSE n)
           e == At(d, end, Row(w))
           o == OutputSpace(e)
           v == OutputRun(w, s)
<1>0. v = IF HalfFits(w, s, n) THEN Wrap(o) ELSE Wrap(e)
  BY DEF OutputRun
<1>1. /\ Columns(w) = SizeOf(c)[1] /\ Rows(w) = SizeOf(c)[2]
      /\ SizeOf(c)[1] \in Nat /\ SizeOf(c)[1] >= 2 /\ SizeOf(c)[2] \in Nat
      /\ Column(w) \in 0 .. Columns(w) - 1 /\ Row(w) \in 0 .. Rows(w) - 1
  BY WorkFields, OpenSize DEF Inside
<1>2. /\ n \in 0 .. Len(s)
      /\ Column(w) + (IF w.wide THEN 2 ELSE 1) * n <= Columns(w)
      /\ n = 0 => HalfFits(w, s, n) /\ Column(w) = Columns(w) - 1
  BY RunFacts
<1>3. end \in Nat /\ end <= Columns(w)
  <2>1. CASE w.wide
    BY <1>1, <1>2, <2>1, SMTT(60)
  <2>2. CASE ~w.wide
    BY <1>1, <1>2, <2>2, SMTT(60)
  <2> QED
    BY <2>1, <2>2
<1>4. HalfFits(w, s, n) =>
        w.wide /\ n < Len(s) /\ s[n + 1] \notin Controls /\ end = Columns(w) - 1
  BY DEF HalfFits
<1>5. chars \in Seq(A) /\ Len(chars) = n /\ (n # 0 => chars[1] = s[1])
  BY <1>2, SubSeqProperties
<1> HIDE DEF n, chars, end
<1>6. /\ Works(d, c) /\ d.wide = w.wide /\ (w.lost => d.lost) /\ (Off(w) => Off(d))
      /\ On(w) /\ Inside(w) /\ Len(chars) >= 1 =>
           IF chars[1] # "unknown" THEN Off(d) ELSE w.wide => d.lost
  BY <1>5, DrawFacts
<1> HIDE DEF d
<1>7. /\ Works(e, c) /\ Same(e, d) /\ Column(e) = end /\ Row(e) = Row(w) /\ (Off(d) => Off(e))
  BY <1>1, <1>3, <1>6, AtFacts DEF Off
<1>8. Columns(e) = Columns(w) /\ Rows(e) = Rows(w)
  BY <1>1, <1>7, WorkFields
<1>9. ASSUME Off(w) \/ Ahead(w), ~d.lost PROVE Off(e) /\ (Ahead(w) => n # 0)
  <2>1. CASE Off(w)
    <3>1. ASSUME Ahead(w) PROVE n # 0
      BY <1>1, <1>2, <3>1 DEF Ahead
    <3> QED
      BY <1>6, <1>7, <2>1, <3>1
  <2>2. CASE Ahead(w)
    <3>1. n # 0
      BY <1>1, <1>2, <2>2 DEF Ahead
    <3>2. n >= 1
      BY <1>2, <3>1
    <3>3. Off(d)
      BY <1>5, <1>6, <1>9, <2>2, <3>2 DEF Ahead
    <3> QED
      BY <1>7, <3>1, <3>3
  <2> QED
    BY <1>9, <2>1, <2>2
<1> HIDE DEF e
<1>10. CASE ~HalfFits(w, s, n)
  <2>1. v = Wrap(e)
    BY <1>0, <1>10
  <2>2. Works(v, c) /\ Same(v, e) /\ Inside(v) /\ (Off(e) => Off(v))
    BY <1>1, <1>3, <1>7, <1>8, <2>1, WrapFacts
  <2>3. n # 0
    BY <1>2, <1>10
  <2> HIDE DEF v
  <2>4. v.lost = d.lost
    BY <1>7, <2>2 DEF Same
  <2>5. Off(w) \/ Ahead(w) => v.lost \/ (Off(v) /\ n # 0)
    BY <1>9, <2>2, <2>3, <2>4
  <2> QED
    BY <1>2, <1>6, <2>2, <2>4, <2>5 DEF n, v
<1>11. CASE HalfFits(w, s, n)
  <2>1. v = Wrap(o) /\ w.wide /\ n < Len(s) /\ s[n + 1] \notin Controls /\ end = Columns(w) - 1
    BY <1>0, <1>4, <1>11
  <2>2. Inside(e) /\ Column(e) + 1 = Columns(e)
    BY <1>1, <1>7, <1>8, <2>1 DEF Inside
  <2>3. Works(o, c) /\ Same(o, e) /\ Inside(o) /\ Column(o) = 0 /\ (Off(e) => On(o))
    BY <1>7, <2>2, OutputSpaceFacts
  <2>4. Column(o) < Columns(o)
    BY <1>1, <2>3, WorkFields
  <2> HIDE DEF o, v
  <2>5. v = o
    BY <2>1, <2>3, <2>4, WrapFacts
  <2>6. v.lost = d.lost /\ v.wide
    BY <1>6, <1>7, <2>1, <2>3, <2>5 DEF Same
  <2>7. Off(w) \/ Ahead(w) => v.lost \/ (Ahead(v) /\ (Ahead(w) => n # 0))
    BY <1>9, <2>3, <2>5, <2>6 DEF Ahead
  <2> QED
    BY <1>2, <1>6, <2>1, <2>3, <2>5, <2>6, <2>7 DEF n, v
<1> QED
  BY <1>10, <1>11

(* The loop with at most k turns to go: once a wide character is lost the  *)
(* drawing is not followed; if it began with the cursor off, the cursor is *)
(* off, or ahead of a character that will be drawn over it.                *)
Turning(x, c, A, k, clean) ==
  /\ Works(x.w, c) /\ Inside(x.w) /\ x.left \in Seq(A)
  /\ clean => \/ x.w.lost
              \/ Off(x.w) /\ 2 * Len(x.left) <= k
              \/ /\ Ahead(x.w) /\ x.left # <<>> /\ x.left[1] \notin Controls
                 /\ 2 * Len(x.left) - 1 <= k

(* Behind a control character.                                             *)
LEMMA ControlTurn ==
  ASSUME NEW c, NEW A, NEW k \in Nat \ {0}, NEW clean \in BOOLEAN, NEW x,
         Turning(x, c, A, k, clean), x.left # <<>>, x.left[1] \in Controls,
         NEW v, Works(v, c), Inside(v), x.w.lost => v.lost, Off(x.w) => Off(v)
  PROVE  Turning([w |-> v, left |-> SubSeq(x.left, 2, Len(x.left))], c, A, k - 1, clean)
<1> DEFINE left == SubSeq(x.left, 2, Len(x.left))
           y == [w |-> v, left |-> left]
<1>1. x.left \in Seq(A) /\ Len(x.left) \in Nat /\ Len(x.left) # 0
  BY DEF Turning
<1>2. left \in Seq(A) /\ Len(left) = Len(x.left) - 1
  BY <1>1, SubSeqProperties
<1> HIDE DEF left
<1>3. y.w = v /\ y.left = left
  OBVIOUS
<1> HIDE DEF y
<1>4. ASSUME clean PROVE v.lost \/ (Off(v) /\ 2 * Len(left) <= k - 1)
  <2>1. x.w.lost \/ (Off(x.w) /\ 2 * Len(x.left) <= k)
    BY <1>4 DEF Turning
  <2> QED
    BY <1>1, <1>2, <2>1
<1>5. Turning(y, c, A, k - 1, clean)
  BY <1>2, <1>3, <1>4 DEF Turning
<1> QED
  BY <1>5 DEF y, left

(* Behind a run of characters.                                             *)
LEMMA RunTurn ==
  ASSUME NEW c, Open(c), NEW A, NEW k \in Nat \ {0}, NEW clean \in BOOLEAN, NEW x,
         Turning(x, c, A, k, clean), x.left # <<>>, x.left[1] \notin Controls
  PROVE  LET n == RunLength(x.w, x.left)
         IN Turning([w |-> OutputRun(x.w, x.left), left |-> SubSeq(x.left, n + 1, Len(x.left))],
                    c, A, k - 1, clean)
<1> DEFINE w == x.w
           s == x.left
           N == Len(s)
           n == RunLength(w, s)
           v == OutputRun(w, s)
           left == SubSeq(s, n + 1, N)
           y == [w |-> v, left |-> left]
<1>1. Works(w, c) /\ Inside(w) /\ s \in Seq(A) /\ N \in Nat /\ s # <<>> /\ s[1] \notin Controls
  BY DEF Turning
<1>a. clean => \/ w.lost
               \/ Off(w) /\ 2 * N <= k
               \/ Ahead(w) /\ 2 * N - 1 <= k
  BY DEF Turning
<1> HIDE DEF w, s
<1>2. /\ Works(v, c) /\ Inside(v) /\ n \in 0 .. N
      /\ w.lost => v.lost
      /\ Off(w) \/ Ahead(w) =>
           \/ v.lost
           \/ Off(v) /\ n # 0
           \/ Ahead(v) /\ n < N /\ s[n + 1] \notin Controls /\ (Ahead(w) => n # 0)
  BY <1>1, OutputRunFacts
<1> HIDE DEF n, v
<1>3. left \in Seq(A) /\ Len(left) = N - n /\ (n < N => left[1] = s[n + 1])
  <2>1. n + 1 \in 1 .. N + 1 /\ N \in Nat
    BY <1>1, <1>2
  <2>2. left \in Seq(A) /\ Len(left) = IF n + 1 <= N THEN N - (n + 1) + 1 ELSE 0
    BY <1>1, <2>1, SubSeqProperties
  <2>3. n < N => left[1] = s[n + 1]
    BY <1>1, <1>2, <2>1, SubSeqProperties
  <2> QED
    BY <1>1, <1>2, <2>2, <2>3, SMTT(60)
<1> HIDE DEF left, N
<1>4. y.w = v /\ y.left = left
  OBVIOUS
<1> HIDE DEF y
<1>5. ASSUME clean
      PROVE  \/ v.lost
             \/ Off(v) /\ 2 * Len(left) <= k - 1
             \/ /\ Ahead(v) /\ left # <<>> /\ left[1] \notin Controls
                /\ 2 * Len(left) - 1 <= k - 1
  <2>1. CASE w.lost
    BY <1>2, <2>1
  <2>2. CASE Off(w) /\ 2 * N <= k
    BY <1>1, <1>2, <1>3, <2>2
  <2>3. CASE Ahead(w) /\ 2 * N - 1 <= k
    BY <1>1, <1>2, <1>3, <2>3
  <2> QED
    BY <1>5, <1>a, <2>1, <2>2, <2>3
<1>6. Turning(y, c, A, k - 1, clean)
  BY <1>2, <1>3, <1>4, <1>5 DEF Turning
<1> QED
  BY <1>6 DEF y, v, left, n, w, s, N

(* Each turn.                                                              *)
LEMMA TurnKeeps ==
  ASSUME NEW c, Open(c), NEW A, NEW k \in Nat \ {0}, NEW clean \in BOOLEAN, NEW x,
         Turning(x, c, A, k, clean)
  PROVE  Turning(Turn(x), c, A, k - 1, clean)
<1> DEFINE w == x.w
           Left(v, n) == [w |-> v, left |-> SubSeq(x.left, n + 1, Len(x.left))]
<1>0. Works(w, c) /\ Inside(w) /\ x.left \in Seq(A)
  BY DEF Turning
<1>1. CASE x.left = <<>>
  <2>1. Turn(x) = x /\ Len(x.left) = 0
    BY <1>1 DEF Turn
  <2>2. clean => w.lost \/ Off(w)
    BY <1>1 DEF Turning
  <2>3. 2 * Len(x.left) <= k - 1
    BY <2>1
  <2>4. Turning(x, c, A, k - 1, clean)
    BY <1>0, <2>2, <2>3 DEF Turning
  <2> QED
    BY <2>1, <2>4
<1>2. ASSUME x.left # <<>>, NEW v, Turn(x) = Left(v, 1), x.left[1] \in Controls,
             Works(v, c), Inside(v), w.lost => v.lost, Off(w) => Off(v)
      PROVE  Turning(Turn(x), c, A, k - 1, clean)
  BY <1>2, ControlTurn
<1>3. ASSUME x.left # <<>> PROVE Head(x.left) = x.left[1]
  BY <1>0, <1>3
<1>4. CASE x.left # <<>> /\ x.left[1] = "backspace"
  <2>1. Turn(x) = Left(Backspace(w), 1) /\ x.left[1] \in Controls
    BY <1>3, <1>4 DEF Turn, Controls
  <2>2. Works(Backspace(w), c) /\ Same(Backspace(w), w)
        /\ (Inside(w) => Inside(Backspace(w)) /\ (Off(w) => Off(Backspace(w))))
    BY <1>0, BackspaceFacts
  <2> QED
    BY <1>0, <1>2, <1>4, <2>1, <2>2 DEF Same
<1>5. CASE x.left # <<>> /\ x.left[1] = "linefeed"
  <2>1. Turn(x) = Left(LineFeed(w), 1) /\ x.left[1] \in Controls
    BY <1>3, <1>5 DEF Turn, Controls
  <2>2. /\ Works(LineFeed(w), c) /\ Same(LineFeed(w), w) /\ Column(LineFeed(w)) = Column(w)
        /\ Row(w) \in 0 .. Rows(w) - 1 => Row(LineFeed(w)) \in 0 .. Rows(LineFeed(w)) - 1
        /\ Off(w) => Off(LineFeed(w))
    BY <1>0, LineFeedFacts
  <2>3. Columns(LineFeed(w)) = Columns(w)
    BY <1>0, <2>2, WorkFields
  <2> QED
    BY <1>0, <1>2, <1>5, <2>1, <2>2, <2>3 DEF Same, Inside
<1>6. CASE x.left # <<>> /\ x.left[1] = "return"
  <2>1. Turn(x) = Left(Return(w), 1) /\ x.left[1] \in Controls
    BY <1>3, <1>6 DEF Turn, Controls
  <2>2. /\ Row(w) \in Int /\ Columns(w) = SizeOf(c)[1] /\ Rows(w) = SizeOf(c)[2]
        /\ SizeOf(c)[1] \in Nat /\ SizeOf(c)[1] >= 2
    BY <1>0, WorkFields, OpenSize
  <2>3. /\ Works(Return(w), c) /\ Same(Return(w), w) /\ Column(Return(w)) = 0
        /\ Row(Return(w)) = Row(w) /\ Return(w).ink = w.ink
    BY <1>0, <2>2, AtFacts DEF Return
  <2>4. Columns(Return(w)) = Columns(w) /\ Rows(Return(w)) = Rows(w)
    BY <2>2, <2>3, WorkFields
  <2>5. 0 \in 0 .. Columns(w) - 1
    BY <2>2
  <2> QED
    BY <1>0, <1>2, <1>6, <2>1, <2>3, <2>4, <2>5 DEF Same, Inside, Off
<1>7. ASSUME x.left # <<>>, NEW b \in BOOLEAN,
             x.left[1] = (IF b THEN "widen" ELSE "narrow")
      PROVE  Turning(Turn(x), c, A, k - 1, clean)
  <2> DEFINE v == Widened(w, b)
  <2>1. Turn(x) = Left(v, 1) /\ x.left[1] \in Controls
    BY <1>3, <1>7 DEF Turn, Controls
  <2>2. /\ Works(v, c) /\ Column(v) = Column(w) /\ Row(v) = Row(w)
        /\ v.lost = w.lost /\ v.ink = w.ink
    BY <1>0, WidenFacts
  <2> HIDE DEF v
  <2>3. Columns(v) = Columns(w) /\ Rows(v) = Rows(w)
    BY <1>0, <2>2, WorkFields
  <2> QED
    BY <1>0, <1>2, <1>7, <2>1, <2>2, <2>3 DEF Inside, Off
<1>8. CASE x.left # <<>> /\ x.left[1] \notin Controls
  <2>1. Turn(x) = Left(OutputRun(w, x.left), RunLength(w, x.left))
    BY <1>3, <1>8 DEF Turn, Controls
  <2> QED
    BY <1>8, <2>1, RunTurn
<1>9. CASE x.left # <<>> /\ x.left[1] \in {"widen", "narrow"}
  BY <1>7, <1>9
<1> QED
  BY <1>1, <1>4, <1>5, <1>6, <1>8, <1>9 DEF Controls

(* A string that is written with the cursor off leaves it off and inside   *)
(* the window, unless a wide character was lost.                           *)
LEMMA WrittenFacts ==
  ASSUME NEW c, Open(c), NEW w, Works(w, c), Inside(w), NEW A, NEW s \in Seq(A)
  PROVE  LET v == Written(w, s)
         IN Works(v, c) /\ Inside(v) /\ (Off(w) => v.lost \/ Off(v))
<1>0. Len(s) \in Nat
  OBVIOUS
<1>a. \E after : Unfolds(after, w, s)
  BY <1>0, WrittenUnfolds
<1> DEFINE N == 2 * Len(s)
           clean == Off(w)
<1>1. N \in Nat /\ Len(s) \in Nat /\ clean \in BOOLEAN
  BY DEF Off
<1>2. PICK after : /\ after[0] = [w |-> w, left |-> s]
                   /\ \A n \in 1 .. N : after[n] = Turn(after[n - 1])
                   /\ Written(w, s) = after[N].w
  BY <1>a DEF Unfolds
<1> DEFINE S == {n \in Nat : n <= N => Turning(after[n], c, A, N - n, clean)}
<1>3. 0 \in S /\ S \in SUBSET Nat
  <2>1. after[0].w = w /\ after[0].left = s /\ 2 * Len(s) <= N - 0
    BY <1>1, <1>2
  <2>2. Turning(after[0], c, A, N - 0, clean)
    BY <2>1 DEF Turning
  <2> QED
    BY <2>2
<1> HIDE DEF clean
<1>4. ASSUME NEW n \in S PROVE n + 1 \in S
  <2>1. CASE n + 1 <= N
    <3>1. n + 1 \in 1 .. N /\ (n + 1) - 1 = n /\ N - n \in Nat \ {0} /\ N - (n + 1) = (N - n) - 1
      BY <1>1, <2>1
    <3>2. Turning(after[n], c, A, N - n, clean)
      BY <1>1, <2>1
    <3>3. Turning(Turn(after[n]), c, A, (N - n) - 1, clean)
      BY <1>1, <3>1, <3>2, TurnKeeps
    <3>4. after[n + 1] = Turn(after[n])
      BY <1>2, <3>1
    <3> QED
      BY <3>1, <3>3, <3>4
  <2>2. CASE ~(n + 1 <= N)
    BY <2>2
  <2> QED
    BY <2>1, <2>2
<1> HIDE DEF S
<1>5. N \in S
  BY <1>1, <1>3, <1>4, Induction
<1>6. Turning(after[N], c, A, N - N, clean)
  BY <1>1, <1>5 DEF S
<1> DEFINE x == after[N]
<1>7. Works(x.w, c) /\ Inside(x.w) /\ x.left \in Seq(A) /\ Len(x.left) \in Nat
  BY <1>6 DEF Turning
<1>8. clean => x.w.lost \/ Off(x.w)
  <2>1. ASSUME x.left # <<>> PROVE ~(2 * Len(x.left) - 1 <= N - N)
    BY <1>1, <1>7, <2>1
  <2> QED
    BY <1>6, <2>1 DEF Turning
<1> QED
  BY <1>2, <1>7, <1>8 DEF clean
-----------------------------------------------------------------------------
(* A state of the driver.                                                  *)
Driven(c, ce, i, sp, g) ==
  LET w == [con |-> c, cells |-> ce, ink |-> i, wide |-> FALSE, lost |-> FALSE]
  IN /\ c \in Consoles /\ c.gopMode \in {None} \cup (0 .. Len(GopModes) - 1)
     /\ sp \in BOOLEAN /\ g \in 0 .. Len(GopModes) - 1
     /\ c.mode # None => /\ Open(c) /\ c.buffer # "null"
                         /\ DOMAIN ce = Window(c) /\ Framed(ce) /\ Inside(w)
                         /\ ~sp => On(w)

(* The inductive invariant.                                                *)
GfxInv == Driven(con, cells, ink, spoiled, gop)

(* What a call has worked on is a state again.                             *)
LEMMA DrivenBy ==
  ASSUME NEW c, Open(c), c.buffer # "null", NEW w, Works(w, c), Inside(w),
         NEW sp \in BOOLEAN, NEW i, ~sp => On(w) /\ i = w.ink, NEW g \in 0 .. Len(GopModes) - 1
  PROVE  Driven(w.con, w.cells, i, sp, g)
<1> DEFINE v == [con |-> w.con, cells |-> w.cells, ink |-> i, wide |-> FALSE, lost |-> FALSE]
<1>1. /\ w.con \in Consoles /\ w.con.gopMode = c.gopMode /\ w.con.mode = c.mode
      /\ w.con.buffer = c.buffer
  BY WorkFields
<1>2. SizeOf(w.con) = SizeOf(c) /\ Window(w.con) = Window(c)
  BY <1>1 DEF SizeOf, Window
<1>3. Open(w.con)
  BY <1>1, <1>2 DEF Open
<1>4. v.con = w.con /\ v.cells = w.cells /\ v.ink = i
  OBVIOUS
<1> HIDE DEF v
<1>5. Inside(v) /\ (~sp => On(v))
  BY <1>4 DEF Inside, Columns, Rows, Column, Row, On, Image
<1>6. /\ w.con.gopMode \in 0 .. Len(GopModes) - 1 /\ DOMAIN w.cells = Window(c)
      /\ Framed(w.cells)
  BY <1>1 DEF Open, Works
<1> QED
  BY <1>1, <1>2, <1>3, <1>5, <1>6 DEF Driven, v

(* What a call finds.                                                      *)
LEMMA ScreenWorks ==
  ASSUME GfxInv, con.mode # None
  PROVE  /\ Open(con) /\ con.buffer # "null" /\ Works(Screen, con) /\ Inside(Screen)
         /\ ~spoiled => On(Screen)
         /\ Screen.con = con /\ ~Screen.lost /\ con.attr \in Nat
<1>1. /\ Open(con) /\ con.buffer # "null" /\ DOMAIN cells = Window(con) /\ Inside(Screen)
      /\ Framed(cells)
      /\ ~spoiled => On(Screen)
      /\ con \in Consoles
  BY DEF GfxInv, Driven, Screen
<1>2. con = [con EXCEPT !.pos = con.pos] /\ con.pos \in Int \X Int /\ con.attr \in Nat
  BY <1>1 DEF Consoles
<1>3. Works(Screen, con)
  BY <1>1, <1>2 DEF Works, Screen
<1> QED
  BY <1>1, <1>2, <1>3 DEF Screen

(* A call that leaves the cursor drawn if it found it drawn.               *)
LEMMA BecomesKeeps ==
  ASSUME GfxInv, con.mode # None, NEW c, Open(c), c.buffer # "null", NEW w, Works(w, c), Inside(w),
         ~spoiled /\ ~w.lost => On(w), Becomes(w), gop' \in 0 .. Len(GopModes) - 1
  PROVE  GfxInv'
<1>1. spoiled \in BOOLEAN /\ w.lost \in BOOLEAN
  BY DEF GfxInv, Driven, Works
<1>2. /\ con' = w.con /\ cells' = w.cells /\ spoiled' = (spoiled \/ w.lost)
      /\ ink' = IF spoiled' THEN {} ELSE w.ink
  BY DEF Becomes
<1>3. spoiled' \in BOOLEAN /\ (~spoiled' => On(w) /\ ink' = w.ink)
  BY <1>1, <1>2
<1>4. Driven(w.con, w.cells, ink', spoiled', gop')
  BY <1>3, DrivenBy
<1> QED
  BY <1>2, <1>4 DEF GfxInv

(* A call that clears the screen.                                          *)
LEMMA ClearsKeeps ==
  ASSUME NEW c, Open(c), c.buffer # "null", NEW w, Works(w, c), Inside(w),
         On(w), Clears(w), gop' \in 0 .. Len(GopModes) - 1
  PROVE  GfxInv'
<1>1. con' = w.con /\ cells' = w.cells /\ ink' = w.ink /\ spoiled' = FALSE
  BY DEF Clears
<1>2. Driven(w.con, w.cells, w.ink, FALSE, gop')
  BY DrivenBy
<1> QED
  BY <1>1, <1>2 DEF GfxInv

(* A window without characters, and the cursor in its corner.              *)
Empty(w) == Column(w) = 0 /\ Row(w) = 0 /\ w.cells = T!BlankWindow(SizeOf(w.con)) /\ ~w.wide

(* The screen is filled and the cursor is in its corner.                   *)
LEMMA ClearedFacts ==
  ASSUME NEW w, Open(w.con), w.wide \in BOOLEAN, w.lost \in BOOLEAN,
         w = [con |-> w.con, cells |-> w.cells, ink |-> w.ink, wide |-> w.wide, lost |-> w.lost]
  PROVE  LET v == Cleared(w)
         IN /\ Works(v, w.con) /\ Inside(v) /\ On(v) /\ v.lost = w.lost
            /\ ~w.wide => Empty(v)
<1> DEFINE c == w.con
           blank == T!BlankWindow(SizeOf(c))
           u == [At(w, 0, 0) EXCEPT !.ink = {}, !.cells = blank]
           v == FlushCursor(u)
<1>1. Cleared(w) = v /\ DOMAIN blank = Window(c) /\ Open(c) /\ c \in Consoles
  BY DEF Cleared, T!BlankWindow, Window, Open
<1>g. Framed(blank)
  BY DEF T!BlankWindow, Framed
<1> HIDE DEF blank
<1>a. At(w, 0, 0) = [w EXCEPT !.con = [w.con EXCEPT !.pos = <<0, 0>>]]
  BY DEF At
<1>b. At(w, 0, 0) = [con |-> [c EXCEPT !.pos = <<0, 0>>], cells |-> w.cells, ink |-> w.ink,
                     wide |-> w.wide, lost |-> w.lost]
  BY <1>a
<1> DEFINE k == [c EXCEPT !.pos = <<0, 0>>]
           a == At(w, 0, 0)
<1>d. a = [con |-> k, cells |-> w.cells, ink |-> w.ink, wide |-> w.wide, lost |-> w.lost]
  BY <1>b
<1>e. u = [a EXCEPT !.ink = {}, !.cells = blank]
  OBVIOUS
<1> HIDE DEF k, a, u
<1>f. u = [con |-> k, cells |-> blank, ink |-> {}, wide |-> w.wide, lost |-> w.lost]
  BY <1>d, <1>e
<1>2. u = [con |-> [c EXCEPT !.pos = <<0, 0>>], cells |-> blank, ink |-> {},
           wide |-> w.wide, lost |-> w.lost]
  BY <1>f DEF k
<1>3. u.con = [c EXCEPT !.pos = <<0, 0>>] /\ u.con.pos = <<0, 0>>
  BY <1>1, <1>2 DEF Consoles
<1>4. /\ u = [con |-> u.con, cells |-> u.cells, ink |-> u.ink, wide |-> u.wide, lost |-> u.lost]
      /\ u.cells = blank /\ u.ink = {} /\ u.wide = w.wide /\ u.lost = w.lost
  BY <1>2
<1> HIDE DEF c
<1>5. Works(u, c) /\ Off(u) /\ Column(u) = 0 /\ Row(u) = 0
  BY <1>1, <1>g, <1>3, <1>4 DEF Works, Off, Column, Row, c
<1>6. Works(v, c) /\ Same(v, u) /\ Column(v) = 0 /\ Row(v) = 0 /\ On(v) /\ v.cells = u.cells
  BY <1>1, <1>5, FlushFacts
<1> HIDE DEF v
<1>7. Inside(v)
  <2>1. /\ Columns(v) = SizeOf(c)[1] /\ Rows(v) = SizeOf(c)[2]
        /\ SizeOf(c)[1] \in Nat /\ SizeOf(c)[1] >= 2 /\ SizeOf(c)[2] \in Nat /\ SizeOf(c)[2] >= 1
    BY <1>1, <1>6, WorkFields, OpenSize
  <2> QED
    BY <1>6, <2>1 DEF Inside
<1>8. SizeOf(v.con) = SizeOf(c)
  BY <1>1, <1>6, WorkFields DEF SizeOf
<1>9. v.cells = T!BlankWindow(SizeOf(v.con)) /\ v.wide = w.wide
  BY <1>4, <1>6, <1>8 DEF blank, Same
<1>10. ~w.wide => Empty(v)
  BY <1>6, <1>9 DEF Empty
<1> QED
  BY <1>1, <1>4, <1>6, <1>7, <1>10 DEF Same, c

(* An attribute is set with the cursor taken away.                         *)
LEMMA AttributedFacts ==
  ASSUME NEW c, Open(c), NEW w, Works(w, c), Inside(w), NEW a \in Nat
  PROVE  LET v == Attributed(w, a)
         IN \E d : /\ Open(d) /\ d.buffer = c.buffer /\ Works(v, d) /\ Inside(v) /\ v.lost = w.lost
                   /\ On(w) => On(v)
<1> DEFINE f == FlushCursor(w)
           u == [f EXCEPT !.con.attr = a]
           v == FlushCursor(u)
           d == [c EXCEPT !.attr = a]
<1>1. CASE Attributed(w, a) = w
  BY <1>1
<1>2. CASE Attributed(w, a) = v
  <2>1. /\ Works(f, c) /\ Same(f, w) /\ Column(f) = Column(w) /\ Row(f) = Row(w)
        /\ (On(w) => Off(f)) /\ c \in Consoles
    BY FlushFacts DEF Open
  <2> HIDE DEF f
  <2>2. /\ d \in Consoles /\ d.mode = c.mode /\ d.gopMode = c.gopMode /\ d.buffer = c.buffer
    BY <2>1 DEF Consoles
  <2>3. SizeOf(d) = SizeOf(c) /\ Open(d) /\ Window(d) = Window(c)
    BY <2>2 DEF SizeOf, Open, Window
  <2>4. /\ u = [con |-> [f.con EXCEPT !.attr = a], cells |-> f.cells, ink |-> f.ink,
                wide |-> f.wide, lost |-> f.lost]
        /\ f.con = [c EXCEPT !.pos = f.con.pos] /\ f.con.pos \in Int \X Int
    BY <2>1 DEF Works
  <2>5. u.con = [d EXCEPT !.pos = f.con.pos] /\ u.con.pos = f.con.pos
    BY <2>1, <2>4 DEF Consoles
  <2> HIDE DEF d
  <2>6. Works(u, d) /\ Same(u, f) /\ Column(u) = Column(f) /\ Row(u) = Row(f) /\ (Off(f) => Off(u))
    BY <2>1, <2>3, <2>4, <2>5 DEF Works, Same, Column, Row, Off
  <2> HIDE DEF u
  <2>7. Works(v, d) /\ Same(v, u) /\ Column(v) = Column(u) /\ Row(v) = Row(u) /\ (Off(u) => On(v))
    BY <2>3, <2>6, FlushFacts
  <2> HIDE DEF v
  <2>8. Columns(v) = Columns(w) /\ Rows(v) = Rows(w)
    BY <2>3, <2>7, WorkFields
  <2>9. Inside(v) /\ v.lost = w.lost
    BY <2>1, <2>6, <2>7, <2>8 DEF Inside, Same
  <2> QED
    BY <1>2, <2>1, <2>2, <2>3, <2>6, <2>7, <2>9
<1> QED
  BY <1>1, <1>2 DEF Attributed
-----------------------------------------------------------------------------
(* FlushCursor only inverts, also while the console has no mode.           *)
LEMMA FlushShape ==
  ASSUME NEW w,
         w = [con |-> w.con, cells |-> w.cells, ink |-> w.ink, wide |-> w.wide, lost |-> w.lost]
  PROVE  LET v == FlushCursor(w)
         IN v = [con |-> w.con, cells |-> w.cells, ink |-> v.ink, wide |-> w.wide, lost |-> w.lost]
<1> DEFINE image == IF w.con.visible /\ w.con.attr % 16 # Black
                    THEN {<<CursorPlace(w), w.con.attr % 16>>} ELSE {}
           i == SymDiff(w.ink, image)
           v == FlushCursor(w)
<1>1. v = [w EXCEPT !.ink = i]
  BY DEF FlushCursor
<1> HIDE DEF i
<1>2. v = [con |-> w.con, cells |-> w.cells, ink |-> i, wide |-> w.wide, lost |-> w.lost]
  BY <1>1
<1> QED
  BY <1>2

(* The text modes of a graphics mode that the table has.                   *)
LEMMA Opens ==
  ASSUME NEW c \in Consoles, c.gopMode \in 0 .. Len(GopModes) - 1,
         c.mode \in Nat, c.mode < Len(TextModes[c.gopMode]),
         TextModes[c.gopMode][c.mode + 1] # NoSize
  PROVE  Open(c)
<1>1. Len(TextModes[c.gopMode]) \in Nat
  BY ModesType DEF TextModes, ModeLists
<1>2. c.mode # None /\ SizeOf(c) = TextModes[c.gopMode][c.mode + 1]
  BY DEF None, SizeOf
<1> QED
  BY <1>1, <1>2 DEF Open

(* GraphicsConsoleConOutSetMode that succeeds.                             *)
LEMMA ModeSet ==
  ASSUME GfxInv, con.gopMode # None, NEW m \in Nat, IsMode(m),
         NEW o \in ModeOutcomes(m), o.ok
  PROVE  /\ \E c : /\ Open(c) /\ c.buffer # "null" /\ Works(o.w, c) /\ Inside(o.w) /\ On(o.w)
                   /\ o.w.con.attr \in Nat /\ Empty(o.w)
         /\ o.gop \in 0 .. Len(GopModes) - 1
<1> DEFINE again == con.buffer # "null"
           w == IF again THEN FlushCursor(Screen) ELSE Screen
           x == [w EXCEPT !.con.mode = m, !.con.buffer = "held"]
           y == [con EXCEPT !.mode = m, !.buffer = "held"]
<1>1. /\ con \in Consoles /\ gop \in 0 .. Len(GopModes) - 1 /\ con.gopMode \in 0 .. Len(GopModes) - 1
  BY DEF GfxInv, Driven
<1>2. CASE again /\ con.mode = m
  <2>1. o.w = Cleared(Screen) /\ o.gop = gop
    BY <1>2 DEF ModeOutcomes
  <2>2. con.mode # None
    BY <1>2 DEF None
  <2>3. /\ Open(con) /\ con.buffer # "null" /\ Works(Screen, con) /\ Screen.con = con /\ con.attr \in Nat
    BY <2>2, ScreenWorks
  <2>a. ~Screen.wide
    BY DEF Screen
  <2>4. /\ Works(o.w, con) /\ Inside(o.w) /\ On(o.w) /\ Empty(o.w)
    BY <2>1, <2>3, <2>a, ClearedFacts DEF Works
  <2>5. o.w.con.attr \in Nat
    BY <2>3, <2>4, WorkFields
  <2> QED
    BY <1>1, <2>1, <2>3, <2>4, <2>5
<1>3. CASE ~(again /\ con.mode = m)
  <2>1. o.w = Cleared(x) /\ o.gop = con.gopMode
    BY <1>3 DEF ModeOutcomes
  <2>2. /\ Screen = [con |-> Screen.con, cells |-> Screen.cells, ink |-> Screen.ink,
                     wide |-> Screen.wide, lost |-> Screen.lost]
        /\ Screen.con = con /\ Screen.cells = cells /\ Screen.wide = FALSE /\ Screen.lost = FALSE
    BY DEF Screen
  <2>3. w = [con |-> con, cells |-> cells, ink |-> w.ink, wide |-> FALSE, lost |-> FALSE]
    BY <2>2, FlushShape
  <2>a. x = [w EXCEPT !.con = [[w.con EXCEPT !.mode = m] EXCEPT !.buffer = "held"]]
    BY <2>3
  <2> DEFINE i == w.ink
             z == [con EXCEPT !.mode = m]
  <2>b. w = [con |-> con, cells |-> cells, ink |-> i, wide |-> FALSE, lost |-> FALSE]
    BY <2>3
  <2> HIDE DEF i, w
  <2>c. w.con = con
    BY <2>b
  <2>d. x = [w EXCEPT !.con = y]
    BY <2>a, <2>c
  <2>e. y = [z EXCEPT !.buffer = "held"]
    OBVIOUS
  <2>f. /\ z \in Consoles /\ z.gopMode = con.gopMode /\ z.mode = m
    BY <1>1 DEF Consoles
  <2> HIDE DEF x, y, z
  <2>4. x = [con |-> y, cells |-> cells, ink |-> i, wide |-> FALSE, lost |-> FALSE]
    BY <2>b, <2>d
  <2>5. /\ x = [con |-> x.con, cells |-> x.cells, ink |-> x.ink, wide |-> x.wide, lost |-> x.lost]
        /\ x.con = y /\ x.wide \in BOOLEAN /\ x.lost \in BOOLEAN /\ ~x.wide
    BY <2>4
  <2>6. /\ y \in Consoles /\ y.gopMode = con.gopMode /\ y.mode = m /\ y.buffer = "held"
        /\ y.attr \in Nat
    BY <2>e, <2>f DEF Consoles
  <2>7. Open(y)
    BY <1>1, <2>6, Opens DEF IsMode
  <2>8. /\ Works(o.w, y) /\ Inside(o.w) /\ On(o.w) /\ Empty(o.w)
    BY <2>1, <2>5, <2>7, ClearedFacts
  <2>9. o.w.con.attr \in Nat
    BY <2>6, <2>7, <2>8, WorkFields
  <2> QED
    BY <1>1, <2>1, <2>6, <2>7, <2>8, <2>9
<1> QED
  BY <1>2, <1>3

(* GraphicsConsoleConOutSetMode that fails.                                *)
LEMMA ModeFailed ==
  ASSUME GfxInv, con.gopMode # None, NEW m, NEW o \in ModeOutcomes(m), ~o.ok
  PROVE  /\ \E b \in {"null", "held", "freed"} :
              o.w.con = [con EXCEPT !.buffer = b] /\ (con.buffer # "null" => b # "null")
         /\ o.w.cells = cells /\ o.gop = gop
<1> DEFINE again == con.buffer # "null"
           w == IF again THEN FlushCursor(Screen) ELSE Screen
           x(b) == [w EXCEPT !.con.buffer = b]
<1>1. PICK b \in {"null", "held", "freed"} : o.w = x(b) /\ o.gop = gop /\ (con.buffer # "null" => b # "null")
  BY DEF ModeOutcomes
<1>2. /\ Screen = [con |-> Screen.con, cells |-> Screen.cells, ink |-> Screen.ink,
                   wide |-> Screen.wide, lost |-> Screen.lost]
      /\ Screen.con = con /\ Screen.cells = cells /\ Screen.wide = FALSE /\ Screen.lost = FALSE
  BY DEF Screen
<1>3. w = [con |-> con, cells |-> cells, ink |-> w.ink, wide |-> FALSE, lost |-> FALSE]
  BY <1>2, FlushShape
<1> HIDE DEF w
<1>4. x(b).con = [con EXCEPT !.buffer = b] /\ x(b).cells = cells
  BY <1>3
<1> QED
  BY <1>1, <1>4

(* A console that could not change its mode keeps the one it has.          *)
LEMMA FailedKeeps ==
  ASSUME GfxInv, NEW b \in {"null", "held", "freed"}, con.buffer # "null" => b # "null",
         con' = [con EXCEPT !.buffer = b], cells' = cells, gop' = gop,
         spoiled' = (spoiled \/ con.buffer # "null")
  PROVE  GfxInv'
<1> DEFINE c == [con EXCEPT !.buffer = b]
           w == [con |-> c, cells |-> cells, ink |-> ink', wide |-> FALSE, lost |-> FALSE]
<1>1. /\ con \in Consoles /\ con.gopMode \in {None} \cup (0 .. Len(GopModes) - 1)
      /\ spoiled \in BOOLEAN /\ gop \in 0 .. Len(GopModes) - 1
  BY DEF GfxInv, Driven
<1>2. /\ c \in Consoles /\ c.mode = con.mode /\ c.gopMode = con.gopMode /\ c.pos = con.pos
      /\ c.buffer = b
  BY <1>1 DEF Consoles
<1>3. c = con' /\ spoiled' \in BOOLEAN
  BY <1>1
<1> HIDE DEF c
<1>4. ASSUME con.mode # None
      PROVE  /\ Open(c) /\ c.buffer # "null" /\ DOMAIN cells = Window(c) /\ Framed(cells)
             /\ Inside(w) /\ spoiled'
  <2>1. Open(con) /\ con.buffer # "null" /\ Works(Screen, con) /\ Inside(Screen) /\ Screen.con = con
    BY <1>4, ScreenWorks
  <2>2. SizeOf(c) = SizeOf(con) /\ Window(c) = Window(con)
    BY <1>2 DEF SizeOf, Window
  <2>3. Open(c)
    BY <1>2, <2>1, <2>2 DEF Open
  <2>4. w.con = c
    OBVIOUS
  <2>5. Inside(w)
    BY <1>2, <2>1, <2>2, <2>4 DEF Inside, Columns, Rows, Column, Row
  <2> QED
    BY <1>2, <2>1, <2>2, <2>3, <2>5 DEF Works, Screen
<1>5. Driven(c, cells, ink', spoiled', gop)
  BY <1>1, <1>2, <1>3, <1>4 DEF Driven
<1> QED
  BY <1>3, <1>5 DEF GfxInv
-----------------------------------------------------------------------------
(* A console that is not started is in order.                              *)
LEMMA InitKept == Init => GfxInv
<1> SUFFICES ASSUME Init PROVE GfxInv
  OBVIOUS
<1>1. con = NotStarted /\ spoiled = FALSE /\ gop \in 0 .. Len(GopModes) - 1
  BY DEF Init
<1>2. /\ NotStarted \in Consoles /\ NotStarted.mode = None /\ NotStarted.gopMode = None
  BY DEF NotStarted, Consoles, None, Lightgray
<1> QED
  BY <1>1, <1>2 DEF GfxInv, Driven

(* Where there is no mode, nothing is drawn that the invariant speaks of.  *)
LEMMA NoModeKeeps ==
  ASSUME con' \in Consoles, con'.mode = None, con'.gopMode \in {None} \cup (0 .. Len(GopModes) - 1),
         spoiled' \in BOOLEAN, gop' \in 0 .. Len(GopModes) - 1
  PROVE  GfxInv'
BY DEF GfxInv, Driven

(* The graphics mode that Start chooses is one of them.                    *)
LEMMA StartModeIs ==
  ASSUME gop \in 0 .. Len(GopModes) - 1, NEW highest, ModesOf(highest) # {}
  PROVE  StartMode(highest) \in 0 .. Len(GopModes) - 1
<1>1. ASSUME NEW res, ModesOf(res) # {} PROVE Min(ModesOf(res)) \in 0 .. Len(GopModes) - 1
  <2>1. ModesOf(res) \in SUBSET (0 .. Len(GopModes) - 1)
    BY DEF ModesOf
  <2>2. ModesOf(res) \in SUBSET Nat
    BY <2>1, GfxAssumption
  <2>3. Min(ModesOf(res)) \in ModesOf(res)
    BY <1>1, <2>2, MinIsLeast
  <2> QED
    BY <2>1, <2>3
<1>2. ASSUME NEW res, CheckModeSupported(res) # None
      PROVE  CheckModeSupported(res) \in 0 .. Len(GopModes) - 1
  BY <1>1, <1>2 DEF CheckModeSupported
<1> QED
  BY <1>1, <1>2 DEF StartMode

(* A string written to a console that is open.                             *)
LEMMA WritesKeep ==
  ASSUME NEW c, Open(c), NEW w, Works(w, c), Inside(w), NEW A, NEW s \in Seq(A)
  PROVE  LET v == FlushCursor(Written(FlushCursor(w), s))
         IN Works(v, c) /\ Inside(v) /\ (On(w) /\ ~v.lost => On(v))
<1> DEFINE f == FlushCursor(w)
           t == Written(f, s)
           v == FlushCursor(t)
<1>1. Works(f, c) /\ Column(f) = Column(w) /\ Row(f) = Row(w) /\ (On(w) => Off(f))
  BY FlushFacts
<1> HIDE DEF f
<1>2. Inside(f)
  BY <1>1, WorkFields DEF Inside
<1>3. Works(t, c) /\ Inside(t) /\ (Off(f) => t.lost \/ Off(t))
  BY <1>1, <1>2, WrittenFacts
<1> HIDE DEF t
<1>4. Works(v, c) /\ Same(v, t) /\ Column(v) = Column(t) /\ Row(v) = Row(t) /\ (Off(t) => On(v))
  BY <1>3, FlushFacts
<1> HIDE DEF v
<1>5. Inside(v)
  BY <1>3, <1>4, WorkFields DEF Inside
<1>6. v.lost = t.lost
  BY <1>4 DEF Same
<1>7. Works(v, c) /\ Inside(v) /\ (On(w) /\ ~v.lost => On(v))
  BY <1>1, <1>3, <1>4, <1>5, <1>6
<1> QED
  BY <1>7 DEF v, t, f

(* The console that GraphicsConsoleControllerDriverStart prepares, and     *)
(* what it writes the greeting on.                                         *)
Prepared(highest) == [NotStarted EXCEPT !.gopMode = StartMode(highest)]
Greets(highest) ==
  Cleared([Screen EXCEPT !.con = [Prepared(highest) EXCEPT !.mode = 0, !.buffer = "held"]])

LEMMA StartOpens ==
  ASSUME GfxInv, NEW highest, Start(highest)
  PROVE  /\ con = NotStarted /\ spoiled \in BOOLEAN /\ gop' \in 0 .. Len(GopModes) - 1
         /\ Prepared(highest) \in Consoles /\ Prepared(highest).mode = None
         /\ Prepared(highest).gopMode = gop'
         /\ LET w == Greets(highest)
            IN \E d : /\ Open(d) /\ d.buffer # "null" /\ Works(w, d) /\ Inside(w)
                      /\ On(w) /\ Empty(w)
<1> DEFINE c == Prepared(highest)
           d == [c EXCEPT !.mode = 0, !.buffer = "held"]
           x == [Screen EXCEPT !.con = d]
           w == Cleared(x)
           e == [c EXCEPT !.mode = 0]
<1>1. /\ con = NotStarted /\ gop \in 0 .. Len(GopModes) - 1 /\ spoiled \in BOOLEAN
      /\ gop' = StartMode(highest) /\ ModesOf(highest) # {}
  BY DEF Start, Supported, GfxInv, Driven
<1>2. gop' \in 0 .. Len(GopModes) - 1
  BY <1>1, StartModeIs
<1>3. /\ NotStarted \in Consoles /\ NotStarted.mode = None
  BY DEF NotStarted, Consoles, None, Lightgray
<1>4. c \in Consoles /\ c.mode = None /\ c.gopMode = gop'
  BY <1>1, <1>2, <1>3 DEF Consoles, Prepared
<1> HIDE DEF c
<1>5. d = [e EXCEPT !.buffer = "held"]
  OBVIOUS
<1>6. e \in Consoles /\ e.mode = 0 /\ e.gopMode = gop'
  BY <1>4 DEF Consoles
<1> HIDE DEF e, d
<1>7. d \in Consoles /\ d.mode = 0 /\ d.gopMode = gop' /\ d.buffer = "held"
  BY <1>5, <1>6 DEF Consoles
<1>8. TextModes[gop'] \in ModeLists
  BY <1>2, ModesType DEF TextModes
<1>9. Basic # NoSize
  BY GfxAssumption DEF WindowSizes, NoSize
<1>10. 0 < Len(TextModes[gop']) /\ TextModes[gop'][0 + 1] # NoSize
  BY <1>8, <1>9 DEF ModeLists
<1>11. Open(d)
  BY <1>2, <1>7, <1>10, Opens
<1>12. Screen = [con |-> con, cells |-> cells, ink |-> ink, wide |-> FALSE, lost |-> FALSE]
  BY DEF Screen
<1>13. x = [Screen EXCEPT !.con = d]
  OBVIOUS
<1> HIDE DEF x
<1>14. x = [con |-> d, cells |-> cells, ink |-> ink, wide |-> FALSE, lost |-> FALSE]
  BY <1>12, <1>13
<1>15. /\ x = [con |-> x.con, cells |-> x.cells, ink |-> x.ink, wide |-> x.wide, lost |-> x.lost]
       /\ x.con = d /\ x.wide \in BOOLEAN /\ x.lost \in BOOLEAN /\ ~x.wide
  BY <1>14
<1>16. Works(w, d) /\ Inside(w) /\ On(w) /\ Empty(w)
  BY <1>11, <1>15, ClearedFacts
<1>17. w = Greets(highest)
  BY DEF Greets, x, d, c
<1> HIDE DEF w
<1> QED
  BY <1>1, <1>2, <1>4, <1>7, <1>11, <1>16, <1>17 DEF c

(* GraphicsConsoleControllerDriverStart, greeting or not, or failing at    *)
(* last.                                                                   *)
LEMMA StartKeeps ==
  ASSUME GfxInv, NEW highest, Start(highest) PROVE GfxInv'
<1> DEFINE c == Prepared(highest)
           w == Greets(highest)
           v == FlushCursor(Written(FlushCursor(w), Greeting))
<1>1. /\ con = NotStarted /\ spoiled \in BOOLEAN /\ gop' \in 0 .. Len(GopModes) - 1
      /\ c \in Consoles /\ c.mode = None /\ c.gopMode = gop'
  BY StartOpens
<1>2. PICK d : Open(d) /\ d.buffer # "null" /\ Works(w, d) /\ Inside(w) /\ On(w)
  BY StartOpens
<1>3. \/ con' = c /\ spoiled' = FALSE
      \/ Becomes(v)
      \/ UNCHANGED <<con, cells, ink, spoiled>>
  BY DEF Start, Greets, Prepared
<1> HIDE DEF c, w
<1>4. CASE con' = c /\ spoiled' = FALSE
  BY <1>1, <1>4, NoModeKeeps
<1>5. CASE UNCHANGED <<con, cells, ink, spoiled>>
  <2>1. NotStarted \in Consoles /\ NotStarted.mode = None /\ NotStarted.gopMode = None
    BY DEF NotStarted, Consoles, None, Lightgray
  <2> QED
    BY <1>1, <1>5, <2>1, NoModeKeeps
<1>6. CASE Becomes(v)
  <2>1. Greeting \in Seq(ToSet(Greeting))
    BY GfxAssumption
  <2>2. Works(v, d) /\ Inside(v) /\ (On(w) /\ ~v.lost => On(v))
    BY <1>2, <2>1, WritesKeep
  <2> HIDE DEF v
  <2>3. v.lost \in BOOLEAN
    BY <2>2 DEF Works
  <2>4. /\ con' = v.con /\ cells' = v.cells /\ spoiled' = (spoiled \/ v.lost)
        /\ ink' = IF spoiled' THEN {} ELSE v.ink
    BY <1>6 DEF Becomes
  <2>5. spoiled' \in BOOLEAN /\ (~spoiled' => On(v) /\ ink' = v.ink)
    BY <1>1, <1>2, <2>2, <2>3, <2>4
  <2>6. Driven(v.con, v.cells, ink', spoiled', gop')
    BY <1>1, <1>2, <2>2, <2>5, DrivenBy
  <2> QED
    BY <2>4, <2>6 DEF GfxInv
<1> QED
  BY <1>3, <1>4, <1>5, <1>6

(* GraphicsConsoleControllerDriverStop.                                    *)
LEMMA StopKeeps == ASSUME GfxInv, Stop PROVE GfxInv'
<1>1. /\ NotStarted \in Consoles /\ NotStarted.mode = None /\ NotStarted.gopMode = None
  BY DEF NotStarted, Consoles, None, Lightgray
<1>2. con' = NotStarted /\ spoiled' = FALSE /\ gop' = gop /\ gop \in 0 .. Len(GopModes) - 1
  BY DEF Stop, GfxInv, Driven
<1> QED
  BY <1>1, <1>2, NoModeKeeps

(* GraphicsConsoleConOutSetMode, whatever it comes to.                     *)
LEMMA SetModeKeeps == ASSUME GfxInv, NEW m \in Nat, SetMode(m) PROVE GfxInv'
<1>1. con.gopMode # None /\ IsMode(m)
  BY DEF SetMode
<1>2. PICK o \in ModeOutcomes(m) :
        /\ con' = o.w.con /\ cells' = o.w.cells /\ gop' = o.gop
        /\ spoiled' = (~o.ok /\ (spoiled \/ con.buffer # "null"))
        /\ ink' = IF spoiled' THEN {} ELSE o.w.ink
  BY DEF SetMode
<1>3. CASE o.ok
  <2>1. PICK c : Open(c) /\ c.buffer # "null" /\ Works(o.w, c) /\ Inside(o.w) /\ On(o.w)
    BY <1>1, <1>3, ModeSet
  <2>2. gop' \in 0 .. Len(GopModes) - 1
    BY <1>1, <1>2, <1>3, ModeSet
  <2>3. Clears(o.w)
    BY <1>2, <1>3 DEF Clears
  <2> QED
    BY <2>1, <2>2, <2>3, ClearsKeeps
<1>4. CASE ~o.ok
  <2>1. PICK b \in {"null", "held", "freed"} :
          o.w.con = [con EXCEPT !.buffer = b] /\ (con.buffer # "null" => b # "null")
    BY <1>1, <1>4, ModeFailed
  <2>2. o.w.cells = cells /\ o.gop = gop
    BY <1>1, <1>4, ModeFailed
  <2>3. spoiled' = (spoiled \/ con.buffer # "null")
    BY <1>2, <1>4
  <2> QED
    BY <1>2, <2>1, <2>2, <2>3, FailedKeeps
<1> QED
  BY <1>3, <1>4

(* Every graphics mode has text mode 0.                                    *)
LEMMA BasicIsMode == ASSUME GfxInv, con.gopMode # None PROVE IsMode(0)
<1>1. con.gopMode \in 0 .. Len(GopModes) - 1
  BY DEF GfxInv, Driven
<1>2. TextModes[con.gopMode] \in ModeLists
  BY <1>1, ModesType DEF TextModes
<1>3. Basic # NoSize
  BY GfxAssumption DEF WindowSizes, NoSize
<1> QED
  BY <1>2, <1>3 DEF IsMode, ModeLists

(* GraphicsConsoleConOutReset.                                             *)
LEMMA ConsoleResetKeeps == ASSUME GfxInv, Reset PROVE GfxInv'
<1>1. con.gopMode # None
  BY DEF Reset
<1>2. PICK o \in {p \in ModeOutcomes(0) : p.ok} :
        Clears(Attributed(o.w, o.w.con.attr % 16)) /\ gop' = o.gop
  BY DEF Reset
<1>3. IsMode(0)
  BY <1>1, BasicIsMode
<1>4. o \in ModeOutcomes(0) /\ o.ok
  BY <1>2
<1>5. gop' \in 0 .. Len(GopModes) - 1
  BY <1>1, <1>2, <1>3, <1>4, ModeSet
<1>6. PICK c : Open(c) /\ c.buffer # "null" /\ Works(o.w, c) /\ Inside(o.w) /\ On(o.w)
               /\ o.w.con.attr \in Nat
  BY <1>1, <1>3, <1>4, ModeSet
<1> DEFINE a == o.w.con.attr % 16
           v == Attributed(o.w, a)
<1>7. a \in Nat
  BY <1>6
<1> HIDE DEF a
<1>8. PICK d : Open(d) /\ d.buffer = c.buffer /\ Works(v, d) /\ Inside(v) /\ (On(o.w) => On(v))
  BY <1>6, <1>7, AttributedFacts
<1>9. Clears(v)
  BY <1>2 DEF a
<1> HIDE DEF v
<1> QED
  BY <1>5, <1>6, <1>8, <1>9, ClearsKeeps

(* GraphicsConsoleConOutOutputString.                                      *)
LEMMA OutputStringKeeps == ASSUME GfxInv, NEW s \in Strings, OutputString(s) PROVE GfxInv'
<1> DEFINE v == FlushCursor(Written(FlushCursor(Screen), s))
<1>1. con.mode # None /\ Becomes(v) /\ gop' = gop /\ gop \in 0 .. Len(GopModes) - 1
  BY DEF OutputString, GfxInv, Driven
<1>2. /\ Open(con) /\ con.buffer # "null" /\ Works(Screen, con) /\ Inside(Screen)
      /\ ~spoiled => On(Screen)
  BY <1>1, ScreenWorks
<1>3. s \in Seq(ToSet(s))
  BY GfxAssumption
<1>4. Works(v, con) /\ Inside(v) /\ (On(Screen) /\ ~v.lost => On(v))
  BY <1>2, <1>3, WritesKeep
<1> HIDE DEF v
<1> QED
  BY <1>1, <1>2, <1>4, BecomesKeeps

(* GraphicsConsoleConOutClearScreen.                                       *)
LEMMA ClearScreenKeeps == ASSUME GfxInv, ClearScreen PROVE GfxInv'
<1> DEFINE v == Cleared(Screen)
<1>1. con.mode # None /\ Clears(v) /\ gop' = gop /\ gop \in 0 .. Len(GopModes) - 1
  BY DEF ClearScreen, GfxInv, Driven
<1>2. /\ Open(con) /\ con.buffer # "null" /\ Works(Screen, con) /\ Screen.con = con
  BY <1>1, ScreenWorks
<1>3. Works(v, con) /\ Inside(v) /\ On(v)
  BY <1>2, ClearedFacts DEF Works
<1> HIDE DEF v
<1> QED
  BY <1>1, <1>2, <1>3, ClearsKeeps

(* Also without a mode, where what is inverted lies outside of any window. *)
LEMMA SetAttributeKeeps == ASSUME GfxInv, NEW a \in Nat, SetAttribute(a) PROVE GfxInv'
<1> DEFINE v == Attributed(Screen, a)
<1>1. /\ Becomes(v) /\ gop' = gop /\ gop \in 0 .. Len(GopModes) - 1
      /\ con \in Consoles /\ con.gopMode \in {None} \cup (0 .. Len(GopModes) - 1) /\ spoiled \in BOOLEAN
  BY DEF SetAttribute, GfxInv, Driven
<1>2. CASE con.mode # None
  <2>1. /\ Open(con) /\ con.buffer # "null" /\ Works(Screen, con) /\ Inside(Screen)
        /\ ~spoiled => On(Screen)
    BY <1>2, ScreenWorks
  <2>2. PICK d : Open(d) /\ d.buffer = con.buffer /\ Works(v, d) /\ Inside(v) /\ (On(Screen) => On(v))
    BY <2>1, AttributedFacts
  <2> HIDE DEF v
  <2> QED
    BY <1>1, <1>2, <2>1, <2>2, BecomesKeeps
<1>3. CASE con.mode = None
  <2> DEFINE f == FlushCursor(Screen)
             u == [f EXCEPT !.con.attr = a]
             b == [con EXCEPT !.attr = a]
  <2>1. /\ Screen = [con |-> Screen.con, cells |-> Screen.cells, ink |-> Screen.ink,
                     wide |-> Screen.wide, lost |-> Screen.lost]
        /\ Screen.con = con /\ Screen.cells = cells /\ Screen.wide = FALSE /\ Screen.lost = FALSE
    BY DEF Screen
  <2>2. f = [con |-> con, cells |-> cells, ink |-> f.ink, wide |-> FALSE, lost |-> FALSE]
    BY <2>1, FlushShape
  <2> DEFINE i == f.ink
  <2>3. f = [con |-> con, cells |-> cells, ink |-> i, wide |-> FALSE, lost |-> FALSE]
    BY <2>2
  <2> HIDE DEF i, f
  <2>a. u = [f EXCEPT !.con = [f.con EXCEPT !.attr = a]] /\ f.con = con
    BY <2>3
  <2>b. u = [f EXCEPT !.con = b]
    BY <2>a
  <2>c. b \in Consoles /\ b.mode = con.mode /\ b.gopMode = con.gopMode
    BY <1>1 DEF Consoles
  <2> HIDE DEF u, b
  <2>4. u = [con |-> b, cells |-> cells, ink |-> i, wide |-> FALSE, lost |-> FALSE]
    BY <2>3, <2>b
  <2>6. /\ u = [con |-> u.con, cells |-> u.cells, ink |-> u.ink, wide |-> u.wide, lost |-> u.lost]
        /\ u.con = b /\ u.lost = FALSE
    BY <2>4
  <2>7. FlushCursor(u).con = b /\ FlushCursor(u).lost = FALSE
    BY <2>6, FlushShape
  <2>8. v = Screen \/ v = FlushCursor(u)
    BY DEF Attributed, u, f
  <2>9. /\ v.con \in Consoles /\ v.con.mode = None /\ v.con.gopMode = con.gopMode /\ v.lost = FALSE
    BY <1>1, <1>3, <2>1, <2>c, <2>7, <2>8
  <2> HIDE DEF v
  <2>10. con' = v.con /\ spoiled' = (spoiled \/ v.lost)
    BY <1>1 DEF Becomes
  <2>11. spoiled' \in BOOLEAN
    BY <1>1, <2>9, <2>10
  <2> QED
    BY <1>1, <2>9, <2>10, <2>11, NoModeKeeps
<1> QED
  BY <1>2, <1>3

(* GraphicsConsoleConOutSetCursorPosition.                                 *)
LEMMA SetCursorPositionKeeps == ASSUME GfxInv, NEW p, SetCursorPosition(p) PROVE GfxInv'
<1> DEFINE f == FlushCursor(Screen)
           m == At(f, p[1], p[2])
           v == FlushCursor(m)
<1>1. /\ con.mode # None /\ p \in DOMAIN cells /\ Becomes(v) /\ gop' = gop
      /\ gop \in 0 .. Len(GopModes) - 1
  BY DEF SetCursorPosition, GfxInv, Driven
<1>2. /\ Open(con) /\ con.buffer # "null" /\ Works(Screen, con) /\ Inside(Screen)
      /\ ~spoiled => On(Screen)
  BY <1>1, ScreenWorks
<1>3. p \in Window(con)
  BY <1>1, <1>2 DEF Works, Screen
<1>4. p[1] \in Int /\ p[2] \in Int /\ p[1] \in 0 .. SizeOf(con)[1] - 1 /\ p[2] \in 0 .. SizeOf(con)[2] - 1
  BY <1>2, <1>3, OpenSize DEF Window
<1>5. Works(f, con) /\ Same(f, Screen) /\ (On(Screen) => Off(f))
  BY <1>2, FlushFacts
<1> HIDE DEF f
<1>6. Works(m, con) /\ Column(m) = p[1] /\ Row(m) = p[2] /\ (Off(f) => Off(m))
  BY <1>2, <1>4, <1>5, AtFacts DEF Off
<1> HIDE DEF m
<1>7. Works(v, con) /\ Column(v) = p[1] /\ Row(v) = p[2] /\ (Off(m) => On(v))
  BY <1>2, <1>6, FlushFacts
<1> HIDE DEF v
<1>8. Inside(v)
  BY <1>2, <1>4, <1>7, WorkFields DEF Inside
<1> QED
  BY <1>1, <1>2, <1>5, <1>6, <1>7, <1>8, BecomesKeeps

(* GraphicsConsoleConOutEnableCursor.                                      *)
LEMMA EnableCursorKeeps == ASSUME GfxInv, NEW b \in BOOLEAN, EnableCursor(b) PROVE GfxInv'
<1> DEFINE f == FlushCursor(Screen)
           u == [f EXCEPT !.con.visible = b]
           v == FlushCursor(u)
           d == [con EXCEPT !.visible = b]
<1>1. /\ con.mode # None /\ Becomes(v) /\ gop' = gop /\ gop \in 0 .. Len(GopModes) - 1
      /\ con \in Consoles
  BY DEF EnableCursor, GfxInv, Driven
<1>2. /\ Open(con) /\ con.buffer # "null" /\ Works(Screen, con) /\ Inside(Screen)
      /\ ~spoiled => On(Screen)
  BY <1>1, ScreenWorks
<1>3. /\ Works(f, con) /\ Same(f, Screen) /\ Column(f) = Column(Screen) /\ Row(f) = Row(Screen)
      /\ (On(Screen) => Off(f))
  BY <1>2, FlushFacts
<1> HIDE DEF f
<1>4. d \in Consoles /\ d.mode = con.mode /\ d.gopMode = con.gopMode /\ d.buffer = con.buffer
  BY <1>1 DEF Consoles
<1>5. SizeOf(d) = SizeOf(con) /\ Open(d) /\ Window(d) = Window(con)
  BY <1>2, <1>4 DEF SizeOf, Open, Window
<1>6. /\ u = [con |-> [f.con EXCEPT !.visible = b], cells |-> f.cells, ink |-> f.ink,
              wide |-> f.wide, lost |-> f.lost]
      /\ f.con = [con EXCEPT !.pos = f.con.pos] /\ f.con.pos \in Int \X Int
  BY <1>3 DEF Works
<1>7. u.con = [d EXCEPT !.pos = f.con.pos] /\ u.con.pos = f.con.pos
  BY <1>1, <1>6 DEF Consoles
<1> HIDE DEF d
<1>8. Works(u, d) /\ Column(u) = Column(f) /\ Row(u) = Row(f) /\ (Off(f) => Off(u))
  BY <1>3, <1>5, <1>6, <1>7 DEF Works, Column, Row, Off
<1> HIDE DEF u
<1>9. Works(v, d) /\ Column(v) = Column(u) /\ Row(v) = Row(u) /\ (Off(u) => On(v))
  BY <1>5, <1>8, FlushFacts
<1> HIDE DEF v
<1>10. Columns(v) = Columns(Screen) /\ Rows(v) = Rows(Screen)
  BY <1>2, <1>5, <1>9, WorkFields
<1>11. Inside(v)
  BY <1>2, <1>3, <1>8, <1>9, <1>10 DEF Inside
<1> QED
  BY <1>1, <1>2, <1>3, <1>4, <1>5, <1>8, <1>9, <1>11, BecomesKeeps

(* Others that draw leave a screen that is spoiled.                        *)
LEMMA ForeignKeeps == ASSUME GfxInv, NEW m \in 0 .. Len(GopModes) - 1, Foreign(m) PROVE GfxInv'
<1>1. /\ gop' = m /\ cells' = T!BlankWindow(SizeOf(con)) /\ con' = con
      /\ spoiled' = (con.mode # None)
  BY DEF Foreign
<1>2. con \in Consoles /\ con.gopMode \in {None} \cup (0 .. Len(GopModes) - 1)
  BY DEF GfxInv, Driven
<1>3. CASE con.mode = None
  BY <1>1, <1>2, <1>3, NoModeKeeps
<1>4. CASE con.mode # None
  <2> DEFINE w == [con |-> con, cells |-> cells', ink |-> ink', wide |-> FALSE, lost |-> FALSE]
  <2>1. Open(con) /\ con.buffer # "null" /\ Inside(Screen) /\ Screen.con = con
    BY <1>4, ScreenWorks
  <2>2. DOMAIN cells' = Window(con) /\ Framed(cells')
    BY <1>1 DEF T!BlankWindow, Window, Framed
  <2>3. w.con = con
    OBVIOUS
  <2>4. Inside(w)
    BY <2>1, <2>3 DEF Inside, Columns, Rows, Column, Row
  <2>5. Driven(con, cells', ink', TRUE, m)
    BY <1>2, <2>1, <2>2, <2>4 DEF Driven
  <2> QED
    BY <1>1, <1>4, <2>5 DEF GfxInv
<1> QED
  BY <1>3, <1>4

(* Every step keeps the invariant.                                         *)
LEMMA GfxStep == GfxInv /\ [Next]_vars => GfxInv'
<1> SUFFICES ASSUME GfxInv, [Next]_vars PROVE GfxInv'
  OBVIOUS
<1>1. CASE RegisterFontPackage
  BY <1>1 DEF RegisterFontPackage, GfxInv
<1>2. CASE \E res \in ToSet(GopModes) : Start(res)
  BY <1>2, StartKeeps
<1>3. CASE Stop
  BY <1>3, StopKeeps
<1>4. CASE Reset
  BY <1>4, ConsoleResetKeeps
<1>5. CASE \E s \in Strings : OutputString(s)
  BY <1>5, OutputStringKeeps
<1>6. CASE ClearScreen
  BY <1>6, ClearScreenKeeps
<1>7. CASE \E m \in 0 .. Len(Defined) + 3 : SetMode(m)
  BY <1>7, SetModeKeeps, GfxAssumption
<1>8. CASE \E a \in Colours : SetAttribute(a)
  BY <1>8, SetAttributeKeeps, GfxAssumption
<1>9. CASE \E p \in Places : SetCursorPosition(p)
  BY <1>9, SetCursorPositionKeeps
<1>10. CASE \E v \in BOOLEAN : EnableCursor(v)
  BY <1>10, EnableCursorKeeps
<1>11. CASE \E m \in 0 .. Len(GopModes) - 1 : Foreign(m)
  BY <1>11, ForeignKeeps
<1>12. CASE UNCHANGED vars
  BY <1>12 DEF vars, GfxInv
<1> QED
  BY <1>1, <1>2, <1>3, <1>4, <1>5, <1>6, <1>7, <1>8, <1>9, <1>10, <1>11, <1>12 DEF Next

(* For any strings, sizes of the screen and modes: after every call on a   *)
(* screen that is not spoiled, the cursor is drawn exactly once, where it  *)
(* is and in its colour, or not at all if it is invisible, and nothing else*)
(* is inverted (FlushCursor, GraphicsConsoleConOutOutputString).           *)
THEOREM CursorIsDrawnOnce == Spec => []CursorDrawnOnce
<1>1. GfxInv => CursorDrawnOnce
  BY DEF GfxInv, Driven, CursorDrawnOnce, On, Image
<1> QED
  BY InitKept, GfxStep, <1>1, PTL DEF Spec
-----------------------------------------------------------------------------
(* A console is a terminal.  What it shows as one is the characters and the *)
(* place of the cursor, whatever is inverted.                              *)
Glass(c, x, y, ce, b) == [size |-> SizeOf(c), pos |-> <<x, y>>, cells |-> ce, wide |-> b]
Shows(w) == [size |-> SizeOf(w.con), pos |-> w.con.pos, cells |-> w.cells, wide |-> w.wide]

(* A string that is typed, character by character.                         *)
Types(upTo, a, text) ==
  /\ upTo[0] = a
  /\ \A n \in 1 .. Len(text) : upTo[n] = T!Put(upTo[n - 1], text[n])
  /\ T!Typed(a, text) = upTo[Len(text)]

(* Typing a string is a chain of Puts that starts with the window.         *)
LEMMA TypedUnfolds ==
  ASSUME NEW a, NEW text, Len(text) \in Nat
  PROVE  \E upTo : Types(upTo, a, text)
<1> DEFINE N == Len(text)
           Step(b, n) == T!Put(b, text[n])
           upTo == CHOOSE f : f = [n \in 0 .. N |-> IF n = 0 THEN a ELSE Step(f[n - 1], n)]
           P(m) == \E f : f = [n \in 0 .. m |-> IF n = 0 THEN a ELSE Step(f[n - 1], n)]
<1>1. T!Typed(a, text) = upTo[N] /\ N \in Nat
  BY DEF T!Typed
<1> HIDE DEF N
<1>s. \A b, n : Step(b, n) = T!Put(b, text[n])
  OBVIOUS
<1> HIDE DEF Step
<1>2. P(0)
  <2> DEFINE f == [n \in 0 .. 0 |-> a]
  <2>1. f = [n \in 0 .. 0 |-> IF n = 0 THEN a ELSE Step(f[n - 1], n)]
    OBVIOUS
  <2> QED
    BY <2>1
<1>3. ASSUME NEW m \in Nat, P(m) PROVE P(m + 1)
  <2>1. PICK f : f = [n \in 0 .. m |-> IF n = 0 THEN a ELSE Step(f[n - 1], n)]
    BY <1>3
  <2> DEFINE h == [n \in 0 .. m + 1 |-> IF n = m + 1 THEN Step(f[m], m + 1) ELSE f[n]]
  <2>2. /\ h[m + 1] = Step(f[m], m + 1) /\ DOMAIN h = 0 .. m + 1
        /\ \A n \in 0 .. m : h[n] = f[n]
    OBVIOUS
  <2>3. h = [n \in DOMAIN h |-> h[n]]
    OBVIOUS
  <2> HIDE DEF h
  <2>4. ASSUME NEW n \in 0 .. m + 1
        PROVE  h[n] = IF n = 0 THEN a ELSE Step(h[n - 1], n)
    <3>1. CASE n = 0
      BY <2>1, <2>2, <3>1
    <3>2. CASE n = m + 1
      <4>1. n # 0 /\ n - 1 = m /\ m \in 0 .. m
        BY <3>2
      <4> QED
        BY <2>2, <3>2, <4>1
    <3>3. CASE n # 0 /\ n # m + 1
      <4>1. n \in 0 .. m /\ n - 1 \in 0 .. m
        BY <3>3
      <4>2. f[n] = Step(f[n - 1], n)
        BY <2>1, <3>3, <4>1
      <4> QED
        BY <2>2, <3>3, <4>1, <4>2
    <3> QED
      BY <3>1, <3>2, <3>3
  <2>5. h = [n \in 0 .. m + 1 |-> IF n = 0 THEN a ELSE Step(h[n - 1], n)]
    BY <2>2, <2>3, <2>4
  <2> QED
    BY <2>5
<1> HIDE DEF P
<1> DEFINE S == {m \in Nat : P(m)}
<1>4. S \in SUBSET Nat /\ 0 \in S /\ \A m \in S : m + 1 \in S
  BY <1>2, <1>3
<1> HIDE DEF S
<1>5. N \in S
  BY <1>1, <1>4, Induction
<1>6. P(N)
  BY <1>5 DEF S
<1>7. upTo = [n \in 0 .. N |-> IF n = 0 THEN a ELSE Step(upTo[n - 1], n)]
  BY <1>6 DEF P
<1> HIDE DEF upTo
<1>8. upTo[0] = a /\ \A n \in 1 .. N : upTo[n] = Step(upTo[n - 1], n)
  BY <1>1, <1>7
<1>9. Types(upTo, a, text)
  BY <1>1, <1>8, <1>s DEF N, Types
<1> QED
  BY <1>9

(* The empty string changes nothing.                                       *)
LEMMA NothingTyped == ASSUME NEW a PROVE T!Typed(a, <<>>) = a
<1>1. Len(<<>>) = 0
  OBVIOUS
<1>2. PICK upTo : Types(upTo, a, <<>>)
  BY <1>1, TypedUnfolds
<1> QED
  BY <1>1, <1>2 DEF Types

(* What a call works on, as a terminal.                                    *)
LEMMA ShownAs ==
  ASSUME NEW c, Open(c), NEW w, Works(w, c)
  PROVE  Shows(w) = Glass(c, Column(w), Row(w), w.cells, w.wide) /\ SizeOf(w.con) = SizeOf(c)
<1>1. w.con.pos = <<Column(w), Row(w)>> /\ w.con.mode = c.mode /\ w.con.gopMode = c.gopMode
  BY WorkFields
<1>2. SizeOf(w.con) = SizeOf(c)
  BY <1>1 DEF SizeOf
<1> QED
  BY <1>1, <1>2 DEF Shows, Glass

(* The operations of a terminal.                                           *)
Scrolled(c, ce) ==
  [p \in DOMAIN ce |-> IF p[2] < SizeOf(c)[2] - 1 THEN ce[<<p[1], p[2] + 1>>] ELSE T!Blank]

(* Down on a window that is given by its parts: the cursor goes down, or   *)
(* the rows go up.                                                         *)
LEMMA GlassDown ==
  ASSUME NEW c, NEW x, NEW y, NEW ce, NEW b
  PROVE  T!Down(Glass(c, x, y, ce, b)) =
           IF y < SizeOf(c)[2] - 1 THEN Glass(c, x, y + 1, ce, b) ELSE Glass(c, x, y, Scrolled(c, ce), b)
<1> DEFINE a == Glass(c, x, y, ce, b)
<1>1. a.size = SizeOf(c) /\ a.pos = <<x, y>> /\ a.cells = ce /\ a.pos[2] = y
  BY DEF Glass
<1>2. [a EXCEPT !.pos[2] = @ + 1] = Glass(c, x, y + 1, ce, b)
  BY DEF Glass
<1>3. [a EXCEPT !.cells = Scrolled(c, ce)] = Glass(c, x, y, Scrolled(c, ce), b)
  BY DEF Glass
<1>4. T!Down(a) = IF a.pos[2] < a.size[2] - 1 THEN [a EXCEPT !.pos[2] = @ + 1]
                  ELSE [a EXCEPT !.cells = [p \in DOMAIN a.cells |-> IF p[2] < a.size[2] - 1
                          THEN a.cells[<<p[1], p[2] + 1>>] ELSE T!Blank]]
  BY Zenon DEF T!Down
<1>5. Scrolled(c, ce) = [p \in DOMAIN a.cells |-> IF p[2] < a.size[2] - 1
                          THEN a.cells[<<p[1], p[2] + 1>>] ELSE T!Blank]
  BY <1>1 DEF Scrolled
<1> HIDE DEF a
<1> QED
  BY <1>1, <1>2, <1>3, <1>4, <1>5 DEF a

(* Advance on such a window: to the right, or down at the end of the row.  *)
LEMMA GlassAdvance ==
  ASSUME NEW c, NEW x \in Int, NEW y, NEW ce, NEW b, NEW n
  PROVE  T!Advance(Glass(c, x, y, ce, b), n) =
           IF x + n < SizeOf(c)[1] THEN Glass(c, x + n, y, ce, b) ELSE T!Down(Glass(c, 0, y, ce, b))
<1> DEFINE a == Glass(c, x, y, ce, b)
<1>1. a.size = SizeOf(c) /\ a.pos[1] = x
  BY DEF Glass
<1>2. [a EXCEPT !.pos[1] = @ + n] = Glass(c, x + n, y, ce, b) /\ [a EXCEPT !.pos[1] = 0] = Glass(c, 0, y, ce, b)
  BY DEF Glass
<1>3. T!Advance(a, n) = IF a.pos[1] + n < a.size[1] THEN [a EXCEPT !.pos[1] = @ + n]
                        ELSE T!Down([a EXCEPT !.pos[1] = 0])
  BY Zenon DEF T!Advance
<1> HIDE DEF a
<1> QED
  BY <1>1, <1>2, <1>3 DEF a

(* A blank is put in a cell.                                               *)
Blanked(ce, x, y) == [ce EXCEPT ![<<x, y>>] = T!Blank]

(* The cursor goes back to a place, whose character is taken away.         *)
TakenAt(a, q) == [a EXCEPT !.pos = q, !.cells[q] = T!Blank]

(* TakenAt on a window that is given by its parts.                         *)
LEMMA GlassTaken ==
  ASSUME NEW c, NEW x, NEW y, NEW ce, NEW b, NEW u, NEW v
  PROVE  TakenAt(Glass(c, x, y, ce, b), <<u, v>>) = Glass(c, u, v, Blanked(ce, u, v), b)
<1> DEFINE ch == T!Blank
           z == SizeOf(c)
           p == <<x, y>>
           q == <<u, v>>
           a == Glass(c, x, y, ce, b)
           d == [a EXCEPT !.pos = q]
           e == [ce EXCEPT ![q] = ch]
<1>0. TakenAt(a, q) = [a EXCEPT !.pos = q, !.cells[q] = ch]
  BY DEF TakenAt
<1>a. a = [size |-> z, pos |-> p, cells |-> ce, wide |-> b]
  BY DEF Glass
<1>b. Glass(c, u, v, Blanked(ce, u, v), b) = [size |-> z, pos |-> q, cells |-> e, wide |-> b]
  BY DEF Glass, Blanked
<1> HIDE DEF ch, z, p, q, a
<1>1. d = [size |-> z, pos |-> q, cells |-> ce, wide |-> b]
  BY <1>a
<1>2. [a EXCEPT !.pos = q, !.cells[q] = ch] = [d EXCEPT !.cells[q] = ch]
  OBVIOUS
<1> HIDE DEF d
<1>3. d.cells = ce
  BY <1>1
<1>4. [d EXCEPT !.cells[q] = ch] = [d EXCEPT !.cells = [d.cells EXCEPT ![q] = ch]]
  OBVIOUS
<1>5. [d EXCEPT !.cells[q] = ch] = [d EXCEPT !.cells = e]
  BY <1>3, <1>4
<1> HIDE DEF e
<1>6. [d EXCEPT !.cells = e] = [size |-> z, pos |-> q, cells |-> e, wide |-> b]
  BY <1>1
<1> QED
  BY <1>0, <1>b, <1>2, <1>5, <1>6 DEF a, q

(* Back on such a window: to the left, to the end of the row above, or     *)
(* nowhere.                                                                *)
LEMMA GlassBack ==
  ASSUME NEW c, NEW x \in Int, NEW y \in Int, NEW ce, NEW b
  PROVE  T!Back(Glass(c, x, y, ce, b)) =
           IF x > 0 THEN Glass(c, x - 1, y, Blanked(ce, x - 1, y), b)
           ELSE IF y > 0 THEN Glass(c, SizeOf(c)[1] - 1, y - 1, Blanked(ce, SizeOf(c)[1] - 1, y - 1), b)
           ELSE Glass(c, x, y, ce, b)
<1> DEFINE a == Glass(c, x, y, ce, b)
           to == IF a.pos[1] > 0 THEN <<a.pos[1] - 1, a.pos[2]>>
                 ELSE IF a.pos[2] > 0 THEN <<a.size[1] - 1, a.pos[2] - 1>> ELSE a.pos
<1>1. a.size = SizeOf(c) /\ a.pos = <<x, y>> /\ a.pos[1] = x /\ a.pos[2] = y
  BY DEF Glass
<1>2. T!Back(a) = IF to = a.pos THEN a ELSE TakenAt(a, to)
  BY Zenon DEF T!Back, TakenAt
<1>3. ASSUME NEW u, NEW v PROVE TakenAt(a, <<u, v>>) = Glass(c, u, v, Blanked(ce, u, v), b)
  BY GlassTaken
<1>4. to = IF x > 0 THEN <<x - 1, y>> ELSE IF y > 0 THEN <<SizeOf(c)[1] - 1, y - 1>> ELSE <<x, y>>
  BY <1>1
<1> HIDE DEF to
<1>5. CASE x > 0
  <2>1. to = <<x - 1, y>> /\ to # a.pos
    BY <1>1, <1>4, <1>5
  <2>2. T!Back(a) = TakenAt(a, <<x - 1, y>>)
    BY <1>2, <2>1
  <2> QED
    BY <1>3, <1>5, <2>2
<1>6. CASE ~(x > 0) /\ y > 0
  <2> DEFINE u == SizeOf(c)[1] - 1
  <2>1. to = <<u, y - 1>> /\ to # a.pos
    BY <1>1, <1>4, <1>6
  <2> HIDE DEF u
  <2>2. T!Back(a) = TakenAt(a, <<u, y - 1>>)
    BY <1>2, <2>1
  <2>3. T!Back(a) = Glass(c, u, y - 1, Blanked(ce, u, y - 1), b)
    BY <1>3, <2>2
  <2> QED
    BY <1>6, <2>3 DEF u
<1>7. CASE ~(x > 0) /\ ~(y > 0)
  BY <1>1, <1>2, <1>4, <1>7
<1> QED
  BY <1>5, <1>6, <1>7

(* What is drawn on the screen, call by call.                              *)
LEMMA FlushShows ==
  ASSUME NEW c, Open(c), NEW w, Works(w, c)
  PROVE  Shows(FlushCursor(w)) = Shows(w)
<1> DEFINE v == FlushCursor(w)
<1>1. Works(v, c) /\ v.wide = w.wide /\ Column(v) = Column(w) /\ Row(v) = Row(w) /\ v.cells = w.cells
  BY FlushFacts DEF Same
<1> HIDE DEF v
<1>2. Shows(v) = Glass(c, Column(v), Row(v), v.cells, v.wide)
  BY <1>1, ShownAs
<1>3. Shows(w) = Glass(c, Column(w), Row(w), w.cells, w.wide)
  BY ShownAs
<1> QED
  BY <1>1, <1>2, <1>3 DEF v

(* Moving the cursor shows the same characters.                            *)
LEMMA AtShows ==
  ASSUME NEW c, Open(c), NEW w, Works(w, c), NEW x \in Int, NEW y \in Int
  PROVE  Works(At(w, x, y), c) /\ Shows(At(w, x, y)) = Glass(c, x, y, w.cells, w.wide)
<1> DEFINE v == At(w, x, y)
<1>1. Works(v, c) /\ v.wide = w.wide /\ Column(v) = x /\ Row(v) = y /\ v.cells = w.cells
  BY AtFacts DEF Same
<1> HIDE DEF v
<1>2. Shows(v) = Glass(c, Column(v), Row(v), v.cells, v.wide)
  BY <1>1, ShownAs
<1>3. Works(v, c) /\ Shows(v) = Glass(c, x, y, w.cells, w.wide)
  BY <1>1, <1>2
<1> QED
  BY <1>3 DEF v

(* The branch of CHAR_LINEFEED is the Down of the terminal.                *)
LEMMA LineFeedShows ==
  ASSUME NEW c, Open(c), NEW w, Works(w, c), Row(w) \in 0 .. Rows(w) - 1
  PROVE  Shows(LineFeed(w)) = T!Down(Shows(w))
<1> DEFINE v == LineFeed(w)
<1>1. /\ Rows(w) = SizeOf(c)[2] /\ Column(w) \in Int /\ Row(w) \in Int /\ SizeOf(c)[2] \in Int
  BY WorkFields, OpenSize
<1>2. Shows(w) = Glass(c, Column(w), Row(w), w.cells, w.wide)
  BY ShownAs
<1>3. T!Down(Shows(w)) = IF Row(w) < SizeOf(c)[2] - 1 THEN Glass(c, Column(w), Row(w) + 1, w.cells, w.wide)
                         ELSE Glass(c, Column(w), Row(w), Scrolled(c, w.cells), w.wide)
  BY <1>2, GlassDown
<1>4. CASE Row(w) # Rows(w) - 1
  <2>1. v = At(w, Column(w), Row(w) + 1)
    BY <1>4 DEF LineFeed
  <2>2. Row(w) + 1 \in Int /\ Row(w) < SizeOf(c)[2] - 1
    BY <1>1, <1>4
  <2> QED
    BY <1>1, <1>3, <2>1, <2>2, AtShows
<1>5. CASE Row(w) = Rows(w) - 1
  <2> DEFINE a == [p \in DOMAIN w.cells |-> IF p[2] < Rows(w) - 1 THEN w.cells[<<p[1], p[2] + 1>>] ELSE T!Blank]
             b == {<<<<i[1][1], i[1][2] - 1>>, i[2]>> :
                     i \in {j \in w.ink : j[1] \in DOMAIN w.cells /\ j[1][2] > 0}}
                  \cup {i \in w.ink : i[1] \notin DOMAIN w.cells}
  <2>1. v = [w EXCEPT !.cells = a, !.ink = b]
    BY <1>5 DEF LineFeed
  <2>2. a = Scrolled(c, w.cells)
    BY <1>1 DEF Scrolled
  <2> HIDE DEF a, b
  <2>3. v = [con |-> w.con, cells |-> a, ink |-> b, wide |-> w.wide, lost |-> w.lost]
    BY <2>1 DEF Works
  <2>4. v.con = w.con /\ v.cells = a /\ v.wide = w.wide
    BY <2>3
  <2> HIDE DEF v
  <2>5. Shows(v) = Glass(c, Column(w), Row(w), a, w.wide)
    BY <1>2, <2>4 DEF Shows, Glass
  <2>6. ~(Row(w) < SizeOf(c)[2] - 1)
    BY <1>1, <1>5
  <2> QED
    BY <1>3, <2>2, <2>5, <2>6 DEF v
<1> QED
  BY <1>4, <1>5

(* mCrLfString is a Down from column 0.                                    *)
LEMMA CrLfShows ==
  ASSUME NEW c, Open(c), NEW w, Works(w, c), Row(w) \in 0 .. Rows(w) - 1
  PROVE  Shows(OutputCrLf(w)) = T!Down(Glass(c, 0, Row(w), w.cells, w.wide))
<1> DEFINE f == FlushCursor(w)
           r == Return(f)
           l == LineFeed(r)
           v == FlushCursor(l)
<1>1. OutputCrLf(w) = v
  BY DEF OutputCrLf
<1>2. Works(f, c) /\ f.wide = w.wide /\ Row(f) = Row(w) /\ f.cells = w.cells
  BY FlushFacts DEF Same
<1> HIDE DEF f
<1>3. Row(f) \in Int /\ r = At(f, 0, Row(f))
  BY <1>2, WorkFields DEF Return
<1> HIDE DEF r
<1>4. Works(r, c) /\ Shows(r) = Glass(c, 0, Row(w), w.cells, w.wide)
  BY <1>2, <1>3, AtShows
<1>5. Row(r) = Row(w) /\ Rows(r) = Rows(w)
  BY <1>2, <1>3, <1>4, AtFacts, WorkFields
<1>6. Shows(l) = T!Down(Shows(r))
  BY <1>4, <1>5, LineFeedShows
<1>7. Works(l, c)
  BY <1>4, LineFeedFacts
<1> HIDE DEF l
<1>8. Shows(v) = Shows(l)
  BY <1>7, FlushShows
<1> QED
  BY <1>1, <1>4, <1>6, <1>8

(* The end of OutputString's loop is the Advance of the terminal.          *)
LEMMA WrapShows ==
  ASSUME NEW c, Open(c), NEW w, Works(w, c), Row(w) \in 0 .. Rows(w) - 1,
         NEW x \in Int, NEW n \in Int, Column(w) = x + n
  PROVE  Shows(Wrap(w)) = T!Advance(Glass(c, x, Row(w), w.cells, w.wide), n)
<1> DEFINE f == FlushCursor(w)
           o == OutputCrLf(f)
           v == FlushCursor(o)
           g == Glass(c, x, Row(w), w.cells, w.wide)
<1>1. Columns(w) = SizeOf(c)[1] /\ SizeOf(c)[1] \in Int /\ Column(w) \in Int
  BY WorkFields, OpenSize
<1>2. T!Advance(g, n) = IF x + n < SizeOf(c)[1] THEN Glass(c, x + n, Row(w), w.cells, w.wide)
                        ELSE T!Down(Glass(c, 0, Row(w), w.cells, w.wide))
  BY GlassAdvance
<1>3. CASE Column(w) < Columns(w)
  <2>1. Wrap(w) = w
    BY <1>1, <1>3 DEF Wrap
  <2>2. Shows(w) = Glass(c, x + n, Row(w), w.cells, w.wide)
    BY ShownAs
  <2> QED
    BY <1>1, <1>2, <1>3, <2>1, <2>2
<1>4. CASE Column(w) >= Columns(w)
  <2>1. Wrap(w) = v
    BY <1>4 DEF Wrap
  <2>2. Works(f, c) /\ f.wide = w.wide /\ Row(f) = Row(w) /\ f.cells = w.cells
    BY FlushFacts DEF Same
  <2> HIDE DEF f
  <2>3. Rows(f) = Rows(w)
    BY <2>2, WorkFields
  <2>4. Shows(o) = T!Down(Glass(c, 0, Row(w), w.cells, w.wide))
    BY <2>2, <2>3, CrLfShows
  <2>5. Works(o, c)
    BY <2>2, OutputCrLfFacts
  <2> HIDE DEF o
  <2>6. Shows(v) = Shows(o)
    BY <2>5, FlushShows
  <2> QED
    BY <1>1, <1>2, <1>4, <2>1, <2>4, <2>6
<1> QED
  BY <1>1, <1>3, <1>4

(* A character that fits.                                                  *)
Span(b) == IF b THEN 2 ELSE 1
(* The cells once a character of width Span(b) is put at <<x, y>>.         *)
Struck(ce, x, y, b, ch) ==
  IF ch = "unknown" THEN ce
  ELSE [p \in DOMAIN ce |-> IF p = <<x, y>> THEN ch
                            ELSE IF b /\ p = <<x + 1, y>> THEN "<" ELSE ce[p]]

(* What Put does with a character that is not a control.                   *)
LEMMA PutChars ==
  ASSUME NEW a, NEW ch, ch \notin Controls
  PROVE  T!Put(a, ch) = T!Advance(IF ch = "unknown" THEN T!Fitted(a) ELSE T!Show(T!Fitted(a), ch, "<"),
                                  Span(a.wide))
BY DEF T!Put, Controls, Span

(* Struck is what Show leaves, or nothing for a character without a glyph. *)
LEMMA GlassStruck ==
  ASSUME NEW c, NEW x, NEW y, NEW ce, NEW b, NEW ch
  PROVE  Glass(c, x, y, Struck(ce, x, y, b, ch), b) =
           IF ch = "unknown" THEN Glass(c, x, y, ce, b) ELSE T!Show(Glass(c, x, y, ce, b), ch, "<")
<1> DEFINE a == Glass(c, x, y, ce, b)
           e == [p \in DOMAIN ce |-> IF p = <<x, y>> THEN ch
                                     ELSE IF b /\ p = <<x + 1, y>> THEN "<" ELSE ce[p]]
           f == [p \in DOMAIN a.cells |-> IF p = a.pos THEN ch
                   ELSE IF a.wide /\ p = <<a.pos[1] + 1, a.pos[2]>> THEN "<" ELSE a.cells[p]]
<1>1. a.pos = <<x, y>> /\ a.pos[1] = x /\ a.pos[2] = y /\ a.cells = ce /\ a.wide = b
  BY DEF Glass
<1>2. T!Show(a, ch, "<") = [a EXCEPT !.cells = f]
  BY Zenon DEF T!Show
<1>3. f = e
  BY <1>1
<1>4. a = [size |-> SizeOf(c), pos |-> <<x, y>>, cells |-> ce, wide |-> b]
  BY DEF Glass
<1>5. Struck(ce, x, y, b, ch) = IF ch = "unknown" THEN ce ELSE e
  BY DEF Struck
<1> HIDE DEF a, e, f
<1>6. [a EXCEPT !.cells = e] = [size |-> SizeOf(c), pos |-> <<x, y>>, cells |-> e, wide |-> b]
  BY <1>4
<1>7. T!Show(a, ch, "<") = Glass(c, x, y, e, b)
  BY <1>2, <1>3, <1>6 DEF Glass
<1> QED
  BY <1>5, <1>7 DEF a

(* A character that fits into the row is struck, and the cursor advances.  *)
LEMMA PutShows ==
  ASSUME NEW c, Open(c), NEW x \in Int, NEW y, NEW ce, NEW b \in BOOLEAN, NEW ch, ch \notin Controls,
         x + Span(b) <= SizeOf(c)[1]
  PROVE  T!Put(Glass(c, x, y, ce, b), ch)
           = T!Advance(Glass(c, x, y, Struck(ce, x, y, b, ch), b), Span(b))
<1> DEFINE a == Glass(c, x, y, ce, b)
<1>1. a.wide = b /\ a.pos[1] = x /\ a.size[1] = SizeOf(c)[1]
  BY DEF Glass
<1> HIDE DEF a
<1>2. ~(a.wide /\ a.pos[1] = a.size[1] - 1)
  BY <1>1, OpenSize DEF Span
<1>3. T!Fitted(a) = a
  BY <1>2 DEF T!Fitted
<1>4. T!Put(a, ch) = T!Advance(IF ch = "unknown" THEN a ELSE T!Show(a, ch, "<"), Span(b))
  BY <1>1, <1>3, PutChars
<1>5. Glass(c, x, y, Struck(ce, x, y, b, ch), b) = IF ch = "unknown" THEN a ELSE T!Show(a, ch, "<")
  BY GlassStruck DEF a
<1> QED
  BY <1>4, <1>5 DEF a

(* A wide character that does not fit: a blank, and then the next row.     *)
InLastColumn(c, x) == x = SizeOf(c)[1] - 1

(* A wide character in the last column leaves a blank and goes down.       *)
LEMMA GlassFitted ==
  ASSUME NEW c, Open(c), NEW x, NEW y, NEW ce, InLastColumn(c, x), NEW b \in BOOLEAN, Span(b) = 2
  PROVE  T!Fitted(Glass(c, x, y, ce, b)) = T!Down(Glass(c, 0, y, Blanked(ce, x, y), b))
<1> DEFINE a == Glass(c, x, y, ce, b)
           e == Blanked(ce, x, y)
<1>0. SizeOf(c)[1] \in Int /\ x \in Int /\ x = SizeOf(c)[1] - 1
  BY OpenSize DEF InLastColumn
<1>1. a.wide = b /\ a.pos = <<x, y>> /\ a.pos[1] = x /\ a.size[1] = SizeOf(c)[1] /\ a.cells = ce
  BY DEF Glass
<1>2. a = [size |-> SizeOf(c), pos |-> <<x, y>>, cells |-> ce, wide |-> b]
  BY DEF Glass
<1> HIDE DEF a
<1>3. T!Fitted(a) = T!Advance([a EXCEPT !.cells[a.pos] = T!Blank], 1)
  BY <1>0, <1>1 DEF T!Fitted, Span
<1>4. [a EXCEPT !.cells[a.pos] = T!Blank] = [a EXCEPT !.cells = [a.cells EXCEPT ![a.pos] = T!Blank]]
  OBVIOUS
<1>5. [a EXCEPT !.cells[a.pos] = T!Blank] = [a EXCEPT !.cells = e]
  BY <1>1, <1>4 DEF Blanked
<1> HIDE DEF e
<1>6. [a EXCEPT !.cells = e] = [size |-> SizeOf(c), pos |-> <<x, y>>, cells |-> e, wide |-> b]
  BY <1>2
<1>a. [a EXCEPT !.cells = e] = Glass(c, x, y, e, b)
  BY <1>6 DEF Glass
<1>7. T!Fitted(a) = T!Advance(Glass(c, x, y, e, b), 1)
  BY <1>3, <1>5, <1>a
<1>8. ~(x + 1 < SizeOf(c)[1])
  BY <1>0
<1>9. T!Advance(Glass(c, x, y, e, b), 1)
        = IF x + 1 < SizeOf(c)[1] THEN Glass(c, x + 1, y, e, b) ELSE T!Down(Glass(c, 0, y, e, b))
  BY <1>0, GlassAdvance
<1> QED
  BY <1>7, <1>8, <1>9 DEF a, e

(* Fitting a character into the row is done once.                          *)
LEMMA PutFitted ==
  ASSUME NEW c, Open(c), NEW x, NEW y, NEW ce, InLastColumn(c, x), NEW b \in BOOLEAN, Span(b) = 2, NEW ch, ch \notin Controls
  PROVE  T!Put(T!Fitted(Glass(c, x, y, ce, b)), ch) = T!Put(Glass(c, x, y, ce, b), ch)
<1> DEFINE a == Glass(c, x, y, ce, b)
           e == Blanked(ce, x, y)
           f == T!Fitted(a)
<1>1. f = T!Down(Glass(c, 0, y, e, b))
  BY GlassFitted
<1> HIDE DEF e
<1>2. f = IF y < SizeOf(c)[2] - 1 THEN Glass(c, 0, y + 1, e, b)
          ELSE Glass(c, 0, y, Scrolled(c, e), b)
  BY <1>1, GlassDown
<1>3. a.wide = b
  BY DEF Glass
<1> HIDE DEF a, f
<1>4. f.wide = b /\ f.pos[1] = 0 /\ f.size[1] = SizeOf(c)[1]
  BY <1>2 DEF Glass
<1>5. T!Fitted(f) = f
  BY <1>4, OpenSize DEF T!Fitted
<1>6. T!Put(f, ch) = T!Advance(IF ch = "unknown" THEN f ELSE T!Show(f, ch, "<"), Span(b))
  BY <1>4, <1>5, PutChars
<1>7. T!Put(a, ch) = T!Advance(IF ch = "unknown" THEN f ELSE T!Show(f, ch, "<"), Span(b))
  BY <1>3, PutChars DEF f
<1> QED
  BY <1>6, <1>7 DEF f, a

(* What the first k characters of s draw, place by place.                  *)
Drawn(w, s, k) == DrawAtCursor(w, SubSeq(s, 1, k)).cells

(* Two columns of a wide character belong to one character.                *)
LEMMA HalfOfColumns ==
  ASSUME NEW d \in Int, NEW k \in Nat, d \in 0 .. 2 * k - 1
  PROVE  d \div 2 + 1 \in 1 .. k
<1>1. d >= 0 /\ d =< 2 * k - 1
  OBVIOUS
<1>2. d \div 2 \in Int /\ 2 * (d \div 2) =< d /\ d =< 2 * (d \div 2) + 1
  OBVIOUS
<1> DEFINE h == d \div 2
<1>3. h \in Int /\ 2 * h =< d /\ d =< 2 * h + 1
  BY <1>2
<1> HIDE DEF h
<1>4. h + 1 \in 1 .. k
  BY <1>1, <1>3
<1> QED
  BY <1>4 DEF h

(* What a place shows once k characters of the string are drawn.           *)
LEMMA DrawnAt ==
  ASSUME NEW c, Open(c), NEW w, Works(w, c), NEW A, NEW s \in Seq(A), NEW k \in 0 .. Len(s)
  PROVE  LET Of(p) == p[1] - Column(w)
             u == Span(w.wide)
         IN Drawn(w, s, k) = [p \in DOMAIN w.cells |->
              IF p[2] = Row(w) /\ Of(p) \in 0 .. u * k - 1 /\ s[Of(p) \div u + 1] # "unknown"
              THEN IF Of(p) % u = 0 THEN s[Of(p) \div u + 1] ELSE "<"
              ELSE w.cells[p]]
<1> DEFINE chars == SubSeq(s, 1, k)
           u == IF w.wide THEN 2 ELSE 1
           first == Column(w)
           drawn == {p \in DOMAIN w.cells :
                       /\ p[2] = Row(w)
                       /\ p[1] \in first .. first + u * Len(chars) - 1
                       /\ chars[(p[1] - first) \div u + 1] # "unknown"}
           Glyph(p) == IF (p[1] - first) % u = 0 THEN chars[(p[1] - first) \div u + 1] ELSE "<"
           a == [p \in DOMAIN w.cells |-> IF p \in drawn THEN Glyph(p) ELSE w.cells[p]]
           b == {i \in w.ink : i[1] \notin drawn}
           l == w.lost \/ (w.wide /\ "unknown" \in ToSet(chars))
           v == DrawAtCursor(w, chars)
<1>1. v = [w EXCEPT !.cells = a, !.ink = b, !.lost = l]
  BY DEF DrawAtCursor
<1>2. Len(chars) = k /\ \A i \in 1 .. k : chars[i] = s[i]
  BY SubSeqProperties
<1>3. first \in Int /\ Len(s) \in Nat /\ k \in Nat
  BY WorkFields
<1>4. ASSUME NEW p \in DOMAIN w.cells
      PROVE  a[p] = IF p[2] = Row(w) /\ p[1] - first \in 0 .. u * k - 1
                       /\ s[(p[1] - first) \div u + 1] # "unknown"
                    THEN IF (p[1] - first) % u = 0 THEN s[(p[1] - first) \div u + 1] ELSE "<"
                    ELSE w.cells[p]
  <2> DEFINE d == p[1] - first
             i == d \div u + 1
  <2>1. p[1] \in Int /\ d \in Int
    BY <1>3, OpenSize DEF Works, Window
  <2>2. p[1] \in first .. first + u * k - 1 <=> d \in 0 .. u * k - 1
    BY <1>3, <2>1
  <2>3. d \in 0 .. u * k - 1 => i \in 1 .. k
    <3>1. CASE w.wide
      <4>1. u = 2
        BY <3>1
      <4> QED
        BY <1>3, <2>1, <4>1, HalfOfColumns
    <3>2. CASE ~w.wide
      BY <1>3, <2>1, <3>2
    <3> QED
      BY <3>1, <3>2
  <2> HIDE DEF i, d, u
  <2>4. d \in 0 .. u * k - 1 => chars[i] = s[i]
    BY <1>2, <2>3
  <2> HIDE DEF chars
  <2>5. p \in drawn <=> p[2] = Row(w) /\ d \in 0 .. u * k - 1 /\ s[i] # "unknown"
    BY <1>2, <2>2, <2>4 DEF i, d
  <2> HIDE DEF drawn
  <2>6. a[p] = IF p \in drawn THEN IF d % u = 0 THEN chars[i] ELSE "<" ELSE w.cells[p]
    BY DEF i, d
  <2> QED
    BY <2>4, <2>5, <2>6 DEF i, d
<1>5. DOMAIN a = DOMAIN w.cells /\ a = [p \in DOMAIN a |-> a[p]]
  OBVIOUS
<1> HIDE DEF a, b, l, chars
<1>6. v.cells = a
  BY <1>1 DEF Works
<1> QED
  BY <1>4, <1>5, <1>6 DEF Drawn, Span, chars

(* No character drawn leaves the cells as they are.                        *)
LEMMA DrawnNone ==
  ASSUME NEW c, Open(c), NEW w, Works(w, c), NEW A, NEW s \in Seq(A)
  PROVE  Drawn(w, s, 0) = w.cells
<1> DEFINE u == Span(w.wide)
           Of(p) == p[1] - Column(w)
           e == [p \in DOMAIN w.cells |->
                   IF p[2] = Row(w) /\ Of(p) \in 0 .. u * 0 - 1 /\ s[Of(p) \div u + 1] # "unknown"
                   THEN IF Of(p) % u = 0 THEN s[Of(p) \div u + 1] ELSE "<"
                   ELSE w.cells[p]]
<1>1. 0 \in 0 .. Len(s)
  OBVIOUS
<1>2. Drawn(w, s, 0) = e
  BY <1>1, DrawnAt
<1>3. u \in Int /\ 0 .. u * 0 - 1 = {}
  BY DEF Span
<1>4. w.cells = [p \in DOMAIN w.cells |-> w.cells[p]]
  BY DEF Works, Framed
<1> HIDE DEF u
<1>5. e = [p \in DOMAIN w.cells |-> w.cells[p]]
  BY <1>3
<1> QED
  BY <1>2, <1>4, <1>5

(* One more character drawn strikes one more cell, or two.                 *)
LEMMA DrawnNext ==
  ASSUME NEW c, Open(c), NEW w, Works(w, c), NEW A, NEW s \in Seq(A), NEW k \in Nat, k + 1 <= Len(s)
  PROVE  Drawn(w, s, k + 1)
           = Struck(Drawn(w, s, k), Column(w) + Span(w.wide) * k, Row(w), w.wide, s[k + 1])
<1> DEFINE u == Span(w.wide)
           x == Column(w)
           y == Row(w)
           D == DOMAIN w.cells
           e == Drawn(w, s, k)
           h == Drawn(w, s, k + 1)
           ch == s[k + 1]
           z == x + u * k
           t == Struck(e, z, y, w.wide, ch)
<1>1. k \in 0 .. Len(s) /\ k + 1 \in 0 .. Len(s) /\ x \in Int /\ y \in Int
  BY WorkFields
<1>2. e = [p \in D |->
             IF p[2] = y /\ p[1] - x \in 0 .. u * k - 1 /\ s[(p[1] - x) \div u + 1] # "unknown"
             THEN IF (p[1] - x) % u = 0 THEN s[(p[1] - x) \div u + 1] ELSE "<"
             ELSE w.cells[p]]
  BY <1>1, DrawnAt
<1>3. h = [p \in D |->
             IF p[2] = y /\ p[1] - x \in 0 .. u * (k + 1) - 1 /\ s[(p[1] - x) \div u + 1] # "unknown"
             THEN IF (p[1] - x) % u = 0 THEN s[(p[1] - x) \div u + 1] ELSE "<"
             ELSE w.cells[p]]
  <2> DEFINE m == k + 1
  <2>1. m \in 0 .. Len(s)
    BY <1>1
  <2> HIDE DEF m
  <2>2. Drawn(w, s, m) = [p \in D |->
             IF p[2] = y /\ p[1] - x \in 0 .. u * m - 1 /\ s[(p[1] - x) \div u + 1] # "unknown"
             THEN IF (p[1] - x) % u = 0 THEN s[(p[1] - x) \div u + 1] ELSE "<"
             ELSE w.cells[p]]
    BY <2>1, DrawnAt
  <2> QED
    BY <2>2 DEF m
<1>4. u = IF w.wide THEN 2 ELSE 1
  BY DEF Span
<1>5. D = Window(c)
  BY DEF Works
<1> HIDE DEF x, y, u, e, h, D
<1>6. DOMAIN e = D /\ DOMAIN h = D
  BY <1>2, <1>3
<1>7. /\ t = IF ch = "unknown" THEN e
             ELSE [p \in D |-> IF p = <<z, y>> THEN ch
                               ELSE IF w.wide /\ p = <<z + 1, y>> THEN "<" ELSE e[p]]
  BY <1>6 DEF Struck
<1> HIDE DEF t
<1>8. ASSUME NEW p \in D PROVE h[p] = t[p]
  <2> DEFINE d == p[1] - x
             i == d \div u + 1
  <2>1. p[1] \in Int /\ p[2] \in Int /\ p = <<p[1], p[2]>> /\ d \in Int
    BY <1>1, <1>5, OpenSize DEF Window
  <2>2. e[p] = IF p[2] = y /\ d \in 0 .. u * k - 1 /\ s[i] # "unknown"
               THEN IF d % u = 0 THEN s[i] ELSE "<" ELSE w.cells[p]
    BY <1>2
  <2>3. h[p] = IF p[2] = y /\ d \in 0 .. u * (k + 1) - 1 /\ s[i] # "unknown"
               THEN IF d % u = 0 THEN s[i] ELSE "<" ELSE w.cells[p]
    BY <1>3
  <2>4. (p = <<z, y>> <=> d = u * k /\ p[2] = y) /\ (p = <<z + 1, y>> <=> d = u * k + 1 /\ p[2] = y)
    <3>1. u \in Int /\ u * k \in Int
      BY <1>4
    <3> DEFINE m == u * k
    <3>a. m \in Int
      BY <3>1
    <3> HIDE DEF m
    <3>b. (p[1] = x + m <=> p[1] - x = m) /\ (p[1] = x + m + 1 <=> p[1] - x = m + 1)
      BY <1>1, <2>1, <3>a
    <3>2. (p[1] = z <=> d = u * k) /\ (p[1] = z + 1 <=> d = u * k + 1)
      BY <3>b DEF m
    <3> HIDE DEF z, d
    <3> QED
      BY <2>1, <3>2
  <2>5. t[p] = IF ch = "unknown" THEN e[p]
               ELSE IF d = u * k /\ p[2] = y THEN ch
               ELSE IF w.wide /\ d = u * k + 1 /\ p[2] = y THEN "<" ELSE e[p]
    BY <1>7, <2>4
  <2>6. CASE p[2] # y
    BY <2>2, <2>3, <2>5, <2>6
  <2>7. CASE p[2] = y /\ w.wide
    <3>1. u = 2
      BY <1>4, <2>7
    <3> HIDE DEF d
    <3>a. i = d \div 2 + 1
      BY <3>1
    <3> HIDE DEF i
    <3>2. ASSUME d = 2 * k \/ d = 2 * k + 1
          PROVE  i = k + 1 /\ d \in 0 .. 2 * (k + 1) - 1 /\ d \notin 0 .. 2 * k - 1
      BY <2>1, <3>a, <3>2
    <3>b. /\ d = 2 * k => d % 2 = 0
          /\ d = 2 * k + 1 => d % 2 # 0
          /\ d # 2 * k /\ d # 2 * k + 1 => (d \in 0 .. 2 * (k + 1) - 1 <=> d \in 0 .. 2 * k - 1)
          /\ 2 * k # 2 * k + 1
      BY <2>1
    <3>3. s[k + 1] = ch
      OBVIOUS
    <3> HIDE DEF i, ch
    <3>4. CASE d = 2 * k
      BY <2>2, <2>3, <2>5, <2>7, <3>1, <3>2, <3>b, <3>3, <3>4
    <3>5. CASE d = 2 * k + 1
      BY <2>2, <2>3, <2>5, <2>7, <3>1, <3>2, <3>b, <3>3, <3>5
    <3>6. CASE d # 2 * k /\ d # 2 * k + 1
      BY <2>2, <2>3, <2>5, <2>7, <3>1, <3>2, <3>b, <3>6
    <3> QED
      BY <3>4, <3>5, <3>6
  <2>8. CASE p[2] = y /\ ~w.wide
    <3>1. u = 1
      BY <1>4, <2>8
    <3> HIDE DEF d
    <3>2. /\ d = k => i = k + 1 /\ d \in 0 .. 1 * (k + 1) - 1 /\ d \notin 0 .. 1 * k - 1
          /\ d % 1 = 0 /\ 1 * k = k
          /\ d # k => (d \in 0 .. 1 * (k + 1) - 1 <=> d \in 0 .. 1 * k - 1)
      BY <2>1, <3>1
    <3>3. s[k + 1] = ch
      OBVIOUS
    <3> HIDE DEF i, ch
    <3>4. CASE d = k
      BY <2>2, <2>3, <2>5, <2>8, <3>1, <3>2, <3>3, <3>4
    <3>5. CASE d # k
      BY <2>2, <2>3, <2>5, <2>8, <3>1, <3>2, <3>5
    <3> QED
      BY <3>4, <3>5
  <2> QED
    BY <2>6, <2>7, <2>8
<1>9. DOMAIN t = D
  BY <1>6, <1>7
<1>10. h = [p \in D |-> h[p]] /\ t = [p \in D |-> t[p]]
  <2>1. h = [p \in D |-> h[p]]
    BY <1>3
  <2>2. t = [p \in D |-> t[p]]
    BY <1>2, <1>6, <1>7
  <2> QED
    BY <2>1, <2>2
<1>11. h = t
  BY <1>8, <1>10
<1> QED
  BY <1>11 DEF h, t, e, u, x, y

(* A window that is given by its parts gives them back.                    *)
LEMMA GlassSame ==
  ASSUME NEW c, NEW x, NEW y, NEW ce, NEW b, NEW v, NEW z, NEW de, NEW d,
         Glass(c, x, y, ce, b) = Glass(c, v, z, de, d)
  PROVE  x = v /\ y = z /\ ce = de /\ b = d
BY DEF Glass

(* The width of the characters does not concern where the cursor goes.     *)
LEMMA AdvanceEither ==
  ASSUME NEW c, NEW x \in Int, NEW y, NEW ce, NEW b, NEW d, NEW n, NEW v, NEW z, NEW de,
         T!Advance(Glass(c, x, y, ce, d), n) = Glass(c, v, z, de, d)
  PROVE  T!Advance(Glass(c, x, y, ce, b), n) = Glass(c, v, z, de, b)
<1>1. ASSUME NEW g
      PROVE  T!Advance(Glass(c, x, y, ce, g), n) =
               IF x + n < SizeOf(c)[1] THEN Glass(c, x + n, y, ce, g)
               ELSE IF y < SizeOf(c)[2] - 1 THEN Glass(c, 0, y + 1, ce, g)
               ELSE Glass(c, 0, y, Scrolled(c, ce), g)
  <2>1. T!Advance(Glass(c, x, y, ce, g), n) =
          IF x + n < SizeOf(c)[1] THEN Glass(c, x + n, y, ce, g) ELSE T!Down(Glass(c, 0, y, ce, g))
    BY GlassAdvance
  <2>2. T!Down(Glass(c, 0, y, ce, g)) =
          IF y < SizeOf(c)[2] - 1 THEN Glass(c, 0, y + 1, ce, g) ELSE Glass(c, 0, y, Scrolled(c, ce), g)
    BY GlassDown
  <2> QED
    BY <2>1, <2>2
<1>2. CASE x + n < SizeOf(c)[1]
  <2>1. Glass(c, x + n, y, ce, d) = Glass(c, v, z, de, d)
    BY <1>1, <1>2
  <2>2. v = x + n /\ z = y /\ de = ce
    BY <2>1, GlassSame
  <2> QED
    BY <1>1, <1>2, <2>2
<1>3. CASE ~(x + n < SizeOf(c)[1]) /\ y < SizeOf(c)[2] - 1
  <2>1. Glass(c, 0, y + 1, ce, d) = Glass(c, v, z, de, d)
    BY <1>1, <1>3
  <2>2. v = 0 /\ z = y + 1 /\ de = ce
    BY <2>1, GlassSame
  <2> QED
    BY <1>1, <1>3, <2>2
<1>4. CASE ~(x + n < SizeOf(c)[1]) /\ ~(y < SizeOf(c)[2] - 1)
  <2>1. Glass(c, 0, y, Scrolled(c, ce), d) = Glass(c, v, z, de, d)
    BY <1>1, <1>4
  <2>2. v = 0 /\ z = y /\ de = Scrolled(c, ce)
    BY <2>1, GlassSame
  <2> QED
    BY <1>1, <1>4, <2>2
<1> QED
  BY <1>2, <1>3, <1>4

(* OutputString of SpaceStr puts a blank and moves the cursor on.          *)
LEMMA SpaceShows ==
  ASSUME NEW c, Open(c), NEW w, Works(w, c), Inside(w)
  PROVE  Shows(OutputSpace(w))
           = T!Advance(Glass(c, Column(w), Row(w), Blanked(w.cells, Column(w), Row(w)), w.wide), 1)
<1> DEFINE x == Column(w)
           y == Row(w)
           ce == w.cells
           e == Blanked(ce, x, y)
           f == FlushCursor(w)
           n == Widened(f, FALSE)
           d == DrawAtCursor(n, <<T!Blank>>)
           m == At(d, x + 1, y)
           r == Wrap(m)
           u == Widened(r, w.wide)
           v == FlushCursor(u)
<1>0. /\ OutputSpace(w) = v
      /\ Columns(w) = SizeOf(c)[1] /\ Rows(w) = SizeOf(c)[2] /\ SizeOf(c)[1] \in Nat
      /\ x \in 0 .. SizeOf(c)[1] - 1 /\ y \in 0 .. SizeOf(c)[2] - 1 /\ SizeOf(c)[2] \in Nat
      /\ w.wide \in BOOLEAN /\ DOMAIN ce = Window(c)
  BY WorkFields, OpenSize DEF OutputSpace, Works, Inside
<1>a. <<x, y>> \in DOMAIN ce /\ x \in Int /\ y \in Int
  BY <1>0 DEF Window
<1> HIDE DEF x, y, ce, e
<1>1. Works(f, c) /\ Column(f) = x /\ Row(f) = y /\ f.cells = ce
  BY FlushFacts DEF x, y, ce
<1> HIDE DEF f
<1>2. Works(n, c) /\ ~n.wide /\ Column(n) = x /\ Row(n) = y /\ n.cells = ce
  BY <1>1, WidenFacts
<1> HIDE DEF n
<1> DEFINE text == <<T!Blank>>
<1>b. T!Blank # "unknown"
  BY DEF T!Blank
<1>3. text \in Seq({T!Blank}) /\ Len(text) = 1 /\ text[1] = T!Blank 
  OBVIOUS
<1>d. SubSeq(text, 1, 1) = text
  <2> DEFINE u1 == SubSeq(text, 1, 1)
  <2>1. u1 \in Seq({T!Blank}) /\ Len(u1) = 1 /\ u1[1] = text[1]
    BY <1>3, SubSeqProperties
  <2> HIDE DEF u1, text
  <2>2. u1 = text
    BY <1>3, <2>1, SeqEqual
  <2> QED
    BY <2>2 DEF u1
<1>c. d = DrawAtCursor(n, text)
  OBVIOUS
<1> HIDE DEF text, d
<1>4. Works(d, c) /\ d.wide = n.wide
  BY <1>2, <1>3, <1>c, DrawFacts
<1>5. d.cells = e
  <2> DEFINE k == 0
  <2>1. k \in Nat /\ k + 1 <= Len(text) /\ k + 1 = 1
    BY <1>3
  <2> HIDE DEF k
  <2>2. Drawn(n, text, k + 1) = Struck(Drawn(n, text, k), Column(n) + Span(n.wide) * k, Row(n), n.wide, text[k + 1])
    BY <1>2, <1>3, <2>1, DrawnNext
  <2>3. Drawn(n, text, 0) = ce
    BY <1>2, <1>3, DrawnNone
  <2>4. Column(n) + Span(n.wide) * k = x
    <3>1. Span(n.wide) \in Int
      BY DEF Span
    <3>2. Span(n.wide) * 0 = 0 /\ x + 0 = x
      BY <1>a, <3>1
    <3> QED
      BY <1>2, <3>2 DEF k
  <2>5. Drawn(n, text, 1) = Struck(ce, x, y, n.wide, T!Blank)
    BY <1>2, <1>3, <2>1, <2>2, <2>3, <2>4 DEF k
  <2>6. Struck(ce, x, y, n.wide, T!Blank) = [p \in DOMAIN ce |-> IF p = <<x, y>> THEN T!Blank ELSE ce[p]]
    BY <1>2, <1>b DEF Struck
  <2>7. e = [p \in DOMAIN ce |-> IF p = <<x, y>> THEN T!Blank ELSE ce[p]]
    BY DEF e, Blanked
  <2> QED
    BY <1>c, <1>d, <2>5, <2>6, <2>7 DEF Drawn
<1>6. Works(m, c) /\ Column(m) = x + 1 /\ Row(m) = y /\ m.cells = e /\ m.wide = n.wide
  BY <1>a, <1>4, <1>5, AtFacts DEF Same
<1> HIDE DEF m
<1>7. Works(r, c)
  BY <1>6, WrapFacts
<1>8. Shows(r) = T!Advance(Glass(c, x, y, e, n.wide), 1)
  <2>1. Row(m) \in 0 .. Rows(m) - 1
    BY <1>0, <1>6, WorkFields
  <2>2. Shows(r) = T!Advance(Glass(c, x, Row(m), m.cells, m.wide), 1)
    BY <1>a, <1>6, <2>1, WrapShows
  <2> QED
    BY <1>6, <2>2
<1> HIDE DEF r
<1>9. Works(u, c) /\ Column(u) = Column(r) /\ Row(u) = Row(r) /\ u.cells = r.cells /\ u.wide = w.wide
  BY <1>0, <1>7, WidenFacts
<1> HIDE DEF u
<1>10. Shows(v) = Glass(c, Column(r), Row(r), r.cells, w.wide)
  <2>1. Shows(v) = Shows(u)
    BY <1>9, FlushShows
  <2>2. Shows(u) = Glass(c, Column(u), Row(u), u.cells, u.wide)
    BY <1>9, ShownAs
  <2> QED
    BY <1>9, <2>1, <2>2
<1>11. T!Advance(Glass(c, x, y, e, n.wide), 1) = Glass(c, Column(r), Row(r), r.cells, n.wide)
  <2>1. Shows(r) = Glass(c, Column(r), Row(r), r.cells, r.wide)
    BY <1>7, ShownAs
  <2>2. r.wide = m.wide
    BY <1>6, WrapFacts DEF Same, r
  <2> QED
    BY <1>6, <1>8, <2>1, <2>2
<1> DEFINE g == w.wide
           h == n.wide
<1>12. T!Advance(Glass(c, x, y, e, h), 1) = Glass(c, Column(r), Row(r), r.cells, h)
  BY <1>11
<1> HIDE DEF g, h
<1>13. T!Advance(Glass(c, x, y, e, g), 1) = Glass(c, Column(r), Row(r), r.cells, g)
  BY <1>a, <1>12, AdvanceEither
<1> HIDE DEF v
<1> QED
  BY <1>0, <1>10, <1>13 DEF g, e, x, y, ce

(* CHAR_BACKSPACE takes a character back.                                  *)
LEMMA BackspaceShows ==
  ASSUME NEW c, Open(c), NEW w, Works(w, c), Inside(w)
  PROVE  Shows(Backspace(w)) = T!Back(Shows(w))
<1> DEFINE x == Column(w)
           y == Row(w)
           ce == w.cells
           b == w.wide
<1>0. /\ Columns(w) = SizeOf(c)[1] /\ Rows(w) = SizeOf(c)[2] /\ SizeOf(c)[1] \in Nat
      /\ SizeOf(c)[1] >= 2 /\ SizeOf(c)[2] \in Nat
      /\ x \in 0 .. SizeOf(c)[1] - 1 /\ y \in 0 .. SizeOf(c)[2] - 1 /\ x \in Int /\ y \in Int
  BY WorkFields, OpenSize DEF Inside
<1>1. Shows(w) = Glass(c, x, y, ce, b)
  BY ShownAs
<1>2. ASSUME NEW v \in 0 .. SizeOf(c)[1] - 1, NEW z \in 0 .. SizeOf(c)[2] - 1
      PROVE  LET f == FlushCursor(OutputSpace(At(w, v, z)))
             IN Works(f, c) /\ Shows(f) = T!Advance(Glass(c, v, z, Blanked(ce, v, z), b), 1)
  <2> DEFINE a == At(w, v, z)
             o == OutputSpace(a)
             f == FlushCursor(o)
  <2>0. v \in Int /\ z \in Int
    OBVIOUS
  <2>1. Works(a, c) /\ Column(a) = v /\ Row(a) = z /\ a.cells = ce /\ a.wide = b
    BY <2>0, AtFacts DEF Same
  <2> HIDE DEF a
  <2>2. Inside(a)
    BY <2>1, WorkFields DEF Inside
  <2>3. Works(o, c)
    BY <2>1, OutputSpaceFacts
  <2>4. Shows(o) = T!Advance(Glass(c, Column(a), Row(a), Blanked(a.cells, Column(a), Row(a)), a.wide), 1)
    BY <2>1, <2>2, SpaceShows
  <2> HIDE DEF o
  <2>5. Shows(f) = Shows(o) /\ Works(f, c)
    BY <2>3, FlushShows, FlushFacts
  <2>6. Shows(f) = T!Advance(Glass(c, v, z, Blanked(ce, v, z), b), 1)
    BY <2>1, <2>4, <2>5
  <2> QED
    BY <2>5, <2>6 DEF a, o
<1>3. CASE x > 0
  <2> DEFINE f == FlushCursor(OutputSpace(At(w, x - 1, y)))
             e == Blanked(ce, x - 1, y)
             t == At(f, Column(f) - 1, Row(f))
  <2>1. Backspace(w) = t
    BY <1>3 DEF Backspace
  <2>2. x - 1 \in 0 .. SizeOf(c)[1] - 1 /\ x - 1 \in Int /\ (x - 1) + 1 = x /\ x < SizeOf(c)[1]
    BY <1>0, <1>3
  <2>3. Works(f, c) /\ Shows(f) = T!Advance(Glass(c, x - 1, y, e, b), 1)
    BY <1>0, <1>2, <2>2
  <2>4. T!Back(Shows(w)) = Glass(c, x - 1, y, e, b)
    BY <1>0, <1>1, <1>3, GlassBack
  <2> HIDE DEF f, e, x, y, b
  <2>5. T!Advance(Glass(c, x - 1, y, e, b), 1) = Glass(c, x, y, e, b)
    <3>1. T!Advance(Glass(c, x - 1, y, e, b), 1)
            = IF (x - 1) + 1 < SizeOf(c)[1] THEN Glass(c, (x - 1) + 1, y, e, b) ELSE T!Down(Glass(c, 0, y, e, b))
      BY <2>2, GlassAdvance
    <3> QED
      BY <2>2, <3>1
  <2>6. Shows(f) = Glass(c, Column(f), Row(f), f.cells, f.wide)
    BY <2>3, ShownAs
  <2>7. Column(f) = x /\ Row(f) = y /\ f.cells = e /\ f.wide = b
    <3>1. Glass(c, Column(f), Row(f), f.cells, f.wide) = Glass(c, x, y, e, b)
      BY <2>3, <2>5, <2>6
    <3> QED
      BY <3>1, GlassSame
  <2>8. Column(f) - 1 \in Int /\ Row(f) \in Int
    BY <1>0, <2>2, <2>7
  <2>9. Shows(t) = Glass(c, Column(f) - 1, Row(f), f.cells, f.wide)
    BY <2>3, <2>8, AtShows
  <2> QED
    BY <2>1, <2>4, <2>7, <2>9
<1>4. CASE ~(x > 0) /\ y > 0
  <2> DEFINE v == SizeOf(c)[1] - 1
             z == y - 1
             f == FlushCursor(OutputSpace(At(w, v, z)))
             e == Blanked(ce, v, z)
             t == At(f, v, z)
  <2>1. Backspace(w) = t
    BY <1>0, <1>4 DEF Backspace
  <2>2. v \in 0 .. SizeOf(c)[1] - 1 /\ v \in Int /\ ~(v + 1 < SizeOf(c)[1])
        /\ z \in 0 .. SizeOf(c)[2] - 1 /\ z \in Int
    BY <1>0, <1>4
  <2>a. Works(f, c) /\ Shows(f) = T!Advance(Glass(c, v, z, e, b), 1)
    BY <1>2, <2>2
  <2>4. T!Back(Shows(w)) = Glass(c, v, z, e, b)
    BY <1>0, <1>1, <1>4, GlassBack
  <2>b. z < SizeOf(c)[2] - 1
    BY <1>0
  <2> HIDE DEF f, e, b, v, z
  <2>5. T!Advance(Glass(c, v, z, e, b), 1) = Glass(c, 0, z + 1, e, b)
    <3>1. T!Advance(Glass(c, v, z, e, b), 1)
            = IF v + 1 < SizeOf(c)[1] THEN Glass(c, v + 1, z, e, b) ELSE T!Down(Glass(c, 0, z, e, b))
      BY <2>2, GlassAdvance
    <3>2. T!Down(Glass(c, 0, z, e, b))
            = IF z < SizeOf(c)[2] - 1 THEN Glass(c, 0, z + 1, e, b) ELSE Glass(c, 0, z, Scrolled(c, e), b)
      BY GlassDown
    <3> QED
      BY <2>2, <2>b, <3>1, <3>2
  <2>6. Shows(f) = Glass(c, Column(f), Row(f), f.cells, f.wide)
    BY <2>a, ShownAs
  <2>7. f.cells = e /\ f.wide = b
    <3>1. Glass(c, Column(f), Row(f), f.cells, f.wide) = Glass(c, 0, z + 1, e, b)
      BY <2>a, <2>5, <2>6
    <3> QED
      BY <3>1, GlassSame
  <2>9. Shows(t) = Glass(c, v, z, f.cells, f.wide)
    BY <2>a, <2>2, AtShows
  <2> QED
    BY <2>1, <2>4, <2>7, <2>9
<1>5. CASE ~(x > 0) /\ ~(y > 0)
  <2>1. Backspace(w) = w
    BY <1>5 DEF Backspace
  <2>2. T!Back(Glass(c, x, y, ce, b)) = Glass(c, x, y, ce, b)
    BY <1>0, <1>5, GlassBack
  <2> QED
    BY <1>1, <2>1, <2>2
<1> QED
  BY <1>3, <1>4, <1>5

(* The branch of CHAR_CARRIAGE_RETURN is that of the terminal.             *)
LEMMA ReturnShows ==
  ASSUME NEW c, Open(c), NEW w, Works(w, c)
  PROVE  Shows(Return(w)) = T!Put(Shows(w), "return")
<1> DEFINE a == Shows(w)
<1>1. Row(w) \in Int /\ a = Glass(c, Column(w), Row(w), w.cells, w.wide)
  BY WorkFields, ShownAs
<1>2. Shows(Return(w)) = Glass(c, 0, Row(w), w.cells, w.wide)
  BY <1>1, AtShows DEF Return
<1>3. T!Put(a, "return") = [a EXCEPT !.pos[1] = 0]
  BY DEF T!Put
<1> HIDE DEF a
<1>4. [a EXCEPT !.pos[1] = 0] = Glass(c, 0, Row(w), w.cells, w.wide)
  BY <1>1 DEF Glass
<1> QED
  BY <1>2, <1>3, <1>4 DEF a

(* The attribute for wide characters is a control character of the         *)
(* terminal.                                                               *)
LEMMA WidenShows ==
  ASSUME NEW c, Open(c), NEW w, Works(w, c), NEW d \in BOOLEAN
  PROVE  Shows(Widened(w, d)) = T!Put(Shows(w), IF d THEN "widen" ELSE "narrow")
<1> DEFINE a == Shows(w)
           v == Widened(w, d)
<1>1. a = Glass(c, Column(w), Row(w), w.cells, w.wide)
  BY ShownAs
<1>2. Works(v, c) /\ Column(v) = Column(w) /\ Row(v) = Row(w) /\ v.wide = d /\ v.cells = w.cells
  BY WidenFacts
<1> HIDE DEF v
<1>3. Shows(v) = Glass(c, Column(v), Row(v), v.cells, v.wide)
  BY <1>2, ShownAs
<1>4. T!Put(a, IF d THEN "widen" ELSE "narrow") = [a EXCEPT !.wide = d]
  <2>1. CASE d = TRUE
    BY <2>1 DEF T!Put
  <2>2. CASE d = FALSE
    BY <2>2 DEF T!Put
  <2> QED
    BY <2>1, <2>2
<1> HIDE DEF a
<1>5. [a EXCEPT !.wide = d] = Glass(c, Column(w), Row(w), w.cells, d)
  BY <1>1 DEF Glass
<1> QED
  BY <1>2, <1>3, <1>4, <1>5 DEF a, v

(* No control character is in a run.                                       *)
LEMMA RunChars ==
  ASSUME NEW c, Open(c), NEW w, Works(w, c), Inside(w), NEW A, NEW s \in Seq(A), s # <<>>,
         s[1] \notin Controls
  PROVE  \A i \in 1 .. RunLength(w, s) : s[i] \notin Controls
<1> DEFINE fitting == (Columns(w) - Column(w)) \div (IF w.wide THEN 2 ELSE 1)
           most == IF fitting < Len(s) THEN fitting ELSE Len(s)
           S == {n \in 0 .. most : n = most \/ s[n + 1] \in Controls}
           n == RunLength(w, s)
<1>0. n = Min(S)
  BY DEF RunLength
<1>1. fitting \in Nat /\ Len(s) \in Nat
  <2>1. Columns(w) \in Nat /\ Column(w) \in 0 .. Columns(w) - 1
    BY WorkFields, OpenSize DEF Inside
  <2>2. Columns(w) - Column(w) \in Nat
    BY <2>1
  <2> DEFINE z == Columns(w) - Column(w)
  <2> HIDE DEF z
  <2>3. z \in Nat => z \div 2 \in Nat /\ z \div 1 \in Nat
    OBVIOUS
  <2> QED
    BY <2>2, <2>3 DEF z
<1> HIDE DEF fitting
<1>2. most \in Nat
  BY <1>1
<1>3. most \in S /\ S \in SUBSET Nat
  BY <1>2
<1> HIDE DEF n
<1>4. n \in S /\ \A m \in S : n <= m
  BY <1>0, <1>3, MinIsLeast
<1>5. n \in 0 .. most
  BY <1>4
<1>6. ASSUME NEW i \in 1 .. n PROVE s[i] \notin Controls
  <2>1. i - 1 \in 0 .. most /\ ~(n <= i - 1) /\ (i - 1) + 1 = i
    BY <1>2, <1>5
  <2>2. i - 1 \notin S
    BY <1>4, <2>1
  <2> DEFINE m == i - 1
  <2>3. m \in 0 .. most /\ m \notin S /\ m + 1 = i
    BY <2>1, <2>2
  <2> HIDE DEF m
  <2> QED
    BY <2>3
<1> QED
  BY <1>6 DEF n

(* The states V that a terminal goes through as it is given a run.         *)
Following(V, w, s, n) ==
  /\ T!Put(Shows(w), s[1]) = T!Put(V[0], s[1])
  /\ \A k \in 1 .. n : V[k] = T!Put(V[k - 1], s[k])

(* The characters of a run are put one by one, as far as they are          *)
(* followed.                                                               *)
LEMMA RunTyped ==
  ASSUME NEW c, Open(c), NEW w, Works(w, c), Inside(w), NEW A, NEW s \in Seq(A), s # <<>>,
         s[1] \notin Controls, NEW V, Following(V, w, s, RunLength(w, s)),
         NEW k \in 1 .. RunLength(w, s)
  PROVE  V[k] = T!Advance(Glass(c, Column(w) + Span(w.wide) * (k - 1), Row(w), Drawn(w, s, k), w.wide),
                          Span(w.wide))
<1> DEFINE n == RunLength(w, s)
           u == Span(w.wide)
           x == Column(w)
           y == Row(w)
           b == w.wide
           Gone(m) == T!Advance(Glass(c, x + u * m, y, Drawn(w, s, m + 1), b), u)
           S == {m \in Nat : m + 1 <= n => V[m + 1] = Gone(m)}
<1>1. /\ n \in 0 .. Len(s) /\ x + u * n <= Columns(w) /\ Columns(w) = SizeOf(c)[1]
      /\ Len(s) \in Nat /\ SizeOf(c)[1] \in Nat
      /\ x \in Int /\ y \in Int /\ b \in BOOLEAN /\ u \in {1, 2}
      /\ \A i \in 1 .. n : s[i] \notin Controls
  BY RunFacts, RunChars, WorkFields, OpenSize DEF Span, Works
<1>2. /\ T!Put(Shows(w), s[1]) = T!Put(V[0], s[1])
      /\ \A m \in 1 .. n : V[m] = T!Put(V[m - 1], s[m])
  BY DEF Following
<1>3. Shows(w) = Glass(c, x, y, w.cells, b)
  BY ShownAs
<1>4. k \in 1 .. n
  OBVIOUS
<1>5. ASSUME NEW m \in Nat, m + 1 <= n
      PROVE  /\ Drawn(w, s, m + 1) = Struck(Drawn(w, s, m), x + u * m, y, b, s[m + 1])
             /\ x + u * m \in Int /\ x + u * m + u <= SizeOf(c)[1]
             /\ s[m + 1] \notin Controls
  <2>1. m + 1 <= Len(s) /\ m + 1 \in 1 .. n
    BY <1>1, <1>5
  <2>2. x + u * m \in Int /\ x + u * m + u <= SizeOf(c)[1]
    <3> HIDE DEF n, u, x
    <3>1. CASE u = 1
      BY <1>1, <1>5, <3>1
    <3>2. CASE u = 2
      BY <1>1, <1>5, <3>2
    <3> QED
      BY <1>1, <3>1, <3>2
  <2> QED
    BY <1>1, <2>1, <2>2, DrawnNext
<1>6. ASSUME NEW z \in Int, NEW ce, NEW ch, ch \notin Controls, z + u <= SizeOf(c)[1]
      PROVE  T!Put(Glass(c, z, y, ce, b), ch) = T!Advance(Glass(c, z, y, Struck(ce, z, y, b, ch), b), u)
  BY <1>1, <1>6, PutShows
<1>d. Drawn(w, s, 0) = w.cells
  BY DrawnNone
<1> HIDE DEF n, u, x, y, b
<1>7. 0 \in S
  <2>1. ASSUME 0 + 1 <= n PROVE V[0 + 1] = Gone(0)
    <3>1. 0 \in Nat /\ 0 + 1 = 1 /\ 1 \in 1 .. n /\ 1 - 1 = 0 /\ x + u * 0 = x /\ x + u * 0 + u = x + u
      BY <1>1, <2>1
    <3>2. V[1] = T!Put(Glass(c, x, y, w.cells, b), s[1])
      BY <1>2, <1>3, <3>1
    <3>3. /\ Drawn(w, s, 1) = Struck(w.cells, x, y, b, s[1])
          /\ x + u <= SizeOf(c)[1] /\ s[1] \notin Controls
      BY <1>5, <1>d, <2>1, <3>1
    <3>4. V[1] = T!Advance(Glass(c, x, y, Drawn(w, s, 1), b), u)
      BY <1>1, <1>6, <3>2, <3>3
    <3> QED
      BY <3>1, <3>4
  <2> QED
    BY <2>1
<1>8. ASSUME NEW m \in S PROVE m + 1 \in S
  <2>1. ASSUME (m + 1) + 1 <= n PROVE V[(m + 1) + 1] = Gone(m + 1)
    <3> DEFINE l == m + 1
               z == x + u * m
               t == x + u * l
               e == Drawn(w, s, l)
               h == Drawn(w, s, l + 1)
    <3>1. m \in Nat /\ m + 1 <= n /\ l \in Nat /\ l + 1 <= n /\ l + 1 \in 1 .. n /\ (l + 1) - 1 = l
      BY <1>1, <2>1
    <3>2. z + u = t /\ z \in Int
      BY <1>1, <3>1
    <3>3. V[l] = T!Advance(Glass(c, z, y, e, b), u)
      BY <3>1
    <3>4. h = Struck(e, t, y, b, s[l + 1]) /\ t \in Int /\ t + u <= SizeOf(c)[1] /\ s[l + 1] \notin Controls
      BY <1>5, <3>1
    <3>5. V[l + 1] = T!Put(V[l], s[l + 1])
      BY <1>2, <3>1
    <3>a. h = Drawn(w, s, l + 1)
      OBVIOUS
    <3> HIDE DEF l, z, t, e, h
    <3>6. T!Advance(Glass(c, z, y, e, b), u) = Glass(c, t, y, e, b)
      <4>1. T!Advance(Glass(c, z, y, e, b), u) = IF z + u < SizeOf(c)[1] THEN Glass(c, z + u, y, e, b)
                                                 ELSE T!Down(Glass(c, 0, y, e, b))
        BY <3>2, GlassAdvance
      <4>2. t < SizeOf(c)[1]
        BY <1>1, <3>4
      <4> QED
        BY <3>2, <4>1, <4>2
    <3>7. V[l + 1] = T!Advance(Glass(c, t, y, h, b), u)
      BY <1>6, <3>3, <3>4, <3>5, <3>6
    <3> QED
      BY <3>7, <3>a DEF l, t, h
  <2> QED
    BY <2>1
<1>9. S \in SUBSET Nat
  OBVIOUS
<1> HIDE DEF S
<1>10. S = Nat
  BY <1>7, <1>8, <1>9, Induction
<1> DEFINE j == k - 1
<1>11. j \in Nat /\ j + 1 = k /\ j + 1 <= n
  BY <1>1, <1>4
<1> HIDE DEF j
<1>12. V[j + 1] = Gone(j)
  BY <1>10, <1>11 DEF S
<1>13. V[k] = T!Advance(Glass(c, x + u * j, y, Drawn(w, s, k), b), u)
  BY <1>11, <1>12
<1> QED
  BY <1>13 DEF j, x, y, u, b

(* After a run the screen shows what its characters do one by one, or is   *)
(* where the next of them, which did not fit, finds the terminal as well.  *)
LEMMA OutputRunShows ==
  ASSUME NEW c, Open(c), NEW w, Works(w, c), Inside(w), NEW A, NEW s \in Seq(A), s # <<>>,
         s[1] \notin Controls, NEW V, Following(V, w, s, RunLength(w, s))
  PROVE  LET v == OutputRun(w, s)
             n == RunLength(w, s)
         IN \/ n # 0 /\ Shows(v) = V[n]
            \/ /\ n < Len(s) /\ s[n + 1] \notin Controls /\ Column(v) = 0
               /\ T!Put(Shows(v), s[n + 1]) = T!Put(V[n], s[n + 1])
<1> DEFINE n == RunLength(w, s)
           u == Span(w.wide)
           x == Column(w)
           y == Row(w)
           b == w.wide
           chars == SubSeq(s, 1, n)
           d == DrawAtCursor(w, chars)
           end == x + (IF w.wide THEN 2 * n ELSE n)
           e == At(d, end, y)
           o == OutputSpace(e)
           ce == Drawn(w, s, n)
           v == OutputRun(w, s)
<1>0. v = IF HalfFits(w, s, n) THEN Wrap(o) ELSE Wrap(e)
  BY DEF OutputRun
<1>1. /\ Columns(w) = SizeOf(c)[1] /\ Rows(w) = SizeOf(c)[2]
      /\ SizeOf(c)[1] \in Nat /\ SizeOf(c)[1] >= 2 /\ SizeOf(c)[2] \in Nat
      /\ x \in 0 .. SizeOf(c)[1] - 1 /\ y \in 0 .. SizeOf(c)[2] - 1 /\ x \in Int /\ y \in Int
      /\ b \in BOOLEAN /\ Len(s) \in Nat
  BY WorkFields, OpenSize DEF Inside, Works
<1>2. n \in 0 .. Len(s) /\ n \in Nat /\ (n = 0 => HalfFits(w, s, n) /\ x = Columns(w) - 1)
  BY RunFacts
<1>3. chars \in Seq(A) /\ d.cells = ce
  BY <1>2, SubSeqProperties DEF Drawn
<1>4. u \in {1, 2} /\ u * n \in Int /\ end = x + u * n /\ end \in Int /\ (w.wide => u = 2)
  BY <1>1, <1>2 DEF Span
<1>5. HalfFits(w, s, n) => w.wide /\ n < Len(s) /\ s[n + 1] \notin Controls /\ x + 2 * n = SizeOf(c)[1] - 1
  BY <1>1 DEF HalfFits
<1>6. ASSUME n # 0 PROVE V[n] = T!Advance(Glass(c, x + u * (n - 1), y, ce, b), u)
  <2>1. n \in 1 .. n
    BY <1>2, <1>6
  <2> QED
    BY <2>1, RunTyped
<1>7. Works(d, c) /\ d.wide = b
  BY <1>3, DrawFacts
<1> HIDE DEF chars, d, ce, x, y, b, u
<1>8. Works(e, c) /\ Column(e) = end /\ Row(e) = y /\ e.cells = ce /\ e.wide = b
  BY <1>1, <1>3, <1>4, <1>7, AtFacts DEF Same
<1> HIDE DEF e, end
<1>9. Columns(e) = SizeOf(c)[1] /\ Rows(e) = SizeOf(c)[2]
  BY <1>8, WorkFields
<1>10. x + u * (n - 1) \in Int /\ end = (x + u * (n - 1)) + u
  BY <1>1, <1>2, <1>4
<1>11. CASE ~HalfFits(w, s, n)
  <2>1. v = Wrap(e) /\ n # 0
    BY <1>0, <1>2, <1>11
  <2> DEFINE z == x + u * (n - 1)
  <2>2. Row(e) \in 0 .. Rows(e) - 1 /\ z \in Int /\ u \in Int /\ Column(e) = z + u
    BY <1>1, <1>4, <1>8, <1>9, <1>10
  <2> HIDE DEF z, v
  <2>3. Shows(Wrap(e)) = T!Advance(Glass(c, z, Row(e), e.cells, e.wide), u)
    BY <1>8, <2>2, WrapShows
  <2> QED
    BY <1>6, <1>8, <2>1, <2>3 DEF z, v
<1>12. CASE HalfFits(w, s, n)
  <2>1. v = Wrap(o) /\ w.wide /\ n < Len(s) /\ s[n + 1] \notin Controls /\ end = SizeOf(c)[1] - 1 /\ u = 2
    BY <1>0, <1>4, <1>5, <1>12
  <2>2. Inside(e) /\ Column(e) + 1 = Columns(e)
    BY <1>1, <1>8, <1>9, <2>1 DEF Inside
  <2>3. Works(o, c) /\ Column(o) = 0
    BY <1>8, <2>2, OutputSpaceFacts
  <2>4. Shows(o) = T!Advance(Glass(c, Column(e), Row(e), Blanked(e.cells, Column(e), Row(e)), e.wide), 1)
    BY <1>8, <2>2, SpaceShows
  <2> HIDE DEF o, v
  <2>5. Column(o) < Columns(o)
    BY <1>1, <2>3, WorkFields
  <2>6. v = o
    BY <2>1, <2>3, <2>5, WrapFacts
  <2> DEFINE g == Glass(c, end, y, ce, b)
  <2>7. Shows(o) = T!Fitted(g)
    <3>1. T!Fitted(g) = T!Down(Glass(c, 0, y, Blanked(ce, end, y), b))
      <4>1. InLastColumn(c, end) /\ b \in BOOLEAN /\ Span(b) = 2
        BY <1>1, <1>4, <2>1 DEF InLastColumn, u, b
      <4> QED
        BY <4>1, GlassFitted
    <3>2. T!Advance(Glass(c, end, y, Blanked(ce, end, y), b), 1)
            = IF end + 1 < SizeOf(c)[1] THEN Glass(c, end + 1, y, Blanked(ce, end, y), b)
              ELSE T!Down(Glass(c, 0, y, Blanked(ce, end, y), b))
      BY <1>4, GlassAdvance
    <3>3. ~(end + 1 < SizeOf(c)[1])
      BY <1>1, <2>1
    <3> QED
      BY <1>8, <2>4, <3>1, <3>2, <3>3
  <2>8. T!Put(Shows(v), s[n + 1]) = T!Put(g, s[n + 1])
    <3> DEFINE ch == s[n + 1]
    <3>1. ch \notin Controls /\ InLastColumn(c, end) /\ b \in BOOLEAN /\ Span(b) = 2
      BY <1>1, <1>4, <2>1 DEF InLastColumn, u, b
    <3> HIDE DEF ch
    <3>2. T!Put(T!Fitted(Glass(c, end, y, ce, b)), ch) = T!Put(Glass(c, end, y, ce, b), ch)
      BY <3>1, PutFitted
    <3> QED
      BY <2>6, <2>7, <3>2 DEF ch
  <2>9. T!Put(g, s[n + 1]) = T!Put(V[n], s[n + 1])
    <3>1. CASE n = 0
      <4>1. ce = w.cells /\ end = x
        BY <1>1, <1>4, <3>1, DrawnNone DEF ce
      <4>2. Shows(w) = g
        BY <4>1, ShownAs DEF x, y, b
      <4>3. T!Put(Shows(w), s[1]) = T!Put(V[0], s[1]) /\ n + 1 = 1
        BY <3>1 DEF Following
      <4> QED
        BY <3>1, <4>2, <4>3
    <3>2. CASE n # 0
      <4> DEFINE z == x + u * (n - 1)
      <4>1. z \in Int /\ z + u = end /\ end < SizeOf(c)[1]
        BY <1>1, <1>10, <2>1
      <4>2. V[n] = T!Advance(Glass(c, z, y, ce, b), u)
        BY <1>6, <3>2
      <4> HIDE DEF z
      <4>3. T!Advance(Glass(c, z, y, ce, b), u) = IF z + u < SizeOf(c)[1] THEN Glass(c, z + u, y, ce, b)
                                                  ELSE T!Down(Glass(c, 0, y, ce, b))
        BY <4>1, GlassAdvance
      <4>4. V[n] = g
        BY <4>1, <4>2, <4>3
      <4> QED
        BY <4>4
    <3> QED
      BY <3>1, <3>2
  <2> QED
    BY <2>1, <2>3, <2>6, <2>8, <2>9 DEF v
<1> QED
  BY <1>11, <1>12

(* The loop with at most k turns to go: what is left of s is still to be   *)
(* typed, and the screen shows what the rest has come to, upTo, or is      *)
(* where the next character finds the terminal as well.                    *)
Typing(x, c, A, upTo, s, k) ==
  LET p == Len(s) - Len(x.left)
  IN /\ Works(x.w, c) /\ Inside(x.w) /\ x.left \in Seq(A) /\ Len(x.left) <= Len(s)
     /\ \A i \in 1 .. Len(x.left) : x.left[i] = s[p + i]
     /\ \/ Shows(x.w) = upTo[p] /\ 2 * Len(x.left) <= k
        \/ /\ Column(x.w) = 0 /\ x.left # <<>> /\ x.left[1] \notin Controls
           /\ T!Put(Shows(x.w), x.left[1]) = T!Put(upTo[p], x.left[1])
           /\ 2 * Len(x.left) - 1 <= k

(* The characters behind the first n of them.                              *)
LEMMA LeftBehind ==
  ASSUME NEW A, NEW t \in Seq(A), NEW n \in 0 .. Len(t)
  PROVE  LET l == SubSeq(t, n + 1, Len(t))
         IN l \in Seq(A) /\ Len(l) = Len(t) - n /\ \A i \in 1 .. Len(t) - n : l[i] = t[n + i]
<1> DEFINE l == SubSeq(t, n + 1, Len(t))
           N == Len(t)
<1>1. N \in Nat /\ n \in Int /\ n + 1 \in Int /\ N \in Int /\ \A i \in n + 1 .. N : t[i] \in A
  OBVIOUS
<1>2. /\ l \in Seq(A) /\ Len(l) = IF n + 1 <= N THEN N - (n + 1) + 1 ELSE 0
      /\ \A i \in 1 .. N - (n + 1) + 1 : l[i] = t[(n + 1) + i - 1]
  BY <1>1, SubSeqProperties
<1>3. n \in 0 .. N
  OBVIOUS
<1> HIDE DEF l, N
<1>4. Len(l) = N - n
  BY <1>1, <1>2, <1>3
<1>5. ASSUME NEW i \in 1 .. N - n PROVE l[i] = t[n + i]
  <2>1. i \in 1 .. N - (n + 1) + 1 /\ (n + 1) + i - 1 = n + i
    BY <1>1, <1>3
  <2> QED
    BY <1>2, <2>1
<1> QED
  BY <1>2, <1>4, <1>5 DEF l, N

(* A turn of the loop for a control character.                             *)
LEMMA ControlTyped ==
  ASSUME NEW c, NEW A, NEW k \in Nat \ {0}, NEW x, NEW s \in Seq(A), NEW a, NEW upTo, Types(upTo, a, s),
         Typing(x, c, A, upTo, s, k), x.left # <<>>, x.left[1] \in Controls,
         NEW v, Works(v, c), Inside(v), Shows(v) = T!Put(Shows(x.w), x.left[1])
  PROVE  Typing([w |-> v, left |-> SubSeq(x.left, 2, Len(x.left))], c, A, upTo, s, k - 1)
<1> DEFINE t == x.left
           left == SubSeq(t, 2, Len(t))
           y == [w |-> v, left |-> left]
           p == Len(s) - Len(t)
<1>1. /\ t \in Seq(A) /\ Len(t) \in Nat /\ Len(t) # 0 /\ Len(s) \in Nat /\ Len(t) <= Len(s)
      /\ \A i \in 1 .. Len(t) : t[i] = s[p + i]
      /\ Shows(x.w) = upTo[p] /\ 2 * Len(t) <= k
  <2>1. t \in Seq(A) /\ Len(t) <= Len(s)
    BY DEF Typing
  <2>2. \A i \in 1 .. Len(t) : t[i] = s[p + i]
    BY Zenon DEF Typing
  <2>3. Shows(x.w) = upTo[p] /\ 2 * Len(t) <= k
    BY Zenon DEF Typing
  <2>4. Len(t) \in Nat /\ Len(t) # 0 /\ Len(s) \in Nat
    BY <2>1
  <2> QED
    BY <2>1, <2>2, <2>3, <2>4
<1>2. \A n \in 1 .. Len(s) : upTo[n] = T!Put(upTo[n - 1], s[n])
  BY DEF Types
<1>3. left \in Seq(A) /\ Len(left) = Len(t) - 1 /\ \A i \in 1 .. Len(t) - 1 : left[i] = t[1 + i]
  <2>1. 1 \in 0 .. Len(t) /\ 1 + 1 = 2
    BY <1>1
  <2> QED
    BY <1>1, <2>1, LeftBehind
<1>4. Shows(v) = T!Put(upTo[p], t[1])
  BY <1>1
<1> HIDE DEF left, t
<1>5. p + 1 \in 1 .. Len(s) /\ (p + 1) - 1 = p /\ 1 \in 1 .. Len(t) /\ Len(s) - Len(left) = p + 1
  BY <1>1, <1>3
<1>6. Shows(v) = upTo[p + 1]
  BY <1>1, <1>2, <1>4, <1>5
<1>7. 2 * Len(left) <= k - 1 /\ Len(left) <= Len(s)
  BY <1>1, <1>3
<1>8. ASSUME NEW i \in 1 .. Len(left) PROVE left[i] = s[(Len(s) - Len(left)) + i]
  <2>1. i \in 1 .. Len(t) - 1 /\ 1 + i \in 1 .. Len(t) /\ p + (1 + i) = (p + 1) + i
    BY <1>1, <1>3
  <2> QED
    BY <1>1, <1>3, <1>5, <2>1
<1>9. y.w = v /\ y.left = left
  OBVIOUS
<1> HIDE DEF y, p
<1>10. Typing(y, c, A, upTo, s, k - 1)
  BY <1>3, <1>5, <1>6, <1>7, <1>8, <1>9 DEF Typing
<1> QED
  BY <1>10 DEF y, left, t

(* A turn of the loop for a run of characters.                             *)
LEMMA RunTurnTyped ==
  ASSUME NEW c, Open(c), NEW A, NEW k \in Nat \ {0}, NEW x, NEW s \in Seq(A), NEW a, NEW upTo,
         Types(upTo, a, s), Typing(x, c, A, upTo, s, k), x.left # <<>>, x.left[1] \notin Controls
  PROVE  LET n == RunLength(x.w, x.left)
         IN Typing([w |-> OutputRun(x.w, x.left), left |-> SubSeq(x.left, n + 1, Len(x.left))],
                   c, A, upTo, s, k - 1)
<1> DEFINE w == x.w
           t == x.left
           n == RunLength(w, t)
           v == OutputRun(w, t)
           left == SubSeq(t, n + 1, Len(t))
           y == [w |-> v, left |-> left]
           p == Len(s) - Len(t)
           V == [m \in 0 .. Len(t) |-> upTo[p + m]]
<1>1. /\ t \in Seq(A) /\ t # <<>> /\ t[1] \notin Controls
      /\ Len(t) \in Nat /\ Len(t) # 0 /\ Len(s) \in Nat /\ Len(t) <= Len(s)
      /\ Works(w, c) /\ Inside(w)
      /\ \A i \in 1 .. Len(t) : t[i] = s[p + i]
  <2>1. t \in Seq(A) /\ Len(t) <= Len(s) /\ Works(w, c) /\ Inside(w)
    BY DEF Typing
  <2>2. \A i \in 1 .. Len(t) : t[i] = s[p + i]
    BY Zenon DEF Typing
  <2>3. Len(t) \in Nat /\ Len(t) # 0 /\ Len(s) \in Nat
    BY <2>1
  <2> QED
    BY <2>1, <2>2, <2>3
<1>2. \/ Shows(w) = upTo[p] /\ 2 * Len(t) <= k
      \/ Column(w) = 0 /\ T!Put(Shows(w), t[1]) = T!Put(upTo[p], t[1]) /\ 2 * Len(t) - 1 <= k
  BY DEF Typing
<1>3. \A m \in 1 .. Len(s) : upTo[m] = T!Put(upTo[m - 1], s[m])
  BY DEF Types
<1> HIDE DEF w, t
<1>4. Columns(w) \in Int /\ Columns(w) >= 2
  BY <1>1, WorkFields, OpenSize
<1>5. n \in 0 .. Len(t) /\ (n = 0 => Column(w) = Columns(w) - 1)
  BY <1>1, RunFacts
<1>6. Works(v, c) /\ Inside(v)
  BY <1>1, OutputRunFacts
<1>7. left \in Seq(A) /\ Len(left) = Len(t) - n /\ \A i \in 1 .. Len(t) - n : left[i] = t[n + i]
  BY <1>1, <1>5, LeftBehind
<1>8. Following(V, w, t, n)
  <2>1. V[0] = upTo[p]
    BY <1>1
  <2>2. ASSUME NEW m \in 1 .. n PROVE V[m] = T!Put(V[m - 1], t[m])
    <3> HIDE DEF n
    <3>1. /\ m \in 1 .. Len(t) /\ m - 1 \in 0 .. Len(t) /\ m \in 0 .. Len(t)
          /\ p + m \in 1 .. Len(s) /\ (p + m) - 1 = p + (m - 1)
      BY <1>1, <1>5
    <3>2. V[m] = upTo[p + m] /\ V[m - 1] = upTo[p + (m - 1)]
      BY <3>1
    <3>3. upTo[p + m] = T!Put(upTo[p + (m - 1)], s[p + m])
      BY <1>3, <3>1
    <3> QED
      BY <1>1, <3>1, <3>2, <3>3
  <2>3. T!Put(Shows(w), t[1]) = T!Put(V[0], t[1])
    BY <1>2, <2>1
  <2> QED
    BY <2>2, <2>3 DEF Following
<1>9. V[n] = upTo[p + n]
  BY <1>5
<1> HIDE DEF V
<1>10. \/ n # 0 /\ Shows(v) = V[n]
       \/ /\ n < Len(t) /\ t[n + 1] \notin Controls /\ Column(v) = 0
          /\ T!Put(Shows(v), t[n + 1]) = T!Put(V[n], t[n + 1])
  BY <1>1, <1>8, OutputRunShows
<1> HIDE DEF n, v, left
<1>11. Len(s) - Len(left) = p + n /\ Len(left) <= Len(s)
  BY <1>1, <1>5, <1>7
<1>12. ASSUME NEW i \in 1 .. Len(left) PROVE left[i] = s[(Len(s) - Len(left)) + i]
  <2>1. i \in 1 .. Len(t) - n /\ n + i \in 1 .. Len(t) /\ p + (n + i) = (p + n) + i
    BY <1>1, <1>5, <1>7
  <2> QED
    BY <1>1, <1>7, <1>11, <2>1
<1>13. y.w = v /\ y.left = left
  OBVIOUS
<1>14. 2 * Len(t) <= k \/ (n # 0 /\ 2 * Len(t) - 1 <= k)
  BY <1>2, <1>4, <1>5
<1> HIDE DEF y, p
<1>15. CASE n # 0 /\ Shows(v) = V[n]
  <2>1. 2 * Len(left) <= k - 1
    BY <1>1, <1>5, <1>7, <1>14, <1>15
  <2>2. Shows(v) = upTo[Len(s) - Len(left)]
    BY <1>9, <1>11, <1>15
  <2>3. Typing(y, c, A, upTo, s, k - 1)
    BY <1>6, <1>7, <1>11, <1>12, <1>13, <2>1, <2>2 DEF Typing
  <2> QED
    BY <2>3 DEF y, left, n, v, w, t
<1>16. CASE /\ n < Len(t) /\ t[n + 1] \notin Controls /\ Column(v) = 0
            /\ T!Put(Shows(v), t[n + 1]) = T!Put(V[n], t[n + 1])
  <2>1. 2 * Len(left) - 1 <= k - 1
    BY <1>1, <1>5, <1>7, <1>14
  <2>2. left[1] = t[n + 1] /\ left # <<>>
    <3>1. 1 \in 1 .. Len(t) - n /\ Len(left) # 0
      BY <1>1, <1>5, <1>7, <1>16
    <3> QED
      BY <1>7, <3>1
  <2>3. T!Put(Shows(v), left[1]) = T!Put(upTo[Len(s) - Len(left)], left[1])
    BY <1>9, <1>11, <1>16, <2>2
  <2>4. Column(v) = 0 /\ left[1] \notin Controls
    BY <1>16, <2>2
  <2>5. Typing(y, c, A, upTo, s, k - 1)
    BY <1>6, <1>7, <1>11, <1>12, <1>13, <2>1, <2>2, <2>3, <2>4 DEF Typing
  <2> QED
    BY <2>5 DEF y, left, n, v, w, t
<1> QED
  BY <1>10, <1>15, <1>16

(* Each turn.                                                              *)
LEMMA TurnTyped ==
  ASSUME NEW c, Open(c), NEW A, NEW k \in Nat \ {0}, NEW x, NEW s \in Seq(A), NEW a, NEW upTo,
         Types(upTo, a, s), Typing(x, c, A, upTo, s, k)
  PROVE  Typing(Turn(x), c, A, upTo, s, k - 1)
<1> DEFINE w == x.w
           Left(v, n) == [w |-> v, left |-> SubSeq(x.left, n + 1, Len(x.left))]
<1>0. Works(w, c) /\ Inside(w) /\ x.left \in Seq(A)
  BY DEF Typing
<1>1. CASE x.left = <<>>
  <2>1. Turn(x) = x /\ Len(x.left) = 0 /\ Len(s) \in Nat
    BY <1>1 DEF Turn
  <2>2. Shows(w) = upTo[Len(s) - Len(x.left)]
    BY <1>1, Zenon DEF Typing
  <2>3. 2 * Len(x.left) <= k - 1 /\ Len(x.left) <= Len(s)
    BY <2>1
  <2>4. \A i \in 1 .. Len(x.left) : x.left[i] = s[(Len(s) - Len(x.left)) + i]
    BY <2>1
  <2>5. Typing(x, c, A, upTo, s, k - 1)
    BY <1>0, <2>2, <2>3, <2>4 DEF Typing
  <2> QED
    BY <2>1, <2>5
<1>2. ASSUME x.left # <<>>, NEW v, Turn(x) = Left(v, 1), x.left[1] \in Controls,
             Works(v, c), Inside(v), Shows(v) = T!Put(Shows(w), x.left[1])
      PROVE  Typing(Turn(x), c, A, upTo, s, k - 1)
  BY <1>2, ControlTyped
<1>3. ASSUME x.left # <<>> PROVE Head(x.left) = x.left[1]
  BY <1>0, <1>3
<1>4. CASE x.left # <<>> /\ x.left[1] = "backspace"
  <2>1. Turn(x) = Left(Backspace(w), 1) /\ x.left[1] \in Controls
    BY <1>3, <1>4 DEF Turn, Controls
  <2>2. Works(Backspace(w), c) /\ Inside(Backspace(w))
    BY <1>0, BackspaceFacts
  <2>3. Shows(Backspace(w)) = T!Put(Shows(w), "backspace")
    <3>1. T!Put(Shows(w), "backspace") = T!Back(Shows(w))
      BY DEF T!Put
    <3> QED
      BY <1>0, <3>1, BackspaceShows
  <2> QED
    BY <1>2, <1>4, <2>1, <2>2, <2>3
<1>5. CASE x.left # <<>> /\ x.left[1] = "linefeed"
  <2>1. Turn(x) = Left(LineFeed(w), 1) /\ x.left[1] \in Controls
    BY <1>3, <1>5 DEF Turn, Controls
  <2>2. /\ Works(LineFeed(w), c) /\ Column(LineFeed(w)) = Column(w)
        /\ Row(w) \in 0 .. Rows(w) - 1 => Row(LineFeed(w)) \in 0 .. Rows(LineFeed(w)) - 1
    BY <1>0, LineFeedFacts
  <2>3. Columns(LineFeed(w)) = Columns(w)
    BY <1>0, <2>2, WorkFields
  <2>4. Inside(LineFeed(w)) /\ Row(w) \in 0 .. Rows(w) - 1
    BY <1>0, <2>2, <2>3 DEF Inside
  <2>5. Shows(LineFeed(w)) = T!Put(Shows(w), "linefeed")
    <3>1. T!Put(Shows(w), "linefeed") = T!Down(Shows(w))
      BY DEF T!Put
    <3> QED
      BY <1>0, <2>4, <3>1, LineFeedShows
  <2> QED
    BY <1>2, <1>5, <2>1, <2>2, <2>4, <2>5
<1>6. CASE x.left # <<>> /\ x.left[1] = "return"
  <2>1. Turn(x) = Left(Return(w), 1) /\ x.left[1] \in Controls
    BY <1>3, <1>6 DEF Turn, Controls
  <2>2. /\ Row(w) \in Int /\ Columns(w) = SizeOf(c)[1] /\ Rows(w) = SizeOf(c)[2]
        /\ SizeOf(c)[1] \in Nat /\ SizeOf(c)[1] >= 2
    BY <1>0, WorkFields, OpenSize
  <2>3. Works(Return(w), c) /\ Column(Return(w)) = 0 /\ Row(Return(w)) = Row(w)
    BY <1>0, <2>2, AtFacts DEF Return
  <2>4. Columns(Return(w)) = Columns(w) /\ Rows(Return(w)) = Rows(w)
    BY <2>2, <2>3, WorkFields
  <2>5. 0 \in 0 .. Columns(w) - 1
    BY <2>2
  <2>6. Inside(Return(w))
    BY <1>0, <2>3, <2>4, <2>5 DEF Inside
  <2>7. Shows(Return(w)) = T!Put(Shows(w), "return")
    BY <1>0, ReturnShows
  <2> QED
    BY <1>2, <1>6, <2>1, <2>3, <2>6, <2>7
<1>7. ASSUME x.left # <<>>, NEW b \in BOOLEAN,
             x.left[1] = (IF b THEN "widen" ELSE "narrow")
      PROVE  Typing(Turn(x), c, A, upTo, s, k - 1)
  <2> DEFINE v == Widened(w, b)
  <2>1. Turn(x) = Left(v, 1) /\ x.left[1] \in Controls
    BY <1>3, <1>7 DEF Turn, Controls
  <2>2. Works(v, c) /\ Column(v) = Column(w) /\ Row(v) = Row(w)
    BY <1>0, WidenFacts
  <2>4. Shows(v) = T!Put(Shows(w), x.left[1])
    BY <1>0, <1>7, WidenShows
  <2> HIDE DEF v
  <2>3. Columns(v) = Columns(w) /\ Rows(v) = Rows(w)
    BY <1>0, <2>2, WorkFields
  <2>5. Inside(v)
    BY <1>0, <2>2, <2>3 DEF Inside
  <2> QED
    BY <1>2, <1>7, <2>1, <2>2, <2>4, <2>5
<1>8. CASE x.left # <<>> /\ x.left[1] \notin Controls
  <2>1. Turn(x) = Left(OutputRun(w, x.left), RunLength(w, x.left))
    BY <1>3, <1>8 DEF Turn, Controls
  <2> QED
    BY <1>8, <2>1, RunTurnTyped
<1>9. CASE x.left # <<>> /\ x.left[1] \in {"widen", "narrow"}
  BY <1>7, <1>9
<1> QED
  BY <1>1, <1>4, <1>5, <1>6, <1>8, <1>9 DEF Controls

(* A string, written in runs with all the nested calls, shows what its     *)
(* characters do one by one.                                               *)
LEMMA WrittenShows ==
  ASSUME NEW c, Open(c), NEW w, Works(w, c), Inside(w), NEW A, NEW s \in Seq(A)
  PROVE  Shows(Written(w, s)) = T!Typed(Shows(w), s)
<1> DEFINE N == 2 * Len(s)
           a == Shows(w)
<1>0. N \in Nat /\ Len(s) \in Nat
  OBVIOUS
<1>1. PICK after : Unfolds(after, w, s)
  BY <1>0, WrittenUnfolds
<1>2. /\ after[0] = [w |-> w, left |-> s]
      /\ \A n \in 1 .. N : after[n] = Turn(after[n - 1])
      /\ Written(w, s) = after[N].w
  BY <1>1 DEF Unfolds
<1>3. PICK upTo : Types(upTo, a, s)
  BY <1>0, TypedUnfolds
<1>4. upTo[0] = a /\ T!Typed(a, s) = upTo[Len(s)]
  BY <1>3 DEF Types
<1> DEFINE S == {n \in Nat : n <= N => Typing(after[n], c, A, upTo, s, N - n)}
<1>5. 0 \in S /\ S \in SUBSET Nat
  <2> DEFINE x == after[0]
  <2>1. x.w = w /\ x.left = s
    BY <1>2
  <2> HIDE DEF x
  <2>2. /\ Len(s) - Len(x.left) = 0 /\ Len(x.left) <= Len(s) /\ 2 * Len(x.left) <= N - 0
        /\ \A i \in 1 .. Len(x.left) : x.left[i] = s[0 + i]
    BY <1>0, <2>1
  <2>3. Shows(x.w) = upTo[Len(s) - Len(x.left)]
    BY <1>4, <2>1, <2>2
  <2>4. Typing(x, c, A, upTo, s, N - 0)
    BY <2>1, <2>2, <2>3 DEF Typing
  <2> QED
    BY <2>4 DEF x
<1> HIDE DEF N
<1>6. ASSUME NEW n \in S PROVE n + 1 \in S
  <2>1. CASE n + 1 <= N
    <3>1. n + 1 \in 1 .. N /\ (n + 1) - 1 = n /\ N - n \in Nat \ {0} /\ N - (n + 1) = (N - n) - 1
      BY <1>0, <2>1
    <3>2. Typing(after[n], c, A, upTo, s, N - n)
      BY <1>0, <2>1
    <3>3. Typing(Turn(after[n]), c, A, upTo, s, (N - n) - 1)
      BY <1>3, <3>1, <3>2, TurnTyped
    <3>4. after[n + 1] = Turn(after[n])
      BY <1>2, <3>1
    <3> QED
      BY <3>1, <3>3, <3>4
  <2>2. CASE ~(n + 1 <= N)
    BY <2>2
  <2> QED
    BY <2>1, <2>2
<1> HIDE DEF S
<1>7. N \in S
  BY <1>0, <1>5, <1>6, Induction
<1> DEFINE x == after[N]
<1>8. Typing(x, c, A, upTo, s, N - N) /\ N - N = 0
  BY <1>0, <1>7 DEF S
<1> HIDE DEF x
<1>9. Typing(x, c, A, upTo, s, 0)
  BY <1>8
<1>10. x.left \in Seq(A) /\ Len(x.left) \in Nat
  BY <1>9 DEF Typing
<1>11. Shows(x.w) = upTo[Len(s) - Len(x.left)] /\ 2 * Len(x.left) <= 0
  <2>1. ASSUME x.left # <<>> PROVE ~(2 * Len(x.left) - 1 <= 0)
    BY <1>10, <2>1
  <2>2. \/ Shows(x.w) = upTo[Len(s) - Len(x.left)] /\ 2 * Len(x.left) <= 0
        \/ x.left # <<>> /\ 2 * Len(x.left) - 1 <= 0
    BY <1>9, Zenon DEF Typing
  <2> QED
    BY <2>1, <2>2
<1>12. Len(s) - Len(x.left) = Len(s)
  BY <1>0, <1>10, <1>11
<1> QED
  BY <1>2, <1>4, <1>11, <1>12 DEF x

(* GraphicsConsoleConOutOutputString, with the cursor that it takes away   *)
(* and draws again.                                                        *)
LEMMA WritesShow ==
  ASSUME NEW c, Open(c), NEW w, Works(w, c), Inside(w), NEW A, NEW s \in Seq(A)
  PROVE  Shows(FlushCursor(Written(FlushCursor(w), s))) = T!Typed(Shows(w), s)
<1> DEFINE f == FlushCursor(w)
           t == Written(f, s)
           v == FlushCursor(t)
<1>1. Works(f, c) /\ Column(f) = Column(w) /\ Row(f) = Row(w) /\ Shows(f) = Shows(w)
  BY FlushFacts, FlushShows
<1> HIDE DEF f
<1>2. Inside(f)
  BY <1>1, WorkFields DEF Inside
<1>3. Works(t, c) /\ Shows(t) = T!Typed(Shows(f), s)
  BY <1>1, <1>2, WrittenFacts, WrittenShows
<1> HIDE DEF t
<1>4. Shows(v) = Shows(t)
  BY <1>3, FlushShows
<1>5. Shows(v) = T!Typed(Shows(w), s)
  BY <1>1, <1>3, <1>4
<1> QED
  BY <1>5 DEF v, t, f

-----------------------------------------------------------------------------
(* What a console is as a terminal.                                        *)
Blanks(s) == [size |-> s, pos |-> <<0, 0>>, cells |-> T!BlankWindow(s), wide |-> FALSE]

(* The size of a console in the next state is that of the next console.    *)
LEMMA SizeNext == SizeOf(con)' = SizeOf(con')
BY DEF SizeOf

(* The terminal's window is what a call finds.                             *)
LEMMA WindowShown == T!Window = Shows(Screen)
BY DEF T!Window, Shows, Screen

(* The sizes that a console has are those of its modes.                    *)
LEMMA SizeListed ==
  ASSUME NEW c, Open(c)
  PROVE  SizeOf(c) \in UNION {ToSet(TextModes[g]) : g \in DOMAIN TextModes} /\ SizeOf(c) # <<0, 0>>
<1>1. /\ c.gopMode \in DOMAIN TextModes /\ TextModes[c.gopMode] \in Seq(ModeSizes)
      /\ SizeOf(c) = TextModes[c.gopMode][c.mode + 1]
  BY ModesType DEF Open, TextModes, ModeLists, SizeOf
<1>2. c.mode + 1 \in 1 .. Len(TextModes[c.gopMode])
  BY <1>1 DEF Open
<1>3. SizeOf(c) \in ToSet(TextModes[c.gopMode])
  BY <1>1, <1>2 DEF ToSet
<1> QED
  BY <1>1, <1>3 DEF Open, NoSize

(* A step that clears the window and may write the greeting.               *)
LEMMA ClearMaps ==
  ASSUME NEW v, Open(v.con), NEW text \in {<<>>, Greeting}, Shows(v) = T!Typed(Blanks(SizeOf(v.con)), text),
         con' = v.con, cells' = v.cells
  PROVE  T!Clear
<1> DEFINE s == SizeOf(v.con)
           empty == [size |-> s, pos |-> <<0, 0>>, cells |-> T!BlankWindow(s), wide |-> FALSE]
           w == IF s = <<0, 0>> THEN empty ELSE T!Typed(empty, text)
<1>1. s \in UNION {ToSet(TextModes[g]) : g \in DOMAIN TextModes} /\ s # <<0, 0>>
  BY SizeListed
<1>2. SizeOf(con)' = s
  BY SizeNext
<1>3. w = Shows(v)
  BY <1>1 DEF Blanks
<1>4. con.pos' = w.pos /\ cells' = w.cells
  <2>1. Shows(v).pos = v.con.pos /\ Shows(v).cells = v.cells
    BY DEF Shows
  <2> QED
    BY <1>3, <2>1
<1> HIDE DEF s
<1> QED
  BY <1>1, <1>2, <1>4 DEF T!Clear

(* A step that shows the same.                                             *)
LEMMA SameMaps ==
  ASSUME SizeOf(con') = SizeOf(con), con'.pos = con.pos, cells' = cells
  PROVE  UNCHANGED T!vars
BY SizeNext DEF T!vars

(* A console whose graphics and text mode stay the same keeps its size.    *)
LEMMA SizeKept ==
  ASSUME NEW c, NEW d, d.mode = c.mode, d.gopMode = c.gopMode
  PROVE  SizeOf(d) = SizeOf(c)
BY DEF SizeOf

(* The attribute and the visibility of the cursor do not concern what is   *)
(* shown.                                                                  *)
LEMMA RecolouredSame ==
  ASSUME NEW w, w.con \in Consoles, NEW k \in Consoles,
         w = [con |-> w.con, cells |-> w.cells, ink |-> w.ink, wide |-> w.wide, lost |-> w.lost],
         k.pos = w.con.pos, k.mode = w.con.mode, k.gopMode = w.con.gopMode,
         NEW u, u = [FlushCursor(w) EXCEPT !.con = k]
  PROVE  LET v == FlushCursor(u)
         IN v.con = k /\ v.cells = w.cells /\ Shows(v) = Shows(w)
<1> DEFINE f == FlushCursor(w)
           i == f.ink
           v == FlushCursor(u)
<1>1. f = [con |-> w.con, cells |-> w.cells, ink |-> i, wide |-> w.wide, lost |-> w.lost]
  BY FlushShape
<1>2. u = [f EXCEPT !.con = k]
  OBVIOUS
<1> HIDE DEF i, f
<1>3. u = [con |-> k, cells |-> w.cells, ink |-> i, wide |-> w.wide, lost |-> w.lost]
  BY <1>1, <1>2
<1>4. /\ u = [con |-> u.con, cells |-> u.cells, ink |-> u.ink, wide |-> u.wide, lost |-> u.lost]
      /\ u.con = k /\ u.cells = w.cells /\ u.wide = w.wide
  <2>1. u.con = k /\ u.cells = w.cells /\ u.ink = i /\ u.wide = w.wide /\ u.lost = w.lost
    BY <1>3
  <2> QED
    BY <1>3, <2>1, Zenon
<1>5. v = [con |-> u.con, cells |-> u.cells, ink |-> v.ink, wide |-> u.wide, lost |-> u.lost]
  BY <1>4, FlushShape
<1> DEFINE j == v.ink
<1>6. v = [con |-> u.con, cells |-> u.cells, ink |-> j, wide |-> u.wide, lost |-> u.lost]
  BY <1>5
<1> HIDE DEF v, j
<1>7. v.con = k /\ v.cells = w.cells /\ v.wide = w.wide
  BY <1>4, <1>6
<1>8. SizeOf(v.con) = SizeOf(w.con)
  BY <1>7, SizeKept
<1>9. v.con = k /\ v.cells = w.cells /\ Shows(v) = Shows(w)
  BY <1>7, <1>8 DEF Shows
<1> QED
  BY <1>9 DEF v

(* GraphicsConsoleConOutSetAttribute draws the cursor in another colour.   *)
LEMMA AttributedShows ==
  ASSUME NEW w, w.con \in Consoles, NEW a \in Nat,
         w = [con |-> w.con, cells |-> w.cells, ink |-> w.ink, wide |-> w.wide, lost |-> w.lost]
  PROVE  /\ Shows(Attributed(w, a)) = Shows(w)
         /\ Attributed(w, a).con \in Consoles /\ Attributed(w, a).cells = w.cells
<1> DEFINE f == FlushCursor(w)
           u == [f EXCEPT !.con.attr = a]
           k == [w.con EXCEPT !.attr = a]
           i == f.ink
<1>1. f = [con |-> w.con, cells |-> w.cells, ink |-> i, wide |-> w.wide, lost |-> w.lost]
  BY FlushShape
<1>2. k \in Consoles /\ k.pos = w.con.pos /\ k.mode = w.con.mode /\ k.gopMode = w.con.gopMode
  BY DEF Consoles
<1>3. u = [f EXCEPT !.con = [f.con EXCEPT !.attr = a]]
  OBVIOUS
<1>g. f = FlushCursor(w)
  OBVIOUS
<1>h. Attributed(w, a) = w \/ Attributed(w, a) = FlushCursor(u)
  BY DEF Attributed
<1> HIDE DEF i, f, u
<1>4. f.con = w.con
  BY <1>1
<1>5. u = [FlushCursor(w) EXCEPT !.con = k]
  BY <1>3, <1>4, <1>g
<1> HIDE DEF k
<1>6. FlushCursor(u).con = k /\ FlushCursor(u).cells = w.cells /\ Shows(FlushCursor(u)) = Shows(w)
  BY <1>2, <1>5, RecolouredSame
<1> QED
  BY <1>2, <1>6, <1>h

(* A window that is empty shows nothing.                                   *)
LEMMA EmptyShows ==
  ASSUME NEW c, Open(c), NEW w, Works(w, c), Empty(w)
  PROVE  Shows(w) = Blanks(SizeOf(w.con)) /\ Open(w.con)
<1>1. /\ w.con.pos = <<Column(w), Row(w)>> /\ w.con.mode = c.mode /\ w.con.gopMode = c.gopMode
      /\ w.con \in Consoles
  BY WorkFields
<1>2. SizeOf(w.con) = SizeOf(c)
  BY <1>1, SizeKept
<1>3. Open(w.con)
  BY <1>1, <1>2 DEF Open
<1>4. w.con.pos = <<0, 0>> /\ w.cells = T!BlankWindow(SizeOf(w.con)) /\ w.wide = FALSE
  BY <1>1 DEF Empty, Works
<1> QED
  BY <1>3, <1>4 DEF Shows, Blanks

(* A call that only draws the cursor otherwise, or not at all.             *)
LEMMA ShownSame ==
  ASSUME NEW v, con' = v.con, cells' = v.cells, Shows(v) = Shows(Screen)
  PROVE  UNCHANGED T!vars
<1>1. SizeOf(con') = SizeOf(con) /\ con'.pos = con.pos /\ cells' = cells
  BY DEF Shows, Screen
<1> QED
  BY <1>1, SameMaps

(* What a call finds, as a record.                                         *)
LEMMA ScreenShape ==
  Screen = [con |-> Screen.con, cells |-> Screen.cells, ink |-> Screen.ink,
            wide |-> Screen.wide, lost |-> Screen.lost] /\ Screen.con = con /\ Screen.cells = cells
BY DEF Screen

(* GraphicsConsoleConOutOutputString, in runs, writes what the terminal    *)
(* does character by character.                                            *)
LEMMA OutputStringMaps == ASSUME GfxInv, NEW s \in Strings, OutputString(s) PROVE T!Write
<1> DEFINE v == FlushCursor(Written(FlushCursor(Screen), s))
<1>1. con.mode # None /\ con' = v.con /\ cells' = v.cells
  BY DEF OutputString, Becomes
<1>2. /\ Open(con) /\ Works(Screen, con) /\ Inside(Screen)
  BY <1>1, ScreenWorks
<1>3. s \in Seq(ToSet(s))
  BY GfxAssumption
<1>4. Works(v, con)
  BY <1>2, <1>3, WritesKeep
<1>5. Shows(v) = T!Typed(T!Window, s)
  BY <1>2, <1>3, WritesShow, WindowShown
<1> HIDE DEF v
<1>6. SizeOf(v.con) = SizeOf(con)
  BY <1>2, <1>4, WorkFields, SizeKept
<1>7. SizeOf(con)' = SizeOf(con)
  BY <1>1, <1>6, SizeNext
<1>8. SizeOf(con) # <<0, 0>>
  BY <1>2 DEF Open, NoSize
<1>9. con.pos' = T!Typed(T!Window, s).pos /\ cells' = T!Typed(T!Window, s).cells
  <2>1. Shows(v).pos = v.con.pos /\ Shows(v).cells = v.cells
    BY DEF Shows
  <2> QED
    BY <1>1, <1>5, <2>1
<1> QED
  BY <1>7, <1>8, <1>9 DEF T!Write

(* A call that leaves an empty window.                                     *)
LEMMA EmptyMaps ==
  ASSUME NEW c, Open(c), NEW w, Works(w, c), Empty(w), NEW v, Shows(v) = Shows(w), Open(v.con),
         con' = v.con, cells' = v.cells
  PROVE  T!Clear
<1>1. Shows(w) = Blanks(SizeOf(w.con))
  BY EmptyShows
<1>2. SizeOf(v.con) = SizeOf(w.con)
  BY DEF Shows
<1>3. Shows(v) = T!Typed(Blanks(SizeOf(v.con)), <<>>)
  BY <1>1, <1>2, NothingTyped
<1> QED
  BY <1>3, ClearMaps

(* GraphicsConsoleConOutClearScreen.                                       *)
LEMMA ClearScreenMaps == ASSUME GfxInv, ClearScreen PROVE T!Clear
<1> DEFINE v == Cleared(Screen)
<1>1. con.mode # None /\ con' = v.con /\ cells' = v.cells
  BY DEF ClearScreen, Clears
<1>2. Open(con) /\ Works(Screen, con) /\ Screen.con = con
  BY <1>1, ScreenWorks
<1>a. ~Screen.wide
  BY DEF Screen
<1>3. Works(v, con) /\ Empty(v)
  BY <1>2, <1>a, ClearedFacts DEF Works
<1> HIDE DEF v
<1>4. Open(v.con)
  BY <1>2, <1>3, EmptyShows
<1> QED
  BY <1>1, <1>2, <1>3, <1>4, EmptyMaps

(* GraphicsConsoleConOutSetMode: it clears, or fails and shows the same.   *)
LEMMA SetModeMaps ==
  ASSUME GfxInv, NEW m \in Nat, SetMode(m) PROVE T!Clear \/ UNCHANGED T!vars
<1>1. con.gopMode # None /\ IsMode(m)
  BY DEF SetMode
<1>2. PICK o \in ModeOutcomes(m) : con' = o.w.con /\ cells' = o.w.cells
  BY DEF SetMode
<1>3. CASE o.ok
  <2>1. PICK c : Open(c) /\ Works(o.w, c) /\ Empty(o.w)
    BY <1>1, <1>3, ModeSet
  <2>2. Open(o.w.con)
    BY <2>1, EmptyShows
  <2> QED
    BY <1>2, <2>1, <2>2, EmptyMaps
<1>4. CASE ~o.ok
  <2>1. PICK b \in {"null", "held", "freed"} : o.w.con = [con EXCEPT !.buffer = b]
    BY <1>1, <1>4, ModeFailed
  <2>2. o.w.cells = cells
    BY <1>1, <1>4, ModeFailed
  <2>3. con \in Consoles
    BY DEF GfxInv, Driven
  <2>4. con'.pos = con.pos /\ con'.mode = con.mode /\ con'.gopMode = con.gopMode
    BY <1>2, <2>1, <2>3 DEF Consoles
  <2>5. SizeOf(con') = SizeOf(con)
    BY <2>4, SizeKept
  <2> QED
    BY <1>2, <2>2, <2>4, <2>5, SameMaps
<1> QED
  BY <1>3, <1>4

(* GraphicsConsoleConOutReset.                                             *)
LEMMA ConsoleResetMaps == ASSUME GfxInv, Reset PROVE T!Clear
<1>1. con.gopMode # None
  BY DEF Reset
<1>2. PICK o \in {p \in ModeOutcomes(0) : p.ok} : Clears(Attributed(o.w, o.w.con.attr % 16))
  BY DEF Reset
<1>3. IsMode(0)
  BY <1>1, BasicIsMode
<1>4. o \in ModeOutcomes(0) /\ o.ok
  BY <1>2
<1>5. PICK c : Open(c) /\ Works(o.w, c) /\ Inside(o.w) /\ o.w.con.attr \in Nat /\ Empty(o.w)
  BY <1>1, <1>3, <1>4, ModeSet
<1> DEFINE a == o.w.con.attr % 16
           v == Attributed(o.w, a)
<1>6. a \in Nat
  BY <1>5
<1>7. con' = v.con /\ cells' = v.cells
  BY <1>2 DEF Clears
<1> HIDE DEF a
<1>8. o.w.con \in Consoles
  BY <1>5, WorkFields
<1>9. Shows(v) = Shows(o.w)
  BY <1>5, <1>6, <1>8, AttributedShows DEF Works
<1>10. PICK d : Open(d) /\ Works(v, d)
  BY <1>5, <1>6, AttributedFacts
<1> HIDE DEF v
<1>11. Open(v.con)
  <2>1. v.con.mode = d.mode /\ v.con.gopMode = d.gopMode /\ v.con \in Consoles
    BY <1>10, WorkFields
  <2>2. SizeOf(v.con) = SizeOf(d)
    BY <2>1, SizeKept
  <2> QED
    BY <1>10, <2>1, <2>2 DEF Open
<1> QED
  BY <1>5, <1>7, <1>9, <1>11, EmptyMaps

(* GraphicsConsoleControllerDriverStart: a console that greets is a window *)
(* with the greeting; one that does not has no window yet.                 *)
LEMMA StartMaps ==
  ASSUME GfxInv, NEW highest, Start(highest) PROVE T!Clear \/ UNCHANGED T!vars
<1> DEFINE c == Prepared(highest)
           w == Greets(highest)
           v == FlushCursor(Written(FlushCursor(w), Greeting))
<1>1. con = NotStarted /\ c.mode = None
  BY StartOpens
<1>2. PICK d : Open(d) /\ Works(w, d) /\ Inside(w) /\ Empty(w)
  BY StartOpens
<1>3. \/ con' = c /\ UNCHANGED cells
      \/ con' = v.con /\ cells' = v.cells
      \/ UNCHANGED <<con, cells>>
  BY DEF Start, Greets, Prepared, Becomes
<1>4. c.pos = NotStarted.pos /\ NotStarted.mode = None
  BY DEF Prepared, NotStarted
<1> HIDE DEF c, w
<1>5. CASE con' = c /\ UNCHANGED cells
  <2>1. SizeOf(con') = SizeOf(con)
    BY <1>1, <1>4, <1>5 DEF SizeOf
  <2> QED
    BY <1>1, <1>4, <1>5, <2>1, SameMaps
<1>6. CASE UNCHANGED <<con, cells>>
  BY <1>6, SameMaps
<1>7. CASE con' = v.con /\ cells' = v.cells
  <2>1. Greeting \in Seq(ToSet(Greeting))
    BY GfxAssumption
  <2>2. Works(v, d)
    BY <1>2, <2>1, WritesKeep
  <2>3. Shows(v) = T!Typed(Shows(w), Greeting)
    BY <1>2, <2>1, WritesShow
  <2> HIDE DEF v
  <2>4. Shows(w) = Blanks(SizeOf(w.con)) /\ SizeOf(w.con) = SizeOf(d)
    BY <1>2, EmptyShows, WorkFields, SizeKept
  <2>5. /\ v.con.mode = d.mode /\ v.con.gopMode = d.gopMode /\ v.con \in Consoles
    BY <1>2, <2>2, WorkFields
  <2>6. SizeOf(v.con) = SizeOf(d)
    BY <2>5, SizeKept
  <2>7. Open(v.con)
    BY <1>2, <2>5, <2>6 DEF Open
  <2>8. Shows(v) = T!Typed(Blanks(SizeOf(v.con)), Greeting)
    BY <2>3, <2>4, <2>6
  <2> QED
    BY <1>7, <2>7, <2>8, ClearMaps
<1> QED
  BY <1>3, <1>5, <1>6, <1>7

(* GraphicsConsoleControllerDriverStop: the window is lost.                *)
LEMMA StopMaps == ASSUME Stop PROVE T!Clear
<1> DEFINE s == <<0, 0>>
           empty == [size |-> s, pos |-> <<0, 0>>, cells |-> T!BlankWindow(s), wide |-> FALSE]
<1>1. con' = NotStarted /\ cells' = T!BlankWindow(s)
  BY DEF Stop, NoSize
<1>2. NotStarted.mode = None /\ NotStarted.pos = <<0, 0>>
  BY DEF NotStarted
<1>3. SizeOf(con') = s
  BY <1>1, <1>2 DEF SizeOf, NoSize
<1>4. SizeOf(con)' = s
  BY <1>3, SizeNext
<1>5. con.pos' = empty.pos /\ cells' = empty.cells
  BY <1>1, <1>2
<1> QED
  BY <1>4, <1>5 DEF T!Clear

(* GraphicsConsoleConOutSetAttribute.                                      *)
LEMMA SetAttributeMaps ==
  ASSUME GfxInv, NEW a \in Nat, SetAttribute(a) PROVE UNCHANGED T!vars
<1> DEFINE v == Attributed(Screen, a)
<1>1. con' = v.con /\ cells' = v.cells /\ con \in Consoles
  BY DEF SetAttribute, Becomes, GfxInv, Driven
<1>2. Shows(v) = Shows(Screen)
  BY <1>1, ScreenShape, AttributedShows
<1> HIDE DEF v
<1> QED
  BY <1>1, <1>2, ShownSame

(* GraphicsConsoleConOutEnableCursor.                                      *)
LEMMA EnableCursorMaps ==
  ASSUME GfxInv, NEW b \in BOOLEAN, EnableCursor(b) PROVE UNCHANGED T!vars
<1> DEFINE f == FlushCursor(Screen)
           u == [f EXCEPT !.con.visible = b]
           k == [con EXCEPT !.visible = b]
           i == f.ink
<1>1. con' = FlushCursor(u).con /\ cells' = FlushCursor(u).cells /\ con \in Consoles
  BY DEF EnableCursor, Becomes, GfxInv, Driven
<1>2. k \in Consoles /\ k.pos = con.pos /\ k.mode = con.mode /\ k.gopMode = con.gopMode
  BY <1>1 DEF Consoles
<1>3. f = [con |-> Screen.con, cells |-> Screen.cells, ink |-> i, wide |-> Screen.wide,
           lost |-> Screen.lost]
  BY ScreenShape, FlushShape
<1>4. u = [f EXCEPT !.con = [f.con EXCEPT !.visible = b]] /\ f = FlushCursor(Screen)
  OBVIOUS
<1> HIDE DEF i, f, u
<1>5. f.con = con
  BY <1>3, ScreenShape
<1>6. u = [FlushCursor(Screen) EXCEPT !.con = k]
  BY <1>4, <1>5
<1> HIDE DEF k
<1>7. Shows(FlushCursor(u)) = Shows(Screen)
  BY <1>1, <1>2, <1>6, ScreenShape, RecolouredSame
<1> QED
  BY <1>1, <1>7, ShownSame

(* GraphicsConsoleConOutSetCursorPosition.                                 *)
LEMMA SetCursorPositionMaps ==
  ASSUME GfxInv, NEW p, SetCursorPosition(p) PROVE T!Move
<1> DEFINE f == FlushCursor(Screen)
           m == At(f, p[1], p[2])
           v == FlushCursor(m)
<1>1. con.mode # None /\ p \in DOMAIN cells /\ con' = v.con /\ cells' = v.cells
  BY DEF SetCursorPosition, Becomes
<1>2. Open(con) /\ Works(Screen, con) /\ Screen.cells = cells
  BY <1>1, ScreenWorks, ScreenShape
<1>3. p \in Window(con)
  BY <1>1, <1>2 DEF Works
<1>4. p[1] \in Int /\ p[2] \in Int /\ p = <<p[1], p[2]>>
  BY <1>2, <1>3, OpenSize DEF Window
<1>5. Works(f, con) /\ f.cells = cells
  BY <1>2, FlushFacts
<1> HIDE DEF f
<1>6. Works(m, con) /\ Column(m) = p[1] /\ Row(m) = p[2] /\ m.cells = cells
  BY <1>2, <1>4, <1>5, AtFacts
<1> HIDE DEF m
<1>7. Works(v, con) /\ Column(v) = p[1] /\ Row(v) = p[2] /\ v.cells = cells
  BY <1>2, <1>6, FlushFacts
<1> HIDE DEF v
<1>8. /\ v.con.pos = <<Column(v), Row(v)>> /\ v.con.mode = con.mode
      /\ v.con.gopMode = con.gopMode
  BY <1>2, <1>7, WorkFields
<1>9. SizeOf(con') = SizeOf(con) /\ con'.pos = p
  BY <1>1, <1>4, <1>7, <1>8, SizeKept
<1> QED
  BY <1>1, <1>7, <1>9, SizeNext DEF T!Move

(* Others that draw leave a blank window.                                  *)
LEMMA ForeignMaps == ASSUME NEW m, Foreign(m) PROVE T!Wiped
<1>1. cells' = T!BlankWindow(SizeOf(con)) /\ con' = con
  BY DEF Foreign
<1>2. SizeOf(con)' = SizeOf(con) /\ con.pos' = con.pos
  BY <1>1, SizeNext
<1> QED
  BY <1>1, <1>2 DEF T!Wiped

(* A console that is not started is a terminal without a window.           *)
LEMMA InitMaps == Init => T!Init
<1> SUFFICES ASSUME Init PROVE T!Init
  OBVIOUS
<1>1. con = NotStarted /\ cells = T!BlankWindow(<<0, 0>>)
  BY DEF Init, NoSize
<1>2. NotStarted.mode = None /\ NotStarted.pos = <<0, 0>>
  BY DEF NotStarted
<1>3. SizeOf(con) = <<0, 0>> /\ con.pos = <<0, 0>>
  BY <1>1, <1>2 DEF SizeOf, NoSize
<1> QED
  BY <1>1, <1>3 DEF T!Init

(* Every step of the console is one of the terminal, or shows the same.    *)
LEMMA StepMaps == GfxInv /\ [Next]_vars => [T!Next]_(T!vars)
<1> SUFFICES ASSUME GfxInv, [Next]_vars PROVE T!Next \/ UNCHANGED T!vars
  OBVIOUS
<1>1. CASE RegisterFontPackage
  BY <1>1, SameMaps DEF RegisterFontPackage
<1>2. CASE \E res \in ToSet(GopModes) : Start(res)
  BY <1>2, StartMaps DEF T!Next
<1>3. CASE Stop
  BY <1>3, StopMaps DEF T!Next
<1>4. CASE Reset
  BY <1>4, ConsoleResetMaps DEF T!Next
<1>5. CASE \E s \in Strings : OutputString(s)
  BY <1>5, OutputStringMaps DEF T!Next
<1>6. CASE ClearScreen
  BY <1>6, ClearScreenMaps DEF T!Next
<1>7. CASE \E m \in 0 .. Len(Defined) + 3 : SetMode(m)
  BY <1>7, SetModeMaps, GfxAssumption DEF T!Next
<1>8. CASE \E a \in Colours : SetAttribute(a)
  BY <1>8, SetAttributeMaps, GfxAssumption
<1>9. CASE \E p \in Places : SetCursorPosition(p)
  BY <1>9, SetCursorPositionMaps DEF T!Next
<1>10. CASE \E v \in BOOLEAN : EnableCursor(v)
  BY <1>10, EnableCursorMaps
<1>11. CASE \E m \in 0 .. Len(GopModes) - 1 : Foreign(m)
  BY <1>11, ForeignMaps DEF T!Next
<1>12. CASE UNCHANGED vars
  BY <1>12, SameMaps DEF vars
<1> QED
  BY <1>1, <1>2, <1>3, <1>4, <1>5, <1>6, <1>7, <1>8, <1>9, <1>10, <1>11, <1>12 DEF Next

(* For any strings, sizes and modes: the console is a terminal.  A string  *)
(* that GraphicsConsoleConOutOutputString writes in runs, with its nested  *)
(* calls for the end of a row, a backspace and a wide character that only  *)
(* half fits, shows and moves what its characters do one by one; the mode  *)
(* calls clear, and nothing else changes the characters.                   *)
THEOREM ConsoleIsTerminal == Spec => TerminalSpec
<1> QED
  BY InitKept, GfxStep, InitMaps, StepMaps, PTL DEF Spec, TerminalSpec, T!Spec
=============================================================================
