-------------------------- MODULE ProofLemmas ----------------------------
(***************************************************************************)
(* Facts about lists of records, as the SMI dispatchers keep them, about   *)
(* division, and about least elements and induction, for the proofs.       *)
(* Induction is stated with sets, so that it can be cited.                 *)
(***************************************************************************)
EXTENDS Integers, Sequences, SequencesExt, SequenceTheorems, WellFoundedInduction, TLAPS

\* A list without repetitions.
Distinct(list) == \A i, j \in DOMAIN list : list[i] = list[j] => i = j

\* A set of numbers that is not empty has a least element.
LEMMA Minimum ==
  ASSUME NEW S \in SUBSET Nat, S # {}
  PROVE  \E m \in S : \A n \in S : m <= n
<1> DEFINE R == {ss \in Nat \X Nat : ss[1] < ss[2]}
<1>1. IsWellFoundedOn(R, Nat)
  BY NatLessThanWellFounded, Zenon DEF OpToRel
<1>2. \A m, n \in Nat : <<n, m>> \notin R => m <= n
  OBVIOUS
<1> HIDE DEF R
<1>3. PICK m \in S : \A n \in S : <<n, m>> \notin R
  BY <1>1, WFMin, Zenon
<1>4. \A n \in S : m <= n
  BY <1>2, <1>3, Zenon
<1> QED BY <1>4

\* A set that has 0 and is closed under successor has every number.
LEMMA Induction ==
  ASSUME NEW S, 0 \in S, \A n \in Nat : n \in S => n + 1 \in S
  PROVE  Nat \subseteq S
<1> SUFFICES ASSUME NEW n \in Nat, n \notin S PROVE FALSE
  OBVIOUS
<1> DEFINE Others == {m \in Nat : m \notin S}
<1>1. PICK m \in Others : \A k \in Others : m <= k
  BY Minimum
<1>2. m # 0 /\ m - 1 \in Nat /\ m - 1 \notin Others
  BY <1>1
<1> QED BY <1>1, <1>2

\* A function that is defined by recursion to smaller arguments exists.
Descends(N, V, D, next, step, stop) ==
  /\ N \in Nat /\ D \in SUBSET (0..N)
  /\ next \in [D -> Nat] /\ \A n \in D : next[n] < n
  /\ step \in [D \X V -> V] /\ stop \in [0..N -> V]
Recurs(f, N, D, next, step, stop) ==
  \A n \in 0..N : f[n] = IF n \in D THEN step[<<n, f[next[n]]>>] ELSE stop[n]
LEMMA Recursion ==
  ASSUME NEW N, NEW V, NEW D, NEW next, NEW step, NEW stop, Descends(N, V, D, next, step, stop)
  PROVE  \E f \in [0..N -> V] : Recurs(f, N, D, next, step, stop)
<1> USE DEF Descends, Recurs
<1> DEFINE Rec(f, k) == \A n \in 0..k : f[n] = IF n \in D THEN step[<<n, f[next[n]]>>] ELSE stop[n]
           S == {k \in Nat : k <= N => \E f \in [0..k -> V] : Rec(f, k)}
<1>1. 0 \in S
  <2> DEFINE f == [n \in 0..0 |-> stop[n]]
  <2>1. 0 \notin D
    OBVIOUS
  <2>2. f \in [0..0 -> V] /\ Rec(f, 0)
    BY <2>1
  <2> QED BY <2>2
<1>2. ASSUME NEW k \in Nat, k \in S PROVE k + 1 \in S
  <2> SUFFICES ASSUME k + 1 <= N PROVE \E f \in [0..(k + 1) -> V] : Rec(f, k + 1)
    OBVIOUS
  <2>1. k <= N
    OBVIOUS
  <2>2. PICK f \in [0..k -> V] : Rec(f, k)
    BY <1>2, <2>1
  <2> DEFINE v == IF k + 1 \in D THEN step[<<k + 1, f[next[k + 1]]>>] ELSE stop[k + 1]
             g == [n \in 0..(k + 1) |-> IF n <= k THEN f[n] ELSE v]
  <2>3. v \in V
    <3>1. CASE k + 1 \in D
      <4>1. next[k + 1] \in 0..k
        BY <3>1
      <4>2. <<k + 1, f[next[k + 1]]>> \in D \X V
        BY <2>2, <3>1, <4>1
      <4> QED BY <3>1, <4>2
    <3>2. CASE k + 1 \notin D
      BY <2>1, <3>2
    <3> QED BY <3>1, <3>2
  <2>4. /\ \A n \in 0..k : g[n] = f[n]
        /\ g[k + 1] = v
    OBVIOUS
  <2>5. g \in [0..(k + 1) -> V]
    BY <2>2, <2>3
  <2>6. ASSUME NEW n \in 0..(k + 1)
        PROVE  g[n] = IF n \in D THEN step[<<n, g[next[n]]>>] ELSE stop[n]
    <3>1. n \in D => next[n] \in 0..k
      OBVIOUS
    <3>2. n \in D => g[next[n]] = f[next[n]]
      BY <2>4, <3>1
    <3>3. CASE n \in 0..k
      <4> HIDE DEF g
      <4> QED BY <2>2, <2>4, <3>2, <3>3
    <3>4. CASE n = k + 1
      <4> HIDE DEF g
      <4> QED BY <2>4, <3>2, <3>4
    <3> QED BY <3>3, <3>4
  <2> HIDE DEF g
  <2> QED BY <2>5, <2>6
<1>3. N \in S
  <2> HIDE DEF S
  <2> QED BY <1>1, <1>2, Induction
<1> QED BY <1>3

\* So does one that is defined by iteration.
Steps(N, V, first, step) == N \in Nat /\ first \in V /\ step \in [(1..N) \X V -> V]
Iterates(f, N, first, step) == f = [n \in 0..N |-> IF n = 0 THEN first ELSE step[<<n, f[n - 1]>>]]
LEMMA Iteration ==
  ASSUME NEW N, NEW V, NEW first, NEW step, Steps(N, V, first, step)
  PROVE  \E f \in [0..N -> V] : Iterates(f, N, first, step)
<1> DEFINE D == 1..N
           next == [n \in D |-> n - 1]
           stop == [n \in 0..N |-> first]
<1>1. N \in Nat /\ D \in SUBSET (0..N) /\ next \in [D -> Nat] /\ (\A n \in D : next[n] < n)
  BY DEF Steps
<1>2. step \in [D \X V -> V] /\ stop \in [0..N -> V]
  BY DEF Steps
<1>3. \A n \in D : next[n] = n - 1
  OBVIOUS
<1>4. \A n \in 0..N : stop[n] = first /\ (n \in D <=> n # 0)
  BY <1>1
<1> HIDE DEF D, next, stop
<1>5. Descends(N, V, D, next, step, stop)
  BY <1>1, <1>2 DEF Descends
<1>6. PICK f \in [0..N -> V] : Recurs(f, N, D, next, step, stop)
  BY <1>5, Recursion
<1>7. \A n \in 0..N : f[n] = IF n = 0 THEN first ELSE step[<<n, f[n - 1]>>]
  BY <1>3, <1>4, <1>6 DEF Recurs
<1> QED BY <1>7 DEF Iterates

\* Recursion along a measure: what is computed for x depends on what was
\* computed for values of a smaller measure.
Measured(D, V, measure, step) ==
  /\ measure \in [D -> Nat] /\ step \in [D \X [D -> V] -> V]
  /\ \A x \in D : \A g, h \in [D -> V] :
       (\A y \in D : measure[y] < measure[x] => g[y] = h[y]) => step[<<x, g>>] = step[<<x, h>>]
LEMMA MeasuredRecursion ==
  ASSUME NEW D, NEW V, NEW measure, NEW step, Measured(D, V, measure, step), V # {},
         NEW N \in Nat, \A x \in D : measure[x] < N
  PROVE  \E g \in [D -> V] : \A x \in D : g[x] = step[<<x, g>>]
<1> DEFINE S == {n \in Nat : \E g \in [D -> V] : \A x \in D : measure[x] < n => g[x] = step[<<x, g>>]}
<1>1. \A x \in D : measure[x] \in Nat
  BY DEF Measured
<1>2. 0 \in S
  <2>1. PICK v : v \in V
    OBVIOUS
  <2>2. [x \in D |-> v] \in [D -> V] /\ \A x \in D : ~(measure[x] < 0)
    BY <1>1, <2>1
  <2> QED BY <2>2
<1>3. ASSUME NEW n \in Nat, n \in S PROVE n + 1 \in S
  <2>1. PICK g \in [D -> V] : \A x \in D : measure[x] < n => g[x] = step[<<x, g>>]
    BY <1>3
  <2> DEFINE h == [x \in D |-> step[<<x, g>>]]
  <2>2. h \in [D -> V] /\ \A x \in D : h[x] = step[<<x, g>>]
    BY DEF Measured
  <2> HIDE DEF h
  <2>3. \A x \in D : measure[x] < n => h[x] = g[x]
    BY <2>1, <2>2
  <2>4. ASSUME NEW x \in D, measure[x] < n + 1 PROVE h[x] = step[<<x, h>>]
    <3>1. ASSUME NEW y \in D, measure[y] < measure[x] PROVE g[y] = h[y]
      <4>1. measure[y] < n
        BY <1>1, <2>4, <3>1
      <4> QED BY <2>3, <4>1
    <3>2. step[<<x, g>>] = step[<<x, h>>]
      BY <2>2, <3>1 DEF Measured
    <3> QED BY <2>2, <3>2
  <2> QED BY <2>2, <2>4
<1>4. Nat \subseteq S
  <2> HIDE DEF S
  <2> QED BY <1>2, <1>3, Induction
<1> QED BY <1>4

\* Division with remainder.
LEMMA Quotient ==
  ASSUME NEW x \in Nat, NEW l \in Nat \ {0}
  PROVE  /\ x \div l \in Nat /\ l * (x \div l) <= x /\ x < l * (x \div l) + l
         /\ x % l = x - l * (x \div l)
<1> DEFINE q == x \div l
<1>1. q \in Nat /\ l * q <= x /\ x < l * q + l
  OBVIOUS
<1> HIDE DEF q
<1>2. \A r \in Nat : r < l /\ x = l * q + r => x % l = r
  BY <1>1
<1> QED BY <1>1, <1>2 DEF q

\* An element is taken out of a list.
LEMMA RemoveAtFacts ==
  ASSUME NEW S, NEW list \in Seq(S), NEW i \in DOMAIN list
  PROVE  /\ RemoveAt(list, i) \in Seq(S) /\ Len(RemoveAt(list, i)) = Len(list) - 1
         /\ \A j \in 1..(Len(list) - 1) : RemoveAt(list, i)[j] = list[IF j < i THEN j ELSE j + 1]
<1> DEFINE before == SubSeq(list, 1, i - 1)
           after == SubSeq(list, i + 1, Len(list))
<1>1. Len(list) \in Nat /\ i \in 1..Len(list) /\ \A j \in 1..Len(list) : list[j] \in S
  BY LenProperties, ElementOfSeq
<1>2. before \in Seq(S) /\ Len(before) = i - 1 /\ \A j \in 1..(i - 1) : before[j] = list[j]
  BY <1>1, SubSeqProperties
<1>3. /\ after \in Seq(S) /\ Len(after) = Len(list) - i
      /\ \A j \in 1..(Len(list) - i) : after[j] = list[i + j]
  <2>1. after \in Seq(S) /\ Len(after) = Len(list) - i
    BY <1>1, SubSeqProperties
  <2>2. /\ i + 1 \in Int /\ Len(list) \in Int
        /\ \A k \in (i + 1)..Len(list) : list[k] \in S
    BY <1>1
  <2>3. \A j \in 1..(Len(list) - (i + 1) + 1) : after[j] = list[i + 1 + j - 1]
    BY <2>2, SubSeqProperties
  <2>4. /\ Len(list) - (i + 1) + 1 = Len(list) - i
        /\ \A j \in 1..(Len(list) - i) : i + 1 + j - 1 = i + j
    BY <1>1
  <2>5. \A j \in 1..(Len(list) - i) : after[j] = list[i + j]
    BY <2>3, <2>4
  <2> QED BY <2>1, <2>5
<1> HIDE DEF before, after
<1>4. /\ before \o after \in Seq(S) /\ Len(before \o after) = Len(before) + Len(after)
      /\ \A j \in 1..(Len(before) + Len(after)) :
           (before \o after)[j] = IF j <= Len(before) THEN before[j] ELSE after[j - Len(before)]
  BY <1>2, <1>3, ConcatProperties, Zenon
<1>5. \A j \in 1..(Len(list) - 1) : (before \o after)[j] = list[IF j < i THEN j ELSE j + 1]
  <2> SUFFICES ASSUME NEW j \in 1..(Len(list) - 1)
               PROVE  (before \o after)[j] = list[IF j < i THEN j ELSE j + 1]
    OBVIOUS
  <2>1. (before \o after)[j] = IF j <= i - 1 THEN before[j] ELSE after[j - (i - 1)]
    <3>1. Len(before) = i - 1 /\ j \in 1..(Len(before) + Len(after))
      BY <1>1, <1>2, <1>3
    <3> QED BY <1>4, <3>1
  <2>2. CASE j < i
    <3>1. j \in 1..(i - 1) /\ j <= i - 1
      BY <1>1, <2>2
    <3> QED BY <1>2, <2>1, <2>2, <3>1
  <2>3. CASE ~(j < i)
    <3>1. (before \o after)[j] = after[j - (i - 1)]
      <4>1. ~(j <= i - 1)
        BY <1>1, <2>3
      <4> QED BY <2>1, <4>1
    <3>2. j - (i - 1) \in 1..(Len(list) - i) /\ i + (j - (i - 1)) = j + 1
      BY <1>1, <2>3
    <3> QED BY <1>3, <2>3, <3>1, <3>2
  <2> QED BY <2>2, <2>3
<1>6. Len(before \o after) = Len(list) - 1
  BY <1>1, <1>2, <1>3, <1>4
<1>7. RemoveAt(list, i) = before \o after
  BY DEF RemoveAt, before, after
<1> HIDE DEF RemoveAt
<1> QED BY <1>4, <1>5, <1>6, <1>7

\* A list without repetitions loses the element, and no other one.
LEMMA RemoveAtRange ==
  ASSUME NEW S, NEW list \in Seq(S), NEW i \in DOMAIN list, Distinct(list)
  PROVE  Range(RemoveAt(list, i)) = Range(list) \ {list[i]} /\ Distinct(RemoveAt(list, i))
<1> DEFINE new == RemoveAt(list, i)
           n == Len(list)
           old(j) == IF j < i THEN j ELSE j + 1
<1>1. n \in Nat /\ i \in 1..n /\ DOMAIN list = 1..n
  BY LenProperties
<1>2. new \in Seq(S) /\ Len(new) = n - 1 /\ \A j \in 1..(n - 1) : new[j] = list[old(j)]
  BY RemoveAtFacts
<1>3. DOMAIN new = 1..(n - 1)
  BY <1>2, LenProperties
<1> HIDE DEF new, n
<1>4. Distinct(new)
  <2>1. \A j, k \in 1..(n - 1) : /\ old(j) \in 1..n
                                 /\ old(j) = old(k) => j = k
    BY <1>1
  <2> HIDE DEF old
  <2> QED BY <1>1, <1>2, <1>3, <2>1 DEF Distinct
<1>5. ASSUME NEW x \in Range(new)
      PROVE  x \in Range(list) /\ x # list[i]
  <2>1. PICK j \in 1..(n - 1) : x = list[old(j)]
    BY <1>2, <1>3 DEF Range
  <2>2. old(j) \in 1..n /\ old(j) # i
    BY <1>1
  <2> HIDE DEF old
  <2> QED BY <1>1, <2>1, <2>2 DEF Range, Distinct
<1>6. ASSUME NEW x \in Range(list), x # list[i]
      PROVE  x \in Range(new)
  <2>1. PICK k \in 1..n : x = list[k] /\ k # i
    BY <1>1, <1>6 DEF Range
  <2>2. \E j \in 1..(n - 1) : old(j) = k
    <3>1. CASE k < i
      <4>1. k \in 1..(n - 1) /\ old(k) = k
        BY <1>1, <3>1
      <4> QED BY <4>1
    <3>2. CASE k > i
      <4>1. k - 1 \in 1..(n - 1) /\ old(k - 1) = k
        BY <1>1, <3>2
      <4> QED BY <4>1
    <3> QED BY <1>1, <2>1, <3>1, <3>2
  <2> HIDE DEF old
  <2> QED BY <1>2, <1>3, <2>1, <2>2 DEF Range
<1> QED BY <1>4, <1>5, <1>6 DEF new

\* The range of a list.
LEMMA RangeOfList ==
  ASSUME NEW S, NEW list \in Seq(S)
  PROVE  Range(list) \subseteq S
BY LenProperties, ElementOfSeq DEF Range

\* The range of a list that an element is appended to.
LEMMA AppendRange ==
  ASSUME NEW S, NEW list \in Seq(S), NEW e \in S
  PROVE  /\ Append(list, e) \in Seq(S)
         /\ Range(Append(list, e)) = Range(list) \cup {e}
         /\ Distinct(list) /\ e \notin Range(list) => Distinct(Append(list, e))
<1>1. /\ Len(list) \in Nat /\ DOMAIN list = 1..Len(list)
  BY LenProperties
<1> DEFINE new == Append(list, e)
           n == Len(list)
<1>2. /\ new \in Seq(S) /\ DOMAIN new = 1..(n + 1)
      /\ \A i \in 1..n : new[i] = list[i]
      /\ new[n + 1] = e
  <2>1. new \in Seq(S) /\ Len(new) = n + 1 /\ \A i \in 1..n : new[i] = list[i] /\ new[n + 1] = e
    BY AppendProperties
  <2>2. DOMAIN new = 1..Len(new)
    BY <2>1, LenProperties
  <2>3. new[n + 1] = e
    BY AppendProperties
  <2> QED BY <2>1, <2>2, <2>3
<1> HIDE DEF new, n
<1>3. n \in Nat /\ DOMAIN list = 1..n /\ 1..(n + 1) = 1..n \cup {n + 1} /\ n + 1 \notin 1..n
  BY <1>1 DEF n
<1>4. Range(new) = Range(list) \cup {e}
  <2>1. ASSUME NEW x \in Range(new) PROVE x \in Range(list) \cup {e}
    BY <1>2, <1>3, <2>1 DEF Range
  <2>2. ASSUME NEW x \in Range(list) PROVE x \in Range(new)
    BY <1>2, <1>3, <2>2 DEF Range
  <2>3. e \in Range(new)
    BY <1>2, <1>3 DEF Range
  <2> QED BY <2>1, <2>2, <2>3
<1>5. ASSUME Distinct(list), e \notin Range(list)
      PROVE  Distinct(new)
  <2>1. \A i \in 1..n : list[i] # e
    BY <1>3, <1>5 DEF Range
  <2> QED BY <1>2, <1>3, <1>5, <2>1 DEF Distinct
<1> QED BY <1>2, <1>4, <1>5 DEF new
=============================================================================
