---------------------- MODULE CpuMemoryAttributes_proof ----------------------
(***************************************************************************)
(* What the MTRR library and its users keep right for any number of MTRRs, *)
(* any width of addresses, any APs and any sequence of requests.           *)
(***************************************************************************)
EXTENDS CpuMemoryAttributes, ProofLemmas, FiniteSetTheorems, TLAPS

-----------------------------------------------------------------------------
(* The fixed MTRRs.                                                        *)

Contents == [Fixed -> [0..(SubRanges - 1) -> Types]]

\* The table of the fixed MTRRs has numbers and leaves no gap below 1MB.
LEMMA TableFacts ==
  /\ Len(FixedTable) \in Nat /\ Len(FixedTable) > 0 /\ Fixed = 1..Len(FixedTable)
  /\ SubRanges \in Nat
  /\ \A m \in Fixed : /\ FixedTable[m].base \in Nat /\ FixedTable[m].len \in Nat \ {0}
                      /\ FixedEnd(m) \in Nat
                      /\ FixedEnd(m) = FixedTable[m].base + SubRanges * FixedTable[m].len
  /\ BASE_1MB \in Nat
<1>1. FixedTable \in Seq([base : Nat, len : Nat \ {0}]) /\ Len(FixedTable) > 0 /\ SubRanges \in Nat
  BY MtrrAssumption
<1>2. Len(FixedTable) \in Nat /\ Fixed = 1..Len(FixedTable)
  BY <1>1 DEF Fixed
<1>3. \A m \in Fixed : FixedTable[m] \in [base : Nat, len : Nat \ {0}]
  BY <1>1, <1>2, ElementOfSeq
<1>4. \A x, y \in Nat : x * y \in Nat
  OBVIOUS
<1>5. \A m \in Fixed : FixedTable[m].base \in Nat /\ FixedTable[m].len \in Nat \ {0}
  BY <1>3
<1>6. \A m \in Fixed : FixedEnd(m) \in Nat /\ FixedEnd(m) = FixedTable[m].base + SubRanges * FixedTable[m].len
  <2> SUFFICES ASSUME NEW m \in Fixed PROVE FixedTable[m].base + SubRanges * FixedTable[m].len \in Nat
    BY DEF FixedEnd
  <2>1. SubRanges * FixedTable[m].len \in Nat
    BY <1>1, <1>4, <1>5
  <2> QED BY <1>5, <2>1
<1> QED BY <1>1, <1>2, <1>5, <1>6 DEF BASE_1MB

LEMMA TableCovers ==
  ASSUME NEW a \in Nat, a < BASE_1MB
  PROVE  \E m \in Fixed : FixedTable[m].base <= a /\ a < FixedEnd(m)
<1> DEFINE Ends == {m \in Fixed : a < FixedEnd(m)}
<1>1. Ends \in SUBSET Nat /\ Len(FixedTable) \in Ends
  BY TableFacts DEF BASE_1MB
<1>2. PICK m \in Ends : \A n \in Ends : m <= n
  BY <1>1, Minimum
<1>3. CASE m = 1
  BY <1>2, <1>3, MtrrAssumption, TableFacts
<1>4. CASE m # 1
  <2>1. m \in Fixed /\ FixedTable[m].base = FixedEnd(m - 1)
    BY <1>2, <1>4, MtrrAssumption
  <2>2. m \in 1..Len(FixedTable) /\ Len(FixedTable) \in Nat /\ Fixed = 1..Len(FixedTable)
    BY <2>1, TableFacts
  <2>3. m - 1 \in Fixed /\ ~(m <= m - 1)
    BY <1>4, <2>2
  <2>4. m - 1 \notin Ends
    BY <1>2, <2>3
  <2>5. FixedEnd(m - 1) \in Nat
    BY <2>3, TableFacts
  <2> QED BY <1>2, <2>1, <2>3, <2>4, <2>5
<1> QED BY <1>3, <1>4

\* The MTRRs follow each other, so that an address is in one of them.
LEMMA TableAscends ==
  ASSUME NEW m \in Fixed, NEW n \in Fixed, m < n
  PROVE  FixedEnd(m) <= FixedTable[n].base
<1> DEFINE S == {k \in Nat : m + 1 + k \in Fixed => FixedEnd(m) <= FixedTable[m + 1 + k].base}
<1>1. 0 \in S
  <2> SUFFICES ASSUME m + 1 + 0 \in Fixed PROVE FixedEnd(m) <= FixedTable[m + 1 + 0].base
    OBVIOUS
  <2>1. m \in Nat /\ m + 1 + 0 = m + 1 /\ m + 1 \in Fixed \ {1} /\ (m + 1) - 1 = m /\ FixedEnd(m) \in Nat
    BY TableFacts
  <2>2. FixedTable[m + 1].base = FixedEnd((m + 1) - 1)
    BY <2>1, MtrrAssumption
  <2> QED BY <2>1, <2>2
<1>2. ASSUME NEW k \in Nat, k \in S PROVE k + 1 \in S
  <2> SUFFICES ASSUME m + 1 + (k + 1) \in Fixed PROVE FixedEnd(m) <= FixedTable[m + 1 + (k + 1)].base
    OBVIOUS
  <2> DEFINE j == m + 1 + k
  <2>1. m \in Nat /\ j + 1 = m + 1 + (k + 1) /\ j \in Fixed /\ j + 1 \in Fixed \ {1} /\ (j + 1) - 1 = j
    BY TableFacts
  <2>2. FixedEnd(m) <= FixedTable[j].base
    BY <1>2, <2>1
  <2>3. FixedTable[j + 1].base = FixedEnd(j)
    BY <2>1, MtrrAssumption
  <2> HIDE DEF j
  <2>4. FixedTable[j].base <= FixedEnd(j)
    <3> DEFINE l == FixedTable[j].len
    <3>1. SubRanges \in Nat /\ l \in Nat /\ FixedTable[j].base \in Nat
      BY <2>1, TableFacts
    <3>2. SubRanges * l \in Nat
      <4> HIDE DEF l
      <4> QED BY <3>1
    <3>3. FixedEnd(j) = FixedTable[j].base + SubRanges * FixedTable[j].len
      BY <2>1, TableFacts
    <3> HIDE DEF S
    <3> QED BY <3>1, <3>2, <3>3
  <2>5. FixedEnd(m) \in Nat /\ FixedEnd(j) \in Nat /\ FixedTable[j].base \in Nat
    BY <2>1, TableFacts
  <2>6. FixedEnd(m) <= FixedTable[j + 1].base
    BY <2>2, <2>3, <2>4, <2>5
  <2> QED BY <2>1, <2>6
<1>3. Nat \subseteq S
  <2> HIDE DEF S
  <2> QED BY <1>1, <1>2, Induction
<1>4. n - m - 1 \in Nat /\ m + 1 + (n - m - 1) = n
  BY TableFacts
<1>5. n - m - 1 \in S
  BY <1>3, <1>4
<1> QED BY <1>4, <1>5

\* They end at 1MB.
LEMMA TableEnds ==
  ASSUME NEW m \in Fixed
  PROVE  FixedEnd(m) <= BASE_1MB
<1> DEFINE n == Len(FixedTable)
<1>1. n \in Fixed /\ m \in Nat /\ n \in Nat /\ m <= n /\ FixedEnd(m) \in Nat /\ FixedEnd(n) \in Nat
  BY TableFacts
<1>2. FixedTable[n].base <= FixedEnd(n)
  <2>1. SubRanges * FixedTable[n].len \in Nat /\ FixedTable[n].base \in Nat
    BY <1>1, TableFacts
  <2>2. FixedEnd(n) = FixedTable[n].base + SubRanges * FixedTable[n].len
    BY <1>1, TableFacts
  <2> HIDE DEF n
  <2> QED BY <2>1, <2>2
<1>3. m # n => FixedEnd(m) <= FixedTable[n].base
  <2> HIDE DEF n
  <2> QED BY <1>1, TableAscends
<1>4. FixedTable[n].base \in Nat
  BY <1>1, TableFacts
<1>5. FixedEnd(m) <= FixedEnd(n)
  <2> HIDE DEF n
  <2> QED BY <1>1, <1>2, <1>3, <1>4
<1> QED BY <1>5 DEF BASE_1MB

LEMMA OneMtrr ==
  ASSUME NEW a \in Nat, NEW m \in Fixed, NEW n \in Fixed,
         FixedTable[m].base <= a, a < FixedEnd(m), FixedTable[n].base <= a, a < FixedEnd(n)
  PROVE  m = n
<1>1. m \in Nat /\ n \in Nat /\ FixedEnd(m) \in Nat /\ FixedEnd(n) \in Nat
      /\ FixedTable[m].base \in Nat /\ FixedTable[n].base \in Nat
  BY TableFacts
<1>2. ~(m < n) /\ ~(n < m)
  BY <1>1, TableAscends
<1> QED BY <1>1, <1>2

\* Contents that are the same wherever an address is have the same type there.
LEMMA SameType ==
  ASSUME NEW f, NEW g, NEW a \in Nat, a < BASE_1MB,
         \A m \in Fixed : FixedTable[m].base <= a /\ a < FixedEnd(m) =>
           f[m][(a - FixedTable[m].base) \div FixedTable[m].len] =
             g[m][(a - FixedTable[m].base) \div FixedTable[m].len]
  PROVE  FixedType(f, a) = FixedType(g, a)
<1> DEFINE m == CHOOSE n \in Fixed : FixedTable[n].base <= a /\ a < FixedEnd(n)
<1>1. m \in Fixed /\ FixedTable[m].base <= a /\ a < FixedEnd(m)
  BY TableCovers
<1>2. /\ FixedType(f, a) = f[m][(a - FixedTable[m].base) \div FixedTable[m].len]
      /\ FixedType(g, a) = g[m][(a - FixedTable[m].base) \div FixedTable[m].len]
  BY DEF FixedType
<1> HIDE DEF m
<1> QED BY <1>1, <1>2

\* The type of a in the contents f of the m-th MTRR.
At(m, a) == FixedTable[m].base <= a /\ a < FixedEnd(m)
TypeAt(f, m, a) == f[m][(a - FixedTable[m].base) \div FixedTable[m].len]

\* The state of the loop over the fixed MTRRs: what is left of the request, in
\* front of which the type is set, and outside of which nothing has changed.
FixedState(s, fixed, base, len, type) ==
  /\ s \in [ok : BOOLEAN, base : Nat, len : Nat, fixed : Contents]
  /\ base <= s.base /\ s.base + s.len = base + len
  /\ s.base = base \/ s.base <= BASE_1MB
  /\ \A m \in Fixed, a \in Nat :
       At(m, a) => /\ a < base \/ base + len <= a => TypeAt(s.fixed, m, a) = TypeAt(fixed, m, a)
                   /\ base <= a /\ a < s.base => TypeAt(s.fixed, m, a) = type

LEMMA FixedStep ==
  ASSUME NEW fixed, NEW base \in Nat, NEW len \in Nat, NEW type \in Types, NEW s, NEW m \in Fixed,
         FixedState(s, fixed, base, len, type)
  PROVE  FixedState(ProgramFixedMtrr(s, m, type), fixed, base, len, type)
<1> DEFINE L == FixedTable[m].len
           tb == FixedTable[m].base
           B == (s.base - tb) \div L
           q == s.len \div L
           n == Smaller(SubRanges - B, q)
           s2 == [s EXCEPT !.base = s.base + n * L, !.len = s.len - n * L,
                           !.fixed = [s.fixed EXCEPT ![m] = [i \in 0..(SubRanges - 1) |->
                                         IF B <= i /\ i < B + n THEN type ELSE s.fixed[m][i]]]]
<1>1. L \in Nat \ {0} /\ tb \in Nat /\ SubRanges \in Nat /\ FixedEnd(m) = tb + SubRanges * L /\ FixedEnd(m) \in Nat
  BY TableFacts
<1>2. s.base \in Nat /\ s.len \in Nat /\ s.fixed \in Contents
  BY DEF FixedState
<1>3. \/ ProgramFixedMtrr(s, m, type) = s
      \/ ProgramFixedMtrr(s, m, type) = [s EXCEPT !.ok = FALSE]
      \/ /\ ProgramFixedMtrr(s, m, type) = s2
         /\ s.len > 0 /\ tb <= s.base /\ s.base < FixedEnd(m) /\ (s.base - tb) % L = 0
  BY Zenon DEF ProgramFixedMtrr
<1>4. FixedState([s EXCEPT !.ok = FALSE], fixed, base, len, type)
  BY DEF FixedState
<1>5. ASSUME s.len > 0, tb <= s.base, s.base < FixedEnd(m), (s.base - tb) % L = 0
      PROVE  FixedState(s2, fixed, base, len, type)
  <2>1. B \in Nat /\ L * B = s.base - tb
    <3> DEFINE x == s.base - tb
    <3>1. x \in Nat /\ L \in Nat \ {0} /\ x % L = 0
      BY <1>1, <1>2, <1>5
    <3> HIDE DEF x, L
    <3>2. x \div L \in Nat /\ L * (x \div L) <= x /\ x % L = x - L * (x \div L)
      BY <3>1, Quotient
    <3>3. L * (x \div L) = x
      BY <3>1, <3>2
    <3> QED BY <3>2, <3>3 DEF x
  <2>2. q \in Nat /\ L * q <= s.len
    BY <1>1, <1>2, Quotient
  <2>3. B < SubRanges
    <3> SUFFICES ASSUME SubRanges <= B PROVE FALSE
      BY <1>1, <2>1
    <3>1. SubRanges * L <= L * B
      <4> HIDE DEF L, B
      <4> QED BY <1>1, <2>1
    <3> QED BY <1>1, <1>2, <1>5, <2>1, <3>1
  <2>4. n \in Nat /\ n <= q /\ B + n <= SubRanges
    <3> HIDE DEF q, B
    <3> QED BY <1>1, <2>1, <2>2, <2>3 DEF Smaller
  <2>5. n * L \in Nat /\ n * L <= s.len
    <3>1. n * L <= L * q /\ n * L \in Nat
      <4> HIDE DEF n, L, q
      <4> QED BY <1>1, <2>2, <2>4
    <3> HIDE DEF n, L, q
    <3> QED BY <1>1, <1>2, <2>2, <2>4, <3>1
  <2>6. s.base + n * L <= FixedEnd(m)
    <3> HIDE DEF L, B, n
    <3>1. L * (B + n) <= L * SubRanges /\ L * (B + n) = L * B + n * L
      BY <1>1, <2>1, <2>4
    <3> QED BY <1>1, <1>2, <2>1, <2>5, <3>1
  <2> DEFINE row == [i \in 0..(SubRanges - 1) |-> IF B <= i /\ i < B + n THEN type ELSE s.fixed[m][i]]
             F == [s.fixed EXCEPT ![m] = row]
  <2>7. row \in [0..(SubRanges - 1) -> Types] /\ F \in Contents
    <3>1. s.fixed[m] \in [0..(SubRanges - 1) -> Types]
      BY <1>2 DEF Contents
    <3> HIDE DEF B, n
    <3> QED BY <1>2, <3>1 DEF Contents
  <2>8. ASSUME NEW k \in Fixed, NEW a \in Nat, At(k, a)
        PROVE  TypeAt(F, k, a) = IF k = m /\ s.base <= a /\ a < s.base + n * L THEN type
                                 ELSE TypeAt(s.fixed, k, a)
    <3>1. CASE k # m
      BY <1>2, <3>1 DEF Contents, TypeAt
    <3>2. CASE k = m
      <4> DEFINE i == (a - tb) \div L
      <4>1. a - tb \in Nat /\ a < tb + SubRanges * L
        BY <1>1, <2>8, <3>2 DEF At
      <4>2. i \in Nat /\ L * i <= a - tb /\ a - tb < L * i + L
        BY <1>1, <4>1, Quotient
      <4>3. i < SubRanges
        <5> SUFFICES ASSUME SubRanges <= i PROVE FALSE
          BY <1>1, <4>2
        <5>1. SubRanges * L <= L * i
          <6> HIDE DEF L, i
          <6> QED BY <1>1, <4>2
        <5> HIDE DEF i
        <5> QED BY <1>1, <4>1, <4>2, <5>1
      <4>4. (B <= i /\ i < B + n) <=> (s.base <= a /\ a < s.base + n * L)
        <5> HIDE DEF L, i, B, n
        <5>1. \A x, y \in Nat : x <= y => L * x <= L * y
          BY <1>1
        <5>2. L * (i + 1) = L * i + L /\ L * (B + n) = L * B + n * L /\ L * i \in Nat /\ L * B \in Nat
          BY <1>1, <2>1, <2>4, <4>2
        <5>3. CASE i < B
          <6>1. L * (i + 1) <= L * B
            BY <2>1, <4>2, <5>1, <5>3
          <6> QED BY <1>1, <1>2, <2>1, <4>1, <4>2, <5>2, <5>3, <6>1
        <5>4. CASE B <= i /\ i < B + n
          <6>1. L * B <= L * i /\ L * (i + 1) <= L * (B + n)
            BY <2>1, <2>4, <4>2, <5>1, <5>4
          <6> QED BY <1>1, <1>2, <2>1, <2>5, <4>1, <4>2, <5>2, <5>4, <6>1
        <5>5. CASE B + n <= i
          <6>1. L * (B + n) <= L * i
            BY <2>1, <2>4, <4>2, <5>1, <5>5
          <6>2. s.base + n * L <= a
            BY <1>1, <1>2, <2>1, <2>5, <4>1, <4>2, <5>2, <6>1
          <6> QED BY <1>2, <2>1, <2>4, <2>5, <4>2, <5>5, <6>2
        <5> QED BY <2>1, <2>4, <4>2, <5>3, <5>4, <5>5
      <4>5. F[m][i] = IF B <= i /\ i < B + n THEN type ELSE s.fixed[m][i]
        <5> HIDE DEF i, B, n
        <5> QED BY <1>1, <1>2, <4>2, <4>3 DEF Contents
      <4>6. TypeAt(F, k, a) = F[m][i] /\ TypeAt(s.fixed, k, a) = s.fixed[m][i]
        BY <3>2 DEF TypeAt
      <4> HIDE DEF i, B, n, L, F
      <4> QED BY <3>2, <4>4, <4>5, <4>6
    <3> QED BY <3>1, <3>2
  <2>9. s.base + n * L \in Nat /\ s.len - n * L \in Nat /\ base <= s.base + n * L
        /\ (s.base + n * L) + (s.len - n * L) = base + len
    <3> HIDE DEF n, L
    <3> QED BY <1>2, <2>5 DEF FixedState
  <2> DEFINE b2 == s.base + n * L
             l2 == s.len - n * L
  <2>10. s2 = [s EXCEPT !.base = b2, !.len = l2, !.fixed = F]
    OBVIOUS
  <2>11. b2 \in Nat /\ l2 \in Nat /\ base <= b2 /\ b2 + l2 = base + len
    BY <2>9
  <2> HIDE DEF s2, b2, l2, F
  <2>12. /\ s2.base = b2 /\ s2.len = l2 /\ s2.fixed = F
         /\ s2 \in [ok : BOOLEAN, base : Nat, len : Nat, fixed : Contents]
    BY <2>7, <2>10, <2>11 DEF FixedState
  <2>13. b2 = s.base + n * L /\ s.base <= b2 /\ b2 <= s.base + s.len /\ b2 <= base + len
    BY <1>2, <2>5, <2>9 DEF b2, l2, FixedState
  <2>14. ASSUME NEW k \in Fixed, NEW a \in Nat, At(k, a)
         PROVE  /\ a < base \/ base + len <= a => TypeAt(F, k, a) = TypeAt(fixed, k, a)
                /\ base <= a /\ a < b2 => TypeAt(F, k, a) = type
    <3>1. /\ a < base \/ base + len <= a => TypeAt(s.fixed, k, a) = TypeAt(fixed, k, a)
          /\ base <= a /\ a < s.base => TypeAt(s.fixed, k, a) = type
          /\ base <= s.base
      BY <2>14 DEF FixedState
    <3>2. TypeAt(F, k, a) = IF k = m /\ s.base <= a /\ a < b2 THEN type ELSE TypeAt(s.fixed, k, a)
      BY <2>8, <2>13, <2>14
    <3>3. s.base <= a /\ a < b2 => k = m
      <4> SUFFICES ASSUME s.base <= a, a < b2 PROVE k = m
        OBVIOUS
      <4>1. tb <= a /\ a < FixedEnd(m)
        BY <1>1, <1>2, <1>5, <2>11, <2>13, <2>6
      <4> QED BY <2>14, <4>1, OneMtrr DEF At
    <3> QED BY <1>2, <2>11, <2>13, <3>1, <3>2, <3>3
  <2>15. b2 <= BASE_1MB
    <3>1. b2 <= FixedEnd(m) /\ FixedEnd(m) <= BASE_1MB
      BY <2>6, <2>13, TableEnds
    <3> QED BY <1>1, <2>11, <3>1, TableFacts
  <2> QED BY <2>11, <2>12, <2>14, <2>15 DEF FixedState
<1> HIDE DEF s2
<1> QED BY <1>3, <1>4, <1>5

\* Programming goes on to the end of the MTRR, unless the request ends there.
LEMMA FixedAdvances ==
  ASSUME NEW s \in [ok : BOOLEAN, base : Nat, len : Nat, fixed : Contents], NEW m \in Fixed, NEW type,
         s.ok /\ s.len > 0 => FixedTable[m].base <= s.base
  PROVE  LET t == ProgramFixedMtrr(s, m, type) IN t.ok /\ t.len > 0 => FixedEnd(m) <= t.base
<1> DEFINE L == FixedTable[m].len
           tb == FixedTable[m].base
           B == (s.base - tb) \div L
           q == s.len \div L
           n == Smaller(SubRanges - B, q)
           row == [i \in 0..(SubRanges - 1) |-> IF B <= i /\ i < B + n THEN type ELSE s.fixed[m][i]]
           b == s.base + n * L
           l == s.len - n * L
           t == [s EXCEPT !.base = b, !.len = l, !.fixed = [s.fixed EXCEPT ![m] = row]]
<1>1. L \in Nat \ {0} /\ tb \in Nat /\ SubRanges \in Nat /\ FixedEnd(m) = tb + SubRanges * L /\ FixedEnd(m) \in Nat
  BY TableFacts
<1>2. CASE ~(s.ok /\ s.len > 0 /\ tb <= s.base /\ s.base < FixedEnd(m))
  BY <1>1, <1>2 DEF ProgramFixedMtrr
<1>3. CASE /\ s.ok /\ s.len > 0 /\ tb <= s.base /\ s.base < FixedEnd(m)
           /\ (s.base - tb) % L # 0 \/ (B + n < SubRanges /\ s.len - n * L # 0)
  <2>1. ProgramFixedMtrr(s, m, type) = [s EXCEPT !.ok = FALSE]
    BY <1>3, Zenon DEF ProgramFixedMtrr
  <2> QED BY <2>1
<1>4. CASE /\ s.ok /\ s.len > 0 /\ tb <= s.base /\ s.base < FixedEnd(m)
           /\ (s.base - tb) % L = 0 /\ ~(B + n < SubRanges /\ s.len - n * L # 0)
  <2>1. ProgramFixedMtrr(s, m, type) = t
    BY <1>4, Zenon DEF ProgramFixedMtrr
  <2> DEFINE x == s.base - tb
  <2>2. x \in Nat /\ x % L = 0
    BY <1>1, <1>4
  <2>3. B \in Nat /\ L * B = x
    <3> HIDE DEF x, L
    <3>1. x \div L \in Nat /\ L * (x \div L) <= x /\ x % L = x - L * (x \div L)
      BY <1>1, <2>2, Quotient
    <3>2. B = x \div L
      BY DEF x
    <3> HIDE DEF B
    <3> QED BY <1>1, <2>2, <3>1, <3>2
  <2>4. q \in Nat
    BY <1>1, Quotient
  <2>5. n \in Int
    <3> HIDE DEF B, q
    <3> QED BY <1>1, <2>3, <2>4 DEF Smaller
  <2>6. b \in Int /\ l \in Int
    <3> HIDE DEF n, L
    <3>1. n * L \in Int
      BY <1>1, <2>5
    <3> QED BY <3>1
  <2>7. t.base = b /\ t.len = l
    <3> HIDE DEF b, l, row
    <3> QED OBVIOUS
  <2>8. SUFFICES ASSUME l > 0 PROVE FixedEnd(m) <= b
    <3> HIDE DEF t, b, l
    <3> QED BY <2>1, <2>7
  <2>9. SubRanges <= B + n
    <3> HIDE DEF B, n, L
    <3> QED BY <1>1, <1>4, <2>3, <2>5, <2>6, <2>8
  <2>10. SubRanges * L <= L * B + n * L
    <3> HIDE DEF B, n, L
    <3>1. L * (B + n) = L * B + n * L /\ L * SubRanges <= L * (B + n)
      BY <1>1, <2>3, <2>5, <2>9
    <3> QED BY <1>1, <2>3, <2>5, <3>1
  <2> HIDE DEF B, n, L
  <2> QED BY <1>1, <2>3, <2>5, <2>10
<1> HIDE DEF b, l, n, B, L
<1> QED BY <1>2, <1>3, <1>4

-----------------------------------------------------------------------------
\* The loop over the fixed MTRRs, n of them.
FixedRun(f, n, start, type) ==
  f = [m \in 0..n |-> IF m = 0 THEN start ELSE ProgramFixedMtrr(f[m - 1], m, type)]

\* It is defined.
LEMMA FixedLoop ==
  ASSUME NEW fixed, NEW base, NEW len, NEW type
  PROVE  \E f : /\ FixedRun(f, Len(FixedTable), [ok |-> TRUE, base |-> base, len |-> len, fixed |-> fixed], type)
                /\ ProgramFixedMtrrs(fixed, base, len, type) = f[Len(FixedTable)]
<1> DEFINE start == [ok |-> TRUE, base |-> base, len |-> len, fixed |-> fixed]
           Runs(f, n) == f = [m \in 0..n |-> IF m = 0 THEN start ELSE ProgramFixedMtrr(f[m - 1], m, type)]
           S == {n \in Nat : \E f : Runs(f, n)}
<1>1. 0 \in S
  <2>1. Runs([m \in 0..0 |-> start], 0)
    OBVIOUS
  <2> QED BY <2>1
<1>2. ASSUME NEW n \in Nat, n \in S PROVE n + 1 \in S
  <2>1. PICK f : Runs(f, n)
    BY <1>2
  <2> DEFINE g == [m \in 0..(n + 1) |-> IF m <= n THEN f[m] ELSE ProgramFixedMtrr(f[n], n + 1, type)]
  <2>2. \A m \in 0..n : g[m] = f[m]
    OBVIOUS
  <2>3. \A m \in 0..n : f[m] = IF m = 0 THEN start ELSE ProgramFixedMtrr(f[m - 1], m, type)
    BY <2>1
  <2>4. g[n + 1] = ProgramFixedMtrr(f[n], n + 1, type) /\ g = [m \in 0..(n + 1) |-> g[m]]
    OBVIOUS
  <2> HIDE DEF g, start
  <2>5. ASSUME NEW m \in 0..(n + 1)
        PROVE  g[m] = IF m = 0 THEN start ELSE ProgramFixedMtrr(g[m - 1], m, type)
    <3>1. CASE m <= n
      <4>1. m \in 0..n /\ (m = 0 \/ m - 1 \in 0..n)
        BY <3>1
      <4> QED BY <2>2, <2>3, <4>1
    <3>2. CASE m = n + 1
      <4>1. m # 0 /\ m - 1 = n /\ n \in 0..n
        BY <3>2
      <4> QED BY <2>2, <2>4, <3>2, <4>1
    <3> QED BY <3>1, <3>2
  <2>6. Runs(g, n + 1)
    BY <2>4, <2>5
  <2> QED BY <2>6
<1>3. Len(FixedTable) \in S
  <2> HIDE DEF S
  <2>1. Nat \subseteq S
    BY <1>1, <1>2, Induction
  <2> QED BY <2>1, TableFacts
<1> DEFINE F == CHOOSE f : Runs(f, Len(FixedTable))
<1>4. Runs(F, Len(FixedTable))
  <2> HIDE DEF Runs
  <2> QED BY <1>3, Zenon
<1>5. ProgramFixedMtrrs(fixed, base, len, type) = F[Len(FixedTable)]
  BY Zenon DEF ProgramFixedMtrrs
<1> QED BY <1>4, <1>5 DEF FixedRun

\* A request sets the type wherever it has got to and nowhere else; unless it
\* has failed, what is left of it lies above 1MB.
LEMMA FixedProgrammed ==
  ASSUME NEW fixed \in Contents, NEW base \in Nat, NEW len \in Nat, NEW type \in Types
  PROVE  LET s == ProgramFixedMtrrs(fixed, base, len, type)
         IN FixedState(s, fixed, base, len, type) /\ (s.ok /\ s.len > 0 => BASE_1MB <= s.base)
<1>1. PICK f : /\ FixedRun(f, Len(FixedTable), [ok |-> TRUE, base |-> base, len |-> len, fixed |-> fixed], type)
               /\ ProgramFixedMtrrs(fixed, base, len, type) = f[Len(FixedTable)]
  BY FixedLoop
<1> DEFINE Good(s, m) == /\ FixedState(s, fixed, base, len, type)
                         /\ s.ok /\ s.len > 0 /\ m > 0 => FixedEnd(m) <= s.base
           S == {m \in Nat : m <= Len(FixedTable) => Good(f[m], m)}
<1>2. 0 \in S
  <2>1. f[0] = [ok |-> TRUE, base |-> base, len |-> len, fixed |-> fixed]
    BY <1>1, TableFacts DEF FixedRun
  <2>2. f[0].ok = TRUE /\ f[0].base = base /\ f[0].len = len /\ f[0].fixed = fixed
        /\ f[0] \in [ok : BOOLEAN, base : Nat, len : Nat, fixed : Contents]
    BY <2>1
  <2>3. \A a \in Nat : ~(base <= a /\ a < base)
    OBVIOUS
  <2>4. FixedState(f[0], fixed, base, len, type)
    BY <2>2, <2>3 DEF FixedState
  <2> QED BY <2>4
<1>3. ASSUME NEW m \in Nat, m \in S PROVE m + 1 \in S
  <2> SUFFICES ASSUME m + 1 <= Len(FixedTable) PROVE Good(f[m + 1], m + 1)
    OBVIOUS
  <2>1. m + 1 \in Fixed /\ m \in 0..Len(FixedTable) /\ m + 1 \in 0..Len(FixedTable) /\ m + 1 # 0 /\ (m + 1) - 1 = m
    BY TableFacts
  <2>2. f[m + 1] = ProgramFixedMtrr(f[m], m + 1, type)
    BY <1>1, <2>1 DEF FixedRun
  <2>3. FixedState(f[m], fixed, base, len, type) /\ (f[m].ok /\ f[m].len > 0 /\ m > 0 => FixedEnd(m) <= f[m].base)
    BY <1>3, <2>1, TableFacts
  <2>4. FixedState(f[m + 1], fixed, base, len, type)
    BY <2>1, <2>2, <2>3, FixedStep
  <2>5. f[m].ok /\ f[m].len > 0 => FixedTable[m + 1].base <= f[m].base
    <3>1. m > 0 => FixedTable[m + 1].base = FixedEnd(m)
      <4> SUFFICES ASSUME m > 0 PROVE FixedTable[m + 1].base = FixedEnd((m + 1) - 1)
        BY <2>1
      <4>1. m + 1 \in Fixed \ {1}
        BY <2>1
      <4> QED BY <4>1, MtrrAssumption
    <3>2. m = 0 => FixedTable[m + 1].base = 0
      BY MtrrAssumption
    <3> QED BY <2>3, <3>1, <3>2 DEF FixedState
  <2>6. f[m + 1].ok /\ f[m + 1].len > 0 => FixedEnd(m + 1) <= f[m + 1].base
    <3>1. f[m] \in [ok : BOOLEAN, base : Nat, len : Nat, fixed : Contents]
      BY <2>3 DEF FixedState
    <3> QED BY <2>1, <2>2, <2>5, <3>1, FixedAdvances
  <2> QED BY <2>4, <2>6
<1>4. Nat \subseteq S
  <2> HIDE DEF S
  <2> QED BY <1>2, <1>3, Induction
<1>5. Len(FixedTable) \in S /\ Len(FixedTable) > 0
  BY <1>4, TableFacts
<1> QED BY <1>1, <1>5, TableFacts DEF BASE_1MB

-----------------------------------------------------------------------------
(* The processors agree.                                                   *)

\* MTRRs, whatever the variable ones hold.
Shaped(m) == m \in [fixed : Contents, var : {m.var}]

\* The variable part of a request leaves the fixed MTRRs alone, and a failure
\* leaves the variable ones.
LEMMA VariableRequest ==
  ASSUME NEW m, Shaped(m), NEW base, NEW len, NEW type
  PROVE  LET r == SetVariable(m, base, len, type)
         IN /\ Shaped(r.mtrrs) /\ r.mtrrs.fixed = m.fixed
            /\ r.status # "SUCCESS" => r.mtrrs = m
<1> DEFINE r == SetVariable(m, base, len, type)
<1>1. \/ \E st : r = [status |-> st, mtrrs |-> m]
      \/ \E v : r = [status |-> "SUCCESS", mtrrs |-> [m EXCEPT !.var = v]]
      \/ \E v, w : r = [status |-> "SUCCESS", mtrrs |-> [[m EXCEPT !.var = v] EXCEPT !.var = w]]
  BY Zenon DEF SetVariable
<1>2. \A v : LET n == [m EXCEPT !.var = v] IN n.fixed = m.fixed /\ Shaped(n)
  BY DEF Shaped
<1>3. \A v, w : LET n == [[m EXCEPT !.var = v] EXCEPT !.var = w] IN n.fixed = m.fixed /\ Shaped(n)
  <2> SUFFICES ASSUME NEW v, NEW w
               PROVE  LET n == [[m EXCEPT !.var = v] EXCEPT !.var = w] IN n.fixed = m.fixed /\ Shaped(n)
    OBVIOUS
  <2> DEFINE k == [m EXCEPT !.var = v]
  <2>1. k.fixed = m.fixed /\ Shaped(k)
    BY <1>2
  <2> HIDE DEF k
  <2>2. LET n == [k EXCEPT !.var = w] IN n.fixed = k.fixed /\ Shaped(n)
    BY <2>1 DEF Shaped
  <2> QED BY <2>1, <2>2 DEF k
<1> HIDE DEF r
<1> SUFFICES Shaped(r.mtrrs) /\ r.mtrrs.fixed = m.fixed /\ (r.status # "SUCCESS" => r.mtrrs = m)
  BY DEF r
<1>4. CASE \E st : r = [status |-> st, mtrrs |-> m]
  BY <1>4
<1>5. CASE \E v : r = [status |-> "SUCCESS", mtrrs |-> [m EXCEPT !.var = v]]
  <2>1. PICK v : r = [status |-> "SUCCESS", mtrrs |-> [m EXCEPT !.var = v]]
    BY <1>5
  <2>2. r.status = "SUCCESS" /\ r.mtrrs = [m EXCEPT !.var = v]
    BY <2>1
  <2> QED BY <1>2, <2>2
<1>6. CASE \E v, w : r = [status |-> "SUCCESS", mtrrs |-> [[m EXCEPT !.var = v] EXCEPT !.var = w]]
  <2>1. PICK v, w : r = [status |-> "SUCCESS", mtrrs |-> [[m EXCEPT !.var = v] EXCEPT !.var = w]]
    BY <1>6
  <2>2. r.status = "SUCCESS" /\ r.mtrrs = [[m EXCEPT !.var = v] EXCEPT !.var = w]
    BY <2>1
  <2> DEFINE n == [[m EXCEPT !.var = v] EXCEPT !.var = w]
  <2>3. n.fixed = m.fixed /\ Shaped(n)
    BY <1>3
  <2> HIDE DEF n
  <2>4. r.mtrrs = n
    BY <2>2 DEF n
  <2> QED BY <2>2, <2>3, <2>4
<1> QED BY <1>1, <1>4, <1>5, <1>6

\* What MtrrSetMemoryAttribute does to the fixed MTRRs, and that a request that
\* fails has changed no others.
LEMMA RequestFacts ==
  ASSUME NEW m, Shaped(m), NEW base \in Nat, NEW len \in Nat, NEW type \in Types
  PROVE  LET r == MtrrSetMemoryAttribute(m, base, len, type)
             f == ProgramFixedMtrrs(m.fixed, base, len, type).fixed
         IN /\ Shaped(r.mtrrs) /\ r.mtrrs.fixed \in {m.fixed, f}
            /\ r.status = "SUCCESS" => r.mtrrs.fixed = f
            /\ r.status # "SUCCESS" => r.mtrrs.var = m.var
<1> DEFINE r == MtrrSetMemoryAttribute(m, base, len, type)
           s == ProgramFixedMtrrs(m.fixed, base, len, type)
           n == [m EXCEPT !.fixed = s.fixed]
<1>1. \/ \E st : st # "SUCCESS" /\ r = [status |-> st, mtrrs |-> m]
      \/ \E st : r = [status |-> st, mtrrs |-> n]
      \/ \E b, l : r = SetVariable(n, b, l, type)
  <2>1. "INVALID_PARAMETER" # "SUCCESS" /\ "UNSUPPORTED" # "SUCCESS"
    OBVIOUS
  <2> QED BY <2>1, Zenon DEF MtrrSetMemoryAttribute
<1>2. s.fixed \in Contents
  BY FixedProgrammed DEF FixedState, Shaped
<1> HIDE DEF s
<1>3. n.fixed = s.fixed /\ n.var = m.var /\ Shaped(n)
  BY <1>2 DEF Shaped
<1> HIDE DEF r, n
<1> SUFFICES /\ Shaped(r.mtrrs) /\ r.mtrrs.fixed \in {m.fixed, s.fixed}
             /\ r.status = "SUCCESS" => r.mtrrs.fixed = s.fixed
             /\ r.status # "SUCCESS" => r.mtrrs.var = m.var
  BY DEF r, s
<1>4. CASE \E st : st # "SUCCESS" /\ r = [status |-> st, mtrrs |-> m]
  BY <1>4
<1>5. CASE \E st : r = [status |-> st, mtrrs |-> n]
  BY <1>3, <1>5
<1>6. CASE \E b, l : r = SetVariable(n, b, l, type)
  <2>1. PICK b, l : r = SetVariable(n, b, l, type)
    BY <1>6
  <2>2. Shaped(r.mtrrs) /\ r.mtrrs.fixed = n.fixed /\ (r.status # "SUCCESS" => r.mtrrs = n)
    BY <1>3, <2>1, VariableRequest
  <2> QED BY <1>3, <2>2
<1> QED BY <1>1, <1>4, <1>5, <1>6

\* A request changes no address below 1MB that it does not name.
LEMMA FixedNeighbours ==
  ASSUME NEW m, Shaped(m), NEW base \in Nat, NEW len \in Nat, NEW type \in Types,
         NEW a \in Nat, a < BASE_1MB, a < base \/ base + len <= a
  PROVE  FixedType(MtrrSetMemoryAttribute(m, base, len, type).mtrrs.fixed, a) = FixedType(m.fixed, a)
<1> DEFINE f == ProgramFixedMtrrs(m.fixed, base, len, type).fixed
           g == MtrrSetMemoryAttribute(m, base, len, type).mtrrs.fixed
<1>1. m.fixed \in Contents
  BY DEF Shaped
<1>2. \A k \in Fixed : At(k, a) => TypeAt(f, k, a) = TypeAt(m.fixed, k, a)
  BY <1>1, FixedProgrammed DEF FixedState
<1>3. FixedType(f, a) = FixedType(m.fixed, a)
  <2> HIDE DEF f
  <2> QED BY <1>2, SameType DEF At, TypeAt
<1>4. g \in {m.fixed, f}
  BY RequestFacts
<1> HIDE DEF f, g
<1> QED BY <1>3, <1>4 DEF g

\* The MTRRs agree with mMtrrTable but for what failed requests have left
\* behind, and the APs that have followed hold mMtrrTable.
AgreeInv ==
  /\ Shaped(bsp) /\ phase \in {"pei", "dxe", "mp"}
  /\ phase # "mp" => followers = {}
  /\ followers \subseteq AP /\ enabled \subseteq AP
  /\ phase # "pei" =>
       /\ mMtrrTable.var = bsp.var
       /\ \A a \in Addresses \ loose :
            a < BASE_1MB => FixedType(mMtrrTable.fixed, a) = FixedType(bsp.fixed, a)
  /\ \A p \in followers : ap[p] = mMtrrTable

LEMMA RequestValues ==
  ASSUME NEW r \in Requests
  PROVE  /\ r.base \in Nat /\ r.len \in Nat /\ r.type \in Types
         /\ \A a \in Nat : a \notin AddressesOf(r) => a < r.base \/ r.base + r.len <= a
<1>1. r.base \in 0..(Space - 1) /\ r.len \in 1..Space /\ r.type \in Types
  BY RequestAssumption
<1>2. r.base \in Nat /\ r.len \in Nat
  BY <1>1
<1> QED BY <1>1, <1>2 DEF AddressesOf

\* In PEI mMtrrTable is not used yet.
LEMMA PeiAgrees ==
  ASSUME AgreeInv, NEW r \in Requests, PeiSetMemoryAttribute(r)
  PROVE  AgreeInv'
<1>1. /\ phase = "pei" /\ bsp' = Result(r).mtrrs
      /\ UNCHANGED <<phase, mMtrrTable, ap, enabled, gcd, followers, loose>>
  BY DEF PeiSetMemoryAttribute
<1>2. Shaped(bsp')
  BY <1>1, RequestValues, RequestFacts DEF AgreeInv, Result
<1> QED BY <1>1, <1>2 DEF AgreeInv

\* A request that succeeds is passed on; one that fails adds to what is loose.
LEMMA SetAgrees ==
  ASSUME AgreeInv, NEW r \in Requests, SetMemoryAttributes(r)
  PROVE  AgreeInv'
<1> DEFINE m == Result(r).mtrrs
<1>1. /\ phase \in {"dxe", "mp"} /\ bsp' = m
      /\ UNCHANGED <<phase, enabled, gcd>>
      /\ \/ Result(r).status = "SUCCESS" /\ Synchronize(m) /\ loose' = {}
         \/ /\ Result(r).status # "SUCCESS" /\ UNCHANGED <<mMtrrTable, ap, followers>>
            /\ loose' = loose \cup {a \in AddressesOf(r) : a < BASE_1MB}
  BY DEF SetMemoryAttributes
<1>2. Shaped(m) /\ (Result(r).status # "SUCCESS" => m.var = bsp.var)
  BY SMTT(30), RequestValues, RequestFacts DEF AgreeInv, Result
<1>3. CASE Result(r).status = "SUCCESS"
  <2>1. /\ mMtrrTable' = m
        /\ ap' = [p \in AP |-> IF phase = "mp" /\ p \in enabled THEN m ELSE ap[p]]
        /\ followers' = IF phase = "mp" THEN enabled ELSE {}
    BY <1>1, <1>3 DEF Synchronize
  <2> HIDE DEF m
  <2> QED BY <1>1, <1>2, <2>1 DEF AgreeInv
<1>4. CASE Result(r).status # "SUCCESS"
  <2>1. \A a \in Addresses \ loose' : a < BASE_1MB => FixedType(m.fixed, a) = FixedType(bsp.fixed, a)
    <3> SUFFICES ASSUME NEW a \in Addresses, a \notin loose', a < BASE_1MB
                 PROVE  FixedType(m.fixed, a) = FixedType(bsp.fixed, a)
      OBVIOUS
    <3>1. a \in Nat
      BY DEF Addresses
    <3>2. a \notin AddressesOf(r)
      BY <1>1, <1>4
    <3>3. a < r.base \/ r.base + r.len <= a
      BY <3>1, <3>2, RequestValues
    <3> QED BY <3>1, <3>3, RequestValues, FixedNeighbours DEF AgreeInv, Result
  <2> HIDE DEF m
  <2> QED BY <1>1, <1>2, <1>4, <2>1 DEF AgreeInv
<1> QED BY <1>3, <1>4

\* The invariant.
LEMMA AgreeStep == AgreeInv /\ [Next]_vars => AgreeInv'
<1> SUFFICES ASSUME AgreeInv, [Next]_vars PROVE AgreeInv'
  OBVIOUS
<1>1. CASE InitializeCpu
  BY <1>1 DEF InitializeCpu, AgreeInv
<1>2. CASE EarlyMpInit
  BY <1>2 DEF EarlyMpInit, AgreeInv
<1>3. CASE \E p \in AP : EnableDisableAP(p)
  BY <1>3 DEF EnableDisableAP, AgreeInv
<1>4. CASE UNCHANGED vars
  BY <1>4 DEF vars, AgreeInv
<1> QED BY <1>1, <1>2, <1>3, <1>4, PeiAgrees, SetAgrees DEF Next

\* An AP that has taken part in the latest update sees at every address the
\* type the BSP sees, whatever has failed since: SetMemoryAttributes saves and
\* distributes the MTRRs after every request that changed the variable ones,
\* and one that fails has changed only fixed MTRRs inside its range.
THEOREM ProcessorsAlwaysAgree == Spec => []ProcessorsAgree
<1>1. Init => AgreeInv
  <2> SUFFICES ASSUME Init PROVE AgreeInv
    OBVIOUS
  <2>1. [m \in Fixed |-> [i \in 0..(SubRanges - 1) |-> "UC"]] \in Contents
    BY DEF Contents, Types
  <2>2. Shaped(Zeroed)
    BY <2>1 DEF Zeroed, Shaped
  <2> QED BY <2>2 DEF Init, AgreeInv
<1>2. AgreeInv => ProcessorsAgree
  <2> SUFFICES ASSUME AgreeInv, NEW p \in enabled \cap followers, NEW a \in Addresses \ loose
               PROVE  MtrrGetMemoryAttribute(ap[p], a) = MtrrGetMemoryAttribute(bsp, a)
    BY DEF ProcessorsAgree
  <2>1. ap[p] = mMtrrTable /\ mMtrrTable.var = bsp.var
    BY DEF AgreeInv
  <2>2. a < BASE_1MB => FixedType(mMtrrTable.fixed, a) = FixedType(bsp.fixed, a)
    BY DEF AgreeInv
  <2> QED BY <2>1, <2>2 DEF MtrrGetMemoryAttribute
<1> QED BY <1>1, <1>2, AgreeStep, PTL DEF Spec

-----------------------------------------------------------------------------
(* Powers of two.                                                          *)

Top == AddressBits + 1

LEMMA PowerSteps ==
  /\ Top \in Nat /\ AddressBits \in Nat
  /\ PowerOf2 \in [0..Top -> Nat] /\ PowerOf2[0] = 1
  /\ \A k \in Nat : k + 1 <= Top => PowerOf2[k + 1] = 2 * PowerOf2[k]
<1>1. AddressBits \in Nat /\ Top \in Nat /\ Top = AddressBits + 1
  BY MtrrAssumption DEF Top
<1> DEFINE step == [x \in (1..Top) \X Nat |-> 2 * x[2]]
<1>2. PICK f \in [0..Top -> Nat] : Iterates(f, Top, 1, step)
  <2>1. Steps(Top, Nat, 1, step)
    BY <1>1 DEF Steps
  <2> HIDE DEF step
  <2> QED BY <2>1, Iteration
<1>3. \A n \in 0..Top : f[n] = IF n = 0 THEN 1 ELSE 2 * f[n - 1]
  <2> SUFFICES ASSUME NEW n \in 0..Top PROVE f[n] = IF n = 0 THEN 1 ELSE 2 * f[n - 1]
    OBVIOUS
  <2>1. f[n] = IF n = 0 THEN 1 ELSE step[<<n, f[n - 1]>>]
    BY <1>2 DEF Iterates
  <2>2. CASE n # 0
    <3>1. n \in 1..Top /\ n - 1 \in 0..Top
      BY <1>1, <2>2
    <3>2. <<n, f[n - 1]>> \in (1..Top) \X Nat
      BY <3>1
    <3> QED BY <2>1, <2>2, <3>2
  <2> QED BY <2>1, <2>2
<1> DEFINE P(g) == g = [k \in 0..Top |-> IF k = 0 THEN 1 ELSE 2 * g[k - 1]]
<1>4. P(f)
  BY <1>3
<1>5. PowerOf2 = CHOOSE g : P(g)
  BY <1>1, Zenon DEF PowerOf2
<1>6. P(PowerOf2)
  <2> HIDE DEF P
  <2> QED BY <1>4, <1>5, Zenon
<1>7. \A n \in 0..Top : PowerOf2[n] = IF n = 0 THEN 1 ELSE 2 * PowerOf2[n - 1]
  BY <1>6
<1>8. PowerOf2[0] = 1 /\ \A k \in Nat : k + 1 <= Top => PowerOf2[k + 1] = 2 * PowerOf2[k]
  BY <1>1, <1>7
<1> DEFINE S == {k \in Nat : k <= Top => PowerOf2[k] \in Nat}
<1>9. Nat \subseteq S
  <2>1. 0 \in S
    BY <1>8
  <2>2. ASSUME NEW k \in Nat, k \in S PROVE k + 1 \in S
    BY <1>1, <1>8, <2>2
  <2> HIDE DEF S
  <2> QED BY <2>1, <2>2, Induction
<1>10. PowerOf2 \in [0..Top -> Nat]
  BY <1>6, <1>9
<1> QED BY <1>1, <1>8, <1>10

\* d divides x.
Divides(d, x) == \E q \in Nat : x = d * q

LEMMA DividesFacts ==
  /\ \A d \in Nat : Divides(d, 0) /\ Divides(d, d)
  /\ \A d, x, y \in Nat : Divides(d, x) /\ Divides(d, y) => Divides(d, x + y)
  /\ \A d, x, y \in Nat : Divides(d, x) /\ Divides(d, y) /\ y <= x => Divides(d, x - y)
  /\ \A c, d, x \in Nat : Divides(c, d) /\ Divides(d, x) => Divides(c, x)
  /\ \A d \in Nat \ {0}, x \in Nat : Divides(d, x) <=> x % d = 0
  /\ \A d, x, y \in Nat : Divides(d, x) /\ Divides(d, y) /\ x < y => x + d <= y
<1>1. \A d \in Nat : Divides(d, 0) /\ Divides(d, d)
  <2>1. \A d \in Nat : 0 = d * 0 /\ d = d * 1
    OBVIOUS
  <2> QED BY <2>1 DEF Divides
<1>2. ASSUME NEW d \in Nat, NEW x \in Nat, NEW y \in Nat, Divides(d, x), Divides(d, y)
      PROVE  /\ Divides(d, x + y)
             /\ y <= x => Divides(d, x - y)
             /\ x < y => x + d <= y
  <2>1. PICK q \in Nat, r \in Nat : x = d * q /\ y = d * r
    BY <1>2 DEF Divides
  <2>2. x + y = d * (q + r) /\ q + r \in Nat
    BY <2>1
  <2>3. y <= x => Divides(d, x - y)
    <3>1. CASE r <= q
      <4>1. q - r \in Nat /\ x - y = d * (q - r)
        BY <2>1, <3>1
      <4> QED BY <4>1 DEF Divides
    <3>2. CASE q < r
      <4> SUFFICES ASSUME y <= x PROVE Divides(d, x - y)
        OBVIOUS
      <4>1. d * q <= d * r
        BY <3>2
      <4>2. x - y = 0
        BY <2>1, <4>1
      <4> QED BY <1>1, <4>2
    <3> QED BY <3>1, <3>2
  <2>4. x < y => x + d <= y
    <3> SUFFICES ASSUME x < y PROVE x + d <= y
      OBVIOUS
    <3>1. q < r
      <4> SUFFICES ASSUME r <= q PROVE FALSE
        OBVIOUS
      <4>1. d * r <= d * q
        OBVIOUS
      <4> QED BY <2>1, <4>1
    <3>2. d * (q + 1) <= d * r /\ d * (q + 1) = d * q + d
      BY <3>1
    <3> QED BY <2>1, <3>2
  <2> QED BY <2>2, <2>3, <2>4 DEF Divides
<1>3. ASSUME NEW c \in Nat, NEW d \in Nat, NEW x \in Nat, Divides(c, d), Divides(d, x)
      PROVE  Divides(c, x)
  <2>1. PICK q \in Nat, r \in Nat : d = c * q /\ x = d * r
    BY <1>3 DEF Divides
  <2>2. x = c * (q * r) /\ q * r \in Nat
    BY <2>1
  <2> QED BY <2>2 DEF Divides
<1>4. ASSUME NEW d \in Nat \ {0}, NEW x \in Nat PROVE Divides(d, x) <=> x % d = 0
  <2>1. x \div d \in Nat /\ x % d = x - d * (x \div d) /\ d * (x \div d) <= x
    BY Quotient
  <2>2. x % d = 0 => Divides(d, x)
    <3> DEFINE q == x \div d
    <3> HIDE DEF q
    <3>1. q \in Nat /\ x % d = x - d * q
      BY <2>1 DEF q
    <3> QED BY <3>1 DEF Divides
  <2>3. ASSUME NEW q \in Nat, x = d * q PROVE x % d = 0
    BY <2>3
  <2> QED BY <2>2, <2>3 DEF Divides
<1> QED BY <1>1, <1>2, <1>3, <1>4

\* The powers are positive, each divides those that are not less, and one that
\* is greater is at least twice as great.
LEMMA PowerFacts ==
  /\ Powers \subseteq Nat \ {0} /\ Space \in Powers /\ 2 * Space \in Powers /\ 1 \in Powers
  /\ \A p \in Powers : p <= 2 * Space
  /\ \A p, q \in Powers : p <= q => Divides(p, q)
  /\ \A p, q \in Powers : p < q => 2 * p <= q
<1> DEFINE P == PowerOf2
<1>1. /\ Top \in Nat /\ AddressBits \in Nat /\ Top = AddressBits + 1 /\ P \in [0..Top -> Nat] /\ P[0] = 1
      /\ \A k \in Nat : k + 1 <= Top => P[k + 1] = 2 * P[k]
  BY PowerSteps DEF Top
<1>2. Powers = {P[k] : k \in 0..Top}
  BY DEF Powers, Top
<1>3. ASSUME NEW j \in 0..Top, NEW k \in 0..Top, j <= k
      PROVE  P[j] # 0 /\ P[k] # 0 /\ Divides(P[j], P[k]) /\ (j < k => 2 * P[j] <= P[k])
  <2> DEFINE S == {n \in Nat : n <= Top => P[n] # 0}
             T == {n \in Nat : j + n <= Top => Divides(P[j], P[j + n]) /\ (n > 0 => 2 * P[j] <= P[j + n])}
  <2>1. Nat \subseteq S
    <3>1. 0 \in S
      BY <1>1
    <3>2. ASSUME NEW n \in Nat, n \in S PROVE n + 1 \in S
      <4> SUFFICES ASSUME n + 1 <= Top PROVE P[n + 1] # 0
        OBVIOUS
      <4>1. P[n] # 0 /\ P[n] \in Nat /\ P[n + 1] = 2 * P[n]
        BY <1>1, <3>2
      <4> QED BY <4>1
    <3> HIDE DEF S
    <3> QED BY <3>1, <3>2, Induction
  <2>2. P[j] \in Nat
    BY <1>1
  <2>3. Nat \subseteq T
    <3>1. 0 \in T
      <4>1. j + 0 = j
        OBVIOUS
      <4>2. Divides(P[j], P[j + 0])
        BY <2>2, <4>1, DividesFacts
      <4> QED BY <4>2
    <3>2. ASSUME NEW n \in Nat, n \in T PROVE n + 1 \in T
      <4> SUFFICES ASSUME j + (n + 1) <= Top
                   PROVE  Divides(P[j], P[j + (n + 1)]) /\ 2 * P[j] <= P[j + (n + 1)]
        OBVIOUS
      <4>1. j + n \in Nat /\ j + (n + 1) = (j + n) + 1 /\ j + n <= Top /\ j + n \in 0..Top
        BY <1>1
      <4>2. P[j + n] \in Nat /\ P[j + (n + 1)] = 2 * P[j + n]
        BY <1>1, <4>1
      <4>3. Divides(P[j], P[j + n]) /\ (n > 0 => 2 * P[j] <= P[j + n])
        BY <3>2, <4>1
      <4>4. P[j + n] + P[j + n] = 2 * P[j + n]
        BY <4>2
      <4>6. Divides(P[j], P[j + n] + P[j + n])
        <5> HIDE DEF P
        <5> QED BY <2>2, <4>2, <4>3, DividesFacts
      <4>5. 2 * P[j] <= 2 * P[j + n]
        <5>1. n = 0 => j + n = j
          OBVIOUS
        <5> QED BY <2>2, <4>2, <4>3, <5>1
      <4> QED BY <4>2, <4>4, <4>5, <4>6
    <3> HIDE DEF T
    <3> QED BY <3>1, <3>2, Induction
  <2>4. k - j \in Nat /\ j + (k - j) = k /\ j \in Nat /\ k \in Nat
    <3>1. Top \in Nat
      BY <1>1
    <3>2. j \in Nat /\ k \in Nat
      BY <3>1
    <3> QED BY <1>3, <3>2
  <2>5. k - j \in T /\ j \in S /\ k \in S
    BY <2>1, <2>3, <2>4
  <2> HIDE DEF P
  <2> QED BY <2>4, <2>5
<1> HIDE DEF P
<1>4. \A p \in Powers : p \in Nat \ {0}
  BY <1>1, <1>2, <1>3
<1>5. ASSUME NEW p \in Powers, NEW q \in Powers PROVE (p <= q => Divides(p, q)) /\ (p < q => 2 * p <= q)
  <2>1. PICK j \in 0..Top, k \in 0..Top : p = P[j] /\ q = P[k]
    BY <1>2
  <2>2. p \in Nat /\ q \in Nat
    BY <1>4
  <2>3. CASE j <= k
    <3>1. j = k => p = q
      BY <2>1
    <3> QED BY <1>3, <2>1, <2>2, <2>3, <3>1
  <2>4. CASE k < j
    <3>1. 2 * q <= p /\ q # 0
      BY <1>3, <2>1, <2>4
    <3> QED BY <2>2, <3>1
  <2> QED BY <2>3, <2>4
<1>6. Space = P[AddressBits] /\ P[Top] = 2 * Space /\ AddressBits \in 0..Top /\ Top \in 0..Top /\ 0 \in 0..Top
  <2>1. AddressBits + 1 <= Top
    BY <1>1
  <2> QED BY <1>1, <2>1 DEF Space, P
<1>7. Space \in Powers /\ 2 * Space \in Powers /\ 1 \in Powers
  BY <1>1, <1>2, <1>6
<1>8. \A p \in Powers : p <= 2 * Space
  <2> SUFFICES ASSUME NEW k \in 0..Top PROVE P[k] <= P[Top]
    BY <1>2, <1>6
  <2>1. k = Top \/ k < Top
    BY <1>1
  <2>2. P[k] \in Nat /\ P[Top] \in Nat
    BY <1>1, <1>6
  <2>3. k < Top => 2 * P[k] <= P[Top]
    BY <1>3, <1>6
  <2> QED BY <2>1, <2>2, <2>3
<1> QED BY <1>4, <1>5, <1>7, <1>8

\* Power2MaxMemory is the greatest power of two that is not more than n.
LEMMA MaxMemory ==
  ASSUME NEW n \in Nat, n > 0, n < 4 * Space
  PROVE  Power2MaxMemory(n) \in Powers /\ Power2MaxMemory(n) <= n /\ n < 2 * Power2MaxMemory(n)
<1>1. \E p \in Powers : p <= n /\ n < 2 * p
  <2> DEFINE S == {p \in Powers : n < 2 * p}
  <2>1. S \in SUBSET Nat /\ 2 * Space \in S
    <3>1. 2 * Space \in Powers /\ Powers \subseteq Nat /\ Space \in Nat
      BY PowerFacts
    <3>2. n < 2 * (2 * Space)
      BY <3>1
    <3> QED BY <3>1, <3>2
  <2>2. PICK p \in S : \A q \in S : p <= q
    BY <2>1, Minimum
  <2>3. p <= n
    <3> SUFFICES ASSUME n < p PROVE FALSE
      BY <2>1
    <3>1. PICK k \in 0..Top : p = PowerOf2[k]
      BY DEF Powers, Top
    <3>2. k # 0
      BY <3>1, PowerSteps
    <3>3. k - 1 \in Nat /\ (k - 1) + 1 = k /\ k <= Top /\ k - 1 \in 0..Top
      BY <3>2, PowerSteps
    <3>4. p = 2 * PowerOf2[k - 1] /\ PowerOf2[k - 1] \in Powers
      BY <3>1, <3>3, PowerSteps DEF Powers, Top
    <3>5. PowerOf2[k - 1] \in S /\ PowerOf2[k - 1] \in Nat \ {0}
      BY <3>4, PowerFacts
    <3>6. p <= PowerOf2[k - 1]
      BY <2>2, <3>5
    <3> QED BY <3>4, <3>5, <3>6
  <2> QED BY <2>2, <2>3
<1> QED BY <1>1 DEF Power2MaxMemory

\* Alignment is the greatest power of two that divides an address.
LEMMA AlignmentFacts ==
  ASSUME NEW b \in Nat, b > 0, b < 4 * Space
  PROVE  Alignment(b) \in Powers /\ Divides(Alignment(b), b)
<1>1. \E p \in Powers : b % p = 0 /\ b % (2 * p) # 0
  <2> DEFINE S == {p \in Powers : ~Divides(2 * p, b)}
  <2>1. S \in SUBSET Nat
    BY PowerFacts
  <2>2. 2 * Space \in S
    <3>1. 2 * Space \in Powers /\ Space \in Nat /\ 2 * (2 * Space) \in Nat
      BY PowerFacts
    <3>2. ASSUME Divides(2 * (2 * Space), b) PROVE FALSE
      <4>1. 0 + 2 * (2 * Space) <= b
        BY <3>1, <3>2, DividesFacts
      <4> QED BY <3>1, <4>1
    <3> QED BY <3>1, <3>2
  <2>3. PICK p \in S : \A q \in S : p <= q
    BY <2>1, <2>2, Minimum
  <2>4. Divides(p, b)
    <3>1. PICK k \in 0..Top : p = PowerOf2[k]
      BY DEF Powers, Top
    <3>2. CASE k = 0
      <4>1. p = 1 /\ b = 1 * b
        BY <3>1, <3>2, PowerSteps
      <4> QED BY <4>1 DEF Divides
    <3>3. CASE k # 0
      <4>1. k - 1 \in Nat /\ (k - 1) + 1 = k /\ k <= Top /\ k - 1 \in 0..Top
        BY <3>3, PowerSteps
      <4>2. p = 2 * PowerOf2[k - 1] /\ PowerOf2[k - 1] \in Powers
        BY <3>1, <4>1, PowerSteps DEF Powers, Top
      <4>3. PowerOf2[k - 1] \in Nat \ {0}
        BY <4>2, PowerFacts
      <4>4. ~(p <= PowerOf2[k - 1])
        BY <4>2, <4>3
      <4>5. PowerOf2[k - 1] \notin S
        BY <2>3, <4>4
      <4> QED BY <4>2, <4>5
    <3> QED BY <3>2, <3>3
  <2>5. p \in Powers /\ p \in Nat \ {0} /\ 2 * p \in Nat \ {0}
    BY PowerFacts
  <2>6. b % p = 0 /\ b % (2 * p) # 0
    BY <2>3, <2>4, <2>5, DividesFacts
  <2> QED BY <2>5, <2>6
<1> DEFINE p == Alignment(b)
<1>2. p \in Powers /\ b % p = 0
  BY <1>1 DEF Alignment
<1>3. p \in Nat \ {0}
  BY <1>2, PowerFacts
<1> QED BY <1>2, <1>3, DividesFacts

-----------------------------------------------------------------------------
(* Sums of lengths, and the loops that split a range.                      *)

LEMMA SumFacts ==
  ASSUME NEW L \in Seq(Nat)
  PROVE  /\ \A n \in 0..Len(L) : SumTo(L, n) \in Nat
         /\ SumTo(L, 0) = 0
         /\ \A n \in 1..Len(L) : SumTo(L, n) = SumTo(L, n - 1) + L[n]
<1> DEFINE N == Len(L)
           step == [x \in (1..N) \X Nat |-> x[2] + L[x[1]]]
           P(g) == g = [n \in 0..N |-> IF n = 0 THEN 0 ELSE g[n - 1] + L[n]]
           s == CHOOSE g : P(g)
<1>1. N \in Nat /\ \A n \in 1..N : L[n] \in Nat
  OBVIOUS
<1>2. PICK f \in [0..N -> Nat] : Iterates(f, N, 0, step)
  <2>1. Steps(N, Nat, 0, step)
    <3> HIDE DEF N
    <3> QED BY <1>1 DEF Steps
  <2> HIDE DEF step, N
  <2> QED BY <2>1, Iteration
<1>3. ASSUME NEW n \in 0..N PROVE f[n] = IF n = 0 THEN 0 ELSE f[n - 1] + L[n]
  <2> HIDE DEF N
  <2>1. f[n] = IF n = 0 THEN 0 ELSE step[<<n, f[n - 1]>>]
    BY <1>2 DEF Iterates
  <2>2. CASE n # 0
    <3>1. n \in 1..N /\ n - 1 \in 0..N
      BY <1>1, <2>2
    <3>2. <<n, f[n - 1]>> \in (1..N) \X Nat
      BY <3>1
    <3> QED BY <2>1, <2>2, <3>2
  <2> QED BY <2>1, <2>2
<1>4. P(f)
  <2> HIDE DEF N
  <2> QED BY <1>3
<1>5. P(s)
  <2> HIDE DEF P
  <2> QED BY <1>4, Zenon
<1>6. \A n : SumTo(L, n) = s[n]
  BY Zenon DEF SumTo
<1>7. \A n \in 0..N : s[n] = IF n = 0 THEN 0 ELSE s[n - 1] + L[n]
  <2> HIDE DEF N, s
  <2> QED BY <1>5
<1> HIDE DEF N, s
<1> DEFINE S == {n \in Nat : n <= N => s[n] \in Nat}
<1>8. Nat \subseteq S
  <2>1. 0 \in S
    BY <1>1, <1>7
  <2>2. ASSUME NEW n \in Nat, n \in S PROVE n + 1 \in S
    <3> SUFFICES ASSUME n + 1 <= N PROVE s[n + 1] \in Nat
      OBVIOUS
    <3>1. n + 1 \in 0..N /\ n + 1 # 0 /\ n + 1 \in 1..N /\ (n + 1) - 1 = n /\ n <= N
      BY <1>1
    <3>2. s[n + 1] = s[n] + L[n + 1]
      BY <1>7, <3>1
    <3> QED BY SMTT(30), <1>1, <2>2, <3>1, <3>2
  <2> HIDE DEF S
  <2> QED BY <2>1, <2>2, Induction
<1>9. \A n \in 0..N : s[n] \in Nat
  BY <1>1, <1>8
<1>10. s[0] = 0
  BY <1>1, <1>7
<1>11. ASSUME NEW n \in 1..N PROVE s[n] = s[n - 1] + L[n]
  BY <1>1, <1>7
<1>12. /\ \A n \in 0..N : SumTo(L, n) \in Nat
       /\ SumTo(L, 0) = 0
       /\ \A n \in 1..N : SumTo(L, n) = SumTo(L, n - 1) + L[n]
  BY <1>6, <1>9, <1>10, <1>11, Zenon
<1> QED BY <1>12 DEF N

LEMMA SumGrows ==
  ASSUME NEW L \in Seq(Nat), NEW i \in 0..Len(L), NEW j \in 0..Len(L), i <= j
  PROVE  SumTo(L, i) <= SumTo(L, j)
<1> DEFINE S == {k \in Nat : i + k <= Len(L) => SumTo(L, i) <= SumTo(L, i + k)}
<1>1. Len(L) \in Nat /\ \A n \in 1..Len(L) : L[n] \in Nat
  OBVIOUS
<1>2. 0 \in S
  <2>1. i + 0 = i /\ SumTo(L, i) \in Nat
    BY SumFacts
  <2> QED BY <2>1
<1>3. ASSUME NEW k \in Nat, k \in S PROVE k + 1 \in S
  <2> SUFFICES ASSUME i + (k + 1) <= Len(L) PROVE SumTo(L, i) <= SumTo(L, i + (k + 1))
    OBVIOUS
  <2> DEFINE n == i + (k + 1)
  <2>1. n \in 1..Len(L) /\ n - 1 = i + k /\ i + k <= Len(L) /\ i + k \in 0..Len(L)
    BY <1>1
  <2>2. SumTo(L, n) = SumTo(L, i + k) + L[n]
    BY <2>1, SumFacts
  <2>3. SumTo(L, i) \in Nat /\ SumTo(L, i + k) \in Nat /\ L[n] \in Nat
    BY <1>1, <2>1, SumFacts
  <2>4. SumTo(L, i) <= SumTo(L, i + k)
    BY <1>3, <2>1
  <2> HIDE DEF n
  <2>5. SumTo(L, i) <= SumTo(L, n)
    BY <2>2, <2>3, <2>4
  <2> QED BY <2>5 DEF n
<1>4. Nat \subseteq S
  <2> HIDE DEF S
  <2> QED BY <1>2, <1>3, Induction
<1>5. j - i \in Nat /\ i + (j - i) = j
  BY <1>1
<1>6. j - i \in S
  BY <1>4, <1>5
<1> QED BY <1>1, <1>5, <1>6

\* Whatever is below the sum lies in one of the parts.
LEMMA SumCovers ==
  ASSUME NEW L \in Seq(Nat), NEW x \in Nat, x < Total(L)
  PROVE  \E i \in 1..Len(L) : SumTo(L, i - 1) <= x /\ x < SumTo(L, i)
<1> DEFINE S == {i \in 0..Len(L) : x < SumTo(L, i)}
<1>1. Len(L) \in Nat /\ Len(L) \in 0..Len(L)
  OBVIOUS
<1>2. S \in SUBSET Nat /\ Len(L) \in S
  BY <1>1 DEF Total
<1>3. PICK i \in S : \A j \in S : i <= j
  BY <1>2, Minimum
<1>4. i # 0
  BY <1>3, SumFacts
<1>5. i \in 1..Len(L) /\ i - 1 \in 0..Len(L) /\ ~(i <= i - 1)
  BY <1>1, <1>3, <1>4
<1>6. SumTo(L, i - 1) \in Nat /\ ~(x < SumTo(L, i - 1))
  BY <1>3, <1>5, SumFacts
<1>7. SumTo(L, i - 1) <= x
  BY <1>6
<1> QED BY <1>3, <1>5, <1>7

LEMMA ConsFacts ==
  ASSUME NEW L \in Seq(Nat), NEW x \in Nat
  PROVE  LET M == <<x>> \o L
         IN /\ M \in Seq(Nat) /\ Len(M) = 1 + Len(L) /\ M[1] = x
            /\ \A i \in 1..Len(L) : M[i + 1] = L[i]
            /\ \A i \in 0..Len(L) : SumTo(M, i + 1) = x + SumTo(L, i)
<1> DEFINE M == <<x>> \o L
<1>1. M \in Seq(Nat) /\ Len(M) = 1 + Len(L) /\ M[1] = x /\ \A i \in 1..Len(L) : M[i + 1] = L[i]
  OBVIOUS
<1>2. Len(L) \in Nat
  OBVIOUS
<1> HIDE DEF M
<1> DEFINE S == {i \in Nat : i <= Len(L) => SumTo(M, i + 1) = x + SumTo(L, i)}
<1>3. 0 \in S
  <2>1. SumTo(M, 1) = SumTo(M, 1 - 1) + M[1] /\ SumTo(M, 0) = 0 /\ SumTo(L, 0) = 0
    BY <1>1, <1>2, SumFacts
  <2> QED BY <1>1, <2>1
<1>4. ASSUME NEW i \in Nat, i \in S PROVE i + 1 \in S
  <2> SUFFICES ASSUME i + 1 <= Len(L) PROVE SumTo(M, (i + 1) + 1) = x + SumTo(L, i + 1)
    OBVIOUS
  <2> DEFINE j == i + 1
  <2>1. j \in 1..Len(L) /\ j - 1 = i /\ j + 1 \in 1..Len(M) /\ (j + 1) - 1 = j /\ i <= Len(L) /\ i \in 0..Len(L)
    BY <1>1, <1>2
  <2>2. SumTo(M, j + 1) = SumTo(M, j) + M[j + 1] /\ SumTo(L, j) = SumTo(L, i) + L[j]
    BY <1>1, <2>1, SumFacts
  <2>3. SumTo(M, j) = x + SumTo(L, i) /\ M[j + 1] = L[j]
    BY <1>1, <1>4, <2>1
  <2>4. SumTo(L, i) \in Nat /\ L[j] \in Nat
    BY <2>1, SumFacts
  <2> HIDE DEF j
  <2>5. SumTo(M, j + 1) = x + SumTo(L, j)
    BY <2>2, <2>3, <2>4
  <2> QED BY <2>5 DEF j
<1>5. Nat \subseteq S
  <2> HIDE DEF S
  <2> QED BY <1>3, <1>4, Induction
<1>6. \A i \in 0..Len(L) : SumTo(M, i + 1) = x + SumTo(L, i)
  BY <1>2, <1>5
<1> QED BY <1>1, <1>6 DEF M

\* A loop that takes p[n] off what is left, n, as long as n is in D.
Splits(f, N, D, p) ==
  f = [n \in 0..N |-> IF n \in D THEN <<p[n]>> \o f[n - p[n]] ELSE <<>>]
\* The lengths it takes off n: they add up to what it has got through, and each
\* is the one for what was left before it.
Parts(L, n, D, p) ==
  /\ L \in Seq(Nat) /\ Total(L) \in Nat /\ Total(L) <= n /\ n - Total(L) \notin D
  /\ \A i \in 1..Len(L) : n - SumTo(L, i - 1) \in D /\ L[i] = p[n - SumTo(L, i - 1)]

LEMMA SplitExists ==
  ASSUME NEW N \in Nat, NEW D \in SUBSET (1..N), NEW p \in [D -> Nat \ {0}], \A n \in D : p[n] <= n
  PROVE  \E f : Splits(f, N, D, p)
<1> DEFINE V == Seq(Nat)
           next == [n \in D |-> n - p[n]]
           step == [x \in D \X V |-> <<p[x[1]]>> \o x[2]]
           stop == [n \in 0..N |-> <<>>]
<1>1. \A n \in D : n \in Nat /\ p[n] \in Nat /\ next[n] \in 0..N /\ next[n] < n /\ next[n] = n - p[n]
  OBVIOUS
<1>2. Descends(N, V, D, next, step, stop)
  <2>1. D \in SUBSET (0..N)
    OBVIOUS
  <2>2. next \in [D -> Nat] /\ \A n \in D : next[n] < n
    BY <1>1
  <2>3. step \in [D \X V -> V]
    <3>1. \A x \in D \X V : x[1] \in D /\ x[2] \in Seq(Nat) /\ p[x[1]] \in Nat
      OBVIOUS
    <3>2. \A y \in Nat, L \in Seq(Nat) : <<y>> \o L \in Seq(Nat)
      OBVIOUS
    <3>3. \A x \in D \X V : <<p[x[1]]>> \o x[2] \in V
      BY <3>1, <3>2
    <3> QED BY <3>3
  <2>4. stop \in [0..N -> V]
    OBVIOUS
  <2> HIDE DEF next, step, stop, V
  <2> QED BY <2>1, <2>2, <2>3, <2>4 DEF Descends
<1>3. PICK f \in [0..N -> V] : Recurs(f, N, D, next, step, stop)
  <2> HIDE DEF next, step, stop, V
  <2> QED BY <1>2, Recursion
<1>4. ASSUME NEW n \in 0..N PROVE f[n] = IF n \in D THEN <<p[n]>> \o f[n - p[n]] ELSE <<>>
  <2>1. f[n] = IF n \in D THEN step[<<n, f[next[n]]>>] ELSE stop[n]
    BY <1>3 DEF Recurs
  <2>2. CASE n \in D
    <3>1. <<n, f[next[n]]>> \in D \X V
      <4> HIDE DEF next, V
      <4> QED BY <1>1, <1>3, <2>2
    <3>2. step[<<n, f[next[n]]>>] = <<p[n]>> \o f[next[n]]
      <4> HIDE DEF next, V
      <4> QED BY <3>1
    <3> HIDE DEF next, step, stop, V
    <3> QED BY <1>1, <2>1, <2>2, <3>2
  <2>3. CASE n \notin D
    BY <2>1, <2>3
  <2> QED BY <2>2, <2>3
<1>5. f = [n \in 0..N |-> f[n]]
  BY <1>3
<1> QED BY <1>4, <1>5 DEF Splits

LEMMA SplitParts ==
  ASSUME NEW N \in Nat, NEW D \in SUBSET (1..N), NEW p \in [D -> Nat \ {0}], \A n \in D : p[n] <= n,
         NEW f, Splits(f, N, D, p), NEW n \in 0..N
  PROVE  Parts(f[n], n, D, p)
<1> DEFINE S == {k \in Nat : \A m \in 0..N : m <= k => Parts(f[m], m, D, p)}
<1>1. \A m \in 0..N : f[m] = IF m \in D THEN <<p[m]>> \o f[m - p[m]] ELSE <<>>
  BY DEF Splits
<1>2. ASSUME NEW m \in 0..N, m \notin D PROVE Parts(f[m], m, D, p)
  <2>1. f[m] = <<>> /\ f[m] \in Seq(Nat) /\ Len(f[m]) = 0
    <3>1. f[m] = <<>>
      BY <1>1, <1>2
    <3> QED BY <3>1
  <2>2. SumTo(f[m], 0) = 0
    BY <2>1, SumFacts
  <2>3. Total(f[m]) = 0
    BY <2>1, <2>2 DEF Total
  <2> QED BY <1>2, <2>1, <2>3 DEF Parts
<1>3. ASSUME NEW m \in 0..N, m \in D, Parts(f[m - p[m]], m - p[m], D, p) PROVE Parts(f[m], m, D, p)
  <2> DEFINE x == p[m]
             L == f[m - x]
             M == f[m]
  <2>1. x \in Nat /\ x > 0 /\ x <= m /\ m \in Nat /\ M = <<x>> \o L
    <3>1. M = <<x>> \o L
      BY <1>1, <1>3
    <3>2. p[m] \in Nat \ {0} /\ p[m] <= m
      BY <1>3
    <3> QED BY <3>1, <3>2
  <2>2. /\ L \in Seq(Nat) /\ Total(L) \in Nat /\ Total(L) <= m - x /\ (m - x) - Total(L) \notin D
        /\ \A i \in 1..Len(L) : (m - x) - SumTo(L, i - 1) \in D /\ L[i] = p[(m - x) - SumTo(L, i - 1)]
    BY <1>3 DEF Parts
  <2> HIDE DEF L, M, x
  <2>3. Len(L) \in Nat /\ Len(L) \in 0..Len(L)
    BY <2>2
  <2>4. /\ M \in Seq(Nat) /\ Len(M) = 1 + Len(L) /\ M[1] = x
        /\ \A i \in 1..Len(L) : M[i + 1] = L[i]
        /\ \A i \in 0..Len(L) : SumTo(M, i + 1) = x + SumTo(L, i)
    BY <2>1, <2>2, ConsFacts
  <2>5. Total(M) = x + Total(L)
    <3>1. Len(M) = Len(L) + 1
      BY <2>3, <2>4
    <3> QED BY <2>3, <2>4, <3>1 DEF Total
  <2>6. m - Total(M) = (m - x) - Total(L)
    BY <2>1, <2>2, <2>5
  <2>7. ASSUME NEW i \in 1..Len(M) PROVE m - SumTo(M, i - 1) \in D /\ M[i] = p[m - SumTo(M, i - 1)]
    <3>1. CASE i = 1
      <4>1. SumTo(M, i - 1) = 0
        BY <2>4, <3>1, SumFacts
      <4>2. m - SumTo(M, i - 1) = m
        BY <2>1, <4>1
      <4> QED BY <1>3, <2>4, <3>1, <4>2 DEF x
    <3>2. CASE i # 1
      <4> DEFINE j == i - 1
      <4>1. j \in 1..Len(L) /\ i = j + 1 /\ j - 1 \in 0..Len(L) /\ j = (j - 1) + 1
        BY <2>3, <2>4, <3>2
      <4> HIDE DEF j
      <4>2. M[i] = L[j] /\ SumTo(M, j) = x + SumTo(L, j - 1) /\ SumTo(L, j - 1) \in Nat
        BY <2>2, <2>4, <4>1, SumFacts
      <4>3. m - SumTo(M, j) = (m - x) - SumTo(L, j - 1)
        BY <2>1, <4>2
      <4>4. i - 1 = j
        BY DEF j
      <4> QED BY <2>2, <4>1, <4>2, <4>3, <4>4
    <3> QED BY <3>1, <3>2
  <2>8. Parts(M, m, D, p)
    <3>1. Total(M) \in Nat /\ Total(M) <= m
      BY <2>1, <2>2, <2>5
    <3>2. m - Total(M) \notin D
      BY <2>2, <2>6
    <3> QED BY <2>4, <2>7, <3>1, <3>2 DEF Parts
  <2> QED BY <2>8 DEF M
<1>4. 0 \in S
  <2>1. \A m \in 0..N : m <= 0 => m \notin D
    OBVIOUS
  <2> QED BY <1>2, <2>1
<1>5. ASSUME NEW k \in Nat, k \in S PROVE k + 1 \in S
  <2> SUFFICES ASSUME NEW m \in 0..N, m <= k + 1, m \in D PROVE Parts(f[m], m, D, p)
    BY <1>2
  <2>1. m - p[m] \in 0..N /\ m - p[m] <= k
    <3>1. p[m] \in Nat /\ p[m] > 0 /\ p[m] <= m
      OBVIOUS
    <3> QED BY <3>1
  <2>2. Parts(f[m - p[m]], m - p[m], D, p)
    BY <1>5, <2>1
  <2> QED BY <1>3, <2>2
<1>6. Nat \subseteq S
  <2> HIDE DEF S
  <2> QED BY <1>4, <1>5, Induction
<1>7. n \in S /\ n <= n
  BY <1>6
<1> QED BY <1>7

\* The lengths that follow the alignment of the base, and why the loop stops.
LEMMA AscendingFacts ==
  ASSUME NEW base \in Nat, NEW len \in Nat, base + len < 4 * Space
  PROVE  LET L == Ascending(base, len)
         IN /\ L \in Seq(Nat) /\ Total(L) \in Nat /\ Total(L) <= len
            /\ \A i \in 1..Len(L) : L[i] \in Powers /\ Divides(L[i], base + SumTo(L, i - 1))
            /\ \/ len - Total(L) = 0 \/ base + Total(L) = 0
               \/ len - Total(L) < Alignment(base + Total(L))
<1> DEFINE end == base + len
           D == {n \in 1..len : n < end /\ Alignment(end - n) <= n}
           p == [n \in D |-> Alignment(end - n)]
           P(g) == g = [n \in 0..len |->
                          IF n < end /\ Alignment(end - n) <= n
                          THEN <<Alignment(end - n)>> \o g[n - Alignment(end - n)] ELSE <<>>]
           t == CHOOSE g : P(g)
<1>1. Space \in Nat /\ end \in Nat
  BY PowerFacts
<1>2. ASSUME NEW n \in 0..len, n < end
      PROVE  /\ Alignment(end - n) \in Powers /\ Alignment(end - n) \in Nat \ {0}
             /\ Divides(Alignment(end - n), end - n)
  <2>1. end - n \in Nat /\ end - n > 0 /\ end - n < 4 * Space
    BY <1>1, <1>2
  <2> HIDE DEF end
  <2> QED BY <2>1, AlignmentFacts, PowerFacts
<1> HIDE DEF end
<1>3. \A n \in D : n \in 0..len /\ n < end /\ Alignment(end - n) <= n /\ p[n] = Alignment(end - n)
  OBVIOUS
<1>4. p \in [D -> Nat \ {0}] /\ \A n \in D : p[n] <= n
  BY <1>2, <1>3
<1>5. \A n \in 0..len : n \in D <=> n < end /\ Alignment(end - n) <= n
  <2> SUFFICES ASSUME NEW n \in 0..len, n < end, Alignment(end - n) <= n PROVE n \in D
    OBVIOUS
  <2>1. Alignment(end - n) \in Nat \ {0}
    BY <1>2
  <2> QED BY <2>1
<1>6. D \in SUBSET (1..len)
  OBVIOUS
<1> HIDE DEF D, p
<1>7. ASSUME NEW f PROVE P(f) <=> Splits(f, len, D, p)
  <2>1. \A n \in 0..len :
          (IF n < end /\ Alignment(end - n) <= n THEN <<Alignment(end - n)>> \o f[n - Alignment(end - n)] ELSE <<>>)
          = (IF n \in D THEN <<p[n]>> \o f[n - p[n]] ELSE <<>>)
    BY <1>3, <1>5
  <2>2. [n \in 0..len |-> IF n < end /\ Alignment(end - n) <= n
                          THEN <<Alignment(end - n)>> \o f[n - Alignment(end - n)] ELSE <<>>]
        = [n \in 0..len |-> IF n \in D THEN <<p[n]>> \o f[n - p[n]] ELSE <<>>]
    BY <2>1
  <2> QED BY <2>2 DEF Splits
<1>8. P(t)
  <2>1. \E f : P(f)
    <3> HIDE DEF P
    <3> QED BY <1>4, <1>6, <1>7, SplitExists
  <2> HIDE DEF P
  <2> QED BY <2>1, Zenon
<1>9. Ascending(base, len) = t[len]
  BY Zenon DEF Ascending, end
<1>10. Parts(t[len], len, D, p)
  <2>1. Splits(t, len, D, p)
    BY <1>7, <1>8
  <2> HIDE DEF t
  <2> QED BY <1>4, <1>6, <2>1, SplitParts
<1> DEFINE L == Ascending(base, len)
<1>11. Parts(L, len, D, p)
  BY <1>9, <1>10
<1> HIDE DEF t, L
<1>12. L \in Seq(Nat) /\ Total(L) \in Nat /\ Total(L) <= len
  BY <1>11 DEF Parts
<1>13. ASSUME NEW i \in 1..Len(L) PROVE L[i] \in Powers /\ Divides(L[i], base + SumTo(L, i - 1))
  <2> DEFINE n == len - SumTo(L, i - 1)
  <2>1. n \in D /\ L[i] = p[n]
    BY <1>11 DEF Parts
  <2>2. SumTo(L, i - 1) \in Nat
    <3>1. i - 1 \in 0..Len(L)
      OBVIOUS
    <3> QED BY <1>12, <3>1, SumFacts
  <2>3. end - n = base + SumTo(L, i - 1)
    BY <2>2 DEF end
  <2> HIDE DEF n
  <2> QED BY <1>2, <1>3, <2>1, <2>3
<1>14. \/ len - Total(L) = 0 \/ base + Total(L) = 0
       \/ len - Total(L) < Alignment(base + Total(L))
  <2> DEFINE n == len - Total(L)
  <2>1. n \in 0..len /\ n \notin D
    BY <1>11, <1>12 DEF Parts
  <2>2. end - n = base + Total(L)
    BY <1>12 DEF end
  <2>3. n < end \/ base + Total(L) = 0
    BY <1>12 DEF end
  <2> SUFFICES ASSUME n < end PROVE n < Alignment(end - n)
    BY <2>2, <2>3
  <2>4. Alignment(end - n) \in Nat /\ ~(Alignment(end - n) <= n) /\ n \in Nat
    <3> HIDE DEF n
    <3> QED BY <1>2, <1>5, <2>1
  <2> QED BY <2>4
<1> QED BY <1>12, <1>13, <1>14 DEF L

\* The largest powers of two that are left: they get smaller, so that each
\* divides what was before it.
LEMMA DescendingFacts ==
  ASSUME NEW len \in Nat, len < 4 * Space
  PROVE  LET L == Descending(len)
         IN /\ L \in Seq(Nat) /\ Total(L) = len
            /\ \A i \in 1..Len(L) : L[i] \in Powers /\ L[i] <= len /\ Divides(L[i], SumTo(L, i - 1))
            /\ len \in Powers => Len(L) <= 1
<1> DEFINE D == 1..len
           p == [n \in D |-> Power2MaxMemory(n)]
           P(g) == g = [n \in 0..len |->
                          IF n = 0 THEN <<>> ELSE <<Power2MaxMemory(n)>> \o g[n - Power2MaxMemory(n)]]
           t == CHOOSE g : P(g)
<1>1. Space \in Nat
  BY PowerFacts
<1>2. ASSUME NEW n \in D
      PROVE  /\ p[n] = Power2MaxMemory(n) /\ p[n] \in Powers /\ p[n] \in Nat \ {0}
             /\ p[n] <= n /\ n < 2 * p[n]
  <2>1. n \in Nat /\ n > 0 /\ n < 4 * Space
    BY <1>1
  <2> QED BY <2>1, MaxMemory, PowerFacts
<1>3. p \in [D -> Nat \ {0}] /\ \A n \in D : p[n] <= n
  <2>1. p = [n \in D |-> p[n]]
    OBVIOUS
  <2> HIDE DEF p
  <2> QED BY <1>2, <2>1
<1>4. D \in SUBSET (1..len) /\ \A n \in 0..len : n \in D <=> n # 0
  OBVIOUS
<1> HIDE DEF D, p
<1>5. ASSUME NEW f PROVE P(f) <=> Splits(f, len, D, p)
  <2>1. \A n \in 0..len :
          (IF n = 0 THEN <<>> ELSE <<Power2MaxMemory(n)>> \o f[n - Power2MaxMemory(n)])
          = (IF n \in D THEN <<p[n]>> \o f[n - p[n]] ELSE <<>>)
    BY <1>2, <1>4
  <2>2. [n \in 0..len |-> IF n = 0 THEN <<>> ELSE <<Power2MaxMemory(n)>> \o f[n - Power2MaxMemory(n)]]
        = [n \in 0..len |-> IF n \in D THEN <<p[n]>> \o f[n - p[n]] ELSE <<>>]
    BY <2>1
  <2> QED BY <2>2 DEF Splits
<1>6. P(t)
  <2>1. \E f : P(f)
    <3> HIDE DEF P
    <3> QED BY <1>3, <1>4, <1>5, SplitExists
  <2> HIDE DEF P
  <2> QED BY <2>1, Zenon
<1>7. Descending(len) = t[len]
  BY Zenon DEF Descending
<1>8. Parts(t[len], len, D, p)
  <2>1. Splits(t, len, D, p)
    BY <1>5, <1>6
  <2> HIDE DEF t
  <2> QED BY <1>3, <1>4, <2>1, SplitParts
<1> DEFINE L == Descending(len)
<1>9. Parts(L, len, D, p)
  BY <1>7, <1>8
<1> HIDE DEF t, L
<1>10. L \in Seq(Nat) /\ Total(L) = len /\ Len(L) \in Nat
  <2>1. L \in Seq(Nat) /\ Total(L) \in Nat /\ Total(L) <= len /\ len - Total(L) \notin D
    BY <1>9 DEF Parts
  <2>2. len - Total(L) \in 0..len
    BY <2>1
  <2>3. len - Total(L) = 0
    BY <1>4, <2>1, <2>2
  <2> QED BY <2>1, <2>3
<1>11. ASSUME NEW i \in 1..Len(L)
       PROVE  /\ L[i] \in Powers /\ L[i] \in Nat \ {0} /\ L[i] <= len - SumTo(L, i - 1)
              /\ len - SumTo(L, i - 1) < 2 * L[i] /\ SumTo(L, i - 1) \in Nat
              /\ SumTo(L, i) = SumTo(L, i - 1) + L[i] /\ len - SumTo(L, i - 1) \in D
  <2>1. len - SumTo(L, i - 1) \in D /\ L[i] = p[len - SumTo(L, i - 1)]
    BY <1>9 DEF Parts
  <2>2. i - 1 \in 0..Len(L)
    BY <1>10
  <2> QED BY <1>2, <1>10, <2>1, <2>2, SumFacts
<1>12. ASSUME NEW i \in 1..Len(L), i + 1 \in 1..Len(L) PROVE L[i + 1] <= L[i]
  <2>1. (i + 1) - 1 = i
    BY <1>10
  <2>2. L[i + 1] <= len - SumTo(L, i) /\ L[i + 1] \in Nat
    BY <1>11, <1>12, <2>1
  <2>3. /\ len - SumTo(L, i - 1) < 2 * L[i] /\ L[i] \in Nat /\ SumTo(L, i - 1) \in Nat
        /\ SumTo(L, i) = SumTo(L, i - 1) + L[i]
    BY <1>11
  <2> QED BY SMTT(30), <2>2, <2>3
<1> DEFINE S == {i \in Nat : i + 1 <= Len(L) => Divides(L[i + 1], SumTo(L, i))}
<1>13. 0 \in S
  <2>1. SumTo(L, 0) = 0
    BY <1>10, SumFacts
  <2> SUFFICES ASSUME 0 + 1 <= Len(L) PROVE Divides(L[0 + 1], SumTo(L, 0))
    OBVIOUS
  <2>2. 1 \in 1..Len(L) /\ 0 + 1 = 1
    BY <1>10
  <2>3. L[1] \in Nat
    BY <1>11, <2>2
  <2>4. Divides(L[1], SumTo(L, 0))
    BY ZenonT(30), <2>1, <2>3, DividesFacts
  <2> QED BY <2>2, <2>4
<1>14. ASSUME NEW i \in Nat, i \in S PROVE i + 1 \in S
  <2> SUFFICES ASSUME (i + 1) + 1 <= Len(L) PROVE Divides(L[(i + 1) + 1], SumTo(L, i + 1))
    OBVIOUS
  <2> DEFINE j == i + 1
  <2>1. j \in 1..Len(L) /\ j + 1 \in 1..Len(L) /\ j - 1 = i /\ i + 1 <= Len(L)
    BY <1>10
  <2>2. Divides(L[j], SumTo(L, i))
    BY <1>14, <2>1
  <2> HIDE DEF j
  <2>3. /\ L[j] \in Powers /\ L[j + 1] \in Powers /\ L[j + 1] <= L[j] /\ SumTo(L, j) = SumTo(L, i) + L[j]
        /\ L[j] \in Nat /\ L[j + 1] \in Nat /\ SumTo(L, i) \in Nat
    BY <1>11, <1>12, <2>1
  <2>4. Divides(L[j + 1], L[j])
    BY <2>3, PowerFacts
  <2>5. Divides(L[j + 1], SumTo(L, i))
    BY <2>2, <2>3, <2>4, DividesFacts
  <2>6. Divides(L[j + 1], SumTo(L, j))
    <3> DEFINE x == L[j + 1]
               y == SumTo(L, i)
               z == L[j]
    <3>1. x \in Nat /\ y \in Nat /\ z \in Nat /\ Divides(x, y) /\ Divides(x, z)
      BY <2>3, <2>4, <2>5
    <3> HIDE DEF x, y, z
    <3>2. Divides(x, y + z)
      BY <3>1, DividesFacts
    <3> QED BY <2>3, <3>2 DEF x, y, z
  <2> QED BY <2>6 DEF j
<1>15. Nat \subseteq S
  <2> HIDE DEF S
  <2> QED BY <1>13, <1>14, Induction
<1>16. ASSUME NEW i \in 1..Len(L) PROVE L[i] \in Powers /\ L[i] <= len /\ Divides(L[i], SumTo(L, i - 1))
  <2>1. i - 1 \in Nat /\ (i - 1) + 1 = i /\ i <= Len(L)
    BY <1>10
  <2>2. Divides(L[i], SumTo(L, i - 1))
    BY <1>15, <2>1
  <2> QED BY <1>11, <2>2
<1>17. ASSUME len \in Powers PROVE Len(L) <= 1
  <2> SUFFICES ASSUME 2 <= Len(L) PROVE FALSE
    BY <1>10
  <2>1. 1 \in 1..Len(L) /\ 2 \in 1..Len(L) /\ 1 - 1 = 0 /\ 2 - 1 = 1
    BY <1>10
  <2>2. SumTo(L, 0) = 0
    BY <1>10, SumFacts
  <2>3. L[1] \in Powers /\ L[1] \in Nat /\ L[1] <= len /\ len < 2 * L[1] /\ SumTo(L, 1) = L[1]
    BY <1>11, <2>1, <2>2
  <2>4. L[1] = len
    BY <1>17, <2>3, PowerFacts
  <2>5. len - SumTo(L, 1) \in D
    BY <1>11, <2>1
  <2> QED BY <1>4, <2>3, <2>4, <2>5
<1> QED BY <1>10, <1>16, <1>17 DEF L

-----------------------------------------------------------------------------
(* The blocks that are programmed for a range.                             *)

Contained == [on : BOOLEAN, base : Nat, len : Nat, type : Types]
\* An MTRR that is enabled and acceptable.
Good(b) == b \in Contained /\ b.on /\ WellFormed(b)
\* Blocks of one type that lie between two addresses and leave no gap.
Lays(S, low, high, type) ==
  /\ \A b \in S : Good(b) /\ b.type = type /\ low <= b.base /\ b.base + b.len <= high
  /\ \A a \in Nat : low <= a /\ a < high => \E b \in S : Covers(b, a)

LEMMA MtrrFacts ==
  ASSUME NEW b \in Nat, NEW l \in Powers, NEW t \in Types, Divides(l, b), b + l <= Space
  PROVE  LET m == Mtrr(b, l, t)
         IN Good(m) /\ m.type = t /\ m.base = b /\ m.len = l /\ \A a \in Nat : b <= a /\ a < b + l => Covers(m, a)
<1> DEFINE m == Mtrr(b, l, t)
<1>1. l \in Nat \ {0} /\ Space \in Nat
  BY PowerFacts
<1>2. m.on = TRUE /\ m.base = b /\ m.len = l /\ m.type = t /\ m \in Contained
  BY <1>1 DEF Mtrr, Contained
<1>3. b % l = 0
  BY <1>1, DividesFacts
<1> HIDE DEF m
<1>4. WellFormed(m)
  BY <1>1, <1>2, <1>3 DEF WellFormed, MtrrEnd
<1>5. \A a \in Nat : b <= a /\ a < b + l => Covers(m, a)
  BY <1>1, <1>2 DEF Covers, MtrrEnd
<1> QED BY <1>2, <1>4, <1>5 DEF Good, m

LEMMA LaysTogether ==
  ASSUME NEW S, NEW R, NEW low \in Nat, NEW mid \in Nat, NEW high \in Nat, NEW t, low <= mid, mid <= high,
         Lays(S, low, mid, t), Lays(R, mid, high, t)
  PROVE  Lays(S \cup R, low, high, t)
<1>1. ASSUME NEW b \in S \cup R PROVE Good(b) /\ b.type = t /\ low <= b.base /\ b.base + b.len <= high
  <2>1. Good(b) /\ b.type = t /\ (low <= b.base \/ mid <= b.base) /\ (b.base + b.len <= mid \/ b.base + b.len <= high)
    BY DEF Lays
  <2>2. b.base \in Nat /\ b.len \in Nat
    BY <2>1 DEF Good, Contained
  <2> QED BY <2>1, <2>2
<1>2. ASSUME NEW a \in Nat, low <= a, a < high PROVE \E b \in S \cup R : Covers(b, a)
  <2>1. a < mid \/ mid <= a
    OBVIOUS
  <2> QED BY <1>2, <2>1 DEF Lays
<1> QED BY <1>1, <1>2 DEF Lays

LEMMA OneLays ==
  ASSUME NEW b \in Nat, NEW l \in Powers, NEW t \in Types, Divides(l, b), b + l <= Space
  PROVE  Lays({Mtrr(b, l, t)}, b, b + l, t)
<1> DEFINE m == Mtrr(b, l, t)
<1>1. Good(m) /\ m.type = t /\ m.base = b /\ m.len = l /\ \A a \in Nat : b <= a /\ a < b + l => Covers(m, a)
  BY MtrrFacts
<1>2. l \in Nat
  BY PowerFacts
<1> HIDE DEF m
<1>3. Lays({m}, b, b + l, t)
  BY <1>1, <1>2 DEF Lays
<1> QED BY <1>3 DEF m

LEMMA UpwardsFacts ==
  ASSUME NEW base \in Nat, NEW L \in Seq(Nat), NEW t \in Types, base + Total(L) <= Space,
         \A i \in 1..Len(L) : L[i] \in Powers /\ Divides(L[i], base + SumTo(L, i - 1))
  PROVE  LET U == Upwards(base, L, t)
         IN U \in Seq(Contained) /\ Len(U) = Len(L) /\ Lays(Range(U), base, base + Total(L), t)
<1> DEFINE U == Upwards(base, L, t)
<1>1. Len(L) \in Nat /\ DOMAIN L = 1..Len(L) /\ Space \in Nat /\ Len(L) \in 0..Len(L)
  BY PowerFacts
<1>2. U = [i \in 1..Len(L) |-> Mtrr(base + SumTo(L, i - 1), L[i], t)]
  BY <1>1 DEF Upwards
<1> HIDE DEF U
<1>3. ASSUME NEW i \in 1..Len(L)
      PROVE  /\ Good(U[i]) /\ U[i].type = t /\ base <= U[i].base /\ U[i].base + U[i].len <= base + Total(L)
             /\ \A a \in Nat : base + SumTo(L, i - 1) <= a /\ a < base + SumTo(L, i) => Covers(U[i], a)
  <2> DEFINE b == base + SumTo(L, i - 1)
  <2>1. i - 1 \in 0..Len(L) /\ i \in 0..Len(L) /\ i <= Len(L)
    BY <1>1
  <2>2. SumTo(L, i - 1) \in Nat /\ SumTo(L, i) = SumTo(L, i - 1) + L[i] /\ L[i] \in Nat
    BY <2>1, SumFacts
  <2>3. SumTo(L, i) <= Total(L) /\ Total(L) \in Nat
    BY <1>1, <2>1, SumFacts, SumGrows DEF Total
  <2>4. b \in Nat /\ b + L[i] = base + SumTo(L, i) /\ base <= b /\ b + L[i] <= base + Total(L) /\ b + L[i] <= Space
    BY SMTT(30), <1>1, <2>2, <2>3
  <2>5. L[i] \in Powers /\ Divides(L[i], b) /\ U[i] = Mtrr(b, L[i], t)
    BY <1>2
  <2> HIDE DEF b
  <2>6. /\ Good(U[i]) /\ U[i].type = t /\ U[i].base = b /\ U[i].len = L[i]
        /\ \A a \in Nat : b <= a /\ a < b + L[i] => Covers(U[i], a)
    BY <2>4, <2>5, MtrrFacts
  <2> QED BY <2>4, <2>6 DEF b
<1>4. U \in Seq(Contained) /\ Len(U) = Len(L) /\ DOMAIN U = 1..Len(L)
  <2>1. \A i \in 1..Len(L) : U[i] \in Contained
    BY <1>3 DEF Good
  <2>2. U \in [1..Len(L) -> Contained]
    BY <1>2, <2>1
  <2> QED BY <1>1, <2>2
<1>5. Range(U) = {U[i] : i \in 1..Len(L)}
  BY <1>4 DEF Range
<1>6. ASSUME NEW a \in Nat, base <= a, a < base + Total(L) PROVE \E b \in Range(U) : Covers(b, a)
  <2>1. Total(L) \in Nat
    BY <1>1, SumFacts DEF Total
  <2>2. a - base \in Nat /\ a - base < Total(L)
    BY <1>6, <2>1
  <2>3. PICK i \in 1..Len(L) : SumTo(L, i - 1) <= a - base /\ a - base < SumTo(L, i)
    BY <2>2, SumCovers
  <2>4. SumTo(L, i - 1) \in Nat /\ SumTo(L, i) \in Nat
    <3>1. i - 1 \in 0..Len(L) /\ i \in 0..Len(L)
      BY <1>1
    <3> QED BY <3>1, SumFacts
  <2>5. base + SumTo(L, i - 1) <= a /\ a < base + SumTo(L, i)
    BY <2>3, <2>4
  <2> QED BY <1>3, <1>5, <2>5
<1>7. Lays(Range(U), base, base + Total(L), t)
  BY <1>3, <1>5, <1>6 DEF Lays
<1> QED BY <1>4, <1>7 DEF U

LEMMA DownwardsFacts ==
  ASSUME NEW top \in Nat, NEW L \in Seq(Nat), NEW t \in Types, top <= Space, Total(L) <= top,
         \A i \in 1..Len(L) : L[i] \in Powers /\ Divides(L[i], top - SumTo(L, i))
  PROVE  LET U == Downwards(top, L, t)
         IN U \in Seq(Contained) /\ Len(U) = Len(L) /\ Lays(Range(U), top - Total(L), top, t)
<1> DEFINE U == Downwards(top, L, t)
<1>1. Len(L) \in Nat /\ DOMAIN L = 1..Len(L) /\ Space \in Nat /\ Len(L) \in 0..Len(L)
  BY PowerFacts
<1>2. U = [i \in 1..Len(L) |-> Mtrr(top - SumTo(L, i), L[i], t)]
  BY <1>1 DEF Downwards
<1>0. Total(L) \in Nat
  BY <1>1, SumFacts DEF Total
<1> HIDE DEF U
<1>3. ASSUME NEW i \in 1..Len(L)
      PROVE  /\ Good(U[i]) /\ U[i].type = t /\ top - Total(L) <= U[i].base /\ U[i].base + U[i].len <= top
             /\ \A a \in Nat : top - SumTo(L, i) <= a /\ a < top - SumTo(L, i - 1) => Covers(U[i], a)
  <2> DEFINE b == top - SumTo(L, i)
  <2>1. i - 1 \in 0..Len(L) /\ i \in 0..Len(L) /\ i <= Len(L)
    BY <1>1
  <2>2. SumTo(L, i - 1) \in Nat /\ SumTo(L, i) = SumTo(L, i - 1) + L[i] /\ L[i] \in Nat /\ SumTo(L, i) \in Nat
    BY <2>1, SumFacts
  <2>3. SumTo(L, i) <= Total(L)
    BY <1>1, <2>1, SumGrows DEF Total
  <2>4. b \in Nat /\ b + L[i] = top - SumTo(L, i - 1) /\ top - Total(L) <= b /\ b + L[i] <= top /\ b + L[i] <= Space
    <3> DEFINE x == SumTo(L, i)
               y == SumTo(L, i - 1)
               z == Total(L)
               l == L[i]
    <3>1. x \in Nat /\ y \in Nat /\ z \in Nat /\ l \in Nat /\ x = y + l /\ x <= z /\ z <= top /\ top <= Space
      BY <1>0, <2>2, <2>3
    <3> HIDE DEF x, y, z, l
    <3> SUFFICES top - x \in Nat /\ (top - x) + l = top - y /\ top - z <= top - x /\ (top - x) + l <= top /\ (top - x) + l <= Space
      BY DEF x, y, z, l
    <3> QED BY <1>1, <3>1
  <2>5. L[i] \in Powers /\ Divides(L[i], b) /\ U[i] = Mtrr(b, L[i], t)
    BY <1>2
  <2> HIDE DEF b
  <2>6. /\ Good(U[i]) /\ U[i].type = t /\ U[i].base = b /\ U[i].len = L[i]
        /\ \A a \in Nat : b <= a /\ a < b + L[i] => Covers(U[i], a)
    BY <2>4, <2>5, MtrrFacts
  <2> QED BY <2>4, <2>6 DEF b
<1>4. U \in Seq(Contained) /\ Len(U) = Len(L) /\ DOMAIN U = 1..Len(L)
  <2>1. \A i \in 1..Len(L) : U[i] \in Contained
    BY <1>3 DEF Good
  <2>2. U \in [1..Len(L) -> Contained]
    BY <1>2, <2>1
  <2> QED BY <1>1, <2>2
<1>5. Range(U) = {U[i] : i \in 1..Len(L)}
  BY <1>4 DEF Range
<1>6. ASSUME NEW a \in Nat, top - Total(L) <= a, a < top PROVE \E b \in Range(U) : Covers(b, a)
  <2>2. top - 1 - a \in Nat /\ top - 1 - a < Total(L)
    BY <1>0, <1>6
  <2>3. PICK i \in 1..Len(L) : SumTo(L, i - 1) <= top - 1 - a /\ top - 1 - a < SumTo(L, i)
    BY <2>2, SumCovers
  <2>4. SumTo(L, i - 1) \in Nat /\ SumTo(L, i) \in Nat
    <3>1. i - 1 \in 0..Len(L) /\ i \in 0..Len(L)
      BY <1>1
    <3> QED BY <3>1, SumFacts
  <2>5. top - SumTo(L, i) <= a /\ a < top - SumTo(L, i - 1)
    BY <2>3, <2>4
  <2> QED BY <1>3, <1>5, <2>5
<1>7. Lays(Range(U), top - Total(L), top, t)
  BY <1>3, <1>5, <1>6 DEF Lays
<1> QED BY <1>4, <1>7 DEF U

\* Enough blocks for a range, and what exceeds it is uncached.
Fills(S, low, high, type) ==
  /\ \A b \in S : Good(b)
  /\ \A a \in Nat : low <= a /\ a < high =>
       (\E b \in S : Covers(b, a)) /\ \A b \in S : Covers(b, a) => b.type = type
  /\ \A a \in Nat : ~(low <= a /\ a < high) /\ (\E b \in S : Covers(b, a)) =>
       \A t \in {type, "UC"} : \E c \in S : Covers(c, a) /\ c.type = t

LEMMA FillsUp ==
  ASSUME NEW S, NEW low \in Nat, NEW high \in Nat, NEW t, Lays(S, low, high, t)
  PROVE  Fills(S, low, high, t)
<1>1. ASSUME NEW a \in Nat, NEW b \in S, Covers(b, a) PROVE low <= a /\ a < high
  <2>1. b.base \in Nat /\ b.len \in Nat /\ low <= b.base /\ b.base + b.len <= high
    BY DEF Lays, Good, Contained
  <2> QED BY <1>1, <2>1 DEF Covers, MtrrEnd
<1> QED BY <1>1 DEF Lays, Fills

LEMMA FillsDown ==
  ASSUME NEW S, NEW R, NEW low \in Nat, NEW high \in Nat, NEW top \in Nat, NEW t,
         Lays(S, low, top, t), Lays(R, high, top, "UC"), high <= top, low <= high
  PROVE  Fills(S \cup R, low, high, t)
<1>1. ASSUME NEW a \in Nat, NEW b \in S \cup R, Covers(b, a)
      PROVE  low <= a /\ a < top /\ (b \in S \/ high <= a)
  <2>1. b.base \in Nat /\ b.len \in Nat /\ (low <= b.base \/ high <= b.base) /\ b.base + b.len <= top
        /\ (b \in S \/ high <= b.base)
    BY DEF Lays, Good, Contained
  <2> QED BY <1>1, <2>1 DEF Covers, MtrrEnd
<1>2. ASSUME NEW a \in Nat, NEW b \in S \cup R, Covers(b, a), ~(low <= a /\ a < high)
      PROVE  \A u \in {t, "UC"} : \E c \in S \cup R : Covers(c, a) /\ c.type = u
  <2>1. low <= a /\ high <= a /\ a < top
    BY <1>1, <1>2
  <2> QED BY <2>1 DEF Lays
<1>3. ASSUME NEW a \in Nat, low <= a, a < high
      PROVE  (\E b \in S \cup R : Covers(b, a)) /\ \A b \in S \cup R : Covers(b, a) => b.type = t
  <2>1. a < top
    BY <1>3
  <2>2. \A b \in S \cup R : Covers(b, a) => b \in S
    BY <1>1, <1>3
  <2> QED BY <1>3, <2>1, <2>2 DEF Lays
<1>4. \A b \in S \cup R : Good(b)
  BY DEF Lays
<1> QED BY <1>2, <1>3, <1>4 DEF Fills

LEMMA RangeTogether ==
  ASSUME NEW X \in Seq(Contained), NEW Y \in Seq(Contained)
  PROVE  X \o Y \in Seq(Contained) /\ Len(X \o Y) = Len(X) + Len(Y) /\ Range(X \o Y) = Range(X) \cup Range(Y)
<1>1. X \o Y \in Seq(Contained) /\ Len(X \o Y) = Len(X) + Len(Y) /\ Len(X) \in Nat /\ Len(Y) \in Nat
  OBVIOUS
<1>2. \A Z \in Seq(Contained) : Range(Z) = {Z[i] : i \in 1..Len(Z)}
  BY DEF Range
<1>3. ASSUME NEW i \in 1..Len(X) PROVE (X \o Y)[i] = X[i] /\ i \in 1..Len(X \o Y)
  BY <1>1
<1>4. ASSUME NEW i \in 1..Len(Y) PROVE (X \o Y)[Len(X) + i] = Y[i] /\ Len(X) + i \in 1..Len(X \o Y)
  BY <1>1
<1>5. ASSUME NEW i \in 1..Len(X \o Y)
      PROVE  (X \o Y)[i] \in {X[j] : j \in 1..Len(X)} \cup {Y[j] : j \in 1..Len(Y)}
  <2>1. CASE i <= Len(X)
    <3>1. i \in 1..Len(X)
      BY <2>1
    <3> QED BY <1>3, <3>1
  <2>2. CASE i > Len(X)
    <3>1. i - Len(X) \in 1..Len(Y) /\ Len(X) + (i - Len(X)) = i
      BY <1>1, <2>2
    <3> QED BY <1>4, <3>1
  <2> QED BY <1>1, <2>1, <2>2
<1>6. {(X \o Y)[i] : i \in 1..Len(X \o Y)} = {X[j] : j \in 1..Len(X)} \cup {Y[j] : j \in 1..Len(Y)}
  <2> DEFINE Z == X \o Y
  <2>1. /\ \A i \in 1..Len(X) : Z[i] = X[i] /\ i \in 1..Len(Z)
        /\ \A i \in 1..Len(Y) : Z[Len(X) + i] = Y[i] /\ Len(X) + i \in 1..Len(Z)
        /\ \A i \in 1..Len(Z) : Z[i] \in {X[j] : j \in 1..Len(X)} \cup {Y[j] : j \in 1..Len(Y)}
    BY <1>3, <1>4, <1>5
  <2> HIDE DEF Z
  <2>2. \A e : e \in {Z[i] : i \in 1..Len(Z)} <=> e \in {X[j] : j \in 1..Len(X)} \cup {Y[j] : j \in 1..Len(Y)}
    BY <2>1
  <2> QED BY <2>2 DEF Z
<1> QED BY <1>1, <1>2, <1>6

\* The blocks fill the range, and there are as many as have been counted.
LEMMA BlocksFill ==
  ASSUME NEW start \in Nat, NEW len \in Nat \ {0}, start + len <= Space, NEW type \in Types
  PROVE  LET n == GetMtrrNumberAndDirection(start, len)
             B == Blocks(start, len, type, n.positive)
         IN /\ B \in Seq(Contained) /\ Len(B) = n.number
            /\ Fills(Range(B), start, start + len, type)
<1> DEFINE A == Ascending(start, len)
           base2 == start + Total(A)
           rest == len - Total(A)
           P == Power2MaxMemory(2 * rest)
           D == Descending(rest)
           E == Descending(P - rest)
           n == GetMtrrNumberAndDirection(start, len)
           B == Blocks(start, len, type, n.positive)
           X == Upwards(start, A, type)
           Y == Upwards(base2, D, type)
           Z == <<Mtrr(base2, P, type)>>
           W == Downwards(base2 + P, E, "UC")
<1>1. Space \in Nat \ {0} /\ Space \in Powers /\ start + len < 4 * Space
  <2>1. Space \in Powers /\ Powers \subseteq Nat \ {0}
    BY PowerFacts
  <2> QED BY <2>1
<1>2. /\ A \in Seq(Nat) /\ Total(A) \in Nat /\ Total(A) <= len
      /\ \A i \in 1..Len(A) : A[i] \in Powers /\ Divides(A[i], start + SumTo(A, i - 1))
      /\ rest = 0 \/ base2 = 0 \/ rest < Alignment(base2)
  BY <1>1, AscendingFacts
<1> HIDE DEF A
<1>3. base2 \in Nat /\ rest \in Nat /\ base2 + rest = start + len /\ rest <= Space /\ base2 <= Space /\ start <= base2
  BY <1>1, <1>2
<1>4. X \in Seq(Contained) /\ Len(X) = Len(A) /\ Lays(Range(X), start, base2, type)
  <2>1. start + Total(A) <= Space
    BY <1>3
  <2> QED BY <1>2, <2>1, UpwardsFacts
<1>5. CASE rest = 0
  <2>1. n.number = Len(A) /\ B = X \o <<>>
    BY <1>5 DEF GetMtrrNumberAndDirection, Blocks, A
  <2>2. B = X
    <3> HIDE DEF X, B
    <3> QED BY <1>4, <2>1
  <2>3. base2 = start + len
    BY <1>2, <1>5
  <2>4. Fills(Range(X), start, base2, type)
    <3> HIDE DEF X, base2
    <3> QED BY <1>3, <1>4, FillsUp
  <2> HIDE DEF B, n, X
  <2> QED BY <1>4, <2>1, <2>2, <2>3, <2>4 DEF B, n
<1>6. CASE rest # 0
  <2>1. P \in Powers /\ P \in Nat \ {0} /\ P <= 2 * rest /\ 2 * rest < 2 * P /\ rest < P
    <3>1. 2 * rest \in Nat /\ 2 * rest > 0 /\ 2 * rest < 4 * Space
      <4> HIDE DEF rest
      <4> QED BY <1>1, <1>3, <1>6
    <3>2. P \in Powers /\ P <= 2 * rest /\ 2 * rest < 2 * P
      <4> HIDE DEF rest
      <4> QED BY <3>1, MaxMemory
    <3>3. P \in Nat \ {0}
      BY <3>2, PowerFacts
    <3> HIDE DEF P, rest
    <3> QED BY <1>3, <3>2, <3>3
  <2> HIDE DEF P
  <2>2. Divides(P, base2)
    <3>1. CASE base2 = 0
      BY <2>1, <3>1, DividesFacts
    <3>2. CASE base2 # 0
      <4> DEFINE Q == Alignment(base2)
      <4>1. Q \in Powers /\ Divides(Q, base2)
        <5>1. base2 > 0 /\ base2 < 4 * Space
          <6> HIDE DEF base2
          <6> QED BY <1>1, <1>3, <3>2
        <5> HIDE DEF base2
        <5> QED BY <1>3, <5>1, AlignmentFacts
      <4>2. rest < Q /\ Q \in Nat
        BY <1>2, <1>6, <3>2, <4>1, PowerFacts
      <4> HIDE DEF Q, base2, rest
      <4>3. ~(2 * Q <= P)
        BY <1>3, <2>1, <4>2
      <4>4. P <= Q
        BY <2>1, <4>1, <4>2, <4>3, PowerFacts
      <4>5. Divides(P, Q)
        BY <2>1, <4>1, <4>4, PowerFacts
      <4> QED BY <1>3, <2>1, <4>1, <4>2, <4>5, DividesFacts
    <3> QED BY <3>1, <3>2
  <2>3. /\ D \in Seq(Nat) /\ Total(D) = rest /\ Len(D) \in Nat
        /\ \A i \in 1..Len(D) : D[i] \in Powers /\ D[i] <= rest /\ Divides(D[i], SumTo(D, i - 1))
        /\ rest \in Powers => Len(D) <= 1
    <3>1. rest < 4 * Space
      <4> HIDE DEF rest
      <4> QED BY <1>1, <1>3
    <3> HIDE DEF rest
    <3> QED BY <1>3, <3>1, DescendingFacts
  <2>4. /\ E \in Seq(Nat) /\ Total(E) = P - rest /\ Len(E) \in Nat
        /\ \A i \in 1..Len(E) : E[i] \in Powers /\ E[i] <= P - rest /\ Divides(E[i], SumTo(E, i - 1))
    <3>1. P - rest \in Nat /\ P - rest < 4 * Space
      <4> HIDE DEF rest
      <4> QED BY <1>1, <1>3, <2>1
    <3> HIDE DEF rest
    <3> QED BY <3>1, DescendingFacts
  <2>5. /\ n.number = Len(A) + Smaller(Len(D), 1 + Len(E))
        /\ n.positive <=> Len(D) <= 1 + Len(E)
    BY <1>6 DEF GetMtrrNumberAndDirection, A, P
  <2>6. (base2 + P) - base2 = P /\ (base2 + P) - base2 - rest = P - rest
    <3> HIDE DEF base2, rest
    <3> QED BY <1>3, <2>1
  <2>7. /\ n.positive => B = X \o Y
        /\ ~n.positive => B = X \o (Z \o W)
    <3>1. n.positive => B = X \o Y
      BY <1>6 DEF Blocks, A
    <3>2. ~n.positive => B = X \o (<<Mtrr(base2, (base2 + P) - base2, type)>> \o
                                   Downwards(base2 + P, Descending((base2 + P) - base2 - rest), "UC"))
      BY <1>6, Zenon DEF Blocks, A, P
    <3> HIDE DEF n, B, X, Y, base2, rest
    <3> QED BY <2>6, <3>1, <3>2
  <2> HIDE DEF n, B, D, E
  <2>8. CASE Len(D) <= 1 + Len(E)
    <3>1. ASSUME NEW i \in 1..Len(D) PROVE D[i] \in Powers /\ Divides(D[i], base2 + SumTo(D, i - 1))
      <4>1. D[i] \in Powers /\ D[i] \in Nat /\ D[i] <= rest /\ Divides(D[i], SumTo(D, i - 1))
        BY <2>3, PowerFacts
      <4>2. SumTo(D, i - 1) \in Nat
        <5>1. i - 1 \in 0..Len(D)
          BY <2>3
        <5> QED BY <2>3, <5>1, SumFacts
      <4>3. Divides(D[i], P)
        <5>1. D[i] <= P
          <6> HIDE DEF rest
          <6> QED BY <1>3, <2>1, <4>1
        <5> QED BY <2>1, <4>1, <5>1, PowerFacts
      <4> HIDE DEF base2
      <4>4. Divides(D[i], base2)
        BY <1>3, <2>1, <2>2, <4>1, <4>3, DividesFacts
      <4>5. Divides(D[i], base2 + SumTo(D, i - 1))
        <5> DEFINE x == D[i]
                   y == SumTo(D, i - 1)
        <5>1. x \in Nat /\ y \in Nat /\ Divides(x, y) /\ Divides(x, base2)
          BY <4>1, <4>2, <4>4
        <5> HIDE DEF x, y
        <5>2. Divides(x, base2 + y)
          BY <1>3, <5>1, DividesFacts
        <5> QED BY <5>2 DEF x, y
      <4> QED BY <4>1, <4>5
    <3>2. base2 + Total(D) = start + len
      <4> HIDE DEF base2, rest
      <4> QED BY <1>3, <2>3
    <3>3. Y \in Seq(Contained) /\ Len(Y) = Len(D) /\ Lays(Range(Y), base2, start + len, type)
      <4>1. base2 + Total(D) <= Space
        BY <3>2
      <4> HIDE DEF base2
      <4> QED BY <1>3, <2>3, <3>1, <3>2, <4>1, UpwardsFacts
    <3>4. B = X \o Y /\ n.number = Len(X) + Len(Y)
      <4> HIDE DEF X, Y
      <4>1. B = X \o Y
        BY <2>5, <2>7, <2>8
      <4>2. Smaller(Len(D), 1 + Len(E)) = Len(D)
        BY <2>3, <2>4, <2>8 DEF Smaller
      <4> QED BY <1>4, <2>5, <3>3, <4>1, <4>2
    <3> HIDE DEF X, Y
    <3>5. B \in Seq(Contained) /\ Len(B) = n.number /\ Range(B) = Range(X) \cup Range(Y)
      BY <1>4, <3>3, <3>4, RangeTogether
    <3>6. Lays(Range(B), start, start + len, type)
      <4>1. base2 <= start + len
        <5> HIDE DEF base2, rest
        <5> QED BY <1>3
      <4> HIDE DEF base2
      <4> QED BY <1>3, <1>4, <3>3, <3>5, <4>1, LaysTogether
    <3>7. Fills(Range(B), start, start + len, type)
      BY <3>6, FillsUp
    <3> QED BY <3>5, <3>7 DEF n, B
  <2>9. CASE ~(Len(D) <= 1 + Len(E))
    <3> DEFINE top == base2 + P
    <3>1. rest \notin Powers
      <4>1. ~(Len(D) <= 1)
        BY <2>3, <2>4, <2>9
      <4> QED BY <2>3, <4>1
    <3>2. rest < Space /\ base2 < Space
      <4>1. rest # Space
        BY <1>1, <3>1
      <4> HIDE DEF rest, base2
      <4> QED BY <1>1, <1>3, <1>6, <4>1
    <3>3. P <= Space
      <4>1. ~(2 * Space <= P)
        <5> HIDE DEF rest
        <5> QED BY <1>1, <1>3, <2>1, <3>2
      <4> QED BY <1>1, <2>1, <4>1, PowerFacts
    <3>4. Divides(P, Space)
      BY <1>1, <2>1, <3>3, PowerFacts
    <3>5. top \in Nat /\ top <= Space
      <4>1. base2 + P <= Space
        <5> HIDE DEF base2
        <5> QED BY <1>1, <1>3, <2>1, <2>2, <3>2, <3>4, DividesFacts
      <4> HIDE DEF base2
      <4> QED BY <1>3, <2>1, <4>1
    <3>6. ASSUME NEW i \in 1..Len(E) PROVE E[i] \in Powers /\ Divides(E[i], top - SumTo(E, i))
      <4>1. E[i] \in Powers /\ E[i] \in Nat /\ E[i] <= P - rest /\ Divides(E[i], SumTo(E, i - 1))
        BY <2>4, PowerFacts
      <4>2. SumTo(E, i - 1) \in Nat /\ SumTo(E, i) = SumTo(E, i - 1) + E[i] /\ SumTo(E, i) \in Nat /\ SumTo(E, i) <= Total(E)
        <5>1. i - 1 \in 0..Len(E) /\ i \in 0..Len(E) /\ Len(E) \in 0..Len(E) /\ i <= Len(E)
          BY <2>4
        <5> QED BY <2>4, <5>1, SumFacts, SumGrows DEF Total
      <4>3. Divides(E[i], P)
        <5>1. E[i] <= P
          <6> HIDE DEF rest
          <6> QED BY <1>3, <2>1, <4>1
        <5> QED BY <2>1, <4>1, <5>1, PowerFacts
      <4>4. Divides(E[i], base2)
        <5> HIDE DEF base2
        <5> QED BY <1>3, <2>1, <2>2, <4>1, <4>3, DividesFacts
      <4>5. Divides(E[i], top)
        <5> HIDE DEF base2
        <5> QED BY <1>3, <2>1, <4>1, <4>3, <4>4, DividesFacts
      <4>6. Divides(E[i], SumTo(E, i))
        <5> DEFINE x == E[i]
                   y == SumTo(E, i - 1)
        <5>1. x \in Nat /\ y \in Nat /\ Divides(x, y) /\ Divides(x, x)
          BY <4>1, <4>2, DividesFacts
        <5> HIDE DEF x, y
        <5>2. Divides(x, y + x)
          BY <5>1, DividesFacts
        <5> QED BY <4>2, <5>2 DEF x, y
      <4>7. SumTo(E, i) <= top
        <5> HIDE DEF base2, rest
        <5> QED BY <1>3, <2>1, <2>4, <4>2
      <4> HIDE DEF top
      <4>8. Divides(E[i], top - SumTo(E, i))
        <5> DEFINE x == E[i]
                   y == SumTo(E, i)
        <5>1. x \in Nat /\ y \in Nat /\ Divides(x, y) /\ Divides(x, top) /\ y <= top
          BY <4>1, <4>2, <4>5, <4>6, <4>7
        <5> HIDE DEF x, y
        <5>2. Divides(x, top - y)
          BY <3>5, <5>1, DividesFacts
        <5> QED BY <5>2 DEF x, y
      <4> QED BY <4>1, <4>8
    <3>7. Total(E) <= top /\ top - Total(E) = start + len
      <4> HIDE DEF base2, rest
      <4> QED BY <1>3, <2>1, <2>4
    <3>8. W \in Seq(Contained) /\ Len(W) = Len(E) /\ Lays(Range(W), start + len, top, "UC")
      <4>1. "UC" \in Types /\ W = Downwards(top, E, "UC")
        BY DEF Types
      <4> HIDE DEF W, top
      <4> QED BY <2>4, <3>5, <3>6, <3>7, <4>1, DownwardsFacts
    <3>9. Z \in Seq(Contained) /\ Len(Z) = 1 /\ Lays(Range(Z), base2, top, type)
      <4> DEFINE m == Mtrr(base2, P, type)
      <4> HIDE DEF base2
      <4>1. Good(m) /\ Lays({m}, base2, top, type)
        BY <1>3, <2>1, <2>2, <3>5, MtrrFacts, OneLays
      <4> HIDE DEF m
      <4>2. m \in Contained
        BY <4>1 DEF Good
      <4>3. Range(<<m>>) = {m} /\ <<m>> \in Seq(Contained) /\ Len(<<m>>) = 1
        BY <4>2 DEF Range
      <4> QED BY <4>1, <4>3 DEF m
    <3>10. B = X \o (Z \o W) /\ n.number = Len(X) + (Len(Z) + Len(W))
      <4> HIDE DEF X, Z, W
      <4>1. B = X \o (Z \o W)
        BY <2>5, <2>7, <2>9
      <4>2. Smaller(Len(D), 1 + Len(E)) = 1 + Len(E)
        BY <2>3, <2>4, <2>9 DEF Smaller
      <4> QED BY <1>4, <2>5, <3>8, <3>9, <4>1, <4>2
    <3> HIDE DEF X, Z, W
    <3>11. /\ Z \o W \in Seq(Contained) /\ Len(Z \o W) = Len(Z) + Len(W)
           /\ Range(Z \o W) = Range(Z) \cup Range(W)
      BY <3>8, <3>9, RangeTogether
    <3>12. B \in Seq(Contained) /\ Len(B) = n.number /\ Range(B) = (Range(X) \cup Range(Z)) \cup Range(W)
      <4> DEFINE V == Z \o W
      <4>1. /\ B = X \o V /\ V \in Seq(Contained) /\ n.number = Len(X) + Len(V)
            /\ Range(V) = Range(Z) \cup Range(W)
        BY <3>10, <3>11
      <4> HIDE DEF V
      <4>2. B \in Seq(Contained) /\ Len(B) = n.number /\ Range(B) = Range(X) \cup Range(V)
        BY <1>4, <4>1, RangeTogether
      <4> QED BY <4>1, <4>2
    <3>13. Lays(Range(X) \cup Range(Z), start, top, type)
      <4>1. base2 <= top
        <5> HIDE DEF base2
        <5> QED BY <1>3, <2>1
      <4> HIDE DEF base2, top
      <4> QED BY <1>3, <1>4, <3>5, <3>9, <4>1, LaysTogether
    <3>14. Fills(Range(B), start, start + len, type)
      <4>1. start + len <= top
        <5> HIDE DEF base2, rest
        <5> QED BY <1>3, <2>1
      <4> HIDE DEF top
      <4> QED BY <3>5, <3>8, <3>12, <3>13, <4>1, FillsDown
    <3> QED BY <3>12, <3>14 DEF n, B
  <2> QED BY <2>8, <2>9
<1> QED BY <1>5, <1>6

-----------------------------------------------------------------------------
(* Types that may overlap.                                                 *)

TypesAt(var, a) == {var[i].type : i \in {j \in Registers : Covers(var[j], a)}}
Fits(t, u) == t = u \/ {t, u} = {"WT", "WB"} \/ "UC" \in {t, u}
Agreeing(T) == "UC" \in T \/ \A t, u \in T : Fits(t, u)

LEMMA FiniteRegisters == IsFiniteSet(Registers)
<1>1. 1 \in Int /\ VariableMtrrCount \in Int
  BY MtrrAssumption
<1> QED BY <1>1, FS_Interval DEF Registers

\* Overlaps are a matter of any two types.
LEMMA OverlapPairs ==
  ASSUME NEW var, NEW a
  PROVE  OverlapDefined(var, a) <=> Agreeing(TypesAt(var, a))
<1> DEFINE R == {j \in Registers : Covers(var[j], a)}
           T == TypesAt(var, a)
<1>1. OverlapDefined(var, a) <=> ("UC" \in T \/ T \subseteq {"WT", "WB"} \/ Cardinality(T) <= 1)
  BY DEF OverlapDefined, TypesAt
<1>2. IsFiniteSet(T)
  <2>2. IsFiniteSet(R)
    BY FiniteRegisters, FS_Subset
  <2>3. IsFiniteSet({var[i].type : i \in R})
    <3> DEFINE image == {var[i].type : i \in R}
               f == [i \in R |-> var[i].type]
    <3>1. f \in Surjection(R, image)
      BY DEF Surjection
    <3> HIDE DEF R, f, image
    <3>2. IsFiniteSet(image)
      BY <2>2, <3>1, FS_Surjection
    <3> QED BY <3>2 DEF image
  <2> QED BY <2>3 DEF TypesAt
<1> HIDE DEF T
<1>3. ASSUME Cardinality(T) <= 1, NEW t \in T, NEW u \in T PROVE t = u
  <2>1. Cardinality(T) \in Nat /\ IsFiniteSet(T \ {t}) /\ Cardinality(T \ {t}) = Cardinality(T) - 1
    BY <1>2, FS_CardinalityType, FS_RemoveElement
  <2>2. Cardinality(T \ {t}) \in Nat
    BY <2>1, FS_CardinalityType
  <2>3. T \ {t} = {}
    BY <1>3, <2>1, <2>2, FS_EmptySet
  <2> QED BY <2>3
<1>4. ASSUME "UC" \notin T, \A t, u \in T : Fits(t, u), NEW t \in T, NEW u \in T, t # u
      PROVE  T \subseteq {"WT", "WB"}
  <2>1. {t, u} = {"WT", "WB"}
    BY <1>4 DEF Fits
  <2>2. ASSUME NEW v \in T PROVE v \in {"WT", "WB"}
    <3>1. Fits(v, t)
      BY <1>4
    <3> QED BY <1>4, <2>1, <3>1 DEF Fits
  <2> QED BY <2>2
<1>5. ASSUME \A t, u \in T : t = u PROVE Cardinality(T) <= 1
  <2>1. CASE T = {}
    BY <2>1, FS_EmptySet
  <2>2. CASE T # {}
    <3>1. PICK t : t \in T
      BY <2>2
    <3>2. T = {t}
      BY <1>5, <3>1
    <3> QED BY <3>2, FS_Singleton
  <2> QED BY <2>1, <2>2
<1>6. T \subseteq {"WT", "WB"} => \A t, u \in T : Fits(t, u)
  BY DEF Fits
<1> QED BY <1>1, <1>3, <1>4, <1>5, <1>6 DEF Agreeing, Fits, T

\* Without UC, fewer types agree as well.
LEMMA FewerAgree ==
  ASSUME NEW S, NEW T, Agreeing(T), S \subseteq T, "UC" \notin T
  PROVE  Agreeing(S)
BY DEF Agreeing

\* Types that fit one that is there agree.
LEMMA AllFit ==
  ASSUME NEW T, NEW t, "UC" \notin T \cup {t}, \A u \in T : Fits(t, u)
  PROVE  Agreeing(T)
BY DEF Agreeing, Fits

-----------------------------------------------------------------------------
(* Looking at the variable MTRRs for a request.                            *)

\* MTRRs that the processor accepts, the reserved ones unused.
Legal(var) ==
  /\ var \in [Registers -> Contained]
  /\ \A i \in Registers : WellFormed(var[i]) /\ (var[i].on => i + Reserved <= VariableMtrrCount)

LEMMA RegisterFacts ==
  ASSUME NEW var, Legal(var)
  PROVE  /\ VariableMtrrCount \in Nat /\ Registers = 1..VariableMtrrCount
         /\ GetFirmwareVariableMtrrCount \in 0..VariableMtrrCount
         /\ Shadowed(var) = {i \in Registers : var[i].on}
         /\ \A i \in Shadowed(var) :
              /\ i <= GetFirmwareVariableMtrrCount
              /\ var[i] \in Contained /\ Good(var[i]) /\ var[i].base <= MtrrEnd(var[i])
              /\ var[i].base \in 0..(Space - 1) /\ MtrrEnd(var[i]) \in 0..(Space - 1)
<1> DEFINE F == GetFirmwareVariableMtrrCount
<1>1. VariableMtrrCount \in Nat /\ Reserved \in Nat /\ Registers = 1..VariableMtrrCount
  BY MtrrAssumption DEF Registers
<1>2. F \in 0..VariableMtrrCount /\ \A i \in Nat : i >= 1 => (i <= F <=> i + Reserved <= VariableMtrrCount)
  BY <1>1 DEF GetFirmwareVariableMtrrCount
<1>3. Shadowed(var) = {i \in Registers : var[i].on} /\ \A i \in Shadowed(var) : i <= F
  <2> HIDE DEF F
  <2>1. Shadowed(var) = {i \in 1..F : var[i].on}
    BY DEF Shadowed, F
  <2>2. \A i \in Registers : var[i].on => i \in 1..F
    BY <1>1, <1>2 DEF Legal
  <2> QED BY <1>1, <1>2, <2>1, <2>2
<1> HIDE DEF F
<1>4. ASSUME NEW i \in Shadowed(var)
      PROVE  /\ var[i] \in Contained /\ Good(var[i]) /\ var[i].base <= MtrrEnd(var[i])
             /\ var[i].base \in 0..(Space - 1) /\ MtrrEnd(var[i]) \in 0..(Space - 1)
  <2>1. i \in Registers /\ var[i].on /\ var[i] \in Contained /\ WellFormed(var[i])
    BY <1>3, <1>4 DEF Legal
  <2>2. var[i].len \in Powers /\ MtrrEnd(var[i]) < Space /\ var[i].base \in Nat
    BY <2>1 DEF WellFormed, Contained
  <2>3. var[i].len \in Nat \ {0} /\ Space \in Nat
    BY <2>2, PowerFacts
  <2>4. MtrrEnd(var[i]) = var[i].base + var[i].len - 1
    BY DEF MtrrEnd
  <2> QED BY <2>1, <2>2, <2>3, <2>4 DEF Good
<1> QED BY <1>1, <1>2, <1>3, <1>4 DEF F

\* Naturally aligned powers of two that overlap are one inside the other.
LEMMA Nested ==
  ASSUME NEW r, NEW q, Good(r), Good(q), r.base <= MtrrEnd(q), q.base <= MtrrEnd(r), r.len <= q.len
  PROVE  q.base <= r.base /\ MtrrEnd(r) <= MtrrEnd(q)
<1> DEFINE b == r.base
           l == r.len
           c == q.base
           k == q.len
<1>1. b \in Nat /\ c \in Nat /\ l \in Powers /\ k \in Powers /\ b % l = 0 /\ c % k = 0
  BY DEF Good, Contained, WellFormed
<1>2. b <= c + k - 1 /\ c <= b + l - 1 /\ l <= k
  BY DEF MtrrEnd
<1> SUFFICES c <= b /\ b + l - 1 <= c + k - 1
  BY DEF MtrrEnd
<1> HIDE DEF b, c, l, k
<1>3. l \in Nat \ {0} /\ k \in Nat \ {0} /\ Divides(l, k)
  BY <1>1, <1>2, PowerFacts
<1>4. Divides(l, b) /\ Divides(k, c)
  BY <1>1, <1>3, DividesFacts
<1>5. Divides(l, c)
  BY <1>1, <1>3, <1>4, DividesFacts
<1>6. Divides(l, c + k)
  BY <1>1, <1>3, <1>5, DividesFacts
<1>7. b < c => b + l <= c
  BY <1>1, <1>3, <1>4, <1>5, DividesFacts
<1>8. b < c + k => b + l <= c + k
  <2>1. c + k \in Nat
    BY <1>1, <1>3
  <2> QED BY <1>1, <1>3, <1>4, <1>6, <2>1, DividesFacts
<1> QED BY <1>1, <1>2, <1>3, <1>7, <1>8

\* What is known when the first n MTRRs have been looked at.
CombineState == [start : Int, end : Int, valid : SUBSET Registers,
                 over : BOOLEAN, covered : BOOLEAN, denied : BOOLEAN]
Spans(var, type, i, s) == var[i].type = type /\ var[i].base <= s.start /\ s.end <= MtrrEnd(var[i])
CombineInv(s, n, var, type, first, last) ==
  /\ s \in CombineState /\ s.valid \subseteq Shadowed(var)
  /\ s.start \in 0..first /\ s.end \in last..(Space - 1)
  /\ ~s.denied =>
       \A i \in s.valid : \A a \in first..last : i <= n /\ Covers(var[i], a) =>
         Fits(type, var[i].type) /\ (~s.over => var[i].type = type)
  /\ ~s.over => s.start = first /\ s.end = last
  /\ s.covered => \E i \in s.valid : i <= n /\ Spans(var, type, i, s)
  /\ \A i \in Shadowed(var) \ s.valid : s.start <= var[i].base /\ MtrrEnd(var[i]) <= s.end
  /\ \A a \in s.start..s.end :
       a \in first..last \/ \E i \in Shadowed(var) : Covers(var[i], a) /\ var[i].type = type

LEMMA CombineStep ==
  ASSUME NEW var, Legal(var), NEW type \in Types, NEW first \in Nat, NEW last \in Nat,
         first <= last, last < Space, NEW n \in Nat, n + 1 \in Registers, NEW s,
         CombineInv(s, n, var, type, first, last)
  PROVE  CombineInv(Combined(s, n + 1, var[n + 1], type), n + 1, var, type, first, last)
<1> DEFINE i == n + 1
           r == var[i]
           t == Combined(s, i, r, type)
           Inv(x) == CombineInv(x, i, var, type, first, last)
<1>1. i \in Nat /\ s \in CombineState /\ s.valid \subseteq Shadowed(var) /\ Space \in Nat
      /\ s.start \in Int /\ s.end \in Int /\ s.start \in 0..first /\ s.end \in last..(Space - 1)
  BY PowerFacts DEF CombineInv, CombineState
<1>2. \A j \in s.valid : j \in Nat /\ (j <= i <=> j <= n \/ j = i)
  BY <1>1 DEF CombineState, Registers
<1>3. i \in Shadowed(var) =>
        /\ r \in Contained /\ r.on /\ r.base <= MtrrEnd(r)
        /\ r.base \in 0..(Space - 1) /\ MtrrEnd(r) \in 0..(Space - 1)
  BY RegisterFacts DEF Good
<1> DEFINE hit == i \in s.valid /\ Overlaps(r, s.start, s.end)
           exact == r.base = s.start /\ MtrrEnd(r) = s.end
           wide == r.base <= s.start /\ s.end <= MtrrEnd(r)
           merged == [s EXCEPT !.valid = s.valid \ {i}, !.over = TRUE,
                               !.start = Smaller(s.start, r.base), !.end = Larger(s.end, MtrrEnd(r))]
<1>4. \/ t = s /\ (s.denied \/ ~hit)
      \/ t = [s EXCEPT !.covered = TRUE] /\ hit /\ r.type = type /\ wide
      \/ t = merged /\ hit /\ r.type = type /\ ~wide
      \/ t = [s EXCEPT !.valid = s.valid \ {i}] /\ hit /\ r.type # type /\ exact
      \/ t = [s EXCEPT !.over = TRUE] /\ hit /\ ({type, r.type} = {"WT", "WB"} \/ "UC" \in {type, r.type})
      \/ t = [s EXCEPT !.denied = TRUE]
  BY Zenon DEF Combined
<1>5. \A x \in CombineState : x \in [start : Int, end : Int, valid : SUBSET Registers,
                                     over : BOOLEAN, covered : BOOLEAN, denied : BOOLEAN]
  BY DEF CombineState
<1>6. ~hit /\ i \in s.valid => \A a \in first..last : ~Covers(r, a)
  BY <1>1, <1>3 DEF Overlaps, Covers
<1>7. hit => i \in Shadowed(var) /\ i \in s.valid
  BY <1>1
<1> HIDE DEF t, i, r
<1>8. CASE t = s /\ (s.denied \/ ~hit)
  <2>1. Inv(s)
    BY <1>1, <1>2, <1>6, <1>8 DEF CombineInv, r
  <2> QED BY <1>8, <2>1 DEF t, r, i
<1>9. CASE t = [s EXCEPT !.covered = TRUE] /\ hit /\ r.type = type /\ wide
  <2>1. t \in CombineState /\ t.start = s.start /\ t.end = s.end /\ t.valid = s.valid /\ t.over = s.over
        /\ t.denied = s.denied
    BY <1>1, <1>9 DEF CombineState
  <2>2. Spans(var, type, i, t)
    BY <1>9, <2>1 DEF Spans, r
  <2>3. Inv(t)
    BY <1>1, <1>2, <1>7, <1>9, <2>1, <2>2 DEF CombineInv, r, Fits, Spans
  <2> QED BY <2>3 DEF t, r, i
<1>10. CASE t = merged /\ hit /\ r.type = type /\ ~wide
  <2>1. t \in CombineState /\ t.start = Smaller(s.start, r.base) /\ t.end = Larger(s.end, MtrrEnd(r))
        /\ t.valid = s.valid \ {i} /\ t.over = TRUE /\ t.denied = s.denied /\ t.covered = s.covered
    <3>1. Smaller(s.start, r.base) \in Int /\ Larger(s.end, MtrrEnd(r)) \in Int
      BY <1>1, <1>3, <1>7, <1>10 DEF Smaller, Larger
    <3> QED BY <1>1, <1>10, <3>1 DEF CombineState
  <2>2. t.start \in 0..first /\ t.end \in last..(Space - 1)
    BY <1>1, <1>3, <1>7, <1>10, <2>1 DEF Smaller, Larger
  <2>3. ASSUME NEW a \in t.start..t.end PROVE a \in s.start..s.end \/ Covers(r, a)
    BY <1>1, <1>3, <1>7, <1>10, <2>1 DEF Smaller, Larger, Overlaps, Covers, Contained
  <2>4. \A a \in t.start..t.end :
          a \in first..last \/ \E j \in Shadowed(var) : Covers(var[j], a) /\ var[j].type = type
    BY <1>7, <1>10, <2>3 DEF CombineInv, r
  <2>5. t.covered => \E j \in t.valid : j <= i /\ Spans(var, type, j, t)
    <3> SUFFICES ASSUME s.covered PROVE \E j \in t.valid : j <= i /\ Spans(var, type, j, t)
      BY <2>1
    <3>1. PICK j \in s.valid : j <= n /\ Spans(var, type, j, s)
      BY DEF CombineInv
    <3>2. j # i /\ j <= i
      BY <1>1, <1>2, <3>1 DEF i
    <3> DEFINE q == var[j]
    <3>3. j \in Shadowed(var) /\ q.base <= s.start /\ s.end <= MtrrEnd(q)
      BY <1>1, <3>1 DEF Spans
    <3>4. Good(q) /\ Good(r) /\ q.base \in Int /\ MtrrEnd(q) \in Int /\ q.len \in Int /\ r.len \in Int
      BY <1>7, <1>10, <3>3, RegisterFacts DEF r, Good, Contained
    <3> HIDE DEF q
    <3>5. q.base <= MtrrEnd(r) /\ r.base <= MtrrEnd(q) /\ ~(r.base <= q.base /\ MtrrEnd(q) <= MtrrEnd(r))
      BY <1>1, <1>3, <1>7, <1>10, <3>3, <3>4 DEF Overlaps
    <3>6. q.base <= r.base /\ MtrrEnd(r) <= MtrrEnd(q)
      BY <3>4, <3>5, Nested
    <3>7. Spans(var, type, j, t)
      BY <1>1, <1>3, <1>7, <1>10, <2>1, <3>1, <3>3, <3>4, <3>6 DEF Spans, q, Smaller, Larger
    <3> QED BY <2>1, <3>1, <3>2, <3>7
  <2>6. ~t.denied => \A j \in t.valid : \A a \in first..last : j <= i /\ Covers(var[j], a) => Fits(type, var[j].type)
    BY <1>2, <2>1 DEF CombineInv
  <2>7. ASSUME NEW j \in Shadowed(var) \ t.valid PROVE t.start <= var[j].base /\ MtrrEnd(var[j]) <= t.end
    <3>1. var[j].base \in Int /\ MtrrEnd(var[j]) \in Int
      BY RegisterFacts
    <3>2. j = i \/ (s.start <= var[j].base /\ MtrrEnd(var[j]) <= s.end)
      BY <2>1 DEF CombineInv
    <3> QED BY <1>1, <1>3, <1>7, <1>10, <2>1, <3>1, <3>2 DEF Smaller, Larger, r
  <2>8. Inv(t)
    BY <1>1, <2>1, <2>2, <2>4, <2>5, <2>6, <2>7 DEF CombineInv
  <2> QED BY <2>8 DEF t, r, i
<1>11. CASE t = [s EXCEPT !.valid = s.valid \ {i}] /\ hit /\ r.type # type /\ exact
  <2>1. t \in CombineState /\ t.start = s.start /\ t.end = s.end /\ t.valid = s.valid \ {i} /\ t.over = s.over
        /\ t.denied = s.denied /\ t.covered = s.covered
    BY <1>1, <1>11 DEF CombineState
  <2>2. t.covered => \E j \in t.valid : j <= i /\ Spans(var, type, j, t)
    <3> SUFFICES ASSUME s.covered PROVE \E j \in t.valid : j <= i /\ Spans(var, type, j, t)
      BY <2>1
    <3>1. PICK j \in s.valid : j <= n /\ Spans(var, type, j, s)
      BY DEF CombineInv
    <3>2. j # i /\ j <= i
      BY <1>1, <1>2, <3>1 DEF i
    <3> QED BY <2>1, <3>1, <3>2 DEF Spans
  <2>3. \A j \in Shadowed(var) \ t.valid : t.start <= var[j].base /\ MtrrEnd(var[j]) <= t.end
    <3>1. i \in Shadowed(var) => t.start <= r.base /\ MtrrEnd(r) <= t.end
      BY <1>1, <1>11, <2>1
    <3> QED BY <2>1, <3>1 DEF CombineInv, r
  <2>4. Inv(t)
    BY <1>1, <1>2, <2>1, <2>2, <2>3 DEF CombineInv
  <2> QED BY <2>4 DEF t, r, i
<1>12. CASE t = [s EXCEPT !.over = TRUE] /\ hit /\ ({type, r.type} = {"WT", "WB"} \/ "UC" \in {type, r.type})
  <2>1. t \in CombineState /\ t.start = s.start /\ t.end = s.end /\ t.valid = s.valid /\ t.over = TRUE
        /\ t.denied = s.denied /\ t.covered = s.covered
    BY <1>1, <1>12 DEF CombineState
  <2>2. Fits(type, r.type)
    BY <1>12 DEF Fits
  <2>3. Inv(t)
    BY <1>1, <1>2, <2>1, <2>2 DEF CombineInv, r, Spans
  <2> QED BY <2>3 DEF t, r, i
<1>13. CASE t = [s EXCEPT !.denied = TRUE]
  <2>1. t \in CombineState /\ t.start = s.start /\ t.end = s.end /\ t.valid = s.valid /\ t.over = s.over
        /\ t.denied = TRUE /\ t.covered = s.covered
    BY <1>1, <1>13 DEF CombineState
  <2>2. Inv(t)
    BY <1>1, <1>2, <2>1 DEF CombineInv, Spans
  <2> QED BY <2>2 DEF t, r, i
<1> QED BY <1>4, <1>8, <1>9, <1>10, <1>11, <1>12, <1>13

\* The loop over the MTRRs of the firmware.
LEMMA CombineFacts ==
  ASSUME NEW var, Legal(var), NEW type \in Types, NEW first \in Nat, NEW last \in Nat,
         first <= last, last < Space
  PROVE  CombineInv(CombineMemoryAttribute(var, type, first, last), GetFirmwareVariableMtrrCount,
                    var, type, first, last)
<1> DEFINE N == VariableMtrrCount
           F == GetFirmwareVariableMtrrCount
           start == [start |-> first, end |-> last, valid |-> Shadowed(var),
                     over |-> FALSE, covered |-> FALSE, denied |-> FALSE]
           step == [x \in (1..N) \X CombineState |-> Combined(x[2], x[1], var[x[1]], type)]
           P(f) == f = [i \in 0..N |-> IF i = 0 THEN start ELSE Combined(f[i - 1], i, var[i], type)]
           f == CHOOSE g : P(g)
<1>1. N \in Nat /\ F \in 0..N /\ Registers = 1..N /\ Shadowed(var) \subseteq Registers
  BY RegisterFacts
<1>2. start \in CombineState
  BY <1>1 DEF CombineState
<1>3. ASSUME NEW i \in 1..N, NEW s \in CombineState PROVE Combined(s, i, var[i], type) \in CombineState
  <2> DEFINE r == var[i]
  <2>1. r \in Contained
    BY <1>1, <1>3 DEF Legal
  <2>2. r.base \in Int /\ r.len \in Int /\ s.start \in Int /\ s.end \in Int
    BY <1>3, <2>1 DEF Contained, CombineState
  <2>3. MtrrEnd(r) \in Int
    BY <2>2 DEF MtrrEnd
  <2>4. Smaller(s.start, r.base) \in Int /\ Larger(s.end, MtrrEnd(r)) \in Int
    BY <2>2, <2>3 DEF Smaller, Larger
  <2> HIDE DEF r
  <2>5. /\ [s EXCEPT !.covered = TRUE] \in CombineState /\ [s EXCEPT !.valid = s.valid \ {i}] \in CombineState
        /\ [s EXCEPT !.over = TRUE] \in CombineState /\ [s EXCEPT !.denied = TRUE] \in CombineState
        /\ [s EXCEPT !.valid = s.valid \ {i}, !.over = TRUE,
                     !.start = Smaller(s.start, r.base), !.end = Larger(s.end, MtrrEnd(r))] \in CombineState
    BY <1>3, <2>4 DEF CombineState
  <2>6. Combined(s, i, r, type) \in CombineState
    BY <1>3, <2>5, Zenon DEF Combined
  <2> QED BY <2>6 DEF r
<1>4. P(f)
  <2> HIDE DEF start, N
  <2>1. step \in [(1..N) \X CombineState -> CombineState]
    <3> SUFFICES ASSUME NEW x \in (1..N) \X CombineState
                 PROVE  Combined(x[2], x[1], var[x[1]], type) \in CombineState
      OBVIOUS
    <3>1. x[1] \in 1..N /\ x[2] \in CombineState
      OBVIOUS
    <3> QED BY <1>3, <3>1
  <2> HIDE DEF step
  <2>2. Steps(N, CombineState, start, step)
    BY <1>1, <1>2, <2>1 DEF Steps
  <2>3. PICK g \in [0..N -> CombineState] : Iterates(g, N, start, step)
    BY <2>2, Iteration
  <2>4. g = [i \in 0..N |-> IF i = 0 THEN start ELSE step[<<i, g[i - 1]>>]]
    BY <2>3 DEF Iterates
  <2>5. ASSUME NEW i \in 0..N
        PROVE  g[i] = IF i = 0 THEN start ELSE Combined(g[i - 1], i, var[i], type)
    <3>1. CASE i = 0
      BY <2>4, <3>1
    <3>2. CASE i # 0
      <4>1. i \in 1..N /\ i - 1 \in 0..N
        BY <1>1, <2>5, <3>2
      <4>2. <<i, g[i - 1]>> \in (1..N) \X CombineState /\ g[i] = step[<<i, g[i - 1]>>]
        BY <2>3, <2>4, <3>2, <4>1
      <4>3. step[<<i, g[i - 1]>>] = Combined(g[i - 1], i, var[i], type)
        BY <4>2 DEF step
      <4> QED BY <3>2, <4>2, <4>3
    <3> QED BY <3>1, <3>2
  <2>6. P(g)
    BY <2>3, <2>5
  <2> HIDE DEF P
  <2>7. P(f)
    BY <2>6, Zenon
  <2> QED BY <2>7
<1>5. CombineMemoryAttribute(var, type, first, last) = f[F]
  BY Zenon DEF CombineMemoryAttribute
<1> HIDE DEF f
<1> DEFINE S == {i \in Nat : i <= F => CombineInv(f[i], i, var, type, first, last)}
<1>6. 0 \in S
  <2>1. f[0] = start
    BY <1>1, <1>4
  <2>2. \A i \in Registers : ~(i <= 0)
    BY <1>1
  <2>3. Space \in Nat
    BY PowerFacts
  <2>4. CombineInv(start, 0, var, type, first, last)
    BY <1>1, <1>2, <2>2, <2>3 DEF CombineInv
  <2> HIDE DEF start
  <2> QED BY <2>1, <2>4
<1>7. ASSUME NEW i \in Nat, i \in S PROVE i + 1 \in S
  <2> SUFFICES ASSUME i + 1 <= F PROVE CombineInv(f[i + 1], i + 1, var, type, first, last)
    OBVIOUS
  <2>1. i + 1 \in Registers /\ i + 1 \in 0..N /\ i + 1 # 0 /\ (i + 1) - 1 = i /\ i <= F
    BY <1>1
  <2>2. f[i + 1] = Combined(f[i], i + 1, var[i + 1], type)
    BY <1>4, <2>1
  <2>3. CombineInv(f[i], i, var, type, first, last)
    BY <1>7, <2>1
  <2> QED BY <2>1, <2>2, <2>3, CombineStep
<1>8. Nat \subseteq S
  <2> HIDE DEF S
  <2> QED BY <1>6, <1>7, Induction
<1> QED BY <1>1, <1>5, <1>8

-----------------------------------------------------------------------------
(* Programming blocks into unused MTRRs.                                   *)

Used(var) == {i \in Registers : var[i].on}

\* The first n blocks are in, and nothing that was there has gone.
PlaceInv(v, n, var, blocks) ==
  /\ v \in [Registers -> Contained]
  /\ \A i \in Registers :
       /\ var[i].on => v[i] = var[i]
       /\ v[i].on => i <= GetFirmwareVariableMtrrCount /\ (v[i] = var[i] \/ v[i] \in Range(blocks))
  /\ \A k \in 1..n : \E i \in Registers : ~var[i].on /\ v[i] = blocks[k]
  /\ Cardinality(Used(v)) = Cardinality(Used(var)) + n

LEMMA PlaceStep ==
  ASSUME NEW var, NEW blocks \in Seq(Contained), \A b \in Range(blocks) : b.on,
         Cardinality(Used(var)) \in Nat,
         Cardinality(Used(var)) + Len(blocks) <= GetFirmwareVariableMtrrCount,
         NEW n \in Nat, n + 1 \in DOMAIN blocks, NEW v, PlaceInv(v, n, var, blocks)
  PROVE  PlaceInv(ProgramVariableMtrr(v, blocks[n + 1]), n + 1, var, blocks)
<1> DEFINE F == GetFirmwareVariableMtrrCount
           free == {i \in Registers : ~v[i].on}
           b == blocks[n + 1]
           c == CHOOSE i \in free : \A j \in free : i <= j
           w == [v EXCEPT ![c] = b]
<1>1. VariableMtrrCount \in Nat /\ Registers = 1..VariableMtrrCount /\ F \in 0..VariableMtrrCount
  BY SMTT(30), MtrrAssumption DEF Registers, GetFirmwareVariableMtrrCount
<1>2. b \in Range(blocks) /\ b \in Contained /\ b.on /\ n + 1 \in 1..Len(blocks) /\ Len(blocks) \in Nat
  BY DEF Range
<1>3. IsFiniteSet(Used(v)) /\ Cardinality(Used(v)) \in Nat
  <2>1. Used(v) \subseteq Registers
    BY DEF Used
  <2> QED BY <2>1, FiniteRegisters, FS_Subset, FS_CardinalityType
<1> HIDE DEF F, b
<1>4. \E i \in free : i <= F
  <2> SUFFICES ASSUME \A i \in free : ~(i <= F) PROVE FALSE
    OBVIOUS
  <2>1. 1..F \subseteq Used(v)
    BY <1>1 DEF Used
  <2>2. Cardinality(1..F) = F
    BY <1>1, FS_Interval
  <2>3. F <= Cardinality(Used(v))
    <3> DEFINE U == Used(v)
    <3>1. IsFiniteSet(U) /\ 1..F \in SUBSET U
      BY <1>3, <2>1
    <3> HIDE DEF U
    <3>2. Cardinality(1..F) <= Cardinality(U)
      BY <3>1, FS_Subset
    <3> QED BY <2>2, <3>2 DEF U
  <2>4. Cardinality(Used(v)) = Cardinality(Used(var)) + n
    BY DEF PlaceInv
  <2> QED BY <1>1, <1>2, <2>3, <2>4 DEF F
<1>5. c \in free /\ \A j \in free : c <= j
  <2>1. free \in SUBSET Nat /\ free # {}
    BY <1>1, <1>4
  <2> HIDE DEF free
  <2>2. \E i \in free : \A j \in free : i <= j
    BY <2>1, Minimum
  <2> QED BY <2>2
<1> HIDE DEF c
<1>6. c \in Registers /\ ~v[c].on /\ c <= F
  BY <1>1, <1>4, <1>5
<1>7. ProgramVariableMtrr(v, b) = w
  <2>1. free # {}
    BY <1>5
  <2> QED BY <2>1, Zenon DEF ProgramVariableMtrr, c
<1>8. w \in [Registers -> Contained] /\ w[c] = b /\ \A i \in Registers : i # c => w[i] = v[i]
  BY <1>2, <1>6 DEF PlaceInv
<1>9. Cardinality(Used(w)) = Cardinality(Used(v)) + 1
  <2>1. Used(w) = Used(v) \cup {c} /\ c \notin Used(v)
    BY <1>2, <1>6, <1>8 DEF Used
  <2> QED BY <1>3, <2>1, FS_AddElement
<1> HIDE DEF w
<1>10. ASSUME NEW i \in Registers
       PROVE  /\ var[i].on => w[i] = var[i]
              /\ w[i].on => i <= F /\ (w[i] = var[i] \/ w[i] \in Range(blocks))
  <2>1. CASE i = c
    BY <1>2, <1>6, <1>8, <2>1 DEF PlaceInv
  <2>2. CASE i # c
    BY <1>8, <2>2 DEF PlaceInv, F
  <2> QED BY <2>1, <2>2
<1>11. ASSUME NEW k \in 1..(n + 1) PROVE \E i \in Registers : ~var[i].on /\ w[i] = blocks[k]
  <2>1. CASE k = n + 1
    <3>1. ~var[c].on
      BY <1>6 DEF PlaceInv
    <3> QED BY <1>6, <1>8, <2>1, <3>1 DEF b
  <2>2. CASE k # n + 1
    <3>1. k \in 1..n /\ k \in DOMAIN blocks
      BY <1>2, <2>2
    <3>2. PICK i \in Registers : ~var[i].on /\ v[i] = blocks[k]
      BY <3>1 DEF PlaceInv
    <3>3. v[i].on
      BY <3>1, <3>2 DEF Range
    <3> QED BY <1>6, <1>8, <3>2, <3>3
  <2> QED BY <2>1, <2>2
<1>12. Cardinality(Used(w)) = Cardinality(Used(var)) + (n + 1)
  BY <1>9 DEF PlaceInv
<1> QED BY <1>7, <1>8, <1>10, <1>11, <1>12 DEF PlaceInv, b, F

\* All blocks find a place.
LEMMA PlaceFacts ==
  ASSUME NEW var \in [Registers -> Contained], NEW blocks \in Seq(Contained), \A b \in Range(blocks) : b.on,
         \A i \in Registers : var[i].on => i <= GetFirmwareVariableMtrrCount,
         Cardinality(Used(var)) + Len(blocks) <= GetFirmwareVariableMtrrCount
  PROVE  PlaceInv(ProgramVariableMtrrs(var, blocks), Len(blocks), var, blocks)
<1> DEFINE N == Len(blocks)
           V == [Registers -> Contained]
           step == [x \in (1..N) \X V |-> ProgramVariableMtrr(x[2], blocks[x[1]])]
           P(f) == f = [n \in 0..N |-> IF n = 0 THEN var ELSE ProgramVariableMtrr(f[n - 1], blocks[n])]
           f == CHOOSE g : P(g)
<1>1. N \in Nat /\ DOMAIN blocks = 1..N /\ \A i \in 1..N : blocks[i] \in Contained
  OBVIOUS
<1>2. Cardinality(Used(var)) \in Nat
  <2>1. Used(var) \subseteq Registers
    BY DEF Used
  <2> QED BY <2>1, FiniteRegisters, FS_Subset, FS_CardinalityType
<1>3. ASSUME NEW i \in 1..N, NEW v \in V PROVE ProgramVariableMtrr(v, blocks[i]) \in V
  <2>1. \A c : [v EXCEPT ![c] = blocks[i]] \in V
    BY <1>1, <1>3
  <2> HIDE DEF V
  <2> QED BY <1>3, <2>1, Zenon DEF ProgramVariableMtrr
<1>4. P(f)
  <2> HIDE DEF V, N
  <2>1. step \in [(1..N) \X V -> V]
    <3> SUFFICES ASSUME NEW x \in (1..N) \X V PROVE ProgramVariableMtrr(x[2], blocks[x[1]]) \in V
      OBVIOUS
    <3>1. x[1] \in 1..N /\ x[2] \in V
      OBVIOUS
    <3> QED BY <1>3, <3>1
  <2> HIDE DEF step
  <2>2. Steps(N, V, var, step)
    BY <1>1, <2>1 DEF Steps, V
  <2>3. PICK g \in [0..N -> V] : Iterates(g, N, var, step)
    BY <2>2, Iteration
  <2>4. g = [n \in 0..N |-> IF n = 0 THEN var ELSE step[<<n, g[n - 1]>>]]
    BY <2>3 DEF Iterates
  <2>5. ASSUME NEW n \in 0..N
        PROVE  g[n] = IF n = 0 THEN var ELSE ProgramVariableMtrr(g[n - 1], blocks[n])
    <3>1. CASE n = 0
      BY <2>4, <3>1
    <3>2. CASE n # 0
      <4>1. n \in 1..N /\ n - 1 \in 0..N
        BY <1>1, <2>5, <3>2
      <4>2. <<n, g[n - 1]>> \in (1..N) \X V /\ g[n] = step[<<n, g[n - 1]>>]
        BY <2>3, <2>4, <3>2, <4>1
      <4>3. step[<<n, g[n - 1]>>] = ProgramVariableMtrr(g[n - 1], blocks[n])
        BY <4>2 DEF step
      <4> QED BY <3>2, <4>2, <4>3
    <3> QED BY <3>1, <3>2
  <2>6. P(g)
    BY <2>3, <2>5
  <2> HIDE DEF P
  <2> QED BY <2>6, Zenon
<1>5. ProgramVariableMtrrs(var, blocks) = f[N]
  BY Zenon DEF ProgramVariableMtrrs
<1> HIDE DEF f
<1> DEFINE S == {n \in Nat : n <= N => PlaceInv(f[n], n, var, blocks)}
<1>6. 0 \in S
  <2>1. f[0] = var
    BY <1>1, <1>4
  <2>2. PlaceInv(var, 0, var, blocks)
    BY <1>2 DEF PlaceInv
  <2> QED BY <2>1, <2>2
<1>7. ASSUME NEW n \in Nat, n \in S PROVE n + 1 \in S
  <2> SUFFICES ASSUME n + 1 <= N PROVE PlaceInv(f[n + 1], n + 1, var, blocks)
    OBVIOUS
  <2>1. n + 1 \in DOMAIN blocks /\ n + 1 \in 0..N /\ n + 1 # 0 /\ (n + 1) - 1 = n /\ n <= N
    BY <1>1
  <2>2. f[n + 1] = ProgramVariableMtrr(f[n], blocks[n + 1])
    BY <1>4, <2>1
  <2>3. PlaceInv(f[n], n, var, blocks)
    BY <1>7, <2>1
  <2> QED BY <1>2, <2>1, <2>2, <2>3, PlaceStep
<1>8. Nat \subseteq S
  <2> HIDE DEF S
  <2> QED BY <1>6, <1>7, Induction
<1> QED BY <1>1, <1>5, <1>8

-----------------------------------------------------------------------------
(* What a request for a type does at an address.                           *)

\* MTRRs of the types S cover the address before and after.
Remain(S, var, new, a) ==
  \A t \in S : \E i \in Registers : new[i] = var[i] /\ Covers(var[i], a) /\ var[i].type = t

Outcome(var, new, a, type, first, last) ==
  LET old == TypesAt(var, a)
      now == TypesAt(new, a)
  IN \/ /\ a \in first..last
        /\ \E S : /\ Remain(S, var, new, a) /\ \A t \in S : Fits(type, t)
                  /\ now = S \cup {type} \/ (now = {} /\ type = DefaultType)
     \/ a \notin first..last /\ now = old
     \* Merged with an MTRR of the type.
     \/ a \notin first..last /\ type \in old /\ \E S : Remain(S, var, new, a) /\ now = S \cup {type}
     \* The excess of a large block.
     \/ /\ a \notin first..last /\ {type, "UC"} \subseteq now
        /\ \E i \in Registers : new[i] # var[i] /\ new[i].type = type /\ Covers(new[i], a)

\* The types at an address of the MTRRs that are not removed.
Stays(var, valid, a) == {var[i].type : i \in {j \in valid : Covers(var[j], a)}}

LEMMA StaysFacts ==
  ASSUME NEW var, Legal(var), NEW type \in Types, NEW first \in Nat, NEW last \in Nat,
         first <= last, last < Space, NEW c,
         CombineInv(c, GetFirmwareVariableMtrrCount, var, type, first, last), ~c.denied,
         NEW a \in Addresses
  PROVE  LET stay == Stays(var, c.valid, a)
         IN /\ stay \subseteq TypesAt(var, a)
            /\ a \in first..last => a \in c.start..c.end
            /\ a \in first..last => \A t \in stay : Fits(type, t) /\ (~c.over => t = type)
            /\ a \in c.start..c.end /\ a \notin first..last => c.over /\ type \in TypesAt(var, a)
            /\ c.covered /\ a \in c.start..c.end => type \in stay
            /\ a \notin c.start..c.end =>
                 /\ \A i \in Shadowed(var) \ c.valid : ~Covers(var[i], a)
                 /\ stay = TypesAt(var, a)
<1> DEFINE stay == Stays(var, c.valid, a)
<1>1. /\ Shadowed(var) = {i \in Registers : var[i].on} /\ c.valid \subseteq Shadowed(var)
      /\ \A i \in Shadowed(var) : /\ i <= GetFirmwareVariableMtrrCount
                                  /\ var[i].on /\ var[i].base \in Int /\ MtrrEnd(var[i]) \in Int
  BY RegisterFacts DEF CombineInv
<1>2. a \in Nat /\ Space \in Nat /\ c.start \in 0..first /\ c.end \in last..(Space - 1)
  BY PowerFacts DEF CombineInv, Addresses
<1>3. stay \subseteq TypesAt(var, a)
  BY <1>1 DEF Stays, TypesAt
<1>4. a \in first..last => \A t \in stay : Fits(type, t) /\ (~c.over => t = type)
  <2> SUFFICES ASSUME a \in first..last, NEW t \in stay PROVE Fits(type, t) /\ (~c.over => t = type)
    OBVIOUS
  <2>1. PICK i \in c.valid : Covers(var[i], a) /\ t = var[i].type
    BY DEF Stays
  <2>2. i <= GetFirmwareVariableMtrrCount
    BY <1>1
  <2> QED BY <2>1, <2>2 DEF CombineInv
<1>5. a \in c.start..c.end /\ a \notin first..last => c.over /\ type \in TypesAt(var, a)
  <2> SUFFICES ASSUME a \in c.start..c.end, a \notin first..last PROVE c.over /\ type \in TypesAt(var, a)
    OBVIOUS
  <2>1. c.over
    BY DEF CombineInv, CombineState
  <2>2. PICK i \in Shadowed(var) : Covers(var[i], a) /\ var[i].type = type
    BY DEF CombineInv
  <2> QED BY <1>1, <2>1, <2>2 DEF TypesAt
<1>6. c.covered /\ a \in c.start..c.end => type \in stay
  <2> SUFFICES ASSUME c.covered, a \in c.start..c.end PROVE type \in stay
    OBVIOUS
  <2>1. PICK i \in c.valid : Spans(var, type, i, c)
    BY DEF CombineInv
  <2>2. Covers(var[i], a)
    BY <1>1, <1>2, <2>1 DEF Spans, Covers
  <2> QED BY <2>1, <2>2 DEF Spans, Stays
<1>7. a \notin c.start..c.end => \A i \in Shadowed(var) \ c.valid : ~Covers(var[i], a)
  <2> SUFFICES ASSUME NEW i \in Shadowed(var) \ c.valid, Covers(var[i], a) PROVE a \in c.start..c.end
    OBVIOUS
  <2>1. c.start <= var[i].base /\ MtrrEnd(var[i]) <= c.end
    BY DEF CombineInv
  <2> QED BY <1>1, <1>2, <2>1 DEF Covers
<1>8. a \notin c.start..c.end => stay = TypesAt(var, a)
  <2> SUFFICES ASSUME a \notin c.start..c.end, NEW i \in Registers, Covers(var[i], a) PROVE i \in c.valid
    BY <1>3 DEF Stays, TypesAt
  <2> QED BY <1>1, <1>7 DEF Covers
<1> QED BY <1>2, <1>3, <1>4, <1>5, <1>6, <1>7, <1>8

\* A request that only takes MTRRs out.
LEMMA Removed ==
  ASSUME NEW var, Legal(var), NEW type \in Types, NEW first \in Nat, NEW last \in Nat,
         first <= last, last < Space, NEW c,
         CombineInv(c, GetFirmwareVariableMtrrCount, var, type, first, last), ~c.denied,
         c.covered \/ (~c.over /\ type = DefaultType)
  PROVE  LET new == InvalidateMtrr(var, c.valid)
         IN Legal(new) /\ \A a \in Addresses : Outcome(var, new, a, type, first, last)
<1> DEFINE new == InvalidateMtrr(var, c.valid)
<1>1. Shadowed(var) = {i \in Registers : var[i].on} /\ c.valid \subseteq Shadowed(var)
  BY RegisterFacts DEF CombineInv
<1>2. /\ new = [i \in Registers |-> IF i \in Shadowed(var) \ c.valid THEN Unused ELSE var[i]]
      /\ Unused \in Contained /\ ~Unused.on
  BY DEF InvalidateMtrr, Unused, Contained, Types
<1> HIDE DEF new
<1>3. Legal(new)
  <2>1. new \in [Registers -> Contained]
    BY <1>2 DEF Legal
  <2>2. \A i \in Registers : new[i] = var[i] \/ ~new[i].on
    BY <1>2
  <2> QED BY <2>1, <2>2 DEF Legal, WellFormed
<1>4. \A i \in Registers : new[i].on <=> i \in c.valid
  BY <1>1, <1>2
<1>5. \A i \in c.valid : i \in Registers /\ new[i] = var[i]
  BY <1>1, <1>2
<1>6. ASSUME NEW a \in Addresses PROVE Outcome(var, new, a, type, first, last)
  <2> DEFINE stay == Stays(var, c.valid, a)
  <2>1. TypesAt(new, a) = stay /\ Remain(stay, var, new, a)
    BY <1>4, <1>5 DEF Stays, TypesAt, Remain, Covers
  <2>2. /\ stay \subseteq TypesAt(var, a)
        /\ a \in first..last => a \in c.start..c.end
        /\ a \in first..last => \A t \in stay : Fits(type, t) /\ (~c.over => t = type)
        /\ a \in c.start..c.end /\ a \notin first..last => c.over /\ type \in TypesAt(var, a)
        /\ c.covered /\ a \in c.start..c.end => type \in stay
        /\ a \notin c.start..c.end => stay = TypesAt(var, a)
    BY StaysFacts
  <2> HIDE DEF stay
  <2>3. CASE a \in first..last
    <3>1. stay = stay \cup {type} \/ (stay = {} /\ type = DefaultType)
      BY <2>2, <2>3
    <3> QED BY <2>1, <2>2, <2>3, <3>1 DEF Outcome
  <2>4. CASE a \in c.start..c.end /\ a \notin first..last
    <3>1. stay = stay \cup {type}
      BY <2>2, <2>4
    <3> QED BY <2>1, <2>2, <2>4, <3>1 DEF Outcome
  <2>5. CASE a \notin c.start..c.end
    BY <2>1, <2>2, <2>5 DEF Outcome
  <2> QED BY <2>3, <2>4, <2>5
<1> QED BY <1>3, <1>6 DEF new

\* A request that programs blocks.
LEMMA Programmed ==
  ASSUME NEW var, Legal(var), NEW type \in Types, NEW first \in Nat, NEW last \in Nat,
         first <= last, last < Space, NEW c,
         CombineInv(c, GetFirmwareVariableMtrrCount, var, type, first, last), ~c.denied,
         NEW blocks \in Seq(Contained), Fills(Range(blocks), c.start, c.end + 1, type),
         Cardinality(c.valid) + Len(blocks) <= GetFirmwareVariableMtrrCount
  PROVE  LET new == ProgramVariableMtrrs(InvalidateMtrr(var, c.valid), blocks)
         IN Legal(new) /\ \A a \in Addresses : Outcome(var, new, a, type, first, last)
<1> DEFINE cleared == InvalidateMtrr(var, c.valid)
           new == ProgramVariableMtrrs(cleared, blocks)
           F == GetFirmwareVariableMtrrCount
           B == Range(blocks)
<1>1. /\ VariableMtrrCount \in Nat /\ Registers = 1..VariableMtrrCount /\ F \in 0..VariableMtrrCount
      /\ Shadowed(var) = {i \in Registers : var[i].on} /\ c.valid \subseteq Shadowed(var)
      /\ \A i \in Shadowed(var) : i <= F
  BY RegisterFacts DEF CombineInv
<1>2. /\ cleared = [i \in Registers |-> IF i \in Shadowed(var) \ c.valid THEN Unused ELSE var[i]]
      /\ Unused \in Contained /\ ~Unused.on
  BY DEF InvalidateMtrr, Unused, Contained, Types
<1>3. \A b \in B : Good(b) /\ b.on
  BY DEF Fills, Good
<1>4. \A b \in B : \E k \in 1..Len(blocks) : b = blocks[k]
  BY DEF Range
<1> HIDE DEF cleared, B, F
<1>5. cleared \in [Registers -> Contained] /\ Used(cleared) = c.valid
  BY <1>1, <1>2 DEF Legal, Used
<1>6. \A i \in Registers : cleared[i].on <=> i \in c.valid
  BY <1>5 DEF Used
<1>7. PlaceInv(new, Len(blocks), cleared, blocks)
  <2>1. Cardinality(Used(cleared)) + Len(blocks) <= GetFirmwareVariableMtrrCount
    BY <1>5
  <2>2. \A i \in Registers : cleared[i].on => i <= GetFirmwareVariableMtrrCount
    BY <1>1, <1>6 DEF F
  <2>3. \A b \in Range(blocks) : b.on
    BY <1>3 DEF B
  <2> QED BY <1>5, <2>1, <2>2, <2>3, PlaceFacts
<1> HIDE DEF new
<1>8. \A i \in c.valid : i \in Registers /\ new[i] = var[i]
  <2>1. \A i \in c.valid : i \in Registers /\ cleared[i] = var[i] /\ cleared[i].on
    BY <1>1, <1>2, <1>6
  <2> QED BY <1>7, <2>1 DEF PlaceInv
<1>9. \A i \in Registers : new[i].on => i <= F /\ (i \in c.valid \/ new[i] \in B)
  <2> SUFFICES ASSUME NEW i \in Registers, new[i].on PROVE i <= F /\ (i \in c.valid \/ new[i] \in B)
    OBVIOUS
  <2>1. i <= F /\ (new[i] = cleared[i] \/ new[i] \in B)
    BY <1>7 DEF PlaceInv, F, B
  <2> QED BY <1>6, <2>1
<1>10. \A b \in B : \E i \in Registers : i \notin c.valid /\ new[i] = b
  BY <1>4, <1>6, <1>7 DEF PlaceInv
<1>11. Legal(new)
  <2>1. new \in [Registers -> Contained]
    BY <1>7 DEF PlaceInv
  <2>2. ASSUME NEW i \in Registers PROVE WellFormed(new[i]) /\ (new[i].on => i + Reserved <= VariableMtrrCount)
    <3>1. CASE ~new[i].on
      BY <3>1 DEF WellFormed
    <3>2. CASE new[i].on
      <4>1. i <= F /\ (i \in c.valid \/ new[i] \in B)
        BY <1>9, <3>2
      <4>2. WellFormed(new[i])
        BY <1>3, <1>8, <4>1 DEF Good, Legal
      <4>3. i \in Nat /\ i >= 1 /\ Reserved \in Nat
        BY <1>1, MtrrAssumption
      <4>4. i + Reserved <= VariableMtrrCount
        BY <1>1, <4>1, <4>3 DEF F, GetFirmwareVariableMtrrCount
      <4> QED BY <4>2, <4>4
    <3> QED BY <3>1, <3>2
  <2> QED BY <2>1, <2>2 DEF Legal
<1>12. ASSUME NEW a \in Addresses PROVE Outcome(var, new, a, type, first, last)
  <2> DEFINE stay == Stays(var, c.valid, a)
             now == TypesAt(new, a)
  <2>1. Remain(stay, var, new, a) /\ stay \subseteq now
    BY <1>8 DEF Stays, TypesAt, Remain
  <2>2. ASSUME NEW b \in B, Covers(b, a) PROVE b.type \in now
    <3>1. PICK i \in Registers : new[i] = b
      BY <1>10
    <3> QED BY <2>2, <3>1 DEF TypesAt
  <2>3. ASSUME NEW t \in now PROVE t \in stay \/ \E b \in B : Covers(b, a) /\ b.type = t
    <3>1. PICK i \in Registers : Covers(new[i], a) /\ new[i].type = t
      BY DEF TypesAt
    <3>2. i \in c.valid \/ new[i] \in B
      BY <1>9, <3>1 DEF Covers
    <3> QED BY <1>8, <3>1, <3>2 DEF Stays
  <2>4. /\ stay \subseteq TypesAt(var, a)
        /\ a \in first..last => a \in c.start..c.end
        /\ a \in first..last => \A t \in stay : Fits(type, t)
        /\ a \in c.start..c.end /\ a \notin first..last => type \in TypesAt(var, a)
        /\ a \notin c.start..c.end =>
             stay = TypesAt(var, a) /\ \A i \in Shadowed(var) \ c.valid : ~Covers(var[i], a)
    BY StaysFacts
  <2>5. c.start \in 0..first /\ c.end \in last..(Space - 1) /\ Space \in Nat /\ a \in Nat
    BY PowerFacts DEF CombineInv, Addresses
  <2>6. a \in c.start..c.end <=> c.start <= a /\ a < c.end + 1
    BY <2>5
  <2> HIDE DEF stay, now
  <2>7. CASE a \in c.start..c.end
    <3>1. (\E b \in B : Covers(b, a)) /\ \A b \in B : Covers(b, a) => b.type = type
      BY <2>5, <2>6, <2>7 DEF Fills, B
    <3>2. now = stay \cup {type}
      BY <2>1, <2>2, <2>3, <3>1
    <3> QED BY <2>1, <2>4, <2>7, <3>2 DEF Outcome, now
  <2>8. CASE a \notin c.start..c.end /\ \A b \in B : ~Covers(b, a)
    <3>1. now = TypesAt(var, a)
      BY <2>1, <2>3, <2>4, <2>8
    <3> QED BY <2>4, <2>8, <3>1 DEF Outcome, now
  <2>9. CASE a \notin c.start..c.end /\ \E b \in B : Covers(b, a)
    <3>1. \A t \in {type, "UC"} : \E b \in B : Covers(b, a) /\ b.type = t
      BY <2>5, <2>6, <2>9 DEF Fills, B
    <3>2. PICK b \in B : Covers(b, a) /\ b.type = type
      BY <3>1
    <3>3. PICK i \in Registers : i \notin c.valid /\ new[i] = b
      BY <1>10
    <3>4. new[i] # var[i]
      BY <1>1, <2>4, <2>9, <3>2, <3>3 DEF Covers
    <3>5. {type, "UC"} \subseteq now
      BY <2>2, <3>1
    <3> QED BY <2>4, <2>9, <3>2, <3>3, <3>4, <3>5 DEF Outcome, now
  <2> QED BY <2>7, <2>8, <2>9
<1> QED BY <1>11, <1>12 DEF new, cleared

\* A request above 1MB.
LEMMA VariableOutcome ==
  ASSUME NEW m, Shaped(m), Legal(m.var), NEW base \in Nat, NEW len \in Nat \ {0}, base + len <= Space,
         NEW type \in Types
  PROVE  LET r == SetVariable(m, base, len, type)
         IN /\ Legal(r.mtrrs.var)
            /\ \/ /\ r.mtrrs = m
                  /\ r.status = "SUCCESS" => CheckMemoryAttributeMapped(m, type, base, base + len - 1)
               \/ \A a \in Addresses : Outcome(m.var, r.mtrrs.var, a, type, base, base + len - 1)
<1> DEFINE last == base + len - 1
           c == CombineMemoryAttribute(m.var, type, base, last)
           size == c.end - c.start + 1
           n == GetMtrrNumberAndDirection(c.start, size)
           blocks == Blocks(c.start, size, type, n.positive)
           removed == InvalidateMtrr(m.var, c.valid)
           cleared == [m EXCEPT !.var = removed]
           filled == ProgramVariableMtrrs(removed, blocks)
           mapped == CheckMemoryAttributeMapped(m, type, base, last)
           r == SetVariable(m, base, len, type)
           Fine(new) == Legal(new) /\ \A a \in Addresses : Outcome(m.var, new, a, type, base, last)
<1>1. Space \in Nat /\ last \in Nat /\ base <= last /\ last < Space
  BY PowerFacts
<1> HIDE DEF last, mapped
<1>2. CombineInv(c, GetFirmwareVariableMtrrCount, m.var, type, base, last)
  BY <1>1, CombineFacts
<1> HIDE DEF c
<1>3. c.start \in Nat /\ size \in Nat \ {0} /\ c.start + size = c.end + 1 /\ c.end + 1 <= Space
  <2>1. c.start \in 0..base /\ c.end \in last..(Space - 1)
    BY <1>2 DEF CombineInv
  <2> QED BY <1>1, <2>1
<1> HIDE DEF size
<1>4. blocks \in Seq(Contained) /\ Len(blocks) = n.number /\ Fills(Range(blocks), c.start, c.end + 1, type)
  <2>1. c.start + size <= Space
    BY <1>3
  <2>2. /\ blocks \in Seq(Contained) /\ Len(blocks) = n.number
        /\ Fills(Range(blocks), c.start, c.start + size, type)
    BY <1>3, <2>1, BlocksFill
  <2> HIDE DEF blocks, n
  <2> QED BY <1>3, <2>2
<1>5. cleared.var = removed /\ [cleared EXCEPT !.var = filled].var = filled
  BY DEF Shaped
<1>6. \/ r.mtrrs = m /\ (r.status = "SUCCESS" => mapped)
      \/ r.mtrrs = cleared /\ ~c.denied /\ (c.covered \/ (~c.over /\ type = DefaultType))
      \/ /\ r.mtrrs = [cleared EXCEPT !.var = ProgramVariableMtrrs(cleared.var, blocks)] /\ ~c.denied
         /\ ~(Cardinality(c.valid) + n.number > GetFirmwareVariableMtrrCount)
  <2> DEFINE R(st, x) == [status |-> st, mtrrs |-> x]
  <2>1. \A st, x : R(st, x).mtrrs = x /\ R(st, x).status = st
    OBVIOUS
  <2>2. "ACCESS_DENIED" # "SUCCESS" /\ "OUT_OF_RESOURCES" # "SUCCESS"
    OBVIOUS
  <2> HIDE DEF R
  <2>3. \/ r = R("SUCCESS", m) /\ mapped
        \/ r = R("ACCESS_DENIED", m) \/ r = R("OUT_OF_RESOURCES", m)
        \/ r = R("SUCCESS", cleared) /\ ~c.denied /\ (c.covered \/ (~c.over /\ type = DefaultType))
        \/ /\ r = R("SUCCESS", [cleared EXCEPT !.var = ProgramVariableMtrrs(cleared.var, blocks)]) /\ ~c.denied
           /\ ~(Cardinality(c.valid) + n.number > GetFirmwareVariableMtrrCount)
    BY Zenon DEF SetVariable, R, c, last, size, mapped
  <2> HIDE DEF r, cleared, blocks, n
  <2> QED BY <2>1, <2>2, <2>3
<1>7. ~c.denied /\ (c.covered \/ (~c.over /\ type = DefaultType)) => Fine(removed)
  BY <1>1, <1>2, Removed
<1>8. ~c.denied /\ ~(Cardinality(c.valid) + n.number > GetFirmwareVariableMtrrCount) => Fine(filled)
  <2> SUFFICES ASSUME ~c.denied, ~(Cardinality(c.valid) + n.number > GetFirmwareVariableMtrrCount)
               PROVE  Fine(filled)
    OBVIOUS
  <2>1. Cardinality(c.valid) + Len(blocks) <= GetFirmwareVariableMtrrCount
    <3>1. Cardinality(c.valid) \in Nat
      <4>1. c.valid \subseteq Registers
        BY <1>2 DEF CombineInv, CombineState
      <4>2. IsFiniteSet(c.valid)
        BY <4>1, FiniteRegisters, FS_Subset
      <4> QED BY <4>2, FS_CardinalityType
    <3>2. GetFirmwareVariableMtrrCount \in Nat
      BY RegisterFacts
    <3> HIDE DEF blocks, n
    <3>3. Len(blocks) \in Nat
      BY <1>4
    <3> QED BY <1>4, <3>1, <3>2, <3>3
  <2> HIDE DEF blocks
  <2> QED BY <1>1, <1>2, <1>4, <2>1, Programmed
<1> HIDE DEF r, cleared, removed, filled, blocks, Fine
<1>9. (r.mtrrs = m /\ (r.status = "SUCCESS" => mapped)) \/ Fine(r.mtrrs.var)
  <2>1. cleared.var = removed /\ [cleared EXCEPT !.var = ProgramVariableMtrrs(cleared.var, blocks)].var = filled
    BY <1>5 DEF filled
  <2> QED BY <1>6, <1>7, <1>8, <2>1
<1> QED BY <1>9 DEF Fine, r, last, mapped

\* Any request: the part of it above 1MB starts at its own base, or at 0 when
\* it has grown out of the fixed MTRRs.
LEMMA RequestOutcome ==
  ASSUME NEW m, Shaped(m), Legal(m.var), NEW base \in Nat, NEW len \in Nat, base + len <= Space,
         NEW type \in Types
  PROVE  LET r == MtrrSetMemoryAttribute(m, base, len, type)
             last == base + len - 1
         IN /\ Legal(r.mtrrs.var)
            /\ \E first \in 0..base :
                 /\ \A a \in Addresses : a >= BASE_1MB /\ first <= a => base <= a
                 /\ \/ /\ r.mtrrs.var = m.var
                       /\ r.status = "SUCCESS" =>
                            \/ \A a \in base..last : a < BASE_1MB
                            \/ \E n : Shaped(n) /\ n.var = m.var /\ CheckMemoryAttributeMapped(n, type, first, last)
                    \/ \A a \in Addresses : Outcome(m.var, r.mtrrs.var, a, type, first, last)
<1> DEFINE f == ProgramFixedMtrrs(m.fixed, base, len, type)
           fixed == [m EXCEPT !.fixed = f.fixed]
           r == MtrrSetMemoryAttribute(m, base, len, type)
           last == base + len - 1
           Fine(first) ==
             /\ \A a \in Addresses : a >= BASE_1MB /\ first <= a => base <= a
             /\ \/ /\ r.mtrrs.var = m.var
                   /\ r.status = "SUCCESS" =>
                        \/ \A a \in base..last : a < BASE_1MB
                        \/ \E n : Shaped(n) /\ n.var = m.var /\ CheckMemoryAttributeMapped(n, type, first, last)
                \/ \A a \in Addresses : Outcome(m.var, r.mtrrs.var, a, type, first, last)
<1> SUFFICES Legal(r.mtrrs.var) /\ \E first \in 0..base : Fine(first)
  OBVIOUS
<1>1. FixedState(f, m.fixed, base, len, type) /\ (f.ok /\ f.len > 0 => BASE_1MB <= f.base)
  BY FixedProgrammed DEF Shaped
<1> HIDE DEF f
<1>2. /\ f.base \in Nat /\ f.len \in Nat /\ f.fixed \in Contents /\ f.base + f.len = base + len
      /\ BASE_1MB \in Nat /\ Space \in Nat /\ base <= f.base
      /\ f.base = base \/ f.base <= BASE_1MB
      /\ f.ok /\ f.len > 0 => BASE_1MB <= f.base
  BY <1>1, TableFacts, PowerFacts DEF FixedState
<1>3. fixed.var = m.var /\ Shaped(fixed)
  BY <1>2 DEF Shaped
<1> HIDE DEF fixed
<1>4. \/ \E st : r = [status |-> st, mtrrs |-> m] /\ st # "SUCCESS"
      \/ \E st : r = [status |-> st, mtrrs |-> fixed] /\ (st = "SUCCESS" => f.len = 0)
      \/ f.ok /\ f.len # 0 /\ f.base = BASE_1MB /\ r = SetVariable(fixed, 0, f.len + BASE_1MB, type)
      \/ f.ok /\ f.len # 0 /\ f.base # BASE_1MB /\ r = SetVariable(fixed, f.base, f.len, type)
  <2>1. "INVALID_PARAMETER" # "SUCCESS" /\ "UNSUPPORTED" # "SUCCESS"
    OBVIOUS
  <2> QED BY <2>1, Zenon DEF MtrrSetMemoryAttribute, fixed, f
<1> HIDE DEF r
<1>5. CASE \E st : \/ r = [status |-> st, mtrrs |-> m] /\ st # "SUCCESS"
                   \/ r = [status |-> st, mtrrs |-> fixed] /\ (st = "SUCCESS" => f.len = 0)
  <2>1. (r.mtrrs = m /\ r.status # "SUCCESS") \/ (r.mtrrs = fixed /\ (r.status = "SUCCESS" => f.len = 0))
    BY <1>5
  <2>2. r.mtrrs.var = m.var /\ (r.status = "SUCCESS" => f.len = 0)
    BY <1>3, <2>1
  <2>3. f.len = 0 => \A a \in base..last : a < BASE_1MB
    BY <1>2
  <2>4. Fine(base) /\ base \in 0..base
    BY <2>2, <2>3
  <2> QED BY <2>2, <2>4
<1>6. CASE f.ok /\ f.len # 0 /\ f.base = BASE_1MB /\ r = SetVariable(fixed, 0, f.len + BASE_1MB, type)
  <2> DEFINE l == f.len + BASE_1MB
  <2>1. 0 \in Nat /\ l \in Nat \ {0} /\ 0 + l <= Space /\ 0 + l - 1 = last
    BY <1>2, <1>6
  <2>2. r = SetVariable(fixed, 0, l, type)
    BY <1>6
  <2> HIDE DEF l
  <2>3. /\ Legal(r.mtrrs.var)
        /\ \/ /\ r.mtrrs = fixed
              /\ r.status = "SUCCESS" => CheckMemoryAttributeMapped(fixed, type, 0, 0 + l - 1)
           \/ \A a \in Addresses : Outcome(fixed.var, r.mtrrs.var, a, type, 0, 0 + l - 1)
    BY <1>3, <2>1, <2>2, VariableOutcome
  <2>4. \A a \in Addresses : a >= BASE_1MB /\ 0 <= a => base <= a
    BY <1>2, <1>6 DEF Addresses
  <2> HIDE DEF last
  <2>5. Fine(0) /\ 0 \in 0..base
    BY <1>3, <2>1, <2>3, <2>4
  <2> QED BY <2>3, <2>5
<1>7. CASE f.ok /\ f.len # 0 /\ f.base # BASE_1MB /\ r = SetVariable(fixed, f.base, f.len, type)
  <2>1. f.base = base /\ f.len = len /\ len \in Nat \ {0} /\ base \in 0..base
    BY <1>2, <1>7
  <2>2. r = SetVariable(fixed, base, len, type)
    BY <1>7, <2>1
  <2>3. /\ Legal(r.mtrrs.var)
        /\ \/ /\ r.mtrrs = fixed
              /\ r.status = "SUCCESS" => CheckMemoryAttributeMapped(fixed, type, base, base + len - 1)
           \/ \A a \in Addresses : Outcome(fixed.var, r.mtrrs.var, a, type, base, base + len - 1)
    BY <1>3, <2>1, <2>2, VariableOutcome
  <2>4. Fine(base)
    BY <1>3, <2>3
  <2> QED BY <2>1, <2>3, <2>4
<1> QED BY <1>4, <1>5, <1>6, <1>7

-----------------------------------------------------------------------------
(* The registers stay legal.                                               *)

\* Where types may overlap they still may, unless a UC MTRR has gone.
LEMMA OutcomeSettles ==
  ASSUME NEW var, NEW new, NEW a \in Addresses, NEW type \in Types, NEW first, NEW last,
         Outcome(var, new, a, type, first, last), OverlapDefined(var, a)
  PROVE  OverlapDefined(new, a) \/ (a \in Uncached(var) \ Uncached(new) /\ a \notin first..last)
<1> DEFINE old == TypesAt(var, a)
           now == TypesAt(new, a)
<1> SUFFICES ASSUME ~OverlapDefined(new, a)
             PROVE  a \in Uncached(var) \ Uncached(new) /\ a \notin first..last
  OBVIOUS
<1>1. Agreeing(old) /\ ~Agreeing(now) /\ "UC" \notin now
  BY OverlapPairs DEF Agreeing
<1>2. "UC" \in old => a \in Uncached(var) \ Uncached(new)
  BY <1>1 DEF Uncached, TypesAt
<1>3. \A S : Remain(S, var, new, a) => S \subseteq old
  BY DEF Remain, TypesAt
<1> HIDE DEF old, now
<1>4. a \notin first..last
  <2> SUFFICES ASSUME a \in first..last PROVE FALSE
    OBVIOUS
  <2>1. PICK S : /\ \A t \in S : Fits(type, t)
                 /\ now = S \cup {type} \/ (now = {} /\ type = DefaultType)
    BY DEF Outcome, old, now
  <2>2. CASE now = S \cup {type}
    <3>1. \A t \in now : Fits(type, t)
      BY <2>1, <2>2 DEF Fits
    <3> QED BY <1>1, <2>2, <3>1, AllFit
  <2>3. CASE now = {}
    BY <1>1, <2>3 DEF Agreeing
  <2> QED BY <2>1, <2>2, <2>3
<1>5. now \subseteq old
  BY <1>1, <1>3, <1>4 DEF Outcome, old, now
<1>6. "UC" \in old
  BY <1>1, <1>5, FewerAgree
<1> QED BY <1>2, <1>4, <1>6

\* The inductive invariant.
LegalInv ==
  /\ Shaped(bsp) /\ Legal(bsp.var)
  /\ \A a \in Addresses \ bared : OverlapDefined(bsp.var, a)

\* A request.
LEMMA RequestKeepsLegal ==
  ASSUME LegalInv, NEW r \in Requests, PeiSetMemoryAttribute(r) \/ SetMemoryAttributes(r)
  PROVE  LegalInv'
<1> DEFINE new == Result(r).mtrrs
           last == r.base + r.len - 1
<1>1. bsp' = new /\ bared' = bared \cup Bare(r, new)
  BY DEF PeiSetMemoryAttribute, SetMemoryAttributes
<1>2. r.base \in Nat /\ r.len \in Nat /\ r.type \in Types /\ r.base + r.len <= Space
  BY RequestValues, RequestAssumption
<1>3. Shaped(new)
  BY <1>2, RequestFacts DEF LegalInv, Result
<1>4. /\ Legal(new.var)
      /\ \E first \in 0..r.base :
           new.var = bsp.var \/ \A a \in Addresses : Outcome(bsp.var, new.var, a, r.type, first, last)
  BY <1>2, RequestOutcome DEF LegalInv, Result
<1>5. PICK first \in 0..r.base :
        new.var = bsp.var \/ \A a \in Addresses : Outcome(bsp.var, new.var, a, r.type, first, last)
  BY <1>4
<1>6. \A a \in Addresses : a \notin first..last => a \notin AddressesOf(r)
  BY <1>2 DEF Addresses, AddressesOf
<1> HIDE DEF new, last
<1>7. ASSUME NEW a \in Addresses \ bared' PROVE OverlapDefined(new.var, a)
  <2>1. OverlapDefined(bsp.var, a) /\ a \notin Bare(r, new)
    BY <1>1, <1>7 DEF LegalInv
  <2>2. CASE new.var = bsp.var
    BY <2>1, <2>2
  <2>3. CASE Outcome(bsp.var, new.var, a, r.type, first, last)
    BY <1>2, <1>6, <2>1, <2>3, OutcomeSettles DEF Bare
  <2> QED BY <1>5, <2>2, <2>3
<1> QED BY <1>1, <1>3, <1>4, <1>7 DEF LegalInv

LEMMA LegalAlways == Spec => []LegalInv
<1>1. Init => LegalInv
  <2> SUFFICES ASSUME Init PROVE LegalInv
    OBVIOUS
  <2>1. [m \in Fixed |-> [i \in 0..(SubRanges - 1) |-> "UC"]] \in Contents
    BY DEF Contents, Types
  <2>2. Shaped(Zeroed)
    BY <2>1 DEF Zeroed, Shaped
  <2>3. Unused \in Contained /\ Unused.on = FALSE
    BY DEF Unused, Contained, Types
  <2>4. Zeroed.var \in [Registers -> Contained] /\ \A i \in Registers : ~Zeroed.var[i].on
    BY <2>3 DEF Zeroed
  <2> DEFINE v == Zeroed.var
  <2> HIDE DEF v
  <2>5. \A i \in Registers : ~v[i].on
    BY <2>4 DEF v
  <2>6. Legal(v)
    BY <2>4, <2>5 DEF Legal, WellFormed, v
  <2>7. \A a : TypesAt(v, a) = {}
    BY <2>5 DEF TypesAt, Covers
  <2>8. \A a : OverlapDefined(v, a)
    BY <2>7, OverlapPairs DEF Agreeing
  <2> QED BY <2>2, <2>6, <2>8 DEF Init, LegalInv, v
<1>2. LegalInv /\ [Next]_vars => LegalInv'
  <2> SUFFICES ASSUME LegalInv, [Next]_vars PROVE LegalInv'
    OBVIOUS
  <2>1. CASE UNCHANGED <<bsp, bared>>
    BY <2>1 DEF LegalInv
  <2>2. CASE \E r \in Requests : PeiSetMemoryAttribute(r) \/ SetMemoryAttributes(r)
    BY <2>2, RequestKeepsLegal
  <2>3. UNCHANGED <<bsp, bared>> \/ \E r \in Requests : PeiSetMemoryAttribute(r) \/ SetMemoryAttributes(r)
    BY DEF Next, InitializeCpu, EarlyMpInit, EnableDisableAP, vars
  <2> QED BY <2>1, <2>2, <2>3
<1> QED BY <1>1, <1>2, PTL DEF Spec

\* However many requests have merged, split and replaced MTRRs, and from above
\* or below: each enabled variable MTRR is a naturally aligned power of two
\* inside memory, the reserved ones stay unused, and the types of those that
\* overlap are types whose overlap is defined, but where a UC MTRR has given
\* way to a request for other addresses.
THEOREM RegistersAlwaysLegal == Spec => []RegistersLegal
<1>1. LegalInv => RegistersLegal
  BY DEF LegalInv, Legal, RegistersLegal
<1> QED BY <1>1, LegalAlways, PTL

-----------------------------------------------------------------------------
(* The type of an address above 1MB.                                       *)

TypeRun(f, var, a) ==
  /\ f[0] = "none"
  /\ \A i \in Registers :
       f[i] = IF Covers(var[i], a) THEN MtrrPrecedence(f[i - 1], var[i].type) ELSE f[i - 1]
  /\ VariableType(var, a) = IF f[GetFirmwareVariableMtrrCount] = "none" THEN DefaultType
                            ELSE f[GetFirmwareVariableMtrrCount]

\* The loop that looks at every MTRR.
LEMMA TypeLoop ==
  ASSUME NEW var, Legal(var), NEW a
  PROVE  \E f : TypeRun(f, var, a)
<1> DEFINE N == VariableMtrrCount
           V == {"none"} \cup Types
           next(t, i) == IF Covers(var[i], a) THEN MtrrPrecedence(t, var[i].type) ELSE t
           step == [x \in (1..N) \X V |-> next(x[2], x[1])]
           P(f) == f = [i \in 0..N |->
                     IF i = 0 THEN "none"
                     ELSE IF Covers(var[i], a) THEN MtrrPrecedence(f[i - 1], var[i].type) ELSE f[i - 1]]
           f == CHOOSE g : P(g)
<1>1. N \in Nat /\ GetFirmwareVariableMtrrCount \in 0..N /\ Registers = 1..N
  BY RegisterFacts
<1>2. ASSUME NEW i \in 1..N, NEW t \in V PROVE next(t, i) \in V
  <2>1. var[i].type \in Types
    BY <1>1 DEF Legal, Contained
  <2> QED BY <2>1 DEF MtrrPrecedence, Types
<1>3. P(f)
  <2>1. step \in [(1..N) \X V -> V]
    <3> SUFFICES ASSUME NEW x \in (1..N) \X V PROVE next(x[2], x[1]) \in V
      OBVIOUS
    <3>1. x[1] \in 1..N /\ x[2] \in V
      OBVIOUS
    <3> HIDE DEF next, V
    <3> QED BY <1>2, <3>1
  <2>2. "none" \in V
    OBVIOUS
  <2> HIDE DEF step, V, N
  <2>3. Steps(N, V, "none", step)
    BY <1>1, <2>1, <2>2 DEF Steps
  <2>4. PICK g \in [0..N -> V] : Iterates(g, N, "none", step)
    BY <2>3, Iteration
  <2>5. g = [i \in 0..N |-> IF i = 0 THEN "none" ELSE step[<<i, g[i - 1]>>]]
    BY <2>4 DEF Iterates
  <2>6. ASSUME NEW i \in 0..N PROVE g[i] = IF i = 0 THEN "none" ELSE next(g[i - 1], i)
    <3>1. CASE i = 0
      BY <2>5, <3>1
    <3>2. CASE i # 0
      <4>1. i \in 1..N /\ i - 1 \in 0..N
        BY <1>1, <2>6, <3>2
      <4>2. <<i, g[i - 1]>> \in (1..N) \X V /\ g[i] = step[<<i, g[i - 1]>>]
        BY <2>4, <2>5, <3>2, <4>1
      <4>3. step[<<i, g[i - 1]>>] = next(g[i - 1], i)
        BY <4>2 DEF step
      <4> QED BY <3>2, <4>2, <4>3
    <3> QED BY <3>1, <3>2
  <2>7. P(g)
    BY <2>4, <2>6
  <2> HIDE DEF P
  <2> QED BY <2>7, Zenon
<1>4. VariableType(var, a) = IF f[GetFirmwareVariableMtrrCount] = "none" THEN DefaultType
                             ELSE f[GetFirmwareVariableMtrrCount]
  BY Zenon DEF VariableType
<1> HIDE DEF f
<1>5. f[0] = "none"
  BY <1>1, <1>3
<1>6. ASSUME NEW i \in Registers
      PROVE  f[i] = IF Covers(var[i], a) THEN MtrrPrecedence(f[i - 1], var[i].type) ELSE f[i - 1]
  <2>1. i \in 0..N /\ i # 0
    BY <1>1
  <2> QED BY <1>3, <2>1
<1> QED BY <1>4, <1>5, <1>6 DEF TypeRun

\* The type is that of the MTRRs that cover the address, the stronger one of WT
\* and WB, and UC if one of them is.
LEMMA TypeFacts ==
  ASSUME NEW var, Legal(var), NEW a
  PROVE  LET T == TypesAt(var, a)
             t == VariableType(var, a)
         IN /\ "UC" \in T => t = "UC"
            /\ "UC" \notin T /\ Agreeing(T) =>
                 /\ T = {} => t = DefaultType
                 /\ T # {} => t \in T /\ (t = "WB" => "WT" \notin T)
<1> DEFINE F == GetFirmwareVariableMtrrCount
           T == TypesAt(var, a)
           Seen(n) == {var[i].type : i \in {j \in Registers : j <= n /\ Covers(var[j], a)}}
<1>1. PICK f : TypeRun(f, var, a)
  BY TypeLoop
<1>2. F \in 0..VariableMtrrCount /\ VariableMtrrCount \in Nat /\ Registers = 1..VariableMtrrCount
  BY RegisterFacts
<1>3. Seen(F) = T
  <2>1. \A i \in Registers : Covers(var[i], a) => i <= F
    BY RegisterFacts DEF Covers
  <2> QED BY <2>1 DEF TypesAt
<1>4. \A n \in Nat : Seen(n) \subseteq T /\ T \subseteq Types
  BY DEF TypesAt, Legal, Contained
<1> DEFINE Right(t, n) ==
             /\ t \in {"none"} \cup Types
             /\ "UC" \in Seen(n) => t = "UC"
             /\ "UC" \notin T /\ Agreeing(T) =>
                  /\ Seen(n) = {} => t = "none"
                  /\ Seen(n) # {} => t \in Seen(n) /\ (t = "WB" => "WT" \notin Seen(n))
           S == {n \in Nat : n <= F => Right(f[n], n)}
<1> HIDE DEF F, T
<1>5. 0 \in S
  <2>1. Seen(0) = {}
    BY <1>2
  <2> QED BY <1>1, <2>1 DEF TypeRun
<1>6. ASSUME NEW n \in Nat, n \in S PROVE n + 1 \in S
  <2> HIDE DEF Right, Seen
  <2> SUFFICES ASSUME n + 1 <= F PROVE Right(f[n + 1], n + 1)
    OBVIOUS
  <2> DEFINE r == var[n + 1]
             now == Seen(n + 1)
             was == Seen(n)
  <2>1. n + 1 \in Registers /\ (n + 1) - 1 = n /\ Right(f[n], n)
    BY <1>2, <1>6
  <2>2. f[n + 1] = IF Covers(r, a) THEN MtrrPrecedence(f[n], r.type) ELSE f[n]
    BY <1>1, <2>1 DEF TypeRun
  <2> USE DEF Right
  <2>3. now = IF Covers(r, a) THEN was \cup {r.type} ELSE was
    <3>1. \A i \in Registers : i <= n + 1 <=> i <= n \/ i = n + 1
      BY <1>2
    <3> QED BY <2>1, <3>1 DEF Seen
  <2>4. r.type \in Types /\ now \subseteq T /\ T \subseteq Types
    BY <1>4, <2>1 DEF Legal, Contained
  <2>5. \A t \in now : \A u \in now : "UC" \notin T /\ Agreeing(T) => Fits(t, u) /\ "UC" \notin {t, u}
    BY <2>4 DEF Agreeing
  <2> HIDE DEF now, was, r
  <2>6. CASE ~Covers(r, a)
    BY <2>1, <2>2, <2>3, <2>6 DEF now, was
  <2>7. CASE Covers(r, a)
    <3>1. f[n + 1] = MtrrPrecedence(f[n], r.type) /\ now = was \cup {r.type} /\ r.type # "none"
      BY <2>2, <2>3, <2>4, <2>7 DEF Types
    <3>2. f[n + 1] \in {"none"} \cup Types
      BY <2>1, <2>4, <3>1 DEF MtrrPrecedence, Types
    <3>3. "UC" \in now => f[n + 1] = "UC"
      BY <2>1, <3>1 DEF MtrrPrecedence, was
    <3>4. ASSUME "UC" \notin T, Agreeing(T)
          PROVE  f[n + 1] \in now /\ (f[n + 1] = "WB" => "WT" \notin now)
      <4>1. CASE was = {}
        <5>1. f[n] = "none"
          BY <2>1, <3>4, <4>1 DEF was
        <5> QED BY <3>1, <4>1, <5>1 DEF MtrrPrecedence
      <4>2. CASE was # {}
        <5>1. f[n] \in was /\ (f[n] = "WB" => "WT" \notin was)
          BY <2>1, <3>4, <4>2 DEF was
        <5>2. Fits(f[n], r.type) /\ "UC" \notin {f[n], r.type} /\ f[n] # "none"
          BY <2>4, <2>5, <3>1, <3>4, <5>1 DEF Types
        <5> QED BY <3>1, <5>1, <5>2 DEF MtrrPrecedence, Fits
      <4> QED BY <4>1, <4>2
    <3>5. now # {}
      BY <3>1
    <3> QED BY <3>2, <3>3, <3>4, <3>5 DEF now
  <2> QED BY <2>6, <2>7
<1>7. Nat \subseteq S
  <2> HIDE DEF S
  <2> QED BY <1>5, <1>6, Induction
<1>8. F \in Nat
  BY <1>2
<1>9. Right(f[F], F)
  BY <1>7, <1>8
<1>10. VariableType(var, a) = IF f[F] = "none" THEN DefaultType ELSE f[F]
  BY <1>1 DEF TypeRun, F
<1>11. "none" \notin T
  BY <1>3, <1>4, <1>8 DEF Types
<1> HIDE DEF Seen
<1> QED BY <1>3, <1>9, <1>10, <1>11 DEF T

\* Types that agree leave no choice.
LEMMA SameTypes ==
  ASSUME NEW var, Legal(var), NEW new, Legal(new), NEW a, TypesAt(var, a) = TypesAt(new, a),
         Agreeing(TypesAt(var, a))
  PROVE  VariableType(var, a) = VariableType(new, a)
<1> DEFINE T == TypesAt(var, a)
           t == VariableType(var, a)
           u == VariableType(new, a)
<1>1. /\ "UC" \in T => t = "UC" /\ u = "UC"
      /\ "UC" \notin T => /\ T = {} => t = u
                          /\ T # {} => t \in T /\ u \in T /\ (t = "WB" \/ u = "WB" => "WT" \notin T)
  BY TypeFacts
<1>2. t \in T /\ u \in T /\ "UC" \notin T => Fits(t, u)
  BY DEF Agreeing
<1> HIDE DEF T, t, u
<1>3. t = u
  BY <1>1, <1>2 DEF Fits
<1> QED BY <1>3 DEF t, u

\* Addresses in the same MTRRs have the same type.
LEMMA SameCover ==
  ASSUME NEW var, Legal(var), NEW a, NEW b,
         \A i \in Registers : Covers(var[i], a) <=> Covers(var[i], b)
  PROVE  VariableType(var, a) = VariableType(var, b)
<1>1. PICK f : TypeRun(f, var, a)
  BY TypeLoop
<1>2. PICK g : TypeRun(g, var, b)
  BY TypeLoop
<1>3. /\ GetFirmwareVariableMtrrCount \in 0..VariableMtrrCount
      /\ VariableMtrrCount \in Nat /\ Registers = 1..VariableMtrrCount
  BY RegisterFacts
<1> DEFINE S == {n \in Nat : n <= VariableMtrrCount => f[n] = g[n]}
<1>4. 0 \in S
  BY <1>1, <1>2 DEF TypeRun
<1>5. ASSUME NEW n \in Nat, n \in S PROVE n + 1 \in S
  <2> SUFFICES ASSUME n + 1 <= VariableMtrrCount PROVE f[n + 1] = g[n + 1]
    OBVIOUS
  <2>1. n + 1 \in Registers /\ (n + 1) - 1 = n /\ f[n] = g[n]
    BY <1>3, <1>5
  <2> QED BY <1>1, <1>2, <2>1 DEF TypeRun
<1>6. Nat \subseteq S
  <2> HIDE DEF S
  <2> QED BY <1>4, <1>5, Induction
<1>7. f[GetFirmwareVariableMtrrCount] = g[GetFirmwareVariableMtrrCount]
  BY <1>3, <1>6
<1> QED BY <1>1, <1>2, <1>7 DEF TypeRun

-----------------------------------------------------------------------------
(* CheckMemoryAttributeMapped.                                             *)

\* The ranges it is called for.
Ranges == (0..Space) \X (0..(2 * Space))
\* What one MTRR leaves of the range, given the results g for other ranges.
Cut(g, s, r) ==
  IF ~s.ok \/ ~Overlaps(r, s.start, s.end) THEN s
  ELSE [start |-> Larger(s.start, r.base), end |-> Smaller(s.end, MtrrEnd(r)),
        ok |-> /\ s.start < r.base => g[<<s.start, r.base - 1>>]
               /\ s.end > MtrrEnd(r) => g[<<MtrrEnd(r) + 1, s.end>>]]
Rest(g, var, start0, end0) ==
  CHOOSE rest : rest = [i \in 0..VariableMtrrCount |->
    IF i = 0 THEN [start |-> Larger(start0, BASE_1MB), end |-> end0, ok |-> TRUE]
    ELSE Cut(g, rest[i - 1], var[i])]
Uniform(g, m, type, start0, end0) ==
  LET common == Rest(g, m.var, start0, end0)[GetFirmwareVariableMtrrCount]
  IN common.ok /\ MtrrGetMemoryAttribute(m, common.start) = type
Mapped(m, type) ==
  CHOOSE g : g = [range \in Ranges |-> Uniform(g, m, type, range[1], range[2])]

LEMMA MappedDefined ==
  ASSUME NEW m, NEW type, NEW first, NEW last
  PROVE  CheckMemoryAttributeMapped(m, type, first, last) = Mapped(m, type)[<<first, last>>]
BY SMT DEF CheckMemoryAttributeMapped, Mapped, Uniform, Rest, Cut, Ranges

RestState == [start : 0..Space, end : 0..(2 * Space), ok : BOOLEAN]
\* How much a range holds.
Size == [x \in Ranges |-> IF x[1] <= x[2] THEN x[2] - x[1] + 1 ELSE 0]
\* What is left of a range lies in it.
Inside(s, start0, end0) == s \in RestState /\ start0 <= s.start /\ BASE_1MB <= s.start /\ s.end <= end0

LEMMA SizeFacts ==
  ASSUME NEW a \in 0..Space, NEW b \in 0..(2 * Space)
  PROVE  <<a, b>> \in Ranges /\ Size[<<a, b>>] = IF a <= b THEN b - a + 1 ELSE 0
BY DEF Ranges, Size

\* The ranges that are cut off are smaller.
LEMMA CutFacts ==
  ASSUME NEW var, Legal(var), NEW i \in Registers, NEW start0 \in 0..Space, NEW end0 \in 0..(2 * Space),
         NEW s, Inside(s, start0, end0), Overlaps(var[i], s.start, s.end)
  PROVE  LET r == var[i]
         IN /\ r.base \in 0..(Space - 1) /\ MtrrEnd(r) \in 0..(Space - 1) /\ r.base <= MtrrEnd(r) /\ r.on
            /\ s.start \in 0..Space /\ s.end \in 0..(2 * Space) /\ s.start <= MtrrEnd(r) /\ r.base <= s.end
            /\ s.start < r.base => /\ <<s.start, r.base - 1>> \in Ranges
                                   /\ Size[<<s.start, r.base - 1>>] < Size[<<start0, end0>>]
            /\ s.end > MtrrEnd(r) => /\ <<MtrrEnd(r) + 1, s.end>> \in Ranges
                                     /\ Size[<<MtrrEnd(r) + 1, s.end>>] < Size[<<start0, end0>>]
<1> DEFINE r == var[i]
           b == r.base
           e == MtrrEnd(r)
<1>1. r.on /\ s.start <= e /\ b <= s.end
  BY DEF Overlaps
<1>2. b \in 0..(Space - 1) /\ e \in 0..(Space - 1) /\ b <= e
  BY <1>1, RegisterFacts
<1>3. s.start \in 0..Space /\ s.end \in 0..(2 * Space) /\ start0 <= s.start /\ s.end <= end0 /\ Space \in Nat
  BY PowerFacts DEF Inside, RestState
<1> HIDE DEF r, b, e
<1>4. s.start < b => <<s.start, b - 1>> \in Ranges /\ Size[<<s.start, b - 1>>] < Size[<<start0, end0>>]
  <2> SUFFICES ASSUME s.start < b
               PROVE  <<s.start, b - 1>> \in Ranges /\ Size[<<s.start, b - 1>>] < Size[<<start0, end0>>]
    OBVIOUS
  <2>1. b - 1 \in 0..(2 * Space)
    BY <1>2, <1>3
  <2>2. /\ <<s.start, b - 1>> \in Ranges
        /\ Size[<<s.start, b - 1>>] = IF s.start <= b - 1 THEN b - 1 - s.start + 1 ELSE 0
    BY <1>3, <2>1, SizeFacts
  <2>3. Size[<<start0, end0>>] = IF start0 <= end0 THEN end0 - start0 + 1 ELSE 0
    BY SizeFacts
  <2> QED BY <1>1, <1>2, <1>3, <2>2, <2>3
<1>5. s.end > e => <<e + 1, s.end>> \in Ranges /\ Size[<<e + 1, s.end>>] < Size[<<start0, end0>>]
  <2> SUFFICES ASSUME s.end > e
               PROVE  <<e + 1, s.end>> \in Ranges /\ Size[<<e + 1, s.end>>] < Size[<<start0, end0>>]
    OBVIOUS
  <2>1. e + 1 \in 0..Space
    BY <1>2, <1>3
  <2>2. <<e + 1, s.end>> \in Ranges /\ Size[<<e + 1, s.end>>] = IF e + 1 <= s.end THEN s.end - (e + 1) + 1 ELSE 0
    BY <1>3, <2>1, SizeFacts
  <2>3. Size[<<start0, end0>>] = IF start0 <= end0 THEN end0 - start0 + 1 ELSE 0
    BY SizeFacts
  <2> QED BY <1>1, <1>2, <1>3, <2>2, <2>3
<1> QED BY <1>1, <1>2, <1>3, <1>4, <1>5 DEF r, b, e

\* One step of the loop.
LEMMA CutInside ==
  ASSUME NEW var, Legal(var), NEW i \in Registers, NEW start0 \in 0..Space, NEW end0 \in 0..(2 * Space),
         NEW s, Inside(s, start0, end0), NEW g \in [Ranges -> BOOLEAN]
  PROVE  LET t == Cut(g, s, var[i])
         IN Inside(t, start0, end0) /\ s.start <= t.start /\ t.end <= s.end
<1> DEFINE r == var[i]
           t == Cut(g, s, r)
           ok == /\ s.start < r.base => g[<<s.start, r.base - 1>>]
                 /\ s.end > MtrrEnd(r) => g[<<MtrrEnd(r) + 1, s.end>>]
<1>1. s.start \in 0..Space /\ s.end \in 0..(2 * Space) /\ s \in RestState /\ start0 <= s.start /\ BASE_1MB <= s.start
      /\ s.end <= end0 /\ Space \in Nat /\ BASE_1MB \in Nat
  BY PowerFacts, TableFacts DEF Inside, RestState
<1>2. CASE Overlaps(r, s.start, s.end)
  <2>1. /\ r.base \in 0..(Space - 1) /\ MtrrEnd(r) \in 0..(Space - 1)
        /\ s.start < r.base => <<s.start, r.base - 1>> \in Ranges
        /\ s.end > MtrrEnd(r) => <<MtrrEnd(r) + 1, s.end>> \in Ranges
    BY <1>2, CutFacts
  <2>2. ok \in BOOLEAN
    BY <2>1
  <2>3. /\ Larger(s.start, r.base) \in 0..Space /\ s.start <= Larger(s.start, r.base)
        /\ Smaller(s.end, MtrrEnd(r)) \in 0..(2 * Space) /\ Smaller(s.end, MtrrEnd(r)) <= s.end
    BY <1>1, <2>1 DEF Larger, Smaller
  <2>4. t = s \/ t = [start |-> Larger(s.start, r.base), end |-> Smaller(s.end, MtrrEnd(r)), ok |-> ok]
    BY DEF Cut
  <2> HIDE DEF ok, t, r
  <2>5. t \in RestState /\ s.start <= t.start /\ t.end <= s.end /\ t.start \in 0..Space /\ t.end \in 0..(2 * Space)
    BY <1>1, <2>2, <2>3, <2>4 DEF RestState
  <2>6. Inside(t, start0, end0)
    BY <1>1, <2>5 DEF Inside
  <2> QED BY <2>5, <2>6 DEF t, r
<1>3. CASE ~Overlaps(r, s.start, s.end)
  <2>1. t = s
    BY <1>3 DEF Cut
  <2> QED BY <1>1, <2>1
<1> QED BY <1>2, <1>3

\* The loop.
LEMMA RestFacts ==
  ASSUME NEW var, Legal(var), NEW start0 \in 0..Space, NEW end0 \in 0..(2 * Space), NEW g \in [Ranges -> BOOLEAN]
  PROVE  LET R == Rest(g, var, start0, end0)
         IN /\ R[0] = [start |-> Larger(start0, BASE_1MB), end |-> end0, ok |-> TRUE]
            /\ \A i \in Registers : R[i] = Cut(g, R[i - 1], var[i])
            /\ \A i \in 0..VariableMtrrCount : Inside(R[i], start0, end0)
<1> DEFINE N == VariableMtrrCount
           V == {s \in RestState : Inside(s, start0, end0)}
           first == [start |-> Larger(start0, BASE_1MB), end |-> end0, ok |-> TRUE]
           step == [x \in (1..N) \X V |-> Cut(g, x[2], var[x[1]])]
           P(f) == f = [i \in 0..N |-> IF i = 0 THEN first ELSE Cut(g, f[i - 1], var[i])]
           R == Rest(g, var, start0, end0)
<1>1. N \in Nat /\ Registers = 1..N
  BY RegisterFacts
<1>2. first \in V
  <2>1. Space \in Nat /\ BASE_1MB \in Nat /\ BASE_1MB < Space
    BY PowerFacts, TableFacts, MtrrAssumption
  <2>2. Larger(start0, BASE_1MB) \in 0..Space /\ start0 <= Larger(start0, BASE_1MB) /\ BASE_1MB <= Larger(start0, BASE_1MB)
    BY <2>1 DEF Larger
  <2> DEFINE l == Larger(start0, BASE_1MB)
  <2> HIDE DEF l
  <2>3. first = [start |-> l, end |-> end0, ok |-> TRUE]
    BY DEF l
  <2>4. first \in RestState /\ first.start = l /\ first.end = end0
    BY <2>2, <2>3 DEF RestState, l
  <2>5. end0 <= end0
    BY PowerFacts
  <2> HIDE DEF first
  <2> QED BY <2>2, <2>4, <2>5 DEF Inside, l
<1>3. ASSUME NEW i \in 1..N, NEW s \in V PROVE Cut(g, s, var[i]) \in V
  <2>1. Inside(s, start0, end0) /\ i \in Registers
    BY <1>1, <1>3
  <2>2. Inside(Cut(g, s, var[i]), start0, end0)
    BY <2>1, CutInside
  <2> QED BY <2>2 DEF Inside
<1>4. P(R)
  <2>1. step \in [(1..N) \X V -> V]
    <3> SUFFICES ASSUME NEW x \in (1..N) \X V PROVE Cut(g, x[2], var[x[1]]) \in V
      OBVIOUS
    <3>1. x[1] \in 1..N /\ x[2] \in V
      OBVIOUS
    <3> HIDE DEF V
    <3> QED BY <1>3, <3>1
  <2> HIDE DEF step, V, N, first
  <2>2. Steps(N, V, first, step)
    BY <1>1, <1>2, <2>1 DEF Steps
  <2>3. PICK f \in [0..N -> V] : Iterates(f, N, first, step)
    BY <2>2, Iteration
  <2>4. f = [i \in 0..N |-> IF i = 0 THEN first ELSE step[<<i, f[i - 1]>>]]
    BY <2>3 DEF Iterates
  <2>5. ASSUME NEW i \in 0..N PROVE f[i] = IF i = 0 THEN first ELSE Cut(g, f[i - 1], var[i])
    <3>1. CASE i = 0
      BY <2>4, <3>1
    <3>2. CASE i # 0
      <4>1. i \in 1..N /\ i - 1 \in 0..N
        BY <1>1, <2>5, <3>2
      <4>2. <<i, f[i - 1]>> \in (1..N) \X V /\ f[i] = step[<<i, f[i - 1]>>]
        BY <2>3, <2>4, <3>2, <4>1
      <4>3. step[<<i, f[i - 1]>>] = Cut(g, f[i - 1], var[i])
        BY <4>2 DEF step
      <4> QED BY <3>2, <4>2, <4>3
    <3> QED BY <3>1, <3>2
  <2>6. P(f)
    BY <2>3, <2>5
  <2>7. R = CHOOSE h : P(h)
    BY DEF Rest, first, N
  <2> HIDE DEF P, R
  <2> QED BY <2>6, <2>7
<1> HIDE DEF R
<1>5. R[0] = first
  BY <1>1, <1>4
<1>6. \A i \in Registers : R[i] = Cut(g, R[i - 1], var[i])
  <2> SUFFICES ASSUME NEW i \in Registers PROVE R[i] = Cut(g, R[i - 1], var[i])
    OBVIOUS
  <2>1. i \in 0..N /\ i # 0
    BY <1>1
  <2> QED BY <1>4, <2>1
<1> DEFINE S == {i \in Nat : i <= N => R[i] \in V}
<1> HIDE DEF V, first
<1>7. 0 \in S
  BY <1>2, <1>5
<1>8. ASSUME NEW i \in Nat, i \in S PROVE i + 1 \in S
  <2> SUFFICES ASSUME i + 1 <= N PROVE R[i + 1] \in V
    OBVIOUS
  <2>1. i + 1 \in 1..N /\ (i + 1) - 1 = i /\ R[i] \in V
    BY <1>1, <1>8
  <2> QED BY <1>1, <1>3, <1>6, <2>1
<1>9. Nat \subseteq S
  <2> HIDE DEF S
  <2> QED BY <1>7, <1>8, Induction
<1>10. \A i \in 0..N : Inside(R[i], start0, end0)
  BY <1>1, <1>9 DEF V
<1> QED BY <1>5, <1>6, <1>10 DEF R, first

\* What is found for a range depends on smaller ranges only.
LEMMA UniformSame ==
  ASSUME NEW m, Legal(m.var), NEW type, NEW start0 \in 0..Space, NEW end0 \in 0..(2 * Space),
         NEW g \in [Ranges -> BOOLEAN], NEW h \in [Ranges -> BOOLEAN],
         \A y \in Ranges : Size[y] < Size[<<start0, end0>>] => g[y] = h[y]
  PROVE  Uniform(g, m, type, start0, end0) = Uniform(h, m, type, start0, end0)
<1> DEFINE Q == Rest(g, m.var, start0, end0)
           R == Rest(h, m.var, start0, end0)
           S == {i \in Nat : i <= VariableMtrrCount => Q[i] = R[i]}
<1>1. /\ VariableMtrrCount \in Nat /\ Registers = 1..VariableMtrrCount
      /\ GetFirmwareVariableMtrrCount \in 0..VariableMtrrCount
  BY RegisterFacts
<1>2. /\ Q[0] = R[0] /\ \A i \in Registers : Q[i] = Cut(g, Q[i - 1], m.var[i])
      /\ \A i \in Registers : R[i] = Cut(h, R[i - 1], m.var[i])
      /\ \A i \in 0..VariableMtrrCount : Inside(Q[i], start0, end0)
  <2>1. /\ Q[0] = [start |-> Larger(start0, BASE_1MB), end |-> end0, ok |-> TRUE]
        /\ \A i \in Registers : Q[i] = Cut(g, Q[i - 1], m.var[i])
        /\ \A i \in 0..VariableMtrrCount : Inside(Q[i], start0, end0)
    BY RestFacts
  <2>2. /\ R[0] = [start |-> Larger(start0, BASE_1MB), end |-> end0, ok |-> TRUE]
        /\ \A i \in Registers : R[i] = Cut(h, R[i - 1], m.var[i])
    BY RestFacts
  <2> HIDE DEF Q, R
  <2> QED BY <2>1, <2>2
<1> HIDE DEF Q, R
<1>3. 0 \in S
  BY <1>2
<1>4. ASSUME NEW i \in Nat, i \in S PROVE i + 1 \in S
  <2> SUFFICES ASSUME i + 1 <= VariableMtrrCount PROVE Q[i + 1] = R[i + 1]
    OBVIOUS
  <2> DEFINE s == Q[i]
             r == m.var[i + 1]
  <2>1. i + 1 \in Registers /\ (i + 1) - 1 = i /\ R[i] = s /\ Inside(s, start0, end0)
    BY <1>1, <1>2, <1>4
  <2>2. Overlaps(r, s.start, s.end) =>
          /\ s.start < r.base => /\ <<s.start, r.base - 1>> \in Ranges
                                 /\ Size[<<s.start, r.base - 1>>] < Size[<<start0, end0>>]
          /\ s.end > MtrrEnd(r) => /\ <<MtrrEnd(r) + 1, s.end>> \in Ranges
                                   /\ Size[<<MtrrEnd(r) + 1, s.end>>] < Size[<<start0, end0>>]
    BY <2>1, CutFacts
  <2>3. Q[i + 1] = Cut(g, s, r) /\ R[i + 1] = Cut(h, s, r)
    BY <1>2, <2>1
  <2> HIDE DEF s, r
  <2>4. Overlaps(r, s.start, s.end) =>
          /\ s.start < r.base => g[<<s.start, r.base - 1>>] = h[<<s.start, r.base - 1>>]
          /\ s.end > MtrrEnd(r) => g[<<MtrrEnd(r) + 1, s.end>>] = h[<<MtrrEnd(r) + 1, s.end>>]
    BY <2>2
  <2>5. Cut(g, s, r) = Cut(h, s, r)
    BY <2>4 DEF Cut
  <2> QED BY <2>3, <2>5
<1>5. Nat \subseteq S
  <2> HIDE DEF S
  <2> QED BY <1>3, <1>4, Induction
<1>6. Q[GetFirmwareVariableMtrrCount] = R[GetFirmwareVariableMtrrCount]
  BY <1>1, <1>5
<1> QED BY <1>6 DEF Uniform, Q, R

\* So that the recursion is well founded.
LEMMA MappedRun ==
  ASSUME NEW m, Legal(m.var), NEW type
  PROVE  LET G == Mapped(m, type)
         IN /\ G \in [Ranges -> BOOLEAN]
            /\ \A start0 \in 0..Space, end0 \in 0..(2 * Space) :
                 G[<<start0, end0>>] = Uniform(G, m, type, start0, end0)
<1> DEFINE P(g) == g = [x \in Ranges |-> Uniform(g, m, type, x[1], x[2])]
           F == [Ranges -> BOOLEAN]
           step == [x \in Ranges \X F |-> Uniform(x[2], m, type, x[1][1], x[1][2])]
           G == Mapped(m, type)
<1>1. Space \in Nat
  BY PowerFacts
<1>2. \A g, a, b : Uniform(g, m, type, a, b) \in BOOLEAN
  BY DEF Uniform
<1>3. Size \in [Ranges -> Nat] /\ \A x \in Ranges : Size[x] < 2 * Space + 2
  BY <1>1 DEF Size, Ranges
<1>4. Measured(Ranges, BOOLEAN, Size, step)
  <2>1. step \in [Ranges \X F -> BOOLEAN]
    BY <1>2
  <2>2. ASSUME NEW x \in Ranges, NEW g \in F, NEW h \in F, \A y \in Ranges : Size[y] < Size[x] => g[y] = h[y]
        PROVE  step[<<x, g>>] = step[<<x, h>>]
    <3>1. PICK a \in 0..Space, b \in 0..(2 * Space) : x = <<a, b>>
      BY DEF Ranges
    <3>2. Uniform(g, m, type, a, b) = Uniform(h, m, type, a, b)
      BY <2>2, <3>1, UniformSame
    <3>3. step[<<x, g>>] = Uniform(g, m, type, a, b) /\ step[<<x, h>>] = Uniform(h, m, type, a, b)
      BY <3>1
    <3> QED BY <3>2, <3>3
  <2> HIDE DEF step
  <2> QED BY <1>3, <2>1, <2>2 DEF Measured
<1> HIDE DEF step
<1>5. PICK g \in F : \A x \in Ranges : g[x] = step[<<x, g>>]
  <2>1. 2 * Space + 2 \in Nat
    BY <1>1
  <2> DEFINE B == BOOLEAN
  <2>2. TRUE \in B
    OBVIOUS
  <2>3. \E g \in [Ranges -> B] : \A x \in Ranges : g[x] = step[<<x, g>>]
    <3>1. Measured(Ranges, B, Size, step)
      BY <1>4
    <3> HIDE DEF B
    <3>2. B # {}
      BY <2>2
    <3> QED BY <1>3, <2>1, <3>1, <3>2, MeasuredRecursion
  <2> HIDE DEF F
  <2> QED BY <2>3 DEF F
<1>6. P(g)
  BY <1>5 DEF step
<1>7. P(G)
  <2>1. G = CHOOSE h : P(h)
    BY DEF Mapped
  <2> HIDE DEF P, G
  <2> QED BY <1>6, <2>1
<1> HIDE DEF G
<1>8. G \in [Ranges -> BOOLEAN] /\ \A x \in Ranges : G[x] = Uniform(G, m, type, x[1], x[2])
  BY <1>2, <1>7
<1> QED BY <1>8 DEF Ranges, G

\* A range in which every address has the type.
RangeIs(var, x, type) == \A a \in x[1]..x[2] : a >= BASE_1MB => VariableType(var, a) = type

\* Before the MTRR i of the loop that looks at the range, s is left.
CutInv(s, i, var, type, start0, end0) ==
  s.ok => /\ \A a \in start0..end0 : a >= BASE_1MB => a \in s.start..s.end \/ VariableType(var, a) = type
          /\ \A j \in Registers : j <= i =>
               \A a, b \in s.start..s.end : Covers(var[j], a) => Covers(var[j], b)

LEMMA CutStep ==
  ASSUME NEW var, Legal(var), NEW type, NEW start0 \in 0..Space, NEW end0 \in 0..(2 * Space),
         NEW g \in [Ranges -> BOOLEAN],
         \A y \in Ranges : Size[y] < Size[<<start0, end0>>] /\ g[y] => RangeIs(var, y, type),
         NEW i \in Nat, i + 1 \in Registers,
         NEW s, Inside(s, start0, end0), CutInv(s, i, var, type, start0, end0)
  PROVE  CutInv(Cut(g, s, var[i + 1]), i + 1, var, type, start0, end0)
<1> DEFINE r == var[i + 1]
           t == Cut(g, s, r)
<1>1. /\ s.start \in 0..Space /\ s.end \in 0..(2 * Space) /\ Space \in Nat /\ BASE_1MB <= s.start
      /\ start0 <= s.start /\ s.end <= end0
  BY PowerFacts DEF Inside, RestState
<1>2. r.on => r.base \in 0..(Space - 1) /\ MtrrEnd(r) \in 0..(Space - 1) /\ r.base <= MtrrEnd(r)
  BY RegisterFacts
<1>3. \A j \in Registers : j <= i + 1 <=> j <= i \/ j = i + 1
  BY RegisterFacts
<1> SUFFICES ASSUME t.ok
             PROVE  /\ \A a \in start0..end0 : a >= BASE_1MB => a \in t.start..t.end \/ VariableType(var, a) = type
                    /\ \A j \in Registers : j <= i + 1 =>
                         \A a, b \in t.start..t.end : Covers(var[j], a) => Covers(var[j], b)
  BY DEF CutInv
<1>4. CASE ~s.ok \/ ~Overlaps(r, s.start, s.end)
  <2>1. t = s
    BY <1>4 DEF Cut
  <2>2. s.ok /\ ~Overlaps(r, s.start, s.end)
    BY <1>4, <2>1
  <2>3. \A a \in s.start..s.end : ~Covers(r, a)
    BY <1>1, <1>2, <2>2 DEF Overlaps, Covers
  <2> HIDE DEF t
  <2> QED BY <1>3, <2>1, <2>2, <2>3 DEF CutInv
<1>5. CASE s.ok /\ Overlaps(r, s.start, s.end)
  <2> DEFINE b0 == r.base
             e0 == MtrrEnd(r)
             ok == /\ s.start < b0 => g[<<s.start, b0 - 1>>]
                   /\ s.end > e0 => g[<<e0 + 1, s.end>>]
  <2>1. t = [start |-> Larger(s.start, b0), end |-> Smaller(s.end, e0), ok |-> ok]
    BY <1>5 DEF Cut
  <2>2. ok /\ t.start = Larger(s.start, b0) /\ t.end = Smaller(s.end, e0)
    <3> HIDE DEF ok, t, b0, e0
    <3> QED BY <2>1
  <2>3. /\ r.on /\ b0 \in 0..(Space - 1) /\ e0 \in 0..(Space - 1) /\ b0 <= e0
        /\ s.start < b0 => /\ <<s.start, b0 - 1>> \in Ranges
                           /\ Size[<<s.start, b0 - 1>>] < Size[<<start0, end0>>]
        /\ s.end > e0 => /\ <<e0 + 1, s.end>> \in Ranges
                         /\ Size[<<e0 + 1, s.end>>] < Size[<<start0, end0>>]
    BY <1>5, CutFacts
  <2>4. /\ s.start < b0 => \A a \in s.start..(b0 - 1) : a >= BASE_1MB => VariableType(var, a) = type
        /\ s.end > e0 => \A a \in (e0 + 1)..s.end : a >= BASE_1MB => VariableType(var, a) = type
    BY <2>2, <2>3 DEF RangeIs
  <2>5. \A a : Covers(r, a) <=> b0 <= a /\ a <= e0
    BY <2>3 DEF Covers
  <2> HIDE DEF t, b0, e0, ok
  <2>6. \A a \in t.start..t.end : a \in s.start..s.end /\ b0 <= a /\ a <= e0
    BY <1>1, <2>2, <2>3 DEF Larger, Smaller
  <2>7. \A a \in s.start..s.end : a \in t.start..t.end \/ a < b0 \/ a > e0
    BY <1>1, <2>2, <2>3 DEF Larger, Smaller
  <2>8. ASSUME NEW a \in start0..end0, a >= BASE_1MB
        PROVE  a \in t.start..t.end \/ VariableType(var, a) = type
    <3>1. a \in s.start..s.end \/ VariableType(var, a) = type
      BY <1>5, <2>8 DEF CutInv
    <3>2. CASE a \in s.start..s.end
      <4>1. a < b0 => s.start < b0 /\ a \in s.start..(b0 - 1)
        BY <1>1, <2>3, <3>2
      <4>2. a > e0 => s.end > e0 /\ a \in (e0 + 1)..s.end
        BY <1>1, <2>3, <3>2
      <4> QED BY <2>4, <2>7, <2>8, <3>2, <4>1, <4>2
    <3> QED BY <3>1, <3>2
  <2>9. ASSUME NEW j \in Registers, j <= i + 1, NEW a \in t.start..t.end, NEW b \in t.start..t.end,
               Covers(var[j], a)
        PROVE  Covers(var[j], b)
    <3>1. CASE j <= i
      BY <1>5, <2>6, <2>9, <3>1 DEF CutInv
    <3>2. CASE j = i + 1
      BY <2>5, <2>6, <2>9, <3>2
    <3> QED BY <1>3, <2>9, <3>1, <3>2
  <2> QED BY <2>8, <2>9
<1> QED BY <1>4, <1>5

\* One look at a range, given that those it calls for are right.
LEMMA UniformRight ==
  ASSUME NEW m, Legal(m.var), NEW type, NEW start0 \in 0..Space, NEW end0 \in 0..(2 * Space),
         NEW g \in [Ranges -> BOOLEAN],
         \A y \in Ranges : Size[y] < Size[<<start0, end0>>] /\ g[y] => RangeIs(m.var, y, type),
         Uniform(g, m, type, start0, end0)
  PROVE  RangeIs(m.var, <<start0, end0>>, type)
<1> DEFINE R == Rest(g, m.var, start0, end0)
           F == GetFirmwareVariableMtrrCount
           common == R[F]
           S == {i \in Nat : i <= VariableMtrrCount => CutInv(R[i], i, m.var, type, start0, end0)}
<1>1. VariableMtrrCount \in Nat /\ Registers = 1..VariableMtrrCount /\ F \in 0..VariableMtrrCount
  BY RegisterFacts
<1>2. /\ R[0] = [start |-> Larger(start0, BASE_1MB), end |-> end0, ok |-> TRUE]
      /\ \A i \in Registers : R[i] = Cut(g, R[i - 1], m.var[i])
      /\ \A i \in 0..VariableMtrrCount : Inside(R[i], start0, end0)
  BY RestFacts
<1>3. common.ok /\ MtrrGetMemoryAttribute(m, common.start) = type
  BY DEF Uniform
<1> HIDE DEF R
<1>4. 0 \in S
  <2>1. \A a \in start0..end0 : a >= BASE_1MB => a \in Larger(start0, BASE_1MB)..end0
    BY TableFacts, PowerFacts DEF Larger
  <2>2. \A j \in Registers : ~(j <= 0)
    BY <1>1
  <2>3. CutInv(R[0], 0, m.var, type, start0, end0)
    BY <1>2, <2>1, <2>2 DEF CutInv
  <2> QED BY <2>3
<1>5. ASSUME NEW i \in Nat, i \in S PROVE i + 1 \in S
  <2> SUFFICES ASSUME i + 1 <= VariableMtrrCount
               PROVE  CutInv(R[i + 1], i + 1, m.var, type, start0, end0)
    OBVIOUS
  <2>1. i + 1 \in Registers /\ (i + 1) - 1 = i /\ i \in 0..VariableMtrrCount /\ i <= VariableMtrrCount
    BY <1>1
  <2>2. Inside(R[i], start0, end0) /\ R[i + 1] = Cut(g, R[i], m.var[i + 1])
    BY <1>2, <2>1
  <2>3. CutInv(R[i], i, m.var, type, start0, end0)
    BY <1>5, <2>1
  <2> QED BY <2>1, <2>2, <2>3, CutStep
<1>6. CutInv(common, F, m.var, type, start0, end0)
  <2>1. Nat \subseteq S
    <3> HIDE DEF S
    <3> QED BY <1>4, <1>5, Induction
  <2> QED BY <1>1, <2>1
<1>7. Inside(common, start0, end0)
  BY <1>1, <1>2
<1> HIDE DEF common
<1>8. common.start \in 0..Space /\ common.end \in 0..(2 * Space) /\ BASE_1MB <= common.start /\ Space \in Nat
  BY <1>7, PowerFacts DEF Inside, RestState
<1>9. VariableType(m.var, common.start) = type
  <2>1. ~(common.start < BASE_1MB)
    BY <1>8, TableFacts
  <2> QED BY <1>3, <2>1 DEF MtrrGetMemoryAttribute
<1>10. ASSUME NEW a \in common.start..common.end PROVE VariableType(m.var, a) = type
  <2>1. common.start \in common.start..common.end
    BY <1>8
  <2>2. ASSUME NEW j \in Registers PROVE Covers(m.var[j], a) <=> Covers(m.var[j], common.start)
    <3>1. j <= F => (Covers(m.var[j], a) <=> Covers(m.var[j], common.start))
      BY <1>3, <1>6, <1>10, <2>1 DEF CutInv
    <3>2. ~(j <= F) => ~m.var[j].on
      BY RegisterFacts
    <3> QED BY <3>1, <3>2 DEF Covers
  <2> QED BY <1>9, <2>2, SameCover
<1>11. \A a \in start0..end0 : a >= BASE_1MB => VariableType(m.var, a) = type
  BY <1>3, <1>6, <1>10 DEF CutInv
<1> QED BY <1>11 DEF RangeIs

\* What the library finds mapped is.
LEMMA MappedRight ==
  ASSUME NEW m, Legal(m.var), NEW type, NEW first \in 0..Space, NEW last \in 0..(2 * Space),
         CheckMemoryAttributeMapped(m, type, first, last)
  PROVE  \A a \in first..last : a >= BASE_1MB => VariableType(m.var, a) = type
<1> DEFINE G == Mapped(m, type)
           S == {n \in Nat : \A x \in Ranges : Size[x] < n /\ G[x] => RangeIs(m.var, x, type)}
<1>1. /\ G \in [Ranges -> BOOLEAN]
      /\ \A start0 \in 0..Space, end0 \in 0..(2 * Space) :
           G[<<start0, end0>>] = Uniform(G, m, type, start0, end0)
  BY MappedRun
<1>2. \A x \in Ranges : Size[x] \in Nat
  BY PowerFacts DEF Size, Ranges
<1>3. <<first, last>> \in Ranges /\ G[<<first, last>>]
  BY MappedDefined DEF Ranges
<1> HIDE DEF G
<1>4. 0 \in S
  BY <1>2
<1>5. ASSUME NEW n \in Nat, n \in S PROVE n + 1 \in S
  <2> SUFFICES ASSUME NEW x \in Ranges, Size[x] < n + 1, G[x] PROVE RangeIs(m.var, x, type)
    OBVIOUS
  <2>1. PICK a \in 0..Space, b \in 0..(2 * Space) : x = <<a, b>>
    BY DEF Ranges
  <2>2. \A y \in Ranges : Size[y] < Size[<<a, b>>] /\ G[y] => RangeIs(m.var, y, type)
    BY <1>2, <1>5, <2>1
  <2>3. Uniform(G, m, type, a, b)
    BY <1>1, <2>1
  <2> QED BY <1>1, <2>1, <2>2, <2>3, UniformRight
<1>6. Nat \subseteq S
  <2> HIDE DEF S
  <2> QED BY <1>4, <1>5, Induction
<1>7. RangeIs(m.var, <<first, last>>, type)
  <2>1. Size[<<first, last>>] \in Nat
    BY <1>2, <1>3
  <2>2. Size[<<first, last>>] + 1 \in S /\ Size[<<first, last>>] < Size[<<first, last>>] + 1
    BY <1>6, <2>1
  <2> QED BY <1>3, <2>2
<1> QED BY <1>7 DEF RangeIs

-----------------------------------------------------------------------------
(* A request that succeeds is honoured.                                    *)

\* Below 1MB by the fixed MTRRs.
LEMMA FixedHonoured ==
  ASSUME NEW m, Shaped(m), NEW base \in Nat, NEW len \in Nat, NEW type \in Types,
         MtrrSetMemoryAttribute(m, base, len, type).status = "SUCCESS",
         NEW a \in Nat, a < BASE_1MB, base <= a, a < base + len
  PROVE  FixedType(MtrrSetMemoryAttribute(m, base, len, type).mtrrs.fixed, a) = type
<1> DEFINE s == ProgramFixedMtrrs(m.fixed, base, len, type)
           r == MtrrSetMemoryAttribute(m, base, len, type)
<1>1. FixedState(s, m.fixed, base, len, type) /\ (s.ok /\ s.len > 0 => BASE_1MB <= s.base)
  BY FixedProgrammed DEF Shaped
<1>2. s.ok
  <2>1. "INVALID_PARAMETER" # "SUCCESS" /\ "UNSUPPORTED" # "SUCCESS"
    OBVIOUS
  <2>2. ~s.ok => \E st, n : st # "SUCCESS" /\ r = [status |-> st, mtrrs |-> n]
    BY <2>1, Zenon DEF MtrrSetMemoryAttribute
  <2> HIDE DEF r, s
  <2>3. r.status = "SUCCESS"
    BY DEF r
  <2> QED BY <2>2, <2>3
<1>3. r.mtrrs.fixed = s.fixed
  BY RequestFacts
<1> HIDE DEF r, s
<1>4. a < s.base
  <2>1. s.base \in Nat /\ s.len \in Nat /\ s.base + s.len = base + len
    BY <1>1 DEF FixedState
  <2> QED BY <1>1, <1>2, <2>1, TableFacts
<1>5. PICK k \in Fixed : k = CHOOSE n \in Fixed : FixedTable[n].base <= a /\ a < FixedEnd(n)
  BY TableCovers
<1>6. At(k, a)
  BY <1>5, TableCovers DEF At
<1>7. FixedType(s.fixed, a) = TypeAt(s.fixed, k, a)
  BY <1>5 DEF FixedType, TypeAt
<1>8. TypeAt(s.fixed, k, a) = type
  BY <1>1, <1>4, <1>6 DEF FixedState
<1> QED BY <1>3, <1>7, <1>8 DEF r

\* Above by the variable MTRRs.
LEMMA OutcomeHonours ==
  ASSUME NEW var, NEW new, Legal(new), NEW a \in Addresses, NEW type \in Types, NEW first, NEW last,
         Outcome(var, new, a, type, first, last), a \in first..last
  PROVE  \/ VariableType(new, a) = type
         \/ \E i \in Registers : new[i] = var[i] /\ Covers(new[i], a) /\ Stronger(new[i].type, type)
<1> DEFINE now == TypesAt(new, a)
           t == VariableType(new, a)
<1>1. PICK S : /\ Remain(S, var, new, a) /\ \A u \in S : Fits(type, u)
               /\ now = S \cup {type} \/ (now = {} /\ type = DefaultType)
  BY DEF Outcome
<1>2. /\ "UC" \in now => t = "UC"
      /\ "UC" \notin now /\ Agreeing(now) => /\ now = {} => t = DefaultType
                                             /\ now # {} => t \in now /\ (t = "WB" => "WT" \notin now)
  BY TypeFacts
<1>3. ASSUME NEW u \in S, Stronger(u, type)
      PROVE  \E i \in Registers : new[i] = var[i] /\ Covers(new[i], a) /\ Stronger(new[i].type, type)
  <2>1. PICK i \in Registers : new[i] = var[i] /\ Covers(var[i], a) /\ var[i].type = u
    BY <1>1 DEF Remain
  <2> QED BY <1>3, <2>1
<1> HIDE DEF now, t
<1>4. CASE now = {}
  BY <1>1, <1>2, <1>4 DEF Agreeing, t
<1>5. CASE now = S \cup {type} /\ "UC" \in now
  <2>1. type # "UC" => "UC" \in S /\ Stronger("UC", type)
    BY <1>5 DEF Stronger, MtrrPrecedence, Types
  <2> QED BY <1>2, <1>3, <1>5, <2>1 DEF t
<1>6. CASE now = S \cup {type} /\ "UC" \notin now
  <2>1. Agreeing(now)
    BY <1>1, <1>6, AllFit DEF Fits
  <2>2. t \in now /\ (t = "WB" => "WT" \notin now) /\ type \in now
    BY <1>2, <1>6, <2>1
  <2>3. t # type => t \in S /\ t = "WT" /\ type = "WB"
    BY <1>1, <1>6, <2>2 DEF Fits
  <2>4. Stronger("WT", "WB")
    BY DEF Stronger, MtrrPrecedence
  <2> QED BY <1>3, <2>3, <2>4 DEF t
<1> QED BY <1>1, <1>4, <1>5, <1>6

\* When a request reports success its range has the type: below 1MB as the
\* fixed MTRRs say, above because the library found it mapped already or because
\* what it programmed fills the range, unless a stronger MTRR that was there
\* before still covers the address.
THEOREM RequestAlwaysHonoured == Spec => []RequestHonoured
<1>1. LegalInv => RequestHonoured
  <2> SUFFICES ASSUME LegalInv, NEW r \in Requests, Result(r).status = "SUCCESS", NEW a \in AddressesOf(r)
               PROVE  \/ MtrrGetMemoryAttribute(Result(r).mtrrs, a) = r.type
                      \/ a >= BASE_1MB /\ Overruled(r, Result(r).mtrrs.var, a)
    BY DEF RequestHonoured
  <2> DEFINE new == Result(r).mtrrs
             last == r.base + r.len - 1
  <2>1. r.base \in Nat /\ r.len \in Nat /\ r.type \in Types /\ r.base + r.len <= Space
    BY RequestValues, RequestAssumption
  <2>2. /\ a \in Nat /\ r.base <= a /\ a < r.base + r.len /\ a <= last /\ a \in Addresses /\ a \in r.base..last
        /\ BASE_1MB \in Nat /\ last \in 0..(2 * Space)
    BY SMTT(30), <2>1, TableFacts, PowerFacts DEF AddressesOf, Addresses
  <2>3. CASE a < BASE_1MB
    <3>1. FixedType(new.fixed, a) = r.type
      BY <2>1, <2>2, <2>3, FixedHonoured DEF LegalInv, Result
    <3> QED BY <2>3, <3>1 DEF MtrrGetMemoryAttribute
  <2>4. CASE ~(a < BASE_1MB)
    <3>1. /\ Legal(new.var)
          /\ \E first \in 0..r.base :
               \/ /\ new.var = bsp.var
                  /\ \/ \A b \in r.base..last : b < BASE_1MB
                     \/ \E n : Shaped(n) /\ n.var = bsp.var /\ CheckMemoryAttributeMapped(n, r.type, first, last)
               \/ \A b \in Addresses : Outcome(bsp.var, new.var, b, r.type, first, last)
      BY <2>1, RequestOutcome DEF LegalInv, Result
    <3>2. PICK first \in 0..r.base :
               \/ /\ new.var = bsp.var
                  /\ \/ \A b \in r.base..last : b < BASE_1MB
                     \/ \E n : Shaped(n) /\ n.var = bsp.var /\ CheckMemoryAttributeMapped(n, r.type, first, last)
               \/ \A b \in Addresses : Outcome(bsp.var, new.var, b, r.type, first, last)
      BY <3>1
    <3>3. a \in first..last /\ first \in 0..Space /\ a >= BASE_1MB
      BY <2>1, <2>2, <2>4, PowerFacts
    <3> HIDE DEF new, last
    <3>4. CASE new.var = bsp.var /\ \E n : Shaped(n) /\ n.var = bsp.var /\ CheckMemoryAttributeMapped(n, r.type, first, last)
      <4>1. PICK n : n.var = bsp.var /\ CheckMemoryAttributeMapped(n, r.type, first, last)
        BY <3>4
      <4>2. VariableType(n.var, a) = r.type
        BY <2>2, <3>3, <4>1, MappedRight DEF LegalInv
      <4> QED BY <2>4, <3>4, <4>1, <4>2 DEF MtrrGetMemoryAttribute, new
    <3>5. CASE Outcome(bsp.var, new.var, a, r.type, first, last)
      <4>1. \/ VariableType(new.var, a) = r.type
            \/ \E i \in Registers : /\ new.var[i] = bsp.var[i] /\ Covers(new.var[i], a)
                                    /\ Stronger(new.var[i].type, r.type)
        BY <2>1, <2>2, <3>1, <3>3, <3>5, OutcomeHonours
      <4> QED BY <2>4, <3>3, <4>1 DEF MtrrGetMemoryAttribute, Overruled, new
    <3> QED BY <2>2, <2>4, <3>2, <3>4, <3>5
  <2> QED BY <2>3, <2>4
<1> QED BY <1>1, LegalAlways, PTL

-----------------------------------------------------------------------------
(* A request leaves its neighbours as they are.                            *)

LEMMA OutcomeKeeps ==
  ASSUME NEW var, Legal(var), NEW new, Legal(new), NEW a \in Addresses, NEW type \in Types,
         NEW first, NEW last, Outcome(var, new, a, type, first, last), a \notin first..last,
         OverlapDefined(var, a)
  PROVE  LET before == VariableType(var, a)
             after == VariableType(new, a)
         IN \/ after = before
            \/ Stronger(before, type) /\ \E i \in Registers : Covers(var[i], a) /\ var[i].type = type
            \/ after = "UC" /\ \E i \in Registers : new[i] # var[i] /\ new[i].type = type /\ Covers(new[i], a)
<1> DEFINE old == TypesAt(var, a)
           now == TypesAt(new, a)
           before == VariableType(var, a)
           after == VariableType(new, a)
           Hid == Stronger(before, type) /\ \E i \in Registers : Covers(var[i], a) /\ var[i].type = type
           Excess == after = "UC" /\ \E i \in Registers : new[i] # var[i] /\ new[i].type = type /\ Covers(new[i], a)
<1>1. Agreeing(old)
  BY OverlapPairs
<1>2. /\ "UC" \in old => before = "UC"
      /\ "UC" \notin old /\ old # {} => before \in old /\ (before = "WB" => "WT" \notin old)
  BY <1>1, TypeFacts
<1>3. /\ "UC" \in now => after = "UC"
      /\ "UC" \notin now /\ Agreeing(now) /\ now # {} => after \in now /\ (after = "WB" => "WT" \notin now)
  BY TypeFacts
<1>4. CASE now = old
  BY <1>1, <1>4, SameTypes
<1>5. CASE type \in old /\ \E S : Remain(S, var, new, a) /\ now = S \cup {type}
  <2>1. type \in now /\ now \subseteq old
    BY <1>5 DEF Remain, TypesAt
  <2>2. \E i \in Registers : Covers(var[i], a) /\ var[i].type = type
    BY <1>5 DEF TypesAt
  <2>3. Stronger("WT", "WB") /\ (type # "UC" => Stronger("UC", type))
    BY DEF Stronger, MtrrPrecedence, Types
  <2> HIDE DEF old, now, before, after
  <2>4. CASE "UC" \in old
    <3>1. before = "UC"
      BY <1>2, <2>4
    <3>2. type = "UC" => after = "UC"
      BY <1>3, <2>1
    <3> QED BY <2>2, <2>3, <3>1, <3>2 DEF before, after
  <2>5. CASE "UC" \notin old
    <3>1. Agreeing(now) /\ "UC" \notin now
      BY <1>1, <2>1, <2>5, FewerAgree
    <3>2. /\ before \in old /\ (before = "WB" => "WT" \notin old) /\ type \in old
          /\ after \in now /\ (after = "WB" => "WT" \notin now)
      BY <1>2, <1>3, <2>1, <2>5, <3>1
    <3>3. Fits(before, type) /\ Fits(after, type) /\ "UC" \notin {before, after, type}
      BY <1>1, <2>1, <2>5, <3>2 DEF Agreeing
    <3>4. before # type => before = "WT" /\ type = "WB"
      BY <3>2, <3>3 DEF Fits
    <3>5. before = type => after = type
      BY <2>1, <3>2, <3>3 DEF Fits
    <3> QED BY <2>2, <2>3, <3>4, <3>5 DEF before, after
  <2> QED BY <2>4, <2>5
<1>6. CASE /\ {type, "UC"} \subseteq now
           /\ \E i \in Registers : new[i] # var[i] /\ new[i].type = type /\ Covers(new[i], a)
  BY <1>3, <1>6
<1>7. \/ now = old
      \/ type \in old /\ \E S : Remain(S, var, new, a) /\ now = S \cup {type}
      \/ /\ {type, "UC"} \subseteq now
         /\ \E i \in Registers : new[i] # var[i] /\ new[i].type = type /\ Covers(new[i], a)
  BY DEF Outcome
<1> QED BY <1>4, <1>5, <1>6, <1>7

\* A request changes no address outside its range whose type is defined, but for
\* what an MTRR of its type that it is merged with uncovers, and for the excess of
\* a large block, which becomes uncached.
THEOREM NeighboursAlwaysKept == Spec => []NeighboursKept
<1>1. LegalInv => NeighboursKept
  <2> SUFFICES ASSUME LegalInv, NEW r \in Requests, NEW a \in Addresses \ AddressesOf(r),
                      a < BASE_1MB \/ OverlapDefined(bsp.var, a)
               PROVE  Kept(r, Result(r).mtrrs, a)
    BY DEF NeighboursKept
  <2> DEFINE new == Result(r).mtrrs
             last == r.base + r.len - 1
  <2>1. /\ r.base \in Nat /\ r.len \in Nat /\ r.type \in Types /\ r.base + r.len <= Space
        /\ a \in Nat /\ (a < r.base \/ r.base + r.len <= a) /\ BASE_1MB \in Nat
    BY RequestValues, RequestAssumption, TableFacts, PowerFacts DEF Addresses
  <2>2. CASE a < BASE_1MB
    <3>1. FixedType(new.fixed, a) = FixedType(bsp.fixed, a)
      BY <2>1, <2>2, FixedNeighbours DEF LegalInv, Result
    <3> QED BY <2>2, <3>1 DEF MtrrGetMemoryAttribute, Kept
  <2>3. CASE ~(a < BASE_1MB)
    <3>1. /\ Legal(new.var)
          /\ \E first \in 0..r.base :
               /\ \A b \in Addresses : b >= BASE_1MB /\ first <= b => r.base <= b
               /\ \/ new.var = bsp.var
                  \/ \A b \in Addresses : Outcome(bsp.var, new.var, b, r.type, first, last)
      BY <2>1, RequestOutcome DEF LegalInv, Result
    <3>2. PICK first \in 0..r.base :
               /\ \A b \in Addresses : b >= BASE_1MB /\ first <= b => r.base <= b
               /\ \/ new.var = bsp.var
                  \/ \A b \in Addresses : Outcome(bsp.var, new.var, b, r.type, first, last)
      BY <3>1
    <3>3. a \notin first..last
      BY <2>1, <2>3, <3>2
    <3> HIDE DEF new, last
    <3>4. /\ MtrrGetMemoryAttribute(bsp, a) = VariableType(bsp.var, a)
          /\ MtrrGetMemoryAttribute(new, a) = VariableType(new.var, a)
      BY <2>3 DEF MtrrGetMemoryAttribute
    <3>5. CASE new.var = bsp.var
      BY <3>4, <3>5 DEF Kept, new
    <3>6. CASE Outcome(bsp.var, new.var, a, r.type, first, last)
      <4> DEFINE before == VariableType(bsp.var, a)
                 after == VariableType(new.var, a)
      <4>1. \/ after = before
            \/ Stronger(before, r.type) /\ \E i \in Registers : Covers(bsp.var[i], a) /\ bsp.var[i].type = r.type
            \/ after = "UC" /\ \E i \in Registers : /\ new.var[i] # bsp.var[i] /\ new.var[i].type = r.type
                                                    /\ Covers(new.var[i], a)
        BY <2>1, <2>3, <3>1, <3>3, <3>6, OutcomeKeeps DEF LegalInv
      <4> QED BY <3>4, <4>1 DEF Kept, new
    <3> QED BY <3>2, <3>5, <3>6
  <2> QED BY <2>2, <2>3
<1> QED BY <1>1, LegalAlways, PTL

-----------------------------------------------------------------------------
(* The GCD map that is painted from the MTRRs.                             *)

Maps == [Addresses -> Types \cup {DefaultType}]

LEMMA PaintedRange ==
  ASSUME NEW map \in Maps, NEW base \in Nat, NEW len \in Nat, NEW type \in Types
  PROVE  LET new == SetGcdMemorySpaceAttributes(map, base, len, type)
         IN /\ new \in Maps
            /\ \A a \in Addresses : new[a] = IF base <= a /\ a < base + len THEN type ELSE map[a]
BY DEF SetGcdMemorySpaceAttributes, Maps

\* One loop over the variable MTRRs.
LEMMA PaintTypesFacts ==
  ASSUME NEW var, Legal(var), NEW map \in Maps, NEW types
  PROVE  LET new == PaintTypes(map, var, types)
         IN /\ new \in Maps
            /\ \A a \in Addresses : LET T == TypesAt(var, a) \cap types
                                    IN (new[a] = map[a] /\ T = {}) \/ new[a] \in T
<1> DEFINE N == VariableMtrrCount
           F == GetFirmwareVariableMtrrCount
           Painted(i, m) == IF var[i].on /\ var[i].type \in types
                            THEN SetGcdMemorySpaceAttributes(m, var[i].base, var[i].len, var[i].type) ELSE m
           step == [x \in (1..N) \X Maps |-> Painted(x[1], x[2])]
           P(f) == f = [i \in 0..N |->
                     IF i = 0 THEN map
                     ELSE IF var[i].on /\ var[i].type \in types
                     THEN SetGcdMemorySpaceAttributes(f[i - 1], var[i].base, var[i].len, var[i].type)
                     ELSE f[i - 1]]
           f == CHOOSE g : P(g)
<1>1. N \in Nat /\ F \in 0..N /\ Registers = 1..N
  BY RegisterFacts
<1>2. ASSUME NEW i \in 1..N, NEW m \in Maps
      PROVE  /\ Painted(i, m) \in Maps
             /\ \A a \in Addresses : Painted(i, m)[a] = IF Covers(var[i], a) /\ var[i].type \in types
                                                       THEN var[i].type ELSE m[a]
  <2>1. var[i] \in Contained
    BY <1>1 DEF Legal
  <2> DEFINE r == var[i]
             new == SetGcdMemorySpaceAttributes(m, r.base, r.len, r.type)
  <2>2. r.base \in Nat /\ r.len \in Nat /\ r.type \in Types
    BY <2>1 DEF Contained
  <2>3. \A a \in Addresses : Covers(r, a) <=> r.on /\ r.base <= a /\ a < r.base + r.len
    BY <2>2 DEF Covers, MtrrEnd, Addresses
  <2>4. new \in Maps /\ \A a \in Addresses : new[a] = IF r.base <= a /\ a < r.base + r.len THEN r.type ELSE m[a]
    BY <2>2, PaintedRange
  <2>5. Painted(i, m) = IF r.on /\ r.type \in types THEN new ELSE m
    OBVIOUS
  <2> HIDE DEF Painted, r, new
  <2>6. \A a \in Addresses : Painted(i, m)[a] = IF Covers(r, a) /\ r.type \in types THEN r.type ELSE m[a]
    BY <2>3, <2>4, <2>5 DEF Covers
  <2> QED BY <2>4, <2>5, <2>6 DEF r
<1> HIDE DEF Painted
<1>3. P(f)
  <2>1. step \in [(1..N) \X Maps -> Maps]
    <3> SUFFICES ASSUME NEW x \in (1..N) \X Maps PROVE Painted(x[1], x[2]) \in Maps
      OBVIOUS
    <3>1. x[1] \in 1..N /\ x[2] \in Maps
      OBVIOUS
    <3> QED BY <1>2, <3>1
  <2> HIDE DEF step, N
  <2>2. Steps(N, Maps, map, step)
    BY <1>1, <2>1 DEF Steps
  <2>3. PICK g \in [0..N -> Maps] : Iterates(g, N, map, step)
    BY <2>2, Iteration
  <2>4. g = [i \in 0..N |-> IF i = 0 THEN map ELSE step[<<i, g[i - 1]>>]]
    BY <2>3 DEF Iterates
  <2>5. ASSUME NEW i \in 0..N PROVE g[i] = IF i = 0 THEN map ELSE Painted(i, g[i - 1])
    <3>1. CASE i = 0
      BY <2>4, <3>1
    <3>2. CASE i # 0
      <4>1. i \in 1..N /\ i - 1 \in 0..N
        BY <1>1, <2>5, <3>2
      <4>2. <<i, g[i - 1]>> \in (1..N) \X Maps /\ g[i] = step[<<i, g[i - 1]>>]
        BY <2>3, <2>4, <3>2, <4>1
      <4>3. step[<<i, g[i - 1]>>] = Painted(i, g[i - 1])
        BY <4>2 DEF step
      <4> QED BY <3>2, <4>2, <4>3
    <3> QED BY <3>1, <3>2
  <2>6. P(g)
    BY <2>3, <2>5 DEF Painted
  <2> HIDE DEF P
  <2> QED BY <2>6, Zenon
<1>4. PaintTypes(map, var, types) = f[F]
  BY Zenon DEF PaintTypes
<1> HIDE DEF f
<1>5. f[0] = map
  BY <1>1, <1>3
<1>6. ASSUME NEW i \in 1..N PROVE f[i] = Painted(i, f[i - 1])
  <2>1. i \in 0..N /\ i # 0
    BY <1>1
  <2> QED BY <1>3, <2>1 DEF Painted
<1> HIDE DEF P
<1> DEFINE Seen(n, a) == {var[i].type : i \in {j \in Registers : j <= n /\ Covers(var[j], a)}} \cap types
           Right(m, n) == m \in Maps /\ \A a \in Addresses : (m[a] = map[a] /\ Seen(n, a) = {}) \/ m[a] \in Seen(n, a)
           S == {n \in Nat : n <= N => Right(f[n], n)}
<1>7. 0 \in S
  <2>1. \A a : Seen(0, a) = {}
    BY <1>1
  <2> HIDE DEF Seen
  <2> QED BY <1>5, <2>1
<1>8. ASSUME NEW n \in Nat, n \in S PROVE n + 1 \in S
  <2> SUFFICES ASSUME n + 1 <= N PROVE Right(f[n + 1], n + 1)
    OBVIOUS
  <2> DEFINE r == var[n + 1]
             m == f[n]
             new == f[n + 1]
  <2>1. n + 1 \in Registers /\ n + 1 \in 1..N /\ (n + 1) - 1 = n /\ Right(m, n)
    BY <1>1, <1>8
  <2>2. /\ new \in Maps
        /\ \A a \in Addresses : new[a] = IF Covers(r, a) /\ r.type \in types THEN r.type ELSE m[a]
    <3>1. new = Painted(n + 1, m) /\ m \in Maps
      BY <1>6, <2>1
    <3> QED BY <1>2, <2>1, <3>1
  <2>3. \A a : Seen(n + 1, a) = IF Covers(r, a) /\ r.type \in types THEN Seen(n, a) \cup {r.type} ELSE Seen(n, a)
    <3>1. \A i \in Registers : i <= n + 1 <=> i <= n \/ i = n + 1
      BY <1>1
    <3> QED BY <2>1, <3>1
  <2> HIDE DEF Seen, m, new, r
  <2>4. ASSUME NEW a \in Addresses PROVE (new[a] = map[a] /\ Seen(n + 1, a) = {}) \/ new[a] \in Seen(n + 1, a)
    <3>1. (m[a] = map[a] /\ Seen(n, a) = {}) \/ m[a] \in Seen(n, a)
      BY <2>1
    <3>2. CASE Covers(r, a) /\ r.type \in types
      <4>1. new[a] = r.type /\ Seen(n + 1, a) = Seen(n, a) \cup {r.type}
        BY <2>2, <2>3, <3>2
      <4> QED BY <4>1
    <3>3. CASE ~(Covers(r, a) /\ r.type \in types)
      <4>1. new[a] = m[a] /\ Seen(n + 1, a) = Seen(n, a)
        BY <2>2, <2>3, <3>3
      <4> QED BY <3>1, <4>1
    <3> QED BY <3>2, <3>3
  <2> QED BY <2>2, <2>4 DEF new
<1>9. Right(f[F], F)
  <2>1. Nat \subseteq S
    <3> HIDE DEF S
    <3> QED BY <1>7, <1>8, Induction
  <2> QED BY <1>1, <2>1
<1>10. \A a : Seen(F, a) = TypesAt(var, a) \cap types
  <2>1. \A i \in Registers : \A a : Covers(var[i], a) => i <= F
    BY RegisterFacts DEF Covers
  <2> QED BY <2>1 DEF TypesAt
<1> HIDE DEF Seen, F
<1> QED BY <1>4, <1>9, <1>10 DEF F

\* WB first, then what prevails over it, then UC: where the types agree, the last
\* one is the one that the precedence rules choose.
LEMMA PaintedType ==
  ASSUME NEW var, Legal(var), NEW map \in Maps
  PROVE  LET new == PaintVariable(map, var)
         IN /\ new \in Maps
            /\ \A a \in Addresses : OverlapDefined(var, a) /\ map[a] = DefaultType => new[a] = VariableType(var, a)
<1> DEFINE mid == Types \ {"WB", "UC"}
           m1 == PaintTypes(map, var, {"WB"})
           m2 == PaintTypes(m1, var, mid)
           m3 == PaintTypes(m2, var, {"UC"})
<1>1. m1 \in Maps /\ \A a \in Addresses : LET T == TypesAt(var, a) \cap {"WB"} IN (m1[a] = map[a] /\ T = {}) \/ m1[a] \in T
  BY PaintTypesFacts
<1> HIDE DEF m1
<1>2. m2 \in Maps /\ \A a \in Addresses : LET T == TypesAt(var, a) \cap mid IN (m2[a] = m1[a] /\ T = {}) \/ m2[a] \in T
  BY <1>1, PaintTypesFacts
<1> HIDE DEF m2
<1>3. m3 \in Maps /\ \A a \in Addresses : LET T == TypesAt(var, a) \cap {"UC"} IN (m3[a] = m2[a] /\ T = {}) \/ m3[a] \in T
  BY <1>2, PaintTypesFacts
<1>4. PaintVariable(map, var) = m3
  BY DEF PaintVariable, m1, m2
<1> HIDE DEF m3
<1>5. ASSUME NEW a \in Addresses, OverlapDefined(var, a), map[a] = DefaultType
      PROVE  m3[a] = VariableType(var, a)
  <2> DEFINE T == TypesAt(var, a)
             t == VariableType(var, a)
  <2>1. Agreeing(T) /\ T \subseteq Types
    BY <1>5, OverlapPairs DEF TypesAt, Legal, Contained
  <2>2. /\ "UC" \in T => t = "UC"
        /\ "UC" \notin T => /\ T = {} => t = DefaultType
                            /\ T # {} => t \in T /\ (t = "WB" => "WT" \notin T)
    BY <2>1, TypeFacts
  <2>3. /\ (m1[a] = map[a] /\ "WB" \notin T) \/ (m1[a] = "WB" /\ "WB" \in T)
        /\ (m2[a] = m1[a] /\ T \cap mid = {}) \/ m2[a] \in T \cap mid
        /\ (m3[a] = m2[a] /\ "UC" \notin T) \/ (m3[a] = "UC" /\ "UC" \in T)
    BY <1>1, <1>2, <1>3
  <2> HIDE DEF T, t
  <2>4. CASE "UC" \in T
    BY <2>2, <2>3, <2>4 DEF t
  <2>5. CASE "UC" \notin T /\ T \cap mid # {}
    <3>1. m3[a] \in T /\ m3[a] \notin {"WB", "UC"} /\ t \in T /\ (t = "WB" => "WT" \notin T)
      BY <2>2, <2>3, <2>5
    <3>2. Fits(m3[a], t)
      BY <2>1, <2>5, <3>1 DEF Agreeing
    <3> QED BY <2>5, <3>1, <3>2 DEF Fits, t
  <2>6. CASE "UC" \notin T /\ T \cap mid = {}
    <3>1. T \subseteq {"WB"} /\ m3[a] = m1[a]
      BY <2>1, <2>3, <2>6
    <3> QED BY <1>5, <2>2, <2>3, <2>6, <3>1 DEF t
  <2> QED BY <2>4, <2>5, <2>6
<1> QED BY <1>3, <1>4, <1>5

\* The address at which the i-th range of the m-th fixed MTRR starts.
Start(m, i) == FixedTable[m].base + FixedTable[m].len * i

LEMMA FixedRange ==
  ASSUME NEW m \in Fixed, NEW i \in 0..(SubRanges - 1)
  PROVE  /\ Start(m, i) \in Nat /\ FixedTable[m].len \in Nat \ {0}
         /\ Start(m, i) + FixedTable[m].len =
              IF i + 1 < SubRanges THEN Start(m, i + 1)
              ELSE IF m = Len(FixedTable) THEN BASE_1MB ELSE Start(m + 1, 0)
         /\ \A a \in Nat : Start(m, i) <= a /\ a < Start(m, i) + FixedTable[m].len =>
              a < BASE_1MB /\ \A f : FixedType(f, a) = f[m][i]
<1> DEFINE L == FixedTable[m].len
           b == FixedTable[m].base
<1>1. /\ L \in Nat \ {0} /\ b \in Nat /\ SubRanges \in Nat /\ FixedEnd(m) = b + SubRanges * L /\ FixedEnd(m) \in Nat
      /\ i \in Nat /\ i + 1 <= SubRanges /\ BASE_1MB \in Nat /\ FixedEnd(m) <= BASE_1MB
  BY TableFacts, TableEnds
<1>2. L * i \in Nat /\ L * (i + 1) = L * i + L
  <2> HIDE DEF L
  <2> QED BY <1>1
<1>3. i + 1 < SubRanges \/ i + 1 = SubRanges
  BY <1>1
<1>4. L * (i + 1) <= SubRanges * L /\ (i + 1 = SubRanges => L * (i + 1) = SubRanges * L)
  <2> HIDE DEF L
  <2> QED BY <1>1
<1>5. m # Len(FixedTable) => Start(m + 1, 0) = FixedEnd(m)
  <2> SUFFICES ASSUME m # Len(FixedTable) PROVE Start(m + 1, 0) = FixedEnd(m)
    OBVIOUS
  <2>1. m + 1 \in Fixed \ {1} /\ (m + 1) - 1 = m
    BY TableFacts
  <2>2. FixedTable[m + 1].base = FixedEnd((m + 1) - 1)
    BY <2>1, MtrrAssumption
  <2>3. FixedTable[m + 1].len \in Nat
    BY <2>1, TableFacts
  <2>4. FixedTable[m + 1].len * 0 = 0
    BY <2>3
  <2> QED BY <1>1, <2>1, <2>2, <2>4 DEF Start
<1>6. m = Len(FixedTable) => FixedEnd(m) = BASE_1MB
  BY DEF BASE_1MB
<1>7. ASSUME NEW a \in Nat, Start(m, i) <= a, a < Start(m, i) + L
      PROVE  a < BASE_1MB /\ \A f : FixedType(f, a) = f[m][i]
  <2>1. L * i <= a - b /\ a - b < L * i + L /\ b <= a /\ a - b \in Nat
    <3> HIDE DEF L, b
    <3>1. Start(m, i) = b + L * i
      BY DEF Start, L, b
    <3> QED BY <1>1, <1>2, <1>7, <3>1
  <2>2. a < FixedEnd(m)
    <3> DEFINE x == L * i
               y == SubRanges * L
    <3>1. x + L <= y /\ FixedEnd(m) = b + y /\ x \in Nat /\ y \in Int
      BY <1>1, <1>2, <1>4
    <3>2. a - b < x + L
      BY <2>1
    <3> HIDE DEF L, b, x, y
    <3> QED BY <1>1, <2>1, <3>1, <3>2
  <2>3. (a - b) \div L = i
    <3> DEFINE q == (a - b) \div L
    <3>1. q \in Nat /\ L * q <= a - b /\ a - b < L * q + L
      BY <1>1, <2>1, Quotient
    <3> HIDE DEF q, L, b
    <3>2. ~(q < i)
      <4> SUFFICES ASSUME q + 1 <= i PROVE FALSE
        BY <1>1, <3>1
      <4>1. L * (q + 1) <= L * i /\ L * (q + 1) = L * q + L
        BY <1>1, <3>1
      <4> QED BY <1>1, <1>2, <2>1, <3>1, <4>1
    <3>3. ~(i < q)
      <4> SUFFICES ASSUME i + 1 <= q PROVE FALSE
        BY <1>1, <3>1
      <4>1. L * (i + 1) <= L * q
        BY <1>1, <3>1
      <4> QED BY <1>1, <1>2, <2>1, <3>1, <4>1
    <3> QED BY <1>1, <3>1, <3>2, <3>3 DEF q
  <2>4. (CHOOSE n \in Fixed : FixedTable[n].base <= a /\ a < FixedEnd(n)) = m
    <3> DEFINE k == CHOOSE n \in Fixed : FixedTable[n].base <= a /\ a < FixedEnd(n)
    <3>1. k \in Fixed /\ FixedTable[k].base <= a /\ a < FixedEnd(k)
      BY <2>1, <2>2
    <3> HIDE DEF k
    <3> QED BY <1>7, <2>1, <2>2, <3>1, OneMtrr DEF k
  <2>5. a < BASE_1MB
    BY <1>1, <2>2
  <2> QED BY <2>3, <2>4, <2>5 DEF FixedType
<1>8. Start(m, i) = b + L * i /\ Start(m, i + 1) = b + L * (i + 1)
  BY DEF Start
<1> DEFINE x == L * i
           y == L * (i + 1)
           z == SubRanges * L
<1>9. x \in Nat /\ y = x + L /\ Start(m, i) = b + x /\ Start(m, i + 1) = b + y /\ FixedEnd(m) = b + z
      /\ (i + 1 = SubRanges => y = z)
  BY <1>1, <1>2, <1>4, <1>8
<1> HIDE DEF L, b, x, y, z
<1>10. Start(m, i) \in Nat /\ Start(m, i) + L = IF i + 1 < SubRanges THEN Start(m, i + 1)
                                               ELSE IF m = Len(FixedTable) THEN BASE_1MB ELSE Start(m + 1, 0)
  BY <1>1, <1>3, <1>5, <1>6, <1>9
<1> QED BY <1>1, <1>7, <1>10 DEF L

\* The ranges are taken in the order of their addresses.
Ordinal(k) == Start(k \div SubRanges + 1, k % SubRanges)
Reached(k) == IF k = Len(FixedTable) * SubRanges THEN BASE_1MB ELSE Ordinal(k)

LEMMA RangesFollow ==
  /\ SubRanges > 0 /\ SubRanges \in Nat /\ Len(FixedTable) * SubRanges \in Nat \ {0} /\ Reached(0) = 0
  /\ \A k \in Nat : k < Len(FixedTable) * SubRanges =>
       LET m == k \div SubRanges + 1
           i == k % SubRanges
       IN /\ m \in Fixed /\ i \in 0..(SubRanges - 1)
          /\ Reached(k) = Start(m, i) /\ Reached(k + 1) = Start(m, i) + FixedTable[m].len
<1> DEFINE R == SubRanges
           n == Len(FixedTable)
<1>1. R \in Nat /\ n \in Nat /\ n > 0 /\ Fixed = 1..n
  BY TableFacts
<1>2. R > 0
  <2> SUFFICES ASSUME R = 0 PROVE FALSE
    BY <1>1
  <2>1. BASE_1MB > 0 /\ BASE_1MB \in Nat
    <3>1. BASE_1MB \in Powers
      BY MtrrAssumption DEF Powers
    <3> QED BY <3>1, PowerFacts
  <2>2. PICK m \in Fixed : FixedTable[m].base <= 0 /\ 0 < FixedEnd(m)
    BY <2>1, TableCovers
  <2>3. /\ FixedEnd(m) = FixedTable[m].base + R * FixedTable[m].len
        /\ FixedTable[m].base \in Nat /\ FixedTable[m].len \in Nat
    BY TableFacts
  <2>4. R * FixedTable[m].len = 0
    BY <2>3
  <2> HIDE DEF R
  <2> QED BY <2>2, <2>3, <2>4
<1>3. n * R \in Nat \ {0}
  <2> HIDE DEF n, R
  <2>1. n * R >= R
    BY <1>1, <1>2
  <2> QED BY <1>1, <1>2, <2>1
<1>4. R \in Nat \ {0}
  BY <1>1, <1>2
<1>5. ASSUME NEW k \in Nat
      PROVE  LET q == k \div R
                 i == k % R
             IN q \in Nat /\ i \in 0..(R - 1) /\ k = R * q + i
  <2> HIDE DEF R
  <2> DEFINE q == k \div R
             i == k % R
  <2>1. q \in Nat /\ R * q <= k /\ k < R * q + R /\ i = k - R * q
    BY <1>4, Quotient
  <2> HIDE DEF q, i
  <2>2. R * q \in Nat
    BY <1>1, <2>1
  <2>3. i \in 0..(R - 1) /\ k = R * q + i
    BY <1>1, <2>1, <2>2
  <2> QED BY <2>1, <2>3 DEF q, i
<1>6. ASSUME NEW k \in Nat, NEW q \in Nat, NEW i \in 0..(R - 1), k = R * q + i
      PROVE  k \div R = q /\ k % R = i
  <2> HIDE DEF R
  <2> DEFINE p == k \div R
  <2>1. p \in Nat /\ R * p <= k /\ k < R * p + R /\ k % R = k - R * p
    BY <1>4, Quotient
  <2> HIDE DEF p
  <2>2. R * q \in Nat /\ R * p \in Nat
    BY <1>1, <2>1
  <2>3. ~(p < q)
    <3> SUFFICES ASSUME p + 1 <= q PROVE FALSE
      BY <2>1
    <3>1. R * p + R <= R * q
      BY <1>1, <2>1
    <3> QED BY <1>1, <1>6, <2>1, <2>2, <3>1
  <2>4. ~(q < p)
    <3> SUFFICES ASSUME q + 1 <= p PROVE FALSE
      BY <2>1
    <3>1. R * q + R <= R * p
      BY <1>1, <2>1
    <3> QED BY <1>1, <1>6, <2>1, <2>2, <3>1
  <2>5. p = q
    BY <2>1, <2>3, <2>4
  <2> QED BY <1>1, <1>6, <2>1, <2>2, <2>5 DEF p
<1>7. ASSUME NEW k \in Nat, k < n * R
      PROVE  LET m == k \div R + 1
                 i == k % R
             IN /\ m \in Fixed /\ i \in 0..(R - 1)
                /\ Reached(k) = Start(m, i) /\ Reached(k + 1) = Start(m, i) + FixedTable[m].len
  <2> DEFINE q == k \div R
             i == k % R
             m == q + 1
             next == Start(m, i) + FixedTable[m].len
  <2>1. q \in Nat /\ i \in 0..(R - 1) /\ k = R * q + i
    BY <1>5
  <2>2. m \in Fixed
    <3> HIDE DEF q, i, n, R
    <3>1. ~(n <= q)
      <4> SUFFICES ASSUME n <= q PROVE FALSE
        OBVIOUS
      <4>1. n * R <= R * q /\ R * q \in Nat
        BY <1>1, <2>1
      <4> QED BY <1>1, <1>3, <1>7, <2>1, <4>1
    <3> QED BY <1>1, <2>1, <3>1
  <2>3. Reached(k) = Start(m, i)
    BY <1>3, <1>7 DEF Reached, Ordinal
  <2>4. next = IF i + 1 < R THEN Start(m, i + 1) ELSE IF m = n THEN BASE_1MB ELSE Start(m + 1, 0)
    BY <2>1, <2>2, FixedRange
  <2> HIDE DEF q, i, next
  <2>5. ASSUME i + 1 < R PROVE Reached(k + 1) = next
    <3>1. (k + 1) \div R = q /\ (k + 1) % R = i + 1
      <4> HIDE DEF R
      <4>1. k + 1 \in Nat /\ i + 1 \in 0..(R - 1) /\ k + 1 = R * q + (i + 1)
        <5>1. R * q \in Nat
          BY <1>1, <2>1
        <5> QED BY <1>1, <2>1, <2>5, <5>1
      <4> QED BY <1>6, <2>1, <4>1
    <3>2. k + 1 # n * R
      <4> HIDE DEF n, R
      <4> SUFFICES ASSUME k + 1 = n * R PROVE FALSE
        OBVIOUS
      <4>1. k + 1 = R * n + 0 /\ 0 \in 0..(R - 1) /\ k + 1 \in Nat
        BY <1>1, <1>2
      <4>2. (k + 1) % R = 0
        BY <1>1, <1>6, <4>1
      <4> QED BY <2>1, <3>1, <4>2
    <3> QED BY <2>4, <2>5, <3>1, <3>2 DEF Reached, Ordinal
  <2>6. ASSUME i + 1 = R PROVE Reached(k + 1) = next
    <3>1. k + 1 = R * m + 0 /\ m \in Nat /\ 0 \in 0..(R - 1)
      <4> HIDE DEF R
      <4>1. R * (q + 1) = R * q + R /\ R * q \in Nat
        BY <1>1, <2>1
      <4> QED BY <1>1, <1>2, <2>1, <2>6, <4>1
    <3>2. (k + 1) \div R = m /\ (k + 1) % R = 0
      <4> HIDE DEF R, m
      <4> QED BY <1>6, <3>1
    <3>3. k + 1 = n * R <=> m = n
      <4>1. m = n => k + 1 = n * R
        <5> HIDE DEF R, m, n
        <5> QED BY <1>1, <3>1
      <4>2. k + 1 = n * R => m = n
        <5> SUFFICES ASSUME k + 1 = n * R PROVE m = n
          OBVIOUS
        <5> HIDE DEF R, m, n
        <5>1. k + 1 = R * n + 0 /\ k + 1 \in Nat
          BY <1>1
        <5> QED BY <1>1, <1>6, <3>1, <3>2, <5>1
      <4> QED BY <4>1, <4>2
    <3>4. ~(i + 1 < R)
      <4> HIDE DEF R
      <4> QED BY <1>1, <2>6
    <3> QED BY <2>4, <3>2, <3>3, <3>4 DEF Reached, Ordinal
  <2>7. i + 1 < R \/ i + 1 = R
    <3> HIDE DEF R
    <3> QED BY <1>1, <2>1
  <2> QED BY <2>1, <2>2, <2>3, <2>5, <2>6, <2>7 DEF q, i, next
<1>8. Reached(0) = 0
  <2>1. 0 \div R = 0 /\ 0 % R = 0
    <3> HIDE DEF R
    <3>1. 0 = R * 0 + 0 /\ 0 \in 0..(R - 1)
      BY <1>1, <1>2
    <3> QED BY <1>6, <3>1
  <2>2. Start(1, 0) = 0
    <3>1. FixedTable[1].base = 0 /\ FixedTable[1].len \in Nat
      BY <1>1, MtrrAssumption, TableFacts
    <3>2. FixedTable[1].len * 0 = 0
      BY <3>1
    <3> QED BY <3>1, <3>2 DEF Start
  <2> QED BY <1>3, <2>1, <2>2 DEF Reached, Ordinal
<1> QED BY <1>1, <1>2, <1>3, <1>7, <1>8

\* The state of the loop over the fixed MTRRs that has reached p: the map is
\* painted up to the run of one type that ends at p.
Runs == {s \in [map : Maps, base : Nat, len : Nat, type : {"none"} \cup Types] : s.len > 0 => s.type \in Types}
RunInv(s, p, map, fixed) ==
  /\ s \in Runs /\ s.base + s.len = p
  /\ \A a \in Addresses : /\ a < s.base => s.map[a] = FixedType(fixed, a)
                          /\ s.base <= a => s.map[a] = map[a]
                          /\ s.base <= a /\ a < p => FixedType(fixed, a) = s.type

LEMMA ExtendedRuns ==
  ASSUME NEW s \in Runs, NEW m \in Fixed, NEW i \in 0..(SubRanges - 1), NEW type \in Types
  PROVE  LET t == Extended(s, m, i, type)
             len == FixedTable[m].len
         IN /\ t \in Runs
            /\ \/ s.len = 0 /\ t.map = s.map /\ t.base = s.base /\ t.len = len /\ t.type = type
               \/ s.len > 0 /\ t.map = s.map /\ t.base = s.base /\ t.len = s.len + len /\ t.type = type /\ s.type = type
               \/ /\ s.len > 0 /\ t.base = Start(m, i) /\ t.len = len /\ t.type = type
                  /\ t.map = SetGcdMemorySpaceAttributes(s.map, s.base, s.len, s.type)
<1> DEFINE t == Extended(s, m, i, type)
           len == FixedTable[m].len
           new == SetGcdMemorySpaceAttributes(s.map, s.base, s.len, s.type)
           b == FixedTable[m].base + len * i
<1>1. len \in Nat /\ len > 0 /\ Start(m, i) \in Nat /\ b = Start(m, i)
  BY FixedRange DEF Start
<1>2. /\ s.map \in Maps /\ s.base \in Nat /\ s.len \in Nat /\ s.type \in {"none"} \cup Types
      /\ s.len > 0 => s.type \in Types
  BY DEF Runs
<1>3. s.len > 0 => new \in Maps
  BY <1>2, PaintedRange
<1>4. t = IF s.len = 0 THEN [s EXCEPT !.type = type, !.len = len]
          ELSE IF type = s.type THEN [s EXCEPT !.len = s.len + len]
          ELSE [map |-> new, base |-> b, len |-> len, type |-> type]
  BY DEF Extended
<1> HIDE DEF t, len, new, b
<1>5. CASE s.len = 0
  <2>1. t = [s EXCEPT !.type = type, !.len = len]
    BY <1>4, <1>5
  <2>2. t \in Runs
    BY <1>1, <2>1 DEF Runs
  <2>3. t.map = s.map /\ t.base = s.base /\ t.len = len /\ t.type = type
    BY <2>1 DEF Runs
  <2> QED BY <1>5, <2>2, <2>3 DEF t, len
<1>6. CASE s.len # 0 /\ type = s.type
  <2>1. t = [s EXCEPT !.len = s.len + len] /\ s.len + len \in Nat /\ s.len > 0
    BY <1>1, <1>2, <1>4, <1>6
  <2>2. t \in Runs
    BY <1>2, <2>1 DEF Runs
  <2>3. t.map = s.map /\ t.base = s.base /\ t.len = s.len + len /\ t.type = type
    BY <1>6, <2>1 DEF Runs
  <2> QED BY <1>6, <2>1, <2>2, <2>3 DEF t, len
<1>7. CASE s.len # 0 /\ type # s.type
  <2>1. t = [map |-> new, base |-> b, len |-> len, type |-> type] /\ s.len > 0
    BY <1>2, <1>4, <1>7
  <2>2. t \in Runs
    BY <1>1, <1>3, <2>1 DEF Runs
  <2>3. t.map = new /\ t.base = Start(m, i) /\ t.len = len /\ t.type = type
    BY <1>1, <2>1
  <2> QED BY <2>1, <2>2, <2>3 DEF t, len, new
<1> QED BY <1>5, <1>6, <1>7

LEMMA ExtendedStep ==
  ASSUME NEW fixed \in Contents, NEW map, NEW m \in Fixed, NEW i \in 0..(SubRanges - 1), NEW s,
         RunInv(s, Start(m, i), map, fixed)
  PROVE  RunInv(Extended(s, m, i, fixed[m][i]), Start(m, i) + FixedTable[m].len, map, fixed)
<1> DEFINE type == fixed[m][i]
           p == Start(m, i)
           len == FixedTable[m].len
           t == Extended(s, m, i, type)
           new == SetGcdMemorySpaceAttributes(s.map, s.base, s.len, s.type)
<1>1. type \in Types
  BY DEF Contents
<1>2. s \in Runs /\ s.base + s.len = p /\ p \in Nat /\ len \in Nat \ {0}
  BY FixedRange DEF RunInv
<1>3. /\ s.map \in Maps /\ s.base \in Nat /\ s.len \in Nat
      /\ s.len > 0 => s.type \in Types
  BY <1>2 DEF Runs
<1>4. /\ t \in Runs
      /\ \/ s.len = 0 /\ t.map = s.map /\ t.base = s.base /\ t.len = len /\ t.type = type
         \/ s.len > 0 /\ t.map = s.map /\ t.base = s.base /\ t.len = s.len + len /\ t.type = type /\ s.type = type
         \/ s.len > 0 /\ t.base = p /\ t.len = len /\ t.type = type /\ t.map = new
  BY <1>1, <1>2, ExtendedRuns
<1>5. ASSUME NEW a \in Addresses
      PROVE  /\ a \in Nat
             /\ p <= a /\ a < p + len => FixedType(fixed, a) = type
             /\ a < s.base => s.map[a] = FixedType(fixed, a)
             /\ s.base <= a => s.map[a] = map[a]
             /\ s.base <= a /\ a < p => FixedType(fixed, a) = s.type
             /\ s.len > 0 => new[a] = IF s.base <= a /\ a < s.base + s.len THEN s.type ELSE s.map[a]
  <2>1. a \in Nat
    BY DEF Addresses
  <2>2. p <= a /\ a < p + len => FixedType(fixed, a) = type
    BY <2>1, FixedRange
  <2>3. s.len > 0 => new[a] = IF s.base <= a /\ a < s.base + s.len THEN s.type ELSE s.map[a]
    BY DEF SetGcdMemorySpaceAttributes
  <2> HIDE DEF new, type, p, len
  <2>4. /\ a < s.base => s.map[a] = FixedType(fixed, a)
        /\ s.base <= a => s.map[a] = map[a]
        /\ s.base <= a /\ a < p => FixedType(fixed, a) = s.type
    BY DEF RunInv, p
  <2> QED BY <2>1, <2>2, <2>3, <2>4
<1> HIDE DEF t, new, p, len, type
<1>6. t.base + t.len = p + len
  BY <1>2, <1>3, <1>4
<1>7. ASSUME NEW a \in Addresses
      PROVE  /\ a < t.base => t.map[a] = FixedType(fixed, a)
             /\ t.base <= a => t.map[a] = map[a]
             /\ t.base <= a /\ a < p + len => FixedType(fixed, a) = t.type
  <2>1. CASE t.map = s.map /\ t.base = s.base /\ t.type = type /\ (s.len = 0 \/ s.type = type)
    <3>1. s.base <= a /\ a < p => FixedType(fixed, a) = type
      BY <1>2, <1>3, <1>5, <2>1
    <3>2. a < p + len => a < p \/ (p <= a /\ a < p + len)
      BY <1>2, <1>5
    <3> QED BY <1>5, <2>1, <3>1, <3>2
  <2>2. CASE s.len > 0 /\ t.base = p /\ t.len = len /\ t.type = type /\ t.map = new
    <3>1. a < s.base \/ s.base <= a
      BY <1>3, <1>5
    <3>2. (a < s.base => a < p /\ ~(s.base <= a)) /\ (p <= a => s.base <= a /\ ~(a < s.base + s.len))
      BY <1>2, <1>3, <1>5
    <3>3. a < p <=> a < s.base + s.len
      BY <1>2
    <3> QED BY <1>5, <2>2, <3>1, <3>2, <3>3
  <2> QED BY <1>4, <2>1, <2>2
<1>8. RunInv(t, p + len, map, fixed)
  BY <1>4, <1>6, <1>7 DEF RunInv
<1> QED BY <1>8 DEF t, p, len, type

\* Below 1MB the map has the types of the fixed MTRRs, above it is unchanged.
LEMMA PaintFixedFacts ==
  ASSUME NEW fixed \in Contents, NEW map \in Maps
  PROVE  \A a \in Addresses :
           PaintFixed(map, fixed)[a] = IF a < BASE_1MB THEN FixedType(fixed, a) ELSE map[a]
<1> DEFINE N == Len(FixedTable) * SubRanges
           first == [map |-> map, base |-> 0, len |-> 0, type |-> "none"]
           M(k) == (k - 1) \div SubRanges + 1
           I(k) == (k - 1) % SubRanges
           next(s, k) == Extended(s, M(k), I(k), fixed[M(k)][I(k)])
           step == [x \in (1..N) \X Runs |-> next(x[2], x[1])]
           P(f) == f = [k \in 0..N |->
                     IF k = 0 THEN [map |-> map, base |-> 0, len |-> 0, type |-> "none"]
                     ELSE LET m == (k - 1) \div SubRanges + 1  i == (k - 1) % SubRanges
                          IN Extended(f[k - 1], m, i, fixed[m][i])]
           f == CHOOSE g : P(g)
           run == f[N]
<1>1. N \in Nat \ {0}
  BY RangesFollow
<1>2. first \in Runs
  BY DEF Runs
<1>3. ASSUME NEW k \in 1..N
      PROVE  /\ M(k) \in Fixed /\ I(k) \in 0..(SubRanges - 1) /\ fixed[M(k)][I(k)] \in Types
             /\ Reached(k - 1) = Start(M(k), I(k)) /\ Reached(k) = Start(M(k), I(k)) + FixedTable[M(k)].len
  <2>1. k - 1 \in Nat /\ k - 1 < N /\ (k - 1) + 1 = k
    BY <1>1
  <2>2. /\ M(k) \in Fixed /\ I(k) \in 0..(SubRanges - 1)
        /\ Reached(k - 1) = Start(M(k), I(k)) /\ Reached((k - 1) + 1) = Start(M(k), I(k)) + FixedTable[M(k)].len
    BY <2>1, RangesFollow
  <2>3. fixed[M(k)][I(k)] \in Types
    BY <2>2 DEF Contents
  <2> HIDE DEF M, I
  <2> QED BY <2>1, <2>2, <2>3
<1>4. P(f)
  <2>1. step \in [(1..N) \X Runs -> Runs]
    <3> SUFFICES ASSUME NEW x \in (1..N) \X Runs PROVE next(x[2], x[1]) \in Runs
      OBVIOUS
    <3>1. x[1] \in 1..N /\ x[2] \in Runs
      OBVIOUS
    <3> HIDE DEF M, I, N
    <3> QED BY <1>3, <3>1, ExtendedRuns
  <2> HIDE DEF step, first, N
  <2>2. Steps(N, Runs, first, step)
    BY <1>1, <1>2, <2>1 DEF Steps
  <2>3. PICK g \in [0..N -> Runs] : Iterates(g, N, first, step)
    BY <2>2, Iteration
  <2>4. g = [k \in 0..N |-> IF k = 0 THEN first ELSE step[<<k, g[k - 1]>>]]
    BY <2>3 DEF Iterates
  <2>5. ASSUME NEW k \in 0..N PROVE g[k] = IF k = 0 THEN first ELSE next(g[k - 1], k)
    <3>1. CASE k = 0
      BY <2>4, <3>1
    <3>2. CASE k # 0
      <4>1. k \in 1..N /\ k - 1 \in 0..N
        BY <1>1, <2>5, <3>2
      <4>2. <<k, g[k - 1]>> \in (1..N) \X Runs /\ g[k] = step[<<k, g[k - 1]>>]
        BY <2>3, <2>4, <3>2, <4>1
      <4>3. step[<<k, g[k - 1]>>] = next(g[k - 1], k)
        BY <4>2 DEF step
      <4> QED BY <3>2, <4>2, <4>3
    <3> QED BY <3>1, <3>2
  <2>6. P(g)
    BY <2>3, <2>5 DEF first
  <2> HIDE DEF P
  <2> QED BY <2>6, Zenon
<1>5. PaintFixed(map, fixed) = SetGcdMemorySpaceAttributes(run.map, run.base, run.len, run.type)
  BY Zenon DEF PaintFixed
<1> HIDE DEF f
<1>6. f[0] = first
  BY <1>1, <1>4
<1>7. ASSUME NEW k \in 1..N PROVE f[k] = next(f[k - 1], k)
  <2>1. k \in 0..N /\ k # 0
    BY <1>1
  <2> QED BY <1>4, <2>1
<1> HIDE DEF P, M, I
<1> DEFINE S == {k \in Nat : k <= N => RunInv(f[k], Reached(k), map, fixed)}
<1>8. 0 \in S
  <2>1. Reached(0) = 0
    BY RangesFollow
  <2>2. RunInv(first, 0, map, fixed)
    BY <1>2 DEF RunInv, Addresses
  <2> QED BY <1>6, <2>1, <2>2
<1>9. ASSUME NEW k \in Nat, k \in S PROVE k + 1 \in S
  <2> SUFFICES ASSUME k + 1 <= N PROVE RunInv(f[k + 1], Reached(k + 1), map, fixed)
    OBVIOUS
  <2>1. k + 1 \in 1..N /\ (k + 1) - 1 = k /\ k <= N
    BY <1>1
  <2>2. RunInv(f[k], Reached(k), map, fixed) /\ f[k + 1] = next(f[k], k + 1)
    BY <1>7, <1>9, <2>1
  <2> QED BY <1>3, <2>1, <2>2, ExtendedStep
<1>10. RunInv(run, BASE_1MB, map, fixed)
  <2>1. Nat \subseteq S
    <3> HIDE DEF S
    <3> QED BY <1>8, <1>9, Induction
  <2>2. RunInv(run, Reached(N), map, fixed)
    BY <1>1, <2>1
  <2> QED BY <2>2 DEF Reached
<1> HIDE DEF run, N
<1>11. run.map \in Maps /\ run.base \in Nat /\ run.len \in Nat /\ run.base + run.len = BASE_1MB
       /\ (run.len > 0 => run.type \in Types)
  BY <1>10 DEF RunInv, Runs
<1>12. ASSUME NEW a \in Addresses
       PROVE  PaintFixed(map, fixed)[a] = IF a < BASE_1MB THEN FixedType(fixed, a) ELSE map[a]
  <2>1. PaintFixed(map, fixed)[a] = IF run.base <= a /\ a < BASE_1MB THEN run.type ELSE run.map[a]
    BY <1>5, <1>11 DEF SetGcdMemorySpaceAttributes
  <2>2. a \in Nat /\ BASE_1MB \in Nat /\ run.base <= BASE_1MB
    BY <1>11, TableFacts DEF Addresses
  <2>3. /\ a < run.base => run.map[a] = FixedType(fixed, a)
        /\ run.base <= a => run.map[a] = map[a]
        /\ run.base <= a /\ a < BASE_1MB => FixedType(fixed, a) = run.type
    BY <1>10 DEF RunInv
  <2>4. a < run.base \/ run.base <= a
    BY <1>11, <2>2
  <2>5. (a < run.base => a < BASE_1MB /\ ~(run.base <= a)) /\ (~(a < BASE_1MB) => run.base <= a)
    BY <1>11, <2>2
  <2> QED BY <2>1, <2>3, <2>4, <2>5
<1> QED BY <1>12

\* The map that InitializeCpu paints from the MTRRs has the types that the
\* precedence rules give, whatever has been requested before, for any contents of
\* the fixed MTRRs and any legal variable ones.
THEOREM GcdAlwaysAgrees == Spec => GcdAgrees
<1>1. LegalInv /\ [Next]_vars =>
        [phase = "pei" /\ phase' = "dxe" =>
           \A a \in Addresses \ bared : gcd'[a] = MtrrGetMemoryAttribute(bsp, a)]_vars
  <2> SUFFICES ASSUME LegalInv, Next, phase = "pei", phase' = "dxe", NEW a \in Addresses \ bared
               PROVE  gcd'[a] = MtrrGetMemoryAttribute(bsp, a)
    OBVIOUS
  <2> DEFINE blank == [b \in Addresses |-> DefaultType]
             map == PaintVariable(blank, bsp.var)
  <2>1. gcd' = PaintFixed(map, bsp.fixed)
    <3>1. phase' # phase
      OBVIOUS
    <3>2. InitializeCpu
      BY <3>1 DEF Next, PeiSetMemoryAttribute, SetMemoryAttributes, EarlyMpInit, EnableDisableAP
    <3> QED BY <3>2 DEF InitializeCpu, RefreshGcdMemoryAttributes
  <2>2. blank \in Maps /\ blank[a] = DefaultType
    BY DEF Maps
  <2>3. bsp.fixed \in Contents /\ Legal(bsp.var) /\ OverlapDefined(bsp.var, a)
    BY DEF LegalInv, Shaped
  <2> HIDE DEF blank
  <2>4. map \in Maps /\ map[a] = VariableType(bsp.var, a)
    BY <2>2, <2>3, PaintedType
  <2> HIDE DEF map
  <2>5. gcd'[a] = IF a < BASE_1MB THEN FixedType(bsp.fixed, a) ELSE map[a]
    BY <2>1, <2>3, <2>4, PaintFixedFacts
  <2> QED BY <2>4, <2>5 DEF MtrrGetMemoryAttribute
<1> QED BY <1>1, LegalAlways, PTL DEF Spec, GcdAgrees
=============================================================================
