--------------------------- MODULE PdbPageProofs ---------------------------
(***************************************************************************)
(* Theorems about what export.pdb is made of, for any page size and row    *)
(* index: numbers and bits, pages and their row groups, chains of pages,   *)
(* rows and tables of names.                                               *)
(*                                                                         *)
(* Sizes, offsets, chains and tables are defined by recursion over         *)
(* sequences.  The provers have no induction with a formula as a           *)
(* parameter; what they have is that every set of numbers has a least      *)
(* element (LeastElement), and induction over the members of a set         *)
(* (Induction) follows from it.                                            *)
(***************************************************************************)
EXTENDS PdbBuilder, SequenceTheorems, FiniteSetTheorems, WellFoundedInduction, TLAPS

(* Numbers.                                                                *)

\* Every set of numbers has a least element.
LEMMA LeastElement ==
  ASSUME NEW T, T \subseteq Nat, T # {}
  PROVE  \E n \in T : \A m \in T : n <= m
  <1> DEFINE R == OpToRel(<, Nat)
  <1>1. PICK n \in T : \A m \in T : ~ (<<m, n>> \in R)
    <2>1. IsWellFoundedOn(R, Nat)
      BY NatLessThanWellFounded
    <2> HIDE DEF R
    <2> QED
      BY <2>1, WFMin
  <1>2. ASSUME NEW m \in T PROVE n <= m
    <2>1. m \in Nat /\ n \in Nat
      OBVIOUS
    <2>2. ~ (m < n)
      BY <1>1, <2>1 DEF OpToRel
    <2> QED
      BY <2>1, <2>2
  <1> QED
    BY <1>2

\* Induction over the members of a set.
LEMMA Induction ==
  ASSUME NEW T, 0 \in T, \A n \in Nat : n \in T => n + 1 \in T
  PROVE  \A n \in Nat : n \in T
  <1> DEFINE F == {n \in Nat : n \notin T}
  <1> SUFFICES ASSUME F # {} PROVE FALSE
    OBVIOUS
  <1>1. PICK n \in F : \A m \in F : n <= m
    BY LeastElement
  <1>2. n \in Nat /\ n # 0 /\ n \notin T
    OBVIOUS
  <1>3. n - 1 \in Nat /\ ~ (n <= n - 1)
    BY <1>2
  <1>4. n - 1 \notin F
    BY <1>1, <1>3
  <1>5. n - 1 \in T
    BY <1>3, <1>4
  <1>6. n - 1 + 1 = n
    BY <1>2
  <1> QED
    BY <1>2, <1>3, <1>5, <1>6

\* h is b at 0, and what step k makes of the value before it at k.
Unrolls(h, n, b, step) == h[0] = b /\ \A k \in 1..n : h[k] = step[k][h[k - 1]]

\* There is a function for any start and steps.
LEMMA Recursion ==
  ASSUME NEW n \in Nat, NEW V, NEW b \in V, NEW step \in [1..n -> [V -> V]]
  PROVE  \E h \in [0..n -> V] : Unrolls(h, n, b, step)
  <1> DEFINE Up(m, h) == h[0] = b /\ \A k \in 1..m : h[k] = step[k][h[k - 1]]
             T == {m \in Nat : m > n \/ \E h \in [0..m -> V] : Up(m, h)}
  <1>1. 0 \in T
    <2> DEFINE h == [k \in 0..0 |-> b]
    <2>1. h \in [0..0 -> V] /\ h[0] = b
      OBVIOUS
    <2>2. Up(0, h)
      OBVIOUS
    <2> QED
      BY <2>1, <2>2
  <1>2. ASSUME NEW m \in Nat, m \in T PROVE m + 1 \in T
    <2>1. CASE m + 1 > n
      BY <2>1
    <2>2. CASE ~ (m + 1 > n)
      <3>1. PICK h \in [0..m -> V] : Up(m, h)
        BY <1>2, <2>2
      <3>2. m + 1 \in 1..n /\ h[m] \in V
        BY <2>2
      <3> DEFINE v == step[m + 1][h[m]]
                 g == [k \in 0..m + 1 |-> IF k <= m THEN h[k] ELSE v]
      <3>3. v \in V
        BY <3>2
      <3>4. g \in [0..m + 1 -> V]
        <4> HIDE DEF v
        <4> QED
          BY <3>3
      <3>5. Up(m + 1, g)
        <4>1. g[0] = b
          BY <3>1
        <4>2. ASSUME NEW k \in 1..m + 1 PROVE g[k] = step[k][g[k - 1]]
          <5>1. g[k - 1] = h[k - 1]
            OBVIOUS
          <5>2. CASE k <= m
            <6>1. k \in 1..m /\ g[k] = h[k]
              BY <5>2
            <6> QED
              BY <3>1, <5>1, <6>1
          <5>3. CASE ~ (k <= m)
            <6>1. k = m + 1 /\ g[k] = v /\ k - 1 = m
              BY <5>3
            <6> QED
              BY <5>1, <6>1
          <5> QED
            BY <5>2, <5>3
        <4> QED
          BY <4>1, <4>2
      <3> HIDE DEF g, Up
      <3>6. \E x \in [0..m + 1 -> V] : Up(m + 1, x)
        BY <3>4, <3>5, Zenon
      <3> QED
        BY <3>6
    <2> QED
      BY <2>1, <2>2
  <1> HIDE DEF T
  <1>3. n \in T
    BY <1>1, <1>2, Induction
  <1> USE DEF T
  <1>4. ~ (n > n)
    OBVIOUS
  <1> QED
    BY <1>3, <1>4 DEF Unrolls
-----------------------------------------------------------------------------
(* Shifts.                                                                 *)

\* 1 << n is twice 1 << (n - 1).
LEMMA BitRecursion ==
  Bit = [n \in 0..16 |-> IF n = 0 THEN 1 ELSE 2 * Bit[n - 1]]
  <1> DEFINE step == [k \in 1..16 |-> [v \in Nat |-> 2 * v]]
             P(h) == h = [n \in 0..16 |-> IF n = 0 THEN 1 ELSE 2 * h[n - 1]]
  <1>1. PICK h \in [0..16 -> Nat] : h[0] = 1 /\ \A k \in 1..16 : h[k] = step[k][h[k - 1]]
    <2> DEFINE m == 16
               one == 1
    <2>1. step \in [1..m -> [Nat -> Nat]] /\ m \in Nat /\ one \in Nat
      OBVIOUS
    <2> HIDE DEF step, m, one
    <2>2. \E h \in [0..m -> Nat] : Unrolls(h, m, one, step)
      BY <2>1, Recursion
    <2> QED
      BY <2>2 DEF m, one, Unrolls
  <1>2. P(h)
    <2>1. ASSUME NEW n \in 0..16 PROVE h[n] = IF n = 0 THEN 1 ELSE 2 * h[n - 1]
      <3>1. n # 0 => n \in 1..16 /\ h[n - 1] \in Nat
        OBVIOUS
      <3>2. ASSUME n # 0 PROVE h[n] = 2 * h[n - 1]
        <4> DEFINE v == h[n - 1]
        <4>1. n \in 1..16 /\ v \in Nat
          BY <3>1, <3>2
        <4>2. h[n] = step[n][v]
          BY <1>1, <4>1
        <4> HIDE DEF v
        <4>3. step[n][v] = 2 * v
          BY <4>1
        <4> QED
          BY <4>2, <4>3 DEF v
      <3> QED
        BY <1>1, <3>2
    <2> QED
      BY <2>1
  <1>3. Bit = CHOOSE b : P(b)
    BY DEF Bit
  <1> HIDE DEF P
  <1>4. P(Bit)
    BY <1>2, <1>3
  <1> QED
    BY <1>4 DEF P

\* What Bit has at its places.
LEMMA BitFacts ==
  /\ Bit[0] = 1
  /\ \A n \in 1..16 : Bit[n] = 2 * Bit[n - 1]
  /\ \A n \in 0..16 : Bit[n] \in Nat /\ Bit[n] >= 1 /\ Bit[n] <= 65536
  <1>1. Bit[0] = 1 /\ \A n \in 1..16 : Bit[n] = 2 * Bit[n - 1]
    BY BitRecursion
  <1>2. ASSUME NEW n \in 0..15 PROVE Bit[n + 1] = 2 * Bit[n]
    <2>1. n + 1 \in 1..16 /\ (n + 1) - 1 = n
      OBVIOUS
    <2> QED
      BY <1>1, <2>1
  <1>3. /\ Bit[0 + 1] = 2 * Bit[0] /\ Bit[1 + 1] = 2 * Bit[1] /\ Bit[2 + 1] = 2 * Bit[2]
        /\ Bit[3 + 1] = 2 * Bit[3] /\ Bit[4 + 1] = 2 * Bit[4] /\ Bit[5 + 1] = 2 * Bit[5]
        /\ Bit[6 + 1] = 2 * Bit[6] /\ Bit[7 + 1] = 2 * Bit[7] /\ Bit[8 + 1] = 2 * Bit[8]
    BY <1>2
  <1>4. /\ Bit[9 + 1] = 2 * Bit[9] /\ Bit[10 + 1] = 2 * Bit[10] /\ Bit[11 + 1] = 2 * Bit[11]
        /\ Bit[12 + 1] = 2 * Bit[12] /\ Bit[13 + 1] = 2 * Bit[13] /\ Bit[14 + 1] = 2 * Bit[14]
        /\ Bit[15 + 1] = 2 * Bit[15]
    BY <1>2
  <1>5. /\ Bit[1] = 2 /\ Bit[2] = 4 /\ Bit[3] = 8 /\ Bit[4] = 16 /\ Bit[5] = 32
        /\ Bit[6] = 64 /\ Bit[7] = 128 /\ Bit[8] = 256 /\ Bit[9] = 512
    BY <1>1, <1>3
  <1>6. /\ Bit[10] = 1024 /\ Bit[11] = 2048 /\ Bit[12] = 4096 /\ Bit[13] = 8192
        /\ Bit[14] = 16384 /\ Bit[15] = 32768 /\ Bit[16] = 65536
    BY <1>4, <1>5
  <1>7. ASSUME NEW n \in 0..16 PROVE Bit[n] \in Nat /\ Bit[n] >= 1 /\ Bit[n] <= 65536
    <2>1. \/ n = 0 \/ n = 1 \/ n = 2 \/ n = 3 \/ n = 4 \/ n = 5 \/ n = 6 \/ n = 7 \/ n = 8
          \/ n = 9 \/ n = 10 \/ n = 11 \/ n = 12 \/ n = 13 \/ n = 14 \/ n = 15 \/ n = 16
      OBVIOUS
    <2>2. CASE n < 9
      BY <1>1, <1>5, <2>1, <2>2
    <2>3. CASE ~(n < 9)
      BY <1>5, <1>6, <2>1, <2>3
    <2> QED
      BY <2>2, <2>3
  <1>8. \A n \in 0..16 : Bit[n] \in Nat /\ Bit[n] >= 1 /\ Bit[n] <= 65536
    BY <1>7
  <1> QED
    BY <1>1, <1>8

\* Division with remainder.
LEMMA DivisionFacts ==
  ASSUME NEW a \in Nat, NEW b \in Nat \ {0}
  PROVE  /\ a \div b \in Nat /\ a % b \in 0..b - 1 /\ a = (a \div b) * b + (a % b)
         /\ (a + b) \div b = a \div b + 1
  <1>1. a \div b \in Nat /\ a % b \in 0..b - 1 /\ a = b * (a \div b) + (a % b)
    OBVIOUS
  <1>2. (a + b) \div b = a \div b + 1
    OBVIOUS
  <1> DEFINE q == a \div b
             r == a % b
  <1>3. q \in Nat /\ r \in 0..b - 1 /\ a = b * q + r
    BY <1>1
  <1> HIDE DEF q, r
  <1>4. a = q * b + r
    BY <1>3
  <1> QED
    BY <1>1, <1>2, <1>4 DEF q, r

\* Shifting by one place more halves.
LEMMA ShiftFacts ==
  ASSUME NEW a \in Nat, NEW b \in Nat \ {0}
  PROVE  a \div (2 * b) = (a \div b) \div 2
  <1> DEFINE q == a \div b
             r == a % b
             s == q \div 2
             t == q % 2
  <1>1. q \in Nat /\ r \in 0..(b - 1) /\ a = b * q + r
    OBVIOUS
  <1>2. s \in Nat /\ t \in 0..1 /\ q = 2 * s + t
    BY <1>1
  <1> HIDE DEF q, r, s, t
  <1>3. a = (2 * b) * s + (b * t + r)
    BY <1>1, <1>2
  <1>4. b * t + r \in 0..(2 * b - 1)
    <2>1. b * t \in Nat /\ b * t <= b
      BY <1>2
    <2> QED
      BY <1>1, <2>1
  <1>5. a \div (2 * b) = s
    <2> DEFINE c == 2 * b
               x == b * t + r
               y == a \div c
    <2>1. c \in Nat \ {0} /\ a = c * s + x /\ x \in 0..(c - 1)
      BY <1>3, <1>4
    <2>2. y \in Nat /\ a - c * y \in 0..(c - 1)
      <3> HIDE DEF c
      <3> QED
        BY <2>1
    <2> HIDE DEF c, x, y
    <2>3. y = s
      <3>1. ~(y < s)
        <4> SUFFICES ASSUME y < s PROVE FALSE
          OBVIOUS
        <4>1. c * (y + 1) <= c * s
          BY <1>2, <2>1, <2>2
        <4> QED
          BY <1>2, <2>1, <2>2, <4>1
      <3>2. ~(s < y)
        <4> SUFFICES ASSUME s < y PROVE FALSE
          OBVIOUS
        <4>1. c * (s + 1) <= c * y
          BY <1>2, <2>1, <2>2
        <4> QED
          BY <1>2, <2>1, <2>2, <4>1
      <3> QED
        BY <1>2, <2>2, <3>1, <3>2
    <2> QED
      BY <2>3 DEF c, y
  <1> QED
    BY <1>5 DEF q, s

HasBit(word, k) == (word \div Bit[k]) % 2 = 1

\* (1 << n) - 1 has a one at each of the places below n.
LEMMA PresenceFacts ==
  ASSUME NEW n \in 0..16, NEW k \in 0..16, k < n, NEW word, word = (Bit[n] - 1) % 65536
  PROVE  HasBit(word, k)
  <1> DEFINE a == Bit[n] - 1
             T == {m \in Nat : m < n => a \div Bit[m] = Bit[n - m] - 1}
  <1>1. a \in Nat /\ a % 65536 = a
    <2>1. Bit[n] \in Nat /\ Bit[n] >= 1 /\ Bit[n] <= 65536
      BY BitFacts
    <2> QED
      BY <2>1
  <1>2. 0 \in T
    <2>1. Bit[0] = 1 /\ n - 0 = n /\ a \div 1 = a
      BY <1>1, BitFacts
    <2> QED
      BY <2>1
  <1>3. ASSUME NEW m \in Nat, m \in T PROVE m + 1 \in T
    <2> SUFFICES ASSUME m + 1 < n PROVE a \div Bit[m + 1] = Bit[n - (m + 1)] - 1
      OBVIOUS
    <2>1. /\ m \in 0..16 /\ m + 1 \in 1..16 /\ (m + 1) - 1 = m
          /\ n - m \in 1..16 /\ (n - m) - 1 = n - (m + 1) /\ n - (m + 1) \in 0..16
      OBVIOUS
    <2> DEFINE b == Bit[m]
               c == Bit[n - (m + 1)]
    <2>2. Bit[m + 1] = 2 * b /\ Bit[n - m] = 2 * c
      BY <2>1, BitFacts
    <2>3. b \in Nat \ {0} /\ c \in Nat \ {0}
      BY <2>1, BitFacts
    <2>4. a \div b = 2 * c - 1
      BY <1>3, <2>2
    <2>5. a \div (2 * b) = (a \div b) \div 2
      BY <1>1, <2>3, ShiftFacts
    <2> HIDE DEF a, b, c
    <2>6. (2 * c - 1) \div 2 = c - 1
      BY <2>3
    <2> QED
      BY <2>2, <2>4, <2>5, <2>6 DEF c
  <1> HIDE DEF T
  <1>4. k \in T
    BY <1>2, <1>3, Induction
  <1>5. a \div Bit[k] = Bit[n - k] - 1
    BY <1>4 DEF T
  <1> HIDE DEF a
  <1>6. n - k \in 1..16 /\ (n - k) - 1 \in 0..16
    OBVIOUS
  <1> DEFINE c == Bit[(n - k) - 1]
  <1>7. Bit[n - k] = 2 * c /\ c \in Nat \ {0}
    BY <1>6, BitFacts
  <1> HIDE DEF c
  <1>8. (2 * c - 1) % 2 = 1
    BY <1>7
  <1> QED
    BY <1>1, <1>5, <1>7, <1>8 DEF a, HasBit

MaskHas(n, k) == HasBit((Bit[n] - 1) % 65536, k)

\* (1 << n) - 1 has the bits below n.
LEMMA MaskFacts ==
  ASSUME NEW n \in 0..16, NEW k \in 0..16, k < n
  PROVE  MaskHas(n, k)
  <1> DEFINE word == (Bit[n] - 1) % 65536
  <1>1. HasBit(word, k)
    <2>1. word = (Bit[n] - 1) % 65536
      OBVIOUS
    <2> HIDE DEF word
    <2> QED
      BY <2>1, PresenceFacts
  <1> QED
    BY <1>1 DEF MaskHas
-----------------------------------------------------------------------------
IsSequence(s) == \E S : s \in Seq(S)

IsOpenPage(p) == p = [index |-> p.index, type |-> p.type, pos |-> p.pos, rows |-> p.rows]

RowEnd(p, i) == p.rows[i].at + p.rows[i].row.size

\* OpenPageIsSound of any page, with what makes it inductive: a page whose next
\* row would not be aligned is too full for a row of four bytes.
Sound(p) ==
    /\ IsOpenPage(p) /\ IsSequence(p.rows)
    /\ p.pos \in Nat /\ HEAP_START <= p.pos
    /\ p.pos <= PAGE_SIZE - NumGroups(Len(p.rows)) * ROW_GROUP_SIZE
    /\ (p.pos - HEAP_START) % 4 = 0 \/ p.pos + 3 > IndexStart(Len(p.rows) + 1)
    /\ \A i \in 1..Len(p.rows) :
          /\ p.rows[i].at \in Nat /\ p.rows[i].at % 4 = 0 /\ 4 * (i - 1) <= p.rows[i].at
          /\ p.rows[i].row.size \in Nat /\ p.rows[i].row.size > 3
          /\ HEAP_START + RowEnd(p, i) <= p.pos
          /\ \A j \in 1..Len(p.rows) : i < j => RowEnd(p, i) <= p.rows[j].at
-----------------------------------------------------------------------------
(* Sequences and the row index.                                            *)

\* What Append leaves and adds.
LEMMA AppendFacts ==
  ASSUME NEW s, IsSequence(s), NEW x
  PROVE  /\ IsSequence(Append(s, x)) /\ Len(s) \in Nat /\ Len(Append(s, x)) = Len(s) + 1
         /\ Append(s, x)[Len(s) + 1] = x
         /\ \A i \in 1..Len(s) : Append(s, x)[i] = s[i]
  <1>1. PICK S : s \in Seq(S)
    BY DEF IsSequence
  <1> DEFINE R == S \cup {x}
  <1>2. s \in Seq(R)
    BY <1>1, SeqMonotonic
  <1>3. x \in R
    OBVIOUS
  <1> HIDE DEF R
  <1>4. Append(s, x) \in Seq(R)
    BY <1>2, <1>3
  <1> QED
    BY <1>2, <1>3, <1>4, AppendProperties DEF IsSequence

\* What a concatenation has at which place.
LEMMA ConcatFacts ==
  ASSUME NEW s, IsSequence(s), NEW t, IsSequence(t)
  PROVE  /\ IsSequence(s \o t) /\ Len(s) \in Nat /\ Len(t) \in Nat
         /\ Len(s \o t) = Len(s) + Len(t)
         /\ \A i \in 1..Len(s) : (s \o t)[i] = s[i]
         /\ \A i \in 1..Len(t) : (s \o t)[Len(s) + i] = t[i]
  <1>1. PICK S : s \in Seq(S)
    BY DEF IsSequence
  <1>2. PICK T : t \in Seq(T)
    BY DEF IsSequence
  <1> DEFINE R == S \cup T
  <1>3. s \in Seq(R) /\ t \in Seq(R)
    BY <1>1, <1>2, SeqMonotonic
  <1> HIDE DEF R
  <1>4. /\ s \o t \in Seq(R) /\ Len(s) \in Nat /\ Len(t) \in Nat
        /\ Len(s \o t) = Len(s) + Len(t)
        /\ \A i \in 1..(Len(s) + Len(t)) : (s \o t)[i] = IF i <= Len(s) THEN s[i] ELSE t[i - Len(s)]
    BY <1>3, ConcatProperties
  <1>5. \A i \in 1..Len(s) : (s \o t)[i] = s[i]
    BY <1>4
  <1>6. ASSUME NEW i \in 1..Len(t) PROVE (s \o t)[Len(s) + i] = t[i]
    <2>1. Len(s) + i \in 1..(Len(s) + Len(t)) /\ ~(Len(s) + i <= Len(s)) /\ (Len(s) + i) - Len(s) = i
      BY <1>4
    <2> QED
      BY <1>4, <2>1
  <1> QED
    BY <1>4, <1>5, <1>6 DEF IsSequence

\* The same of a named concatenation.
Joined(u, s, t) ==
    /\ IsSequence(u) /\ Len(s) \in Nat /\ Len(t) \in Nat /\ Len(u) = Len(s) + Len(t)
    /\ \A i \in 1..Len(s) : u[i] = s[i]
    /\ \A i \in 1..Len(t) : u[Len(s) + i] = t[i]

LEMMA JoinFacts ==
  ASSUME NEW s, IsSequence(s), NEW t, IsSequence(t)
  PROVE  Joined(s \o t, s, t)
  BY ConcatFacts DEF Joined

\* One row more needs a group more at a boundary, and IndexStart says so in time.
LEMMA IndexFacts ==
  ASSUME NEW n \in Nat
  PROVE  /\ NumGroups(n) \in Nat /\ IndexStart(n) \in Int
         /\ PAGE_SIZE - NumGroups(n + 1) * ROW_GROUP_SIZE = IndexStart(n)
         /\ IndexStart(n + 1) <= IndexStart(n)
  <1> USE PageAssumption
  <1>1. /\ n \div ROWS_PER_GROUP \in Nat
        /\ n \div ROWS_PER_GROUP <= (n + 1) \div ROWS_PER_GROUP
        /\ (n + 1) \div ROWS_PER_GROUP \in Nat
        /\ (n + ROWS_PER_GROUP) \div ROWS_PER_GROUP = n \div ROWS_PER_GROUP + 1
    OBVIOUS
  <1> DEFINE a == n \div ROWS_PER_GROUP
             b == (n + 1) \div ROWS_PER_GROUP
  <1>2. a \in Nat /\ b \in Nat /\ a <= b /\ ROW_GROUP_SIZE \in Nat /\ PAGE_SIZE \in Nat
    BY <1>1
  <1>3. NumGroups(n + 1) = a + 1
    <2>1. (n + 1) + ROWS_PER_GROUP - 1 = n + ROWS_PER_GROUP
      OBVIOUS
    <2> QED
      BY <1>1, <2>1 DEF NumGroups
  <1>4. NumGroups(n) \in Nat
    BY DEF NumGroups
  <1>5. IndexStart(n) = PAGE_SIZE - (a + 1) * ROW_GROUP_SIZE
        /\ IndexStart(n + 1) = PAGE_SIZE - (b + 1) * ROW_GROUP_SIZE
    BY DEF IndexStart
  <1> HIDE DEF a, b
  <1>6. (a + 1) * ROW_GROUP_SIZE <= (b + 1) * ROW_GROUP_SIZE
    BY <1>2
  <1>7. (a + 1) * ROW_GROUP_SIZE \in Nat /\ (b + 1) * ROW_GROUP_SIZE \in Nat
    BY <1>2
  <1> QED
    BY <1>2, <1>3, <1>4, <1>5, <1>6, <1>7

\* The index of n rows is no larger than the one that is kept free for it.
LEMMA GroupsGrow ==
  ASSUME NEW n \in Nat
  PROVE  IndexStart(n) <= PAGE_SIZE - NumGroups(n) * ROW_GROUP_SIZE
  <1> DEFINE a == n \div ROWS_PER_GROUP
             g == NumGroups(n)
  <1>1. a \in Nat /\ g \in Nat /\ g <= a + 1
    <2>1. a \in Nat /\ (n + ROWS_PER_GROUP) \div ROWS_PER_GROUP = a + 1
      BY PageAssumption
    <2>2. n # 0 => (n + ROWS_PER_GROUP - 1) \div ROWS_PER_GROUP
                      <= (n + ROWS_PER_GROUP) \div ROWS_PER_GROUP
      BY PageAssumption
    <2> HIDE DEF a
    <2> QED
      BY <2>1, <2>2, IndexFacts DEF NumGroups
  <1>2. IndexStart(n) = PAGE_SIZE - (a + 1) * ROW_GROUP_SIZE
    BY DEF IndexStart
  <1> HIDE DEF a, g
  <1>3. g * ROW_GROUP_SIZE <= (a + 1) * ROW_GROUP_SIZE /\ g * ROW_GROUP_SIZE \in Nat
        /\ (a + 1) * ROW_GROUP_SIZE \in Nat
    BY <1>1, PageAssumption
  <1> QED
    BY <1>2, <1>3, PageAssumption DEF g
-----------------------------------------------------------------------------
(* Pages.                                                                  *)

\* An empty page breaks no rule.
LEMMA NewPageIsSound ==
  ASSUME NEW index \in Nat, NEW type
  PROVE  /\ Sound(NewPage(index, type))
         /\ NewPage(index, type).index = index /\ NewPage(index, type).type = type
         /\ NewPage(index, type).rows = <<>>
  <1> USE PageAssumption
  <1> DEFINE p == NewPage(index, type)
  <1>1. /\ p.index = index /\ p.type = type /\ p.pos = HEAP_START /\ p.rows = <<>>
        /\ IsOpenPage(p)
    BY DEF NewPage, IsOpenPage
  <1> HIDE DEF p
  <1>2. IsSequence(<<>>) /\ Len(<<>>) = 0
    BY DEF IsSequence
  <1>3. NumGroups(0) = 1
    BY DEF NumGroups
  <1>4. p.pos <= PAGE_SIZE - NumGroups(Len(p.rows)) * ROW_GROUP_SIZE
    <2>1. HEAP_START <= PAGE_SIZE - 1 * ROW_GROUP_SIZE
      OBVIOUS
    <2> QED
      BY <1>1, <1>2, <1>3, <2>1
  <1>5. Sound(p)
    BY <1>1, <1>2, <1>4 DEF Sound
  <1> QED
    BY <1>1, <1>5 DEF p

\* Padding is less than a word and ends at a word.
LEMMA PaddingFacts ==
  ASSUME NEW pos \in Nat, HEAP_START <= pos
  PROVE  Padding(pos) \in 0..3 /\ ((pos + Padding(pos)) - HEAP_START) % 4 = 0
  <1> DEFINE d == pos - HEAP_START
             m == d % 4
             q == (4 - m) % 4
  <1>1. d \in Nat
    BY PageAssumption
  <1> HIDE DEF d
  <1>2. m \in 0..3 /\ q \in 0..3 /\ (d + q) % 4 = 0
    BY ONLY <1>1
  <1> HIDE DEF m
  <1>3. Padding(pos) = q
    BY DEF Padding, m, d
  <1> HIDE DEF q
  <1>4. (pos + q) - HEAP_START = d + q
    BY ONLY <1>2, PageAssumption DEF d
  <1> QED
    BY ONLY <1>2, <1>3, <1>4

\* A row is written behind the last one, in front of the row index that then is.
LEMMA WriteRowIsSound ==
  ASSUME NEW p, Sound(p), NEW row, row.size \in Nat, row.size > 3, ~WouldOverflow(p, row.size)
  PROVE  /\ Sound(WriteRow(p, row))
         /\ WriteRow(p, row).index = p.index /\ WriteRow(p, row).type = p.type
         /\ WriteRow(p, row).rows = Append(p.rows, [at |-> p.pos - HEAP_START, row |-> row])
         /\ WriteRow(p, row).pos \in Nat /\ WriteRow(p, row).pos <= (p.pos + row.size) + 3
  <1> DEFINE N == Len(p.rows)
             rows == Append(p.rows, [at |-> p.pos - HEAP_START, row |-> row])
             end == p.pos + row.size
             q == [index |-> p.index, type |-> p.type, pos |-> end, rows |-> rows]
             pad == Padding(end)
             pos == IF WouldOverflow(q, pad) THEN end ELSE end + pad
             r == [index |-> p.index, type |-> p.type, pos |-> pos, rows |-> rows]
  <1> USE PageAssumption
  <1>1. /\ IsOpenPage(p) /\ IsSequence(p.rows)
        /\ p.pos \in Nat /\ HEAP_START <= p.pos
        /\ (p.pos - HEAP_START) % 4 = 0 \/ p.pos + 3 > IndexStart(N + 1)
    BY DEF Sound
  <1>2. WriteRow(p, row) = r
    <2> DEFINE x == [at |-> p.pos - HEAP_START, row |-> row]
    <2>1. [p EXCEPT !.pos = @ + row.size, !.rows = Append(@, x)]
            = [[p EXCEPT !.pos = end] EXCEPT !.rows = rows]
      OBVIOUS
    <2> HIDE DEF end, rows, pad, x
    <2>2. [p EXCEPT !.pos = end]
            = [index |-> p.index, type |-> p.type, pos |-> end, rows |-> p.rows]
      <3> DEFINE i == p.index
                 t == p.type
                 s == p.pos
                 x1 == p.rows
      <3>1. p = [index |-> i, type |-> t, pos |-> s, rows |-> x1]
        BY <1>1 DEF IsOpenPage
      <3> HIDE DEF i, t, s, x1
      <3>2. [p EXCEPT !.pos = end] = [index |-> i, type |-> t, pos |-> end, rows |-> x1]
        BY ONLY <3>1
      <3> QED
        BY <3>2 DEF i, t, x1
    <2>3. [[index |-> p.index, type |-> p.type, pos |-> end, rows |-> p.rows]
              EXCEPT !.rows = rows] = q
      OBVIOUS
    <2>4. [p EXCEPT !.pos = @ + row.size, !.rows = Append(@, x)] = q
      BY <2>1, <2>2, <2>3
    <2> DEFINE more == end + pad
    <2>5. [q EXCEPT !.pos = @ + pad] = [q EXCEPT !.pos = more] /\ q.pos = end
      OBVIOUS
    <2> HIDE DEF more
    <2>6. [q EXCEPT !.pos = more] =
            [index |-> p.index, type |-> p.type, pos |-> more, rows |-> rows]
      OBVIOUS
    <2>7. WriteRow(p, row) = IF WouldOverflow(q, pad) THEN q ELSE [q EXCEPT !.pos = @ + pad]
      BY <2>4, <2>5 DEF WriteRow, x, pad
    <2> HIDE DEF q
    <2>8. WriteRow(p, row) = IF WouldOverflow(q, pad) THEN q ELSE
            [index |-> p.index, type |-> p.type, pos |-> more, rows |-> rows]
      BY <2>5, <2>6, <2>7
    <2> QED
      BY <2>8 DEF more, q
  <1>3. /\ IsSequence(rows) /\ N \in Nat /\ Len(rows) = N + 1
        /\ rows[N + 1] = [at |-> p.pos - HEAP_START, row |-> row]
        /\ \A i \in 1..N : rows[i] = p.rows[i]
    BY <1>1, AppendFacts
  <1>4. end \in Nat /\ HEAP_START <= end /\ pad \in 0..3 /\ ((end + pad) - HEAP_START) % 4 = 0
    <2>1. end \in Nat /\ HEAP_START <= end
      <3> DEFINE a == p.pos
                 z == row.size
      <3>1. a \in Nat /\ HEAP_START <= a
        BY <1>1
      <3>2. z \in Nat /\ HEAP_START \in Nat
        BY PageAssumption
      <3> HIDE DEF a, z
      <3>3. a + z \in Nat /\ HEAP_START <= a + z
        BY ONLY <3>1, <3>2
      <3> QED
        BY <3>3 DEF a, z
    <2> HIDE DEF end
    <2> QED
      BY <2>1, PaddingFacts
  <1>5. /\ IndexStart(N) \in Int /\ IndexStart(N + 1) \in Int /\ IndexStart(N + 2) \in Int
        /\ IndexStart(N + 1) <= IndexStart(N) /\ IndexStart(N + 2) <= IndexStart(N + 1)
        /\ PAGE_SIZE - NumGroups(N + 1) * ROW_GROUP_SIZE = IndexStart(N)
    <2> HIDE DEF N
    <2>1. N \in Nat /\ N + 1 \in Nat /\ N + 2 \in Nat /\ (N + 1) + 1 = N + 2
      BY <1>3
    <2>2. /\ IndexStart(N) \in Int /\ IndexStart(N + 1) <= IndexStart(N)
          /\ PAGE_SIZE - NumGroups(N + 1) * ROW_GROUP_SIZE = IndexStart(N)
      BY <2>1, IndexFacts
    <2>3. IndexStart(N + 1) \in Int /\ IndexStart((N + 1) + 1) <= IndexStart(N + 1)
      BY <2>1, IndexFacts
    <2>4. IndexStart(N + 2) \in Int
      BY <2>1, IndexFacts
    <2>5. IndexStart(N + 2) <= IndexStart(N + 1)
      <3> DEFINE a == (N + 1) + 1
                 b == N + 2
      <3>1. a = b /\ IndexStart(a) <= IndexStart(N + 1)
        BY <2>1, <2>3
      <3> HIDE DEF a, b
      <3>2. IndexStart(b) <= IndexStart(N + 1)
        BY <3>1
      <3> QED
        BY <3>2 DEF b
    <2> QED
      BY <2>2, <2>3, <2>4, <2>5
  <1>6. end <= IndexStart(N + 1)
    <2> DEFINE m == IndexStart(N + 1)
    <2>1. ~(end > m)
      BY DEF WouldOverflow
    <2>2. end \in Nat /\ m \in Int
      BY <1>4, <1>5
    <2> HIDE DEF end, m
    <2>3. end <= m
      BY <2>1, <2>2
    <2> QED
      BY <2>3 DEF m
  <1>7. WouldOverflow(q, pad) <=> end + pad > IndexStart(N + 2)
    <2>1. q.pos = end /\ Len(q.rows) + 1 = N + 2
      BY <1>3
    <2> HIDE DEF q, end, pad
    <2> QED
      BY <2>1 DEF WouldOverflow
  <1> HIDE DEF N, q, pad, rows
  <1>8. /\ pos \in Nat /\ end <= pos /\ pos <= end + 3 /\ pos <= IndexStart(N)
        /\ (pos - HEAP_START) % 4 = 0 \/ pos + 3 > IndexStart(N + 2)
    <2> HIDE DEF end
    <2>1. CASE WouldOverflow(q, pad)
      <3>1. end + pad > IndexStart(N + 2) /\ pos = end
        BY <1>7, <2>1
      <3> QED
        BY <1>4, <1>5, <1>6, <3>1
    <2>2. CASE ~WouldOverflow(q, pad)
      <3>1. ~(end + pad > IndexStart(N + 2)) /\ pos = end + pad
        BY <1>7, <2>2
      <3> HIDE DEF pos
      <3> QED
        BY <1>4, <1>5, <1>6, <3>1
    <2> QED
      BY <2>1, <2>2
  <1>10. (p.pos - HEAP_START) % 4 = 0
    BY <1>1, <1>5, <1>6
  <1> HIDE DEF pos
  <1>11. IsOpenPage(r) /\ r.pos = pos /\ r.rows = rows /\ r.index = p.index /\ r.type = p.type
    BY DEF IsOpenPage
  <1>12. /\ p.pos - HEAP_START \in Nat /\ 4 * N <= p.pos - HEAP_START
         /\ \A i \in 1..N :
               /\ p.rows[i].at \in Nat /\ p.rows[i].at % 4 = 0 /\ 4 * (i - 1) <= p.rows[i].at
               /\ p.rows[i].row.size \in Nat /\ p.rows[i].row.size > 3
               /\ p.rows[i].at + p.rows[i].row.size <= p.pos - HEAP_START
               /\ \A j \in 1..N : i < j => p.rows[i].at + p.rows[i].row.size <= p.rows[j].at
    <2>1. p.pos - HEAP_START \in Nat
      BY <1>1
    <2>2. \A i \in 1..N :
             /\ p.rows[i].at \in Nat /\ p.rows[i].at % 4 = 0 /\ 4 * (i - 1) <= p.rows[i].at
             /\ p.rows[i].row.size \in Nat /\ p.rows[i].row.size > 3
             /\ HEAP_START + (p.rows[i].at + p.rows[i].row.size) <= p.pos
             /\ \A j \in 1..N : i < j => p.rows[i].at + p.rows[i].row.size <= p.rows[j].at
      BY DEF Sound, RowEnd, N
    <2>3. \A i \in 1..N : p.rows[i].at + p.rows[i].row.size <= p.pos - HEAP_START
      BY <1>1, <2>2
    <2>4. 4 * N <= p.pos - HEAP_START
      <3>1. CASE N = 0
        BY <2>1, <3>1
      <3>2. CASE N # 0
        <4> DEFINE at == p.rows[N].at
                   size == p.rows[N].row.size
        <4>1. /\ at \in Nat /\ 4 * (N - 1) <= at /\ size \in Nat /\ size > 3
              /\ at + size <= p.pos - HEAP_START
          BY <1>3, <2>2, <2>3, <3>2
        <4> HIDE DEF at, size
        <4> QED
          BY <1>3, <2>1, <4>1
      <3> QED
        BY <3>1, <3>2
    <2> QED
      BY <2>1, <2>2, <2>3, <2>4
  <1>13. \A i \in 1..(N + 1) : i = N + 1 \/ (i \in 1..N /\ rows[i] = p.rows[i])
    BY <1>3
  <1>14. rows[N + 1].at = p.pos - HEAP_START /\ rows[N + 1].row.size = row.size
    BY <1>3
  <1>15. HEAP_START + ((p.pos - HEAP_START) + row.size) <= pos
    BY <1>1, <1>8
  <1>16. ASSUME NEW i \in 1..(N + 1)
        PROVE  /\ rows[i].at \in Nat /\ rows[i].at % 4 = 0 /\ 4 * (i - 1) <= rows[i].at
               /\ rows[i].row.size \in Nat /\ rows[i].row.size > 3
               /\ HEAP_START + (rows[i].at + rows[i].row.size) <= pos
    <2>1. CASE i = N + 1
      <3>1. 4 * (i - 1) <= p.pos - HEAP_START
        BY <1>3, <1>12, <2>1
      <3> QED
        BY <1>14, <1>15, <1>10, <1>12, <2>1, <3>1
    <2>2. CASE i \in 1..N /\ rows[i] = p.rows[i]
      <3> DEFINE at == p.rows[i].at
                 size == p.rows[i].row.size
      <3>1. /\ at \in Nat /\ at % 4 = 0 /\ 4 * (i - 1) <= at /\ size \in Nat /\ size > 3
            /\ at + size <= p.pos - HEAP_START
        BY <1>12, <2>2
      <3>2. rows[i].at = at /\ rows[i].row.size = size
        BY <2>2
      <3> HIDE DEF at, size
      <3>3. HEAP_START + (at + size) <= pos
        BY <1>1, <1>8, <3>1
      <3> QED
        BY <3>1, <3>2, <3>3
    <2> QED
      BY <1>13, <2>1, <2>2
  <1>17. ASSUME NEW i \in 1..(N + 1), NEW j \in 1..(N + 1), i < j
        PROVE  rows[i].at + rows[i].row.size <= rows[j].at
    <2>1. i \in 1..N /\ rows[i] = p.rows[i]
      BY <1>3, <1>13, <1>17
    <2>2. CASE j = N + 1
      BY <1>14, <1>12, <2>1, <2>2
    <2>3. CASE j \in 1..N /\ rows[j] = p.rows[j]
      BY <1>12, <1>17, <2>1, <2>3
    <2> QED
      BY <1>13, <2>2, <2>3
  <1> HIDE DEF r
  <1>18. Sound(r)
    <2>1. Len(r.rows) = N + 1 /\ Len(r.rows) + 1 = N + 2
      BY <1>3, <1>11
    <2>2. r.pos <= PAGE_SIZE - NumGroups(N + 1) * ROW_GROUP_SIZE
      BY <1>5, <1>8, <1>11
    <2>3. HEAP_START <= pos
      BY <1>4, <1>8
    <2>4. \A i \in 1..Len(r.rows) :
             /\ r.rows[i].at \in Nat /\ r.rows[i].at % 4 = 0 /\ 4 * (i - 1) <= r.rows[i].at
             /\ r.rows[i].row.size \in Nat /\ r.rows[i].row.size > 3
             /\ HEAP_START + RowEnd(r, i) <= r.pos
      BY <1>11, <1>16, <2>1 DEF RowEnd
    <2>5. \A i, j \in 1..Len(r.rows) : i < j => RowEnd(r, i) <= r.rows[j].at
      BY <1>11, <1>17, <2>1 DEF RowEnd
    <2> QED
      BY <1>3, <1>8, <1>11, <2>1, <2>2, <2>3, <2>4, <2>5 DEF Sound
  <1>19. pos \in Nat /\ pos <= end + 3 /\ end = p.pos + row.size
    BY <1>8
  <1> HIDE DEF end
  <1> QED
    BY <1>2, <1>11, <1>18, <1>19 DEF rows

\* The two readers of a page's counter agree with the row count, as write_header
\* gives it four offsets per row: as long as 11 bits hold the rows of a page.
THEOREM CountersAgree ==
  ASSUME NEW n \in Nat, n <= 2047, NEW page1, page1.packed = PackedCounts(n)
  PROVE  NumRows(page1) = n /\ CountedRows(page1) = n
  <1>1. PackedCounts(n) = 8193 * n
    BY DEF PackedCounts
  <1>2. (8193 * n) % 2048 = n
    <2>1. 8193 * n = 2048 * (4 * n) + n
      OBVIOUS
    <2> QED
      BY <2>1
  <1>3. (8193 * n) \div 8192 = n
    <2>1. 8193 * n = 8192 * n + n
      OBVIOUS
    <2> QED
      BY <2>1
  <1> QED
    BY <1>1, <1>2, <1>3 DEF NumRows, CountedRows
-----------------------------------------------------------------------------
(* Finished pages.                                                         *)

\* The heap and the space of a finished page, whatever its place in the file.
ContentsOK(p) ==
    /\ Cardinality(DOMAIN p.heap) = NumRows(p)
    /\ HEAP_START + p.used + p.free <= PAGE_SIZE - Len(p.groups) * ROW_GROUP_SIZE
    /\ \A at \in DOMAIN p.heap : at + p.heap[at].size <= p.used

\* The rows of a page start at different offsets and are as many as 11 bits can count.
LEMMA RowsApart ==
  ASSUME NEW p, Sound(p), NEW n, n = Len(p.rows)
  PROVE  /\ n \in Nat /\ n <= 2047
         /\ \A i, j \in 1..n : p.rows[i].at = p.rows[j].at => i = j
  <1>1. /\ n \in Nat /\ p.pos \in Nat
        /\ \A i \in 1..n :
              /\ p.rows[i].at \in Nat /\ 4 * (i - 1) <= p.rows[i].at
              /\ p.rows[i].row.size \in Nat /\ p.rows[i].row.size > 3
              /\ HEAP_START + (p.rows[i].at + p.rows[i].row.size) <= p.pos
              /\ \A j \in 1..n : i < j => p.rows[i].at + p.rows[i].row.size <= p.rows[j].at
    BY DEF Sound, RowEnd, IsSequence
  <1>0. n \in Nat
    BY <1>1
  <1>2. ASSUME NEW i \in 1..n, NEW j \in 1..n, i < j PROVE p.rows[i].at # p.rows[j].at
    <2> DEFINE a == p.rows[i].at
               b == p.rows[j].at
               size == p.rows[i].row.size
    <2>1. a \in Nat /\ b \in Nat /\ size \in Nat /\ size > 3 /\ a + size <= b
      BY <1>1, <1>2
    <2> HIDE DEF a, b, size
    <2>2. a # b
      BY <2>1
    <2> QED
      BY <2>2 DEF a, b
  <1>3. ASSUME NEW i \in 1..n, NEW j \in 1..n, i # j PROVE i < j \/ j < i
    BY <1>0, <1>3
  <1>4. n <= 2047
    <2>1. p.pos <= PAGE_SIZE /\ PAGE_SIZE <= 8192 /\ HEAP_START \in Nat \ {0}
      <3>1. NumGroups(n) * ROW_GROUP_SIZE \in Nat
        <4>1. NumGroups(n) \in Nat
          BY <1>0, IndexFacts
        <4> QED
          BY <4>1, PageAssumption
      <3>2. p.pos <= PAGE_SIZE - NumGroups(n) * ROW_GROUP_SIZE
        BY DEF Sound
      <3> DEFINE g == NumGroups(n) * ROW_GROUP_SIZE
      <3>3. g \in Nat /\ p.pos <= PAGE_SIZE - g /\ p.pos \in Nat
        BY <1>1, <3>1, <3>2
      <3> HIDE DEF g
      <3>4. p.pos <= PAGE_SIZE
        BY <3>3, PageAssumption
      <3> QED
        BY <3>4, PageAssumption, PageSizeAssumption
    <2>2. CASE n # 0
      <3> DEFINE a == p.rows[n].at
                 size == p.rows[n].row.size
      <3>1. /\ a \in Nat /\ size \in Nat /\ size > 3 /\ 4 * (n - 1) <= a
            /\ HEAP_START + (a + size) <= p.pos
        BY <1>1, <2>2
      <3>2. PAGE_SIZE \in Nat
        BY PageAssumption
      <3>3. p.pos \in Nat
        BY <1>1
      <3> HIDE DEF a, size
      <3> QED
        BY <1>0, <2>1, <3>1, <3>2, <3>3
    <2> QED
      BY <2>2
  <1>5. \A i, j \in 1..n : p.rows[i].at = p.rows[j].at => i = j
    BY <1>2, <1>3
  <1> QED
    BY <1>0, <1>4, <1>5

LEMMA IntervalFacts ==
  ASSUME NEW n \in Nat
  PROVE  IsFiniteSet(1..n) /\ Cardinality(1..n) = n
  <1>1. 1 \in Int /\ n \in Int
    OBVIOUS
  <1>2. IsFiniteSet(1..n) /\ Cardinality(1..n) = IF 1 > n THEN 0 ELSE n - 1 + 1
    BY <1>1, FS_Interval
  <1> QED
    BY <1>2

\* The heap has every row where it was written, and no room is counted twice.
LEMMA HeapFacts ==
  ASSUME NEW p, Sound(p), NEW next
  PROVE  /\ ContentsOK(Finalize(p, next))
         /\ \A i \in 1..Len(p.rows) :
               /\ p.rows[i].at \in DOMAIN Finalize(p, next).heap
               /\ Finalize(p, next).heap[p.rows[i].at] = p.rows[i].row
  <1> DEFINE n == Len(p.rows)
             Ats == {p.rows[i].at : i \in 1..n}
             heap == [at \in Ats |-> p.rows[CHOOSE i \in 1..n : p.rows[i].at = at].row]
             groups == [g \in 1..NumGroups(n) |-> RowGroup(p.rows, g - 1)]
             f == Finalize(p, next)
  <1>1. /\ f.packed = PackedCounts(n) /\ f.used = p.pos - HEAP_START
        /\ f.free = AvailableSpace(p) /\ f.heap = heap
        /\ f.groups = groups
    <2>1. f = [index |-> p.index, type |-> p.type, next |-> next, seq |-> n,
               packed |-> PackedCounts(n),
               flags |-> IF p.type \in IndexedTables THEN DATA_TRACK ELSE DATA,
               free |-> AvailableSpace(p), used |-> p.pos - HEAP_START,
               heap |-> heap, groups |-> groups]
      BY DEF Finalize
    <2> HIDE DEF heap, groups, n, f
    <2> QED
      BY <2>1
  <1>2. /\ n \in Nat /\ n <= 2047
        /\ \A i, j \in 1..n : p.rows[i].at = p.rows[j].at => i = j
    BY RowsApart
  <1> HIDE DEF f, n
  <1>3. DOMAIN heap = Ats /\ \A i \in 1..n : p.rows[i].at \in Ats /\ heap[p.rows[i].at] = p.rows[i].row
    <2>1. ASSUME NEW i \in 1..n PROVE heap[p.rows[i].at] = p.rows[i].row
      <3>1. (CHOOSE k \in 1..n : p.rows[k].at = p.rows[i].at) = i
        BY <1>2
      <3> QED
        BY <3>1
    <2> QED
      BY <2>1
  <1> HIDE DEF heap
  <1>4. Cardinality(Ats) = n
    <2> DEFINE g == [i \in 1..n |-> p.rows[i].at]
    <2>1. g \in Bijection(1..n, Ats)
      BY <1>2 DEF Bijection, Injection, Surjection, IsInjective
    <2>2. ExistsBijection(1..n, Ats)
      BY <2>1 DEF ExistsBijection
    <2>3. IsFiniteSet(1..n) /\ Cardinality(1..n) = n
      BY <1>2, IntervalFacts
    <2> QED
      BY <2>2, <2>3, FS_Bijection
  <1>5. NumRows(f) = n
    BY <1>1, <1>2, CountersAgree
  <1>6. HEAP_START + f.used + f.free <= PAGE_SIZE - Len(f.groups) * ROW_GROUP_SIZE
    <2>1. Len(f.groups) = NumGroups(n) /\ NumGroups(n) \in Nat
      <3> DEFINE m == NumGroups(n)
      <3>1. m \in Nat
        BY <1>2, IndexFacts
      <3> HIDE DEF m
      <3>2. [g \in 1..m |-> RowGroup(p.rows, g - 1)]
               \in [1..m -> {RowGroup(p.rows, g - 1) : g \in 1..m}]
        OBVIOUS
      <3>3. Len([g \in 1..m |-> RowGroup(p.rows, g - 1)]) = m
        BY <3>1, <3>2
      <3> QED
        BY <1>1, <3>1, <3>3 DEF m
    <2> DEFINE g == NumGroups(n) * ROW_GROUP_SIZE
               h == IndexStart(n)
    <2>2. g \in Nat /\ p.pos \in Nat /\ p.pos <= PAGE_SIZE - g
      BY <2>1, PageAssumption DEF Sound, n
    <2>3. h \in Int /\ h <= PAGE_SIZE - g
      BY <1>2, GroupsGrow, IndexFacts
    <2>4. f.free = IF h > p.pos THEN h - p.pos ELSE 0
      BY <1>1 DEF AvailableSpace, n
    <2> HIDE DEF g, h
    <2>5. HEAP_START + (p.pos - HEAP_START) + f.free <= PAGE_SIZE - g
      BY <2>2, <2>3, <2>4, PageAssumption
    <2> QED
      BY <1>1, <2>1, <2>5 DEF g
  <1>7. \A at \in DOMAIN f.heap : at + f.heap[at].size <= f.used
    <2>1. ASSUME NEW i \in 1..n PROVE p.rows[i].at + p.rows[i].row.size <= p.pos - HEAP_START
      <3> DEFINE a == p.rows[i].at
                 size == p.rows[i].row.size
      <3>1. a \in Nat /\ size \in Nat /\ HEAP_START + (a + size) <= p.pos /\ p.pos \in Nat
        BY DEF Sound, RowEnd, n
      <3> HIDE DEF a, size
      <3>2. a + size <= p.pos - HEAP_START
        BY <3>1, PageAssumption
      <3> QED
        BY <3>2 DEF a, size
    <2> QED
      BY <1>1, <1>3, <2>1
  <1>8. ContentsOK(f)
    BY <1>1, <1>3, <1>4, <1>5, <1>6, <1>7 DEF ContentsOK
  <1> QED
    BY <1>1, <1>3, <1>8 DEF f, n

\* Row r of a page is in group r \div ROWS_PER_GROUP of its index.
LEMMA GroupFacts ==
  ASSUME NEW n \in Nat, NEW r \in Nat, r < n, NEW g, g = r \div ROWS_PER_GROUP,
         NEW k, k = r % ROWS_PER_GROUP
  PROVE  /\ g \in Nat /\ k \in 0..ROWS_PER_GROUP - 1 /\ r = g * ROWS_PER_GROUP + k
         /\ g + 1 \in 1..NumGroups(n)
  <1> USE PageAssumption
  <1> DEFINE R == ROWS_PER_GROUP
             m == n + R - 1
  <1>1. g \in Nat /\ k \in 0..R - 1 /\ r = g * R + k
    BY DivisionFacts
  <1>2. (r + R) \div R = g + 1
    BY DivisionFacts
  <1>3. r + R <= m /\ m \in Nat
    OBVIOUS
  <1>4. (r + R) \div R <= m \div R
    BY <1>3
  <1>5. NumGroups(n) = m \div R
    BY DEF NumGroups
  <1>6. NumGroups(n) \in Nat
    BY IndexFacts
  <1> HIDE DEF m, R
  <1>7. g + 1 <= NumGroups(n)
    BY <1>2, <1>4, <1>5
  <1>8. g + 1 \in 1..NumGroups(n)
    BY <1>1, <1>6, <1>7
  <1> QED
    BY <1>1, <1>8 DEF R

\* What a row group says of one of its rows.
LEMMA RowGroupFacts ==
  ASSUME NEW rows, NEW n \in Nat, Len(rows) = n, NEW g \in Nat,
         NEW k \in 0..ROWS_PER_GROUP - 1, g * ROWS_PER_GROUP + k < n
  PROVE  /\ RowGroup(rows, g).offsets[ROWS_PER_GROUP - 1 - k] = rows[g * ROWS_PER_GROUP + k + 1].at
         /\ HasBit(RowGroup(rows, g).present, k)
  <1> DEFINE R == ROWS_PER_GROUP
             first == g * R
             left == n - first
             m == IF left < R THEN left ELSE R
             at == [pos \in 0..R - 1 |-> IF R - 1 - pos < m THEN rows[first + R - pos].at ELSE 0]
             word == (Bit[m] - 1) % 65536
  <1>1. RowGroup(rows, g) = [offsets |-> at, present |-> word]
    BY DEF RowGroup
  <1>2. R \in Nat \ {0} /\ R <= 16
    BY PageAssumption, GroupAssumption
  <1>3. first \in Nat
    BY <1>2
  <1>4. first + k < n /\ k \in 0..R - 1
    OBVIOUS
  <1> HIDE DEF first, R
  <1>5. m \in 0..16 /\ k \in 0..16 /\ k < m
    BY <1>2, <1>3, <1>4
  <1>6. HasBit(word, k)
    <2>1. MaskHas(m, k)
      <3> HIDE DEF left, m, at, word
      <3> QED
        BY <1>5, MaskFacts
    <2> QED
      BY <2>1 DEF MaskHas
  <1>7. at[R - 1 - k] = rows[first + k + 1].at
    <2> DEFINE p == R - 1 - k
    <2>1. p \in 0..R - 1 /\ R - 1 - p = k /\ first + R - p = first + k + 1
      BY <1>2, <1>3, <1>4
    <2> HIDE DEF p
    <2>2. at[p] = rows[first + k + 1].at
      BY <1>5, <2>1
    <2> QED
      BY <2>2 DEF p
  <1> HIDE DEF at, m, word
  <1> QED
    BY <1>1, <1>6, <1>7 DEF first, R

\* A finished page reads back as the rows that were written to it.
LEMMA PageReads ==
  ASSUME NEW p, Sound(p), NEW next, NEW n, n = Len(p.rows),
         \A i \in 1..n : ReadRow(p.rows[i].row) = Meant(p.rows[i].row)
  PROVE  /\ RowsIn(Finalize(p, next)) = [i \in 1..n |-> Meant(p.rows[i].row)]
         /\ CountedRows(Finalize(p, next)) = n
  <1> DEFINE f == Finalize(p, next)
             R == ROWS_PER_GROUP
  <1>1. n \in Nat /\ n <= 2047
    BY RowsApart
  <1>2. f.packed = PackedCounts(n) /\ f.groups = [g \in 1..NumGroups(n) |-> RowGroup(p.rows, g - 1)]
    BY DEF Finalize
  <1>3. NumRows(f) = n /\ CountedRows(f) = n
    <2> HIDE DEF f
    <2> QED
      BY <1>1, <1>2, CountersAgree
  <1>4. \A i \in 1..n : p.rows[i].at \in DOMAIN f.heap /\ f.heap[p.rows[i].at] = p.rows[i].row
    BY HeapFacts
  <1> HIDE DEF f
  <1>5. ASSUME NEW i \in 1..n
        PROVE  Present(f, i - 1) /\ OffsetOf(f, i - 1) = p.rows[i].at
    <2> DEFINE r == i - 1
               g == r \div R
               k == r % R
    <2>1. r \in Nat /\ r < n /\ r + 1 = i
      BY <1>1
    <2> HIDE DEF r
    <2>2. /\ g \in Nat /\ k \in 0..R - 1 /\ r = g * R + k
          /\ g + 1 \in 1..NumGroups(n)
      BY ONLY <1>1, <2>1, GroupFacts
    <2>3. f.groups[g + 1] = RowGroup(p.rows, g) /\ g + 1 \in DOMAIN f.groups
      <3> HIDE DEF g
      <3>1. (g + 1) - 1 = g
        BY <2>2
      <3> QED
        BY <1>2, <2>2, <3>1
    <2>4. /\ RowGroup(p.rows, g).offsets[R - 1 - k] = p.rows[g * R + k + 1].at
          /\ HasBit(RowGroup(p.rows, g).present, k)
      <3>1. g * R + k < n
        BY <2>1, <2>2
      <3> HIDE DEF g, k
      <3> QED
        BY <1>1, <2>2, <3>1, RowGroupFacts
    <2>5. g * R + k + 1 = i
      BY <2>1, <2>2
    <2>6. Present(f, r) <=> g + 1 \in DOMAIN f.groups /\ HasBit(f.groups[g + 1].present, k)
      BY DEF Present, HasBit
    <2>7. OffsetOf(f, r) = f.groups[g + 1].offsets[R - 1 - k]
      BY DEF OffsetOf
    <2> HIDE DEF g, k
    <2> QED
      BY <2>3, <2>4, <2>5, <2>6, <2>7 DEF r
  <1>6. ASSUME NEW i \in 1..n PROVE RowsIn(f)[i] = Meant(p.rows[i].row)
    <2> DEFINE at == OffsetOf(f, i - 1)
    <2>1. at = p.rows[i].at /\ Present(f, i - 1) /\ at \in DOMAIN f.heap
      BY <1>4, <1>5
    <2>2. RowsIn(f)[i] = IF Present(f, i - 1) /\ at \in DOMAIN f.heap
                         THEN ReadRow(f.heap[at]) ELSE <<>>
      BY <1>3 DEF RowsIn
    <2> HIDE DEF at
    <2> QED
      BY <1>4, <2>1, <2>2
  <1>7. RowsIn(f) = [i \in 1..n |-> RowsIn(f)[i]]
    BY <1>3 DEF RowsIn
  <1>8. RowsIn(f) = [i \in 1..n |-> Meant(p.rows[i].row)]
    BY <1>6, <1>7
  <1> QED
    BY <1>3, <1>8 DEF f

IsPage(p) ==
    p = [index |-> p.index, type |-> p.type, next |-> p.next, seq |-> p.seq,
         packed |-> p.packed, flags |-> p.flags, free |-> p.free, used |-> p.used,
         heap |-> p.heap, groups |-> p.groups]

\* A page at place i of the file says so and is within its bounds, unless it is
\* a page of zeros, and a page with rows holds what it counts.
StandsAt(p, i) ==
    /\ IsPage(p)
    /\ p.flags \notin {0, INDEX} => p.index = i /\ ContentsOK(p)
    /\ p.index # 0 => /\ p.index = i
                      /\ p.flags \in {DATA, DATA_TRACK, INDEX}
                      /\ p.used \in Int /\ p.used <= PAGE_SIZE - HEAP_START

\* Stamping a page or patching its chain leaves the rest of it.
LEMMA StampFacts ==
  ASSUME NEW p, NEW i, StandsAt(p, i), NEW v
  PROVE  /\ StandsAt([p EXCEPT !.seq = v], i) /\ [p EXCEPT !.seq = v].index = p.index
         /\ [p EXCEPT !.seq = v].type = p.type /\ [p EXCEPT !.seq = v].next = p.next
         /\ StandsAt([p EXCEPT !.next = v], i) /\ [p EXCEPT !.next = v].index = p.index
         /\ [p EXCEPT !.next = v].type = p.type /\ [p EXCEPT !.next = v].next = v
  <1>1. IsPage(p)
    BY DEF StandsAt
  <1> DEFINE q == [p EXCEPT !.seq = v]
             r == [p EXCEPT !.next = v]
  <1>2. q = [index |-> p.index, type |-> p.type, next |-> p.next, seq |-> v,
             packed |-> p.packed, flags |-> p.flags, free |-> p.free, used |-> p.used,
             heap |-> p.heap, groups |-> p.groups]
    BY <1>1 DEF IsPage
  <1>3. r = [index |-> p.index, type |-> p.type, next |-> v, seq |-> p.seq,
             packed |-> p.packed, flags |-> p.flags, free |-> p.free, used |-> p.used,
             heap |-> p.heap, groups |-> p.groups]
    BY <1>1 DEF IsPage
  <1> HIDE DEF q, r
  <1>4. /\ IsPage(q) /\ q.index = p.index /\ q.flags = p.flags /\ q.used = p.used
        /\ q.type = p.type /\ q.next = p.next
        /\ q.packed = p.packed /\ q.free = p.free /\ q.heap = p.heap /\ q.groups = p.groups
    BY <1>2 DEF IsPage
  <1>5. /\ IsPage(r) /\ r.index = p.index /\ r.flags = p.flags /\ r.used = p.used
        /\ r.type = p.type /\ r.next = v
        /\ r.packed = p.packed /\ r.free = p.free /\ r.heap = p.heap /\ r.groups = p.groups
    BY <1>3 DEF IsPage
  <1>6. ContentsOK(p) => ContentsOK(q) /\ ContentsOK(r)
    BY <1>4, <1>5 DEF ContentsOK, NumRows
  <1>7. StandsAt(q, i) /\ StandsAt(r, i)
    BY <1>4, <1>5, <1>6 DEF StandsAt
  <1> QED
    BY <1>4, <1>5, <1>7 DEF q, r

\* Finalize keeps the rows, the place and the type of a page.
LEMMA FinalizeFacts ==
  ASSUME NEW p, Sound(p), NEW next
  PROVE  /\ StandsAt(Finalize(p, next), p.index) /\ Finalize(p, next).index = p.index
         /\ Finalize(p, next).type = p.type /\ Finalize(p, next).next = next
  <1> DEFINE f == Finalize(p, next)
  <1>1. /\ f.index = p.index /\ f.flags \in {DATA, DATA_TRACK} /\ f.used = p.pos - HEAP_START
        /\ f.type = p.type /\ f.next = next
        /\ IsPage(f)
    BY DEF Finalize, IsPage
  <1>2. p.pos - HEAP_START \in Int /\ p.pos - HEAP_START <= PAGE_SIZE - HEAP_START
    <2>1. p.pos \in Nat /\ Len(p.rows) \in Nat
      BY DEF Sound, IsSequence
    <2> DEFINE g == NumGroups(Len(p.rows))
    <2>2. g \in Nat /\ p.pos <= PAGE_SIZE - g * ROW_GROUP_SIZE
      BY <2>1, IndexFacts DEF Sound
    <2> HIDE DEF g
    <2>3. g * ROW_GROUP_SIZE \in Nat
      BY <2>2, PageAssumption
    <2> QED
      BY <2>1, <2>2, <2>3, PageAssumption
  <1>4. ContentsOK(f)
    BY HeapFacts
  <1> HIDE DEF f
  <1>3. StandsAt(f, p.index)
    BY <1>1, <1>2, <1>4 DEF StandsAt
  <1> QED
    BY <1>1, <1>3 DEF f

\* Pages of zeros and index pages.
LEMMA FixedPages ==
  /\ IsPage(ZeroPage) /\ ZeroPage.index = 0 /\ ZeroPage.flags = 0
  /\ \A i \in Nat \ {0} : StandsAt(IndexPage(i), i) /\ IndexPage(i).index = i
                         /\ IndexPage(i).next = i + 1
  <1>1. IsPage(ZeroPage) /\ ZeroPage.index = 0 /\ ZeroPage.flags = 0
    BY DEF ZeroPage, IsPage
  <1>2. ASSUME NEW i \in Nat \ {0}
        PROVE  StandsAt(IndexPage(i), i) /\ IndexPage(i).index = i /\ IndexPage(i).next = i + 1
    <2> DEFINE f == [index |-> i, type |-> i \div 2, next |-> i + 1, seq |-> 1,
                     packed |-> 0, flags |-> INDEX, free |-> 0, used |-> 0,
                     heap |-> <<>>, groups |-> <<>>]
    <2>1. IndexPage(i) = f
      <3> DEFINE t == i \div 2
                 m == i + 1
                 rec(a, b, c, d, e) ==
                     [index |-> a, type |-> b, next |-> c, seq |-> d, packed |-> 0,
                      flags |-> e, free |-> 0, used |-> 0, heap |-> <<>>, groups |-> <<>>]
      <3>1. f = rec(i, t, m, 1, INDEX) /\ ZeroPage = rec(0, 0, 0, 0, 0)
        BY DEF ZeroPage
      <3>2. IndexPage(i) = [[[[[ZeroPage EXCEPT !.index = i] EXCEPT !.type = t]
                              EXCEPT !.next = m] EXCEPT !.seq = 1] EXCEPT !.flags = INDEX]
        BY DEF IndexPage
      <3> HIDE DEF f, t, m
      <3>3. [rec(0, 0, 0, 0, 0) EXCEPT !.index = i] = rec(i, 0, 0, 0, 0)
        OBVIOUS
      <3>4. [rec(i, 0, 0, 0, 0) EXCEPT !.type = t] = rec(i, t, 0, 0, 0)
        OBVIOUS
      <3>5. [rec(i, t, 0, 0, 0) EXCEPT !.next = m] = rec(i, t, m, 0, 0)
        OBVIOUS
      <3>6. [rec(i, t, m, 0, 0) EXCEPT !.seq = 1] = rec(i, t, m, 1, 0)
        OBVIOUS
      <3>7. [rec(i, t, m, 1, 0) EXCEPT !.flags = INDEX] = rec(i, t, m, 1, INDEX)
        OBVIOUS
      <3>8. [[ZeroPage EXCEPT !.index = i] EXCEPT !.type = t] = rec(i, t, 0, 0, 0)
        BY <3>1, <3>3, <3>4
      <3>9. [[[ZeroPage EXCEPT !.index = i] EXCEPT !.type = t] EXCEPT !.next = m]
               = rec(i, t, m, 0, 0)
        BY <3>5, <3>8
      <3>10. IndexPage(i) = [[rec(i, t, m, 0, 0) EXCEPT !.seq = 1] EXCEPT !.flags = INDEX]
        BY <3>2, <3>9
      <3> QED
        BY <3>1, <3>6, <3>7, <3>10
    <2>2. IsPage(f) /\ f.index = i /\ f.flags = INDEX /\ f.used = 0 /\ f.next = i + 1
      BY DEF IsPage
    <2> HIDE DEF f
    <2>3. 0 <= PAGE_SIZE - HEAP_START
      BY PageAssumption
    <2>4. StandsAt(f, i)
      BY <2>2, <2>3 DEF StandsAt
    <2> QED
      BY <2>1, <2>2, <2>4
  <1> QED
    BY <1>1, <1>2
-----------------------------------------------------------------------------
(* Strings and rows.                                                       *)

\* What Starts computes.
StartsAt(at, head, s) ==
    at = [k \in 1..Len(s) |-> IF k = 1 THEN head ELSE at[k - 1] + s[k - 1].size]

\* The offsets of strings, unrolled.
LEMMA StartsRecursion ==
  ASSUME NEW s, NEW n \in Nat, Len(s) = n, \A i \in 1..n : s[i].size \in Nat, NEW head \in Nat
  PROVE  StartsAt(Starts(head, s), head, s)
  <1> DEFINE P(f) == f = [k \in 1..Len(s) |-> IF k = 1 THEN head ELSE f[k - 1] + s[k - 1].size]
             step == [k \in 1..n |-> [v \in Nat |-> v + s[k].size]]
  <1>1. PICK h \in [0..n -> Nat] : h[0] = head /\ \A k \in 1..n : h[k] = step[k][h[k - 1]]
    <2>1. step \in [1..n -> [Nat -> Nat]]
      <3>1. ASSUME NEW k \in 1..n PROVE [v \in Nat |-> v + s[k].size] \in [Nat -> Nat]
        <4> DEFINE x == s[k].size
        <4>1. x \in Nat
          OBVIOUS
        <4> HIDE DEF x
        <4>2. [v \in Nat |-> v + x] \in [Nat -> Nat]
          BY <4>1
        <4> QED
          BY <4>2 DEF x
      <3> QED
        BY <3>1
    <2> HIDE DEF step
    <2>2. \E h \in [0..n -> Nat] : Unrolls(h, n, head, step)
      BY <2>1, Recursion
    <2> QED
      BY <2>2 DEF Unrolls
  <1>2. ASSUME NEW k \in 1..n PROVE h[k - 1] \in Nat /\ h[k] = h[k - 1] + s[k].size
    <2>1. h[k - 1] \in Nat
      OBVIOUS
    <2>2. h[k] = step[k][h[k - 1]]
      BY <1>1
    <2> DEFINE v == h[k - 1]
    <2>3. v \in Nat /\ h[k] = step[k][v]
      BY <2>1, <2>2
    <2> HIDE DEF v
    <2>4. step[k][v] = v + s[k].size
      BY <2>3
    <2> QED
      BY <2>1, <2>3, <2>4 DEF v
  <1> DEFINE f == [k \in 1..n |-> h[k - 1]]
  <1>3. P(f)
    <2>1. ASSUME NEW k \in 1..n PROVE f[k] = IF k = 1 THEN head ELSE f[k - 1] + s[k - 1].size
      <3>1. CASE k = 1
        BY <1>1, <3>1
      <3>2. CASE k # 1
        <4>1. k - 1 \in 1..n
          BY <3>2
        <4>2. h[k - 1] = h[(k - 1) - 1] + s[k - 1].size
          BY <1>2, <4>1
        <4> QED
          BY <3>2, <4>1, <4>2
      <3> QED
        BY <3>1, <3>2
    <2> QED
      BY <2>1
  <1>4. Starts(head, s) = CHOOSE b : P(b)
    BY DEF Starts
  <1> HIDE DEF P, f
  <1>5. P(Starts(head, s))
    BY <1>3, <1>4
  <1> QED
    BY <1>5 DEF P, StartsAt

\* Parts lie behind each other, and each is within what they take together.
LEMMA StartsFacts ==
  ASSUME NEW s, NEW n \in Nat, Len(s) = n, \A i \in 1..n : s[i].size \in Nat, NEW head \in Nat
  PROVE  /\ \A k \in 1..n : Starts(head, s)[k] \in Nat
         /\ n > 0 => Starts(head, s)[1] = head
         /\ \A k \in 1..n : k + 1 \in 1..n => Starts(head, s)[k + 1] = Starts(head, s)[k] + s[k].size
         /\ TotalSize(s) \in Nat
         /\ \A k \in 1..n : s[k].size <= TotalSize(s)
  <1> DEFINE Facts(at, b) ==
               /\ \A k \in 1..n : at[k] \in Nat
               /\ n > 0 => at[1] = b
               /\ \A k \in 1..n : k + 1 \in 1..n => at[k + 1] = at[k] + s[k].size
  <1>1. ASSUME NEW b \in Nat PROVE Facts(Starts(b, s), b)
    <2> DEFINE at == Starts(b, s)
               T == {k \in Nat : k + 1 <= n => at[k + 1] \in Nat}
    <2>1. at = [k \in 1..n |-> IF k = 1 THEN b ELSE at[k - 1] + s[k - 1].size]
      BY StartsRecursion DEF StartsAt
    <2> HIDE DEF at
    <2>2. n > 0 => at[1] = b
      BY <2>1
    <2>3. ASSUME NEW k \in 1..n, k + 1 \in 1..n PROVE at[k + 1] = at[k] + s[k].size
      <3>1. k + 1 # 1 /\ (k + 1) - 1 = k
        OBVIOUS
      <3> QED
        BY <2>1, <2>3, <3>1
    <2>4. 0 \in T
      BY <2>2
    <2>5. ASSUME NEW k \in Nat, k \in T PROVE k + 1 \in T
      <3> SUFFICES ASSUME (k + 1) + 1 <= n PROVE at[(k + 1) + 1] \in Nat
        OBVIOUS
      <3> DEFINE m == k + 1
      <3>1. m \in 1..n /\ m + 1 \in 1..n /\ k + 1 <= n
        OBVIOUS
      <3>2. at[m] \in Nat
        BY <2>5, <3>1
      <3> HIDE DEF m
      <3>3. at[m + 1] = at[m] + s[m].size /\ s[m].size \in Nat
        BY <2>3, <3>1
      <3>4. at[m + 1] \in Nat
        BY <3>2, <3>3
      <3> QED
        BY <3>4 DEF m
    <2> HIDE DEF T
    <2>6. \A k \in Nat : k \in T
      BY <2>4, <2>5, Induction
    <2>7. ASSUME NEW k \in 1..n PROVE at[k] \in Nat
      <3>1. k - 1 \in Nat /\ (k - 1) + 1 = k /\ k <= n
        OBVIOUS
      <3>2. k - 1 \in T
        BY <2>6, <3>1
      <3> QED
        BY <3>1, <3>2 DEF T
    <2> QED
      BY <2>2, <2>3, <2>7 DEF at
  <1>2. Facts(Starts(head, s), head)
    BY <1>1
  <1> DEFINE at == Starts(0, s)
  <1>3. Facts(at, 0)
    BY <1>1
  <1>4. TotalSize(s) = IF n = 0 THEN 0 ELSE at[n] + s[n].size
    BY DEF TotalSize
  <1> HIDE DEF at
  <1>5. TotalSize(s) \in Nat
    <2>1. n # 0 => at[n] \in Nat /\ s[n].size \in Nat
      BY <1>3
    <2> QED
      BY <1>4, <2>1
  <1>6. ASSUME NEW j \in 1..n PROVE s[j].size <= TotalSize(s)
    <2> DEFINE T == {d \in Nat : j + d <= n => at[j + d] + s[j + d].size >= s[j].size}
    <2>1. 0 \in T
      <3>1. at[j] \in Nat /\ s[j].size \in Nat /\ j + 0 = j
        BY <1>3
      <3> QED
        BY <3>1
    <2>2. ASSUME NEW d \in Nat, d \in T PROVE d + 1 \in T
      <3> SUFFICES ASSUME j + (d + 1) <= n
                   PROVE  at[j + (d + 1)] + s[j + (d + 1)].size >= s[j].size
        OBVIOUS
      <3> DEFINE m == j + d
      <3>1. m \in 1..n /\ m + 1 \in 1..n /\ j + (d + 1) = m + 1 /\ j + d <= n
        OBVIOUS
      <3>2. at[m] + s[m].size >= s[j].size
        BY <2>2, <3>1
      <3> HIDE DEF m
      <3>3. at[m + 1] = at[m] + s[m].size /\ s[m + 1].size \in Nat /\ at[m] \in Nat
            /\ s[m].size \in Nat /\ s[j].size \in Nat
        BY <1>3, <3>1
      <3>4. at[m + 1] + s[m + 1].size >= s[j].size
        BY <3>2, <3>3
      <3> QED
        BY <3>1, <3>4
    <2> HIDE DEF T
    <2>3. n - j \in T
      <3>1. n - j \in Nat
        OBVIOUS
      <3> QED
        BY <2>1, <2>2, <3>1, Induction
    <2>4. j + (n - j) = n /\ n # 0
      OBVIOUS
    <2>5. at[n] + s[n].size >= s[j].size
      BY <2>3, <2>4 DEF T
    <2>6. s[j].size \in Nat
      OBVIOUS
    <2> QED
      BY <1>4, <1>5, <2>4, <2>5, <2>6
  <1> QED
    BY <1>2, <1>5, <1>6

\* A string with a length.
IsString(s) == s.len \in Nat

\* The header of a string announces its size, if 16 bits can hold that.
LEMMA StringFacts ==
  ASSUME NEW s, IsString(s)
  PROVE  /\ EncodeString(s).size \in Nat /\ EncodeString(s).size >= 1
         /\ EncodeString(s).of = s
         /\ EncodeString(s).size < 65536 => Announced(EncodeString(s)) = EncodeString(s).size
  <1> DEFINE l == s.len
  <1>1. l \in Nat
    BY DEF IsString
  <1>2. ASSUME NEW e, NEW h \in Nat, NEW z \in Nat, z >= 1, e = Encoded(h, z, s),
               z < 65536 => (IF h % 2 = 1 THEN h \div 2 ELSE z % 65536) = z
        PROVE  /\ e.size \in Nat /\ e.size >= 1 /\ e.of = s
               /\ e.size < 65536 => Announced(e) = e.size
    BY <1>2 DEF Encoded, Announced
  <1> DEFINE e == EncodeString(s)
  <1>3. CASE l = 0
    <2>1. e = Encoded(3, 1, s)
      BY <1>3 DEF EncodeString
    <2>2. (IF 3 % 2 = 1 THEN 3 \div 2 ELSE 1 % 65536) = 1
      OBVIOUS
    <2> HIDE DEF e
    <2> QED
      BY <1>2, <2>1, <2>2 DEF e
  <1>4. CASE l # 0 /\ s.wide
    <2> DEFINE z == 4 + 2 * l
    <2>1. e = Encoded(144, z, s)
      BY <1>4 DEF EncodeString
    <2> HIDE DEF l, e
    <2>2. z \in Nat /\ z >= 1 /\ 144 \in Nat
      BY <1>1
    <2> HIDE DEF z
    <2>3. z < 65536 => (IF 144 % 2 = 1 THEN 144 \div 2 ELSE z % 65536) = z
      BY <2>2
    <2> QED
      BY <1>2, <2>1, <2>2, <2>3 DEF e
  <1>5. CASE l # 0 /\ ~s.wide /\ l > 126
    <2> DEFINE z == 4 + l
    <2>1. e = Encoded(64, z, s)
      BY <1>5 DEF EncodeString, MAX_SHORT_ASCII_LEN
    <2> HIDE DEF l, e
    <2>2. z \in Nat /\ z >= 1 /\ 64 \in Nat
      BY <1>1
    <2> HIDE DEF z
    <2>3. z < 65536 => (IF 64 % 2 = 1 THEN 64 \div 2 ELSE z % 65536) = z
      BY <2>2
    <2> QED
      BY <1>2, <2>1, <2>2, <2>3 DEF e
  <1>6. CASE l # 0 /\ ~s.wide /\ ~(l > 126)
    <2> DEFINE z == l + 1
               h == (2 * (l + 1) + 1) % 256
    <2>1. e = Encoded(h, z, s)
      BY <1>6 DEF EncodeString, MAX_SHORT_ASCII_LEN
    <2> HIDE DEF l, e
    <2>2. z \in Nat /\ z >= 1 /\ h = 2 * z + 1
      BY <1>1, <1>6
    <2> HIDE DEF z, h
    <2>3. h \in Nat /\ (IF h % 2 = 1 THEN h \div 2 ELSE z % 65536) = z
      BY <2>2
    <2> QED
      BY <1>2, <2>1, <2>2, <2>3 DEF e
  <1> QED
    BY <1>3, <1>4, <1>5, <1>6

\* A row that is long enough to be aligned, and that reads as what it was written for
\* unless it is too large for a page.
GoodRow(row) ==
    /\ row.size \in Nat /\ row.size > 3
    /\ row.size <= PAGE_SIZE => ReadRow(row) = Meant(row)

LEMMA RowFacts ==
  ASSUME NEW head \in Nat, head > 3, NEW ids, NEW ofs, NEW s, NEW n \in Nat, Len(s) = n,
         DOMAIN s = 1..n,
         \A i \in 1..n : \E x : IsString(x) /\ s[i] = EncodeString(x),
         \A i \in 1..n : ofs[i] = Starts(head, s)[i]
  PROVE  GoodRow(Row(head, ids, ofs, s))
  <1> DEFINE row == Row(head, ids, ofs, s)
             total == TotalSize(s)
  <1>1. /\ row.size = head + total /\ row.head = head /\ row.ofs = ofs /\ row.strings = s
        /\ row.ids = ids
    BY DEF Row
  <1>2. ASSUME NEW i \in 1..n
        PROVE  s[i].size \in Nat /\ (s[i].size < 65536 => Announced(s[i]) = s[i].size)
    <2>1. PICK x : IsString(x) /\ s[i] = EncodeString(x)
      OBVIOUS
    <2> QED
      BY <2>1, StringFacts
  <1>3. total \in Nat /\ \A i \in 1..n : s[i].size <= total
    BY <1>2, StartsFacts
  <1> HIDE DEF row, total
  <1>4. row.size \in Nat /\ row.size > 3
    BY <1>1, <1>3
  <1>5. ASSUME row.size <= PAGE_SIZE PROVE ReadRow(row) = Meant(row)
    <2>1. ASSUME NEW i \in 1..n PROVE ReadString(row, i) = s[i].of
      <3> DEFINE z == s[i].size
      <3>1. z \in Nat /\ z <= total /\ (z < 65536 => Announced(s[i]) = z)
        BY <1>2, <1>3
      <3>2. total <= 8192
        BY <1>1, <1>3, <1>5, PageAssumption, PageSizeAssumption
      <3> HIDE DEF z
      <3>3. z < 65536
        BY <1>3, <3>1, <3>2
      <3>4. Announced(s[i]) = s[i].size
        BY <3>1, <3>3 DEF z
      <3>5. row.ofs[i] = Starts(row.head, row.strings)[i]
        BY <1>1
      <3> QED
        BY <1>1, <3>4, <3>5 DEF ReadString
    <2> QED
      BY <1>1, <2>1 DEF ReadRow, Meant
  <1> QED
    BY <1>4, <1>5 DEF GoodRow, row
-----------------------------------------------------------------------------
(* Sequences of sequences, and chains of pages.                            *)

\* Functions on 1..n are sequences of length n.
LEMMA SequenceFacts ==
  ASSUME NEW s
  PROVE  /\ IsSequence(s) => Len(s) \in Nat /\ DOMAIN s = 1..Len(s)
                             /\ s = [i \in 1..Len(s) |-> s[i]]
         /\ \A n \in Nat : s = [i \in 1..n |-> s[i]] => IsSequence(s) /\ Len(s) = n
  <1>1. ASSUME IsSequence(s) PROVE Len(s) \in Nat /\ DOMAIN s = 1..Len(s)
                             /\ s = [i \in 1..Len(s) |-> s[i]]
    BY <1>1 DEF IsSequence
  <1>2. ASSUME NEW n \in Nat, s = [i \in 1..n |-> s[i]] PROVE IsSequence(s) /\ Len(s) = n
    <2>1. s \in [1..n -> {s[i] : i \in 1..n}]
      BY <1>2
    <2>2. s \in Seq({s[i] : i \in 1..n}) /\ Len(s) = n
      BY <2>1
    <2> QED
      BY <2>2 DEF IsSequence
  <1> QED
    BY <1>1, <1>2

\* Sequences with the same elements are the same.
LEMMA SameSequence ==
  ASSUME NEW s, NEW t, IsSequence(s), IsSequence(t), Len(s) = Len(t),
         \A i \in 1..Len(s) : s[i] = t[i]
  PROVE  s = t
  <1>1. s = [i \in 1..Len(s) |-> s[i]] /\ t = [i \in 1..Len(t) |-> t[i]]
    BY SequenceFacts
  <1> QED
    BY <1>1

\* What Tail leaves.
LEMMA TailFacts ==
  ASSUME NEW s, IsSequence(s), s # <<>>
  PROVE  /\ Len(s) \in Nat \ {0} /\ Head(s) = s[1]
         /\ IsSequence(Tail(s)) /\ Len(Tail(s)) = Len(s) - 1
         /\ \A i \in 1..Len(s) - 1 : Tail(s)[i] = s[i + 1]
  <1>1. PICK S : s \in Seq(S)
    BY DEF IsSequence
  <1>2. /\ Head(s) \in S /\ Tail(s) \in Seq(S) /\ Len(Tail(s)) = Len(s) - 1
        /\ \A i \in 1..Len(Tail(s)) : Tail(s)[i] = s[i + 1]
    BY <1>1, HeadTailProperties
  <1>3. Len(s) \in Nat /\ Len(s) # 0
    BY <1>1, EmptySeq
  <1> QED
    BY <1>1, <1>2, <1>3 DEF IsSequence

\* A run of T behind another one.
LEMMA RunsConcat ==
  ASSUME NEW T, NEW a \in Nat, NEW b \in Nat, a <= b
  PROVE  [i \in 1..a |-> T[i]] \o [i \in 1..b - a |-> T[a + i]] = [i \in 1..b |-> T[i]]
  <1> DEFINE s == [i \in 1..a |-> T[i]]
             t == [i \in 1..b - a |-> T[a + i]]
             u == [i \in 1..b |-> T[i]]
  <1>1. b - a \in Nat
    OBVIOUS
  <1>2. IsSequence(s) /\ Len(s) = a /\ \A i \in 1..a : s[i] = T[i]
    <2>1. s = [i \in 1..a |-> s[i]]
      OBVIOUS
    <2> QED
      BY <2>1, SequenceFacts
  <1>3. IsSequence(t) /\ Len(t) = b - a /\ \A i \in 1..b - a : t[i] = T[a + i]
    <2>1. t = [i \in 1..b - a |-> t[i]]
      OBVIOUS
    <2> QED
      BY <1>1, <2>1, SequenceFacts
  <1>4. IsSequence(u) /\ Len(u) = b /\ \A i \in 1..b : u[i] = T[i]
    <2>1. u = [i \in 1..b |-> u[i]]
      OBVIOUS
    <2> QED
      BY <2>1, SequenceFacts
  <1> HIDE DEF s, t, u
  <1>5. /\ IsSequence(s \o t) /\ Len(s \o t) = b
        /\ \A i \in 1..a : (s \o t)[i] = s[i]
        /\ \A i \in 1..b - a : (s \o t)[a + i] = t[i]
    <2>1. /\ IsSequence(s \o t) /\ Len(s \o t) = Len(s) + Len(t)
          /\ \A i \in 1..Len(s) : (s \o t)[i] = s[i]
          /\ \A i \in 1..Len(t) : (s \o t)[Len(s) + i] = t[i]
      <3>1. IsSequence(s) /\ IsSequence(t)
        BY <1>2, <1>3
      <3> QED
        BY <3>1, ConcatFacts
    <2>2. a + (b - a) = b
      OBVIOUS
    <2> QED
      BY <1>2, <1>3, <2>1, <2>2
  <1>6. ASSUME NEW i \in 1..b PROVE (s \o t)[i] = u[i]
    <2>1. CASE i <= a
      <3>1. i \in 1..a
        BY <2>1
      <3> QED
        BY <1>2, <1>4, <1>5, <3>1
    <2>2. CASE ~(i <= a)
      <3>1. i - a \in 1..b - a /\ a + (i - a) = i
        BY <2>2
      <3> QED
        BY <1>3, <1>4, <1>5, <3>1
    <2> QED
      BY <2>1, <2>2
  <1>7. s \o t = u
    BY <1>4, <1>5, <1>6, SameSequence
  <1> QED
    BY <1>7 DEF s, t, u

\* Where runs start.
IsSplit(at, n) ==
    at \in [1..n + 1 -> Nat] /\ at[1] = 0 /\ \A j \in 1..n : at[j] <= at[j + 1]

Runs(seqs, n, at, T) ==
    \A j \in 1..n : seqs[j] = [i \in 1..at[j + 1] - at[j] |-> T[at[j] + i]]

\* Runs of T, behind each other, are T up to where the last one ends.
LEMMA FlattenFacts ==
  ASSUME NEW n \in Nat \ {0}, NEW seqs, IsSequence(seqs), Len(seqs) = n, NEW at, IsSplit(at, n),
         NEW T, Runs(seqs, n, at, T)
  PROVE  FlattenSeq(seqs) = [i \in 1..at[n + 1] |-> T[i]]
  <1> DEFINE P(f) == f = [i \in 1..Len(seqs) |-> IF i = 1 THEN seqs[i] ELSE f[i - 1] \o seqs[i]]
             G(j) == [i \in 1..at[j + 1] |-> T[i]]
             g == [j \in 1..n |-> G(j)]
             walk == CHOOSE f : P(f)
  <1>1. /\ at[1] = 0 /\ \A j \in 1..n : at[j] \in Nat /\ at[j + 1] \in Nat /\ at[j] <= at[j + 1]
    BY DEF IsSplit
  <1>2. G(1) = seqs[1]
    <2>1. 1 \in 1..n /\ at[1 + 1] - at[1] = at[1 + 1]
      BY <1>1
    <2>2. \A i \in 1..at[1 + 1] : at[1] + i = i
      BY <1>1
    <2> QED
      BY <2>1, <2>2 DEF Runs
  <1>3. ASSUME NEW j \in 1..n, j # 1 PROVE G(j) = G(j - 1) \o seqs[j]
    <2> DEFINE a == at[j]
               b == at[j + 1]
    <2>1. a \in Nat /\ b \in Nat /\ a <= b /\ (j - 1) + 1 = j
      BY <1>1
    <2>2. seqs[j] = [i \in 1..b - a |-> T[a + i]]
      BY DEF Runs
    <2> HIDE DEF a, b
    <2>3. [i \in 1..a |-> T[i]] \o [i \in 1..b - a |-> T[a + i]] = [i \in 1..b |-> T[i]]
      BY <2>1, RunsConcat
    <2> QED
      BY <2>1, <2>2, <2>3 DEF a, b
  <1> HIDE DEF G
  <1>4. P(g)
    <2>1. ASSUME NEW j \in 1..n PROVE g[j] = IF j = 1 THEN seqs[j] ELSE g[j - 1] \o seqs[j]
      <3>1. CASE j = 1
        BY <1>2, <3>1
      <3>2. CASE j # 1
        <4>1. j - 1 \in 1..n
          BY <3>2
        <4> QED
          BY <1>3, <3>2, <4>1
      <3> QED
        BY <3>1, <3>2
    <2> QED
      BY <2>1
  <1>5. FlattenSeq(seqs) = walk[n]
    BY DEF FlattenSeq
  <1> HIDE DEF P, g
  <1>6. P(walk)
    BY <1>4
  <1> HIDE DEF walk
  <1>7. \A j \in 1..n : walk[j] = IF j = 1 THEN seqs[j] ELSE walk[j - 1] \o seqs[j]
    BY <1>6 DEF P
  <1> DEFINE S == {k \in Nat : k + 1 <= n => walk[k + 1] = G(k + 1)}
  <1>8. 0 \in S
    <2>1. 1 \in 1..n
      OBVIOUS
    <2> QED
      BY <1>2, <1>7, <2>1
  <1>9. ASSUME NEW k \in Nat, k \in S PROVE k + 1 \in S
    <2> SUFFICES ASSUME (k + 1) + 1 <= n PROVE walk[(k + 1) + 1] = G((k + 1) + 1)
      OBVIOUS
    <2> DEFINE m == (k + 1) + 1
    <2>1. m \in 1..n /\ m # 1 /\ m - 1 = k + 1 /\ k + 1 <= n
      OBVIOUS
    <2>2. walk[k + 1] = G(k + 1)
      BY <1>9, <2>1
    <2> HIDE DEF m
    <2>3. walk[m] = walk[m - 1] \o seqs[m] /\ G(m) = G(m - 1) \o seqs[m]
      BY <1>3, <1>7, <2>1
    <2>4. walk[m] = G(m)
      BY <2>1, <2>2, <2>3
    <2> QED
      BY <2>4 DEF m
  <1> HIDE DEF S
  <1>10. n - 1 \in S
    <2>1. n - 1 \in Nat
      OBVIOUS
    <2> QED
      BY <1>8, <1>9, <2>1, Induction
  <1>11. (n - 1) + 1 = n
    OBVIOUS
  <1>12. walk[n] = G(n)
    BY <1>10, <1>11 DEF S
  <1> QED
    BY <1>5, <1>12 DEF G

\* c leads from its first page to its last, whose next page is beyond the file.
IsChain(c, m, ps, L) ==
    /\ IsSequence(c) /\ Len(c) = m /\ m <= L
    /\ \A i \in 1..m : c[i] \in Nat /\ c[i] < L
    /\ \A i, j \in 1..m : c[i] = c[j] => i = j
    /\ \A i \in 1..m - 1 : ps[c[i] + 1].next = c[i + 1]
    /\ ps[c[m] + 1].next \in Nat /\ ps[c[m] + 1].next >= L

\* A chain of pages is what Chain finds.
LEMMA ChainFacts ==
  ASSUME NEW ps, NEW L \in Nat, Len(ps) = L, NEW c, NEW m \in Nat \ {0}, IsChain(c, m, ps, L)
  PROVE  Chain(ps, c[1]) = c
  <1> DEFINE Step(seen) == LET next == ps[seen[Len(seen)] + 1].next
                           IN  IF next >= Len(ps) \/ next \in Range(seen) THEN seen
                               ELSE Append(seen, next)
             P(f) == f = [k \in 0..Len(ps) |-> IF k = 0 THEN <<c[1]>> ELSE Step(f[k - 1])]
             size(k) == IF k + 1 <= m THEN k + 1 ELSE m
             G(k) == [i \in 1..size(k) |-> c[i]]
             g == [k \in 0..L |-> G(k)]
             walk == CHOOSE f : P(f)
  <1>1. ASSUME NEW k \in Nat
        PROVE  /\ size(k) \in 1..m
               /\ IsSequence(G(k)) /\ Len(G(k)) = size(k) /\ DOMAIN G(k) = 1..size(k)
               /\ \A i \in 1..size(k) : G(k)[i] = c[i]
    <2>1. size(k) \in 1..m
      OBVIOUS
    <2> DEFINE s == size(k)
    <2> HIDE DEF size
    <2>2. G(k) = [i \in 1..s |-> G(k)[i]]
      OBVIOUS
    <2>3. IsSequence(G(k)) /\ Len(G(k)) = s
      <3>1. s \in Nat
        BY <2>1
      <3> DEFINE w == G(k)
      <3>2. w = [i \in 1..s |-> w[i]]
        BY <2>2
      <3> HIDE DEF w, s
      <3>3. IsSequence(w) /\ Len(w) = s
        BY <3>1, <3>2, SequenceFacts
      <3> QED
        BY <3>3 DEF w
    <2> QED
      BY <2>1, <2>3
  <1>2. G(0) = <<c[1]>>
    <2>1. size(0) = 1
      OBVIOUS
    <2>2. G(0) = [i \in 1..1 |-> c[i]]
      BY <2>1
    <2> DEFINE w == [i \in 1..1 |-> c[i]]
    <2>3. w = <<c[1]>>
      OBVIOUS
    <2> QED
      BY <2>2, <2>3
  <1>3. ASSUME NEW k \in Nat PROVE G(k + 1) = Step(G(k))
    <2> DEFINE s == size(k)
               w == G(k)
               x == ps[c[s] + 1].next
    <2>1. /\ s \in 1..m /\ IsSequence(w) /\ Len(w) = s /\ DOMAIN w = 1..s
          /\ \A i \in 1..s : w[i] = c[i]
      BY <1>1
    <2>2. Step(w) = IF x >= L \/ x \in Range(w) THEN w ELSE Append(w, x)
      <3>1. w[Len(w)] = c[s]
        BY <2>1
      <3> QED
        BY <3>1
    <2>3. CASE k + 1 < m
      <3>1. s = k + 1 /\ size(k + 1) = s + 1 /\ s \in 1..m - 1 /\ s + 1 \in 1..m
        BY <2>3
      <3>2. x = c[s + 1] /\ x \in Nat /\ x < L
        BY <3>1 DEF IsChain
      <3>3. x \notin Range(w)
        <4> SUFFICES ASSUME NEW i \in 1..s, w[i] = x PROVE FALSE
          BY <2>1 DEF Range
        <4>1. i \in 1..m /\ c[i] = c[s + 1] /\ i # s + 1
          BY <2>1, <3>1, <3>2
        <4> QED
          BY <3>1, <4>1 DEF IsChain
      <3>4. Step(w) = Append(w, x)
        <4>1. ~(x >= L)
          BY <3>2
        <4> HIDE DEF Step, w, x
        <4> QED
          BY <2>2, <3>3, <4>1
      <3> DEFINE u == G(k + 1)
      <3>5. IsSequence(u) /\ Len(u) = s + 1 /\ \A i \in 1..s + 1 : u[i] = c[i]
        <4>1. k + 1 \in Nat
          OBVIOUS
        <4> QED
          BY <1>1, <3>1, <4>1
      <3> HIDE DEF u, w, x, s, Step
      <3>6. /\ IsSequence(Append(w, x)) /\ Len(Append(w, x)) = s + 1
            /\ Append(w, x)[s + 1] = x /\ \A i \in 1..s : Append(w, x)[i] = w[i]
        BY <2>1, AppendFacts
      <3>7. ASSUME NEW i \in 1..s + 1 PROVE u[i] = Append(w, x)[i]
        <4>1. i \in 1..s \/ i = s + 1
          BY <3>1
        <4> QED
          BY <2>1, <3>2, <3>5, <3>6, <4>1
      <3>8. u = Append(w, x)
        BY <3>5, <3>6, <3>7, SameSequence
      <3> QED
        BY <3>4, <3>8 DEF u, w
    <2>4. CASE ~(k + 1 < m)
      <3>1. s = m /\ size(k + 1) = m
        BY <2>4
      <3>2. G(k + 1) = G(k)
        BY <3>1
      <3>3. x >= L
        BY <3>1 DEF IsChain
      <3> HIDE DEF w, x, s, Step
      <3>4. Step(w) = w
        BY <2>2, <3>3
      <3> QED
        BY <3>2, <3>4 DEF w
    <2> QED
      BY <2>3, <2>4
  <1>4. G(L) = c
    <2>1. size(L) = m
      BY DEF IsChain
    <2>2. c = [i \in 1..m |-> c[i]]
      BY SequenceFacts DEF IsChain
    <2> QED
      BY <2>1, <2>2
  <1>5. Chain(ps, c[1]) = walk[L]
    BY DEF Chain
  <1> HIDE DEF G, Step
  <1>6. P(g)
    <2>1. ASSUME NEW k \in 0..L PROVE g[k] = IF k = 0 THEN <<c[1]>> ELSE Step(g[k - 1])
      <3>1. CASE k = 0
        BY <1>2, <3>1
      <3>2. CASE k # 0
        <4>1. k - 1 \in Nat /\ (k - 1) + 1 = k /\ k - 1 \in 0..L
          BY <3>2
        <4>2. G(k) = Step(G(k - 1))
          BY <1>3, <4>1
        <4> QED
          BY <3>2, <4>1, <4>2
      <3> QED
        BY <3>1, <3>2
    <2> QED
      BY <2>1
  <1> HIDE DEF P, g
  <1>7. P(walk)
    BY <1>6
  <1> HIDE DEF walk
  <1>8. \A k \in 0..L : walk[k] = IF k = 0 THEN <<c[1]>> ELSE Step(walk[k - 1])
    BY <1>7 DEF P
  <1> DEFINE S == {k \in Nat : k <= L => walk[k] = G(k)}
  <1>9. 0 \in S
    BY <1>2, <1>8
  <1>10. ASSUME NEW k \in Nat, k \in S PROVE k + 1 \in S
    <2> SUFFICES ASSUME k + 1 <= L PROVE walk[k + 1] = G(k + 1)
      OBVIOUS
    <2>1. k + 1 \in 0..L /\ k + 1 # 0 /\ (k + 1) - 1 = k /\ k <= L
      OBVIOUS
    <2>2. walk[k] = G(k)
      BY <1>10, <2>1
    <2>3. walk[k + 1] = Step(walk[k])
      BY <1>8, <2>1
    <2> QED
      BY <1>3, <2>2, <2>3
  <1> HIDE DEF S
  <1>11. L \in S
    BY <1>9, <1>10, Induction
  <1>12. walk[L] = G(L)
    BY <1>11 DEF S
  <1> QED
    BY <1>4, <1>5, <1>12
-----------------------------------------------------------------------------
(* Reading a table back.                                                   *)

Counts(ps, c, m, at) == \A i \in 1..m : CountedRows(ps[c[i] + 1]) = at[i + 1] - at[i]

\* count_table_rows adds up what the pages of a chain count.
LEMMA CountFacts ==
  ASSUME NEW ps, NEW first, NEW m \in Nat, NEW c, c = Chain(ps, first), Len(c) = m,
         NEW at, IsSplit(at, m), Counts(ps, c, m, at)
  PROVE  CountTableRows(ps, first) = at[m + 1]
  <1> DEFINE Add(k) == CountedRows(ps[c[k] + 1])
             P(f) == f = [k \in 0..Len(c) |-> IF k = 0 THEN 0 ELSE f[k - 1] + Add(k)]
             g == [k \in 0..m |-> at[k + 1]]
             count == CHOOSE f : P(f)
  <1>1. /\ at[1] = 0 /\ \A k \in 0..m : at[k + 1] \in Nat
    <2>1. \A k \in 0..m : k + 1 \in 1..m + 1
      OBVIOUS
    <2> QED
      BY <2>1 DEF IsSplit
  <1>2. ASSUME NEW k \in 1..m PROVE at[k + 1] = at[k] + Add(k)
    <2> DEFINE a == at[k]
               b == at[k + 1]
    <2>1. a \in Nat /\ b \in Nat
      BY DEF IsSplit
    <2>2. Add(k) = b - a
      BY DEF Counts
    <2> HIDE DEF a, b, Add
    <2>3. b = a + Add(k)
      BY <2>1, <2>2
    <2> QED
      BY <2>3 DEF a, b
  <1> HIDE DEF Add
  <1>3. P(g)
    <2>1. ASSUME NEW k \in 0..m PROVE g[k] = IF k = 0 THEN 0 ELSE g[k - 1] + Add(k)
      <3>1. CASE k = 0
        BY <1>1, <3>1
      <3>2. CASE k # 0
        <4>1. k \in 1..m /\ k - 1 \in 0..m /\ (k - 1) + 1 = k
          BY <3>2
        <4> QED
          BY <1>2, <3>2, <4>1
      <3> QED
        BY <3>1, <3>2
    <2> QED
      BY <2>1
  <1>4. CountTableRows(ps, first) = count[m]
    BY DEF CountTableRows, Add
  <1> HIDE DEF P, g
  <1>5. P(count)
    BY <1>3
  <1> HIDE DEF count
  <1>6. \A k \in 0..m : count[k] = IF k = 0 THEN 0 ELSE count[k - 1] + Add(k)
    BY <1>5 DEF P
  <1> DEFINE S == {k \in Nat : k <= m => count[k] = at[k + 1]}
  <1>7. 0 \in S
    <2>1. 0 \in 0..m /\ 0 + 1 = 1
      OBVIOUS
    <2> QED
      BY <1>1, <1>6, <2>1
  <1>8. ASSUME NEW k \in Nat, k \in S PROVE k + 1 \in S
    <2> SUFFICES ASSUME k + 1 <= m PROVE count[k + 1] = at[(k + 1) + 1]
      OBVIOUS
    <2>1. k + 1 \in 0..m /\ k + 1 \in 1..m /\ k + 1 # 0 /\ (k + 1) - 1 = k /\ k <= m
      OBVIOUS
    <2>2. count[k] = at[k + 1]
      BY <1>8, <2>1
    <2> QED
      BY <1>2, <1>6, <2>1, <2>2
  <1> HIDE DEF S
  <1>9. m \in S
    BY <1>7, <1>8, Induction
  <1>10. count[m] = at[m + 1]
    BY <1>9 DEF S
  <1> QED
    BY <1>4, <1>10

\* A page with the rows behind a up to b.
PageHolds(p, rows, a, b) ==
    /\ RowsIn(p) = [i \in 1..b - a |-> Meant(rows[a + i])]
    /\ CountedRows(p) = b - a

\* The m pages of a chain hold the rows between them.
ChainHolds(c, m, ps, rows, at) ==
    /\ IsSplit(at, m) /\ at[m + 1] = Len(rows)
    /\ \A j \in 1..m : PageHolds(ps[c[j] + 1], rows, at[j], at[j + 1])

\* What the player and the validator find in the chain that starts at page first.
Reads(ps, first, rows) ==
    LET chain == Chain(ps, first)
    IN  /\ FlattenSeq([i \in DOMAIN chain |-> RowsIn(ps[chain[i] + 1])])
              = [i \in DOMAIN rows |-> Meant(rows[i])]
        /\ CountTableRows(ps, first) = Len(rows)

\* The rows of a table that is divided among the pages of its chain are read back.
LEMMA TableReads ==
  ASSUME NEW ps, NEW L \in Nat, Len(ps) = L, NEW c, NEW m \in Nat \ {0}, IsChain(c, m, ps, L),
         NEW rows, IsSequence(rows), NEW at, ChainHolds(c, m, ps, rows, at)
  PROVE  Reads(ps, c[1], rows)
  <1> DEFINE chain == Chain(ps, c[1])
  <1>0. /\ IsSplit(at, m) /\ at[m + 1] = Len(rows)
        /\ \A j \in 1..m : PageHolds(ps[c[j] + 1], rows, at[j], at[j + 1])
    BY DEF ChainHolds
  <1>1. chain = c
    <2> HIDE DEF chain
    <2>1. chain = Chain(ps, c[1])
      BY DEF chain
    <2> QED
      BY <2>1, ChainFacts
  <1> HIDE DEF chain
  <1>2. DOMAIN c = 1..m /\ Len(c) = m /\ DOMAIN rows = 1..Len(rows) /\ Len(rows) \in Nat
    BY SequenceFacts DEF IsChain
  <1> DEFINE seqs == [i \in 1..m |-> RowsIn(ps[c[i] + 1])]
             T == [i \in DOMAIN rows |-> Meant(rows[i])]
             n == Len(rows)
  <1>3. IsSequence(seqs) /\ Len(seqs) = m
    <2>1. seqs = [i \in 1..m |-> seqs[i]]
      OBVIOUS
    <2> HIDE DEF seqs
    <2> QED
      BY <2>1, SequenceFacts
  <1>4. \A j \in 1..m : at[j] \in Nat /\ at[j + 1] \in Nat /\ at[j + 1] <= n
    <2> DEFINE S == {d \in Nat : d <= m => at[(m + 1) - d] <= n}
    <2>1. 0 \in S
      BY <1>0, <1>2
    <2>2. ASSUME NEW d \in Nat, d \in S PROVE d + 1 \in S
      <3> SUFFICES ASSUME d + 1 <= m PROVE at[(m + 1) - (d + 1)] <= n
        OBVIOUS
      <3> DEFINE k == (m + 1) - (d + 1)
      <3>1. k \in 1..m /\ k + 1 = (m + 1) - d /\ d <= m
        OBVIOUS
      <3>2. at[k + 1] <= n
        BY <2>2, <3>1
      <3> HIDE DEF k
      <3>3. at[k] \in Nat /\ at[k + 1] \in Nat /\ at[k] <= at[k + 1]
        BY <1>0, <3>1 DEF IsSplit
      <3>4. at[k] <= n
        BY <1>2, <3>2, <3>3
      <3> QED
        BY <3>4 DEF k
    <2> HIDE DEF S
    <2>3. \A d \in Nat : d \in S
      BY <2>1, <2>2, Induction
    <2>4. ASSUME NEW j \in 1..m PROVE at[j + 1] <= n
      <3>1. m - j \in Nat /\ m - j <= m /\ (m + 1) - (m - j) = j + 1
        OBVIOUS
      <3>2. m - j \in S
        BY <2>3, <3>1
      <3> QED
        BY <3>1, <3>2 DEF S
    <2> QED
      BY <1>0, <2>4 DEF IsSplit
  <1>5. ASSUME NEW j \in 1..m
        PROVE  seqs[j] = [i \in 1..at[j + 1] - at[j] |-> T[at[j] + i]]
    <2> DEFINE a == at[j]
               b == at[j + 1]
    <2>1. seqs[j] = [i \in 1..b - a |-> Meant(rows[a + i])]
      BY <1>0 DEF PageHolds
    <2>2. a \in Nat /\ b \in Nat /\ b <= n
      BY <1>4
    <2> HIDE DEF a, b, seqs
    <2>3. \A i \in 1..b - a : a + i \in 1..n
      BY <1>2, <2>2
    <2> QED
      BY <1>2, <2>1, <2>3 DEF a, b
  <1>6. FlattenSeq(seqs) = [i \in 1..at[m + 1] |-> T[i]]
    <2>1. Runs(seqs, m, at, T)
      BY <1>5 DEF Runs
    <2> HIDE DEF seqs, T
    <2> QED
      BY <1>0, <1>3, <2>1, FlattenFacts
  <1>7. [i \in 1..at[m + 1] |-> T[i]] = T
    <2>1. at[m + 1] = n /\ DOMAIN rows = 1..n
      BY <1>0, <1>2
    <2>2. T = [i \in DOMAIN rows |-> T[i]]
      OBVIOUS
    <2> QED
      BY <2>1, <2>2
  <1>8. CountTableRows(ps, c[1]) = n
    <2>1. Counts(ps, c, m, at)
      BY <1>0 DEF PageHolds, Counts
    <2>2. c = Chain(ps, c[1])
      BY <1>1 DEF chain
    <2>3. CountTableRows(ps, c[1]) = at[m + 1]
      BY <1>0, <1>2, <2>1, <2>2, CountFacts
    <2> QED
      BY <1>0, <2>3
  <1>9. FlattenSeq([i \in DOMAIN chain |-> RowsIn(ps[chain[i] + 1])]) = T
    BY <1>0, <1>1, <1>2, <1>6, <1>7
  <1> QED
    BY <1>8, <1>9 DEF Reads, chain

\* A page holds the rows that were written to it, also when it is stamped or patched;
\* pages without rows hold none.
LEMMA FinalizeHolds ==
  ASSUME NEW p, Sound(p), NEW next, NEW rows, NEW a \in Nat, NEW b \in Nat, b = a + Len(p.rows),
         \A i \in 1..Len(p.rows) : p.rows[i].row = rows[a + i] /\ GoodRow(rows[a + i])
  PROVE  PageHolds(Finalize(p, next), rows, a, b)
  <1> DEFINE n == Len(p.rows)
             f == Finalize(p, next)
  <1>0. n \in Nat /\ b - a = n
    BY RowsApart
  <1>1. ASSUME NEW i \in 1..n PROVE ReadRow(p.rows[i].row) = Meant(p.rows[i].row)
    <2> DEFINE z == p.rows[i].row.size
               at == p.rows[i].at
    <2>1. /\ z \in Nat /\ at \in Nat /\ HEAP_START + (at + z) <= p.pos /\ p.pos \in Nat
          /\ p.pos <= PAGE_SIZE - NumGroups(n) * ROW_GROUP_SIZE
      BY DEF Sound, RowEnd
    <2> DEFINE g == NumGroups(n) * ROW_GROUP_SIZE
    <2>2. g \in Nat
      <3> DEFINE x == NumGroups(n)
      <3>1. x \in Nat /\ ROW_GROUP_SIZE \in Nat
        BY <1>0, IndexFacts, PageAssumption
      <3> HIDE DEF x
      <3>2. x * ROW_GROUP_SIZE \in Nat
        BY <3>1
      <3> QED
        BY <3>2 DEF x
    <2>3. p.pos <= PAGE_SIZE - g
      BY <2>1
    <2> DEFINE w == p.pos
    <2>4. PAGE_SIZE \in Nat /\ HEAP_START \in Nat
      BY PageAssumption
    <2> HIDE DEF z, at, g
    <2>5. /\ z \in Nat /\ at \in Nat /\ HEAP_START + (at + z) <= w /\ w \in Nat
          /\ w <= PAGE_SIZE - g
      BY <2>1, <2>3
    <2> HIDE DEF w
    <2>6. z <= PAGE_SIZE
      BY ONLY <2>2, <2>4, <2>5
    <2> QED
      BY <2>6 DEF GoodRow, z
  <1>2. RowsIn(f) = [i \in 1..n |-> Meant(p.rows[i].row)] /\ CountedRows(f) = n
    BY <1>1, PageReads
  <1> HIDE DEF f
  <1>3. [i \in 1..n |-> Meant(p.rows[i].row)] = [i \in 1..n |-> Meant(rows[a + i])]
    OBVIOUS
  <1> QED
    BY <1>0, <1>2, <1>3 DEF PageHolds, f

\* A page holds what it held when it gets its sequence number or another successor.
LEMMA StampHolds ==
  ASSUME NEW p, IsPage(p), NEW rows, NEW a, NEW b, PageHolds(p, rows, a, b), NEW v
  PROVE  /\ PageHolds([p EXCEPT !.seq = v], rows, a, b)
         /\ PageHolds([p EXCEPT !.next = v], rows, a, b)
  <1>1. ASSUME NEW q, q.packed = p.packed, q.heap = p.heap, q.groups = p.groups
        PROVE  PageHolds(q, rows, a, b)
    <2>1. NumRows(q) = NumRows(p) /\ CountedRows(q) = CountedRows(p)
          /\ \A r : OffsetOf(q, r) = OffsetOf(p, r) /\ (Present(q, r) <=> Present(p, r))
      BY <1>1 DEF NumRows, CountedRows, OffsetOf, Present
    <2>2. RowsIn(q) = RowsIn(p)
      BY <1>1, <2>1 DEF RowsIn
    <2> QED
      BY <2>1, <2>2 DEF PageHolds
  <1>2. /\ [p EXCEPT !.seq = v].packed = p.packed /\ [p EXCEPT !.seq = v].heap = p.heap
        /\ [p EXCEPT !.seq = v].groups = p.groups
        /\ [p EXCEPT !.next = v].packed = p.packed /\ [p EXCEPT !.next = v].heap = p.heap
        /\ [p EXCEPT !.next = v].groups = p.groups
    BY DEF IsPage
  <1> QED
    BY <1>1, <1>2

\* A page that counts no rows holds none.
LEMMA NothingHeld ==
  ASSUME NEW p, p.packed = 0, NEW rows, NEW a \in Nat
  PROVE  PageHolds(p, rows, a, a)
  <1>1. NumRows(p) = 0 /\ CountedRows(p) = 0
    BY DEF NumRows, CountedRows
  <1>2. a - a = 0 /\ 1..0 = {}
    OBVIOUS
  <1>3. RowsIn(p) = [i \in 1..0 |-> Meant(rows[a + i])]
    BY <1>1, <1>2 DEF RowsIn
  <1> QED
    BY <1>1, <1>2, <1>3 DEF PageHolds
-----------------------------------------------------------------------------
(* Sequences that are put behind each other.                               *)

\* at divides what sequences hold together.
Divides(at, n, seqs) ==
    IsSplit(at, n) /\ \A j \in 1..n : IsSequence(seqs[j]) /\ at[j + 1] = at[j] + Len(seqs[j])

\* Sequences that follow each other divide what they hold together.
LEMMA SplitExists ==
  ASSUME NEW n \in Nat, NEW seqs, \A j \in 1..n : IsSequence(seqs[j])
  PROVE  \E at : Divides(at, n, seqs)
  <1> DEFINE step == [k \in 1..n |-> [v \in Nat |-> v + Len(seqs[k])]]
             zero == 0
  <1>1. \A k \in 1..n : Len(seqs[k]) \in Nat
    BY SequenceFacts
  <1>2. PICK h \in [0..n -> Nat] : h[0] = 0 /\ \A k \in 1..n : h[k] = step[k][h[k - 1]]
    <2>1. step \in [1..n -> [Nat -> Nat]]
      <3>1. ASSUME NEW k \in 1..n PROVE [v \in Nat |-> v + Len(seqs[k])] \in [Nat -> Nat]
        <4> DEFINE x == Len(seqs[k])
        <4>1. x \in Nat
          BY <1>1
        <4> HIDE DEF x
        <4>2. [v \in Nat |-> v + x] \in [Nat -> Nat]
          BY <4>1
        <4> QED
          BY <4>2 DEF x
      <3> QED
        BY <3>1
    <2> HIDE DEF step
    <2>2. zero \in Nat
      OBVIOUS
    <2> HIDE DEF zero
    <2>3. \E h \in [0..n -> Nat] : Unrolls(h, n, zero, step)
      BY <2>1, <2>2, Recursion
    <2> QED
      BY <2>3 DEF Unrolls, zero
  <1>3. ASSUME NEW k \in 1..n PROVE h[k - 1] \in Nat /\ h[k] = h[k - 1] + Len(seqs[k])
    <2> DEFINE v == h[k - 1]
    <2>1. v \in Nat /\ h[k] = step[k][v]
      <3>1. k - 1 \in 0..n
        OBVIOUS
      <3>2. h[k - 1] \in Nat
        BY <3>1
      <3> HIDE DEF step
      <3> QED
        BY <1>2, <3>2
    <2> HIDE DEF v
    <2>2. step[k][v] = v + Len(seqs[k])
      BY <2>1
    <2> QED
      BY <2>1, <2>2 DEF v
  <1> DEFINE at == [j \in 1..n + 1 |-> h[j - 1]]
  <1>4. at \in [1..n + 1 -> Nat] /\ at[1] = 0
    <2>1. \A j \in 1..n + 1 : j - 1 \in 0..n
      OBVIOUS
    <2>2. 1 \in 1..n + 1 /\ 1 - 1 = 0
      OBVIOUS
    <2> QED
      BY <1>2, <2>1, <2>2
  <1>5. ASSUME NEW j \in 1..n PROVE at[j + 1] = at[j] + Len(seqs[j]) /\ at[j] <= at[j + 1]
    <2>1. j \in 1..n + 1 /\ j + 1 \in 1..n + 1 /\ (j + 1) - 1 = j
      OBVIOUS
    <2>2. at[j] = h[j - 1] /\ at[j + 1] = h[j]
      BY <2>1
    <2>3. h[j - 1] \in Nat /\ h[j] = h[j - 1] + Len(seqs[j]) /\ Len(seqs[j]) \in Nat
      BY <1>1, <1>3
    <2> HIDE DEF at
    <2> QED
      BY <2>2, <2>3
  <1> HIDE DEF at
  <1> QED
    BY <1>4, <1>5 DEF Divides, IsSplit

\* Splits grow.
LEMMA SplitGrows ==
  ASSUME NEW n \in Nat, NEW at, IsSplit(at, n), NEW j \in 1..n + 1, NEW k \in 1..n + 1, j <= k
  PROVE  at[j] <= at[k]
  <1> DEFINE S == {d \in Nat : j + d <= n + 1 => at[j] <= at[j + d]}
  <1>1. 0 \in S
    <2>1. at[j] \in Nat /\ j + 0 = j
      BY DEF IsSplit
    <2> QED
      BY <2>1
  <1>2. ASSUME NEW d \in Nat, d \in S PROVE d + 1 \in S
    <2> SUFFICES ASSUME j + (d + 1) <= n + 1 PROVE at[j] <= at[j + (d + 1)]
      OBVIOUS
    <2> DEFINE m == j + d
    <2>1. m \in 1..n /\ j + (d + 1) = m + 1 /\ j + d <= n + 1
      OBVIOUS
    <2>2. at[j] <= at[m]
      BY <1>2, <2>1
    <2> HIDE DEF m
    <2>3. at[m] <= at[m + 1] /\ at[j] \in Nat /\ at[m] \in Nat /\ at[m + 1] \in Nat
      BY <2>1 DEF IsSplit
    <2> QED
      BY <2>1, <2>2, <2>3
  <1> HIDE DEF S
  <1>3. k - j \in S
    <2>1. k - j \in Nat
      OBVIOUS
    <2> QED
      BY <1>1, <1>2, <2>1, Induction
  <1>4. j + (k - j) = k
    OBVIOUS
  <1> QED
    BY <1>3, <1>4 DEF S

\* Every place is in one part.
LEMMA PlaceFacts ==
  ASSUME NEW n \in Nat, NEW at, IsSplit(at, n), NEW i \in Nat, i >= 1, i <= at[n + 1]
  PROVE  \E j \in 1..n : at[j] < i /\ i <= at[j + 1]
  <1> DEFINE S == {k \in Nat : k + 1 \in 1..n + 1 /\ i <= at[k + 1]}
  <1>1. n \in S
    OBVIOUS
  <1>2. PICK k \in S : \A m \in S : k <= m
    BY <1>1, LeastElement
  <1>3. k # 0
    <2>1. at[1] = 0 /\ 0 + 1 = 1
      BY DEF IsSplit
    <2>2. ~(i <= 0)
      OBVIOUS
    <2> QED
      BY <2>1, <2>2
  <1>4. k \in 1..n /\ i <= at[k + 1]
    BY <1>3
  <1>5. k - 1 \notin S
    <2>1. ~(k <= k - 1)
      OBVIOUS
    <2> QED
      BY <1>2, <2>1
  <1>6. k - 1 \in Nat /\ (k - 1) + 1 = k /\ k \in 1..n + 1
    BY <1>4
  <1>7. ~(i <= at[k]) /\ at[k] \in Nat
    BY <1>5, <1>6 DEF IsSplit
  <1>8. at[k] < i
    BY <1>7
  <1> QED
    BY <1>4, <1>8

\* Each place lies in one part of a split.
LEMMA PlaceIsOne ==
  ASSUME NEW n \in Nat, NEW at, IsSplit(at, n), NEW i \in Nat,
         NEW j \in 1..n, at[j] < i, i <= at[j + 1],
         NEW k \in 1..n, at[k] < i, i <= at[k + 1]
  PROVE  j = k
  <1>1. ASSUME NEW x \in 1..n, NEW y \in 1..n, x < y, at[y] < i, i <= at[x + 1] PROVE FALSE
    <2>1. x + 1 \in 1..n + 1 /\ y \in 1..n + 1 /\ x + 1 <= y
      BY <1>1
    <2>2. at[x + 1] <= at[y]
      BY <2>1, SplitGrows
    <2>3. at[x + 1] \in Nat /\ at[y] \in Nat
      BY <2>1 DEF IsSplit
    <2> QED
      BY <1>1, <2>2, <2>3
  <1>2. ~(j < k) /\ ~(k < j)
    BY <1>1
  <1> QED
    BY <1>2

\* What is flattened has the elements of the parts, each at its place.
LEMMA FlattenElements ==
  ASSUME NEW n \in Nat, NEW seqs, IsSequence(seqs), Len(seqs) = n, NEW at, Divides(at, n, seqs),
         NEW all, all = FlattenSeq(seqs)
  PROVE  /\ IsSequence(all) /\ Len(all) = at[n + 1]
         /\ \A j \in 1..n : \A k \in 1..Len(seqs[j]) :
               at[j] + k \in 1..Len(all) /\ all[at[j] + k] = seqs[j][k]
         /\ \A i \in 1..Len(all) : \E j \in 1..n : \E k \in 1..Len(seqs[j]) : i = at[j] + k
  <1>0. /\ IsSplit(at, n) /\ at[n + 1] \in Nat
        /\ \A j \in 1..n : /\ at[j] \in Nat /\ at[j + 1] \in Nat /\ at[j] <= at[j + 1]
                           /\ at[j + 1] = at[j] + Len(seqs[j])
                           /\ Len(seqs[j]) \in Nat
                           /\ seqs[j] = [k \in 1..Len(seqs[j]) |-> seqs[j][k]]
    BY SequenceFacts DEF Divides, IsSplit
  <1> DEFINE In(i, j) == at[j] < i /\ i <= at[j + 1]
             Part(i) == CHOOSE j \in 1..n : In(i, j)
             T == [i \in 1..at[n + 1] |-> seqs[Part(i)][i - at[Part(i)]]]
  <1>1. ASSUME NEW j \in 1..n, NEW k \in 1..Len(seqs[j])
        PROVE  at[j] + k \in 1..at[n + 1] /\ T[at[j] + k] = seqs[j][k]
    <2> DEFINE i == at[j] + k
    <2>1. i \in Nat /\ i >= 1 /\ In(i, j) /\ i - at[j] = k
      <3> DEFINE a == at[j]
                 b == at[j + 1]
                 l == Len(seqs[j])
      <3>1. a \in Nat /\ b = a + l /\ l \in Nat /\ k \in 1..l
        BY <1>0
      <3> HIDE DEF a, b, l
      <3>2. a + k \in Nat /\ a + k >= 1 /\ a < a + k /\ a + k <= b /\ (a + k) - a = k
        BY <3>1
      <3> QED
        BY <3>2 DEF a, b
    <2>2. at[j + 1] <= at[n + 1]
      <3>1. j + 1 \in 1..n + 1 /\ n + 1 \in 1..n + 1 /\ j + 1 <= n + 1
        OBVIOUS
      <3> QED
        BY <1>0, <3>1, SplitGrows
    <2>3. i \in 1..at[n + 1]
      <3> HIDE DEF i
      <3>1. at[j + 1] \in Nat /\ at[n + 1] \in Nat
        BY <1>0
      <3> QED
        BY <2>1, <2>2, <3>1
    <2>4. Part(i) = j
      <3> HIDE DEF i
      <3>1. Part(i) \in 1..n /\ In(i, Part(i))
        BY <2>1
      <3> QED
        BY <1>0, <2>1, <3>1, PlaceIsOne
    <2> HIDE DEF i, Part
    <2>5. T[i] = seqs[j][k]
      BY <2>1, <2>3, <2>4
    <2> QED
      BY <2>3, <2>5 DEF i
  <1>2. ASSUME NEW i \in 1..at[n + 1]
        PROVE  \E j \in 1..n : \E k \in 1..Len(seqs[j]) : i = at[j] + k
    <2>1. i \in Nat /\ i >= 1 /\ i <= at[n + 1]
      BY <1>0
    <2>2. PICK j \in 1..n : at[j] < i /\ i <= at[j + 1]
      BY <1>0, <2>1, PlaceFacts
    <2> DEFINE a == at[j]
               b == at[j + 1]
               l == Len(seqs[j])
    <2>3. a \in Nat /\ l \in Nat /\ b = a + l /\ a < i /\ i <= b
      BY <1>0, <2>2
    <2> HIDE DEF a, b, l
    <2>4. i - a \in 1..l /\ i = a + (i - a)
      BY <2>1, <2>3
    <2> QED
      BY <2>4 DEF a, l
  <1> HIDE DEF T
  <1>3. CASE n = 0
    <2>1. all = <<>> /\ Len(all) = 0
      <3>1. all = seqs
        BY <1>3 DEF FlattenSeq
      <3> QED
        BY <1>3, <3>1 DEF IsSequence
    <2>2. at[n + 1] = 0
      BY <1>0, <1>3 DEF IsSplit
    <2> QED
      BY <1>3, <2>1, <2>2 DEF IsSequence
  <1>4. CASE n # 0
    <2>1. Runs(seqs, n, at, T)
      <3>1. ASSUME NEW j \in 1..n
            PROVE  seqs[j] = [i \in 1..at[j + 1] - at[j] |-> T[at[j] + i]]
        <4> DEFINE l == Len(seqs[j])
                   s == seqs[j]
        <4>1. at[j + 1] - at[j] = l
          BY <1>0
        <4>2. s = [k \in 1..l |-> s[k]]
          BY <1>0
        <4>3. \A k \in 1..l : T[at[j] + k] = s[k]
          BY <1>1
        <4> HIDE DEF l, s
        <4>4. s = [i \in 1..at[j + 1] - at[j] |-> T[at[j] + i]]
          BY <4>1, <4>2, <4>3
        <4> QED
          BY <4>4 DEF s
      <3> QED
        BY <3>1 DEF Runs
    <2>2. n \in Nat \ {0}
      BY <1>4
    <2>3. all = [i \in 1..at[n + 1] |-> T[i]]
      BY <1>0, <2>1, <2>2, FlattenFacts
    <2>4. all = [i \in 1..at[n + 1] |-> all[i]] /\ \A i \in 1..at[n + 1] : all[i] = T[i]
      BY <2>3
    <2>5. IsSequence(all) /\ Len(all) = at[n + 1]
      BY <1>0, <2>4, SequenceFacts
    <2>6. ASSUME NEW j \in 1..n, NEW k \in 1..Len(seqs[j])
          PROVE  at[j] + k \in 1..Len(all) /\ all[at[j] + k] = seqs[j][k]
      BY <1>1, <2>4, <2>5
    <2>7. \A i \in 1..Len(all) : \E j \in 1..n : \E k \in 1..Len(seqs[j]) : i = at[j] + k
      BY <1>2, <2>5
    <2> QED
      BY <2>5, <2>6, <2>7
  <1> QED
    BY <1>3, <1>4
-----------------------------------------------------------------------------
(* What the builder keeps, and the rows it makes of that.                  *)

\* Names, and what the builder keeps of tracks and playlists.
GoodNames(s) == IsSequence(s) /\ \A i \in 1..Len(s) : IsString(s[i])

GoodAnalysis(a) ==
    /\ IsString(a.title) /\ IsString(a.artist) /\ IsString(a.album) /\ IsString(a.genre)
    /\ IsString(a.label) /\ IsString(a.date) /\ IsString(a.comment) /\ IsString(a.artwork)
    /\ IsString(a.analyzePath)
    /\ a.path = [id |-> a.path.id, len |-> 30, wide |-> FALSE]
    /\ a.key \in 0..24

\* An id leads to the name it stands for; an empty one has the id 0.
Leads(names, id, s) ==
    IF s.len = 0 THEN id = 0 ELSE id \in 1..Len(names) /\ names[id] = s

TrackOK(d, t) ==
    /\ GoodAnalysis(t.analysis)
    /\ Leads(d.artists, t.artist, t.analysis.artist)
    /\ Leads(d.genres, t.genre, t.analysis.genre)
    /\ Leads(d.labels, t.label, t.analysis.label)
    /\ IF t.analysis.album.len = 0 THEN t.album = 0
       ELSE t.album \in 1..Len(d.albums) /\ d.albums[t.album] = AlbumKey(t.analysis.album, t.artist)
    /\ IF t.analysis.key = NoKey THEN t.key = 0
       ELSE t.key \in 1..Len(d.keys) /\ d.keys[t.key] = ToRekordboxId(t.analysis.key)

GoodDb(d) ==
    /\ d = [tracks |-> d.tracks, artists |-> d.artists, albums |-> d.albums,
            genres |-> d.genres, labels |-> d.labels, keys |-> d.keys,
            artworks |-> d.artworks, playlists |-> d.playlists]
    /\ GoodNames(d.artists) /\ GoodNames(d.genres) /\ GoodNames(d.labels)
    /\ GoodNames(d.artworks)
    /\ IsSequence(d.albums) /\ \A i \in 1..Len(d.albums) : IsString(d.albums[i].name)
    /\ IsSequence(d.keys)
    /\ IsSequence(d.tracks) /\ \A i \in 1..Len(d.tracks) : TrackOK(d, d.tracks[i])
    /\ IsSequence(d.playlists)
    /\ \A i \in 1..Len(d.playlists) :
          IsString(d.playlists[i].name) /\ IsSequence(d.playlists[i].tracks)

DbOK == GoodDb(db)

\* The offset of a single string.
LEMMA SingleFacts ==
  ASSUME NEW x, NEW s, s = Encode(<<x>>), IsString(x)
  PROVE  /\ Len(s) = 1 /\ DOMAIN s = 1..1 /\ s[1] = EncodeString(x)
         /\ \A head \in Nat : Starts(head, s)[1] = head
  <1> DEFINE t == <<x>>
             e == EncodeString(x)
             one == 1
  <1>1. DOMAIN t = 1..one /\ t[1] = x
    OBVIOUS
  <1>2. s = [i \in 1..one |-> EncodeString(t[i])]
    BY <1>1 DEF Encode
  <1>3. s = [i \in 1..one |-> s[i]] /\ s[1] = e
    BY <1>1, <1>2
  <1>4. e.size \in Nat
    BY StringFacts
  <1> HIDE DEF t, e
  <1>5. Len(s) = one /\ DOMAIN s = 1..one
    <2>1. one \in Nat
      OBVIOUS
    <2> HIDE DEF one
    <2> QED
      BY <1>3, <2>1, SequenceFacts
  <1>6. ASSUME NEW head \in Nat PROVE Starts(head, s)[1] = head
    <2>1. one \in Nat /\ one > 0 /\ \A i \in 1..one : s[i].size \in Nat
      BY <1>3, <1>4
    <2> HIDE DEF one
    <2> QED
      BY <1>5, <2>1, StartsFacts
  <1> QED
    BY <1>3, <1>5, <1>6 DEF e

\* Rows with one string, and without any.
LEMMA NameRowIsGood ==
  ASSUME NEW name, IsString(name), NEW head \in Nat, head > 3, NEW ids
  PROVE  GoodRow(NameRow(head, ids, name)) /\ GoodRow(OffsetNameRow(head, ids, name))
  <1> DEFINE s == Encode(<<name>>)
             one == 1
  <1>1. /\ Len(s) = 1 /\ DOMAIN s = 1..1 /\ s[1] = EncodeString(name)
        /\ \A h \in Nat : Starts(h, s)[1] = h
    BY SingleFacts
  <1>2. s = <<EncodeString(name)>>
    BY DEF Encode
  <1> HIDE DEF s
  <1>3. ASSUME NEW h \in Nat, h > 3 PROVE GoodRow(Row(h, ids, <<h>>, s))
    <2> DEFINE ofs == <<h>>
    <2>1. /\ one \in Nat /\ Len(s) = one /\ DOMAIN s = 1..one
          /\ \A i \in 1..one : \E x : IsString(x) /\ s[i] = EncodeString(x)
          /\ \A i \in 1..one : ofs[i] = Starts(h, s)[i]
      BY <1>1
    <2> HIDE DEF one, ofs
    <2>2. GoodRow(Row(h, ids, ofs, s))
      BY <1>3, <2>1, RowFacts
    <2> QED
      BY <2>2 DEF ofs
  <1>4. GoodRow(NameRow(head, ids, name))
    BY <1>3 DEF NameRow, s
  <1>5. GoodRow(OffsetNameRow(head, ids, name))
    <2> DEFINE e == EncodeString(name)
               h == IF e.size <= 200 THEN head ELSE head + 2
    <2>1. h \in Nat /\ h > 3
      OBVIOUS
    <2>2. OffsetNameRow(head, ids, name) = Row(h, ids, <<h>>, s)
      BY <1>2 DEF OffsetNameRow
    <2> HIDE DEF h
    <2> QED
      BY <1>3, <2>1, <2>2
  <1> QED
    BY <1>4, <1>5

\* A row without strings.
LEMMA BareRowIsGood ==
  ASSUME NEW head \in Nat, head > 3, NEW ids
  PROVE  GoodRow(Row(head, ids, <<>>, <<>>))
  <1> DEFINE none == 0
             s == <<>>
  <1>1. /\ none \in Nat /\ Len(s) = none /\ DOMAIN s = 1..none
        /\ \A i \in 1..none : \E x : IsString(x) /\ s[i] = EncodeString(x)
        /\ \A i \in 1..none : s[i] = Starts(head, s)[i]
    OBVIOUS
  <1> HIDE DEF none, s
  <1>2. GoodRow(Row(head, ids, s, s))
    BY <1>1, RowFacts
  <1> QED
    BY <1>2 DEF s

\* A row of the track table, whatever its 21 strings.
LEMMA TrackRowIsGood ==
  ASSUME NEW t, GoodAnalysis(t.analysis)
  PROVE  GoodRow(TrackRow(t))
  <1> DEFINE a == t.analysis
             names == TrackStrings(a)
             s == Encode(names)
             n == 21
             head == FIXED_SIZE + 2 * STRING_COUNT
             ids == [id |-> t.analysis.id, artist |-> t.artist, album |-> t.album,
                     genre |-> t.genre, label |-> t.label, key |-> t.key,
                     artwork |-> t.artwork]
  <1>1. IsString(NoString) /\ IsString(FileName(a.path)) /\ IsString(a.path)
    <2>1. IsString(NoString)
      BY DEF NoString, IsString
    <2>2. a.path = [id |-> a.path.id, len |-> 30, wide |-> FALSE]
      BY DEF GoodAnalysis
    <2> DEFINE p == a.path
    <2>3. p.len = 30 /\ FileName(p).len = 20
      <3>1. \A q, x : q = [id |-> x, len |-> 30, wide |-> FALSE]
                         => q.len = 30 /\ [q EXCEPT !.id = <<"name">> \o @, !.len = @ - 10].len = 20
        OBVIOUS
      <3> QED
        BY <2>2, <3>1 DEF FileName
    <2> HIDE DEF a, p
    <2>4. IsString(p) /\ IsString(FileName(p))
      BY <2>3 DEF IsString
    <2> QED
      BY <2>1, <2>4 DEF p
  <1>2. DOMAIN names = 1..n /\ \A i \in 1..n : IsString(names[i])
    <2>1. names = [i \in 1..n |->
                      CASE i = 12 -> a.date [] i = 15 -> a.analyzePath [] i = 17 -> a.comment
                        [] i = 18 -> a.title [] i = 20 -> FileName(a.path) [] i = 21 -> a.path
                        [] OTHER -> NoString]
      BY DEF TrackStrings, STRING_COUNT
    <2>2. /\ IsString(a.date) /\ IsString(a.analyzePath) /\ IsString(a.comment)
          /\ IsString(a.title)
      BY DEF GoodAnalysis
    <2> HIDE DEF names, a
    <2>3. DOMAIN names = 1..n
      BY <2>1
    <2>4. ASSUME NEW i \in 1..n PROVE IsString(names[i])
      <3>1. names[i] = CASE i = 12 -> a.date [] i = 15 -> a.analyzePath [] i = 17 -> a.comment
                         [] i = 18 -> a.title [] i = 20 -> FileName(a.path) [] i = 21 -> a.path
                         [] OTHER -> NoString
        BY <2>1
      <3>2. names[i] \in {a.date, a.analyzePath, a.comment, a.title, FileName(a.path), a.path,
                          NoString}
        BY <3>1
      <3> QED
        BY <1>1, <2>2, <3>2
    <2> QED
      BY <2>3, <2>4
  <1> HIDE DEF names, a
  <1>3. /\ s = [i \in 1..n |-> s[i]] /\ DOMAIN s = 1..n
        /\ \A i \in 1..n : \E x : IsString(x) /\ s[i] = EncodeString(x)
    BY <1>2 DEF Encode
  <1> HIDE DEF s, ids
  <1>4. head \in Nat /\ head > 3 /\ n \in Nat
    BY DEF FIXED_SIZE, STRING_COUNT
  <1>5. TrackRow(t) = Row(head, ids, Starts(head, s), s)
    BY DEF TrackRow, s, names, a, ids
  <1> HIDE DEF head, n
  <1>6. Len(s) = n
    BY <1>3, <1>4, SequenceFacts
  <1> DEFINE ofs == Starts(head, s)
  <1>7. \A i \in 1..n : ofs[i] = Starts(head, s)[i]
    OBVIOUS
  <1> HIDE DEF ofs
  <1>8. GoodRow(Row(head, ids, ofs, s))
    BY <1>3, <1>4, <1>6, <1>7, RowFacts
  <1> QED
    BY <1>5, <1>8 DEF ofs

GoodRows(rows) == IsSequence(rows) /\ \A i \in 1..Len(rows) : GoodRow(rows[i])

\* Rows that are made one by one.
LEMMA RowByRow ==
  ASSUME NEW s, IsSequence(s), NEW rows, rows = [i \in DOMAIN s |-> rows[i]],
         \A i \in 1..Len(s) : GoodRow(rows[i])
  PROVE  GoodRows(rows) /\ Len(rows) = Len(s)
  <1>1. Len(s) \in Nat /\ DOMAIN s = 1..Len(s)
    BY SequenceFacts
  <1>2. IsSequence(rows) /\ Len(rows) = Len(s)
    BY <1>1, SequenceFacts
  <1> QED
    BY <1>2 DEF GoodRows

\* The rows of playlist entries.
LEMMA EntryRowsAreGood ==
  ASSUME DbOK
  PROVE  GoodRows(PlaylistEntryRows)
  <1> DEFINE n == Len(db.playlists)
             seqs == [p \in DOMAIN db.playlists |->
                        [i \in DOMAIN db.playlists[p].tracks |->
                            EntryRow(i, db.playlists[p].tracks[i], db.playlists[p].id)]]
             all == PlaylistEntryRows
  <1>1. n \in Nat /\ DOMAIN db.playlists = 1..n
    BY SequenceFacts DEF DbOK, GoodDb
  <1>2. ASSUME NEW p \in 1..n PROVE GoodRows(seqs[p])
    <2> DEFINE tracks == db.playlists[p].tracks
               s == [i \in DOMAIN tracks |-> EntryRow(i, tracks[i], db.playlists[p].id)]
    <2>1. seqs[p] = s
      BY <1>1
    <2>2. IsSequence(tracks)
      BY DEF DbOK, GoodDb
    <2>3. s = [i \in DOMAIN tracks |-> s[i]]
      OBVIOUS
    <2>4. DOMAIN tracks = 1..Len(tracks)
      BY <2>2, SequenceFacts
    <2>5. ASSUME NEW i \in 1..Len(tracks) PROVE GoodRow(s[i])
      <3> DEFINE ids == [entry |-> i, track |-> tracks[i], playlist |-> db.playlists[p].id]
                 head == 12
      <3>1. s[i] = Row(head, ids, <<>>, <<>>)
        BY <2>4 DEF EntryRow
      <3>2. head \in Nat /\ head > 3
        OBVIOUS
      <3> HIDE DEF ids, head
      <3>3. GoodRow(Row(head, ids, <<>>, <<>>))
        BY <3>2, BareRowIsGood
      <3> QED
        BY <3>1, <3>3
    <2> HIDE DEF s, tracks
    <2>6. GoodRows(s)
      BY <2>2, <2>3, <2>5, RowByRow
    <2> QED
      BY <2>1, <2>6
  <1>3. seqs = [p \in 1..n |-> seqs[p]] /\ all = FlattenSeq(seqs)
    BY <1>1 DEF PlaylistEntryRows
  <1> HIDE DEF seqs, all
  <1>4. IsSequence(seqs) /\ Len(seqs) = n
    <2> HIDE DEF n
    <2> QED
      BY <1>1, <1>3, SequenceFacts
  <1>5. \A p \in 1..n : IsSequence(seqs[p])
    BY <1>2 DEF GoodRows
  <1> HIDE DEF n
  <1>6. PICK at : Divides(at, n, seqs)
    BY <1>1, <1>5, SplitExists
  <1>n. n \in Nat /\ all = FlattenSeq(seqs)
    BY <1>1, <1>3
  <1>7. /\ IsSequence(all) /\ Len(all) = at[n + 1]
        /\ \A j \in 1..n : \A k \in 1..Len(seqs[j]) :
              at[j] + k \in 1..Len(all) /\ all[at[j] + k] = seqs[j][k]
        /\ \A i \in 1..Len(all) : \E j \in 1..n : \E k \in 1..Len(seqs[j]) : i = at[j] + k
    BY <1>n, <1>4, <1>6, FlattenElements
  <1>8. ASSUME NEW i \in 1..Len(all) PROVE GoodRow(all[i])
    <2>1. PICK j \in 1..n : \E k \in 1..Len(seqs[j]) : i = at[j] + k
      BY <1>7
    <2>2. PICK k \in 1..Len(seqs[j]) : i = at[j] + k
      BY <2>1
    <2>3. all[i] = seqs[j][k]
      BY <1>7, <2>2
    <2> QED
      BY <1>2, <2>3 DEF GoodRows
  <1> QED
    BY <1>7, <1>8 DEF GoodRows, all

\* Rows of a table of names.
LEMMA NamedRowsAreGood ==
  ASSUME NEW s, IsSequence(s), NEW head \in Nat, head > 3,
         NEW rows, rows = [i \in DOMAIN s |-> rows[i]],
         \A i \in 1..Len(s) : \E ids, name : /\ IsString(name)
                                             /\ \/ rows[i] = NameRow(head, ids, name)
                                                \/ rows[i] = OffsetNameRow(head, ids, name)
  PROVE  GoodRows(rows) /\ Len(rows) = Len(s)
  <1>1. ASSUME NEW i \in 1..Len(s) PROVE GoodRow(rows[i])
    <2>1. PICK ids, name : /\ IsString(name)
                           /\ \/ rows[i] = NameRow(head, ids, name)
                              \/ rows[i] = OffsetNameRow(head, ids, name)
      OBVIOUS
    <2> QED
      BY <2>1, NameRowIsGood
  <1> QED
    BY <1>1, RowByRow

\* Rows of a table with built-in content.
LEMMA PlainRowsAreGood ==
  ASSUME NEW n \in Nat, NEW rows, NEW size, \A i \in 1..n : size[i] \in Nat /\ size[i] > 3,
         rows = [i \in 1..n |-> Plain(size[i], i)]
  PROVE  GoodRows(rows) /\ Len(rows) = n
  <1>1. ASSUME NEW i \in 1..n PROVE GoodRow(rows[i])
    <2>1. rows[i] = Row(size[i], [id |-> i], <<>>, <<>>)
      BY DEF Plain
    <2> DEFINE ids == [id |-> i]
               k == size[i]
    <2>2. k \in Nat /\ k > 3
      OBVIOUS
    <2> HIDE DEF ids, k
    <2>3. GoodRow(Row(k, ids, <<>>, <<>>))
      BY <2>2, BareRowIsGood
    <2> QED
      BY <2>1, <2>3 DEF ids, k
  <1>2. rows = [i \in 1..n |-> rows[i]]
    OBVIOUS
  <1>3. IsSequence(rows) /\ Len(rows) = n
    BY <1>2, SequenceFacts
  <1> QED
    BY <1>1, <1>3 DEF GoodRows

\* The rows that are the same in every file.
LEMMA BuiltInRowsAreGood ==
  /\ GoodRows(ColorRows) /\ GoodRows(ColumnRows) /\ GoodRows(Unknown17Rows)
  /\ GoodRows(Unknown18Rows) /\ GoodRows(HistoryRows) /\ GoodRows(<<>>)
  <1>1. GoodRows(ColorRows)
    <2> DEFINE n == 8
               size == [i \in 1..n |-> 8 + Colors[i] + 1]
    <2>1. DOMAIN Colors = 1..8 /\ \A i \in 1..8 : Colors[i] \in Nat
      BY DEF Colors
    <2>2. ColorRows = [i \in 1..n |-> Plain(8 + Colors[i] + 1, i)]
      BY <2>1 DEF ColorRows
    <2>3. ColorRows = [i \in 1..n |-> Plain(size[i], i)]
      BY <2>2
    <2>4. n \in Nat /\ \A i \in 1..n : size[i] \in Nat /\ size[i] > 3
      BY <2>1
    <2> HIDE DEF n, size
    <2> QED
      BY <2>3, <2>4, PlainRowsAreGood
  <1>2. GoodRows(ColumnRows)
    <2> DEFINE n == 27
               size == [i \in 1..n |-> 4 * ((15 + 2 * Columns[i]) \div 4)]
    <2>1. DOMAIN Columns = 1..27 /\ \A i \in 1..27 : Columns[i] \in Nat
      BY DEF Columns
    <2>2. ColumnRows = [i \in 1..n |-> Plain(4 * ((15 + 2 * Columns[i]) \div 4), i)]
      BY <2>1 DEF ColumnRows
    <2>3. ColumnRows = [i \in 1..n |-> Plain(size[i], i)]
      BY <2>2
    <2>4. \A c \in Nat : LET v == 4 * ((15 + 2 * c) \div 4) IN v \in Nat /\ v > 3
      OBVIOUS
    <2>5. n \in Nat /\ \A i \in 1..n : size[i] \in Nat /\ size[i] > 3
      BY <2>1, <2>4
    <2> HIDE DEF n, size
    <2> QED
      BY <2>3, <2>5, PlainRowsAreGood
  <1>3. \A n \in Nat : GoodRows([i \in 1..n |-> Plain(8, i)])
    <2> SUFFICES ASSUME NEW n \in Nat PROVE GoodRows([i \in 1..n |-> Plain(8, i)])
      OBVIOUS
    <2> DEFINE size == [i \in 1..n |-> 8]
               rows == [i \in 1..n |-> Plain(8, i)]
    <2>1. rows = [i \in 1..n |-> Plain(size[i], i)]
      OBVIOUS
    <2>2. \A i \in 1..n : size[i] \in Nat /\ size[i] > 3
      OBVIOUS
    <2> HIDE DEF size, rows
    <2>3. GoodRows(rows)
      BY <2>1, <2>2, PlainRowsAreGood
    <2> QED
      BY <2>3 DEF rows
  <1>4. GoodRows(Unknown17Rows) /\ GoodRows(Unknown18Rows)
    BY <1>3 DEF Unknown17Rows, Unknown18Rows
  <1>5. GoodRows(HistoryRows)
    <2> DEFINE n == 1
               size == [i \in 1..n |-> 40]
    <2>1. HistoryRows = [i \in 1..n |-> Plain(size[i], i)]
      BY DEF HistoryRows
    <2>2. n \in Nat /\ \A i \in 1..n : size[i] \in Nat /\ size[i] > 3
      OBVIOUS
    <2> HIDE DEF n, size
    <2> QED
      BY <2>1, <2>2, PlainRowsAreGood
  <1>6. GoodRows(<<>>)
    BY DEF GoodRows, IsSequence
  <1> QED
    BY <1>1, <1>2, <1>4, <1>5, <1>6

\* Every row that is to be written can be: it is aligned, and reads as it should unless
\* no page can hold it.
LEMMA TableRowsAreGood ==
  ASSUME DbOK
  PROVE  \A t : GoodRows(TableRows(t))
  <1> USE DbOK
  <1>1. GoodRows(TrackRows)
    <2> DEFINE s == db.tracks
               rows == TrackRows
    <2>1. IsSequence(s) /\ \A i \in 1..Len(s) : GoodAnalysis(s[i].analysis)
      BY DEF DbOK, GoodDb, TrackOK
    <2>2. rows = [i \in DOMAIN s |-> TrackRow(s[i])]
      BY DEF TrackRows
    <2> HIDE DEF s, rows
    <2>3. DOMAIN s = 1..Len(s) /\ rows = [i \in DOMAIN s |-> rows[i]]
      BY <2>1, <2>2, SequenceFacts
    <2>4. \A i \in 1..Len(s) : GoodRow(rows[i])
      BY <2>1, <2>2, <2>3, TrackRowIsGood
    <2>5. GoodRows(rows)
      BY <2>1, <2>3, <2>4, RowByRow
    <2> QED
      BY <2>5 DEF rows
  <1>2. ASSUME NEW s, GoodNames(s)
        PROVE  /\ GoodRows([i \in DOMAIN s |-> NameRow(4, [id |-> i], s[i])])
               /\ GoodRows([i \in DOMAIN s |-> OffsetNameRow(10, [id |-> i], s[i])])
    <2> DEFINE f == [i \in DOMAIN s |-> NameRow(4, [id |-> i], s[i])]
               g == [i \in DOMAIN s |-> OffsetNameRow(10, [id |-> i], s[i])]
               four == 4
               ten == 10
    <2>1. IsSequence(s) /\ \A i \in 1..Len(s) : IsString(s[i])
      BY <1>2 DEF GoodNames
    <2>2. DOMAIN s = 1..Len(s)
      BY <2>1, SequenceFacts
    <2>3. /\ f = [i \in DOMAIN s |-> f[i]] /\ g = [i \in DOMAIN s |-> g[i]]
          /\ \A i \in 1..Len(s) : f[i] = NameRow(four, [id |-> i], s[i])
          /\ \A i \in 1..Len(s) : g[i] = OffsetNameRow(ten, [id |-> i], s[i])
          /\ four \in Nat /\ four > 3 /\ ten \in Nat /\ ten > 3
      BY <2>2
    <2> HIDE DEF f, g, four, ten
    <2>6. \A i \in 1..Len(s) : \E ids, name : /\ IsString(name)
                                             /\ \/ f[i] = NameRow(four, ids, name)
                                                \/ f[i] = OffsetNameRow(four, ids, name)
      <3> SUFFICES ASSUME NEW i \in 1..Len(s)
                   PROVE  \E ids, name : /\ IsString(name)
                                         /\ \/ f[i] = NameRow(four, ids, name)
                                            \/ f[i] = OffsetNameRow(four, ids, name)
        OBVIOUS
      <3> DEFINE x == [id |-> i]
      <3>1. f[i] = NameRow(four, x, s[i]) /\ IsString(s[i])
        BY <2>1, <2>3
      <3> HIDE DEF x
      <3> QED
        BY <3>1
    <2>7. \A i \in 1..Len(s) : \E ids, name : /\ IsString(name)
                                             /\ \/ g[i] = NameRow(ten, ids, name)
                                                \/ g[i] = OffsetNameRow(ten, ids, name)
      <3> SUFFICES ASSUME NEW i \in 1..Len(s)
                   PROVE  \E ids, name : /\ IsString(name)
                                         /\ \/ g[i] = NameRow(ten, ids, name)
                                            \/ g[i] = OffsetNameRow(ten, ids, name)
        OBVIOUS
      <3> DEFINE x == [id |-> i]
      <3>1. g[i] = OffsetNameRow(ten, x, s[i]) /\ IsString(s[i])
        BY <2>1, <2>3
      <3> HIDE DEF x
      <3> QED
        BY <3>1
    <2>4. GoodRows(f)
      BY <2>1, <2>3, <2>6, NamedRowsAreGood
    <2>5. GoodRows(g)
      BY <2>1, <2>3, <2>7, NamedRowsAreGood
    <2> QED
      BY <2>4, <2>5 DEF f, g
  <1>3. GoodRows(GenreRows) /\ GoodRows(ArtistRows) /\ GoodRows(LabelRows) /\ GoodRows(ArtworkRows)
    BY <1>2 DEF GenreRows, ArtistRows, LabelRows, ArtworkRows, DbOK, GoodDb
  <1>4. GoodRows(AlbumRows)
    <2> DEFINE s == db.albums
               rows == AlbumRows
               n == 22
    <2>1. IsSequence(s) /\ \A i \in 1..Len(s) : IsString(s[i].name)
      BY DEF DbOK, GoodDb
    <2>2. DOMAIN s = 1..Len(s)
      BY <2>1, SequenceFacts
    <2>3. /\ rows = [i \in DOMAIN s |-> rows[i]]
          /\ \A i \in 1..Len(s) :
                rows[i] = OffsetNameRow(n, [id |-> i, artist |-> s[i].artist], s[i].name)
          /\ n \in Nat /\ n > 3
      BY <2>2 DEF AlbumRows, AlbumRow
    <2> HIDE DEF s, rows, n
    <2>4. GoodRows(rows)
      BY <2>1, <2>3, NamedRowsAreGood
    <2> QED
      BY <2>4 DEF rows
  <1>5. GoodRows(KeyRows)
    <2> DEFINE s == db.keys
               rows == KeyRows
               n == 8
    <2>1. IsSequence(s)
      BY DEF DbOK, GoodDb
    <2>2. DOMAIN s = 1..Len(s)
      BY <2>1, SequenceFacts
    <2>3. /\ rows = [i \in DOMAIN s |-> rows[i]]
          /\ \A i \in 1..Len(s) :
                rows[i] = NameRow(n, [id |-> i], KeyName(FromRekordboxId(s[i])))
          /\ n \in Nat /\ n > 3
      BY <2>2 DEF KeyRows
    <2>4. \A key : IsString(KeyName(key))
      BY DEF KeyName, IsString
    <2> HIDE DEF s, rows, n
    <2>6. \A i \in 1..Len(s) : \E ids, name : /\ IsString(name)
                                             /\ \/ rows[i] = NameRow(n, ids, name)
                                                \/ rows[i] = OffsetNameRow(n, ids, name)
      <3> SUFFICES ASSUME NEW i \in 1..Len(s)
                   PROVE  \E ids, name : /\ IsString(name)
                                         /\ \/ rows[i] = NameRow(n, ids, name)
                                            \/ rows[i] = OffsetNameRow(n, ids, name)
        OBVIOUS
      <3> DEFINE x == [id |-> i]
      <3>1. rows[i] = NameRow(n, x, KeyName(FromRekordboxId(s[i]))) /\ IsString(KeyName(FromRekordboxId(s[i])))
        BY <2>3, <2>4
      <3> HIDE DEF x
      <3> QED
        BY <3>1
    <2>5. GoodRows(rows)
      BY <2>1, <2>3, <2>6, NamedRowsAreGood
    <2> QED
      BY <2>5 DEF rows
  <1>6. GoodRows(PlaylistTreeRows)
    <2> DEFINE s == db.playlists
               rows == PlaylistTreeRows
               n == 20
    <2>1. IsSequence(s) /\ \A i \in 1..Len(s) : IsString(s[i].name)
      BY DEF DbOK, GoodDb
    <2>2. DOMAIN s = 1..Len(s)
      BY <2>1, SequenceFacts
    <2>3. /\ rows = [i \in DOMAIN s |-> rows[i]]
          /\ \A i \in 1..Len(s) :
                rows[i] = NameRow(n, [id |-> s[i].id, sort |-> s[i].sort], s[i].name)
          /\ n \in Nat /\ n > 3
      BY <2>2 DEF PlaylistTreeRows, PlaylistTreeRow
    <2> HIDE DEF s, rows, n
    <2>4. GoodRows(rows)
      BY <2>1, <2>3, NamedRowsAreGood
    <2> QED
      BY <2>4 DEF rows
  <1> QED
    BY <1>1, <1>3, <1>4, <1>5, <1>6, BuiltInRowsAreGood, EntryRowsAreGood DEF TableRows
-----------------------------------------------------------------------------
(* Names become ids.                                                       *)

\* t has the elements of s, and perhaps more behind them.
Grows(s, t) == Len(s) <= Len(t) /\ \A i \in 1..Len(s) : t[i] = s[i]

\* What is created is found again, and what was there keeps its place.
LEMMA GetOrCreateFacts ==
  ASSUME NEW s, IsSequence(s), NEW x, NEW t, t = GetOrCreate(s, x)
  PROVE  /\ IsSequence(t) /\ Grows(s, t)
         /\ IdOf(t, x) \in 1..Len(t) /\ t[IdOf(t, x)] = x
         /\ \A i \in 1..Len(t) : t[i] = x \/ (i \in 1..Len(s) /\ t[i] = s[i])
  <1>1. Len(s) \in Nat /\ DOMAIN s = 1..Len(s)
    BY SequenceFacts
  <1>2. /\ IsSequence(t) /\ Grows(s, t) /\ \E i \in 1..Len(t) : t[i] = x
        /\ \A i \in 1..Len(t) : t[i] = x \/ (i \in 1..Len(s) /\ t[i] = s[i])
    <2>1. CASE x \in Range(s)
      BY <1>1, <2>1 DEF GetOrCreate, Grows, Range
    <2>2. CASE x \notin Range(s)
      <3>1. t = Append(s, x)
        BY <2>2 DEF GetOrCreate
      <3>2. /\ IsSequence(t) /\ Len(t) = Len(s) + 1 /\ t[Len(s) + 1] = x
            /\ \A i \in 1..Len(s) : t[i] = s[i]
        BY <3>1, AppendFacts
      <3>3. \A i \in 1..Len(t) : i \in 1..Len(s) \/ i = Len(s) + 1
        BY <1>1, <3>2
      <3>4. Len(s) + 1 \in 1..Len(t) /\ Len(s) <= Len(t)
        BY <1>1, <3>2
      <3> QED
        BY <3>2, <3>3, <3>4 DEF Grows
    <2> QED
      BY <2>1, <2>2
  <1>3. DOMAIN t = 1..Len(t)
    BY <1>2, SequenceFacts
  <1>4. IdOf(t, x) \in 1..Len(t) /\ t[IdOf(t, x)] = x
    BY <1>2, <1>3 DEF IdOf
  <1> QED
    BY <1>2, <1>4

\* get_or_create of a name: it has an id then, and ids given before stay.
LEMMA NamedFacts ==
  ASSUME NEW s, GoodNames(s), NEW x, IsString(x), NEW t, t = Named(s, x)
  PROVE  GoodNames(t) /\ Grows(s, t) /\ Leads(t, NamedId(s, x), x)
  <1>0. IsSequence(s) /\ \A i \in 1..Len(s) : IsString(s[i])
    BY DEF GoodNames
  <1>1. CASE x.len = 0
    <2>1. t = s /\ NamedId(s, x) = 0 /\ Len(s) \in Nat
      BY <1>0, <1>1, SequenceFacts DEF Named, NamedId
    <2> QED
      BY <1>1, <2>1 DEF Grows, Leads
  <1>2. CASE x.len # 0
    <2>1. t = GetOrCreate(s, x) /\ NamedId(s, x) = IdOf(t, x)
      BY <1>2 DEF Named, NamedId
    <2>2. /\ IsSequence(t) /\ Grows(s, t)
          /\ IdOf(t, x) \in 1..Len(t) /\ t[IdOf(t, x)] = x
          /\ \A i \in 1..Len(t) : t[i] = x \/ (i \in 1..Len(s) /\ t[i] = s[i])
      BY <1>0, <2>1, GetOrCreateFacts
    <2>3. GoodNames(t)
      BY <1>0, <2>2 DEF GoodNames
    <2> QED
      BY <1>2, <2>1, <2>2, <2>3 DEF Leads
  <1> QED
    BY <1>1, <1>2

\* Ids still lead to their names when there are more of them.
LEMMA PlacesStay ==
  ASSUME NEW s, IsSequence(s), NEW t, IsSequence(t), Grows(s, t), NEW id, id \in 1..Len(s)
  PROVE  id \in 1..Len(t) /\ t[id] = s[id]
  <1>1. Len(s) \in Nat /\ Len(t) \in Nat
    BY SequenceFacts
  <1> QED
    BY <1>1 DEF Grows

\* An id leads where it led when its table grows.
LEMMA LeadsStay ==
  ASSUME NEW s, IsSequence(s), NEW t, IsSequence(t), Grows(s, t), NEW id, NEW x, Leads(s, id, x)
  PROVE  Leads(t, id, x)
  BY PlacesStay DEF Leads

\* The parts of the tables after a track was added.
LEMMA DbFields ==
  ASSUME NEW e, NEW tracks, NEW artists, NEW albums, NEW genres, NEW labels, NEW keys,
         NEW artworks, NEW playlists,
         e = [tracks |-> tracks, artists |-> artists, albums |-> albums,
              genres |-> genres, labels |-> labels, keys |-> keys,
              artworks |-> artworks, playlists |-> playlists]
  PROVE  /\ e.tracks = tracks /\ e.artists = artists /\ e.albums = albums
         /\ e.genres = genres /\ e.labels = labels /\ e.keys = keys
         /\ e.artworks = artworks /\ e.playlists = playlists
  OBVIOUS

\* d with another track, as AddTrack makes it.
WithTrack(e, d, a, info) ==
    e = [d EXCEPT
            !.artists = Named(@, a.artist),
            !.albums = IF a.album.len = 0 THEN @
                       ELSE GetOrCreate(@, AlbumKey(a.album, info.artist)),
            !.genres = Named(@, a.genre),
            !.labels = Named(@, a.label),
            !.keys = IF a.key = NoKey THEN @ ELSE GetOrCreate(@, ToRekordboxId(a.key)),
            !.artworks = Named(@, a.artwork),
            !.tracks = Append(@, info)]

\* Another track, whose names are found or created.
LEMMA TrackAdded ==
  ASSUME NEW d, GoodDb(d), NEW a, GoodAnalysis(a), NEW info, info = TrackInfo(a, d),
         NEW e, WithTrack(e, d, a, info)
  PROVE  /\ GoodDb(e) /\ e.playlists = d.playlists /\ e.tracks = Append(d.tracks, info)
         /\ info.analysis = a
  <1> DEFINE artists == Named(d.artists, a.artist)
             album == AlbumKey(a.album, info.artist)
             albums == IF a.album.len = 0 THEN d.albums ELSE GetOrCreate(d.albums, album)
             genres == Named(d.genres, a.genre)
             labels == Named(d.labels, a.label)
             key == ToRekordboxId(a.key)
             keys == IF a.key = NoKey THEN d.keys ELSE GetOrCreate(d.keys, key)
             artworks == Named(d.artworks, a.artwork)
             tracks == Append(d.tracks, info)
  <1>0. /\ GoodNames(d.artists) /\ GoodNames(d.genres) /\ GoodNames(d.labels)
        /\ GoodNames(d.artworks)
        /\ IsSequence(d.albums) /\ \A i \in 1..Len(d.albums) : IsString(d.albums[i].name)
        /\ IsSequence(d.keys)
        /\ IsSequence(d.tracks) /\ \A i \in 1..Len(d.tracks) : TrackOK(d, d.tracks[i])
        /\ IsSequence(d.playlists)
        /\ \A i \in 1..Len(d.playlists) :
              IsString(d.playlists[i].name) /\ IsSequence(d.playlists[i].tracks)
    BY DEF GoodDb
  <1>1. /\ IsString(a.artist) /\ IsString(a.genre) /\ IsString(a.label) /\ IsString(a.artwork)
        /\ IsString(a.album)
    BY DEF GoodAnalysis
  <1>2. /\ info.analysis = a
        /\ info.artist = NamedId(d.artists, a.artist)
        /\ info.genre = NamedId(d.genres, a.genre)
        /\ info.label = NamedId(d.labels, a.label)
        /\ info.album = IF a.album.len = 0 THEN 0 ELSE IdOf(albums, album)
        /\ info.key = IF a.key = NoKey THEN 0 ELSE IdOf(keys, key)
    BY DEF TrackInfo
  <1>3. /\ GoodNames(artists) /\ Grows(d.artists, artists) /\ Leads(artists, info.artist, a.artist)
        /\ GoodNames(genres) /\ Grows(d.genres, genres) /\ Leads(genres, info.genre, a.genre)
        /\ GoodNames(labels) /\ Grows(d.labels, labels) /\ Leads(labels, info.label, a.label)
        /\ GoodNames(artworks)
    BY <1>0, <1>1, <1>2, NamedFacts
  <1>4. /\ IsSequence(albums) /\ Grows(d.albums, albums)
        /\ \A i \in 1..Len(albums) : IsString(albums[i].name)
        /\ a.album.len # 0 => info.album \in 1..Len(albums) /\ albums[info.album] = album
    <2>1. CASE a.album.len = 0
      <3>1. albums = d.albums /\ Len(d.albums) \in Nat
        BY <1>0, <2>1, SequenceFacts
      <3> QED
        BY <1>0, <2>1, <3>1 DEF Grows
    <2>2. CASE a.album.len # 0
      <3>1. albums = GetOrCreate(d.albums, album) /\ info.album = IdOf(albums, album)
        BY <1>2, <2>2
      <3>2. IsString(album.name)
        BY <1>1 DEF AlbumKey
      <3> HIDE DEF albums, album
      <3>3. /\ IsSequence(albums) /\ Grows(d.albums, albums)
            /\ IdOf(albums, album) \in 1..Len(albums) /\ albums[IdOf(albums, album)] = album
            /\ \A i \in 1..Len(albums) :
                  albums[i] = album \/ (i \in 1..Len(d.albums) /\ albums[i] = d.albums[i])
        BY <1>0, <3>1, GetOrCreateFacts
      <3> QED
        BY <1>0, <3>1, <3>2, <3>3
    <2> QED
      BY <2>1, <2>2
  <1>5. /\ IsSequence(keys) /\ Grows(d.keys, keys)
        /\ a.key # NoKey => info.key \in 1..Len(keys) /\ keys[info.key] = key
    <2>1. CASE a.key = NoKey
      <3>1. keys = d.keys /\ Len(d.keys) \in Nat
        BY <1>0, <2>1, SequenceFacts
      <3> QED
        BY <1>0, <2>1, <3>1 DEF Grows
    <2>2. CASE a.key # NoKey
      <3>1. keys = GetOrCreate(d.keys, key) /\ info.key = IdOf(keys, key)
        BY <1>2, <2>2
      <3> HIDE DEF keys, key
      <3> QED
        BY <1>0, <3>1, GetOrCreateFacts
    <2> QED
      BY <2>1, <2>2
  <1>6. /\ IsSequence(tracks) /\ Len(tracks) = Len(d.tracks) + 1 /\ Len(d.tracks) \in Nat
        /\ tracks[Len(d.tracks) + 1] = info
        /\ \A i \in 1..Len(d.tracks) : tracks[i] = d.tracks[i]
    BY <1>0, AppendFacts
  <1>7. e = [d EXCEPT !.artists = artists, !.albums = albums, !.genres = genres,
                      !.labels = labels, !.keys = keys, !.artworks = artworks,
                      !.tracks = tracks]
    BY DEF WithTrack
  <1>8. album = AlbumKey(a.album, info.artist) /\ key = ToRekordboxId(a.key)
    OBVIOUS
  <1>t. tracks = Append(d.tracks, info)
    OBVIOUS
  <1>c. info.album = 0 \/ a.album.len # 0
    BY <1>2
  <1>d. /\ a.album.len = 0 => info.album = 0
        /\ a.key = NoKey => info.key = 0
    BY <1>2
  <1> HIDE DEF artists, album, albums, genres, labels, key, keys, artworks, tracks
  <1>9. e = [tracks |-> tracks, artists |-> artists, albums |-> albums,
             genres |-> genres, labels |-> labels, keys |-> keys,
             artworks |-> artworks, playlists |-> d.playlists]
    BY <1>7 DEF GoodDb
  <1>10. /\ e.tracks = tracks /\ e.artists = artists /\ e.albums = albums
         /\ e.genres = genres /\ e.labels = labels /\ e.keys = keys
         /\ e.artworks = artworks /\ e.playlists = d.playlists
    BY <1>9, DbFields
  <1>11. e = [tracks |-> e.tracks, artists |-> e.artists, albums |-> e.albums,
              genres |-> e.genres, labels |-> e.labels, keys |-> e.keys,
              artworks |-> e.artworks, playlists |-> e.playlists]
    BY <1>9, <1>10
  <1>12. TrackOK(e, info)
    BY <1>2, <1>3, <1>4, <1>5, <1>8, <1>10, <1>d DEF TrackOK
  <1>13. ASSUME NEW i \in 1..Len(d.tracks) PROVE TrackOK(e, d.tracks[i])
    <2> DEFINE t == d.tracks[i]
    <2>1. TrackOK(d, t)
      BY <1>0
    <2>2. /\ IsSequence(d.artists) /\ IsSequence(artists) /\ IsSequence(d.genres)
          /\ IsSequence(genres) /\ IsSequence(d.labels) /\ IsSequence(labels)
      BY <1>0, <1>3 DEF GoodNames
    <2> HIDE DEF t
    <2>3. /\ Leads(e.artists, t.artist, t.analysis.artist)
          /\ Leads(e.genres, t.genre, t.analysis.genre)
          /\ Leads(e.labels, t.label, t.analysis.label)
      <3>1. /\ Leads(d.artists, t.artist, t.analysis.artist)
            /\ Leads(d.genres, t.genre, t.analysis.genre)
            /\ Leads(d.labels, t.label, t.analysis.label)
        BY <2>1 DEF TrackOK
      <3>2. Leads(artists, t.artist, t.analysis.artist)
        BY <1>3, <2>2, <3>1, LeadsStay
      <3>3. Leads(genres, t.genre, t.analysis.genre)
        BY <1>3, <2>2, <3>1, LeadsStay
      <3>4. Leads(labels, t.label, t.analysis.label)
        BY <1>3, <2>2, <3>1, LeadsStay
      <3> QED
        BY <1>10, <3>2, <3>3, <3>4
    <2>4. IF t.analysis.album.len = 0 THEN t.album = 0
          ELSE t.album \in 1..Len(albums) /\ albums[t.album] = AlbumKey(t.analysis.album, t.artist)
      BY <1>0, <1>4, <2>1, PlacesStay DEF TrackOK
    <2>5. IF t.analysis.key = NoKey THEN t.key = 0
          ELSE t.key \in 1..Len(keys) /\ keys[t.key] = ToRekordboxId(t.analysis.key)
      BY <1>0, <1>5, <2>1, PlacesStay DEF TrackOK
    <2>6. TrackOK(e, t)
      BY <1>10, <2>1, <2>3, <2>4, <2>5 DEF TrackOK
    <2> QED
      BY <2>6 DEF t
  <1>14. \A i \in 1..Len(tracks) : TrackOK(e, tracks[i])
    BY <1>6, <1>12, <1>13
  <1>15. GoodDb(e)
    <2>1. /\ GoodNames(e.artists) /\ GoodNames(e.genres) /\ GoodNames(e.labels)
          /\ GoodNames(e.artworks)
          /\ IsSequence(e.albums) /\ \A i \in 1..Len(e.albums) : IsString(e.albums[i].name)
          /\ IsSequence(e.keys)
      BY <1>3, <1>4, <1>5, <1>10
    <2>2. /\ IsSequence(e.tracks) /\ \A i \in 1..Len(e.tracks) : TrackOK(e, e.tracks[i])
      BY <1>6, <1>10, <1>14
    <2>3. /\ IsSequence(e.playlists)
          /\ \A i \in 1..Len(e.playlists) :
                IsString(e.playlists[i].name) /\ IsSequence(e.playlists[i].tracks)
      BY <1>0, <1>10
    <2> QED
      BY <1>11, <2>1, <2>2, <2>3 DEF GoodDb
  <1> QED
    BY <1>2, <1>10, <1>15, <1>t

\* A playlist leaves the other tables alone.
LEMMA PlaylistAdded ==
  ASSUME NEW d, GoodDb(d), NEW p, IsString(p.name), IsSequence(p.tracks),
         NEW e, e = [d EXCEPT !.playlists = Append(@, p)]
  PROVE  GoodDb(e) /\ e.tracks = d.tracks /\ e.playlists = Append(d.playlists, p)
  <1> DEFINE all == Append(d.playlists, p)
  <1>1. /\ IsSequence(all) /\ Len(all) = Len(d.playlists) + 1 /\ Len(d.playlists) \in Nat
        /\ all[Len(d.playlists) + 1] = p
        /\ \A i \in 1..Len(d.playlists) : all[i] = d.playlists[i]
    BY AppendFacts DEF GoodDb
  <1>2. e = [d EXCEPT !.playlists = all] /\ all = Append(d.playlists, p)
    OBVIOUS
  <1> HIDE DEF all
  <1>3. e = [tracks |-> d.tracks, artists |-> d.artists, albums |-> d.albums,
             genres |-> d.genres, labels |-> d.labels, keys |-> d.keys,
             artworks |-> d.artworks, playlists |-> all]
    BY <1>2 DEF GoodDb
  <1>4. /\ e.tracks = d.tracks /\ e.artists = d.artists /\ e.albums = d.albums
        /\ e.genres = d.genres /\ e.labels = d.labels /\ e.keys = d.keys
        /\ e.artworks = d.artworks /\ e.playlists = all
    BY <1>3
  <1>5. e = [tracks |-> e.tracks, artists |-> e.artists, albums |-> e.albums,
             genres |-> e.genres, labels |-> e.labels, keys |-> e.keys,
             artworks |-> e.artworks, playlists |-> e.playlists]
    BY <1>3
  <1>6. \A i \in 1..Len(all) : IsString(all[i].name) /\ IsSequence(all[i].tracks)
    BY <1>1 DEF GoodDb
  <1>7. \A t : TrackOK(d, t) => TrackOK(e, t)
    BY <1>4 DEF TrackOK
  <1> QED
    BY <1>1, <1>2, <1>4, <1>5, <1>6, <1>7 DEF GoodDb
-----------------------------------------------------------------------------
(* A table as it is written: its rows go from the ones that are left to the *)
(* open page, to finished pages, to the file, and are read there.           *)

\* The finished pages ds, the open page p and the rows that are left make up rows.
Filled(at, ds, p, rest, rows) ==
    LET m == Len(ds)
        w == Len(p.rows)
    IN  /\ IsSplit(at, m)
        /\ at[m + 1] + w + Len(rest) = Len(rows)
        /\ \A j \in 1..m : IsPage(ds[j]) /\ PageHolds(ds[j], rows, at[j], at[j + 1])
        /\ \A i \in 1..w : p.rows[i].row = rows[at[m + 1] + i]
        /\ \A i \in 1..Len(rest) : rest[i] = rows[at[m + 1] + w + i]

Written(ds, p, rest, rows) == \E at : Filled(at, ds, p, rest, rows)

\* Before a table is written.
LEMMA NothingWritten ==
  ASSUME NEW rows, IsSequence(rows), NEW p, p.rows = <<>>
  PROVE  Written(<<>>, p, rows, rows)
  <1> DEFINE at == [j \in 1..1 |-> 0]
             none == <<>>
             n == Len(rows)
  <1>1. n \in Nat
    BY SequenceFacts
  <1>2. at \in [1..0 + 1 -> Nat] /\ at[1] = 0 /\ \A j \in 1..0 : at[j] <= at[j + 1]
    OBVIOUS
  <1>3. IsSplit(at, 0) /\ at[1] = 0
    BY <1>2 DEF IsSplit
  <1>4. Len(none) = 0 /\ none = p.rows /\ none = <<>> /\ 0 + 1 = 1
    OBVIOUS
  <1> HIDE DEF at, none
  <1>5. at[0 + 1] + 0 + n = n /\ \A i \in 1..n : at[0 + 1] + 0 + i = i
    BY <1>1, <1>3
  <1>6. Filled(at, none, p, rows, rows)
    BY <1>1, <1>3, <1>4, <1>5 DEF Filled
  <1> QED
    BY <1>4, <1>6 DEF Written

\* A row is written behind the last one.
LEMMA RowWritten ==
  ASSUME NEW ds, IsSequence(ds), NEW p, IsSequence(p.rows), NEW rest, IsSequence(rest),
         rest # <<>>, NEW rows, Written(ds, p, rest, rows),
         NEW q, NEW x, q.rows = Append(p.rows, [at |-> x, row |-> Head(rest)])
  PROVE  Written(ds, q, Tail(rest), rows)
  <1> DEFINE m == Len(ds)
             w == Len(p.rows)
             l == Len(rest)
             tail == Tail(rest)
             e == [at |-> x, row |-> Head(rest)]
  <1>1. PICK at : Filled(at, ds, p, rest, rows)
    BY DEF Written
  <1> DEFINE a == at[m + 1]
  <1>2. /\ IsSplit(at, m) /\ a + w + l = Len(rows)
        /\ \A j \in 1..m : IsPage(ds[j]) /\ PageHolds(ds[j], rows, at[j], at[j + 1])
        /\ \A i \in 1..w : p.rows[i].row = rows[a + i]
        /\ \A i \in 1..l : rest[i] = rows[a + w + i]
    BY <1>1 DEF Filled
  <1>3. m \in Nat /\ w \in Nat /\ l \in Nat \ {0}
    BY SequenceFacts, TailFacts
  <1>4. a \in Nat
    BY <1>2, <1>3 DEF IsSplit
  <1>5. /\ Head(rest) = rest[1] /\ Len(tail) = l - 1
        /\ \A i \in 1..l - 1 : tail[i] = rest[i + 1]
    BY TailFacts
  <1>6. /\ Len(q.rows) = w + 1 /\ q.rows[w + 1] = e
        /\ \A i \in 1..w : q.rows[i] = p.rows[i]
    BY AppendFacts
  <1>7. e.row = Head(rest)
    OBVIOUS
  <1>m. m = Len(ds) /\ a = at[m + 1] /\ a + w + l = Len(rows)
    BY <1>2
  <1> HIDE DEF m, w, l, tail, e, a
  <1>8. e.row = rows[a + w + 1]
    <2>1. 1 \in 1..l
      BY <1>3
    <2>2. rest[1] = rows[a + w + 1]
      BY <1>2, <2>1
    <2> QED
      BY <1>5, <1>7, <2>2
  <1>9. ASSUME NEW i \in 1..w + 1 PROVE q.rows[i].row = rows[a + i]
    <2>1. CASE i = w + 1
      <3>1. a + i = a + w + 1
        BY <1>3, <1>4, <2>1
      <3> QED
        BY <1>6, <1>8, <2>1, <3>1
    <2>2. CASE i # w + 1
      <3>1. i \in 1..w
        BY <1>3, <2>2
      <3> QED
        BY <1>2, <1>6, <3>1
    <2> QED
      BY <2>1, <2>2
  <1>10. ASSUME NEW i \in 1..l - 1 PROVE tail[i] = rows[a + (w + 1) + i]
    <2>1. i + 1 \in 1..l /\ a + (w + 1) + i = a + w + (i + 1)
      BY <1>3, <1>4
    <2> QED
      BY <1>2, <1>5, <2>1
  <1>11. a + (w + 1) + (l - 1) = Len(rows)
    BY <1>3, <1>4, <1>m
  <1>12. Filled(at, ds, q, tail, rows)
    BY <1>2, <1>5, <1>6, <1>9, <1>10, <1>11, <1>m DEF Filled
  <1> QED
    BY <1>12 DEF Written, tail

\* A page that is finished keeps its rows, and another one is filled.
LEMMA PageTurned ==
  ASSUME NEW ds, IsSequence(ds), NEW p, Sound(p), NEW rest, NEW rows, GoodRows(rows),
         IsSequence(rest), Written(ds, p, rest, rows), NEW next, NEW q, q.rows = <<>>
  PROVE  Written(Append(ds, Finalize(p, next)), q, rest, rows)
  <1> DEFINE m == Len(ds)
             w == Len(p.rows)
             l == Len(rest)
             r == Len(rows)
             F == Finalize(p, next)
             all == Append(ds, F)
  <1>1. PICK at : Filled(at, ds, p, rest, rows)
    BY DEF Written
  <1> DEFINE a == at[m + 1]
             to == [j \in 1..(m + 1) + 1 |-> IF j = m + 2 THEN a + w ELSE at[j]]
  <1>2. /\ IsSplit(at, m) /\ a + w + l = r
        /\ \A j \in 1..m : IsPage(ds[j]) /\ PageHolds(ds[j], rows, at[j], at[j + 1])
        /\ \A i \in 1..w : p.rows[i].row = rows[a + i]
        /\ \A i \in 1..l : rest[i] = rows[a + w + i]
    BY <1>1 DEF Filled
  <1>3. m \in Nat /\ w \in Nat /\ l \in Nat /\ r \in Nat
    BY SequenceFacts DEF Sound, GoodRows
  <1>4. a \in Nat
    BY <1>2, <1>3 DEF IsSplit
  <1>5. IsSequence(all) /\ Len(all) = m + 1 /\ all[m + 1] = F /\ \A i \in 1..m : all[i] = ds[i]
    BY AppendFacts
  <1>6. IsPage(F)
    BY DEF Finalize, IsPage
  <1>7. PageHolds(F, rows, a, a + w)
    <2>1. \A i \in 1..w : GoodRow(rows[a + i])
      <3>1. \A i \in 1..w : a + i \in 1..r
        <4> HIDE DEF a, w, l, r
        <4> QED
          BY <1>2, <1>3, <1>4
      <3> QED
        BY <3>1 DEF GoodRows
    <2> DEFINE b == a + w
    <2>2. b \in Nat /\ b = a + w
      BY <1>3, <1>4
    <2>3. \A i \in 1..Len(p.rows) : p.rows[i].row = rows[a + i] /\ GoodRow(rows[a + i])
      BY <1>2, <2>1
    <2> HIDE DEF b, a, F
    <2>4. PageHolds(Finalize(p, next), rows, a, b)
      BY <1>4, <2>2, <2>3, FinalizeHolds
    <2> QED
      BY <2>4 DEF F, b
  <1>8. /\ IsSplit(to, m + 1) /\ to[(m + 1) + 1] = a + w /\ \A j \in 1..m + 1 : to[j] = at[j]
    <2>1. at \in [1..m + 1 -> Nat] /\ at[1] = 0 /\ \A j \in 1..m : at[j] <= at[j + 1]
      BY <1>2 DEF IsSplit
    <2>a. a = at[m + 1]
      OBVIOUS
    <2> HIDE DEF m, w, a
    <2>2. to \in [1..(m + 1) + 1 -> Nat]
      BY <1>3, <1>4, <2>1
    <2>3. \A j \in 1..m + 1 : j \in 1..(m + 1) + 1 /\ j # m + 2 /\ to[j] = at[j]
      BY <1>3
    <2>4. to[(m + 1) + 1] = a + w
      BY <1>3
    <2>5. to[1] = 0
      BY <1>3, <2>1, <2>3
    <2>6. ASSUME NEW j \in 1..m + 1 PROVE to[j] <= to[j + 1]
      <3>1. CASE j = m + 1
        <4>1. to[j] = a /\ to[j + 1] = a + w
          BY <2>3, <2>4, <3>1, <2>a
        <4> QED
          BY <1>3, <1>4, <4>1
      <3>2. CASE j # m + 1
        <4>1. j \in 1..m /\ j + 1 \in 1..m + 1
          BY <1>3, <3>2
        <4> QED
          BY <2>1, <2>3, <4>1
      <3> QED
        BY <3>1, <3>2
    <2> QED
      BY <2>2, <2>3, <2>4, <2>5, <2>6 DEF IsSplit
  <1>e. Len(q.rows) = 0
    OBVIOUS
  <1>a. a = at[m + 1]
    OBVIOUS
  <1> HIDE DEF to, F, a, m, w, all
  <1>9. ASSUME NEW j \in 1..m + 1
        PROVE  IsPage(all[j]) /\ PageHolds(all[j], rows, to[j], to[j + 1])
    <2>1. CASE j = m + 1
      <3>1. to[j] = a /\ to[j + 1] = a + w /\ all[j] = F
        BY <1>5, <1>8, <2>1, <1>a
      <3> QED
        BY <1>6, <1>7, <3>1
    <2>2. CASE j # m + 1
      <3>1. j \in 1..m /\ j + 1 \in 1..m + 1
        BY <1>3, <2>2
      <3>2. all[j] = ds[j] /\ to[j] = at[j] /\ to[j + 1] = at[j + 1]
        BY <1>5, <1>8, <3>1
      <3> QED
        BY <1>2, <3>1, <3>2
    <2> QED
      BY <2>1, <2>2
  <1>10. (a + w) + 0 + l = r /\ \A i \in 1..l : (a + w) + 0 + i = a + w + i
    <2> HIDE DEF l, r
    <2> QED
      BY <1>2, <1>3, <1>4
  <1> DEFINE n == m + 1
             b == a + w
  <1>11. /\ Len(all) = n /\ IsSplit(to, n) /\ to[n + 1] = b
         /\ \A j \in 1..n : IsPage(all[j]) /\ PageHolds(all[j], rows, to[j], to[j + 1])
         /\ b + 0 + l = r /\ \A i \in 1..l : rest[i] = rows[b + 0 + i]
         /\ l = Len(rest) /\ r = Len(rows)
    BY <1>2, <1>5, <1>8, <1>9, <1>10
  <1> HIDE DEF n, b, l, r
  <1>12. Filled(to, all, q, rest, rows)
    BY <1>11, <1>e DEF Filled
  <1> QED
    BY <1>12 DEF Written, all, F

\* The n pages behind the index page first hold rows.
Held(ps, rows, first, n) ==
    \E at : /\ IsSplit(at, n + 1) /\ at[(n + 1) + 1] = Len(rows)
            /\ \A j \in 1..n + 1 :
                  IsPage(ps[first + j]) /\ PageHolds(ps[first + j], rows, at[j], at[j + 1])

\* When its pages are finished the table is held by them.
LEMMA TableHeld ==
  ASSUME NEW all, NEW n \in Nat, Len(all) = n, NEW q, q.rows = <<>>, NEW rows,
         Written(all, q, <<>>, rows),
         NEW ps, NEW L \in Nat, ps[L + 1] = IndexPage(L),
         \A i \in 1..n : \E v : ps[(L + 1) + i] = [all[i] EXCEPT !.seq = v]
  PROVE  Held(ps, rows, L, n)
  <1>1. PICK at : Filled(at, all, q, <<>>, rows)
    BY DEF Written
  <1>2. /\ IsSplit(at, n) /\ at[n + 1] + Len(q.rows) + Len(<<>>) = Len(rows)
        /\ \A j \in 1..n : IsPage(all[j]) /\ PageHolds(all[j], rows, at[j], at[j + 1])
    BY <1>1 DEF Filled
  <1>3. at \in [1..n + 1 -> Nat] /\ at[1] = 0 /\ \A j \in 1..n : at[j] <= at[j + 1]
    BY <1>2 DEF IsSplit
  <1>4. at[n + 1] = Len(rows)
    <2>1. Len(q.rows) = 0 /\ Len(<<>>) = 0 /\ at[n + 1] \in Nat
      BY <1>3
    <2> QED
      BY <1>2, <2>1
  <1> DEFINE to == [j \in 1..(n + 1) + 1 |-> IF j = 1 THEN 0 ELSE at[j - 1]]
             m == n + 1
  <1>5. /\ to \in [1..m + 1 -> Nat] /\ to[1] = 0
        /\ \A j \in 1..m : to[j + 1] = at[j]
        /\ \A j \in 1..m : to[j] <= to[j + 1]
    <2>1. to \in [1..m + 1 -> Nat] /\ to[1] = 0
      BY <1>3
    <2>2. \A j \in 1..m : j + 1 \in 1..(n + 1) + 1 /\ j + 1 # 1 /\ (j + 1) - 1 = j
      OBVIOUS
    <2>3. \A j \in 1..m : to[j + 1] = at[j]
      BY <2>2
    <2>4. ASSUME NEW j \in 1..m PROVE to[j] <= to[j + 1]
      <3>1. CASE j = 1
        BY <1>3, <2>1, <2>3, <3>1
      <3>2. CASE j # 1
        <4>1. PICK i \in 1..n : j = i + 1
          <5>1. j - 1 \in 1..n /\ j = (j - 1) + 1
            BY <3>2
          <5> QED
            BY <5>1
        <4>2. i \in 1..m /\ i + 1 \in 1..m
          BY <4>1
        <4> QED
          BY <1>3, <2>3, <4>1, <4>2
      <3> QED
        BY <3>1, <3>2
    <2> QED
      BY <2>1, <2>3, <2>4
  <1>6. to[m + 1] = Len(rows)
    <2>1. m \in 1..m
      OBVIOUS
    <2> HIDE DEF to
    <2> QED
      BY <1>4, <1>5, <2>1
  <1> HIDE DEF to
  <1>7. ASSUME NEW j \in 1..m
        PROVE  IsPage(ps[L + j]) /\ PageHolds(ps[L + j], rows, to[j], to[j + 1])
    <2>1. CASE j = 1
      <3> DEFINE p == ps[L + 1]
                 none == 0
      <3>1. p = IndexPage(L)
        OBVIOUS
      <3>2. p.packed = 0 /\ IsPage(p)
        BY <3>1 DEF IndexPage, ZeroPage, IsPage
      <3>3. none \in Nat /\ to[1] = none /\ to[1 + 1] = none
        <4>1. 1 \in 1..m
          OBVIOUS
        <4> QED
          BY <1>3, <1>5, <4>1
      <3> HIDE DEF p, none
      <3>4. PageHolds(p, rows, none, none)
        BY <3>2, <3>3, NothingHeld
      <3> QED
        BY <2>1, <3>2, <3>3, <3>4 DEF p
    <2>2. CASE j # 1
      <3>1. PICK i \in 1..n : j = i + 1
        <4>1. j - 1 \in 1..n /\ j = (j - 1) + 1
          BY <2>2
        <4> QED
          BY <4>1
      <3>2. i \in 1..m /\ i + 1 \in 1..m /\ L + j = (L + 1) + i
        BY <3>1
      <3>3. PICK v : ps[L + j] = [all[i] EXCEPT !.seq = v]
        BY <3>1, <3>2
      <3>4. to[j] = at[i] /\ to[j + 1] = at[i + 1]
        BY <1>5, <3>1, <3>2
      <3> DEFINE p == all[i]
                 a == at[i]
                 b == at[i + 1]
      <3>5. IsPage(p) /\ PageHolds(p, rows, a, b)
        BY <1>2, <3>1
      <3>6. ps[L + j] = [p EXCEPT !.seq = v] /\ to[j] = a /\ to[j + 1] = b
        BY <3>3, <3>4
      <3> HIDE DEF p, a, b
      <3>7. PageHolds([p EXCEPT !.seq = v], rows, a, b)
        BY <3>5, StampHolds
      <3>8. IsPage([p EXCEPT !.seq = v])
        BY <3>5 DEF IsPage
      <3> QED
        BY <3>6, <3>7, <3>8
    <2> QED
      BY <2>1, <2>2
  <1>8. IsSplit(to, m)
    BY <1>5 DEF IsSplit
  <1> QED
    BY <1>6, <1>7, <1>8 DEF Held

\* Pages are patched and others are added, and the rows stay.
LEMMA HeldStays ==
  ASSUME NEW ps, NEW rows, NEW first \in Nat, NEW n \in Nat, Held(ps, rows, first, n), NEW qs,
         \A j \in 1..n + 1 : \/ qs[first + j] = ps[first + j]
                             \/ \E v : qs[first + j] = [ps[first + j] EXCEPT !.next = v]
  PROVE  Held(qs, rows, first, n)
  <1>1. PICK at : /\ IsSplit(at, n + 1) /\ at[(n + 1) + 1] = Len(rows)
                  /\ \A j \in 1..n + 1 :
                        /\ IsPage(ps[first + j])
                        /\ PageHolds(ps[first + j], rows, at[j], at[j + 1])
    BY DEF Held
  <1>2. ASSUME NEW j \in 1..n + 1
        PROVE  IsPage(qs[first + j]) /\ PageHolds(qs[first + j], rows, at[j], at[j + 1])
    <2> DEFINE p == ps[first + j]
               q == qs[first + j]
               a == at[j]
               b == at[j + 1]
    <2>1. IsPage(p) /\ PageHolds(p, rows, a, b)
      BY <1>1
    <2>2. q = p \/ \E v : q = [p EXCEPT !.next = v]
      OBVIOUS
    <2> HIDE DEF p, q, a, b
    <2>3. CASE q = p
      BY <2>1, <2>3 DEF p, q, a, b
    <2>4. ASSUME NEW v, q = [p EXCEPT !.next = v] PROVE IsPage(q) /\ PageHolds(q, rows, a, b)
      <3>1. PageHolds([p EXCEPT !.next = v], rows, a, b)
        BY <2>1, StampHolds
      <3>2. IsPage([p EXCEPT !.next = v])
        BY <2>1 DEF IsPage
      <3> QED
        BY <2>4, <3>1, <3>2
    <2> QED
      BY <2>2, <2>3, <2>4 DEF p, q, a, b
  <1> QED
    BY <1>1, <1>2 DEF Held

\* A table is read through its chain.
LEMMA TableIsRead ==
  ASSUME NEW ps, NEW L \in Nat, Len(ps) = L, NEW first \in Nat, NEW n \in Nat, first + n < L,
         NEW rows, IsSequence(rows), Held(ps, rows, first, n),
         \A i \in first..(first + n) - 1 : ps[i + 1].next = i + 1,
         NEW out \in Nat, ps[(first + n) + 1].next = out, out >= L
  PROVE  Reads(ps, first, rows)
  <1> DEFINE m == n + 1
             c == [i \in 1..m |-> first + i - 1]
  <1>1. PICK at : /\ IsSplit(at, n + 1) /\ at[(n + 1) + 1] = Len(rows)
                  /\ \A j \in 1..n + 1 : PageHolds(ps[first + j], rows, at[j], at[j + 1])
    BY DEF Held
  <1>2. m \in Nat \ {0} /\ m <= L /\ n = m - 1
    OBVIOUS
  <1>3. \A i \in 1..m : c[i] = first + i - 1 /\ c[i] \in Nat /\ c[i] < L /\ c[i] + 1 = first + i
    OBVIOUS
  <1>4. IsSequence(c) /\ Len(c) = m
    <2>1. c = [i \in 1..m |-> c[i]]
      OBVIOUS
    <2> HIDE DEF c, m
    <2> QED
      BY <1>2, <2>1, SequenceFacts
  <1>5. \A i, j \in 1..m : c[i] = c[j] => i = j
    <2> HIDE DEF c, m
    <2> QED
      BY <1>2, <1>3
  <1>6. ASSUME NEW i \in 1..m - 1 PROVE ps[c[i] + 1].next = c[i + 1]
    <2>1. i \in 1..m /\ i + 1 \in 1..m
      OBVIOUS
    <2>2. c[i] \in first..(first + n) - 1 /\ c[i + 1] = c[i] + 1
      BY <2>1
    <2> HIDE DEF c
    <2> QED
      BY <2>2
  <1>7. ps[c[m] + 1].next = out
    <2>1. c[m] = first + n
      OBVIOUS
    <2> QED
      BY <2>1
  <1>8. c[1] = first
    OBVIOUS
  <1>9. \A j \in 1..m : PageHolds(ps[c[j] + 1], rows, at[j], at[j + 1])
    BY <1>1, <1>3
  <1>10. IsSplit(at, m) /\ at[m + 1] = Len(rows)
    BY <1>1
  <1> HIDE DEF c, m
  <1>11. IsChain(c, m, ps, L)
    BY <1>2, <1>3, <1>4, <1>5, <1>6, <1>7 DEF IsChain
  <1>12. ChainHolds(c, m, ps, rows, at)
    BY <1>9, <1>10 DEF ChainHolds
  <1>13. Reads(ps, c[1], rows)
    BY <1>2, <1>11, <1>12, TableReads
  <1> QED
    BY <1>8, <1>13

\* A table without rows leads to its page of zeros, and that to page 0.
LEMMA EmptyIsRead ==
  ASSUME NEW ps, NEW L \in Nat, Len(ps) = L, NEW first \in Nat \ {0}, NEW zero \in Nat \ {0},
         first # zero, first < L, zero < L,
         ps[first + 1].next = zero, ps[first + 1].packed = 0,
         ps[zero + 1].next = 0, ps[zero + 1].packed = 0,
         NEW out \in Nat, ps[1].next = out, out >= L, ps[1].packed = 0
  PROVE  Reads(ps, first, <<>>)
  <1> DEFINE m == 3
             c == [i \in 1..m |-> IF i = 1 THEN first ELSE IF i = 2 THEN zero ELSE 0]
             at == [i \in 1..m + 1 |-> 0]
             rows == <<>>
  <1>1. m \in Nat \ {0} /\ m <= L
    OBVIOUS
  <1>2. /\ \A i \in 1..m : c[i] \in Nat /\ c[i] < L
        /\ \A i, j \in 1..m : c[i] = c[j] => i = j
    OBVIOUS
  <1>3. IsSequence(c) /\ Len(c) = m
    <2>1. c = [i \in 1..m |-> c[i]]
      OBVIOUS
    <2> HIDE DEF c, m
    <2> QED
      BY <1>1, <2>1, SequenceFacts
  <1>4. c[1] = first /\ c[2] = zero /\ c[3] = 0
    OBVIOUS
  <1>5. ASSUME NEW i \in 1..m - 1 PROVE ps[c[i] + 1].next = c[i + 1]
    <2>1. i = 1 \/ i = 2
      OBVIOUS
    <2> HIDE DEF c
    <2> QED
      BY <1>4, <2>1
  <1>6. ps[c[m] + 1].next = out
    <2> HIDE DEF c
    <2> QED
      BY <1>4
  <1>7. ASSUME NEW i \in 1..m PROVE ps[c[i] + 1].packed = 0
    <2>1. i = 1 \/ i = 2 \/ i = 3
      OBVIOUS
    <2> HIDE DEF c
    <2> QED
      BY <1>4, <2>1
  <1>8. IsSplit(at, m) /\ at[m + 1] = 0 /\ \A j \in 1..m : at[j] = 0 /\ at[j + 1] = 0
    BY DEF IsSplit
  <1>9. IsSequence(rows) /\ Len(rows) = 0
    BY DEF IsSequence
  <1> HIDE DEF c, m, at, rows
  <1>10. ASSUME NEW j \in 1..m PROVE PageHolds(ps[c[j] + 1], rows, at[j], at[j + 1])
    <2> DEFINE p == ps[c[j] + 1]
               none == 0
    <2>1. p.packed = 0 /\ none \in Nat /\ at[j] = none /\ at[j + 1] = none
      BY <1>7, <1>8
    <2> HIDE DEF p, none
    <2>2. PageHolds(p, rows, none, none)
      BY <2>1, NothingHeld
    <2> QED
      BY <2>1, <2>2 DEF p
  <1>11. IsChain(c, m, ps, L)
    BY <1>1, <1>2, <1>3, <1>5, <1>6 DEF IsChain
  <1>12. ChainHolds(c, m, ps, rows, at)
    BY <1>8, <1>9, <1>10 DEF ChainHolds
  <1>13. Reads(ps, c[1], rows)
    BY <1>1, <1>9, <1>11, <1>12, TableReads
  <1> QED
    BY <1>4, <1>13 DEF rows

\* A page whose rows take no more than m bytes each, with the padding, is filled no
\* further than that.
Tight(p) ==
    \A m \in Nat :
        (\A i \in 1..Len(p.rows) : p.rows[i].row.size + 3 <= m)
            => p.pos <= HEAP_START + Len(p.rows) * m

\* An empty page is filled no further than its rows account for.
LEMMA FreshIsTight ==
  ASSUME NEW index, NEW type
  PROVE  Tight(NewPage(index, type))
  <1> DEFINE p == NewPage(index, type)
             n == Len(p.rows)
  <1>1. p.pos = HEAP_START /\ n = 0
    BY DEF NewPage
  <1> HIDE DEF p, n
  <1>2. \A m \in Nat : p.pos <= HEAP_START + n * m
    BY <1>1, PageAssumption
  <1> QED
    BY <1>2 DEF Tight, p, n

\* Nor is it after a row was written.
LEMMA WriteRowIsTight ==
  ASSUME NEW p, Sound(p), Tight(p), NEW row, row.size \in Nat, row.size > 3,
         ~WouldOverflow(p, row.size)
  PROVE  Tight(WriteRow(p, row))
  <1> DEFINE q == WriteRow(p, row)
             n == Len(p.rows)
             x == p.pos - HEAP_START
             e == [at |-> x, row |-> row]
  <1>1. /\ q.rows = Append(p.rows, e) /\ q.pos \in Nat /\ q.pos <= (p.pos + row.size) + 3
    BY WriteRowIsSound
  <1>2. IsSequence(p.rows) /\ p.pos \in Nat
    BY DEF Sound
  <1>3. e.row = row
    OBVIOUS
  <1> HIDE DEF q, x, e
  <1>4. /\ n \in Nat /\ Len(q.rows) = n + 1 /\ q.rows[n + 1] = e
        /\ \A i \in 1..n : q.rows[i] = p.rows[i]
    BY <1>1, <1>2, AppendFacts
  <1> HIDE DEF n
  <1>5. ASSUME NEW m \in Nat, \A i \in 1..n + 1 : q.rows[i].row.size + 3 <= m
        PROVE  q.pos <= HEAP_START + (n + 1) * m
    <2>1. row.size + 3 <= m
      <3>1. n + 1 \in 1..n + 1
        BY <1>4
      <3> QED
        BY <1>3, <1>4, <1>5, <3>1
    <2>2. \A i \in 1..n : p.rows[i].row.size + 3 <= m
      <3>1. \A i \in 1..n : i \in 1..n + 1
        BY <1>4
      <3> QED
        BY <1>4, <1>5, <3>1
    <2>3. p.pos <= HEAP_START + n * m
      BY <2>2 DEF Tight, n
    <2> DEFINE k == n * m
               a == p.pos
               b == q.pos
               s == row.size
    <2>4. k \in Nat
      BY <1>4
    <2>5. (n + 1) * m = k + m
      BY <1>4
    <2>6. /\ a \in Nat /\ b \in Nat /\ s \in Nat /\ b <= (a + s) + 3
          /\ s + 3 <= m /\ a <= HEAP_START + k
      BY <1>1, <1>2, <2>1, <2>3
    <2> HIDE DEF k, a, b, s
    <2>7. HEAP_START \in Nat
      BY PageAssumption
    <2>8. b <= HEAP_START + (k + m)
      BY <2>4, <2>6, <2>7
    <2> QED
      BY <2>5, <2>8 DEF b
  <1> QED
    BY <1>4, <1>5 DEF Tight, q

\* More rows leave less room.
LEMMA IndexShrinks ==
  ASSUME NEW n \in Nat, NEW k \in Nat, k <= n
  PROVE  IndexStart(k) \in Int /\ IndexStart(n) \in Int /\ IndexStart(n) <= IndexStart(k)
  <1> DEFINE S == {j \in Nat : IndexStart(k + j) <= IndexStart(k)}
  <1>1. \A j \in Nat : IndexStart(j) \in Int /\ IndexStart(j + 1) <= IndexStart(j)
    BY IndexFacts
  <1>2. 0 \in S
    <2>1. k + 0 = k
      OBVIOUS
    <2> QED
      BY <1>1, <2>1
  <1>3. ASSUME NEW j \in Nat, j \in S PROVE j + 1 \in S
    <2>1. (k + j) + 1 = k + (j + 1) /\ k + j \in Nat /\ k + (j + 1) \in Nat
      OBVIOUS
    <2>2. IndexStart(k + (j + 1)) <= IndexStart(k + j)
      BY <1>1, <2>1
    <2> DEFINE a == IndexStart(k + (j + 1))
               b == IndexStart(k + j)
               c == IndexStart(k)
    <2>3. a \in Int /\ b \in Int /\ c \in Int /\ a <= b /\ b <= c
      BY <1>1, <1>3, <2>1, <2>2
    <2> HIDE DEF a, b, c
    <2>4. a <= c
      BY <2>3
    <2> QED
      BY <2>4 DEF a, c
  <1> HIDE DEF S
  <1>4. n - k \in S
    <2>1. n - k \in Nat
      OBVIOUS
    <2> QED
      BY <1>2, <1>3, <2>1, Induction
  <1>5. k + (n - k) = n
    OBVIOUS
  <1> QED
    BY <1>1, <1>4, <1>5 DEF S

\* The rows of a table with built-in content have room on one page.
FitsOnAPage(rows) ==
    \E m \in Nat : /\ \A i \in 1..Len(rows) : rows[i].size + 3 <= m
                   /\ HEAP_START + Len(rows) * m <= IndexStart(Len(rows))

\* Tables with built-in content fit on one page.
LEMMA BuiltInFits ==
  ASSUME NEW t \in FixedTables
  PROVE  FitsOnAPage(TableRows(t))
  <1>1. ASSUME NEW rows \in {ColorRows, ColumnRows, Unknown17Rows, Unknown18Rows, HistoryRows},
               IsSequence(rows)
        PROVE  FitsOnAPage(rows)
    <2>1. PICK m \in 1..PAGE_SIZE :
             /\ \A i \in DOMAIN rows : rows[i].size + 3 <= m
             /\ HEAP_START + Len(rows) * m <= IndexStart(Len(rows))
      BY BuiltInAssumption
    <2>2. DOMAIN rows = 1..Len(rows)
      BY <1>1, SequenceFacts
    <2>3. m \in Nat
      BY PageAssumption
    <2> QED
      BY <2>1, <2>2, <2>3 DEF FitsOnAPage
  <1>2. /\ IsSequence(ColorRows) /\ IsSequence(ColumnRows) /\ IsSequence(Unknown17Rows)
        /\ IsSequence(Unknown18Rows) /\ IsSequence(HistoryRows)
    BY BuiltInRowsAreGood DEF GoodRows
  <1>3. TableRows(t) \in {ColorRows, ColumnRows, Unknown17Rows, Unknown18Rows, HistoryRows}
    BY DEF TableRows, FixedTables
  <1> QED
    BY <1>1, <1>2, <1>3

\* No row of such a table is turned away.
LEMMA BuiltInHasRoom ==
  ASSUME NEW rows, GoodRows(rows), FitsOnAPage(rows),
         NEW p, Sound(p), Tight(p), NEW rest, IsSequence(rest), rest # <<>>,
         Written(<<>>, p, rest, rows)
  PROVE  ~WouldOverflow(p, Head(rest).size)
  <1> DEFINE w == Len(p.rows)
             l == Len(rest)
             n == Len(rows)
             none == <<>>
             s == Head(rest).size
  <1>1. PICK at : Filled(at, none, p, rest, rows)
    BY DEF Written
  <1>2. Len(none) = 0 /\ 0 + 1 = 1
    OBVIOUS
  <1> HIDE DEF none
  <1>3. /\ IsSplit(at, 0) /\ at[1] + w + l = n
        /\ \A i \in 1..w : p.rows[i].row = rows[at[1] + i]
        /\ \A i \in 1..l : rest[i] = rows[at[1] + w + i]
    BY <1>1, <1>2 DEF Filled
  <1>4. at[1] = 0
    BY <1>3 DEF IsSplit
  <1>5. w \in Nat /\ l \in Nat \ {0} /\ n \in Nat /\ Head(rest) = rest[1] /\ p.pos \in Nat
    BY SequenceFacts, TailFacts DEF Sound, GoodRows
  <1>6. \A i \in 1..n : rows[i].size \in Nat
    BY DEF GoodRows, GoodRow
  <1>7. PICK m \in Nat : /\ \A i \in 1..n : rows[i].size + 3 <= m
                         /\ HEAP_START + n * m <= IndexStart(n)
    BY DEF FitsOnAPage
  <1>8. Tight(p) /\ w = Len(p.rows)
    OBVIOUS
  <1> HIDE DEF w, l, n
  <1>9. /\ w + l = n /\ 1 \in 1..l /\ w + 1 \in 1..n /\ 0 + w + 1 = w + 1
        /\ \A i \in 1..w : i \in 1..n /\ 0 + i = i
    BY <1>3, <1>4, <1>5
  <1>10. s \in Nat /\ s + 3 <= m
    <2>1. rest[1] = rows[w + 1]
      BY <1>3, <1>4, <1>9
    <2> QED
      BY <1>5, <1>6, <1>7, <1>9, <2>1
  <1>11. p.pos <= HEAP_START + w * m
    <2>1. \A i \in 1..w : p.rows[i].row.size + 3 <= m
      BY <1>3, <1>4, <1>7, <1>9
    <2> QED
      BY <1>8, <2>1 DEF Tight
  <1>12. w * m \in Nat /\ n * m \in Nat /\ w * m + m <= n * m
    <2>1. l * m \in Nat /\ n * m = w * m + l * m /\ w * m \in Nat
      BY <1>5, <1>9
    <2>2. l * m = m + (l - 1) * m /\ (l - 1) * m \in Nat
      BY <1>5
    <2> QED
      BY <2>1, <2>2
  <1>13. /\ IndexStart(w + 1) \in Int /\ IndexStart(n) \in Int
         /\ IndexStart(n) <= IndexStart(w + 1)
    <2>1. w + 1 \in Nat /\ w + 1 <= n
      BY <1>5, <1>9
    <2> QED
      BY <1>5, <2>1, IndexShrinks
  <1> DEFINE a == w * m
             b == n * m
             c == IndexStart(w + 1)
             d == IndexStart(n)
             o == p.pos
  <1>14. /\ a \in Nat /\ b \in Nat /\ a + m <= b /\ c \in Int /\ d \in Int /\ d <= c
         /\ o \in Nat /\ o <= HEAP_START + a /\ HEAP_START + b <= d
    BY <1>5, <1>7, <1>11, <1>12, <1>13
  <1> HIDE DEF a, b, c, d, o, s
  <1>15. ~(o + s > c)
    BY <1>10, <1>14, PageAssumption
  <1> QED
    BY <1>8, <1>15 DEF WouldOverflow, o, s, c
=============================================================================
