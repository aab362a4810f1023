----------------------------- MODULE PoolProofs -----------------------------
(***************************************************************************)
(* Proofs about Pool, for any number of blocks, any sizes, any number of   *)
(* size classes and any capacity of malloc.                                *)
(***************************************************************************)
EXTENDS Pool, WellFoundedInduction, SequenceTheorems, FiniteSetTheorems, TLAPS

-----------------------------------------------------------------------------
(* Powers of two and size classes                                          *)

\* A nonempty set of numbers has a least one: what induction comes to here.
LEMMA LeastNumber ==
    ASSUME NEW S \in SUBSET Nat, S # {}
    PROVE  \E x \in S : \A y \in S : x <= y
  <1> DEFINE R == {ss \in Nat \X Nat : ss[1] < ss[2]}
  <1>1. IsWellFoundedOn(R, Nat)
    BY NatLessThanWellFounded DEF OpToRel
  <1> HIDE DEF R
  <1>2. PICK x \in S : \A y \in S : ~ (<<y, x>> \in R)
    BY <1>1, WFMin
  <1>3. \A y \in S : y \in Nat /\ x \in Nat /\ ~ (y < x)
    BY <1>2 DEF R
  <1>4. \A y \in S : x <= y
    BY <1>3
  <1> QED BY <1>4

LEMMA MinFacts ==
    ASSUME NEW S \in SUBSET Nat, S # {}
    PROVE  Min(S) \in S /\ \A y \in S : Min(S) <= y
  BY LeastNumber DEF Min

\* g doubles from 1 up to its n-th place.
Doubling(g, n) == g \in [0..n -> Nat] /\ g[0] = 1 /\ \A i \in 1..n : g[i] = 2 * g[i - 1]

LEMMA DoublingExists == \A n \in Nat : \E g : Doubling(g, n)
  <1> DEFINE Bad == {n \in Nat : ~ \E g : Doubling(g, n)}
  <1> SUFFICES ASSUME Bad # {} PROVE FALSE
    OBVIOUS
  <1>1. PICK n \in Bad : \A m \in Bad : n <= m
    <2>1. Bad \in SUBSET Nat
      OBVIOUS
    <2> HIDE DEF Bad
    <2> QED BY <2>1, LeastNumber
  <1>2. n \in Nat /\ ~ \E g : Doubling(g, n)
    OBVIOUS
  <1>3. CASE n = 0
    <2>1. Doubling([i \in 0..0 |-> 1], 0)
      BY DEF Doubling
    <2> QED BY <1>2, <1>3, <2>1
  <1>4. CASE n # 0
    <2>1. n - 1 \in Nat /\ ~ (n <= n - 1)
      BY <1>2, <1>4
    <2>2. PICK g : Doubling(g, n - 1)
      BY <1>1, <2>1
    <2> DEFINE h == [i \in 0..n |-> IF i = n THEN 2 * g[n - 1] ELSE g[i]]
    <2>3. \A i \in 0..(n - 1) : g[i] \in Nat /\ h[i] = g[i]
      BY <1>2, <1>4, <2>2 DEF Doubling
    <2>4. h[n] = 2 * g[n - 1] /\ g[n - 1] \in Nat /\ h[n - 1] = g[n - 1]
      BY <1>2, <1>4, <2>3
    <2>5. h \in [0..n -> Nat]
      BY <1>2, <1>4, <2>3, <2>4
    <2>6. h[0] = 1
      BY <1>2, <1>4, <2>2, <2>3 DEF Doubling
    <2>7. ASSUME NEW i \in 1..n PROVE h[i] = 2 * h[i - 1]
      <3>1. CASE i = n
        BY <3>1, <2>4
      <3>2. CASE i # n
        <4>1. i \in 1..(n - 1) /\ i \in 0..(n - 1) /\ i - 1 \in 0..(n - 1)
          BY <1>2, <3>2
        <4>2. g[i] = 2 * g[i - 1]
          BY <2>2, <4>1 DEF Doubling
        <4> QED BY <2>3, <4>1, <4>2
      <3> QED BY <3>1, <3>2
    <2> HIDE DEF h
    <2>8. Doubling(h, n)
      BY <2>5, <2>6, <2>7 DEF Doubling
    <2> QED BY <1>2, <2>8
  <1> QED BY <1>3, <1>4

LEMMA DoublingUnique ==
    ASSUME NEW n \in Nat, NEW m \in Nat, NEW g, NEW h, Doubling(g, n), Doubling(h, m),
           NEW k \in Nat, k <= n, k <= m
    PROVE  g[k] = h[k]
  <1> DEFINE Bad == {i \in 0..k : g[i] # h[i]}
  <1> SUFFICES ASSUME Bad # {} PROVE FALSE
    OBVIOUS
  <1>1. PICK i \in Bad : \A j \in Bad : i <= j
    <2>1. Bad \in SUBSET Nat
      OBVIOUS
    <2> HIDE DEF Bad
    <2> QED BY <2>1, LeastNumber
  <1>2. i \in 0..k /\ g[i] # h[i]
    OBVIOUS
  <1>3. i # 0
    BY <1>2 DEF Doubling
  <1>4. i \in 1..n /\ i \in 1..m /\ i - 1 \in 0..k /\ ~ (i <= i - 1)
    BY <1>2, <1>3
  <1>5. g[i - 1] = h[i - 1]
    BY <1>1, <1>4
  <1> QED BY <1>2, <1>4, <1>5 DEF Doubling

\* The recursive definition of Bytes has a solution.
LEMMA BytesDouble ==
    Bytes = [i \in Nat |-> IF i = 0 THEN 1 ELSE 2 * Bytes[i - 1]]
  <1> DEFINE upTo(n) == CHOOSE g : Doubling(g, n)
             F == [n \in Nat |-> upTo(n)[n]]
  <1>1. \A n \in Nat : Doubling(upTo(n), n)
    BY DoublingExists
  <1> HIDE DEF upTo
  <1>2. F[0] = 1
    BY <1>1 DEF Doubling
  <1>3. ASSUME NEW n \in Nat, n # 0 PROVE F[n] = 2 * F[n - 1]
    <2>1. n - 1 \in Nat /\ n \in 1..n /\ n - 1 <= n
      BY <1>3
    <2>2. upTo(n)[n] = 2 * upTo(n)[n - 1]
      BY <1>1, <2>1 DEF Doubling
    <2>3. upTo(n)[n - 1] = upTo(n - 1)[n - 1]
      BY <1>1, <2>1, DoublingUnique
    <2> QED BY <2>1, <2>2, <2>3
  <1>4. F = [i \in Nat |-> IF i = 0 THEN 1 ELSE 2 * F[i - 1]]
    BY <1>2, <1>3
  <1> HIDE DEF F
  <1> QED BY <1>4 DEF Bytes

LEMMA BytesFacts ==
    /\ Bytes[0] = 1
    /\ \A n \in Nat : Bytes[n] \in Nat /\ Bytes[n] >= 1 /\ Bytes[n + 1] = 2 * Bytes[n]
  <1>1. Bytes[0] = 1
    BY BytesDouble
  <1>2. ASSUME NEW n \in Nat PROVE Bytes[n + 1] = 2 * Bytes[n]
    <2>1. n + 1 \in Nat /\ n + 1 # 0 /\ (n + 1) - 1 = n
      OBVIOUS
    <2> QED BY <2>1, BytesDouble
  <1>3. ASSUME NEW n \in Nat PROVE Bytes[n] \in Nat /\ Bytes[n] >= 1
    <2> DEFINE Bad == {i \in Nat : ~ (Bytes[i] \in Nat /\ Bytes[i] >= 1)}
    <2> SUFFICES ASSUME Bad # {} PROVE FALSE
      OBVIOUS
    <2>1. PICK i \in Bad : \A j \in Bad : i <= j
      <3>1. Bad \in SUBSET Nat
        OBVIOUS
      <3> HIDE DEF Bad
      <3> QED BY <3>1, LeastNumber
    <2>2. i \in Nat /\ ~ (Bytes[i] \in Nat /\ Bytes[i] >= 1)
      OBVIOUS
    <2>3. i # 0
      BY <1>1, <2>2
    <2>4. i - 1 \in Nat /\ ~ (i <= i - 1) /\ (i - 1) + 1 = i
      BY <2>2, <2>3
    <2>5. Bytes[i - 1] \in Nat /\ Bytes[i - 1] >= 1
      BY <2>1, <2>4
    <2>6. Bytes[i] = 2 * Bytes[i - 1]
      BY <1>2, <2>4
    <2> QED BY <2>2, <2>5, <2>6
  <1> QED BY <1>1, <1>2, <1>3

LEMMA BytesGrow ==
    ASSUME NEW i \in Nat, NEW j \in Nat, i < j
    PROVE  Bytes[i] < Bytes[j]
  <1> DEFINE Bad == {k \in Nat : i < k /\ ~ (Bytes[i] < Bytes[k])}
  <1> SUFFICES ASSUME Bad # {} PROVE FALSE
    OBVIOUS
  <1>1. PICK k \in Bad : \A m \in Bad : k <= m
    <2>1. Bad \in SUBSET Nat
      OBVIOUS
    <2> HIDE DEF Bad
    <2> QED BY <2>1, LeastNumber
  <1>2. k \in Nat /\ i < k /\ ~ (Bytes[i] < Bytes[k])
    OBVIOUS
  <1>3. k - 1 \in Nat /\ (k - 1) + 1 = k /\ ~ (k <= k - 1) /\ (i = k - 1 \/ i < k - 1)
    BY <1>2
  <1>4. Bytes[i] <= Bytes[k - 1]
    <2>1. CASE i = k - 1
      BY <2>1, BytesFacts
    <2>2. CASE i < k - 1
      <3>1. k - 1 \notin Bad
        BY <1>1, <1>3
      <3>2. Bytes[i] < Bytes[k - 1]
        BY <1>3, <2>2, <3>1
      <3> QED BY <1>3, <3>2, BytesFacts
    <2> QED BY <1>3, <2>1, <2>2
  <1>5. Bytes[k] = 2 * Bytes[k - 1] /\ Bytes[k - 1] >= 1 /\ Bytes[k - 1] \in Nat /\ Bytes[i] \in Nat
    BY <1>2, <1>3, BytesFacts
  <1> QED BY <1>2, <1>4, <1>5

LEMMA BytesDiffer ==
    ASSUME NEW i \in Nat, NEW j \in Nat, Bytes[i] = Bytes[j]
    PROVE  i = j
  <1>1. Bytes[i] \in Nat /\ Bytes[j] \in Nat
    BY BytesFacts
  <1>2. ~ (i < j) /\ ~ (j < i)
    BY <1>1, BytesGrow
  <1> QED BY <1>2

LEMMA BytesInRange ==
    ASSUME NEW i \in Shifts
    PROVE  i \in Nat /\ Bytes[i] \in 0..Bytes[MaxShift] /\ Bytes[i] # NotAllocated
  <1>1. i \in Nat /\ (i < MaxShift \/ i = MaxShift) /\ MaxShift \in Nat
    BY MaxShiftAssumption DEF Shifts
  <1>2. Bytes[i] \in Nat /\ Bytes[MaxShift] \in Nat /\ Bytes[i] <= Bytes[MaxShift]
    BY <1>1, BytesFacts, BytesGrow
  <1> QED BY <1>1, <1>2 DEF NotAllocated

LEMMA MaxFacts ==
    ASSUME NEW n \in Nat
    PROVE  /\ n >= 1 => Max({n, 1}) = n
           /\ n = 0 => Max({n, 1}) = 1
  BY DEF Max

\* A request finds a class: the smallest that is large enough.
LEMMA ShiftFacts ==
    ASSUME NEW size \in Sizes
    PROVE  /\ shift(size) \in Shifts /\ size \in Nat
           /\ Bytes[shift(size)] >= size
           /\ Bytes[shift(size)] < 2 * Max({size, 1})
  <1> DEFINE S == {i \in Shifts : Bytes[i] >= size}
             m == shift(size)
  <1>1. size \in Nat /\ MaxShift \in Shifts /\ Bytes[MaxShift] >= size /\ Shifts \subseteq Nat
    <2>1. size \in 0..Bytes[MaxShift] /\ Bytes[MaxShift] \in Nat
      BY SizesAssumption, MaxShiftAssumption, BytesFacts
    <2> QED BY <2>1, MaxShiftAssumption DEF Shifts
  <1>2. m \in S /\ \A i \in S : m <= i
    <2>1. S \in SUBSET Nat /\ S # {}
      BY <1>1
    <2> QED BY <2>1, MinFacts DEF shift
  <1>3. m \in Shifts /\ Bytes[m] >= size
    BY <1>2
  <1>4. Bytes[m] < 2 * Max({size, 1})
    <2> HIDE DEF m
    <2>1. CASE m = 0
      <3>1. Bytes[m] = 1
        BY <2>1, BytesFacts
      <3>2. Max({size, 1}) \in Nat /\ Max({size, 1}) >= 1
        BY <1>1, MaxFacts
      <3> QED BY <3>1, <3>2
    <2>2. CASE m # 0
      <3>1. m - 1 \in Shifts /\ m - 1 \in Nat /\ ~ (m <= m - 1) /\ (m - 1) + 1 = m
        BY <1>3, <2>2, MaxShiftAssumption DEF Shifts
      <3>2. ~ (Bytes[m - 1] >= size)
        BY <1>2, <3>1
      <3>3. Bytes[m] = 2 * Bytes[m - 1] /\ Bytes[m - 1] \in Nat /\ Bytes[m - 1] >= 1
        BY <3>1, BytesFacts
      <3>4. size >= 1 /\ Max({size, 1}) = size
        BY <1>1, <3>2, <3>3, MaxFacts
      <3> QED BY <1>1, <3>2, <3>3, <3>4
    <2> QED BY <2>1, <2>2
  <1> QED BY <1>1, <1>3, <1>4

-----------------------------------------------------------------------------
(* Lists of blocks                                                         *)

Distinct(s) == \A p, q \in 1..Len(s) : s[p] = s[q] => p = q

LEMMA ListFacts ==
    ASSUME NEW s \in Seq(Block)
    PROVE  /\ Len(s) \in Nat /\ ToSet(s) \subseteq Block
           /\ \A b : b \in ToSet(s) <=> \E p \in 1..Len(s) : s[p] = b
           /\ \A b : Contains(s, b) <=> b \in ToSet(s)
  <1>1. Len(s) \in Nat /\ DOMAIN s = 1..Len(s) /\ \A p \in 1..Len(s) : s[p] \in Block
    BY LenProperties
  <1> QED BY <1>1 DEF ToSet, Contains

LEMMA EmptyList ==
    <<>> \in Seq(Block) /\ ToSet(<<>>) = {} /\ Distinct(<<>>) /\ Len(<<>>) = 0
  <1>1. <<>> \in Seq(Block) /\ Len(<<>>) = 0
    BY EmptySeq
  <1>2. \A b : b \notin ToSet(<<>>)
    <2>1. \A b : b \in ToSet(<<>>) <=> \E p \in 1..Len(<<>>) : <<>>[p] = b
      BY <1>1, ListFacts
    <2> QED BY <1>1, <2>1
  <1> QED BY <1>1, <1>2 DEF Distinct

LEMMA AppendList ==
    ASSUME NEW s \in Seq(Block), NEW b \in Block
    PROVE  /\ Append(s, b) \in Seq(Block)
           /\ ToSet(Append(s, b)) = ToSet(s) \cup {b}
           /\ Distinct(s) /\ b \notin ToSet(s) => Distinct(Append(s, b))
  <1> DEFINE t == Append(s, b)
  <1>1. /\ t \in Seq(Block) /\ Len(t) = Len(s) + 1 /\ Len(s) \in Nat
        /\ \A i \in 1..Len(s) : t[i] = s[i]
        /\ t[Len(s) + 1] = b
    BY AppendProperties, ListFacts
  <1> HIDE DEF t
  <1>2. ToSet(t) = ToSet(s) \cup {b}
    <2>1. ASSUME NEW c \in ToSet(t) PROVE c \in ToSet(s) \cup {b}
      <3>1. PICK p \in 1..Len(t) : t[p] = c
        BY <1>1, ListFacts
      <3>2. p \in 1..Len(s) \/ p = Len(s) + 1
        BY <1>1
      <3> QED BY <1>1, <3>1, <3>2, ListFacts
    <2>2. ASSUME NEW c \in ToSet(s) PROVE c \in ToSet(t)
      <3>1. PICK p \in 1..Len(s) : s[p] = c
        BY ListFacts
      <3>2. p \in 1..Len(t) /\ t[p] = c
        BY <1>1, <3>1
      <3> QED BY <1>1, <3>2, ListFacts
    <2>3. b \in ToSet(t)
      <3>1. Len(s) + 1 \in 1..Len(t)
        BY <1>1
      <3> QED BY <1>1, <3>1, ListFacts
    <2> QED BY <2>1, <2>2, <2>3
  <1>3. ASSUME Distinct(s), b \notin ToSet(s), NEW p \in 1..Len(t), NEW q \in 1..Len(t),
               t[p] = t[q]
        PROVE  p = q
    <2>1. \A k \in 1..Len(s) : s[k] # b
      BY <1>3, ListFacts
    <2>2. (p \in 1..Len(s) \/ p = Len(s) + 1) /\ (q \in 1..Len(s) \/ q = Len(s) + 1)
      BY <1>1
    <2> QED BY <1>1, <1>3, <2>1, <2>2 DEF Distinct
  <1> QED BY <1>1, <1>2, <1>3 DEF Distinct, t

\* Taking the k-th block out of a list without repetitions.
LEMMA RemoveList ==
    ASSUME NEW s \in Seq(Block), NEW k \in 1..Len(s), Distinct(s), NEW t \in Seq(Block),
           Len(t) = Len(s) - 1,
           \A p \in 1..Len(t) : t[p] = IF p < k THEN s[p] ELSE s[p + 1]
    PROVE  Distinct(t) /\ ToSet(t) = ToSet(s) \ {s[k]}
  <1>1. Len(s) \in Nat /\ Len(t) \in Nat
    BY ListFacts
  <1> DEFINE from(p) == IF p < k THEN p ELSE p + 1
  <1>2. \A p \in 1..Len(t) : from(p) \in 1..Len(s) /\ t[p] = s[from(p)] /\ from(p) # k
    BY <1>1
  <1>3. Distinct(t)
    <2> SUFFICES ASSUME NEW p \in 1..Len(t), NEW q \in 1..Len(t), t[p] = t[q]
                 PROVE  p = q
      BY DEF Distinct
    <2>1. from(p) = from(q)
      BY <1>2 DEF Distinct
    <2> QED BY <1>1, <2>1
  <1>4. ToSet(t) \subseteq ToSet(s) \ {s[k]}
    <2> SUFFICES ASSUME NEW c \in ToSet(t)
                 PROVE  c \in ToSet(s) /\ c # s[k]
      OBVIOUS
    <2>1. PICK p \in 1..Len(t) : t[p] = c
      BY ListFacts
    <2> QED BY <1>2, <2>1, ListFacts DEF Distinct
  <1>5. ToSet(s) \ {s[k]} \subseteq ToSet(t)
    <2> SUFFICES ASSUME NEW c \in ToSet(s), c # s[k]
                 PROVE  c \in ToSet(t)
      OBVIOUS
    <2>1. PICK p \in 1..Len(s) : s[p] = c
      BY ListFacts
    <2>2. p # k
      BY <2>1
    <2>3. CASE p < k
      <3>1. p \in 1..Len(t) /\ t[p] = c
        BY <1>1, <2>1, <2>3
      <3> QED BY <3>1, ListFacts
    <2>4. CASE p > k
      <3>1. p - 1 \in 1..Len(t) /\ ~ (p - 1 < k) /\ (p - 1) + 1 = p
        BY <1>1, <2>4
      <3>2. t[p - 1] = c
        BY <2>1, <3>1
      <3> QED BY <3>1, <3>2, ListFacts
    <2> QED BY <2>2, <2>3, <2>4
  <1> QED BY <1>3, <1>4, <1>5

LEMMA FrontList ==
    ASSUME NEW s \in Seq(Block), s # <<>>
    PROVE  /\ Front(s) \in Seq(Block) /\ Last(s) \in ToSet(s) /\ Last(s) \in Block
           /\ Distinct(s) => Distinct(Front(s)) /\ ToSet(Front(s)) = ToSet(s) \ {Last(s)}
  <1>1. Len(s) \in Nat /\ Len(s) # 0
    BY EmptySeq
  <1>2. Len(s) \in 1..Len(s) /\ \A p \in 1..(Len(s) - 1) : s[p] \in Block
    BY <1>1, LenProperties
  <1> DEFINE t == SubSeq(s, 1, Len(s) - 1)
  <1>3. /\ t \in Seq(Block)
        /\ Len(t) = IF 1 <= Len(s) - 1 THEN (Len(s) - 1) - 1 + 1 ELSE 0
        /\ \A p \in 1..((Len(s) - 1) - 1 + 1) : t[p] = s[1 + p - 1]
    BY <1>1, <1>2, SubSeqProperties
  <1>4. t = Front(s)
    BY DEF Front
  <1> HIDE DEF t
  <1>5. Len(t) = Len(s) - 1
    <2>1. CASE Len(s) = 1
      <3>1. ~ (1 <= Len(s) - 1)
        BY <2>1
      <3> QED BY <1>3, <2>1, <3>1
    <2>2. CASE Len(s) # 1
      <3>1. \A n \in Nat : n # 0 /\ n # 1 => 1 <= n - 1 /\ (n - 1) - 1 + 1 = n - 1
        OBVIOUS
      <3>2. 1 <= Len(s) - 1 /\ (Len(s) - 1) - 1 + 1 = Len(s) - 1
        BY <1>1, <2>2, <3>1
      <3> QED BY <1>3, <3>2
    <2> QED BY <2>1, <2>2
  <1>8. ASSUME NEW p \in 1..Len(t) PROVE t[p] = IF p < Len(s) THEN s[p] ELSE s[p + 1]
    <2>1. p \in 1..((Len(s) - 1) - 1 + 1) /\ 1 + p - 1 = p /\ p < Len(s)
      BY <1>1, <1>5
    <2> QED BY <1>3, <2>1
  <1>6. Last(s) = s[Len(s)] /\ Last(s) \in ToSet(s) /\ Last(s) \in Block
    BY <1>2, ListFacts DEF Last
  <1>7. Distinct(s) => Distinct(t) /\ ToSet(t) = ToSet(s) \ {Last(s)}
    <2> SUFFICES ASSUME Distinct(s)
                 PROVE  Distinct(t) /\ ToSet(t) = ToSet(s) \ {s[Len(s)]}
      BY <1>6
    <2>1. t \in Seq(Block)
      BY <1>3
    <2> QED BY <1>2, <1>5, <1>8, <2>1, RemoveList
  <1> QED BY <1>3, <1>4, <1>6, <1>7

LEMMA RemoveFirstList ==
    ASSUME NEW s \in Seq(Block), NEW b, Contains(s, b)
    PROVE  /\ RemoveFirst(s, b) \in Seq(Block)
           /\ Distinct(s) => /\ Distinct(RemoveFirst(s, b))
                             /\ ToSet(RemoveFirst(s, b)) = ToSet(s) \ {b}
  <1>1. Len(s) \in Nat /\ \A p \in 1..Len(s) : s[p] \in Block
    BY LenProperties
  <1> DEFINE I == {p \in 1..Len(s) : s[p] = b}
             k == Min(I)
             u == SubSeq(s, 1, k - 1)
             v == SubSeq(s, k + 1, Len(s))
             t == u \o v
  <1>2. k \in 1..Len(s) /\ s[k] = b
    <2>1. I \in SUBSET Nat /\ I # {}
      BY <1>1 DEF Contains
    <2>2. k \in I
      BY <2>1, MinFacts
    <2> QED BY <2>2
  <1>3. RemoveFirst(s, b) = t
    <2>1. I # {}
      BY DEF Contains
    <2>2. SelectInSeq(s, LAMBDA w : w = b) = k
      BY <2>1 DEF SelectInSeq
    <2> QED BY <2>2 DEF RemoveFirst, RemoveAt, Contains
  <1> HIDE DEF k
  <1>4. /\ u \in Seq(Block) /\ Len(u) = k - 1 /\ \A p \in 1..(k - 1) : u[p] = s[p]
    <2>1. k - 1 \in Int /\ \A p \in 1..(k - 1) : s[p] \in Block
      BY <1>1, <1>2
    <2>2. /\ u \in Seq(Block) /\ Len(u) = IF 1 <= k - 1 THEN (k - 1) - 1 + 1 ELSE 0
          /\ \A p \in 1..((k - 1) - 1 + 1) : u[p] = s[1 + p - 1]
      BY <2>1, SubSeqProperties
    <2> QED BY <1>1, <1>2, <2>2
  <1>5. /\ v \in Seq(Block) /\ Len(v) = Len(s) - k
        /\ \A p \in 1..(Len(s) - k) : v[p] = s[k + p]
    <2>1. k + 1 \in Int /\ Len(s) \in Int /\ \A p \in (k + 1)..Len(s) : s[p] \in Block
      BY <1>1, <1>2
    <2>2. /\ v \in Seq(Block) /\ Len(v) = IF k + 1 <= Len(s) THEN Len(s) - (k + 1) + 1 ELSE 0
          /\ \A p \in 1..(Len(s) - (k + 1) + 1) : v[p] = s[(k + 1) + p - 1]
      BY <2>1, SubSeqProperties
    <2> QED BY <1>1, <1>2, <2>2
  <1> HIDE DEF u, v
  <1>6. /\ t \in Seq(Block) /\ Len(t) = Len(u) + Len(v)
        /\ \A p \in 1..(Len(u) + Len(v)) : t[p] = IF p <= Len(u) THEN u[p] ELSE v[p - Len(u)]
    BY <1>4, <1>5, ConcatProperties
  <1> HIDE DEF t
  <1>7. Len(t) = Len(s) - 1 /\ \A p \in 1..Len(t) : t[p] = IF p < k THEN s[p] ELSE s[p + 1]
    <2>1. Len(t) = Len(s) - 1
      BY <1>1, <1>2, <1>4, <1>5, <1>6
    <2>2. ASSUME NEW p \in 1..Len(t) PROVE t[p] = IF p < k THEN s[p] ELSE s[p + 1]
      <3>1. CASE p < k
        BY <1>1, <1>2, <1>4, <1>5, <1>6, <3>1
      <3>2. CASE ~ (p < k)
        <4>1. p - Len(u) \in 1..(Len(s) - k) /\ k + (p - Len(u)) = p + 1 /\ ~ (p <= Len(u))
              /\ p \in 1..(Len(u) + Len(v))
          BY <1>1, <1>2, <1>4, <1>5, <2>1, <3>2
        <4> QED BY <1>5, <1>6, <3>2, <4>1
      <3> QED BY <3>1, <3>2
    <2> QED BY <2>1, <2>2
  <1>8. Distinct(s) => Distinct(t) /\ ToSet(t) = ToSet(s) \ {b}
    BY <1>2, <1>6, <1>7, RemoveList
  <1> QED BY <1>3, <1>6, <1>8

-----------------------------------------------------------------------------
(* The inductive invariant                                                 *)

ListsInv == \A i \in Shifts : Distinct(used[i]) /\ Distinct(free[i])

\* What is in a used list is lent, to a request of that class.
UsedInv ==
    \A i \in Shifts : \A b \in ToSet(used[i]) :
        /\ lent[b] # Nobody /\ lent[b].pooled
        /\ shift(lent[b].size) = i /\ heap[b] = Bytes[i]

FreeInv ==
    \A i \in Shifts : \A b \in ToSet(free[i]) : lent[b] = Nobody /\ heap[b] = Bytes[i]

\* What is lent is in the used list deallocate looks in, or came from malloc.
LentInv ==
    \A b \in Block : lent[b] # Nobody =>
        /\ lent[b].pooled => b \in ToSet(used[shift(lent[b].size)])
        /\ ~lent[b].pooled => heap[b] = lent[b].size

\* Nothing malloc handed out is forgotten.
HeapInv ==
    \A b \in Block : heap[b] # NotAllocated =>
        lent[b] # Nobody \/ \E i \in Shifts : b \in ToSet(free[i])

OffInv == ~pooled => used = NoBlocks /\ free = NoBlocks

IInv ==
    /\ TypeOK
    /\ ListsInv
    /\ UsedInv
    /\ FreeInv
    /\ LentInv
    /\ HeapInv
    /\ OffInv
    /\ FailsOnlyForForeignBlocks

LEMMA RequestFacts ==
    /\ Nobody.pooled = FALSE
    /\ \A r \in Request : r # Nobody /\ r.size \in Sizes /\ r.pooled \in BOOLEAN
    /\ \A size \in Sizes : \A p \in BOOLEAN :
        /\ [size |-> size, pooled |-> p] \in Request
        /\ [size |-> size, pooled |-> p].size = size
        /\ [size |-> size, pooled |-> p].pooled = p
  <1>1. Nobody.pooled = FALSE
    BY DEF Nobody
  <1>2. ASSUME NEW r \in Request PROVE r # Nobody /\ r.size \in Sizes /\ r.pooled \in BOOLEAN
    <2>1. r.size \in Sizes /\ r.pooled \in BOOLEAN
      BY DEF Request
    <2>2. r.size \in Nat
      BY <2>1, ShiftFacts
    <2>3. Nobody.size = -1
      BY DEF Nobody
    <2> QED BY <2>1, <2>2, <2>3
  <1> QED BY <1>1, <1>2 DEF Request

LEMMA LentFacts ==
    ASSUME TypeOK, NEW b \in Block, lent[b] # Nobody
    PROVE  /\ lent[b] \in Request /\ lent[b].size \in Sizes /\ lent[b].size \in Nat
           /\ shift(lent[b].size) \in Shifts
  <1>1. lent[b] \in Request
    BY DEF TypeOK
  <1> QED BY <1>1, RequestFacts, ShiftFacts

LEMMA ListTypes ==
    ASSUME TypeOK, NEW i \in Shifts
    PROVE  /\ used[i] \in Seq(Block) /\ free[i] \in Seq(Block)
           /\ ToSet(used[i]) \subseteq Block /\ ToSet(free[i]) \subseteq Block
  BY ListFacts DEF TypeOK

LEMMA BlocksFacts == \A list, b : b \in Blocks(list) <=> \E i \in Shifts : b \in ToSet(list[i])
  BY DEF Blocks

LEMMA NoBlocksFacts ==
    /\ NoBlocks \in [Shifts -> Seq(Block)]
    /\ \A i \in Shifts : Distinct(NoBlocks[i]) /\ ToSet(NoBlocks[i]) = {}
    /\ Blocks(NoBlocks) = {}
  <1>1. \A i \in Shifts : NoBlocks[i] = <<>>
    BY DEF NoBlocks
  <1>2. NoBlocks \in [Shifts -> Seq(Block)]
    BY EmptyList DEF NoBlocks
  <1> QED BY <1>1, <1>2, EmptyList, BlocksFacts

\* Blocks of free lists are nobody's, and in one list only.
LEMMA FreeBlock ==
    ASSUME IInv, NEW i \in Shifts, NEW b \in ToSet(free[i])
    PROVE  /\ b \in Block /\ lent[b] = Nobody /\ heap[b] = Bytes[i]
           /\ \A j \in Shifts : b \notin ToSet(used[j])
           /\ \A j \in Shifts : b \in ToSet(free[j]) => j = i
  <1>1. b \in Block /\ lent[b] = Nobody /\ heap[b] = Bytes[i]
    BY ListTypes DEF IInv, FreeInv
  <1>2. \A j \in Shifts : b \notin ToSet(used[j])
    BY <1>1 DEF IInv, UsedInv
  <1>3. ASSUME NEW j \in Shifts, b \in ToSet(free[j]) PROVE j = i
    <2>1. Bytes[j] = Bytes[i]
      BY <1>1, <1>3 DEF IInv, FreeInv
    <2>2. i \in Nat /\ j \in Nat
      BY BytesInRange
    <2> QED BY <2>1, <2>2, BytesDiffer
  <1> QED BY <1>1, <1>2, <1>3

\* A block malloc has not handed out is in no list and nobody's.
LEMMA FreshBlock ==
    ASSUME IInv, NEW b \in Block, heap[b] = NotAllocated
    PROVE  /\ lent[b] = Nobody
           /\ \A j \in Shifts : b \notin ToSet(used[j]) /\ b \notin ToSet(free[j])
  <1>1. \A j \in Shifts : b \notin ToSet(used[j]) /\ b \notin ToSet(free[j])
    BY BytesInRange DEF IInv, UsedInv, FreeInv
  <1>2. ASSUME lent[b] # Nobody PROVE FALSE
    <2>1. lent[b].size \in Nat /\ shift(lent[b].size) \in Shifts
      BY <1>2, LentFacts DEF IInv
    <2>2. CASE lent[b].pooled
      BY <1>1, <1>2, <2>1, <2>2 DEF IInv, LentInv
    <2>3. CASE ~lent[b].pooled
      BY <1>2, <2>1, <2>3 DEF IInv, LentInv, NotAllocated
    <2> QED BY <2>2, <2>3
  <1> QED BY <1>1, <1>2

\* A purge takes the free blocks off the heap: what is lent is not touched.
LEMMA PurgeFacts ==
    ASSUME IInv
    PROVE  /\ FreedAll(heap, free) \in [Block -> {NotAllocated} \cup 0..Bytes[MaxShift]]
           /\ \A b \in Block : FreedAll(heap, free)[b]
                                 = IF lent[b] = Nobody THEN NotAllocated ELSE heap[b]
  <1>1. FreedAll(heap, free) \in [Block -> {NotAllocated} \cup 0..Bytes[MaxShift]]
    BY DEF FreedAll, IInv, TypeOK
  <1>2. ASSUME NEW b \in Block
        PROVE  FreedAll(heap, free)[b] = IF lent[b] = Nobody THEN NotAllocated ELSE heap[b]
    <2>1. FreedAll(heap, free)[b] = IF b \in Blocks(free) THEN NotAllocated ELSE heap[b]
      BY DEF FreedAll
    <2>2. CASE b \in Blocks(free)
      <3>1. lent[b] = Nobody
        BY <2>2, BlocksFacts DEF IInv, FreeInv
      <3> QED BY <2>1, <2>2, <3>1
    <2>3. CASE b \notin Blocks(free)
      <3>1. heap[b] # NotAllocated => lent[b] # Nobody
        BY <2>3, BlocksFacts DEF IInv, HeapInv
      <3> QED BY <2>1, <2>3, <3>1
    <2> QED BY <2>2, <2>3
  <1> QED BY <1>1, <1>2

-----------------------------------------------------------------------------
(* Every step keeps the invariant                                          *)

LEMMA InitInv == Init => IInv
  <1> SUFFICES ASSUME Init PROVE IInv
    OBVIOUS
  <1>1. TypeOK
    BY NoBlocksFacts DEF Init, TypeOK
  <1>2. ListsInv /\ UsedInv /\ FreeInv /\ OffInv
    BY NoBlocksFacts DEF Init, ListsInv, UsedInv, FreeInv, OffInv
  <1>3. LentInv /\ HeapInv
    BY DEF Init, LentInv, HeapInv
  <1>4. FailsOnlyForForeignBlocks
    BY DEF Init, FailsOnlyForForeignBlocks, NoFailure
  <1> QED BY <1>1, <1>2, <1>3, <1>4 DEF IInv

LEMMA EnablePoolingInv ==
    ASSUME IInv, enable_pooling
    PROVE  IInv'
  <1>1. /\ pooled' = TRUE /\ used' = used /\ free' = free
        /\ heap' = heap /\ lent' = lent /\ failure' = failure
    BY DEF enable_pooling, IInv, OffInv
  <1>2. TypeOK' /\ OffInv'
    BY <1>1 DEF IInv, TypeOK, OffInv
  <1>3. ListsInv' /\ UsedInv' /\ FreeInv' /\ LentInv' /\ HeapInv' /\ FailsOnlyForForeignBlocks'
    BY <1>1 DEF IInv, ListsInv, UsedInv, FreeInv, LentInv, HeapInv, FailsOnlyForForeignBlocks
  <1> QED BY <1>2, <1>3 DEF IInv

LEMMA DisablePoolingInv ==
    ASSUME IInv, disable_pooling
    PROVE  IInv'
  <1>1. /\ pooled' = FALSE /\ used' = NoBlocks /\ free' = NoBlocks /\ failure' = failure
        /\ heap' = FreedAll(FreedAll(heap, used), free)
        /\ lent' = [b \in Block |-> IF b \in Blocks(used) THEN Nobody ELSE lent[b]]
    BY DEF disable_pooling
  <1>2. \A b \in Block : heap'[b] = IF b \in Blocks(used) \cup Blocks(free)
                                   THEN NotAllocated ELSE heap[b]
    BY <1>1 DEF FreedAll
  <1>3. heap' \in [Block -> {NotAllocated} \cup 0..Bytes[MaxShift]]
    BY <1>1 DEF FreedAll, IInv, TypeOK
  <1>4. TypeOK'
    BY <1>1, <1>3, NoBlocksFacts DEF IInv, TypeOK
  <1>5. ListsInv' /\ UsedInv' /\ FreeInv' /\ OffInv'
    BY <1>1, NoBlocksFacts DEF ListsInv, UsedInv, FreeInv, OffInv
  <1>6. ASSUME NEW b \in Block, lent'[b] # Nobody
        PROVE  ~lent'[b].pooled /\ heap'[b] = lent'[b].size
    <2>1. b \notin Blocks(used) /\ lent'[b] = lent[b]
      BY <1>1, <1>6
    <2>2. ~lent[b].pooled
      <3>1. SUFFICES ASSUME lent[b].pooled PROVE FALSE
        OBVIOUS
      <3>2. shift(lent[b].size) \in Shifts /\ b \in ToSet(used[shift(lent[b].size)])
        BY <1>6, <2>1, <3>1, LentFacts DEF IInv, LentInv
      <3> QED BY <2>1, <3>2, BlocksFacts
    <2>3. b \notin Blocks(free)
      BY <1>6, <2>1, BlocksFacts DEF IInv, FreeInv
    <2> QED BY <1>2, <1>6, <2>1, <2>2, <2>3 DEF IInv, LentInv
  <1>7. ASSUME NEW b \in Block, heap'[b] # NotAllocated
        PROVE  lent'[b] # Nobody
    <2>1. b \notin Blocks(used) /\ b \notin Blocks(free) /\ heap[b] # NotAllocated
      BY <1>2, <1>7
    <2> QED BY <1>1, <2>1, BlocksFacts DEF IInv, HeapInv
  <1>8. LentInv' /\ HeapInv'
    BY <1>6, <1>7 DEF LentInv, HeapInv
  <1>9. FailsOnlyForForeignBlocks'
    BY <1>1 DEF IInv, FailsOnlyForForeignBlocks
  <1> QED BY <1>4, <1>5, <1>8, <1>9 DEF IInv

\* Lending a block that is nobody's to a request of class i, with a heap in which
\* the block has that class's size: common to the three ways to allocate.
LEMMA LendInv ==
    ASSUME IInv, NEW size \in Sizes, NEW i, i = shift(size), NEW b \in Block,
           lent[b] = Nobody, pooled' = pooled, pooled, failure' = failure,
           used' = [used EXCEPT ![i] = Append(@, b)],
           lent' = [lent EXCEPT ![b] = [size |-> size, pooled |-> TRUE]],
           free' \in [Shifts -> Seq(Block)], ListsInv',
           \A j \in Shifts : ToSet(free'[j]) \subseteq ToSet(free[j]) \ {b},
           heap' \in [Block -> {NotAllocated} \cup 0..Bytes[MaxShift]],
           heap'[b] = Bytes[i],
           \A c \in Block \ {b} : lent[c] # Nobody => heap'[c] = heap[c],
           \A j \in Shifts : \A c \in ToSet(free'[j]) : heap'[c] = Bytes[j],
           \A c \in Block \ {b} : lent[c] = Nobody /\ heap'[c] # NotAllocated =>
                \E j \in Shifts : c \in ToSet(free'[j])
    PROVE  IInv'
  <1> DEFINE r == [size |-> size, pooled |-> TRUE]
  <1>1. r \in Request /\ r # Nobody /\ r.size = size /\ r.pooled = TRUE /\ i \in Shifts
    BY RequestFacts, ShiftFacts
  <1> HIDE DEF r
  <1>2. lent'[b] = r /\ \A c \in Block \ {b} : lent'[c] = lent[c]
    BY DEF IInv, TypeOK, r
  <1>3. \A j \in Shifts :
            /\ used'[j] \in Seq(Block)
            /\ ToSet(used'[j]) = IF j = i THEN ToSet(used[i]) \cup {b} ELSE ToSet(used[j])
    BY <1>1, AppendList DEF IInv, TypeOK
  <1>4. \A j \in Shifts : b \notin ToSet(used[j])
    BY DEF IInv, UsedInv
  <1>5. TypeOK'
    <2>1. used' \in [Shifts -> Seq(Block)]
      BY <1>1, AppendList DEF IInv, TypeOK
    <2>2. lent' \in [Block -> {Nobody} \cup Request]
      BY <1>1 DEF IInv, TypeOK, r
    <2> QED BY <2>1, <2>2 DEF IInv, TypeOK
  <1>6. UsedInv'
    <2> SUFFICES ASSUME NEW j \in Shifts, NEW c \in ToSet(used'[j])
                 PROVE  /\ lent'[c] # Nobody /\ lent'[c].pooled
                        /\ shift(lent'[c].size) = j /\ heap'[c] = Bytes[j]
      BY DEF UsedInv, ToSet
    <2>1. CASE c = b
      <3>1. j = i
        BY <1>3, <1>4, <2>1
      <3> QED BY <1>1, <1>2, <2>1, <3>1
    <2>2. CASE c # b
      <3>1. c \in ToSet(used[j]) /\ c \in Block
        BY <1>1, <1>3, <2>2, ListTypes DEF IInv
      <3> QED BY <1>2, <2>2, <3>1 DEF IInv, UsedInv
    <2> QED BY <2>1, <2>2
  <1>7. FreeInv'
    <2> SUFFICES ASSUME NEW j \in Shifts, NEW c \in ToSet(free'[j])
                 PROVE  lent'[c] = Nobody /\ heap'[c] = Bytes[j]
      BY DEF FreeInv, ToSet
    <2>1. c \in ToSet(free[j]) /\ c # b /\ c \in Block
      BY ListTypes DEF IInv
    <2> QED BY <1>2, <2>1 DEF IInv, FreeInv
  <1>8. LentInv'
    <2> SUFFICES ASSUME NEW c \in Block, lent'[c] # Nobody
                 PROVE  /\ lent'[c].pooled => c \in ToSet(used'[shift(lent'[c].size)])
                        /\ ~lent'[c].pooled => heap'[c] = lent'[c].size
      BY DEF LentInv, ToSet
    <2>1. CASE c = b
      BY <1>1, <1>2, <1>3, <2>1
    <2>2. CASE c # b
      <3>1. lent'[c] = lent[c] /\ heap'[c] = heap[c] /\ shift(lent[c].size) \in Shifts
        BY <1>2, <2>2, LentFacts DEF IInv
      <3> QED BY <1>3, <3>1 DEF IInv, LentInv
    <2> QED BY <2>1, <2>2
  <1>9. HeapInv'
    <2> SUFFICES ASSUME NEW c \in Block, heap'[c] # NotAllocated, lent'[c] = Nobody
                 PROVE  \E j \in Shifts : c \in ToSet(free'[j])
      BY DEF HeapInv, ToSet
    <2>1. c # b
      BY <1>1, <1>2
    <2> QED BY <1>2, <2>1
  <1>10. OffInv' /\ FailsOnlyForForeignBlocks'
    BY DEF IInv, OffInv, FailsOnlyForForeignBlocks
  <1> QED BY <1>5, <1>6, <1>7, <1>8, <1>9, <1>10 DEF IInv

LEMMA AllocateReuseInv ==
    ASSUME IInv, NEW size \in Sizes, AllocateReuse(size)
    PROVE  IInv'
  <1> DEFINE i == shift(size)
             b == Last(free[i])
  <1>1. /\ pooled /\ free[i] # <<>> /\ used' = [used EXCEPT ![i] = Append(@, b)]
        /\ free' = [free EXCEPT ![i] = Front(@)]
        /\ lent' = [lent EXCEPT ![b] = [size |-> size, pooled |-> TRUE]]
        /\ pooled' = pooled /\ heap' = heap /\ failure' = failure
    BY DEF AllocateReuse
  <1>2. i \in Shifts /\ free[i] \in Seq(Block) /\ used[i] \in Seq(Block)
    BY ShiftFacts, ListTypes DEF IInv
  <1>3. /\ Front(free[i]) \in Seq(Block) /\ b \in ToSet(free[i]) /\ b \in Block
        /\ Distinct(Front(free[i])) /\ ToSet(Front(free[i])) = ToSet(free[i]) \ {b}
    BY <1>1, <1>2, FrontList DEF IInv, ListsInv
  <1> HIDE DEF i, b
  <1>4. /\ lent[b] = Nobody /\ heap[b] = Bytes[i]
        /\ \A j \in Shifts : b \notin ToSet(used[j])
        /\ \A j \in Shifts : b \in ToSet(free[j]) => j = i
    BY <1>2, <1>3, FreeBlock
  <1>5. /\ free' \in [Shifts -> Seq(Block)]
        /\ \A j \in Shifts : ToSet(free'[j]) = ToSet(free[j]) \ {b}
    BY <1>1, <1>2, <1>3, <1>4 DEF IInv, TypeOK
  <1>6. ListsInv'
    <2>1. Distinct(Append(used[i], b))
      BY <1>2, <1>3, <1>4, AppendList DEF IInv, ListsInv
    <2>2. \A j \in Shifts : /\ used'[j] = IF j = i THEN Append(used[i], b) ELSE used[j]
                            /\ free'[j] = IF j = i THEN Front(free[i]) ELSE free[j]
      BY <1>1, <1>2 DEF IInv, TypeOK
    <2>3. \A j \in Shifts : Distinct(used'[j]) /\ Distinct(free'[j])
      BY <1>3, <2>1, <2>2 DEF IInv, ListsInv
    <2> QED BY <2>3 DEF ListsInv, Distinct
  <1>7. heap' \in [Block -> {NotAllocated} \cup 0..Bytes[MaxShift]] /\ heap'[b] = Bytes[i]
    BY <1>1, <1>4 DEF IInv, TypeOK
  <1>8. \A j \in Shifts : \A c \in ToSet(free'[j]) : heap'[c] = Bytes[j]
    BY <1>1, <1>5 DEF IInv, FreeInv
  <1>9. ASSUME NEW c \in Block \ {b}, lent[c] = Nobody, heap'[c] # NotAllocated
        PROVE  \E j \in Shifts : c \in ToSet(free'[j])
    BY <1>1, <1>5, <1>9 DEF IInv, HeapInv
  <1>10. /\ \A j \in Shifts : ToSet(free'[j]) \subseteq ToSet(free[j]) \ {b}
         /\ \A c \in Block \ {b} : lent[c] # Nobody => heap'[c] = heap[c]
         /\ \A c \in Block \ {b} : lent[c] = Nobody /\ heap'[c] # NotAllocated =>
                \E j \in Shifts : c \in ToSet(free'[j])
    BY <1>1, <1>5, <1>9
  <1>11. i = shift(size) /\ b \in Block /\ lent[b] = Nobody /\ free' \in [Shifts -> Seq(Block)]
    BY <1>3, <1>4, <1>5 DEF i
  <1>12. /\ pooled /\ pooled' = pooled /\ failure' = failure
         /\ used' = [used EXCEPT ![i] = Append(@, b)]
         /\ lent' = [lent EXCEPT ![b] = [size |-> size, pooled |-> TRUE]]
    BY <1>1
  <1> QED BY <1>6, <1>7, <1>8, <1>10, <1>11, <1>12, LendInv

LEMMA AllocateFreshInv ==
    ASSUME IInv, NEW size \in Sizes, NEW b \in Block, AllocateFresh(size, b)
    PROVE  IInv'
  <1> DEFINE i == shift(size)
  <1>1. /\ pooled /\ used' = [used EXCEPT ![i] = Append(@, b)]
        /\ heap[b] = NotAllocated /\ heap' = [heap EXCEPT ![b] = Bytes[i]]
        /\ lent' = [lent EXCEPT ![b] = [size |-> size, pooled |-> TRUE]]
        /\ pooled' = pooled /\ free' = free /\ failure' = failure
    BY DEF AllocateFresh, OnHeap
  <1>2. i \in Shifts /\ used[i] \in Seq(Block) /\ Bytes[i] \in 0..Bytes[MaxShift]
    BY ShiftFacts, ListTypes, BytesInRange DEF IInv
  <1> HIDE DEF i
  <1>3. lent[b] = Nobody /\ \A j \in Shifts : b \notin ToSet(used[j]) /\ b \notin ToSet(free[j])
    BY <1>1, FreshBlock
  <1>4. /\ free' \in [Shifts -> Seq(Block)]
        /\ \A j \in Shifts : ToSet(free'[j]) = ToSet(free[j]) \ {b}
    BY <1>1, <1>3 DEF IInv, TypeOK
  <1>5. ListsInv'
    <2>1. Distinct(Append(used[i], b))
      BY <1>2, <1>3, AppendList DEF IInv, ListsInv
    <2>2. \A j \in Shifts : used'[j] = IF j = i THEN Append(used[i], b) ELSE used[j]
      BY <1>1, <1>2 DEF IInv, TypeOK
    <2>3. \A j \in Shifts : Distinct(used'[j]) /\ Distinct(free'[j])
      BY <1>1, <2>1, <2>2 DEF IInv, ListsInv
    <2> QED BY <2>3 DEF ListsInv, Distinct
  <1>6. /\ heap' \in [Block -> {NotAllocated} \cup 0..Bytes[MaxShift]] /\ heap'[b] = Bytes[i]
        /\ \A c \in Block \ {b} : heap'[c] = heap[c]
    BY <1>1, <1>2 DEF IInv, TypeOK
  <1>7. \A j \in Shifts : \A c \in ToSet(free'[j]) : heap'[c] = Bytes[j]
    BY <1>4, <1>6, ListTypes DEF IInv, FreeInv
  <1>8. ASSUME NEW c \in Block \ {b}, lent[c] = Nobody, heap'[c] # NotAllocated
        PROVE  \E j \in Shifts : c \in ToSet(free'[j])
    BY <1>1, <1>4, <1>6, <1>8 DEF IInv, HeapInv
  <1>9. /\ \A j \in Shifts : ToSet(free'[j]) \subseteq ToSet(free[j]) \ {b}
        /\ \A c \in Block \ {b} : lent[c] # Nobody => heap'[c] = heap[c]
    BY <1>4, <1>6
  <1>10. \A c \in Block \ {b} : lent[c] = Nobody /\ heap'[c] # NotAllocated =>
            \E j \in Shifts : c \in ToSet(free'[j])
    BY <1>8
  <1>11. i = shift(size) /\ lent[b] = Nobody /\ free' \in [Shifts -> Seq(Block)]
    BY <1>3, <1>4 DEF i
  <1>12. /\ pooled /\ pooled' = pooled /\ failure' = failure
         /\ used' = [used EXCEPT ![i] = Append(@, b)]
         /\ lent' = [lent EXCEPT ![b] = [size |-> size, pooled |-> TRUE]]
    BY <1>1
  <1>13. heap' \in [Block -> {NotAllocated} \cup 0..Bytes[MaxShift]] /\ heap'[b] = Bytes[i]
    BY <1>6
  <1> QED BY <1>5, <1>7, <1>9, <1>10, <1>11, <1>12, <1>13, LendInv

LEMMA AllocateAfterPurgeInv ==
    ASSUME IInv, NEW size \in Sizes, NEW b \in Block, AllocateAfterPurge(size, b)
    PROVE  IInv'
  <1> DEFINE i == shift(size)
             purged == FreedAll(heap, free)
  <1>1. /\ pooled /\ used' = [used EXCEPT ![i] = Append(@, b)]
        /\ purged[b] = NotAllocated /\ heap' = [purged EXCEPT ![b] = Bytes[i]]
        /\ lent' = [lent EXCEPT ![b] = [size |-> size, pooled |-> TRUE]]
        /\ pooled' = pooled /\ free' = NoBlocks /\ failure' = failure
    BY DEF AllocateAfterPurge
  <1>2. i \in Shifts /\ used[i] \in Seq(Block) /\ Bytes[i] \in 0..Bytes[MaxShift]
    BY ShiftFacts, ListTypes, BytesInRange DEF IInv
  <1>3. /\ purged \in [Block -> {NotAllocated} \cup 0..Bytes[MaxShift]]
        /\ \A c \in Block : purged[c] = IF lent[c] = Nobody THEN NotAllocated ELSE heap[c]
    BY PurgeFacts
  <1> HIDE DEF i, purged
  <1>4. lent[b] = Nobody
    <2>1. SUFFICES ASSUME lent[b] # Nobody PROVE FALSE
      OBVIOUS
    <2>2. heap[b] = NotAllocated
      BY <1>1, <1>3, <2>1
    <2> QED BY <2>1, <2>2, FreshBlock
  <1>5. \A j \in Shifts : b \notin ToSet(used[j])
    BY <1>4 DEF IInv, UsedInv
  <1>6. free' \in [Shifts -> Seq(Block)] /\ \A j \in Shifts : ToSet(free'[j]) = {}
    BY <1>1, NoBlocksFacts
  <1>7. ListsInv'
    <2>1. Distinct(Append(used[i], b))
      BY <1>2, <1>5, AppendList DEF IInv, ListsInv
    <2>2. \A j \in Shifts : used'[j] = IF j = i THEN Append(used[i], b) ELSE used[j]
      BY <1>1, <1>2 DEF IInv, TypeOK
    <2>3. \A j \in Shifts : Distinct(used'[j]) /\ Distinct(free'[j])
      BY <1>1, <2>1, <2>2, NoBlocksFacts DEF IInv, ListsInv
    <2> QED BY <2>3 DEF ListsInv, Distinct
  <1>8. /\ heap' \in [Block -> {NotAllocated} \cup 0..Bytes[MaxShift]] /\ heap'[b] = Bytes[i]
        /\ \A c \in Block \ {b} : heap'[c] = IF lent[c] = Nobody THEN NotAllocated ELSE heap[c]
    BY <1>1, <1>2, <1>3
  <1>9. /\ \A j \in Shifts : ToSet(free'[j]) \subseteq ToSet(free[j]) \ {b}
        /\ \A j \in Shifts : \A c \in ToSet(free'[j]) : heap'[c] = Bytes[j]
        /\ \A c \in Block \ {b} : lent[c] # Nobody => heap'[c] = heap[c]
        /\ \A c \in Block \ {b} : lent[c] = Nobody /\ heap'[c] # NotAllocated =>
                \E j \in Shifts : c \in ToSet(free'[j])
    BY <1>6, <1>8
  <1>10. i = shift(size) /\ free' \in [Shifts -> Seq(Block)]
         /\ heap' \in [Block -> {NotAllocated} \cup 0..Bytes[MaxShift]] /\ heap'[b] = Bytes[i]
    BY <1>6, <1>8 DEF i
  <1> QED BY <1>1, <1>4, <1>7, <1>9, <1>10, LendInv

LEMMA AllocateFailsInv ==
    ASSUME IInv, NEW size \in Sizes, AllocateFails(size)
    PROVE  IInv'
  <1>1. /\ heap' = FreedAll(heap, free) /\ free' = NoBlocks
        /\ failure' = [in |-> "allocate", size |-> size, lender |-> Nobody]
        /\ pooled' = pooled /\ used' = used /\ lent' = lent
    BY DEF AllocateFails
  <1>2. /\ heap' \in [Block -> {NotAllocated} \cup 0..Bytes[MaxShift]]
        /\ \A c \in Block : heap'[c] = IF lent[c] = Nobody THEN NotAllocated ELSE heap[c]
    BY <1>1, PurgeFacts
  <1>3. TypeOK'
    BY <1>1, <1>2, NoBlocksFacts DEF IInv, TypeOK
  <1>4. ListsInv' /\ FreeInv' /\ OffInv'
    BY <1>1, NoBlocksFacts DEF IInv, ListsInv, FreeInv, OffInv
  <1>5. UsedInv'
    <2> SUFFICES ASSUME NEW j \in Shifts, NEW c \in ToSet(used[j])
                 PROVE  /\ lent[c] # Nobody /\ lent[c].pooled
                        /\ shift(lent[c].size) = j /\ heap'[c] = Bytes[j]
      BY <1>1 DEF UsedInv
    <2>1. c \in Block
      BY ListTypes DEF IInv
    <2> QED BY <1>2, <2>1 DEF IInv, UsedInv
  <1>6. LentInv' /\ HeapInv'
    BY <1>1, <1>2 DEF IInv, LentInv, HeapInv
  <1>7. FailsOnlyForForeignBlocks'
    BY <1>1 DEF FailsOnlyForForeignBlocks
  <1> QED BY <1>3, <1>4, <1>5, <1>6, <1>7 DEF IInv

LEMMA DeallocateInv ==
    ASSUME IInv, NEW b \in Block, Deallocate(b)
    PROVE  IInv'
  <1> DEFINE i == shift(lent[b].size)
  <1>1. /\ pooled /\ lent[b] # Nobody /\ Contains(used[i], b)
        /\ free' = [free EXCEPT ![i] = Append(@, b)]
        /\ used' = [used EXCEPT ![i] = RemoveFirst(@, b)]
        /\ lent' = [lent EXCEPT ![b] = Nobody]
        /\ pooled' = pooled /\ heap' = heap /\ failure' = failure
    BY DEF Deallocate
  <1>2. i \in Shifts /\ used[i] \in Seq(Block) /\ free[i] \in Seq(Block)
    BY <1>1, LentFacts, ListTypes DEF IInv
  <1> HIDE DEF i
  <1>3. /\ b \in ToSet(used[i]) /\ heap[b] = Bytes[i]
        /\ \A j \in Shifts : b \in ToSet(used[j]) => j = i
    BY <1>1, <1>2, ListFacts DEF IInv, UsedInv, i
  <1>4. \A j \in Shifts : b \notin ToSet(free[j])
    BY <1>1 DEF IInv, FreeInv
  <1>5. /\ RemoveFirst(used[i], b) \in Seq(Block) /\ Distinct(RemoveFirst(used[i], b))
        /\ ToSet(RemoveFirst(used[i], b)) = ToSet(used[i]) \ {b}
    BY <1>1, <1>2, RemoveFirstList DEF IInv, ListsInv
  <1>6. /\ Append(free[i], b) \in Seq(Block) /\ Distinct(Append(free[i], b))
        /\ ToSet(Append(free[i], b)) = ToSet(free[i]) \cup {b}
    BY <1>2, <1>4, AppendList DEF IInv, ListsInv
  <1>7. \A j \in Shifts :
            /\ used'[j] = IF j = i THEN RemoveFirst(used[i], b) ELSE used[j]
            /\ free'[j] = IF j = i THEN Append(free[i], b) ELSE free[j]
    BY <1>1, <1>2 DEF IInv, TypeOK
  <1>8. \A j \in Shifts : /\ ToSet(used'[j]) = ToSet(used[j]) \ {b}
                          /\ ToSet(free'[j]) = ToSet(free[j]) \cup (IF j = i THEN {b} ELSE {})
    BY <1>3, <1>5, <1>6, <1>7
  <1>9. lent'[b] = Nobody /\ \A c \in Block \ {b} : lent'[c] = lent[c]
    BY <1>1 DEF IInv, TypeOK
  <1>10. TypeOK'
    <2>1. used' \in [Shifts -> Seq(Block)] /\ free' \in [Shifts -> Seq(Block)]
      BY <1>1, <1>5, <1>6 DEF IInv, TypeOK
    <2>2. lent' \in [Block -> {Nobody} \cup Request]
      BY <1>1 DEF IInv, TypeOK
    <2> QED BY <1>1, <2>1, <2>2 DEF IInv, TypeOK
  <1>11. ListsInv'
    <2>1. \A j \in Shifts : Distinct(used'[j]) /\ Distinct(free'[j])
      BY <1>5, <1>6, <1>7 DEF IInv, ListsInv
    <2> QED BY <2>1 DEF ListsInv, Distinct
  <1>12. UsedInv'
    <2> SUFFICES ASSUME NEW j \in Shifts, NEW c \in ToSet(used'[j])
                 PROVE  /\ lent'[c] # Nobody /\ lent'[c].pooled
                        /\ shift(lent'[c].size) = j /\ heap'[c] = Bytes[j]
      BY DEF UsedInv, ToSet
    <2>1. c \in ToSet(used[j]) /\ c # b /\ c \in Block
      BY <1>8, ListTypes DEF IInv
    <2> QED BY <1>1, <1>9, <2>1 DEF IInv, UsedInv
  <1>13. FreeInv'
    <2> SUFFICES ASSUME NEW j \in Shifts, NEW c \in ToSet(free'[j])
                 PROVE  lent'[c] = Nobody /\ heap'[c] = Bytes[j]
      BY DEF FreeInv, ToSet
    <2>1. CASE c = b
      <3>1. j = i
        BY <1>4, <1>8, <2>1
      <3> QED BY <1>1, <1>3, <1>9, <2>1, <3>1
    <2>2. CASE c # b
      <3>1. c \in ToSet(free[j]) /\ c \in Block
        BY <1>8, <2>2, ListTypes DEF IInv
      <3> QED BY <1>1, <1>9, <2>2, <3>1 DEF IInv, FreeInv
    <2> QED BY <2>1, <2>2
  <1>14. LentInv'
    <2> SUFFICES ASSUME NEW c \in Block, lent'[c] # Nobody
                 PROVE  /\ lent'[c].pooled => c \in ToSet(used'[shift(lent'[c].size)])
                        /\ ~lent'[c].pooled => heap'[c] = lent'[c].size
      BY DEF LentInv, ToSet
    <2>1. c # b /\ lent'[c] = lent[c] /\ shift(lent[c].size) \in Shifts
      BY <1>9, LentFacts DEF IInv
    <2> QED BY <1>1, <1>8, <2>1 DEF IInv, LentInv
  <1>15. HeapInv'
    <2> SUFFICES ASSUME NEW c \in Block, heap'[c] # NotAllocated, lent'[c] = Nobody
                 PROVE  \E j \in Shifts : c \in ToSet(free'[j])
      BY DEF HeapInv, ToSet
    <2>1. CASE c = b
      BY <1>2, <1>8, <2>1
    <2>2. CASE c # b
      <3>1. PICK j \in Shifts : c \in ToSet(free[j])
        BY <1>1, <1>9, <2>2 DEF IInv, HeapInv
      <3> QED BY <1>8, <3>1
    <2> QED BY <2>1, <2>2
  <1>16. OffInv' /\ FailsOnlyForForeignBlocks'
    BY <1>1 DEF IInv, OffInv, FailsOnlyForForeignBlocks
  <1> QED BY <1>10, <1>11, <1>12, <1>13, <1>14, <1>15, <1>16 DEF IInv

LEMMA DeallocateFailsInv ==
    ASSUME IInv, NEW b \in Block, DeallocateFails(b)
    PROVE  IInv'
  <1>1. /\ lent[b] # Nobody /\ ~Contains(used[shift(lent[b].size)], b)
        /\ failure' = [in |-> "deallocate", size |-> lent[b].size, lender |-> lent[b]]
        /\ UNCHANGED <<pooled, used, free, heap, lent>>
    BY DEF DeallocateFails
  <1>2. lent[b] \in Request /\ lent[b].size \in Sizes /\ shift(lent[b].size) \in Shifts
    BY <1>1, LentFacts DEF IInv
  <1>3. ~lent[b].pooled
    BY <1>1, <1>2, ListTypes, ListFacts DEF IInv, LentInv
  <1>4. TypeOK'
    BY <1>1, <1>2 DEF IInv, TypeOK
  <1>5. ListsInv' /\ UsedInv' /\ FreeInv' /\ LentInv' /\ HeapInv' /\ OffInv'
    BY <1>1 DEF IInv, ListsInv, UsedInv, FreeInv, LentInv, HeapInv, OffInv
  <1>6. FailsOnlyForForeignBlocks'
    BY <1>1, <1>3 DEF FailsOnlyForForeignBlocks
  <1> QED BY <1>4, <1>5, <1>6 DEF IInv

LEMMA DeviceMallocInv ==
    ASSUME IInv, NEW size \in Sizes, NEW b \in Block, DeviceMalloc(size, b)
    PROVE  IInv'
  <1> DEFINE r == [size |-> size, pooled |-> FALSE]
  <1>1. /\ heap[b] = NotAllocated /\ heap' = [heap EXCEPT ![b] = size]
        /\ lent' = [lent EXCEPT ![b] = r]
        /\ UNCHANGED <<pooled, used, free, failure>>
    BY DEF DeviceMalloc, OnHeap
  <1>2. r \in Request /\ r # Nobody /\ r.size = size /\ r.pooled = FALSE
    BY RequestFacts
  <1>3. lent[b] = Nobody /\ \A j \in Shifts : b \notin ToSet(used[j]) /\ b \notin ToSet(free[j])
    BY <1>1, FreshBlock
  <1> HIDE DEF r
  <1>4. /\ heap'[b] = size /\ lent'[b] = r
        /\ \A c \in Block \ {b} : heap'[c] = heap[c] /\ lent'[c] = lent[c]
    BY <1>1 DEF IInv, TypeOK
  <1>5. \A j \in Shifts : /\ ToSet(used'[j]) \subseteq Block \ {b}
                          /\ ToSet(free'[j]) \subseteq Block \ {b}
    BY <1>1, <1>3, ListTypes DEF IInv
  <1>6. TypeOK'
    BY <1>1, <1>2, SizesAssumption DEF IInv, TypeOK
  <1>7. ListsInv' /\ OffInv' /\ FailsOnlyForForeignBlocks'
    BY <1>1 DEF IInv, ListsInv, OffInv, FailsOnlyForForeignBlocks
  <1>8. UsedInv' /\ FreeInv'
    BY <1>1, <1>4, <1>5 DEF IInv, UsedInv, FreeInv
  <1>9. LentInv' /\ HeapInv'
    BY <1>1, <1>2, <1>4 DEF IInv, LentInv, HeapInv
  <1> QED BY <1>6, <1>7, <1>8, <1>9 DEF IInv

LEMMA DeviceMallocFailsInv ==
    ASSUME IInv, NEW size \in Sizes, DeviceMallocFails(size)
    PROVE  IInv'
  <1>1. /\ failure' = [in |-> "allocate", size |-> size, lender |-> Nobody]
        /\ UNCHANGED <<pooled, used, free, heap, lent>>
    BY DEF DeviceMallocFails
  <1> QED BY <1>1 DEF IInv, TypeOK, ListsInv, UsedInv, FreeInv, LentInv, HeapInv, OffInv,
                      FailsOnlyForForeignBlocks

LEMMA DeviceFreeInv ==
    ASSUME IInv, NEW b \in Block, DeviceFree(b)
    PROVE  IInv'
  <1>1. /\ ~pooled /\ lent[b] # Nobody /\ heap' = [heap EXCEPT ![b] = NotAllocated]
        /\ lent' = [lent EXCEPT ![b] = Nobody]
        /\ UNCHANGED <<pooled, used, free, failure>>
    BY DEF DeviceFree
  <1>2. \A j \in Shifts : ToSet(used[j]) = {} /\ ToSet(free[j]) = {}
    BY <1>1, NoBlocksFacts DEF IInv, OffInv
  <1>3. /\ heap'[b] = NotAllocated /\ lent'[b] = Nobody
        /\ \A c \in Block \ {b} : heap'[c] = heap[c] /\ lent'[c] = lent[c]
    BY <1>1 DEF IInv, TypeOK
  <1>4. TypeOK'
    BY <1>1 DEF IInv, TypeOK
  <1>5. ListsInv' /\ UsedInv' /\ FreeInv' /\ OffInv' /\ FailsOnlyForForeignBlocks'
    BY <1>1, <1>2 DEF IInv, ListsInv, UsedInv, FreeInv, OffInv, FailsOnlyForForeignBlocks
  <1>6. LentInv' /\ HeapInv'
    BY <1>1, <1>3 DEF IInv, LentInv, HeapInv
  <1> QED BY <1>4, <1>5, <1>6 DEF IInv

LEMMA NextInv == IInv /\ [Next]_vars => IInv'
  <1> SUFFICES ASSUME IInv, [Next]_vars
               PROVE  IInv'
    OBVIOUS
  <1>1. CASE enable_pooling
    BY <1>1, EnablePoolingInv
  <1>2. CASE disable_pooling
    BY <1>2, DisablePoolingInv
  <1>3. ASSUME NEW size \in Sizes, AllocateReuse(size) PROVE IInv'
    BY <1>3, AllocateReuseInv
  <1>4. ASSUME NEW size \in Sizes, AllocateFails(size) PROVE IInv'
    BY <1>4, AllocateFailsInv
  <1>5. ASSUME NEW size \in Sizes, DeviceMallocFails(size) PROVE IInv'
    BY <1>5, DeviceMallocFailsInv
  <1>6. ASSUME NEW size \in Sizes, NEW b \in Block, AllocateFresh(size, b) PROVE IInv'
    BY <1>6, AllocateFreshInv
  <1>7. ASSUME NEW size \in Sizes, NEW b \in Block, AllocateAfterPurge(size, b) PROVE IInv'
    BY <1>7, AllocateAfterPurgeInv
  <1>8. ASSUME NEW size \in Sizes, NEW b \in Block, DeviceMalloc(size, b) PROVE IInv'
    BY <1>8, DeviceMallocInv
  <1>9. ASSUME NEW b \in Block, Deallocate(b) PROVE IInv'
    BY <1>9, DeallocateInv
  <1>10. ASSUME NEW b \in Block, DeallocateFails(b) PROVE IInv'
    BY <1>10, DeallocateFailsInv
  <1>11. ASSUME NEW b \in Block, DeviceFree(b) PROVE IInv'
    BY <1>11, DeviceFreeInv
  <1>12. CASE UNCHANGED vars
    BY <1>12 DEF vars, IInv, TypeOK, ListsInv, UsedInv, FreeInv, LentInv, HeapInv, OffInv,
                 FailsOnlyForForeignBlocks
  <1> QED BY <1>1, <1>2, <1>3, <1>4, <1>5, <1>6, <1>7, <1>8, <1>9, <1>10, <1>11, <1>12 DEF Next

-----------------------------------------------------------------------------
(* Theorems                                                                *)

THEOREM InductiveInvariant == Spec => []IInv
  BY InitInv, NextInv, PTL DEF Spec

\* Every block in a list has a class of the pool, and every block lent has a size
\* somebody asked for.
THEOREM TypeCorrect == Spec => []TypeOK
  BY InductiveInvariant, PTL DEF IInv

\* The pool's lists and malloc's heap agree after any sequence of allocate,
\* deallocate, purges and switching the pool on and off.
THEOREM ListsAndHeapAgree == Spec => []ListsMatchHeap
  <1> DEFINE lists == [i \in Shifts |-> used[i] \o free[i]]
  <1>1. ASSUME IInv PROVE OnHeap = {b \in Block : lent[b] # Nobody} \cup Blocks(free)
    <2>1. ASSUME NEW b \in OnHeap PROVE lent[b] # Nobody \/ b \in Blocks(free)
      BY <1>1, BlocksFacts DEF IInv, HeapInv, OnHeap
    <2>2. ASSUME NEW b \in Block, lent[b] # Nobody PROVE b \in OnHeap
      BY <1>1, <2>2, FreshBlock DEF OnHeap
    <2>3. ASSUME NEW b \in Blocks(free) PROVE b \in OnHeap
      BY <1>1, BlocksFacts, FreeBlock, BytesInRange DEF OnHeap
    <2> QED BY <2>1, <2>2, <2>3 DEF OnHeap
  <1>2. ASSUME IInv PROVE Blocks(used) = {b \in Block : lent[b].pooled}
    <2>1. ASSUME NEW b \in Blocks(used) PROVE b \in Block /\ lent[b].pooled
      BY <1>2, BlocksFacts, ListTypes DEF IInv, UsedInv
    <2>2. ASSUME NEW b \in Block, lent[b].pooled PROVE b \in Blocks(used)
      <3>1. lent[b] # Nobody
        BY <2>2, RequestFacts
      <3> QED BY <1>2, <2>2, <3>1, BlocksFacts, LentFacts DEF IInv, LentInv
    <2> QED BY <2>1, <2>2
  <1>3. ASSUME IInv, NEW i \in Shifts
        PROVE  /\ Len(used[i]) \in Nat /\ Len(free[i]) \in Nat
               /\ DOMAIN lists[i] = 1..(Len(used[i]) + Len(free[i]))
               /\ \A p \in DOMAIN lists[i] :
                    lists[i][p] = IF p <= Len(used[i]) THEN used[i][p]
                                  ELSE free[i][p - Len(used[i])]
    <2>1. /\ used[i] \in Seq(Block) /\ free[i] \in Seq(Block)
          /\ Len(used[i]) \in Nat /\ Len(free[i]) \in Nat
      BY <1>3, ListTypes, ListFacts DEF IInv
    <2>2. /\ used[i] \o free[i] \in Seq(Block)
          /\ Len(used[i] \o free[i]) = Len(used[i]) + Len(free[i])
          /\ \A p \in 1..(Len(used[i]) + Len(free[i])) :
                (used[i] \o free[i])[p] = IF p <= Len(used[i]) THEN used[i][p]
                                          ELSE free[i][p - Len(used[i])]
      BY <2>1, ConcatProperties
    <2>3. DOMAIN (used[i] \o free[i]) = 1..(Len(used[i]) + Len(free[i]))
      BY <2>2, LenProperties
    <2> QED BY <2>1, <2>2, <2>3
  <1> HIDE DEF lists
  \* Where a block of the joined lists comes from.
  <1>4. ASSUME IInv, NEW i \in Shifts, NEW p \in DOMAIN lists[i]
        PROVE  \/ /\ p \in 1..Len(used[i]) /\ lists[i][p] = used[i][p]
                  /\ lists[i][p] \in ToSet(used[i])
               \/ /\ p - Len(used[i]) \in 1..Len(free[i]) /\ p \in Nat
                  /\ lists[i][p] = free[i][p - Len(used[i])]
                  /\ lists[i][p] \in ToSet(free[i])
    <2> DEFINE m == Len(used[i])
               n == Len(free[i])
    <2>0. \A a, c \in Nat : \A k \in 1..(a + c) :
            k \in Nat /\ (k <= a => k \in 1..a) /\ (~ (k <= a) => k - a \in 1..c)
      BY SMT
    <2>1. m \in Nat /\ n \in Nat /\ DOMAIN lists[i] = 1..(m + n)
      BY <1>3, <1>4
    <2>2. p \in 1..(m + n)
      BY <1>4, <2>1
    <2>3. p \in Nat /\ (p <= m => p \in 1..m) /\ (~ (p <= m) => p - m \in 1..n)
      BY <2>0, <2>1, <2>2
    <2>4. lists[i][p] = IF p <= m THEN used[i][p] ELSE free[i][p - m]
      BY <1>3, <1>4
    <2> HIDE DEF m, n
    <2>5. CASE p <= m
      <3>1. p \in 1..m /\ lists[i][p] = used[i][p]
        BY <2>3, <2>4, <2>5
      <3> QED BY <1>4, <3>1, ListTypes, ListFacts DEF IInv, m
    <2>6. CASE ~ (p <= m)
      <3>1. p - m \in 1..n /\ p \in Nat /\ lists[i][p] = free[i][p - m]
        BY <2>3, <2>4, <2>6
      <3> QED BY <1>4, <3>1, ListTypes, ListFacts DEF IInv, m, n
    <2> QED BY <2>5, <2>6
  <1>5. ASSUME IInv, NEW i \in Shifts, NEW j \in Shifts, NEW p \in DOMAIN lists[i],
               NEW q \in DOMAIN lists[j], lists[i][p] = lists[j][q]
        PROVE  i = j /\ p = q
    <2> DEFINE b == lists[i][p]
    <2>1. CASE b \in ToSet(used[i]) /\ b \in ToSet(used[j])
      <3>1. i = j
        BY <1>5, <2>1 DEF IInv, UsedInv
      <3>2. \A k \in Shifts : b \notin ToSet(free[k])
        BY <1>5, <2>1 DEF IInv, UsedInv, FreeInv
      <3>3. p \in 1..Len(used[i]) /\ q \in 1..Len(used[i]) /\ used[i][p] = used[i][q]
        BY <1>4, <1>5, <3>1, <3>2
      <3> QED BY <1>5, <3>1, <3>3 DEF IInv, ListsInv, Distinct
    <2>2. CASE b \in ToSet(free[i]) /\ b \in ToSet(free[j])
      <3>1. i = j /\ \A k \in Shifts : b \notin ToSet(used[k])
        BY <1>5, <2>2, FreeBlock
      <3>2. /\ p - Len(used[i]) \in 1..Len(free[i]) /\ q - Len(used[i]) \in 1..Len(free[i])
            /\ p \in Nat /\ q \in Nat
            /\ free[i][p - Len(used[i])] = free[i][q - Len(used[i])]
        BY <1>4, <1>5, <3>1
      <3>3. p - Len(used[i]) = q - Len(used[i])
        BY <1>5, <3>2 DEF IInv, ListsInv, Distinct
      <3> QED BY <1>3, <1>5, <3>1, <3>2, <3>3
    <2>3. ~ (b \in ToSet(used[i]) /\ b \in ToSet(free[j]))
      BY <1>5 DEF IInv, UsedInv, FreeInv
    <2>4. ~ (b \in ToSet(free[i]) /\ b \in ToSet(used[j]))
      BY <1>5 DEF IInv, UsedInv, FreeInv
    <2> QED BY <1>4, <1>5, <2>1, <2>2, <2>3, <2>4
  <1>6. ASSUME IInv, NEW i \in Shifts, NEW b \in ToSet(lists[i]) PROVE heap[b] = Bytes[i]
    <2>1. PICK p \in DOMAIN lists[i] : b = lists[i][p]
      BY DEF ToSet
    <2>2. b \in ToSet(used[i]) \/ b \in ToSet(free[i])
      BY <1>4, <1>6, <2>1
    <2> QED BY <1>6, <2>2 DEF IInv, UsedInv, FreeInv
  <1>7. IInv => ListsMatchHeap
    BY <1>1, <1>2, <1>5, <1>6 DEF ListsMatchHeap, lists
  <1> QED BY <1>7, InductiveInvariant, PTL

\* A user gets at least what it asked for, less than twice that from the pool, and
\* deallocate finds the block where it looks for it.
THEOREM BlocksFit == Spec => []LentBlocksFit
  <1>1. ASSUME IInv, NEW b \in Block, lent[b] # Nobody
        PROVE  /\ heap[b] >= lent[b].size
               /\ lent[b].pooled => heap[b] < 2 * Max({lent[b].size, 1})
               /\ lent[b].pooled => Contains(used[shift(lent[b].size)], b)
    <2> DEFINE i == shift(lent[b].size)
    <2>1. i \in Shifts /\ lent[b].size \in Sizes /\ lent[b].size \in Nat
      BY <1>1, LentFacts DEF IInv
    <2>2. CASE lent[b].pooled
      <3>1. b \in ToSet(used[i]) /\ heap[b] = Bytes[i]
        BY <1>1, <2>1, <2>2 DEF IInv, LentInv, UsedInv
      <3>2. Contains(used[i], b)
        BY <1>1, <2>1, <3>1, ListTypes, ListFacts DEF IInv
      <3> QED BY <2>1, <2>2, <3>1, <3>2, ShiftFacts
    <2>3. CASE ~lent[b].pooled
      BY <1>1, <2>1, <2>3 DEF IInv, LentInv
    <2> QED BY <2>2, <2>3
  <1>2. IInv => LentBlocksFit
    BY <1>1 DEF LentBlocksFit
  <1> QED BY <1>2, InductiveInvariant, PTL

\* deallocate fails only for a block that was lent before the pool was switched on.
THEOREM OnlyForeignBlocksFail == Spec => []FailsOnlyForForeignBlocks
  BY InductiveInvariant, PTL DEF IInv

\* What AllocateFails asks malloc in vain is room beside the blocks in use alone:
\* the purge has left nothing else on the heap.
LEMMA AllocateFailsFull ==
    ASSUME IInv, NEW size \in Sizes, AllocateFails(size)
    PROVE  FailsOnlyWhenFull'
  <1> DEFINE purged == FreedAll(heap, free)
             inUse == [b \in Block |-> IF lent[b] = Nobody THEN NotAllocated ELSE heap[b]]
  <1>1. /\ ~Fits(purged, Bytes[shift(size)]) /\ heap' = purged /\ pooled' = TRUE /\ lent' = lent
        /\ failure' = [in |-> "allocate", size |-> size, lender |-> Nobody]
    BY DEF AllocateFails
  <1>2. purged = inUse
    <2>1. purged = [b \in Block |-> purged[b]]
      BY DEF FreedAll
    <2>2. \A b \in Block : purged[b] = inUse[b]
      BY PurgeFacts
    <2> QED BY <2>1, <2>2
  <1>3. inUse' = purged
    <2>1. \A b \in Block : heap'[b] = inUse[b]
      BY <1>1, <1>2
    <2> QED BY <1>1, <1>2, <2>1
  <1> HIDE DEF purged
  <1> QED BY <1>1, <1>3 DEF FailsOnlyWhenFull

\* Without a pool there is nothing on the heap but the blocks in use.
LEMMA DeviceMallocFailsFull ==
    ASSUME IInv, NEW size \in Sizes, DeviceMallocFails(size)
    PROVE  FailsOnlyWhenFull'
  <1> DEFINE inUse == [b \in Block |-> IF lent[b] = Nobody THEN NotAllocated ELSE heap[b]]
  <1>1. /\ ~pooled /\ ~Fits(heap, size)
        /\ failure' = [in |-> "allocate", size |-> size, lender |-> Nobody]
        /\ pooled' = pooled /\ heap' = heap /\ lent' = lent
    BY DEF DeviceMallocFails
  <1>2. heap = inUse
    <2>1. \A i \in Shifts : ToSet(free[i]) = {}
      BY <1>1, NoBlocksFacts DEF IInv, OffInv
    <2>2. \A b \in Block : heap[b] # NotAllocated => lent[b] # Nobody
      BY <2>1 DEF IInv, HeapInv
    <2>3. heap = [b \in Block |-> heap[b]]
      BY DEF IInv, TypeOK
    <2> QED BY <2>2, <2>3
  <1>3. inUse' = heap
    BY <1>1, <1>2
  <1> QED BY <1>1, <1>3 DEF FailsOnlyWhenFull

LEMMA NextFull == IInv /\ FailsOnlyWhenFull /\ [Next]_vars => FailsOnlyWhenFull'
  <1> SUFFICES ASSUME IInv, FailsOnlyWhenFull, [Next]_vars
               PROVE  FailsOnlyWhenFull'
    OBVIOUS
  <1>1. ASSUME NEW size \in Sizes, AllocateFails(size) PROVE FailsOnlyWhenFull'
    BY <1>1, AllocateFailsFull
  <1>2. ASSUME NEW size \in Sizes, DeviceMallocFails(size) PROVE FailsOnlyWhenFull'
    BY <1>2, DeviceMallocFailsFull
  <1>3. CASE failure' = NoFailure
    BY <1>3 DEF FailsOnlyWhenFull, NoFailure
  <1>4. ASSUME NEW b \in Block, DeallocateFails(b) PROVE FailsOnlyWhenFull'
    BY <1>4 DEF DeallocateFails, FailsOnlyWhenFull
  <1>5. CASE UNCHANGED vars
    BY <1>5 DEF FailsOnlyWhenFull, vars
  <1>6. CASE enable_pooling \/ disable_pooling
    BY <1>3, <1>6 DEF enable_pooling, disable_pooling, Running
  <1>7. ASSUME NEW size \in Sizes, AllocateReuse(size) PROVE FailsOnlyWhenFull'
    BY <1>3, <1>7 DEF AllocateReuse, Running
  <1>8. ASSUME NEW size \in Sizes, NEW b \in Block,
               AllocateFresh(size, b) \/ AllocateAfterPurge(size, b) \/ DeviceMalloc(size, b)
        PROVE  FailsOnlyWhenFull'
    BY <1>3, <1>8 DEF AllocateFresh, AllocateAfterPurge, DeviceMalloc, Running
  <1>9. ASSUME NEW b \in Block, Deallocate(b) \/ DeviceFree(b) PROVE FailsOnlyWhenFull'
    BY <1>3, <1>9 DEF Deallocate, DeviceFree, Running
  <1> QED BY <1>1, <1>2, <1>4, <1>5, <1>6, <1>7, <1>8, <1>9 DEF Next

\* The pool gives up a request only when it would not fit beside the blocks in
\* use alone, and a block only when it was lent while there was no pool: idle
\* blocks never make allocate fail, and deallocate finds what the pool lent.
THEOREM FailuresHaveACause == Spec => []FailsOnlyForCause
  <1>1. Init => FailsOnlyWhenFull
    BY DEF Init, FailsOnlyWhenFull, NoFailure
  <1>2. Spec => []FailsOnlyWhenFull
    BY <1>1, NextFull, InductiveInvariant, PTL DEF Spec
  <1>3. FailsOnlyWhenFull /\ FailsOnlyForForeignBlocks => FailsOnlyForCause
    BY DEF FailsOnlyForCause
  <1> QED BY <1>2, <1>3, OnlyForeignBlocksFail, PTL
=============================================================================
