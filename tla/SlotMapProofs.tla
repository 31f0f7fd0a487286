---------------------------- MODULE SlotMapProofs ----------------------------
(* What the operators of SlotMap compute, for any number of slots and sizes. *)
EXTENDS SlotMap, WellFoundedInduction, TLAPS

(* Induction over an interval, by a smallest counterexample. *)
LEMMA IntervalInduction ==
    ASSUME NEW n \in Nat, NEW S, 0 \in S, \A i \in 0..n - 1 : i \in S => i + 1 \in S
    PROVE  0..n \subseteq S
<1> DEFINE T == (0..n) \ S
           R == OpToRel(<, Nat)
<1>1. SUFFICES ASSUME T # {} PROVE FALSE
  OBVIOUS
<1>2. IsWellFoundedOn(R, Nat)
  BY NatLessThanWellFounded
<1>3. T \subseteq Nat
  OBVIOUS
<1>4. \A x, y \in Nat : y < x => <<y, x>> \in R
  BY DEF OpToRel
<1> HIDE DEF R
<1>5. PICK x \in T : \A y \in T : ~(<<y, x>> \in R)
  <2> HIDE DEF T
  <2> QED BY <1>1, <1>2, <1>3, WFMin
<1>6. x \in 1..n /\ x - 1 \in 0..n - 1
  OBVIOUS
<1>7. x - 1 \notin T
  <2>1. <<x - 1, x>> \in R
    BY <1>4, <1>6
  <2> QED BY <1>5, <2>1
<1> QED BY <1>6, <1>7

------------------------------------------------------------------------------
(* What is known of the numbers that the constants give. *)
LEMMA SlotConstants ==
    /\ NumSlots \in Nat /\ NumSlots > 0 /\ Slots = 0..NumSlots - 1 /\ 0 \in Slots
    /\ Word \in Nat /\ Word > 0 /\ Region \in Nat
BY SlotMapAssumption DEF Slots

(* f counts the bytes of the first slots of m. *)
Counts(f, m, k) == f = [n \in 0..k |-> IF n = 0 THEN 0 ELSE f[n - 1] + m[n - 1].size]

(* The rounds of the loop that counts the used size are well defined. *)
LEMMA CountExists == ASSUME NEW m PROVE \E f : Counts(f, m, NumSlots)
<1> NumSlots \in Nat
  BY SlotConstants
<1> DEFINE S == {k \in 0..NumSlots : \E f : Counts(f, m, k)}
<1>1. 0 \in S
  <2>1. Counts([n \in 0..0 |-> 0], m, 0)
    BY DEF Counts
  <2> QED BY <2>1
<1>2. ASSUME NEW k \in 0..NumSlots - 1, k \in S PROVE k + 1 \in S
  <2>1. PICK f : Counts(f, m, k)
    BY <1>2
  <2> DEFINE g == [n \in 0..k + 1 |-> IF n = k + 1 THEN f[k] + m[k].size ELSE f[n]]
  <2>2. \A n \in 0..k : f[n] = IF n = 0 THEN 0 ELSE f[n - 1] + m[n - 1].size
    BY <2>1 DEF Counts
  <2>3. ASSUME NEW n \in 0..k + 1
        PROVE  g[n] = IF n = 0 THEN 0 ELSE g[n - 1] + m[n - 1].size
    <3>1. CASE n = k + 1
      <4>1. n # 0 /\ n - 1 = k /\ k \in 0..k + 1 /\ k # k + 1
        BY <3>1
      <4>2. g[n] = f[k] + m[k].size /\ g[k] = f[k]
        BY <3>1, <4>1
      <4> QED BY <4>1, <4>2
    <3>2. CASE n \in 0..k
      <4>1. g[n] = f[n] /\ (n # 0 => g[n - 1] = f[n - 1])
        BY <3>2
      <4> QED BY <3>2, <4>1, <2>2
    <3> QED BY <3>1, <3>2
  <2>4. Counts(g, m, k + 1)
    BY <2>3 DEF Counts
  <2> HIDE DEF g
  <2> QED BY <2>4
<1>3. NumSlots \in S
  <2> HIDE DEF S
  <2>1. 0..NumSlots \subseteq S
    BY <1>1, <1>2, IntervalInduction
  <2> QED BY <2>1
<1> QED BY <1>3

(* The used size is the last of these counts. *)
LEMMA UsedIsCount ==
    ASSUME NEW m
    PROVE  \E f : /\ UsedSize(m) = f[NumSlots] /\ f[0] = 0
                  /\ \A n \in 0..NumSlots - 1 : f[n + 1] = f[n] + m[n].size
<1> DEFINE f == CHOOSE g : Counts(g, m, NumSlots)
<1>1. UsedSize(m) = f[NumSlots]
  BY DEF UsedSize, Counts
<1>2. Counts(f, m, NumSlots)
  BY CountExists
<1> HIDE DEF f
<1>3. \A n \in 0..NumSlots : f[n] = IF n = 0 THEN 0 ELSE f[n - 1] + m[n - 1].size
  BY <1>2 DEF Counts
<1>4. f[0] = 0
  BY <1>3, SlotConstants
<1>5. ASSUME NEW n \in 0..NumSlots - 1 PROVE f[n + 1] = f[n] + m[n].size
  <2>1. n + 1 \in 0..NumSlots /\ n + 1 # 0 /\ (n + 1) - 1 = n
    BY SlotConstants
  <2> QED BY <1>3, <2>1
<1> QED BY <1>1, <1>4, <1>5

(* The used size is a number of bytes, and at most what the slots can hold. *)
LEMMA UsedBound ==
    ASSUME NEW m \in MapType, NEW max \in Nat, \A s \in Slots : m[s].size <= max
    PROVE  UsedSize(m) \in Nat /\ UsedSize(m) <= NumSlots * max
<1> NumSlots \in Nat /\ Slots = 0..NumSlots - 1
  BY SlotConstants
<1>1. PICK f : /\ UsedSize(m) = f[NumSlots] /\ f[0] = 0
               /\ \A n \in 0..NumSlots - 1 : f[n + 1] = f[n] + m[n].size
  BY UsedIsCount
<1> DEFINE S == {n \in 0..NumSlots : f[n] \in Nat /\ f[n] <= n * max}
<1>2. 0 \in S
  BY <1>1
<1>3. ASSUME NEW n \in 0..NumSlots - 1, n \in S PROVE n + 1 \in S
  <2>1. m[n].size \in Nat /\ m[n].size <= max
    BY DEF MapType
  <2>2. f[n + 1] = f[n] + m[n].size /\ f[n] \in Nat /\ f[n] <= n * max
    BY <1>1, <1>3
  <2>3. n * max \in Nat /\ (n + 1) * max = n * max + max
    OBVIOUS
  <2>4. f[n + 1] \in Nat /\ f[n + 1] <= (n + 1) * max
    BY <2>1, <2>2, <2>3
  <2> QED BY <2>4
<1>4. NumSlots \in S
  <2> HIDE DEF S
  <2>1. 0..NumSlots \subseteq S
    BY <1>2, <1>3, IntervalInduction
  <2> QED BY <2>1
<1> QED BY <1>1, <1>4

(* When one slot changes, the used size changes by as much. *)
LEMMA UsedChange ==
    ASSUME NEW m \in MapType, NEW new \in MapType, NEW d \in Slots,
           \A s \in Slots \ {d} : new[s].size = m[s].size,
           UsedSize(m) \in Nat, UsedSize(new) \in Nat
    PROVE  UsedSize(new) = UsedSize(m) - m[d].size + new[d].size
<1> NumSlots \in Nat /\ Slots = 0..NumSlots - 1
  BY SlotConstants
<1>1. PICK f : /\ UsedSize(m) = f[NumSlots] /\ f[0] = 0
               /\ \A n \in 0..NumSlots - 1 : f[n + 1] = f[n] + m[n].size
  BY UsedIsCount
<1>2. PICK g : /\ UsedSize(new) = g[NumSlots] /\ g[0] = 0
               /\ \A n \in 0..NumSlots - 1 : g[n + 1] = g[n] + new[n].size
  BY UsedIsCount
<1> DEFINE Same(n) == n <= d => g[n] = f[n]
           Shift(n) == n > d => g[n] = f[n] - m[d].size + new[d].size
           S == {n \in 0..NumSlots : f[n] \in Nat /\ g[n] \in Nat /\ Same(n) /\ Shift(n)}
<1>3. 0 \in S
  BY <1>1, <1>2
<1>4. ASSUME NEW n \in 0..NumSlots - 1, n \in S PROVE n + 1 \in S
  <2>1. m[n].size \in Nat /\ new[n].size \in Nat /\ m[d].size \in Nat /\ new[d].size \in Nat
        /\ n \in Nat /\ d \in Nat
    BY DEF MapType
  <2>2. f[n + 1] = f[n] + m[n].size /\ g[n + 1] = g[n] + new[n].size
    BY <1>1, <1>2
  <2>3. f[n] \in Nat /\ g[n] \in Nat /\ Same(n) /\ Shift(n)
    BY <1>4
  <2>4. n # d => new[n].size = m[n].size
    OBVIOUS
  <2> HIDE DEF S
  <2>5. Same(n + 1)
    BY <2>1, <2>2, <2>3, <2>4
  <2>6. Shift(n + 1)
    <3> SUFFICES ASSUME n + 1 > d
                 PROVE  g[n + 1] = f[n + 1] - m[d].size + new[d].size
      OBVIOUS
    <3>1. CASE n = d
      <4>1. g[n] = f[n]
        BY <2>1, <2>3, <3>1
      <4> QED BY <2>1, <2>2, <2>3, <3>1, <4>1
    <3>2. CASE n > d
      <4>1. g[n] = f[n] - m[d].size + new[d].size /\ new[n].size = m[n].size
        BY <2>1, <2>3, <2>4, <3>2
      <4>2. (f[n] - m[d].size + new[d].size) + m[n].size
            = (f[n] + m[n].size) - m[d].size + new[d].size
        <5> \A a, b, c, e \in Nat : (a - b + c) + e = (a + e) - b + c
          OBVIOUS
        <5> f[n] \in Nat
          BY <2>3
        <5> QED BY <2>1
      <4> QED BY <2>2, <4>1, <4>2
    <3>3. n = d \/ n > d
      BY <2>1
    <3> QED BY <3>1, <3>2, <3>3
  <2>7. n + 1 \in 0..NumSlots /\ f[n + 1] \in Nat /\ g[n + 1] \in Nat
    <3>1. n + 1 \in 0..NumSlots
      OBVIOUS
    <3>2. f[n] \in Nat /\ g[n] \in Nat
      BY <2>3
    <3> QED BY <2>1, <2>2, <3>1, <3>2
  <2> HIDE DEF Same, Shift
  <2> QED BY <2>5, <2>6, <2>7 DEF S
<1>5. NumSlots \in S
  <2> HIDE DEF S
  <2>1. 0..NumSlots \subseteq S
    BY <1>3, <1>4, IntervalInduction
  <2> QED BY <2>1
<1>6. m[d].size \in Nat /\ new[d].size \in Nat
  BY DEF MapType
<1> QED BY <1>1, <1>2, <1>5, <1>6

(* The used size counts each slot. *)
LEMMA UsedCountsEach ==
    ASSUME NEW m \in MapType
    PROVE  UsedSize(m) \in Nat /\ \A s \in Slots : m[s].size <= UsedSize(m)
<1> NumSlots \in Nat /\ Slots = 0..NumSlots - 1
  BY SlotConstants
<1>1. PICK f : /\ UsedSize(m) = f[NumSlots] /\ f[0] = 0
               /\ \A n \in 0..NumSlots - 1 : f[n + 1] = f[n] + m[n].size
  BY UsedIsCount
<1> DEFINE S == {n \in 0..NumSlots : f[n] \in Nat /\ \A s \in 0..n - 1 : m[s].size <= f[n]}
<1>2. 0 \in S
  BY <1>1
<1>3. ASSUME NEW n \in 0..NumSlots - 1, n \in S PROVE n + 1 \in S
  <2>1. m[n].size \in Nat /\ n + 1 \in 0..NumSlots /\ f[n] \in Nat
    BY <1>3 DEF MapType
  <2>2. f[n + 1] = f[n] + m[n].size
    BY <1>1
  <2>3. f[n + 1] \in Nat /\ m[n].size <= f[n + 1]
    BY <2>1, <2>2
  <2>4. ASSUME NEW s \in 0..n - 1 PROVE m[s].size <= f[n + 1]
    <3>1. m[s].size \in Nat /\ m[s].size <= f[n]
      BY <1>3 DEF MapType
    <3> QED BY <2>1, <2>2, <3>1
  <2>5. \A s \in 0..(n + 1) - 1 : s = n \/ s \in 0..n - 1
    OBVIOUS
  <2>6. \A s \in 0..(n + 1) - 1 : m[s].size <= f[n + 1]
    BY <2>3, <2>4, <2>5
  <2> QED BY <2>1, <2>3, <2>6
<1>4. NumSlots \in S
  <2> HIDE DEF S
  <2>1. 0..NumSlots \subseteq S
    BY <1>2, <1>3, IntervalInduction
  <2> QED BY <2>1
<1> QED BY <1>1, <1>4

------------------------------------------------------------------------------
(* Division rounds down. *)
LEMMA Division ==
    ASSUME NEW a \in Nat, NEW b \in Nat, b > 0
    PROVE  a \div b \in Nat /\ b * (a \div b) <= a /\ a < b * (a \div b) + b
OBVIOUS

(* What is aligned to words is a number of bytes, and at least as many.    *)
LEMMA AlignedType ==
    ASSUME NEW n \in Nat
    PROVE  WordAligned(n) \in Nat
<1> DEFINE k == (n + Word - 1) \div Word
<1>1. Word \in Nat /\ Word > 0 /\ n + Word - 1 \in Nat
  BY SlotConstants
<1>2. k \in Nat
  BY <1>1, Division
<1> HIDE DEF k
<1>3. k * Word \in Nat
  BY <1>1, <1>2
<1> QED BY <1>3 DEF WordAligned, k

(* To make room in a slot gives a map again: what moves has the slot in    *)
(* front of it, and the used size counts the slot.                         *)
LEMMA PreparedType ==
    ASSUME NEW m \in MapType, NEW d \in Slots
    PROVE  Prepared(m, d) \in MapType
<1>1. /\ m[d].offset \in Nat /\ m[d].size \in Nat
      /\ UsedSize(m) \in Nat /\ m[d].size <= UsedSize(m)
  BY UsedCountsEach DEF MapType
<1>2. GapClosed(m, d) \in MapType
  <2>1. ASSUME NEW s \in Slots, m[s].offset >= Behind(m, d)
        PROVE  [m[s] EXCEPT !.offset = @ - m[d].size] \in [offset : Nat, size : Nat]
    <3>1. m[s] \in [offset : Nat, size : Nat]
      BY DEF MapType
    <3>2. m[s].offset - m[d].size \in Nat
      BY <1>1, <2>1, <3>1 DEF Behind
    <3> QED BY <3>1, <3>2
  <2>2. ASSUME NEW s \in Slots PROVE m[s] \in [offset : Nat, size : Nat]
    BY DEF MapType
  <2> QED BY <2>1, <2>2 DEF GapClosed, MapType
<1>3. Entry(UsedSize(m) - m[d].size, 0) \in [offset : Nat, size : Nat]
  BY <1>1 DEF Entry
<1>4. EmptyMap \in MapType
  BY DEF EmptyMap, MapType, Entry
<1> QED BY <1>2, <1>3, <1>4 DEF Prepared, MapType
==============================================================================
