---------------------------- MODULE StorageProofs ----------------------------
(* Proofs about Storage and its slot map, for any number of slots, any     *)
(* region and any sizes that the host sends: the programs tile the region, *)
(* and each is what the host sent for its slot.                            *)
EXTENDS Storage, SlotMapProofs

------------------------------------------------------------------------------
(* What is known of the numbers that the constants give. *)
LEMMA Constants ==
    /\ NumSlots \in Nat /\ NumSlots > 0 /\ Slots = 0..NumSlots - 1 /\ 0 \in Slots
    /\ Word \in Nat /\ Word > 0
    /\ Region \in Nat /\ RamSize \in Nat /\ Region <= RamSize
BY SlotMapAssumption, StorageAssumption DEF Slots

(* The programs of all slots fit into the region: no slot holds more than  *)
(* its share of it.                                                        *)
LEMMA MaximumFits == MaximumSize \in Nat /\ NumSlots * MaximumSize <= Region
<1> DEFINE share == Region \div NumSlots
           words == share \div Word
<1>1. share \in Nat /\ NumSlots * share <= Region
  BY Constants, Division
<1>2. words \in Nat /\ Word * words <= share
  <2> HIDE DEF share
  <2> QED BY <1>1, Constants, Division
<1>3. MaximumSize = words * Word
  BY DEF MaximumSize
<1> HIDE DEF share, words
<1>4. MaximumSize \in Nat /\ MaximumSize <= share
  BY <1>1, <1>2, <1>3, Constants
<1>5. \A x, y \in Nat : x <= y => NumSlots * x <= NumSlots * y
  BY Constants
<1>6. NumSlots * MaximumSize <= NumSlots * share
  BY <1>1, <1>4, <1>5
<1>7. NumSlots * MaximumSize \in Nat /\ NumSlots * share \in Nat
  BY <1>1, <1>4, Constants
<1> QED BY <1>1, <1>4, <1>6, <1>7, Constants

(* What is at most the maximum size still is when it is aligned to words.  *)
LEMMA AlignedFits ==
    ASSUME NEW n \in Nat, n <= MaximumSize
    PROVE  WordAligned(n) \in Nat /\ n <= WordAligned(n) /\ WordAligned(n) <= MaximumSize
<1> DEFINE words == (Region \div NumSlots) \div Word
           k == (n + Word - 1) \div Word
<1>1. Word \in Nat /\ Word > 0 /\ words \in Nat /\ MaximumSize = words * Word
  BY Constants, Division DEF MaximumSize
<1>2. n + Word - 1 \in Nat
  BY <1>1
<1>3. k \in Nat /\ Word * k <= n + Word - 1 /\ n + Word - 1 < Word * k + Word
  BY <1>1, <1>2, Division
<1>4. WordAligned(n) = k * Word
  BY DEF WordAligned
<1> HIDE DEF words, k
<1>5. k <= words
  <2>1. n <= words * Word
    BY <1>1
  <2>2. ASSUME k >= words + 1 PROVE FALSE
    <3>1. Word * (words + 1) <= Word * k
      BY <1>1, <1>3, <2>2
    <3>2. Word * k \in Nat /\ Word * words \in Nat
      BY <1>1, <1>3
    <3>3. Word * (words + 1) = Word * words + Word /\ words * Word = Word * words
      BY <1>1
    <3> QED BY <1>1, <1>3, <2>1, <3>1, <3>2, <3>3
  <2> QED BY <1>1, <1>3, <2>2
<1>6. k * Word <= words * Word /\ k * Word = Word * k /\ k * Word \in Nat
  BY <1>1, <1>3, <1>5
<1> QED BY <1>1, <1>3, <1>4, <1>6

------------------------------------------------------------------------------
(* A slot map as Tiled wants it, in terms of offsets and sizes. *)
Within(m) ==
    \A s \in Slots : m[s].size > 0 => m[s].offset + m[s].size <= UsedSize(m)

Apart(m) ==
    \A s, t \in Slots : s # t /\ m[s].size > 0 /\ m[t].size > 0 =>
        \/ m[s].offset + m[s].size <= m[t].offset
        \/ m[t].offset + m[t].size <= m[s].offset

MapOK(m) ==
    m \in MapType /\ (\A s \in Slots : m[s].size <= MaximumSize) /\ Within(m) /\ Apart(m)

(* The used size fits, and still does when one more slot has its maximum.  *)
LEMMA UsedFits ==
    ASSUME NEW m, MapOK(m)
    PROVE  /\ UsedSize(m) \in Nat /\ UsedSize(m) <= Region
           /\ \A d \in Slots : UsedSize(m) - m[d].size + MaximumSize <= Region
<1> m \in MapType /\ \A s \in Slots : m[s].size <= MaximumSize
  BY DEF MapOK
<1> NumSlots * MaximumSize <= Region /\ NumSlots * MaximumSize \in Nat /\ Region \in Nat
    /\ MaximumSize \in Nat
  BY MaximumFits, Constants
<1>1. UsedSize(m) \in Nat /\ UsedSize(m) <= NumSlots * MaximumSize
  BY UsedBound
<1>2. ASSUME NEW d \in Slots PROVE UsedSize(m) - m[d].size + MaximumSize <= Region
  <2> DEFINE new == [m EXCEPT ![d] = Entry(0, MaximumSize)]
  <2>1. new \in MapType /\ new[d].size = MaximumSize
        /\ \A s \in Slots \ {d} : new[s] = m[s]
    BY DEF MapType, Entry
  <2> HIDE DEF new
  <2>2. \A s \in Slots : new[s].size <= MaximumSize
    BY <2>1
  <2>3. UsedSize(new) \in Nat /\ UsedSize(new) <= NumSlots * MaximumSize
    BY <2>1, <2>2, UsedBound
  <2>4. UsedSize(new) = UsedSize(m) - m[d].size + new[d].size
    BY <1>1, <2>1, <2>3, UsedChange
  <2>5. m[d].size \in Nat
    BY DEF MapType
  <2> QED BY <1>1, <2>1, <2>3, <2>4, <2>5
<1>3. UsedSize(m) <= Region
  BY <1>1
<1> QED BY <1>1, <1>2, <1>3

(* Such a map is tiled. *)
LEMMA MapTiled == ASSUME NEW m, MapOK(m) PROVE Tiled(m)
<1>1. UsedSize(m) \in Nat
  BY UsedFits
<1>2. \A s \in Slots : m[s].offset \in Nat /\ m[s].size \in Nat
  BY DEF MapOK, MapType
<1>3. ASSUME NEW s \in Slots PROVE Bytes(m, s) \subseteq 0..UsedSize(m) - 1
  <2>1. m[s].size > 0 => m[s].offset + m[s].size <= UsedSize(m)
    BY DEF MapOK, Within
  <2> QED BY <1>1, <1>2, <2>1 DEF Bytes
<1>4. ASSUME NEW s \in Slots, NEW t \in Slots, s # t
      PROVE  Bytes(m, s) \intersect Bytes(m, t) = {}
  <2>1. m[s].size > 0 /\ m[t].size > 0 =>
            \/ m[s].offset + m[s].size <= m[t].offset
            \/ m[t].offset + m[t].size <= m[s].offset
    BY <1>4 DEF MapOK, Apart
  <2> QED BY <1>2, <2>1 DEF Bytes
<1> QED BY <1>3, <1>4 DEF Tiled

(* A map without programs. *)
LEMMA EmptyOK == MapOK(EmptyMap) /\ UsedSize(EmptyMap) = 0
<1>1. EmptyMap \in MapType /\ \A s \in Slots : EmptyMap[s] = Entry(0, 0)
  BY DEF EmptyMap, MapType, Entry
<1>2. \A s \in Slots : EmptyMap[s].size = 0
  BY <1>1 DEF Entry
<1>3. UsedSize(EmptyMap) \in Nat /\ UsedSize(EmptyMap) <= NumSlots * 0
  BY <1>1, <1>2, UsedBound
<1>4. UsedSize(EmptyMap) = 0
  BY <1>3, Constants
<1> QED BY <1>1, <1>2, <1>4, MaximumFits DEF MapOK, Within, Apart

(* Where another program is once slot d is prepared to receive one.        *)
LEMMA GapIsClosed ==
    ASSUME NEW m, MapOK(m), NEW d \in Slots, NEW s \in Slots \ {d}
    PROVE  /\ GapClosed(m, d)[s].size = m[s].size
           /\ GapClosed(m, d)[s].offset \in Nat
           /\ m[s].size > 0 =>
                 \/ /\ GapClosed(m, d)[s].offset = m[s].offset
                    /\ Behind(m, s) <= m[d].offset \/ m[d].size = 0
                 \/ /\ ~StaysInPlace(m, d) /\ Behind(m, d) <= m[s].offset
                    /\ GapClosed(m, d)[s].offset = m[s].offset - m[d].size
<1>1. /\ m[s].offset \in Nat /\ m[s].size \in Nat /\ m[d].offset \in Nat /\ m[d].size \in Nat
      /\ UsedSize(m) \in Nat
  BY UsedFits DEF MapOK, MapType
<1>2. m[s].size > 0 /\ m[d].size > 0 =>
          \/ m[s].offset + m[s].size <= m[d].offset
          \/ m[d].offset + m[d].size <= m[s].offset
  BY DEF MapOK, Apart
<1>3. m[s].size > 0 => m[s].offset + m[s].size <= UsedSize(m)
  BY DEF MapOK, Within
<1>4. CASE StaysInPlace(m, d)
  <2>1. GapClosed(m, d)[s] = m[s]
    BY <1>4 DEF GapClosed
  <2>2. m[d].size = 0 \/ m[d].offset = UsedSize(m) - m[d].size
    BY <1>4 DEF StaysInPlace
  <2>3. m[s].size > 0 /\ m[d].size > 0 => m[s].offset + m[s].size <= m[d].offset
    BY <1>1, <1>2, <1>3, <2>2
  <2> QED BY <1>1, <2>1, <2>3 DEF Behind
<1>5. CASE ~StaysInPlace(m, d)
  <2>1. m[d].size > 0
    BY <1>1, <1>5 DEF StaysInPlace
  <2>2. GapClosed(m, d)[s] = IF m[s].offset >= Behind(m, d)
                               THEN [m[s] EXCEPT !.offset = @ - m[d].size] ELSE m[s]
    BY <1>5 DEF GapClosed
  <2>3. m[s] \in [offset : Nat, size : Nat]
    BY DEF MapOK, MapType
  <2>4. CASE m[s].offset >= Behind(m, d)
    <3>1. GapClosed(m, d)[s].offset = m[s].offset - m[d].size
          /\ GapClosed(m, d)[s].size = m[s].size
      BY <2>2, <2>3, <2>4
    <3> QED BY <1>1, <1>5, <2>4, <3>1 DEF Behind
  <2>5. CASE ~(m[s].offset >= Behind(m, d))
    <3>1. GapClosed(m, d)[s] = m[s]
      BY <2>2, <2>5
    <3>2. Behind(m, d) \in Nat
      BY <1>1 DEF Behind
    <3> QED BY <1>1, <1>2, <2>1, <2>5, <3>1, <3>2 DEF Behind
  <2> QED BY <2>4, <2>5
<1> QED BY <1>4, <1>5

(* A slot that is prepared is empty and the last one, and the rest is in   *)
(* order.                                                                  *)
LEMMA PreparedOK ==
    ASSUME NEW m, MapOK(m), NEW d \in Slots
    PROVE  /\ MapOK(Prepared(m, d))
           /\ Prepared(m, d)[d] = Entry(UsedSize(Prepared(m, d)), 0)
           /\ UsedSize(Prepared(m, d)) = UsedSize(m) - m[d].size
           /\ \A s \in Slots \ {d} :
                 Prepared(m, d)[s].size = m[s].size
                 /\ Prepared(m, d)[s].offset = GapClosed(m, d)[s].offset
<1> DEFINE p == Prepared(m, d)
<1>1. /\ m \in MapType /\ UsedSize(m) \in Nat /\ m[d].size \in Nat /\ m[d].offset \in Nat
      /\ MaximumSize \in Nat /\ \A s \in Slots : m[s].size <= MaximumSize
  BY UsedFits, MaximumFits DEF MapOK, MapType
<1>2. CASE NumSlots = 1
  <2>1. p = EmptyMap /\ \A s \in Slots \ {d} : FALSE
    BY <1>2 DEF Prepared, Slots
  <2>2. \A s \in Slots : EmptyMap[s] = Entry(0, 0) /\ Entry(0, 0).size = 0
    BY DEF EmptyMap, Entry
  <2>3. EmptyMap \in MapType
    BY EmptyOK DEF MapOK
  <2>4. UsedSize(EmptyMap) = UsedSize(m) - m[d].size + EmptyMap[d].size
    BY <1>1, <2>1, <2>3, EmptyOK, UsedChange
  <2> QED BY <1>1, <2>1, <2>2, <2>4, EmptyOK
<1>3. CASE NumSlots # 1
  <2>1. p = [GapClosed(m, d) EXCEPT ![d] = Entry(UsedSize(m) - m[d].size, 0)]
    BY <1>3 DEF Prepared
  <2>2. GapClosed(m, d) = [s \in Slots |-> GapClosed(m, d)[s]]
    BY <1>1 DEF GapClosed, MapType
  <2>3. p[d] = Entry(UsedSize(m) - m[d].size, 0) /\ DOMAIN p = Slots
        /\ \A s \in Slots \ {d} : p[s] = GapClosed(m, d)[s]
    BY <2>1, <2>2
  <2>4. m[d].size <= UsedSize(m)
    <3> DEFINE e == [m EXCEPT ![d] = Entry(0, 0)]
    <3>1. e \in MapType /\ e[d].size = 0 /\ \A s \in Slots \ {d} : e[s] = m[s]
      BY <1>1 DEF MapType, Entry
    <3> HIDE DEF e
    <3>2. \A s \in Slots : e[s].size <= MaximumSize
      BY <1>1, <3>1
    <3>3. UsedSize(e) \in Nat
      BY <1>1, <3>1, <3>2, UsedBound
    <3>4. UsedSize(e) = UsedSize(m) - m[d].size + e[d].size
      BY <1>1, <3>1, <3>3, UsedChange
    <3> QED BY <1>1, <3>1, <3>3, <3>4
  <2>5. p[d] \in [offset : Nat, size : Nat] /\ p[d].size = 0
        /\ p[d].offset = UsedSize(m) - m[d].size
    BY <1>1, <2>3, <2>4 DEF Entry
  <2>6. ASSUME NEW s \in Slots \ {d}
        PROVE  p[s] \in [offset : Nat, size : Nat] /\ p[s].size = m[s].size
    <3>1. GapClosed(m, d)[s] \in [offset : Int, size : Nat]
      BY <1>1 DEF GapClosed, MapType
    <3>2. GapClosed(m, d)[s].size = m[s].size /\ GapClosed(m, d)[s].offset \in Nat
      BY GapIsClosed
    <3> QED BY <2>3, <3>1, <3>2
  <2>7. p \in MapType
    <3>1. \A s \in Slots : p[s] \in [offset : Nat, size : Nat]
      BY <2>5, <2>6
    <3>2. p = [s \in Slots |-> p[s]]
      BY <2>1, <2>2
    <3> HIDE DEF p
    <3> QED BY <3>1, <3>2 DEF MapType
  <2> HIDE DEF p
  <2>8. \A s \in Slots : p[s].size <= MaximumSize
    BY <1>1, <2>5, <2>6
  <2>9. UsedSize(p) \in Nat
    BY <1>1, <2>7, <2>8, UsedBound
  <2>10. UsedSize(p) = UsedSize(m) - m[d].size
    BY <1>1, <2>5, <2>6, <2>7, <2>9, UsedChange
  <2>11. ASSUME NEW s \in Slots, p[s].size > 0
         PROVE  p[s].offset + p[s].size <= UsedSize(p)
    <3>1. s # d
      BY <2>5, <2>11
    <3>2. p[s].offset = GapClosed(m, d)[s].offset /\ p[s].size = m[s].size
      BY <2>3, <2>6, <3>1
    <3>3. m[s].offset \in Nat /\ m[s].size \in Nat /\ m[s].offset + m[s].size <= UsedSize(m)
      BY <2>11, <3>2 DEF MapOK, MapType, Within
    <3>4. m[d].size > 0 => m[d].offset + m[d].size <= UsedSize(m)
      BY DEF MapOK, Within
    <3>5. \/ /\ p[s].offset = m[s].offset
             /\ m[s].offset + m[s].size <= m[d].offset \/ m[d].size = 0
          \/ p[s].offset = m[s].offset - m[d].size
      BY <2>11, <3>1, <3>2, GapIsClosed DEF Behind
    <3> QED BY <1>1, <2>10, <3>2, <3>3, <3>4, <3>5
  <2>12. ASSUME NEW s \in Slots, NEW t \in Slots, s # t, p[s].size > 0, p[t].size > 0
         PROVE  \/ p[s].offset + p[s].size <= p[t].offset
                \/ p[t].offset + p[t].size <= p[s].offset
    <3>1. s # d /\ t # d
      BY <2>5, <2>12
    <3>2. /\ p[s].offset = GapClosed(m, d)[s].offset /\ p[s].size = m[s].size
          /\ p[t].offset = GapClosed(m, d)[t].offset /\ p[t].size = m[t].size
      BY <2>3, <2>6, <3>1
    <3>3. /\ m[s].offset \in Nat /\ m[s].size \in Nat /\ m[t].offset \in Nat /\ m[t].size \in Nat
          /\ \/ m[s].offset + m[s].size <= m[t].offset
             \/ m[t].offset + m[t].size <= m[s].offset
      BY <2>12, <3>2 DEF MapOK, MapType, Apart
    <3>4. \/ /\ p[s].offset = m[s].offset
             /\ m[s].offset + m[s].size <= m[d].offset \/ m[d].size = 0
          \/ m[d].offset + m[d].size <= m[s].offset /\ p[s].offset = m[s].offset - m[d].size
      BY <2>12, <3>1, <3>2, GapIsClosed DEF Behind
    <3>5. \/ /\ p[t].offset = m[t].offset
             /\ m[t].offset + m[t].size <= m[d].offset \/ m[d].size = 0
          \/ m[d].offset + m[d].size <= m[t].offset /\ p[t].offset = m[t].offset - m[d].size
      BY <2>12, <3>1, <3>2, GapIsClosed DEF Behind
    <3> QED BY <1>1, <3>2, <3>3, <3>4, <3>5
  <2>13. MapOK(p)
    BY <2>7, <2>8, <2>11, <2>12 DEF MapOK, Within, Apart
  <2> QED BY <2>3, <2>6, <2>10, <2>13 DEF p
<1> QED BY <1>2, <1>3

(* The program that was received is behind all others.                     *)
LEMMA ReceivedOK ==
    ASSUME NEW m, MapOK(m), NEW d \in Slots, m[d] = Entry(UsedSize(m), 0),
           NEW n \in Nat, n <= MaximumSize
    PROVE  /\ MapOK([m EXCEPT ![d].size = n])
           /\ UsedSize([m EXCEPT ![d].size = n]) = UsedSize(m) + n
<1> DEFINE r == [m EXCEPT ![d].size = n]
<1>1. m \in MapType /\ UsedSize(m) \in Nat /\ m[d].size = 0 /\ m[d].offset = UsedSize(m)
      /\ MaximumSize \in Nat /\ \A s \in Slots : m[s].size <= MaximumSize
  BY UsedFits, MaximumFits DEF MapOK, Entry
<1>2. r \in MapType /\ r[d].size = n /\ r[d].offset = UsedSize(m)
      /\ \A s \in Slots \ {d} : r[s] = m[s]
  BY <1>1 DEF MapType
<1> HIDE DEF r
<1>3. \A s \in Slots : r[s].size <= MaximumSize
  BY <1>1, <1>2
<1>4. UsedSize(r) \in Nat
  BY <1>1, <1>2, <1>3, UsedBound
<1>5. UsedSize(r) = UsedSize(m) + n
  <2>1. UsedSize(r) = UsedSize(m) - m[d].size + r[d].size
    BY <1>1, <1>2, <1>4, UsedChange
  <2> QED BY <1>1, <1>2, <2>1
<1>6. Within(r)
  <2> SUFFICES ASSUME NEW s \in Slots, r[s].size > 0
               PROVE  r[s].offset + r[s].size <= UsedSize(r)
    BY DEF Within
  <2>1. CASE s = d
    BY <1>1, <1>2, <1>5, <2>1
  <2>2. CASE s # d
    <3>1. r[s] = m[s] /\ m[s].offset + m[s].size <= UsedSize(m)
      BY <1>2, <2>2 DEF MapOK, Within
    <3>2. m[s].offset \in Nat /\ m[s].size \in Nat
      BY <1>1 DEF MapType
    <3> QED BY <1>1, <1>5, <3>1, <3>2
  <2> QED BY <2>1, <2>2
<1>7. Apart(r)
  <2> SUFFICES ASSUME NEW s \in Slots, NEW t \in Slots, s # t, r[s].size > 0, r[t].size > 0
               PROVE  \/ r[s].offset + r[s].size <= r[t].offset
                      \/ r[t].offset + r[t].size <= r[s].offset
    BY DEF Apart
  <2>1. CASE s # d /\ t # d
    BY <1>2, <2>1 DEF MapOK, Apart
  <2>2. CASE s = d
    <3>1. r[t] = m[t] /\ m[t].offset + m[t].size <= UsedSize(m)
      BY <1>2, <2>2 DEF MapOK, Within
    <3> QED BY <1>2, <2>2, <3>1
  <2>3. CASE t = d
    <3>1. r[s] = m[s] /\ m[s].offset + m[s].size <= UsedSize(m)
      BY <1>2, <2>3 DEF MapOK, Within
    <3> QED BY <1>2, <2>3, <3>1
  <2> QED BY <2>1, <2>2, <2>3
<1> QED BY <1>2, <1>3, <1>5, <1>6, <1>7 DEF MapOK, r

------------------------------------------------------------------------------
(* The invariant of the maps: in RAM, in flash, and of a download, which    *)
(* goes behind all programs.                                               *)
TilesInv ==
    /\ TypeOK
    /\ MapOK(slot) /\ MapOK(flash.slot)
    /\ host.bytes <= MaximumSize
    /\ fileIO => slot[dlSlot] = Entry(UsedSize(slot), 0)

(* What arrived of a download so far lies where it will be. *)
Received ==
    host.active /\ fileIO =>
        \A k \in 0..host.bytes - 1 : data[slot[dlSlot].offset + k] = <<dlSlot, k>>

(* The image in flash, and how far a save has got: nothing changes in RAM  *)
(* meanwhile.                                                              *)
ImageOK ==
    flash.size > 0 =>
        flash.size = UsedSize(flash.slot) + 1 /\ Intact(flash.slot, flash.data, flash.sent)

SaveOK ==
    /\ saving = "no" => ImageOK
    /\ saving # "no" => ~running
    /\ saving = "erased" => saveAt = UsedSize(slot)
    /\ saving = "writing" =>
          /\ flash.slot = slot /\ flash.sent = sent
          /\ flash.size = UsedSize(slot) + 1 /\ saveAt <= UsedSize(slot)
          /\ \A a \in 0..saveAt - 1 : flash.data[a] = data[a]

DataInv == TilesInv /\ ProgramsIntact /\ Received /\ ~(running /\ fileIO) /\ SaveOK

(* An invalid image holds an empty map and no program. *)
LEMMA NoImageType ==
    /\ NoImage \in [size : Nat, slot : MapType, data : [Addr -> Byte], sent : [Slots -> Nat]]
    /\ NoImage.size = 0 /\ NoImage.slot = EmptyMap
<1>1. EmptyMap \in MapType
  BY EmptyOK DEF MapOK
<1>2. Junk \in Byte
  BY Constants DEF Junk, Byte
<1> QED BY <1>1, <1>2 DEF NoImage

(* At the first boot nothing is stored. *)
LEMMA TilesInit == Init => TilesInv
<1> SUFFICES ASSUME Init PROVE TilesInv
  OBVIOUS
<1>1. Junk \in Byte /\ 0 \in Slots
  BY Constants DEF Junk, Byte
<1>2. TypeOK
  BY <1>1, NoImageType, EmptyOK DEF Init, TypeOK, MapOK, NoDownload
<1>3. MapOK(slot) /\ MapOK(flash.slot) /\ host.bytes <= MaximumSize /\ ~fileIO
  BY NoImageType, EmptyOK, MaximumFits DEF Init, NoDownload
<1> QED BY <1>2, <1>3 DEF TilesInv

(* What is moved for a download comes from the program area.               *)
LEMMA PrepareKeepsTiles ==
    ASSUME TilesInv, PrepareReceive
    PROVE  /\ dlSlot' \in Slots /\ slot' = Prepared(slot, dlSlot') /\ MapOK(slot')
           /\ slot'[dlSlot'] = Entry(UsedSize(slot'), 0)
           /\ data' \in [Addr -> Byte] /\ sent' \in [Slots -> Nat]
           /\ sent' = [sent EXCEPT ![dlSlot'] = 0]
           /\ data' = [a \in Addr |->
                IF /\ ~StaysInPlace(slot, dlSlot')
                   /\ a >= slot[dlSlot'].offset
                   /\ a < UsedSize(slot) - slot[dlSlot'].size
                  THEN data[a + slot[dlSlot'].size] ELSE data[a]]
<1> DEFINE d == dlSlot'
<1>1. d \in Slots /\ slot' = Prepared(slot, d) /\ sent' = [sent EXCEPT ![d] = 0]
  BY DEF PrepareReceive, TilesInv, TypeOK
<1>2. data' = [a \in Addr |->
         IF /\ ~StaysInPlace(slot, d)
            /\ a \in slot[d].offset..slot[d].offset + SizeBehind(slot, d) - 1
           THEN data[a + slot[d].size] ELSE data[a]]
  BY DEF PrepareReceive
<1> HIDE DEF d
<1>3. UsedSize(slot) \in Nat /\ UsedSize(slot) <= RamSize /\ RamSize \in Nat
  BY UsedFits, Constants DEF TilesInv
<1>4. slot[d].offset \in Nat /\ slot[d].size \in Nat
  BY <1>1 DEF TilesInv, TypeOK, MapType
<1>5. \A a \in Addr : a \in slot[d].offset..slot[d].offset + SizeBehind(slot, d) - 1
                        <=> a >= slot[d].offset /\ a < UsedSize(slot) - slot[d].size
  BY <1>3, <1>4 DEF Addr, SizeBehind, Behind
<1>6. data' = [a \in Addr |->
         IF /\ ~StaysInPlace(slot, d)
            /\ a >= slot[d].offset /\ a < UsedSize(slot) - slot[d].size
           THEN data[a + slot[d].size] ELSE data[a]]
  BY <1>2, <1>5
<1>7. data' \in [Addr -> Byte]
  <2>1. \A a \in Addr : a < UsedSize(slot) - slot[d].size => a + slot[d].size \in Addr
    BY <1>3, <1>4 DEF Addr
  <2>2. data \in [Addr -> Byte]
    BY DEF TilesInv, TypeOK
  <2> QED BY <1>6, <2>1, <2>2
<1>8. MapOK(slot') /\ slot'[d] = Entry(UsedSize(slot'), 0)
  BY <1>1, PreparedOK DEF TilesInv
<1>9. sent' \in [Slots -> Nat]
  BY <1>1 DEF TilesInv, TypeOK
<1> QED BY <1>1, <1>6, <1>7, <1>8, <1>9 DEF d

(* Booting, with a valid image or without.                                 *)
LEMMA BootKeepsTiles == ASSUME TilesInv, Boot PROVE TilesInv'
<1>1. PICK valid \in {TRUE, FALSE} :
        /\ slot' = IF valid THEN flash.slot ELSE EmptyMap
        /\ data' = [a \in Addr |->
             IF valid /\ a < flash.size - 1 THEN flash.data[a] ELSE Junk]
        /\ toWrite' = ~valid
        /\ sent' = IF valid THEN flash.sent ELSE [s \in Slots |-> 0]
        /\ dlSlot' = 0 /\ fileIO' = FALSE /\ running' = FALSE /\ selected' = 0
        /\ saving' = "no" /\ saveAt' = 0
        /\ host' = NoDownload
        /\ UNCHANGED flash
  BY DEF Boot
<1>2. Junk \in Byte /\ 0 \in Slots
  BY Constants DEF Junk, Byte
<1>3. flash \in [size : Nat, slot : MapType, data : [Addr -> Byte], sent : [Slots -> Nat]]
  BY DEF TilesInv, TypeOK
<1>4. data' \in [Addr -> Byte]
  BY <1>1, <1>2, <1>3
<1>5. sent' \in [Slots -> Nat]
  BY <1>1, <1>3
<1>6. MapOK(slot') /\ MapOK(flash'.slot) /\ slot' \in MapType
  BY <1>1, EmptyOK DEF TilesInv, MapOK
<1>7. host' \in [active : BOOLEAN, bytes : Nat] /\ host'.bytes <= MaximumSize
  BY <1>1, MaximumFits DEF NoDownload
<1> QED BY <1>1, <1>2, <1>3, <1>4, <1>5, <1>6, <1>7 DEF TilesInv, TypeOK

(* Every step keeps the maps in order, whatever sizes the host announces,  *)
(* up to the maximum.                                                      *)
LEMMA TilesNext ==
    ASSUME Claim \subseteq 1..MaximumSize
    PROVE  TilesInv /\ [Next]_vars => TilesInv'
<1> SUFFICES ASSUME TilesInv, [Next]_vars PROVE TilesInv'
  OBVIOUS
<1> TypeOK /\ MapOK(slot) /\ MapOK(flash.slot) /\ host.bytes <= MaximumSize
    /\ MaximumSize \in Nat /\ UsedSize(slot) \in Nat
  BY UsedFits, MaximumFits DEF TilesInv
<1>1. CASE BeginDownload
  <2>1. PrepareReceive
    BY <1>1 DEF BeginDownload
  <2>2. /\ fileIO' = TRUE /\ host' = [active |-> TRUE, bytes |-> 0]
        /\ UNCHANGED <<running, selected, toWrite, flash, saving, saveAt>>
    BY <1>1 DEF BeginDownload, flashVars
  <2>3. slot' \in MapType
    BY <2>1, PrepareKeepsTiles DEF MapOK
  <2> QED BY <2>1, <2>2, <2>3, PrepareKeepsTiles DEF TilesInv, TypeOK
<1>2. CASE HostGivesUp
  BY <1>2 DEF HostGivesUp, hubVars, flashVars, NoDownload, TilesInv, TypeOK
<1>3. CASE StoragePoll
  BY <1>3 DEF StoragePoll, flashVars, hostVars, TilesInv, TypeOK
<1>4. ASSUME NEW n \in Chunk, SendData(n) PROVE TilesInv'
  <2>1. UNCHANGED <<slot, dlSlot, fileIO, running, selected, toWrite, flash, saving, saveAt,
                    sent>>
    BY <1>4 DEF SendData, flashVars
  <2>2. CASE host' = NoDownload /\ UNCHANGED data
    BY <2>1, <2>2 DEF NoDownload, TilesInv, TypeOK
  <2>3. CASE ~(host' = NoDownload /\ UNCHANGED data)
    <3>1. /\ ~(host.bytes + n > MaximumSize)
          /\ data' = [a \in Addr |->
                   LET k == a - slot[dlSlot].offset
                   IN  IF k \in host.bytes..host.bytes + n - 1
                         THEN <<dlSlot, k>> ELSE data[a]]
          /\ host' = [host EXCEPT !.bytes = @ + n]
      BY <1>4, <2>3 DEF SendData
    <3>2. n \in Nat /\ host.bytes \in Nat
      BY StorageAssumption DEF TypeOK
    <3>3. host' \in [active : BOOLEAN, bytes : Nat] /\ host'.bytes <= MaximumSize
      BY <3>1, <3>2 DEF TypeOK
    <3>4. MaximumSize <= RamSize /\ RamSize \in Nat
      <4>1. Region - 0 >= MaximumSize
        <5>1. UsedSize(EmptyMap) - EmptyMap[0].size + MaximumSize <= Region
          BY EmptyOK, UsedFits, Constants
        <5>2. EmptyMap[0].size = 0
          BY Constants DEF EmptyMap, Entry
        <5> QED BY <5>1, <5>2, EmptyOK, Constants
      <4> QED BY <4>1, Constants
    <3>5. \A k \in host.bytes..host.bytes + n - 1 : <<dlSlot, k>> \in Byte
      <4>1. dlSlot \in 0..NumSlots
        BY Constants DEF TypeOK
      <4>2. \A k \in host.bytes..host.bytes + n - 1 : k \in 0..RamSize
        BY <3>1, <3>2, <3>4
      <4> QED BY <4>1, <4>2 DEF Byte
    <3>6. data' \in [Addr -> Byte]
      BY <3>1, <3>5 DEF TypeOK
    <3> QED BY <2>1, <3>3, <3>6 DEF TilesInv, TypeOK
  <2> QED BY <2>2, <2>3
<1>5. ASSUME NEW n \in {host.bytes} \union Claim, FinishDownload(n) PROVE TilesInv'
  <2>1. /\ host' = NoDownload
        /\ UNCHANGED <<data, dlSlot, running, selected, flash, saving, saveAt>>
    BY <1>5 DEF FinishDownload, flashVars
  <2>2. host' \in [active : BOOLEAN, bytes : Nat] /\ host'.bytes <= MaximumSize
    BY <2>1 DEF NoDownload
  <2>3. CASE UNCHANGED <<slot, toWrite, fileIO, sent>>
    BY <2>1, <2>2, <2>3 DEF TilesInv, TypeOK
  <2>4. CASE ~UNCHANGED <<slot, toWrite, fileIO, sent>>
    <3>1. /\ fileIO /\ toWrite' = TRUE /\ fileIO' = FALSE
          /\ slot' = [slot EXCEPT ![dlSlot].size = WordAligned(n)]
          /\ sent' = [sent EXCEPT ![dlSlot] = host.bytes]
      BY <1>5, <2>4 DEF FinishDownload
    <3>2. n \in Nat /\ n <= MaximumSize
      BY DEF TypeOK
    <3>3. MapOK(slot')
      BY <3>1, <3>2, AlignedFits, ReceivedOK DEF TilesInv, TypeOK
    <3>4. sent' \in [Slots -> Nat] /\ slot' \in MapType
      BY <3>1, <3>3 DEF TypeOK, MapOK
    <3> QED BY <2>1, <2>2, <3>1, <3>3, <3>4 DEF TilesInv, TypeOK
  <2> QED BY <2>3, <2>4
<1>6. ASSUME NEW s \in Slots, SelectSlot(s) PROVE TilesInv'
  BY <1>6 DEF SelectSlot, flashVars, hostVars, TilesInv, TypeOK
<1>7. CASE RunProgram
  <2>1. data' \in [Addr -> Byte]
    <3>1. Junk \in Byte
      BY Constants DEF Junk, Byte
    <3> QED BY <1>7, <3>1 DEF RunProgram, TypeOK
  <2> QED BY <1>7, <2>1 DEF RunProgram, flashVars, hostVars, TilesInv, TypeOK
<1>8. CASE EndProgram
  BY <1>8 DEF EndProgram, hubVars, flashVars, hostVars, TilesInv, TypeOK
<1>9. CASE WriteUserData
  BY <1>9 DEF WriteUserData, flashVars, hostVars, TilesInv, TypeOK
<1>10. CASE ResetStorage
  <2>1. slot' = EmptyMap /\ sent' \in [Slots -> Nat] /\ toWrite' = TRUE
        /\ UNCHANGED <<data, dlSlot, fileIO, running, selected, flash, saving, saveAt, host>>
    BY <1>10 DEF ResetStorage, flashVars
  <2>2. slot'[dlSlot'] = Entry(UsedSize(slot'), 0) /\ MapOK(slot') /\ slot' \in MapType
    BY <2>1, EmptyOK DEF EmptyMap, TypeOK, MapOK
  <2> QED BY <2>1, <2>2 DEF TilesInv, TypeOK
<1>11. CASE BeginSave
  <2>1. /\ saving' = "erased" /\ saveAt' = UsedSize(slot) /\ flash' = NoImage
        /\ UNCHANGED <<hubVars, running, hostVars>>
    BY <1>11 DEF BeginSave
  <2>2. MapOK(flash'.slot)
    BY <2>1, NoImageType, EmptyOK
  <2> QED BY <2>1, <2>2, NoImageType DEF hubVars, hostVars, TilesInv, TypeOK
<1>12. CASE SaveHeader
  <2>1. /\ flash' = [NoImage EXCEPT !.size = saveAt + 1, !.slot = slot, !.sent = sent]
        /\ saving' = "writing" /\ saveAt' = 0
        /\ UNCHANGED <<hubVars, running, hostVars>>
    BY <1>12 DEF SaveHeader
  <2>2. /\ flash' \in [size : Nat, slot : MapType, data : [Addr -> Byte], sent : [Slots -> Nat]]
        /\ flash'.slot = slot
    <3>1. flash' = [size |-> saveAt + 1, slot |-> slot, data |-> NoImage.data, sent |-> sent]
      BY <2>1 DEF NoImage
    <3>2. NoImage.data \in [Addr -> Byte]
      BY NoImageType
    <3> QED BY <3>1, <3>2 DEF TypeOK
  <2> QED BY <2>1, <2>2 DEF hubVars, hostVars, TilesInv, TypeOK
<1>13. CASE SaveByte
  <2>1. /\ saveAt < flash.size - 1
        /\ flash' = [flash EXCEPT !.data[saveAt] = data[saveAt]]
        /\ saveAt' = saveAt + 1
        /\ UNCHANGED <<hubVars, running, saving, hostVars>>
    BY <1>13 DEF SaveByte
  <2>2. /\ flash' \in [size : Nat, slot : MapType, data : [Addr -> Byte], sent : [Slots -> Nat]]
        /\ flash'.slot = flash.slot
    <3>1. flash.data \in [Addr -> Byte] /\ data \in [Addr -> Byte]
      BY DEF TypeOK
    <3>2. [flash.data EXCEPT ![saveAt] = data[saveAt]] \in [Addr -> Byte]
      BY <3>1
    <3> DEFINE saved == [flash.data EXCEPT ![saveAt] = data[saveAt]]
    <3>3. flash' = [flash EXCEPT !.data = saved]
      BY <2>1
    <3> HIDE DEF saved
    <3>4. saved \in [Addr -> Byte]
      BY <3>2 DEF saved
    <3> QED BY <3>3, <3>4 DEF TypeOK
  <2>3. saveAt' \in Nat
    BY <2>1 DEF TypeOK
  <2> QED BY <2>1, <2>2, <2>3 DEF hubVars, hostVars, TilesInv, TypeOK
<1>14. CASE PowerOff \/ PowerCut
  BY <1>14, BootKeepsTiles DEF PowerOff, PowerCut
<1>15. CASE UNCHANGED vars
  BY <1>15 DEF vars, hubVars, flashVars, hostVars, TilesInv, TypeOK
<1> QED
  BY <1>1, <1>2, <1>3, <1>4, <1>5, <1>6, <1>7, <1>8, <1>9, <1>10, <1>11, <1>12, <1>13,
     <1>14, <1>15 DEF Next

(* So the slots tile the memory for ever.                                  *)
LEMMA TilesInvariant ==
    ASSUME Claim \subseteq 1..MaximumSize PROVE Spec => []TilesInv
BY TilesInit, TilesNext, PTL DEF Spec

(* Every variable of Storage keeps its type, unless the host announces a   *)
(* size beyond the maximum.                                                *)
THEOREM TypeCorrect ==
    ASSUME Claim \subseteq 1..MaximumSize PROVE Spec => []TypeOK
<1>1. TilesInv => TypeOK
  BY DEF TilesInv
<1> QED BY TilesInvariant, <1>1, PTL

(* The stored programs tile the front of the region, whatever was          *)
(* downloaded, given up, deleted, saved or loaded before, and a download   *)
(* goes behind them.                                                       *)
THEOREM StaysTiled ==
    ASSUME Claim \subseteq 1..MaximumSize PROVE Spec => []ProgramsTiled
<1>1. TilesInv => ProgramsTiled
  BY MapTiled, UsedFits DEF TilesInv, ProgramsTiled, Entry
<1> QED BY TilesInvariant, <1>1, PTL

------------------------------------------------------------------------------
(* Only what lies in front of the used size matters to the programs.       *)
LEMMA IntactBelow ==
    ASSUME NEW m, MapOK(m), NEW d, NEW e, NEW len \in [Slots -> Nat], Intact(m, d, len),
           \A a \in 0..UsedSize(m) - 1 : e[a] = d[a]
    PROVE  Intact(m, e, len)
<1> SUFFICES ASSUME NEW s \in Slots, m[s].size > 0
             PROVE  len[s] <= m[s].size /\ \A k \in 0..len[s] - 1 : e[m[s].offset + k] = <<s, k>>
  BY DEF Intact
<1>1. len[s] <= m[s].size /\ \A k \in 0..len[s] - 1 : d[m[s].offset + k] = <<s, k>>
  BY DEF Intact
<1>2. /\ m[s].offset \in Nat /\ m[s].size \in Nat /\ m[s].offset + m[s].size <= UsedSize(m)
      /\ UsedSize(m) \in Nat /\ len[s] \in Nat
  BY UsedFits DEF MapOK, MapType, Within
<1>3. \A k \in 0..len[s] - 1 : m[s].offset + k \in 0..UsedSize(m) - 1
  BY <1>1, <1>2
<1> QED BY <1>1, <1>3

(* Nothing is stored at the first boot. *)
LEMMA DataInit == Init => DataInv
<1> SUFFICES ASSUME Init PROVE DataInv
  OBVIOUS
<1>1. \A s \in Slots : slot[s].size = 0
  BY DEF Init, EmptyMap, Entry
<1>2. ProgramsIntact
  BY <1>1 DEF ProgramsIntact, Intact
<1>3. flash.size = 0 /\ saving = "no" /\ ~running /\ ~fileIO
  BY NoImageType DEF Init
<1> QED BY <1>2, <1>3, TilesInit DEF DataInv, Received, SaveOK, ImageOK

(* What moves for a download stays intact.                                 *)
LEMMA PrepareKeepsData ==
    ASSUME DataInv, PrepareReceive
    PROVE  ProgramsIntact'
<1> DEFINE d == dlSlot'
<1>1. /\ d \in Slots /\ slot' = Prepared(slot, d) /\ slot'[d] = Entry(UsedSize(slot'), 0)
      /\ sent' = [sent EXCEPT ![d] = 0]
      /\ data' = [a \in Addr |->
           IF /\ ~StaysInPlace(slot, d)
              /\ a >= slot[d].offset /\ a < UsedSize(slot) - slot[d].size
             THEN data[a + slot[d].size] ELSE data[a]]
  BY PrepareKeepsTiles DEF DataInv
<1> HIDE DEF d
<1> SUFFICES ASSUME NEW s \in Slots, slot'[s].size > 0
             PROVE  /\ sent'[s] <= slot'[s].size
                    /\ \A k \in 0..sent'[s] - 1 : data'[slot'[s].offset + k] = <<s, k>>
  BY DEF ProgramsIntact, Intact
<1>2. MapOK(slot) /\ UsedSize(slot) \in Nat /\ UsedSize(slot) <= RamSize /\ RamSize \in Nat
  BY UsedFits, Constants DEF DataInv, TilesInv
<1>3. s # d
  BY <1>1 DEF Entry
<1>4. slot'[s].size = slot[s].size /\ slot'[s].offset = GapClosed(slot, d)[s].offset
      /\ sent'[s] = sent[s]
  <2>1. sent'[s] = sent[s]
    BY <1>1, <1>3 DEF DataInv, TilesInv, TypeOK
  <2>2. s \in Slots \ {d} /\ d \in Slots /\ slot' = Prepared(slot, d)
    BY <1>1, <1>3
  <2>3. slot'[s].size = slot[s].size /\ slot'[s].offset = GapClosed(slot, d)[s].offset
    BY <1>2, <2>2, PreparedOK
  <2> QED BY <2>1, <2>3
<1>5. /\ slot[s].offset \in Nat /\ slot[s].size \in Nat /\ slot[d].offset \in Nat
      /\ slot[d].size \in Nat /\ sent[s] \in Nat
      /\ slot[s].offset + slot[s].size <= UsedSize(slot)
      /\ slot[d].size > 0 => slot[d].offset + slot[d].size <= UsedSize(slot)
  BY <1>1, <1>2, <1>4 DEF MapOK, MapType, Within, DataInv, TilesInv, TypeOK
<1>6. sent[s] <= slot[s].size /\ \A k \in 0..sent[s] - 1 : data[slot[s].offset + k] = <<s, k>>
  BY <1>4 DEF DataInv, ProgramsIntact, Intact
<1>7. ASSUME NEW k \in 0..sent[s] - 1
      PROVE  data'[slot'[s].offset + k] = data[slot[s].offset + k]
  <2>1. k \in Nat /\ k < slot[s].size
    BY <1>5, <1>6
  <2>2. CASE /\ slot'[s].offset = slot[s].offset
             /\ slot[s].offset + slot[s].size <= slot[d].offset \/ slot[d].size = 0
    <3>1. slot[s].offset + k \in Addr
      BY <1>2, <1>5, <2>1 DEF Addr
    <3>2. StaysInPlace(slot, d) \/ slot[s].offset + k < slot[d].offset
      BY <1>5, <2>1, <2>2 DEF StaysInPlace
    <3>3. ~(/\ ~StaysInPlace(slot, d)
            /\ slot[s].offset + k >= slot[d].offset
            /\ slot[s].offset + k < UsedSize(slot) - slot[d].size)
      BY <1>5, <2>1, <3>2
    <3> QED BY <1>1, <2>2, <3>1, <3>3
  <2>3. CASE /\ ~StaysInPlace(slot, d) /\ slot[d].offset + slot[d].size <= slot[s].offset
             /\ slot'[s].offset = slot[s].offset - slot[d].size
    <3> DEFINE a == slot'[s].offset + k
    <3>1. a \in Addr /\ a >= slot[d].offset /\ a < UsedSize(slot) - slot[d].size
          /\ a + slot[d].size = slot[s].offset + k
      BY <1>2, <1>5, <2>1, <2>3 DEF Addr
    <3> HIDE DEF a
    <3>2. data'[a] = data[a + slot[d].size]
      BY <1>1, <2>3, <3>1
    <3> QED BY <3>1, <3>2 DEF a
  <2> QED BY <1>1, <1>2, <1>3, <1>4, <2>2, <2>3, GapIsClosed DEF Behind
<1> QED BY <1>4, <1>6, <1>7

(* What arrives goes behind the programs, and becomes one of them.         *)
LEMMA SendKeepsData ==
    ASSUME DataInv, NEW n \in Chunk, SendData(n)
    PROVE  ProgramsIntact' /\ Received'
<1>1. UNCHANGED <<slot, dlSlot, fileIO, sent>>
  BY DEF SendData
<1>2. CASE host' = NoDownload /\ UNCHANGED data
  BY <1>1, <1>2 DEF DataInv, ProgramsIntact, Received, NoDownload
<1>3. CASE ~(host' = NoDownload /\ UNCHANGED data)
  <2> DEFINE at == slot[dlSlot].offset
  <2>1. /\ host.active /\ fileIO /\ ~(host.bytes + n > MaximumSize)
        /\ data' = [a \in Addr |->
                 LET k == a - slot[dlSlot].offset
                 IN  IF k \in host.bytes..host.bytes + n - 1 THEN <<dlSlot, k>> ELSE data[a]]
        /\ host' = [host EXCEPT !.bytes = @ + n]
    BY <1>3 DEF SendData
  <2>2. /\ n \in Nat /\ host \in [active : BOOLEAN, bytes : Nat] /\ MaximumSize \in Nat
        /\ dlSlot \in Slots /\ sent \in [Slots -> Nat] /\ MapOK(slot)
    BY StorageAssumption, MaximumFits DEF DataInv, TilesInv, TypeOK
  <2>3. at = UsedSize(slot) /\ slot[dlSlot].size = 0
    BY <2>1 DEF DataInv, TilesInv, Entry
  <2>4. at \in Nat /\ at + MaximumSize <= RamSize /\ RamSize \in Nat
    <3>1. UsedSize(slot) - slot[dlSlot].size + MaximumSize <= Region /\ UsedSize(slot) \in Nat
      BY <2>2, UsedFits
    <3> QED BY <2>2, <2>3, <3>1, Constants
  <2>5. host'.bytes = host.bytes + n
    BY <2>1, <2>2
  <2>6. ProgramsIntact'
    <3>1. UsedSize(slot) <= RamSize /\ RamSize \in Nat /\ UsedSize(slot) \in Nat
      BY <2>2, UsedFits, Constants
    <3>2. \A a \in 0..UsedSize(slot) - 1 : data'[a] = data[a]
      BY <2>1, <2>2, <2>3, <3>1 DEF Addr
    <3>3. Intact(slot, data', sent)
      BY <2>2, <3>2, IntactBelow DEF DataInv, ProgramsIntact
    <3> QED BY <1>1, <3>3 DEF ProgramsIntact
  <2>7. ASSUME NEW k \in 0..host.bytes + n - 1 PROVE data'[at + k] = <<dlSlot, k>>
    <3>1. k \in Nat /\ k < RamSize - at
      BY <2>1, <2>2, <2>4
    <3>2. at + k \in Addr /\ (at + k) - at = k
      BY <2>4, <3>1 DEF Addr
    <3>3. data'[at + k] = IF k \in host.bytes..host.bytes + n - 1
                            THEN <<dlSlot, k>> ELSE data[at + k]
      BY <2>1, <3>2
    <3>4. \A j \in 0..host.bytes - 1 : data[at + j] = <<dlSlot, j>>
      BY <2>1 DEF DataInv, Received
    <3>5. k \in 0..host.bytes - 1 \/ k \in host.bytes..host.bytes + n - 1
      BY <2>2, <3>1
    <3> QED BY <3>3, <3>4, <3>5
  <2>8. Received'
    <3>1. slot'[dlSlot'].offset = at /\ dlSlot' = dlSlot
      BY <1>1
    <3>2. \A k \in 0..host'.bytes - 1 : data'[at + k] = <<dlSlot, k>>
      BY <2>2, <2>5, <2>7
    <3> HIDE DEF at
    <3>3. \A k \in 0..host'.bytes - 1 : data'[slot'[dlSlot'].offset + k] = <<dlSlot', k>>
      BY <3>1, <3>2
    <3> QED BY <3>3 DEF Received
  <2> QED BY <2>6, <2>8
<1> QED BY <1>2, <1>3

(* When the host sends no other sizes than those of what it sent.          *)
LEMMA FinishKeepsData ==
    ASSUME DataInv, FinishDownload(host.bytes)
    PROVE  ProgramsIntact' /\ Received'
<1>1. host' = NoDownload /\ UNCHANGED <<data, dlSlot>>
  BY DEF FinishDownload
<1>2. Received'
  BY <1>1 DEF Received, NoDownload
<1>3. CASE UNCHANGED <<slot, sent>>
  BY <1>1, <1>2, <1>3 DEF DataInv, ProgramsIntact
<1>4. CASE ~UNCHANGED <<slot, sent>>
  <2>1. /\ host.active /\ fileIO
        /\ slot' = [slot EXCEPT ![dlSlot].size = WordAligned(host.bytes)]
        /\ sent' = [sent EXCEPT ![dlSlot] = host.bytes]
    BY <1>4 DEF FinishDownload
  <2>2. host.bytes \in Nat /\ host.bytes <= MaximumSize /\ dlSlot \in Slots
        /\ slot \in MapType /\ sent \in [Slots -> Nat]
    BY DEF DataInv, TilesInv, TypeOK
  <2>3. host.bytes <= WordAligned(host.bytes)
    BY <2>2, AlignedFits
  <2>4. /\ slot'[dlSlot].size = WordAligned(host.bytes) /\ sent'[dlSlot] = host.bytes
        /\ slot'[dlSlot].offset = slot[dlSlot].offset
        /\ \A s \in Slots \ {dlSlot} : slot'[s] = slot[s] /\ sent'[s] = sent[s]
    BY <2>1, <2>2 DEF MapType
  <2>5. \A k \in 0..host.bytes - 1 : data[slot[dlSlot].offset + k] = <<dlSlot, k>>
    BY <2>1 DEF DataInv, Received
  <2>6. ProgramsIntact'
    BY <1>1, <2>3, <2>4, <2>5 DEF DataInv, ProgramsIntact, Intact
  <2> QED BY <1>2, <2>6
<1> QED BY <1>3, <1>4

(* A save that came to its end has stored all programs. *)
LEMMA SavedIsIntact == ASSUME DataInv, Saved PROVE ImageOK
<1>1. /\ flash.slot = slot /\ flash.sent = sent /\ flash.size = UsedSize(slot) + 1
      /\ saveAt = flash.size - 1 /\ \A a \in 0..saveAt - 1 : flash.data[a] = data[a]
  BY DEF DataInv, SaveOK, Saved
<1>2. MapOK(slot) /\ UsedSize(slot) \in Nat /\ sent \in [Slots -> Nat]
  BY UsedFits DEF DataInv, TilesInv, TypeOK
<1>3. Intact(slot, flash.data, sent)
  BY <1>1, <1>2, IntactBelow DEF DataInv, ProgramsIntact
<1> QED BY <1>1, <1>3 DEF ImageOK

(* A boot loads them. *)
LEMMA BootKeepsData ==
    ASSUME DataInv, ImageOK, Boot
    PROVE  DataInv'
<1>1. PICK valid \in {TRUE, FALSE} :
        /\ valid => flash.size > 0
        /\ slot' = IF valid THEN flash.slot ELSE EmptyMap
        /\ data' = [a \in Addr |->
             IF valid /\ a < flash.size - 1 THEN flash.data[a] ELSE Junk]
        /\ sent' = IF valid THEN flash.sent ELSE [s \in Slots |-> 0]
        /\ fileIO' = FALSE /\ running' = FALSE /\ saving' = "no" /\ flash' = flash
  BY DEF Boot
<1>2. TilesInv'
  BY BootKeepsTiles DEF DataInv
<1>3. ProgramsIntact'
  <2>1. CASE valid
    <3>1. MapOK(flash.slot) /\ flash.sent \in [Slots -> Nat]
      BY DEF DataInv, TilesInv, TypeOK
    <3>2. flash.size = UsedSize(flash.slot) + 1 /\ Intact(flash.slot, flash.data, flash.sent)
      BY <1>1, <2>1 DEF ImageOK
    <3>3. UsedSize(flash.slot) \in Nat /\ UsedSize(flash.slot) <= RamSize /\ RamSize \in Nat
      BY <3>1, UsedFits, Constants
    <3>4. \A a \in 0..UsedSize(flash.slot) - 1 : data'[a] = flash.data[a]
      BY <1>1, <2>1, <3>2, <3>3 DEF Addr
    <3>5. Intact(flash.slot, data', flash.sent)
      BY <3>1, <3>2, <3>4, IntactBelow
    <3> QED BY <1>1, <2>1, <3>5 DEF ProgramsIntact
  <2>2. CASE ~valid
    <3>1. \A s \in Slots : slot'[s].size = 0
      BY <1>1, <2>2 DEF EmptyMap, Entry
    <3> QED BY <3>1 DEF ProgramsIntact, Intact
  <2> QED BY <2>1, <2>2
<1>4. Received' /\ ~(running' /\ fileIO') /\ SaveOK'
  BY <1>1 DEF Received, SaveOK, ImageOK
<1> QED BY <1>2, <1>3, <1>4 DEF DataInv

(* With a host that announces the size of what it sent, no program that    *)
(* starts during a download, and no host that still sends while the hub    *)
(* saves, every step keeps the programs intact.                            *)
LEMMA DataNext ==
    ASSUME Claim = {}, Scenario \subseteq {"shutdown"}
    PROVE  DataInv /\ [Next]_vars => DataInv'
<1> SUFFICES ASSUME DataInv, [Next]_vars PROVE DataInv'
  OBVIOUS
<1>0. TilesInv'
  BY TilesNext DEF DataInv
<1> /\ MapOK(slot) /\ sent \in [Slots -> Nat] /\ data \in [Addr -> Byte] /\ saveAt \in Nat
    /\ flash \in [size : Nat, slot : MapType, data : [Addr -> Byte], sent : [Slots -> Nat]]
  BY DEF DataInv, TilesInv, TypeOK
<1> UsedSize(slot) \in Nat /\ RamSize \in Nat /\ UsedSize(slot) <= RamSize
  BY UsedFits, Constants
<1> /\ ProgramsIntact /\ Received /\ ~(running /\ fileIO) /\ SaveOK
  BY DEF DataInv
<1> HubHears => saving = "no"
  BY DEF HubHears
<1>1. CASE BeginDownload
  <2>1. /\ saving = "no" /\ ~running /\ host'.bytes = 0
        /\ UNCHANGED <<running, flash, saving, saveAt>>
    BY <1>1 DEF BeginDownload, flashVars
  <2>2. ProgramsIntact'
    BY <1>1, PrepareKeepsData DEF BeginDownload
  <2>3. Received' /\ SaveOK'
    BY <2>1 DEF Received, SaveOK, ImageOK
  <2> QED BY <1>0, <2>1, <2>2, <2>3 DEF DataInv
<1>2. CASE HostGivesUp
  <2>1. UNCHANGED <<slot, data, fileIO, running, flash, saving, saveAt, sent>> /\ ~host'.active
    BY <1>2 DEF HostGivesUp, hubVars, flashVars, NoDownload
  <2> QED BY <1>0, <2>1 DEF DataInv, ProgramsIntact, Received, SaveOK, ImageOK
<1>3. CASE StoragePoll
  <2>1. UNCHANGED <<slot, data, running, flash, saving, saveAt, sent>> /\ fileIO' = FALSE
    BY <1>3 DEF StoragePoll, flashVars, hostVars
  <2> QED BY <1>0, <2>1 DEF DataInv, ProgramsIntact, Received, SaveOK, ImageOK
<1>4. ASSUME NEW n \in Chunk, SendData(n) PROVE DataInv'
  <2>1. saving = "no" /\ UNCHANGED <<running, fileIO, flash, saving, saveAt>>
    BY <1>4 DEF SendData, flashVars
  <2>2. SaveOK'
    BY <2>1 DEF SaveOK, ImageOK
  <2> QED BY <1>0, <1>4, <2>1, <2>2, SendKeepsData DEF DataInv
<1>5. ASSUME NEW n \in {host.bytes} \union Claim, FinishDownload(n) PROVE DataInv'
  <2>1. saving = "no" /\ UNCHANGED <<running, flash, saving, saveAt>> /\ (fileIO' => fileIO)
    BY <1>5 DEF FinishDownload, flashVars
  <2>2. ProgramsIntact' /\ Received'
    BY <1>5, FinishKeepsData
  <2>3. SaveOK'
    BY <2>1 DEF SaveOK, ImageOK
  <2> QED BY <1>0, <2>1, <2>2, <2>3 DEF DataInv
<1>6. ASSUME NEW s \in Slots, SelectSlot(s) PROVE DataInv'
  <2>1. UNCHANGED <<slot, data, dlSlot, fileIO, running, flash, saving, saveAt, host, sent>>
    BY <1>6 DEF SelectSlot, flashVars, hostVars
  <2> QED BY <1>0, <2>1 DEF DataInv, ProgramsIntact, Received, SaveOK, ImageOK
<1>7. CASE RunProgram
  <2>1. /\ saving = "no" /\ ~fileIO
        /\ data' = [a \in Addr |-> IF a < UsedSize(slot) THEN data[a] ELSE Junk]
        /\ UNCHANGED <<slot, fileIO, flash, saving, saveAt, sent>>
    BY <1>7 DEF RunProgram, flashVars, hostVars
  <2>2. \A a \in 0..UsedSize(slot) - 1 : data'[a] = data[a]
    BY <2>1 DEF Addr
  <2>3. Intact(slot, data', sent)
    BY <2>2, IntactBelow DEF ProgramsIntact
  <2> QED BY <1>0, <2>1, <2>3 DEF DataInv, ProgramsIntact, Received, SaveOK, ImageOK
<1>8. CASE EndProgram \/ WriteUserData
  <2>1. /\ UNCHANGED <<slot, data, dlSlot, fileIO, flash, saving, saveAt, host, sent>>
        /\ running' => running
    BY <1>8 DEF EndProgram, WriteUserData, hubVars, flashVars, hostVars
  <2> QED BY <1>0, <2>1 DEF DataInv, ProgramsIntact, Received, SaveOK, ImageOK
<1>9. CASE ResetStorage
  <2>1. /\ running /\ UNCHANGED <<fileIO, running, flash, saving, saveAt>>
        /\ \A s \in Slots : slot'[s].size = 0
    BY <1>9 DEF ResetStorage, flashVars, EmptyMap, Entry
  <2>2. ProgramsIntact'
    BY <2>1 DEF ProgramsIntact, Intact
  <2> QED BY <1>0, <2>1, <2>2 DEF DataInv, Received, SaveOK, ImageOK
<1>10. CASE BeginSave
  <2>1. /\ ~running /\ saving' = "erased" /\ saveAt' = UsedSize(slot)
        /\ UNCHANGED <<slot, data, dlSlot, fileIO, running, host, sent>>
    BY <1>10 DEF BeginSave, hubVars, hostVars
  <2> QED BY <1>0, <2>1 DEF DataInv, ProgramsIntact, Received, SaveOK
<1>11. CASE SaveHeader
  <2>1. /\ saving = "erased" /\ saving' = "writing" /\ saveAt' = 0
        /\ flash' = [NoImage EXCEPT !.size = saveAt + 1, !.slot = slot, !.sent = sent]
        /\ UNCHANGED <<slot, data, dlSlot, fileIO, running, host, sent>>
    BY <1>11 DEF SaveHeader, hubVars, hostVars
  <2>2. flash'.size = UsedSize(slot) + 1 /\ flash'.slot = slot /\ flash'.sent = sent /\ ~running
    BY <2>1 DEF SaveOK, NoImage
  <2>3. SaveOK'
    BY <2>1, <2>2 DEF SaveOK
  <2> QED BY <1>0, <2>1, <2>3 DEF DataInv, ProgramsIntact, Received
<1>12. CASE SaveByte
  <2>1. /\ saving = "writing" /\ saveAt < flash.size - 1 /\ saveAt' = saveAt + 1
        /\ flash' = [flash EXCEPT !.data[saveAt] = data[saveAt]]
        /\ UNCHANGED <<slot, data, dlSlot, fileIO, running, saving, host, sent>>
    BY <1>12 DEF SaveByte, hubVars, hostVars
  <2>2. /\ flash.slot = slot /\ flash.sent = sent /\ ~running
        /\ flash.size = UsedSize(slot) + 1 /\ saveAt <= UsedSize(slot)
        /\ \A a \in 0..saveAt - 1 : flash.data[a] = data[a]
    BY <2>1 DEF SaveOK
  <2>3. flash'.slot = slot /\ flash'.sent = sent /\ flash'.size = flash.size
        /\ flash'.data = [flash.data EXCEPT ![saveAt] = data[saveAt]]
    BY <2>1, <2>2
  <2>4. saveAt \in Addr /\ saveAt' <= UsedSize(slot)
    BY <2>1, <2>2 DEF Addr
  <2>5. flash'.data[saveAt] = data[saveAt]
        /\ \A a \in 0..saveAt - 1 : flash'.data[a] = flash.data[a]
    BY <2>3, <2>4 DEF Addr
  <2>6. \A a \in 0..saveAt' - 1 : flash'.data[a] = data[a]
    <3>1. \A a \in 0..saveAt' - 1 : a = saveAt \/ a \in 0..saveAt - 1
      BY <2>1
    <3> QED BY <2>2, <2>5, <3>1
  <2>7. SaveOK'
    BY <2>1, <2>2, <2>3, <2>4, <2>6 DEF SaveOK
  <2> QED BY <1>0, <2>1, <2>7 DEF DataInv, ProgramsIntact, Received
<1>13. CASE PowerOff \/ PowerCut
  <2>1. ImageOK
    BY <1>13, SavedIsIntact DEF PowerOff, PowerCut, SaveOK
  <2> QED BY <1>13, <2>1, BootKeepsData DEF PowerOff, PowerCut
<1>14. CASE UNCHANGED vars
  <2>1. UNCHANGED <<slot, data, dlSlot, fileIO, running, flash, saving, saveAt, host, sent>>
    BY <1>14 DEF vars, hubVars, flashVars, hostVars
  <2> QED BY <1>0, <2>1 DEF DataInv, ProgramsIntact, Received, SaveOK, ImageOK
<1> QED
  BY <1>1, <1>2, <1>3, <1>4, <1>5, <1>6, <1>7, <1>8, <1>9, <1>10, <1>11, <1>12, <1>13, <1>14
  DEF Next

(* So it holds for ever.                                                   *)
LEMMA DataInvariant ==
    ASSUME Claim = {}, Scenario \subseteq {"shutdown"} PROVE Spec => []DataInv
BY DataInit, DataNext, PTL DEF Spec

(* Every stored program is, byte for byte, what the host sent for its      *)
(* slot, through every download, move, run, save and boot.                 *)
THEOREM ProgramsStayIntact ==
    ASSUME Claim = {}, Scenario \subseteq {"shutdown"} PROVE Spec => []ProgramsIntact
<1>1. DataInv => ProgramsIntact
  BY DEF DataInv
<1> QED BY DataInvariant, <1>1, PTL

(* A save that came to its end left the programs in flash intact.          *)
THEOREM SavesAreIntact ==
    ASSUME Claim = {}, Scenario \subseteq {"shutdown"} PROVE Spec => []SavedProgramsIntact
<1>1. DataInv => SavedProgramsIntact
  <2> SUFFICES ASSUME DataInv, Saved PROVE Intact(flash.slot, flash.data, flash.sent)
    BY DEF SavedProgramsIntact
  <2>2. flash.size > 0
    BY UsedFits DEF DataInv, TilesInv, SaveOK, Saved
  <2> QED BY <2>2, SavedIsIntact DEF ImageOK
<1> QED BY DataInvariant, <1>1, PTL

==============================================================================
