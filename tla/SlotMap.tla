------------------------------- MODULE SlotMap -------------------------------
(* The slot map of lib/pbio/sys/storage.c: where each user program lies in *)
(* the program area, and how room is made for a new one.  A map m gives    *)
(* each slot an offset from map->program_data and a size, in bytes.        *)
EXTENDS Integers

CONSTANTS
    NumSlots,  \* PBSYS_CONFIG_STORAGE_NUM_SLOTS
    Word,      \* sizeof(uint32_t)
    Region     \* bytes of program data the block device can store

ASSUME SlotMapAssumption ==
    /\ NumSlots \in Nat \ {0} /\ Word \in Nat \ {0} /\ Region \in Nat

Slots == 0..NumSlots - 1

Entry(o, n) == [offset |-> o, size |-> n]

MapType == [Slots -> [offset : Nat, size : Nat]]

EmptyMap == [s \in Slots |-> Entry(0, 0)]

(* pbsys_storage_get_used_program_data_size, after each round of its loop. *)
UsedSize(m) ==
    LET size[n \in 0..NumSlots] == IF n = 0 THEN 0 ELSE size[n - 1] + m[n - 1].size
    IN  size[NumSlots]

(* pbsys_storage_get_maximum_program_size *)
MaximumSize == ((Region \div NumSlots) \div Word) * Word

WordAligned(n) == ((n + Word - 1) \div Word) * Word

(* Where the programs behind slot d start. *)
Behind(m, d) == m[d].offset + m[d].size

(* The size of slot d is counted twice. *)
SizeBehindTwice(m, d) == UsedSize(m) - Behind(m, d) - m[d].size

(* How many bytes the programs behind slot d are. *)
SizeBehind(m, d) == UsedSize(m) - Behind(m, d)

(* Slot d needs no move: it is empty, or it is the last one. *)
StaysInPlace(m, d) ==
    m[d].size = 0 \/ m[d].offset = UsedSize(m) - m[d].size

(* Every other program moves, those in front of slot d as well. *)
GapClosedByAll(m, d) ==
    IF StaysInPlace(m, d) THEN m
    ELSE [s \in Slots |-> [m[s] EXCEPT !.offset = @ - m[d].size]]

(* The other programs close the gap that slot d leaves. *)
GapClosed(m, d) ==
    IF StaysInPlace(m, d) THEN m
    ELSE [s \in Slots |->
            IF m[s].offset >= Behind(m, d)
              THEN [m[s] EXCEPT !.offset = @ - m[d].size] ELSE m[s]]

(* The slot keeps its place although others moved into it. *)
PreparedInPlace(m, d) ==
    IF NumSlots = 1 THEN EmptyMap
    ELSE [GapClosed(m, d) EXCEPT ![d] = Entry(m[d].offset, 0)]

(* The map once slot d is ready to receive a program: empty, and last. *)
Prepared(m, d) ==
    IF NumSlots = 1 THEN EmptyMap
    ELSE [GapClosed(m, d) EXCEPT ![d] = Entry(UsedSize(m) - m[d].size, 0)]

------------------------------------------------------------------------------
Bytes(m, s) == m[s].offset..m[s].offset + m[s].size - 1

(* The programs lie one after the other from address 0, without overlap:   *)
(* what the used size counts is exactly where they are.                    *)
Tiled(m) ==
    /\ \A s \in Slots : Bytes(m, s) \subseteq 0..UsedSize(m) - 1
    /\ \A s, t \in Slots : s # t => Bytes(m, s) \intersect Bytes(m, t) = {}
==============================================================================
