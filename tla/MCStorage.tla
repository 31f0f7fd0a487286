------------------------------ MODULE MCStorage ------------------------------
(* Small instances of Storage for TLC.  States that differ only in what    *)
(* nothing reads are explored once: bytes that neither the host sent for a *)
(* stored program nor it sends in a download it has not given up, and the  *)
(* offset of an empty slot that no download goes to.                       *)
EXTENDS Storage

(* Where the bytes lie that the host sent for the programs of map m. *)
SentBytes(m, len) ==
    UNION {m[s].offset..m[s].offset + len[s] - 1 : s \in {t \in Slots : m[t].size > 0}}

Incoming ==
    IF host.active /\ fileIO
      THEN slot[dlSlot].offset..slot[dlSlot].offset + host.bytes - 1 ELSE {}

Live(d, bytes) == [a \in Addr |-> IF a \in bytes THEN d[a] ELSE Junk]

LiveState ==
    <<[s \in Slots |->
         IF slot[s].size = 0 /\ ~(fileIO /\ s = dlSlot)
           THEN [offset |-> 0, size |-> 0] ELSE slot[s]],
      Live(data, SentBytes(slot, sent) \union Incoming),
      IF fileIO THEN dlSlot ELSE 0,
      fileIO, running, selected, toWrite, saving, saveAt,
      [flash EXCEPT !.data = Live(@, SentBytes(flash.slot, flash.sent))], hostVars>>
==============================================================================
