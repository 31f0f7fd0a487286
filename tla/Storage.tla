------------------------------- MODULE Storage -------------------------------
(* Stored user programs: the slot map and the program area of              *)
(* lib/pbio/sys/storage.c, the selected slot of status.c, the image that   *)
(* the block device keeps in flash, and a host that downloads programs.    *)
(*                                                                         *)
(* A byte of the program area is abstracted to its origin: byte k of the   *)
(* program last sent for slot s is <<s, k>>, anything else is Junk.        *)
(* Addresses count from map->program_data.                                 *)
EXTENDS SlotMap

CONSTANTS
    RamSize,      \* bytes of RAM from program_data to the end of user RAM
    Chunk,        \* sizes of the writes of the host
    Claim,        \* sizes, other than what it sent, that the host announces
    Scenario      \* what else may happen around the storage, of Scenarios

(* "shutdown":          the hub is shut down, or loses power, and boots      *)
(* "runDuringDownload": a program is started while a download is going on   *)
(* "hostDuringSave":    the host keeps sending while the hub shuts down     *)
Scenarios == {"shutdown", "runDuringDownload", "hostDuringSave"}

ASSUME StorageAssumption ==
    /\ RamSize \in Nat /\ Region <= RamSize
    /\ Chunk \subseteq Nat \ {0} /\ Claim \subseteq Nat \ {0}
    /\ Scenario \subseteq Scenarios

VARIABLES
    slot,      \* map->slot_info
    data,      \* map->program_data, up to the end of user RAM
    dlSlot,    \* download_state.slot
    fileIO,    \* status flag FILE_IO_IN_PROGRESS
    running,   \* status flag USER_PROGRAM_RUNNING
    selected,  \* the selected slot (pbsys_status.slot)
    toWrite,   \* data_map_write_on_shutdown
    flash,     \* the stored image: saved size, slot map, program bytes
    saving,    \* "no", "erased" or "writing": progress of write_all
    saveAt,    \* next program byte that write_all copies
    host,      \* the host's download: whether it has one, bytes sent so far
    sent       \* sent[s]: bytes the host sent for the program in slot s

hubVars   == <<slot, data, dlSlot, fileIO, selected, toWrite>>
flashVars == <<flash, saving, saveAt>>
hostVars  == <<host, sent>>
vars      == <<hubVars, running, flashVars, hostVars>>

Addr  == 0..RamSize - 1
Junk  == <<NumSlots, 0>>
Byte  == (0..NumSlots) \X (0..RamSize)

NoDownload == [active |-> FALSE, bytes |-> 0]
NoImage == [size |-> 0, slot |-> EmptyMap, data |-> [a \in Addr |-> Junk],
            sent |-> [s \in Slots |-> 0]]

TypeOK ==
    /\ slot \in MapType
    /\ data \in [Addr -> Byte]
    /\ dlSlot \in Slots /\ selected \in Slots
    /\ {fileIO, running, toWrite} \subseteq BOOLEAN
    /\ flash \in [size : Nat, slot : MapType,
                  data : [Addr -> Byte], sent : [Slots -> Nat]]
    /\ saving \in {"no", "erased", "writing"} /\ saveAt \in Nat
    /\ host \in [active : BOOLEAN, bytes : Nat]
    /\ sent \in [Slots -> Nat]

Init ==
    /\ slot = EmptyMap
    /\ data = [a \in Addr |-> Junk]
    /\ dlSlot = 0 /\ fileIO = FALSE /\ running = FALSE /\ selected = 0
    /\ toWrite = TRUE           \* first boot: reset_storage applied defaults
    /\ flash = NoImage /\ saving = "no" /\ saveAt = 0
    /\ host = NoDownload
    /\ sent = [s \in Slots |-> 0]

(* Commands are handled while the hub is on, also while it saves. *)
HubHears == saving = "no" \/ "hostDuringSave" \in Scenario

------------------------------------------------------------------------------
(* pbsys_storage_prepare_receive: the programs behind the selected slot    *)
(* move into its place, and it becomes the last one, with size 0.          *)
PrepareReceive ==
    LET d == IF NumSlots = 1 THEN dlSlot ELSE selected
        gap == slot[d].size
    IN  /\ dlSlot' = d
        /\ slot' = Prepared(slot, d)
        /\ sent' = [sent EXCEPT ![d] = 0]
        /\ data' = [a \in Addr |->
             IF /\ ~StaysInPlace(slot, d)
                /\ a \in slot[d].offset..slot[d].offset + SizeBehind(slot, d) - 1
               THEN data[a + gap] ELSE data[a]]

(* The host announces a download: pbsys_storage_set_program_size(0). *)
BeginDownload ==
    /\ HubHears /\ ~host.active
    /\ ~running /\ ~fileIO
    /\ PrepareReceive
    /\ fileIO' = TRUE
    /\ host' = [active |-> TRUE, bytes |-> 0]
    /\ UNCHANGED <<running, selected, toWrite, flashVars>>

(* The host sends its next bytes: pbsys_storage_set_program_data. An error *)
(* reply makes it give up.                                                 *)
SendData(n) ==
    /\ HubHears /\ host.active
    /\ IF host.bytes + n > MaximumSize \/ running \/ ~fileIO
         THEN /\ host' = NoDownload
              /\ UNCHANGED data
         ELSE /\ data' = [a \in Addr |->
                   LET k == a - slot[dlSlot].offset
                   IN  IF k \in host.bytes..host.bytes + n - 1
                         THEN <<dlSlot, k>> ELSE data[a]]
              /\ host' = [host EXCEPT !.bytes = @ + n]
    /\ UNCHANGED <<slot, dlSlot, fileIO, running, selected, toWrite, flashVars, sent>>

(* The host announces the size: pbsys_storage_set_program_size(n), n > 0. *)
FinishDownload(n) ==
    /\ HubHears /\ host.active /\ n > 0
    /\ host' = NoDownload
    /\ IF running \/ ~fileIO \/ slot[dlSlot].size # 0
         THEN UNCHANGED <<slot, toWrite, fileIO, sent>>
         ELSE /\ slot' = [slot EXCEPT ![dlSlot].size = WordAligned(n)]
              /\ toWrite' = TRUE
              /\ fileIO' = FALSE
              /\ sent' = [sent EXCEPT ![dlSlot] = host.bytes]
    /\ UNCHANGED <<data, dlSlot, running, selected, flashVars>>

(* The host goes away, or its command gets lost. *)
HostGivesUp ==
    /\ host.active
    /\ host' = NoDownload
    /\ UNCHANGED <<hubVars, running, flashVars, sent>>

(* pbsys_storage_poll after 1 s without data. The host may be slow, so the *)
(* timer may have expired at any time.                                     *)
StoragePoll ==
    /\ fileIO
    /\ fileIO' = FALSE
    /\ UNCHANGED <<slot, data, dlSlot, running, selected, toWrite, flashVars, hostVars>>

(* The UI changes the selected slot, unless a download is in progress. *)
SelectSlot(s) ==
    /\ saving = "no" /\ ~running
    /\ ~fileIO /\ s # selected
    /\ selected' = s
    /\ UNCHANGED <<slot, data, dlSlot, fileIO, running, toWrite, flashVars, hostVars>>

------------------------------------------------------------------------------
(* A program runs: its heap is the RAM after the stored programs. *)
RunProgram ==
    /\ saving = "no" /\ ~running
    /\ ~fileIO \/ "runDuringDownload" \in Scenario
    /\ running' = TRUE
    /\ data' = [a \in Addr |-> IF a < UsedSize(slot) THEN data[a] ELSE Junk]
    /\ UNCHANGED <<slot, dlSlot, fileIO, selected, toWrite, flashVars, hostVars>>

EndProgram ==
    /\ running
    /\ running' = FALSE
    /\ UNCHANGED <<hubVars, flashVars, hostVars>>

(* The program writes user data, or changes a setting. *)
WriteUserData ==
    /\ running
    /\ toWrite' = TRUE
    /\ UNCHANGED <<slot, data, dlSlot, fileIO, running, selected, flashVars, hostVars>>

(* pbsys_storage_reset_storage, called by the program. *)
ResetStorage ==
    /\ running
    /\ slot' = EmptyMap
    /\ sent' = [s \in Slots |-> 0]
    /\ toWrite' = TRUE
    /\ UNCHANGED <<data, dlSlot, fileIO, running, selected, flashVars, host>>

------------------------------------------------------------------------------
(* Shutdown and boot. write_all erases, then writes the header with the    *)
(* map in its first page, then the program bytes from the lowest address,  *)
(* reading them from RAM as it goes.                                       *)

(* The header counts as part of the program data. *)
BootShort ==
    \E valid \in {TRUE, FALSE} :
        /\ valid => flash.size > 0
        /\ slot' = IF valid THEN flash.slot ELSE EmptyMap
        /\ data' = [a \in Addr |->
             IF valid /\ a < flash.size - 2 THEN flash.data[a] ELSE Junk]
        /\ toWrite' = ~valid
        /\ sent' = IF valid THEN flash.sent ELSE [s \in Slots |-> 0]
        /\ dlSlot' = 0 /\ fileIO' = FALSE /\ running' = FALSE /\ selected' = 0
        /\ saving' = "no" /\ saveAt' = 0
        /\ host' = NoDownload
        /\ UNCHANGED flash

(* Power returns: the RAM is what the flash holds, or reset when the image *)
(* is invalid or of another firmware.                                      *)
Boot ==
    \E valid \in {TRUE, FALSE} :
        /\ valid => flash.size > 0
        /\ slot' = IF valid THEN flash.slot ELSE EmptyMap
        /\ data' = [a \in Addr |->
             IF valid /\ a < flash.size - 1 THEN flash.data[a] ELSE Junk]
        /\ toWrite' = ~valid
        /\ sent' = IF valid THEN flash.sent ELSE [s \in Slots |-> 0]
        /\ dlSlot' = 0 /\ fileIO' = FALSE /\ running' = FALSE /\ selected' = 0
        /\ saving' = "no" /\ saveAt' = 0
        /\ host' = NoDownload
        /\ UNCHANGED flash

(* The size to write leaves out the header. *)
BeginSaveShort ==
    /\ "shutdown" \in Scenario
    /\ saving = "no" /\ ~running /\ toWrite
    /\ saving' = "erased"
    /\ saveAt' = (IF UsedSize(slot) > 0 THEN UsedSize(slot) - 1 ELSE 0)
    /\ flash' = NoImage
    /\ UNCHANGED <<hubVars, running, hostVars>>

(* pbsys_storage_deinit, and the first steps of the process it starts: the *)
(* flash is erased.                                                        *)
BeginSave ==
    /\ "shutdown" \in Scenario
    /\ saving = "no" /\ ~running /\ toWrite
    /\ saving' = "erased"
    /\ saveAt' = UsedSize(slot)
    /\ flash' = NoImage
    /\ UNCHANGED <<hubVars, running, hostVars>>

(* The first page: size of the image (1 stands for the header) and map. *)
SaveHeader ==
    /\ saving = "erased"
    /\ flash' = [NoImage EXCEPT !.size = saveAt + 1, !.slot = slot, !.sent = sent]
    /\ saving' = "writing" /\ saveAt' = 0
    /\ UNCHANGED <<hubVars, running, hostVars>>

SaveByte ==
    /\ saving = "writing" /\ saveAt < flash.size - 1
    /\ flash' = [flash EXCEPT !.data[saveAt] = data[saveAt]]
    /\ saveAt' = saveAt + 1
    /\ UNCHANGED <<hubVars, running, saving, hostVars>>

Saved == saving = "writing" /\ saveAt = flash.size - 1

PowerOff ==
    /\ "shutdown" \in Scenario
    /\ (saving = "no" /\ ~running /\ ~toWrite) \/ Saved
    /\ Boot

(* The battery is removed; not in the middle of a save, which leaves the   *)
(* flash half written.                                                     *)
PowerCut == "shutdown" \in Scenario /\ saving = "no" /\ Boot

------------------------------------------------------------------------------
Next ==
    \/ BeginDownload \/ HostGivesUp \/ StoragePoll
    \/ \E n \in Chunk : SendData(n)
    \/ \E n \in {host.bytes} \union Claim : FinishDownload(n)
    \/ \E s \in Slots : SelectSlot(s)
    \/ RunProgram \/ EndProgram \/ WriteUserData \/ ResetStorage
    \/ BeginSave \/ SaveHeader \/ SaveByte \/ PowerOff \/ PowerCut

Spec == Init /\ [][Next]_vars

------------------------------------------------------------------------------
(* The stored programs stay contiguous and within what can be saved, and   *)
(* the slot of a download in progress is empty and lies behind all others, *)
(* through every download, aborted or not, and every deletion before it.   *)
ProgramsTiled ==
    /\ Tiled(slot)
    /\ UsedSize(slot) <= Region
    /\ fileIO => slot[dlSlot] = [offset |-> UsedSize(slot), size |-> 0]

(* A stored program is, byte for byte, what the host sent for its slot,    *)
(* whatever was downloaded, moved, aborted, run, saved and loaded since.   *)
Intact(m, d, len) ==
    \A s \in Slots : m[s].size > 0 =>
        /\ len[s] <= m[s].size
        /\ \A k \in 0..len[s] - 1 : d[m[s].offset + k] = <<s, k>>

ProgramsIntact == Intact(slot, data, sent)

(* An image that was saved completely holds intact programs. *)
SavedProgramsIntact == Saved => Intact(flash.slot, flash.data, flash.sent)
==============================================================================
