--------------------------- MODULE ProgramLifecycle ---------------------------
(* How user programs are selected, started, stopped and followed by a      *)
(* shutdown: the main loop of sys/main.c, the button and connection loop   *)
(* of sys/hmi_pup.c, the stop and power button of sys/program_stop.c, and  *)
(* the commands of a host (sys/command.c) that reach into them.            *)
(*                                                                         *)
(* The main thread advances between event-loop runs; everything else (the  *)
(* system poll process, host commands, connections, buttons) happens       *)
(* whenever the event loop runs.  Where consecutive waits of the main      *)
(* thread could pass in one go, the model also lets events in between.     *)
EXTENDS SlotMap

CONSTANTS
    Button,        \* the buttons of the hub
    Builtin,       \* ids of builtin programs, such as the REPL
    MaxHosts,      \* bound: hosts connected at the same time
    MaxChanges,    \* bound: host connections and disconnections until power off
    MoveWhileStarting  \* whether hosts begin a download while a start is pending

ASSUME LifecycleAssumption ==
    /\ Button \subseteq {"center", "left", "right", "bluetooth"}
    /\ "center" \in Button
    /\ Builtin \intersect Slots = {}
    /\ MaxHosts \in Nat /\ MaxChanges \in Nat
    /\ MoveWhileStarting \in BOOLEAN

VARIABLES
    pc,           \* where the main thread is
    startReq,     \* program.start_request_type
    prog,         \* program: id and where its code is
    running,      \* status flag USER_PROGRAM_RUNNING
    closeErr,     \* stop_application_resources timed out
    vmStop,       \* what the virtual machine was asked: "soft", "abort" or both
    slot,         \* map->slot_info
    dlSlot,       \* download_state.slot
    fileIO,       \* status flag FILE_IO_IN_PROGRESS
    selected,     \* pbsys_status.slot
    btn,          \* the buttons pressed
    powerPressed, \* status flag POWER_BUTTON_PRESSED
    shutdownReq,  \* status flag SHUTDOWN_REQUEST
    stopButtons,  \* stop_buttons
    stopPressed,  \* stop_button_pressed
    hosts,        \* number of connected hosts
    connChange,   \* pbsys_hmi_handle_connection_change
    changes,      \* counts connections and disconnections
    bleOn,        \* settings flag BLUETOOTH_ENABLED
    advertising,  \* the radio is advertising
    wantAdv,      \* should_advertise, or what start_advertising was called with
    pressDid      \* history: what the press that goes on has caused so far

progVars  == <<startReq, prog, running, closeErr, vmStop>>
storeVars == <<slot, dlSlot, fileIO>>
stopVars  == <<powerPressed, shutdownReq, stopButtons, stopPressed>>
hostVars  == <<hosts, connChange, changes>>
bleVars   == <<bleOn, advertising, wantAdv>>
vars == <<pc, progVars, storeVars, selected, btn, stopVars, hostVars, bleVars, pressDid>>

Location == {"release0", "wait", "advertise", "release1", "stopAdv",
             "drain1", "vm", "closing", "drain2",
             "deinit", "powerOff", "charging", "off"}
StopButton == {"center"}     \* PBSYS_CONFIG_HMI_STOP_BUTTON
BluetoothEnabled == "bluetooth" \in Button => bleOn
Connected == hosts > 0

TypeOK ==
    /\ pc \in Location
    /\ startReq \in {"NONE", "HUB_UI", "REMOTE"}
    /\ prog \in [id : Slots \union Builtin, code : [offset : Nat, size : Nat]]
    /\ vmStop \subseteq {"soft", "abort"}
    /\ slot \in MapType /\ dlSlot \in Slots /\ selected \in Slots
    /\ btn \subseteq Button /\ stopButtons \subseteq Button
    /\ {running, closeErr, fileIO, powerPressed, shutdownReq, stopPressed,
        connChange, bleOn, advertising, wantAdv} \subseteq BOOLEAN
    /\ hosts \in 0..MaxHosts /\ changes \in 0..MaxChanges
    /\ pressDid \subseteq {"start", "stop"}

Init ==
    /\ pc = "release0" /\ connChange = TRUE
    /\ startReq = "NONE" /\ running = FALSE /\ closeErr = FALSE /\ vmStop = {}
    /\ prog = [id |-> 0, code |-> Entry(0, 0)]
    /\ slot = EmptyMap /\ dlSlot = 0 /\ fileIO = FALSE /\ selected = 0
    /\ btn = {} /\ powerPressed = FALSE /\ shutdownReq = FALSE
    /\ stopButtons = StopButton /\ stopPressed = FALSE
    /\ hosts = 0 /\ changes = 0
    /\ bleOn = TRUE /\ advertising = FALSE /\ wantAdv = FALSE
    /\ pressDid = {}

(* The event loop runs, so processes and commands are served. *)
Serving == pc # "off"

------------------------------------------------------------------------------
(* pbsys_main_program_request_start, with whether the header of a stored   *)
(* program is valid. RequestableAnyTime forgets the pending request.       *)
RequestableAnyTime == ~running

Requestable == ~running /\ startReq = "NONE"

Selected(id) == [id   |-> id,
                 code |-> IF id \in Slots THEN slot[id] ELSE Entry(0, 0)]

Valid(p, header) ==
    p.id \in Slots => header /\ p.code.size > 0 /\ p.code.size <= MaximumSize

RequestStart(id, type, header) ==
    /\ prog' = IF Requestable THEN Selected(id) ELSE prog
    /\ startReq' = IF Requestable /\ Valid(prog', header) THEN type ELSE startReq

Accepts(id, header) == Requestable /\ Valid(Selected(id), header)

------------------------------------------------------------------------------
(* run_ui: waiting for input. Each step below but the last two ends in     *)
(* `continue`, which goes back to the wait for released buttons.           *)

UICancel ==
    /\ pc \in {"release0", "wait", "release1"} /\ shutdownReq
    /\ pc' = "deinit"
    /\ UNCHANGED <<progVars, storeVars, selected, btn, stopVars, hostVars, bleVars, pressDid>>

UIReleased ==
    /\ pc = "release0" /\ ~shutdownReq /\ btn = {}
    /\ pc' = "wait"
    /\ UNCHANGED <<progVars, storeVars, selected, btn, stopVars, hostVars, bleVars, pressDid>>

(* The idle timer only runs while no host is connected. pbsys_deinit then  *)
(* requests shutdown.                                                      *)
UIIdleTimeout ==
    /\ pc = "wait" /\ ~shutdownReq /\ ~Connected
    /\ pc' = "deinit"
    /\ shutdownReq' = TRUE
    /\ UNCHANGED <<progVars, storeVars, selected, btn, powerPressed, stopButtons,
                   stopPressed, hostVars, bleVars, pressDid>>

StartAdvertising(on) == wantAdv' = on /\ pc' = "advertise"

(* The change stays flagged, to be cleared by whoever handled it. *)
UIConnectionChangeStays ==
    /\ pc = "wait" /\ ~shutdownReq /\ connChange
    /\ StartAdvertising(BluetoothEnabled /\ ~Connected)
    /\ UNCHANGED <<progVars, storeVars, selected, btn, stopVars, hostVars,
                   bleOn, advertising, pressDid>>

UIConnectionChange ==
    /\ pc = "wait" /\ ~shutdownReq /\ connChange
    /\ connChange' = FALSE
    /\ StartAdvertising(BluetoothEnabled /\ ~Connected)
    /\ UNCHANGED <<progVars, storeVars, selected, btn, stopVars, hosts, changes,
                   bleOn, advertising, pressDid>>

UIRequested ==
    /\ pc = "wait" /\ ~shutdownReq /\ ~connChange /\ startReq # "NONE"
    /\ pc' = "release1"
    /\ UNCHANGED <<progVars, storeVars, selected, btn, stopVars, hostVars, bleVars, pressDid>>

(* A button was pressed, and nothing that takes precedence happened. *)
UIButton == pc = "wait" /\ ~shutdownReq /\ ~connChange /\ startReq = "NONE"

UIBluetoothButton ==
    /\ UIButton /\ "bluetooth" \in btn
    /\ bleOn' = (Connected \/ ~bleOn)
    /\ StartAdvertising(IF Connected THEN ~advertising ELSE bleOn')
    /\ UNCHANGED <<progVars, storeVars, selected, btn, stopVars, hostVars,
                   advertising, pressDid>>

(* The selection moves past the last slot. *)
UILeftRightUnbounded ==
    /\ UIButton /\ "bluetooth" \notin btn /\ btn \intersect {"left", "right"} # {}
    /\ selected' = IF fileIO THEN selected
                   ELSE IF "right" \in btn
                     THEN IF selected < NumSlots THEN selected + 1 ELSE selected
                     ELSE IF selected > 0 THEN selected - 1 ELSE selected
    /\ pc' = "release0"
    /\ UNCHANGED <<progVars, storeVars, btn, stopVars, hostVars, bleVars, pressDid>>

UILeftRight ==
    /\ UIButton /\ "bluetooth" \notin btn /\ btn \intersect {"left", "right"} # {}
    /\ selected' = IF fileIO THEN selected
                   ELSE IF "right" \in btn
                     THEN IF selected + 1 < NumSlots THEN selected + 1 ELSE selected
                     ELSE IF selected > 0 THEN selected - 1 ELSE selected
    /\ pc' = "release0"
    /\ UNCHANGED <<progVars, storeVars, btn, stopVars, hostVars, bleVars, pressDid>>

UICenter(header) ==
    /\ UIButton /\ btn = {"center"}
    /\ RequestStart(selected, "HUB_UI", header)
    /\ pc' = IF Accepts(selected, header) THEN "release1" ELSE "release0"
    /\ pressDid' = IF Accepts(selected, header) THEN pressDid \union {"start"} ELSE pressDid
    /\ UNCHANGED <<running, closeErr, vmStop, storeVars, selected, btn, stopVars,
                   hostVars, bleVars>>

(* The connection change is flagged as handled after the command. *)
UIAdvertisedClearsChange ==
    /\ pc = "advertise"
    /\ advertising' = wantAdv
    /\ connChange' = FALSE
    /\ pc' = "release0"
    /\ UNCHANGED <<progVars, storeVars, selected, btn, stopVars, hosts, changes,
                   bleOn, wantAdv, pressDid>>

(* start_advertising ends: the radio did as it was told. *)
UIAdvertised ==
    /\ pc = "advertise"
    /\ advertising' = wantAdv
    /\ pc' = "release0"
    /\ UNCHANGED <<progVars, storeVars, selected, btn, stopVars, hostVars,
                   bleOn, wantAdv, pressDid>>

(* The program starts with the button still down. *)
UIFinalReleaseSkipped ==
    /\ pc = "release1" /\ ~shutdownReq
    /\ pc' = "stopAdv" /\ wantAdv' = FALSE
    /\ UNCHANGED <<progVars, storeVars, selected, btn, stopVars, hostVars,
                   bleOn, advertising, pressDid>>

(* Leaving the loop: the final release, then advertising stops. *)
UIFinalRelease ==
    /\ pc = "release1" /\ ~shutdownReq /\ btn = {}
    /\ pc' = "stopAdv" /\ wantAdv' = FALSE
    /\ UNCHANGED <<progVars, storeVars, selected, btn, stopVars, hostVars,
                   bleOn, advertising, pressDid>>

(* run_ui returns and pbsys_main announces the program. *)
Announce ==
    /\ pc = "stopAdv"
    /\ advertising' = FALSE
    /\ running' = TRUE
    /\ pc' = "drain1"
    /\ UNCHANGED <<startReq, prog, closeErr, vmStop, storeVars, selected, btn,
                   stopVars, hostVars, bleOn, wantAdv, pressDid>>

------------------------------------------------------------------------------
(* pbsys_main: running the program and getting back to idle. *)

(* mp_init starts without a pending exception. *)
StartProgram ==
    /\ pc = "drain1"
    /\ pc' = "vm"
    /\ vmStop' = vmStop \ {"soft"}
    /\ UNCHANGED <<startReq, prog, running, closeErr, storeVars, selected, btn,
                   stopVars, hostVars, bleVars, pressDid>>

(* The program ends by itself, or by an error. *)
ProgramEnds ==
    /\ pc = "vm"
    /\ pc' = "closing"
    /\ UNCHANGED <<progVars, storeVars, selected, btn, stopVars, hostVars, bleVars, pressDid>>

(* SystemExit is raised in the program, which may catch it and go on. *)
ProgramTakesExit ==
    /\ pc = "vm" /\ "soft" \in vmStop
    /\ vmStop' = vmStop \ {"soft"}
    /\ pc' \in {"vm", "closing"}
    /\ UNCHANGED <<startReq, prog, running, closeErr, storeVars, selected, btn,
                   stopVars, hostVars, bleVars, pressDid>>

(* The virtual machine is aborted, which a program cannot catch. *)
ProgramAborted ==
    /\ pc = "vm" /\ "abort" \in vmStop
    /\ vmStop' = vmStop \ {"abort"}
    /\ pc' = "closing"
    /\ UNCHANGED <<startReq, prog, running, closeErr, storeVars, selected, btn,
                   stopVars, hostVars, bleVars, pressDid>>

(* Application resources are closed, or could not be in 3 s. *)
ProgramClosed(err) ==
    /\ pc = "closing"
    /\ closeErr' = err
    /\ running' = FALSE
    /\ stopButtons' = StopButton
    /\ startReq' = "NONE"
    /\ pc' = "drain2"
    /\ UNCHANGED <<prog, vmStop, storeVars, selected, btn, powerPressed, shutdownReq,
                   stopPressed, hostVars, bleVars, pressDid>>

(* Back to program selection, which starts by handling the connection, or  *)
(* to shutdown when the system could not be brought back to normal.        *)
BackToUI ==
    /\ pc = "drain2"
    /\ pc' = IF closeErr THEN "deinit" ELSE "release0"
    /\ shutdownReq' = (shutdownReq \/ closeErr)
    /\ connChange' = (connChange \/ ~closeErr)
    /\ UNCHANGED <<progVars, storeVars, selected, btn, powerPressed, stopButtons,
                   stopPressed, hosts, changes, bleVars, pressDid>>

(* Everything is saved and stopped: status flag SHUTDOWN. *)
Deinitialized ==
    /\ pc = "deinit"
    /\ pc' = "powerOff"
    /\ UNCHANGED <<progVars, storeVars, selected, btn, stopVars, hostVars, bleVars, pressDid>>

PowerButtonReleased ==
    /\ pc = "powerOff" /\ ~powerPressed
    /\ pc' = "charging"
    /\ UNCHANGED <<progVars, storeVars, selected, btn, stopVars, hostVars, bleVars, pressDid>>

(* The charger is not connected, or unplugged. *)
Unplugged ==
    /\ pc = "charging"
    /\ pc' = "off"
    /\ UNCHANGED <<progVars, storeVars, selected, btn, stopVars, hostVars, bleVars, pressDid>>

(* The hub is turned on, or back on while it charges: a full reset. *)
Boot ==
    /\ pc = "off" \/ (pc = "charging" /\ powerPressed)
    /\ pc' = "release0" /\ connChange' = TRUE
    /\ startReq' = "NONE" /\ running' = FALSE /\ closeErr' = FALSE /\ vmStop' = {}
    /\ prog' = [id |-> 0, code |-> Entry(0, 0)]
    /\ dlSlot' = 0 /\ fileIO' = FALSE /\ selected' = 0
    /\ powerPressed' = FALSE /\ shutdownReq' = FALSE
    /\ stopButtons' = StopButton /\ stopPressed' = FALSE
    /\ hosts' = 0 /\ changes' = 0 /\ advertising' = FALSE /\ wantAdv' = FALSE
    /\ pressDid' = {}
    /\ UNCHANGED <<slot, btn, bleOn>>

------------------------------------------------------------------------------
(* Without a stop button the poll returns before it looks at shutdown. *)
PollProgramStopReturnsEarly(long) ==
    /\ Serving
    /\ powerPressed' = (StopButton \subseteq btn)
    /\ long => powerPressed /\ powerPressed'
    /\ shutdownReq' = (shutdownReq \/ long)
    /\ LET combination == stopButtons \subseteq btn
           stops == combination /\ ~stopPressed
       IN  /\ stopPressed' = IF stopButtons = {} THEN stopPressed ELSE combination
           /\ vmStop' = IF ~running \/ stopButtons = {} THEN vmStop
                        ELSE vmStop \union IF shutdownReq' THEN {"abort"}
                                           ELSE IF stops THEN {"soft"} ELSE {}
    /\ UNCHANGED <<pc, startReq, prog, running, closeErr, storeVars, selected, btn,
                   stopButtons, hostVars, bleVars, pressDid>>

(* pbsys_program_stop_poll, run by the system poll process every 50 ms.    *)
(* long: the power button has been down for 2 s, so at an earlier poll.    *)
PollProgramStop(long) ==
    /\ Serving
    /\ powerPressed' = (StopButton \subseteq btn)
    /\ long => powerPressed /\ powerPressed'
    /\ shutdownReq' = (shutdownReq \/ long)
    /\ LET combination == stopButtons # {} /\ stopButtons \subseteq btn
           stops == ~shutdownReq' /\ combination /\ ~stopPressed
       IN  /\ stopPressed' = IF shutdownReq' \/ stopButtons = {} THEN stopPressed
                             ELSE combination
           /\ vmStop' = IF ~running THEN vmStop
                        ELSE vmStop \union IF shutdownReq' THEN {"abort"}
                                           ELSE IF stops THEN {"soft"} ELSE {}
           /\ pressDid' = IF running /\ stops THEN pressDid \union {"stop"} ELSE pressDid
    /\ UNCHANGED <<pc, startReq, prog, running, closeErr, storeVars, selected, btn,
                   stopButtons, hostVars, bleVars>>

(* The battery is critical, or the program asks for shutdown. *)
RequestShutdown ==
    /\ Serving /\ ~shutdownReq
    /\ shutdownReq' = TRUE
    /\ UNCHANGED <<pc, progVars, storeVars, selected, btn, powerPressed, stopButtons,
                   stopPressed, hostVars, bleVars, pressDid>>

(* hub.system.set_stop_button: another combination, or none. *)
ProgramSetsStopButtons(b) ==
    /\ pc = "vm"
    /\ stopButtons' = b
    /\ UNCHANGED <<pc, progVars, storeVars, selected, btn, powerPressed, shutdownReq,
                   stopPressed, hostVars, bleVars, pressDid>>

(* hub.system.reset_storage: the stored programs are gone. *)
ProgramResetsStorage ==
    /\ pc = "vm"
    /\ slot' = EmptyMap
    /\ UNCHANGED <<pc, progVars, dlSlot, fileIO, selected, btn, stopVars, hostVars,
                   bleVars, pressDid>>

(* The user presses and releases buttons. *)
PressButton(b) ==
    /\ b \notin btn
    /\ btn' = btn \union {b}
    /\ UNCHANGED <<pc, progVars, storeVars, selected, stopVars, hostVars, bleVars, pressDid>>

ReleaseButtons ==
    /\ btn # {}
    /\ btn' = {} /\ pressDid' = {}
    /\ UNCHANGED <<pc, progVars, storeVars, selected, stopVars, hostVars, bleVars>>

------------------------------------------------------------------------------
(* Hosts: connections and commands. *)

(* A host connects by USB, or by Bluetooth, when the radio stops           *)
(* advertising by itself.                                                  *)
HostConnects ==
    /\ Serving /\ hosts < MaxHosts /\ changes < MaxChanges
    /\ hosts' = hosts + 1 /\ changes' = changes + 1
    /\ connChange' = TRUE
    /\ advertising' \in {advertising, FALSE}
    /\ UNCHANGED <<pc, progVars, storeVars, selected, btn, stopVars, bleOn, wantAdv, pressDid>>

HostDisconnects ==
    /\ Serving /\ Connected /\ changes < MaxChanges
    /\ hosts' = hosts - 1 /\ changes' = changes + 1
    /\ connChange' = TRUE
    /\ UNCHANGED <<pc, progVars, storeVars, selected, btn, stopVars, bleVars, pressDid>>

HostStart(id, header) ==
    /\ Serving /\ Connected
    /\ RequestStart(id, "REMOTE", header)
    /\ UNCHANGED <<pc, running, closeErr, vmStop, storeVars, selected, btn, stopVars,
                   hostVars, bleVars, pressDid>>

HostStop ==
    /\ Serving /\ Connected
    /\ running
    /\ vmStop' = vmStop \union {"soft"}
    /\ UNCHANGED <<pc, startReq, prog, running, closeErr, storeVars, selected, btn,
                   stopVars, hostVars, bleVars, pressDid>>

HostBeginsDownload ==
    /\ Serving /\ Connected
    /\ ~running /\ ~fileIO
    /\ startReq = "NONE" \/ MoveWhileStarting
    /\ dlSlot' = IF NumSlots = 1 THEN dlSlot ELSE selected
    /\ slot' = Prepared(slot, dlSlot')
    /\ fileIO' = TRUE
    /\ UNCHANGED <<pc, progVars, selected, btn, stopVars, hostVars, bleVars, pressDid>>

HostFinishesDownload(n) ==
    /\ Serving /\ Connected
    /\ ~running /\ fileIO /\ slot[dlSlot].size = 0
    /\ slot' = [slot EXCEPT ![dlSlot].size = WordAligned(n)]
    /\ fileIO' = FALSE
    /\ UNCHANGED <<pc, progVars, dlSlot, selected, btn, stopVars, hostVars, bleVars, pressDid>>

(* No data came for 1 s. *)
DownloadTimesOut ==
    /\ Serving /\ fileIO
    /\ fileIO' = FALSE
    /\ UNCHANGED <<pc, progVars, slot, dlSlot, selected, btn, stopVars, hostVars,
                   bleVars, pressDid>>

------------------------------------------------------------------------------
MainStep ==
    \/ UICancel \/ UIReleased \/ UIIdleTimeout \/ UIConnectionChange \/ UIRequested
    \/ UIBluetoothButton \/ UILeftRight \/ (\E h \in BOOLEAN : UICenter(h))
    \/ UIAdvertised \/ UIFinalRelease \/ Announce
    \/ StartProgram \/ ProgramAborted \/ (\E e \in BOOLEAN : ProgramClosed(e))
    \/ BackToUI \/ Deinitialized

PowerStep == PowerButtonReleased \/ Unplugged \/ Boot

ProgramStep ==
    \/ ProgramEnds \/ ProgramTakesExit \/ ProgramResetsStorage
    \/ \E b \in {{}, Button} : ProgramSetsStopButtons(b)

HostStep ==
    \/ HostConnects \/ HostDisconnects \/ HostStop
    \/ \E id \in Slots \union Builtin, h \in BOOLEAN : HostStart(id, h)
    \/ HostBeginsDownload \/ HostFinishesDownload(Word) \/ DownloadTimesOut

UserStep ==
    \/ \E b \in Button : PressButton(b)
    \/ ReleaseButtons \/ RequestShutdown

Next ==
    \/ MainStep \/ PowerStep \/ ProgramStep \/ HostStep \/ UserStep
    \/ \E long \in BOOLEAN : PollProgramStop(long)

(* The main thread goes on and the virtual machine looks at abort requests; *)
(* the poll process runs. Users and hosts owe nothing, and a program may    *)
(* run forever.                                                             *)
Spec ==
    /\ Init /\ [][Next]_vars
    /\ WF_vars(MainStep)
    /\ WF_vars(\E long \in BOOLEAN : PollProgramStop(long))

------------------------------------------------------------------------------
(* One press of the buttons never both starts a program and stops one: the *)
(* press that selects a program does not stop it as soon as it runs, and   *)
(* the press that stops a program does not start it again.                 *)
PressActsOnce == pressDid # {"start", "stop"}

(* The program for which a start was accepted is the one that runs: later  *)
(* requests, by buttons or by hosts, change nothing about it until it ends. *)
AcceptedStartIsFinal == [][startReq # "NONE" /\ startReq' = startReq => prog' = prog]_vars

(* When a program starts to run, its code is where the slot map has it: no *)
(* download moved or replaced it since the start was requested.            *)
RunsStoredProgram ==
    [][pc # "vm" /\ pc' = "vm" /\ prog.id \in Slots => prog.code = slot[prog.id]]_vars

(* Between its acceptance and its end nothing changes about a start.       *)
RunsWhatWasAccepted == AcceptedStartIsFinal /\ RunsStoredProgram

(* The hub advertises exactly when it should once it waits for input       *)
(* without a host: no connection change is lost while a command to the     *)
(* radio is under way.                                                     *)
AdvertisesWhenAlone ==
    pc = "wait" /\ ~connChange /\ ~Connected => advertising = BluetoothEnabled

(* Once shutdown is requested, by whatever means, the hub gets there: a    *)
(* program cannot prevent it, whatever it catches and even when it turned  *)
(* the stop button off, nor can pending starts, downloads or connections.  *)
ShutdownCompletes == shutdownReq ~> pc \in {"powerOff", "charging", "off"}

(* An accepted start leads to a running program, or the hub shuts down,    *)
(* once the user leaves the buttons alone.                                 *)
AcceptedStartRuns ==
    <>[](btn = {}) => (startReq # "NONE" ~> running \/ shutdownReq)
==============================================================================
