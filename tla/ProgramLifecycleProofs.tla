------------------------ MODULE ProgramLifecycleProofs ------------------------
(* Proofs about ProgramLifecycle, for any slots, buttons, builtin programs *)
(* and hosts.                                                              *)
EXTENDS ProgramLifecycle, SlotMapProofs

------------------------------------------------------------------------------
(* The hub boots with values of the right types.                           *)
LEMMA TypeInit == Init => TypeOK
<1> SUFFICES ASSUME Init PROVE TypeOK
  OBVIOUS
<1>1. 0 \in Slots /\ "center" \in Button /\ 0 \in 0..MaxHosts /\ 0 \in 0..MaxChanges
  BY SlotConstants, LifecycleAssumption
<1>2. Entry(0, 0) \in [offset : Nat, size : Nat] /\ EmptyMap \in MapType
  BY DEF Entry, EmptyMap, MapType
<1> QED BY <1>1, <1>2 DEF Init, TypeOK, Location, StopButton

(* A start selects a slot or a builtin program.                            *)
LEMMA SelectedType ==
    ASSUME TypeOK, NEW id \in Slots \union Builtin
    PROVE  Selected(id) \in [id : Slots \union Builtin, code : [offset : Nat, size : Nat]]
BY DEF TypeOK, MapType, Selected, Entry

(* The steps of the user interface keep the types.                         *)
LEMMA TypeUI ==
    ASSUME TypeOK,
           \/ UICancel \/ UIReleased \/ UIIdleTimeout \/ UIConnectionChange \/ UIRequested
           \/ UIBluetoothButton \/ UILeftRight \/ (\E h \in BOOLEAN : UICenter(h))
           \/ UIAdvertised \/ UIFinalRelease
    PROVE  TypeOK'
<1> USE DEF progVars, storeVars, stopVars, hostVars, bleVars, Location
<1>1. CASE UICancel \/ UIReleased \/ UIIdleTimeout \/ UIRequested
  BY <1>1 DEF TypeOK, UICancel, UIReleased, UIIdleTimeout, UIRequested
<1>2. CASE UIConnectionChange
  <2>1. wantAdv' \in BOOLEAN /\ connChange' \in BOOLEAN /\ pc' \in Location
    BY <1>2 DEF UIConnectionChange, StartAdvertising, BluetoothEnabled, Connected, TypeOK
  <2> QED BY <1>2, <2>1 DEF TypeOK, UIConnectionChange
<1>3. CASE UIBluetoothButton
  <2>1. wantAdv' \in BOOLEAN /\ bleOn' \in BOOLEAN /\ pc' \in Location
    BY <1>3 DEF UIBluetoothButton, StartAdvertising, Connected, TypeOK
  <2> QED BY <1>3, <2>1 DEF TypeOK, UIBluetoothButton
<1>4. CASE UILeftRight
  <2>1. selected' \in Slots
    BY <1>4, SlotConstants DEF UILeftRight, TypeOK
  <2> QED BY <1>4, <2>1 DEF TypeOK, UILeftRight
<1>5. ASSUME NEW h \in BOOLEAN, UICenter(h) PROVE TypeOK'
  <2>1. Selected(selected) \in [id : Slots \union Builtin, code : [offset : Nat, size : Nat]]
    BY SelectedType DEF TypeOK
  <2>2. prog' \in {prog, Selected(selected)} /\ startReq' \in {startReq, "HUB_UI"}
    BY <1>5 DEF UICenter, RequestStart
  <2>3. pc' \in Location /\ pressDid' \in {pressDid, pressDid \union {"start"}}
    BY <1>5 DEF UICenter
  <2> QED BY <1>5, <2>1, <2>2, <2>3 DEF TypeOK, UICenter
<1>6. CASE UIAdvertised \/ UIFinalRelease
  BY <1>6 DEF TypeOK, UIAdvertised, UIFinalRelease
<1> QED BY <1>1, <1>2, <1>3, <1>4, <1>5, <1>6

(* Running a program, getting back to idle and powering off keep the types. *)
LEMMA TypeMain ==
    ASSUME TypeOK,
           \/ Announce \/ StartProgram \/ ProgramAborted
           \/ (\E e \in BOOLEAN : ProgramClosed(e)) \/ BackToUI \/ Deinitialized
           \/ PowerStep \/ ProgramStep
    PROVE  TypeOK'
<1> USE DEF progVars, storeVars, stopVars, hostVars, bleVars, Location
<1>1. CASE Announce \/ StartProgram \/ ProgramAborted \/ Deinitialized
  BY <1>1 DEF TypeOK, Announce, StartProgram, ProgramAborted, Deinitialized
<1>2. ASSUME NEW e \in BOOLEAN, ProgramClosed(e) PROVE TypeOK'
  BY <1>2, LifecycleAssumption DEF TypeOK, ProgramClosed, StopButton
<1>3. CASE BackToUI
  BY <1>3 DEF TypeOK, BackToUI
<1>4. CASE PowerButtonReleased \/ Unplugged
  BY <1>4 DEF TypeOK, PowerButtonReleased, Unplugged
<1>5. CASE Boot
  <2>1. 0 \in Slots /\ "center" \in Button /\ 0 \in 0..MaxHosts /\ 0 \in 0..MaxChanges
    BY SlotConstants, LifecycleAssumption
  <2>2. Entry(0, 0) \in [offset : Nat, size : Nat]
    BY DEF Entry
  <2> QED BY <1>5, <2>1, <2>2 DEF TypeOK, Boot, StopButton
<1>6. CASE ProgramEnds \/ ProgramTakesExit
  BY <1>6 DEF TypeOK, ProgramEnds, ProgramTakesExit
<1>7. CASE ProgramResetsStorage
  <2>1. EmptyMap \in MapType
    BY DEF EmptyMap, MapType, Entry
  <2> QED BY <1>7, <2>1 DEF TypeOK, ProgramResetsStorage
<1>8. ASSUME NEW b \in {{}, Button}, ProgramSetsStopButtons(b) PROVE TypeOK'
  BY <1>8 DEF TypeOK, ProgramSetsStopButtons
<1> QED BY <1>1, <1>2, <1>3, <1>4, <1>5, <1>6, <1>7, <1>8 DEF PowerStep, ProgramStep

(* Connections and commands of hosts keep the types; a download leaves a   *)
(* slot map behind.                                                        *)
LEMMA TypeHost == ASSUME TypeOK, HostStep PROVE TypeOK'
<1> USE DEF progVars, storeVars, stopVars, hostVars, bleVars, Location
<1>1. CASE HostConnects \/ HostDisconnects
  <2>1. MaxHosts \in Nat /\ MaxChanges \in Nat /\ hosts \in 0..MaxHosts
        /\ changes \in 0..MaxChanges
    BY LifecycleAssumption DEF TypeOK
  <2>2. hosts' \in 0..MaxHosts /\ changes' \in 0..MaxChanges
    <3>1. CASE HostConnects
      <4>1. hosts < MaxHosts /\ changes < MaxChanges
            /\ hosts' = hosts + 1 /\ changes' = changes + 1
        BY <3>1 DEF HostConnects
      <4> QED BY <2>1, <4>1
    <3>2. CASE HostDisconnects
      <4>1. hosts > 0 /\ changes < MaxChanges
            /\ hosts' = hosts - 1 /\ changes' = changes + 1
        BY <3>2 DEF HostDisconnects, Connected
      <4> QED BY <2>1, <4>1
    <3> QED BY <1>1, <3>1, <3>2
  <2>3. advertising' \in BOOLEAN /\ connChange' \in BOOLEAN
    BY <1>1 DEF HostConnects, HostDisconnects, TypeOK
  <2> QED BY <1>1, <2>2, <2>3 DEF TypeOK, HostConnects, HostDisconnects
<1>2. ASSUME NEW id \in Slots \union Builtin, NEW h \in BOOLEAN, HostStart(id, h)
      PROVE  TypeOK'
  <2>1. prog' \in {prog, Selected(id)} /\ startReq' \in {startReq, "REMOTE"}
    BY <1>2 DEF HostStart, RequestStart
  <2> QED BY <1>2, <2>1, SelectedType DEF TypeOK, HostStart
<1>3. CASE HostStop \/ DownloadTimesOut
  BY <1>3 DEF TypeOK, HostStop, DownloadTimesOut
<1>4. CASE HostBeginsDownload
  <2>1. slot \in MapType /\ dlSlot' \in Slots /\ slot' = Prepared(slot, dlSlot')
    BY <1>4 DEF TypeOK, HostBeginsDownload
  <2>2. slot' \in MapType
    BY <2>1, PreparedType
  <2> QED BY <1>4, <2>1, <2>2 DEF TypeOK, HostBeginsDownload
<1>5. CASE HostFinishesDownload(Word)
  <2>1. WordAligned(Word) \in Nat
    BY SlotConstants, AlignedType
  <2>2. slot' \in MapType
    BY <1>5, <2>1 DEF TypeOK, HostFinishesDownload, MapType
  <2> QED BY <1>5, <2>2 DEF TypeOK, HostFinishesDownload
<1> QED BY <1>1, <1>2, <1>3, <1>4, <1>5 DEF HostStep

(* Buttons, shutdown requests and the poll process keep the types.         *)
LEMMA TypePoll ==
    ASSUME TypeOK, UserStep \/ \E long \in BOOLEAN : PollProgramStop(long)
    PROVE  TypeOK'
<1> USE DEF progVars, storeVars, stopVars, hostVars, bleVars, Location
<1>1. CASE UserStep
  BY <1>1 DEF TypeOK, UserStep, PressButton, ReleaseButtons, RequestShutdown
<1>2. ASSUME NEW long \in BOOLEAN, PollProgramStop(long) PROVE TypeOK'
  <2>1. {powerPressed', shutdownReq', stopPressed'} \subseteq BOOLEAN
    BY <1>2 DEF TypeOK, PollProgramStop
  <2>2. vmStop' \subseteq {"soft", "abort"} /\ pressDid' \subseteq {"start", "stop"}
    BY <1>2 DEF TypeOK, PollProgramStop
  <2> QED BY <1>2, <2>1, <2>2 DEF TypeOK, PollProgramStop
<1> QED BY <1>1, <1>2

(* Every variable keeps its type: downloads leave a slot map behind whose   *)
(* offsets are not negative, and the selection stays within the slots.     *)
THEOREM TypeCorrect == Spec => []TypeOK
<1>1. TypeOK /\ [Next]_vars => TypeOK'
  <2> SUFFICES ASSUME TypeOK, [Next]_vars PROVE TypeOK'
    OBVIOUS
  <2>1. CASE UNCHANGED vars
    BY <2>1 DEF TypeOK, vars, progVars, storeVars, stopVars, hostVars, bleVars
  <2> QED BY <2>1, TypeUI, TypeMain, TypeHost, TypePoll DEF Next, MainStep
<1> QED BY TypeInit, <1>1, PTL DEF Spec

------------------------------------------------------------------------------
(* Where the main thread can be while a press has not been released since  *)
(* it started or stopped a program, and while a program counts as running. *)
PressInv ==
    /\ pressDid \subseteq {"start", "stop"}
    /\ pressDid # {} => btn # {}
    /\ "start" \in pressDid =>
           pc \in {"release1", "deinit", "powerOff", "charging", "off"}
    /\ "stop" \in pressDid =>
           pc \in {"drain1", "vm", "closing", "drain2", "release0",
                   "deinit", "powerOff", "charging", "off"}
    /\ running => pc \in {"drain1", "vm", "closing"}
    /\ PressActsOnce

(* No press has done anything at boot.                                     *)
LEMMA PressInit == Init => PressInv
BY DEF Init, PressInv, PressActsOnce

(* Steps that touch neither the buttons nor what they did only matter by   *)
(* where they take the main thread.                                        *)
LEMMA PressQuietStep ==
    ASSUME PressInv, UNCHANGED <<running, btn, pressDid>>,
           \/ pc' = pc
           \/ pc \in {"wait", "advertise"} /\ pc' \in {"advertise", "release0", "release1"}
           \/ btn = {} /\ ~running
           \/ /\ pc \notin {"drain1", "vm", "closing"}
              /\ pc' \in {"deinit", "powerOff", "charging", "off"}
           \/ pc \in {"drain1", "vm"} /\ pc' \in {"vm", "closing"}
           \/ pc = "drain2" /\ pc' \in {"deinit", "release0"}
    PROVE  PressInv'
<1> USE DEF PressInv, PressActsOnce
<1>1. CASE pc' = pc
  BY <1>1
<1>2. CASE pc \in {"wait", "advertise"} /\ pc' \in {"advertise", "release0", "release1"}
  BY <1>2
<1>3. CASE btn = {} /\ ~running
  BY <1>3
<1>4. CASE /\ pc \notin {"drain1", "vm", "closing"}
           /\ pc' \in {"deinit", "powerOff", "charging", "off"}
  BY <1>4
<1>5. CASE pc \in {"drain1", "vm"} /\ pc' \in {"vm", "closing"}
  BY <1>5
<1>6. CASE pc = "drain2" /\ pc' \in {"deinit", "release0"}
  BY <1>6
<1> QED BY <1>1, <1>2, <1>3, <1>4, <1>5, <1>6

(* The steps of the main thread, each by where it is.                      *)
LEMMA PressMainStep == ASSUME PressInv, MainStep PROVE PressInv'
<1> USE DEF progVars
<1>1. CASE UICancel \/ UIIdleTimeout \/ Deinitialized
  BY <1>1, PressQuietStep DEF UICancel, UIIdleTimeout, Deinitialized
<1>2. CASE UIReleased \/ UIFinalRelease
  <2>1. ~running
    BY <1>2 DEF PressInv, UIReleased, UIFinalRelease
  <2> QED BY <1>2, <2>1, PressQuietStep DEF UIReleased, UIFinalRelease
<1>3. CASE UIConnectionChange \/ UIRequested \/ UIBluetoothButton \/ UILeftRight \/ UIAdvertised
  BY <1>3, PressQuietStep DEF UIConnectionChange, UIRequested, UIBluetoothButton,
        UILeftRight, UIAdvertised, StartAdvertising, UIButton
<1>4. ASSUME NEW h \in BOOLEAN, UICenter(h) PROVE PressInv'
  <2>1. /\ pc = "wait" /\ btn = {"center"} /\ btn' = btn /\ running' = running
        /\ IF Accepts(selected, h)
             THEN pc' = "release1" /\ pressDid' = pressDid \union {"start"}
             ELSE pc' = "release0" /\ pressDid' = pressDid
    BY <1>4 DEF UICenter, UIButton
  <2>2. pressDid = {} /\ ~running
    BY <2>1 DEF PressInv
  <2>3. pressDid' = {} \/ (pc' = "release1" /\ pressDid' = {"start"})
    BY <2>1, <2>2
  <2> QED BY <2>1, <2>2, <2>3 DEF PressInv, PressActsOnce
<1>5. CASE Announce
  <2>1. pc = "stopAdv" /\ pc' = "drain1" /\ UNCHANGED <<btn, pressDid>>
    BY <1>5 DEF Announce
  <2>2. pressDid = {}
    BY <2>1 DEF PressInv
  <2> QED BY <2>1, <2>2 DEF PressInv, PressActsOnce
<1>6. CASE StartProgram \/ ProgramAborted \/ BackToUI
  BY <1>6, PressQuietStep DEF StartProgram, ProgramAborted, BackToUI
<1>7. ASSUME NEW e \in BOOLEAN, ProgramClosed(e) PROVE PressInv'
  <2>1. /\ pc = "closing" /\ pc' = "drain2" /\ running' = FALSE
        /\ UNCHANGED <<btn, pressDid>>
    BY <1>7 DEF ProgramClosed
  <2> QED BY <2>1 DEF PressInv, PressActsOnce
<1> QED BY <1>1, <1>2, <1>3, <1>4, <1>5, <1>6, <1>7 DEF MainStep

(* The other steps leave the main thread where it is, but for the end of a *)
(* program, the power switch and boot.                                     *)
LEMMA PressOtherStep ==
    ASSUME PressInv, PowerStep \/ ProgramStep \/ HostStep \/ UserStep
    PROVE  PressInv'
<1> USE DEF progVars
<1>1. CASE PowerButtonReleased \/ Unplugged
  BY <1>1, PressQuietStep DEF PowerButtonReleased, Unplugged
<1>2. CASE Boot
  <2>1. pressDid' = {} /\ running' = FALSE
    BY <1>2 DEF Boot
  <2> QED BY <2>1 DEF PressInv, PressActsOnce
<1>3. CASE ProgramEnds \/ ProgramTakesExit \/ ProgramResetsStorage
  BY <1>3, PressQuietStep DEF ProgramEnds, ProgramTakesExit, ProgramResetsStorage
<1>4. ASSUME NEW b, ProgramSetsStopButtons(b) PROVE PressInv'
  BY <1>4, PressQuietStep DEF ProgramSetsStopButtons
<1>5. CASE \/ HostConnects \/ HostDisconnects \/ HostStop
           \/ HostBeginsDownload \/ HostFinishesDownload(Word) \/ DownloadTimesOut
           \/ RequestShutdown
  BY <1>5, PressQuietStep DEF HostConnects, HostDisconnects, HostStop, HostBeginsDownload,
        HostFinishesDownload, DownloadTimesOut, RequestShutdown
<1>6. ASSUME NEW id, NEW h, HostStart(id, h) PROVE PressInv'
  BY <1>6, PressQuietStep DEF HostStart
<1>7. ASSUME NEW b, PressButton(b) PROVE PressInv'
  <2>1. btn' # {} /\ UNCHANGED <<pc, running, pressDid>>
    BY <1>7 DEF PressButton
  <2> QED BY <2>1 DEF PressInv, PressActsOnce
<1>8. CASE ReleaseButtons
  <2>1. pressDid' = {} /\ UNCHANGED <<pc, running>>
    BY <1>8 DEF ReleaseButtons
  <2> QED BY <2>1 DEF PressInv, PressActsOnce
<1> QED BY <1>1, <1>2, <1>3, <1>4, <1>5, <1>6, <1>7, <1>8
        DEF PowerStep, ProgramStep, HostStep, UserStep

(* A press that stops is a press: the combination is not empty. *)
LEMMA PressPollStep ==
    ASSUME PressInv, NEW long \in BOOLEAN, PollProgramStop(long)
    PROVE  PressInv'
<1> DEFINE combination == stopButtons # {} /\ stopButtons \subseteq btn
           stops == ~shutdownReq' /\ combination /\ ~stopPressed
<1>1. /\ pc' = pc /\ running' = running /\ btn' = btn
      /\ pressDid' = IF running /\ stops THEN pressDid \union {"stop"} ELSE pressDid
  BY DEF PollProgramStop, progVars
<1>2. CASE running /\ stops
  <2>1. pc \in {"drain1", "vm", "closing"} /\ "start" \notin pressDid
    BY <1>2 DEF PressInv
  <2>2. btn # {}
    BY <1>2
  <2>3. pressDid' = {"stop"}
    BY <1>1, <1>2, <2>1 DEF PressInv
  <2> QED BY <1>1, <2>1, <2>2, <2>3 DEF PressInv, PressActsOnce
<1>3. CASE ~(running /\ stops)
  BY <1>1, <1>3 DEF PressInv, PressActsOnce
<1> QED BY <1>2, <1>3

(* No press of the buttons both starts a program and stops one: run_ui and *)
(* pbsys_main wait for the buttons to be released before either.           *)
THEOREM PressesActOnce == Spec => []PressActsOnce
<1>1. PressInv /\ [Next]_vars => PressInv'
  <2> SUFFICES ASSUME PressInv, [Next]_vars PROVE PressInv'
    OBVIOUS
  <2>1. CASE UNCHANGED vars
    BY <2>1 DEF PressInv, PressActsOnce, vars, progVars
  <2> QED BY <2>1, PressMainStep, PressOtherStep, PressPollStep DEF Next
<1>2. PressInv => PressActsOnce
  BY DEF PressInv
<1> QED BY PressInit, <1>1, <1>2, PTL DEF Spec

------------------------------------------------------------------------------
(* Once a start is accepted its program is only replaced after it ended,   *)
(* whatever buttons and hosts ask for: every action that sets the program  *)
(* looks at the pending start first.                                       *)
THEOREM AcceptedStartsAreFinal == Spec => AcceptedStartIsFinal
<1>1. ASSUME [Next]_vars, startReq # "NONE", startReq' = startReq
      PROVE  prog' = prog
  <2> USE <1>1 DEF progVars
  <2>1. CASE MainStep
    <3>1. ASSUME NEW h \in BOOLEAN, UICenter(h) PROVE prog' = prog
      BY <3>1 DEF UICenter, UIButton
    <3>2. ASSUME NEW e \in BOOLEAN, ProgramClosed(e) PROVE prog' = prog
      BY <3>2 DEF ProgramClosed
    <3> QED BY <2>1, <3>1, <3>2 DEF MainStep, UICancel, UIReleased, UIIdleTimeout,
          UIConnectionChange, UIRequested, UIBluetoothButton, UILeftRight, UIAdvertised,
          UIFinalRelease, Announce, StartProgram, ProgramAborted, BackToUI, Deinitialized
  <2>2. CASE PowerStep
    BY <2>2 DEF PowerStep, PowerButtonReleased, Unplugged, Boot
  <2>3. CASE ProgramStep
    BY <2>3 DEF ProgramStep, ProgramEnds, ProgramTakesExit, ProgramResetsStorage,
          ProgramSetsStopButtons
  <2>4. CASE HostStep
    <3>1. ASSUME NEW id, NEW h, HostStart(id, h) PROVE prog' = prog
      BY <3>1 DEF HostStart, RequestStart, Requestable
    <3> QED BY <2>4, <3>1 DEF HostStep, HostConnects, HostDisconnects, HostStop,
          HostBeginsDownload, HostFinishesDownload, DownloadTimesOut
  <2>5. CASE UserStep
    BY <2>5 DEF UserStep, PressButton, ReleaseButtons, RequestShutdown
  <2>6. ASSUME NEW long \in BOOLEAN, PollProgramStop(long) PROVE prog' = prog
    BY <2>6 DEF PollProgramStop
  <2>7. CASE UNCHANGED vars
    BY <2>7 DEF vars
  <2> QED BY <2>1, <2>2, <2>3, <2>4, <2>5, <2>6, <2>7 DEF Next
<1>2. [Next]_vars => [startReq # "NONE" /\ startReq' = startReq => prog' = prog]_vars
  BY <1>1
<1> QED BY <1>2, PTL DEF Spec, AcceptedStartIsFinal

------------------------------------------------------------------------------
(* From its acceptance until the virtual machine runs it, a stored program *)
(* is where the slot map has it, and not empty: a slot that a download may *)
(* still fill is another one.                                              *)
Pending == startReq # "NONE" /\ pc \notin {"vm", "closing"} /\ prog.id \in Slots

StartInv ==
    /\ slot = [s \in Slots |-> slot[s]]
    /\ pc \in {"release1", "stopAdv", "drain1"} => startReq # "NONE"
    /\ Pending => prog.code = slot[prog.id] /\ prog.code.size > 0

(* Nothing was started before the hub booted.                              *)
LEMMA StartInit == Init => StartInv
BY DEF Init, StartInv, Pending, EmptyMap

(* Steps that leave the start and the stored programs alone only matter by *)
(* where they take the main thread: not back from a program that runs, and *)
(* to the start of one only with a start that was accepted.                *)
LEMMA StartQuietStep ==
    ASSUME StartInv, UNCHANGED <<startReq, prog, slot>>,
           pc' \in {"release1", "stopAdv", "drain1"} =>
               pc \in {pc', "release1", "stopAdv"} \/ startReq # "NONE",
           pc \in {"vm", "closing"} => pc' \in {"vm", "closing"}
    PROVE  StartInv'
BY DEF StartInv, Pending

(* A request that finds no start pending selects a program; if it is       *)
(* accepted, a stored one is where the slot map has it, and not empty.     *)
LEMMA SelectStep ==
    ASSUME StartInv, UNCHANGED slot, startReq = "NONE",
           startReq' # "NONE" /\ prog'.id \in Slots =>
               prog'.code = slot[prog'.id] /\ prog'.code.size > 0,
           pc' \in {"release1", "stopAdv", "drain1"} => pc' = pc \/ startReq' # "NONE"
    PROVE  StartInv'
BY DEF StartInv, Pending

(* The steps of the main thread. *)
LEMMA StartMainStep == ASSUME StartInv, MainStep PROVE StartInv'
<1> USE DEF progVars, storeVars
<1>1. CASE UICancel \/ UIReleased \/ UIIdleTimeout \/ UIConnectionChange
  BY <1>1, StartQuietStep DEF UICancel, UIReleased, UIIdleTimeout, UIConnectionChange,
        StartAdvertising
<1>2. CASE UIRequested \/ UIBluetoothButton \/ UILeftRight \/ UIAdvertised
  BY <1>2, StartQuietStep DEF UIRequested, UIBluetoothButton, UILeftRight, UIAdvertised,
        UIButton, StartAdvertising
<1>3. CASE UIFinalRelease \/ Announce \/ StartProgram \/ ProgramAborted
  BY <1>3, StartQuietStep DEF UIFinalRelease, Announce, StartProgram, ProgramAborted
<1>4. CASE BackToUI \/ Deinitialized
  BY <1>4, StartQuietStep DEF BackToUI, Deinitialized
<1>5. ASSUME NEW h \in BOOLEAN, UICenter(h) PROVE StartInv'
  <2>1. startReq = "NONE" /\ UNCHANGED slot
    BY <1>5 DEF UICenter, UIButton
  <2>2. CASE Requestable
    <3>1. prog' = Selected(selected)
          /\ startReq' = IF Valid(prog', h) THEN "HUB_UI" ELSE startReq
      BY <1>5, <2>2 DEF UICenter, RequestStart
    <3>2. (pc' = "release1" /\ Valid(prog', h)) \/ pc' = "release0"
      BY <1>5, <3>1 DEF UICenter, Accepts
    <3>3. Valid(prog', h) /\ prog'.id \in Slots =>
            prog'.code = slot[prog'.id] /\ prog'.code.size > 0
      BY <3>1 DEF Valid, Selected
    <3> QED BY <2>1, <3>1, <3>2, <3>3, SelectStep
  <2>3. CASE ~Requestable
    <3>1. UNCHANGED <<startReq, prog>> /\ pc' = "release0" /\ pc = "wait"
      BY <1>5, <2>3 DEF UICenter, UIButton, RequestStart, Accepts
    <3> QED BY <2>1, <3>1, StartQuietStep
  <2> QED BY <2>2, <2>3
<1>6. ASSUME NEW e \in BOOLEAN, ProgramClosed(e) PROVE StartInv'
  BY <1>6 DEF ProgramClosed, StartInv, Pending
<1> QED BY <1>1, <1>2, <1>3, <1>4, <1>5, <1>6 DEF MainStep

(* A download that begins before a program runs moves stored programs; one *)
(* that ends fills a slot that was empty.                                  *)
LEMMA StartHostStep ==
    ASSUME ~MoveWhileStarting, StartInv, HostStep
    PROVE  StartInv'
<1> USE DEF progVars, storeVars
<1>1. CASE HostConnects \/ HostDisconnects \/ HostStop \/ DownloadTimesOut
  BY <1>1, StartQuietStep DEF HostConnects, HostDisconnects, HostStop, DownloadTimesOut
<1>2. ASSUME NEW id, NEW h, HostStart(id, h) PROVE StartInv'
  <2>1. UNCHANGED <<pc, slot>>
    BY <1>2 DEF HostStart
  <2>2. CASE Requestable
    <3>1. startReq = "NONE" /\ prog' = Selected(id)
          /\ startReq' = IF Valid(prog', h) THEN "REMOTE" ELSE startReq
      BY <1>2, <2>2 DEF HostStart, RequestStart, Requestable
    <3>2. Valid(prog', h) /\ prog'.id \in Slots =>
            prog'.code = slot[prog'.id] /\ prog'.code.size > 0
      BY <3>1 DEF Valid, Selected
    <3> QED BY <2>1, <3>1, <3>2, SelectStep
  <2>3. CASE ~Requestable
    <3>1. UNCHANGED <<startReq, prog>>
      BY <1>2, <2>3 DEF HostStart, RequestStart
    <3> QED BY <2>1, <3>1, StartQuietStep
  <2> QED BY <2>2, <2>3
<1>3. CASE HostBeginsDownload
  <2>1. /\ startReq = "NONE" /\ UNCHANGED <<pc, startReq, prog>>
        /\ slot' = Prepared(slot, dlSlot')
    BY <1>3 DEF HostBeginsDownload
  <2>2. slot' = [s \in Slots |-> slot'[s]]
    <3>1. GapClosed(slot, dlSlot') = [s \in Slots |-> GapClosed(slot, dlSlot')[s]]
      BY DEF GapClosed, StartInv
    <3> QED BY <2>1, <3>1 DEF Prepared, EmptyMap
  <2> QED BY <2>1, <2>2 DEF StartInv, Pending
<1>4. CASE HostFinishesDownload(Word)
  <2>1. /\ UNCHANGED <<pc, startReq, prog>> /\ slot[dlSlot].size = 0
        /\ slot' = [slot EXCEPT ![dlSlot].size = WordAligned(Word)]
    BY <1>4 DEF HostFinishesDownload
  <2>2. slot' = [s \in Slots |-> slot'[s]]
    BY <2>1 DEF StartInv
  <2>3. ASSUME Pending PROVE slot'[prog.id] = slot[prog.id]
    <3>1. prog.id # dlSlot /\ prog.id \in Slots
      BY <2>1, <2>3 DEF StartInv, Pending
    <3> QED BY <2>1, <3>1 DEF StartInv
  <2> QED BY <2>1, <2>2, <2>3 DEF StartInv, Pending
<1> QED BY <1>1, <1>2, <1>3, <1>4 DEF HostStep

(* The other steps: only a program that runs can erase the slots.          *)
LEMMA StartOtherStep ==
    ASSUME StartInv,
           \/ PowerStep \/ ProgramStep \/ UserStep
           \/ \E long \in BOOLEAN : PollProgramStop(long)
    PROVE  StartInv'
<1> USE DEF progVars, storeVars
<1>1. CASE PowerButtonReleased \/ Unplugged
  BY <1>1, StartQuietStep DEF PowerButtonReleased, Unplugged
<1>2. CASE Boot
  BY <1>2 DEF Boot, StartInv, Pending
<1>3. CASE ProgramEnds \/ ProgramTakesExit
  BY <1>3, StartQuietStep DEF ProgramEnds, ProgramTakesExit
<1>4. CASE ProgramResetsStorage
  BY <1>4 DEF ProgramResetsStorage, StartInv, Pending, EmptyMap
<1>5. ASSUME NEW b, ProgramSetsStopButtons(b) PROVE StartInv'
  BY <1>5, StartQuietStep DEF ProgramSetsStopButtons
<1>6. CASE UserStep
  BY <1>6, StartQuietStep DEF UserStep, PressButton, ReleaseButtons, RequestShutdown
<1>7. ASSUME NEW long \in BOOLEAN, PollProgramStop(long) PROVE StartInv'
  BY <1>7, StartQuietStep DEF PollProgramStop
<1> QED BY <1>1, <1>2, <1>3, <1>4, <1>5, <1>6, <1>7 DEF PowerStep, ProgramStep

(* Only the main thread starts a program, with a start that was accepted.  *)
LEMMA OnlyStartProgram ==
    ASSUME [Next]_vars, pc # "vm", pc' = "vm"
    PROVE  pc = "drain1" /\ prog' = prog /\ slot' = slot
<1> USE DEF progVars, storeVars
<1>1. CASE MainStep
  BY <1>1 DEF MainStep, UICancel, UIReleased, UIIdleTimeout, UIConnectionChange,
     UIRequested, UIBluetoothButton, UILeftRight, UICenter, UIAdvertised, UIFinalRelease,
     Announce, StartProgram, ProgramAborted, ProgramClosed, BackToUI, Deinitialized,
     StartAdvertising
<1>2. CASE PowerStep \/ ProgramStep
  BY <1>2 DEF PowerStep, PowerButtonReleased, Unplugged, Boot, ProgramStep, ProgramEnds,
     ProgramTakesExit, ProgramResetsStorage, ProgramSetsStopButtons
<1>3. CASE HostStep
  BY <1>3 DEF HostStep, HostConnects, HostDisconnects, HostStop, HostStart,
     HostBeginsDownload, HostFinishesDownload, DownloadTimesOut
<1>4. CASE UserStep \/ \E long \in BOOLEAN : PollProgramStop(long)
  BY <1>4 DEF UserStep, PressButton, ReleaseButtons, RequestShutdown, PollProgramStop
<1>5. CASE UNCHANGED vars
  BY <1>5 DEF vars
<1> QED BY <1>1, <1>2, <1>3, <1>4, <1>5 DEF Next

(* The program that runs is the one for which a start was accepted, and    *)
(* its code is where the slot map has it, as long as no host begins a      *)
(* download while a start is pending.                                      *)
THEOREM RunsTheAccepted ==
    ASSUME ~MoveWhileStarting
    PROVE  Spec => RunsWhatWasAccepted
<1>1. StartInv /\ [Next]_vars => StartInv'
  <2> SUFFICES ASSUME StartInv, [Next]_vars PROVE StartInv'
    OBVIOUS
  <2>1. CASE UNCHANGED vars
    BY <2>1, StartQuietStep DEF vars, progVars, storeVars
  <2> QED BY <2>1, StartMainStep, StartHostStep, StartOtherStep DEF Next
<1>2. StartInv /\ [Next]_vars =>
        [pc # "vm" /\ pc' = "vm" /\ prog.id \in Slots => prog.code = slot[prog.id]]_vars
  BY OnlyStartProgram DEF StartInv, Pending
<1> QED BY StartInit, <1>1, <1>2, AcceptedStartsAreFinal, PTL
        DEF Spec, RunsWhatWasAccepted, RunsStoredProgram

------------------------------------------------------------------------------
(* What the radio does, or is being told, is right for a hub that waits     *)
(* alone, unless a connection change is flagged.                           *)
AdvInv ==
    /\ btn \subseteq Button /\ bleOn \in BOOLEAN
    /\ ~connChange /\ ~Connected =>
          /\ pc \in {"release0", "wait"} => advertising = BluetoothEnabled
          /\ pc = "advertise" => wantAdv = BluetoothEnabled

(* The connection change is flagged at boot. *)
LEMMA AdvInit == Init => AdvInv
BY DEF Init, AdvInv

(* Steps that touch neither connections nor the radio only matter by where  *)
(* they take the main thread: back to the wait from the wait, or for good.  *)
LEMMA AdvQuietStep ==
    ASSUME AdvInv, btn' \subseteq Button, UNCHANGED <<hostVars, bleVars>>,
           \/ pc' = pc
           \/ pc \in {"release0", "wait"} /\ pc' \in {"release0", "wait"}
           \/ pc' \notin {"release0", "wait", "advertise"}
    PROVE  AdvInv'
BY DEF AdvInv, hostVars, bleVars, Connected, BluetoothEnabled

(* The steps of the main thread, each by what it tells the radio. *)
LEMMA AdvMainStep == ASSUME AdvInv, MainStep PROVE AdvInv'
<1> USE DEF progVars
<1> btn' \subseteq Button
  BY DEF AdvInv, MainStep, UICancel, UIReleased, UIIdleTimeout, UIConnectionChange,
         UIRequested, UIBluetoothButton, UILeftRight, UICenter, UIAdvertised,
         UIFinalRelease, Announce, StartProgram, ProgramAborted, ProgramClosed, BackToUI,
         Deinitialized
<1>1. CASE UICancel \/ UIReleased \/ UIIdleTimeout \/ UIRequested \/ Deinitialized
  BY <1>1, AdvQuietStep DEF UICancel, UIReleased, UIIdleTimeout, UIRequested, Deinitialized
<1>2. CASE UIConnectionChange
  BY <1>2 DEF UIConnectionChange, StartAdvertising, AdvInv, Connected, BluetoothEnabled
<1>3. CASE UIBluetoothButton
  <2>1. /\ pc' = "advertise" /\ UNCHANGED hostVars /\ btn' = btn
        /\ "bluetooth" \in btn /\ bleOn' = (Connected \/ ~bleOn)
        /\ wantAdv' = IF Connected THEN ~advertising ELSE bleOn'
    BY <1>3 DEF UIBluetoothButton, StartAdvertising
  <2>2. "bluetooth" \in Button /\ bleOn' \in BOOLEAN
    BY <2>1 DEF AdvInv
  <2>3. ~Connected' => wantAdv' = BluetoothEnabled'
    BY <2>1, <2>2 DEF Connected, hostVars, BluetoothEnabled
  <2> QED BY <2>1, <2>2, <2>3 DEF AdvInv
<1>4. CASE UILeftRight \/ \E h \in BOOLEAN : UICenter(h)
  BY <1>4, AdvQuietStep DEF UILeftRight, UICenter, UIButton
<1>5. CASE UIAdvertised
  BY <1>5 DEF UIAdvertised, AdvInv, Connected, BluetoothEnabled, hostVars
<1>6. CASE UIFinalRelease \/ Announce
  <2>1. /\ pc' \notin {"release0", "wait", "advertise"} /\ bleOn' = bleOn
        /\ UNCHANGED hostVars
    BY <1>6 DEF UIFinalRelease, Announce
  <2> QED BY <2>1 DEF AdvInv, hostVars
<1>7. CASE StartProgram \/ ProgramAborted \/ \E e \in BOOLEAN : ProgramClosed(e)
  BY <1>7, AdvQuietStep DEF StartProgram, ProgramAborted, ProgramClosed
<1>8. CASE BackToUI
  <2>1. /\ UNCHANGED bleVars
        /\ pc' = "deinit" \/ connChange'
    BY <1>8 DEF BackToUI
  <2> QED BY <2>1 DEF AdvInv, bleVars
<1> QED BY <1>1, <1>2, <1>3, <1>4, <1>5, <1>6, <1>7, <1>8 DEF MainStep

(* Connections flag a change, boot does, and the rest moves nothing. *)
LEMMA AdvOtherStep ==
    ASSUME AdvInv,
           \/ PowerStep \/ ProgramStep \/ HostStep \/ UserStep
           \/ \E long \in BOOLEAN : PollProgramStop(long)
    PROVE  AdvInv'
<1> USE DEF progVars
<1>1. CASE PowerButtonReleased \/ Unplugged
  BY <1>1, AdvQuietStep DEF PowerButtonReleased, Unplugged, AdvInv
<1>2. CASE Boot
  BY <1>2 DEF Boot, AdvInv
<1>3. CASE ProgramStep
  BY <1>3, AdvQuietStep DEF ProgramStep, ProgramEnds, ProgramTakesExit,
        ProgramResetsStorage, ProgramSetsStopButtons, AdvInv
<1>4. CASE HostConnects \/ HostDisconnects
  BY <1>4 DEF HostConnects, HostDisconnects, bleVars, AdvInv
<1>5. CASE \/ HostStop \/ HostBeginsDownload \/ HostFinishesDownload(Word)
           \/ DownloadTimesOut
           \/ \E id \in Slots \union Builtin, h \in BOOLEAN : HostStart(id, h)
  BY <1>5, AdvQuietStep DEF HostStop, HostBeginsDownload, HostFinishesDownload,
        DownloadTimesOut, HostStart, AdvInv
<1>6. CASE UserStep
  <2>1. btn' \subseteq Button /\ UNCHANGED <<pc, hostVars, bleVars>>
    BY <1>6 DEF UserStep, PressButton, ReleaseButtons, RequestShutdown, AdvInv
  <2> QED BY <2>1, AdvQuietStep
<1>7. ASSUME NEW long \in BOOLEAN, PollProgramStop(long) PROVE AdvInv'
  BY <1>7, AdvQuietStep DEF PollProgramStop, AdvInv
<1> QED BY <1>1, <1>2, <1>3, <1>4, <1>5, <1>6, <1>7 DEF PowerStep, HostStep

(* Whenever the hub waits for input without a host and without a change it  *)
(* still has to handle, it advertises exactly if Bluetooth is on: run_ui    *)
(* clears the change before it tells the radio, so none is lost meanwhile.  *)
THEOREM AdvertisesAlone == Spec => []AdvertisesWhenAlone
<1>1. AdvInv /\ [Next]_vars => AdvInv'
  <2> SUFFICES ASSUME AdvInv, [Next]_vars PROVE AdvInv'
    OBVIOUS
  <2>1. CASE UNCHANGED vars
    BY <2>1, AdvQuietStep DEF vars, AdvInv
  <2> QED BY <2>1, AdvMainStep, AdvOtherStep DEF Next
<1>2. AdvInv => AdvertisesWhenAlone
  BY DEF AdvInv, AdvertisesWhenAlone
<1> QED BY AdvInit, <1>1, <1>2, PTL DEF Spec
==============================================================================
