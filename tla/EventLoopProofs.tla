--------------------------- MODULE EventLoopProofs ---------------------------
(* Proofs about EventLoop, for any set of processes: its safety properties *)
(* and that each of its steps is a step of Wakeups.                        *)
EXTENDS EventLoop, TLAPS

(* Where the pass stands: the cursor points into the list while it walks,  *)
(* a called process stays runnable and is no longer fresh, and the flag    *)
(* cannot change between the decision to sleep and the sleep.              *)
PassOK ==
    /\ pc = "walk" => cursor \in 1..Len(list) + 1
    /\ pc = "func" => /\ cursor \in 1..Len(list)
                      /\ err[Current] = "AGAIN"
                      /\ state[Current] = 1
    /\ pc = "wfi" => ~pending

IInv ==
    /\ TypeOK
    /\ PassOK
    /\ MaskedOnlyToSleep
    /\ ListedOnce
    /\ NoLostEvent
    /\ StartedWillRun

------------------------------------------------------------------------------
(* What starting a process does to the list: it stays a list of processes, *)
(* nobody moves, p is in it, and nobody else joined.                       *)
LEMMA AddProcessKeepsList ==
    ASSUME list \in Seq(Process), NEW p \in Process, AddProcess(p)
    PROVE  /\ list' \in Seq(Process)
           /\ Len(list) <= Len(list')
           /\ \A i \in 1..Len(list) : list'[i] = list[i]
           /\ \A q \in Process : Listed(q)' <=> Listed(q) \/ q = p
           /\ (\A i, j \in 1..Len(list) : list[i] = list[j] => i = j)
                => \A i, j \in 1..Len(list') : list'[i] = list'[j] => i = j
<1>1. CASE Listed(p)
  BY <1>1 DEF AddProcess, Listed
<1>2. CASE ~Listed(p)
  <2>1. list' = Append(list, p)
    BY <1>2 DEF AddProcess
  <2>2. /\ list' \in Seq(Process)
        /\ Len(list') = Len(list) + 1
        /\ Len(list) \in Nat
        /\ \A i \in 1..Len(list) : list'[i] = list[i]
        /\ list'[Len(list) + 1] = p
    BY <2>1
  <2>3. ASSUME NEW q \in Process PROVE Listed(q)' <=> Listed(q) \/ q = p
    BY <2>2 DEF Listed
  <2>4. ASSUME \A i, j \in 1..Len(list) : list[i] = list[j] => i = j,
               NEW i \in 1..Len(list'), NEW j \in 1..Len(list'),
               list'[i] = list'[j]
        PROVE  i = j
    BY <2>2, <2>4, <1>2 DEF Listed
  <2> QED BY <2>2, <2>3, <2>4
<1> QED BY <1>1, <1>2

(* A step that changes neither the list, nor a process, nor an event, and  *)
(* does not take back a poll request or a position, loses nothing.         *)
LEMMA QuietStep ==
    ASSUME IInv, UNCHANGED <<procVars, event>>,
           TypeOK', PassOK', MaskedOnlyToSleep',
           pending => pending',
           \A p \in Process : Ahead(p) => Ahead(p)' \/ pending'
    PROVE  IInv'
<1>1. ListedOnce' /\ StartedWillRun'
  BY DEF IInv, ListedOnce, StartedWillRun, Listed, procVars
<1>2. NoLostEvent'
  BY DEF IInv, NoLostEvent, Live, Listed, procVars, TypeOK
<1> QED BY <1>1, <1>2 DEF IInv

(* Starting a process from anywhere but its own function. *)
LEMMA StartStep ==
    ASSUME IInv, NEW p \in Process, ProcessStart(p),
           pc = "user" \/ (pc = "func" /\ p # Current)
    PROVE  IInv'
<1> USE DEF IInv
<1>1. /\ list' \in Seq(Process)
      /\ Len(list) <= Len(list')
      /\ \A i \in 1..Len(list) : list'[i] = list[i]
      /\ \A q \in Process : Listed(q)' <=> Listed(q) \/ q = p
      /\ \A i, j \in 1..Len(list') : list'[i] = list'[j] => i = j
  BY AddProcessKeepsList DEF ProcessStart, TypeOK, ListedOnce
<1>2. TypeOK'
  BY <1>1 DEF TypeOK, ProcessStart, passVars, irqVars
<1>3. PassOK'
  <2>1. Len(list) \in Nat /\ Len(list') \in Nat
    BY <1>1 DEF TypeOK
  <2>2. CASE pc = "user"
    BY <2>2 DEF PassOK, ProcessStart, passVars
  <2>3. CASE pc = "func" /\ p # Current
    <3>1. cursor \in 1..Len(list) /\ cursor' = cursor /\ pc' = "func"
      BY <2>3 DEF PassOK, ProcessStart, passVars
    <3>2. cursor' \in 1..Len(list') /\ Current' = Current
      BY <3>1, <2>1, <1>1 DEF Current
    <3>3. err'[Current] = err[Current] /\ state'[Current] = state[Current]
      BY <2>3 DEF ProcessStart, TypeOK
    <3> QED BY <2>3, <3>1, <3>2, <3>3 DEF PassOK
  <2> QED BY <2>2, <2>3
<1>4. MaskedOnlyToSleep'
  BY DEF MaskedOnlyToSleep, ProcessStart, passVars, irqVars
<1>5. ListedOnce'
  BY <1>1 DEF ListedOnce, ProcessStart, TypeOK
<1>6. NoLostEvent'
  BY DEF NoLostEvent, ProcessStart
<1>7. StartedWillRun'
  BY <1>1 DEF StartedWillRun, ProcessStart, TypeOK
<1> QED BY <1>2, <1>3, <1>4, <1>5, <1>6, <1>7

(* A request or an event of p, with its poll request. *)
LEMMA RequestStep ==
    ASSUME IInv, NEW p \in Process, MakeRequest(p) \/ RequestPoll(p),
           pc \in {"user", "func"}
    PROVE  IInv'
<1> USE DEF IInv, MakeRequest, RequestPoll, procVars, passVars, irqVars
<1>1. TypeOK'
  BY DEF TypeOK
<1>2. PassOK' /\ MaskedOnlyToSleep'
  BY DEF PassOK, MaskedOnlyToSleep, Current
<1>3. ListedOnce' /\ StartedWillRun'
  BY DEF ListedOnce, StartedWillRun, Listed
<1>4. NoLostEvent'
  BY DEF NoLostEvent
<1> QED BY <1>1, <1>2, <1>3, <1>4
------------------------------------------------------------------------------
(* The invariant holds at boot.                                            *)
LEMMA InitIInv == Init => IInv
<1> SUFFICES ASSUME Init PROVE IInv
  OBVIOUS
<1>0. <<>> \in Seq(Process) /\ Len(<<>>) = 0
  OBVIOUS
<1>1. TypeOK
  <2>1. 0 \in 0..Len(list) + 1
    BY <1>0 DEF Init
  <2> QED BY <1>0, <2>1 DEF Init, TypeOK, Location, Caller
<1>2. PassOK /\ MaskedOnlyToSleep /\ NoLostEvent
  BY DEF Init, PassOK, MaskedOnlyToSleep, NoLostEvent
<1>3. \A p \in Process : ~Listed(p)
  <2> SUFFICES ASSUME NEW p \in Process, NEW i \in 1..Len(list) PROVE FALSE
    BY DEF Listed
  <2> QED BY <1>0 DEF Init
<1>4. ListedOnce /\ StartedWillRun
  BY <1>3 DEF Init, ListedOnce, StartedWillRun
<1> QED BY <1>1, <1>2, <1>4 DEF IInv

(* Each step of the loop and of interrupts keeps it.                       *)
LEMMA NextIInv == IInv /\ [Next]_vars => IInv'
<1> SUFFICES ASSUME IInv, [Next]_vars PROVE IInv'
  OBVIOUS
<1> USE DEF procVars, irqVars, passVars
<1>l. Len(list) \in Nat /\ \A p \in Process : Listed(p) <=> \E i \in 1..Len(list) : list[i] = p
  BY DEF IInv, TypeOK, Listed
<1>1. CASE TestFlag
  <2>1. TypeOK' /\ PassOK' /\ MaskedOnlyToSleep'
    BY <1>1 DEF IInv, TypeOK, PassOK, MaskedOnlyToSleep, TestFlag, ReturnFromOnce, Location
  <2>2. \A p \in Process : ~Ahead(p)
    BY <1>1 DEF TestFlag, Ahead
  <2> QED BY <1>1, <2>1, <2>2, QuietStep DEF TestFlag, ReturnFromOnce
<1>2. CASE ClearFlag
  <2>1. TypeOK' /\ PassOK' /\ MaskedOnlyToSleep'
    <3>2. 1 \in 1..Len(list) + 1 /\ 1 \in 0..Len(list) + 1
      BY <1>l
    <3>1. TypeOK'
      BY <1>2, <3>2 DEF IInv, TypeOK, ClearFlag, Location
    <3>3. PassOK' /\ MaskedOnlyToSleep'
      BY <1>2, <3>2 DEF IInv, PassOK, MaskedOnlyToSleep, ClearFlag
    <3> QED BY <3>1, <3>3
  <2>2. ListedOnce' /\ StartedWillRun'
    BY <1>2 DEF IInv, ListedOnce, StartedWillRun, Listed, ClearFlag
  <2>3. NoLostEvent'
    BY <1>2 DEF IInv, NoLostEvent, Live, Listed, Ahead, ClearFlag
  <2> QED BY <2>1, <2>2, <2>3 DEF IInv
<1>3. CASE SkipProcess
  <2>1. TypeOK' /\ PassOK' /\ MaskedOnlyToSleep'
    BY <1>3, <1>l DEF IInv, TypeOK, PassOK, MaskedOnlyToSleep, SkipProcess
  <2>2. ListedOnce' /\ StartedWillRun'
    BY <1>3 DEF IInv, ListedOnce, StartedWillRun, Listed, SkipProcess
  <2>3. NoLostEvent'
    BY <1>3 DEF IInv, TypeOK, NoLostEvent, Live, Listed, Ahead, SkipProcess, Current
  <2> QED BY <2>1, <2>2, <2>3 DEF IInv
<1>4. CASE CallProcess
  <2>0. Current \in Process /\ cursor \in 1..Len(list) /\ Listed(Current)
    BY <1>4, <1>l DEF IInv, TypeOK, PassOK, CallProcess, Current, Listed
  <2>1. TypeOK' /\ PassOK' /\ MaskedOnlyToSleep'
    BY <1>4, <2>0 DEF IInv, TypeOK, PassOK, MaskedOnlyToSleep, CallProcess, Location, Current
  <2>2. ListedOnce' /\ StartedWillRun'
    BY <1>4, <2>0 DEF IInv, TypeOK, ListedOnce, StartedWillRun, Listed, CallProcess
  <2>3. NoLostEvent'
    BY <1>4, <2>0 DEF IInv, TypeOK, NoLostEvent, Live, Listed, Ahead, CallProcess, Current
  <2> QED BY <2>1, <2>2, <2>3 DEF IInv
<1>5. ASSUME NEW r \in {"AGAIN", "DONE"}, FuncReturn(r) PROVE IInv'
  <2>0. Current \in Process /\ cursor \in 1..Len(list)
    BY <1>5, <1>l DEF IInv, TypeOK, PassOK, FuncReturn, Current
  <2>1. TypeOK' /\ PassOK' /\ MaskedOnlyToSleep'
    BY <1>5, <1>l, <2>0 DEF IInv, TypeOK, PassOK, MaskedOnlyToSleep, FuncReturn, Location
  <2>2. ListedOnce'
    BY <1>5, <2>0 DEF IInv, TypeOK, ListedOnce, Listed, FuncReturn, Current
  <2>3. StartedWillRun'
    BY <1>5, <2>0 DEF IInv, TypeOK, PassOK, StartedWillRun, Listed, FuncReturn
  <2>4. NoLostEvent'
    <3> SUFFICES ASSUME NEW p \in event, Live(p)', ~pending PROVE Ahead(p)'
      BY <1>5 DEF NoLostEvent, FuncReturn
    <3>1. CASE p = Current
      BY <1>5, <2>0, <3>1 DEF IInv, NoLostEvent, FuncReturn, PassOK, Live, Listed,
                              Ahead, ListedOnce, Current
    <3>2. CASE p # Current
      <4>1. Live(p)
        BY <1>5, <3>2 DEF IInv, TypeOK, Live, Listed, FuncReturn
      <4>2. PICK i \in 1..Len(list) : list[i] = p /\ cursor < i
        BY <1>5, <4>1 DEF IInv, NoLostEvent, Ahead, FuncReturn
      <4>3. cursor + 1 <= i
        BY <4>2, <2>0, <1>l
      <4> QED BY <1>5, <4>2, <4>3 DEF FuncReturn, Ahead
    <3> QED BY <3>1, <3>2
  <2> QED BY <2>1, <2>2, <2>3, <2>4 DEF IInv
<1>6. CASE EndOfPass
  <2>1. TypeOK' /\ PassOK' /\ MaskedOnlyToSleep'
    <3>1. pc' \in {"user", "test", "disable"} /\ pc = "walk"
      BY <1>6 DEF EndOfPass, ReturnFromOnce
    <3>2. TypeOK'
      BY <1>6, <3>1 DEF IInv, TypeOK, EndOfPass, ReturnFromOnce, Location
    <3>3. PassOK' /\ MaskedOnlyToSleep'
      BY <1>6, <3>1 DEF IInv, PassOK, MaskedOnlyToSleep, EndOfPass, ReturnFromOnce
    <3> QED BY <3>2, <3>3
  <2>2. \A p \in Process : ~Ahead(p)
    BY <1>6, <1>l DEF EndOfPass, Ahead, IInv, PassOK
  <2> QED BY <1>6, <2>1, <2>2, QuietStep DEF EndOfPass, ReturnFromOnce
<1>7. CASE DisableIrq \/ DecideToSleep \/ WakeUp \/ EnableIrq
  <2>1. TypeOK' /\ PassOK' /\ MaskedOnlyToSleep'
    <3>1. CASE DisableIrq
      BY <3>1 DEF IInv, TypeOK, PassOK, MaskedOnlyToSleep, Location, DisableIrq
    <3>2. CASE DecideToSleep
      BY <3>2 DEF IInv, TypeOK, PassOK, MaskedOnlyToSleep, Location, DecideToSleep
    <3>3. CASE WakeUp
      BY <3>3 DEF IInv, TypeOK, PassOK, MaskedOnlyToSleep, Location, WakeUp
    <3>4. CASE EnableIrq
      BY <3>4 DEF IInv, TypeOK, PassOK, MaskedOnlyToSleep, Location, EnableIrq
    <3> QED BY <1>7, <3>1, <3>2, <3>3, <3>4
  <2>2. \A p \in Process : ~Ahead(p)
    BY <1>7 DEF Ahead, DisableIrq, DecideToSleep, WakeUp, EnableIrq
  <2> QED BY <1>7, <2>1, <2>2, QuietStep DEF DisableIrq, DecideToSleep, WakeUp, EnableIrq
<1>8. ASSUME NEW c \in Caller, UserRunsLoop(c) PROVE IInv'
  <2>1. TypeOK' /\ PassOK' /\ MaskedOnlyToSleep'
    BY <1>8 DEF IInv, TypeOK, PassOK, MaskedOnlyToSleep, UserRunsLoop, Location
  <2>2. \A p \in Process : ~Ahead(p)
    BY <1>8 DEF UserRunsLoop, Ahead
  <2> QED BY <1>8, <2>1, <2>2, QuietStep DEF UserRunsLoop
<1>9. ASSUME NEW p \in Process, UserStart(p) \/ FuncStart(p) PROVE IInv'
  BY <1>9, StartStep DEF UserStart, FuncStart
<1>10. ASSUME NEW p \in Process, UserRequest(p) \/ FuncRequest(p) \/ FuncPoll(p)
       PROVE IInv'
  BY <1>10, RequestStep DEF UserRequest, FuncRequest, FuncPoll
<1>11. ASSUME NEW s \in Source, RaiseInterrupt(s) PROVE IInv'
  <2>1. TypeOK' /\ PassOK' /\ MaskedOnlyToSleep'
    BY <1>11 DEF IInv, TypeOK, PassOK, MaskedOnlyToSleep, RaiseInterrupt, Current
  <2>2. \A p \in Process : Ahead(p) => Ahead(p)'
    BY <1>11 DEF RaiseInterrupt, Ahead
  <2> QED BY <1>11, <2>1, <2>2, QuietStep DEF RaiseInterrupt
<1>12. ASSUME NEW s \in Source, InterruptHandler(s) PROVE IInv'
  <2>1. TypeOK' /\ PassOK' /\ MaskedOnlyToSleep'
    BY <1>12 DEF IInv, TypeOK, PassOK, MaskedOnlyToSleep, InterruptHandler, Current
  <2>2. ListedOnce' /\ StartedWillRun'
    BY <1>12 DEF IInv, ListedOnce, StartedWillRun, Listed, InterruptHandler
  <2>3. NoLostEvent'
    BY <1>12 DEF NoLostEvent, InterruptHandler
  <2> QED BY <2>1, <2>2, <2>3 DEF IInv
<1>13. CASE UNCHANGED vars
  <2>1. TypeOK' /\ PassOK' /\ MaskedOnlyToSleep'
    BY <1>13 DEF IInv, TypeOK, PassOK, MaskedOnlyToSleep, vars, Current
  <2>2. \A p \in Process : Ahead(p) => Ahead(p)'
    BY <1>13 DEF vars, Ahead
  <2> QED BY <1>13, <2>1, <2>2, QuietStep DEF vars
<1> QED
  BY <1>1, <1>2, <1>3, <1>4, <1>5, <1>6, <1>7, <1>8, <1>9, <1>10, <1>11, <1>12, <1>13
  DEF Next, LoopStep, UserStep, FuncStep

(* So it always holds.                                                     *)
LEMMA Inductive == Spec => []IInv
BY InitIInv, NextIInv, PTL DEF Spec

------------------------------------------------------------------------------
(* The variables of the loop keep their types (os.c). *)
THEOREM TypeCorrect == Spec => []TypeOK
BY Inductive, PTL DEF IInv

(* No event of a runnable process is lost, whatever interrupts, starts and *)
(* requests arrive during a pass (pbio_os_run_processes_once).             *)
THEOREM NoEventIsLost == Spec => []NoLostEvent
BY Inductive, PTL DEF IInv

(* The core does not wait for an interrupt while there is work to do       *)
(* (pbio_os_run_processes_and_wait_for_event).                             *)
THEOREM NeverSleepsOnWork == Spec => []SleepsOnlyWhenIdle
<1>1. IInv => SleepsOnlyWhenIdle
  BY DEF IInv, PassOK, NoLostEvent, SleepsOnlyWhenIdle, Ahead
<1> QED BY <1>1, Inductive, PTL

(* One pass calls a process at most once, and leaves none out that was     *)
(* started (add_process).                                                  *)
THEOREM ProcessesListedOnce == Spec => []ListedOnce
BY Inductive, PTL DEF IInv

(* A start during a pass is not forgotten (pbio_os_process_start).         *)
THEOREM StartIsNotForgotten == Spec => []StartedWillRun
BY Inductive, PTL DEF IInv

------------------------------------------------------------------------------
(* The steps of the loop are steps of Wakeups: a process is served exactly *)
(* when its function is entered, and only starts and returns change which  *)
(* processes are live.                                                     *)
LEMMA StepRefinement == IInv /\ [Next]_vars => [Promise!Next]_(Promise!vars)
<1> SUFFICES ASSUME IInv, [Next]_vars PROVE [Promise!Next]_(Promise!vars)
  OBVIOUS
<1> USE DEF procVars, irqVars, passVars
<1>t. err \in [Process -> {"AGAIN", "DONE"}] /\ event \subseteq Process
  BY DEF IInv, TypeOK
<1>1. CASE UNCHANGED <<err, event>>
  BY <1>1 DEF Promise!vars
<1>2. ASSUME NEW p \in Process, ProcessStart(p)
      PROVE Promise!Start(p)
  BY <1>2, <1>t DEF ProcessStart, Promise!Start
<1>3. ASSUME NEW p \in Process, MakeRequest(p) \/ RequestPoll(p)
      PROVE Promise!Signal(p)
  BY <1>3 DEF MakeRequest, RequestPoll, Promise!Signal
<1>4. CASE CallProcess
  <2>1. Current \in Process
    BY <1>4 DEF IInv, TypeOK, PassOK, CallProcess, Current
  <2>2. CASE Current \in event
    <3>1. Promise!Serve(Current)
      BY <1>4, <2>1, <2>2 DEF CallProcess, Promise!Serve
    <3> QED BY <2>1, <3>1 DEF Promise!Next
  <2>3. CASE Current \notin event
    BY <1>4, <2>3, <1>1 DEF CallProcess
  <2> QED BY <2>2, <2>3
<1>5. ASSUME NEW r \in {"AGAIN", "DONE"}, FuncReturn(r)
      PROVE [Promise!Next]_(Promise!vars)
  <2>1. Current \in Process /\ err[Current] = "AGAIN"
    BY <1>5 DEF IInv, TypeOK, PassOK, FuncReturn, Current
  <2>2. CASE r = "AGAIN"
    <3>1. err' = err
      BY <1>5, <1>t, <2>1, <2>2 DEF FuncReturn
    <3> QED BY <1>5, <1>1, <3>1 DEF FuncReturn
  <2>3. CASE r = "DONE"
    <3>1. PICK p \in Process : p = Current
      BY <2>1
    <3>2. Promise!Finish(p)
      BY <1>5, <1>t, <2>1, <2>3, <3>1 DEF FuncReturn, Promise!Finish
    <3> QED BY <3>2 DEF Promise!Next
  <2> QED BY <2>2, <2>3
<1>6. ASSUME NEW s \in Source, InterruptHandler(s)
      PROVE [Promise!Next]_(Promise!vars)
  <2>1. CASE s \in Process
    <3>1. Promise!Signal(s)
      BY <1>6, <2>1 DEF InterruptHandler, Promise!Signal
    <3> QED BY <2>1, <3>1 DEF Promise!Next
  <2>2. CASE s \notin Process
    BY <1>6, <2>2, <1>1 DEF InterruptHandler
  <2> QED BY <2>1, <2>2
<1>7. ASSUME NEW p \in Process,
             UserStart(p) \/ FuncStart(p) \/ UserRequest(p) \/ FuncRequest(p) \/ FuncPoll(p)
      PROVE Promise!Next
  BY <1>2, <1>3, <1>7
     DEF UserStart, FuncStart, UserRequest, FuncRequest, FuncPoll, Promise!Next
<1>8. CASE LoopStep
  <2>1. CASE \/ TestFlag \/ ClearFlag \/ SkipProcess \/ EndOfPass
             \/ DisableIrq \/ DecideToSleep \/ WakeUp \/ EnableIrq
    BY <2>1, <1>1 DEF TestFlag, ClearFlag, SkipProcess, EndOfPass, ReturnFromOnce,
                      DisableIrq, DecideToSleep, WakeUp, EnableIrq
  <2> QED BY <1>8, <2>1, <1>4, <1>5 DEF LoopStep
<1>9. CASE UserStep
  BY <1>9, <1>1, <1>7 DEF UserStep, UserRunsLoop
<1>10. ASSUME NEW s \in Source, RaiseInterrupt(s) \/ InterruptHandler(s)
       PROVE [Promise!Next]_(Promise!vars)
  BY <1>10, <1>1, <1>6 DEF RaiseInterrupt
<1>11. CASE UNCHANGED vars
  BY <1>11, <1>1 DEF vars
<1> QED BY <1>7, <1>8, <1>9, <1>10, <1>11 DEF Next, FuncStep

(* The event loop implements the safety part of Wakeups; its liveness is   *)
(* left to TLC.                                                            *)
THEOREM LoopImplementsWakeups == Spec => Promise!Init /\ [][Promise!Next]_(Promise!vars)
<1>1. Init => Promise!Init
  BY DEF Init, Promise!Init
<1> QED BY <1>1, Inductive, StepRefinement, PTL DEF Spec
==============================================================================
