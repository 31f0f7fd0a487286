--------------------------- MODULE AwaitablesProofs ---------------------------
(* Proofs about Awaitables, for any devices, number of coroutines and      *)
(* memory: a coroutine awaits its own operation, what a cancelled one      *)
(* waited for is stopped, and nothing that was started since, and who is   *)
(* left when a collection ends.                                            *)
EXTENDS Awaitables, FiniteSetTheorems, TLAPS

USE DEF loopVars, coroVars, asyncVars, devVars, Coroutine

------------------------------------------------------------------------------
(* Types *)

(* Telling an awaitable that it was superseded keeps the type of parent_obj. *)
LEMMA ScheduleStopType ==
    ASSUME TypeOK, NEW o \in Object \union {NoObject}
    PROVE  /\ ScheduleStop(o) \in [Object -> Device \union {"NULL", "SENTINEL", "wait", "yield"}]
           /\ \A x \in Object :
                 /\ ScheduleStop(o)[x] = "NULL" <=> parent[x] = "NULL"
                 /\ x # o => ScheduleStop(o)[x] = parent[x]
                 /\ ScheduleStop(o)[x] \in {parent[x], "SENTINEL"}
                 /\ x = o => ScheduleStop(o)[x] \in {"NULL", "SENTINEL"}
BY AwaitablesAssumption DEF TypeOK, ScheduleStop

(* Which devices an operation drives keeps its type.                       *)
LEMMA DrivesType ==
    ASSUME TypeOK, NEW d \in Device, NEW doing \in Doing, Drives(d, doing)
    PROVE  /\ hw' \in [Device -> [doing : Doing, op : 0..MaxOps]]
           /\ ops' = ops + 1 /\ ops' \in 0..MaxOps
           /\ \A e \in Device : e # d => hw'[e] = hw[e]
           /\ hw'[d].op = ops + 1
BY AwaitablesAssumption DEF TypeOK, Drives

(* Stopping devices keeps their type.                                      *)
LEMMA StoppedType ==
    ASSUME TypeOK, NEW d \in Device, Stopped(d)
    PROVE  /\ hw' \in [Device -> [doing : Doing, op : 0..MaxOps]]
           /\ \A e \in Device : hw'[e].op = hw[e].op
           /\ \A e \in Device : e # d => hw'[e] = hw[e]
           /\ hw'[d].doing = "idle"
BY DEF TypeOK, Stopped, Doing, Controlled

(* Going to the next task of the collection keeps the types.               *)
LEMMA AdvanceType ==
    ASSUME TypeOK, NEW done, Advance(done)
    PROVE  pc' \in Location /\ cur' \in Coroutine /\ required' \in {1, N} /\ failing' \in BOOLEAN
BY DEF TypeOK, Advance, First, Location

(* Beginning to close tasks keeps the types.                               *)
LEMMA CloseAllType ==
    ASSUME TypeOK, NEW error \in BOOLEAN, CloseAll(error)
    PROVE  pc' \in Location /\ cur' \in Coroutine /\ required' \in {1, N} /\ failing' \in BOOLEAN
BY AwaitablesAssumption DEF TypeOK, CloseAll, Location

(* Going on after a task was closed keeps the types.                       *)
LEMMA AfterCloseType ==
    ASSUME TypeOK, AfterClose
    PROVE  pc' \in Location /\ cur' \in Coroutine /\ required' \in {1, N} /\ failing' \in BOOLEAN
BY AwaitablesAssumption DEF TypeOK, AfterClose, Location

(* The program starts with values of the right types.                      *)
LEMMA TypeInit == Init => TypeOK
<1> SUFFICES ASSUME Init PROVE TypeOK
  OBVIOUS
<1> 0 \in 0..MaxOps /\ 1 \in 1..N
  BY AwaitablesAssumption
<1>1. /\ failing \in BOOLEAN /\ connected \in [Device -> BOOLEAN]
      /\ pc \in Location /\ cur \in Coroutine /\ required \in {1, N}
  BY DEF Init, Location
<1>2. /\ status \in [Coroutine -> Status]
      /\ obj \in [Coroutine -> Object \union {NoObject}]
      /\ want \in [Coroutine -> 0..MaxOps]
  BY DEF Init, Status
<1>3. /\ parent \in [Object -> Device \union {"NULL", "SENTINEL", "wait", "yield"}]
      /\ op \in [Object -> 0..MaxOps]
      /\ prev \in [Device -> Object \union {NoObject}]
  BY DEF Init
<1>4. hw \in [Device -> [doing : Doing, op : 0..MaxOps]] /\ ops \in 0..MaxOps
  BY DEF Init, Doing, Controlled
<1> QED BY <1>1, <1>2, <1>3, <1>4 DEF TypeOK

(* Steps that leave the devices alone. *)
LEMMA TypeIterate == ASSUME TypeOK, Iterate PROVE TypeOK'
<1> PICK c \in Coroutine : \/ IterateStopped(c) \/ IterateOnce(c) \/ IterateAgain(c)
                           \/ IterateDone(c) \/ IterateFails(c)
  BY DEF Iterate
<1> obj[c] \in Object \union {NoObject}
  BY DEF TypeOK
<1>1. CASE IterateStopped(c) \/ IterateDone(c) \/ IterateFails(c)
  <2>1. /\ UNCHANGED <<loopVars, op, prev, devVars, ops>>
        /\ status' = [status EXCEPT ![c] = "running"]
        /\ obj' = [obj EXCEPT ![c] = NoObject] /\ want' = [want EXCEPT ![c] = 0]
        /\ parent' = parent \/ parent' = [parent EXCEPT ![obj[c]] = "NULL"]
    BY <1>1 DEF IterateStopped, IterateDone, IterateFails, Resume
  <2>2. status' \in [Coroutine -> Status]
    BY <2>1 DEF TypeOK, Status
  <2>3. obj' \in [Coroutine -> Object \union {NoObject}]
    BY <2>1 DEF TypeOK
  <2>4. want' \in [Coroutine -> 0..MaxOps]
    BY <2>1, AwaitablesAssumption DEF TypeOK
  <2>5. parent' \in [Object -> Device \union {"NULL", "SENTINEL", "wait", "yield"}]
    BY <2>1 DEF TypeOK
  <2> QED BY <2>1, <2>2, <2>3, <2>4, <2>5 DEF TypeOK
<1>2. CASE IterateOnce(c) \/ IterateAgain(c)
  <2>1. /\ pc' \in Location /\ cur' \in Coroutine /\ required' \in {1, N}
        /\ failing' \in BOOLEAN
    BY <1>2, AdvanceType DEF IterateOnce, IterateAgain
  <2>2. parent' \in [Object -> Device \union {"NULL", "SENTINEL", "wait", "yield"}]
    BY <1>2, ScheduleStopType DEF IterateOnce, IterateAgain, TypeOK
  <2> QED BY <1>2, <2>1, <2>2 DEF TypeOK, IterateOnce, IterateAgain
<1> QED BY <1>1, <1>2

(* Closing a task keeps the types.                                         *)
LEMMA TypeClose == ASSUME TypeOK, Close PROVE TypeOK'
<1> PICK c \in Coroutine :
         CloseFinished(c) \/ CloseUnstarted(c) \/ CloseAwaiting(c) \/ CloseRaises(c)
  BY DEF Close
<1> obj[c] \in Object \union {NoObject}
  BY DEF TypeOK
<1>1. CASE CloseFinished(c) \/ CloseUnstarted(c)
  BY <1>1, AfterCloseType DEF TypeOK, CloseFinished, CloseUnstarted, Status
<1>2. CASE CloseAwaiting(c)
  <2>1. hw' \in [Device -> [doing : Doing, op : 0..MaxOps]]
    BY <1>2, StoppedType DEF CloseAwaiting, TypeOK
  <2> QED BY <1>2, <2>1, AfterCloseType, AwaitablesAssumption
          DEF TypeOK, CloseAwaiting, Status
<1>3. CASE CloseRaises(c)
  <2>1. /\ pc' \in Location /\ cur' \in Coroutine /\ required' \in {1, N}
        /\ failing' \in BOOLEAN
    BY <1>3, CloseAllType DEF CloseRaises, TypeOK, Location
  <2> QED BY <1>3, <2>1, ScheduleStopType DEF TypeOK, CloseRaises, Status
<1> QED BY <1>1, <1>2, <1>3

(* A turn that goes on, and the next round, keep the types.                *)
LEMMA TypeTurn == ASSUME TypeOK, TurnGoesOn \/ NextRound PROVE TypeOK'
<1>1. CASE FirstTurn
  BY <1>1 DEF TypeOK, FirstTurn, Status
<1>2. CASE NextRound
  BY <1>2 DEF TypeOK, NextRound, First, Location
<1>3. ASSUME NEW c \in Coroutine, Await(c) PROVE TypeOK'
  BY <1>3 DEF TypeOK, Await, Status
<1>4. ASSUME NEW c \in Coroutine, Return(c) \/ Raise(c) PROVE TypeOK'
  <2>1. /\ pc' \in Location /\ cur' \in Coroutine /\ required' \in {1, N}
        /\ failing' \in BOOLEAN
    BY <1>4, AdvanceType, CloseAllType DEF Return, Raise
  <2>2. /\ status' \in [Coroutine -> Status] /\ obj' = [obj EXCEPT ![c] = NoObject]
        /\ want' = [want EXCEPT ![c] = 0] /\ UNCHANGED <<asyncVars, devVars, ops>>
    BY <1>4 DEF TypeOK, Return, Raise, Status
  <2> QED BY <2>1, <2>2, AwaitablesAssumption DEF TypeOK
<1> QED BY <1>1, <1>2, <1>3, <1>4 DEF TurnGoesOn

(* The object of a new operation is one that no coroutine holds, or the    *)
(* candidate, which is free.                                               *)
LEMMA TakesType ==
    ASSUME TypeOK, NEW o \in Object, NEW candidate \in Object \union {NoObject},
           Takes(candidate, o)
    PROVE  parent[o] = "NULL" \/ \A c \in Coroutine : obj[c] # o
BY ScheduleStopType DEF Takes, Reachable, TypeOK

(* A turn that starts an operation keeps the types.                        *)
LEMMA TypeStarts == ASSUME TypeOK, Starts PROVE TypeOK'
<1>1. ASSUME NEW c \in Coroutine, NEW o \in Object, NEW d \in Device, StartOperation(c, d, o)
      PROVE  TypeOK'
  <2>1. /\ hw' \in [Device -> [doing : Doing, op : 0..MaxOps]] /\ ops' \in 0..MaxOps
    BY <1>1, DrivesType DEF StartOperation, Doing, Controlled
  <2>2. ScheduleStop(prev[d]) \in
            [Object -> Device \union {"NULL", "SENTINEL", "wait", "yield"}]
    BY ScheduleStopType DEF TypeOK
  <2> QED BY <1>1, <2>1, <2>2 DEF TypeOK, StartOperation
<1>2. ASSUME NEW c \in Coroutine, NEW o \in Object, NEW kind \in {"wait", "yield"},
             StartWait(c, kind, o)
      PROVE  TypeOK'
  BY <1>2, AwaitablesAssumption DEF TypeOK, StartWait
<1> QED BY <1>1, <1>2 DEF Starts

(* A command to a device keeps the types.                                  *)
LEMMA CommandType ==
    ASSUME TypeOK, NEW d \in Device, Command(d)
    PROVE  /\ hw' \in [Device -> [doing : Doing, op : 0..MaxOps]] /\ ops' \in 0..MaxOps
           /\ parent' \in [Object -> Device \union {"NULL", "SENTINEL", "wait", "yield"}]
           /\ UNCHANGED <<loopVars, coroVars, op, prev, connected>>
<1> prev[d] \in Object \union {NoObject}
  BY DEF TypeOK
<1>1. CASE RunForever(d)
  BY <1>1, DrivesType, ScheduleStopType DEF RunForever, Doing, Controlled
<1>2. CASE StartWithoutWaiting(d) \/ DirectCommand(d)
  BY <1>2, DrivesType DEF StartWithoutWaiting, DirectCommand, Doing, Controlled, TypeOK
<1>3. CASE StopCommand(d)
  BY <1>3, StoppedType, ScheduleStopType DEF StopCommand, TypeOK
<1> QED BY <1>1, <1>2, <1>3 DEF Command

(* What the program does outside of a collection keeps the types.          *)
LEMMA TypeProgram == ASSUME TypeOK, Program PROVE TypeOK'
<1>1. ASSUME NEW d \in Device, CoroutineCommands(d) \/ ProgramCommands(d) PROVE TypeOK'
  BY <1>1, CommandType DEF TypeOK, CoroutineCommands, ProgramCommands
<1>2. ASSUME NEW d \in Device, ProgramOperates(d) PROVE TypeOK'
  BY <1>2, DrivesType DEF TypeOK, ProgramOperates, Doing, Controlled, Location
<1>3. CASE ProgramUnblocked \/ ProgramInterrupted
  BY <1>3 DEF TypeOK, ProgramUnblocked, ProgramInterrupted, Location
<1>4. ASSUME NEW race \in BOOLEAN, RunTask(race) PROVE TypeOK'
  <2>1. /\ failing' \in BOOLEAN /\ required' \in {1, N} /\ pc' \in Location /\ cur' \in Coroutine
    <3>1. required' \in {1, N} /\ pc' \in Location /\ cur' \in Coroutine
      BY <1>4, AwaitablesAssumption DEF RunTask, Location
    <3> QED BY <1>4, <3>1 DEF RunTask
  <2>2. /\ status' \in [Coroutine -> Status]
        /\ obj' \in [Coroutine -> Object \union {NoObject}]
        /\ want' \in [Coroutine -> 0..MaxOps] /\ UNCHANGED <<asyncVars, devVars, ops>>
    BY <1>4, AwaitablesAssumption DEF RunTask, Status
  <2> QED BY <2>1, <2>2 DEF TypeOK
<1>5. CASE RunLoopInterrupted
  BY <1>5 DEF TypeOK, RunLoopInterrupted, Location, Status
<1> QED BY <1>1, <1>2, <1>3, <1>4, <1>5 DEF Program

(* The steps of devices keep the types.                                    *)
LEMMA TypeDevice ==
    ASSUME TypeOK, NEW d \in Device, OperationCompletes(d) \/ Unplugged(d) PROVE TypeOK'
BY StoppedType DEF TypeOK, OperationCompletes, Unplugged

(* Every variable keeps its type. *)
THEOREM TypeCorrect == Spec => []TypeOK
<1>1. TypeOK /\ [Next]_vars => TypeOK'
  <2> SUFFICES ASSUME TypeOK, [Next]_vars PROVE TypeOK'
    OBVIOUS
  <2>1. CASE UNCHANGED vars
    BY <2>1 DEF TypeOK, vars
  <2> QED BY <2>1, TypeIterate, TypeClose, TypeTurn, TypeStarts, TypeProgram, TypeDevice
          DEF Next
<1> QED BY TypeInit, <1>1, PTL DEF Spec

------------------------------------------------------------------------------
(* No awaitable object is handed out twice. The property is not inductive: *)
(* two coroutines that held the same object could disagree about it later, *)
(* and a coroutine that awaited nothing could exhaust any object.          *)

HoldsAlone ==
    \A c, e \in Coroutine : c # e /\ obj[c] # NoObject => obj[e] # obj[c]

AwaitingHolds == \A c \in Coroutine : status[c] = "awaiting" => obj[c] # NoObject

HInv == TypeOK /\ AwaitsOwnOperation /\ HoldsAlone /\ AwaitingHolds

(* A step that hands out no object: those that remain held are the same    *)
(* and not exhausted.                                                      *)
Keeps ==
    /\ op' = op
    /\ \A c \in Coroutine :
          \/ obj'[c] = NoObject
          \/ obj'[c] = obj[c] /\ want'[c] = want[c] /\ parent'[obj[c]] # "NULL"
    /\ \A c \in Coroutine : status'[c] = "awaiting" => obj'[c] # NoObject

(* A step that hands out no object keeps the invariant.                    *)
LEMMA KeepsHolding == ASSUME HInv, TypeOK', Keeps PROVE HInv'
<1>1. AwaitsOwnOperation'
  BY DEF HInv, AwaitsOwnOperation, Keeps
<1>2. HoldsAlone' /\ AwaitingHolds'
  BY DEF HInv, HoldsAlone, AwaitingHolds, Keeps
<1> QED BY <1>1, <1>2 DEF HInv

(* So does one in which the coroutines do nothing and no object becomes    *)
(* exhausted.                                                              *)
LEMMA IdleKeepsHolding ==
    ASSUME HInv, TypeOK', UNCHANGED <<status, obj, want, op>>,
           \A x \in Object : parent'[x] = "NULL" <=> parent[x] = "NULL"
    PROVE  HInv'
<1>1. \A c \in Coroutine : obj[c] \in Object \union {NoObject}
  BY DEF HInv, TypeOK
<1>2. \A c \in Coroutine : obj[c] # NoObject => parent[obj[c]] # "NULL"
  BY DEF HInv, AwaitsOwnOperation
<1>3. Keeps
  BY <1>1, <1>2 DEF Keeps, HInv, AwaitingHolds
<1> QED BY <1>3, KeepsHolding

(* Nobody holds anything at the start.                                     *)
LEMMA HoldingInit == Init => HInv
BY TypeInit DEF Init, HInv, AwaitsOwnOperation, HoldsAlone, AwaitingHolds

(* Iterating an awaitable hands out no object.                             *)
LEMMA HoldingIterate == ASSUME HInv, Iterate PROVE HInv'
<1> PICK c \in Coroutine : \/ IterateStopped(c) \/ IterateOnce(c) \/ IterateAgain(c)
                           \/ IterateDone(c) \/ IterateFails(c)
  BY DEF Iterate
<1> TypeOK /\ TypeOK' /\ obj[c] \in Object
  BY TypeIterate DEF HInv, TypeOK, AwaitingHolds, Iterating, IterateStopped, IterateOnce,
                     IterateAgain, IterateDone, IterateFails
<1>1. CASE IterateStopped(c) \/ IterateDone(c) \/ IterateFails(c)
  <2>1. /\ op' = op /\ status' = [status EXCEPT ![c] = "running"]
        /\ obj' = [obj EXCEPT ![c] = NoObject] /\ want' = [want EXCEPT ![c] = 0]
        /\ parent' = parent \/ parent' = [parent EXCEPT ![obj[c]] = "NULL"]
    BY <1>1 DEF IterateStopped, IterateDone, IterateFails, Resume
  <2>2. ASSUME NEW e \in Coroutine, e # c
        PROVE  /\ obj'[e] = obj[e] /\ want'[e] = want[e] /\ status'[e] = status[e]
               /\ obj[e] # NoObject => parent'[obj[e]] # "NULL"
    <3>1. obj'[e] = obj[e] /\ want'[e] = want[e] /\ status'[e] = status[e]
      BY <2>1, <2>2 DEF TypeOK
    <3>2. ASSUME obj[e] # NoObject PROVE parent'[obj[e]] # "NULL"
      <4>1. obj[e] \in Object /\ obj[e] # obj[c] /\ parent[obj[e]] # "NULL"
        BY <2>2, <3>2 DEF HInv, HoldsAlone, AwaitsOwnOperation, TypeOK
      <4> QED BY <2>1, <4>1 DEF TypeOK
    <3> QED BY <3>1, <3>2
  <2>3. obj'[c] = NoObject /\ status'[c] = "running"
    BY <2>1 DEF TypeOK
  <2> QED BY <2>1, <2>2, <2>3, KeepsHolding DEF Keeps, HInv, AwaitingHolds
<1>2. CASE IterateOnce(c) \/ IterateAgain(c)
  <2>1. UNCHANGED <<op, coroVars>>
    BY <1>2 DEF IterateOnce, IterateAgain
  <2>2. \A x \in Object : parent'[x] = "NULL" <=> parent[x] = "NULL"
    BY <1>2, ScheduleStopType DEF IterateOnce, IterateAgain
  <2>3. op' = op /\ obj' = obj /\ want' = want /\ status' = status
    BY <2>1
  <2>4. ASSUME NEW e \in Coroutine, obj[e] # NoObject PROVE parent'[obj[e]] # "NULL"
    BY <2>2, <2>4 DEF HInv, AwaitsOwnOperation, TypeOK
  <2>5. Keeps
    BY <2>3, <2>4 DEF Keeps, HInv, AwaitingHolds
  <2> QED BY <2>5, KeepsHolding
<1> QED BY <1>1, <1>2

(* Closing a task hands out no object.                                     *)
LEMMA HoldingClose == ASSUME HInv, Close PROVE HInv'
<1> PICK c \in Coroutine :
         CloseFinished(c) \/ CloseUnstarted(c) \/ CloseAwaiting(c) \/ CloseRaises(c)
  BY DEF Close
<1> TypeOK /\ TypeOK'
  BY TypeClose DEF HInv
<1>1. CASE CloseFinished(c) \/ CloseUnstarted(c)
  BY <1>1, KeepsHolding DEF CloseFinished, CloseUnstarted, Keeps, HInv, AwaitingHolds,
                            AwaitsOwnOperation, TypeOK
<1>2. CASE CloseAwaiting(c) \/ CloseRaises(c)
  <2>1. /\ UNCHANGED <<op, want>> /\ obj' = [obj EXCEPT ![c] = NoObject]
        /\ status'[c] # "awaiting"
        /\ \A e \in Coroutine : e # c => status'[e] = status[e]
    BY <1>2 DEF CloseAwaiting, CloseRaises, TypeOK
  <2>2. obj[c] \in Object
    BY <1>2, AwaitablesAssumption
       DEF HInv, TypeOK, AwaitingHolds, CloseAwaiting, CloseRaises, CloseFails, Awaited
  <2>3. \A x \in Object : x # obj[c] => parent'[x] = parent[x]
    <3>1. CASE CloseAwaiting(c)
      BY <3>1, <2>2 DEF CloseAwaiting, TypeOK
    <3>2. CASE CloseRaises(c)
      <4>1. parent' = ScheduleStop(obj[c])
        BY <3>2 DEF CloseRaises
      <4> QED BY <4>1, <2>2, ScheduleStopType
    <3> QED BY <1>2, <3>1, <3>2
  <2>4. ASSUME NEW e \in Coroutine, e # c
        PROVE  /\ obj'[e] = obj[e] /\ obj[e] # NoObject => parent'[obj[e]] # "NULL"
    BY <2>1, <2>2, <2>3, <2>4 DEF HInv, HoldsAlone, AwaitsOwnOperation, TypeOK
  <2>5. obj'[c] = NoObject
    BY <2>1 DEF TypeOK
  <2> QED BY <2>1, <2>4, <2>5, KeepsHolding DEF Keeps, HInv, AwaitingHolds
<1> QED BY <1>1, <1>2

(* A turn that goes on hands out no object.                                *)
LEMMA HoldingTurn == ASSUME HInv, TurnGoesOn \/ NextRound PROVE HInv'
<1> TypeOK /\ TypeOK'
  BY TypeTurn DEF HInv
<1>1. CASE FirstTurn \/ NextRound
  BY <1>1, KeepsHolding DEF FirstTurn, NextRound, Keeps, HInv, AwaitingHolds,
                            AwaitsOwnOperation, TypeOK
<1>2. ASSUME NEW c \in Coroutine, Await(c) PROVE HInv'
  BY <1>2, KeepsHolding DEF Await, Keeps, HInv, AwaitingHolds, AwaitsOwnOperation, TypeOK
<1>3. ASSUME NEW c \in Coroutine, Return(c) \/ Raise(c) PROVE HInv'
  BY <1>3, KeepsHolding DEF Return, Raise, Keeps, HInv, AwaitingHolds, AwaitsOwnOperation,
                            TypeOK
<1> QED BY <1>1, <1>2, <1>3 DEF TurnGoesOn

(* The only steps that hand out an object: no other coroutine holds it,    *)
(* because held objects are not exhausted.                                 *)
LEMMA HandsOut ==
    ASSUME HInv, TypeOK', NEW c \in Coroutine, NEW o \in Object,
           NEW kind \in Device \union {"wait", "yield"},
           parent[o] = "NULL" \/ \A e \in Coroutine : obj[e] # o,
           status' = status,
           \A x \in Object : x # o => (parent'[x] = "NULL" <=> parent[x] = "NULL"),
           parent'[o] = kind,
           op' = [op EXCEPT ![o] = ops'],
           obj' = [obj EXCEPT ![c] = o],
           want' = [want EXCEPT ![c] = ops']
    PROVE  HInv'
<1> kind # "NULL" /\ o # NoObject
  BY AwaitablesAssumption
<1>1. ASSUME NEW e \in Coroutine, e # c
      PROVE  obj'[e] = obj[e] /\ want'[e] = want[e] /\ obj[e] # o
  BY <1>1 DEF HInv, TypeOK, AwaitsOwnOperation
<1>2. obj'[c] = o /\ want'[c] = ops' /\ op'[o] = ops'
  BY DEF HInv, TypeOK
<1>3. \A x \in Object : x # o => op'[x] = op[x]
  BY DEF HInv, TypeOK
<1>4. AwaitsOwnOperation'
  BY <1>1, <1>2, <1>3 DEF HInv, TypeOK, AwaitsOwnOperation
<1>5. HoldsAlone' /\ AwaitingHolds'
  BY <1>1, <1>2 DEF HInv, HoldsAlone, AwaitingHolds
<1> QED BY <1>4, <1>5 DEF HInv

(* A turn that starts an operation hands out an object nobody holds.       *)
LEMMA HoldingStarts == ASSUME HInv, Starts PROVE HInv'
<1> TypeOK /\ TypeOK'
  BY TypeStarts DEF HInv
<1>1. ASSUME NEW c \in Coroutine, NEW o \in Object, NEW d \in Device, StartOperation(c, d, o)
      PROVE  HInv'
  <2> prev[d] \in Object \union {NoObject}
    BY DEF TypeOK
  <2>1. parent[o] = "NULL" \/ \A e \in Coroutine : obj[e] # o
    BY <1>1, TakesType DEF StartOperation
  <2>2. ScheduleStop(prev[d]) \in
            [Object -> Device \union {"NULL", "SENTINEL", "wait", "yield"}]
        /\ \A x \in Object : ScheduleStop(prev[d])[x] = "NULL" <=> parent[x] = "NULL"
    BY ScheduleStopType
  <2>3. parent'[o] = d
        /\ \A x \in Object : x # o => (parent'[x] = "NULL" <=> parent[x] = "NULL")
    BY <1>1, <2>2 DEF StartOperation
  <2> QED BY <1>1, <2>1, <2>3, HandsOut DEF StartOperation
<1>2. ASSUME NEW c \in Coroutine, NEW o \in Object, NEW kind \in {"wait", "yield"},
             StartWait(c, kind, o)
      PROVE  HInv'
  <2>1. parent[o] = "NULL" \/ \A e \in Coroutine : obj[e] # o
    <3>1. PICK reuse \in IF FreeWaits = {} THEN {NoObject} ELSE FreeWaits : Takes(reuse, o)
      BY <1>2 DEF StartWait
    <3>2. reuse \in Object \union {NoObject}
      BY AwaitablesAssumption DEF FreeWaits
    <3> QED BY <3>1, <3>2, TakesType
  <2>2. parent'[o] = kind /\ \A x \in Object : x # o => parent'[x] = parent[x]
    BY <1>2 DEF StartWait, TypeOK
  <2> QED BY <1>2, <2>1, <2>2, HandsOut DEF StartWait
<1> QED BY <1>1, <1>2 DEF Starts

(* A command to a device hands out nothing.                                *)
LEMMA CommandKeeps ==
    ASSUME TypeOK, NEW d \in Device, Command(d)
    PROVE  \A x \in Object : parent'[x] = "NULL" <=> parent[x] = "NULL"
<1> prev[d] \in Object \union {NoObject}
  BY DEF TypeOK
<1> QED BY ScheduleStopType 
        DEF Command, RunForever, StartWithoutWaiting, DirectCommand, StopCommand

(* What the program does outside of a collection keeps the invariant.      *)
LEMMA HoldingProgram == ASSUME HInv, Program PROVE HInv'
<1> TypeOK /\ TypeOK'
  BY TypeProgram DEF HInv
<1>1. ASSUME NEW d \in Device, CoroutineCommands(d) \/ ProgramCommands(d) PROVE HInv'
  <2>1. UNCHANGED <<op, coroVars>>
        /\ \A x \in Object : parent'[x] = "NULL" <=> parent[x] = "NULL"
    BY <1>1, CommandType, CommandKeeps DEF CoroutineCommands, ProgramCommands
  <2> QED BY <2>1, IdleKeepsHolding DEF coroVars
<1>2. ASSUME UNCHANGED <<asyncVars, coroVars>> PROVE HInv'
  BY <1>2, IdleKeepsHolding DEF asyncVars, coroVars
<1>3. ASSUME NEW d \in Device, ProgramOperates(d) PROVE HInv'
  BY <1>2, <1>3 DEF ProgramOperates
<1>4. CASE ProgramUnblocked \/ ProgramInterrupted
  BY <1>2, <1>4 DEF ProgramUnblocked, ProgramInterrupted
<1>5. ASSUME NEW race \in BOOLEAN, RunTask(race) PROVE HInv'
  BY <1>5, KeepsHolding DEF RunTask, Keeps
<1>6. CASE RunLoopInterrupted
  BY <1>6, KeepsHolding DEF RunLoopInterrupted, Keeps, TypeOK
<1> QED BY <1>1, <1>3, <1>4, <1>5, <1>6 DEF Program

(* Every step keeps the invariant.                                         *)
LEMMA HoldingNext == HInv /\ [Next]_vars => HInv'
<1> SUFFICES ASSUME HInv, [Next]_vars PROVE HInv'
  OBVIOUS
<1>1. ASSUME UNCHANGED vars PROVE HInv'
  BY <1>1 DEF HInv, TypeOK, AwaitsOwnOperation, HoldsAlone, AwaitingHolds, vars
<1>2. ASSUME NEW d \in Device, OperationCompletes(d) \/ Unplugged(d) PROVE HInv'
  <2>1. TypeOK' /\ UNCHANGED <<asyncVars, coroVars>>
    BY <1>2, TypeDevice DEF HInv, OperationCompletes, Unplugged
  <2> QED BY <2>1, IdleKeepsHolding DEF asyncVars, coroVars
<1> QED BY <1>1, <1>2, HoldingIterate, HoldingClose, HoldingTurn, HoldingStarts,
           HoldingProgram DEF Next

(* A coroutine awaits the operation it started and no other.               *)
(* pb_type_async_wait_or_await reuses an awaitable only once it is         *)
(* exhausted, whatever was scheduled to stop and whoever holds it.         *)
THEOREM AwaitsItsOwn == Spec => []AwaitsOwnOperation
<1>1. HInv => AwaitsOwnOperation
  BY DEF HInv
<1> QED BY HoldingInit, HoldingNext, <1>1, PTL DEF Spec

------------------------------------------------------------------------------
(* Cancellation *)

(* Operations are numbered in the order in which they start. *)
Numbered ==
    /\ \A c \in Coroutine : want[c] <= ops
    /\ \A d \in Device : hw[d].op <= ops
    /\ \A c \in Coroutine : status[c] = "created" => want[c] = 0

(* The last awaitable of a device is its own, and no other object is set up *)
(* for that device.                                                        *)
LastIsOwn ==
    /\ \A d \in Device : prev[d] \notin Waits
    /\ \A d, e \in Device : d # e /\ prev[d] # NoObject => prev[e] # prev[d]
    /\ \A d \in Device :
          prev[d] # NoObject => parent[prev[d]] \in {d, "SENTINEL", "NULL"}
    /\ \A o \in Object : parent[o] \in Device => prev[parent[o]] = o

(* As long as a device does what a coroutine waits for, the awaitable says  *)
(* so ...                                                                  *)
HeldIsTold ==
    \A c \in Coroutine, d \in Device :
        obj[c] # NoObject /\ hw[d].op = want[c] /\ hw[d].doing # "idle"
            => parent[obj[c]] = d

(* ... and while it says so the device moves for nobody else of whom it was *)
(* told.                                                                   *)
ToldIsMoved ==
    pc \notin {"sync", "blocked"} =>
        \A c \in Coroutine, d \in Device :
            obj[c] # NoObject /\ parent[obj[c]] = d /\ hw[d].doing = "moving"
                => hw[d].op = want[c]

CInv == HInv /\ Numbered /\ LastIsOwn /\ HeldIsTold /\ ToldIsMoved /\ CancelledIsStopped

------------------------------------------------------------------------------
(* A step that starts nothing: devices go on or stop, awaitables go on or   *)
(* are exhausted, coroutines keep or drop what they hold, and only what     *)
(* does not move can be taken from a held awaitable.                       *)
Settles ==
    /\ ops' = ops /\ prev' = prev
    /\ \A d \in Device : hw'[d].op = hw[d].op /\ hw'[d].doing \in {hw[d].doing, "idle"}
    /\ \A x \in Object : parent'[x] \in {parent[x], "SENTINEL", "NULL"}
    /\ \A c \in Coroutine :
          /\ want'[c] \in {want[c], 0}
          /\ status'[c] = "created" => want'[c] = 0
          /\ \/ obj'[c] = NoObject
             \/ /\ obj'[c] = obj[c] /\ want'[c] = want[c]
                /\ parent[obj[c]] \in Device /\ parent'[obj[c]] # parent[obj[c]]
                      => hw'[parent[obj[c]]].doing = "idle"
          /\ status'[c] = "closed" =>
                \/ status[c] = "closed" \/ want'[c] = 0
                \/ \A d \in Device : hw[d].op = want[c] => hw'[d].doing = "idle"
    /\ \/ pc' \in {"sync", "blocked"} \/ pc \notin {"sync", "blocked"}
       \/ \A c \in Coroutine : obj'[c] = NoObject

(* It keeps the invariant. *)
LEMMA SettlesKeeps ==
    ASSUME CInv, HInv', Settles
    PROVE  CInv'
<1> TypeOK /\ TypeOK' /\ {"NULL", "SENTINEL", "wait", "yield"} \intersect Device = {}
  BY AwaitablesAssumption DEF CInv, HInv
<1>1. Numbered'
  <2>1. 0 <= ops /\ ops' = ops
    BY AwaitablesAssumption DEF TypeOK, Settles
  <2>2. ASSUME NEW c \in Coroutine
        PROVE  want'[c] <= ops' /\ (status'[c] = "created" => want'[c] = 0)
    <3>1. want'[c] \in {want[c], 0} /\ want[c] <= ops
      BY DEF Settles, CInv, Numbered
    <3> QED BY <2>1, <3>1 DEF Settles
  <2>3. ASSUME NEW d \in Device PROVE hw'[d].op <= ops'
    BY <2>1 DEF Settles, CInv, Numbered
  <2> QED BY <2>2, <2>3 DEF Numbered
<1>2. LastIsOwn'
  BY DEF CInv, LastIsOwn, Settles, TypeOK
<1>3. HeldIsTold'
  <2> SUFFICES ASSUME NEW c \in Coroutine, NEW d \in Device, obj'[c] # NoObject,
                      hw'[d].op = want'[c], hw'[d].doing # "idle"
               PROVE  parent'[obj'[c]] = d
    BY DEF HeldIsTold
  <2>1. obj'[c] = obj[c] /\ want'[c] = want[c] /\ hw[d].op = hw'[d].op
        /\ hw[d].doing # "idle"
    BY DEF Settles
  <2>2. parent[obj[c]] = d
    BY <2>1 DEF CInv, HeldIsTold
  <2> QED BY <2>1, <2>2 DEF Settles
<1>4. ToldIsMoved'
  <2> SUFFICES ASSUME NEW c \in Coroutine, NEW d \in Device,
                      pc' \notin {"sync", "blocked"}, obj'[c] # NoObject,
                      parent'[obj'[c]] = d, hw'[d].doing = "moving"
               PROVE  hw'[d].op = want'[c]
    BY DEF ToldIsMoved
  <2>1. /\ pc \notin {"sync", "blocked"} /\ obj'[c] = obj[c] /\ want'[c] = want[c]
        /\ hw[d].doing = "moving" /\ hw'[d].op = hw[d].op /\ obj[c] \in Object
    BY DEF Settles, TypeOK
  <2>2. parent[obj[c]] = d
    BY <2>1 DEF Settles
  <2> QED BY <2>1, <2>2 DEF CInv, ToldIsMoved
<1>5. CancelledIsStopped'
  BY DEF CInv, CancelledIsStopped, Settles
<1> QED BY <1>1, <1>2, <1>3, <1>4, <1>5 DEF CInv

------------------------------------------------------------------------------
(* Iterating an awaitable starts nothing.                                  *)
LEMMA IterateSettles == ASSUME CInv, Iterate PROVE Settles
<1> TypeOK /\ {"NULL", "SENTINEL", "wait", "yield"} \intersect Device = {}
  BY AwaitablesAssumption DEF CInv, HInv
<1> PICK c \in Coroutine : \/ IterateStopped(c) \/ IterateOnce(c) \/ IterateAgain(c)
                           \/ IterateDone(c) \/ IterateFails(c)
  BY DEF Iterate
<1> c \in Coroutine /\ pc = "turn" /\ status[c] = "awaiting" /\ obj[c] \in Object
  BY DEF IterateStopped, IterateOnce, IterateAgain, IterateDone, IterateFails, Iterating,
         CInv, HInv, AwaitingHolds, TypeOK
<1>1. CASE IterateStopped(c) \/ IterateDone(c) \/ IterateFails(c)
  <2>1. /\ UNCHANGED <<ops, prev, hw>>
        /\ status' = [status EXCEPT ![c] = "running"]
        /\ obj' = [obj EXCEPT ![c] = NoObject] /\ want' = [want EXCEPT ![c] = 0]
        /\ parent' = parent \/ parent' = [parent EXCEPT ![obj[c]] = "NULL"]
    BY <1>1 DEF IterateStopped, IterateDone, IterateFails, Resume
  <2>2. \A e \in Coroutine : e # c /\ obj[e] # NoObject => obj[e] # obj[c]
    BY DEF CInv, HInv, HoldsAlone
  <2>3. \A e \in Coroutine : e # c =>
            obj'[e] = obj[e] /\ want'[e] = want[e] /\ status'[e] = status[e]
    BY <2>1 DEF TypeOK
  <2>4. obj'[c] = NoObject /\ want'[c] = 0 /\ status'[c] = "running"
    BY <2>1 DEF TypeOK
  <2>5. \A e \in Coroutine : e # c /\ obj[e] # NoObject => parent'[obj[e]] = parent[obj[e]]
    BY <2>1, <2>2 DEF TypeOK
  <2>6. \A x \in Object : parent'[x] \in {parent[x], "NULL"}
    BY <2>1 DEF TypeOK
  <2> QED BY <2>1, <2>3, <2>4, <2>5, <2>6 DEF Settles, CInv, Numbered
<1>2. CASE IterateOnce(c)
  <2>1. /\ UNCHANGED <<ops, prev, hw, status, obj, want>> /\ parent' = ScheduleStop(obj[c])
        /\ parent[obj[c]] = "yield"
    BY <1>2 DEF IterateOnce
  <2>2. \A x \in Object : /\ x # obj[c] => parent'[x] = parent[x]
                          /\ parent'[x] \in {parent[x], "SENTINEL"}
    BY <2>1, ScheduleStopType
  <2>3. \A e \in Coroutine : parent[obj[e]] \in Device /\ obj[e] # NoObject =>
                                 parent'[obj[e]] = parent[obj[e]]
    BY <2>1, <2>2 DEF TypeOK
  <2> QED BY <2>1, <2>2, <2>3 DEF Settles, CInv, Numbered
<1>3. CASE IterateAgain(c)
  BY <1>3 DEF IterateAgain, Settles, CInv, Numbered
<1> QED BY <1>1, <1>2, <1>3

(* Closing a task stops what it waits for, and starts nothing.             *)
LEMMA CloseSettles == ASSUME CInv, Close PROVE Settles
<1> TypeOK /\ {"NULL", "SENTINEL", "wait", "yield"} \intersect Device = {}
  BY AwaitablesAssumption DEF CInv, HInv
<1>1. ASSUME NEW c \in Coroutine, CloseFinished(c) PROVE Settles
  BY <1>1 DEF CloseFinished, Closes, Settles, CInv, Numbered
<1>2. ASSUME NEW c \in Coroutine, CloseUnstarted(c) PROVE Settles
  <2>1. /\ pc = "close" /\ status[c] = "created" /\ want[c] = 0
        /\ UNCHANGED <<ops, prev, hw, obj, want, parent>>
        /\ status' = [status EXCEPT ![c] = "closed"]
    BY <1>2 DEF CloseUnstarted, Closes, CInv, Numbered
  <2> QED BY <2>1 DEF Settles, CInv, Numbered, TypeOK
<1>3. ASSUME NEW c \in Coroutine, CloseAwaiting(c) \/ CloseRaises(c) PROVE Settles
  <2>1. /\ pc = "close" /\ status[c] = "awaiting" /\ obj[c] \in Object
        /\ UNCHANGED <<ops, prev, want>> /\ obj' = [obj EXCEPT ![c] = NoObject]
    <3>1. pc = "close" /\ status[c] = "awaiting"
          /\ UNCHANGED <<ops, prev, want>> /\ obj' = [obj EXCEPT ![c] = NoObject]
      BY <1>3, AwaitablesAssumption DEF CloseAwaiting, CloseRaises, Closes, CloseFails, Awaited
    <3> QED BY <3>1 DEF CInv, HInv, AwaitingHolds, TypeOK
  <2>2. \A e \in Coroutine : e # c /\ obj[e] # NoObject => obj[e] # obj[c]
    BY <2>1 DEF CInv, HInv, HoldsAlone
  <2>3. obj'[c] = NoObject /\ \A e \in Coroutine : e # c => obj'[e] = obj[e]
    BY <2>1 DEF TypeOK
  <2>4. \A x \in Object : /\ x # obj[c] => parent'[x] = parent[x]
                          /\ parent'[x] \in {parent[x], "SENTINEL", "NULL"}
    <3>1. CASE CloseAwaiting(c)
      BY <3>1, <2>1 DEF CloseAwaiting, TypeOK
    <3>2. CASE CloseRaises(c)
      BY <3>2, <2>1, ScheduleStopType DEF CloseRaises
    <3> QED BY <1>3, <3>1, <3>2
  <2>5. \A e \in Coroutine : e # c /\ obj[e] # NoObject => parent'[obj[e]] = parent[obj[e]]
    BY <2>2, <2>4 DEF TypeOK
  <2>6. /\ \A e \in Coroutine : e # c => status'[e] = status[e]
        /\ status'[c] = IF CloseAwaiting(c) THEN "closed" ELSE "raised"
    <3>1. CASE CloseAwaiting(c)
      BY <3>1 DEF CloseAwaiting, TypeOK
    <3>2. CASE CloseRaises(c) /\ ~CloseAwaiting(c)
      BY <3>2 DEF CloseRaises, TypeOK
    <3> QED BY <1>3, <3>1, <3>2
  <2>7. /\ \A d \in Device : hw'[d].op = hw[d].op /\ hw'[d].doing \in {hw[d].doing, "idle"}
        /\ CloseAwaiting(c) => \A d \in Device : parent[obj[c]] = d => hw'[d].doing = "idle"
    <3>1. CASE CloseAwaiting(c)
      <4>1. Awaited(c) = parent[obj[c]]
        BY <2>1 DEF Awaited
      <4>2. CASE parent[obj[c]] \in Device
        <5>1. Stopped(parent[obj[c]])
          BY <3>1, <4>1, <4>2 DEF CloseAwaiting
        <5>2. /\ \A e \in Device : hw'[e].op = hw[e].op
              /\ \A e \in Device : e # parent[obj[c]] => hw'[e] = hw[e]
              /\ hw'[parent[obj[c]]].doing = "idle"
          BY <4>2, <5>1, StoppedType
        <5> QED BY <5>2
      <4>3. CASE parent[obj[c]] \notin Device
        <5>1. hw' = hw
          BY <3>1, <4>1, <4>3 DEF CloseAwaiting
        <5> QED BY <4>3, <5>1
      <4> QED BY <4>2, <4>3
    <3>2. CASE CloseRaises(c) /\ ~CloseAwaiting(c)
      BY <3>2 DEF CloseRaises
    <3> QED BY <1>3, <3>1, <3>2
  <2>8. status'[c] = "closed" => \A d \in Device : hw[d].op = want[c] => hw'[d].doing = "idle"
    <3> SUFFICES ASSUME CloseAwaiting(c), NEW d \in Device, hw[d].op = want[c]
                 PROVE  hw'[d].doing = "idle"
      BY <2>6
    <3>1. CASE hw[d].doing = "idle"
      BY <3>1, <2>7
    <3>2. CASE hw[d].doing # "idle"
      <4>1. obj[c] # NoObject
        BY <2>1, AwaitablesAssumption
      <4>2. parent[obj[c]] = d
        BY <3>2, <4>1 DEF CInv, HeldIsTold
      <4> QED BY <4>2, <2>7
    <3> QED BY <3>1, <3>2
  <2>9. \A e \in Coroutine : status'[e] = "created" => want'[e] = 0
    BY <2>1, <2>6 DEF CInv, Numbered
  <2>a. \A e \in Coroutine : want'[e] = want[e]
    BY <2>1
  <2> QED BY <2>1, <2>3, <2>4, <2>5, <2>6, <2>7, <2>8, <2>9, <2>a DEF Settles
<1> QED BY <1>1, <1>2, <1>3 DEF Close

(* A turn that goes on starts nothing.                                     *)
LEMMA TurnSettles == ASSUME CInv, TurnGoesOn \/ NextRound PROVE Settles
<1> TypeOK
  BY DEF CInv, HInv
<1>1. CASE FirstTurn \/ NextRound
  BY <1>1 DEF FirstTurn, NextRound, Settles, CInv, Numbered, TypeOK
<1>2. ASSUME NEW c \in Coroutine, Await(c) PROVE Settles
  BY <1>2 DEF Await, Settles, CInv, Numbered, TypeOK
<1>3. ASSUME NEW c \in Coroutine, Return(c) \/ Raise(c) PROVE Settles
  <2>1. /\ UNCHANGED <<ops, prev, hw, parent>> /\ pc = "turn"
        /\ obj' = [obj EXCEPT ![c] = NoObject] /\ want' = [want EXCEPT ![c] = 0]
        /\ \/ status' = [status EXCEPT ![c] = "returned"]
           \/ status' = [status EXCEPT ![c] = "raised"]
    BY <1>3 DEF Return, Raise, Running
  <2> QED BY <2>1 DEF Settles, CInv, Numbered, TypeOK
<1> QED BY <1>1, <1>2, <1>3 DEF TurnGoesOn

(* A device that is stopped, and a control loop that stops it, start nothing. *)
LEMMA StopSettles ==
    ASSUME CInv, NEW d \in Device,
           StopCommand(d) \/ OperationCompletes(d) \/ Unplugged(d)
    PROVE  Settles
<1> TypeOK /\ {"NULL", "SENTINEL", "wait", "yield"} \intersect Device = {}
  BY AwaitablesAssumption DEF CInv, HInv
<1>1. /\ UNCHANGED <<ops, prev, obj, want, status, pc>> /\ Stopped(d)
      /\ parent' = parent \/ parent' = ScheduleStop(prev[d])
  BY DEF StopCommand, OperationCompletes, Unplugged
<1>2. /\ \A e \in Device : hw'[e].op = hw[e].op
      /\ \A e \in Device : e # d => hw'[e] = hw[e]
      /\ hw'[d].doing = "idle"
  BY <1>1, StoppedType
<1>3. prev[d] \in Object \union {NoObject}
  BY DEF TypeOK
<1>4. \A x \in Object : /\ x # prev[d] => parent'[x] = parent[x]
                        /\ parent'[x] \in {parent[x], "SENTINEL"}
  BY <1>1, <1>3, ScheduleStopType
<1>5. prev[d] \in Object => parent[prev[d]] \in {d, "SENTINEL", "NULL"}
  BY AwaitablesAssumption DEF CInv, LastIsOwn
<1>6. \A c \in Coroutine : obj[c] # NoObject /\ parent[obj[c]] \in Device
                               /\ parent'[obj[c]] # parent[obj[c]] => parent[obj[c]] = d
  BY <1>4, <1>5 DEF TypeOK
<1> QED BY <1>1, <1>2, <1>4, <1>6 DEF Settles, CInv, Numbered

(* Beginning and leaving a collection start nothing.                       *)
LEMMA ProgramSettles ==
    ASSUME CInv, \/ ProgramUnblocked \/ ProgramInterrupted \/ RunLoopInterrupted
                 \/ \E race \in BOOLEAN : RunTask(race)
    PROVE  Settles
<1> TypeOK
  BY DEF CInv, HInv
<1>1. CASE ProgramUnblocked \/ ProgramInterrupted
  BY <1>1 DEF ProgramUnblocked, ProgramInterrupted, Settles, CInv, Numbered, TypeOK
<1>2. CASE RunLoopInterrupted
  BY <1>2 DEF RunLoopInterrupted, Settles, CInv, Numbered, TypeOK
<1>3. ASSUME NEW race \in BOOLEAN, RunTask(race) PROVE Settles
  BY <1>3 DEF RunTask, Settles, CInv, Numbered, TypeOK
<1> QED BY <1>1, <1>2, <1>3

------------------------------------------------------------------------------
(* A device that begins to move for no coroutine: its last awaitable is    *)
(* told, or obeys a command of which it is not, or no collection goes on.   *)
LEMMA MovesKeeps ==
    ASSUME CInv, HInv', NEW d \in Device, NEW doing \in Doing, Drives(d, doing),
           UNCHANGED <<prev, obj, want, status>>,
           parent' = parent \/ parent' = ScheduleStop(prev[d]),
           \/ pc' \in {"sync", "blocked"}
           \/ pc' = pc /\ (parent' = ScheduleStop(prev[d]) \/ doing # "moving")
    PROVE  CInv'
<1> /\ TypeOK /\ TypeOK' /\ {"NULL", "SENTINEL", "wait", "yield"} \intersect Device = {}
    /\ NoObject \notin Object
  BY AwaitablesAssumption DEF CInv, HInv
<1>1. /\ ops' = ops + 1 /\ ops \in Nat
      /\ \A e \in Device : e # d => hw'[e] = hw[e]
      /\ hw'[d].op = ops + 1 /\ hw'[d].doing = doing
  BY DrivesType, AwaitablesAssumption DEF Drives, TypeOK
<1>2. prev[d] \in Object \union {NoObject}
  BY DEF TypeOK
<1>3. \A x \in Object : /\ x # prev[d] => parent'[x] = parent[x]
                        /\ parent'[x] \in {parent[x], "SENTINEL"}
  BY <1>2, ScheduleStopType
<1>4. parent' = ScheduleStop(prev[d]) /\ prev[d] \in Object => parent'[prev[d]] \notin Device
  BY ScheduleStopType
<1>5. prev[d] \in Object => parent[prev[d]] \in {d, "SENTINEL", "NULL"}
  BY DEF CInv, LastIsOwn
<1>6. \A c \in Coroutine : want[c] \in Nat /\ want[c] <= ops
  BY AwaitablesAssumption DEF CInv, Numbered, TypeOK
<1>7. Numbered'
  <2>1. \A e \in Device : hw[e].op \in Nat /\ hw[e].op <= ops
    BY AwaitablesAssumption DEF CInv, Numbered, TypeOK
  <2>2. \A e \in Device : hw'[e].op <= ops'
    BY <1>1, <2>1
  <2>3. \A c \in Coroutine : want'[c] <= ops'
    BY <1>1, <1>6
  <2> QED BY <2>2, <2>3 DEF CInv, Numbered
<1>8. LastIsOwn'
  BY <1>3 DEF CInv, LastIsOwn, TypeOK
<1>9. HeldIsTold'
  <2> SUFFICES ASSUME NEW c \in Coroutine, NEW e \in Device, obj[c] # NoObject,
                      hw'[e].op = want[c], hw'[e].doing # "idle"
               PROVE  parent'[obj[c]] = e
    BY DEF HeldIsTold
  <2>1. e # d
    BY <1>1, <1>6
  <2>2. parent[obj[c]] = e
    BY <1>1, <2>1 DEF CInv, HeldIsTold
  <2>3. obj[c] \in Object /\ obj[c] # prev[d]
    BY <1>5, <2>1, <2>2 DEF TypeOK
  <2> QED BY <1>3, <2>2, <2>3
<1>a. ToldIsMoved'
  <2> SUFFICES ASSUME NEW c \in Coroutine, NEW e \in Device,
                      pc' \notin {"sync", "blocked"}, obj[c] # NoObject,
                      parent'[obj[c]] = e, hw'[e].doing = "moving"
               PROVE  hw'[e].op = want[c]
    BY DEF ToldIsMoved
  <2>1. obj[c] \in Object /\ parent[obj[c]] = e
    BY <1>3 DEF TypeOK
  <2>2. e # d
    <3> SUFFICES ASSUME e = d PROVE FALSE
      OBVIOUS
    <3>1. obj[c] = prev[d]
      BY <2>1 DEF CInv, LastIsOwn
    <3>2. parent' = ScheduleStop(prev[d])
      BY <1>1
    <3> QED BY <1>4, <2>1, <3>1, <3>2
  <2> QED BY <1>1, <2>1, <2>2 DEF CInv, ToldIsMoved
<1>b. CancelledIsStopped'
  BY <1>1, <1>6 DEF CInv, CancelledIsStopped
<1> QED BY <1>7, <1>8, <1>9, <1>a, <1>b DEF CInv

(* A device that begins to move for a coroutine: its last awaitable is      *)
(* told and perhaps set up anew, for that coroutine.                       *)
LEMMA StartOperationKeeps ==
    ASSUME CInv, HInv', NEW c \in Coroutine, NEW d \in Device, NEW o \in Object,
           StartOperation(c, d, o)
    PROVE  CInv'
<1> /\ TypeOK /\ TypeOK' /\ {"NULL", "SENTINEL", "wait", "yield"} \intersect Device = {}
    /\ NoObject \notin Object
  BY AwaitablesAssumption DEF CInv, HInv
<1>1. /\ ops' = ops + 1 /\ ops \in Nat
      /\ \A e \in Device : e # d => hw'[e] = hw[e]
      /\ hw'[d].op = ops + 1 /\ hw'[d].doing = "moving"
  BY DrivesType, AwaitablesAssumption DEF Drives, StartOperation, Doing, Controlled, TypeOK
<1>2. prev[d] \in Object \union {NoObject}
  BY DEF TypeOK
<1>3. /\ \A x \in Object : x # prev[d] /\ x # o => parent'[x] = parent[x]
      /\ \A x \in Object : x # o => parent'[x] \in {parent[x], "SENTINEL"}
      /\ parent'[o] = d
      /\ prev[d] \in Object /\ prev[d] # o => parent'[prev[d]] \in {"SENTINEL", "NULL"}
  BY <1>2, ScheduleStopType DEF StartOperation
<1>4. /\ status' = status /\ pc' = pc
      /\ prev'[d] = o /\ \A e \in Device : e # d => prev'[e] = prev[e]
      /\ obj'[c] = o /\ want'[c] = ops + 1
      /\ \A e \in Coroutine : e # c => obj'[e] = obj[e] /\ want'[e] = want[e]
      /\ pc = "turn" /\ status[c] = "running"
  BY <1>1 DEF StartOperation, Running, TypeOK
<1>5. prev[d] \in Object => parent[prev[d]] \in {d, "SENTINEL", "NULL"}
  BY DEF CInv, LastIsOwn
<1>6. \A e \in Coroutine : want[e] \in Nat /\ want[e] <= ops
  <2>1. \A e \in Coroutine : want[e] <= ops
    BY DEF CInv, Numbered
  <2>2. \A e \in Coroutine : want[e] \in 0..MaxOps
    BY DEF TypeOK
  <2> QED BY <2>1, <2>2, AwaitablesAssumption
<1>7. \A e \in Device : hw[e].op \in Nat /\ hw[e].op <= ops
  <2>1. \A e \in Device : hw[e].op <= ops
    BY DEF CInv, Numbered
  <2>2. \A e \in Device : hw[e].op \in 0..MaxOps
    BY DEF TypeOK
  <2> QED BY <2>1, <2>2, AwaitablesAssumption
<1>8. o = prev[d] \/ o \notin Reachable
  BY DEF StartOperation, Takes
<1>9. /\ o \notin Waits
      /\ \A e \in Device : e # d => prev[e] # o
      /\ \A e \in Device : parent[o] = e => e = d
  <2>1. CASE o = prev[d]
    BY <2>1, <1>5 DEF CInv, LastIsOwn
  <2>2. CASE o \notin Reachable
    BY <2>2 DEF CInv, LastIsOwn, Reachable
  <2> QED BY <1>8, <2>1, <2>2
<1>a. \A e \in Coroutine : e # c => obj[e] # o
  BY <1>4 DEF HInv, HoldsAlone
<1>b. Numbered'
  <2>1. \A e \in Device : hw'[e].op <= ops'
    BY <1>1, <1>7
  <2>2. \A e \in Coroutine : want'[e] <= ops'
    BY <1>1, <1>4, <1>6
  <2>3. \A e \in Coroutine : status'[e] = "created" => want'[e] = 0
    BY <1>4 DEF CInv, Numbered
  <2> QED BY <2>1, <2>2, <2>3 DEF Numbered
<1>c. LastIsOwn'
  <2>1. \A e \in Device : prev'[e] \notin Waits
    BY <1>4, <1>9 DEF CInv, LastIsOwn
  <2>2. \A e, f \in Device : e # f /\ prev'[e] # NoObject => prev'[f] # prev'[e]
    BY <1>4, <1>9 DEF CInv, LastIsOwn
  <2>3. \A e \in Device : prev'[e] # NoObject => parent'[prev'[e]] \in {e, "SENTINEL", "NULL"}
    <3> SUFFICES ASSUME NEW e \in Device, prev'[e] # NoObject
                 PROVE  parent'[prev'[e]] \in {e, "SENTINEL", "NULL"}
      OBVIOUS
    <3>1. CASE e = d
      BY <3>1, <1>3, <1>4
    <3>2. CASE e # d
      <4>1. prev'[e] = prev[e] /\ prev[e] \in Object /\ prev[e] # o
        BY <3>2, <1>4, <1>9 DEF TypeOK
      <4>2. parent[prev[e]] \in {e, "SENTINEL", "NULL"}
        BY <4>1 DEF CInv, LastIsOwn
      <4> QED BY <4>1, <4>2, <1>3
    <3> QED BY <3>1, <3>2
  <2>4. ASSUME NEW x \in Object, parent'[x] \in Device PROVE prev'[parent'[x]] = x
    <3>1. CASE x = o
      BY <3>1, <1>3, <1>4
    <3>2. CASE x # o
      <4>1. parent'[x] = parent[x] /\ x # prev[d]
        BY <2>4, <3>2, <1>3
      <4>2. prev[parent[x]] = x
        BY <2>4, <4>1 DEF CInv, LastIsOwn
      <4> QED BY <2>4, <4>1, <4>2, <1>4
    <3> QED BY <3>1, <3>2
  <2> QED BY <2>1, <2>2, <2>3, <2>4 DEF LastIsOwn
<1>d. HeldIsTold'
  <2> SUFFICES ASSUME NEW f \in Coroutine, NEW e \in Device, obj'[f] # NoObject,
                      hw'[e].op = want'[f], hw'[e].doing # "idle"
               PROVE  parent'[obj'[f]] = e
    BY DEF HeldIsTold
  <2>1. CASE f = c
    <3>1. e = d
      BY <2>1, <1>1, <1>4, <1>7
    <3> QED BY <2>1, <3>1, <1>3, <1>4
  <2>2. CASE f # c
    <3>1. e # d /\ obj'[f] = obj[f]
      BY <2>2, <1>1, <1>4, <1>6
    <3>2. parent[obj[f]] = e
      BY <2>2, <3>1, <1>1, <1>4 DEF CInv, HeldIsTold
    <3>3. obj[f] \in Object /\ obj[f] # prev[d] /\ obj[f] # o
      BY <2>2, <3>1, <3>2, <1>5, <1>a DEF TypeOK
    <3> QED BY <3>1, <3>2, <3>3, <1>3
  <2> QED BY <2>1, <2>2
<1>e. ToldIsMoved'
  <2> SUFFICES ASSUME NEW f \in Coroutine, NEW e \in Device, obj'[f] # NoObject,
                      parent'[obj'[f]] = e, hw'[e].doing = "moving"
               PROVE  hw'[e].op = want'[f]
    BY DEF ToldIsMoved
  <2>1. CASE f = c
    BY <2>1, <1>1, <1>3, <1>4
  <2>2. CASE f # c
    <3>1. obj'[f] = obj[f] /\ obj[f] \in Object /\ obj[f] # o
      <4>1. obj'[f] = obj[f] /\ obj[f] # NoObject
        BY <2>2, <1>4
      <4>2. obj[f] \in Object
        BY <4>1 DEF TypeOK
      <4> QED BY <2>2, <4>1, <4>2, <1>a
    <3>2. parent[obj[f]] = e /\ obj[f] # prev[d]
      BY <3>1, <1>3
    <3>3. e # d
      BY <3>1, <3>2 DEF CInv, LastIsOwn
    <3> QED BY <2>2, <3>1, <3>2, <3>3, <1>1, <1>4 DEF CInv, ToldIsMoved
  <2> QED BY <2>1, <2>2
<1>f. CancelledIsStopped'
  BY <1>1, <1>4, <1>6 DEF CInv, CancelledIsStopped
<1> QED BY <1>b, <1>c, <1>d, <1>e, <1>f DEF CInv

(* A wait moves no device and uses no device's awaitable.                  *)
LEMMA StartWaitKeeps ==
    ASSUME CInv, HInv', NEW c \in Coroutine, NEW kind \in {"wait", "yield"}, NEW o \in Object,
           StartWait(c, kind, o)
    PROVE  CInv'
<1> /\ TypeOK /\ TypeOK' /\ {"NULL", "SENTINEL", "wait", "yield"} \intersect Device = {}
    /\ NoObject \notin Object
  BY AwaitablesAssumption DEF CInv, HInv
<1>1. /\ ops' = ops + 1 /\ ops \in Nat /\ UNCHANGED <<hw, prev, status, pc>>
      /\ \A x \in Object : x # o => parent'[x] = parent[x]
      /\ parent'[o] = kind
      /\ obj'[c] = o /\ want'[c] = ops + 1
      /\ \A e \in Coroutine : e # c => obj'[e] = obj[e] /\ want'[e] = want[e]
      /\ pc = "turn" /\ status[c] = "running"
  BY AwaitablesAssumption DEF StartWait, Running, TypeOK
<1>2. o \in Waits \/ o \notin Reachable
  <2>1. PICK reuse \in IF FreeWaits = {} THEN {NoObject} ELSE FreeWaits : Takes(reuse, o)
    BY DEF StartWait
  <2>2. reuse = NoObject \/ reuse \in Waits
    BY <2>1 DEF FreeWaits
  <2> QED BY <2>1, <2>2 DEF Takes
<1>3. \A e \in Device : prev[e] # o
  BY <1>2 DEF CInv, LastIsOwn, Reachable
<1>4. \A e \in Coroutine : e # c => obj[e] # o
  BY <1>1 DEF HInv, HoldsAlone
<1>5. \A e \in Coroutine : want[e] \in Nat /\ want[e] <= ops
  <2>1. \A e \in Coroutine : want[e] <= ops
    BY DEF CInv, Numbered
  <2>2. \A e \in Coroutine : want[e] \in 0..MaxOps
    BY DEF TypeOK
  <2> QED BY <2>1, <2>2, AwaitablesAssumption
<1>6. \A e \in Device : hw[e].op \in Nat /\ hw[e].op <= ops
  <2>1. \A e \in Device : hw[e].op <= ops
    BY DEF CInv, Numbered
  <2>2. \A e \in Device : hw[e].op \in 0..MaxOps
    BY DEF TypeOK
  <2> QED BY <2>1, <2>2, AwaitablesAssumption
<1>7. Numbered'
  <2>1. \A e \in Device : hw'[e].op <= ops'
    BY <1>1, <1>6
  <2>2. \A e \in Coroutine : want'[e] <= ops'
    BY <1>1, <1>5
  <2>3. \A e \in Coroutine : status'[e] = "created" => want'[e] = 0
    BY <1>1 DEF CInv, Numbered
  <2> QED BY <2>1, <2>2, <2>3 DEF Numbered
<1>8. LastIsOwn'
  <2>1. /\ \A e \in Device : prev'[e] \notin Waits
        /\ \A e, f \in Device : e # f /\ prev'[e] # NoObject => prev'[f] # prev'[e]
    BY <1>1 DEF CInv, LastIsOwn
  <2>2. \A e \in Device : prev'[e] # NoObject => parent'[prev'[e]] \in {e, "SENTINEL", "NULL"}
    <3> SUFFICES ASSUME NEW e \in Device, prev'[e] # NoObject
                 PROVE  parent'[prev'[e]] \in {e, "SENTINEL", "NULL"}
      OBVIOUS
    <3>1. prev'[e] = prev[e] /\ prev[e] \in Object /\ prev[e] # o
      BY <1>1, <1>3 DEF TypeOK
    <3>2. parent[prev[e]] \in {e, "SENTINEL", "NULL"}
      BY <3>1 DEF CInv, LastIsOwn
    <3> QED BY <3>1, <3>2, <1>1
  <2>3. ASSUME NEW x \in Object, parent'[x] \in Device PROVE prev'[parent'[x]] = x
    <3>1. x # o /\ parent'[x] = parent[x]
      BY <2>3, <1>1
    <3> QED BY <2>3, <3>1, <1>1 DEF CInv, LastIsOwn
  <2> QED BY <2>1, <2>2, <2>3 DEF LastIsOwn
<1>9. ASSUME NEW f \in Coroutine, NEW e \in Device, obj'[f] # NoObject,
             hw'[e].op = want'[f] \/ parent'[obj'[f]] = e
      PROVE  /\ f # c /\ obj'[f] = obj[f] /\ want'[f] = want[f]
             /\ parent'[obj[f]] = parent[obj[f]]
  <2>1. f # c
    BY <1>9, <1>1, <1>6
  <2> QED BY <1>9, <2>1, <1>1, <1>4 DEF TypeOK
<1>a. HeldIsTold'
  BY <1>1, <1>9 DEF CInv, HeldIsTold
<1>b. ToldIsMoved'
  BY <1>1, <1>9 DEF CInv, ToldIsMoved
<1>c. CancelledIsStopped'
  BY <1>1, <1>5 DEF CInv, CancelledIsStopped
<1> QED BY <1>7, <1>8, <1>a, <1>b, <1>c DEF CInv

------------------------------------------------------------------------------
(* Nothing moves and nobody waits when the program starts.                 *)
LEMMA CancellationInit == Init => CInv
<1> SUFFICES ASSUME Init PROVE CInv
  OBVIOUS
<1>1. HInv
  BY HoldingInit
<1>2. /\ NoObject \notin Waits
      /\ {"NULL", "SENTINEL", "wait", "yield"} \intersect Device = {}
  BY AwaitablesAssumption
<1>3. Numbered /\ LastIsOwn /\ HeldIsTold /\ ToldIsMoved /\ CancelledIsStopped
  BY <1>2 DEF Init, Numbered, LastIsOwn, HeldIsTold, ToldIsMoved, CancelledIsStopped
<1> QED BY <1>1, <1>3 DEF CInv

(* Every step keeps the invariant: it settles or starts something.         *)
LEMMA CancellationNext == CInv /\ [Next]_vars => CInv'
<1> SUFFICES ASSUME CInv, [Next]_vars PROVE CInv'
  OBVIOUS
<1>1. HInv'
  BY HoldingNext DEF CInv
<1>2. CASE UNCHANGED vars
  BY <1>2 DEF vars, CInv, HInv, TypeOK, AwaitsOwnOperation, HoldsAlone, AwaitingHolds,
              Numbered, LastIsOwn, HeldIsTold, ToldIsMoved, CancelledIsStopped
<1>3. CASE Iterate \/ Close \/ TurnGoesOn \/ NextRound
  BY <1>1, <1>3, SettlesKeeps, IterateSettles, CloseSettles, TurnSettles
<1>4. ASSUME NEW d \in Device, OperationCompletes(d) \/ Unplugged(d) PROVE CInv'
  BY <1>1, <1>4, SettlesKeeps, StopSettles
<1>5. CASE Starts
  BY <1>1, <1>5, StartOperationKeeps, StartWaitKeeps DEF Starts
<1>6. ASSUME NEW d \in Device, Command(d) PROVE CInv'
  <2>1. CASE RunForever(d)
    BY <1>1, <2>1, MovesKeeps DEF RunForever, Doing, Controlled
  <2>2. CASE StartWithoutWaiting(d) \/ DirectCommand(d)
    BY <1>1, <2>2, MovesKeeps DEF StartWithoutWaiting, DirectCommand, Doing, Controlled
  <2>3. CASE StopCommand(d)
    BY <1>1, <2>3, SettlesKeeps, StopSettles
  <2> QED BY <1>6, <2>1, <2>2, <2>3 DEF Command
<1>7. ASSUME NEW d \in Device, ProgramOperates(d) PROVE CInv'
  BY <1>1, <1>7, MovesKeeps DEF ProgramOperates, Doing, Controlled
<1>8. CASE \/ ProgramUnblocked \/ ProgramInterrupted \/ RunLoopInterrupted
           \/ \E race \in BOOLEAN : RunTask(race)
  BY <1>1, <1>8, SettlesKeeps, ProgramSettles
<1> QED BY <1>2, <1>3, <1>4, <1>5, <1>6, <1>7, <1>8
        DEF Next, Program, CoroutineCommands, ProgramCommands

(* So it always holds. *)
LEMMA CancellationInvariant == Spec => []CInv
BY CancellationInit, CancellationNext, PTL DEF Spec

(* What a cancelled coroutine waited for does not go on without it: close   *)
(* in pb_type_async.c stops the device if the awaitable still is its own.  *)
THEOREM CancelledStops == Spec => []CancelledIsStopped
<1>1. CInv => CancelledIsStopped
  BY DEF CInv
<1> QED BY CancellationInvariant, <1>1, PTL

(* Cancelling a coroutine stops no operation that is newer than its own, of *)
(* whichever coroutine, if its awaitable was told of that one: to be told   *)
(* is to be exhausted. All that it may stop are commands that tell no       *)
(* awaitable: direct ones, and operations with wait=False.                  *)
THEOREM ToldOperationsWin == Spec => ToldOperationWins
<1>1. ASSUME CInv, [Next]_vars, NEW c \in Coroutine, NEW d \in Device,
             status[c] = "awaiting", status'[c] = "closed", hw'[d] # hw[d]
      PROVE  hw[d].op = want[c] \/ hw[d].doing \in {"direct", "untold"}
  <2> TypeOK /\ {"NULL", "SENTINEL", "wait", "yield"} \intersect Device = {}
    BY <1>1, AwaitablesAssumption DEF CInv, HInv
  <2>1. \E e \in Coroutine : CloseAwaiting(e)
    BY <1>1 DEF TypeOK, Next, vars,
          Iterate, IterateStopped, IterateOnce, IterateAgain, IterateDone, IterateFails, Resume,
          Close, CloseFinished, CloseUnstarted, CloseRaises,
          TurnGoesOn, FirstTurn, Await, Return, Raise, NextRound,
          Starts, StartOperation, StartWait,
          Program, CoroutineCommands, ProgramCommands, ProgramOperates, ProgramUnblocked,
          ProgramInterrupted, RunTask, RunLoopInterrupted,
          Command, RunForever, StartWithoutWaiting, DirectCommand, StopCommand,
          OperationCompletes, Unplugged
  <2>2. PICK e \in Coroutine : CloseAwaiting(e)
    BY <2>1
  <2>3. e = c
    BY <1>1, <2>2 DEF CloseAwaiting, TypeOK
  <2>4. /\ pc = "close" /\ obj[c] # NoObject /\ Awaited(c) = parent[obj[c]]
        /\ IF Awaited(c) \in Device THEN Stopped(Awaited(c)) ELSE UNCHANGED hw
    BY <1>1, <2>2, <2>3 DEF CloseAwaiting, Closes, Awaited, CInv, HInv, AwaitingHolds
  <2>5. Awaited(c) \in Device /\ Stopped(Awaited(c))
    BY <1>1, <2>4
  <2>6. parent[obj[c]] = d
    BY <1>1, <2>4, <2>5, StoppedType
  <2>7. hw[d].doing # "idle"
    BY <1>1, <2>4, <2>5, <2>6 DEF Stopped, TypeOK, Doing, Controlled
  <2> QED BY <1>1, <2>4, <2>6, <2>7 DEF CInv, ToldIsMoved, TypeOK, Doing, Controlled
<1>2. CInv /\ [Next]_vars =>
        [\A c \in Coroutine, d \in Device :
            status[c] = "awaiting" /\ status'[c] = "closed" /\ hw'[d] # hw[d]
                => hw[d].op = want[c] \/ hw[d].doing \in {"direct", "untold"}]_vars
  BY <1>1
<1> QED BY CancellationInvariant, <1>2, PTL DEF Spec, ToldOperationWins
------------------------------------------------------------------------------
(* Who is left in a collection: all tasks while it goes on, only those that *)
(* have not been reached while tasks are closed, and nobody when it is over. *)
Left == {"created", "running", "awaiting"}

TasksInv ==
    /\ pc \in {"sync", "blocked"} => \A c \in Coroutine : status[c] \notin Left
    /\ pc \in {"between", "close"} => \A c \in Coroutine : status[c] # "running"
    /\ pc = "turn" => \A c \in Coroutine : status[c] = "running" => c = cur
    /\ pc = "close" => \A c \in Coroutine : c < cur => status[c] \notin Left
    /\ pc = "close" /\ failing => \E c \in Coroutine : status[c] = "raised"

(* A race goes on until somebody has won, and then somebody has won it.    *)
WinnersInv == required = 1 =>
    /\ pc \in {"turn", "between"} => Done = {}
    /\ \E w \in Coroutine : Done \subseteq {w}

(* A program starts without coroutines.                                    *)
LEMMA TasksInit == Init => TasksInv /\ WinnersInv
<1> 1 \in Coroutine
  BY AwaitablesAssumption
<1> QED BY DEF Init, TasksInv, WinnersInv, Left, Done

(* How many coroutines there are in a set of them. *)
LEMMA CoroutineSets ==
    ASSUME NEW S \in SUBSET Coroutine
    PROVE  /\ Cardinality(S) \in Nat /\ (S # {} => Cardinality(S) >= 1)
           /\ Cardinality(S) >= N => S = Coroutine
<1>1. N \in Nat /\ 1 \in Int /\ N \in Int /\ N >= 1
  BY AwaitablesAssumption
<1>2. IsFiniteSet(1..N) /\ Cardinality(1..N) = N
  <2>1. IsFiniteSet(1..N) /\ Cardinality(1..N) = IF 1 > N THEN 0 ELSE N - 1 + 1
    BY <1>1, FS_Interval
  <2> QED BY <1>1, <2>1
<1>3. IsFiniteSet(S) /\ Cardinality(S) <= N /\ (Cardinality(S) = N => S = 1..N)
  BY <1>2, FS_Subset
<1>4. Cardinality(S) \in Nat
  BY <1>3, FS_CardinalityType
<1>5. S # {} => Cardinality(S) # 0
  BY <1>3, FS_EmptySet
<1> QED BY <1>1, <1>3, <1>4, <1>5

(* After a round in which not enough tasks finished, the collection goes   *)
(* on; it is over when all of them have returned.                          *)
LEMMA AdvanceTasks ==
    ASSUME TypeOK, TypeOK', NEW done \in SUBSET Coroutine, Advance(done), done = Done',
           \A c \in Coroutine : status'[c] # "running",
           required = 1 => done = {}
    PROVE  TasksInv' /\ WinnersInv'
<1>1. /\ Cardinality(done) \in Nat /\ (Cardinality(done) >= N => done = Coroutine)
      /\ (done = {} => Cardinality(done) = 0)
  BY CoroutineSets, FS_EmptySet
<1>2. required' = required /\ required \in {1, N} /\ N \in Nat \ {0}
  BY AwaitablesAssumption DEF Advance, TypeOK
<1>3. pc' \in {"turn", "between"} \/ (pc' = "sync" /\ done = Coroutine)
  BY <1>1, <1>2 DEF Advance
<1>4. TasksInv'
  BY <1>3 DEF TasksInv, Left, Done
<1>5. 1 \in Coroutine
  BY <1>2
<1> QED BY <1>2, <1>4, <1>5 DEF WinnersInv

(* A turn that goes on leaves one coroutine running, and the first winner  *)
(* of a race ends it.                                                      *)
LEMMA TasksTurn ==
    ASSUME TypeOK, TypeOK', TasksInv, WinnersInv, TurnGoesOn \/ NextRound
    PROVE  TasksInv' /\ WinnersInv'
<1>1. CASE FirstTurn
  <2>1. /\ pc = "turn" /\ UNCHANGED loopVars /\ status[cur] = "created" /\ cur \in Coroutine
        /\ status' = [status EXCEPT ![cur] = "running"]
    BY <1>1 DEF FirstTurn, TypeOK
  <2>2. Done' = Done
    BY <2>1 DEF Done, TypeOK
  <2> QED BY <2>1, <2>2 DEF TasksInv, WinnersInv, TypeOK
<1>2. CASE NextRound
  <2>1. pc = "between" /\ pc' = "turn" /\ UNCHANGED <<required, failing, status>>
    BY <1>2 DEF NextRound
  <2> QED BY <2>1 DEF TasksInv, WinnersInv, Done
<1>3. ASSUME NEW c \in Coroutine, Await(c) PROVE TasksInv' /\ WinnersInv'
  <2>1. /\ pc = "turn" /\ UNCHANGED loopVars /\ status[c] = "running"
        /\ status' = [status EXCEPT ![c] = "awaiting"]
    BY <1>3 DEF Await, Running
  <2>2. Done' = Done
    BY <2>1 DEF Done, TypeOK
  <2> QED BY <2>1, <2>2 DEF TasksInv, WinnersInv, TypeOK
<1>4. ASSUME NEW c \in Coroutine, Return(c) PROVE TasksInv' /\ WinnersInv'
  <2> DEFINE done == Done \union {c}
             upTo == {i \in done : i <= c}
  <2>1. /\ pc = "turn" /\ c = cur /\ status' = [status EXCEPT ![c] = "returned"]
        /\ IF Cardinality(upTo) >= required THEN CloseAll(FALSE) ELSE Advance(done)
    BY <1>4 DEF Return, Running
  <2>2. done = Done' /\ \A e \in Coroutine : status'[e] # "running"
    BY <2>1 DEF Done, TypeOK, TasksInv
  <2>3. required = 1 => Done = {}
    BY <2>1 DEF WinnersInv
  <2>4. CASE CloseAll(FALSE)
    <3>1. /\ pc' = "close" /\ cur' = 1 /\ failing' = FALSE /\ required' = required
      BY <2>4 DEF CloseAll
    <3>2. \A e \in Coroutine : ~(e < 1)
      OBVIOUS
    <3>3. required = 1 => Done' \subseteq {c}
      BY <2>2, <2>3
    <3> QED BY <2>2, <3>1, <3>2, <3>3 DEF TasksInv, WinnersInv
  <2>5. CASE Advance(done) /\ ~(Cardinality(upTo) >= required)
    <3>1. c \in upTo /\ upTo \in SUBSET Coroutine /\ done \in SUBSET Coroutine
      BY DEF Done
    <3>2. Cardinality(upTo) >= 1
      BY <3>1, CoroutineSets
    <3>3. required # 1
      BY <2>5, <3>2
    <3> HIDE DEF done
    <3> QED BY <2>2, <2>5, <3>1, <3>3, AdvanceTasks
  <2> QED BY <2>1, <2>4, <2>5
<1>5. ASSUME NEW c \in Coroutine, Raise(c) PROVE TasksInv' /\ WinnersInv'
  <2>1. /\ pc = "turn" /\ c = cur /\ status[c] = "running"
        /\ status' = [status EXCEPT ![c] = "raised"]
        /\ pc' = "close" /\ cur' = 1 /\ required' = required
    BY <1>5 DEF Raise, Running, CloseAll
  <2>2. Done' = Done
    BY <2>1 DEF Done, TypeOK
  <2>3. /\ status'[c] = "raised" /\ \A e \in Coroutine : status'[e] # "running" /\ ~(e < 1)
    BY <2>1 DEF TypeOK, TasksInv
  <2> QED BY <2>1, <2>2, <2>3 DEF TasksInv, WinnersInv
<1> QED BY <1>1, <1>2, <1>3, <1>4, <1>5 DEF TurnGoesOn

(* A task that awaits goes on to wait, and so does the collection, or it   *)
(* runs.                                                                   *)
LEMMA TasksIterate ==
    ASSUME TypeOK, TypeOK', TasksInv, WinnersInv, Iterate
    PROVE  TasksInv' /\ WinnersInv'
<1> PICK c \in Coroutine : \/ IterateStopped(c) \/ IterateOnce(c) \/ IterateAgain(c)
                           \/ IterateDone(c) \/ IterateFails(c)
  BY DEF Iterate
<1>1. pc = "turn" /\ cur = c /\ status[c] = "awaiting"
  BY DEF IterateStopped, IterateOnce, IterateAgain, IterateDone, IterateFails, Iterating
<1>2. CASE IterateOnce(c) \/ IterateAgain(c)
  <2>1. Advance(Done) /\ status' = status
    BY <1>2 DEF IterateOnce, IterateAgain
  <2>2. Done' = Done /\ Done \in SUBSET Coroutine /\ (required = 1 => Done = {})
    BY <1>1, <2>1 DEF Done, WinnersInv
  <2>3. \A e \in Coroutine : status'[e] # "running"
    BY <1>1, <2>1 DEF TasksInv
  <2> QED BY <2>1, <2>2, <2>3, AdvanceTasks
<1>3. CASE IterateStopped(c) \/ IterateDone(c) \/ IterateFails(c)
  <2>1. UNCHANGED loopVars /\ status' = [status EXCEPT ![c] = "running"]
    BY <1>3 DEF IterateStopped, IterateDone, IterateFails, Resume
  <2>2. Done' = Done
    BY <1>1, <2>1 DEF Done, TypeOK
  <2> QED BY <1>1, <2>1, <2>2 DEF TasksInv, WinnersInv, TypeOK
<1> QED BY <1>2, <1>3

(* One task is closed after the other. That a task cannot be closed because *)
(* its drive base is unplugged is an error, after which the tasks are      *)
(* closed again, but a second such error leaves what is not yet closed.    *)
LEMMA TasksClose ==
    ASSUME N <= 2 \/ DriveBases = {}, TypeOK, TypeOK', TasksInv, WinnersInv, Close
    PROVE  TasksInv' /\ WinnersInv'
<1> PICK c \in Coroutine :
         CloseFinished(c) \/ CloseUnstarted(c) \/ CloseAwaiting(c) \/ CloseRaises(c)
  BY DEF Close
<1>0. N \in Nat /\ c \in Nat
  BY AwaitablesAssumption
<1>1. pc = "close" /\ cur = c
  BY DEF CloseFinished, CloseUnstarted, CloseAwaiting, CloseRaises, Closes
<1>2. Done' \subseteq Done
  BY DEF Done, TypeOK, CloseFinished, CloseUnstarted, CloseAwaiting, CloseRaises
<1>3. required' = required
  BY DEF CloseFinished, CloseUnstarted, CloseAwaiting, CloseRaises, AfterClose, CloseAll
<1>4. pc' \in {"close", "sync"}
  BY DEF CloseFinished, CloseUnstarted, CloseAwaiting, CloseRaises, AfterClose, CloseAll
<1>6. WinnersInv'
  BY <1>2, <1>3, <1>4 DEF WinnersInv
<1>7. CASE CloseFinished(c) \/ CloseUnstarted(c) \/ CloseAwaiting(c)
  <2>1. AfterClose
    BY <1>7 DEF CloseFinished, CloseUnstarted, CloseAwaiting
  <2>2. /\ status'[c] \notin Left
        /\ \A e \in Coroutine : /\ e # c => status'[e] = status[e]
                                /\ status[e] = "raised" => status'[e] = "raised"
    BY <1>1, <1>7 DEF CloseFinished, CloseUnstarted, CloseAwaiting, TypeOK, TasksInv, Left
  <2>3. /\ failing' = failing
        /\ (c < N /\ pc' = "close" /\ cur' = c + 1) \/ (~(c < N) /\ pc' = "sync")
    BY <1>1, <2>1 DEF AfterClose
  <2>4. \A e \in Coroutine : e <= c => status'[e] \notin Left
    BY <1>1, <2>2 DEF TasksInv
  <2>5. \A e \in Coroutine : status'[e] # "running"
    BY <1>1, <2>2 DEF TasksInv, Left
  <2>6. CASE c < N /\ pc' = "close" /\ cur' = c + 1
    <3>1. \A e \in Coroutine : e < cur' => status'[e] \notin Left
      BY <1>0, <2>4, <2>6
    <3>2. failing' => \E e \in Coroutine : status'[e] = "raised"
      BY <1>1, <2>2, <2>3 DEF TasksInv
    <3> QED BY <1>6, <2>5, <2>6, <3>1, <3>2 DEF TasksInv
  <2>7. CASE ~(c < N) /\ pc' = "sync"
    <3>1. \A e \in Coroutine : status'[e] \notin Left
      BY <1>0, <2>4, <2>7
    <3> QED BY <1>6, <2>7, <3>1 DEF TasksInv
  <2> QED BY <2>3, <2>6, <2>7
<1>8. CASE CloseRaises(c)
  <2>1. /\ status[c] = "awaiting" /\ status' = [status EXCEPT ![c] = "raised"]
        /\ DriveBases # {}
    BY <1>8, AwaitablesAssumption DEF CloseRaises, CloseFails, Awaited
  <2>2. /\ status'[c] = "raised" /\ \A e \in Coroutine : status'[e] # "running"
    BY <1>1, <2>1 DEF TypeOK, TasksInv
  <2>3. CASE ~failing
    <3>1. pc' = "close" /\ cur' = 1
      BY <1>8, <2>3 DEF CloseRaises, CloseAll
    <3>2. \A e \in Coroutine : ~(e < 1)
      OBVIOUS
    <3> QED BY <1>6, <2>2, <3>1, <3>2 DEF TasksInv
  <2>4. CASE failing
    <3>1. PICK f \in Coroutine : status[f] = "raised"
      BY <1>1, <2>4 DEF TasksInv
    <3>2. N <= 2 /\ f # c
      BY <2>1, <3>1
    <3>3. \A e \in Coroutine : e \in {c, f}
      BY <3>2, AwaitablesAssumption
    <3>4. \A e \in Coroutine : status'[e] = "raised"
      BY <2>1, <3>1, <3>2, <3>3 DEF TypeOK
    <3>5. pc' = "sync"
      BY <1>8, <2>4 DEF CloseRaises
    <3> QED BY <1>6, <3>4, <3>5 DEF TasksInv, Left
  <2> QED BY <2>3, <2>4
<1> QED BY <1>6, <1>7, <1>8

(* Operations and devices do not finish coroutines; a program without a run *)
(* loop has none; a new collection has no winner yet.                      *)
LEMMA TasksOther ==
    ASSUME TypeOK, TasksInv, WinnersInv,
           \/ Starts \/ Program
           \/ \E d \in Device : OperationCompletes(d) \/ Unplugged(d)
    PROVE  TasksInv' /\ WinnersInv'
<1>1. ASSUME UNCHANGED <<cur, required, failing, status>>,
             \/ pc' = pc
             \/ pc \in {"sync", "blocked"} /\ pc' \in {"sync", "blocked"}
      PROVE  TasksInv' /\ WinnersInv'
  BY <1>1 DEF TasksInv, WinnersInv, Done
<1>2. CASE Starts
  BY <1>1, <1>2 DEF Starts, StartOperation, StartWait
<1>3. ASSUME NEW d \in Device,
             \/ CoroutineCommands(d) \/ ProgramCommands(d) \/ ProgramOperates(d)
             \/ OperationCompletes(d) \/ Unplugged(d)
      PROVE  TasksInv' /\ WinnersInv'
  BY <1>1, <1>3 DEF CoroutineCommands, ProgramCommands, ProgramOperates, OperationCompletes,
        Unplugged, Command, RunForever, StartWithoutWaiting, DirectCommand, StopCommand
<1>4. CASE ProgramUnblocked \/ ProgramInterrupted
  BY <1>1, <1>4 DEF ProgramUnblocked, ProgramInterrupted
<1>5. ASSUME NEW race \in BOOLEAN, RunTask(race) PROVE TasksInv' /\ WinnersInv'
  <2>1. pc' = "turn" /\ status' = [c \in Coroutine |-> "created"] /\ 1 \in Coroutine
    BY <1>5, AwaitablesAssumption DEF RunTask
  <2>2. Done' = {}
    BY <2>1 DEF Done
  <2> QED BY <2>1, <2>2 DEF TasksInv, WinnersInv
<1>6. CASE RunLoopInterrupted
  <2>1. /\ pc = "between" /\ pc' = "sync" /\ required' = required
        /\ status' = [c \in Coroutine |->
              IF status[c] \in {"created", "awaiting"} THEN "abandoned" ELSE status[c]]
    BY <1>6 DEF RunLoopInterrupted
  <2>2. Done' \subseteq Done
    BY <2>1 DEF Done
  <2>3. \A c \in Coroutine : status'[c] \notin Left
    BY <2>1 DEF TasksInv, Left
  <2> QED BY <2>1, <2>2, <2>3 DEF TasksInv, WinnersInv
<1> QED BY <1>2, <1>3, <1>4, <1>5, <1>6 DEF Program

(* A race has one winner and every other task of a collection is cancelled, *)
(* whether it ends by itself or by an exception; with three coroutines or  *)
(* more, if no coroutine awaits a drive base, whose close can fail.        *)
THEOREM OthersCancelled ==
    ASSUME N <= 2 \/ DriveBases = {}
    PROVE  Spec => []OthersAreCancelled
<1>1. TypeOK /\ TypeOK' /\ TasksInv /\ WinnersInv /\ [Next]_vars => TasksInv' /\ WinnersInv'
  <2> SUFFICES ASSUME TypeOK, TypeOK', TasksInv, WinnersInv, [Next]_vars
               PROVE  TasksInv' /\ WinnersInv'
    OBVIOUS
  <2>1. CASE UNCHANGED vars
    BY <2>1 DEF vars, TasksInv, WinnersInv, Done
  <2> QED BY <2>1, TasksTurn, TasksIterate, TasksClose, TasksOther DEF Next
<1>2. TasksInv /\ WinnersInv => OthersAreCancelled
  <2> SUFFICES ASSUME TasksInv, WinnersInv, pc = "sync", required = 1
               PROVE  Cardinality(Done) <= 1
    BY DEF OthersAreCancelled, TasksInv, Left
  <2>1. PICK w \in Coroutine : Done \subseteq {w}
    BY DEF WinnersInv
  <2>2. Done = {} \/ Done = {w}
    BY <2>1
  <2>3. Cardinality({}) = 0 /\ Cardinality({w}) = 1
    BY FS_EmptySet, FS_Singleton
  <2> QED BY <2>2, <2>3
<1> QED BY TasksInit, <1>1, <1>2, TypeCorrect, PTL DEF Spec
==============================================================================
