------------------------------ MODULE Awaitables ------------------------------
(* Awaitable operations of a user program: the awaitable objects of        *)
(* pybricks/tools/pb_type_async.c, the collections all and race of         *)
(* pb_type_task.c, the run loop and the waits of pb_module_tools.c, and    *)
(* the way Motor and DriveBase methods use them.                           *)
(*                                                                         *)
(* The program runs one collection of coroutines at a time. A coroutine    *)
(* starts operations on devices, awaits them right away, later or never,   *)
(* returns, raises, and catches what it awaits. Control loops of devices   *)
(* run between any two steps. Coroutines are numbered in the order in      *)
(* which the collection iterates them.                                     *)
EXTENDS Integers, FiniteSets

CONSTANTS
    Device,         \* motors and drive bases
    DriveBases,     \* the devices that are drive bases, not motors
    Object,         \* memory for awaitable objects (a bound: the heap)
    Waits,          \* the statically allocated ones
    NoObject,
    N,              \* coroutines of a collection
    MaxOps          \* bound: operations started

ASSUME AwaitablesAssumption ==
    /\ DriveBases \subseteq Device
    /\ Waits \subseteq Object /\ NoObject \notin Object
    /\ {"NULL", "SENTINEL", "wait", "yield"} \intersect Device = {}
    /\ N \in Nat \ {0} /\ MaxOps \in Nat

VARIABLES
    pc,        \* where the program is, see Location
    cur,       \* coroutine iterated or closed by the collection
    required,  \* num_tasks_required: 1 in a race
    failing,   \* tasks are closed because of an exception
    status,    \* of each coroutine, see Status
    obj,       \* the awaitable object each coroutine holds or awaits
    want,      \* history: the operation for which it got that object
    parent,    \* parent_obj, and iter_once, of each awaitable object
    op,        \* history: the operation for which an object was last set up
    prev,      \* last_awaitable of each device
    hw,        \* what each device does, and for which operation
    connected, \* run_update_loop: no cable was unplugged
    ops        \* counts operations

loopVars == <<pc, cur, required, failing>>
coroVars == <<status, obj, want>>
asyncVars == <<parent, op, prev>>
devVars == <<hw, connected>>
vars == <<loopVars, coroVars, asyncVars, devVars, ops>>

Coroutine == 1..N

(* sync and blocked: no run loop is active, and a blocking call waits.     *)
(* between: the run loop is active and runs system processes. turn: the    *)
(* coroutine cur runs. close: the collection closes its tasks.             *)
Location == {"sync", "blocked", "between", "turn", "close"}

Status == {"none", "created", "running", "awaiting", "returned", "raised", "closed",
           "abandoned"}

(* untold: a controlled operation of which the awaitable of the device was *)
(* not told. direct: no controlled operation.                              *)
Controlled == {"moving", "untold"}
Doing == {"idle", "direct"} \union Controlled

TypeOK ==
    /\ pc \in Location /\ cur \in Coroutine /\ required \in {1, N} /\ failing \in BOOLEAN
    /\ status \in [Coroutine -> Status]
    /\ obj \in [Coroutine -> Object \union {NoObject}]
    /\ want \in [Coroutine -> 0..MaxOps]
    /\ parent \in [Object -> Device \union {"NULL", "SENTINEL", "wait", "yield"}]
    /\ op \in [Object -> 0..MaxOps]
    /\ prev \in [Device -> Object \union {NoObject}]
    /\ hw \in [Device -> [doing : Doing, op : 0..MaxOps]]
    /\ connected \in [Device -> BOOLEAN]
    /\ ops \in 0..MaxOps

(* A program starts: pb_module_tools_init, new device objects. *)
Init ==
    /\ pc = "sync" /\ cur = 1 /\ required = 1 /\ failing = FALSE
    /\ status = [c \in Coroutine |-> "none"]
    /\ obj = [c \in Coroutine |-> NoObject]
    /\ want = [c \in Coroutine |-> 0]
    /\ parent = [o \in Object |-> "NULL"]
    /\ op = [o \in Object |-> 0]
    /\ prev = [d \in Device |-> NoObject]
    /\ hw = [d \in Device |-> [doing |-> "idle", op |-> 0]]
    /\ connected = [d \in Device |-> TRUE]
    /\ ops = 0

------------------------------------------------------------------------------
(* pb_type_async.c *)

(* The object is free at once, before its awaiter has noticed. *)
ScheduleStopFrees(o) ==
    IF o = NoObject \/ parent[o] = "NULL" THEN parent
    ELSE [parent EXCEPT ![o] = "NULL"]

ScheduleStopForgotten(o) == parent

(* schedule_stop_iteration, given parent_obj of all objects. *)
ScheduleStop(o) ==
    IF o = NoObject \/ parent[o] = "NULL" THEN parent
    ELSE [parent EXCEPT ![o] = "SENTINEL"]

(* The object of wait_or_await: the candidate when it is free, or else     *)
(* memory that nothing refers to, of which it is no matter which it is.    *)
Reachable == Waits \union {prev[d] : d \in Device} \union {obj[c] : c \in Coroutine}

Takes(candidate, o) ==
    IF candidate # NoObject /\ ScheduleStop(candidate)[candidate] = "NULL"
      THEN o = candidate
      ELSE o \in Object \ Reachable /\ o = CHOOSE m \in Object \ Reachable : TRUE

(* An operation starts on a device by itself: its hardware does it. *)
Drives(d, doing) ==
    /\ ops < MaxOps /\ connected[d]
    /\ ops' = ops + 1
    /\ hw' = [hw EXCEPT ![d] = [doing |-> doing, op |-> ops + 1]]

Running(c) == pc = "turn" /\ cur = c /\ status[c] = "running"

(* motor_wait_or_await and the like: a method that takes time, called by a *)
(* coroutine that waits for it.                                            *)
StartOperation(c, d, o) ==
    /\ Running(c)
    /\ Drives(d, "moving")
    /\ Takes(prev[d], o)
    /\ parent' = [ScheduleStop(prev[d]) EXCEPT ![o] = d]
    /\ op' = [op EXCEPT ![o] = ops']
    /\ prev' = [prev EXCEPT ![d] = o]
    /\ obj' = [obj EXCEPT ![c] = o]
    /\ want' = [want EXCEPT ![c] = ops']
    /\ UNCHANGED <<loopVars, status, connected>>

(* tools.wait: a wait object that is free, if any; yield is a wait of 0.   *)
FreeWaits == {w \in Waits : parent[w] = "NULL"}

StartWait(c, kind, o) ==
    /\ Running(c)
    /\ ops < MaxOps /\ ops' = ops + 1
    /\ \E reuse \in IF FreeWaits = {} THEN {NoObject} ELSE FreeWaits : Takes(reuse, o)
    /\ parent' = [parent EXCEPT ![o] = kind]
    /\ op' = [op EXCEPT ![o] = ops']
    /\ obj' = [obj EXCEPT ![c] = o]
    /\ want' = [want EXCEPT ![c] = ops']
    /\ UNCHANGED <<loopVars, status, prev, devVars>>

(* Motor.run, DriveBase.drive and the like: there is nothing to await, and *)
(* the ongoing awaitable stops.                                            *)
RunForever(d) ==
    /\ Drives(d, "moving")
    /\ parent' = ScheduleStop(prev[d])
    /\ UNCHANGED <<loopVars, coroVars, op, prev, connected>>

(* Motor.run_time, DriveBase.straight and the like with wait=False: the    *)
(* operation starts, and the ongoing awaitable is neither stopped nor      *)
(* replaced: it goes on as if the operation were its own.                  *)
StartWithoutWaiting(d) ==
    /\ Drives(d, "untold")
    /\ UNCHANGED <<loopVars, coroVars, asyncVars, connected>>

(* Motor.dc, brake: a command that bypasses the controller, and does not   *)
(* tell the ongoing awaitable.                                             *)
DirectCommand(d) ==
    /\ d \notin DriveBases
    /\ Drives(d, "direct")
    /\ UNCHANGED <<loopVars, coroVars, asyncVars, connected>>

(* Motor.stop, DriveBase.stop: the latter also schedules its awaitable to  *)
(* stop, even if it then fails because a motor is unplugged.               *)
Stopped(d) == hw' = [hw EXCEPT ![d].doing = "idle"]

StopCommand(d) ==
    /\ Stopped(d)
    /\ parent' = IF d \in DriveBases THEN ScheduleStop(prev[d]) ELSE parent
    /\ UNCHANGED <<loopVars, coroVars, op, prev, connected, ops>>

Command(d) ==
    RunForever(d) \/ StartWithoutWaiting(d) \/ DirectCommand(d) \/ StopCommand(d)

CoroutineCommands(d) == (\E c \in Coroutine : Running(c)) /\ Command(d)

------------------------------------------------------------------------------
(* The program without a run loop. *)

ProgramCommands(d) == pc = "sync" /\ Command(d)

(* A method that takes time waits for completion here. *)
ProgramOperates(d) ==
    /\ pc = "sync"
    /\ Drives(d, "moving")
    /\ pc' = "blocked"
    /\ UNCHANGED <<cur, required, failing, coroVars, asyncVars, connected>>

ProgramUnblocked ==
    /\ pc = "blocked"
    /\ \E d \in Device : hw[d].op = ops /\ hw[d].doing # "moving"
    /\ pc' = "sync"
    /\ UNCHANGED <<cur, required, failing, coroVars, asyncVars, devVars, ops>>

(* SystemExit in such a method, which the program may catch. *)
ProgramInterrupted ==
    /\ pc = "blocked"
    /\ pc' = "sync"
    /\ UNCHANGED <<cur, required, failing, coroVars, asyncVars, devVars, ops>>

(* run_task(multitask(...)) with new coroutines. *)
RunTask(race) ==
    /\ pc = "sync"
    /\ required' = IF race THEN 1 ELSE N
    /\ failing' = FALSE
    /\ status' = [c \in Coroutine |-> "created"]
    /\ obj' = [c \in Coroutine |-> NoObject]
    /\ want' = [c \in Coroutine |-> 0]
    /\ pc' = "turn" /\ cur' = 1
    /\ UNCHANGED <<asyncVars, devVars, ops>>

------------------------------------------------------------------------------
(* pb_type_Task_iternext: one iteration of each task. *)

Done == {c \in Coroutine : status[c] = "returned"}

First(S) == {i \in S : \A j \in S : i <= j}

(* On to the next task, or the end of this iteration. *)
Advance(done) ==
    LET rest == {c \in Coroutine \ done : c > cur}
    IN  /\ pc' = IF rest # {} THEN "turn"
                 ELSE IF Cardinality(done) < required THEN "between" ELSE "sync"
        /\ IF rest # {} THEN cur' \in First(rest) ELSE cur' = cur
        /\ UNCHANGED <<required, failing>>

CloseAll(error) == pc' = "close" /\ cur' = 1 /\ failing' = error /\ UNCHANGED required

NextRound ==
    /\ pc = "between"
    /\ pc' = "turn" /\ cur' \in First(Coroutine \ Done)
    /\ UNCHANGED <<required, failing, coroVars, asyncVars, devVars, ops>>

FirstTurn ==
    /\ pc = "turn" /\ status[cur] = "created"
    /\ status' = [status EXCEPT ![cur] = "running"]
    /\ UNCHANGED <<loopVars, obj, want, asyncVars, devVars, ops>>

(* The coroutine awaits what it holds. *)
Await(c) ==
    /\ Running(c) /\ obj[c] # NoObject
    /\ status' = [status EXCEPT ![c] = "awaiting"]
    /\ UNCHANGED <<loopVars, obj, want, asyncVars, devVars, ops>>

(* The iteration is finished although enough tasks are done. *)
ReturnFinishesRound(c) ==
    /\ Running(c)
    /\ status' = [status EXCEPT ![c] = "returned"]
    /\ obj' = [obj EXCEPT ![c] = NoObject] /\ want' = [want EXCEPT ![c] = 0]
    /\ Advance(Done \union {c})
    /\ UNCHANGED <<asyncVars, devVars, ops>>

Return(c) ==
    /\ Running(c)
    /\ status' = [status EXCEPT ![c] = "returned"]
    /\ obj' = [obj EXCEPT ![c] = NoObject] /\ want' = [want EXCEPT ![c] = 0]
    /\ LET done == Done \union {c}
       IN  IF Cardinality({i \in done : i <= c}) >= required
             THEN CloseAll(FALSE) ELSE Advance(done)
    /\ UNCHANGED <<asyncVars, devVars, ops>>

(* An exception of its own, of a method it calls, or SystemExit. *)
Raise(c) ==
    /\ Running(c)
    /\ status' = [status EXCEPT ![c] = "raised"]
    /\ obj' = [obj EXCEPT ![c] = NoObject] /\ want' = [want EXCEPT ![c] = 0]
    /\ CloseAll(TRUE)
    /\ UNCHANGED <<asyncVars, devVars, ops>>

------------------------------------------------------------------------------
(* pb_type_async_iternext, for the coroutine whose turn it is. *)

Iterating(c) == pc = "turn" /\ cur = c /\ status[c] = "awaiting"

(* The await is over and the coroutine goes on. *)
Resume(c) ==
    /\ status' = [status EXCEPT ![c] = "running"]
    /\ obj' = [obj EXCEPT ![c] = NoObject] /\ want' = [want EXCEPT ![c] = 0]
    /\ UNCHANGED loopVars

(* motor_run_iterate_once: the controller of a device that is unplugged    *)
(* fails; it is done when there is no control or it is complete.           *)
Fails(p) == p \in Device /\ ~connected[p]

MayBeDone(p) == p = "wait" \/ (p \in Device /\ connected[p] /\ hw[p].doing \notin Controlled)

MayGoOn(p) == p = "wait" \/ (p \in Device /\ connected[p] /\ hw[p].doing \in Controlled)

(* The stop is only noticed by an operation that is not under way. *)
IterateStoppedLate(c) ==
    /\ Iterating(c)
    /\ parent[obj[c]] = "NULL"
    /\ Resume(c)
    /\ UNCHANGED <<asyncVars, devVars, ops>>

IterateStopped(c) ==
    /\ Iterating(c)
    /\ parent[obj[c]] \in {"SENTINEL", "NULL"}
    /\ parent' = [parent EXCEPT ![obj[c]] = "NULL"]
    /\ Resume(c)
    /\ UNCHANGED <<op, prev, devVars, ops>>

IterateOnce(c) ==
    /\ Iterating(c)
    /\ parent[obj[c]] = "yield"
    /\ parent' = ScheduleStop(obj[c])
    /\ Advance(Done)
    /\ UNCHANGED <<coroVars, op, prev, devVars, ops>>

IterateAgain(c) ==
    /\ Iterating(c)
    /\ MayGoOn(parent[obj[c]])
    /\ Advance(Done)
    /\ UNCHANGED <<coroVars, asyncVars, devVars, ops>>

IterateDone(c) ==
    /\ Iterating(c)
    /\ MayBeDone(parent[obj[c]])
    /\ parent' = [parent EXCEPT ![obj[c]] = "NULL"]
    /\ Resume(c)
    /\ UNCHANGED <<op, prev, devVars, ops>>

(* The error is raised in the coroutine, which catches it or raises it     *)
(* next; the object stays as it is.                                        *)
IterateFails(c) ==
    /\ Iterating(c)
    /\ Fails(parent[obj[c]])
    /\ Resume(c)
    /\ UNCHANGED <<asyncVars, devVars, ops>>

------------------------------------------------------------------------------
(* pb_type_Task_close: one task after the other. A coroutine that is       *)
(* closed closes what it awaits: pb_type_async_close.                      *)

AfterCloseOffByOne ==
    /\ IF cur <= N THEN pc' = "close" /\ cur' = cur + 1 ELSE pc' = "sync" /\ cur' = cur
    /\ UNCHANGED <<required, failing>>

AfterClose ==
    /\ IF cur < N THEN pc' = "close" /\ cur' = cur + 1 ELSE pc' = "sync" /\ cur' = cur
    /\ UNCHANGED <<required, failing>>

Awaited(c) == IF status[c] = "awaiting" THEN parent[obj[c]] ELSE "NULL"

CloseFails(c) == Awaited(c) \in DriveBases /\ ~connected[Awaited(c)]

Closes(c) == pc = "close" /\ cur = c

(* Finished in one way or another: closing it changes nothing. *)
CloseFinished(c) ==
    /\ Closes(c) /\ status[c] \notin {"created", "awaiting"}
    /\ AfterClose
    /\ UNCHANGED <<coroVars, asyncVars, devVars, ops>>

CloseUnstarted(c) ==
    /\ Closes(c) /\ status[c] = "created"
    /\ status' = [status EXCEPT ![c] = "closed"]
    /\ AfterClose
    /\ UNCHANGED <<obj, want, asyncVars, devVars, ops>>

(* The object is marked as exhausted before it is looked at. *)
CloseAwaitingMarksFirst(c) ==
    /\ Closes(c) /\ status[c] = "awaiting" /\ ~CloseFails(c)
    /\ parent' = [parent EXCEPT ![obj[c]] = "NULL"]
    /\ status' = [status EXCEPT ![c] = "closed"]
    /\ obj' = [obj EXCEPT ![c] = NoObject]
    /\ AfterClose
    /\ UNCHANGED <<want, op, prev, devVars, ops>>

(* The device is only stopped for an operation that still is its own. *)
CloseAwaiting(c) ==
    /\ Closes(c) /\ status[c] = "awaiting" /\ ~CloseFails(c)
    /\ IF Awaited(c) \in Device THEN Stopped(Awaited(c)) ELSE UNCHANGED hw
    /\ parent' = [parent EXCEPT ![obj[c]] = "NULL"]
    /\ status' = [status EXCEPT ![c] = "closed"]
    /\ obj' = [obj EXCEPT ![c] = NoObject]
    /\ AfterClose
    /\ UNCHANGED <<want, op, prev, connected, ops>>

(* DriveBase.stop schedules its awaitable to stop, then fails. The failure *)
(* is one of the iteration at first, which closes all tasks once more; the *)
(* second time it leaves the collection.                                   *)
CloseRaises(c) ==
    /\ Closes(c) /\ CloseFails(c)
    /\ parent' = ScheduleStop(obj[c])
    /\ status' = [status EXCEPT ![c] = "raised"]
    /\ obj' = [obj EXCEPT ![c] = NoObject]
    /\ IF failing THEN pc' = "sync" /\ UNCHANGED <<cur, required, failing>>
                  ELSE CloseAll(TRUE)
    /\ UNCHANGED <<want, op, prev, devVars, ops>>

(* SystemExit in the run loop itself: the collection is left as it is. *)
RunLoopInterrupted ==
    /\ pc = "between"
    /\ pc' = "sync"
    /\ status' = [c \in Coroutine |->
                     IF status[c] \in {"created", "awaiting"} THEN "abandoned" ELSE status[c]]
    /\ obj' = [c \in Coroutine |-> NoObject]
    /\ UNCHANGED <<cur, required, failing, want, asyncVars, devVars, ops>>

------------------------------------------------------------------------------
(* Devices: control loops run whenever the program waits or runs, but not  *)
(* while tasks are closed.                                                 *)

OperationCompletes(d) ==
    /\ pc # "close"
    /\ hw[d].doing \in Controlled
    /\ Stopped(d)
    /\ UNCHANGED <<loopVars, coroVars, asyncVars, connected, ops>>

(* servo_update_all: the update fails, so the motor coasts. *)
Unplugged(d) ==
    /\ pc # "close"
    /\ connected[d]
    /\ connected' = [connected EXCEPT ![d] = FALSE]
    /\ Stopped(d)
    /\ UNCHANGED <<loopVars, coroVars, asyncVars, ops>>

------------------------------------------------------------------------------
Iterate ==
    \E c \in Coroutine :
        \/ IterateStopped(c) \/ IterateOnce(c) \/ IterateAgain(c)
        \/ IterateDone(c) \/ IterateFails(c)

Close ==
    \E c \in Coroutine :
        CloseFinished(c) \/ CloseUnstarted(c) \/ CloseAwaiting(c) \/ CloseRaises(c)

TurnGoesOn == FirstTurn \/ (\E c \in Coroutine : Await(c) \/ Return(c) \/ Raise(c))

Starts ==
    \E c \in Coroutine, o \in Object :
        \/ \E d \in Device : StartOperation(c, d, o)
        \/ \E kind \in {"wait", "yield"} : StartWait(c, kind, o)

Program ==
    \/ \E d \in Device : CoroutineCommands(d) \/ ProgramCommands(d) \/ ProgramOperates(d)
    \/ ProgramUnblocked \/ ProgramInterrupted \/ (\E race \in BOOLEAN : RunTask(race)) \/ RunLoopInterrupted

Next ==
    \/ Iterate \/ Close \/ TurnGoesOn \/ NextRound \/ Starts \/ Program
    \/ \E d \in Device : OperationCompletes(d) \/ Unplugged(d)

(* The run loop and the collection go on, and no coroutine computes        *)
(* forever without awaiting something.                                     *)
Spec ==
    /\ Init /\ [][Next]_vars
    /\ WF_vars(NextRound) /\ WF_vars(Iterate) /\ WF_vars(Close) /\ WF_vars(TurnGoesOn)

------------------------------------------------------------------------------
(* The awaitable object of a coroutine is the one of the operation that it *)
(* started: no other operation is given that object before the coroutine   *)
(* has seen that it is exhausted.                                          *)
AwaitsOwnOperation ==
    \A c \in Coroutine : obj[c] # NoObject =>
        parent[obj[c]] # "NULL" /\ op[obj[c]] = want[c]

(* A new operation of which the ongoing awaitable is told always wins:     *)
(* cancelling a coroutine then only stops a device that still does what    *)
(* that coroutine waited for. A command that the awaitable is not told of, *)
(* direct or with wait=False, may be stopped.                              *)
ToldOperationWins ==
    [][\A c \in Coroutine, d \in Device :
          status[c] = "awaiting" /\ status'[c] = "closed" /\ hw'[d] # hw[d]
              => hw[d].op = want[c] \/ hw[d].doing \in {"direct", "untold"}]_vars

(* What a cancelled coroutine waited for does not go on without it. *)
CancelledIsStopped ==
    \A c \in Coroutine, d \in Device :
        status[c] = "closed" /\ want[c] # 0 /\ hw[d].op = want[c] => hw[d].doing = "idle"

(* A race has one winner, and every other task was cancelled: nothing of a *)
(* collection that ended by itself, or by an exception, is left behind.    *)
OthersAreCancelled ==
    pc = "sync" =>
        /\ \A c \in Coroutine : status[c] \notin {"created", "running", "awaiting"}
        /\ required = 1 /\ N > 1 => Cardinality(Done) <= 1

(* A coroutine whose operation was taken over notices and goes on, unless  *)
(* the collection ends.                                                    *)
SupersededGoesOn ==
    \A c \in Coroutine :
        status[c] = "awaiting" /\ parent[obj[c]] = "SENTINEL" ~> status[c] # "awaiting"
==============================================================================
