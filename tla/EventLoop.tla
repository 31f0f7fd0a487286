------------------------------ MODULE EventLoop ------------------------------
(* The cooperative event loop of lib/pbio/src/os.c on one processor core:  *)
(* the list of processes, the poll flag that interrupt handlers and        *)
(* processes set, one pass over the list, and the drain-then-sleep loop    *)
(* that masks interrupts before it decides to wait for one.                *)
(*                                                                         *)
(* A process function is opaque: one call of it looks at the events that   *)
(* were raised for it, may start other processes, make requests of them    *)
(* and request polls, and returns.  An interrupt may come between any two  *)
(* of these steps.  The 1 ms tick is an interrupt like any other, without  *)
(* fairness: nothing below relies on it.                                   *)
EXTENDS Integers, Sequences

CONSTANTS
    Process,    \* the pbio_os_process_t instances
    NoProcess   \* the interrupt sources that only request a poll (the tick)

ASSUME NoProcessAssumption == NoProcess \notin Process

VARIABLES
    list,     \* process_list, in the order of the next pointers
    err,      \* err[p]: "AGAIN" while p is to be run, else "DONE"
    state,    \* state[p]: 0 before p's first run since its start, then 1
    request,  \* request[p]: "NONE" or "CANCEL"
    pending,  \* poll_request_is_pending
    event,    \* the processes for which something happened since they last ran
    pc,       \* where the main thread is in os.c
    caller,   \* who called pbio_os_run_processes_once
    cursor,   \* position in list of the process the pass has reached
    irqOn,    \* whether interrupts are enabled
    latched   \* interrupts raised by hardware whose handler has not run

procVars == <<list, err, state, request>>
irqVars  == <<irqOn, latched>>
passVars == <<pc, caller, cursor>>
vars     == <<procVars, pending, event, passVars, irqVars>>

Source == Process \union {NoProcess}
Location == {"user", "test", "clear", "walk", "func",
             "disable", "decide", "wfi", "enable"}
Caller == {"user", "wait"}

TypeOK ==
    /\ list \in Seq(Process)
    /\ err \in [Process -> {"AGAIN", "DONE"}]
    /\ state \in [Process -> {0, 1}]
    /\ request \in [Process -> {"NONE", "CANCEL"}]
    /\ pending \in BOOLEAN
    /\ event \subseteq Process
    /\ pc \in Location
    /\ caller \in Caller
    /\ cursor \in 0..Len(list) + 1
    /\ irqOn \in BOOLEAN
    /\ latched \subseteq Source

Listed(p) == \E i \in 1..Len(list) : list[i] = p

(* A process in the list that the next pass will call. *)
Live(p) == Listed(p) /\ err[p] = "AGAIN"

Current == list[cursor]

Init ==
    /\ list = <<>>
    /\ err = [p \in Process |-> "DONE"]    \* zeroed storage: PBIO_SUCCESS
    /\ state = [p \in Process |-> 0]
    /\ request = [p \in Process |-> "NONE"]
    /\ pending = FALSE
    /\ event = {}
    /\ pc = "user" /\ caller = "user" /\ cursor = 0
    /\ irqOn = TRUE /\ latched = {}

------------------------------------------------------------------------------
(* Operations that any main-thread code calls. *)

(* A process that was started before is added a second time. *)
AddProcessTwice(p) == list' = Append(list, p)

AddProcess(p) == list' = IF Listed(p) THEN list ELSE Append(list, p)

(* The result of the earlier run is left in place. *)
ProcessStartKeepsResult(p) ==
    /\ AddProcess(p)
    /\ err' = IF state[p] = 0 THEN [err EXCEPT ![p] = "AGAIN"] ELSE err
    /\ state' = [state EXCEPT ![p] = 0]
    /\ request' = [request EXCEPT ![p] = "NONE"]
    /\ pending' = TRUE
    /\ event' = event \union {p}
    /\ UNCHANGED <<passVars, irqVars>>

ProcessStart(p) ==
    /\ AddProcess(p)
    /\ err' = [err EXCEPT ![p] = "AGAIN"]
    /\ state' = [state EXCEPT ![p] = 0]
    /\ request' = [request EXCEPT ![p] = "NONE"]
    /\ pending' = TRUE
    /\ event' = event \union {p}
    /\ UNCHANGED <<passVars, irqVars>>

MakeRequest(p) ==
    /\ request' = [request EXCEPT ![p] = "CANCEL"]
    /\ pending' = TRUE
    /\ event' = event \union {p}
    /\ UNCHANGED <<list, err, state, passVars, irqVars>>

(* Something happened that p waits for, in main-thread code. *)
RequestPoll(p) ==
    /\ pending' = TRUE
    /\ event' = event \union {p}
    /\ UNCHANGED <<procVars, passVars, irqVars>>

------------------------------------------------------------------------------
(* The code around the loop: blocking loops of the firmware and the hooks  *)
(* of the MicroPython virtual machine.                                     *)

UserStart(p)   == pc = "user" /\ ProcessStart(p)
UserRequest(p) == pc = "user" /\ MakeRequest(p)

UserRunsLoop(c) ==
    /\ pc = "user"
    /\ pc' = "test"
    /\ caller' = c
    /\ UNCHANGED <<procVars, pending, event, cursor, irqVars>>

------------------------------------------------------------------------------
(* pbio_os_run_processes_once: it returns to its caller, either once or    *)
(* in the drain loop of pbio_os_run_processes_and_wait_for_event.          *)

ReturnFromOnce(more) ==
    /\ pc' = IF caller = "user" THEN "user" ELSE IF more THEN "test" ELSE "disable"
    /\ UNCHANGED <<procVars, pending, event, caller, cursor, irqVars>>

TestFlag ==
    /\ pc = "test"
    /\ IF pending
         THEN /\ pc' = "clear"
              /\ UNCHANGED <<procVars, pending, event, caller, cursor, irqVars>>
         ELSE ReturnFromOnce(FALSE)

ClearFlag ==
    /\ pc = "clear"
    /\ pending' = FALSE
    /\ cursor' = 1
    /\ pc' = "walk"
    /\ UNCHANGED <<procVars, event, caller, irqVars>>

SkipProcess ==
    /\ pc = "walk" /\ cursor <= Len(list)
    /\ err[Current] # "AGAIN"
    /\ cursor' = cursor + 1
    /\ UNCHANGED <<procVars, pending, event, pc, caller, irqVars>>

(* The function is entered and looks at what happened so far. *)
CallProcess ==
    /\ pc = "walk" /\ cursor <= Len(list)
    /\ err[Current] = "AGAIN"
    /\ event' = event \ {Current}
    /\ state' = [state EXCEPT ![Current] = 1]
    /\ pc' = "func"
    /\ UNCHANGED <<list, err, request, pending, caller, cursor, irqVars>>

(* What a function does between its entry and its return. No function in   *)
(* the firmware starts its own process over.                               *)
FuncStart(q)   == pc = "func" /\ q # Current /\ ProcessStart(q)
FuncRequest(q) == pc = "func" /\ MakeRequest(q)
FuncPoll(q)    == pc = "func" /\ RequestPoll(q)

(* The cursor is advanced by the call as well as by the loop. *)
FuncReturnAdvancesTwice(result) ==
    /\ pc = "func"
    /\ err' = [err EXCEPT ![Current] = result]
    /\ cursor' = cursor + 2
    /\ pc' = "walk"
    /\ UNCHANGED <<list, state, request, pending, event, caller, irqVars>>

(* The result is stored after the function returned. *)
FuncReturn(result) ==
    /\ pc = "func"
    /\ err' = [err EXCEPT ![Current] = result]
    /\ cursor' = cursor + 1
    /\ pc' = "walk"
    /\ UNCHANGED <<list, state, request, pending, event, caller, irqVars>>

(* The flag is cleared after the processes ran, not before. *)
EndOfPassClearsFlag ==
    /\ pc = "walk" /\ cursor > Len(list)
    /\ pc' = IF caller = "user" THEN "user" ELSE "disable"
    /\ pending' = FALSE
    /\ UNCHANGED <<procVars, event, caller, cursor, irqVars>>

EndOfPass ==
    /\ pc = "walk" /\ cursor > Len(list)
    /\ ReturnFromOnce(pending)

------------------------------------------------------------------------------
(* The rest of pbio_os_run_processes_and_wait_for_event. *)

(* The flag is tested again, but with interrupts enabled. *)
DisableIrqForgotten ==
    /\ pc = "disable"
    /\ pc' = "decide"
    /\ UNCHANGED <<procVars, pending, event, caller, cursor, irqVars>>

DisableIrq ==
    /\ pc = "disable"
    /\ irqOn' = FALSE
    /\ pc' = "decide"
    /\ UNCHANGED <<procVars, pending, event, caller, cursor, latched>>

(* The flag is not tested again once interrupts are disabled. *)
DecideToSleepUntested ==
    /\ pc = "decide"
    /\ pc' = "wfi"
    /\ UNCHANGED <<procVars, pending, event, caller, cursor, irqVars>>

DecideToSleep ==
    /\ pc = "decide"
    /\ pc' = IF pending THEN "enable" ELSE "wfi"
    /\ UNCHANGED <<procVars, pending, event, caller, cursor, irqVars>>

(* The core leaves wait-for-interrupt when an interrupt is latched, even   *)
(* though its handler is still masked.                                     *)
WakeUp ==
    /\ pc = "wfi" /\ latched # {}
    /\ pc' = "enable"
    /\ UNCHANGED <<procVars, pending, event, caller, cursor, irqVars>>

EnableIrq ==
    /\ pc = "enable"
    /\ irqOn' = TRUE
    /\ pc' = "user"
    /\ UNCHANGED <<procVars, pending, event, caller, cursor, latched>>

------------------------------------------------------------------------------
(* Interrupts: hardware raises one at any time; its handler runs between   *)
(* two steps of the main thread when interrupts are enabled.               *)

RaiseInterrupt(s) ==
    /\ s \notin latched
    /\ latched' = latched \union {s}
    /\ UNCHANGED <<procVars, pending, event, passVars, irqOn>>

InterruptHandler(s) ==
    /\ irqOn /\ s \in latched
    /\ latched' = latched \ {s}
    /\ event' = event \union ({s} \intersect Process)
    /\ pending' = TRUE
    /\ UNCHANGED <<procVars, passVars, irqOn>>

------------------------------------------------------------------------------
LoopStep ==
    \/ TestFlag \/ ClearFlag
    \/ SkipProcess \/ CallProcess \/ (\E r \in {"AGAIN", "DONE"} : FuncReturn(r))
    \/ EndOfPass
    \/ DisableIrq \/ DecideToSleep \/ WakeUp \/ EnableIrq

UserStep ==
    \/ \E c \in Caller : UserRunsLoop(c)
    \/ \E p \in Process : UserStart(p) \/ UserRequest(p)

FuncStep == \E q \in Process : FuncStart(q) \/ FuncRequest(q) \/ FuncPoll(q)

Next ==
    \/ LoopStep \/ UserStep \/ FuncStep
    \/ \E s \in Source : RaiseInterrupt(s) \/ InterruptHandler(s)

(* The processor keeps executing: the loop advances, functions return,     *)
(* callers come back to the loop, enabled handlers of latched interrupts   *)
(* run. Nobody is obliged to raise an interrupt.                           *)
Fairness ==
    /\ WF_vars(LoopStep)
    /\ WF_vars(\E c \in Caller : UserRunsLoop(c))
    /\ \A s \in Source : WF_vars(InterruptHandler(s))

Spec == Init /\ [][Next]_vars /\ Fairness

------------------------------------------------------------------------------
(* The pass in progress has yet to reach p. *)
Ahead(p) ==
    \E i \in 1..Len(list) :
        /\ list[i] = p
        /\ \/ pc = "walk" /\ cursor <= i
           \/ pc = "func" /\ cursor < i

(* Every event of a process that is to be run is still on its way to it:   *)
(* either a pass is requested or the pass in progress has yet to reach it. *)
(* It breaks when the flag is cleared too late or at the wrong side of the *)
(* walk, whatever moment an interrupt or a start arrives at.               *)
NoLostEvent == \A p \in event : Live(p) => (pending \/ Ahead(p))

(* The core never waits for an interrupt while a process has work to do:   *)
(* a wake-up between the last look at the flag and the wait is not lost.   *)
SleepsOnlyWhenIdle == pc = "wfi" => ~pending /\ \A p \in event : ~Live(p)

(* A process occurs once in the list, however often it is started, so one  *)
(* pass calls it at most once; and a started process is not left out.      *)
ListedOnce ==
    /\ \A i, j \in 1..Len(list) : list[i] = list[j] => i = j
    /\ \A p \in Process : err[p] = "AGAIN" => Listed(p)

(* A start made while the list is being walked, by an earlier or a later   *)
(* process, is not forgotten: until its first call the process stays       *)
(* runnable and a pass is on its way to it.                                *)
StartedWillRun ==
    \A p \in Process :
        state[p] = 0 /\ Listed(p) => err[p] = "AGAIN" /\ p \in event

(* The loop implements Wakeups: every event of a process is eventually     *)
(* seen by a call of its function, without help from the tick.             *)
Promise == INSTANCE Wakeups
    WITH live <- {p \in Process : err[p] = "AGAIN"}, signalled <- event

ImplementsWakeups == Promise!Spec

(* Interrupts are not left masked when the loop returns to its caller or a *)
(* process function runs.                                                  *)
MaskedOnlyToSleep == irqOn = (pc \notin {"decide", "wfi", "enable"})
==============================================================================
