------------------------------- MODULE Wakeups -------------------------------
(* What the event loop of os.c promises to the rest of the firmware:       *)
(* whoever signals a process may forget about it, because a process that   *)
(* has not completed runs at least once after every signal.  Nothing is    *)
(* said of passes, of the poll flag or of the processor's sleep.           *)
CONSTANT Process

VARIABLES
    live,      \* the processes that were started and have not completed
    signalled  \* the processes that have not run since their last signal

vars == <<live, signalled>>

TypeOK == live \subseteq Process /\ signalled \subseteq Process

Init == live = {} /\ signalled = {}

(* A process is started, or started over: it is owed a first run. *)
Start(p) == /\ live' = live \union {p}
            /\ signalled' = signalled \union {p}

(* An interrupt handler or a request has something for p. *)
Signal(p) == /\ signalled' = signalled \union {p}
             /\ UNCHANGED live

(* p runs, and sees everything that was signalled before. *)
Serve(p) == /\ p \in live \intersect signalled
            /\ signalled' = signalled \ {p}
            /\ UNCHANGED live

(* p completes or fails; only a later Start runs it again. *)
Finish(p) == /\ p \in live
             /\ live' = live \ {p}
             /\ UNCHANGED signalled

Next == \E p \in Process : Start(p) \/ Signal(p) \/ Serve(p) \/ Finish(p)

Spec == Init /\ [][Next]_vars /\ \A p \in Process : WF_vars(Serve(p))
==============================================================================
