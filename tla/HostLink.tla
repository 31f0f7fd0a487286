-------------------------------- MODULE HostLink --------------------------------
(* What the rest of the hub sends to hosts, sys/host.c, over both transports: *)
(* USB in detail, Bluetooth as the notifications of drv/bluetooth.  Tasks of  *)
(* the program write to stdout and send application data.  All of this runs   *)
(* between two runs of the USB process, never amid one.                       *)
EXTENDS Usb

CONSTANT Sender  \* tasks that call AppData.write_bytes

Transport == {"ble", "usb"}
Failure == {"INVALID_OP", "BUSY"}

VARIABLES
    ble,       \* connected, the app data that waits or is sent, and what arrived
    err,       \* ble_err and usb_err, shared by all calls of send_event
    awaiting,  \* whether a task awaits its call
    sent,      \* what its last call was to send
    outcome,   \* what that call returned
    cut        \* a connection ended since the last call began

callVars == <<err, awaiting, sent, outcome, cut>>
linkVars == <<ble, err, awaiting, sent, outcome, cut>>
vars == <<usbVars, linkVars>>

TypeOK ==
    /\ UsbTypeOK
    /\ ble \in [connected : BOOLEAN, noti : 0..MaxInputs, got : SUBSET Id]
    /\ err \in [Transport -> Failure \union {"AGAIN", "SUCCESS"}]
    /\ awaiting \in [Sender -> BOOLEAN] /\ cut \in BOOLEAN
    /\ sent \in [Sender -> 0..MaxInputs]
    /\ outcome \in [Sender -> Failure \union {"none", "SUCCESS"}]

NoErrors == [t \in Transport |-> "SUCCESS"]

Init ==
    /\ UsbInit
    /\ ble \in [connected : BOOLEAN, noti : {NoId}, got : {{}}]
    /\ err = NoErrors
    /\ awaiting = [s \in Sender |-> FALSE]
    /\ sent = [s \in Sender |-> NoId]
    /\ outcome = [s \in Sender |-> "none"]
    /\ cut = FALSE

Unchanged == UNCHANGED <<cable, configured, connectionVars, processVars, wireVars, inBuf, host>>

--------------------------------------------------------------------------------
(* Bluetooth.  When the host disconnects, what waits stays, for the next one, *)
(* and what is being sent ends, unless it just arrived.                       *)
BleDisconnect ==
    /\ Break
    /\ ble.connected
    /\ \E rest \in {ble.noti, NoId} :
         ble' = [ble EXCEPT !.connected = FALSE, !.noti = rest]
    /\ cut' = (cut \/ \E s \in Sender : awaiting[s])
    /\ Unchanged /\ UNCHANGED <<statusVars, outVars, err, awaiting, sent, outcome>>

BleSent ==
    /\ ble.connected /\ ble.noti # NoId
    /\ ble' = [ble EXCEPT !.noti = NoId, !.got = @ \union {ble.noti}]
    /\ UNCHANGED <<usbVars, callVars>>

--------------------------------------------------------------------------------
(* sys/host.c *)

ScheduleStatusUpdate ==
    /\ ScheduleStatus
    /\ Unchanged /\ UNCHANGED <<outVars, linkVars>>

(* stdout_write: what fits.  Bluetooth, whose part in this is the same, does  *)
(* not listen here.                                                           *)
StdoutWrite ==
    /\ Input
    /\ Active /\ StdoutAvailable > 0
    /\ StdoutTx(inputs')
    /\ Unchanged /\ UNCHANGED <<statusVars, noti, reply, linkVars>>

BleQueueError ==
    IF ~ble.connected THEN "INVALID_OP"
    ELSE IF ble.noti # NoId THEN "BUSY" ELSE "AGAIN"

(* send_event succeeds when one of the transports does. *)
Result(e) ==
    IF "SUCCESS" \in {e["ble"], e["usb"]} THEN "SUCCESS" ELSE e["ble"]

(* The errors are shared by all calls, and dead while none is awaited. *)
SetErr(e) == err' = IF \E s \in Sender : (awaiting[s])' THEN e ELSE NoErrors

(* The first call, by write_bytes: an error is raised at once, and otherwise  *)
(* the task awaits the call.  Whoever awaited an earlier one of the same      *)
(* AppData object no longer does.                                             *)
Call(s) ==
    /\ Input /\ ~awaiting[s]
    /\ LET e == [t \in Transport |-> IF t = "ble" THEN BleQueueError ELSE QueueError] IN
         /\ Queue(inputs')
         /\ ble' = IF e.ble = "AGAIN" THEN [ble EXCEPT !.noti = inputs'] ELSE ble
         /\ IF "AGAIN" \in {e.ble, e.usb}
              THEN /\ awaiting' = [r \in Sender |-> r = s]
                   /\ outcome' = [outcome EXCEPT ![s] = "none"]
              ELSE /\ outcome' = [outcome EXCEPT ![s] = Result(e)]
                   /\ UNCHANGED awaiting
         /\ SetErr(e)
    /\ sent' = [sent EXCEPT ![s] = inputs']
    /\ cut' = FALSE
    /\ Unchanged /\ UNCHANGED <<statusVars, ring, reply>>

(* AWAIT_GATHER: both have ended. *)
GatherEnded(e) == \A t \in Transport : e[t] # "AGAIN"

(* Another run of the call. *)
Iterate(s) ==
    /\ awaiting[s]
    /\ LET waits == [ble |-> ble.noti # NoId, usb |-> noti["app"] # <<>>]
           e == [t \in Transport |->
                   IF err[t] = "AGAIN" /\ ~waits[t] THEN "SUCCESS" ELSE err[t]]
       IN /\ IF GatherEnded(e)
               THEN /\ awaiting' = [awaiting EXCEPT ![s] = FALSE]
                    /\ outcome' = [outcome EXCEPT ![s] = Result(e)]
               ELSE UNCHANGED <<awaiting, outcome>>
          /\ SetErr(e)
    /\ UNCHANGED <<usbVars, ble, sent, cut>>

(* The task is cancelled, or the program ends. *)
Abandon(s) ==
    /\ awaiting[s] /\ awaiting' = [awaiting EXCEPT ![s] = FALSE]
    /\ SetErr(err)
    /\ UNCHANGED <<usbVars, ble, sent, outcome, cut>>

--------------------------------------------------------------------------------
UsbStep ==
    /\ UsbSteps
    /\ cut' = (cut \/ (Active /\ ~Active' /\ \E t \in Sender : awaiting[t]))
    /\ UNCHANGED <<ble, err, awaiting, sent, outcome>>

Next ==
    \/ UsbStep
    \/ /\ ~polling
       /\ \/ BleSent \/ BleDisconnect
          \/ ScheduleStatusUpdate \/ StdoutWrite
          \/ \E s \in Sender : Call(s) \/ Iterate(s) \/ Abandon(s)

(* The event loop polls the processes, timers and charger detection end, and  *)
(* the radio and a host that has opened its port take what is sent.           *)
Spec ==
    /\ Init /\ [][Next]_vars
    /\ WF_vars(UsbStep /\ Process) /\ WF_vars(UsbStep /\ TimerExpires)
    /\ SF_vars(UsbStep /\ Configured)
    /\ WF_vars(UsbStep /\ TransmitCplt)
    /\ SF_vars(~polling /\ BleSent)
    /\ \A s \in Sender : SF_vars(~polling /\ Iterate(s))

--------------------------------------------------------------------------------
(* What the hub has to tell reaches a host that stays: all that the program   *)
(* prints, and the latest status.                                             *)
OutputReachesHost == StdoutNotLost /\ PrintedReachesHost /\ StatusReachesHost

(* A call that failed has sent nothing and will send nothing: the caller may  *)
(* send again (host.c, send_event: "PBIO_ERROR_BUSY if another transfer is    *)
(* already queued or in progress").                                           *)
Given == ToSet(noti["app"]) \union {ble.noti} \union host.got \union ble.got

FailureMeansNotSent ==
    \A s \in Sender : outcome[s] \in Failure => sent[s] \notin Given

(* Of a call that succeeded nothing is left to be sent: it has awaited all    *)
(* transports.  While the connections lasted it has reached a host.           *)
SuccessMeansSent ==
    \A s \in Sender :
        outcome[s] = "SUCCESS" =>
            /\ sent[s] \notin ToSet(noti["app"]) \union {ble.noti}
            /\ ~cut => sent[s] \in host.got \union ble.got

(* Who awaits a call learns what became of it.                                *)
ResultIsTrue == FailureMeansNotSent /\ SuccessMeansSent

(* A call ends unless a transport that it still waits for is disconnected.    *)
Connected(t) == IF t = "ble" THEN ble.connected ELSE Active

SendEnds ==
    \A s \in Sender :
        awaiting[s] ~> ~awaiting[s] \/ \E t \in Transport : err[t] = "AGAIN" /\ ~Connected(t)

================================================================================
