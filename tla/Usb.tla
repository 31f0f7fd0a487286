---------------------------------- MODULE Usb ----------------------------------
(* The USB transport of a hub, drv/usb/usb.c over drv/usb/usb_stm32.c: one    *)
(* process that answers requests and sends notifications, interrupts that     *)
(* run at any of its steps (cable, DTR, packets), functions that the rest of  *)
(* the hub calls between two runs of the process, and the host at the other   *)
(* end.  Requests, status reports, bytes and notifications are named by the   *)
(* number of the input that made them.                                        *)
EXTENDS Naturals, Sequences, SequencesExt

CONSTANTS
    MaxInputs,  \* bound on the requests, reports, bytes and notifications
    MaxBreaks,  \* bound on how often a host goes away, unsubscribes or strays
    RingSize,   \* bytes of stdout that wait to be sent
    NotiSize,   \* bytes of stdout in one notification
    Race        \* what may happen before the process has seen what came before:
                \* the port's "close" or "reopen", a cable's "bounce"

ASSUME UsbAssumption ==
    /\ MaxInputs \in Nat /\ MaxBreaks \in Nat
    /\ RingSize \in Nat \ {0} /\ NotiSize \in Nat \ {0}
    /\ Race \subseteq {"close", "reopen", "bounce"}

Request == {"command", "read"}
Event == {"status", "stdout", "app"}
Id == 1..MaxInputs

NoId == 0
NoPacket == [type |-> "none"]
Packets ==
    [type : {"stray", "subscribe", "unsubscribe"}] \union [type : Request, id : Id]
NoFrame == [kind |-> "none", content |-> <<>>]

VARIABLES
    cable,         \* vbus_active
    configured,    \* pbdrv_usb_bcd is known
    dtr, subscribed,
    statusData, statusPending,
    noti,          \* content of the notification that waits, per event
    ring,          \* stdout_ring_buf
    reply,         \* request whose reply is pending, per kind
    pc,            \* where the process awaits or is
    polling,       \* the process is running
    sending,       \* what it sends: a kind of request or an event
    expired,       \* the transmit timer
    transmitting,
    wire,          \* frame at the IN endpoint
    inBuf,         \* packet at the OUT endpoint, usb_in_buf and usb_in_sz
    stale,         \* rx_frame holds bytes of an unfinished frame
    host,          \* the host: its port, what it awaits and what it received
    inputs, breaks

processVars == <<pc, polling, sending, expired>>
connectionVars == <<dtr, subscribed, stale>>
statusVars == <<statusData, statusPending>>
outVars == <<noti, ring, reply>>
wireVars == <<transmitting, wire>>
bounds == <<inputs, breaks>>
usbVars == <<cable, configured, connectionVars, statusVars, outVars, processVars,
             wireVars, inBuf, host, bounds>>

Bytes == Seq(0..MaxInputs)
Kinds == Request \union Event \union {"none"}

UsbTypeOK ==
    /\ {cable, configured, dtr, subscribed, statusPending, polling, expired,
        transmitting, stale} \subseteq BOOLEAN
    /\ statusData \in 0..MaxInputs
    /\ noti \in [Event -> Bytes] /\ Len(noti["stdout"]) <= NotiSize
    /\ ring \in Bytes /\ Len(ring) <= RingSize
    /\ reply \in [Request -> 0..MaxInputs]
    /\ pc \in {"configuring", "loop", "sending"}
    /\ sending \in Kinds
    /\ wire \in [kind : Kinds, content : Bytes]
    /\ inBuf \in Packets \union {NoPacket}
    /\ host \in [port : {"closed", "app", "probe"}, subscribed : BOOLEAN,
                 awaits : [Request -> 0..MaxInputs], status : 0..MaxInputs,
                 printed : Bytes, got : SUBSET Id]
    /\ inputs \in 0..MaxInputs /\ breaks \in 0..MaxBreaks

NoReplies == [k \in Request |-> NoId]
NoNotifications == [e \in Event |-> <<>>]

UsbInit ==
    /\ cable = FALSE /\ configured = FALSE
    /\ dtr = FALSE /\ subscribed = FALSE /\ stale = FALSE
    /\ statusData = 0 /\ statusPending = FALSE
    /\ noti = NoNotifications /\ ring = <<>> /\ reply = NoReplies
    /\ pc = "configuring" /\ polling = FALSE /\ sending = "none" /\ expired = FALSE
    /\ transmitting = FALSE /\ wire = NoFrame /\ inBuf = NoPacket
    /\ host = [port |-> "closed", subscribed |-> FALSE, awaits |-> NoReplies,
               status |-> 0, printed |-> <<>>, got |-> {}]
    /\ inputs = 0 /\ breaks = 0

Input == inputs < MaxInputs /\ inputs' = inputs + 1 /\ UNCHANGED breaks
Break == breaks < MaxBreaks /\ breaks' = breaks + 1 /\ UNCHANGED inputs

Ready == cable /\ configured
Active == Ready /\ dtr /\ subscribed

--------------------------------------------------------------------------------
(* Functions that other processes call. *)

ScheduleStatus ==
    /\ Input
    /\ statusData' = inputs' /\ statusPending' = TRUE

StdoutAvailableTooMuch == IF Active THEN RingSize ELSE MaxInputs + RingSize

(* stdout_tx_available; "more than enough" when nobody listens. *)
StdoutAvailable == IF Active THEN RingSize - Len(ring) ELSE MaxInputs + RingSize

(* stdout_tx of one byte, given that it fits. *)
StdoutTx(byte) == ring' = IF Active THEN Append(ring, byte) ELSE ring

QueueErrorOverwrites == IF ~Active THEN "INVALID_OP" ELSE "AGAIN"

(* The first part of send_event_notification: what it returns at once ... *)
QueueError ==
    IF ~Active THEN "INVALID_OP"
    ELSE IF noti["app"] # <<>> THEN "BUSY" ELSE "AGAIN"

(* ... and what it queues. *)
Queue(id) ==
    noti' = IF QueueError = "AGAIN" THEN [noti EXCEPT !["app"] = <<id>>] ELSE noti

--------------------------------------------------------------------------------
(* The process.  Each run first takes in what the host sent, whatever the     *)
(* process awaits; a run with neither input nor anything to do is left out.   *)

SetSubscribed(b) ==
    /\ subscribed' = b
    /\ statusPending' = (statusPending \/ (b /\ ~subscribed))

HandleMessage ==
    CASE inBuf.type \in Request ->
           /\ reply' = [reply EXCEPT ![inBuf.type] = inBuf.id]
           /\ UNCHANGED <<subscribed, statusPending>>
      [] inBuf.type \in {"subscribe", "unsubscribe"} ->
           /\ SetSubscribed(inBuf.type = "subscribe")
           /\ UNCHANGED reply

HandleDataIn ==
    /\ ~polling /\ polling' = TRUE
    /\ inBuf # NoPacket /\ inBuf' = NoPacket
    /\ stale' = (inBuf.type = "stray")
    /\ IF stale \/ inBuf.type = "stray"
         THEN UNCHANGED <<subscribed, statusPending, reply>>
         ELSE HandleMessage
    /\ UNCHANGED <<cable, configured, dtr, statusData, noti, ring, pc, sending, expired,
                   wireVars, host, bounds>>

Running == polling \/ inBuf = NoPacket
Yield == polling' = FALSE

(* wait_until_configured: the charger detection takes a while. *)
Configured ==
    /\ Running /\ pc = "configuring" /\ cable
    /\ configured' = TRUE /\ pc' = "loop" /\ polling' = TRUE
    /\ UNCHANGED <<cable, connectionVars, statusVars, outVars, sending, expired,
                   wireVars, inBuf, host, bounds>>

(* tx_chunk up to its wait. *)
StartTx(what, content) ==
    /\ Yield
    /\ pc' = "sending" /\ sending' = what /\ expired' = FALSE
    /\ transmitting' = TRUE /\ wire' = [kind |-> what, content |-> content]
    /\ UNCHANGED <<cable, configured, connectionVars, statusData, reply, inBuf, host,
                   bounds>>

InLoop == Running /\ pc = "loop" /\ Ready

SendReply(k) ==
    /\ InLoop
    /\ reply[k] # NoId /\ (k = "read" => reply["command"] = NoId)
    /\ StartTx(k, <<reply[k]>>)
    /\ UNCHANGED <<statusPending, noti, ring>>

(* update_and_get_event_buffer: the pending status and as much of stdout as   *)
(* fits move to their notifications, then the first of the events is sent.    *)
Fitting(bytes) == SubSeq(bytes, 1, IF Len(bytes) < NotiSize THEN Len(bytes) ELSE NotiSize)

StdoutDrainedSwapped == Fitting(ring \o noti["stdout"])
StdoutDrained == Fitting(noti["stdout"] \o ring)

Updated ==
    [noti EXCEPT !["status"] = IF statusPending THEN <<statusData>> ELSE @,
                 !["stdout"] = StdoutDrained]

Priority == <<"status", "stdout", "app">>

First(e) ==
    \E i \in DOMAIN Priority :
        /\ Priority[i] = e /\ Updated[e] # <<>>
        /\ \A j \in 1..(i - 1) : Updated[Priority[j]] = <<>>

SendEvent(e) ==
    /\ InLoop /\ reply = NoReplies /\ Active
    /\ First(e)
    /\ noti' = Updated
    /\ ring' = SubSeq(ring, Len(Updated["stdout"]) - Len(noti["stdout"]) + 1, Len(ring))
    /\ statusPending' = FALSE
    /\ StartTx(e, Updated[e])

NothingToSend == reply = NoReplies /\ (Active => \A e \in Event : Updated[e] = <<>>)

(* A run ends where the process has to wait. *)
Await ==
    /\ polling /\ Yield
    /\ \/ pc = "configuring"
       \/ pc = "loop" /\ Ready /\ NothingToSend
       \/ pc = "sending" /\ transmitting /\ ~expired
    /\ UNCHANGED <<cable, configured, connectionVars, statusVars, outVars, pc, sending,
                   expired, wireVars, inBuf, host, bounds>>

ResetStateKeepsEndpoint ==
    /\ dtr' = FALSE /\ subscribed' = FALSE /\ stale' = FALSE
    /\ statusPending' = FALSE
    /\ reply' = NoReplies /\ ring' = <<>> /\ noti' = NoNotifications
    /\ UNCHANGED transmitting

(* reset_state and tx_reset. *)
ResetState ==
    /\ dtr' = FALSE /\ subscribed' = FALSE /\ stale' = FALSE
    /\ statusPending' = FALSE
    /\ reply' = NoReplies /\ ring' = <<>> /\ noti' = NoNotifications
    /\ transmitting' = FALSE

FinishedClearsAll ==
    IF sending \in Request
      THEN reply' = [reply EXCEPT ![sending] = NoId] /\ UNCHANGED noti
      ELSE noti' = NoNotifications /\ UNCHANGED reply

FinishedClearsReplies ==
    reply' = (IF sending \in Request THEN [reply EXCEPT ![sending] = NoId] ELSE reply)
    /\ UNCHANGED noti

(* What was sent is done with. *)
Finished ==
    IF sending \in Request
      THEN reply' = [reply EXCEPT ![sending] = NoId] /\ UNCHANGED noti
      ELSE noti' = [noti EXCEPT ![sending] = <<>>] /\ UNCHANGED reply

Sent ==
    /\ Running /\ pc = "sending" /\ ~transmitting /\ ~expired
    /\ Finished
    /\ pc' = "loop" /\ sending' = "none" /\ polling' = TRUE
    /\ UNCHANGED <<cable, configured, connectionVars, statusVars, ring, expired,
                   wireVars, inBuf, host, bounds>>

(* The timer is looked at last: a transmission that completed meanwhile is    *)
(* given up as well.                                                          *)
SendFailed ==
    /\ Running /\ pc = "sending" /\ expired
    /\ ResetState
    /\ pc' = "loop" /\ sending' = "none" /\ expired' = FALSE /\ polling' = TRUE
    /\ UNCHANGED <<cable, configured, statusData, wire, inBuf, host, bounds>>

(* The cable is unplugged: start over.  That it is back between the test of   *)
(* the loop and the wait behind it, a few instructions later, is left out.    *)
Disconnected ==
    /\ Running /\ pc = "loop" /\ ~Ready
    /\ ResetState
    /\ configured' = FALSE /\ pc' = "configuring" /\ polling' = TRUE
    /\ UNCHANGED <<cable, statusData, sending, expired, wire, inBuf, host, bounds>>

Process ==
    \/ HandleDataIn \/ Configured
    \/ \E k \in Request : SendReply(k)
    \/ \E e \in Event : SendEvent(e)
    \/ Await \/ Sent \/ SendFailed \/ Disconnected

--------------------------------------------------------------------------------
(* Interrupts and time. *)

OnDtrChangedKeepsFrame(b) ==
    dtr' = b /\ UNCHANGED stale /\ subscribed' = (subscribed /\ (b \/ ~dtr))

(* on_dtr_changed: an unfinished frame of the previous opener is dropped, and *)
(* the subscription falls with DTR.                                           *)
OnDtrChanged(b) ==
    /\ dtr' = b
    /\ stale' = (stale /\ b = dtr)
    /\ subscribed' = (subscribed /\ (b \/ ~dtr))

(* A host that has its port open but does not read it in time counts as a     *)
(* break.                                                                     *)
HostReads == cable /\ host.port # "closed"

TimerExpires ==
    /\ pc = "sending" /\ ~expired /\ expired' = TRUE
    /\ IF transmitting /\ HostReads THEN Break ELSE UNCHANGED bounds
    /\ UNCHANGED <<cable, configured, connectionVars, statusVars, outVars, pc, polling,
                   sending, wireVars, inBuf, host>>

HostReceives ==
    CASE wire.kind \in Request ->
           [host EXCEPT !.awaits[wire.kind] = IF @ = Head(wire.content) THEN NoId ELSE @]
      [] wire.kind = "status" -> [host EXCEPT !.status = Head(wire.content)]
      [] wire.kind = "stdout" -> [host EXCEPT !.printed = @ \o wire.content]
      [] wire.kind = "app" -> [host EXCEPT !.got = @ \union ToSet(wire.content)]

(* Itf_TransmitCplt, for a host that reads its port; also when the process no *)
(* longer waits for it.                                                       *)
TransmitCplt ==
    /\ HostReads /\ wire # NoFrame
    /\ host' = HostReceives
    /\ transmitting' = FALSE /\ wire' = NoFrame
    /\ UNCHANGED <<cable, configured, connectionVars, statusVars, outVars, processVars,
                   inBuf, bounds>>

ClosedHost == [host EXCEPT !.port = "closed", !.subscribed = FALSE, !.awaits = NoReplies]

(* The hub is enumerated anew: Itf_Init.  A cable that bounces is back before *)
(* the process saw it gone, or goes while the process detects the charger     *)
(* and does not look: no DTR change tells it that the opener is gone.         *)
Plug ==
    /\ ~cable /\ cable' = TRUE
    /\ "bounce" \in Race \/ pc = "configuring"
    /\ inBuf' = NoPacket /\ transmitting' = FALSE /\ wire' = NoFrame
    /\ UNCHANGED <<configured, connectionVars, statusVars, outVars, processVars, host,
                   bounds>>

Unplug ==
    /\ Break
    /\ cable /\ cable' = FALSE
    /\ "close" \in Race \/ inBuf = NoPacket
    /\ "bounce" \in Race \/ configured \/ host.port = "closed"
    /\ host' = ClosedHost /\ wire' = NoFrame
    /\ UNCHANGED <<configured, connectionVars, statusVars, outVars, processVars,
                   transmitting, inBuf>>

--------------------------------------------------------------------------------
(* The other end of the cable: an application that opens the port, subscribes *)
(* and sends one request of a kind at a time, or a probe.                     *)

OpenPort(opener) ==
    /\ cable /\ host.port = "closed"
    /\ "reopen" \in Race \/ inBuf = NoPacket
    /\ host' = [host EXCEPT !.port = opener]
    /\ OnDtrChanged(TRUE)
    /\ UNCHANGED <<cable, configured, statusVars, outVars, processVars, wireVars, inBuf,
                   bounds>>

ClosePort ==
    /\ Break
    /\ host.port # "closed"
    /\ "close" \in Race \/ inBuf = NoPacket
    /\ host' = ClosedHost
    /\ OnDtrChanged(FALSE)
    /\ UNCHANGED <<cable, configured, statusVars, outVars, processVars, wireVars, inBuf>>

HostSends(opener, packet) ==
    /\ cable /\ host.port = opener /\ inBuf = NoPacket
    /\ inBuf' = packet
    /\ UNCHANGED <<cable, configured, connectionVars, statusVars, outVars, processVars,
                   wireVars>>

Subscribe ==
    /\ ~host.subscribed
    /\ HostSends("app", [type |-> "subscribe"])
    /\ host' = [host EXCEPT !.subscribed = TRUE]
    /\ UNCHANGED bounds

Unsubscribe ==
    /\ host.subscribed
    /\ HostSends("app", [type |-> "unsubscribe"])
    /\ host' = [host EXCEPT !.subscribed = FALSE]
    /\ Break

(* The port is opened by something that is no Pybricks host, such as a modem *)
(* probe, or by an application that goes away amid a message.                 *)
SendStray ==
    /\ HostSends("probe", [type |-> "stray"])
    /\ UNCHANGED <<host, bounds>>

(* The host knows that a request is answered before the process sees that the *)
(* reply is sent.                                                             *)
HostRequests(k) ==
    /\ Input
    /\ host.awaits[k] = NoId
    /\ HostSends("app", [type |-> k, id |-> inputs'])
    /\ host' = [host EXCEPT !.awaits[k] = inputs']

Surroundings ==
    \/ TimerExpires \/ TransmitCplt \/ Plug \/ Unplug \/ OpenPort("app") \/ OpenPort("probe")
    \/ ClosePort \/ Subscribe \/ Unsubscribe \/ SendStray
    \/ \E k \in Request : HostRequests(k)

(* Whatever does not involve the rest of the hub. *)
UsbSteps == Process \/ Surroundings

--------------------------------------------------------------------------------
(* The promises. *)

(* tx_chunk finds the endpoint free whenever it is called, whatever happened  *)
(* to the transmission before: it never returns PBIO_ERROR_BUSY, which would  *)
(* reset the connection (usb_stm32.c:238, usb.c:501).                         *)
EndpointIsFree == pc # "sending" => ~transmitting

(* Output that is on its way to the host. *)
Unsent == (IF sending = "stdout" THEN wire.content ELSE noti["stdout"]) \o ring

(* What hosts print is what the program printed, in this order and nothing    *)
(* twice, though it passes through a ring buffer, a notification that is      *)
(* topped up while it waits, and a frame that may be given up.                *)
StdoutInOrder ==
    LET printed == host.printed
                       \o (IF wire.kind = "stdout" /\ sending # "stdout"
                             THEN wire.content ELSE <<>>)
                       \o Unsent
    IN \A i, j \in DOMAIN printed : i < j => printed[i] < printed[j]

(* A byte once accepted is only lost together with the connection.            *)
StdoutNotLost ==
    [][ToSet(host.printed \o Unsent) \subseteq ToSet(host.printed \o Unsent)' \/ ~Active']_usbVars

(* A byte once accepted is printed unless the connection ends: it does not    *)
(* stay in the ring buffer, the notification or a frame.                      *)
PrintedReachesHost ==
    \A x \in Id :
        x \in ToSet(Unsent) /\ Active ~> x \in ToSet(host.printed) \/ ~Active

(* A request is answered unless the connection ends, for a host that keeps a  *)
(* single one of a kind outstanding, like all hosts here (usb.c:358).         *)
RequestsAnswered ==
    \A k \in Request :
        host.awaits[k] # NoId /\ dtr ~> host.awaits[k] = NoId \/ ~dtr

(* The request that the host awaits is at the hub, and the buffer for its     *)
(* reply is not in use: nothing of its kind is being sent or waits before it. *)
BufferIsFree(k) ==
    /\ host.awaits[k] # NoId /\ sending # k
    /\ \/ reply[k] = host.awaits[k]
       \/ reply[k] = NoId /\ inBuf = [type |-> k, id |-> host.awaits[k]]

(* A request that finds the buffer of its reply free is answered unless the   *)
(* connection ends, whatever is sent, opened and closed before and after it.  *)
FreeBufferAnswers ==
    \A k \in Request :
        BufferIsFree(k) /\ dtr ~> host.awaits[k] = NoId \/ ~dtr

(* A host that stays connected gets to know the latest status, also when it   *)
(* changes while a report is being sent or the host just subscribed.          *)
StatusReachesHost ==
    <>[](Active /\ host.port = "app") => []<>(host.status = statusData)
================================================================================
