----------------------------- MODULE HostLinkProofs -----------------------------
(* Proofs about HostLink: the endpoint is free when the USB process takes it,  *)
(* what is printed reaches the host in order and is not lost, and a task that  *)
(* sends learns what became of it.  They hold for every Race.                  *)
EXTENDS HostLink, SequenceTheorems, TLAPS

(* What a concatenation consists of.                                           *)
LEMMA SetOfConcat ==
    ASSUME NEW S, NEW s \in Seq(S), NEW t \in Seq(S)
    PROVE  s \o t \in Seq(S) /\ ToSet(s \o t) = ToSet(s) \union ToSet(t)
<1>1. s \o t \in Seq(S)
  OBVIOUS
<1>2. Range(s \o t) = Range(s) \union Range(t)
  BY RangeConcatenation
<1> QED BY <1>1, <1>2 DEF Range, ToSet

(* A sequence of one element.                                                  *)
LEMMA SetOfOne ==
    ASSUME NEW S, NEW x \in S
    PROVE  <<x>> \in Seq(S) /\ <<x>> # <<>> /\ ToSet(<<x>>) = {x} /\ Len(<<x>>) = 1
           /\ Head(<<x>>) = x
BY DEF ToSet

(* Nothing is in the empty sequence.                                           *)
LEMMA SetOfNone == <<>> \in Bytes /\ ToSet(<<>>) = {} /\ Len(<<>>) = 0
BY DEF ToSet, Bytes

(* One element more.                                                           *)
LEMMA AppendOne ==
    ASSUME NEW S, NEW s \in Seq(S), NEW x \in S
    PROVE  /\ Append(s, x) \in Seq(S) /\ Len(Append(s, x)) = Len(s) + 1
           /\ Append(s, x) = s \o <<x>>
BY AppendIsConcat, AppendProperties

(* The elements of a sequence are in the set it is of.                         *)
LEMMA SetOfSeq ==
    ASSUME NEW S, NEW s \in Seq(S)
    PROVE  ToSet(s) \subseteq S /\ (s # <<>> => Head(s) \in S /\ Head(s) \in ToSet(s))
<1>1. ToSet(s) \subseteq S
  BY RangeOfSeq DEF Range, ToSet
<1>2. ASSUME s # <<>> PROVE Head(s) = s[1] /\ 1 \in DOMAIN s
  BY <1>2, HeadTailProperties, LenProperties
<1> QED BY <1>1, <1>2 DEF ToSet

Increasing(s) == \A i, j \in DOMAIN s : i < j => s[i] < s[j]

Before(s, t) == \A x \in ToSet(s), y \in ToSet(t) : x < y

(* A concatenation is in order when its parts are, one before the other.       *)
LEMMA IncreasingConcat ==
    ASSUME NEW s \in Seq(Nat), NEW t \in Seq(Nat)
    PROVE  Increasing(s \o t) <=> Increasing(s) /\ Increasing(t) /\ Before(s, t)
<1> DEFINE u == s \o t
           n == Len(s)
           m == Len(t)
<1>1. /\ u \in Seq(Nat) /\ Len(u) = n + m /\ n \in Nat /\ m \in Nat
      /\ \A i \in 1..n + m : u[i] = IF i <= n THEN s[i] ELSE t[i - n]
  BY ConcatProperties, LenProperties
<1>2. DOMAIN u = 1..n + m /\ DOMAIN s = 1..n /\ DOMAIN t = 1..m
  BY <1>1, LenProperties
<1>3. (\A i \in 1..n : s[i] \in Nat) /\ \A i \in 1..m : t[i] \in Nat
  BY ElementOfSeq
<1> HIDE DEF u, n, m
<1>4. (\A i \in 1..n : i \in 1..n + m /\ u[i] = s[i])
      /\ \A j \in 1..m : n + j \in 1..n + m /\ u[n + j] = t[j]
  BY <1>1
<1>5. ASSUME Increasing(u) PROVE Increasing(s) /\ Increasing(t) /\ Before(s, t)
  <2>1. Increasing(s)
    BY <1>2, <1>4, <1>5 DEF Increasing
  <2>2. Increasing(t)
    <3> SUFFICES ASSUME NEW i \in 1..m, NEW j \in 1..m, i < j PROVE t[i] < t[j]
      BY <1>2 DEF Increasing
    <3>1. n + i < n + j
      BY <1>1
    <3> QED BY <1>2, <1>4, <1>5, <3>1 DEF Increasing
  <2>3. ASSUME NEW i \in 1..n, NEW j \in 1..m PROVE s[i] < t[j]
    <3>1. i < n + j
      BY <1>1
    <3> QED BY <1>2, <1>4, <1>5, <3>1 DEF Increasing
  <2> QED BY <1>2, <2>1, <2>2, <2>3 DEF Before, ToSet
<1>6. ASSUME Increasing(s), Increasing(t), Before(s, t) PROVE Increasing(u)
  <2> SUFFICES ASSUME NEW i \in 1..n + m, NEW j \in 1..n + m, i < j PROVE u[i] < u[j]
    BY <1>2 DEF Increasing
  <2>1. CASE j <= n
    <3>1. u[i] = s[i] /\ i \in 1..n /\ u[j] = s[j] /\ j \in 1..n
      BY <1>1, <2>1
    <3> QED BY <1>2, <1>6, <3>1 DEF Increasing
  <2>2. CASE i <= n /\ j > n
    <3>1. i \in 1..n /\ j - n \in 1..m /\ n + (j - n) = j
      BY <1>1, <2>2
    <3>2. u[i] = s[i] /\ u[j] = t[j - n]
      BY <1>4, <3>1
    <3> QED BY <1>2, <1>6, <3>1, <3>2 DEF Before, ToSet
  <2>3. CASE i > n
    <3>1. /\ i - n \in 1..m /\ j - n \in 1..m /\ i - n < j - n
          /\ n + (i - n) = i /\ n + (j - n) = j
      BY <1>1, <2>3
    <3>2. u[i] = t[i - n] /\ u[j] = t[j - n]
      BY <1>4, <3>1
    <3> QED BY <1>2, <1>6, <3>1, <3>2 DEF Increasing
  <2> QED BY <1>1, <2>1, <2>2, <2>3
<1> QED BY <1>5, <1>6 DEF u

(* One more element, above the others. *)
LEMMA IncreasingAppend ==
    ASSUME NEW s \in Seq(Nat), NEW x \in Nat, Increasing(s), \A y \in ToSet(s) : y < x
    PROVE  Increasing(Append(s, x))
<1>1. Append(s, x) \in Seq(Nat) /\ Len(Append(s, x)) = Len(s) + 1 /\ Len(s) \in Nat
      /\ (\A i \in 1..Len(s) : Append(s, x)[i] = s[i]) /\ Append(s, x)[Len(s) + 1] = x
  OBVIOUS
<1>2. DOMAIN Append(s, x) = 1..Len(s) + 1 /\ DOMAIN s = 1..Len(s)
  OBVIOUS
<1>3. \A i \in 1..Len(s) : s[i] < x
  BY <1>2 DEF ToSet
<1> SUFFICES ASSUME NEW i \in 1..Len(s) + 1, NEW j \in 1..Len(s) + 1, i < j
             PROVE  Append(s, x)[i] < Append(s, x)[j]
  BY <1>2 DEF Increasing
<1>4. i \in 1..Len(s) /\ (j \in 1..Len(s) \/ j = Len(s) + 1)
  BY <1>1
<1> QED BY <1>1, <1>2, <1>3, <1>4 DEF Increasing

(* A part of a sequence of bytes.                                              *)
LEMMA PartOfBytes ==
    ASSUME NEW s \in Bytes, NEW a \in Nat \ {0}, NEW b \in Nat, b <= Len(s), a <= b + 1
    PROVE  /\ SubSeq(s, a, b) \in Bytes /\ Len(SubSeq(s, a, b)) = b - a + 1
           /\ \A i \in 1..b - a + 1 : SubSeq(s, a, b)[i] = s[a + i - 1]
<1>1. ASSUME NEW i \in a..b PROVE s[i] \in 0..MaxInputs
  <2>1. Len(s) \in Nat /\ \A k \in 1..Len(s) : s[k] \in 0..MaxInputs
    BY ElementOfSeq, LenProperties DEF Bytes
  <2>2. i \in 1..Len(s)
    BY <2>1
  <2> QED BY <2>1, <2>2
<1>2. SubSeq(s, a, b) \in Seq(0..MaxInputs)
      /\ Len(SubSeq(s, a, b)) = (IF a <= b THEN b - a + 1 ELSE 0)
      /\ \A i \in 1..b - a + 1 : SubSeq(s, a, b)[i] = s[a + i - 1]
  BY <1>1, SubSeqProperties
<1>3. ~(a <= b) => b - a + 1 = 0
  OBVIOUS
<1> QED BY <1>2, <1>3 DEF Bytes

(* Sequences of bytes are equal when their bytes are.                          *)
LEMMA EqualBytes ==
    ASSUME NEW s \in Bytes, NEW t \in Bytes, Len(s) = Len(t), \A i \in 1..Len(s) : s[i] = t[i]
    PROVE  s = t
BY SeqEqual DEF Bytes

(* The parts of a concatenation of bytes.                                      *)
LEMMA ConcatOfBytes ==
    ASSUME NEW s \in Bytes, NEW t \in Bytes
    PROVE  /\ s \o t \in Bytes /\ Len(s \o t) = Len(s) + Len(t)
           /\ Len(s) \in Nat /\ Len(t) \in Nat
           /\ \A i \in 1..Len(s) : (s \o t)[i] = s[i]
           /\ \A i \in 1..Len(t) : (s \o t)[Len(s) + i] = t[i]
BY DEF Bytes

(* Topping up the notification moves bytes and loses none.                     *)
LEMMA Drain ==
    ASSUME NEW n \in Bytes, NEW r \in Bytes, Len(n) <= NotiSize
    PROVE  LET u == Fitting(n \o r)
               v == SubSeq(r, Len(u) - Len(n) + 1, Len(r))
           IN  /\ u \in Bytes /\ Len(u) <= NotiSize
               /\ v \in Bytes /\ Len(v) <= Len(r) /\ u \o v = n \o r
<1> DEFINE u == Fitting(n \o r)
           v == SubSeq(r, Len(u) - Len(n) + 1, Len(r))
           all == n \o r
           k == IF Len(all) < NotiSize THEN Len(all) ELSE NotiSize
           m == k - Len(n)
<1>1. /\ all \in Bytes /\ Len(all) = Len(n) + Len(r) /\ Len(n) \in Nat /\ Len(r) \in Nat
      /\ \A i \in 1..Len(n) : all[i] = n[i]
      /\ \A i \in 1..Len(r) : all[Len(n) + i] = r[i]
  BY ConcatOfBytes
<1>2. k \in Nat /\ k <= NotiSize /\ Len(n) <= k /\ k <= Len(all)
  BY <1>1, UsbAssumption
<1>3. u = SubSeq(all, 1, k)
  BY DEF Fitting
<1>4. m \in Nat /\ m <= Len(r) /\ k = Len(n) + m
  BY <1>1, <1>2
<1>5. v = SubSeq(r, Len(u) - Len(n) + 1, Len(r))
  OBVIOUS
<1> HIDE DEF k, m, all, u, v
<1>6. u \in Bytes /\ Len(u) = k /\ \A i \in 1..k : u[i] = all[i]
  <2>1. k - 1 + 1 = k /\ 1 <= k + 1 /\ \A i \in 1..k : 1 + i - 1 = i
    BY <1>2
  <2>2. SubSeq(all, 1, k) \in Bytes /\ Len(SubSeq(all, 1, k)) = k - 1 + 1
        /\ \A i \in 1..k - 1 + 1 : SubSeq(all, 1, k)[i] = all[1 + i - 1]
    BY <1>1, <1>2, <2>1, PartOfBytes
  <2> QED BY <1>3, <2>1, <2>2
<1>7. v \in Bytes /\ Len(v) = Len(r) - m /\ \A i \in 1..Len(r) - m : v[i] = r[m + i]
  <2> DEFINE a == m + 1
  <2>1. a \in Nat \ {0} /\ a <= Len(r) + 1 /\ Len(r) <= Len(r) /\ Len(r) - a + 1 = Len(r) - m
    BY <1>1, <1>4
  <2>2. \A i \in 1..Len(r) - m : a + i - 1 = m + i
    BY <1>1, <1>4
  <2>3. Len(u) - Len(n) + 1 = a
    BY <1>1, <1>4, <1>6
  <2> HIDE DEF a
  <2>4. SubSeq(r, a, Len(r)) \in Bytes /\ Len(SubSeq(r, a, Len(r))) = Len(r) - a + 1
        /\ \A i \in 1..Len(r) - a + 1 : SubSeq(r, a, Len(r))[i] = r[a + i - 1]
    BY <1>1, <2>1, PartOfBytes
  <2>5. v = SubSeq(r, a, Len(r))
    BY <1>5, <2>3
  <2>6. \A i \in 1..Len(r) - m : v[i] = r[m + i]
    BY <2>1, <2>2, <2>4, <2>5
  <2> QED BY <2>1, <2>4, <2>5, <2>6
<1>8. u \o v = all
  <2>1. /\ u \o v \in Bytes /\ Len(u \o v) = Len(u) + Len(v)
        /\ \A i \in 1..Len(u) : (u \o v)[i] = u[i]
        /\ \A i \in 1..Len(v) : (u \o v)[Len(u) + i] = v[i]
    BY <1>6, <1>7, ConcatOfBytes
  <2>2. Len(u \o v) = Len(all)
    <3>1. \A x, y, z \in Nat : (x + z) + (y - z) = x + y
      OBVIOUS
    <3>2. Len(u) + Len(v) = (Len(n) + m) + (Len(r) - m)
      BY <1>4, <1>6, <1>7
    <3> QED BY <1>1, <1>4, <2>1, <3>1, <3>2
  <2>3. ASSUME NEW i \in 1..Len(all) PROVE (u \o v)[i] = all[i]
    <3>1. CASE i \in 1..k
      BY <1>6, <2>1, <3>1
    <3>2. CASE i \notin 1..k
      <4> DEFINE j == i - k
      <4>1. j \in 1..Len(r) - m /\ i = k + j /\ m + j \in 1..Len(r) /\ i = Len(n) + (m + j)
        BY <1>1, <1>2, <1>4, <3>2
      <4> HIDE DEF j
      <4>2. (u \o v)[i] = v[j]
        BY <1>6, <1>7, <2>1, <4>1
      <4>3. v[j] = r[m + j] /\ all[i] = r[m + j]
        BY <1>1, <1>7, <4>1
      <4> QED BY <4>2, <4>3
    <3> QED BY <3>1, <3>2
  <2> QED BY <1>1, <2>1, <2>2, <2>3, EqualBytes
<1>9. Len(v) <= Len(r)
  BY <1>1, <1>4, <1>7
<1> QED BY <1>2, <1>6, <1>7, <1>8, <1>9 DEF all, u, v

--------------------------------------------------------------------------------
(* Frames and what the process knows of them. What is at the endpoint is what  *)
(* the process sends, unless it has given it up.                               *)
Frames ==
    /\ pc = "sending" <=> sending # "none"
    /\ transmitting => sending # "none"
    /\ cable \/ wire = NoFrame
    /\ wire.kind = "none" => wire = NoFrame
    /\ wire.kind # "none" => wire.content # <<>>
    /\ sending # "none" => wire = NoFrame \/ (transmitting /\ wire.kind = sending)
    /\ sending \in Event => noti[sending] # <<>>
    /\ wire.kind = sending /\ sending \in Event => wire.content = noti[sending]
    /\ ToSet(noti["app"]) \subseteq Id
    /\ wire.kind = "app" => ToSet(wire.content) \subseteq Id

FramesInv == UsbTypeOK /\ Frames

(* Nothing of the transport is left out in its tuple of variables. *)
LEMMA UnchangedUsb ==
    ASSUME FramesInv, UNCHANGED usbVars PROVE FramesInv'
BY DEF FramesInv, UsbTypeOK, Frames, usbVars, connectionVars, statusVars, outVars,
       processVars, wireVars, bounds

(* The constants that stand for nothing have the types of what they stand for. *)
LEMMA Nothing ==
    /\ NoFrame \in [kind : Kinds, content : Bytes] /\ NoFrame.kind = "none"
    /\ NoReplies \in [Request -> 0..MaxInputs]
    /\ NoNotifications \in [Event -> Bytes] /\ NoNotifications["stdout"] = <<>>
    /\ NoNotifications["app"] = <<>>
    /\ NoPacket \in Packets \union {NoPacket}
    /\ 0 \in 0..MaxInputs /\ MaxInputs \in Nat
BY SetOfNone, UsbAssumption
   DEF NoFrame, NoReplies, NoNotifications, NoId, Kinds, Request, Event

(* Nothing is on its way at the start. *)
LEMMA FramesInit == UsbInit => FramesInv
<1> SUFFICES ASSUME UsbInit PROVE FramesInv
  OBVIOUS
<1>1. host \in [port : {"closed", "app", "probe"}, subscribed : BOOLEAN,
                awaits : [Request -> 0..MaxInputs], status : 0..MaxInputs,
                printed : Bytes, got : SUBSET Id]
  BY Nothing, SetOfNone DEF UsbInit
<1>2. ring \in Bytes /\ Len(ring) <= RingSize /\ Len(noti["stdout"]) <= NotiSize
  BY Nothing, SetOfNone, UsbAssumption DEF UsbInit
<1>3. inputs \in 0..MaxInputs /\ breaks \in 0..MaxBreaks
  BY UsbAssumption DEF UsbInit
<1>4. UsbTypeOK
  BY <1>1, <1>2, <1>3, Nothing DEF UsbInit, UsbTypeOK, Kinds
<1>5. Frames
  BY Nothing, SetOfNone DEF UsbInit, Frames, Event
<1> QED BY <1>4, <1>5 DEF FramesInv

(* A step that leaves frames and notifications alone. *)
LEMMA FramesUnchanged ==
    ASSUME Frames, UNCHANGED <<pc, sending, transmitting, wire, noti>>, cable' = cable
    PROVE  Frames'
BY DEF Frames

(* A reset gives up what is being sent, and all that waits.                    *)
LEMMA FramesReset ==
    ASSUME FramesInv, ResetState, sending' = "none", pc' # "sending", UNCHANGED <<cable, wire>>
    PROVE  Frames' /\ noti' = NoNotifications /\ ring' = <<>>
BY Nothing, SetOfNone DEF FramesInv, Frames, ResetState, Event, UsbTypeOK

(* Taking in what the host sent. *)
LEMMA FramesHandleDataIn == ASSUME FramesInv, HandleDataIn PROVE FramesInv'
<1>1. inBuf \in Packets
  BY DEF FramesInv, UsbTypeOK, HandleDataIn
<1>2. reply' \in [Request -> 0..MaxInputs] /\ {subscribed', statusPending'} \subseteq BOOLEAN
  <2>1. CASE UNCHANGED <<subscribed, statusPending, reply>>
    BY <2>1 DEF FramesInv, UsbTypeOK
  <2>2. CASE HandleMessage /\ inBuf.type # "stray"
    <3>1. CASE inBuf.type \in Request
      <4>1. inBuf.id \in 0..MaxInputs
        BY <1>1, <3>1 DEF Packets, Request, Id
      <4>2. reply' = [reply EXCEPT ![inBuf.type] = inBuf.id]
            /\ UNCHANGED <<subscribed, statusPending>>
        BY <2>2, <3>1 DEF HandleMessage, Request
      <4> QED BY <4>1, <4>2 DEF FramesInv, UsbTypeOK
    <3>2. CASE inBuf.type \notin Request
      <4>1. inBuf.type \in {"subscribe", "unsubscribe"}
        BY <1>1, <2>2, <3>2 DEF Packets
      <4>2. SetSubscribed(inBuf.type = "subscribe") /\ UNCHANGED reply
        BY <2>2, <3>2, <4>1 DEF HandleMessage
      <4> QED BY <4>2 DEF SetSubscribed, FramesInv, UsbTypeOK
    <3> QED BY <3>1, <3>2
  <2> QED BY <2>1, <2>2 DEF HandleDataIn
<1>3. stale' \in BOOLEAN /\ polling' \in BOOLEAN /\ inBuf' \in Packets \union {NoPacket}
  BY DEF HandleDataIn
<1>4. UNCHANGED <<cable, configured, dtr, statusData, noti, ring, pc, sending, expired,
                  transmitting, wire, host, inputs, breaks>>
  BY DEF HandleDataIn, wireVars, bounds
<1>5. UsbTypeOK'
  BY <1>2, <1>3, <1>4 DEF FramesInv, UsbTypeOK
<1> QED BY <1>4, <1>5, FramesUnchanged DEF FramesInv

(* The process takes the endpoint for a reply. *)
LEMMA FramesSendReply ==
    ASSUME FramesInv, NEW k \in Request, SendReply(k) PROVE FramesInv'
<1>1. /\ reply[k] \in 0..MaxInputs /\ cable /\ k \in Kinds /\ k \notin Event /\ k # "none"
      /\ <<reply[k]>> \in Bytes /\ <<reply[k]>> # <<>>
  BY SetOfOne DEF FramesInv, UsbTypeOK, SendReply, InLoop, Ready, Kinds, Request, Event, Bytes
<1>2. /\ pc' = "sending" /\ sending' = k /\ expired' = FALSE /\ polling' = FALSE
      /\ transmitting' = TRUE /\ wire' = [kind |-> k, content |-> <<reply[k]>>]
      /\ UNCHANGED <<cable, configured, dtr, subscribed, stale, statusData, statusPending, noti,
                     ring, reply, inBuf, host, inputs, breaks>>
  BY DEF SendReply, StartTx, Yield, connectionVars, bounds
<1>3. UsbTypeOK'
  BY <1>1, <1>2 DEF FramesInv, UsbTypeOK
<1>4. Frames'
  BY <1>1, <1>2 DEF FramesInv, Frames, Request
<1> QED BY <1>3, <1>4 DEF FramesInv

(* What topping up the notification leaves in the ring buffer.                 *)
Rest == SubSeq(ring, Len(Updated["stdout"]) - Len(noti["stdout"]) + 1, Len(ring))

(* The notifications as they are when the process picks one.                   *)
LEMMA UpdatedType ==
    ASSUME FramesInv
    PROVE  /\ Updated \in [Event -> Bytes] /\ Len(Updated["stdout"]) <= NotiSize
           /\ Updated["stdout"] = StdoutDrained /\ Updated["app"] = noti["app"]
           /\ Rest \in Bytes /\ Len(Rest) <= Len(ring)
           /\ Updated["stdout"] \o Rest = noti["stdout"] \o ring
<1>1. noti \in [Event -> Bytes] /\ Len(noti["stdout"]) <= NotiSize /\ ring \in Bytes
  BY DEF FramesInv, UsbTypeOK
<1>2. <<statusData>> \in Bytes
  BY SetOfOne DEF FramesInv, UsbTypeOK, Bytes
<1>3. noti["stdout"] \in Bytes /\ noti["status"] \in Bytes /\ "stdout" \in Event
      /\ "app" \in Event /\ "status" \in Event
  BY <1>1 DEF Event
<1>4. StdoutDrained \in Bytes /\ Len(StdoutDrained) <= NotiSize
  BY <1>1, <1>3, Drain DEF StdoutDrained
<1> HIDE DEF StdoutDrained
<1>5. Updated["stdout"] = StdoutDrained /\ Updated["app"] = noti["app"]
      /\ Updated \in [Event -> Bytes]
  BY <1>1, <1>2, <1>3, <1>4 DEF Updated
<1> HIDE DEF Updated
<1>6. /\ Rest \in Bytes /\ Len(Rest) <= Len(ring)
      /\ Updated["stdout"] \o Rest = noti["stdout"] \o ring
  <2>1. Updated["stdout"] = Fitting(noti["stdout"] \o ring)
    BY <1>5 DEF StdoutDrained
  <2> DEFINE n == noti["stdout"]
             u == Updated["stdout"]
  <2>2. Rest = SubSeq(ring, Len(u) - Len(n) + 1, Len(ring))
    BY DEF Rest
  <2>3. n \in Bytes /\ Len(n) <= NotiSize /\ u = Fitting(n \o ring)
    BY <1>1, <1>3, <2>1
  <2> HIDE DEF n, u
  <2>4. Rest \in Bytes /\ Len(Rest) <= Len(ring) /\ u \o Rest = n \o ring
    BY <1>1, <2>2, <2>3, Drain
  <2> QED BY <2>4 DEF n, u
<1> QED BY <1>4, <1>5, <1>6

(* The process takes the endpoint for a notification. *)
LEMMA FramesSendEvent ==
    ASSUME FramesInv, NEW e \in Event, SendEvent(e) PROVE FramesInv'
<1>1. /\ cable /\ e \in Kinds /\ e # "none" /\ Updated[e] # <<>>
  BY DEF SendEvent, InLoop, Ready, First, Kinds, Event, Priority
<1>2. /\ pc' = "sending" /\ sending' = e /\ expired' = FALSE /\ polling' = FALSE
      /\ transmitting' = TRUE /\ wire' = [kind |-> e, content |-> Updated[e]]
      /\ noti' = Updated /\ statusPending' = FALSE
      /\ ring' = Rest
      /\ UNCHANGED <<cable, configured, dtr, subscribed, stale, statusData,
                     reply, inBuf, host, inputs, breaks>>
  BY DEF Rest, SendEvent, StartTx, Yield, connectionVars, bounds
<1>3. /\ Updated \in [Event -> Bytes] /\ Len(Updated["stdout"]) <= NotiSize
      /\ Updated["app"] = noti["app"] /\ ring' \in Bytes /\ Len(ring') <= Len(ring)
  BY <1>2, UpdatedType
<1> HIDE DEF Updated
<1>4. Len(ring') <= RingSize
  <2>1. Len(ring) \in Nat /\ Len(ring') \in Nat /\ Len(ring) <= RingSize /\ RingSize \in Nat
    BY <1>3, ConcatOfBytes, UsbAssumption DEF FramesInv, UsbTypeOK
  <2> QED BY <1>3, <2>1
<1>5. UsbTypeOK'
  BY <1>1, <1>2, <1>3, <1>4 DEF FramesInv, UsbTypeOK
<1>6. Frames'
  BY <1>1, <1>2, <1>3 DEF FramesInv, Frames
<1> QED BY <1>5, <1>6 DEF FramesInv

(* What was sent is done with. *)
LEMMA FramesSent == ASSUME FramesInv, Sent PROVE FramesInv'
<1>1. /\ pc' = "loop" /\ sending' = "none" /\ polling' = TRUE
      /\ sending # "none" /\ ~transmitting /\ wire = NoFrame
      /\ UNCHANGED <<cable, configured, dtr, subscribed, stale, statusData, statusPending, ring,
                     expired, transmitting, wire, inBuf, host, inputs, breaks>>
  BY DEF Sent, FramesInv, Frames, connectionVars, statusVars, wireVars, bounds
<1>2. reply' \in [Request -> 0..MaxInputs] /\ noti' \in [Event -> Bytes]
      /\ Len(noti'["stdout"]) <= NotiSize /\ ToSet(noti'["app"]) \subseteq Id
  <2>1. CASE sending \in Request
    <3>1. reply' = [reply EXCEPT ![sending] = NoId] /\ noti' = noti
      BY <2>1 DEF Sent, Finished
    <3>2. reply' \in [Request -> 0..MaxInputs]
      BY <3>1, Nothing DEF FramesInv, UsbTypeOK, NoId
    <3> QED BY <3>1, <3>2 DEF FramesInv, UsbTypeOK, Frames
  <2>2. CASE sending \notin Request
    <3>1. reply' = reply /\ noti' = [noti EXCEPT ![sending] = <<>>]
      BY <2>2 DEF Sent, Finished
    <3>2. noti \in [Event -> Bytes] /\ Len(noti["stdout"]) <= NotiSize
          /\ ToSet(noti["app"]) \subseteq Id
      BY DEF FramesInv, UsbTypeOK, Frames
    <3>3. noti' \in [Event -> Bytes] /\ noti'["stdout"] \in {noti["stdout"], <<>>}
          /\ noti'["app"] \in {noti["app"], <<>>}
      BY <3>1, <3>2, SetOfNone DEF Event
    <3> QED BY <3>1, <3>2, <3>3, SetOfNone, UsbAssumption DEF FramesInv, UsbTypeOK
  <2> QED BY <2>1, <2>2
<1>3. UsbTypeOK'
  BY <1>1, <1>2 DEF FramesInv, UsbTypeOK, Kinds
<1>4. Frames'
  BY <1>1, <1>2, Nothing DEF FramesInv, Frames, Event
<1> QED BY <1>3, <1>4 DEF FramesInv

(* Ending a run, being configured, and giving up. *)
LEMMA FramesProcess ==
    ASSUME FramesInv, Configured \/ Await \/ SendFailed \/ Disconnected PROVE FramesInv'
<1>1. CASE Configured
  <2>1. /\ pc = "configuring" /\ pc' = "loop" /\ configured' = TRUE /\ polling' = TRUE
        /\ UNCHANGED <<cable, dtr, subscribed, stale, statusData, statusPending, noti, ring, reply,
                       sending, expired, transmitting, wire, inBuf, host, inputs, breaks>>
    BY <1>1 DEF Configured, connectionVars, statusVars, outVars, wireVars, bounds
  <2> QED BY <2>1 DEF FramesInv, UsbTypeOK, Frames
<1>2. CASE Await
  <2>1. /\ polling' = FALSE
        /\ UNCHANGED <<cable, configured, dtr, subscribed, stale, statusData, statusPending, noti,
                       ring, reply, pc, sending, expired, transmitting, wire, inBuf, host, inputs,
                       breaks>>
    BY <1>2 DEF Await, Yield, connectionVars, statusVars, outVars, wireVars, bounds
  <2> QED BY <2>1 DEF FramesInv, UsbTypeOK, Frames
<1>3. CASE SendFailed \/ Disconnected
  <2>1. /\ pc' # "sending" /\ pc' \in {"configuring", "loop"} /\ sending' = "none"
        /\ polling' = TRUE /\ configured' \in BOOLEAN /\ expired' \in BOOLEAN
        /\ UNCHANGED <<cable, statusData, wire, inBuf, host, inputs, breaks>>
    BY <1>3 DEF SendFailed, Disconnected, bounds, FramesInv, Frames, UsbTypeOK
  <2>2. ResetState
    BY <1>3 DEF SendFailed, Disconnected
  <2>3. Frames' /\ noti' = NoNotifications /\ ring' = <<>>
    BY <2>1, <2>2, FramesReset
  <2>4. dtr' = FALSE /\ subscribed' = FALSE /\ stale' = FALSE /\ statusPending' = FALSE
        /\ reply' = NoReplies /\ transmitting' = FALSE
    BY <2>2 DEF ResetState
  <2>5. /\ noti' \in [Event -> Bytes] /\ Len(noti'["stdout"]) <= NotiSize
        /\ ring' \in Bytes /\ Len(ring') <= RingSize /\ reply' \in [Request -> 0..MaxInputs]
    BY <2>3, <2>4, Nothing, SetOfNone, UsbAssumption
  <2>6. UsbTypeOK'
    BY <2>1, <2>4, <2>5 DEF FramesInv, UsbTypeOK, Kinds
  <2> QED BY <2>3, <2>6 DEF FramesInv
<1> QED BY <1>1, <1>2, <1>3

(* What the host has once it received a frame. *)
LEMMA HostReceivesType ==
    ASSUME FramesInv, wire # NoFrame
    PROVE  /\ HostReceives \in [port : {"closed", "app", "probe"}, subscribed : BOOLEAN,
                                awaits : [Request -> 0..MaxInputs], status : 0..MaxInputs,
                                printed : Bytes, got : SUBSET Id]
           /\ HostReceives.port = host.port
           /\ HostReceives.printed = IF wire.kind = "stdout" THEN host.printed \o wire.content
                                     ELSE host.printed
           /\ HostReceives.got = IF wire.kind = "app" THEN host.got \union ToSet(wire.content)
                                 ELSE host.got
<1>1. /\ wire.kind \in Request \union Event /\ wire.content \in Bytes
      /\ host \in [port : {"closed", "app", "probe"}, subscribed : BOOLEAN,
                   awaits : [Request -> 0..MaxInputs], status : 0..MaxInputs,
                   printed : Bytes, got : SUBSET Id]
  BY DEF FramesInv, UsbTypeOK, Frames, Kinds
<1>2. CASE wire.kind \in Request
  <2>1. HostReceives = [host EXCEPT !.awaits[wire.kind] =
                          IF @ = Head(wire.content) THEN NoId ELSE @]
    BY <1>2 DEF HostReceives, Request
  <2>2. wire.kind # "stdout" /\ wire.kind # "app"
    BY <1>2 DEF Request
  <2> QED BY <1>1, <1>2, <2>1, <2>2, Nothing DEF NoId
<1>3. CASE wire.kind = "status"
  <2>1. HostReceives = [host EXCEPT !.status = Head(wire.content)]
    BY <1>3 DEF HostReceives, Request
  <2>2. Head(wire.content) \in 0..MaxInputs
    BY <1>1, <1>3, SetOfSeq DEF FramesInv, Frames, Bytes
  <2> QED BY <1>1, <1>3, <2>1, <2>2
<1>4. CASE wire.kind = "stdout"
  <2>1. HostReceives = [host EXCEPT !.printed = @ \o wire.content]
    BY <1>4 DEF HostReceives, Request
  <2>2. host.printed \o wire.content \in Bytes
    BY <1>1, ConcatOfBytes
  <2> QED BY <1>1, <1>4, <2>1, <2>2
<1>5. CASE wire.kind = "app"
  <2>1. HostReceives = [host EXCEPT !.got = @ \union ToSet(wire.content)]
    BY <1>5 DEF HostReceives, Request
  <2>2. ToSet(wire.content) \subseteq Id
    BY <1>5 DEF FramesInv, Frames
  <2> QED BY <1>1, <1>5, <2>1, <2>2
<1> QED BY <1>1, <1>2, <1>3, <1>4, <1>5 DEF Event

(* A frame arrives, or its cable goes and comes. *)
LEMMA FramesCable ==
    ASSUME FramesInv, TransmitCplt \/ Plug \/ Unplug PROVE FramesInv'
<1>1. CASE TransmitCplt
  <2>1. /\ host' = HostReceives /\ wire # NoFrame /\ transmitting' = FALSE /\ wire' = NoFrame
        /\ UNCHANGED <<cable, configured, dtr, subscribed, stale, statusData, statusPending, noti,
                       ring, reply, pc, polling, sending, expired, inBuf, inputs, breaks>>
    BY <1>1 DEF TransmitCplt, connectionVars, statusVars, outVars, processVars, bounds
  <2>2. UsbTypeOK'
    BY <2>1, HostReceivesType, Nothing DEF FramesInv, UsbTypeOK
  <2>3. Frames'
    BY <2>1, Nothing DEF FramesInv, Frames, Event
  <2> QED BY <2>2, <2>3 DEF FramesInv
<1>2. CASE Plug
  <2>1. /\ cable' = TRUE /\ inBuf' = NoPacket /\ transmitting' = FALSE /\ wire' = NoFrame
        /\ UNCHANGED <<configured, dtr, subscribed, stale, statusData, statusPending, noti,
                       ring, reply, pc, polling, sending, expired, host, inputs, breaks>>
    BY <1>2 DEF Plug, connectionVars, statusVars, outVars, processVars, bounds
  <2>2. UsbTypeOK'
    BY <2>1, Nothing DEF FramesInv, UsbTypeOK
  <2>3. Frames'
    BY <2>1, Nothing DEF FramesInv, Frames, Event
  <2> QED BY <2>2, <2>3 DEF FramesInv
<1>3. CASE Unplug
  <2>1. /\ cable' = FALSE /\ host' = ClosedHost /\ wire' = NoFrame
        /\ breaks < MaxBreaks /\ breaks' = breaks + 1 /\ inputs' = inputs
        /\ UNCHANGED <<configured, dtr, subscribed, stale, statusData, statusPending, noti,
                       ring, reply, pc, polling, sending, expired, transmitting, inBuf>>
    BY <1>3 DEF Unplug, Break, connectionVars, statusVars, outVars, processVars
  <2>2. breaks' \in 0..MaxBreaks
    BY <2>1, UsbAssumption DEF FramesInv, UsbTypeOK
  <2>3. UsbTypeOK'
    BY <2>1, <2>2, Nothing DEF FramesInv, UsbTypeOK, ClosedHost
  <2>4. Frames'
    BY <2>1, Nothing DEF FramesInv, Frames, Event
  <2> QED BY <2>3, <2>4 DEF FramesInv
<1> QED BY <1>1, <1>2, <1>3

(* The timer. *)
LEMMA FramesTimer == ASSUME FramesInv, TimerExpires PROVE FramesInv'
<1>1. /\ expired' = TRUE /\ inputs' = inputs /\ breaks' \in {breaks, breaks + 1}
      /\ breaks' # breaks => breaks < MaxBreaks
      /\ UNCHANGED <<cable, configured, dtr, subscribed, stale, statusData, statusPending, noti,
                     ring, reply, pc, polling, sending, transmitting, wire, inBuf, host>>
  BY DEF TimerExpires, Break, connectionVars, statusVars, outVars, wireVars, bounds
<1>2. breaks' \in 0..MaxBreaks
  BY <1>1, UsbAssumption DEF FramesInv, UsbTypeOK
<1>3. UsbTypeOK'
  BY <1>1, <1>2 DEF FramesInv, UsbTypeOK
<1> QED BY <1>1, <1>3, FramesUnchanged DEF FramesInv

(* The host opens or closes its port. *)
LEMMA FramesPort ==
    ASSUME FramesInv, NEW opener \in {"app", "probe"}, OpenPort(opener) \/ ClosePort
    PROVE  FramesInv'
<1>1. UNCHANGED <<cable, configured, statusData, statusPending, noti, ring, reply, pc, polling,
                  sending, expired, transmitting, wire, inBuf, inputs>>
  BY DEF OpenPort, ClosePort, Break, statusVars, outVars, processVars, wireVars, bounds
<1>2. breaks' \in {breaks, breaks + 1} /\ (breaks' # breaks => breaks < MaxBreaks)
  BY DEF OpenPort, ClosePort, Break, bounds
<1>3. breaks' \in 0..MaxBreaks
  BY <1>2, UsbAssumption DEF FramesInv, UsbTypeOK
<1>4. {dtr', stale', subscribed'} \subseteq BOOLEAN
  BY DEF OpenPort, ClosePort, OnDtrChanged, FramesInv, UsbTypeOK
<1>5. host' \in [port : {"closed", "app", "probe"}, subscribed : BOOLEAN,
                 awaits : [Request -> 0..MaxInputs], status : 0..MaxInputs,
                 printed : Bytes, got : SUBSET Id]
  <2>1. host' = [host EXCEPT !.port = opener] \/ host' = ClosedHost
    BY DEF OpenPort, ClosePort
  <2> QED BY <2>1, Nothing DEF ClosedHost, FramesInv, UsbTypeOK
<1>6. UsbTypeOK'
  BY <1>1, <1>3, <1>4, <1>5 DEF FramesInv, UsbTypeOK
<1> QED BY <1>1, <1>6, FramesUnchanged DEF FramesInv

(* The host sends. *)
LEMMA FramesHostSends ==
    ASSUME FramesInv, NEW k \in Request, Subscribe \/ Unsubscribe \/ SendStray \/ HostRequests(k)
    PROVE  FramesInv'
<1>1. PICK opener, packet : HostSends(opener, packet)
  BY DEF Subscribe, Unsubscribe, SendStray, HostRequests
<1>2. UNCHANGED <<cable, configured, dtr, subscribed, stale, statusData, statusPending, noti,
                  ring, reply, pc, polling, sending, expired, transmitting, wire>>
  BY <1>1 DEF HostSends, connectionVars, statusVars, outVars, processVars, wireVars
<1>3. breaks' \in 0..MaxBreaks
  <2>1. breaks' \in {breaks, breaks + 1} /\ (breaks' # breaks => breaks < MaxBreaks)
    BY DEF Subscribe, Unsubscribe, SendStray, HostRequests, Input, Break, bounds
  <2> QED BY <2>1, UsbAssumption DEF FramesInv, UsbTypeOK
<1>4. inputs' \in 0..MaxInputs /\ (HostRequests(k) => inputs' \in Id)
  <2>1. inputs' \in {inputs, inputs + 1} /\ (inputs' # inputs => inputs < MaxInputs)
        /\ (HostRequests(k) => inputs' = inputs + 1)
    BY DEF Subscribe, Unsubscribe, SendStray, HostRequests, Input, Break, bounds
  <2> QED BY <2>1, UsbAssumption DEF Id, FramesInv, UsbTypeOK
<1>5. host' \in [port : {"closed", "app", "probe"}, subscribed : BOOLEAN,
                 awaits : [Request -> 0..MaxInputs], status : 0..MaxInputs,
                 printed : Bytes, got : SUBSET Id]
  <2>1. \/ host' = [host EXCEPT !.subscribed = TRUE]
        \/ host' = [host EXCEPT !.subscribed = FALSE]
        \/ host' = host \/ host' = [host EXCEPT !.awaits[k] = inputs']
    BY DEF Subscribe, Unsubscribe, SendStray, HostRequests
  <2>2. host \in [port : {"closed", "app", "probe"}, subscribed : BOOLEAN,
                  awaits : [Request -> 0..MaxInputs], status : 0..MaxInputs,
                  printed : Bytes, got : SUBSET Id]
    BY DEF FramesInv, UsbTypeOK
  <2>3. CASE host' = [host EXCEPT !.awaits[k] = inputs']
    BY <1>4, <2>2, <2>3
  <2>4. CASE host' # [host EXCEPT !.awaits[k] = inputs']
    BY <2>1, <2>2, <2>4
  <2> QED BY <2>3, <2>4
<1>6. inBuf' \in Packets \union {NoPacket}
  <2>1. \/ inBuf' \in {[type |-> "subscribe"], [type |-> "unsubscribe"], [type |-> "stray"]}
        \/ HostRequests(k) /\ inBuf' = [type |-> k, id |-> inputs']
    BY DEF Subscribe, Unsubscribe, SendStray, HostRequests, HostSends
  <2> QED BY <1>4, <2>1 DEF Packets
<1>7. UsbTypeOK'
  BY <1>2, <1>3, <1>4, <1>5, <1>6 DEF FramesInv, UsbTypeOK
<1> QED BY <1>2, <1>7, FramesUnchanged DEF FramesInv

(* Every step of the transport. *)
LEMMA FramesUsb == ASSUME FramesInv, UsbSteps PROVE FramesInv'
<1>1. CASE Process
  BY <1>1, FramesHandleDataIn, FramesSendReply, FramesSendEvent, FramesSent, FramesProcess
  DEF Process
<1>2. CASE Surroundings
  <2>1. "command" \in Request
    BY DEF Request
  <2>2. CASE TransmitCplt \/ Plug \/ Unplug
    BY <2>2, FramesCable
  <2>3. CASE TimerExpires
    BY <2>3, FramesTimer
  <2>4. CASE OpenPort("app") \/ OpenPort("probe") \/ ClosePort
    BY <2>4, FramesPort
  <2>5. CASE Subscribe \/ Unsubscribe \/ SendStray
    BY <2>1, <2>5, FramesHostSends
  <2>6. CASE \E k \in Request : HostRequests(k)
    BY <2>6, FramesHostSends
  <2> QED BY <1>2, <2>2, <2>3, <2>4, <2>5, <2>6 DEF Surroundings
<1> QED BY <1>1, <1>2 DEF UsbSteps

--------------------------------------------------------------------------------
(* The link: the transport, and the calls of the rest of the hub.              *)

LinkInv == TypeOK /\ Frames

(* What sending an event may do to the application data that waits: it queues  *)
(* the new one if there is room.                                               *)
LEMMA QueueType ==
    ASSUME FramesInv, NEW id \in Id, Queue(id)
    PROVE  /\ noti' = IF QueueError = "AGAIN" THEN [noti EXCEPT !["app"] = <<id>>] ELSE noti
           /\ QueueError \in Failure \union {"AGAIN"}
           /\ QueueError = "AGAIN" => Active /\ noti["app"] = <<>> /\ noti'["app"] = <<id>>
           /\ noti' \in [Event -> Bytes] /\ noti'["stdout"] = noti["stdout"]
           /\ noti'["status"] = noti["status"] /\ ToSet(noti'["app"]) \subseteq Id
<1>1. <<id>> \in Bytes /\ ToSet(<<id>>) = {id}
  <2>1. id \in 0..MaxInputs
    BY UsbAssumption DEF Id
  <2> QED BY <2>1, SetOfOne DEF Bytes
<1>2. noti \in [Event -> Bytes] /\ ToSet(noti["app"]) \subseteq Id
  BY DEF FramesInv, UsbTypeOK, Frames
<1>3. noti' = IF QueueError = "AGAIN" THEN [noti EXCEPT !["app"] = <<id>>] ELSE noti
  BY DEF Queue
<1>4. QueueError \in Failure \union {"AGAIN"}
      /\ (QueueError = "AGAIN" => Active /\ noti["app"] = <<>>)
  BY DEF QueueError, Failure
<1> QED BY <1>1, <1>2, <1>3, <1>4 DEF Event

(* The functions that the rest of the hub calls keep the frames in order.      *)
LEMMA FramesHub ==
    ASSUME FramesInv, BleDisconnect \/ ScheduleStatusUpdate \/ StdoutWrite PROVE FramesInv'
<1>1. UNCHANGED <<cable, configured, dtr, subscribed, stale, pc, polling, sending, expired,
                  transmitting, wire, inBuf, host>>
  <2>1. Unchanged
    BY DEF BleDisconnect, ScheduleStatusUpdate, StdoutWrite
  <2> QED BY <2>1 DEF Unchanged, connectionVars, processVars, wireVars
<1>2. CASE BleDisconnect
  <2>1. UNCHANGED <<statusData, statusPending, noti, ring, reply, inputs>>
        /\ breaks < MaxBreaks /\ breaks' = breaks + 1
    BY <1>2 DEF BleDisconnect, Break, statusVars, outVars
  <2>2. breaks' \in 0..MaxBreaks
    BY <2>1, UsbAssumption DEF FramesInv, UsbTypeOK
  <2> QED BY <1>1, <2>1, <2>2, FramesUnchanged DEF FramesInv, UsbTypeOK
<1>3. CASE ScheduleStatusUpdate \/ StdoutWrite
  <2>1. inputs < MaxInputs /\ inputs' = inputs + 1 /\ breaks' = breaks
    BY <1>3 DEF ScheduleStatusUpdate, ScheduleStatus, StdoutWrite, Input
  <2>2. inputs' \in 0..MaxInputs
    BY <2>1, UsbAssumption DEF FramesInv, UsbTypeOK
  <2>3. CASE ScheduleStatusUpdate
    <3>1. UNCHANGED <<noti, ring, reply>> /\ statusData' = inputs' /\ statusPending' = TRUE
      BY <2>3 DEF ScheduleStatusUpdate, ScheduleStatus, outVars
    <3> QED BY <1>1, <2>1, <2>2, <3>1, FramesUnchanged DEF FramesInv, UsbTypeOK
  <2>4. CASE StdoutWrite
    <3>1. /\ UNCHANGED <<statusData, statusPending, noti, reply>>
          /\ ring' = Append(ring, inputs') /\ RingSize - Len(ring) > 0
      BY <2>4 DEF StdoutWrite, StdoutTx, StdoutAvailable, statusVars
    <3>2. ring' \in Bytes /\ Len(ring') = Len(ring) + 1
      BY <2>2, <3>1, AppendOne DEF FramesInv, UsbTypeOK, Bytes
    <3>3. Len(ring) \in Nat
      BY ConcatOfBytes DEF FramesInv, UsbTypeOK
    <3>4. Len(ring') <= RingSize
      BY <3>1, <3>2, <3>3, UsbAssumption
    <3> QED BY <1>1, <2>1, <2>2, <3>1, <3>2, <3>4, FramesUnchanged DEF FramesInv, UsbTypeOK
  <2> QED BY <1>3, <2>3, <2>4
<1> QED BY <1>2, <1>3

(* So does a call.                                                             *)
LEMMA FramesCall == ASSUME FramesInv, NEW s \in Sender, Call(s) PROVE FramesInv'
<1>1. UNCHANGED <<cable, configured, dtr, subscribed, stale, pc, polling, sending, expired,
                  transmitting, wire, inBuf, host>>
  BY DEF Call, Unchanged, connectionVars, processVars, wireVars
<1>2. inputs' \in 0..MaxInputs /\ inputs' \in Id /\ breaks' = breaks
  <2>1. inputs < MaxInputs /\ inputs' = inputs + 1 /\ breaks' = breaks
    BY DEF Call, Input
  <2> QED BY <2>1, UsbAssumption DEF FramesInv, UsbTypeOK, Id
<1>3. Queue(inputs') /\ UNCHANGED <<statusData, statusPending, ring, reply>>
  BY DEF Call, statusVars
<1>4. /\ noti' \in [Event -> Bytes] /\ noti'["stdout"] = noti["stdout"]
      /\ noti'["status"] = noti["status"] /\ ToSet(noti'["app"]) \subseteq Id
      /\ noti["app"] # <<>> => noti'["app"] = noti["app"]
  BY <1>2, <1>3, QueueType
<1>5. UsbTypeOK'
  BY <1>1, <1>2, <1>3, <1>4 DEF FramesInv, UsbTypeOK
<1>6. Frames'
  BY <1>1, <1>4 DEF FramesInv, Frames, Event
<1> QED BY <1>5, <1>6 DEF FramesInv

(* What a call comes to. *)
LEMMA ResultType ==
    ASSUME NEW e \in [Transport -> Failure \union {"AGAIN", "SUCCESS"}],
           \A t \in Transport : e[t] # "AGAIN"
    PROVE  /\ Result(e) \in Failure \union {"SUCCESS"}
           /\ Result(e) = "SUCCESS" <=> \E t \in Transport : e[t] = "SUCCESS"
BY DEF Result, Transport, Failure

(* The errors with which a call begins, and with which a run of it ends.       *)
Begun == [t \in Transport |-> IF t = "ble" THEN BleQueueError ELSE QueueError]
Waits == [ble |-> ble.noti # NoId, usb |-> noti["app"] # <<>>]
Goes == [t \in Transport |-> IF err[t] = "AGAIN" /\ ~Waits[t] THEN "SUCCESS" ELSE err[t]]

(* A first call, step by step.                                                 *)
LEMMA CallFacts ==
    ASSUME TypeOK, NEW s \in Sender, Call(s)
    PROVE  /\ Begun \in [Transport -> Failure \union {"AGAIN"}]
           /\ Begun["ble"] = BleQueueError /\ Begun["usb"] = QueueError
           /\ inputs' = inputs + 1 /\ inputs' \in Id /\ Queue(inputs')
           /\ ble' = IF BleQueueError = "AGAIN" THEN [ble EXCEPT !.noti = inputs'] ELSE ble
           /\ BleQueueError = "AGAIN" => ble.noti = NoId
           /\ IF \E t \in Transport : Begun[t] = "AGAIN"
                THEN /\ awaiting' = [r \in Sender |-> r = s]
                     /\ outcome' = [outcome EXCEPT ![s] = "none"]
                ELSE /\ outcome' = [outcome EXCEPT ![s] = Result(Begun)]
                     /\ UNCHANGED awaiting
           /\ SetErr(Begun)
           /\ ~awaiting[s] /\ sent' = [sent EXCEPT ![s] = inputs'] /\ cut' = FALSE
           /\ UNCHANGED <<cable, configured, dtr, subscribed, pc, sending, transmitting, wire, host>>
<1>1. BleQueueError \in Failure \union {"AGAIN"} /\ QueueError \in Failure \union {"AGAIN"}
      /\ (BleQueueError = "AGAIN" => ble.noti = NoId)
  BY DEF BleQueueError, QueueError, Failure
<1>2. Begun \in [Transport -> Failure \union {"AGAIN"}] /\ Begun["ble"] = BleQueueError
      /\ Begun["usb"] = QueueError
  BY <1>1 DEF Begun, Transport
<1>3. inputs' = inputs + 1 /\ inputs < MaxInputs
  BY DEF Call, Input
<1>4. inputs' \in Id
  BY <1>3, UsbAssumption DEF TypeOK, UsbTypeOK, Id
<1>5. /\ Queue(inputs')
      /\ ble' = IF Begun.ble = "AGAIN" THEN [ble EXCEPT !.noti = inputs'] ELSE ble
      /\ IF "AGAIN" \in {Begun.ble, Begun.usb}
           THEN /\ awaiting' = [r \in Sender |-> r = s]
                /\ outcome' = [outcome EXCEPT ![s] = "none"]
           ELSE /\ outcome' = [outcome EXCEPT ![s] = Result(Begun)]
                /\ UNCHANGED awaiting
      /\ SetErr(Begun)
  BY DEF Call, Begun
<1>6. ("AGAIN" \in {Begun.ble, Begun.usb}) <=> \E t \in Transport : Begun[t] = "AGAIN"
  BY DEF Transport
<1>7. /\ ~awaiting[s] /\ sent' = [sent EXCEPT ![s] = inputs'] /\ cut' = FALSE
      /\ UNCHANGED <<cable, configured, dtr, subscribed, pc, sending, transmitting, wire, host>>
  BY DEF Call, Unchanged, connectionVars, processVars, wireVars
<1> QED BY <1>1, <1>2, <1>3, <1>4, <1>5, <1>6, <1>7

(* A further run of a call, step by step.                                      *)
LEMMA IterateFacts ==
    ASSUME TypeOK, NEW s \in Sender, Iterate(s)
    PROVE  /\ awaiting[s]
           /\ Goes \in [Transport -> Failure \union {"AGAIN", "SUCCESS"}]
           /\ Goes["ble"] = (IF err["ble"] = "AGAIN" /\ ble.noti = NoId THEN "SUCCESS"
                             ELSE err["ble"])
           /\ Goes["usb"] = (IF err["usb"] = "AGAIN" /\ noti["app"] = <<>> THEN "SUCCESS"
                             ELSE err["usb"])
           /\ IF GatherEnded(Goes)
                THEN /\ awaiting' = [awaiting EXCEPT ![s] = FALSE]
                     /\ outcome' = [outcome EXCEPT ![s] = Result(Goes)]
                ELSE UNCHANGED <<awaiting, outcome>>
           /\ SetErr(Goes)
           /\ UNCHANGED <<usbVars, ble, sent, cut>>
<1>1. Waits["ble"] = (ble.noti # NoId) /\ Waits["usb"] = (noti["app"] # <<>>)
  BY DEF Waits
<1>2. /\ awaiting[s] /\ SetErr(Goes) /\ UNCHANGED <<usbVars, ble, sent, cut>>
      /\ IF GatherEnded(Goes)
           THEN /\ awaiting' = [awaiting EXCEPT ![s] = FALSE]
                /\ outcome' = [outcome EXCEPT ![s] = Result(Goes)]
           ELSE UNCHANGED <<awaiting, outcome>>
  BY DEF Iterate, Goes, Waits
<1>3. err \in [Transport -> Failure \union {"AGAIN", "SUCCESS"}]
  BY DEF TypeOK
<1>4. Goes \in [Transport -> Failure \union {"AGAIN", "SUCCESS"}]
  BY <1>3 DEF Goes
<1>5. "ble" \in Transport /\ "usb" \in Transport
  BY DEF Transport
<1>6. /\ Goes["ble"] = (IF err["ble"] = "AGAIN" /\ ~Waits["ble"] THEN "SUCCESS" ELSE err["ble"])
      /\ Goes["usb"] = (IF err["usb"] = "AGAIN" /\ ~Waits["usb"] THEN "SUCCESS" ELSE err["usb"])
  BY <1>5 DEF Goes
<1> QED BY <1>1, <1>2, <1>4, <1>6

(* The types of what the calls of the rest of the hub keep.                    *)
LinkTypeOK ==
    /\ ble \in [connected : BOOLEAN, noti : 0..MaxInputs, got : SUBSET Id]
    /\ err \in [Transport -> Failure \union {"AGAIN", "SUCCESS"}]
    /\ awaiting \in [Sender -> BOOLEAN] /\ cut \in BOOLEAN
    /\ sent \in [Sender -> 0..MaxInputs]
    /\ outcome \in [Sender -> Failure \union {"none", "SUCCESS"}]

(* A call keeps them. *)
LEMMA CallKeepsType == ASSUME TypeOK, NEW s \in Sender, Call(s) PROVE LinkTypeOK'
<1>1. LinkTypeOK
  BY DEF TypeOK, LinkTypeOK
<1>2. inputs' \in Id
  BY CallFacts
<1>3. ble' \in [connected : BOOLEAN, noti : 0..MaxInputs, got : SUBSET Id]
  <2>1. ble' = ble \/ ble' = [ble EXCEPT !.noti = inputs']
    BY CallFacts
  <2>2. inputs' \in 0..MaxInputs
    BY <1>2, UsbAssumption DEF Id
  <2> QED BY <1>1, <2>1, <2>2 DEF LinkTypeOK
<1>4. Begun \in [Transport -> Failure \union {"AGAIN", "SUCCESS"}]
  <2>1. Begun \in [Transport -> Failure \union {"AGAIN"}]
    BY CallFacts
  <2> QED BY <2>1
<1>5. err' \in [Transport -> Failure \union {"AGAIN", "SUCCESS"}]
  <2>1. SetErr(Begun)
    BY CallFacts
  <2> QED BY <1>4, <2>1 DEF SetErr, NoErrors
<1>6. awaiting' \in [Sender -> BOOLEAN] /\ outcome' \in [Sender -> Failure \union {"none", "SUCCESS"}]
  <2>1. CASE \E t \in Transport : Begun[t] = "AGAIN"
    <3>1. /\ awaiting' = [r \in Sender |-> r = s]
          /\ outcome' = [outcome EXCEPT ![s] = "none"]
      BY <2>1, CallFacts
    <3> QED BY <1>1, <3>1 DEF LinkTypeOK
  <2>2. CASE ~\E t \in Transport : Begun[t] = "AGAIN"
    <3>1. Result(Begun) \in Failure \union {"SUCCESS"}
      BY <1>4, <2>2, ResultType
    <3>2. outcome' = [outcome EXCEPT ![s] = Result(Begun)] /\ awaiting' = awaiting
      BY <2>2, CallFacts
    <3> QED BY <1>1, <3>1, <3>2 DEF LinkTypeOK
  <2> QED BY <2>1, <2>2
<1>7. sent' \in [Sender -> 0..MaxInputs] /\ cut' \in BOOLEAN
  <2>1. sent' = [sent EXCEPT ![s] = inputs'] /\ cut' = FALSE
    BY CallFacts
  <2>2. inputs' \in 0..MaxInputs
    BY <1>2, UsbAssumption DEF Id
  <2> QED BY <1>1, <2>1, <2>2 DEF LinkTypeOK
<1> QED BY <1>3, <1>5, <1>6, <1>7 DEF LinkTypeOK

(* Every step keeps the types and the frames. *)
LEMMA LinkNext == LinkInv /\ [Next]_vars => LinkInv'
<1> SUFFICES ASSUME LinkInv, [Next]_vars PROVE LinkInv'
  OBVIOUS
<1>0. FramesInv /\ TypeOK /\ LinkTypeOK
  BY DEF LinkInv, FramesInv, TypeOK, LinkTypeOK
<1>1. CASE UsbStep
  <2>1. FramesInv'
    BY <1>0, <1>1, FramesUsb DEF UsbStep
  <2>2. LinkTypeOK'
    BY <1>0, <1>1 DEF UsbStep, LinkTypeOK
  <2> QED BY <2>1, <2>2 DEF LinkInv, TypeOK, LinkTypeOK, FramesInv
<1>2. CASE BleDisconnect \/ ScheduleStatusUpdate \/ StdoutWrite
  <2>1. FramesInv'
    BY <1>0, <1>2, FramesHub
  <2>2. CASE BleDisconnect
    <3>1. PICK rest \in {ble.noti, NoId} : ble' = [ble EXCEPT !.connected = FALSE, !.noti = rest]
      BY <2>2 DEF BleDisconnect
    <3>2. ble' \in [connected : BOOLEAN, noti : 0..MaxInputs, got : SUBSET Id]
      BY <1>0, <3>1, Nothing DEF LinkTypeOK, NoId
    <3>3. cut' \in BOOLEAN /\ UNCHANGED <<err, awaiting, sent, outcome>>
      BY <1>0, <2>2 DEF BleDisconnect, LinkTypeOK
    <3>4. LinkTypeOK'
      BY <1>0, <3>2, <3>3 DEF LinkTypeOK
    <3> QED BY <2>1, <3>4 DEF LinkInv, TypeOK, LinkTypeOK, FramesInv
  <2>3. CASE ScheduleStatusUpdate \/ StdoutWrite
    <3>1. UNCHANGED <<ble, err, awaiting, sent, outcome, cut>>
      BY <2>3 DEF ScheduleStatusUpdate, StdoutWrite, linkVars
    <3>2. LinkTypeOK'
      BY <1>0, <3>1 DEF LinkTypeOK
    <3> QED BY <2>1, <3>2 DEF LinkInv, TypeOK, LinkTypeOK, FramesInv
  <2> QED BY <1>2, <2>2, <2>3
<1>3. CASE BleSent
  <2>1. /\ ble.noti # NoId /\ ble' = [ble EXCEPT !.noti = NoId, !.got = @ \union {ble.noti}]
        /\ UNCHANGED usbVars /\ UNCHANGED <<err, awaiting, sent, outcome, cut>>
    BY <1>3 DEF BleSent, callVars
  <2>2. FramesInv'
    BY <1>0, <2>1, UnchangedUsb
  <2>3. ble.noti \in Id
    BY <1>0, <2>1, UsbAssumption DEF LinkTypeOK, NoId, Id
  <2>4. LinkTypeOK'
    BY <1>0, <2>1, <2>3, Nothing DEF LinkTypeOK, NoId
  <2> QED BY <2>2, <2>4 DEF LinkInv, TypeOK, LinkTypeOK, FramesInv
<1>4. ASSUME NEW s \in Sender, Call(s) PROVE LinkInv'
  <2>1. FramesInv' /\ LinkTypeOK'
    BY <1>0, <1>4, FramesCall, CallKeepsType
  <2> QED BY <2>1 DEF LinkInv, TypeOK, LinkTypeOK, FramesInv
<1>5. ASSUME NEW s \in Sender, Iterate(s) PROVE LinkInv'
  <2>1. FramesInv' /\ UNCHANGED <<ble, sent, cut>>
    BY <1>0, <1>5, UnchangedUsb, IterateFacts
  <2>2. err' \in [Transport -> Failure \union {"AGAIN", "SUCCESS"}]
    <3>1. Goes \in [Transport -> Failure \union {"AGAIN", "SUCCESS"}] /\ SetErr(Goes)
      BY <1>0, <1>5, IterateFacts
    <3> QED BY <3>1 DEF SetErr, NoErrors
  <2>3. awaiting' \in [Sender -> BOOLEAN]
        /\ outcome' \in [Sender -> Failure \union {"none", "SUCCESS"}]
    <3>1. CASE GatherEnded(Goes)
      <4>1. Result(Goes) \in Failure \union {"SUCCESS"}
        BY <1>0, <1>5, <3>1, IterateFacts, ResultType DEF GatherEnded
      <4>2. /\ awaiting' = [awaiting EXCEPT ![s] = FALSE]
            /\ outcome' = [outcome EXCEPT ![s] = Result(Goes)]
        BY <1>0, <1>5, <3>1, IterateFacts
      <4> QED BY <1>0, <4>1, <4>2 DEF LinkTypeOK
    <3>2. CASE ~GatherEnded(Goes)
      BY <1>0, <1>5, <3>2, IterateFacts DEF LinkTypeOK
    <3> QED BY <3>1, <3>2
  <2>4. LinkTypeOK'
    BY <1>0, <2>1, <2>2, <2>3 DEF LinkTypeOK
  <2> QED BY <2>1, <2>4 DEF LinkInv, TypeOK, LinkTypeOK, FramesInv
<1>6. ASSUME NEW s \in Sender, Abandon(s) PROVE LinkInv'
  <2>1. /\ awaiting' = [awaiting EXCEPT ![s] = FALSE] /\ SetErr(err)
        /\ UNCHANGED usbVars /\ UNCHANGED <<ble, sent, outcome, cut>>
    BY <1>6 DEF Abandon
  <2>2. FramesInv'
    BY <1>0, <2>1, UnchangedUsb
  <2>3. err' \in [Transport -> Failure \union {"AGAIN", "SUCCESS"}]
    BY <1>0, <2>1 DEF LinkTypeOK, SetErr, NoErrors
  <2>4. LinkTypeOK'
    BY <1>0, <2>1, <2>3 DEF LinkTypeOK
  <2> QED BY <2>2, <2>4 DEF LinkInv, TypeOK, LinkTypeOK, FramesInv
<1>7. CASE UNCHANGED vars
  <2>1. UNCHANGED usbVars /\ UNCHANGED <<ble, err, awaiting, sent, outcome, cut>>
    BY <1>7 DEF vars, linkVars
  <2>2. FramesInv' /\ LinkTypeOK'
    BY <1>0, <2>1, UnchangedUsb DEF LinkTypeOK
  <2> QED BY <2>2 DEF LinkInv, TypeOK, LinkTypeOK, FramesInv
<1> QED BY <1>1, <1>2, <1>3, <1>4, <1>5, <1>6, <1>7 DEF Next

(* Nothing is sent and nobody waits at the start. *)
LEMMA LinkInit == Init => LinkInv
<1> SUFFICES ASSUME Init PROVE LinkInv
  OBVIOUS
<1>1. FramesInv
  BY FramesInit DEF Init
<1>2. LinkTypeOK
  BY Nothing DEF Init, LinkTypeOK, NoErrors, NoId
<1> QED BY <1>1, <1>2 DEF LinkInv, TypeOK, LinkTypeOK, FramesInv

(* So they are kept for ever.                                                  *)
LEMMA LinkInvariant == Spec => []LinkInv
BY LinkInit, LinkNext, PTL DEF Spec

(* Every variable of HostLink and Usb keeps its type: the ring buffer and the  *)
(* notification of stdout never hold more than they can.                       *)
THEOREM TypeCorrect == Spec => []TypeOK
<1>1. LinkInv => TypeOK
  BY DEF LinkInv
<1> QED BY LinkInvariant, <1>1, PTL

(* tx_chunk always finds the endpoint free: what was given up is gone before   *)
(* the next frame is sent, whatever the cable did meanwhile.                   *)
THEOREM EndpointStaysFree == Spec => []EndpointIsFree
<1>1. LinkInv => EndpointIsFree
  BY DEF LinkInv, Frames, EndpointIsFree
<1> QED BY LinkInvariant, <1>1, PTL

--------------------------------------------------------------------------------
(* What the program prints.  It flows from the ring buffer to the notification *)
(* or frame ahead of it and on to the host, except for a frame that comes late: *)
(* one that the process has given up.                                          *)
Late == IF wire.kind = "stdout" /\ sending # "stdout" THEN wire.content ELSE <<>>
Ahead == IF sending = "stdout" THEN wire.content ELSE noti["stdout"]

(* The parts of the output are in order, and one comes before the other.       *)
Streams ==
    /\ Increasing(host.printed) /\ Increasing(Late) /\ Increasing(Ahead) /\ Increasing(ring)
    /\ Before(host.printed, Late) /\ Before(host.printed, Ahead) /\ Before(host.printed, ring)
    /\ Before(Late, Ahead) /\ Before(Late, ring) /\ Before(Ahead, ring)
    /\ ToSet(host.printed) \union ToSet(Late) \union ToSet(Ahead) \union ToSet(ring) \subseteq 0..inputs

(* What a step may do to the output: nothing, but for a late frame; drop it    *)
(* with the connection, where the frame may become a late one; deliver a frame; *)
(* move bytes ahead; or add one.                                               *)
Keep == Late' \in {Late, <<>>} /\ UNCHANGED <<host.printed, Ahead, ring>>

Drop ==
    /\ ~Active' /\ host'.printed = host.printed /\ ring' \in {ring, <<>>}
    /\ \/ Late' \in {Late, <<>>} /\ Ahead' \in {Ahead, <<>>}
       \/ Late' = Ahead /\ Ahead' = <<>>

Deliver ==
    /\ Late' = <<>> /\ ring' = ring
    /\ \/ host'.printed = host.printed \o Late /\ Ahead' = Ahead
       \/ host'.printed = host.printed \o Ahead /\ Ahead' = <<>>

Move ==
    /\ Late' = <<>> /\ host'.printed = host.printed
    /\ Ahead' \o ring' = Ahead \o ring

Add ==
    /\ inputs' = inputs + 1 /\ ring' = Append(ring, inputs')
    /\ UNCHANGED <<host.printed, Late, Ahead>>

Flow == Keep \/ Drop \/ Deliver \/ Move \/ Add

(* Each part is a sequence of bytes.                                           *)
LEMMA PartsType ==
    ASSUME FramesInv
    PROVE  host.printed \in Bytes /\ Late \in Bytes /\ Ahead \in Bytes /\ ring \in Bytes
<1>1. host.printed \in Bytes /\ wire.content \in Bytes /\ noti["stdout"] \in Bytes /\ ring \in Bytes
  BY DEF FramesInv, UsbTypeOK, Event
<1> QED BY <1>1, SetOfNone DEF Late, Ahead

(* The flow depends on few of the variables. *)
LEMMA FlowKept ==
    ASSUME UNCHANGED <<sending, wire, noti, ring>>, host'.printed = host.printed
    PROVE  Keep
BY DEF Keep, Late, Ahead

(* What the process does to the output. *)
LEMMA FlowProcess == ASSUME FramesInv, Process PROVE Flow
<1>1. CASE HandleDataIn \/ Configured \/ Await
  <2>1. UNCHANGED <<sending, wire, noti, ring, host>>
    BY <1>1 DEF HandleDataIn, Configured, Await, Yield, outVars, wireVars
  <2> QED BY <2>1, FlowKept DEF Flow
<1>2. ASSUME NEW k \in Request, SendReply(k) PROVE Flow
  <2>1. /\ sending' = k /\ wire' = [kind |-> k, content |-> <<reply[k]>>] /\ pc # "sending"
        /\ k # "stdout" /\ UNCHANGED <<noti, ring, host>>
    BY <1>2 DEF SendReply, InLoop, StartTx, Request
  <2>2. sending = "none"
    BY <2>1 DEF FramesInv, Frames
  <2>3. Keep
    BY <2>1, <2>2 DEF Keep, Late, Ahead
  <2> QED BY <2>3 DEF Flow
<1>3. ASSUME NEW e \in Event, SendEvent(e) PROVE Flow
  <2>1. /\ sending' = e /\ wire' = [kind |-> e, content |-> Updated[e]] /\ pc # "sending"
        /\ noti' = Updated /\ ring' = Rest /\ host' = host
    BY <1>3 DEF SendEvent, InLoop, StartTx, Rest
  <2>2. sending = "none"
    BY <2>1 DEF FramesInv, Frames
  <2>3. Ahead = noti["stdout"] /\ Ahead' = Updated["stdout"] /\ Late' = <<>>
    BY <2>1, <2>2 DEF Ahead, Late
  <2>4. Updated["stdout"] \o Rest = noti["stdout"] \o ring
    BY UpdatedType
  <2>5. Move
    BY <2>1, <2>3, <2>4 DEF Move
  <2> QED BY <2>5 DEF Flow
<1>4. CASE Sent
  <2>1. /\ sending' = "none" /\ wire = NoFrame /\ sending # "none"
        /\ UNCHANGED <<ring, wire, host>>
    BY <1>4 DEF Sent, FramesInv, Frames, wireVars
  <2>2. noti'["stdout"] = IF sending = "stdout" THEN <<>> ELSE noti["stdout"]
    BY <1>4 DEF Sent, Finished, Request, Event, FramesInv, UsbTypeOK
  <2>3. Keep
    BY <2>1, <2>2 DEF Keep, Late, Ahead, NoFrame
  <2> QED BY <2>3 DEF Flow
<1>5. CASE SendFailed \/ Disconnected
  <2>1. /\ ResetState /\ dtr' = FALSE /\ noti' = NoNotifications /\ ring' = <<>>
        /\ UNCHANGED <<wire, host>>
    BY <1>5 DEF SendFailed, Disconnected, ResetState
  <2>2. sending' = "none"
    BY <1>5 DEF SendFailed, Disconnected, FramesInv, Frames
  <2>3. ~Active' /\ Ahead' = <<>>
    BY <2>1, <2>2, Nothing DEF Active, Ahead
  <2>4. Late' \in {Late, <<>>} \/ Late' = Ahead
    BY <2>1, <2>2 DEF Late, Ahead
  <2>5. Drop
    BY <2>1, <2>3, <2>4 DEF Drop
  <2> QED BY <2>5 DEF Flow
<1> QED BY <1>1, <1>2, <1>3, <1>4, <1>5 DEF Process

(* What the surroundings do to it. *)
LEMMA FlowSurroundings == ASSUME FramesInv, Surroundings PROVE Flow
<1>0. /\ host \in [port : {"closed", "app", "probe"}, subscribed : BOOLEAN,
                   awaits : [Request -> 0..MaxInputs], status : 0..MaxInputs,
                   printed : Bytes, got : SUBSET Id]
  BY DEF FramesInv, UsbTypeOK
<1>1. CASE TransmitCplt
  <2>1. /\ host' = HostReceives /\ wire # NoFrame /\ wire' = NoFrame
        /\ UNCHANGED <<sending, noti, ring>>
    BY <1>1 DEF TransmitCplt, outVars, processVars
  <2>2. HostReceives.printed = IF wire.kind = "stdout" THEN host.printed \o wire.content
                               ELSE host.printed
    BY <2>1, HostReceivesType
  <2>3. Late' = <<>> /\ wire'.content = <<>>
    BY <2>1 DEF Late, NoFrame
  <2>4. CASE wire.kind = "stdout"
    <3>1. Deliver
      BY <2>1, <2>2, <2>3, <2>4 DEF Deliver, Late, Ahead
    <3> QED BY <3>1 DEF Flow
  <2>5. CASE wire.kind # "stdout"
    <3>1. sending # "stdout"
      BY <2>1, <2>5 DEF FramesInv, Frames
    <3>2. Keep
      BY <2>1, <2>2, <2>3, <2>5, <3>1 DEF Keep, Ahead
    <3> QED BY <3>2 DEF Flow
  <2> QED BY <2>4, <2>5
<1>2. CASE Plug
  <2>1. wire = NoFrame /\ wire' = NoFrame /\ UNCHANGED <<sending, noti, ring, host>>
    BY <1>2 DEF Plug, FramesInv, Frames, outVars, processVars
  <2> QED BY <2>1, FlowKept DEF Flow
<1>3. CASE Unplug
  <2>1. /\ cable' = FALSE /\ wire' = NoFrame /\ host' = ClosedHost
        /\ UNCHANGED <<sending, noti, ring>>
    BY <1>3 DEF Unplug, outVars, processVars
  <2>2. host'.printed = host.printed /\ ~Active'
    BY <1>0, <2>1 DEF ClosedHost, Active, Ready
  <2>3. Late' = <<>> /\ Ahead' \in {Ahead, <<>>}
    BY <2>1 DEF Late, Ahead, NoFrame
  <2>4. Drop
    BY <2>1, <2>2, <2>3 DEF Drop
  <2> QED BY <2>4 DEF Flow
<1>4. CASE TimerExpires \/ Subscribe \/ Unsubscribe \/ SendStray
  <2>1. UNCHANGED <<sending, wire, noti, ring>>
    BY <1>4 DEF TimerExpires, Subscribe, Unsubscribe, SendStray, HostSends, outVars, processVars,
                wireVars
  <2>2. host'.printed = host.printed
    BY <1>0, <1>4 DEF TimerExpires, Subscribe, Unsubscribe, SendStray
  <2> QED BY <2>1, <2>2, FlowKept DEF Flow
<1>5. CASE OpenPort("app") \/ OpenPort("probe") \/ ClosePort
  <2>1. UNCHANGED <<sending, wire, noti, ring>>
    BY <1>5 DEF OpenPort, ClosePort, outVars, processVars, wireVars
  <2>2. host'.printed = host.printed
    <3>1. CASE ClosePort
      BY <1>0, <3>1 DEF ClosePort, ClosedHost
    <3>2. ASSUME NEW opener, OpenPort(opener) PROVE host'.printed = host.printed
      BY <1>0, <3>2 DEF OpenPort
    <3> QED BY <1>5, <3>1, <3>2
  <2> QED BY <2>1, <2>2, FlowKept DEF Flow
<1>6. ASSUME NEW k \in Request, HostRequests(k) PROVE Flow
  <2>1. UNCHANGED <<sending, wire, noti, ring>>
    BY <1>6 DEF HostRequests, HostSends, outVars, processVars, wireVars
  <2>2. host'.printed = host.printed
    BY <1>0, <1>6 DEF HostRequests
  <2> QED BY <2>1, <2>2, FlowKept DEF Flow
<1> QED BY <1>1, <1>2, <1>3, <1>4, <1>5, <1>6 DEF Surroundings

(* Whatever happens, no byte moves but in one of these ways.                   *)
LEMMA FlowNext == ASSUME LinkInv, [Next]_vars PROVE Flow /\ inputs' \in {inputs, inputs + 1}
<1>0. FramesInv /\ TypeOK
  BY DEF LinkInv, FramesInv, TypeOK
<1>1. CASE UsbStep
  <2>1. Flow
    BY <1>0, <1>1, FlowProcess, FlowSurroundings DEF UsbStep, UsbSteps
  <2>2. inputs' \in {inputs, inputs + 1}
    <3>1. CASE Process
      BY <3>1 DEF Process, HandleDataIn, Configured, SendReply, SendEvent, StartTx, Await, Sent,
                  SendFailed, Disconnected, bounds
    <3>2. CASE Surroundings
      BY <3>2 DEF Surroundings, TimerExpires, TransmitCplt, Plug, Unplug, OpenPort, ClosePort,
                  Subscribe, Unsubscribe, SendStray, HostRequests, Input, Break, bounds
    <3> QED BY <1>1, <3>1, <3>2 DEF UsbStep, UsbSteps
  <2> QED BY <2>1, <2>2
<1>2. CASE StdoutWrite
  <2>1. /\ inputs' = inputs + 1 /\ ring' = Append(ring, inputs')
        /\ UNCHANGED <<sending, wire, noti, host>>
    BY <1>2 DEF StdoutWrite, StdoutTx, Input, Unchanged, processVars, wireVars
  <2>2. Add
    BY <2>1 DEF Add, Late, Ahead
  <2> QED BY <2>1, <2>2 DEF Flow
<1>3. CASE BleDisconnect \/ ScheduleStatusUpdate
  <2>1. UNCHANGED <<sending, wire, noti, ring, host>> /\ inputs' \in {inputs, inputs + 1}
    BY <1>3 DEF BleDisconnect, ScheduleStatusUpdate, ScheduleStatus, Input, Break, Unchanged,
                outVars, processVars, wireVars
  <2> QED BY <2>1, FlowKept DEF Flow
<1>4. ASSUME NEW s \in Sender, Call(s) PROVE Flow /\ inputs' \in {inputs, inputs + 1}
  <2>1. UNCHANGED <<sending, wire, ring, host>> /\ inputs' = inputs + 1 /\ Queue(inputs')
    BY <1>4 DEF Call, Input, Unchanged, processVars, wireVars
  <2>2. noti'["stdout"] = noti["stdout"]
    BY <1>0, <2>1 DEF Queue, FramesInv, UsbTypeOK, Event
  <2>3. Keep
    BY <2>1, <2>2 DEF Keep, Late, Ahead
  <2> QED BY <2>1, <2>3 DEF Flow
<1>5. CASE (\E s \in Sender : Iterate(s) \/ Abandon(s)) \/ BleSent \/ UNCHANGED vars
  <2>1. UNCHANGED usbVars
    BY <1>5 DEF Iterate, Abandon, BleSent, vars
  <2>2. UNCHANGED <<sending, wire, noti, ring, host, inputs>>
    BY <2>1 DEF usbVars, outVars, processVars, wireVars, bounds
  <2> QED BY <2>2, FlowKept DEF Flow
<1> QED BY <1>1, <1>2, <1>3, <1>4, <1>5 DEF Next

(* Two empty ends are in order with everything.                                *)
LEMMA EmptyInOrder ==
    ASSUME NEW s
    PROVE  Increasing(<<>>) /\ ToSet(<<>>) = {} /\ Before(<<>>, s) /\ Before(s, <<>>)
BY SetOfNone DEF Increasing, Before

(* Four parts in order are in order as one, and as fewer parts.                *)
LEMMA JoinInOrder ==
    ASSUME NEW s \in Bytes, NEW t \in Bytes
    PROVE  /\ s \o t \in Bytes /\ ToSet(s \o t) = ToSet(s) \union ToSet(t)
           /\ Increasing(s \o t) <=> Increasing(s) /\ Increasing(t) /\ Before(s, t)
<1>1. s \in Seq(Nat) /\ t \in Seq(Nat)
  BY UsbAssumption DEF Bytes
<1> QED BY <1>1, SetOfConcat, IncreasingConcat DEF Bytes

(* One byte more. *)
LEMMA AppendByte ==
    ASSUME NEW s \in Bytes, NEW x \in 0..MaxInputs
    PROVE  ToSet(Append(s, x)) = ToSet(s) \union {x}
<1>1. Append(s, x) = s \o <<x>>
  BY AppendOne DEF Bytes
<1>2. <<x>> \in Bytes /\ ToSet(<<x>>) = {x}
  BY SetOfOne DEF Bytes
<1> QED BY <1>1, <1>2, JoinInOrder

(* The output stays in order whatever the step.                                *)
LEMMA StreamsNext == LinkInv /\ Streams /\ [Next]_vars => Streams'
<1> SUFFICES ASSUME LinkInv, Streams, [Next]_vars PROVE Streams'
  OBVIOUS
<1>0. LinkInv' /\ host'.printed \in Bytes /\ Late' \in Bytes /\ Ahead' \in Bytes /\ ring' \in Bytes
  <2>1. LinkInv'
    BY LinkNext
  <2>2. host'.printed \in Bytes /\ wire'.content \in Bytes /\ noti'["stdout"] \in Bytes
        /\ ring' \in Bytes
    BY <2>1 DEF LinkInv, TypeOK, UsbTypeOK, Event
  <2> QED BY <2>1, <2>2, SetOfNone DEF Late, Ahead
<1>1. Flow /\ inputs' \in {inputs, inputs + 1}
  BY FlowNext
<1>2. /\ host.printed \in Bytes /\ Late \in Bytes /\ Ahead \in Bytes /\ ring \in Bytes
      /\ inputs \in Nat
  BY PartsType, UsbAssumption DEF LinkInv, FramesInv, TypeOK, UsbTypeOK
<1>3. ASSUME NEW x \in 0..inputs PROVE x \in 0..inputs'
  BY <1>1, <1>2
<1>4. CASE Keep
  BY <1>3, <1>4, EmptyInOrder DEF Keep, Streams
<1>5. CASE Drop
  BY <1>3, <1>5, EmptyInOrder DEF Drop, Streams
<1>6. CASE Deliver
  <2>1. ASSUME NEW s \in {Late, Ahead}, host'.printed = host.printed \o s
        PROVE  /\ ToSet(host'.printed) = ToSet(host.printed) \union ToSet(s)
               /\ Increasing(host'.printed)
    BY <1>2, <2>1, JoinInOrder DEF Streams
  <2> QED BY <1>3, <1>6, <2>1, EmptyInOrder DEF Deliver, Streams, Before
<1>7. CASE Move
  <2>1. /\ Ahead' \in Bytes /\ ring' \in Bytes /\ Ahead' \o ring' = Ahead \o ring
        /\ host'.printed = host.printed /\ Late' = <<>>
    BY <1>0, <1>7 DEF Move
  <2>2. Increasing(Ahead \o ring) /\ ToSet(Ahead \o ring) = ToSet(Ahead) \union ToSet(ring)
    BY <1>2, JoinInOrder DEF Streams
  <2>3. /\ Increasing(Ahead') /\ Increasing(ring') /\ Before(Ahead', ring')
        /\ ToSet(Ahead') \union ToSet(ring') = ToSet(Ahead) \union ToSet(ring)
    BY <2>1, <2>2, JoinInOrder
  <2>4. Before(host.printed, Ahead') /\ Before(host.printed, ring')
    BY <2>3 DEF Streams, Before
  <2> HIDE DEF Ahead, Late
  <2> QED BY <1>3, <2>1, <2>3, <2>4, EmptyInOrder DEF Streams
<1>8. CASE Add
  <2>0. /\ inputs' = inputs + 1
        /\ ring' = Append(ring, inputs') /\ UNCHANGED <<host.printed, Late, Ahead>>
    BY <1>8 DEF Add
  <2>1. inputs' \in Nat /\ inputs' \in 0..MaxInputs
    BY <1>0, <1>2, <2>0 DEF LinkInv, TypeOK, UsbTypeOK
  <2>2. ToSet(ring') = ToSet(ring) \union {inputs'}
    <3>1. ToSet(Append(ring, inputs')) = ToSet(ring) \union {inputs'}
      BY <1>2, <2>1, AppendByte
    <3> QED BY <2>0, <3>1
  <2>3. ASSUME NEW x \in 0..inputs PROVE x < inputs'
    BY <1>2, <2>0, <2>1
  <2>4. Increasing(ring')
    <3>1. ring \in Seq(Nat)
      BY <1>2, UsbAssumption DEF Bytes
    <3> QED BY <2>0, <2>1, <2>3, <3>1, IncreasingAppend DEF Streams
  <2>5. /\ Before(host.printed, ring') /\ Before(Late, ring') /\ Before(Ahead, ring')
    BY <2>2, <2>3 DEF Streams, Before
  <2>6. inputs' \in 0..inputs'
    BY <2>0, <2>1
  <2> QED BY <1>3, <2>0, <2>1, <2>2, <2>4, <2>5, <2>6 DEF Streams
<1> QED BY <1>1, <1>4, <1>5, <1>6, <1>7, <1>8 DEF Flow

(* Nothing is printed at the start. *)
LEMMA StreamsInit == Init => Streams
<1> SUFFICES ASSUME Init PROVE Streams
  OBVIOUS
<1>1. host.printed = <<>> /\ Late = <<>> /\ Ahead = <<>> /\ ring = <<>>
  BY Nothing DEF Init, UsbInit, Late, Ahead
<1> QED BY <1>1, EmptyInOrder DEF Streams

(* The inductive invariant of the output, with the types and the frames.       *)
LEMMA StreamsInvariant == Spec => [](LinkInv /\ Streams)
BY LinkInit, LinkNext, StreamsInit, StreamsNext, PTL DEF Spec

(* What hosts print is what the program printed, in this order and nothing     *)
(* twice: through the ring buffer, the notification that is topped up while it *)
(* waits, and the frame that the process gave up and the endpoint still sends. *)
THEOREM OutputInOrder == Spec => []StdoutInOrder
<1>1. ASSUME LinkInv, Streams PROVE StdoutInOrder
  <2>1. host.printed \in Bytes /\ Late \in Bytes /\ Ahead \in Bytes /\ ring \in Bytes
    BY <1>1, PartsType DEF LinkInv, FramesInv, TypeOK
  <2>2. /\ host.printed \o Late \in Bytes /\ Increasing(host.printed \o Late)
        /\ ToSet(host.printed \o Late) = ToSet(host.printed) \union ToSet(Late)
    BY <1>1, <2>1, JoinInOrder DEF Streams
  <2>3. /\ Ahead \o ring \in Bytes /\ Increasing(Ahead \o ring)
        /\ ToSet(Ahead \o ring) = ToSet(Ahead) \union ToSet(ring)
    BY <1>1, <2>1, JoinInOrder DEF Streams
  <2>4. Before(host.printed \o Late, Ahead \o ring)
    BY <1>1, <2>2, <2>3 DEF Streams, Before
  <2>5. Increasing((host.printed \o Late) \o (Ahead \o ring))
    BY <2>2, <2>3, <2>4, JoinInOrder
  <2> QED BY <2>5 DEF StdoutInOrder, Unsent, Late, Ahead, Increasing
<1> QED BY StreamsInvariant, <1>1, PTL

(* A byte once accepted is only lost together with the connection: a step that *)
(* leaves the host connected and subscribed keeps all that was printed or      *)
(* waits, also one that moves it or gives a frame up.                          *)
THEOREM OutputNotLost == Spec => StdoutNotLost
<1>1. ASSUME LinkInv, LinkInv', [Next]_vars
      PROVE  ToSet(host.printed \o Unsent) \subseteq ToSet(host.printed \o Unsent)' \/ ~Active'
  <2>1. Flow
    BY <1>1, FlowNext
  <2>2. /\ host.printed \in Bytes /\ Late \in Bytes /\ Ahead \in Bytes /\ ring \in Bytes
        /\ Unsent = Ahead \o ring
    BY <1>1, PartsType DEF LinkInv, FramesInv, TypeOK, Unsent, Ahead
  <2>3. /\ host'.printed \in Bytes /\ Ahead' \in Bytes /\ ring' \in Bytes
        /\ Unsent' = Ahead' \o ring'
    <3>1. host'.printed \in Bytes /\ wire'.content \in Bytes /\ noti'["stdout"] \in Bytes
          /\ ring' \in Bytes
      BY <1>1 DEF LinkInv, TypeOK, UsbTypeOK, Event
    <3> QED BY <3>1 DEF Ahead, Unsent
  <2>4. /\ ToSet(host.printed \o Unsent) = ToSet(host.printed) \union ToSet(Ahead) \union ToSet(ring)
        /\ ToSet(Ahead \o ring) = ToSet(Ahead) \union ToSet(ring)
    BY <2>2, JoinInOrder
  <2>5. /\ ToSet(host'.printed \o Unsent')
             = ToSet(host'.printed) \union ToSet(Ahead') \union ToSet(ring')
        /\ ToSet(Ahead' \o ring') = ToSet(Ahead') \union ToSet(ring')
    BY <2>3, JoinInOrder
  <2>6. CASE Keep
    BY <2>4, <2>5, <2>6 DEF Keep
  <2>7. CASE Drop
    BY <2>7 DEF Drop
  <2>8. CASE Deliver
    <3>1. /\ ToSet(host.printed \o Late) = ToSet(host.printed) \union ToSet(Late)
          /\ ToSet(host.printed \o Ahead) = ToSet(host.printed) \union ToSet(Ahead)
      BY <2>2, JoinInOrder
    <3> HIDE DEF Ahead, Late
    <3> QED BY <2>4, <2>5, <2>8, <3>1, EmptyInOrder DEF Deliver
  <2>9. CASE Move
    BY <2>4, <2>5, <2>9 DEF Move
  <2>10. CASE Add
    <3>1. inputs' \in 0..MaxInputs
      BY <1>1 DEF LinkInv, TypeOK, UsbTypeOK
    <3>2. ToSet(ring') = ToSet(ring) \union {inputs'}
      BY <2>2, <2>10, <3>1, AppendByte DEF Add
    <3> QED BY <2>4, <2>5, <2>10, <3>2 DEF Add
  <2> QED BY <2>1, <2>6, <2>7, <2>8, <2>9, <2>10 DEF Flow
<1>2. ASSUME LinkInv, LinkInv', [Next]_vars
      PROVE  [ToSet(host.printed \o Unsent) \subseteq ToSet(host.printed \o Unsent)' \/ ~Active']_usbVars
  BY <1>1, <1>2
<1> QED BY LinkInvariant, <1>2, PTL DEF Spec, StdoutNotLost

--------------------------------------------------------------------------------
(* What calls send.  It is given to USB when it is in the notification, in a   *)
(* frame or at the host, and to a transport of the two likewise.               *)
UsbGiven ==
    ToSet(noti["app"]) \union host.got
        \union (IF wire.kind = "app" THEN ToSet(wire.content) ELSE {})
BleGiven == {ble.noti} \union ble.got

(* The frame with what the notification holds has left the endpoint.           *)
AppLeft == sending = "app" /\ ~transmitting

(* What a step of USB may do to it: nothing new is given and what arrived      *)
(* stays; the notification is emptied with the connection or once its frame    *)
(* has left; and a frame of a connection that lasts leaves for the host.       *)
AppFlow ==
    /\ UsbGiven' \subseteq UsbGiven /\ host.got \subseteq host'.got
    /\ noti'["app"] = noti["app"] \/ (noti'["app"] = <<>> /\ (~Active' \/ AppLeft))
    /\ AppLeft' /\ ~AppLeft =>
           ~Active \/ noti'["app"] = <<>> \/ ToSet(noti["app"]) \subseteq host'.got

(* A step that leaves the frames alone. *)
LEMMA AppKept ==
    ASSUME UNCHANGED <<sending, transmitting, wire>>, noti'["app"] = noti["app"],
           host'.got = host.got
    PROVE  AppFlow
BY DEF AppFlow, UsbGiven, AppLeft

(* What the process does to what calls send. *)
LEMMA AppProcess == ASSUME FramesInv, Process PROVE AppFlow
<1>1. CASE HandleDataIn \/ Configured \/ Await
  <2>1. UNCHANGED <<sending, transmitting, wire, noti, host>>
    BY <1>1 DEF HandleDataIn, Configured, Await, Yield, outVars, wireVars
  <2> QED BY <2>1, AppKept
<1>2. ASSUME NEW k \in Request, SendReply(k) PROVE AppFlow
  <2>1. /\ sending' = k /\ wire' = [kind |-> k, content |-> <<reply[k]>>] /\ k # "app"
        /\ UNCHANGED <<noti, host>>
    BY <1>2 DEF SendReply, InLoop, StartTx, Request
  <2>2. wire'.kind # "app"
    BY <2>1
  <2> QED BY <2>1, <2>2 DEF AppFlow, UsbGiven, AppLeft
<1>3. ASSUME NEW e \in Event, SendEvent(e) PROVE AppFlow
  <2>1. /\ sending' = e /\ wire' = [kind |-> e, content |-> Updated[e]] /\ transmitting' = TRUE
        /\ noti' = Updated /\ host' = host
    BY <1>3 DEF SendEvent, InLoop, StartTx
  <2>2. noti'["app"] = noti["app"]
    BY <2>1, UpdatedType
  <2>3. wire'.kind = "app" => wire'.content = noti["app"]
    BY <2>1, <2>2
  <2> QED BY <2>1, <2>2, <2>3 DEF AppFlow, UsbGiven, AppLeft
<1>4. CASE Sent
  <2>1. /\ sending' = "none" /\ ~transmitting /\ UNCHANGED <<wire, host>>
    BY <1>4 DEF Sent, wireVars
  <2>2. noti'["app"] = IF sending = "app" THEN <<>> ELSE noti["app"]
    BY <1>4 DEF Sent, Finished, Request, Event, FramesInv, UsbTypeOK
  <2> QED BY <2>1, <2>2, SetOfNone DEF AppFlow, UsbGiven, AppLeft
<1>5. CASE SendFailed \/ Disconnected
  <2>1. /\ ResetState /\ dtr' = FALSE /\ noti' = NoNotifications /\ UNCHANGED <<wire, host>>
    BY <1>5 DEF SendFailed, Disconnected, ResetState
  <2>2. noti'["app"] = <<>> /\ ~Active'
    BY <2>1, Nothing DEF Active
  <2> QED BY <2>1, <2>2, SetOfNone DEF AppFlow, UsbGiven
<1> QED BY <1>1, <1>2, <1>3, <1>4, <1>5 DEF Process

(* What the surroundings do to it. *)
LEMMA AppSurroundings == ASSUME FramesInv, Surroundings PROVE AppFlow
<1>0. host \in [port : {"closed", "app", "probe"}, subscribed : BOOLEAN,
                awaits : [Request -> 0..MaxInputs], status : 0..MaxInputs,
                printed : Bytes, got : SUBSET Id]
  BY DEF FramesInv, UsbTypeOK
<1>1. CASE TransmitCplt
  <2>1. /\ host' = HostReceives /\ wire # NoFrame /\ wire'.kind = "none"
        /\ UNCHANGED <<sending, noti>>
    BY <1>1 DEF TransmitCplt, outVars, processVars, NoFrame
  <2>2. HostReceives.got = IF wire.kind = "app" THEN host.got \union ToSet(wire.content)
                           ELSE host.got
    BY <2>1, HostReceivesType
  <2>3. sending = "app" => wire.kind = "app" /\ wire.content = noti["app"]
    BY <2>1 DEF FramesInv, Frames, Event
  <2> QED BY <2>1, <2>2, <2>3 DEF AppFlow, UsbGiven, AppLeft
<1>2. CASE Plug
  <2>1. /\ ~Active /\ wire'.kind = "none" /\ UNCHANGED <<noti, host>>
    BY <1>2 DEF Plug, outVars, NoFrame, Active, Ready
  <2> QED BY <2>1 DEF AppFlow, UsbGiven
<1>3. CASE Unplug
  <2>1. /\ wire'.kind = "none" /\ host' = ClosedHost /\ UNCHANGED <<sending, transmitting, noti>>
    BY <1>3 DEF Unplug, outVars, processVars, NoFrame
  <2>2. host'.got = host.got
    BY <1>0, <2>1 DEF ClosedHost
  <2> QED BY <2>1, <2>2 DEF AppFlow, UsbGiven, AppLeft
<1>4. CASE TimerExpires \/ Subscribe \/ Unsubscribe \/ SendStray
  <2>1. UNCHANGED <<sending, transmitting, wire, noti>>
    BY <1>4 DEF TimerExpires, Subscribe, Unsubscribe, SendStray, HostSends, outVars, processVars,
                wireVars
  <2>2. host'.got = host.got
    BY <1>0, <1>4 DEF TimerExpires, Subscribe, Unsubscribe, SendStray
  <2> QED BY <2>1, <2>2, AppKept
<1>5. CASE OpenPort("app") \/ OpenPort("probe") \/ ClosePort
  <2>1. UNCHANGED <<sending, transmitting, wire, noti>>
    BY <1>5 DEF OpenPort, ClosePort, outVars, processVars, wireVars
  <2>2. host'.got = host.got
    <3>1. CASE ClosePort
      BY <1>0, <3>1 DEF ClosePort, ClosedHost
    <3>2. ASSUME NEW opener, OpenPort(opener) PROVE host'.got = host.got
      BY <1>0, <3>2 DEF OpenPort
    <3> QED BY <1>5, <3>1, <3>2
  <2> QED BY <2>1, <2>2, AppKept
<1>6. ASSUME NEW k \in Request, HostRequests(k) PROVE AppFlow
  <2>1. UNCHANGED <<sending, transmitting, wire, noti>>
    BY <1>6 DEF HostRequests, HostSends, outVars, processVars, wireVars
  <2>2. host'.got = host.got
    BY <1>0, <1>6 DEF HostRequests
  <2> QED BY <2>1, <2>2, AppKept
<1> QED BY <1>1, <1>2, <1>3, <1>4, <1>5, <1>6 DEF Surroundings

(* What is so while a task awaits its call: what a transport was given is what *)
(* the call sends, and it waits, is on its way or has arrived.                 *)
QueuedBle(s) ==
    /\ err["ble"] \in Failure => sent[s] \notin BleGiven
    /\ err["ble"] \in {"AGAIN", "SUCCESS"} =>
         /\ ble.noti = NoId \/ (ble.noti = sent[s] /\ err["ble"] = "AGAIN")
         /\ ble.noti = NoId /\ ~cut => sent[s] \in ble.got

QueuedUsb(s) ==
    /\ err["usb"] \in Failure => sent[s] \notin UsbGiven
    /\ err["usb"] \in {"AGAIN", "SUCCESS"} =>
         /\ noti["app"] = <<>> \/ (noti["app"] = <<sent[s]>> /\ err["usb"] = "AGAIN")
         /\ noti["app"] = <<>> /\ ~cut => sent[s] \in host.got
         /\ noti["app"] # <<>> /\ ~cut => Active /\ (AppLeft => sent[s] \in host.got)

Queued(s) ==
    /\ \E t \in Transport : err[t] \in {"AGAIN", "SUCCESS"}
    /\ QueuedBle(s) /\ QueuedUsb(s)

(* And when it has ended. *)
Ended(s) ==
    /\ outcome[s] \in Failure => sent[s] \notin UsbGiven \union BleGiven
    /\ outcome[s] = "SUCCESS" =>
         /\ sent[s] \notin ToSet(noti["app"]) \union {ble.noti}
         /\ ~cut => sent[s] \in host.got \union ble.got

ResultInv ==
    /\ UsbGiven \union BleGiven \subseteq 0..inputs
    /\ \A s \in Sender :
         /\ sent[s] \in 0..inputs
         /\ outcome[s] # "none" \/ awaiting[s] => sent[s] # NoId
         /\ IF awaiting[s] THEN outcome[s] = "none" /\ Queued(s) ELSE Ended(s)

(* USB delivers or loses what a call sent, and never falsifies its result.     *)
LEMMA ResultUsb == ASSUME LinkInv, ResultInv, UsbStep PROVE ResultInv'
<1>1. AppFlow
  BY AppProcess, AppSurroundings DEF UsbStep, UsbSteps, LinkInv, FramesInv, TypeOK
<1>2. /\ UNCHANGED <<ble, err, awaiting, sent, outcome>>
      /\ cut' = (cut \/ (Active /\ ~Active' /\ \E t \in Sender : awaiting[t]))
  BY DEF UsbStep
<1>3. inputs' \in {inputs, inputs + 1} /\ inputs \in Nat
  BY FlowNext, UsbAssumption DEF Next, LinkInv, TypeOK, UsbTypeOK
<1>4. ASSUME NEW x \in 0..inputs PROVE x \in 0..inputs'
  BY <1>3
<1>5. UsbGiven' \subseteq UsbGiven /\ BleGiven' = BleGiven /\ host.got \subseteq host'.got
      /\ (noti'["app"] = noti["app"] \/ noti'["app"] = <<>>)
  BY <1>1, <1>2 DEF AppFlow, BleGiven
<1>6. ASSUME NEW s \in Sender, awaiting[s], QueuedUsb(s) PROVE QueuedUsb(s)'
  <2>1. ~cut' => ~cut /\ (Active => Active')
    BY <1>2, <1>6
  <2>2. err["usb"] \in Failure => sent[s] \notin UsbGiven'
    BY <1>5, <1>6 DEF QueuedUsb
  <2>3. ASSUME err["usb"] \in {"AGAIN", "SUCCESS"}, noti'["app"] = <<>>, ~cut'
        PROVE  sent[s] \in host'.got
    BY <1>1, <1>6, <2>1, <2>3 DEF QueuedUsb, AppFlow
  <2>4. ASSUME err["usb"] \in {"AGAIN", "SUCCESS"}, noti'["app"] # <<>>, ~cut'
        PROVE  Active' /\ (AppLeft' => sent[s] \in host'.got)
    <3>1. noti'["app"] = noti["app"] /\ noti["app"] = <<sent[s]>> /\ Active
          /\ (AppLeft => sent[s] \in host.got)
      BY <1>1, <1>6, <2>1, <2>4 DEF QueuedUsb, AppFlow
    <3>2. sent[s] \in ToSet(noti["app"])
      BY <3>1, SetOfOne
    <3> QED BY <1>1, <2>1, <2>4, <3>1, <3>2 DEF AppFlow
  <2> QED BY <1>2, <1>5, <1>6, <2>2, <2>3, <2>4 DEF QueuedUsb
<1>7. ASSUME NEW s \in Sender, awaiting[s], Queued(s) PROVE Queued(s)'
  <2>1. QueuedBle(s)'
    BY <1>2, <1>5, <1>7 DEF Queued, QueuedBle
  <2> QED BY <1>2, <1>6, <1>7, <2>1 DEF Queued
<1>8. ASSUME NEW s \in Sender, Ended(s) PROVE Ended(s)'
  <2>1. ToSet(noti'["app"]) \subseteq ToSet(noti["app"])
    BY <1>5, SetOfNone
  <2> QED BY <1>2, <1>5, <1>8, <2>1 DEF Ended
<1>9. ASSUME NEW s \in Sender
      PROVE  /\ sent'[s] \in 0..inputs'
             /\ outcome'[s] # "none" \/ awaiting'[s] => sent'[s] # NoId
             /\ IF awaiting'[s] THEN outcome'[s] = "none" /\ Queued(s)' ELSE Ended(s)'
  BY <1>2, <1>4, <1>7, <1>8 DEF ResultInv
<1> QED BY <1>4, <1>5, <1>9 DEF ResultInv

(* The steps of the rest of the hub that send no data.                         *)
LEMMA ResultHub ==
    ASSUME LinkInv, ResultInv,
           BleDisconnect \/ BleSent \/ ScheduleStatusUpdate \/ StdoutWrite \/ UNCHANGED vars
    PROVE  ResultInv'
<1>1. /\ UNCHANGED <<cable, configured, dtr, subscribed, sending, transmitting, wire, host>>
      /\ noti' = noti /\ UNCHANGED <<err, awaiting, sent, outcome>>
  BY DEF BleDisconnect, BleSent, ScheduleStatusUpdate, ScheduleStatus, StdoutWrite, Unchanged, vars,
         usbVars, connectionVars, processVars, wireVars, outVars, linkVars, callVars
<1>2. inputs' \in {inputs, inputs + 1} /\ inputs \in Nat
  BY FlowNext, UsbAssumption DEF LinkInv, TypeOK, UsbTypeOK, BleDisconnect, BleSent,
     ScheduleStatusUpdate, ScheduleStatus, StdoutWrite, vars, Input, Break, usbVars, bounds
<1>3. ASSUME NEW x \in 0..inputs PROVE x \in 0..inputs'
  BY <1>2
<1>4. UsbGiven' = UsbGiven /\ AppLeft' = AppLeft /\ Active' = Active
  BY <1>1 DEF UsbGiven, AppLeft, Active, Ready
<1>5. ble \in [connected : BOOLEAN, noti : 0..MaxInputs, got : SUBSET Id]
  BY DEF LinkInv, TypeOK
<1>6. \/ ble' = ble /\ cut' = cut
      \/ /\ ble.noti # NoId /\ ble'.noti = NoId /\ ble'.got = ble.got \union {ble.noti}
         /\ cut' = cut
      \/ /\ ble'.noti \in {ble.noti, NoId} /\ ble'.got = ble.got
         /\ cut' = (cut \/ \E s \in Sender : awaiting[s])
  <2>1. CASE BleDisconnect
    <3>1. PICK rest \in {ble.noti, NoId} : ble' = [ble EXCEPT !.connected = FALSE, !.noti = rest]
      BY <2>1 DEF BleDisconnect
    <3>2. cut' = (cut \/ \E s \in Sender : awaiting[s])
      BY <2>1 DEF BleDisconnect
    <3> QED BY <1>5, <3>1, <3>2
  <2>2. CASE BleSent
    BY <1>5, <2>2 DEF BleSent, callVars
  <2>3. CASE ScheduleStatusUpdate \/ StdoutWrite \/ UNCHANGED vars
    BY <2>3 DEF ScheduleStatusUpdate, StdoutWrite, vars, linkVars
  <2> QED BY <2>1, <2>2, <2>3
<1>7. BleGiven' \subseteq BleGiven \union {NoId} /\ ble'.noti \in {ble.noti, NoId}
      /\ ble.got \subseteq ble'.got /\ (cut => cut')
  <2>1. BleGiven' = {ble'.noti} \union ble'.got
    BY DEF BleGiven
  <2>2. cut => cut'
    BY <1>6
  <2>3. ble'.noti \in {ble.noti, NoId} /\ ble.got \subseteq ble'.got
        /\ ble'.got \subseteq ble.got \union {ble.noti}
    BY <1>6
  <2> QED BY <2>1, <2>2, <2>3 DEF BleGiven
<1>8. 0 \in 0..inputs'
  BY <1>2
<1>9. ASSUME NEW s \in Sender, awaiting[s], sent[s] # NoId, Queued(s) PROVE Queued(s)'
  <2>1. QueuedUsb(s)'
    BY <1>1, <1>4, <1>7, <1>9 DEF Queued, QueuedUsb
  <2>2. QueuedBle(s)'
    <3>1. QueuedBle(s)
      BY <1>9 DEF Queued
    <3>2. err["ble"] \in Failure => sent[s] \notin BleGiven'
      BY <1>7, <1>9, <3>1 DEF QueuedBle
    <3>3. CASE err["ble"] \in {"AGAIN", "SUCCESS"}
      BY <1>1, <1>6, <1>9, <3>1, <3>2, <3>3 DEF QueuedBle
    <3> QED BY <1>1, <3>2, <3>3 DEF QueuedBle
  <2> QED BY <1>1, <1>9, <2>1, <2>2 DEF Queued
<1>10. ASSUME NEW s \in Sender, outcome[s] # "none" => sent[s] # NoId, Ended(s) PROVE Ended(s)'
  <2>1. "SUCCESS" # "none" /\ "none" \notin Failure
    BY DEF Failure
  <2>2. outcome[s] \in Failure => sent[s] \notin UsbGiven' \union BleGiven'
    BY <1>4, <1>7, <1>10, <2>1 DEF Ended
  <2>3. outcome[s] = "SUCCESS" =>
          /\ sent[s] \notin ToSet(noti["app"]) \union {ble'.noti}
          /\ ~cut' => sent[s] \in host.got \union ble'.got
    BY <1>7, <1>10, <2>1 DEF Ended
  <2> QED BY <1>1, <2>2, <2>3 DEF Ended
<1>11. ASSUME NEW s \in Sender
       PROVE  /\ sent'[s] \in 0..inputs'
              /\ outcome'[s] # "none" \/ awaiting'[s] => sent'[s] # NoId
              /\ IF awaiting'[s] THEN outcome'[s] = "none" /\ Queued(s)' ELSE Ended(s)'
  BY <1>1, <1>3, <1>9, <1>10 DEF ResultInv
<1>12. UsbGiven' \union BleGiven' \subseteq 0..inputs'
  BY <1>3, <1>4, <1>7, <1>8 DEF ResultInv, NoId
<1> QED BY <1>11, <1>12 DEF ResultInv

(* A call of the only task that sends: what it sends is new, and a transport   *)
(* that refuses it does not get it.                                            *)
LEMMA ResultCall ==
    ASSUME LinkInv, ResultInv, NEW s \in Sender, \A r \in Sender : r = s, Call(s)
    PROVE  ResultInv'
<1>0. TypeOK /\ FramesInv
  BY DEF LinkInv, FramesInv, TypeOK
<1>1. /\ inputs' = inputs + 1 /\ inputs' \in Id /\ Queue(inputs') /\ cut' = FALSE
      /\ ~awaiting[s] /\ sent' = [sent EXCEPT ![s] = inputs']
      /\ UNCHANGED <<cable, configured, dtr, subscribed, sending, transmitting, wire, host>>
  BY <1>0, CallFacts
<1>2. /\ Begun["ble"] = BleQueueError /\ Begun["usb"] = QueueError
      /\ Begun \in [Transport -> Failure \union {"AGAIN"}]
  BY <1>0, CallFacts
<1>3. /\ ble' = IF BleQueueError = "AGAIN" THEN [ble EXCEPT !.noti = inputs'] ELSE ble
      /\ BleQueueError = "AGAIN" => ble.noti = NoId
  BY <1>0, CallFacts
<1>4. /\ noti'["app"] = IF QueueError = "AGAIN" THEN <<inputs'>> ELSE noti["app"]
      /\ QueueError = "AGAIN" => Active /\ noti["app"] = <<>>
  BY <1>0, <1>1, QueueType DEF Event
<1>5. inputs \in Nat /\ inputs' \notin 0..inputs /\ inputs' # NoId /\ 0..inputs \subseteq 0..inputs'
      /\ inputs' \in 0..inputs'
  BY <1>0, <1>1, UsbAssumption DEF TypeOK, UsbTypeOK, NoId
<1>6. ble \in [connected : BOOLEAN, noti : 0..MaxInputs, got : SUBSET Id]
      /\ sent'[s] = inputs' /\ inputs' \in 0..MaxInputs
  BY <1>0, <1>1, UsbAssumption DEF TypeOK, UsbTypeOK, Id
<1>7. ToSet(<<inputs'>>) = {inputs'} /\ <<inputs'>> # <<>>
  BY <1>6, SetOfOne
<1>8. /\ UsbGiven' \subseteq UsbGiven \union (IF QueueError = "AGAIN" THEN {inputs'} ELSE {})
      /\ BleGiven' \subseteq BleGiven \union (IF BleQueueError = "AGAIN" THEN {inputs'} ELSE {})
  BY <1>1, <1>3, <1>4, <1>6, <1>7 DEF UsbGiven, BleGiven
<1>9. inputs' \notin UsbGiven /\ inputs' \notin BleGiven
      /\ UsbGiven' \union BleGiven' \subseteq 0..inputs'
  BY <1>5, <1>8 DEF ResultInv
<1>10. CASE \E t \in Transport : Begun[t] = "AGAIN"
  <2>1. /\ awaiting' = [r \in Sender |-> r = s]
        /\ outcome' = [outcome EXCEPT ![s] = "none"] /\ SetErr(Begun)
    BY <1>0, <1>10, CallFacts
  <2>2. awaiting'[s] /\ outcome'[s] = "none"
    BY <1>0, <2>1 DEF TypeOK
  <2>3. err' = Begun
    BY <2>1, <2>2 DEF SetErr
  <2>4. err'["ble"] = BleQueueError /\ err'["usb"] = QueueError
        /\ err' \in [Transport -> Failure \union {"AGAIN"}] /\ "SUCCESS" \notin Failure \union {"AGAIN"}
    BY <1>2, <2>3 DEF Failure
  <2>5. QueuedBle(s)'
    <3>1. err'["ble"] \in Failure => sent'[s] \notin BleGiven'
      BY <1>6, <1>8, <1>9, <2>4 DEF Failure
    <3>2. err'["ble"] \in {"AGAIN", "SUCCESS"} => ble'.noti = sent'[s] /\ err'["ble"] = "AGAIN"
      BY <1>3, <1>6, <2>4 DEF Transport
    <3> QED BY <1>5, <1>6, <3>1, <3>2 DEF QueuedBle
  <2>6. QueuedUsb(s)'
    <3>1. err'["usb"] \in Failure => sent'[s] \notin UsbGiven'
      BY <1>6, <1>8, <1>9, <2>4 DEF Failure
    <3>2. ASSUME err'["usb"] \in {"AGAIN", "SUCCESS"}
          PROVE  noti'["app"] = <<sent'[s]>> /\ err'["usb"] = "AGAIN" /\ Active' /\ ~AppLeft'
      <4>1. QueueError = "AGAIN" /\ err'["usb"] = "AGAIN"
        BY <2>4, <3>2 DEF Transport
      <4>2. Active /\ noti["app"] = <<>> /\ noti'["app"] = <<sent'[s]>>
        BY <1>4, <1>6, <4>1
      <4>3. sending # "app"
        BY <1>0, <4>2 DEF FramesInv, Frames, Event
      <4> QED BY <1>1, <4>1, <4>2, <4>3 DEF Active, Ready, AppLeft
    <3> QED BY <1>6, <1>7, <3>1, <3>2 DEF QueuedUsb
  <2>7. \E t \in Transport : err'[t] \in {"AGAIN", "SUCCESS"}
    BY <1>10, <2>3
  <2>8. Queued(s)'
    BY <2>5, <2>6, <2>7 DEF Queued
  <2> QED BY <1>5, <1>6, <1>9, <2>2, <2>8 DEF ResultInv
<1>11. CASE ~\E t \in Transport : Begun[t] = "AGAIN"
  <2>1. outcome' = [outcome EXCEPT ![s] = Result(Begun)] /\ awaiting' = awaiting
    BY <1>0, <1>11, CallFacts
  <2>2. Result(Begun) \in Failure
    BY <1>2, <1>11 DEF Result, Transport, Failure
  <2>3. outcome'[s] \in Failure /\ outcome'[s] # "SUCCESS" /\ ~awaiting'[s]
    BY <1>0, <1>1, <2>1, <2>2 DEF TypeOK, Failure
  <2>4. BleQueueError # "AGAIN" /\ QueueError # "AGAIN"
    BY <1>2, <1>11 DEF Transport
  <2>5. sent'[s] \notin UsbGiven' \union BleGiven'
    BY <1>6, <1>8, <1>9, <2>4
  <2>6. Ended(s)'
    BY <2>3, <2>5 DEF Ended
  <2> QED BY <1>5, <1>6, <1>9, <2>3, <2>6 DEF ResultInv
<1> QED BY <1>10, <1>11

(* A further run of the call, or its end before it is done.                    *)
LEMMA ResultIterate ==
    ASSUME LinkInv, ResultInv, NEW s \in Sender, \A r \in Sender : r = s, Iterate(s)
    PROVE  ResultInv'
<1>0. TypeOK
  BY DEF LinkInv
<1>1. /\ awaiting[s] /\ Goes \in [Transport -> Failure \union {"AGAIN", "SUCCESS"}]
      /\ Goes["ble"] = (IF err["ble"] = "AGAIN" /\ ble.noti = NoId THEN "SUCCESS" ELSE err["ble"])
      /\ Goes["usb"] = (IF err["usb"] = "AGAIN" /\ noti["app"] = <<>> THEN "SUCCESS"
                        ELSE err["usb"])
  BY <1>0, IterateFacts
<1>2. SetErr(Goes) /\ UNCHANGED <<usbVars, ble, sent, cut>>
  BY <1>0, IterateFacts
<1>3. /\ UNCHANGED <<cable, configured, dtr, subscribed, sending, transmitting, wire, host, noti,
                     inputs>>
  BY <1>2 DEF usbVars, connectionVars, processVars, wireVars, outVars, bounds
<1>4. UsbGiven' = UsbGiven /\ BleGiven' = BleGiven /\ AppLeft' = AppLeft /\ Active' = Active
  BY <1>2, <1>3 DEF UsbGiven, BleGiven, AppLeft, Active, Ready
<1>5. Queued(s) /\ outcome[s] = "none" /\ sent[s] # NoId /\ sent[s] \in 0..inputs
      /\ UsbGiven \union BleGiven \subseteq 0..inputs
  BY <1>1 DEF ResultInv
<1>6. "ble" \in Transport /\ "usb" \in Transport /\ (\A t \in Transport : t \in {"ble", "usb"})
      /\ "AGAIN" \notin Failure /\ "SUCCESS" \notin Failure
  BY DEF Transport, Failure
<1>7. CASE GatherEnded(Goes)
  <2>1. /\ awaiting' = [awaiting EXCEPT ![s] = FALSE]
        /\ outcome' = [outcome EXCEPT ![s] = Result(Goes)]
    BY <1>0, <1>7, IterateFacts
  <2>2. Goes["ble"] # "AGAIN" /\ Goes["usb"] # "AGAIN"
    BY <1>6, <1>7 DEF GatherEnded
  <2>3. Goes["ble"] = "SUCCESS" \/ Goes["usb"] = "SUCCESS"
    BY <1>1, <1>5, <1>6, <2>2 DEF Queued
  <2>4. ~awaiting'[s] /\ outcome'[s] = "SUCCESS"
    BY <1>0, <2>1, <2>3 DEF TypeOK, Result
  <2>5. sent[s] # ble.noti /\ (Goes["ble"] = "SUCCESS" /\ ~cut => sent[s] \in ble.got)
    BY <1>0, <1>1, <1>5, <1>6, <2>2 DEF Queued, QueuedBle, BleGiven, TypeOK
  <2>6. sent[s] \notin ToSet(noti["app"])
        /\ (Goes["usb"] = "SUCCESS" /\ ~cut => sent[s] \in host.got)
    BY <1>0, <1>1, <1>5, <1>6, <2>2, SetOfNone DEF Queued, QueuedUsb, UsbGiven, TypeOK
  <2>7. Ended(s)'
    BY <1>2, <1>3, <1>6, <2>3, <2>4, <2>5, <2>6 DEF Ended
  <2> QED BY <1>2, <1>3, <1>4, <1>5, <2>4, <2>7 DEF ResultInv
<1>8. CASE ~GatherEnded(Goes)
  <2>1. UNCHANGED <<awaiting, outcome>>
    BY <1>0, <1>8, IterateFacts
  <2>2. err' = Goes
    BY <1>1, <1>2, <2>1 DEF SetErr
  <2>3. \E t \in Transport : err'[t] \in {"AGAIN", "SUCCESS"}
    BY <1>8, <2>2 DEF GatherEnded
  <2>4. QueuedBle(s)'
    BY <1>1, <1>2, <1>4, <1>5, <1>6, <2>2 DEF Queued, QueuedBle
  <2>5. QueuedUsb(s)'
    BY <1>1, <1>2, <1>3, <1>4, <1>5, <1>6, <2>2 DEF Queued, QueuedUsb
  <2>6. Queued(s)'
    BY <2>3, <2>4, <2>5 DEF Queued
  <2> QED BY <1>1, <1>2, <1>3, <1>4, <1>5, <2>1, <2>6 DEF ResultInv
<1> QED BY <1>7, <1>8

(* A task that is cancelled learns nothing, which is true.                     *)
LEMMA ResultAbandon ==
    ASSUME LinkInv, ResultInv, NEW s \in Sender, \A r \in Sender : r = s, Abandon(s)
    PROVE  ResultInv'
<1>1. /\ awaiting[s] /\ awaiting' = [awaiting EXCEPT ![s] = FALSE]
      /\ UNCHANGED usbVars /\ UNCHANGED <<ble, sent, outcome, cut>>
  BY DEF Abandon
<1>2. UNCHANGED <<wire, host, noti, inputs>>
  BY <1>1 DEF usbVars, wireVars, outVars, bounds
<1>3. UsbGiven' = UsbGiven /\ BleGiven' = BleGiven
  BY <1>1, <1>2 DEF UsbGiven, BleGiven
<1>4. outcome'[s] = "none" /\ ~awaiting'[s] /\ "none" \notin Failure
  BY <1>1 DEF ResultInv, LinkInv, TypeOK, Failure
<1>5. Ended(s)'
  BY <1>4 DEF Ended
<1> QED BY <1>1, <1>2, <1>3, <1>4, <1>5 DEF ResultInv

(* Nobody has sent anything at the start.                                      *)
LEMMA ResultInit == Init => ResultInv
<1> SUFFICES ASSUME Init PROVE ResultInv
  OBVIOUS
<1>1. /\ noti["app"] = <<>> /\ host.got = {} /\ wire.kind = "none" /\ inputs = 0
      /\ ble.noti = 0 /\ ble.got = {}
  BY Nothing DEF Init, UsbInit, NoId
<1>2. UsbGiven \union BleGiven \subseteq 0..inputs
  BY <1>1, SetOfNone DEF UsbGiven, BleGiven
<1>3. ASSUME NEW s \in Sender
      PROVE  ~awaiting[s] /\ outcome[s] = "none" /\ sent[s] = 0 /\ "none" \notin Failure
  BY DEF Init, NoId, Failure
<1>4. 0 \in 0..inputs
  BY <1>1
<1> QED BY <1>2, <1>3, <1>4 DEF ResultInv, Ended

(* Who awaits a call learns what became of it, when one task at a time sends:  *)
(* a call that fails has sent nothing and will send nothing; one that succeeds *)
(* leaves nothing behind, and has reached a host while the connections lasted. *)
(* Tasks that send at the same time share the errors, and may be misled.       *)
THEOREM ResultsAreTrue ==
    ASSUME \A r, s \in Sender : r = s
    PROVE  Spec => []ResultIsTrue
<1>1. LinkInv /\ ResultInv /\ [Next]_vars => ResultInv'
  <2> SUFFICES ASSUME LinkInv, ResultInv, [Next]_vars PROVE ResultInv'
    OBVIOUS
  <2>1. CASE UsbStep
    BY <2>1, ResultUsb
  <2>2. CASE BleDisconnect \/ BleSent \/ ScheduleStatusUpdate \/ StdoutWrite \/ UNCHANGED vars
    BY <2>2, ResultHub
  <2>3. ASSUME NEW s \in Sender, Call(s) PROVE ResultInv'
    BY <2>3, ResultCall
  <2>4. ASSUME NEW s \in Sender, Iterate(s) PROVE ResultInv'
    BY <2>4, ResultIterate
  <2>5. ASSUME NEW s \in Sender, Abandon(s) PROVE ResultInv'
    BY <2>5, ResultAbandon
  <2> QED BY <2>1, <2>2, <2>3, <2>4, <2>5 DEF Next
<1>2. ResultInv => ResultIsTrue
  <2> SUFFICES ASSUME ResultInv PROVE ResultIsTrue
    OBVIOUS
  <2>1. Given \subseteq UsbGiven \union BleGiven
    BY DEF Given, UsbGiven, BleGiven
  <2>2. ASSUME NEW s \in Sender, outcome[s] # "none" PROVE Ended(s)
    BY <2>2 DEF ResultInv
  <2>3. "none" \notin Failure
    BY DEF Failure
  <2>4. FailureMeansNotSent
    BY <2>1, <2>2, <2>3 DEF FailureMeansNotSent, Ended
  <2>5. SuccessMeansSent
    BY <2>2 DEF SuccessMeansSent, Ended
  <2> QED BY <2>4, <2>5 DEF ResultIsTrue
<1> QED BY LinkInit, LinkNext, ResultInit, <1>1, <1>2, PTL DEF Spec

================================================================================
