-------------------------- MODULE HxSessionProofs --------------------------
(***************************************************************************)
(* The safety properties of HxSession for every window, every number of    *)
(* chunks, replies and faults.  The inductive invariant IInv says, beyond  *)
(* the properties themselves, how far apart the counters may be (Counts),  *)
(* what a running request still has in hand (Sending), and what the last   *)
(* pass of a drop has settled so far (Settling).                           *)
(***************************************************************************)
EXTENDS HxSession, SequenceTheorems, TLAPS

\* No counter runs ahead of the one that feeds it; a channel requests go out
\* on has at most one frame in flight, and that frame belongs to a reply.
Counts ==
    \A c \in Channels :
      /\ acked[c] <= rx[c] /\ packed[c] <= rx[c] /\ rx[c] + missed[c] <= sent[c]
      /\ c # "events" =>
           /\ sent[c] <= rx[c] + missed[c] + 1
           /\ rx[c] + missed[c] < sent[c] => c \in Requestable /\ out[c] # <<>>
      /\ "garbled" \notin FaultKinds => missed[c] = 0

\* Until its last chunk a request has a transaction and chunks to send.
Sending ==
    pc \in {"drain", "send", "between"} \/ (pc = "ack" /\ after = "send") =>
      left >= 1 /\ cur >= 1 /\ busy \in Requestable

Waiting ==
    pc \in {"wait", "took", "ackOwn", "complete", "ready"}
      \/ (pc = "ack" /\ after \in {"wait", "complete"}) =>
      busy \in Requestable

\* What the last pass of a drop has visited is settled.
Settling ==
    faults = 0 /\ ~poisoned =>
      /\ pc = "ack" /\ after = "gone" => \A c \in Channels \ todo : acked[c] = rx[c]
      /\ pc = "gone" => acked = rx

\* TypeOK in two halves: what transfers move, and where the call is.
WireTyped ==
    /\ rx \in [Channels -> Nat] /\ acked \in [Channels -> Nat]
    /\ sent \in [Channels -> Nat] /\ packed \in [Channels -> Nat]
    /\ missed \in [Channels -> Nat]
    /\ heard \in [Requestable -> SUBSET (1..MaxTxn)]
    /\ out \in [Requestable -> Seq(Reply)]
    /\ half \in [Requestable -> BOOLEAN]
    /\ faults \in Nat /\ poisoned \in BOOLEAN /\ touched \in BOOLEAN

Places ==
    /\ pc \in {"idle", "drain", "ack", "send", "between", "wait", "took",
               "ackOwn", "complete", "ready", "probeFailed",
               "poll", "pollAck", "keepalive", "dropRead", "gone"}
    /\ op \in {"request", "deferred", "probe", "poll", "keepalive", "drop"}
    /\ busy \in {"control", "data"} /\ todo \subseteq Channels
    /\ after \in {"idle", "send", "wait", "complete", "dropRead", "gone"}

Amounts ==
    /\ txn \in [Requestable -> 1..(MaxTxn + 1)]
    /\ taken \in Nat /\ emitted \in Nat
    /\ left \in 0..MaxChunks /\ cur \in 0..MaxTxn

CallTyped == Places /\ Amounts /\ lost \in BOOLEAN /\ started \in BOOLEAN

\* What a transfer can disturb, and what the call's own steps can.
Wire == WireTyped /\ Counts /\ RecordIsTrue
Call == CallTyped /\ Sending /\ Waiting /\ PartialPoisons /\ Settling

IInv == Wire /\ Call

\* The two halves are TypeOK.
LEMMA TypeHalves == TypeOK <=> WireTyped /\ CallTyped
BY DEF TypeOK, WireTyped, CallTyped, Places, Amounts

\* Reading a reply's next frame leaves a sequence of replies, no longer.
LEMMA ReadReply ==
  ASSUME NEW s \in Seq(Reply), s # <<>>
  PROVE  /\ Head(s).txn \in 1..MaxTxn
         /\ AfterFrame(s) \in Seq(Reply) /\ Len(AfterFrame(s)) <= Len(s)
<1>1. Head(s) \in Reply /\ Tail(s) \in Seq(Reply) /\ Len(Tail(s)) = Len(s) - 1
  BY HeadTailProperties
<1>2. CASE Head(s).left = 1
  BY <1>1, <1>2, LenProperties DEF AfterFrame, Reply
<1>3. CASE Head(s).left # 1
  <2> DEFINE r == [Head(s) EXCEPT !.left = @ - 1]
  <2>1. r \in Reply
    BY <1>1, <1>3, SessionAssumption DEF Reply
  <2>2. <<r>> \in Seq(Reply) /\ Len(<<r>>) = 1
    BY <2>1
  <2>3. AfterFrame(s) = <<r>> \o Tail(s)
    BY <1>3 DEF AfterFrame
  <2> HIDE DEF r
  <2>4. <<r>> \o Tail(s) \in Seq(Reply) /\ Len(<<r>> \o Tail(s)) = 1 + Len(Tail(s))
    BY <1>1, <2>2, ConcatProperties
  <2> QED BY <1>1, <2>3, <2>4, LenProperties DEF Reply
<1> QED BY <1>2, <1>3

\* A transfer carries no more of a channel than is in flight on it.
LEMMA TransferBounds ==
  ASSUME NEW g \in Transfers, WireTyped, NEW c \in Channels
  PROVE  g[c] \in Nat /\ rx[c] + missed[c] + g[c] <= sent[c]
BY SessionAssumption DEF Transfers, InFlight, WireTyped

\* The frames read are ones the pedal sent; on a channel requests go out on,
\* the one frame in flight belongs to the first reply under way.
LEMMA ReadsKeeps ==
  ASSUME WireTyped, Counts, Reads, UNCHANGED <<acked, packed, half, poisoned>>
  PROVE  /\ WireTyped' /\ Counts'
         /\ \A d \in Requestable : Len(out'[d]) <= Len(out[d])
<1>1. PICK g \in Transfers :
        /\ rx' = [c \in Channels |-> rx[c] + g[c]]
        /\ heard' = [c \in Requestable |->
                       IF g[c] > 0 /\ Head(out[c]).left = 1
                         THEN heard[c] \cup {Head(out[c]).txn} ELSE heard[c]]
        /\ out' = [c \in Requestable |-> IF g[c] > 0 THEN AfterFrame(out[c]) ELSE out[c]]
  BY DEF Reads
<1>2. touched' = TRUE /\ UNCHANGED <<sent, missed, faults>>
  BY DEF Reads
<1>3. ASSUME NEW c \in Requestable
      PROVE  c \in Channels /\ c # "events" /\ out[c] \in Seq(Reply) /\ Len(out[c]) \in Nat
  BY SessionAssumption, LenProperties DEF Channels, WireTyped
<1>10. \A c \in Channels : g[c] \in Nat /\ rx[c] + missed[c] + g[c] <= sent[c]
  BY TransferBounds
<1>11. \A c \in Channels : /\ rx[c] \in Nat /\ acked[c] \in Nat /\ packed[c] \in Nat
                         /\ sent[c] \in Nat /\ missed[c] \in Nat
  BY DEF WireTyped
<1>4. ASSUME NEW c \in Requestable, g[c] > 0
      PROVE  /\ Head(out[c]).txn \in 1..MaxTxn
             /\ AfterFrame(out[c]) \in Seq(Reply) /\ Len(AfterFrame(out[c])) <= Len(out[c])
  <2>1. rx[c] + missed[c] < sent[c]
    BY <1>3, <1>4, <1>10, <1>11
  <2>2. out[c] # <<>>
    BY <1>3, <2>1 DEF Counts
  <2> QED BY <1>3, <2>2, ReadReply
<1>5. /\ out' \in [Requestable -> Seq(Reply)]
      /\ \A d \in Requestable : Len(out'[d]) <= Len(out[d])
  BY <1>1, <1>3, <1>4
<1>6. heard' \in [Requestable -> SUBSET (1..MaxTxn)]
  <2>1. \A c \in Requestable : heard[c] \in SUBSET (1..MaxTxn)
    BY DEF WireTyped
  <2>2. ASSUME NEW c \in Requestable PROVE heard'[c] \in SUBSET (1..MaxTxn)
    BY <1>1, <1>4, <2>1
  <2> QED BY <1>1, <2>2
<1>7. rx' \in [Channels -> Nat]
  BY <1>1, <1>10, <1>11
<1>8. WireTyped'
  BY <1>2, <1>5, <1>6, <1>7 DEF WireTyped
<1>9. Counts'
  <2> SUFFICES ASSUME NEW c \in Channels
               PROVE  /\ acked'[c] <= rx'[c] /\ packed'[c] <= rx'[c]
                      /\ rx'[c] + missed'[c] <= sent'[c]
                      /\ c # "events" =>
                           /\ sent'[c] <= rx'[c] + missed'[c] + 1
                           /\ rx'[c] + missed'[c] < sent'[c] =>
                                c \in Requestable /\ out'[c] # <<>>
                      /\ "garbled" \notin FaultKinds => missed'[c] = 0
    BY DEF Counts
  <2>1. rx'[c] = rx[c] + g[c] /\ g[c] \in Nat /\ rx[c] + missed[c] + g[c] <= sent[c]
    BY <1>1, <1>10
  <2>2. c \in Requestable /\ g[c] = 0 => out'[c] = out[c]
    BY <1>1
  <2>3. UNCHANGED <<acked, packed, sent, missed>>
    BY <1>2
  <2>4. /\ rx[c] \in Nat /\ acked[c] \in Nat /\ packed[c] \in Nat
        /\ sent[c] \in Nat /\ missed[c] \in Nat
    BY <1>11
  <2>5. /\ acked[c] <= rx[c] /\ packed[c] <= rx[c]
        /\ c # "events" => sent[c] <= rx[c] + missed[c] + 1
        /\ c # "events" /\ rx[c] + missed[c] < sent[c] => c \in Requestable /\ out[c] # <<>>
        /\ "garbled" \notin FaultKinds => missed[c] = 0
    BY DEF Counts
  <2>6. ASSUME c # "events", rx'[c] + missed'[c] < sent'[c]
        PROVE  c \in Requestable /\ out'[c] # <<>>
    <3>1. g[c] = 0 /\ rx[c] + missed[c] < sent[c]
      BY <2>1, <2>3, <2>4, <2>5, <2>6
    <3> QED BY <2>2, <2>5, <2>6, <3>1
  <2>7. c # "events" => sent'[c] <= rx'[c] + missed'[c] + 1
    BY <2>1, <2>3, <2>4, <2>5
  <2>8. acked'[c] <= rx'[c] /\ packed'[c] <= rx'[c] /\ rx'[c] + missed'[c] <= sent'[c]
    BY <2>1, <2>3, <2>4, <2>5
  <2> QED BY <2>3, <2>5, <2>6, <2>7, <2>8
<1> QED BY <1>5, <1>8, <1>9

\* A read that brings nothing, or fails, moves no counter but missed.
LEMMA OtherReads ==
  ASSUME WireTyped, Counts, UNCHANGED <<acked, packed, half>>, poisoned' \in BOOLEAN,
         ReadsNothing \/ \E k \in {"usb", "protocol"} : ReadFails(k)
  PROVE  WireTyped' /\ Counts' /\ UNCHANGED <<out, rx>> /\ faults' >= faults
<1>1. CASE ReadsNothing
  BY <1>1 DEF ReadsNothing, WireTyped, Counts
<1>2. CASE \E k \in {"usb", "protocol"} : ReadFails(k)
  <2>1. /\ UNCHANGED <<rx, touched, heard, out, sent>> /\ faults' \in Nat
        /\ faults' >= faults
    BY <1>2 DEF ReadFails, Fault, WireTyped
  <2>2. \/ UNCHANGED missed
        \/ /\ "garbled" \in FaultKinds
           /\ \E g \in Transfers : missed' = [c \in Channels |-> missed[c] + g[c]]
    BY <1>2 DEF ReadFails, Fault
  <2>3. CASE UNCHANGED missed
    BY <2>1, <2>3 DEF Counts, WireTyped
  <2>4. ASSUME "garbled" \in FaultKinds, NEW g \in Transfers,
               missed' = [c \in Channels |-> missed[c] + g[c]]
        PROVE  WireTyped' /\ Counts'
    <3>4. \A c \in Channels : g[c] \in Nat /\ rx[c] + missed[c] + g[c] <= sent[c]
      BY TransferBounds
    <3>5. \A c \in Channels : /\ rx[c] \in Nat /\ sent[c] \in Nat /\ missed[c] \in Nat
                             /\ missed'[c] = missed[c] + g[c]
      BY <2>4 DEF WireTyped
    <3>1. missed' \in [Channels -> Nat]
      BY <2>4, <3>4, <3>5
    <3>2. WireTyped'
      BY <2>1, <3>1 DEF WireTyped
    <3>3. Counts'
      BY <2>1, <2>4, <3>4, <3>5 DEF Counts
    <3> QED BY <3>2, <3>3
  <2> QED BY <2>1, <2>2, <2>3, <2>4
<1> QED BY <1>1, <1>2

\* A frame that reaches the pedal brings its count up to the host's.
LEMMA PedalKeeps ==
  ASSUME WireTyped, Counts, CallTyped, NEW c \in Channels, NEW type,
         type = "data" => c \in Requestable /\ cur >= 1,
         PedalTakes(c, type), UNCHANGED <<rx, missed, sent>>
  PROVE  /\ packed' \in [Channels -> Nat]
         /\ \A d \in Channels : packed'[d] <= rx[d]
         /\ out' \in [Requestable -> Seq(Reply)] /\ half' \in [Requestable -> BOOLEAN]
         /\ \A d \in Requestable : out[d] # <<>> => out'[d] # <<>>
         /\ packed' = [packed EXCEPT ![c] = IF PedalCounts(c, type) THEN rx[c] ELSE @]
         /\ type # "data" => UNCHANGED <<half, out>>
         /\ type = "data" => half' = [half EXCEPT ![c] = left > 1]
<1>1. packed' = [packed EXCEPT ![c] = IF PedalCounts(c, type) THEN rx[c] ELSE @]
  <2>1. PedalCounts(c, type) /\ ~(rx[c] > packed[c]) => packed[c] = rx[c]
    BY DEF WireTyped, Counts
  <2> QED BY <2>1 DEF PedalTakes
<1>2. packed' \in [Channels -> Nat] /\ \A d \in Channels : packed'[d] <= rx[d]
  BY <1>1 DEF WireTyped, Counts
<1>3. /\ type # "data" => UNCHANGED <<half, out>>
      /\ type = "data" => half' = [half EXCEPT ![c] = left > 1]
  BY DEF PedalTakes
<1>4. half' \in [Requestable -> BOOLEAN]
  <2>1. type # "data" => half' \in [Requestable -> BOOLEAN]
    BY <1>3 DEF WireTyped
  <2>2. \A b \in BOOLEAN : [half EXCEPT ![c] = b] \in [Requestable -> BOOLEAN]
    BY Zenon DEF WireTyped
  <2>3. (left > 1) \in BOOLEAN
    OBVIOUS
  <2> QED BY <1>3, <2>1, <2>2, <2>3
<1>5. /\ out' \in [Requestable -> Seq(Reply)]
      /\ \A d \in Requestable : out[d] # <<>> => out'[d] # <<>>
  <2>1. CASE type # "data" \/ left > 1
    BY <2>1 DEF PedalTakes, WireTyped
  <2>2. CASE type = "data" /\ ~(left > 1)
    <3>1. PICK n \in 1..MaxReply :
            out' = [out EXCEPT ![c] = Append(@, [txn |-> cur, left |-> n])]
      BY <2>2 DEF PedalTakes
    <3> DEFINE r == [txn |-> cur, left |-> n]
    <3>2. r \in Reply
      BY <2>2 DEF Reply, CallTyped, Amounts
    <3> HIDE DEF r
    <3>3. Append(out[c], r) \in Seq(Reply) /\ Append(out[c], r) # <<>>
      BY <3>2, <2>2, AppendProperties DEF WireTyped
    <3>4. out' = [out EXCEPT ![c] = Append(@, r)]
      BY <3>1 DEF r
    <3> QED BY <3>3, <3>4, <2>2 DEF WireTyped
  <2> QED BY <2>1, <2>2
<1> QED BY <1>1, <1>2, <1>3, <1>4, <1>5

LEMMA ReadStep ==
  ASSUME Wire, UNCHANGED <<acked, packed, half>>, poisoned' \in BOOLEAN,
         \/ Reads /\ UNCHANGED poisoned
         \/ ReadsNothing /\ UNCHANGED poisoned
         \/ (\E k \in {"usb", "protocol"} : ReadFails(k)) /\ (poisoned => poisoned')
  PROVE  Wire' /\ faults' >= faults
<1>1. CASE Reads /\ UNCHANGED poisoned
  <2>2. UNCHANGED faults
    BY <1>1 DEF Reads
  <2>3. WireTyped' /\ Counts'
    BY <1>1, ReadsKeeps DEF Wire
  <2> QED BY <1>1, <2>2, <2>3 DEF Wire, RecordIsTrue, WireTyped
<1>2. CASE ReadsNothing /\ UNCHANGED poisoned
  <2>1. WireTyped' /\ Counts' /\ faults' >= faults
    BY <1>2, OtherReads DEF Wire
  <2>2. UNCHANGED faults
    BY <1>2 DEF ReadsNothing
  <2> QED BY <1>2, <2>1, <2>2 DEF Wire, RecordIsTrue
<1>3. CASE (\E k \in {"usb", "protocol"} : ReadFails(k)) /\ (poisoned => poisoned')
  <2>1. WireTyped' /\ Counts' /\ faults' >= faults
    BY <1>3, OtherReads DEF Wire
  <2>2. faults' = faults + 1 /\ faults \in Nat
    BY <1>3 DEF ReadFails, Fault, Wire, WireTyped
  <2>3. RecordIsTrue'
    BY <1>3 DEF Wire, RecordIsTrue
  <2> QED BY <2>1, <2>2, <2>3 DEF Wire
<1> QED BY <1>1, <1>2, <1>3

\* A frame written, or not, leaves the host's record true or poisons.
LEMMA WriteStep ==
  ASSUME Wire, CallTyped, NEW c \in Channels, NEW type,
         type = "data" => c \in Requestable /\ cur >= 1,
         Writes(c, type) \/ WriteFails(c, type),
         UNCHANGED <<rx, missed, sent>>,
         heard' \in [Requestable -> SUBSET (1..MaxTxn)]
  PROVE  /\ Wire' /\ faults' >= faults
         /\ poisoned => poisoned'
         /\ WriteFails(c, type) => (faults' > 0 \/ poisoned') /\ UNCHANGED acked
         /\ type # "data" => UNCHANGED half
         /\ Writes(c, type) /\ HostMarks(c, type) => acked' = [acked EXCEPT ![c] = rx[c]]
<1>1. \/ PedalTakes(c, type) /\ ~poisoned
      \/ UNCHANGED <<packed, half, out>>
  BY DEF Writes, WriteFails
<1>2. /\ faults' \in Nat /\ faults' >= faults /\ touched' \in BOOLEAN
      /\ poisoned' \in BOOLEAN /\ (poisoned => poisoned')
      /\ WriteFails(c, type) => (faults' > 0 \/ poisoned') /\ UNCHANGED acked
  <2>1. CASE Writes(c, type) /\ ~WriteFails(c, type)
    BY <2>1 DEF Writes, Wire, WireTyped
  <2>2. CASE WriteFails(c, type)
    <3>1. faults \in Nat /\ poisoned \in BOOLEAN /\ started \in BOOLEAN
      BY DEF Wire, WireTyped, CallTyped
    <3>2. CASE poisoned /\ UNCHANGED <<poisoned, faults>>
      BY <2>2, <3>1, <3>2 DEF WriteFails
    <3>3. CASE faults' = faults + 1 /\ poisoned' \in BOOLEAN /\ ~poisoned
      BY <2>2, <3>1, <3>3 DEF WriteFails
    <3> QED BY <2>2, <3>1, <3>2, <3>3 DEF WriteFails, Fault
  <2> QED BY <2>1, <2>2
<1>3. acked' \in [Channels -> Nat] /\ \A d \in Channels : acked'[d] <= rx[d]
  <2>1. \/ UNCHANGED acked
        \/ acked' = [acked EXCEPT ![c] = rx[c]]
    <3>1. CASE HostMarks(c, type)
      BY <3>1 DEF Writes, WriteFails
    <3>2. CASE ~HostMarks(c, type)
      <4>1. acked \in [Channels -> Nat]
        BY DEF Wire, WireTyped
      <4>2. [acked EXCEPT ![c] = acked[c]] = acked
        BY <4>1
      <4> QED BY <3>2, <4>2 DEF Writes, WriteFails
    <3> QED BY <3>1, <3>2
  <2>2. /\ rx \in [Channels -> Nat] /\ acked \in [Channels -> Nat]
        /\ \A d \in Channels : acked[d] <= rx[d]
    BY DEF Wire, WireTyped, Counts
  <2> QED BY <2>1, <2>2
<1>4. /\ packed' \in [Channels -> Nat] /\ \A d \in Channels : packed'[d] <= rx[d]
      /\ out' \in [Requestable -> Seq(Reply)] /\ half' \in [Requestable -> BOOLEAN]
      /\ \A d \in Requestable : out[d] # <<>> => out'[d] # <<>>
      /\ type # "data" => UNCHANGED half
  <2>1. CASE PedalTakes(c, type)
    BY <2>1, PedalKeeps DEF Wire
  <2>2. CASE UNCHANGED <<packed, half, out>>
    BY <2>2 DEF Wire, WireTyped, Counts
  <2> QED BY <1>1, <2>1, <2>2
<1>5. WireTyped'
  BY <1>2, <1>3, <1>4 DEF Wire, WireTyped
<1>6. Counts'
  BY <1>3, <1>4 DEF Wire, Counts
<1>7. RecordIsTrue'
  <2>1. CASE Writes(c, type)
    <3>1. acked = packed
      BY <2>1 DEF Writes, Wire, RecordIsTrue
    <3>2. packed' = [packed EXCEPT ![c] = IF PedalCounts(c, type) THEN rx[c] ELSE @]
      BY <2>1, PedalKeeps DEF Writes, Wire
    <3> QED BY <2>1, <3>1, <3>2 DEF Writes, RecordIsTrue, HostMarks, PedalCounts
  <2>2. CASE WriteFails(c, type)
    BY <2>2 DEF WriteFails, Wire, RecordIsTrue
  <2> QED BY <2>1, <2>2
<1>8. Writes(c, type) /\ HostMarks(c, type) => acked' = [acked EXCEPT ![c] = rx[c]]
  BY DEF Writes
<1> QED BY <1>2, <1>4, <1>5, <1>6, <1>7, <1>8 DEF Wire

\* The pedal's own steps.
LEMMA PedalStep == IInv /\ Pedal => IInv'
<1> SUFFICES ASSUME Wire, Call, Pedal PROVE Wire' /\ Call'
  BY DEF IInv
<1>1. CASE Emit
  BY <1>1, SessionAssumption DEF Emit, Wire, Call, hostVars, WireTyped, Counts, RecordIsTrue,
     CallTyped, Places, Amounts, Sending, Waiting, PartialPoisons, Settling
<1>2. CASE SendEvent \/ \E c \in Requestable : SendReply(c)
  <2>1. /\ UNCHANGED <<hostVars, packed, missed, emitted, out, half, faults>>
        /\ \/ sent' = [sent EXCEPT !["events"] = @ + 1]
           \/ \E c \in Requestable : /\ out[c] # <<>> /\ sent[c] = packed[c]
                                     /\ sent' = [sent EXCEPT ![c] = @ + 1]
    BY <1>2 DEF SendEvent, SendReply
  <2>2. sent' \in [Channels -> Nat] /\ \A d \in Channels : sent'[d] >= sent[d]
    <3>1. ASSUME NEW c \in Channels, sent' = [sent EXCEPT ![c] = @ + 1]
          PROVE  sent' \in [Channels -> Nat] /\ \A d \in Channels : sent'[d] >= sent[d]
      BY <3>1 DEF Wire, WireTyped
    <3> QED BY <2>1, <3>1, SessionAssumption DEF Channels
  <2>3. Counts'
    <3>1. CASE sent' = [sent EXCEPT !["events"] = @ + 1]
      BY <2>1, <2>2, <3>1 DEF Wire, WireTyped, Counts, hostVars
    <3>2. ASSUME NEW c \in Requestable, out[c] # <<>>, sent[c] = packed[c],
                 sent' = [sent EXCEPT ![c] = @ + 1]
          PROVE  Counts'
      <4>1. c \in Channels /\ sent'[c] = sent[c] + 1
        BY <3>2, SessionAssumption DEF Channels, Wire, WireTyped
      <4>2. sent[c] = rx[c] + missed[c]
        BY <3>2, <4>1 DEF Wire, WireTyped, Counts
      <4>3. UNCHANGED <<rx, acked, packed, missed, out>>
        BY <2>1 DEF hostVars
      <4>4. \A d \in Channels : d # c => sent'[d] = sent[d]
        BY <3>2 DEF Wire, WireTyped
      <4> QED BY <2>2, <3>2, <4>1, <4>2, <4>3, <4>4 DEF Wire, WireTyped, Counts
    <3> QED BY <2>1, <3>1, <3>2
  <2> QED BY <2>1, <2>2, <2>3 DEF Wire, Call, hostVars, WireTyped, RecordIsTrue,
        CallTyped, Places, Amounts, Sending, Waiting, PartialPoisons, Settling
<1> QED BY <1>1, <1>2 DEF Pedal

\* A call that ends leaves nothing half done but on a poisoned session.
LEMMA EndsCall ==
  ASSUME CallTyped, Ends, lost' \in BOOLEAN, txn' = txn,
         taken' \in Nat, emitted' = emitted,
         \A c \in Requestable : half'[c] => poisoned'
  PROVE  Call'
<1>1. CallTyped'
  <2>1. Places'
    BY DEF Places, Ends
  <2>2. Amounts'
    BY SessionAssumption DEF CallTyped, Amounts, Ends
  <2>3. started' \in BOOLEAN
    BY DEF Ends
  <2> QED BY <2>1, <2>2, <2>3 DEF CallTyped
<1>2. Sending' /\ Waiting' /\ Settling' /\ PartialPoisons'
  BY DEF Ends, Sending, Waiting, Settling, PartialPoisons
<1> QED BY <1>1, <1>2 DEF Call

\* Between calls, and in any call but one sending chunks, half a request is
\* only what a poisoned session left.
LEMMA NothingHalf ==
  ASSUME Call, pc \notin {"send", "between"}
  PROVE  \A c \in Requestable : half[c] => poisoned
BY DEF Call, PartialPoisons

\* Calls begin, or the wait after a deferred one is given up.
LEMMA BeginStep == IInv /\ HostBegins => IInv'
<1> SUFFICES ASSUME Wire, Call, HostBegins PROVE Wire' /\ Call'
  BY DEF IInv
<1>1. ASSUME NEW o \in {"request", "deferred", "poll", "keepalive", "drop"}, NEW c, Begins(o, c),
             pc = "idle"
      PROVE  /\ touched' = FALSE /\ started' = FALSE /\ after' = "idle" /\ op' = o /\ busy' = c
             /\ UNCHANGED <<taken, emitted, lost, poisoned>> /\ Wire'
             /\ \A d \in Requestable : half'[d] => poisoned'
  <2>1. /\ touched' = FALSE /\ started' = FALSE /\ after' = "idle" /\ op' = o /\ busy' = c
        /\ UNCHANGED <<rx, acked, heard, taken, poisoned, lost, pedalVars, faults>>
    BY <1>1 DEF Begins
  <2>2. Wire'
    BY <2>1 DEF Wire, pedalVars, WireTyped, Counts, RecordIsTrue
  <2>3. \A d \in Requestable : half'[d] => poisoned'
    BY <1>1, <2>1, NothingHalf DEF pedalVars
  <2> QED BY <2>1, <2>2, <2>3 DEF pedalVars
<1>2. MaxTxn \in Nat /\ MaxChunks \in Nat /\ Requestable \subseteq {"control", "data"}
  BY SessionAssumption
<1>3. ASSUME NEW c \in Requestable, StartRequest(c) PROVE Wire' /\ Call'
  <2>1. PICK o \in {"request", "deferred"} : Begins(o, c)
    BY <1>3 DEF StartRequest
  <2>2. txn[c] \in 1..MaxTxn /\ txn' \in [Requestable -> 1..(MaxTxn + 1)]
    BY <1>2, <1>3 DEF StartRequest, Call, CallTyped, Amounts
  <2>3. /\ pc = "idle" /\ cur' \in 1..MaxTxn /\ left' \in 1..MaxChunks
        /\ pc' = "drain" /\ todo' = {}
    BY <1>3, <2>2 DEF StartRequest, Usable
  <2>4. /\ started' = FALSE /\ after' = "idle" /\ op' = o /\ busy' = c
        /\ UNCHANGED <<taken, emitted, lost, poisoned>> /\ Wire'
        /\ \A d \in Requestable : half'[d] => poisoned'
    BY <1>1, <2>1, <2>3
  <2>5. Places'
    BY <1>2, <2>3, <2>4 DEF Places
  <2>6. Amounts'
    BY <1>2, <2>2, <2>3, <2>4 DEF Call, CallTyped, Amounts
  <2>7. Sending' /\ Waiting'
    BY <1>2, <2>3, <2>4 DEF Sending, Waiting
  <2>8. PartialPoisons' /\ Settling'
    BY <2>3, <2>4 DEF PartialPoisons, Settling
  <2> QED BY <2>4, <2>5, <2>6, <2>7, <2>8 DEF Call, CallTyped
<1>4. CASE StartPoll \/ StartKeepalive \/ StartDrop
  <2>1. /\ cur' = 0 /\ left' = 0 /\ txn' = txn /\ pc = "idle"
        /\ \E o \in {"poll", "keepalive", "drop"} : Begins(o, "data")
        /\ pc' \in {"poll", "keepalive", "dropRead", "gone"}
        /\ pc' = "gone" => poisoned
        /\ todo' \subseteq Channels
    BY <1>4 DEF StartPoll, StartKeepalive, StartDrop, Usable
  <2>2. /\ started' = FALSE /\ after' = "idle" /\ busy' = "data"
        /\ op' \in {"poll", "keepalive", "drop"}
        /\ UNCHANGED <<taken, emitted, lost, poisoned>> /\ Wire'
        /\ \A d \in Requestable : half'[d] => poisoned'
    BY <1>1, <2>1
  <2>3. Places'
    BY <2>1, <2>2 DEF Places
  <2>4. Amounts'
    BY <1>2, <2>1, <2>2 DEF Call, CallTyped, Amounts
  <2> QED BY <2>1, <2>2, <2>3, <2>4
          DEF Call, CallTyped, Sending, Waiting, PartialPoisons, Settling
<1>5. CASE SettleFails
  <2>1. /\ pc = "idle" /\ poisoned' = TRUE /\ lost' = TRUE
        /\ UNCHANGED <<rx, acked, heard, taken, txn, pc, call, touched, pedalVars, faults>>
    BY <1>5 DEF SettleFails
  <2>2. Wire'
    BY <2>1 DEF Wire, pedalVars, WireTyped, Counts, RecordIsTrue
  <2>3. CallTyped'
    BY <2>1 DEF Call, CallTyped, Places, Amounts, call, pedalVars
  <2> QED BY <2>1, <2>2, <2>3 DEF Call, Sending, Waiting, PartialPoisons, Settling
<1> QED BY <1>3, <1>4, <1>5 DEF HostBegins

\* A call ends with the failure it met.
LEMMA FailsEnds ==
  ASSUME Call, NEW kind, Fails(kind), touched' \in BOOLEAN,
         UNCHANGED <<taken, txn, emitted>>,
         \A c \in Requestable : half'[c] => poisoned'
  PROVE  Call'
<1>1. CASE Ends
  <2>1. lost' \in BOOLEAN
    BY DEF Fails, Call, CallTyped
  <2> QED BY <1>1, <2>1, EndsCall DEF Call, CallTyped, Amounts
<1>2. CASE pc' = "probeFailed" /\ UNCHANGED <<lost, call>>
  <2>1. CallTyped'
    BY <1>2 DEF Call, CallTyped, Places, Amounts, call
  <2> QED BY <1>2, <2>1 DEF Call, Sending, Waiting, PartialPoisons, Settling
<1> QED BY <1>1, <1>2 DEF Fails

\* A step inside a call leaves its amounts alone and goes to another place.
LEMMA MovesCall ==
  ASSUME CallTyped, UNCHANGED <<taken, txn, emitted, lost, op, busy, cur, left, started>>,
         todo' \subseteq Channels,
         pc' \in {"drain", "ack", "send", "between", "wait", "took",
                  "ackOwn", "complete", "ready",
                  "poll", "pollAck", "keepalive", "dropRead", "gone"},
         after' \in {"idle", "send", "wait", "complete", "dropRead", "gone"}
  PROVE  CallTyped'
<1>1. Places'
  BY DEF CallTyped, Places
<1>2. Amounts'
  BY DEF CallTyped, Amounts
<1> QED BY <1>1, <1>2 DEF CallTyped

\* The reading steps.
LEMMA ReadingStep ==
  IInv /\ (DrainRead \/ BetweenChunks \/ AwaitReply \/ PollRead \/ DropRead \/ DropDone)
    => IInv'
<1> SUFFICES ASSUME Wire, Call,
                    DrainRead \/ BetweenChunks \/ AwaitReply \/ PollRead \/ DropRead \/ DropDone
             PROVE  Wire' /\ Call'
  BY DEF IInv
<1> USE DEF readFrame
<1>1. CASE DrainRead
  <2>1. Wire' /\ UNCHANGED <<half, poisoned>>
    <3>1. UNCHANGED <<acked, packed, half, poisoned>> /\ poisoned \in BOOLEAN
      BY <1>1 DEF DrainRead, Wire, WireTyped
    <3> QED BY <1>1, <3>1, ReadStep DEF DrainRead
  <2>2. \A c \in Requestable : half'[c] => poisoned'
    BY <1>1, <2>1, NothingHalf DEF DrainRead
  <2>3. CASE UNCHANGED <<pc, lost, call>>
    <3>1. CallTyped' /\ pc = "drain"
      BY <1>1, <2>3, MovesCall DEF DrainRead, call, Call, CallTyped, Places
    <3> QED BY <2>1, <2>2, <2>3, <3>1 DEF call, Call, Sending, Waiting, PartialPoisons, Settling
  <2>4. CASE \E k \in {"usb", "protocol"} : Fails(k)
    BY <1>1, <2>1, <2>2, <2>4, FailsEnds DEF DrainRead, Wire, WireTyped
  <2> QED BY <1>1, <2>1, <2>3, <2>4 DEF DrainRead
<1>2. CASE BetweenChunks
  <2>1. Wire' /\ UNCHANGED half
    <3>1. UNCHANGED <<acked, packed, half>> /\ poisoned' \in BOOLEAN
      BY <1>2 DEF BetweenChunks, Wire, WireTyped
    <3>2. \/ Reads /\ UNCHANGED poisoned
          \/ ReadsNothing /\ UNCHANGED poisoned
          \/ (\E k \in {"usb", "protocol"} : ReadFails(k)) /\ (poisoned => poisoned')
      BY <1>2 DEF BetweenChunks
    <3> QED BY <3>1, <3>2, ReadStep
  <2>2. CASE pc' = "send" /\ UNCHANGED <<lost, call, poisoned>>
    <3>1. CallTyped' /\ pc = "between"
      BY <1>2, <2>2, MovesCall DEF BetweenChunks, call, Call, CallTyped, Places
    <3> QED BY <2>1, <2>2, <3>1 DEF call, Call, Sending, Waiting, PartialPoisons, Settling
  <2>3. CASE \E k \in {"usb", "protocol"} : Fails(k) /\ poisoned' = TRUE
    BY <1>2, <2>1, <2>3, FailsEnds DEF BetweenChunks, Wire, WireTyped
  <2> QED BY <1>2, <2>1, <2>2, <2>3 DEF BetweenChunks
<1>3. CASE AwaitReply
  <2>1. Wire' /\ UNCHANGED <<half, poisoned>>
    <3>1. UNCHANGED <<acked, packed, half, poisoned>> /\ poisoned \in BOOLEAN
      BY <1>3 DEF AwaitReply, Wire, WireTyped
    <3> QED BY <1>3, <3>1, ReadStep DEF AwaitReply
  <2>2. \A c \in Requestable : half'[c] => poisoned'
    BY <1>3, <2>1, NothingHalf DEF AwaitReply
  <2>3. CASE pc' = "took" /\ UNCHANGED <<lost, call>>
    <3>1. CallTyped' /\ pc = "wait"
      BY <1>3, <2>3, MovesCall DEF AwaitReply, call, Call, CallTyped, Places
    <3> QED BY <2>1, <2>2, <2>3, <3>1 DEF call, Call, Sending, Waiting, PartialPoisons, Settling
  <2>4. CASE \E k \in {"usb", "protocol"} : Fails(k)
    BY <1>3, <2>1, <2>2, <2>4, FailsEnds DEF AwaitReply, Wire, WireTyped
  <2> QED BY <1>3, <2>1, <2>3, <2>4 DEF AwaitReply
<1>4. CASE PollRead
  <2>1. Wire' /\ UNCHANGED <<half, poisoned>>
    <3>1. UNCHANGED <<acked, packed, half, poisoned>> /\ poisoned \in BOOLEAN
      BY <1>4 DEF PollRead, Wire, WireTyped
    <3> QED BY <1>4, <3>1, ReadStep DEF PollRead
  <2>2. \A c \in Requestable : half'[c] => poisoned'
    BY <1>4, <2>1, NothingHalf DEF PollRead
  <2>3. CASE pc' = "pollAck" /\ UNCHANGED <<lost, call>>
    <3>1. CallTyped' /\ pc = "poll"
      BY <1>4, <2>3, MovesCall DEF PollRead, call, Call, CallTyped, Places
    <3> QED BY <2>1, <2>2, <2>3, <3>1 DEF call, Call, Sending, Waiting, PartialPoisons, Settling
  <2>4. CASE \E k \in {"usb", "protocol"} : Fails(k)
    BY <1>4, <2>1, <2>2, <2>4, FailsEnds DEF PollRead, Wire, WireTyped
  <2> QED BY <1>4, <2>1, <2>3, <2>4 DEF PollRead
<1>5. CASE DropRead \/ DropDone
  <2>1. Wire' /\ UNCHANGED <<half, poisoned>>
    <3>1. UNCHANGED <<acked, packed, half, poisoned>> /\ poisoned \in BOOLEAN
      BY <1>5 DEF DropRead, DropDone, Wire, WireTyped
    <3>2. CASE UNCHANGED <<rx, touched, heard, out, sent, missed, faults>>
      BY <3>1, <3>2 DEF Wire, WireTyped, Counts, RecordIsTrue
    <3> QED BY <1>5, <3>1, <3>2, ReadStep DEF DropRead, DropDone
  <2>2. \A c \in Requestable : half'[c] => poisoned'
    BY <1>5, <2>1, NothingHalf DEF DropRead, DropDone
  <2>3. /\ pc = "dropRead" /\ pc' = "ack" /\ todo' = Channels /\ after' \in {"dropRead", "gone"}
        /\ UNCHANGED <<op, busy, cur, left, started, lost, taken, txn, emitted>>
    BY <1>5 DEF DropRead, DropDone, AckPass
  <2>4. CallTyped'
    BY <2>3, MovesCall DEF Call
  <2> QED BY <2>1, <2>2, <2>3, <2>4 DEF Call, Sending, Waiting, PartialPoisons, Settling
<1> QED BY <1>1, <1>2, <1>3, <1>4, <1>5

\* The steps that use no transfer.
LEMMA QuietStep ==
  IInv /\ (DrainDone \/ AckDone \/ SendRefused \/ TakeReplies \/ GiveUp) => IInv'
<1> SUFFICES ASSUME Wire, Call,
                    DrainDone \/ AckDone \/ SendRefused \/ TakeReplies \/ GiveUp
             PROVE  Wire' /\ Call'
  BY DEF IInv
<1>1. UNCHANGED <<rx, acked, txn, poisoned, touched, pedalVars, faults>>
  BY DEF DrainDone, AckDone, SendRefused, TakeReplies, GiveUp
<1>2. Wire'
  <2>1. heard' \in [Requestable -> SUBSET (1..MaxTxn)]
    BY DEF DrainDone, AckDone, SendRefused, TakeReplies, GiveUp, Wire, WireTyped
  <2> QED BY <1>1, <2>1 DEF Wire, pedalVars, WireTyped, Counts, RecordIsTrue
<1>3. touched' \in BOOLEAN /\ UNCHANGED <<txn, emitted, half, poisoned>>
  BY <1>1, <1>2 DEF Wire, WireTyped, pedalVars
<1>4. CASE DrainDone
  <2>1. /\ pc = "drain" /\ pc' = "ack" /\ todo' \subseteq Channels /\ after' = "send"
        /\ UNCHANGED <<op, busy, cur, left, started, lost, taken>>
    BY <1>4 DEF DrainDone, AckPass
  <2>2. CallTyped'
    BY <1>3, <2>1, MovesCall DEF Call
  <2> QED BY <1>2, <1>3, <2>1, <2>2 DEF Call, Sending, Waiting, PartialPoisons, Settling
<1>5. CASE AckDone
  <2>1. taken' \in Nat
    <3>1. taken \in Nat /\ rx["events"] \in Nat
      BY DEF Wire, WireTyped, Channels, Call, CallTyped, Amounts
    <3> QED BY <1>5, <3>1 DEF AckDone, Forgotten
  <2>2. pc = "ack" /\ todo = {} /\ \A c \in Requestable : half'[c] => poisoned'
    BY <1>3, <1>5, NothingHalf DEF AckDone
  <2>3. CASE after = "idle"
    <3>1. Ends /\ lost' \in BOOLEAN
      BY <1>5, <2>3 DEF AckDone, Returns, Call, CallTyped
    <3> QED BY <1>2, <1>3, <2>1, <2>2, <3>1, EndsCall DEF Call
  <2>4. CASE after # "idle"
    <3>1. pc' = after /\ after' = "idle" /\ UNCHANGED <<op, busy, cur, left, started, todo, lost>>
      BY <1>5, <2>4 DEF AckDone
    <3>2. after \in {"send", "wait", "complete", "dropRead", "gone"}
      BY <2>4 DEF Call, CallTyped, Places
    <3>3. CallTyped'
      BY <1>3, <2>1, <3>1, <3>2 DEF Call, CallTyped, Places, Amounts
    <3>4. Sending'
      BY <2>2, <3>1, <3>2 DEF Call, Sending
    <3>5. Waiting'
      BY <2>2, <3>1, <3>2 DEF Call, Waiting
    <3>6. Settling'
      <4>1. UNCHANGED <<acked, rx, faults, poisoned>>
        BY <1>1
      <4>2. acked \in [Channels -> Nat] /\ rx \in [Channels -> Nat]
        BY DEF Wire, WireTyped
      <4>3. faults = 0 /\ ~poisoned /\ after = "gone" => acked = rx
        BY <2>2, <4>2 DEF Call, Settling
      <4> QED BY <3>1, <3>2, <4>1, <4>3 DEF Settling
    <3>7. PartialPoisons'
      BY <2>2 DEF PartialPoisons
    <3> QED BY <1>2, <3>3, <3>4, <3>5, <3>6, <3>7 DEF Call
  <2> QED BY <2>3, <2>4
<1>6. CASE SendRefused \/ GiveUp
  <2>1. \A c \in Requestable : half'[c] => poisoned'
    BY <1>3, <1>6 DEF SendRefused, GiveUp, Call, PartialPoisons
  <2>2. UNCHANGED taken
    BY <1>6 DEF SendRefused, GiveUp
  <2> QED BY <1>2, <1>3, <1>6, <2>1, <2>2, FailsEnds DEF SendRefused, GiveUp
<1>7. CASE TakeReplies
  <2>1. UNCHANGED taken /\ \A c \in Requestable : half'[c] => poisoned'
    BY <1>3, <1>7, NothingHalf DEF TakeReplies
  <2>2. CASE Ends
    <3>1. lost' \in BOOLEAN /\ taken' \in Nat
      BY <1>7, <2>1, <2>2 DEF TakeReplies, Answered, Returns, Fails, AckPass, Ends, call,
         Call, CallTyped, Amounts
    <3> QED BY <1>2, <1>3, <2>1, <2>2, <3>1, EndsCall DEF Call
  <2>3. CASE ~Ends
    <3>1. /\ pc = "took" /\ todo' \subseteq Channels
          /\ \/ pc' \in {"ackOwn", "complete", "ready"} /\ after' = after
             \/ pc' = "ack" /\ after' = "wait"
          /\ UNCHANGED <<op, busy, cur, left, started, lost>>
      BY <1>7, <2>3 DEF TakeReplies, Answered, Returns, Fails, AckPass, call, Call, CallTyped, Places
    <3>2. CallTyped'
      BY <1>3, <2>1, <3>1, MovesCall DEF Call, CallTyped, Places
    <3> QED BY <1>2, <2>1, <3>1, <3>2 DEF Call, Sending, Waiting, PartialPoisons, Settling
  <2> QED BY <2>2, <2>3
<1> QED BY <1>4, <1>5, <1>6, <1>7

\* The completion waited for, and the question whether the pedal is free.
LEMMA DeferredStep ==
  IInv /\ (CompleteRead \/ CompleteLate \/ Probe \/ ReadyFails) => IInv'
<1> SUFFICES ASSUME Wire, Call, CompleteRead \/ CompleteLate \/ Probe \/ ReadyFails
             PROVE  Wire' /\ Call'
  BY DEF IInv
<1>1. CASE CompleteRead
  <2>1. /\ pc = "complete"
        /\ UNCHANGED <<acked, txn, poisoned, packed, emitted, half>> /\ poisoned' \in BOOLEAN
    BY <1>1 DEF CompleteRead, Wire, WireTyped
  <2>2. Wire'
    BY <1>1, <2>1, ReadStep DEF CompleteRead
  <2>3. \A c \in Requestable : half'[c] => poisoned'
    BY <2>1, NothingHalf
  <2>4. CASE \E k \in {"usb", "protocol"} : Fails(k) /\ UNCHANGED taken
    BY <2>1, <2>2, <2>3, <2>4, FailsEnds DEF Wire, WireTyped
  <2>5. CASE /\ taken' = rx'["events"]
             /\ \E next \in {"complete", "idle"} : AckPass(Channels \ {busy}, next)
    <3>1. /\ pc' = "ack" /\ after' \in {"complete", "idle"} /\ todo' \subseteq Channels
          /\ UNCHANGED <<op, busy, cur, left, started, lost>>
      BY <2>5 DEF AckPass
    <3>2. taken' \in Nat
      BY <2>2, <2>5 DEF Wire, WireTyped, Channels
    <3>3. CallTyped'
      BY <2>1, <3>1, <3>2 DEF Call, CallTyped, Places, Amounts
    <3> QED BY <2>1, <2>2, <2>3, <3>1, <3>3
            DEF Call, Sending, Waiting, PartialPoisons, Settling
  <2> QED BY <1>1, <2>4, <2>5 DEF CompleteRead
<1>2. CASE CompleteLate \/ Probe \/ ReadyFails
  <2>1. /\ UNCHANGED <<rx, acked, heard, taken, touched, pedalVars, faults>>
        /\ pc \in {"complete", "ready", "probeFailed"}
        /\ poisoned' \in BOOLEAN /\ (poisoned => poisoned')
    BY <1>2 DEF CompleteLate, Probe, ReadyFails, Wire, WireTyped
  <2>2. Wire'
    BY <2>1 DEF Wire, pedalVars, WireTyped, Counts, RecordIsTrue
  <2>3. \A c \in Requestable : half'[c] => poisoned'
    BY <2>1, NothingHalf DEF pedalVars
  <2>4. CASE CompleteLate
    <3>1. CallTyped' /\ pc = "complete" /\ pc' = "ready" /\ UNCHANGED call
      BY <2>1, <2>4, MovesCall DEF CompleteLate, call, pedalVars, Call, CallTyped, Places
    <3> QED BY <2>2, <2>3, <3>1 DEF call, Call, Sending, Waiting, PartialPoisons, Settling
  <2>5. CASE Probe
    <3>1. /\ pc = "ready" /\ pc' = "drain" /\ op' = "probe" /\ left' = 1 /\ started' = FALSE
          /\ cur' = txn[busy] /\ txn[busy] <= MaxTxn /\ txn' = [txn EXCEPT ![busy] = @ + 1]
          /\ UNCHANGED <<lost, busy, todo, after, taken, emitted>>
      BY <2>1, <2>5 DEF Probe, pedalVars
    <3>2. busy \in Requestable
      BY <3>1 DEF Call, Waiting
    <3>3. cur' \in 1..MaxTxn /\ txn' \in [Requestable -> 1..(MaxTxn + 1)]
      BY <3>1, <3>2, SessionAssumption DEF Call, CallTyped, Amounts
    <3>4. CallTyped'
      <4>1. Places'
        BY <3>1 DEF Call, CallTyped, Places
      <4>2. Amounts'
        BY <3>1, <3>3, SessionAssumption DEF Call, CallTyped, Amounts
      <4> QED BY <3>1, <4>1, <4>2 DEF Call, CallTyped
    <3> QED BY <2>2, <2>3, <3>1, <3>2, <3>3, <3>4
            DEF Call, Sending, Waiting, PartialPoisons, Settling
  <2>6. CASE ReadyFails
    <3>1. Ends /\ lost' \in BOOLEAN /\ txn' = txn
      BY <2>6 DEF ReadyFails
    <3>2. taken' \in Nat /\ emitted' = emitted
      BY <2>1 DEF pedalVars, Call, CallTyped, Amounts
    <3> QED BY <2>2, <2>3, <3>1, <3>2, EndsCall DEF Call
  <2> QED BY <1>2, <2>4, <2>5, <2>6
<1> QED BY <1>1, <1>2

\* The channel a loop visits next is one of its channels.
LEMMA FirstIn == ASSUME NEW S \in SUBSET Channels, S # {} PROVE First(S) \in S
BY DEF First, Channels

\* One channel of ack_pending.
LEMMA AckStep == IInv /\ AckNext => IInv'
<1> SUFFICES ASSUME Wire, Call, AckNext PROVE Wire' /\ Call'
  BY DEF IInv
<1> DEFINE c == First(todo)
<1>1. c \in todo /\ c \in Channels /\ pc = "ack"
  BY FirstIn DEF AckNext, Call, CallTyped, Places
<1>2. UNCHANGED writeFrame
  BY DEF AckNext
<1>3. \/ /\ ~Behind(c)
         /\ todo' = todo \ {c} /\ UNCHANGED <<pc, op, busy, cur, left, started, after, lost>>
         /\ UNCHANGED <<acked, touched, poisoned, faults, packed, half, out>>
      \/ /\ Writes(c, "ack")
         /\ todo' = todo \ {c} /\ UNCHANGED <<pc, op, busy, cur, left, started, after, lost>>
      \/ /\ WriteFails(c, "ack")
         /\ \/ Fails("usb")
            \/ /\ op = "drop" /\ pc' = after /\ todo' = {}
               /\ UNCHANGED <<op, busy, cur, left, started, after, lost>>
  BY DEF AckNext
<1> HIDE DEF c
<1>4. /\ Wire' /\ faults' >= faults /\ UNCHANGED half
      /\ poisoned => poisoned'
      /\ WriteFails(c, "ack") => faults' > 0 \/ poisoned'
      /\ Writes(c, "ack") => acked' = [acked EXCEPT ![c] = rx[c]]
  <2>1. CASE Writes(c, "ack") \/ WriteFails(c, "ack")
    <3>1. heard' \in [Requestable -> SUBSET (1..MaxTxn)]
      BY <1>2 DEF writeFrame, Wire, WireTyped
    <3> QED BY <1>1, <1>2, <2>1, <3>1, WriteStep DEF writeFrame, Call, HostMarks
  <2>2. CASE /\ UNCHANGED <<acked, touched, poisoned, faults, packed, half, out>>
             /\ ~Writes(c, "ack") /\ ~WriteFails(c, "ack")
    BY <1>2, <2>2 DEF writeFrame, Wire, WireTyped, Counts, RecordIsTrue
  <2> QED BY <1>3, <2>1, <2>2
<1>5. UNCHANGED <<taken, txn, emitted, rx>> /\ touched' \in BOOLEAN
  BY <1>2, <1>4 DEF writeFrame, Wire, WireTyped
<1>6. \A d \in Requestable : half'[d] => poisoned'
  BY <1>1, <1>4, NothingHalf
<1>7. CASE Fails("usb")
  BY <1>4, <1>5, <1>6, <1>7, FailsEnds
<1>8. CASE /\ WriteFails(c, "ack") /\ op = "drop" /\ pc' = after /\ todo' = {}
           /\ UNCHANGED <<op, busy, cur, left, started, after, lost>>
  <2>1. CallTyped'
    BY <1>5, <1>8 DEF Call, CallTyped, Places, Amounts
  <2>2. after \in {"idle", "send", "wait", "complete", "dropRead", "gone"}
    BY DEF Call, CallTyped, Places
  <2>3. Sending' /\ Waiting'
    BY <1>1, <1>8, <2>2 DEF Call, Sending, Waiting
  <2>4. PartialPoisons' /\ Settling'
    BY <1>4, <1>6, <1>8 DEF PartialPoisons, Settling, Wire, WireTyped
  <2> QED BY <1>4, <2>1, <2>3, <2>4 DEF Call
<1>9. CASE /\ Writes(c, "ack") \/ (~Behind(c) /\ UNCHANGED <<acked, faults>>)
           /\ todo' = todo \ {c} /\ UNCHANGED <<pc, op, busy, cur, left, started, after, lost>>
  <2>1. CallTyped'
    BY <1>5, <1>9 DEF Call, CallTyped, Places, Amounts
  <2>2. Sending' /\ Waiting' /\ PartialPoisons'
    BY <1>1, <1>6, <1>9 DEF Call, Sending, Waiting, PartialPoisons
  <2>3. Settling'
    <3> SUFFICES ASSUME faults' = 0, ~poisoned', after' = "gone", NEW d \in Channels \ todo'
                 PROVE  acked'[d] = rx'[d]
      BY <1>1, <1>9 DEF Settling
    <3>1. (faults = 0 /\ ~poisoned /\ d \in Channels \ todo) \/ d = c
      BY <1>4, <1>9 DEF Wire, WireTyped
    <3>2. d # c => acked[d] = rx[d]
      BY <1>1, <1>4, <1>9, <3>1 DEF Call, Settling, Wire, WireTyped
    <3>3. acked' = [acked EXCEPT ![c] = rx[c]] \/ (acked' = acked /\ acked[c] = rx[c])
      BY <1>4, <1>9 DEF Behind
    <3> QED BY <1>1, <1>5, <3>1, <3>2, <3>3 DEF Wire, WireTyped
  <2> QED BY <1>4, <2>1, <2>2, <2>3 DEF Call
<1> QED BY <1>3, <1>7, <1>8, <1>9

\* The next chunk: half a request, or a whole one, or a poisoned session.
LEMMA SendStep == IInv /\ SendChunk => IInv'
<1> SUFFICES ASSUME Wire, Call, SendChunk PROVE Wire' /\ Call'
  BY DEF IInv
<1>1. /\ pc = "send" /\ ~poisoned /\ busy \in Requestable /\ busy \in Channels
      /\ cur >= 1 /\ left \in 1..MaxChunks /\ UNCHANGED writeFrame
  <2>1. left \in 0..MaxChunks
    BY DEF Call, CallTyped, Amounts
  <2>2. pc = "send" /\ ~poisoned /\ UNCHANGED writeFrame
    BY DEF SendChunk
  <2>3. left >= 1 /\ cur >= 1 /\ busy \in Requestable
    BY <2>2 DEF Call, Sending
  <2>4. busy \in Channels
    BY <2>3, SessionAssumption DEF Channels
  <2> QED BY <2>1, <2>2, <2>3, <2>4, SessionAssumption
<1>2. Writes(busy, "data") \/ WriteFails(busy, "data")
  BY DEF SendChunk
<1>3. Wire' /\ faults' >= faults
  <2>1. heard' \in [Requestable -> SUBSET (1..MaxTxn)]
    BY <1>1 DEF writeFrame, Wire, WireTyped
  <2> QED BY <1>1, <1>2, <2>1, WriteStep DEF writeFrame, Call
<1>4. touched' \in BOOLEAN /\ UNCHANGED <<taken, txn, emitted>>
  BY <1>1, <1>3 DEF writeFrame, Wire, WireTyped
<1>5. \A c \in Requestable : half[c] => c = busy /\ started
  BY <1>1 DEF Call, PartialPoisons
<1>6. CASE /\ Writes(busy, "data") /\ left' = left - 1 /\ started' = TRUE
           /\ pc' = IF left = 1 THEN "wait" ELSE "between"
           /\ UNCHANGED <<op, busy, cur, todo, after, lost>>
  <2>1. half' = [half EXCEPT ![busy] = left > 1]
    BY <1>1, <1>6 DEF Writes, PedalTakes
  <2>2. CallTyped'
    <3>1. Places'
      BY <1>6 DEF Call, CallTyped, Places
    <3>2. Amounts'
      <4>1. left' \in 0..MaxChunks
        BY <1>1, <1>6, SessionAssumption
      <4> QED BY <1>4, <1>6, <4>1 DEF Call, CallTyped, Amounts
    <3> QED BY <1>6, <3>1, <3>2 DEF Call, CallTyped
  <2>3. Sending' /\ Waiting' /\ Settling'
    BY <1>1, <1>6 DEF Sending, Waiting, Settling
  <2>4. PartialPoisons'
    <3> SUFFICES ASSUME NEW c \in Requestable, half'[c]
                 PROVE  busy' = c /\ started' /\ pc' \in {"send", "between"}
      BY DEF PartialPoisons
    <3>1. half \in [Requestable -> BOOLEAN]
      BY DEF Wire, WireTyped
    <3>2. c = busy
      BY <1>5, <2>1, <3>1
    <3>3. left > 1
      BY <1>1, <2>1, <3>1, <3>2
    <3> QED BY <1>1, <1>6, <3>2, <3>3
  <2> QED BY <1>3, <2>2, <2>3, <2>4 DEF Call
<1>7. CASE WriteFails(busy, "data") /\ Fails("usb")
  <2>1. poisoned' \/ (UNCHANGED half /\ ~started)
    <3>1. CASE poisoned' = started /\ UNCHANGED half
      BY <3>1
    <3>2. CASE poisoned' = TRUE
      BY <3>2
    <3> QED BY <1>1, <1>7, <3>1, <3>2 DEF WriteFails
  <2>2. \A c \in Requestable : half'[c] => poisoned'
    BY <1>5, <2>1
  <2> QED BY <1>3, <1>4, <1>7, <2>2, FailsEnds
<1> QED BY <1>6, <1>7 DEF SendChunk

\* A reply's bytes, a poll's notifications, a keep-alive on each channel.
LEMMA OtherWrites == IInv /\ (AckOwn \/ PollTake \/ KeepaliveNext) => IInv'
<1> SUFFICES ASSUME Wire, Call, AckOwn \/ PollTake \/ KeepaliveNext PROVE Wire' /\ Call'
  BY DEF IInv
<1>1. CASE AckOwn
  <2>1. /\ pc = "ackOwn" /\ busy \in Channels /\ UNCHANGED writeFrame
        /\ Writes(busy, "ack") \/ WriteFails(busy, "ack")
    BY <1>1 DEF AckOwn, Call, CallTyped, Places, Channels
  <2>2. Wire' /\ UNCHANGED half /\ (poisoned => poisoned')
    <3>1. heard' \in [Requestable -> SUBSET (1..MaxTxn)]
      BY <2>1 DEF writeFrame, Wire, WireTyped
    <3> QED BY <2>1, <3>1, WriteStep DEF writeFrame, Call
  <2>3. touched' \in BOOLEAN /\ UNCHANGED <<taken, txn, emitted>>
    BY <2>1, <2>2 DEF writeFrame, Wire, WireTyped
  <2>4. \A c \in Requestable : half'[c] => poisoned'
    BY <2>1, <2>2, NothingHalf
  <2>5. CASE AckPass(Channels \ {busy}, "wait")
    <3>1. /\ todo' \subseteq Channels /\ pc' = "ack" /\ after' = "wait"
          /\ UNCHANGED <<op, busy, cur, left, started, lost>>
      BY <2>5 DEF AckPass
    <3>2. CallTyped'
      BY <2>3, <3>1, MovesCall DEF Call
    <3> QED BY <2>1, <2>2, <2>4, <3>1, <3>2
            DEF Call, Sending, Waiting, PartialPoisons, Settling
  <2>6. CASE Fails("usb")
    BY <2>2, <2>3, <2>4, <2>6, FailsEnds
  <2> QED BY <1>1, <2>5, <2>6 DEF AckOwn
<1>2. CASE PollTake
  <2>1. /\ pc = "pollAck" /\ UNCHANGED <<rx, txn, sent, missed, emitted>>
        /\ \/ Writes("events", "ack") \/ WriteFails("events", "ack")
           \/ UNCHANGED <<packed, half, out, acked, touched, poisoned, faults>>
    BY <1>2 DEF PollTake
  <2>2. heard' \in [Requestable -> SUBSET (1..MaxTxn)]
    BY <1>2 DEF PollTake, Wire, WireTyped
  <2>3. Wire' /\ UNCHANGED half /\ (poisoned => poisoned')
    <3>1. CASE UNCHANGED <<packed, half, out, acked, touched, poisoned, faults>>
      BY <2>1, <2>2, <3>1 DEF Wire, WireTyped, Counts, RecordIsTrue
    <3>2. CASE Writes("events", "ack") \/ WriteFails("events", "ack")
      BY <2>1, <2>2, <3>2, WriteStep DEF Call, Channels
    <3> QED BY <2>1, <3>1, <3>2
  <2>4. \A c \in Requestable : half'[c] => poisoned'
    BY <2>1, <2>3, NothingHalf
  <2>5. touched' \in BOOLEAN
    BY <2>3 DEF Wire, WireTyped
  <2>6. CASE taken' = rx["events"] /\ Returns
    <3>1. taken' \in Nat
      BY <2>6 DEF Wire, WireTyped, Channels
    <3> QED BY <2>1, <2>3, <2>4, <2>6, <3>1, EndsCall DEF Returns, Call, CallTyped
  <2>7. CASE UNCHANGED taken /\ Fails("usb")
    BY <2>1, <2>3, <2>4, <2>5, <2>7, FailsEnds
  <2> QED BY <1>2, <2>6, <2>7 DEF PollTake
<1>3. CASE KeepaliveNext
  <2> DEFINE c == First(todo)
  <2>1. /\ pc = "keepalive" /\ UNCHANGED writeFrame
        /\ Writes(c, "keepalive") \/ WriteFails(c, "keepalive")
        /\ \/ Returns \/ Fails("usb")
           \/ /\ todo' = todo \ {c}
              /\ UNCHANGED <<pc, op, busy, cur, left, started, after, lost>>
    BY <1>3 DEF KeepaliveNext
  <2>2. c \in Channels
    BY DEF First, Channels
  <2> HIDE DEF c
  <2>3. Wire' /\ UNCHANGED half /\ (poisoned => poisoned')
    <3>1. heard' \in [Requestable -> SUBSET (1..MaxTxn)]
      BY <2>1 DEF writeFrame, Wire, WireTyped
    <3> QED BY <2>1, <2>2, <3>1, WriteStep DEF writeFrame, Call
  <2>4. \A d \in Requestable : half'[d] => poisoned'
    BY <2>1, <2>3, NothingHalf
  <2>5. touched' \in BOOLEAN /\ UNCHANGED <<taken, txn, emitted>>
    BY <2>1, <2>3 DEF writeFrame, Wire, WireTyped
  <2>6. CASE Returns
    <3>1. Ends /\ lost' \in BOOLEAN /\ taken' \in Nat
      BY <2>5, <2>6 DEF Returns, Call, CallTyped, Amounts
    <3> QED BY <2>3, <2>4, <2>5, <3>1, EndsCall DEF Call
  <2>7. CASE Fails("usb")
    BY <2>3, <2>4, <2>5, <2>7, FailsEnds
  <2>8. CASE /\ todo' = todo \ {c}
             /\ UNCHANGED <<pc, op, busy, cur, left, started, after, lost>>
    <3>1. CallTyped'
      BY <2>5, <2>8 DEF Call, CallTyped, Places, Amounts
    <3> QED BY <2>1, <2>3, <2>4, <2>8, <3>1
            DEF Call, Sending, Waiting, PartialPoisons, Settling
  <2> QED BY <2>1, <2>6, <2>7, <2>8
<1> QED BY <1>1, <1>2, <1>3

-----------------------------------------------------------------------------
LEMMA InitInv == Init => IInv
<1> SUFFICES ASSUME Init PROVE IInv
  OBVIOUS
<1>1. rx = [c \in Channels |-> 0] /\ acked = rx /\ sent = rx /\ packed = rx /\ missed = rx
  BY DEF Init
<1>2. Wire
  <2>1. \A f \in {rx, acked, sent, packed, missed} :
          f \in [Channels -> Nat] /\ \A c \in Channels : f[c] = 0
    BY <1>1
  <2>2. /\ heard \in [Requestable -> SUBSET (1..MaxTxn)]
        /\ half \in [Requestable -> BOOLEAN]
        /\ faults = 0 /\ poisoned = FALSE /\ touched = FALSE
    BY DEF Init
  <2>3. out \in [Requestable -> Seq(Reply)]
    <3>1. <<>> \in Seq(Reply)
      BY EmptySeq
    <3>2. out = [c \in Requestable |-> <<>>]
      BY DEF Init
    <3> QED BY <3>1, <3>2
  <2>4. WireTyped
    BY <2>1, <2>2, <2>3 DEF WireTyped
  <2>5. Counts
    BY <2>1 DEF Counts
  <2> QED BY <1>1, <2>2, <2>4, <2>5 DEF Wire, RecordIsTrue
<1>3. Call
  <2>1. Places
    BY DEF Init, Places
  <2>2. Amounts
    BY SessionAssumption DEF Init, Amounts
  <2> QED BY <2>1, <2>2 DEF Init, Call, CallTyped, Sending, Waiting, PartialPoisons, Settling
<1> QED BY <1>2, <1>3 DEF IInv

LEMMA StepInv == IInv /\ [Next]_vars => IInv'
<1> SUFFICES ASSUME IInv, [Next]_vars PROVE IInv'
  OBVIOUS
<1>1. CASE Pedal
  BY <1>1, PedalStep
<1>2. CASE HostBegins
  BY <1>2, BeginStep
<1>3. CASE HostContinues
  BY <1>3, ReadingStep, QuietStep, DeferredStep, AckStep, SendStep, OtherWrites DEF HostContinues
<1>4. CASE UNCHANGED vars
  BY <1>4 DEF IInv, vars, hostVars, pedalVars, Wire, Call, WireTyped, Counts, RecordIsTrue, CallTyped, Places, Amounts, Sending, Waiting, PartialPoisons, Settling
<1> QED BY <1>1, <1>2, <1>3, <1>4 DEF Next, Gone

\* IInv is an invariant of the session, whatever the constants are.
THEOREM Invariance == Spec => []IInv
<1>1. IInv /\ [Next]_vars => IInv'
  BY StepInv
<1> QED BY InitInv, <1>1, PTL DEF Spec

\* Every variable keeps to its kind.
THEOREM TypeCorrect == Spec => []TypeOK
<1>1. IInv => TypeOK
  BY TypeHalves DEF IInv, Wire, Call
<1> QED BY Invariance, <1>1, PTL

\* What the host believes the pedal has been told is what the pedal counts.
THEOREM RecordIsTrueHolds == Spec => []RecordIsTrue
<1>1. IInv => RecordIsTrue
  BY DEF IInv, Wire
<1> QED BY Invariance, <1>1, PTL

\* Half a request on the wire is being sent or has poisoned the session.
THEOREM PartialPoisonsHolds == Spec => []PartialPoisons
<1>1. IInv => PartialPoisons
  BY DEF IInv, Call
<1> QED BY Invariance, <1>1, PTL

\* A session dropped without a fault has acknowledged all it read.
THEOREM DropSettlesHolds == Spec => []DropSettles
<1>1. IInv => DropSettles
  BY DEF IInv, Wire, Call, Settling, RecordIsTrue, WireTyped, DropSettles
<1> QED BY Invariance, <1>1, PTL

\* While every transfer decodes, host and pedal never wait for each other.
THEOREM NoMutualWaitHolds ==
  ASSUME "garbled" \notin FaultKinds
  PROVE  Spec => []NoMutualWait
<1>1. IInv => NoMutualWait
  <2> SUFFICES ASSUME IInv, NEW c \in Channels, Stalled(c), ~poisoned PROVE Behind(c)
    BY DEF NoMutualWait
  <2>1. missed[c] = 0 /\ acked[c] = packed[c] /\ sent[c] = rx[c]
    BY DEF IInv, Wire, Counts, RecordIsTrue, WireTyped, Stalled, InFlight
  <2>2. sent[c] # packed[c]
    BY SessionAssumption DEF IInv, Wire, WireTyped, Stalled
  <2> QED BY <2>1, <2>2 DEF Behind
<1> QED BY Invariance, <1>1, PTL

\* A poisoned session is silent: nothing its callers do reaches the pedal.
THEOREM PoisonSilencesHolds == Spec => PoisonSilences
<1>1. IInv /\ [Next]_vars => (poisoned => Silence)
  <2> SUFFICES ASSUME Wire, [Next]_vars, poisoned PROVE Silence
    BY DEF IInv
  <2>1. \A c \in Requestable : out[c] \in Seq(Reply) /\ Len(out[c]) \in Nat
    BY LenProperties DEF Wire, WireTyped
  <2>2. CASE UNCHANGED <<packed, half, out>>
    BY <2>1, <2>2 DEF Silence
  <2>4. CASE Reads /\ UNCHANGED <<acked, packed, half, poisoned>>
    BY <2>1, <2>4, ReadsKeeps DEF Wire, Silence
  <2>5. CASE Pedal \/ HostBegins \/ DrainDone \/ AckDone \/ SendRefused \/ TakeReplies
             \/ GiveUp \/ CompleteLate \/ Probe \/ ReadyFails \/ UNCHANGED vars
    <3>1. UNCHANGED <<packed, half, out>>
      BY <2>5 DEF Pedal, Emit, SendEvent, SendReply, HostBegins, StartRequest, StartPoll,
         StartKeepalive, StartDrop, SettleFails, Begins, DrainDone, AckDone, SendRefused,
         TakeReplies, GiveUp, CompleteLate, Probe, ReadyFails, pedalVars, vars
    <3> QED BY <2>2, <3>1
  <2>6. CASE DrainRead \/ BetweenChunks \/ AwaitReply \/ CompleteRead \/ PollRead
             \/ DropRead \/ DropDone
    <3>1. \/ UNCHANGED <<packed, half, out>>
          \/ Reads /\ UNCHANGED <<acked, packed, half, poisoned>>
      BY <2>6 DEF DrainRead, BetweenChunks, AwaitReply, CompleteRead, PollRead, DropRead,
         DropDone, ReadsNothing, ReadFails, readFrame
    <3> QED BY <2>2, <2>4, <3>1
  <2>7. CASE AckNext
    <3>1. \/ Writes(First(todo), "ack") \/ WriteFails(First(todo), "ack")
          \/ UNCHANGED <<packed, half, out>>
      BY <2>7 DEF AckNext
    <3> QED BY <2>2, <3>1 DEF Writes, WriteFails
  <2>8. CASE SendChunk \/ AckOwn \/ PollTake \/ KeepaliveNext
    <3>1. UNCHANGED <<packed, half, out>>
      BY <2>8 DEF SendChunk, AckOwn, PollTake, KeepaliveNext, Writes, WriteFails
    <3> QED BY <2>2, <3>1
  <2>9. Next \/ UNCHANGED vars
    OBVIOUS
  <2> QED BY <2>5, <2>6, <2>7, <2>8, <2>9 DEF Next, HostContinues, Gone
<1> QED BY Invariance, <1>1, PTL DEF Spec, PoisonSilences
-----------------------------------------------------------------------------
(* A request takes its own reply.                                          *)

\* Replies under way come in the order they were asked for, after every reply heard and not
\* taken, and none of either is to a request still to be made.
Ordered(replies, h, next) ==
    /\ \A i, j \in 1..Len(replies) : i < j => replies[i].txn < replies[j].txn
    /\ \A i \in 1..Len(replies) :
         replies[i].txn < next /\ \A n \in h : n < replies[i].txn
    /\ \A n \in h : n < next

Queued == \A c \in Requestable : Ordered(out[c], heard[c], txn[c])

\* A running request is the newest on its channel: before its last chunk is written no reply to
\* it is due, and while it waits the session is whole.
Before == pc \in {"drain", "send", "between"} \/ (pc = "ack" /\ after = "send")
Awaiting == pc \in {"wait", "took", "ackOwn"} \/ (pc = "ack" /\ after = "wait")
Newest ==
    /\ Before \/ Awaiting => op \in {"request", "deferred", "probe"} /\ txn[busy] = cur + 1
    /\ Before => Ordered(out[busy], heard[busy], cur)
    /\ Awaiting => ~poisoned

LEMMA RepliesNumbered ==
  ASSUME NEW q \in Seq(Reply), NEW i \in 1..Len(q)
  PROVE  q[i].txn \in Nat
<1>1. q[i] \in Reply
  BY ElementOfSeq
<1> QED BY <1>1, SessionAssumption DEF Reply

\* What is taken, or asked for later, leaves the order.
LEMMA OrderedLess ==
  ASSUME NEW q \in Seq(Reply), NEW h \in SUBSET (1..MaxTxn), NEW g \in SUBSET h,
         NEW t \in Nat, NEW u \in Nat, t <= u, Ordered(q, h, t)
  PROVE  Ordered(q, g, u)
<1>1. \A i \in 1..Len(q) : q[i].txn \in Nat
  BY RepliesNumbered
<1>2. \A n \in h : n \in Nat
  OBVIOUS
<1>3. \A i \in 1..Len(q) : q[i].txn < u /\ \A n \in g : n < q[i].txn
  BY <1>1 DEF Ordered
<1>4. \A n \in g : n < u
  BY <1>2 DEF Ordered
<1> QED BY <1>3, <1>4 DEF Ordered

\* A frame read leaves it, the reply it completes among those heard.
LEMMA OrderedRead ==
  ASSUME NEW q \in Seq(Reply), q # <<>>, NEW h \in SUBSET (1..MaxTxn), NEW t \in Nat,
         Ordered(q, h, t)
  PROVE  Ordered(AfterFrame(q), IF Head(q).left = 1 THEN h \cup {Head(q).txn} ELSE h, t)
<1>1. /\ Head(q) = q[1] /\ Len(q) \in Nat /\ Len(q) >= 1 /\ Tail(q) \in Seq(Reply)
      /\ Len(Tail(q)) = Len(q) - 1
      /\ \A i \in 1..Len(Tail(q)) : Tail(q)[i] = q[i + 1]
  <2>1. Len(q) \in Nat /\ Len(q) # 0 /\ Head(q) = q[1]
    BY LenProperties, EmptySeq
  <2>2. Tail(q) \in Seq(Reply) /\ Len(Tail(q)) = Len(q) - 1
        /\ \A i \in 1..Len(Tail(q)) : Tail(q)[i] = q[i + 1]
    BY HeadTailProperties
  <2> QED BY <2>1, <2>2
<1>2. \A i \in 1..Len(q) : q[i].txn \in Nat
  BY RepliesNumbered
<1>3. CASE Head(q).left = 1
  <2>1. \A i \in 1..Len(Tail(q)) : i + 1 \in 1..Len(q) /\ 1 < i + 1
    BY <1>1
  <2>2. \A i, j \in 1..Len(Tail(q)) : i < j => Tail(q)[i].txn < Tail(q)[j].txn
    BY <1>1, <2>1 DEF Ordered
  <2>3. \A i \in 1..Len(Tail(q)) :
          Tail(q)[i].txn < t /\ \A n \in h \cup {Head(q).txn} : n < Tail(q)[i].txn
    BY <1>1, <2>1 DEF Ordered
  <2>4. \A n \in h \cup {Head(q).txn} : n < t
    BY <1>1 DEF Ordered
  <2>5. AfterFrame(q) = Tail(q)
    BY <1>3 DEF AfterFrame
  <2> QED BY <1>3, <2>2, <2>3, <2>4, <2>5 DEF Ordered
<1>4. CASE Head(q).left # 1
  <2> DEFINE r == [Head(q) EXCEPT !.left = @ - 1]
  <2>1. AfterFrame(q) = <<r>> \o Tail(q)
    BY <1>4 DEF AfterFrame
  <2>2. Head(q) \in Reply
    BY HeadTailProperties
  <2>3. r \in Reply
    <3>1. Head(q).left - 1 \in 1..MaxReply
      BY <1>4, <2>2, SessionAssumption DEF Reply
    <3> QED BY <2>2, <3>1 DEF Reply
  <2>4. r.txn = q[1].txn
    BY <1>1, <2>2 DEF Reply
  <2> HIDE DEF r
  <2>5. <<r>> \in Seq(Reply) /\ Len(<<r>>) = 1 /\ <<r>>[1] = r
    BY <2>3
  <2>6. /\ Len(<<r>> \o Tail(q)) = Len(q)
        /\ \A i \in 1..Len(q) :
             (<<r>> \o Tail(q))[i] = IF i = 1 THEN r ELSE Tail(q)[i - 1]
    BY <1>1, <2>5, ConcatProperties
  <2>7. \A i \in 1..Len(q) : (<<r>> \o Tail(q))[i].txn = q[i].txn
    BY <1>1, <2>4, <2>6
  <2> QED BY <1>4, <2>1, <2>6, <2>7 DEF Ordered
<1> QED BY <1>3, <1>4

\* The newest request's reply goes last.
LEMMA OrderedAsked ==
  ASSUME NEW q \in Seq(Reply), NEW h \in SUBSET (1..MaxTxn), NEW k \in 1..MaxTxn,
         NEW n \in 1..MaxReply, Ordered(q, h, k)
  PROVE  Ordered(Append(q, [txn |-> k, left |-> n]), h, k + 1)
<1> DEFINE r == [txn |-> k, left |-> n]
<1>1. r \in Reply /\ r.txn = k
  BY DEF Reply
<1> HIDE DEF r
<1>2. /\ Len(q) \in Nat /\ Len(Append(q, r)) = Len(q) + 1
      /\ \A i \in 1..Len(q) : Append(q, r)[i] = q[i]
      /\ Append(q, r)[Len(q) + 1] = r
  BY <1>1, AppendProperties, LenProperties
<1>3. \A i \in 1..Len(q) : q[i].txn \in Nat /\ q[i].txn < k
  BY RepliesNumbered DEF Ordered
<1>4. \A i \in 1..Len(q) + 1 : i \in 1..Len(q) \/ i = Len(q) + 1
  BY <1>2
<1>5. \A m \in h : m \in Nat /\ m < k
  BY DEF Ordered
<1>6. \A i, j \in 1..Len(q) + 1 : i < j => Append(q, r)[i].txn < Append(q, r)[j].txn
  BY <1>1, <1>2, <1>3, <1>4 DEF Ordered
<1>7. \A i \in 1..Len(q) + 1 :
        Append(q, r)[i].txn < k + 1 /\ \A m \in h : m < Append(q, r)[i].txn
  BY <1>1, <1>2, <1>3, <1>4, <1>5 DEF Ordered
<1>8. \A m \in h : m < k + 1
  BY <1>5
<1>9. Ordered(Append(q, r), h, k + 1)
  BY <1>2, <1>6, <1>7, <1>8 DEF Ordered
<1> QED BY <1>9 DEF r

\* A transfer keeps the order on every channel, of all that was asked for by then.
LEMMA ReadsOrdered ==
  ASSUME WireTyped, Counts, Reads, NEW c \in Requestable, NEW t \in Nat,
         Ordered(out[c], heard[c], t)
  PROVE  Ordered(out'[c], heard'[c], t)
<1>1. PICK g \in Transfers :
        /\ rx' = [d \in Channels |-> rx[d] + g[d]]
        /\ heard' = [d \in Requestable |->
                       IF g[d] > 0 /\ Head(out[d]).left = 1
                         THEN heard[d] \cup {Head(out[d]).txn} ELSE heard[d]]
        /\ out' = [d \in Requestable |-> IF g[d] > 0 THEN AfterFrame(out[d]) ELSE out[d]]
  BY DEF Reads
<1>2. c \in Channels /\ c # "events"
  BY SessionAssumption DEF Channels
<1>3. out[c] \in Seq(Reply) /\ heard[c] \in SUBSET (1..MaxTxn)
  BY DEF WireTyped
<1>4. CASE g[c] > 0
  <2>1. g[c] \in Nat /\ rx[c] + missed[c] + g[c] <= sent[c]
    BY <1>2, TransferBounds
  <2>2. rx[c] \in Nat /\ missed[c] \in Nat /\ sent[c] \in Nat
    BY <1>2 DEF WireTyped
  <2>3. out[c] # <<>>
    BY <1>2, <1>4, <2>1, <2>2 DEF Counts
  <2>4. /\ out'[c] = AfterFrame(out[c])
        /\ heard'[c] = IF Head(out[c]).left = 1 THEN heard[c] \cup {Head(out[c]).txn} ELSE heard[c]
    BY <1>1, <1>4
  <2> QED BY <1>3, <2>3, <2>4, OrderedRead
<1>5. CASE ~(g[c] > 0)
  BY <1>1, <1>5
<1> QED BY <1>4, <1>5

\* A step that asks for nothing and hears no more keeps the order.
LEMMA QueuedSame ==
  ASSUME WireTyped, Amounts, Queued, UNCHANGED <<out, txn>>,
         \A c \in Requestable : heard'[c] \in SUBSET heard[c]
  PROVE  Queued'
<1> SUFFICES ASSUME NEW c \in Requestable PROVE Ordered(out[c], heard'[c], txn[c])
  BY DEF Queued
<1>1. out[c] \in Seq(Reply) /\ heard[c] \in SUBSET (1..MaxTxn)
  BY DEF WireTyped
<1>2. txn[c] \in Nat /\ txn[c] <= txn[c]
  BY SessionAssumption DEF Amounts
<1>3. Ordered(out[c], heard[c], txn[c])
  BY DEF Queued
<1> QED BY <1>1, <1>2, <1>3, OrderedLess

\* Nor does the end of a call say anything of the next.
LEMMA NewestEnds ==
  ASSUME Ends
  PROVE  Newest'
BY DEF Ends, Newest, Before, Awaiting

\* A step of the pedal or an acknowledgement leaves what is under way.
LEMMA NewestSame ==
  ASSUME Newest, UNCHANGED <<out, heard, txn, pc, op, busy, cur, after>>,
         Awaiting => UNCHANGED poisoned
  PROVE  Newest'
BY DEF Newest, Before, Awaiting

\* Calls begin.
LEMMA BeginQueued == IInv /\ Queued /\ Newest /\ HostBegins => Queued' /\ Newest'
<1> SUFFICES ASSUME IInv, Queued, Newest, HostBegins PROVE Queued' /\ Newest'
  OBVIOUS
<1>1. /\ WireTyped /\ Amounts /\ UNCHANGED <<out, heard>>
      /\ ~SettleFails => after' = "idle"
  BY DEF IInv, Wire, Call, CallTyped, HostBegins, StartRequest, StartPoll, StartKeepalive,
         StartDrop, SettleFails, Begins, pedalVars
<1>2. ASSUME NEW c \in Requestable, StartRequest(c) PROVE Queued' /\ Newest'
  <2>1. /\ op' \in {"request", "deferred"} /\ busy' = c /\ pc' = "drain" /\ cur' = txn[c]
        /\ txn' = [txn EXCEPT ![c] = @ + 1] /\ after' = "idle"
    BY <1>2 DEF StartRequest, Begins
  <2>2. txn[c] \in Nat /\ txn'[c] = txn[c] + 1 /\ \A d \in Requestable : d # c => txn'[d] = txn[d]
    BY <1>1, <2>1, SessionAssumption DEF Amounts
  <2>3. ASSUME NEW d \in Requestable PROVE Ordered(out[d], heard[d], txn'[d])
    <3>1. /\ out[d] \in Seq(Reply) /\ heard[d] \in SUBSET (1..MaxTxn) /\ txn[d] \in Nat
          /\ Ordered(out[d], heard[d], txn[d])
      BY <1>1, SessionAssumption DEF WireTyped, Amounts, Queued
    <3>2. txn'[d] \in Nat /\ txn[d] <= txn'[d]
      BY <2>2, <3>1
    <3> QED BY <3>1, <3>2, OrderedLess
  <2>4. Queued'
    BY <1>1, <2>3 DEF Queued
  <2>5. Ordered(out[c], heard[c], txn[c])
    BY DEF Queued
  <2>6. Newest'
    BY <1>1, <2>1, <2>2, <2>5 DEF Newest, Before, Awaiting
  <2> QED BY <2>4, <2>6
<1>3. CASE StartPoll \/ StartKeepalive \/ StartDrop
  <2>1. UNCHANGED txn /\ pc' \in {"poll", "keepalive", "dropRead", "gone"} /\ after' = "idle"
    BY <1>3 DEF StartPoll, StartKeepalive, StartDrop, Begins
  <2>2. Queued'
    BY <1>1, <2>1, QueuedSame
  <2>3. Newest'
    BY <2>1 DEF Newest, Before, Awaiting
  <2> QED BY <2>2, <2>3
<1>4. CASE SettleFails
  <2>1. UNCHANGED <<txn, pc, call>> /\ pc = "idle"
    BY <1>4 DEF SettleFails
  <2>2. Queued'
    BY <1>1, <2>1, QueuedSame
  <2>3. Newest'
    BY <2>1 DEF Newest, Before, Awaiting
  <2> QED BY <2>2, <2>3
<1> QED BY <1>2, <1>3, <1>4 DEF HostBegins

\* So does the question whether the pedal is free.
LEMMA ProbeQueued == IInv /\ Queued /\ Newest /\ Probe => Queued' /\ Newest'
<1> SUFFICES ASSUME IInv, Queued, Newest, Probe PROVE Queued' /\ Newest'
  OBVIOUS
<1>1. /\ WireTyped /\ Amounts /\ UNCHANGED <<out, heard, busy>> /\ busy \in Requestable
      /\ op' = "probe" /\ pc' = "drain" /\ cur' = txn[busy]
      /\ txn' = [txn EXCEPT ![busy] = @ + 1]
  BY DEF IInv, Wire, Call, CallTyped, Waiting, Probe, pedalVars
<1>2. \A d \in Requestable : txn[d] \in Nat /\ txn'[d] = IF d = busy THEN txn[d] + 1 ELSE txn[d]
  BY <1>1, SessionAssumption DEF Amounts
<1>3. ASSUME NEW d \in Requestable PROVE Ordered(out[d], heard[d], txn'[d])
  <2>1. /\ out[d] \in Seq(Reply) /\ heard[d] \in SUBSET (1..MaxTxn)
        /\ Ordered(out[d], heard[d], txn[d])
    BY <1>1 DEF WireTyped, Queued
  <2>2. txn[d] \in Nat /\ txn'[d] \in Nat /\ txn[d] <= txn'[d]
    BY <1>2
  <2> QED BY <2>1, <2>2, OrderedLess
<1>4. Queued'
  BY <1>1, <1>3 DEF Queued
<1>5. Ordered(out[busy], heard[busy], txn[busy])
  BY <1>1 DEF Queued
<1>6. Newest'
  BY <1>1, <1>2, <1>5 DEF Newest, Before, Awaiting
<1> QED BY <1>4, <1>6

\* A transfer, read or not, and where the call goes on.
LEMMA ReadQueued ==
  IInv /\ Queued /\ Newest
    /\ (DrainRead \/ BetweenChunks \/ AwaitReply \/ CompleteRead \/ PollRead \/ DropRead \/ DropDone)
    => Queued' /\ Newest'
<1> SUFFICES ASSUME IInv, Queued, Newest,
                    DrainRead \/ BetweenChunks \/ AwaitReply \/ CompleteRead \/ PollRead
                      \/ DropRead \/ DropDone
             PROVE  Queued' /\ Newest'
  OBVIOUS
<1>1. WireTyped /\ Counts /\ Amounts /\ Sending /\ Waiting
  BY DEF IInv, Wire, Call, CallTyped
<1>2. UNCHANGED txn
  BY DEF DrainRead, BetweenChunks, AwaitReply, CompleteRead, PollRead, DropRead, DropDone,
         readFrame
<1>3. Reads \/ UNCHANGED <<out, heard>>
  BY DEF DrainRead, BetweenChunks, AwaitReply, CompleteRead, PollRead, DropRead, DropDone,
         ReadsNothing, ReadFails
<1>4. ASSUME NEW c \in Requestable, NEW t \in Nat, Ordered(out[c], heard[c], t)
      PROVE  Ordered(out'[c], heard'[c], t)
  BY <1>1, <1>3, <1>4, ReadsOrdered
<1>5. Queued'
  <2> SUFFICES ASSUME NEW c \in Requestable PROVE Ordered(out'[c], heard'[c], txn[c])
    BY <1>2 DEF Queued
  <2>1. txn[c] \in Nat /\ Ordered(out[c], heard[c], txn[c])
    BY <1>1, SessionAssumption DEF Amounts, Queued
  <2> QED BY <1>4, <2>1
<1>6. \/ Ends
      \/ /\ Before /\ Before' /\ UNCHANGED <<op, busy, cur>> /\ pc' \notin {"wait", "took", "ackOwn"}
         /\ ~(pc' = "ack" /\ after' = "wait")
      \/ Awaiting /\ Awaiting' /\ UNCHANGED <<op, busy, cur, poisoned>> /\ ~Before'
      \/ ~Before' /\ ~Awaiting'
  <2>1. CASE DrainRead \/ BetweenChunks
    BY <2>1 DEF DrainRead, BetweenChunks, Fails, Before, Awaiting, call
  <2>2. CASE AwaitReply
    BY <2>2 DEF AwaitReply, Fails, Before, Awaiting, call, readFrame
  <2>3. CASE CompleteRead \/ PollRead \/ DropRead \/ DropDone
    BY <2>3 DEF CompleteRead, PollRead, DropRead, DropDone, AckPass, Fails, Before, Awaiting
  <2> QED BY <2>1, <2>2, <2>3
<1>7. Newest'
  <2>1. CASE Ends
    BY <2>1, NewestEnds
  <2>2. CASE /\ Before /\ Before' /\ UNCHANGED <<op, busy, cur>>
             /\ pc' \notin {"wait", "took", "ackOwn"} /\ ~(pc' = "ack" /\ after' = "wait")
    <3>1. busy \in Requestable /\ cur \in Nat /\ Ordered(out[busy], heard[busy], cur)
      BY <1>1, <2>2, SessionAssumption DEF Newest, Before, Sending, Amounts
    <3>2. Ordered(out'[busy], heard'[busy], cur)
      BY <1>4, <3>1
    <3> QED BY <1>2, <2>2, <3>2 DEF Newest, Awaiting
  <2>3. CASE Awaiting /\ Awaiting' /\ UNCHANGED <<op, busy, cur, poisoned>> /\ ~Before'
    BY <1>2, <2>3 DEF Newest
  <2>4. CASE ~Before' /\ ~Awaiting'
    BY <2>4 DEF Newest
  <2> QED BY <1>6, <2>1, <2>2, <2>3, <2>4
<1> QED BY <1>5, <1>7

\* What waits to be acknowledged, refused or given up on asks for nothing.
LEMMA OtherQueued ==
  IInv /\ Queued /\ Newest
    /\ (DrainDone \/ AckNext \/ AckDone \/ SendRefused \/ TakeReplies \/ AckOwn \/ GiveUp
        \/ CompleteLate \/ ReadyFails \/ PollTake \/ KeepaliveNext)
    => Queued' /\ Newest'
<1> SUFFICES ASSUME IInv, Queued, Newest,
                    DrainDone \/ AckNext \/ AckDone \/ SendRefused \/ TakeReplies \/ AckOwn
                      \/ GiveUp \/ CompleteLate \/ ReadyFails \/ PollTake \/ KeepaliveNext
             PROVE  Queued' /\ Newest'
  OBVIOUS
<1>1. WireTyped /\ Amounts /\ Places
  BY DEF IInv, Wire, Call, CallTyped
<1>2. UNCHANGED <<out, txn>>
  <2>1. CASE \/ DrainDone \/ AckDone \/ SendRefused \/ TakeReplies \/ GiveUp
             \/ CompleteLate \/ ReadyFails
    BY <2>1 DEF DrainDone, AckDone, SendRefused, TakeReplies, GiveUp, CompleteLate, ReadyFails,
       pedalVars
  <2>2. CASE AckNext \/ AckOwn \/ PollTake \/ KeepaliveNext
    BY <2>2 DEF AckNext, AckOwn, PollTake, KeepaliveNext, Writes, WriteFails, PedalTakes, writeFrame
  <2> QED BY <2>1, <2>2
<1>3. \A c \in Requestable : heard'[c] \in SUBSET heard[c]
  <2>1. CASE TakeReplies
    BY <1>1, <2>1 DEF TakeReplies, WireTyped
  <2>2. CASE PollTake
    BY <1>1, <2>2 DEF PollTake, WireTyped
  <2>3. CASE ~TakeReplies /\ ~PollTake
    BY <2>3 DEF DrainDone, AckNext, AckDone, SendRefused, AckOwn, GiveUp, CompleteLate, ReadyFails,
       KeepaliveNext, writeFrame
  <2> QED BY <2>1, <2>2, <2>3
<1>4. Queued'
  BY <1>1, <1>2, <1>3, QueuedSame
<1>5. \/ Ends
      \/ ~Before' /\ ~Awaiting'
      \/ /\ Before /\ Before' /\ UNCHANGED <<op, busy, cur, heard>> /\ ~Awaiting'
      \/ Awaiting /\ Awaiting' /\ UNCHANGED <<op, busy, cur, poisoned>> /\ ~Before'
  <2>1. CASE DrainDone
    BY <2>1 DEF DrainDone, AckPass, Before, Awaiting
  <2>2. CASE AckNext
    <3>1. pc = "ack" /\ UNCHANGED heard
      BY <2>2 DEF AckNext, writeFrame
    <3>2. \/ /\ UNCHANGED <<pc, op, busy, cur, left, started, after, lost>> /\ UNCHANGED poisoned
          \/ Ends \/ pc' = "probeFailed"
          \/ op = "drop" /\ pc' = after /\ UNCHANGED after
      BY <2>2 DEF AckNext, Writes, Fails
    <3>3. op = "drop" => after \notin {"send", "wait"}
      BY <3>1 DEF Newest, Before, Awaiting
    <3>4. CASE op = "drop" /\ pc' = after /\ UNCHANGED after
      BY <1>1, <3>3, <3>4 DEF Places, Before, Awaiting
    <3> QED BY <3>1, <3>2, <3>4 DEF Before, Awaiting
  <2>3. CASE AckDone
    <3>1. \/ Ends
          \/ /\ pc = "ack" /\ pc' = after /\ after' = "idle"
             /\ UNCHANGED <<op, busy, cur, heard, poisoned>>
      BY <2>3 DEF AckDone, Returns
    <3>2. after \in {"idle", "send", "wait", "complete", "dropRead", "gone"}
      BY <1>1 DEF Places
    <3> QED BY <3>1, <3>2 DEF Before, Awaiting
  <2>4. CASE SendRefused \/ GiveUp \/ CompleteLate \/ ReadyFails
    BY <2>4 DEF SendRefused, GiveUp, CompleteLate, ReadyFails, Fails, Before, Awaiting
  <2>5. CASE TakeReplies
    <3>1. pc = "took" /\ UNCHANGED poisoned
      BY <2>5 DEF TakeReplies
    <3>2. \/ Ends
          \/ pc' = "ackOwn" /\ UNCHANGED <<op, busy, cur>>
          \/ pc' = "ack" /\ after' = "wait" /\ UNCHANGED <<op, busy, cur>>
          \/ pc' \in {"complete", "ready"}
      BY <2>5 DEF TakeReplies, Answered, Returns, Fails, AckPass, call
    <3> QED BY <3>1, <3>2 DEF Before, Awaiting
  <2>6. CASE AckOwn
    <3>1. pc = "ackOwn"
      BY <2>6 DEF AckOwn
    <3>2. \/ Ends \/ pc' = "probeFailed"
          \/ pc' = "ack" /\ after' = "wait" /\ UNCHANGED <<op, busy, cur, poisoned>>
      BY <2>6 DEF AckOwn, Writes, AckPass, Fails
    <3> QED BY <3>1, <3>2 DEF Before, Awaiting
  <2>7. CASE PollTake
    BY <2>7 DEF PollTake, Returns, Fails, Before, Awaiting
  <2>8. CASE KeepaliveNext
    BY <2>8 DEF KeepaliveNext, Returns, Fails, Before, Awaiting
  <2> QED BY <2>1, <2>2, <2>3, <2>4, <2>5, <2>6, <2>7, <2>8
<1>6. CASE Ends
  BY <1>4, <1>6, NewestEnds
<1>7. CASE ~Before' /\ ~Awaiting'
  BY <1>4, <1>7 DEF Newest
<1>8. CASE Before /\ Before' /\ UNCHANGED <<op, busy, cur, heard>> /\ ~Awaiting'
  BY <1>2, <1>4, <1>8 DEF Newest
<1>9. CASE Awaiting /\ Awaiting' /\ UNCHANGED <<op, busy, cur, poisoned>> /\ ~Before'
  BY <1>2, <1>4, <1>9 DEF Newest
<1> QED BY <1>5, <1>6, <1>7, <1>8, <1>9

\* A chunk is written: its request's reply is due after the last.
LEMMA SendQueued == IInv /\ Queued /\ Newest /\ SendChunk => Queued' /\ Newest'
<1> SUFFICES ASSUME IInv, Queued, Newest, SendChunk PROVE Queued' /\ Newest'
  OBVIOUS
<1>1. /\ pc = "send" /\ ~poisoned /\ busy \in Requestable /\ UNCHANGED <<heard, txn>>
      /\ op \in {"request", "deferred", "probe"}
      /\ txn[busy] = cur + 1 /\ Ordered(out[busy], heard[busy], cur)
      /\ left >= 1 /\ cur >= 1
  BY DEF SendChunk, writeFrame, IInv, Call, Sending, Newest, Before
<1>2. /\ out \in [Requestable -> Seq(Reply)] /\ heard \in [Requestable -> SUBSET (1..MaxTxn)]
      /\ cur \in 1..MaxTxn /\ left \in Nat
  BY <1>1, SessionAssumption DEF IInv, Wire, WireTyped, Call, CallTyped, Amounts
<1>3. \/ UNCHANGED out
      \/ left <= 1 /\ \E n \in 1..MaxReply :
                        out' = [out EXCEPT ![busy] = Append(@, [txn |-> cur, left |-> n])]
  <2>1. UNCHANGED out \/ PedalTakes(busy, "data")
    BY DEF SendChunk, Writes, WriteFails
  <2> QED BY <1>2, <2>1 DEF PedalTakes
<1>4. Queued'
  <2> SUFFICES ASSUME NEW c \in Requestable PROVE Ordered(out'[c], heard[c], txn[c])
    BY <1>1 DEF Queued
  <2>1. Ordered(out[c], heard[c], txn[c])
    BY DEF Queued
  <2>2. CASE UNCHANGED out
    BY <2>1, <2>2
  <2>3. ASSUME NEW n \in 1..MaxReply,
               out' = [out EXCEPT ![busy] = Append(@, [txn |-> cur, left |-> n])]
        PROVE  Ordered(out'[c], heard[c], txn[c])
    <3>1. CASE c # busy
      BY <1>2, <2>1, <2>3, <3>1
    <3>2. CASE c = busy
      <4>1. out'[c] = Append(out[c], [txn |-> cur, left |-> n])
        BY <1>2, <2>3, <3>2
      <4>2. out[c] \in Seq(Reply) /\ heard[c] \in SUBSET (1..MaxTxn) /\ Ordered(out[c], heard[c], cur)
        BY <1>1, <1>2, <3>2
      <4> QED BY <1>1, <1>2, <3>2, <4>1, <4>2, OrderedAsked
    <3> QED BY <3>1, <3>2
  <2> QED BY <1>3, <2>2, <2>3
<1>5. CASE Ends
  BY <1>4, <1>5, NewestEnds
<1>7. CASE pc' = "probeFailed"
  BY <1>4, <1>7 DEF Newest, Before, Awaiting
<1>6. CASE ~Ends /\ pc' # "probeFailed"
  <2>1. /\ pc' = IF left = 1 THEN "wait" ELSE "between"
        /\ UNCHANGED <<op, busy, cur, poisoned>> /\ Writes(busy, "data")
    BY <1>6 DEF SendChunk, Writes, Fails
  <2>2. CASE left = 1
    BY <1>1, <1>4, <2>1, <2>2 DEF Newest, Before, Awaiting
  <2>3. CASE left # 1
    <3>1. UNCHANGED out
      BY <1>1, <1>2, <1>3, <2>3
    <3> QED BY <1>1, <1>4, <2>1, <2>3, <3>1 DEF Newest, Before, Awaiting
  <2> QED BY <1>4, <2>2, <2>3
<1> QED BY <1>5, <1>6, <1>7

\* A request that returns took its own reply, and leaves nothing under way on its channel
\* (TakeReplies and the transaction numbers).
THEOREM AnswersItsOwnHolds == Spec => AnswersItsOwn
<1>1. Init => Queued /\ Newest
  <2> SUFFICES ASSUME Init PROVE Queued /\ Newest
    OBVIOUS
  <2>1. \A c \in Requestable : out[c] = <<>> /\ heard[c] = {} /\ Len(<<>>) = 0
    BY DEF Init
  <2> QED BY <2>1 DEF Init, Queued, Ordered, Newest, Before, Awaiting
<1>2. IInv /\ Queued /\ Newest /\ [Next]_vars => (Queued /\ Newest)'
  <2> SUFFICES ASSUME IInv, Queued, Newest, [Next]_vars PROVE Queued' /\ Newest'
    OBVIOUS
  <2>1. CASE HostBegins
    BY <2>1, BeginQueued
  <2>2. CASE HostContinues
    BY <2>2, ReadQueued, OtherQueued, SendQueued, ProbeQueued DEF HostContinues
  <2>3. CASE Pedal \/ UNCHANGED vars
    <3>1. UNCHANGED <<out, heard, txn, pc, op, busy, cur, after, poisoned>>
      BY <2>3 DEF Pedal, Emit, SendEvent, SendReply, hostVars, pedalVars, vars
    <3>2. Queued'
      BY <3>1 DEF Queued
    <3> QED BY <3>1, <3>2, NewestSame
  <2> QED BY <2>1, <2>2, <2>3 DEF Next, Gone
<1>3. IInv /\ Queued /\ Newest /\ [Next]_vars
        => (pc = "took" /\ pc' \in {"idle", "complete", "ready"} => out'[busy] = <<>> /\ ~half'[busy])
  <2> SUFFICES ASSUME IInv, Queued, Newest, [Next]_vars, pc = "took",
                      pc' \in {"idle", "complete", "ready"}
               PROVE  out'[busy] = <<>> /\ ~half'[busy]
    OBVIOUS
  <2>1. TakeReplies
    BY DEF Next, HostContinues, HostBegins, Pedal, Gone, vars, hostVars, Emit, SendEvent, SendReply,
           StartRequest, StartPoll, StartKeepalive, StartDrop, SettleFails, Usable, CompleteRead,
           CompleteLate, Probe, ReadyFails, DrainRead, DrainDone, AckNext,
           AckDone, SendRefused, SendChunk, BetweenChunks, AwaitReply, AckOwn, GiveUp, PollRead,
           PollTake, KeepaliveNext, DropRead, DropDone
  <2>2. cur \in heard[busy] /\ UNCHANGED <<out, half>>
    BY <2>1 DEF TakeReplies, AckPass, pedalVars
  <2>3. busy \in Requestable /\ ~poisoned /\ txn[busy] = cur + 1
    BY DEF IInv, Call, Waiting, Newest, Awaiting
  <2>4. out[busy] = <<>>
    <3>1. out[busy] \in Seq(Reply) /\ Ordered(out[busy], heard[busy], cur + 1) /\ cur \in Nat
      BY <2>3, SessionAssumption DEF Queued, IInv, Wire, WireTyped, Call, CallTyped, Amounts
    <3>2. ASSUME NEW i \in 1..Len(out[busy]) PROVE FALSE
      <4>1. out[busy][i].txn \in Nat
        BY <3>1, RepliesNumbered
      <4>2. out[busy][i].txn < cur + 1 /\ cur < out[busy][i].txn
        BY <2>2, <3>1 DEF Ordered
      <4> QED BY <3>1, <4>1, <4>2
    <3>3. Len(out[busy]) \in Nat /\ (Len(out[busy]) = 0 => out[busy] = <<>>)
      BY <3>1, LenProperties, EmptySeq
    <3> QED BY <3>2, <3>3
  <2>5. ~half[busy]
    BY <2>3, NothingHalf DEF IInv
  <2> QED BY <2>2, <2>4, <2>5
<1> QED BY Invariance, <1>1, <1>2, <1>3, PTL DEF Spec, AnswersItsOwn

=============================================================================
