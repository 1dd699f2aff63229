----------------------------- MODULE HxSession -----------------------------
(***************************************************************************)
(* One open session with an HX pedal (crates/hx-usb/src/lib.rs, Session):  *)
(* three byte streams over one pair of USB endpoints, each with a running  *)
(* acknowledgement that the pedal paces itself by.                         *)
(*                                                                         *)
(* The host is one thread: each action below is one call it makes on the   *)
(* wire, with everything it does up to the next.  The pedal is what        *)
(* fake.rs and PROTOCOL.md say of it: it sends at most Window              *)
(* notifications on the events channel that no ACK or data frame has       *)
(* acknowledged, and releases each chunk of a reply by the acknowledgement *)
(* of the one before.  Bytes are counted in frames.  A frame the pedal has *)
(* sent and the host has not read is in flight; the frames of one channel  *)
(* arrive in order, those of different channels in any order.              *)
(***************************************************************************)
EXTENDS Integers, Sequences

CONSTANTS
    Window,          \* unacknowledged notifications the pedal sends (4 KB)
    MaxChunks,       \* frames in the longest request (send_stream's chunks)
    MaxReply,        \* frames in the longest reply
    MaxEvents,       \* bound: notifications the pedal emits
    MaxTxn,          \* bound: requests on each channel
    MaxFaults,       \* bound: transfers that fail
    FaultKinds,      \* which of Faults may happen
    Requestable,     \* bound: the channels requests are sent on
    CallerContinues  \* whether a caller goes on using a lost session

Faults == {"writeTimeout", "writeError", "readError", "garbled"}

ASSUME SessionAssumption ==
    /\ Window \in Nat \ {0} /\ MaxChunks \in Nat \ {0} /\ MaxReply \in Nat \ {0}
    /\ MaxEvents \in Nat /\ MaxTxn \in Nat /\ MaxFaults \in Nat
    /\ FaultKinds \subseteq Faults
    /\ Requestable \subseteq {"control", "data"}
    /\ CallerContinues \in BOOLEAN

\* ChannelId::ALL.  No request rides the events channel.
Channels == {"control", "events", "data"}

VARIABLES
    \* The host: struct Session and the call it is running.
    rx,        \* Channel.rx_bytes: frames received on each channel
    acked,     \* Channel.acked: how many the pedal has been told of
    heard,     \* Channel.reader: complete replies received and not taken
    taken,     \* notifications taken out of the reader: a poll's caller has them, or nobody
    txn,       \* Channel.txn: the next transaction number
    poisoned,  \* Session.poisoned
    pc,        \* where the running call is
    op,        \* which call is running
    busy,      \* the channel of the running request
    cur,       \* its transaction
    left,      \* chunks of it still to send
    started,   \* send_chunks: the first of them is on the wire
    todo,      \* channels a loop over ChannelId::ALL has still to visit
    after,     \* where the acknowledgement loop returns to
    touched,   \* whether channel_stats() changed during the call
    lost,      \* a failed call left the session unusable (loses_session)
    \* The pedal and the wire.
    sent,      \* frames sent on each channel
    packed,    \* how many of them the host has acknowledged
    missed,    \* frames that arrived in a transfer that would not decode
    emitted,   \* notifications emitted, sent or held behind the window
    out,       \* replies under way: transaction and frames not yet read
    half,      \* whether the pedal holds part of a request
    faults     \* transfers that have failed

hostVars  == <<rx, acked, heard, taken, txn, poisoned, pc, op, busy, cur, left,
               started, todo, after, touched, lost>>
pedalVars == <<sent, packed, missed, emitted, out, half>>
vars      == <<hostVars, pedalVars, faults>>

call == <<op, busy, cur, left, started, todo, after>>

InFlight(c) == sent[c] - rx[c] - missed[c]

\* ack_pending's test: the pedal is owed an acknowledgement.
Behind(c) == rx[c] # acked[c]

\* ChannelId::ALL, in the order loops visit it.
First(S) == IF "control" \in S THEN "control"
            ELSE IF "events" \in S THEN "events" ELSE "data"

-----------------------------------------------------------------------------
Init ==
    /\ rx = [c \in Channels |-> 0] /\ acked = rx
    /\ heard = [c \in Requestable |-> {}] /\ taken = 0
    /\ txn = [c \in Requestable |-> 1]
    /\ poisoned = FALSE /\ pc = "idle" /\ op = "poll" /\ busy = "data"
    /\ cur = 0 /\ left = 0 /\ started = FALSE /\ todo = {} /\ after = "idle"
    /\ touched = FALSE /\ lost = FALSE
    /\ sent = rx /\ packed = rx /\ missed = rx /\ emitted = 0
    /\ out = [c \in Requestable |-> <<>>]
    /\ half = [c \in Requestable |-> FALSE]
    /\ faults = 0

-----------------------------------------------------------------------------
(* The pedal.                                                              *)

\* Something happens on the pedal that it announces.
Emit ==
    /\ emitted < MaxEvents
    /\ emitted' = emitted + 1
    /\ UNCHANGED <<hostVars, sent, packed, missed, out, half, faults>>

\* An announcement goes out when the window has room for it.
SendEvent ==
    /\ emitted > sent["events"]
    /\ sent["events"] - packed["events"] < Window
    /\ sent' = [sent EXCEPT !["events"] = @ + 1]
    /\ UNCHANGED <<hostVars, packed, missed, emitted, out, half, faults>>

\* The next chunk of a reply goes out once the last one is acknowledged.
SendReply(c) ==
    /\ out[c] # <<>>
    /\ sent[c] = packed[c]
    /\ sent' = [sent EXCEPT ![c] = @ + 1]
    /\ UNCHANGED <<hostVars, packed, missed, emitted, out, half, faults>>

\* The frames whose acknowledgement the pedal paces a channel by: not a
\* keep-alive's on the events channel.
PedalCounts(c, type) == c # "events" \/ type # "keepalive"

\* A frame reaches the pedal.  An older acknowledgement never moves it back;
\* the last chunk of a request makes a reply of some number of frames due.
PedalTakes(c, type) ==
    /\ packed' = [packed EXCEPT ![c] =
                    IF PedalCounts(c, type) /\ rx[c] > @ THEN rx[c] ELSE @]
    /\ IF type # "data" THEN UNCHANGED <<half, out>>
       ELSE /\ half' = [half EXCEPT ![c] = left > 1]
            /\ IF left > 1 THEN UNCHANGED out
               ELSE \E n \in 1..MaxReply :
                      out' = [out EXCEPT ![c] = Append(@, [txn |-> cur, left |-> n])]

-----------------------------------------------------------------------------
(* Transfers.                                                              *)

\* Mutant: a keep-alive settles the events channel too.
HostMarksAll(c, type) == TRUE

\* mark_acknowledged after a written frame, and keepalive's exception.
HostMarks(c, type) == c # "events" \/ type # "keepalive"

\* Mutant: write does not look at poisoned.
WritesAnyway(c, type) ==
    /\ PedalTakes(c, type)
    /\ acked' = [acked EXCEPT ![c] = IF HostMarks(c, type) THEN rx[c] ELSE @]
    /\ touched' = TRUE
    /\ UNCHANGED <<poisoned, faults>>

\* A frame is written: it carries the running acknowledgement.
Writes(c, type) ==
    /\ ~poisoned
    /\ PedalTakes(c, type)
    /\ acked' = [acked EXCEPT ![c] = IF HostMarks(c, type) THEN rx[c] ELSE @]
    /\ touched' = TRUE
    /\ UNCHANGED <<poisoned, faults>>

Fault(kind) ==
    /\ kind \in FaultKinds /\ faults < MaxFaults
    /\ faults' = faults + 1

\* Mutant: the channel is marked acknowledged before its frame is written.
WriteFailsMarked(c, type) ==
    /\ touched' = TRUE
    /\ acked' = [acked EXCEPT ![c] = rx[c]]
    /\ ~poisoned /\ Fault("writeError")
    /\ UNCHANGED <<packed, half, out, poisoned>>

\* A frame is not written: the session is poisoned already, the transfer
\* fails, or it times out and may have arrived all the same.  A chunk that
\* fails after the first one leaves half a request behind.
WriteFails(c, type) ==
    /\ touched' = TRUE
    /\ UNCHANGED acked
    /\ \/ poisoned /\ UNCHANGED <<packed, half, out, poisoned, faults>>
       \/ /\ ~poisoned /\ Fault("writeError")
          /\ poisoned' = (type = "data" /\ started)
          /\ UNCHANGED <<packed, half, out>>
       \/ /\ ~poisoned /\ Fault("writeTimeout")
          /\ poisoned' = TRUE
          /\ PedalTakes(c, type) \/ UNCHANGED <<packed, half, out>>

\* What one transfer carries: some of the frames in flight.
Transfers ==
    {g \in [Channels -> 0..Window] : /\ \A c \in Channels : g[c] <= InFlight(c)
                                     /\ \E c \in Channels : g[c] > 0}

\* The replies under way on a channel once a frame of the first is read.
AfterFrame(replies) ==
    IF Head(replies).left = 1 THEN Tail(replies)
    ELSE <<[Head(replies) EXCEPT !.left = @ - 1]>> \o Tail(replies)

\* read_once: every frame of a transfer is routed to its channel, where it may
\* complete a reply.
Reads ==
    \E g \in Transfers :
      /\ rx' = [c \in Channels |-> rx[c] + g[c]]
      /\ touched' = TRUE
      /\ heard' = [c \in Requestable |->
                     IF g[c] > 0 /\ Head(out[c]).left = 1
                       THEN heard[c] \cup {Head(out[c]).txn} ELSE heard[c]]
      /\ out' = [c \in Requestable |-> IF g[c] > 0 THEN AfterFrame(out[c]) ELSE out[c]]
      /\ UNCHANGED <<sent, missed, faults>>

ReadsNothing ==
    /\ \A c \in Channels : InFlight(c) = 0
    /\ UNCHANGED <<rx, touched, heard, out, sent, missed, faults>>

\* A read fails, or one transfer's bytes do not decode and none is routed.
ReadFails(kind) ==
    /\ \/ /\ kind = "usb" /\ Fault("readError") /\ UNCHANGED missed
       \/ /\ kind = "protocol" /\ Fault("garbled")
          /\ \E g \in Transfers : missed' = [c \in Channels |-> missed[c] + g[c]]
    /\ UNCHANGED <<rx, touched, heard, out, sent>>

\* A call returns, or fails.  The worker keeps the session after a request's
\* protocol error with no traffic behind it and lets it go after any other
\* failure (try_on_device, poll).  A question whether the pedal is free poisons the
\* session when it fails.
Ends ==
    /\ pc' = "idle" /\ op' = "poll" /\ busy' = "data" /\ cur' = 0
    /\ left' = 0 /\ started' = FALSE /\ todo' = {} /\ after' = "idle"
Returns == Ends /\ UNCHANGED lost
Fails(kind) ==
    \/ /\ op = "probe" /\ pc' = "probeFailed"
       /\ UNCHANGED <<lost, call>>
    \/ /\ op # "probe" /\ Ends
       /\ lost' = (lost \/ op \notin {"request", "deferred"} \/ kind # "protocol" \/ touched')

readFrame  == <<acked, taken, txn, poisoned, packed, emitted, half>>
writeFrame == <<rx, heard, taken, txn, sent, missed, emitted>>

-----------------------------------------------------------------------------
(* Calls begin.                                                            *)

Usable == pc = "idle" /\ (~lost \/ CallerContinues)

Begins(o, c) ==
    /\ op' = o /\ busy' = c /\ touched' = FALSE
    /\ started' = FALSE /\ after' = "idle"
    /\ UNCHANGED <<rx, acked, heard, taken, poisoned, lost, pedalVars, faults>>

\* request_raw_after takes the transaction first.  A deferred request (a document
\* written, a preset selected) is one of command_deferred.
StartRequest(c) ==
    /\ Usable /\ txn[c] <= MaxTxn
    /\ \E o \in {"request", "deferred"} : Begins(o, c)
    /\ cur' = txn[c] /\ txn' = [txn EXCEPT ![c] = @ + 1]
    /\ left' \in 1..MaxChunks
    /\ pc' = "drain" /\ todo' = {}

StartPoll ==
    /\ Usable /\ Begins("poll", "data")
    /\ pc' = "poll" /\ cur' = 0 /\ left' = 0 /\ todo' = {} /\ UNCHANGED txn

StartKeepalive ==
    /\ Usable /\ Begins("keepalive", "data")
    /\ pc' = "keepalive" /\ cur' = 0 /\ left' = 0 /\ todo' = Channels
    /\ UNCHANGED txn

\* Drop does nothing to a poisoned session.
StartDrop ==
    /\ pc = "idle"
    /\ Begins("drop", "data")
    /\ pc' = IF poisoned THEN "gone" ELSE "dropRead"
    /\ cur' = 0 /\ left' = 0 /\ todo' = {} /\ UNCHANGED txn

-----------------------------------------------------------------------------
(* request_raw_after.                                                      *)

\* ack_pending: visit the channels of S, then go on at next.
AckPass(S, next) ==
    /\ pc' = "ack" /\ todo' = S /\ after' = next
    /\ UNCHANGED <<op, busy, cur, left, started, lost>>

\* drain_pending reads until there is nothing, or its 60 ms are over.
DrainRead ==
    /\ pc = "drain"
    /\ \/ /\ Reads /\ UNCHANGED <<pc, lost, call>>
       \/ \E k \in {"usb", "protocol"} : ReadFails(k) /\ Fails(k)
    /\ UNCHANGED readFrame

DrainDone ==
    /\ pc = "drain"
    /\ AckPass(Channels \ {busy}, "send")
    /\ UNCHANGED <<rx, acked, heard, taken, txn, poisoned, touched, pedalVars, faults>>

\* One channel of ack_pending's loop.  Drop ignores a failure.
AckNext ==
    /\ pc = "ack" /\ todo # {}
    /\ LET c == First(todo)
           rest == /\ todo' = todo \ {c}
                   /\ UNCHANGED <<pc, op, busy, cur, left, started, after, lost>>
       IN \/ /\ ~Behind(c) /\ rest
             /\ UNCHANGED <<acked, touched, poisoned, faults, packed, half, out>>
          \/ Behind(c) /\ Writes(c, "ack") /\ rest
          \/ /\ Behind(c) /\ WriteFails(c, "ack")
             /\ IF op # "drop" THEN Fails("usb")
                ELSE /\ pc' = after /\ todo' = {}
                     /\ UNCHANGED <<op, busy, cur, left, started, after, lost>>
    /\ UNCHANGED writeFrame

\* forget_events: what waits in the reader is not about a deferred request not yet sent.
Forgotten == IF op = "deferred" THEN rx["events"] ELSE taken

AckDone ==
    /\ pc = "ack" /\ todo = {}
    /\ IF after = "idle" THEN Returns
       ELSE pc' = after /\ after' = "idle" /\ UNCHANGED <<op, busy, cur, left, started, todo, lost>>
    /\ taken' = IF after = "send" THEN Forgotten ELSE taken
    /\ UNCHANGED <<rx, acked, heard, txn, poisoned, touched, pedalVars, faults>>

\* send_stream refuses at once on a poisoned session.
SendRefused ==
    /\ pc = "send" /\ poisoned
    /\ UNCHANGED <<rx, acked, heard, taken, txn, poisoned, touched, pedalVars, faults>>
    /\ Fails("protocol")

\* Mutant: one chunk too many (n < chunks.len()).
SendChunkOver ==
    /\ pc = "send" /\ Writes(busy, "data")
    /\ left' = left - 1 /\ started' = TRUE
    /\ pc' = IF left = 0 THEN "wait" ELSE "between"
    /\ UNCHANGED <<op, busy, cur, todo, after, lost>>
    /\ UNCHANGED writeFrame

\* send_chunks: the next chunk, with the acknowledgement in its header.
SendChunk ==
    /\ pc = "send" /\ ~poisoned
    /\ \/ /\ Writes(busy, "data")
          /\ left' = left - 1 /\ started' = TRUE
          /\ pc' = IF left = 1 THEN "wait" ELSE "between"
          /\ UNCHANGED <<op, busy, cur, todo, after, lost>>
       \/ WriteFails(busy, "data") /\ Fails("usb")
    /\ UNCHANGED writeFrame

\* Mutant: only a failed write poisons, not the read between two.
BetweenChunksForgiving ==
    /\ pc = "between"
    /\ \/ /\ Reads \/ ReadsNothing
          /\ pc' = "send" /\ UNCHANGED <<lost, call>>
       \/ \E k \in {"usb", "protocol"} : ReadFails(k) /\ Fails(k)
    /\ UNCHANGED readFrame

\* The read between two chunks; one that fails poisons the session.
BetweenChunks ==
    /\ pc = "between"
    /\ \/ /\ Reads \/ ReadsNothing
          /\ pc' = "send" /\ UNCHANGED <<lost, call, poisoned>>
       \/ \E k \in {"usb", "protocol"} :
            ReadFails(k) /\ Fails(k) /\ poisoned' = TRUE
    /\ UNCHANGED <<acked, taken, txn, packed, emitted, half>>

\* One turn of the reply loop reads, takes the replies, and acknowledges.  A
\* turn with nothing to read, take or acknowledge changes nothing.
AwaitReply ==
    /\ pc = "wait"
    /\ \/ /\ \/ Reads
             \/ ReadsNothing /\ (heard[busy] # {} \/ \E c \in Channels : Behind(c))
          /\ pc' = "took" /\ UNCHANGED <<lost, call>>
       \/ \E k \in {"usb", "protocol"} : ReadFails(k) /\ Fails(k)
    /\ UNCHANGED readFrame

\* Mutant: any reply on the channel is taken for this request's.
TakeAnyReply ==
    /\ pc = "took"
    /\ heard' = [heard EXCEPT ![busy] = {}]
    /\ IF heard[busy] # {} THEN Returns
       ELSE AckPass(Channels \ {busy}, "wait")
    /\ UNCHANGED <<rx, acked, taken, txn, poisoned, touched, pedalVars, faults>>

\* The reply is in.  A deferred request's says that it is done or refused, or that
\* it was accepted, or has a status nobody knows; the question whether the pedal is
\* free is answered, or refused.
Answered ==
    \/ Returns
    \/ op = "deferred" /\ Fails("protocol")
    \/ op = "deferred" /\ pc' = "complete" /\ UNCHANGED <<lost, call>>
    \/ op = "probe" /\ pc' = "ready" /\ UNCHANGED <<lost, call>>

\* Replies to earlier requests are dropped.  The channel's own bytes are
\* acknowledged before the idle channels, and not at all once the reply is in.
TakeReplies ==
    /\ pc = "took"
    /\ heard' = [heard EXCEPT ![busy] = {}]
    /\ UNCHANGED <<rx, acked, taken, txn, poisoned, touched, pedalVars, faults>>
    /\ IF cur \in heard[busy] THEN Answered
       ELSE IF Behind(busy)
         THEN pc' = "ackOwn" /\ UNCHANGED <<lost, call>>
         ELSE AckPass(Channels \ {busy}, "wait")

AckOwn ==
    /\ pc = "ackOwn"
    /\ \/ Writes(busy, "ack") /\ AckPass(Channels \ {busy}, "wait")
       \/ WriteFails(busy, "ack") /\ Fails("usb")
    /\ UNCHANGED writeFrame

\* Six seconds without the reply.
GiveUp ==
    /\ pc = "wait"
    /\ UNCHANGED <<rx, acked, heard, taken, txn, poisoned, touched, pedalVars, faults>>
    /\ Fails("timeout")

-----------------------------------------------------------------------------
(* command_deferred, once the request is accepted.                         *)

\* One turn of the completion loop: every notification is taken, and looked at
\* for the completion only.  The reply was the last on its own channel, so only
\* the idle ones are acknowledged.
CompleteRead ==
    /\ pc = "complete"
    /\ \/ /\ \/ Reads
             \/ ReadsNothing /\ \/ taken # rx["events"]
                                \/ \E c \in Channels \ {busy} : Behind(c)
          /\ taken' = rx'["events"]
          /\ \/ AckPass(Channels \ {busy}, "complete")
             \/ taken # taken' /\ AckPass(Channels \ {busy}, "idle")
       \/ \E k \in {"usb", "protocol"} : ReadFails(k) /\ Fails(k) /\ UNCHANGED taken
    /\ UNCHANGED <<acked, txn, poisoned, packed, emitted, half>>

\* 900 ms without the completion.
CompleteLate ==
    /\ pc = "complete" /\ pc' = "ready"
    /\ UNCHANGED <<rx, acked, heard, taken, txn, poisoned, touched, lost, call, pedalVars, faults>>

\* The pedal is asked for something cheap on the same channel.
Probe ==
    /\ pc = "ready" /\ txn[busy] <= MaxTxn
    /\ op' = "probe" /\ cur' = txn[busy] /\ txn' = [txn EXCEPT ![busy] = @ + 1]
    /\ left' = 1 /\ started' = FALSE /\ pc' = "drain"
    /\ UNCHANGED <<rx, acked, heard, taken, poisoned, touched, lost, busy, todo, after,
                   pedalVars, faults>>

\* The session is refused from then on: no answer to a probe, or none in 5 s.
ReadyFails ==
    /\ pc \in {"ready", "probeFailed"}
    /\ poisoned' = TRUE /\ lost' = TRUE /\ Ends
    /\ UNCHANGED <<rx, acked, heard, taken, txn, touched, pedalVars, faults>>

\* After its deferred request select_preset polls, keeps alive and asks, as any caller
\* may, until the preset is there, and write_preset reads until the document is; one
\* of these failing, or 10 s of a select, poisons the session.
SettleFails ==
    /\ pc = "idle" /\ ~poisoned /\ \E c \in Requestable : txn[c] > 1
    /\ poisoned' = TRUE /\ lost' = TRUE
    /\ UNCHANGED <<rx, acked, heard, taken, txn, pc, call, touched, pedalVars, faults>>

-----------------------------------------------------------------------------
(* poll_notifications, keepalive, Drop.                                    *)

PollRead ==
    /\ pc = "poll"
    /\ \/ (Reads \/ ReadsNothing) /\ pc' = "pollAck" /\ UNCHANGED <<lost, call>>
       \/ \E k \in {"usb", "protocol"} : ReadFails(k) /\ Fails(k)
    /\ UNCHANGED readFrame

\* Mutant: poll_notifications leaves the acknowledgement to the keep-alive.
PollTakeSilent ==
    /\ pc = "pollAck" /\ taken' = rx["events"]
    /\ heard' = [c \in Requestable |-> {}] /\ Returns
    /\ UNCHANGED <<packed, half, out, acked, touched, poisoned, faults>>
    /\ UNCHANGED <<rx, txn, sent, missed, emitted>>

\* Every reader is emptied; the notifications are the caller's, and select_preset throws
\* them away.
PollTake ==
    /\ pc = "pollAck"
    /\ \/ /\ IF Behind("events") THEN Writes("events", "ack")
             ELSE UNCHANGED <<packed, half, out, acked, touched, poisoned, faults>>
          /\ taken' = rx["events"]
          /\ heard' = [c \in Requestable |-> {}]
          /\ Returns
       \/ /\ Behind("events") /\ WriteFails("events", "ack")
          /\ UNCHANGED <<taken, heard>> /\ Fails("usb")
    /\ UNCHANGED <<rx, txn, sent, missed, emitted>>

KeepaliveNext ==
    /\ pc = "keepalive"
    /\ LET c == First(todo) IN
       \/ /\ Writes(c, "keepalive")
          /\ IF todo = {c} THEN Returns
             ELSE /\ todo' = todo \ {c}
                  /\ UNCHANGED <<pc, op, busy, cur, left, started, after, lost>>
       \/ WriteFails(c, "keepalive") /\ Fails("usb")
    /\ UNCHANGED writeFrame

\* Drop reads until three reads in a row come back empty, an error, or 900 ms,
\* acknowledging after every transfer.
DropRead ==
    /\ pc = "dropRead"
    /\ Reads /\ AckPass(Channels, "dropRead")
    /\ UNCHANGED readFrame

\* Mutant: no acknowledgement after the last read.
DropDoneUnsettled ==
    /\ pc = "dropRead" /\ pc' = "gone"
    /\ UNCHANGED <<op, busy, cur, left, started, todo, after, lost>>
    /\ UNCHANGED <<rx, touched, heard, out, sent, missed, faults>>
    /\ UNCHANGED readFrame

\* The final ack_pending(None).
DropDone ==
    /\ pc = "dropRead"
    /\ \/ \E k \in {"usb", "protocol"} : ReadFails(k)
       \/ UNCHANGED <<rx, touched, heard, out, sent, missed, faults>>
    /\ AckPass(Channels, "gone")
    /\ UNCHANGED readFrame

-----------------------------------------------------------------------------
HostContinues ==
    \/ DrainRead \/ DrainDone \/ AckNext \/ AckDone
    \/ SendRefused \/ SendChunk \/ BetweenChunks
    \/ AwaitReply \/ TakeReplies \/ AckOwn \/ GiveUp
    \/ CompleteRead \/ CompleteLate \/ Probe \/ ReadyFails
    \/ PollRead \/ PollTake \/ KeepaliveNext \/ DropRead \/ DropDone

HostBegins ==
    \/ \E c \in Requestable : StartRequest(c)
    \/ StartPoll \/ StartKeepalive \/ StartDrop \/ SettleFails

Pedal == Emit \/ SendEvent \/ \E c \in Requestable : SendReply(c)

\* A dropped session takes no more steps.
Gone == pc = "gone" /\ UNCHANGED vars

Next == HostContinues \/ HostBegins \/ Pedal \/ Gone

Spec == Init /\ [][Next]_vars

\* A call that began goes on; the pedal sends what the window lets it; and
\* the worker polls every 700 ms, between whatever else it is asked to do.
FairSpec ==
    /\ Spec
    /\ WF_vars(HostContinues)
    /\ WF_vars(SendEvent)
    /\ SF_vars(StartPoll)

-----------------------------------------------------------------------------
(* Properties.                                                             *)

Reply == [txn : 1..MaxTxn, left : 1..MaxReply]

\* Every variable holds a value of its kind.
TypeOK ==
    /\ {rx, acked, sent, packed, missed} \subseteq [Channels -> Nat]
    /\ heard \in [Requestable -> SUBSET (1..MaxTxn)]
    /\ txn \in [Requestable -> 1..(MaxTxn + 1)]
    /\ out \in [Requestable -> Seq(Reply)]
    /\ half \in [Requestable -> BOOLEAN]
    /\ taken \in Nat /\ emitted \in Nat /\ faults \in Nat
    /\ poisoned \in BOOLEAN /\ touched \in BOOLEAN /\ lost \in BOOLEAN
    /\ started \in BOOLEAN /\ left \in 0..MaxChunks /\ cur \in 0..MaxTxn
    /\ pc \in {"idle", "drain", "ack", "send", "between", "wait", "took",
               "ackOwn", "complete", "ready", "probeFailed",
               "poll", "pollAck", "keepalive", "dropRead", "gone"}
    /\ op \in {"request", "deferred", "probe", "poll", "keepalive", "drop"}
    /\ busy \in {"control", "data"} /\ todo \subseteq Channels
    /\ after \in {"idle", "send", "wait", "complete", "dropRead", "gone"}

\* The pedal waits for an acknowledgement, and nothing is under way to it.
Stalled(c) ==
    /\ InFlight(c) = 0
    /\ IF c = "events" THEN emitted > sent[c] /\ sent[c] - packed[c] >= Window
       ELSE c \in Requestable /\ out[c] # <<>> /\ sent[c] # packed[c]

\* Whenever the pedal holds something back for want of an acknowledgement and
\* no frame is on its way, the host still owes one and knows it (acked behind
\* rx_bytes), so that its next pass over the channels lets the pedal go on:
\* the two are never each waiting for the other.  ack_idle_channels and
\* poll_notifications exist for this; the lock-up their comments describe is
\* the state this rules out.
NoMutualWait == \A c \in Channels : Stalled(c) /\ ~poisoned => Behind(c)

\* The host's record of what the pedal has been told (Channel.acked) is what
\* the pedal counts, for a frame that failed and one it does not count alike.
RecordIsTrue == ~poisoned => acked = packed

\* Half a request is on the wire only while it is being sent or after the
\* session is poisoned: no call ever follows one, whichever step failed.
PartialPoisons ==
    \A c \in Requestable :
      half[c] => \/ poisoned
                 \/ busy = c /\ started /\ pc \in {"send", "between"}

\* No acknowledgement, no chunk and no request reaches the pedal.
Silence ==
    /\ packed' = packed /\ half' = half
    /\ \A c \in Requestable : Len(out'[c]) <= Len(out[c])

\* Once poisoned nothing more reaches the pedal, whoever still calls.
PoisonSilences == [][poisoned => Silence]_vars

\* A session dropped after no fault leaves no debt: every frame the host read
\* is acknowledged, on every channel; unless a deferred request that was never heard of
\* again poisoned it.
DropSettles == pc = "gone" /\ faults = 0 /\ ~poisoned => \A c \in Channels : packed[c] = rx[c]

\* A request that is answered took its own reply: on its channel nothing is under
\* way any more, neither that reply nor a late one to a request given up on.
AnswersItsOwn ==
    [][pc = "took" /\ pc' \in {"idle", "complete", "ready"} => out'[busy] = <<>> /\ ~half'[busy]]_vars

\* A notification the pedal emits reaches the host and is taken out of the reader in the
\* end, through every request, poll and keep-alive between, though the pedal stops at
\* its window; unless the session ends or fails.  A deferred request takes what it finds
\* and keeps none of it.
EventsArrive ==
    \A n \in 1..MaxEvents :
      emitted >= n ~> taken >= n \/ lost \/ op = "drop"

\* loses_session: what it forgives "changed nothing ... nothing arrived, so the
\* conversation is exactly where it was".
ForgivenIsAligned ==
    pc = "idle" /\ ~lost => \A c \in Channels : missed[c] = 0

=============================================================================
