----------------------------- MODULE HxDeferred -----------------------------
(***************************************************************************)
(* Operations the pedal accepts first and commits later: selecting a        *)
(* preset, writing the edit buffer and uploading an impulse response        *)
(* (crates/hx-usb/src/lib.rs command_deferred and select_preset,            *)
(* commands.rs write_preset and upload_ir).  A commit that is still running *)
(* when the next one is sent is "stacked" on it, and stacked commits jam    *)
(* the pedal for good (PROTOCOL.md, deferred operations), so every call     *)
(* must outlast its own commit.                                             *)
(*                                                                          *)
(* A request and its reply are one step here: HxSession models what is      *)
(* underneath them.  The pedal is what the code and PROTOCOL.md say of it:  *)
(* it may finish a commit at any moment, announce it or not, deliver the    *)
(* announcement late, and answer or refuse questions meanwhile.             *)
(***************************************************************************)
EXTENDS Naturals, FiniteSets

CONSTANTS
    Values,           \* what a slot may show: presets, documents, names of impulse responses
    Empty,            \* an impulse response slot holding nothing
    MaxTxn,           \* bound: transaction numbers used on either channel
    Calls,            \* the calls a caller makes: "select", "write", "upload"
    CallerContinues   \* callers go on with a session whose call failed

ASSUME DeferredAssumption ==
    /\ Empty \notin Values /\ Values # {}
    /\ MaxTxn \in Nat
    /\ Calls \subseteq {"select", "write", "upload"}
    /\ CallerContinues \in BOOLEAN

Things == {"preset", "document", "ir"}
Channels == {"data", "control"}

VARIABLES
    shown,      \* the pedal: what it reports of each thing
    inflight,   \* the pedal: commits accepted and not finished
    coming,     \* completions announced and not yet read by the host
    waiting,    \* completions in the host's reader of the events channel
    txn,        \* per channel, the last transaction number used
    pc,         \* where the call in progress stands
    op,         \* the call in progress: what it does, and to which value
    poisoned,   \* Session.poisoned
    last,       \* how the last call ended
    unseen      \* ghost: since the pedal was last idle a select or write asked for what it
                \* showed already, and the read-back cannot tell when that has landed

pedalVars == <<shown, inflight>>
newsVars == <<coming, waiting>>
vars == <<shown, inflight, coming, waiting, txn, pc, op, poisoned, last, unseen>>

Commits == [op : {"select", "write", "upload", "clear"}, value : Values \cup {Empty},
            txn : 1..MaxTxn]
Completions == [chan : Channels, txn : 1..MaxTxn]

\* The thing a call changes, and reads to see that it has.
Thing(what) == IF what = "select" THEN "preset" ELSE IF what = "write" THEN "document" ELSE "ir"

\* Slip: completions are taken for the events channel's own.
ChannelOfNews(what) == "events"

ChannelOf(what) == IF what \in {"select", "write"} THEN "data" ELSE "control"

TypeOK ==
    /\ shown \in [Things -> Values \cup {Empty}]
    /\ inflight \subseteq Commits
    /\ coming \subseteq Completions /\ waiting \subseteq Completions
    /\ txn \in [Channels -> 0..MaxTxn]
    /\ pc \in {"idle", "await", "ready", "verify", "listed", "clearing", "uploading", "gone"}
    /\ op \in [what : Calls \cup {"none"}, value : Values \cup {Empty}]
    /\ poisoned \in BOOLEAN
    /\ last \in {"none", "ok", "refused", "unanswered", "abandoned"}
    /\ unseen \in BOOLEAN

Init ==
    /\ shown \in [Things -> Values \cup {Empty}]
    /\ shown["preset"] \in Values /\ shown["document"] = shown["preset"]
    /\ inflight = {} /\ coming = {} /\ waiting = {}
    /\ txn = [c \in Channels |-> 0]
    /\ pc = "idle" /\ op = [what |-> "none", value |-> Empty]
    /\ poisoned = FALSE /\ last = "none" /\ unseen = FALSE

----------------------------------------------------------------------------
(* The pedal                                                                *)

\* What the pedal shows once a commit is done.  Loading a preset loads the
\* document stored with it, which is named like the preset here.
After(commit) ==
    IF commit.op = "select"
    THEN [shown EXCEPT !["preset"] = commit.value, !["document"] = commit.value]
    ELSE [shown EXCEPT ![Thing(commit.op)] = commit.value]

\* A commit finishes.  Not every one is announced.
Lands ==
    \E commit \in inflight :
        /\ shown' = After(commit)
        /\ inflight' = inflight \ {commit}
        /\ \E announced \in BOOLEAN :
              coming' = IF announced
                        THEN coming \cup {[chan |-> ChannelOf(commit.op), txn |-> commit.txn]}
                        ELSE coming
        /\ UNCHANGED <<waiting, txn, pc, op, poisoned, last, unseen>>

\* An announcement reaches the host, in whatever it reads next.
Arrives ==
    /\ pc # "gone"
    /\ \E completion \in coming :
        /\ coming' = coming \ {completion}
        /\ waiting' = waiting \cup {completion}
        /\ UNCHANGED <<pedalVars, txn, pc, op, poisoned, last, unseen>>

\* The pedal takes a request that commits: at once, or later.
Takes(commit) ==
    \/ inflight' = inflight \cup {commit} /\ UNCHANGED shown
    \/ shown' = After(commit) /\ UNCHANGED inflight

----------------------------------------------------------------------------
(* How a call ends                                                          *)

Returns == pc' = "idle" /\ last' = "ok"

\* A complete refusal leaves the session as it was.
Refused == pc' = "idle" /\ last' = "refused"

\* Anything else loses the session for a caller that goes by
\* Error::loses_session: no answer to the request, or no end of it once the
\* pedal has accepted it.
Fails(how) ==
    /\ last' = how
    /\ pc' = IF CallerContinues THEN "idle" ELSE "gone"

\* A number of the channel the requests in between have not used.
Numbered(chan, t) == t \in (txn[chan] + 1)..MaxTxn /\ txn' = [txn EXCEPT ![chan] = t]

\* A caller asks for something on a session that still sends.
Asks(what, value) ==
    /\ pc = "idle" /\ ~poisoned /\ what \in Calls
    /\ op' = [what |-> what, value |-> value]
    /\ unseen' = \/ unseen /\ inflight # {}
                 \/ what # "upload" /\ shown[Thing(what)] = value

----------------------------------------------------------------------------
(* command_deferred, select_preset and write_preset                         *)

\* Whatever has arrived on the events channel is forgotten, then the request
\* goes out.  A status of 0 is done already; 1 is accepted.
SendDeferred ==
    \E what \in {"select", "write"}, value \in Values, t \in 1..MaxTxn :
        /\ Asks(what, value) /\ Numbered("data", t)
        /\ waiting' = {} /\ UNCHANGED coming
        /\ LET commit == [op |-> what, value |-> value, txn |-> t]
           IN \/ /\ inflight' = inflight \cup {commit} /\ UNCHANGED shown
                 /\ pc' = "await" /\ UNCHANGED last
              \/ /\ shown' = After(commit) /\ UNCHANGED inflight
                 /\ pc' = "verify" /\ UNCHANGED last
              \/ Refused /\ UNCHANGED pedalVars
              \/ Fails("unanswered") /\ (Takes(commit) \/ UNCHANGED pedalVars)
        /\ UNCHANGED poisoned

\* The completion wait: every notification is taken, and one that carries the
\* transaction's number ends it, whichever channel it is about.
TakeCompletions ==
    /\ pc = "await" /\ waiting # {}
    /\ waiting' = {}
    /\ pc' = IF \E w \in waiting : w.txn = txn["data"] THEN "verify" ELSE "await"
    /\ UNCHANGED <<pedalVars, coming, txn, op, poisoned, last, unseen>>

\* No announcement within COMPLETION_BUDGET: ask for the preset's name until
\* the pedal answers.
StopWaiting ==
    /\ pc = "await" /\ pc' = "ready"
    /\ UNCHANGED <<pedalVars, newsVars, txn, op, poisoned, last, unseen>>

ReadyAnswer ==
    /\ pc = "ready" /\ pc' = "verify"
    /\ UNCHANGED <<pedalVars, newsVars, txn, op, poisoned, last, unseen>>

\* The transport fails while the call waits for the commit, or the pedal
\* stays silent or busy for the whole of its budget.
Abandon ==
    /\ pc \in {"ready", "verify"}
    /\ poisoned' = TRUE
    /\ Fails("abandoned")
    /\ UNCHANGED <<pedalVars, newsVars, txn, op, unseen>>

\* The completion wait itself ends with the error of a read or of an
\* acknowledgement; write_preset's deadline passes without the document
\* reading back, and upload_ir's without the slot showing the name.
GiveUp ==
    /\ \/ pc = "await"
       \/ pc = "verify" /\ op.what = "write"
       \/ pc \in {"listed", "clearing", "uploading"}
    /\ Fails("abandoned")
    /\ UNCHANGED <<pedalVars, newsVars, txn, op, poisoned, unseen>>

\* Slip: select_preset and write_preset trust the completion wait alone.
VerifyNothing ==
    /\ pc = "verify"
    /\ waiting' = IF op.what = "select" THEN {} ELSE waiting
    /\ Returns
    /\ UNCHANGED <<pedalVars, coming, txn, op, poisoned, unseen>>

\* One round of the read-back: select_preset polls the notifications too.
Verify ==
    /\ pc = "verify"
    /\ waiting' = IF op.what = "select" THEN {} ELSE waiting
    /\ IF shown[Thing(op.what)] = op.value THEN Returns ELSE UNCHANGED <<pc, last>>
    /\ UNCHANGED <<pedalVars, coming, txn, op, poisoned, unseen>>

----------------------------------------------------------------------------
(* upload_ir                                                                *)

\* The bootstrap sequence lists the slots before anything is sent.
StartUpload ==
    /\ \E value \in Values : Asks("upload", value)
    /\ pc' = "listed"
    /\ UNCHANGED <<pedalVars, newsVars, txn, poisoned, last>>

\* The slot holds the name already: empty it, so that the name appearing can
\* only be the new upload.
ClearFirst ==
    /\ pc = "listed" /\ shown["ir"] = op.value
    /\ \E t \in 1..MaxTxn :
        /\ Numbered("control", t)
        /\ LET commit == [op |-> "clear", value |-> Empty, txn |-> t]
           IN \/ Takes(commit) /\ pc' = "clearing" /\ UNCHANGED last
              \/ Refused /\ UNCHANGED pedalVars
              \/ Fails("unanswered") /\ (Takes(commit) \/ UNCHANGED pedalVars)
    /\ UNCHANGED <<newsVars, op, poisoned, unseen>>

\* Slip: upload_ir sends over a slot that shows the name already.
SendUploadOver ==
    /\ pc = "listed"
    /\ \E t \in 1..MaxTxn :
        /\ Numbered("control", t)
        /\ Takes([op |-> "upload", value |-> op.value, txn |-> t])
        /\ pc' = "uploading"
    /\ UNCHANGED <<newsVars, op, poisoned, last, unseen>>

\* The upload: command() takes any status for an answer.
SendUpload ==
    /\ \/ pc = "listed" /\ shown["ir"] # op.value
       \/ pc = "clearing" /\ shown["ir"] = Empty
    /\ \E t \in 1..MaxTxn :
        /\ Numbered("control", t)
        /\ LET commit == [op |-> "upload", value |-> op.value, txn |-> t]
           IN \/ Takes(commit) /\ pc' = "uploading" /\ UNCHANGED last
              \/ Refused /\ UNCHANGED pedalVars
              \/ Fails("unanswered") /\ (Takes(commit) \/ UNCHANGED pedalVars)
    /\ UNCHANGED <<newsVars, op, poisoned, unseen>>

\* wait_for_irs sees the name in the slot.
UploadShows ==
    /\ pc = "uploading" /\ shown["ir"] = op.value
    /\ Returns
    /\ UNCHANGED <<pedalVars, newsVars, txn, op, poisoned, unseen>>

----------------------------------------------------------------------------

Pedal == Lands \/ Arrives

Host ==
    \/ SendDeferred \/ TakeCompletions \/ StopWaiting \/ ReadyAnswer
    \/ Abandon \/ GiveUp \/ Verify
    \/ StartUpload \/ ClearFirst \/ SendUpload \/ UploadShows

Next == Pedal \/ Host

Spec == Init /\ [][Next]_vars

----------------------------------------------------------------------------
(* Correctness                                                              *)

\* A select or a write that asks for what the pedal shows already is not told
\* from one that has landed: its read-back passes at once, whether or not the
\* commit has run.  The code makes such calls (the preset list selects without
\* a look at what is loaded, and an undo or a paste may write the document that
\* is there), so both properties except what follows one until the pedal is
\* next asked for something while it is idle.

\* The pedal never has two commits to run at once, whatever it announces, in
\* whatever order announcements and answers arrive: what command_deferred,
\* the read-backs and upload_ir's clearing are for.
NoStackedCommits == Cardinality(inflight) <= 1 \/ unseen

\* A call that reports success leaves nothing running in the pedal
\* ("do not return until it has demonstrably landed", write_preset).
LandsBeforeReturn == last = "ok" /\ pc = "idle" /\ ~unseen => inflight = {}

\* What write_preset says of itself, with no exception: it does not hold
\* (HxDeferredSame.cfg).
LandsAlways == last = "ok" /\ pc = "idle" => inflight = {}

=============================================================================
