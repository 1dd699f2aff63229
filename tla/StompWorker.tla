---------------------------- MODULE StompWorker ----------------------------
(***************************************************************************)
(* The StompStation PRO's worker thread and the panel that sends it         *)
(* commands (crates/tonepush-gui/src/pro.rs, Worker and Panel): live edits, *)
(* undo and redo, presets selected and saved, and tones auditioned in the   *)
(* loaded preset's edit buffer and put back.                                *)
(*                                                                          *)
(* A command is handled in one step, which stops part-way when the pedal    *)
(* refuses a write or the session is lost.  The panel takes what the worker *)
(* reports as it is reported; what it sends waits in the queue, with the    *)
(* values the panel showed when it was sent.                                *)
(***************************************************************************)
EXTENDS Naturals, Sequences, FiniteSets

CONSTANTS
    Paths,        \* nodes of the edit buffer
    Router,       \* the one that is the chain, written whole and read back
    Values,       \* what a node may hold
    Keep,         \* the chain the pedal makes of one written
    Contents,     \* what the presets of the pedal hold
    Tones,        \* a tone: values for some of the nodes
    None,         \* nothing set aside
    MaxQueue,     \* bound: commands waiting
    MaxSends,     \* bound: commands sent
    MaxLosses,    \* bound: sessions lost
    MaxRefusals   \* bound: writes refused

Buffers == [Paths -> Values]

\* Values for some of the nodes, and the value each had before and has after an edit.
Partials == UNION {[S -> Values] : S \in SUBSET Paths}
Edits == UNION {[S -> [before : Values, after : Values]] : S \in SUBSET Paths}
Stacks == [undo : Seq(Edits), redo : Seq(Edits)]
Blank == [undo |-> <<>>, redo |-> <<>>]
Nothing == [p \in {} |-> None]

ASSUME WorkerAssumption ==
    /\ IsFiniteSet(Paths) /\ Router \in Paths
    /\ Keep \in [Values -> Values] /\ \A v \in Values : Keep[Keep[v]] = Keep[v]
    /\ Contents \subseteq Buffers /\ \A b \in Contents : Keep[b[Router]] = b[Router]
    /\ Tones \subseteq Partials
    /\ MaxQueue \in Nat /\ MaxSends \in Nat /\ MaxLosses \in Nat /\ MaxRefusals \in Nat

ASSUME NoneAssumption == None \notin Stacks

Keys == 1..MaxSends

Commands ==
    [kind : {"SetNode"}, path : Paths, before : Values, value : Values]
        \cup [kind : {"SetRouter"}, before : Values, value : Values]
        \cup [kind : {"Audition"}, key : Keys, tone : Tones]
        \cup [kind : {"Connect", "Disconnect", "Undo", "Redo", "SelectPreset", "SavePreset",
                      "EndAudition", "KeepAudition"}]

VARIABLES
    buf, stored,        \* the pedal: its edit buffer, and the loaded preset in flash
    device,             \* whether the worker holds a session
    guard,              \* whether a rollback is armed
    audition_original,  \* every value an audition replaced
    audition,           \* the stacks an audition set aside
    stacks,             \* history and future, newest last
    burst,              \* last_edit_at: the last command was a live edit
    wanted,             \* the audition still wanted, shared with the panel
    queue,              \* commands on their way to the worker
    drafts,             \* the panel: the values it shows
    heard, playing,     \* the window: the tone it asked for, and the one it was told plays
    sends, losses, refusals, \* counters of the bounds
    own, ownBase,       \* ghost: the buffer an audition found, and the base of its stacks
    base,               \* ghost: the buffer as it was when the undo history began
    spoiled,            \* ghost: a refusal left work half done, or the wrong history
    drifted,            \* ghost: an edit met another value than it was asked for over
    stale,              \* ghost: a command failed over a changed buffer, and the panel was not told
    crossed             \* ghost: an edit was asked for across a command that may change its node

pedal == <<buf, stored>>
work == <<audition_original, audition, stacks>>
session == <<device, guard>>
window == <<heard, playing>>
bounds == <<losses, refusals>>
ghosts == <<own, ownBase, base, spoiled, drifted, stale>>
vars == <<pedal, session, work, burst, wanted, queue, drafts, window, sends, bounds, ghosts, crossed>>

TypeOK ==
    /\ buf \in Buffers /\ stored \in Buffers /\ drafts \in Buffers
    /\ device \in BOOLEAN /\ guard \in BOOLEAN /\ burst \in BOOLEAN
    /\ spoiled \in BOOLEAN /\ drifted \in BOOLEAN /\ stale \in BOOLEAN /\ crossed \in BOOLEAN
    /\ audition_original \in Partials
    /\ audition \in Stacks \cup {None} /\ stacks \in Stacks
    /\ wanted \in 0..MaxSends /\ heard \in 0..MaxSends /\ playing \in 0..MaxSends
    /\ queue \in Seq(Commands) /\ Len(queue) <= MaxQueue
    /\ sends \in 0..MaxSends /\ losses \in 0..MaxLosses /\ refusals \in 0..MaxRefusals
    /\ own \in Buffers /\ ownBase \in Buffers /\ base \in Buffers

\* The pedal may be plugged in with changes made at its own panel.
Init ==
    /\ buf \in Contents /\ stored \in Contents /\ drafts = buf
    /\ device = FALSE /\ guard = FALSE
    /\ audition_original = Nothing /\ audition = None /\ stacks = Blank /\ burst = FALSE
    /\ wanted = 0 /\ queue = <<>> /\ heard = 0 /\ playing = 0
    /\ sends = 0 /\ losses = 0 /\ refusals = 0
    /\ own = buf /\ ownBase = buf /\ base = buf
    /\ spoiled = FALSE /\ drifted = FALSE /\ stale = FALSE /\ crossed = FALSE

----------------------------------------------------------------------------
(* Helpers                                                                  *)

Top(stack) == stack[Len(stack)]
Pop(stack) == SubSeq(stack, 1, Len(stack) - 1)

\* What the pedal holds once a value is written to a node.
Held(p, v) == IF p = Router THEN Keep[v] ELSE v

\* The buffer once the nodes of S were written with their values in c.
Written(c, S, b) == [p \in Paths |-> IF p \in S THEN Held(p, c[p]) ELSE b[p]]
All(c, b) == Written(c, DOMAIN c, b)

\* A write fails when the pedal refuses it, and when it echoes another value than the one sent:
\* the nodes of S hold anything.
Strayed(S, b) == {Written(c, S, b) : c \in [S -> Values]}

Befores(t) == [p \in DOMAIN t |-> t[p].before]
Afters(t) == [p \in DOMAIN t |-> t[p].after]
One(p, before, after) == [q \in {p} |-> [before |-> before, after |-> after]]

\* remember_original: what an edit replaces while a tone plays, unless it is held already.
Remembered(p, before) ==
    IF audition = None \/ p \in DOMAIN audition_original THEN audition_original
    ELSE [q \in DOMAIN audition_original \cup {p} |->
            IF q = p THEN before ELSE audition_original[q]]

\* record_transaction: one step more to undo, nothing to redo.
Recorded(s, t) == IF t = Nothing THEN s ELSE [undo |-> Append(s.undo, t), redo |-> <<>>]

\* record_edit: an edit of the same node within a burst grows the step before it.
Merged(p, after) ==
    [undo |-> Append(Pop(stacks.undo), One(p, Top(stacks.undo)[p].before, after)), redo |-> <<>>]
Merges(p) ==
    /\ burst /\ stacks.redo = <<>> /\ stacks.undo # <<>>
    /\ DOMAIN Top(stacks.undo) = {p}

\* Mutant: taken back whether anything was set aside or not.
TakenBackAlways == audition

\* take_back_history, and the base of the history taken back.
TakenBack == IF audition = None THEN stacks ELSE audition
BaseBack == IF audition = None THEN base ELSE ownBase

\* Auditioning(None): the tone that played is over; one asked for since is still on its way.
SaysNone == playing' = 0 /\ heard' = IF heard = playing THEN 0 ELSE heard

----------------------------------------------------------------------------
(* The panel and the window: what they send, and what they show at once.    *)

Queues(c) ==
    /\ Len(queue) < MaxQueue /\ sends < MaxSends
    /\ queue' = Append(queue, c) /\ sends' = sends + 1

Queued(kind) == \E i \in DOMAIN queue : queue[i].kind = kind

\* The commands the worker handles without the window's controls going still.
Quiet == {"SetNode", "SetRouter"}

\* Controls answer while the pedal is online.  They go still while the worker is busy, which it
\* says of a command it has taken: one that waits holds no edit back.
Editable == device

\* An edit asked for behind a command that may change its node, or over what the panel shows
\* after one failed.
Crosses == crossed' = (crossed \/ stale \/ \E i \in DOMAIN queue : queue[i].kind \notin Quiet)

Sending == UNCHANGED <<pedal, session, work, burst, bounds, ghosts>>

\* The window looks for the pedal when it has none and no look is in flight.
AskConnect ==
    /\ ~device /\ ~Queued("Connect") /\ Len(queue) < MaxQueue
    /\ queue' = Append(queue, [kind |-> "Connect"])
    /\ Sending /\ UNCHANGED <<wanted, drafts, window, sends, crossed>>

Ask(kind) ==
    /\ device
    /\ kind = "Undo" => stacks.undo # <<>>
    /\ kind = "Redo" => stacks.redo # <<>>
    /\ kind = "SavePreset" => guard
    /\ Queues([kind |-> kind])
    /\ Sending /\ UNCHANGED <<wanted, drafts, window, crossed>>

SendEdit(p, v) ==
    /\ Editable /\ p # Router /\ v # drafts[p]
    /\ Queues([kind |-> "SetNode", path |-> p, before |-> drafts[p], value |-> v])
    /\ drafts' = [drafts EXCEPT ![p] = v] /\ Crosses
    /\ Sending /\ UNCHANGED <<wanted, window>>

\* One chain at a time: the board keeps the one it has until the pedal says what it kept.
Route(v) ==
    /\ Editable /\ ~Queued("SetRouter") /\ v # drafts[Router]
    /\ Queues([kind |-> "SetRouter", before |-> drafts[Router], value |-> v]) /\ Crosses
    /\ Sending /\ UNCHANGED <<wanted, drafts, window>>

Play(tone) ==
    /\ device
    /\ Queues([kind |-> "Audition", key |-> sends + 1, tone |-> tone])
    /\ wanted' = sends + 1 /\ heard' = sends + 1
    /\ Sending /\ UNCHANGED <<drafts, playing, crossed>>

\* end_audition
Ends == wanted' = 0 /\ Queues([kind |-> "EndAudition"])

PutBack ==
    /\ heard # 0 \/ playing # 0
    /\ Ends /\ heard' = 0
    /\ Sending /\ UNCHANGED <<drafts, playing, crossed>>

KeepHeard ==
    /\ heard # 0 /\ heard = playing
    /\ Queues([kind |-> "KeepAudition"]) /\ heard' = 0
    /\ Sending /\ UNCHANGED <<wanted, drafts, playing, crossed>>

\* A tone on its way that can no longer arrive: it left the library, or the pedal went.
Withdraw ==
    /\ heard # 0 /\ heard # playing
    /\ heard' = 0
    /\ IF playing # 0 THEN Ends
       ELSE wanted' = (IF wanted = heard THEN 0 ELSE wanted) /\ UNCHANGED <<queue, sends>>
    /\ Sending /\ UNCHANGED <<drafts, playing, crossed>>

----------------------------------------------------------------------------
(* The worker: the next command, and how its handling went.                 *)

Command == Head(queue)

Handling(kinds) ==
    /\ device /\ queue # <<>> /\ Command.kind \in kinds
    /\ queue' = Tail(queue)
    /\ UNCHANGED <<wanted, sends>>

Done == UNCHANGED <<device, guard, bounds>>
Refused(n) ==
    /\ refusals + n <= MaxRefusals /\ refusals' = refusals + n
    /\ UNCHANGED <<device, guard, losses>>

\* What the buffer is with the audition's values put back.
Restored == All(audition_original, buf)

\* The audition is over and nothing of it is held.
AuditionOver ==
    /\ audition_original' = Nothing /\ audition' = None
    /\ UNCHANGED <<own, ownBase>>

Shows(b) == drafts' = b

\* The panel takes the whole tree again (refresh), or is told nothing of what a failed command
\* has written.
Refreshed == Shows(buf') /\ stale' = FALSE
Unsaid == UNCHANGED drafts /\ stale' = (stale \/ buf' # buf)

\* A history begun on the buffer as it is.  The edits still waiting were asked for over another.
BeginsAnew ==
    /\ stacks' = Blank /\ base' = buf'
    /\ spoiled' = FALSE /\ drifted' = FALSE
    /\ crossed' = \E i \in DOMAIN queue : i > 1 /\ queue[i].kind \in Quiet

\* Mutant: the later edit whole, its own before with it.
CoalescedWhole(first, later) == later

Coalesced(first, later) == [first EXCEPT !.value = later.value]

\* coalesce_live_edits: two edits of one node in a row become the later one.
Coalesce ==
    /\ device /\ Len(queue) > 1
    /\ Command.kind = "SetNode" /\ queue[2].kind = "SetNode" /\ queue[2].path = Command.path
    /\ queue' = <<Coalesced(Command, queue[2])>> \o SubSeq(queue, 3, Len(queue))
    /\ UNCHANGED <<pedal, session, work, burst, wanted, drafts, window, sends, bounds, ghosts, crossed>>

SetNode ==
    /\ Handling({"SetNode"})
    /\ LET p == Command.path
           before == Command.before
           value == Command.value
       IN /\ audition_original' = Remembered(p, before)
          \* An answer shown over a newer draft and the next edit asked for over it, or an edit
          \* that crossed a command.
          /\ drifted' = (drifted \/ before # buf[p])
          /\ \/ /\ Done
                /\ buf' = [buf EXCEPT ![p] = value] /\ Shows([drafts EXCEPT ![p] = value])
                /\ \/ before = value /\ UNCHANGED <<stacks, burst>>
                   \/ before # value /\ burst' = TRUE
                        /\ stacks' \in {Recorded(stacks, One(p, before, value))}
                                \cup (IF Merges(p) THEN {Merged(p, value)} ELSE {})
                /\ UNCHANGED <<spoiled, stale, crossed>>
             \/ /\ Refused(1)
                /\ buf' \in Strayed({p}, buf) /\ UNCHANGED <<stacks, burst>>
                /\ Shows([drafts EXCEPT ![p] = before]) /\ stale' = (stale \/ before # buf'[p])
                /\ spoiled' = (spoiled \/ buf' # buf)
                \* The next edit of the node was asked for over a value the pedal never had.
                /\ crossed' = (crossed \/ \E i \in DOMAIN queue : i > 1
                                 /\ queue[i].kind = "SetNode" /\ queue[i].path = p)
    /\ UNCHANGED <<stored, audition, window, own, ownBase, base>>

\* Mutant: the board shows the chain sent.
RoutedAsSent(value) == value

\* The chain the board shows is the one read back.
Routed(value) == Keep[value]

SetRouter ==
    /\ Handling({"SetRouter"}) /\ burst' = FALSE
    /\ LET before == Command.before
           after == Keep[Command.value]
       IN /\ drifted' = (drifted \/ before # buf[Router])
          /\ \/ /\ Done
                /\ buf' = [buf EXCEPT ![Router] = after]
                /\ Shows([drafts EXCEPT ![Router] = Routed(Command.value)])
                /\ audition_original' = Remembered(Router, before)
                /\ stacks' = IF after = before THEN stacks
                             ELSE Recorded(stacks, One(Router, before, after))
                /\ UNCHANGED <<spoiled, stale>>
             \* Refused, or written and the chain then not read back.
             \/ /\ Refused(1)
                /\ buf' \in {buf, [buf EXCEPT ![Router] = after]} /\ Unsaid
                /\ spoiled' = (spoiled \/ buf' # buf)
                /\ UNCHANGED <<audition_original, stacks>>
    /\ UNCHANGED <<stored, audition, window, own, ownBase, base, crossed>>

\* What a step of the history writes, what it wrote over, and where it goes.
Stepped(kind) == IF kind = "Undo" THEN stacks.undo ELSE stacks.redo
Targets(kind, t) == IF kind = "Undo" THEN Befores(t) ELSE Afters(t)
Moved(kind) ==
    IF kind = "Undo"
    THEN [undo |-> Pop(stacks.undo), redo |-> Append(stacks.redo, Top(stacks.undo))]
    ELSE [undo |-> Append(stacks.undo, Top(stacks.redo)), redo |-> Pop(stacks.redo)]

\* Mutant: the edits already written stay when one is refused.
Unreverted(kind, t, S, R, b) == Written(Targets(kind, t), S, b)

\* The edits of S written, and put back again but for those of R, refused in their turn.
Reverted(kind, t, S, R, b) ==
    Written(IF kind = "Undo" THEN Afters(t) ELSE Befores(t), S \ R, Written(Targets(kind, t), S, b))

StepHistory ==
    /\ Handling({"Undo", "Redo"}) /\ Stepped(Command.kind) # <<>> /\ burst' = FALSE
    /\ LET kind == Command.kind
           t == Top(Stepped(kind))
       IN \/ /\ Done
             /\ buf' = All(Targets(kind, t), buf) /\ Shows(All(Targets(kind, t), drafts))
             /\ stacks' = Moved(kind) /\ UNCHANGED <<spoiled, stale>>
          \* Refused for the node p, and the edits written before it put back but for those of R.
          \/ \E p \in DOMAIN t : \E S \in SUBSET (DOMAIN t \ {p}) :
             \E R \in SUBSET S : \E left \in SUBSET {p} :
                /\ Refused(1 + Cardinality(R))
                /\ buf' \in Strayed(R \cup left, Reverted(kind, t, S, R, buf)) /\ Unsaid
                \* What is put back is what the pedal had, where the history is of that.
                /\ spoiled' = (spoiled \/ left # {} \/ R # {} \/ (drifted /\ S # {}))
                /\ UNCHANGED stacks
    /\ UNCHANGED <<stored, audition_original, audition, window, own, ownBase, base, drifted, crossed>>

\* Some of an audition's values put back, and the next refused.
PartlyBack ==
    \E p \in DOMAIN audition_original : \E S \in SUBSET (DOMAIN audition_original \ {p}) :
        buf' \in Strayed({p}, Written(audition_original, S, buf))

\* restore_audition takes the whole list before it writes the first value.
PutBackRefused ==
    /\ Handling({"SelectPreset", "SavePreset", "EndAudition", "Disconnect"}) /\ burst' = FALSE
    /\ Command.kind = "SavePreset" => guard
    /\ Refused(1)
    /\ PartlyBack /\ Unsaid
    /\ audition_original' = Nothing /\ spoiled' = TRUE
    /\ UNCHANGED <<stored, audition, stacks, window, own, ownBase, base, drifted, crossed>>

SelectPreset ==
    /\ Handling({"SelectPreset"}) /\ burst' = FALSE
    /\ AuditionOver /\ SaysNone
    /\ \/ /\ Done
          /\ buf' \in Contents /\ stored' = buf'
          /\ BeginsAnew /\ Refreshed
       \* The pedal selected it and could not be read.
       \/ /\ Refused(1)
          /\ buf' \in Contents /\ stored' = buf'
          /\ BeginsAnew /\ Unsaid
       \* The pedal keeps the preset it has.  The stacks set aside are gone by then, and those of
       \* the tone stay.
       \/ /\ Refused(1)
          /\ buf' = Restored /\ Unsaid /\ spoiled' = (spoiled \/ audition # None)
          /\ UNCHANGED <<stored, stacks, base, drifted, crossed>>

\* Mutant: saved with the tone in its place.
SavedAsHeard == buf

\* What a save leaves in the buffer: the preset's own changes, never a tone.
Saved == Restored

SavePreset ==
    /\ Handling({"SavePreset"}) /\ guard /\ burst' = FALSE
    /\ AuditionOver /\ buf' = Saved
    /\ stacks' = TakenBack /\ base' = BaseBack
    /\ IF audition = None THEN UNCHANGED window ELSE SaysNone
    /\ \/ Done /\ stored' = buf' /\ Refreshed
       \* Refused, or saved and the pedal then not read.
       \/ Refused(1) /\ stored' \in {stored, buf'} /\ Unsaid
    /\ UNCHANGED <<spoiled, drifted, crossed>>

\* The audition could not be played: what it set aside is taken back.
Failed(key) ==
    /\ AuditionOver /\ stacks' = TakenBack /\ base' = BaseBack
    /\ playing' = 0 /\ heard' = IF heard \in {key, playing} THEN 0 ELSE heard
    /\ Unsaid

\* What a tone replaces.
Replaced(tone) == [p \in DOMAIN tone |-> Restored[p]]

Audition ==
    /\ Handling({"Audition"}) /\ wanted = Command.key /\ burst' = FALSE
    /\ LET tone == Command.tone
       IN \/ /\ Done
             /\ buf' = All(tone, Restored) /\ Refreshed /\ base' = buf'
             /\ audition_original' = Replaced(tone)
             /\ audition' = TakenBack /\ stacks' = Blank
             /\ own' = IF audition = None THEN buf ELSE own
             /\ ownBase' = BaseBack
             /\ playing' = Command.key /\ UNCHANGED <<heard, spoiled>>
          \* The tone before it could not be put back.
          \/ /\ Refused(1) /\ PartlyBack
             /\ Failed(Command.key) /\ spoiled' = TRUE
          \* The pedal could not be read, or refused a value of the tone: those written go back,
          \* but for those of R.
          \/ \E R \in SUBSET DOMAIN tone : \E left \in SUBSET DOMAIN tone :
                /\ Cardinality(left) <= 1 /\ Refused(IF R = {} THEN 1 ELSE 2)
                /\ buf' \in Strayed(R \cup left, Restored)
                /\ Failed(Command.key) /\ spoiled' = (spoiled \/ buf' # Restored)
    /\ UNCHANGED <<stored, drifted, crossed>>

EndAudition ==
    /\ Handling({"EndAudition"}) /\ burst' = FALSE
    /\ buf' = Restored /\ AuditionOver
    /\ stacks' = TakenBack /\ base' = BaseBack
    /\ \/ Done /\ Refreshed /\ SaysNone
       \* Put back, and the pedal then not read: nothing is said of it.
       \/ Refused(1) /\ Unsaid /\ UNCHANGED window
    /\ UNCHANGED <<stored, spoiled, drifted, crossed>>

\* What plays, as one step over the history set aside.
Differences ==
    LET D == {p \in DOMAIN audition_original : audition_original[p] # buf[p]}
    IN [p \in D |-> [before |-> audition_original[p], after |-> buf[p]]]

KeepAudition ==
    /\ Handling({"KeepAudition"}) /\ burst' = FALSE
    /\ \/ /\ Done /\ AuditionOver /\ SaysNone
          /\ stacks' = Recorded(TakenBack, Differences) /\ base' = BaseBack
          /\ UNCHANGED spoiled
       \* A value could not be read: none of them is held any more.
       \/ /\ Refused(1) /\ audition_original # Nothing
          /\ audition_original' = Nothing /\ spoiled' = TRUE
          /\ UNCHANGED <<audition, stacks, window, own, ownBase, base>>
    /\ UNCHANGED <<pedal, drafts, drifted, stale, crossed>>

Disconnect ==
    /\ Handling({"Disconnect"}) /\ burst' = FALSE
    /\ buf' = Restored /\ AuditionOver
    /\ device' = FALSE /\ guard' = FALSE
    /\ BeginsAnew
    /\ UNCHANGED <<stored, drafts, window, bounds, stale>>

----------------------------------------------------------------------------
(* Sessions lost and opened.                                                *)

\* What a command cut short may have left in the buffer.
LeftBy(c) ==
    LET back == {Written(audition_original, S, buf) : S \in SUBSET DOMAIN audition_original}
        Part(w, b) == {Written(w, S, b) : S \in SUBSET DOMAIN w}
    IN IF c.kind = "SetNode" THEN Part([p \in {c.path} |-> c.value], buf)
       ELSE IF c.kind = "SetRouter" THEN Part([p \in {Router} |-> c.value], buf)
       ELSE IF c.kind \in {"Undo", "Redo"} THEN
            IF Stepped(c.kind) = <<>> THEN {buf} ELSE Part(Targets(c.kind, Top(Stepped(c.kind))), buf)
       ELSE IF c.kind = "Audition" THEN
            IF wanted = c.key THEN back \cup Part(c.tone, Restored) ELSE {buf}
       ELSE IF c.kind = "KeepAudition" THEN {buf}
       ELSE back

\* An error that loses the session: what an audition replaced is forgotten with it.
SessionLost ==
    /\ Handling({"SetNode", "SetRouter", "Undo", "Redo", "SelectPreset", "SavePreset",
                 "Audition", "EndAudition", "KeepAudition", "Disconnect"})
    /\ losses < MaxLosses /\ losses' = losses + 1
    /\ device' = FALSE /\ guard' = FALSE
    /\ AuditionOver
    /\ buf' \in LeftBy(Command)
    /\ stored' \in {stored} \cup (IF Command.kind = "SavePreset" /\ buf' = Restored THEN {buf'} ELSE {})
    /\ IF Command.kind = "SetNode"
       THEN Shows([drafts EXCEPT ![Command.path] = Command.before]) /\ UNCHANGED <<window, stacks, burst>>
       ELSE /\ UNCHANGED drafts /\ burst' = FALSE
            /\ stacks' \in {stacks, TakenBack} \* of no use until the next session forgets them
            /\ IF Command.kind = "SelectPreset" THEN SaysNone
               ELSE IF Command.kind = "Audition"
               THEN playing' = 0 /\ heard' = IF heard \in {Command.key, playing} THEN 0 ELSE heard
               ELSE UNCHANGED window
    /\ UNCHANGED <<refusals, base, spoiled, drifted, stale, crossed>>

\* The pedal found: with the buffer it was left with, or switched off and on.
Connect ==
    /\ ~device /\ queue # <<>> /\ Command.kind = "Connect" /\ queue' = Tail(queue)
    /\ device' = TRUE /\ guard' \in BOOLEAN
    /\ buf' \in {buf, stored}
    /\ AuditionOver /\ BeginsAnew /\ Refreshed /\ burst' = FALSE
    /\ UNCHANGED <<stored, wanted, sends, window, bounds>>

\* A command that finds no pedal, and those that do nothing: an audition no longer wanted,
\* an empty history, a save with no rollback.
PassesOver ==
    /\ queue # <<>> /\ queue' = Tail(queue)
    /\ \/ ~device
       \/ Command.kind = "Audition" /\ wanted # Command.key
       \/ Command.kind \in {"Undo", "Redo"} /\ Stepped(Command.kind) = <<>>
       \/ Command.kind = "SavePreset" /\ ~guard
    /\ burst' = (burst /\ Command.kind = "SetNode")
    /\ IF Command.kind = "Audition" /\ wanted = Command.key
       THEN playing' = 0 /\ heard' = IF heard \in {Command.key, playing} THEN 0 ELSE heard
       ELSE IF Command.kind \in {"SelectPreset", "KeepAudition"} THEN SaysNone
       ELSE UNCHANGED window
    /\ stacks' = IF Command.kind = "Disconnect" THEN Blank ELSE stacks
    /\ UNCHANGED <<pedal, session, audition_original, audition, wanted, drafts, sends, bounds, ghosts,
                   crossed>>

Next ==
    \/ \E kind \in {"Disconnect", "Undo", "Redo", "SelectPreset", "SavePreset"} : Ask(kind)
    \/ AskConnect
    \/ \E p \in Paths, v \in Values : SendEdit(p, v)
    \/ \E v \in Values : Route(v)
    \/ \E tone \in Tones : Play(tone)
    \/ PutBack \/ KeepHeard \/ Withdraw
    \/ Coalesce \/ SetNode \/ SetRouter \/ StepHistory
    \/ PutBackRefused \/ SelectPreset \/ SavePreset \/ Audition \/ EndAudition \/ KeepAudition
    \/ Disconnect \/ SessionLost \/ Connect \/ PassesOver

Spec == Init /\ [][Next]_vars

----------------------------------------------------------------------------
(* Properties                                                               *)

\* Nothing was left half done, and no edit that crossed a command met another value than it was
\* asked for over.
Whole == ~spoiled /\ ~(crossed /\ drifted)

\* While a tone plays, what the worker holds to put back, put over what the pedal plays,
\* is the preset as the first audition found it, its edits included.
PutBackOwed == audition # None => Restored = own

\* What undoing everything leaves: the first value before of every node edited.
Unwound(steps, b) ==
    [p \in Paths |->
        LET touching == {i \in DOMAIN steps : p \in DOMAIN steps[i]}
        IN IF touching = {} THEN b[p]
           ELSE steps[CHOOSE i \in touching : \A j \in touching : i <= j][p].before]

\* Undoing every step of the history leads back to the buffer as it was when the history
\* began, and so does that of the history an audition set aside, from what it set aside.
UndoneIsBase ==
    device =>
        /\ Unwound(stacks.undo, buf) = base
        /\ audition # None => Unwound(audition.undo, own) = ownBase

\* What the worker remembers leads back: Put back to the preset as it was, Undo to where the
\* history began (remember, coalesce, take_back).
LeadsBack == Whole => PutBackOwed /\ UndoneIsBase

\* The same with the edits asked for across a command that met another value.
LeadsBackAcross == ~spoiled => PutBackOwed /\ UndoneIsBase

\* With nothing on its way, the panel shows what the pedal plays, but for what a command that
\* failed has written and not told of.
ShownIsPlayed == device /\ queue = <<>> /\ ~stale => drafts = buf

\* The same after a command that has written and failed, a tone that could not be played too.
ShownAfterAll == device /\ queue = <<>> /\ ~spoiled => drafts = buf

\* A put back that is answered leaves the buffer and the stacks as the audition found them.
PutsBackExactly == audition # None /\ audition' = None /\ Command.kind = "EndAudition" /\ device'
                    => buf' = own /\ stacks' = audition
PutBackIsExact == [][PutsBackExactly]_vars

\* The preset's own buffer outlives its auditions: a save stores it, never a tone auditioned
\* over it, and a put back that is answered restores it (save_preset, restore_audition).
OwnSurvives ==
    [][Whole' =>
        /\ PutsBackExactly
        /\ stored' # stored /\ Command.kind = "SavePreset"
            => stored' = IF audition = None THEN buf ELSE own]_vars

\* An undo or redo refused once leaves the buffer, the stacks and what is shown as they were,
\* unless the pedal took the value it was refused with or the history has an edit over a value
\* the pedal did not have.
RefusedStepUndone ==
    [][queue # <<>> /\ Command.kind \in {"Undo", "Redo"} /\ refusals' = refusals + 1 /\ ~spoiled'
        => UNCHANGED <<buf, stacks, drafts>>]_vars
=============================================================================
