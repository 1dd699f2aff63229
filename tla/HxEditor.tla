------------------------------ MODULE HxEditor ------------------------------
(***************************************************************************)
(* The editor's worker thread (crates/tonepush-gui/src/session.rs, Worker): *)
(* what it keeps about the pedal's edit buffer - undo and redo stacks, the  *)
(* unsaved flag, a tone being auditioned, a model being tried, the preset   *)
(* it shows - while commands, losses of the session and the pedal's own     *)
(* footswitches change that buffer.                                         *)
(*                                                                          *)
(* A command is a few steps of pc: the trial kept and the audition put back *)
(* that handle() does first, the command, and the reload that ends many of  *)
(* them.  A request is answered within the step; HxSession and HxDeferred   *)
(* model what is underneath.                                                *)
(***************************************************************************)
EXTENDS Naturals, Sequences

CONSTANTS
    Presets,      \* the slots of the setlist shown
    Texts,        \* what distinguishes two versions of a document
    None,         \* no audition, no trial
    MaxHistory,   \* bound of the undo history (32 in the code)
    Commands,     \* bound: the kinds of command submitted
    Troubles      \* "refuse": a request may fail and the session be kept; "lose": the session may be
                  \* lost; "panel": the pedal's footswitches may load another preset

\* A document: the preset whose buffer it was read from or written for, its
\* version, and whether it is a tone being auditioned.
Docs == [home : Presets, text : Texts, tone : BOOLEAN]

Kinds == {"Select", "SwitchSaving", "Save", "LoadDocument", "LoadSteps", "Paste",
          "Undo", "Redo", "EditDocument", "InsertBlock", "SetParam", "SetModel",
          "ClearBlock", "SelectSnapshot", "AuditionDocument", "AuditionSteps", "EndAudition",
          "KeepAudition", "TryModel", "PutBack", "KeepTry", "Disconnect"}

\* The commands that name a preset to go to.
Going == {"Select", "SwitchSaving", "LoadDocument", "LoadSteps"}

\* Mutant: a save is not among them.
EndsAuditionSavesOver ==
    {"Select", "SwitchSaving", "LoadDocument", "LoadSteps", "Paste", "Disconnect"}

\* ends_audition: what puts an audition back before it runs.
EndsAudition ==
    {"Select", "SwitchSaving", "Save", "LoadDocument", "LoadSteps", "Paste", "Disconnect"}

ASSUME EditorAssumption ==
    /\ MaxHistory \in Nat \ {0}
    /\ Commands \subseteq Kinds
    /\ Troubles \subseteq {"refuse", "lose", "panel"}

\* No audition is told from an audition.
ASSUME NoneAssumption ==
    None \notin [original : Docs, dirty : BOOLEAN, history : Seq(Docs), future : Seq(Docs),
                 taken : BOOLEAN]

VARIABLES
    loaded, buffer, stored,   \* the pedal: preset loaded, edit buffer, presets in flash
    announced,                \* the pedal: a switch of its own not yet polled
    missed,                   \* ghost: an announcement was thrown away unread, and the pedal has
                              \* not been asked since which preset is loaded
    device,                   \* whether the worker holds a session
    history, future,          \* undo and redo stacks, newest last
    taken,                    \* snapshot_taken: this burst of edits has its undo step
    dirty,                    \* the worker's unsaved flag
    shown,                    \* the preset the worker takes to be loaded
    recheck,                  \* ask again which preset is loaded
    audition, trial,          \* what an audition, a try of models, has set aside
    pc, cmd,                  \* the step of the command being handled, and the command
    seen,                     \* what the request before answered
    carried,                  \* ghost: the buffer was unsaved before this session opened
    aside                     \* ghost: buffer, flag and stacks as an audition found them

pedalVars == <<loaded, buffer, stored, announced, missed>>
stacks == <<history, future, taken, dirty>>
asideVars == <<audition, trial, aside>>
shownVars == <<shown, recheck, seen>>
vars == <<pedalVars, device, stacks, shownVars, asideVars, pc, cmd, carried>>

TypeOK ==
    /\ loaded \in Presets /\ buffer \in Docs /\ stored \in [Presets -> Docs]
    /\ announced \in BOOLEAN /\ missed \in BOOLEAN /\ device \in BOOLEAN /\ taken \in BOOLEAN /\ dirty \in BOOLEAN
    /\ recheck \in BOOLEAN /\ carried \in BOOLEAN
    /\ history \in Seq(Docs) /\ future \in Seq(Docs)
    /\ Len(history) + Len(future) <= MaxHistory
    /\ shown \in Presets \cup {None}
    /\ seen \in Docs \/ seen \in Presets \cup {None}
    /\ audition = None \/ audition.original \in Docs
    /\ trial = None \/ trial.original \in Docs
    /\ pc \in {"idle", "putback", "run", "commit", "select", "load", "undo", "end", "read", "ask"}
    /\ cmd = None \/ (cmd.kind \in Kinds /\ cmd.to \in Presets \cup {None})

\* The pedal may be switched on with unsaved changes from its own panel.
Init ==
    /\ loaded \in Presets
    /\ stored \in [Presets -> Docs]
    /\ \A p \in Presets : stored[p].home = p /\ ~stored[p].tone
    /\ buffer \in {[stored[loaded] EXCEPT !.text = t] : t \in Texts}
    /\ announced = FALSE /\ missed = FALSE /\ device = FALSE
    /\ history = <<>> /\ future = <<>> /\ taken = FALSE /\ dirty = FALSE
    /\ shown = None /\ recheck = FALSE /\ seen = None
    /\ audition = None /\ trial = None /\ aside = None
    /\ pc = "idle" /\ cmd = None /\ carried = FALSE

----------------------------------------------------------------------------
(* Helpers                                                                  *)

Top(stack) == stack[Len(stack)]
Pop(stack) == SubSeq(stack, 1, Len(stack) - 1)

\* Mutant: the bound forgotten.
PushUnbounded(stack, doc) == Append(stack, doc)

\* history.push and the bound that drops the oldest.
Push(stack, doc) ==
    LET longer == Append(stack, doc)
    IN IF Len(longer) > MaxHistory THEN Tail(longer) ELSE longer

\* A version of the buffer an edit makes; it stays part of an audition.
Edited == \E t \in Texts : t # buffer.text /\ buffer' = [buffer EXCEPT !.text = t]

\* A whole document written to the buffer, for the preset of that name.
Wrote(preset, tone) ==
    \E t \in Texts : buffer' = [home |-> preset, text |-> t, tone |-> tone]

\* The command goes on, or is done.
Goes(next) == pc' = next /\ cmd' = IF next = "idle" THEN None ELSE cmd

Refusing == "refuse" \in Troubles

Running(kind) == device /\ pc = "run" /\ cmd.kind = kind

ForgetHistory == history' = <<>> /\ future' = <<>> /\ taken' = FALSE

\* The pedal stores the buffer in the slot a save named.
Saved == pc = "commit" /\ stored' = [stored EXCEPT ![seen] = buffer]

\* let_go: the stacks stay but nothing uses them before the next connection.
LetGo ==
    /\ device' = FALSE /\ audition' = None /\ trial' = None /\ aside' = None
    /\ Goes("idle")
    /\ seen' = None
    /\ UNCHANGED <<stacks, shown, recheck, carried>>

\* The pedal loads a preset.
Loads(preset) == loaded' = preset /\ buffer' = stored[preset]

\* Whole documents go out as deferred requests (HxDeferred): an announcement in the
\* reader is forgotten before one is sent, or taken up by its completion wait.
DropsNews ==
    /\ announced' \in {announced, FALSE}
    /\ missed' = (missed \/ announced # announced')

\* A select is one too, and polls until the pedal says it is there: announcements,
\* its own among them, are thrown away or come later.
Selects(preset) == Loads(preset) /\ announced' \in BOOLEAN

\* read_settled gives a refusing pedal three chances, then lets go of it.
ReadSettledFails == Refusing /\ LetGo /\ UNCHANGED pedalVars

SetAside ==
    [original |-> buffer, dirty |-> dirty, history |-> history, future |-> future, taken |-> taken]

Displaced == [original |-> buffer, dirty |-> dirty, history |-> history, future |-> future]

----------------------------------------------------------------------------
(* Connecting, losing the session, and the pedal's own doings               *)

\* opened: a clean slate, then a reload.  What the buffer holds by then, the
\* tone a lost session was auditioning included, is the sound of the preset.
Connect ==
    /\ ~device /\ pc = "idle"
    /\ device' = TRUE
    /\ ForgetHistory /\ dirty' = FALSE
    /\ audition' = None /\ trial' = None /\ aside' = None
    /\ carried' = (buffer.text # stored[loaded].text)
    /\ buffer' = [buffer EXCEPT !.tone = FALSE]
    /\ announced' = FALSE /\ missed' = FALSE /\ recheck' \in {recheck, FALSE}
    /\ Goes("read")
    /\ UNCHANGED <<loaded, stored, shown, seen>>

\* A transport error in any command or poll; the request that met it may have
\* been carried out all the same.
Lose ==
    /\ "lose" \in Troubles /\ device
    /\ LetGo
    /\ \/ UNCHANGED <<loaded, buffer, stored>>
       \/ /\ pc \in {"putback", "run", "load", "undo", "end"}
          /\ \E t \in Texts : buffer' = [buffer EXCEPT !.text = t]
          /\ UNCHANGED <<loaded, stored>>
       \/ /\ pc \in {"run", "select"} /\ cmd.kind \in Going
          /\ loaded' = cmd.to /\ buffer' = stored[cmd.to]
          /\ UNCHANGED stored
       \/ Saved /\ UNCHANGED <<loaded, buffer>>
    /\ UNCHANGED <<announced, missed>>

\* Disconnect, its audition put back or not.
Disconnect == Running("Disconnect") /\ LetGo /\ UNCHANGED pedalVars

\* The pedal loads a preset by itself and announces it.
PanelSwitch ==
    /\ "panel" \in Troubles /\ device
    /\ \E p \in Presets : p # loaded /\ Loads(p)
    /\ announced' = TRUE
    /\ UNCHANGED <<missed, stored, device, stacks, shownVars, asideVars, pc, cmd, carried>>

----------------------------------------------------------------------------
(* handle(): what comes before any command                                  *)

\* keep_try: the preset from before the first try is the next undo step.
KeptTrial ==
    /\ history' = Push(trial.history, trial.original)
    /\ future' = <<>> /\ taken' = FALSE /\ trial' = None
    /\ UNCHANGED <<dirty, audition, aside>>

Submit ==
    /\ device /\ pc = "idle"
    /\ \E kind \in Commands, to \in Presets \cup {None} :
        /\ to # None <=> kind \in Going
        /\ cmd' = [kind |-> kind, to |-> to]
        /\ IF trial # None /\ kind \notin {"TryModel", "PutBack"}
           THEN KeptTrial
           ELSE UNCHANGED <<stacks, asideVars>>
        /\ pc' = IF audition # None /\ kind \in EndsAudition THEN "putback" ELSE "run"
    /\ UNCHANGED <<pedalVars, device, shownVars, carried>>

\* end_audition: write back what was set aside and reinstate the stacks; a
\* refusal holds on to it.
EndAudition ==
    /\ (device /\ pc \in {"putback", "end"}) \/ Running("EndAudition")
    /\ Goes(IF pc = "putback" THEN "run" ELSE "idle")
    /\ \/ /\ audition # None
          /\ buffer' = audition.original
          /\ dirty' = audition.dirty
          /\ history' = audition.history /\ future' = audition.future
          /\ taken' = audition.taken
          /\ audition' = None /\ aside' = None
          /\ DropsNews
          /\ UNCHANGED <<loaded, stored, shown, recheck, seen, trial>>
       \/ /\ audition # None /\ Refusing
          /\ DropsNews
          /\ UNCHANGED <<loaded, buffer, stored, stacks, shownVars, asideVars>>
       \/ /\ audition = None
          /\ UNCHANGED <<pedalVars, stacks, shownVars, asideVars>>
    /\ UNCHANGED <<device, carried>>

----------------------------------------------------------------------------
(* Selecting, saving and loading                                            *)

\* Mutant: the stacks outlive the preset they were recorded on.
SelectKeepsHistory ==
    /\ Running("Select") \/ (device /\ pc = "select")
    /\ \/ /\ Selects(cmd.to)
          /\ UNCHANGED <<history, future, taken>> /\ dirty' = FALSE /\ carried' = FALSE
       \/ Refusing /\ UNCHANGED <<loaded, buffer, announced, stacks, carried>>
    /\ Goes("read")
    /\ UNCHANGED <<missed, stored, device, shownVars, asideVars>>

\* select: the history belonged to the preset left behind.  What it threw away unread the
\* reload asks for.
Select ==
    /\ Running("Select") \/ (device /\ pc = "select")
    /\ \/ /\ Selects(cmd.to)
          /\ ForgetHistory /\ dirty' = FALSE /\ carried' = FALSE
       \/ /\ Refusing /\ announced' \in {announced, FALSE}
          /\ UNCHANGED <<loaded, buffer, stacks, carried>>
    /\ Goes("read")
    /\ UNCHANGED <<missed, stored, device, shownVars, asideVars>>

\* save, first request: which preset is loaded.
SaveAsk ==
    /\ Running("Save") \/ Running("SwitchSaving")
    /\ \/ Goes("commit") /\ seen' = loaded
       \/ Refusing /\ Goes(IF cmd.kind = "Save" THEN "idle" ELSE "read") /\ UNCHANGED seen
    /\ UNCHANGED <<pedalVars, device, stacks, shown, recheck, asideVars, carried>>

\* save, second request: whatever the edit buffer holds goes to that slot.
SaveCommit ==
    /\ device /\ pc = "commit"
    /\ seen' = None
    /\ \/ /\ Saved
          /\ dirty' = FALSE /\ taken' = FALSE /\ carried' = FALSE
          /\ Goes(IF cmd.kind = "Save" THEN "idle" ELSE "select")
       \/ /\ Refusing
          /\ Goes(IF cmd.kind = "Save" THEN "idle" ELSE "read")
          /\ UNCHANGED <<stored, dirty, taken, carried>>
    /\ UNCHANGED <<loaded, buffer, announced, missed, device, history, future, shown, recheck, asideVars>>

\* adopt: a preset other than the one on screen takes everything with it.
Adopt ==
    /\ shown' = loaded'
    /\ IF loaded' # shown
       THEN /\ ForgetHistory /\ dirty' = FALSE
            /\ audition' = None /\ trial' = None /\ aside' = None
       ELSE UNCHANGED <<history, future, dirty, audition, trial, aside>>

\* go_to: a load lands on its destination, not on the open preset.
GoTo ==
    /\ Running("LoadDocument") \/ Running("LoadSteps")
    /\ \/ /\ loaded = cmd.to
          /\ Goes("load")
          /\ UNCHANGED <<loaded, buffer, announced, missed, stacks, shown, asideVars, carried>>
       \/ /\ loaded # cmd.to \/ Refusing
          /\ Selects(cmd.to)
          /\ ForgetHistory /\ dirty' = FALSE /\ carried' = FALSE
          /\ Goes("load")
          /\ \/ /\ shown' = cmd.to /\ missed' = FALSE
                /\ IF cmd.to # shown
                   THEN audition' = None /\ trial' = None /\ aside' = None
                   ELSE UNCHANGED asideVars
             \/ Refusing /\ UNCHANGED <<missed, shown, asideVars>>
       \/ /\ Refusing /\ Goes("read") /\ announced' \in {announced, FALSE}
          /\ UNCHANGED <<loaded, buffer, missed, stacks, shown, asideVars, carried>>
    /\ UNCHANGED <<stored, device, recheck, seen>>

\* record_history: the buffer as it stands, unless the pedal will not say.
Recorded == history' = Push(history, buffer) /\ future' = <<>>
Unrecorded == Refusing /\ UNCHANGED <<history, future>>

\* paste: a whole document, with its undo step.  A write that is refused takes
\* the step back, but not the redo steps it cleared; an unreadable document is no
\* write at all.
Paste ==
    /\ Running("Paste") \/ (device /\ pc = "load" /\ cmd.kind = "LoadDocument")
    /\ \/ /\ Recorded \/ Unrecorded
          /\ Wrote(IF cmd.to = None THEN loaded ELSE cmd.to, FALSE)
          /\ dirty' = TRUE /\ taken' = FALSE
          /\ DropsNews /\ Goes("idle")
       \/ /\ \/ /\ Refusing /\ DropsNews
                /\ \/ history' = Pop(Push(history, buffer)) /\ future' = <<>>
                   \/ UNCHANGED <<history, future>>
             \/ UNCHANGED <<announced, missed, history, future>>
          /\ Goes(IF cmd.kind = "Paste" THEN "idle" ELSE "read")
          /\ UNCHANGED <<buffer, dirty, taken>>
    /\ UNCHANGED <<loaded, stored, device, shown, recheck, seen, asideVars, carried>>

\* load_steps: the chain is cleared and built block by block.  A tone with too
\* many blocks stops half way and is undone, if there is a step to undo.
Rebuilt ==
    \/ /\ Recorded \/ Unrecorded
       /\ Wrote(cmd.to, FALSE)
       /\ dirty' = TRUE /\ Goes("read")
    \/ /\ Edited \/ UNCHANGED buffer
       /\ \/ Recorded /\ Goes("undo")
          \/ Unrecorded /\ Goes("idle")
       /\ UNCHANGED dirty

LoadSteps ==
    /\ device /\ pc = "load" /\ cmd.kind = "LoadSteps"
    /\ \/ /\ Rebuilt
          /\ UNCHANGED <<loaded, stored, announced, missed, device, taken, shownVars, asideVars, carried>>
       \/ ReadSettledFails

----------------------------------------------------------------------------
(* Editing                                                                  *)

\* Mutant: an undo is no change.
UndoUnmarked ==
    /\ Running("Undo") \/ (device /\ pc = "undo")
    /\ Goes("idle")
    /\ \/ /\ history # <<>> /\ DropsNews
          /\ buffer' = Top(history)
          /\ history' = Pop(history) /\ future' = Append(future, buffer)
          /\ taken' = FALSE /\ UNCHANGED dirty
       \/ history # <<>> /\ Refusing /\ DropsNews /\ UNCHANGED <<buffer, stacks>>
       \/ history = <<>> /\ UNCHANGED <<announced, missed, buffer, stacks>>
    /\ UNCHANGED <<loaded, stored, device, shown, recheck, seen, asideVars, carried>>

\* step_history, back.
Undo ==
    /\ Running("Undo") \/ (device /\ pc = "undo")
    /\ Goes("idle")
    /\ \/ /\ history # <<>> /\ DropsNews
          /\ buffer' = Top(history)
          /\ history' = Pop(history) /\ future' = Append(future, buffer)
          /\ dirty' = TRUE /\ taken' = FALSE
       \/ history # <<>> /\ Refusing /\ DropsNews /\ UNCHANGED <<buffer, stacks>>
       \/ history = <<>> /\ UNCHANGED <<announced, missed, buffer, stacks>>
    /\ UNCHANGED <<loaded, stored, device, shown, recheck, seen, asideVars, carried>>

\* step_history, forward.
Redo ==
    /\ Running("Redo")
    /\ Goes("idle")
    /\ \/ /\ future # <<>> /\ DropsNews
          /\ buffer' = Top(future)
          /\ future' = Pop(future) /\ history' = Append(history, buffer)
          /\ dirty' = TRUE /\ taken' = FALSE
       \/ future # <<>> /\ Refusing /\ DropsNews /\ UNCHANGED <<buffer, stacks>>
       \/ future = <<>> /\ UNCHANGED <<announced, missed, buffer, stacks>>
    /\ UNCHANGED <<loaded, stored, device, shown, recheck, seen, asideVars, carried>>

\* edit_document: read, change, write, and the old document is an undo step.
\* A change that does not fit is not one.
EditDocument ==
    /\ Running("EditDocument")
    /\ \/ /\ Edited
          /\ Recorded
          /\ dirty' = TRUE /\ taken' = FALSE
          /\ DropsNews /\ Goes("idle")
          /\ UNCHANGED <<loaded, stored, device, shown, recheck, seen, asideVars, carried>>
       \/ /\ Goes("idle")
          /\ (Refusing /\ DropsNews) \/ UNCHANGED <<announced, missed>>
          /\ UNCHANGED <<loaded, buffer, stored, device, stacks, shownVars, asideVars, carried>>
       \/ ReadSettledFails

\* InsertBlock: a slide of the blocks, then the model; a model refused after
\* the slide has the document written back, which may be refused too.  A full
\* row, and a refusal before anything was written, change nothing.
Inserted ==
    \/ /\ Edited /\ Recorded /\ dirty' = TRUE /\ Goes("read")
       /\ DropsNews
    \/ /\ Refusing
       /\ Edited \/ UNCHANGED buffer
       /\ Goes("read") /\ DropsNews /\ UNCHANGED <<history, future, dirty>>
    \/ /\ Goes("idle") /\ UNCHANGED <<buffer, history, future, dirty>>
       /\ (Refusing /\ DropsNews) \/ UNCHANGED <<announced, missed>>

InsertBlock ==
    /\ Running("InsertBlock")
    /\ \/ /\ Inserted
          /\ UNCHANGED <<loaded, stored, device, taken, shownVars, asideVars, carried>>
       \/ ReadSettledFails

\* snapshot(): one undo step for a burst of edits.
Snapshot ==
    \/ taken /\ UNCHANGED <<history, future, taken>>
    \/ ~taken /\ Recorded /\ taken' = TRUE
    \/ ~taken /\ Refusing /\ UNCHANGED <<history, future, taken>>

\* A knob, a bypass, an assignment; SetModel and the like reload afterwards.
SetParam ==
    /\ Running("SetParam") \/ Running("SetModel")
    /\ Snapshot
    /\ \/ /\ Edited /\ dirty' = TRUE
          /\ Goes(IF cmd.kind = "SetModel" THEN "read" ELSE "idle")
       \/ Refusing /\ Goes("idle") /\ UNCHANGED <<buffer, dirty>>
    /\ UNCHANGED <<loaded, stored, announced, missed, device, shownVars, asideVars, carried>>

\* Removing a block has an undo step of its own, taken back if it is refused.
ClearBlock ==
    /\ Running("ClearBlock")
    /\ \/ /\ Recorded \/ Unrecorded
          /\ Edited /\ dirty' = TRUE /\ Goes("read")
       \/ /\ Refusing /\ Goes("idle") /\ UNCHANGED <<buffer, dirty>>
          /\ \/ history' = Pop(Push(history, buffer)) /\ future' = <<>>
             \/ UNCHANGED <<history, future>>
    /\ UNCHANGED <<loaded, stored, announced, missed, device, taken, shownVars, asideVars, carried>>

SelectSnapshot ==
    /\ Running("SelectSnapshot")
    /\ Goes("read")
    /\ UNCHANGED <<pedalVars, device, stacks, shownVars, asideVars, carried>>

----------------------------------------------------------------------------
(* Auditions and tries                                                      *)

\* Mutant: each tone sets aside what the one before it left.
BegunAgain ==
    audition' = SetAside /\ aside' = IF audition = None THEN Displaced ELSE aside

\* begin_audition: set the buffer and its undo state aside, once.
Begun ==
    IF audition # None
    THEN UNCHANGED <<audition, aside>>
    ELSE audition' = SetAside /\ aside' = Displaced

\* audition_document: play a tone.  The edits made to the tone before it go
\* with it; a refusal after the buffer was set aside leaves it set aside.
AuditionDocument ==
    /\ Running("AuditionDocument")
    /\ \/ /\ Begun
          /\ Wrote(loaded, TRUE)
          /\ dirty' = FALSE /\ ForgetHistory
          /\ DropsNews
       \/ /\ Refusing /\ Begun
          /\ IF audition = None THEN ForgetHistory ELSE UNCHANGED <<history, future, taken>>
          /\ DropsNews /\ UNCHANGED <<buffer, dirty>>
       \/ UNCHANGED <<announced, missed, buffer, stacks, audition, aside>>
    /\ Goes("idle")
    /\ UNCHANGED <<loaded, stored, device, shown, recheck, seen, trial, carried>>

\* audition_steps: the same, built block by block; one that stops half way is
\* put back.
Auditioned ==
    \/ /\ Begun
       /\ Wrote(loaded, TRUE)
       /\ dirty' = FALSE /\ ForgetHistory
       /\ Goes("idle")
    \/ /\ Begun
       /\ IF audition = None THEN ForgetHistory ELSE UNCHANGED <<history, future, taken>>
       /\ Wrote(loaded, TRUE)
       /\ Goes("end")
       /\ UNCHANGED <<dirty>>
    \/ /\ Refusing /\ audition = None
       /\ Goes("idle")
       /\ UNCHANGED <<buffer, stacks, audition, aside>>

AuditionSteps ==
    /\ Running("AuditionSteps")
    /\ \/ /\ Auditioned
          /\ UNCHANGED <<loaded, stored, announced, missed, device, shown, recheck, seen, trial, carried>>
       \/ ReadSettledFails

\* keep_audition: the displaced document is the next undo step.
KeepAudition ==
    /\ Running("KeepAudition")
    /\ \/ /\ audition # None
          /\ history' = Push(audition.history, audition.original)
          /\ future' = <<>> /\ taken' = FALSE /\ dirty' = TRUE
          /\ buffer' = [buffer EXCEPT !.tone = FALSE]
          /\ audition' = None /\ aside' = None
          /\ Goes("idle")
          /\ UNCHANGED <<loaded, stored, announced, missed, device, shown, recheck, seen, trial, carried>>
       \/ /\ audition = None /\ Goes("idle")
          /\ UNCHANGED <<pedalVars, device, stacks, shownVars, asideVars, carried>>
       \/ audition # None /\ ReadSettledFails

\* try_model: the first try sets the preset aside with its undo state.
TryModel ==
    /\ Running("TryModel")
    /\ \/ /\ IF trial # None
             THEN UNCHANGED <<trial, history, future>>
             ELSE trial' = SetAside /\ history' = <<>> /\ future' = <<>>
          /\ \/ Edited /\ dirty' = TRUE /\ Goes("read")
             \/ Refusing /\ Goes("idle") /\ UNCHANGED <<buffer, dirty>>
       \/ /\ trial = None /\ Refusing /\ Goes("idle")
          /\ UNCHANGED <<trial, history, future, buffer, dirty>>
    /\ UNCHANGED <<loaded, stored, announced, missed, device, taken, shownVars, audition, aside, carried>>

\* put_back: what the tries displaced, and its undo state.
PutBack ==
    /\ Running("PutBack")
    /\ Goes("idle")
    /\ \/ /\ trial # None
          /\ buffer' = trial.original
          /\ dirty' = trial.dirty
          /\ history' = trial.history /\ future' = trial.future /\ taken' = trial.taken
          /\ trial' = None /\ DropsNews
       \/ trial # None /\ Refusing /\ DropsNews /\ UNCHANGED <<buffer, stacks, trial>>
       \/ trial = None /\ UNCHANGED <<announced, missed, buffer, stacks, trial>>
    /\ UNCHANGED <<loaded, stored, device, shown, recheck, seen, audition, aside, carried>>

\* keep_try has run in Submit already.
KeepTry ==
    /\ Running("KeepTry")
    /\ Goes("idle")
    /\ UNCHANGED <<pedalVars, device, stacks, shownVars, asideVars, carried>>

----------------------------------------------------------------------------
(* Looking at the pedal                                                     *)

\* reload, first request: the document.
ReloadRead ==
    /\ device /\ pc = "read"
    /\ \/ /\ seen' = buffer /\ Goes("ask")
          /\ UNCHANGED <<pedalVars, device, stacks, shown, recheck, asideVars, carried>>
       \/ ReadSettledFails

\* reload, second request: which preset it belongs to.
ReloadAsk ==
    /\ device /\ pc = "ask"
    /\ Goes("idle") /\ seen' = None
    /\ UNCHANGED loaded
    /\ \/ Adopt /\ taken' = FALSE /\ missed' = FALSE
       \/ Refusing /\ UNCHANGED <<missed, stacks, shown, asideVars>>
    /\ UNCHANGED <<buffer, stored, announced, device, recheck, carried>>

\* Mutant: a preset with unsaved changes stays on screen.
PollKeepsEdits ==
    /\ device /\ pc = "idle" /\ (announced \/ recheck)
    /\ announced' = FALSE
    /\ \/ /\ recheck' = FALSE /\ missed' = FALSE
          /\ Goes(IF loaded # shown /\ ~dirty THEN "read" ELSE "idle")
       \/ Refusing /\ recheck' = TRUE /\ UNCHANGED <<missed, pc, cmd>>
    /\ UNCHANGED <<loaded, buffer, stored, device, stacks, shown, seen, asideVars, carried>>

\* poll and follow_preset: after an announcement the pedal is asked which
\* preset is loaded, and another than the one shown is reloaded.
Poll ==
    /\ device /\ pc = "idle" /\ (announced \/ recheck)
    /\ announced' = FALSE
    /\ \/ /\ recheck' = FALSE /\ missed' = FALSE
          /\ Goes(IF loaded # shown THEN "read" ELSE "idle")
       \/ Refusing /\ recheck' = TRUE /\ UNCHANGED <<missed, pc, cmd>>
    /\ UNCHANGED <<loaded, buffer, stored, device, stacks, shown, seen, asideVars, carried>>

----------------------------------------------------------------------------

Next ==
    \/ Connect \/ Lose \/ Disconnect \/ PanelSwitch
    \/ Submit \/ EndAudition
    \/ Select \/ SaveAsk \/ SaveCommit \/ GoTo \/ Paste \/ LoadSteps
    \/ Undo \/ Redo \/ EditDocument \/ InsertBlock \/ SetParam \/ ClearBlock \/ SelectSnapshot
    \/ AuditionDocument \/ AuditionSteps \/ KeepAudition
    \/ TryModel \/ PutBack \/ KeepTry
    \/ ReloadRead \/ ReloadAsk \/ Poll

Spec == Init /\ [][Next]_vars

----------------------------------------------------------------------------
(* Correctness                                                              *)

\* Every document kept to be written back later.
Kept ==
    {history[i] : i \in DOMAIN history} \cup {future[i] : i \in DOMAIN future}
    \cup (IF audition = None THEN {} ELSE {audition.original})
    \cup (IF trial = None THEN {} ELSE {trial.original})

\* Undo, Put back and the end of an audition write a document of the preset
\* that is loaded, never one preset's document over another's ("Kept across a
\* switch, undo would write the previous preset's document over the new one",
\* select).
KeptIsLoaded == device => \A doc \in Kept : doc.home = loaded

\* An unsaved change made in this session is never taken for saved, as long as
\* the pedal refuses nothing: whatever sets the buffer sets Worker.dirty, and
\* what resets it has saved or left that buffer.
CleanIsStored ==
    device /\ pc = "idle" /\ audition = None /\ ~dirty /\ ~carried
        => buffer.text = stored[loaded].text

\* The unsaved flag is off only when the buffer is what is stored ("Whether the
\* edit buffer differs from the stored preset", Worker.dirty).
DirtyIsTruth ==
    device /\ pc = "idle" /\ audition = None /\ ~dirty => buffer.text = stored[loaded].text

\* With nothing announced and nothing under way, the editor has the pedal's
\* preset on screen, however the switches of the two crossed (follow_preset);
\* unless the announcement was thrown away by a request that writes a document, and
\* the pedal not asked again since.
FollowsPedal ==
    device /\ pc = "idle" /\ ~announced /\ ~recheck /\ ~missed => shown = loaded

\* What follow_preset says of itself ("Before this, the editor kept showing the
\* old preset"), with no exception: it does not hold (HxEditorUnheard.cfg).
FollowsAlways == device /\ pc = "idle" /\ ~announced /\ ~recheck => shown = loaded

\* A tone being auditioned never reaches the pedal's memory in the session that
\* auditions it ("puts an audition back first and then runs on the real preset",
\* handle).
AuditionNeverSaved == \A p \in Presets : ~stored[p].tone

\* Ending an audition puts back the sound, the unsaved flag and the stacks
\* that were there when it began, whatever was played, edited, tried or undone
\* in between.
AuditionRestores ==
    [][EndAudition /\ audition # None /\ audition' = None =>
        /\ buffer' = aside.original /\ dirty' = aside.dirty
        /\ history' = aside.history /\ future' = aside.future]_vars

=============================================================================
