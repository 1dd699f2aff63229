--------------------------- MODULE BundleContents ---------------------------
(***************************************************************************)
(* What the automatic backup holds of the pedal (crates/hx-usb/src/        *)
(* backup.rs) as the editor's worker keeps it (tonepush-gui/src/           *)
(* session.rs): the whole read on connecting unless the bundle is still    *)
(* current, the one preset refreshed after a save, the copies set aside    *)
(* and pruned, and a bundle written back.                                  *)
(*                                                                         *)
(* One request to the pedal, or one file written, is a step; in between    *)
(* its own panel stores presets, a request fails or the process is killed. *)
(* Publishing a whole bundle is one step (BundleSwap is how).  One setlist *)
(* and one impulse response slot; one value stands for the settings.       *)
(***************************************************************************)
EXTENDS Naturals, Sequences

CONSTANTS
    Count,        \* preset slots
    Names,        \* labels a slot can have
    Default,      \* the label the pedal lists an empty slot under
    Docs,         \* preset documents
    Unreadable,   \* those that do not parse
    IrNames, Samples, Values,
    None,
    Blank,        \* the document of an empty slot
    Unnamed,      \* the manifest's name for one
    Stock,        \* bound: what the slots may hold at the start
    Keep,         \* KEEP_SNAPSHOTS
    MaxChanges,   \* bound: presets, responses and settings written
    MaxTroubles,  \* bound: kills and failed calls
    MaxJobs       \* bound: commands of the worker

ASSUME BundleAssumption ==
    /\ Count \in Nat \ {0} /\ Keep \in Nat \ {0}
    /\ MaxChanges \in Nat /\ MaxTroubles \in Nat /\ MaxJobs \in Nat
    /\ Default \in Names /\ Unnamed \notin Names
    /\ Unreadable \subseteq Docs /\ Blank \notin Docs
    /\ Stock \subseteq [1..Count -> {[name |-> Default, doc |-> Blank]} \cup [name : Names, doc : Docs]]

Index == 1..Count

VARIABLES
    slots,      \* the pedal: a label and a document per slot,
    ir,         \*   its impulse response,
    setting,    \*   its settings
    auto,       \* the automatic backup's directory, or None
    history,    \* the copies set aside, oldest first, and what each held when taken
    pc,         \* where the worker is
    at,         \* the slot it is at
    labels,     \* the list of presets it was given
    doc,        \* the document capture_one_in has read
    build,      \* the bundle being read, or the one being written back
    source,     \* what the one written back held when it was taken
    refused,    \* whether the pedal refused one of its settings
    aside,      \* whether back_up set a copy aside
    skip,       \* whether it may be skipped: a connection's
    changed,    \* what was written since the backup's copy of it was read
    moved,      \* what others wrote since the running command began to read
    verdict,    \* what the last command came to
    changes, troubles, jobs

pedal  == <<slots, ir, setting>>
disk   == <<auto, history>>
worker == <<at, labels, doc, build, source, refused, aside, skip>>
ghosts == <<changed, moved>>
bounds == <<changes, troubles, jobs>>
vars   == <<pedal, disk, pc, worker, ghosts, verdict, bounds>>

\* The parts of the pedal: the slots, and one each for the settings and the
\* impulse response.
TheSettings == 0
TheIr == Count + 1
Parts == 0..Count + 1

-----------------------------------------------------------------------------
(* A bundle's directory, file by file; one that is not there is None or empty. *)

EmptySlot == [name |-> Default, doc |-> Blank]
Contents  == {EmptySlot} \cup [name : Names, doc : Docs]
Irs == [name : IrNames, samples : Samples]

Manifests == [names : [Index -> Names \cup {Unnamed}], ir : IrNames \cup {None}]

Bundles ==
    [manifest : Manifests \cup {None},
     presets  : SUBSET [at : Index, name : Names, doc : Docs],
     unread   : SUBSET Index,                      \* unreadable-presets.json
     listed   : [Index -> Names] \cup {None},      \* listed-names.json
     settings : Values \cup {None},                \* globals.json
     ir       : Irs \cup {None},                   \* the file under irs/
     sum      : Samples \cup {None}]               \* ir-checksums.json

\* None is nothing a file or a directory, or the pedal, can hold.
ASSUME NoneAssumption ==
    /\ None \notin Bundles /\ None \notin Manifests /\ None \notin Contents
    /\ None \notin Irs /\ None \notin IrNames /\ None \notin Values

Nothing == [manifest |-> None, presets |-> {}, unread |-> {}, listed |-> None,
            settings |-> None, ir |-> None, sum |-> None]

\* The presets as LIST_PRESETS gives them.
Labels == [i \in Index |-> slots[i].name]

IrName(r) == IF r = None THEN None ELSE r.name

\* What the file holds that the manifest's name for slot i stands for (preset_file).
\* No preset is called "untitled", the file name of one without a name.
Found(b, i) == {f.doc : f \in {g \in b.presets : g.at = i /\ g.name = b.manifest.names[i]}}

\* atomic_write of a preset's file.
Put(files, f) == {g \in files : g.at # f.at \/ g.name # f.name} \cup {f}

\* What remove_dir_all may leave of a directory when it stops part-way.  The lists of
\* names and checksums of a copy are never read: they count as gone.
Remains(b) ==
    [manifest : {b.manifest, None}, presets : SUBSET b.presets, unread : {b.unread, {}},
     listed : {None}, settings : {b.settings, None}, ir : {b.ir, None}, sum : {None}]

\* Mutant: a preset whose file is missing is a slot to blank.
PlanBlanks(b, i) ==
    IF i \in b.unread THEN {None}
    ELSE IF Found(b, i) = {} THEN {EmptySlot}
    ELSE {[name |-> b.manifest.names[i], doc |-> d] : d \in Found(b, i) \ Unreadable}

\* What a restore would write into slot i: None leaves the slot alone, and without
\* any the bundle is refused.
Plan(b, i) ==
    IF i \in b.unread THEN {None}
    ELSE IF b.manifest.names[i] = Unnamed THEN {EmptySlot}
    ELSE {[name |-> b.manifest.names[i], doc |-> d] : d \in Found(b, i) \ Unreadable}

\* Everything restore looks at before its first write.
Restorable(b) ==
    /\ b.manifest # None
    /\ \A i \in Index : Plan(b, i) # {}
    /\ b.settings # None
    /\ b.manifest.ir # None => IrName(b.ir) = b.manifest.ir

-----------------------------------------------------------------------------
\* The bundle of the pedal as it is.
Copy ==
    [manifest |-> [names |-> [i \in Index |-> IF slots[i].doc = Blank THEN Unnamed ELSE slots[i].name],
                   ir    |-> IrName(ir)],
     presets  |-> {[at |-> i, name |-> slots[i].name, doc |-> slots[i].doc] :
                      i \in {j \in Index : slots[j].doc # Blank}},
     unread   |-> {i \in Index : slots[i].doc \in Unreadable},
     listed   |-> Labels,
     settings |-> setting,
     ir       |-> ir,
     sum      |-> IF ir = None THEN None ELSE ir.samples]

\* The worker starts with no backup yet, or with one of today and perhaps a copy of it.
Init ==
    /\ slots \in Stock /\ ir \in Irs \cup {None} /\ setting \in Values
    /\ \/ auto = None /\ history = <<>>
       \/ auto = Copy /\ history \in {<<>>, <<[dir |-> auto, was |-> auto]>>}
    /\ pc = "idle" /\ at = 1 /\ labels = None /\ doc = None
    /\ build = Nothing /\ source = Nothing /\ refused = FALSE /\ aside = FALSE /\ skip = FALSE
    /\ changed = {} /\ moved = {}
    /\ verdict = "none"
    /\ changes = 0 /\ troubles = 0 /\ jobs = 0

\* Between two requests the pedal's panel, or somebody else, writes a slot: a preset
\* stored, renamed or cleared.  A rename or a clear from the editor likewise leaves
\* the backup as it is.
SlotWritten ==
    /\ changes < MaxChanges /\ changes' = changes + 1
    /\ \E i \in Index, s \in Contents :
        /\ s # slots[i]
        /\ slots' = [slots EXCEPT ![i] = s]
        /\ changed' = changed \cup {i} /\ moved' = moved \cup {i}
    /\ UNCHANGED <<ir, setting, disk, pc, worker, verdict, troubles, jobs>>

SettingWritten ==
    /\ changes < MaxChanges /\ changes' = changes + 1
    /\ setting' \in Values \ {setting}
    /\ changed' = changed \cup {TheSettings} /\ moved' = moved \cup {TheSettings}
    /\ UNCHANGED <<slots, ir, disk, pc, worker, verdict, troubles, jobs>>

\* Impulse responses change only over USB: by the editor between two commands, or by
\* another program between two sessions.
IrWritten ==
    /\ pc = "idle"
    /\ changes < MaxChanges /\ changes' = changes + 1
    /\ ir' \in (Irs \cup {None}) \ {ir}
    /\ changed' = changed \cup {TheIr} /\ moved' = moved \cup {TheIr}
    /\ UNCHANGED <<slots, setting, disk, pc, worker, verdict, troubles, jobs>>

-----------------------------------------------------------------------------
(* The worker.                                                              *)

Command ==
    /\ pc = "idle" /\ jobs < MaxJobs /\ jobs' = jobs + 1
    /\ moved' = {} /\ verdict' = "none"
    /\ UNCHANGED <<changes, troubles>>

Idle ==
    /\ pc' = "idle" /\ at' = 1 /\ labels' = None /\ doc' = None
    /\ build' = Nothing /\ source' = Nothing /\ refused' = FALSE /\ aside' = FALSE /\ skip' = FALSE

\* A request or a call fails, or the process is killed: what was staged is gone,
\* what was written stays.
Stop ==
    /\ pc # "idle" /\ troubles < MaxTroubles /\ troubles' = troubles + 1
    /\ Idle
    /\ UNCHANGED <<pedal, disk, ghosts, verdict, changes, jobs>>

Trouble == troubles < MaxTroubles /\ troubles' = troubles + 1

\* Steps of a command that only it can see.
Quietly == UNCHANGED <<pedal, disk, ghosts, verdict, bounds>>

-----------------------------------------------------------------------------
(* A save, and the one preset it refreshes (save, back_up_one,               *)
(* capture_one_in).                                                          *)

Save ==
    /\ Command
    /\ \E i \in Index, d \in Docs :
        /\ slots' = [slots EXCEPT ![i].doc = d]
        /\ changed' = changed \cup {i}
        /\ at' = IF auto = None THEN 1 ELSE i
    /\ pc' = IF auto = None THEN "idle" ELSE "oneNames"
    /\ UNCHANGED <<ir, setting, disk, labels, doc, build, source, refused, aside, skip>>

OneNames ==
    /\ pc = "oneNames" /\ pc' = "oneRead"
    /\ labels' = Labels
    /\ Quietly /\ UNCHANGED <<at, doc, build, source, refused, aside, skip>>

OneRead ==
    /\ pc = "oneRead"
    /\ IF slots[at].doc \in Unreadable THEN Idle
       ELSE /\ doc' = slots[at].doc /\ pc' = "oneFile"
            /\ UNCHANGED <<at, labels, build, source, refused, aside, skip>>
    /\ Quietly

\* The next of the bundle's files is written, and what that leaves of it.
Writes(from, to, bundle) ==
    /\ pc = from /\ pc' = to /\ auto' = bundle
    /\ UNCHANGED <<pedal, history, worker, changed, moved, verdict, bounds>>

File == [at |-> at, name |-> labels[at], doc |-> doc]
Others == {f \in auto.presets : f.at = at /\ (doc = Blank \/ f.name # File.name)}

\* Mutant: the slot's other files go before the manifest stops naming one.
OneFileAlone ==
    Writes("oneFile", "oneManifest",
           [auto EXCEPT !.presets = (@ \ Others) \cup IF doc = Blank THEN {} ELSE {File}])

OneFile ==
    Writes("oneFile", "oneManifest",
           IF doc = Blank THEN auto ELSE [auto EXCEPT !.presets = Put(@, File)])

OneManifest ==
    Writes("oneManifest", "oneUnread",
           [auto EXCEPT !.manifest.names[at] = IF doc = Blank THEN Unnamed ELSE labels[at]])

OneUnread == Writes("oneUnread", "oneListed", [auto EXCEPT !.unread = @ \ {at}])

\* The whole list the pedal gave is taken over, whichever slots changed in it.
OneListed ==
    Writes("oneListed", "oneClean", IF auto.listed = None THEN auto ELSE [auto EXCEPT !.listed = labels])

OneClean ==
    /\ pc = "oneClean"
    /\ auto' = [auto EXCEPT !.presets = @ \ Others]
    /\ changed' = IF at \in moved THEN changed ELSE changed \ {at}
    /\ Idle
    /\ UNCHANGED <<pedal, history, moved, verdict, bounds>>

-----------------------------------------------------------------------------
(* The backup a connection takes, and a whole one (back_up_on_connect,       *)
(* still_current, back_up, snapshot, prune, capture_into).                   *)

BackUpOnConnect ==
    /\ Command
    /\ pc' = "currentNames" /\ skip' = TRUE
    /\ UNCHANGED <<pedal, disk, at, labels, doc, build, source, refused, aside, changed>>

\* A bundle of another day is never current.
CurrentNames ==
    /\ pc = "currentNames"
    /\ \/ pc' = "snapshot"
       \/ auto # None /\ auto.listed = Labels /\ pc' = "currentIrs"
    /\ Quietly /\ UNCHANGED worker

CurrentIrs ==
    /\ pc = "currentIrs"
    /\ \/ auto.manifest.ir = IrName(ir) /\ Idle /\ verdict' = "current" /\ UNCHANGED troubles
       \/ auto.manifest.ir # IrName(ir) /\ pc' = "snapshot" /\ UNCHANGED <<worker, verdict, troubles>>
       \/ Trouble /\ pc' = "snapshot" /\ UNCHANGED <<worker, verdict>>
    /\ UNCHANGED <<pedal, disk, ghosts, changes, jobs>>

BackUp ==
    /\ Command
    /\ pc' = "snapshot"
    /\ UNCHANGED <<pedal, disk, worker, changed>>

Copied == Append(history, [dir |-> auto, was |-> auto])

\* A snapshot that fails is told and no more.
Snapshot ==
    /\ pc = "snapshot"
    /\ \/ /\ auto = None /\ pc' = "listing"
          /\ UNCHANGED <<history, aside, troubles>>
       \/ /\ auto # None /\ pc' = "prune"
          /\ history' = Copied /\ aside' = TRUE /\ UNCHANGED troubles
       \/ /\ auto # None /\ pc' = "listing" /\ Trouble
          /\ history' \in {history, Copied} /\ UNCHANGED aside
    /\ UNCHANGED <<pedal, auto, at, labels, doc, build, source, refused, skip, ghosts, verdict, changes, jobs>>

Doomed == IF Len(history) <= Keep THEN 0 ELSE Len(history) - Keep

\* Mutant: none go.
PruneNone == pc = "prune" /\ pc' = "listing" /\ UNCHANGED <<pedal, disk, worker, ghosts, verdict, bounds>>

\* Mutant: the newest go.
PruneNewest ==
    /\ pc = "prune" /\ pc' = "listing"
    /\ history' = SubSeq(history, 1, Len(history) - Doomed)
    /\ UNCHANGED <<pedal, auto, worker, ghosts, verdict, bounds>>

\* The oldest go.  A removal that fails part-way is passed over; a kill keeps the
\* ones after it too.
Prune ==
    /\ pc = "prune"
    /\ LET newer(i) == SubSeq(history, i + 1, Len(history)) IN
       \/ /\ history' = newer(Doomed)
          /\ pc' = "listing" /\ UNCHANGED <<worker, troubles>>
       \/ /\ Trouble
          /\ \E i \in 1..Doomed : \E left \in Remains(history[i].dir) :
              LET torn == <<[history[i] EXCEPT !.dir = left]>> IN
              \/ history' = torn \o newer(Doomed) /\ pc' = "listing" /\ UNCHANGED worker
              \/ history' = torn \o newer(i) /\ Idle
    /\ UNCHANGED <<pedal, auto, ghosts, verdict, changes, jobs>>

Listing ==
    /\ pc = "listing" /\ pc' = "reading" /\ at' = 1
    /\ build' = [Nothing EXCEPT !.manifest = [names |-> Labels, ir |-> None], !.listed = Labels]
    /\ moved' = {} /\ verdict' = "none"
    /\ UNCHANGED <<pedal, disk, labels, doc, source, refused, aside, skip, changed, bounds>>

\* The list is asked once for all; each document when its turn comes.
ReadSlot ==
    /\ pc = "reading"
    /\ LET d == slots[at].doc
           file == [at |-> at, name |-> build.listed[at], doc |-> d]
       IN build' = IF d = Blank THEN [build EXCEPT !.manifest.names[at] = Unnamed]
                   ELSE [build EXCEPT !.presets = Put(@, file),
                                      !.unread = IF d \in Unreadable THEN @ \cup {at} ELSE @]
    /\ IF at < Count THEN at' = at + 1 /\ UNCHANGED pc ELSE at' = 1 /\ pc' = "settings"
    /\ Quietly /\ UNCHANGED <<labels, doc, source, refused, aside, skip>>

ReadSettings ==
    /\ pc = "settings" /\ pc' = "irs"
    /\ build' = [build EXCEPT !.settings = setting]
    /\ Quietly /\ UNCHANGED <<at, labels, doc, source, refused, aside, skip>>

\* Mutant: the name is enough.
KeptByName == auto # None /\ auto.manifest.ir = ir.name /\ auto.ir # None

\* The bundle there has this response already, by its name and its checksum.
Kept == /\ auto # None /\ auto.manifest.ir = ir.name
        /\ auto.ir # None /\ auto.ir.name = ir.name /\ auto.sum = ir.samples

ReadIr ==
    /\ pc = "irs" /\ pc' = "commit"
    /\ build' = IF ir = None THEN build
                ELSE [build EXCEPT !.manifest.ir = ir.name, !.sum = ir.samples,
                                   !.ir = IF Kept THEN auto.ir ELSE ir]
    /\ Quietly /\ UNCHANGED <<at, labels, doc, source, refused, aside, skip>>

Commit ==
    /\ pc = "commit" /\ Idle
    /\ auto' = build
    /\ changed' = moved
    /\ verdict' = "stored"
    /\ UNCHANGED <<pedal, history, moved, bounds>>

\* The person skips it: the copy set aside is a second copy of the same thing.
Skip ==
    /\ skip /\ pc \in {"listing", "reading", "settings", "irs"}
    /\ \/ ~aside /\ UNCHANGED <<history, troubles>>
       \/ aside /\ history' = SubSeq(history, 1, Len(history) - 1) /\ UNCHANGED troubles
       \/ /\ aside /\ Trouble
          /\ \E left \in Remains(auto) : history' = [history EXCEPT ![Len(history)].dir = left]
    /\ Idle
    /\ UNCHANGED <<pedal, auto, ghosts, verdict, changes, jobs>>

-----------------------------------------------------------------------------
(* A setlist or a bundle written to the pedal (push_setlist, restore_all,    *)
(* restore); a backup follows.                                               *)

Refresh == IF auto = None THEN "idle" ELSE "snapshot"

Push ==
    /\ Command
    /\ \E i \in Index, s \in {t \in Contents : t.doc \notin Unreadable} :
        /\ slots' = [slots EXCEPT ![i] = s]
        /\ changed' = changed \cup {i}
    /\ pc' = Refresh
    /\ UNCHANGED <<ir, setting, disk, worker>>

Sources == {[dir |-> auto, was |-> auto]} \cup {history[k] : k \in DOMAIN history}

\* The whole bundle is read and judged before anything is written.
Restore ==
    /\ Command
    /\ \E b \in Sources :
        /\ b.dir # None /\ Restorable(b.dir)
        /\ build' = b.dir /\ source' = b.was /\ refused' = FALSE
    /\ pc' = "putSlot" /\ at' = 1
    /\ UNCHANGED <<pedal, disk, labels, doc, aside, skip, changed>>

PutSlot ==
    /\ pc = "putSlot"
    /\ \E s \in Plan(build, at) :
        IF s = None THEN UNCHANGED <<slots, changed>>
        ELSE /\ slots' = [slots EXCEPT ![at] = s]
             /\ changed' = changed \cup {at}
    /\ IF at < Count THEN at' = at + 1 /\ UNCHANGED pc ELSE at' = 1 /\ pc' = "putSettings"
    /\ UNCHANGED <<ir, setting, disk, labels, doc, build, source, refused, aside, skip, moved, verdict, bounds>>

\* A setting the pedal refuses, when it is read or when it is written, is passed over;
\* others may have been written.
PutSettings ==
    /\ pc = "putSettings" /\ pc' = "putIr"
    /\ \/ setting' = build.settings /\ UNCHANGED <<refused, troubles>>
       \/ setting' \in Values /\ refused' = TRUE /\ Trouble
    /\ changed' = changed \cup {TheSettings}
    /\ UNCHANGED <<slots, ir, disk, at, labels, doc, build, source, aside, skip, moved, verdict,
                   changes, jobs>>

PutIr ==
    /\ pc = "putIr" /\ pc' = Refresh
    /\ ir' = IF build.manifest.ir = None THEN None ELSE build.ir
    /\ changed' = changed \cup {TheIr}
    /\ verdict' = "restored"
    /\ UNCHANGED <<slots, setting, disk, worker, moved, bounds>>

-----------------------------------------------------------------------------
Next ==
    \/ SlotWritten \/ SettingWritten \/ IrWritten \/ Stop
    \/ Save \/ OneNames \/ OneRead \/ OneFile \/ OneManifest \/ OneUnread \/ OneListed \/ OneClean
    \/ BackUpOnConnect \/ CurrentNames \/ CurrentIrs \/ BackUp \/ Snapshot \/ Prune
    \/ Listing \/ ReadSlot \/ ReadSettings \/ ReadIr \/ Commit \/ Skip
    \/ Push \/ Restore \/ PutSlot \/ PutSettings \/ PutIr

Spec == Init /\ [][Next]_vars

-----------------------------------------------------------------------------
(* Properties                                                               *)

TypeOK ==
    /\ slots \in [Index -> Contents] /\ ir \in Irs \cup {None} /\ setting \in Values
    /\ auto \in Bundles \cup {None}
    /\ history \in Seq([dir : Bundles, was : Bundles]) /\ Len(history) <= Keep + 1 + troubles
    /\ build \in Bundles /\ source \in Bundles
    /\ at \in Index /\ labels \in [Index -> Names] \cup {None} /\ doc \in Docs \cup {Blank, None}
    /\ refused \in BOOLEAN /\ aside \in BOOLEAN /\ skip \in BOOLEAN
    /\ changed \subseteq Parts /\ moved \subseteq Parts

\* The automatic backup can be restored at any time, whatever step of refreshing one preset
\* was the last ("At every interruption point the manifest still names a file that exists").
StaysWhole == auto # None => Restorable(auto)

\* A bundle's copy of slot i is what the slot holds.
Held(b, i) ==
    /\ Found(b, i) = {slots[i].doc} \ {Blank}
    /\ b.manifest.names[i] = IF slots[i].doc = Blank THEN Unnamed ELSE slots[i].name
    /\ i \in b.unread <=> slots[i].doc \in Unreadable

\* A bundle that calls itself current (still_current) holds whatever was not written behind
\* its back, and what was shows in none of the pedal's lists: a document under a name listed
\* before, a response under its old name, a setting.
CurrentIsHeld ==
    verdict = "current" /\ moved = {} =>
        /\ \A i \in Index : Held(auto, i) \/ (i \in changed /\ auto.listed[i] = slots[i].name)
        /\ auto.ir = ir \/ (TheIr \in changed /\ IrName(auto.ir) = IrName(ir))
        /\ auto.settings = setting \/ TheSettings \in changed

\* "still names exactly what the pedal holds: the same presets in every setlist and the same
\* impulse responses" (still_current).
CurrentNamesPedal ==
    verdict = "current" /\ moved = {} =>
        \A i \in Index : slots[i].doc # Blank => auto.manifest.names[i] \in {slots[i].name, Unnamed}

\* A restore that reports success leaves the pedal with all its bundle held when it was taken,
\* however much of it a stopped removal has since left (restore's preflight, remove_dir_all).
\* The settings are excepted when the pedal refused one: restore passes over it, so that a
\* bundle of another firmware can be written back.
RestoreIsWhole ==
    verdict = "restored" /\ pc = Refresh /\ moved = {} =>
        /\ \A i \in Index : Plan(source, i) \in {{slots[i]}, {None}}
        /\ setting = source.settings \/ refused
        /\ ir = source.ir

\* What a whole backup replaces is kept whole in the history; and of the history only what has
\* Keep newer copies goes, or the newest when its backup was skipped (snapshot, prune, back_up).
HistoryKept ==
    [][/\ pc = "commit" /\ auto' # auto /\ aside => \E k \in DOMAIN history : history[k].dir = auto
       /\ \A k \in DOMAIN history :
            \/ \E j \in DOMAIN history' : history'[j] = history[k]
            \/ Len(history) - k >= Keep
            \/ skip /\ k = Len(history)]_vars

=============================================================================
