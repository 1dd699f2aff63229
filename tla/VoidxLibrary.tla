---------------------------- MODULE VoidxLibrary ----------------------------
(***************************************************************************)
(* A StompStation PRO's stored library and what one session does to it     *)
(* (crates/voidx-client/src/device.rs and backup.rs): slots renamed,        *)
(* cleared, uploaded and moved, the library captured to a bundle, a bundle  *)
(* armed as the rollback, and a bundle restored.                            *)
(*                                                                          *)
(* One list of slots and one setting stand for the four lists and the       *)
(* settings; a step is one request and its answer.  Between two requests    *)
(* the pedal's own panel may store over a slot.  A bundle is a value: how   *)
(* it reaches the disk is BundleSwap.                                       *)
(***************************************************************************)
EXTENDS Naturals, Sequences, SequencesExt

CONSTANTS
    Count,        \* slots of the list
    Names, Blobs, \* names and contents a slot may hold
    Free,         \* an empty slot
    None,         \* no bundle armed, no job, no result
    Values,       \* values of the setting
    MaxJobs,      \* bound: jobs started
    MaxFaults,    \* bound: requests that fail
    MaxPanel,     \* bound: what the pedal's own panel stores
    Ops           \* bound: the jobs asked for

Kinds == {"capture", "arm", "import", "rename", "clear", "setting", "move",
          "restore", "restore_armed"}

ASSUME LibraryAssumption ==
    /\ Count \in Nat \ {0}
    /\ MaxJobs \in Nat /\ MaxFaults \in Nat /\ MaxPanel \in Nat
    /\ Ops \subseteq Kinds

Index == 1..Count
Presets == [name : Names, blob : Blobs]

\* An all-zero name is no name.
ASSUME FreeAssumption == Free \notin Presets /\ Free \notin Names

Tables == [Index -> Presets \cup {Free}]

\* A bundle: every slot and the setting, as captured.
Bundles == [slots : Tables, setting : Values]

VARIABLES
    slots, setting,           \* the pedal's flash
    online,                   \* the session is aligned: nothing lost it since it was opened
    armed,                    \* the rollback armed in this session; writes are enabled with it
    bundles,                  \* the bundles on disk
    job,                      \* the call under way, and its place in it
    result,                   \* what the last call returned
    jobs, faults, panel,      \* counters of the bounds
    touched,                  \* ghost: the panel stored something since the call began
    start,                    \* ghost: the pedal as the call found it
    held                      \* ghost: what each slot held at any time since the call began

pedal == <<slots, setting>>
session == <<online, armed, bundles>>
ghosts == <<touched, start>>
vars == <<pedal, session, job, result, jobs, faults, panel, ghosts, held>>

TypeOK ==
    /\ slots \in Tables /\ setting \in Values
    /\ online \in BOOLEAN
    /\ armed = None \/ armed \in Bundles
    /\ bundles \subseteq Bundles
    /\ job = None \/ (job.op \in Kinds /\ (job.op \notin {"capture", "move"} /\ "at" \in DOMAIN job => job.at \in Index))
    /\ result = None \/ (result.op \in Kinds /\ result.verdict \in {"done", "failed", "undone", "stuck"})
    /\ jobs \in 0..MaxJobs /\ faults \in 0..MaxFaults /\ panel \in 0..MaxPanel
    /\ start \in Bundles /\ held \in [Index -> SUBSET (Presets \cup {Free})]

NameOf(slot) == IF slot = Free THEN Free ELSE slot.name
NamesOf(table) == [i \in DOMAIN table |-> NameOf(table[i])]
Taken(table) == {NameOf(table[i]) : i \in DOMAIN table} \ {Free}

\* The pedal drops an upload whose name another slot has, so no two slots share one.
DistinctNames(table) ==
    \A i, j \in DOMAIN table : table[i] # Free /\ NameOf(table[i]) = NameOf(table[j]) => i = j

Init ==
    /\ slots \in {t \in Tables : DistinctNames(t)} /\ setting \in Values
    /\ online = TRUE /\ armed = None /\ bundles = {}
    /\ job = None /\ result = None
    /\ jobs = 0 /\ faults = 0 /\ panel = 0
    /\ touched = FALSE
    /\ start = [slots |-> slots, setting |-> setting]
    /\ held = [i \in Index |-> {slots[i]}]

----------------------------------------------------------------------------
(* Requests.  A request is answered, refused with the session kept (an error *)
(* answer, a wrong echo, a read that does not parse), or loses the session.  *)

Stores(table) ==
    /\ slots' = table
    /\ held' = [i \in Index |-> held[i] \cup {table[i]}]

Answered == online /\ UNCHANGED <<online, faults>>
Refused == online /\ faults < MaxFaults /\ faults' = faults + 1 /\ UNCHANGED online
Lost == online /\ faults < MaxFaults /\ faults' = faults + 1 /\ online' = FALSE

\* The call failed on a request, or without one on a session already lost.
Errs == Refused \/ Lost \/ (~online /\ UNCHANGED <<online, faults>>)

\* What a write request that fails may have done: nothing, or all of it.
ErrsWriting(table) ==
    \/ Errs /\ UNCHANGED <<slots, held>>
    \/ (Refused \/ Lost) /\ Stores(table)

Ends(verdict) == job' = None /\ result' = [op |-> job.op, verdict |-> verdict, job |-> job]
Goes(place) == job' = place /\ UNCHANGED result

Reading == UNCHANGED <<pedal, held>>
Calling == UNCHANGED <<bundles, jobs, panel, ghosts>>

Begin(call) ==
    /\ job = None /\ online /\ jobs < MaxJobs /\ call.op \in Ops
    /\ job' = call /\ result' = None /\ jobs' = jobs + 1
    /\ touched' = FALSE
    /\ start' = [slots |-> slots, setting |-> setting]
    /\ held' = [i \in Index |-> {slots[i]}]
    /\ UNCHANGED <<pedal, session, faults, panel>>

\* At a place in a call: the call, and its phase.
At(op, phase) == job # None /\ job.op = op /\ job.phase = phase

----------------------------------------------------------------------------
(* capture_reusing: the names, every content, the names again, the bundle.  *)
(* A content is read in batches and its two ends once more, or compared with *)
(* a bundle's and reused.                                                   *)

\* What reading a slot's content may return; a slot emptied meanwhile has none of its own.
ContentOf(i) == IF slots[i] = Free THEN Blobs ELSE {slots[i].blob}

Capture == Begin([op |-> "capture", phase |-> "list"])

CaptureListed ==
    /\ At("capture", "list")
    /\ Reading /\ Calling /\ UNCHANGED armed
    /\ \/ /\ Answered
          /\ Goes([op |-> "capture", phase |-> "read", at |-> 1,
                   names |-> NamesOf(slots), setting |-> setting, got |-> None, read |-> <<>>])
       \/ Errs /\ Ends("failed")

\* The slot being read is taken into the bundle, and the next one read.
Took(slot) == Goes([job EXCEPT !.at = @ + 1, !.got = None, !.read = Append(@, slot),
                               !.phase = IF job.at = Count THEN "again" ELSE "read"])

Got == [name |-> job.names[job.at], blob |-> job.got]

\* An empty slot, or the first batch of one: a content that begins like it.
CaptureRead ==
    /\ At("capture", "read")
    /\ Reading /\ Calling /\ UNCHANGED armed
    /\ LET name == job.names[job.at]
       IN \/ name = Free /\ Took(Free) /\ UNCHANGED <<online, faults>>
          \/ /\ name # Free /\ Answered
             /\ \E b \in ContentOf(job.at) : Goes([job EXCEPT !.phase = "rest", !.got = b])
          \/ name # Free /\ Errs /\ Ends("failed")

\* Another batch, perhaps the last.  A slot stored over since the one before reads as the
\* beginning of one content and the end of another, which may be any content at all.
CaptureRest ==
    /\ At("capture", "rest")
    /\ Reading /\ Calling /\ UNCHANGED armed
    /\ \/ /\ Answered
          /\ \E b \in Blobs, phase \in {"rest", "ends"} :
                /\ ContentOf(job.at) = {job.got} => b = job.got
                /\ Goes([job EXCEPT !.phase = phase, !.got = b])
       \/ Errs /\ Ends("failed")

\* stored_content_matches: all that was read is what a bundle has under that name.
CaptureReused ==
    /\ At("capture", "rest")
    /\ \E bundle \in bundles : bundle.slots[job.at] = Got
    /\ Took(Got)
    /\ Reading /\ Calling /\ UNCHANGED <<armed, online, faults>>

\* verify_boundary_chunks: of a slot stored over, the first and the last chunk may be alike.
CaptureEnds ==
    /\ At("capture", "ends")
    /\ Reading /\ Calling /\ UNCHANGED armed
    /\ \/ Answered /\ Took(Got)
       \/ Answered /\ ContentOf(job.at) # {job.got} /\ Ends("failed")
       \/ Errs /\ Ends("failed")

\* Mutant: the names are not read again.
CaptureTorn ==
    /\ At("capture", "again")
    /\ Reading /\ UNCHANGED <<armed, jobs, panel, ghosts>>
    /\ Answered /\ Ends("done")
    /\ bundles' = bundles \cup {[slots |-> job.read, setting |-> job.setting]}

CaptureAgain ==
    /\ At("capture", "again")
    /\ Reading /\ UNCHANGED <<armed, jobs, panel, ghosts>>
    /\ \/ /\ Answered /\ NamesOf(slots) = job.names /\ Ends("done")
          /\ bundles' = bundles \cup {[slots |-> job.read, setting |-> job.setting]}
       \/ Answered /\ NamesOf(slots) # job.names /\ Ends("failed") /\ UNCHANGED bundles
       \/ Errs /\ Ends("failed") /\ UNCHANGED bundles

----------------------------------------------------------------------------
(* verify_current_state, with arm and enable_writes after it or the restore *)

Arm == \E b \in bundles : Begin([op |-> "arm", phase |-> "list", rollback |-> b, at |-> 1])

Verifying(phase) == At("arm", phase) \/ At("restore", phase)

VerifyListed ==
    /\ Verifying("list")
    /\ Reading /\ Calling /\ UNCHANGED armed
    /\ \/ Answered /\ NamesOf(slots) = NamesOf(job.rollback.slots) /\ Goes([job EXCEPT !.phase = "compare"])
       \/ Answered /\ NamesOf(slots) # NamesOf(job.rollback.slots) /\ Ends("failed")
       \/ Errs /\ Ends("failed")

Compared == IF job.at = Count THEN [job EXCEPT !.phase = "compareSetting", !.at = 1] ELSE [job EXCEPT !.at = @ + 1]

\* Mutant: the names prove the contents.
VerifyNames ==
    /\ Verifying("compare")
    /\ Reading /\ Calling /\ UNCHANGED <<armed, online, faults>> /\ Goes(Compared)

\* verify_rollback_contents: every occupied slot is compared with the bundle's content.  The
\* batches of a comparison are one step: what rests on it holds only if nothing was stored
\* at the panel, and then they all see one content.
VerifyContents ==
    /\ Verifying("compare")
    /\ Reading /\ Calling /\ UNCHANGED armed
    /\ LET saved == job.rollback.slots[job.at]
       IN \/ saved = Free /\ Goes(Compared) /\ UNCHANGED <<online, faults>>
          \/ saved # Free /\ Answered /\ saved.blob \in ContentOf(job.at) /\ Goes(Compared)
          \/ saved # Free /\ Answered /\ ContentOf(job.at) # {saved.blob} /\ Ends("failed")
          \/ saved # Free /\ Errs /\ Ends("failed")

VerifySetting ==
    /\ Verifying("compareSetting")
    /\ Reading /\ Calling /\ UNCHANGED armed
    /\ LET proven == IF job.op = "arm" THEN "enable" ELSE "plan"
       IN \/ Answered /\ setting = job.rollback.setting /\ Goes([job EXCEPT !.phase = proven])
          \/ Answered /\ setting # job.rollback.setting /\ Ends("failed")
          \/ Errs /\ Ends("failed")

EnableWrites ==
    /\ At("arm", "enable")
    /\ armed' = job.rollback /\ Ends("done")
    /\ Reading /\ Calling /\ UNCHANGED <<online, faults>>

----------------------------------------------------------------------------
(* Writes of one slot.  Every one requires writes to be enabled.            *)

Writing(call) == armed # None /\ Begin(call)

Import ==
    \E i \in Index, n \in Names, b \in Blobs :
        Writing([op |-> "import", phase |-> "upload", at |-> i, put |-> [name |-> n, blob |-> b]])

\* A new name is one no other slot has (the window makes it unique).
Rename ==
    \E i \in Index, n \in Names \ Taken(slots) :
        slots[i] # Free /\ Writing([op |-> "rename", phase |-> "rename", at |-> i, name |-> n])

Clear == \E i \in Index : slots[i] # Free /\ Writing([op |-> "clear", phase |-> "clear", at |-> i])

SetSetting == \E v \in Values : Writing([op |-> "setting", phase |-> "set", value |-> v])

\* rename_slot: the name committed alone, then the names read back.
RenameCommit ==
    /\ At("rename", "rename")
    /\ Calling /\ UNCHANGED <<armed, setting>>
    /\ LET named == [slots EXCEPT ![job.at] = IF @ = Free THEN Free ELSE [@ EXCEPT !.name = job.name]]
           taken == IF DistinctNames(named) THEN named ELSE slots
       IN \/ Answered /\ Stores(taken) /\ Goes([job EXCEPT !.phase = "renamed"])
          \/ ErrsWriting(taken) /\ Ends("failed")

RenameListed ==
    /\ At("rename", "renamed")
    /\ Reading /\ Calling /\ UNCHANGED armed
    /\ \/ Answered /\ Ends(IF NameOf(slots[job.at]) = job.name THEN "done" ELSE "failed")
       \/ Errs /\ Ends("failed")

\* Mutant: the last slot has a next one.
NextSlotPast == [job EXCEPT !.phase = "slot", !.at = @ + 1]

\* What a restore does once slot at is done.
NextSlot ==
    IF job.at = Count THEN [job EXCEPT !.phase = "final"]
    ELSE [job EXCEPT !.phase = "slot", !.at = @ + 1]

Restoring == job # None /\ job.op \in {"restore", "restore_armed"}

SlotDone == IF Restoring THEN Goes(NextSlot) ELSE Ends("done")

\* clear_slot: the all-zero name committed, then the names read back.
ClearCommit ==
    /\ job # None /\ job.phase = "clear"
    /\ Calling /\ UNCHANGED <<armed, setting>>
    /\ LET cleared == [slots EXCEPT ![job.at] = Free]
       IN \/ Answered /\ Stores(cleared) /\ Goes([job EXCEPT !.phase = "cleared"])
          \/ ErrsWriting(cleared) /\ Ends("failed")

ClearListed ==
    /\ job # None /\ job.phase = "cleared"
    /\ Reading /\ Calling /\ UNCHANGED armed
    /\ \/ Answered /\ slots[job.at] = Free /\ SlotDone
       \/ Answered /\ slots[job.at] # Free /\ Ends("failed")
       \/ Errs /\ Ends("failed")

\* What an upload puts in the slot: given, or the source's.
Put == IF Restoring THEN job.source.slots[job.at] ELSE job.put

\* write_blob, first: refused when another slot has the name.
UploadListed ==
    /\ job # None /\ job.phase = "upload"
    /\ Reading /\ Calling /\ UNCHANGED armed
    /\ LET elsewhere == \E j \in Index \ {job.at} : NameOf(slots[j]) = Put.name
       IN \/ Answered /\ ~elsewhere /\ Goes([job EXCEPT !.phase = "data"])
          \/ Answered /\ elsewhere /\ Ends("failed")
          \/ Errs /\ Ends("failed")

\* The name and the data chunks.  An upload broken off may leave its content under the old name.
UploadData ==
    /\ job # None /\ job.phase = "data"
    /\ Calling /\ UNCHANGED <<armed, setting>>
    /\ LET torn == [slots EXCEPT ![job.at] = IF @ = Free THEN Free ELSE [@ EXCEPT !.blob = Put.blob]]
       IN \/ Answered /\ UNCHANGED <<slots, held>> /\ Goes([job EXCEPT !.phase = "commit"])
          \/ ErrsWriting(torn) /\ Ends("failed")

\* The commit: dropped by the pedal, and acknowledged all the same, when another slot has the name.
UploadCommit ==
    /\ job # None /\ job.phase = "commit"
    /\ Calling /\ UNCHANGED <<armed, setting>>
    /\ LET written == [slots EXCEPT ![job.at] = Put]
           taken == IF DistinctNames(written) THEN written ELSE slots
       IN \/ Answered /\ Stores(taken) /\ Goes([job EXCEPT !.phase = "committed"])
          \/ ErrsWriting(taken) /\ Ends("failed")

\* Mutant: an upload whose every chunk was acknowledged is stored.
UploadAcknowledged ==
    /\ job # None /\ job.phase = "committed"
    /\ Reading /\ Calling /\ UNCHANGED <<armed, online, faults>> /\ SlotDone

UploadNamed ==
    /\ job # None /\ job.phase = "committed"
    /\ Reading /\ Calling /\ UNCHANGED armed
    /\ \/ Answered /\ NameOf(slots[job.at]) = Put.name /\ Goes([job EXCEPT !.phase = "readback"])
       \/ Answered /\ NameOf(slots[job.at]) # Put.name /\ Ends("failed")
       \/ Errs /\ Ends("failed")

UploadReadBack ==
    /\ job # None /\ job.phase = "readback"
    /\ Reading /\ Calling /\ UNCHANGED armed
    /\ \/ Answered /\ Put.blob \in ContentOf(job.at) /\ SlotDone
       \/ Answered /\ ContentOf(job.at) # {Put.blob} /\ Ends("failed")
       \/ Errs /\ Ends("failed")

\* write_value: a setting written and its echo compared; a restore reads it back too.
SettingWrite ==
    /\ job # None /\ job.phase = "set"
    /\ Calling /\ UNCHANGED <<armed, slots, held>>
    /\ LET value == IF Restoring THEN job.source.setting ELSE job.value
       IN \/ /\ Answered /\ setting' = value
             /\ IF Restoring THEN Goes([job EXCEPT !.phase = "setRead"]) ELSE Ends("done")
          \/ Errs /\ UNCHANGED setting /\ Ends("failed")
          \/ (Refused \/ Lost) /\ setting' = value /\ Ends("failed")

SettingRead ==
    /\ job # None /\ job.phase = "setRead"
    /\ Reading /\ Calling /\ UNCHANGED armed
    /\ \/ Answered /\ Ends(IF setting = job.source.setting THEN "done" ELSE "failed")
       \/ Errs /\ Ends("failed")

----------------------------------------------------------------------------
(* restore, which proves the rollback once more, and restore_armed, which   *)
(* expects the edits made since it was armed                                *)

Restore ==
    \E b \in bundles : Writing([op |-> "restore", phase |-> "list", at |-> 1, source |-> b,
                                rollback |-> armed, names |-> <<>>, changed |-> FALSE])

RestoreArmed ==
    \E b \in bundles : Writing([op |-> "restore_armed", phase |-> "preflight", at |-> 1, source |-> b,
                                rollback |-> armed, names |-> <<>>, changed |-> FALSE])

\* The names the pedal has now, for the slots that need no write.
ArmedPreflight ==
    /\ At("restore_armed", "preflight")
    /\ Reading /\ Calling /\ UNCHANGED armed
    /\ \/ Answered /\ Goes([job EXCEPT !.phase = "plan", !.names = NamesOf(slots)])
       \/ Errs /\ Ends("failed")

\* prepare_settings_restore
RestorePlan ==
    /\ Restoring /\ job.phase = "plan"
    /\ Reading /\ Calling /\ UNCHANGED armed
    /\ LET before == IF job.op = "restore_armed" THEN setting ELSE job.rollback.setting
       IN \/ Answered /\ Goes([job EXCEPT !.phase = "slot", !.changed = before # job.source.setting])
          \/ Errs /\ Ends("failed")

\* A slot that needs no write: it was compared with the rollback, or is empty on both sides.
SameSlot ==
    IF job.op = "restore_armed" THEN job.source.slots[job.at] = Free /\ job.names[job.at] = Free
    ELSE job.source.slots[job.at] = job.rollback.slots[job.at]

RestoreSlot ==
    /\ Restoring /\ job.phase = "slot"
    /\ Reading /\ Calling /\ UNCHANGED <<armed, online, faults>>
    /\ Goes(IF SameSlot THEN NextSlot
            ELSE [job EXCEPT !.phase = IF job.source.slots[job.at] = Free THEN "clear" ELSE "upload"])

RestoreFinal ==
    /\ Restoring /\ job.phase = "final"
    /\ Reading /\ Calling /\ UNCHANGED armed
    /\ LET same == NamesOf(slots) = NamesOf(job.source.slots)
       IN \/ Answered /\ same /\ job.changed /\ Goes([job EXCEPT !.phase = "set"])
          \/ Answered /\ same /\ ~job.changed /\ Ends("done")
          \/ Answered /\ ~same /\ Ends("failed")
          \/ Errs /\ Ends("failed")

----------------------------------------------------------------------------
(* move_slot: adjacent swaps, each with the names read before and after;    *)
(* when one fails, the completed ones are reversed and the names compared   *)
(* with those before the move                                               *)

Exchanged(table, pair) == [table EXCEPT ![pair[1]] = table[pair[2]], ![pair[2]] = table[pair[1]]]

Adjacent(from, to) ==
    IF from < to THEN [k \in 1..(to - from) |-> <<from + k - 1, from + k>>]
    ELSE [k \in 1..(from - to) |-> <<from - k + 1, from - k>>]

\* remove(from), insert(to, moved)
Moved(table, from, to) ==
    [i \in DOMAIN table |->
        IF i = to THEN table[from]
        ELSE IF from < to /\ i \in from..(to - 1) THEN table[i + 1]
        ELSE IF to < from /\ i \in (to + 1)..from THEN table[i - 1]
        ELSE table[i]]

Move ==
    \E from, to \in Index :
        /\ from # to
        /\ Writing([op |-> "move", phase |-> "list", from |-> from, to |-> to, todo |-> Adjacent(from, to),
                    done |-> <<>>, back |-> FALSE, before |-> <<>>, names |-> <<>>, found |-> <<>>])

MoveListed ==
    /\ At("move", "list")
    /\ Reading /\ Calling /\ UNCHANGED armed
    /\ \/ Answered /\ Goes([job EXCEPT !.phase = "swap", !.before = NamesOf(slots), !.names = NamesOf(slots)])
       \/ Errs /\ Ends("failed")

\* The pair being swapped: the next to do, or the last done being reversed.
Pair == IF job.back THEN Last(job.done) ELSE Head(job.todo)

\* A swap_slots that returned an error: looked into going forward, the end going back.
SwapFails == IF job.back THEN Ends("stuck") ELSE Goes([job EXCEPT !.phase = "look"])

SwapBefore ==
    /\ At("move", "swap")
    /\ Reading /\ Calling /\ UNCHANGED armed
    /\ \/ Answered /\ Goes([job EXCEPT !.phase = "exchange", !.found = NamesOf(slots)])
       \/ Errs /\ SwapFails

\* dswap; a request that fails may have been carried out.
SwapExchange ==
    /\ At("move", "exchange")
    /\ Calling /\ UNCHANGED <<armed, setting>>
    /\ LET exchanged == Exchanged(slots, Pair)
       IN \/ Answered /\ Stores(exchanged) /\ Goes([job EXCEPT !.phase = "swapped"])
          \/ ErrsWriting(exchanged) /\ SwapFails

SwapTaken ==
    IF job.back
    THEN LET left == Front(job.done)
         IN Goes([job EXCEPT !.done = left, !.phase = IF left = <<>> THEN "verify" ELSE "swap"])
    ELSE Goes([job EXCEPT !.done = Append(@, Pair), !.names = Exchanged(@, Pair), !.todo = Tail(@),
                          !.phase = IF Len(job.todo) = 1 THEN "final" ELSE "swap"])

SwapAfter ==
    /\ At("move", "swapped")
    /\ Reading /\ Calling /\ UNCHANGED armed
    /\ LET now == NamesOf(slots)
           swapped == now[Pair[1]] = job.found[Pair[2]] /\ now[Pair[2]] = job.found[Pair[1]]
       IN \/ Answered /\ swapped /\ SwapTaken
          \/ Answered /\ ~swapped /\ SwapFails
          \/ Errs /\ SwapFails

Reversing(done) == [job EXCEPT !.back = TRUE, !.done = done, !.phase = IF done = <<>> THEN "verify" ELSE "swap"]

\* A swap can fail after the pedal applied it: the names tell, and it is reversed too.
LookAgain ==
    /\ At("move", "look")
    /\ Reading /\ Calling /\ UNCHANGED armed
    /\ LET swapped == Exchanged(job.names, Pair)
           took == NamesOf(slots) = swapped /\ swapped # job.names
       IN \/ Answered /\ Goes(Reversing(IF took THEN Append(job.done, Pair) ELSE job.done))
          \/ Errs /\ Goes(Reversing(job.done))

\* Mutant: the completed swaps reversed, the names are taken to be as before.
VerifyReversed ==
    /\ At("move", "verify")
    /\ Reading /\ Calling /\ UNCHANGED <<armed, online, faults>> /\ Ends("undone")

MoveVerify ==
    /\ At("move", "verify")
    /\ Reading /\ Calling /\ UNCHANGED armed
    /\ \/ Answered /\ Ends(IF NamesOf(slots) = job.before THEN "undone" ELSE "stuck")
       \/ Errs /\ Ends("stuck")

MoveFinal ==
    /\ At("move", "final")
    /\ Reading /\ Calling /\ UNCHANGED armed
    /\ \/ Answered /\ Ends(IF NamesOf(slots) = Moved(job.before, job.from, job.to) THEN "done" ELSE "failed")
       \/ Errs /\ Ends("failed")

----------------------------------------------------------------------------
(* The pedal's panel stores over a slot, under the slot's name or a new one; *)
(* the session ends and another begins, with nothing armed.                  *)

Panel ==
    /\ panel < MaxPanel /\ job # None
    /\ \E i \in Index, p \in Presets :
        /\ p # slots[i]
        /\ \A s \in UNION {held[j] : j \in Index} : NameOf(s) = p.name => p.name = NameOf(slots[i])
        /\ Stores([slots EXCEPT ![i] = p])
    /\ panel' = panel + 1 /\ touched' = TRUE
    /\ UNCHANGED <<setting, session, job, result, jobs, faults, start>>

Reconnect ==
    /\ job = None /\ (~online \/ armed # None) /\ jobs < MaxJobs
    /\ online' = TRUE /\ armed' = None /\ result' = None
    /\ UNCHANGED <<pedal, bundles, job, jobs, faults, panel, ghosts, held>>

Asked == Capture \/ Arm \/ Import \/ Rename \/ Clear \/ SetSetting \/ Move \/ Restore \/ RestoreArmed

Capturing == CaptureListed \/ CaptureRead \/ CaptureRest \/ CaptureReused \/ CaptureEnds \/ CaptureAgain
Proving == VerifyListed \/ VerifyContents \/ VerifySetting \/ EnableWrites
Uploading == UploadListed \/ UploadData \/ UploadCommit \/ UploadNamed \/ UploadReadBack
Editing == RenameCommit \/ RenameListed \/ ClearCommit \/ ClearListed \/ SettingWrite \/ SettingRead
Restores == ArmedPreflight \/ RestorePlan \/ RestoreSlot \/ RestoreFinal
Moving == MoveListed \/ SwapBefore \/ SwapExchange \/ SwapAfter \/ LookAgain \/ MoveVerify \/ MoveFinal

Next ==
    \/ Asked \/ Panel \/ Reconnect
    \/ Capturing \/ Proving \/ Uploading \/ Editing \/ Restores \/ Moving

Spec == Init /\ [][Next]_vars

----------------------------------------------------------------------------
(* Properties                                                               *)

Returned(op, verdict) == result # None /\ result.op = op /\ result.verdict = verdict

\* The panel stored over slot i, under the name it has.
StoredOver(i, name) ==
    \E p, q \in held[i] \ {Free} : p # q /\ p.name = name /\ q.name = name

\* A captured bundle pairs each name with a content the slot held under that
\* name at one time during the capture, whatever the panel stored meanwhile; but
\* for a slot stored over in place, which the names read again do not tell.
CaptureIsTrue ==
    Returned("capture", "done") =>
        \A i \in Index : result.job.read[i] # Free =>
            result.job.read[i] \in held[i] \/ StoredOver(i, result.job.read[i].name)

\* With no exception ("Refuse the whole capture rather than bless a tear",
\* capture_reusing): it does not hold (VoidxMixed.cfg).
CapturedAsHeld ==
    Returned("capture", "done") =>
        \A i \in Index : result.job.read[i] # Free => result.job.read[i] \in held[i]

\* The rollback a session is armed with is what the pedal held when it was
\* armed, content for content: an older bundle of the same names is refused.
RollbackIsWhatWasThere ==
    Returned("arm", "done") /\ ~touched => result.job.rollback = start

\* A restore that reports success left the pedal exactly as its source, those
\* slots included that it had judged to need no write.
RestoredIsSource ==
    (Returned("restore", "done") \/ Returned("restore_armed", "done")) /\ ~touched =>
        result.job.source = [slots |-> slots, setting |-> setting]

\* An upload that reports success is stored under its name, whatever the panel
\* stored meanwhile: the pedal acknowledges uploads it drops.
ImportedIsStored == Returned("import", "done") => result.job.put \in held[result.job.at]

\* What an operation reports as done is done (restore_impl, upload_named).
ReportIsTrue == RestoredIsSource /\ ImportedIsStored

\* A move that returned its own error left every slot where it was, and one
\* that reports success moved the slot and shifted those between, contents
\* included, though only names are compared.  One request refused never
\* leaves it half done: what failed after the pedal applied it is undone too.
MoveIsWhole ==
    ~touched => /\ Returned("move", "undone") => slots = start.slots
                /\ Returned("move", "done") =>
                       slots = Moved(start.slots, result.job.from, result.job.to)
                /\ Returned("move", "stuck") /\ online => faults > 1

\* A restore with the rollback armed in the session undoes the edits made since
\* ("suitable for a sequence of guarded edits followed by restore_armed"): with
\* every request answered it does not fail.
ArmedRestoreUndoes ==
    Returned("restore_armed", "failed") /\ ~touched /\ faults = 0 => result.job.source # result.job.rollback

=============================================================================
