# tonepush in TLA+

tonepush talks to guitar pedals over USB: Line 6's HX family (`hx-proto`,
`hx-usb`, `hx-catalog`) and the StompStation PRO (`voidx-proto`,
`voidx-client`), from an editor (`tonepush-gui`), a command line
(`tonepush-cli`) and a Ruby binding. Nothing in it is a large algorithm. What is
hard is protocol: two machines pacing each other by acknowledgements, a pedal
that answers before it has done what it was asked, worker threads that keep
documents of a buffer other people change, a library rewritten slot by slot by
requests any of which may fail, two threads that must agree on which tone is
playing, a backup refreshed file by file, and directories that have to survive a
kill. This project models those, checks them with TLC, and proves the central
invariants with TLAPS.

Paths below are relative to the repository (`hx-usb/...` is `crates/hx-usb/src/...`).

## 1. Inventory

| component | state it keeps | operations | talks to | hard part | what makes it correct |
|---|---|---|---|---|---|
| HX session (`hx-usb/lib.rs`: `Session`, `Channel`) | three channels with received/acknowledged byte counts, sequence and transaction numbers, partial messages, `poisoned` | `open`, `request*`, `read_available`, `ack_pending`, `ack_idle_channels`, `keepalive`, `drop` | the pedal by bulk transfers; commands above it | the pedal stops when it is not acknowledged; any transfer may fail or time out; late replies | nobody waits for the other for good; the record of acknowledgements is true; half a request ends the session; a request takes its own reply |
| HX deferred operations (`command_deferred`, `select_preset`; `hx-usb/commands.rs` `write_preset`, `upload_ir`, `clear_ir`) | completions read and not consumed, transaction numbers per channel | send, wait for the completion, poll readiness, read back | the session | commits run after the reply; completions are missed, late, or carry another channel's number | commits never stack; success means landed |
| HX commands (`hx-usb/commands.rs`) | none | a hundred request encodings | the session | - | each is one request and one reply |
| backup directory swap (`hx-usb/backup.rs`: `StagingBundle`, `replaceable`, `recover_bundle`) | target, `.previous`, `.incomplete` directories | capture, snapshot, open | the file system | killed, or a call failing, between any two steps | the newest backup is never lost or torn; foreign directories are left alone |
| backup contents and history (`hx-usb/backup.rs`: `capture_into`, `capture_one_in`, `still_current`, `restore`, `prune`) | manifest, preset files, lists of names and checksums, the copies set aside | capture, refresh one slot, compare, set a copy aside, prune, skip, restore | the session, the swap | the pedal changes while it is read; one slot is refreshed file by file; a removal stops part-way | the bundle restores after any kill; one that calls itself current holds all that was not written behind its back; a restore that succeeds gave back the whole of it, but for settings refused |
| editor worker (`tonepush-gui/session.rs`: `Worker`) | undo and redo stacks, unsaved flag, audition and trial set aside, the preset shown | some forty commands, a poll every 700 ms | HX session; the window by two channels | the pedal's buffer changes under it; requests are refused; sessions are lost | what is kept belongs to the loaded preset; unsaved is marked; an audition is undone exactly |
| HX wire format, preset document, catalogue (`hx-proto`, `hx-catalog`) | none | encode, decode, place blocks, translate files | - | offsets and widths | round trips |
| StompStation slots, backup and restore (`voidx-client/device.rs`, `backup.rs`) | slot lists, the armed rollback | upload, rename, clear, move, setting, capture, restore, import | the pedal by requests | a move or a restore is many requests, each of which may fail with or without its effect; a name may be used once | a refused move or import leaves a known state; a rollback is what was there; a capture is one state of the pedal |
| StompStation session and firmware (`voidx-client/session.rs`, `firmware.rs`) | request ids, subscriptions, confirmed totals | request, subscribe, flash | the pedal by a stream | replies recognised by subject | a request takes its own reply |
| StompStation worker (`tonepush-gui/pro.rs`) | undo and redo of live edits, the originals an audition displaced, the chain, pending events | live edits (coalesced), chain edits, undo, redo, select, save, audition, end or keep it, reconnect | `voidx-client`; the window by two channels | edits are written at once but confirmed later; an audition leaves originals in several places; anything may be refused or lost | undo writes what was there; an audition's originals stay owed until they are back; what is shown is what plays |
| audition and put (`tonepush-gui/audition.rs`, `put.rs`, `pro.rs`) | the tone asked for, the one begun, the one the worker says plays | hear, play again, give up, withdraw, follow events | both workers | click, library change and answer cross; one failure among them | what the window says is heard is what plays; nothing plays unwanted; a request is settled |
| library, cloud, account, publishing, updates, crash reports (`tonepush-gui`) | files, HTTP state | fetch, cache, publish | servers | retries and stale caches | - |
| window (`tonepush-gui`: `lib.rs`, `shell.rs`, panes, `audition.rs`, `put.rs`) | what is drawn | sends commands, takes events | the workers | events that arrive after a later command | shows what the worker last said |
| command line, Ruby binding, tools | none | one operation per process | the crates above | - | ends its session cleanly |
| fake pedal, transcript replay (`hx-usb/fake.rs`, `replay.rs`) | test doubles | - | - | - | behave as the pedal |

`PROJECT.json` lists every component with its status and every hazard at the
line where it bites. The map from definitions to source lines is there too.

## 2. The modules

```
BundleStore  <-- refined by --  BundleSwap      BundleSwapProofs      MCBundleSwap
                                BundleContents  BundleContentsProofs  MCBundleContents
                                HxSession       HxSessionProofs       MCHxSession
                                HxDeferred      HxDeferredProofs      MCHxDeferred
                                HxEditor        HxEditorProofs        MCHxEditor
                                VoidxLibrary    VoidxLibraryProofs    MCVoidxLibrary
                                StompWorker     StompWorkerProofs     MCStompWorker
                                StompHearing    StompHearingProofs    MCStompHearing
```

The three HX modules are layers with one abstraction between each two. HxSession
has frames and acknowledgements, with requests and replies of no content.
HxDeferred takes a request and its reply as one step (HxSession's
`AnswersItsOwn` is why that is sound) and adds what the pedal does afterwards.
HxEditor takes a whole deferred operation as one step (HxDeferred's
`LandsBeforeReturn`) and adds what the worker remembers between operations.

The three StompStation modules are the same kind of layers. VoidxLibrary has the
requests a library operation consists of and the pedal's slots. StompWorker takes
a request and its answer as one step and has what the worker remembers.
StompHearing takes an audition as one step of the worker and has the two threads
between which a tone is asked for.

### BundleSwap and BundleStore - `hx-usb/backup.rs`

Three directories (`target`, `previous`, `staging`), each absent, empty, a
complete bundle of some generation, a *torn* one (manifest there, other files
gone), *debris* (files, no manifest) or *foreign*. Every file-system call of
`recover_bundle`, `StagingBundle::new`, `commit` and `drop` is an action, so
that `Kill` and `FailedCall` fit between any two. An interrupted
`remove_dir_all` leaves whatever its unspecified order of unlinking can leave.
`BundleStore` is the promise: one number that only steps to a larger one.
`BundleSwap` implements it under the mapping `Held`, the generation an
opener would find, at the target or by recovery from `.previous`.

### BundleContents - `hx-usb/backup.rs`, `tonepush-gui/session.rs`

What BundleSwap takes as a generation number: a bundle's manifest, preset files,
unreadable list, listed names, settings, impulse response and checksum, against
the pedal they were read from. The worker's jobs are a connection (`still_current`,
and a backup unless it is), a save with the one preset it refreshes
(`capture_one_in`, one file a step), a backup (`snapshot`, `prune`, `capture_into`,
one request a step; publishing is BundleSwap's and one step here), the person
skipping it, a push to the pedal, and a restore (`restore`, which judges the whole bundle
before its first write). Meanwhile others write to the pedal, requests fail and
the process is killed. `Remains` is whatever a `remove_dir_all` that stops leaves of a
copy. Ghosts: `changed` is what was written since the backup's copy of it was
read, `moved` what others wrote during the running command, `source` what the
bundle being restored held when it was taken, `refused` whether the pedal refused one of its
settings: `restore` passes over that and reports success (`backup.rs:843-846`, `962-968`), so
`RestoreIsWhole` claims the settings only without one. One setlist, one impulse response
slot, one value for the settings; a day's bundle is current or of another day by choice.

### HxSession - `hx-usb/lib.rs`, with the pedal of `hx-usb/fake.rs`

Bytes are counted in frames. Per channel: frames sent, acknowledged
(`packed`), received (`rx` = `rx_bytes`), recorded as acknowledged (`acked`),
and lost to a transfer that would not decode (`missed`). The host is one
thread, and `pc` walks through the calls (`drain_pending`, `ack_pending`,
`send_chunks`, the reply wait, `poll_notifications`, `keepalive`, `Drop`), one
action per transfer. The pedal emits notifications, sends them while its window
lets it, releases each chunk of a reply by the acknowledgement of the one before,
and does not count a keep-alive's acknowledgement on the events channel. A request may
be a deferred one: before it is sent the notifications waiting are dropped unread
(`forget_events`, in `AckDone`), while its completion is waited for all that arrive are
taken and looked at for it alone (`CompleteRead`), and without it the pedal is asked
whether it is free (`Probe`), which poisons the session when that fails. `taken` counts
what was taken out of the reader by either; only a poll outside a preset switch shows it
to anybody, and what the window misses is HxEditor's `missed`.
`WriteFails`, `ReadFails` and `ReadsNothing` are the transport's failures; a
write that timed out may have arrived or not.

### HxDeferred - `hx-usb/lib.rs`, `hx-usb/commands.rs`

What the pedal shows of three things (loaded preset, edit buffer, an impulse
response slot), the commits it has accepted and not finished, and completions
announced (`coming`) or already in the host's reader (`waiting`). The pedal may
finish a commit at any moment, announce it or not. The host's steps are
`command_deferred`'s (forget old completions, send, wait, poll readiness), the
read-backs of `select_preset` and `write_preset`, and `upload_ir`'s clearing of
a slot that already shows the name. Completions match by transaction number
alone, as in the code, so numbers that coincide between channels do so here too.
Callers ask for anything, also for what is shown already: the preset list selects
without looking at what is loaded (`session.rs:1609-1613`), and an undo or a paste may
write the document that is there. The read-back of such a call says nothing of its
commit; the ghost `unseen` is set from it until the pedal is next asked for something
while idle, and both properties except what happens meanwhile (`HxDeferredSame.cfg` is
what does). `CallerContinues` says whether the caller goes on with a session whose call
failed.

### HxEditor - `tonepush-gui/session.rs`

The pedal's loaded preset, edit buffer and stored presets, and the worker's
`history`, `future`, `dirty`, `audition`, `trial`, `shown`, `recheck`. A document
is a preset it belongs to, a version, and whether it is a tone being auditioned.
Each command is an action, those with several requests several: `Submit` (what
`handle` does before every command: keep a trial, put an audition back), the
command, and `ReloadRead`/`ReloadAsk`. `Troubles` says what goes wrong: requests
refused, the session lost anywhere, or the pedal's footswitches loading presets
between any two steps. Whole documents go out as deferred requests, which forget the
announcements that wait in the reader before they are sent and consume those that come
before their completion (`hx-usb/lib.rs:780-802`, `896-906`): `DropsNews`, which may throw
a footswitch's announcement away and then sets the ghost `missed`, until the pedal is next asked
which preset it has. A footswitch in the middle of such a request makes its read-back fail, and
the session is let go: a loss.

### VoidxLibrary - `voidx-client/device.rs`, `backup.rs`

The pedal's slots (a name and contents, or free) and one setting; what the host
holds of them: the bundles it captured, the call under way, the rollback armed in
this session. `Capture`, `Arm`, `Restore`, `RestoreArmed`, `Import`, `Move`,
`Rename`, `Clear` and the setting are jobs; each request of a job is a step, with
its guard from the code (a name that another slot holds is refused, a listing is
taken before and after a capture and compared) and each may fail: refused, or
answered by an error after having taken effect. A capture reads a slot in batches
(`CaptureRead`, then `CaptureRest` once or more) and its two ends again (`CaptureEnds`), or
takes over a bundle's content that compares equal (`CaptureReused`). Meanwhile the pedal's panel
stores presets; a slot stored over between two batches reads as any content (a mixture), and
its ends may not show it. The comparisons of an arming and of an upload are one step each: what
rests on them is claimed only if nothing was stored at the panel meanwhile. Assumed of the panel and the pedal: the panel does not reuse a
name displaced since the call began; an upload that is broken off may leave its
contents under the slot's old name. One list stands for the four the pedal has,
and one setting for all of them; the code treats them in the same loop.

### StompWorker - `tonepush-gui/pro.rs`

The pedal's live patch (a value per path, of which `Router` is the chain) and its
slots; the worker's undo and redo stacks, the originals of an audition and the stacks it
set aside; the values the panel shows (`drafts`), which travel with its edits;
the window's queue of commands. An edit is written at once and coalesced with the
one before it; `Keep` normalises a chain, idempotently, as the router's checks do.
An edit can be made at any time the pedal is online, also behind an undo, a switch or an audition
that waits: the controls go still only when the worker says that it is busy. A write fails
when the pedal refuses it, and when it answers with another value than the one
sent: what the node then holds is any value (`Strayed`).
Ghosts: `own` and `base` are the buffer as the audition, and the undo history, found
it; `spoiled` says that a failure left work half done, `drifted` that an
edit met another value than it was asked for over, `crossed` that one was asked for behind a command that
may change its node (or behind a failed edit of it), `stale` that a command failed over a buffer it had
changed and the panel was told nothing. The properties of what the worker remembers are claimed
as long as nothing is `spoiled` and no edit has both `crossed` and `drifted` (`Whole`).
Left out: the 32-step cap of the history (not reached within the bounds), a
persistent `SetNode`, backups (which chose their guard at `Connect`), `ReadPreset`,
renames; a pedal that ignores a chain write; a second `Connect` while connected.
Events are taken as drained when they are reported: what lags is the command
queue.

### StompHearing - `tonepush-gui/audition.rs`, `lib.rs`, `pro.rs`

The window (the tone `heard`, the one `withdrawn`, whether it knows what was set
`aside`, what it was told is `auditioning`) and the worker (what `plays`, what is
being written), with commands and events travelling between them and the key still
`wanted`, which both threads read and write. A frame of the window is several steps: it
takes up a `batch` of events (`Draw`), goes through what they say of what plays one by one
(`Hear`, `told` is how far), then through the failures and what can no longer arrive
(`Settle`); the worker may go on between any two, and what the user does comes between two
frames. A tone is its key; one disappears from the library at any time (`Vanish`). Ghosts: `unsaid`
is an audition the worker ended without a word (another preset selected, a
disconnect), `stuck` one the pedal refused to end. Tones fetched from the server
on the way, the keyboard, and placing tones (`put.rs`) are left out.

## 3. The runs

| run | instance | states | shows |
|---|---|---|---|
| `bundle_swap` | 4 generations, 3 kills or failures | 2 379 | `KeepsNewest` (refines BundleStore), `NeverTorn`, `ForeignStays`, `ComesBack` |
| `hx_session` | window 2, two requests in a row on one channel, requests and replies of 2 frames, deferred or not, 3 notifications, 2 faults | 659 482 | `NoMutualWait`, `RecordIsTrue`, `PartialPoisons`, `DropSettles`, `PoisonSilences`, `AnswersItsOwn`, `EventsArrive` (liveness) |
| `hx_deferred` | 2 values, 3 transaction numbers per channel | 2 835 474 | `NoStackedCommits`, `LandsBeforeReturn` |
| `hx_editor` | 2 presets, 2 versions, history of 2, every command, sessions lost | 854 798 | `KeptIsLoaded`, `CleanIsStored`, `AuditionNeverSaved`, `AuditionRestores` |
| `hx_editor_panel` | 2 presets, footswitches at any time, sessions lost | 1 964 234 | `FollowsPedal` |
| `bundle_contents` | 2 slots, 3 documents (one unreadable), 2 samples of one response, 2 settings, history of 1, 2 jobs, 1 change, 1 trouble | 10 137 096 | `StaysWhole`, `CurrentIsHeld`, `RestoreIsWhole`, `HistoryKept` |
| `voidx_library` | 3 slots, 3 names, 3 contents, 4 jobs, a failed request and a preset stored at the panel | 5 147 667 | `CaptureIsTrue`, `RollbackIsWhatWasThere`, `ReportIsTrue`, `MoveIsWhole` |
| `stomp_worker` | 2 paths, 3 values (one not normal), 4 commands, 3 of them waiting, a loss and a failed write | 2 337 778 | `LeadsBack`, `ShownIsPlayed`, `OwnSurvives`, `RefusedStepUndone` |
| `stomp_hearing` | 3 clicks, 2 other commands, a refusal or loss, a tone that vanishes | 552 182 | `WindowIsRight`, `Settles` (liveness) |
| `bundle_reclaim`, `hx_editor_put_back`, `voidx_reorder` | - | - | counterexamples, section 6 |

Some of these are two promises under one name: `ReportIsTrue` is `RestoredIsSource /\
ImportedIsStored`, `WindowIsRight` is `HeardPlays /\ NothingUnwanted`, `LeadsBack` is
`PutBackOwed /\ UndoneIsBase`.

Configurations beside these, for a reader who wants another instance of the same
modules: `HxSessionBoth` (both channels carry requests, window 1: 624 303 states,
passes), `HxEditorRefused` (one preset, requests refused: `AuditionRestores`
passes, 2 083 472 states), `StompLonger` (5 commands, 2 waiting: 14 649 951 states, passes), and the counterexamples `HxSessionForgiven`,
`HxDeferredSame`, `HxEditorReopened`, `HxEditorUnheard`, `VoidxMixed`, `BundleCurrent`, `StompPutBack`,
`StompCrossed`, `StompUnread`, `StompHearingGivenUp` and `StompHearingBaseline` of section 6.

**Why the bounds are enough.** A window of 2 with 3 notifications has one
behind the window, which is the whole hazard; 2 frames in a request and in a
reply have a place between frames; a late reply needs a request after it (2
transactions). `HxSessionBoth` has a second channel waiting while the first one
is served.
Three transaction numbers allow a completion of the other channel's request with
the number of this one's and another one after it. In `bundle_swap`, three
faults cover an interrupted backup, an interrupted recovery of it, and one more.
Two presets and two versions tell "this one" from "another"; what is kept is
compared by equality only. A history of 2 has a newest step, an older one and an
overflow. The presets and the versions are symmetric (no action names one), and
symmetry is used only in runs without liveness.

In `bundle_contents` one slot is refreshed while another changes or does not parse;
two jobs are whatever made the backup stale and the connection, backup or restore
that meets it; one kill fits between any two files. It starts without a backup, with
one of the pedal as it is, or with that and one copy, so that a history over its
limit of 1 is one backup away. A second change or trouble is beyond what TLC does in minutes.

In `voidx_library` three slots have a displaced name, the slot it is wanted in
and a bystander; a third content is what a mixture of two is; four jobs are a capture, an arming, a restore and the restore of
what was armed. In `stomp_worker` a live value and the chain are the two kinds of
original an audition keeps; three commands that wait are a pair of edits to coalesce behind another command,
and four fit an edit, an audition, an edit of the tone and its end (`StompLonger` has room for
an undo as well). In `stomp_hearing` three clicks replace a tone
that replaced another.

`HxEditorRefused` has one preset: with two, refusals in every command are
beyond what TLC does in minutes. Its property is about one buffer; commands that
switch end the audition before they switch, and are in `hx_editor`.
`CleanIsStored` is checked without refusals, and is not claimed with them: a
tone of several steps refused in the middle leaves a changed buffer with the flag
off (`load_steps`, `InsertBlock`).

**Fairness.** `BundleSwap`: a started operation goes on, and bundles go on being
opened; without the second nothing recovers, as in the code, where recovery runs
only when somebody opens or replaces a bundle. `HxSession`: a call that began goes
on (the host is a thread in a loop, and every wait has a limit), the pedal sends what its window allows, and
the worker polls infinitely often whatever else it is asked for (its loop polls
once 700 ms have passed, `session.rs:685-692`: strong fairness, since the chance
to poll comes and goes with other calls). `Emit` is not fair, and neither are
replies: `EventsArrive` holds although the pedal may never answer. `StompHearing`:
the worker's thread takes the next command or event (it waits with a timeout, so
it always comes round), and the window draws a frame when an event arrives (the
worker requests a repaint with each one); a click is not fair. Deadlock is
checked everywhere except where the bounds stop the system: in HxDeferred a
session that is gone, or out of transaction numbers, takes no more steps, and in
BundleContents and the StompStation modules the commands run out.

Every property has a mutant: a bug of the kind its code could have (a keep-alive
recorded on every channel, a switch that keeps the undo history, an audition
begun twice), under which the run must fail.

## 4. What is proved

`BundleSwapProofs`: for every number of backups, kills and failures,
`TypeCorrect`, `NeverTornHolds`, `ForeignStaysHolds`, and `KeepsNewestHolds`:
BundleSwap implements BundleStore. The inductive invariant is `TypeOK /\
Settled /\ AtPc`. `Settled` says what the two directories may look like at any
time; `AtPc` what each step knows: that what was put aside is what `commit` saw
at the target, and that the staged bundle is newer than anything published.
`NeverTorn` alone is not inductive: a torn `.previous` may only exist once the
target is whole, and `Settled` is what says so. `StepStores` then shows that each
step is a publication or leaves `Held` alone.

`HxSessionProofs`: for every window, request and reply length, number of
notifications and faults, `TypeCorrect`, `RecordIsTrueHolds`,
`PartialPoisonsHolds`, `DropSettlesHolds`, `PoisonSilencesHolds`,
`NoMutualWaitHolds` and `AnswersItsOwnHolds`. The invariant has a half for the wire (`Wire`: the counts
are ordered, `acked = packed` unless poisoned, and every channel's missing frames
are accounted for) and one for the call in progress (`Call`: what is still to be
sent, awaited and settled at each `pc`). `NoMutualWait` is a consequence: nothing
in flight makes `rx` equal `sent`, and a stalled pedal has `packed` behind
`sent`, so `acked` is behind `rx`. It assumes that transfers decode (`"garbled"
\notin FaultKinds`); `HxSessionForgiven.cfg` is what happens otherwise. For
`AnswersItsOwn` there are two more: `Queued`, that the replies on their way on a channel
carry growing transaction numbers, after those heard; and `Newest`, that the running request's
number is larger than all of them until it is sent. Its reply is then the last under way.

`HxDeferredProofs`: for every set of values and every number of requests,
`TypeCorrect`, `NoStackedCommitsHolds` and `LandsBeforeReturnHolds`. The invariant
`Waits` says that between calls nothing runs, and during one only its own commit;
a wait may be ended by a stranger's completion, and what saves it is the
read-back: it can only match once the value shown has become the one asked for,
which the call's own commit alone does, unless that value was shown already
(`unseen`, in the properties themselves). The theorems assume
callers that let go of a session after anything but a refusal
(`~CallerContinues`), as the worker's `try_on_device` does; without that
the properties fail.

`HxEditorProofs`: for any presets, versions and length of the history,
`TypeCorrect`, `KeptIsLoadedHolds`, `CleanIsStoredHolds`, `AuditionNeverSavedHolds`,
`AuditionRestoresHolds` and `FollowsPedalHolds`. The invariant is built up in
layers, each with the hypotheses it needs, so that the theorems assume no more
than they use. `Paired` says that an audition is set aside exactly while
the buffer holds a tone the worker put there, for every pc between; it needs
nothing, and `AuditionRestores` follows from it. `Following` is what the worker
believes of the pedal between a switch and the poll that notices it, or, with `missed`, does not; it needs requests that
are not refused (`"refuse" \notin Troubles`), since a refusal in the middle of a
reload leaves another preset shown. The rest needs a pedal whose footswitches stay alone as well
(`Troubles \subseteq {"lose"}`): `Alone` that the loaded preset is the one shown, `HomesPedal`
and `HomesKept` that every document the pedal or the worker has belongs to it, `UntonedPedal` and
`UntonedKept` that what is stored or kept is no tone being auditioned, `Clean` that an unmarked
buffer is the stored preset. None of them is inductive alone: what a step puts into the buffer
comes from what is kept, and what is kept from the buffer.

`BundleContentsProofs`: for any number of slots, any names and documents, any length of
the history, and however many changes, kills, failed calls and commands, `TypeCorrect`,
`StaysWholeHolds`, `CurrentIsHeldHolds`, `RestoreIsWholeHolds` and `HistoryKeptHolds`, with no
hypothesis beyond the assumptions on the constants (`BundleAssumption`,
`NoneAssumption`). The invariant is built in layers:

- `Typed`, with what the worker has in hand at each pc.
- `Whole`: the backup is `Sound` (every slot has a readable file under the name the
  manifest gives it, is noted as unreadable, or is empty; one file for a slot and a name; the
  response is the one named). `Refreshed` says why refreshing one slot keeps it so: the
  new file is there before the manifest names it, and nothing of the old one goes before the
  manifest has let go of it. `StaysWhole` alone says nothing of the file about to be
  named.
- `Tracked`: what was not written since (`changed`) is what the backup has, and what a
  running command has read is still there unless somebody wrote it again (`moved`). At
  the end of a capture the second becomes the first.
- `Stored`: every copy was a sound bundle once and is some of its files now (`Left`); the
  newest is, until the backup it was taken for is published, one of the bundle to be replaced.
- `Underway`: the slots before the one being written back hold what the bundle held when
  it was taken. `PlanLeft` is the reason a restore's preflight is enough: if what is left of
  a sound bundle has a plan for every slot, it is the plan the whole bundle had.

`VoidxLibraryProofs`: for any number of slots, any names, contents and settings, and however
many calls, failed requests and presets stored at the panel, `TypeCorrect`,
`CaptureIsTrueHolds`, `RollbackIsWhatWasThereHolds`, `ReportIsTrueHolds` and
`MoveIsWholeHolds`, with no hypothesis beyond the assumptions on the constants
(`LibraryAssumption`, `FreeAssumption`). Every property speaks of a call that has
returned, so none is inductive: the invariants say what a call knows while it runs.

- `JobOK`: what a call holds at each of its places. For a move (`Shape`), which swaps are done and
  which are left; for a restore (`Writes`), which places are of a slot to be
  written and which of one to be cleared.
- `Basics`: no name is in two slots, and each slot has been seen to hold what it holds.
- `Read`: a name a capture listed has been the slot's since it began, and what is read of a slot,
  in whatever batches, is the slot as held, or was stored over under its name (`Sound`), or the
  slot has another name by now. The second listing rules out the last, and that is
  `CaptureIsTrue`.
- `Proved`: a rollback on its way to be armed agrees with the pedal up to the slot reached. What
  is armed is then the pedal as the call found it, unless the panel stored something.
- `Uploaded` and `Restored`: what an import has committed is stored, or was dropped because of a name
  another slot had; the slots before the one being restored are the source's, and those
  after it what the plan was made for.
- `Swapping`: the list is as the swaps done leave it (`After`), or two requests have
  failed (`Faulty`). A swap answered by an error may or may not have happened, which the host
  finds out by names, and `SameNames` is why that is enough: a list that holds the old
  slots in some order, under the old names, is the old list.

`StompWorkerProofs`: for any nodes, values, presets and tones, any length of the queue, and however
many commands, refusals and losses, `TypeCorrect`, `LeadsBackHolds`,
`ShownIsPlayedHolds`, `OwnSurvivesHolds` and `RefusedStepUndoneHolds`, with no hypothesis of how
the window and the worker take turns. The constants are as `WorkerAssumption` (the
nodes are finitely many, normalising a chain twice is normalising it once) and
`NoneAssumption` say. The invariant, `IInv`:

- `QueueOK`: one edit of the chain at most waits, and unless one has `crossed`, no edit
  waits behind another kind of command.
- `Tidy`: every chain in the buffer, the stacks and the originals is one the pedal
  keeps as it is; nothing is held when nothing plays.
- `Asked`: for a node whose edit waits, over what that edit was asked for (`Chain`), where no edit
  `crossed`. The obvious form,
  that the edits waiting lead from the buffer to the drafts, is false: an answer to an
  earlier edit may overwrite the draft of a later one (section 6).
- `Shown`: of a node no edit waits for, the panel shows what the pedal has, or it is `stale`.
- `History`: of each node, the first edit in the undo history replaced what was there when the
  history began, and without one the node still holds that (`Begins`). `base` for the history in use,
  `ownBase` for the one set aside; and the originals written over the buffer are `own`. As long as
  all is `Whole`.
- `Links`: what is edited while a tone plays is among the originals; each step found what the one before it left, and the last of them left what
  the buffer has (`Joined`), as long as no edit was over a value the pedal did not have. That is why an
  undo refused half-way can be written back, and the property needs no more than that.

None is inductive alone: what an undo writes comes from the history, what the history
holds from the queue, and what the queue holds from what the panel showed.

`StompHearingProofs`: for any number of clicks, other commands, refusals, losses and tones that
vanish, however the two threads interleave, `TypeCorrect` and `WindowIsRightHolds`, with no
hypothesis. `WindowIsRight` speaks of a state with nothing in flight, so the invariant says what
is in flight:

- `InOrder`: keys are begun, said and reported as failed in the order they were asked
  for. The tone heard is the newest (`Newest`), so nothing else can be said or begun after it.
- `SaidLast`: what the worker plays is what it said last, unless it ended an audition without a
  word (`unsaid`).
- `HeardComes`: what becomes of the tone heard is still to come: it waits, is being written, failed,
  was said, or is what the window takes for playing.
- `Unheard`: with nothing heard, no audition that waits is wanted, and what plays is about to be
  ended, or is not the tone given up on, or is still to be said, and then it is put back.

`SaidLast` and `InOrder` are what the steps of the window need: a tone said over must be the
one heard (`audition_event` forgets it only then), and one given up on while something else plays is not yet
said.

**Checked only, not proved:** `ComesBack`, `EventsArrive`, `Settles` (liveness is out of
TLAPS' reach here). Nothing in the models needs recursion.

## 5. Not modelled, and why

- Opening a session (drain, handshake, the first read), sequence numbers and the
  wrap of the byte counts at 2^32: planned (HxOpen, and a module with a small
  width).
- Bytes: framing, MessagePack, documents, file formats. They are pure functions
  with round-trip tests on captured data.
- Time: `settle_flash` and the other fixed pauses. An untimed model cannot tell a
  pause that is long enough from one that is not, so `clear_ir`, renames and saves,
  which rely on pauses, are not in HxDeferred.
- StompStation: replies by subject and the serial stream, firmware, sample files,
  and in VoidxLibrary the four lists as four; in StompWorker and StompHearing what
  section 2 names.
- In BundleContents: several setlists and impulse responses (the same loops over
  more), the checks of device, firmware and value ranges, exports and single
  files, and a preset that is called "untitled", which is also the file name of one without
  a name. The lists of names and checksums of a copy in the history are
  not read by anything and count as gone once a removal began.
- In HxEditor: whole-setlist writes, restores, renames, impulse responses,
  settings, snapshots chosen on the pedal, edits made at its panel, and the events
  sent to the window.
- Two processes, or the window's thread and the worker's, on one bundle
  directory at once: planned (BundleShared).
- Code around HTTP, the window's drawing, packaging.

Opening differs from the protocol notes in one respect worth knowing:
`PROTOCOL.md:213` says the client sends HX Edit's closing HELLO when a session
drops; `Session::drop` deliberately sends none (`hx-usb/lib.rs:1327-1334`).
HxSession follows the code.

## 6. Where code and documentation disagree

The first three are runs that must fail and entries of `findings`; the others are
shown by the configuration named.

- `bundle_reclaim`: a removal of the replaced bundle that stops after its
  manifest is not finished by recovery, although `commit` says so; later backups
  are refused until somebody moves the remains.
- `hx_editor_put_back`: when the pedal refuses to have an audition put back, the
  save that asked for it saves the tone.
- `voidx_reorder`: a rollback armed before presets were reordered cannot be
  restored: `restore_armed` uploads slot by slot, and the first upload uses a name
  another slot still has.
- `VoidxMixed.cfg` (`CapturedAsHeld`): a preset stored over in place at the panel, under its
  name, while a capture reads it: the bundle has the beginning of one and the end of the other,
  when the first and the last chunk are alike. The names read again are as before, and
  `backup.rs:677-678` says to refuse "rather than bless a tear"; `CaptureIsTrue` leaves out
  such a slot.
- `HxSessionForgiven.cfg`: a transfer that will not decode, read before a request
  is sent, is forgiven by `loses_session`, and the host's count stays behind the
  pedal's.
- `HxDeferredSame.cfg` (`LandsAlways`): `write_preset` of what is loaded already returns
  before its commit has landed, although it says it does not (`hx-usb/commands.rs:641-656`).
- `HxEditorUnheard.cfg`: a footswitch's announcement is forgotten by a tone auditioned or an
  undo, and the old preset stays on screen, although `follow_preset` exists so that it
  does not (`session.rs:2364-2368`).
- `HxEditorReopened.cfg`: a session opened over unsaved changes shows them as saved.
- `StompPutBack.cfg`: `restore_audition` takes the whole list of originals before it
  writes the first; a refused one loses those that come after it.
- `StompCrossed.cfg` (`LeadsBackAcross`): an edit made while a switch, an undo or an audition waits
  behind another command. The controls go still when the worker is `busy` (`pane.rs:266-270`,
  `routing.rs:610-617`), which it says only of a command it has taken (`pro.rs:2072-2074`), so the
  edit goes out with the value shown before that command was handled; undo, and the
  originals of an audition, then lead to that value.
- `StompUnread.cfg` (`ShownAfterAll`): a tone that fails over one that plays is taken back with it, and
  nothing is read again (`pro.rs:2473-2486`): the panel goes on showing the first tone's
  values. So do a switch, a save or an end of the audition whose read afterwards fails.
- `StompHearingGivenUp.cfg`: a second tone is clicked and then leaves the library
  before it is begun; nothing ends the first one, which plays on.

- `StompHearingBaseline.cfg`: `put_back` and `keep_heard` forget what was set aside at
  once, but the worker is still said to play until it answers; a tone clicked in between
  begins with nothing set aside, and the question before unsaved changes are lost,
  which looks there, is not asked.
- `BundleCurrent.cfg`: one preset is renamed at the pedal, another is saved; the save's
  `capture_one_in` takes over the whole list of names the pedal gave, so `still_current` finds
  nothing new, and a bundle said to name "exactly what the pedal holds"
  (`backup.rs:457-464`) names the first as it was. A rename or a clear from
  the editor does the same: neither refreshes the backup.

Seven more were met and have no configuration: a switch the pedal refuses while a tone plays has
dropped the stacks the audition set aside, and the tone's own history stays, over the preset's
buffer (`SelectPreset`, `spoiled`); a live write the pedal answers with another value than the one sent fails
(`voidx-client/device.rs:428-433`), and the window goes back to the value before it, although
the node may have neither (`stale`); a confirmed live edit is reported to the window,
which shows the value confirmed (`pro.rs:2228-2262`, `733-752`) although a later edit
of the same node is on its way; the one after that is then sent as made over an older value
than the pedal has, and if a step of several nodes is refused over it, what is "put back" is
that value (`drifted`); a StompStation session lost while a
tone plays says nothing of the audition, so that after reconnecting the window
still calls it auditioned; a footswitch between `save`'s two
requests stores one preset's sound in another's slot; a footswitch pressed there
and back between two polls leaves the other preset's document in the undo
history; and a caller that keeps a session after an abandoned deferred operation
can stack the next commit on it. The hazards name the lines.

## 7. Plan

Done: the modules above. Next, in this order:

1. An abstract specification of a move (a permutation of the list, or nothing) for
   VoidxLibrary to implement, and one of the window's record of a hearing for StompHearing.
2. `VoidxSession`: replies by subject.
3. `HxOpen` (drain and handshake against a pedal that ignores every other HELLO)
   and the wrap of byte counts with a small width.
4. An abstract session of requests and replies that HxSession implements, so that
   HxDeferred's one-step requests rest on a refinement.
5. `BundleShared`: two threads on one directory. `VoidxFirmware`: a transfer that
   stops part-way. The editor's remaining commands and its events.
6. Placing tones (`put.rs`), and the routing graph's pure operations against a
   reference definition.

## 8. Running it

`tlc -config HxSession.cfg MCHxSession`, and likewise for each run of
`PROJECT.json`; `tlapm HxSessionProofs.tla` for the proofs.
