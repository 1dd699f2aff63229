----------------------------- MODULE BundleSwap -----------------------------
(***************************************************************************)
(* How a complete backup bundle takes the place of the one before it       *)
(* (crates/hx-usb/src/backup.rs: StagingBundle, replaceable, is_bundle,    *)
(* recover_bundle and the callers that run them: capture_with, open and    *)
(* snapshot).                                                              *)
(*                                                                         *)
(* A bundle is a directory built beside its target and published by two    *)
(* renames: target to the deterministic sibling `.previous`, staging to    *)
(* target.  Every file-system call is one action here, so that the process *)
(* can be killed, or a call can fail, between any two of them.  What a     *)
(* directory holds is abstracted to what the code can tell and what its    *)
(* owner would lose.                                                       *)
(***************************************************************************)
EXTENDS Naturals

CONSTANTS
    MaxGen,     \* bound: backups the pedal is read for
    MaxFaults   \* bound: kills and failed file-system calls together

ASSUME BoundsAssumption == MaxGen \in Nat /\ MaxFaults \in Nat

VARIABLES
    target,     \* the directory a bundle is published at
    previous,   \* its `.previous` sibling
    staging,    \* the `.incomplete` sibling this attempt is building
    pc,         \* where the running operation is
    op,         \* which operation is running
    replacing,  \* commit's `replacing`: what the target held when checked
    gen,        \* generation of the last backup read from the pedal
    faults      \* kills and failures so far

disk == <<target, previous, staging>>
vars == <<target, previous, staging, pc, op, replacing, gen, faults>>

-----------------------------------------------------------------------------
(***************************************************************************)
(* Directories.  "bundle" is complete; "torn" still has its manifest but   *)
(* lost other files; "debris" has files and no manifest; "foreign" is      *)
(* somebody else's directory, with files in it and no bundle manifest.     *)
(***************************************************************************)
Dir(kind, n) == [kind |-> kind, gen |-> n]

Absent    == Dir("absent", 0)
Empty     == Dir("empty", 0)
Foreign   == Dir("foreign", 0)
Debris    == Dir("debris", 0)
Bundle(n) == Dir("bundle", n)
Torn(n)   == Dir("torn", n)

Kinds == {"absent", "empty", "foreign", "debris", "bundle", "torn"}
Dirs  == [kind : Kinds, gen : Nat]

\* A manifest that parses is all is_bundle asks for.
IsBundle(d) == d.kind \in {"bundle", "torn"}

Exists(d) == d # Absent

\* rename(2) of a directory: the source is there and the destination is
\* free or an empty directory.
CanRename(from, to) == Exists(from) /\ to \in {Absent, Empty}

\* What remove_dir_all may have left of a directory when it is interrupted:
\* the order in which it unlinks the entries is the file system's.
Remains(d) ==
    IF d.kind = "bundle" THEN {Torn(d.gen), Debris}
    ELSE IF d.kind = "torn" THEN {Debris} ELSE {}

\* Mutant: a manifest.json that does not parse is enough to be a bundle.
ReplaceableByName(d) ==
    IF d = Absent THEN "none" ELSE IF d = Empty THEN "empty" ELSE "bundle"

\* replaceable(): "none" is a free path, "refused" somebody's files.
Replaceable(d) ==
    IF d = Absent THEN "none"
    ELSE IF IsBundle(d) THEN "bundle"
    ELSE IF d = Empty THEN "empty" ELSE "refused"

-----------------------------------------------------------------------------
Init ==
    /\ target \in {Absent, Empty, Foreign, Bundle(1)}
    /\ previous \in {Absent, Foreign}
    /\ staging = Absent
    /\ pc = "idle" /\ op = "open" /\ replacing = "none"
    /\ gen = 1 /\ faults = 0

\* One of the calls that start with recover_bundle: capture_with,
\* snapshot (of which `target` is the history directory's copy), open.
Begin(o) ==
    /\ pc = "idle"
    /\ o = "open" \/ gen < MaxGen
    /\ op' = o /\ pc' = "recover"
    /\ UNCHANGED <<disk, replacing, gen, faults>>

\* Where an operation goes on once recover_bundle has returned Ok.
AfterRecovery == IF op = "open" THEN "idle" ELSE "stage"

\* Every failing call: the error is returned, and StagingBundle's Drop
\* removes the staging directory.
Abandon ==
    /\ pc' = "idle" /\ staging' = Absent

\* Mutant: the previous bundle is removed whether or not there is another.
RecoverCheckRemoves ==
    /\ pc = "recover"
    /\ pc' = IF IsBundle(previous) THEN "recoverRemove" ELSE AfterRecovery
    /\ UNCHANGED <<disk, op, replacing, gen, faults>>

\* Mutant: nothing is recovered.
RecoverCheckSkips ==
    /\ pc = "recover"
    /\ pc' = AfterRecovery
    /\ UNCHANGED <<disk, op, replacing, gen, faults>>

RecoverCheck ==
    /\ pc = "recover"
    /\ pc' = IF ~IsBundle(previous) THEN AfterRecovery
             ELSE IF Exists(target) THEN "recoverRemove" ELSE "recoverRename"
    /\ UNCHANGED <<disk, op, replacing, gen, faults>>

RecoverRename ==
    /\ pc = "recoverRename"
    /\ CanRename(previous, target)
    /\ target' = previous /\ previous' = Absent
    /\ pc' = AfterRecovery
    /\ UNCHANGED <<staging, op, replacing, gen, faults>>

\* remove_dir_all takes more than one unlink ...
RemoveSome ==
    /\ pc \in {"recoverRemove", "reclaim"}
    /\ previous' \in Remains(previous)
    /\ UNCHANGED <<target, staging, pc, op, replacing, gen, faults>>

\* ... and then the directory is gone.
RecoverRemove ==
    /\ pc = "recoverRemove"
    /\ previous' = Absent
    /\ pc' = AfterRecovery
    /\ UNCHANGED <<target, staging, op, replacing, gen, faults>>

\* StagingBundle::new.  snapshot() keeps a copy that is there already.
Stage ==
    /\ pc = "stage"
    /\ IF op = "snapshot" /\ Exists(target)
         THEN pc' = "idle" /\ UNCHANGED staging
         ELSE pc' = "fill" /\ staging' = Empty
    /\ UNCHANGED <<target, previous, op, replacing, gen, faults>>

\* capture_into (or copy_tree) runs to its end; the manifest is last.
Fill ==
    /\ pc = "fill"
    /\ gen' = gen + 1
    /\ staging' = Bundle(gen')
    /\ pc' = "check"
    /\ UNCHANGED <<target, previous, op, replacing, faults>>

\* capture_into is refused, loses the pedal or is cancelled.
FillStops ==
    /\ pc = "fill"
    /\ Abandon
    /\ UNCHANGED <<target, previous, op, replacing, gen, faults>>

\* Mutant: commit does not act on replaceable's refusal.
CommitCheckUnrefused ==
    /\ pc = "check"
    /\ replacing' = Replaceable(target)
    /\ pc' = IF replacing' = "none" THEN "publish" ELSE "aside"
    /\ UNCHANGED <<disk, op, gen, faults>>

\* commit: what is there decides whether anything may be replaced at all.
CommitCheck ==
    /\ pc = "check"
    /\ LET found == Replaceable(target) IN
       IF found = "refused" \/ (found # "none" /\ Exists(previous))
         THEN Abandon /\ UNCHANGED replacing
         ELSE /\ replacing' = found
              /\ pc' = IF found = "none" THEN "publish" ELSE "aside"
              /\ UNCHANGED staging
    /\ UNCHANGED <<target, previous, op, gen, faults>>

\* Mutant: the old bundle is deleted in place instead of put aside.
PutAsideDeletes ==
    /\ pc = "aside"
    /\ target' \in Remains(target) \cup {Absent}
    /\ pc' = IF Exists(target') THEN "aside" ELSE "publish"
    /\ UNCHANGED <<previous, staging, op, replacing, gen, faults>>

PutAside ==
    /\ pc = "aside"
    /\ CanRename(target, previous)
    /\ previous' = target /\ target' = Absent
    /\ pc' = "publish"
    /\ UNCHANGED <<staging, op, replacing, gen, faults>>

Publish ==
    /\ pc = "publish"
    /\ CanRename(staging, target)
    /\ target' = staging /\ staging' = Absent
    /\ pc' = IF replacing = "none" THEN "idle" ELSE "reclaim"
    /\ UNCHANGED <<previous, op, replacing, gen, faults>>

\* The rename back after a failed publish; it may fail too (FailedCall).
Rollback ==
    /\ pc = "rollback"
    /\ CanRename(previous, target)
    /\ target' = previous /\ previous' = Absent
    /\ Abandon
    /\ UNCHANGED <<op, replacing, gen, faults>>

\* remove_dir_all for a bundle, remove_dir for an empty directory.
Reclaim ==
    /\ pc = "reclaim"
    /\ previous' = IF replacing = "bundle" \/ previous = Empty
                     THEN Absent ELSE previous
    /\ pc' = "idle"
    /\ UNCHANGED <<target, staging, op, replacing, gen, faults>>

\* A file-system call fails: a failed publish goes on to the rollback when
\* something was put aside, any other ends the operation.
FailedCall ==
    /\ pc \in {"recoverRename", "recoverRemove", "stage", "aside",
               "publish", "rollback", "reclaim"}
    /\ faults < MaxFaults
    /\ faults' = faults + 1
    /\ IF pc = "publish" /\ replacing # "none"
         THEN pc' = "rollback" /\ UNCHANGED staging
         ELSE Abandon
    /\ UNCHANGED <<target, previous, op, replacing, gen>>

\* The process is killed.  Its staging directory keeps a name that holds
\* the process id and a counter, so no later attempt meets it again.
Kill ==
    /\ pc # "idle"
    /\ faults < MaxFaults
    /\ faults' = faults + 1
    /\ Abandon
    /\ UNCHANGED <<target, previous, op, replacing, gen>>

Step ==
    \/ RecoverCheck \/ RecoverRename \/ RemoveSome \/ RecoverRemove
    \/ Stage \/ Fill \/ FillStops
    \/ CommitCheck \/ PutAside \/ Publish \/ Rollback \/ Reclaim

Next ==
    \/ \E o \in {"open", "capture", "snapshot"} : Begin(o)
    \/ Step
    \/ FailedCall
    \/ Kill

Spec == Init /\ [][Next]_vars

(***************************************************************************)
(* Fairness: a running operation goes on, since it is a plain sequence of  *)
(* calls on one thread, and bundles go on being opened: every connection   *)
(* and every refresh of the window opens the automatic one.                *)
(***************************************************************************)
FairSpec == Spec /\ WF_vars(Step) /\ WF_vars(Begin("open"))
-----------------------------------------------------------------------------
PCs == {"idle", "recover", "recoverRename", "recoverRemove", "stage", "fill",
        "check", "aside", "publish", "rollback", "reclaim"}

TypeOK ==
    /\ target \in Dirs /\ previous \in Dirs /\ staging \in Dirs
    /\ pc \in PCs
    /\ op \in {"open", "capture", "snapshot"}
    /\ replacing \in {"none", "bundle", "empty"}
    /\ gen \in Nat /\ faults \in Nat

\* The generation an owner gets back by opening the bundle now.
Held == IF target.kind = "bundle" THEN target.gen
        ELSE IF target = Absent /\ previous.kind = "bundle" THEN previous.gen
        ELSE 0

(***************************************************************************)
(* Property: whatever is killed or fails, and wherever, the directory goes *)
(* on holding the newest published backup until a newer complete one       *)
(* replaces it in a single step ("even a process kill between the two      *)
(* renames is recoverable on the next open").                              *)
(***************************************************************************)
Store == INSTANCE BundleStore WITH stored <- Held
KeepsNewest == Store!Spec

(***************************************************************************)
(* Property: nobody ever opens half a backup: no step of a removal, a      *)
(* rollback or a recovery leaves a torn bundle, or a bundle's debris,      *)
(* where backups are opened.                                               *)
(***************************************************************************)
NeverTorn == target.kind \notin {"torn", "debris"}

(***************************************************************************)
(* Property: a directory that is not a backup is never moved, replaced or  *)
(* deleted, at the target or at the `.previous` name (replaceable's and    *)
(* recover_bundle's promise to leave somebody's own files alone).          *)
(***************************************************************************)
ForeignStays ==
    [][/\ target = Foreign => target' = Foreign
       /\ previous = Foreign => previous' = Foreign]_vars

(***************************************************************************)
(* Property: a bundle put aside does not stay aside: after the last kill   *)
(* or failure it is back at the target, or replaced by a newer one there.  *)
(***************************************************************************)
ComesBack == (Held > 0) ~> (target.kind = "bundle")

(***************************************************************************)
(* Claim of StagingBundle::commit: "Failure to reclaim the old directory   *)
(* is harmless; recovery removes it on the next bundle operation."         *)
(* Whenever recovery has let an operation go on, nothing of a replaced     *)
(* bundle is left at `.previous`.                                          *)
(***************************************************************************)
RecoveryRemovesPrevious == pc = "stage" => previous # Debris
=============================================================================
