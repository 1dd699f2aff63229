------------------------ MODULE BundleContentsProofs ------------------------
(***************************************************************************)
(* BundleContents' invariants for any number of slots, any documents,       *)
(* length of the history, and however many changes, commands and failures.  *)
(***************************************************************************)
EXTENDS BundleContents, TLAPS

\* Where the worker may be.
Refreshing == {"oneNames", "oneRead", "oneFile", "oneManifest", "oneUnread", "oneListed",
               "oneClean"}
Writing    == Refreshing \ {"oneNames", "oneRead"}
Capturing  == {"reading", "settings", "irs", "commit"}
Restoring  == {"putSlot", "putSettings", "putIr"}
Places     == Refreshing \cup Capturing \cup Restoring
              \cup {"idle", "currentNames", "currentIrs", "snapshot", "prune", "listing"}

Copies == [dir : Bundles, was : Bundles]

PedalOK == slots \in [Index -> Contents] /\ ir \in Irs \cup {None} /\ setting \in Values

DiskOK ==
    /\ auto # None => auto \in Bundles /\ auto.manifest \in Manifests
    /\ history \in Seq(Copies)
    /\ Len(history) <= Keep + troubles + IF pc = "prune" THEN 1 ELSE 0
    /\ aside => Len(history) > 0

WorkerOK ==
    /\ build \in Bundles /\ source \in Bundles
    /\ at \in Index /\ labels \in [Index -> Names] \cup {None} /\ doc \in Docs \cup {Blank, None}
    /\ refused \in BOOLEAN /\ aside \in BOOLEAN /\ skip \in BOOLEAN

GhostsOK == changed \subseteq Parts /\ moved \subseteq Parts /\ troubles \in Nat

\* What the worker has in hand at each place.
Control ==
    /\ pc \in Places
    /\ pc \in Refreshing \cup {"currentIrs", "prune"} \/ aside => auto # None
    /\ pc \in Refreshing \ {"oneNames"} => labels \in [Index -> Names]
    /\ pc \in Writing => doc \in (Docs \ Unreadable) \cup {Blank}
    /\ pc \in Capturing \cup Restoring => build.manifest \in Manifests
    /\ pc \in Capturing => build.listed \in [Index -> Names]
    /\ pc \in {"irs", "commit"} \cup Restoring => build.settings \in Values

Typed == PedalOK /\ DiskOK /\ WorkerOK /\ GhostsOK /\ Control

-----------------------------------------------------------------------------
(* The parts of a bundle                                                    *)

(* What the pedal holds is a label and a document. *)
LEMMA ContentsParts ==
    ASSUME BundleAssumption
    PROVE  /\ \A s \in Contents : s.name \in Names /\ s.doc \in Docs \cup {Blank}
           /\ \A s \in Contents, d \in Docs : [s EXCEPT !.doc = d] \in Contents
           /\ \A n \in Names, d \in Docs : [name |-> n, doc |-> d] \in Contents
           /\ EmptySlot \in Contents /\ EmptySlot.doc = Blank
  BY DEF BundleAssumption, Contents, EmptySlot

(* A bundle is its seven files. *)
LEMMA BundleParts ==
    ASSUME NEW b \in Bundles
    PROVE  /\ b.manifest \in Manifests \cup {None}
           /\ b.presets \subseteq [at : Index, name : Names, doc : Docs]
           /\ b.unread \subseteq Index
           /\ b.listed \in [Index -> Names] \cup {None}
           /\ b.settings \in Values \cup {None}
           /\ b.ir \in Irs \cup {None} /\ b.sum \in Samples \cup {None}
  BY DEF Bundles

(* A manifest after one of its names was written. *)
LEMMA ManifestNamed ==
    ASSUME NEW m \in Manifests, NEW i \in Index, NEW n \in Names \cup {Unnamed}
    PROVE  /\ [m EXCEPT !.names[i] = n] \in Manifests
           /\ [m EXCEPT !.names[i] = n].ir = m.ir
           /\ [m EXCEPT !.names[i] = n].names = [m.names EXCEPT ![i] = n]
           /\ m.names \in [Index -> Names \cup {Unnamed}] /\ m.ir \in IrNames \cup {None}
  BY DEF Manifests

(* The labels the pedal lists. *)
LEMMA LabelsOK ==
    ASSUME BundleAssumption, PedalOK
    PROVE  Labels \in [Index -> Names] /\ \A i \in Index : Labels[i] = slots[i].name
  BY ContentsParts DEF PedalOK, Labels

(* The bundle of the pedal as it is, and an empty directory, are bundles. *)
LEMMA FirstBundles ==
    ASSUME BundleAssumption, PedalOK
    PROVE  /\ Copy \in Bundles /\ Copy.manifest \in Manifests
           /\ Nothing \in Bundles
  <1>1. \A i \in Index : slots[i].name \in Names /\ slots[i].doc \in Docs \cup {Blank}
    BY ContentsParts DEF PedalOK
  <1>2. Copy.manifest \in Manifests
    BY <1>1 DEF Copy, Manifests, IrName, Irs, PedalOK
  <1>3. Copy.presets \subseteq [at : Index, name : Names, doc : Docs]
    BY <1>1 DEF Copy
  <1>4. Copy.unread \subseteq Index /\ Copy.listed \in [Index -> Names]
    BY LabelsOK DEF Copy
  <1>5. Copy.settings \in Values /\ Copy.ir \in Irs \cup {None} /\ Copy.sum \in Samples \cup {None}
    BY DEF Copy, Irs, PedalOK
  <1>6. Copy \in Bundles
    BY <1>2, <1>3, <1>4, <1>5 DEF Copy, Bundles
  <1> QED BY <1>2, <1>6 DEF Nothing, Bundles

(* What a stopped removal leaves is a bundle. *)
LEMMA RemainsBundles ==
    ASSUME NEW b \in Bundles, NEW left \in Remains(b)
    PROVE  left \in Bundles
  BY DEF Remains, Bundles

(* What a restore would write is what a slot can hold. *)
LEMMA PlanContents ==
    ASSUME BundleAssumption, NEW b \in Bundles, b.manifest \in Manifests, NEW i \in Index
    PROVE  Plan(b, i) \subseteq Contents \cup {None}
  <1>1. Found(b, i) \subseteq Docs
    BY DEF Found, Bundles
  <1>2. b.manifest.names[i] \in Names \cup {Unnamed}
    BY DEF Manifests
  <1> QED BY <1>1, <1>2, ContentsParts DEF Plan

(* What is left of a sequence from one end. *)
LEMMA SubSeqKept ==
    ASSUME NEW S, NEW s \in Seq(S)
    PROVE  /\ \A i \in 0..Len(s) :
                /\ SubSeq(s, i + 1, Len(s)) \in Seq(S)
                /\ Len(SubSeq(s, i + 1, Len(s))) = Len(s) - i
                /\ \A k \in 1..Len(s) - i : SubSeq(s, i + 1, Len(s))[k] = s[i + k]
           /\ SubSeq(s, 1, Len(s) - 1) \in Seq(S)
           /\ Len(SubSeq(s, 1, Len(s) - 1)) <= Len(s)
           /\ \A k \in 1..Len(s) - 1 :
                /\ k \in DOMAIN SubSeq(s, 1, Len(s) - 1)
                /\ SubSeq(s, 1, Len(s) - 1)[k] = s[k]
  OBVIOUS

-----------------------------------------------------------------------------
(* Types                                                                    *)

(* The first state. *)
LEMMA TypedInit ==
    ASSUME BundleAssumption, Init
    PROVE  Typed
  <1>0. Stock \subseteq [Index -> Contents] /\ Keep \in Nat /\ Keep >= 1
    BY DEF BundleAssumption, Contents, EmptySlot, Index
  <1>1. PedalOK
    BY <1>0 DEF Init, PedalOK
  <1>2. /\ auto # None => auto \in Bundles /\ auto.manifest \in Manifests
        /\ history \in Seq(Copies) /\ Len(history) <= 1
    <2>1. CASE auto = None /\ history = <<>>
      <3>1. <<>> \in Seq(Copies) /\ Len(<<>>) = 0
        OBVIOUS
      <3> QED BY <2>1, <3>1
    <2>2. CASE auto = Copy /\ history \in {<<>>, <<[dir |-> auto, was |-> auto]>>}
      <3>1. [dir |-> auto, was |-> auto] \in Copies
        BY <1>1, <2>2, FirstBundles DEF Copies
      <3>2. \A c \in Copies : <<c>> \in Seq(Copies) /\ Len(<<c>>) = 1
        OBVIOUS
      <3>3. <<>> \in Seq(Copies) /\ Len(<<>>) = 0
        OBVIOUS
      <3>4. history \in Seq(Copies) /\ Len(history) <= 1
        <4>1. CASE history = <<>>
          BY <4>1, <3>3
        <4>2. CASE history = <<[dir |-> auto, was |-> auto]>>
          BY <4>2, <3>1, <3>2
        <4> QED BY <2>2, <4>1, <4>2
      <3>5. auto \in Bundles /\ auto.manifest \in Manifests
        BY <1>1, <2>2, FirstBundles
      <3> QED BY <3>4, <3>5
    <2> QED BY <2>1, <2>2 DEF Init
  <1>3. DiskOK
    <2>1. pc # "prune" /\ troubles = 0 /\ Len(history) \in Nat
      BY <1>2 DEF Init
    <2>2. Len(history) <= Keep + troubles + 0
      BY <1>0, <1>2, <2>1
    <2> QED BY <1>2, <2>1, <2>2 DEF DiskOK, Init
  <1>4. WorkerOK
    <2>1. 1 \in Index
      BY DEF BundleAssumption, Index
    <2> QED BY <1>1, <2>1, FirstBundles DEF Init, WorkerOK
  <1>5. GhostsOK /\ Control
    BY DEF Init, GhostsOK, Control, Places, Refreshing, Writing, Capturing, Restoring
  <1> QED BY <1>1, <1>3, <1>4, <1>5 DEF Typed

(* The pedal holds presets, responses and settings. *)
LEMMA PedalNext ==
    ASSUME Typed, BundleAssumption, [Next]_vars
    PROVE  PedalOK'
  <1>a. PedalOK /\ WorkerOK /\ Control
    BY DEF Typed
  <1>b. \A i \in Index, s \in Contents : [slots EXCEPT ![i] = s] \in [Index -> Contents]
    BY <1>a DEF PedalOK
  <1> USE <1>a DEF PedalOK, pedal
  <1>1. CASE Stop \/ OneNames \/ OneRead \/ OneFile \/ OneManifest \/ OneUnread \/ OneListed \/
             OneClean \/ BackUpOnConnect \/ CurrentNames \/ CurrentIrs \/ BackUp \/ Snapshot \/
             Prune \/ Listing \/ ReadSlot \/ ReadSettings \/ ReadIr \/ Commit \/ Skip \/
             Restore
    BY <1>1 DEF Stop, Idle, OneNames, Quietly, OneRead, OneFile, Writes, OneManifest, OneUnread,
       OneListed, OneClean, BackUpOnConnect, Command, CurrentNames, CurrentIrs, Trouble, BackUp,
       Snapshot, Prune, Listing, ReadSlot, ReadSettings, ReadIr, Commit, Skip, Restore
  <1>2. CASE SlotWritten
    BY <1>2, <1>b DEF SlotWritten
  <1>3. CASE SettingWritten
    BY <1>3 DEF SettingWritten
  <1>4. CASE IrWritten
    BY <1>4 DEF IrWritten
  <1>5. CASE Save
    <2>1. PICK i \in Index, d \in Docs : slots' = [slots EXCEPT ![i].doc = d]
      BY <1>5 DEF Save
    <2>2. [slots[i] EXCEPT !.doc = d] \in Contents
      BY ContentsParts
    <2>3. slots' = [slots EXCEPT ![i] = [slots[i] EXCEPT !.doc = d]]
      BY <2>1
    <2> QED BY <1>5, <1>b, <2>2, <2>3 DEF Save
  <1>6. CASE Push
    BY <1>6, <1>b DEF Push, Command, Refresh
  <1>7. CASE PutSlot
    <2>1. Plan(build, at) \subseteq Contents \cup {None} /\ at \in Index
      BY <1>7, PlanContents DEF PutSlot, WorkerOK, Control, Restoring
    <2> QED BY <1>7, <1>b, <2>1 DEF PutSlot
  <1>8. CASE PutSettings
    BY <1>8 DEF PutSettings, Control, Restoring
  <1>9. CASE PutIr
    BY <1>9, BundleParts DEF PutIr, WorkerOK
  <1>10. CASE UNCHANGED vars
    BY <1>10 DEF vars
  <1> QED BY <1>1, <1>2, <1>3, <1>4, <1>5, <1>6, <1>7, <1>8, <1>9, <1>10 DEF Next

(* The files of the backup stay in their sets. *)
LEMMA AutoNext ==
    ASSUME Typed, BundleAssumption, NoneAssumption, [Next]_vars
    PROVE  /\ (auto # None => auto \in Bundles /\ auto.manifest \in Manifests)'
           /\ auto # None => auto' # None
  <1>a. PedalOK /\ WorkerOK /\ Control /\ DiskOK
    BY DEF Typed
  <1>b. pc \in Refreshing =>
          /\ auto # None /\ auto \in Bundles /\ auto.manifest \in Manifests
          /\ auto.presets \subseteq [at : Index, name : Names, doc : Docs]
          /\ auto.unread \subseteq Index
    BY <1>a, BundleParts DEF DiskOK, Control
  <1>c. pc \in Writing =>
          /\ auto # None /\ auto \in Bundles /\ auto.manifest \in Manifests
          /\ labels \in [Index -> Names] /\ at \in Index /\ labels[at] \in Names
          /\ doc \in Docs \cup {Blank} /\ (doc # Blank => File \in [at : Index, name : Names, doc : Docs])
    BY <1>a, <1>b DEF Control, Writing, WorkerOK, Refreshing, File
  <1>d. /\ pc \in {"oneFile", "oneManifest", "oneUnread", "oneListed", "oneClean"} <=> pc \in Writing
        /\ pc \in Writing => pc \in Refreshing
    BY DEF Writing, Refreshing
  <1>e. None \notin Bundles
    BY DEF NoneAssumption
  <1> USE <1>a, <1>e DEF DiskOK, disk
  <1>1. CASE SlotWritten \/ SettingWritten \/ IrWritten \/ Stop \/ Save \/ OneNames \/ OneRead
             \/ BackUpOnConnect \/ CurrentNames \/ CurrentIrs \/ BackUp \/ Snapshot \/ Prune \/
             Listing \/ ReadSlot \/ ReadSettings \/ ReadIr \/ Skip \/ Push \/ Restore \/
             PutSlot \/ PutSettings \/ PutIr
    BY <1>1 DEF SlotWritten, SettingWritten, IrWritten, Stop, Idle, Save, Command, OneNames,
       Quietly, OneRead, BackUpOnConnect, CurrentNames, CurrentIrs, Trouble, BackUp, Snapshot,
       Prune, Listing, ReadSlot, ReadSettings, ReadIr, Skip, Push, Refresh, Restore, PutSlot,
       PutSettings, PutIr
  <1>2. CASE OneFile
    <2>1. pc \in Writing /\ auto # None
      BY <1>2, <1>c, <1>d DEF OneFile, Writes
    <2>2. CASE doc = Blank
      BY <1>2, <2>1, <2>2, <1>c DEF OneFile, Writes
    <2>3. CASE doc # Blank
      <3>1. Put(auto.presets, File) \subseteq [at : Index, name : Names, doc : Docs]
        BY <2>1, <2>3, <1>b, <1>c, <1>d DEF Put
      <3> QED BY <1>2, <2>1, <2>3, <3>1, <1>c DEF OneFile, Writes, Bundles
    <2> QED BY <2>2, <2>3
  <1>3. CASE OneManifest
    <2>1. pc \in Writing /\ auto # None
      BY <1>3, <1>c, <1>d DEF OneManifest, Writes
    <2> DEFINE n == IF doc = Blank THEN Unnamed ELSE labels[at]
               m == [auto.manifest EXCEPT !.names[at] = n]
    <2>2. n \in Names \cup {Unnamed}
      BY <2>1, <1>c
    <2>3. auto' = [auto EXCEPT !.manifest = m]
      BY <1>3 DEF OneManifest, Writes
    <2>4. m \in Manifests
      BY <2>1, <2>2, <1>c, ManifestNamed
    <2> HIDE DEF m, n
    <2> QED BY <2>1, <2>3, <2>4, <1>c DEF Bundles
  <1>4. CASE OneUnread
    BY <1>4, <1>c, <1>d DEF OneUnread, Writes, Bundles
  <1>5. CASE OneListed
    BY <1>5, <1>c, <1>d DEF OneListed, Writes, Bundles
  <1>6. CASE OneClean
    BY <1>6, <1>c, <1>d DEF OneClean, Bundles
  <1>7. CASE Commit
    BY <1>7 DEF Commit, WorkerOK, Control, Capturing
  <1>8. CASE UNCHANGED vars
    BY <1>8 DEF vars
  <1> QED BY <1>1, <1>2, <1>3, <1>4, <1>5, <1>6, <1>7, <1>8 DEF Next

(* The copies set aside stay copies, and few. *)
LEMMA HistoryNext ==
    ASSUME Typed, BundleAssumption, [Next]_vars
    PROVE  (/\ history \in Seq(Copies)
            /\ Len(history) <= Keep + troubles + IF pc = "prune" THEN 1 ELSE 0
            /\ aside => Len(history) > 0)'
  <1>a. PedalOK /\ WorkerOK /\ Control /\ DiskOK /\ GhostsOK
    BY DEF Typed
  <1>b. /\ history \in Seq(Copies) /\ Len(history) \in Nat /\ troubles \in Nat
        /\ Keep \in Nat /\ Keep >= 1
        /\ Len(history) <= Keep + troubles + 1
        /\ pc # "prune" => Len(history) <= Keep + troubles
        /\ aside => Len(history) > 0
    BY <1>a DEF DiskOK, GhostsOK, BundleAssumption
  <1>c. auto # None => /\ Copied \in Seq(Copies) /\ Len(Copied) = Len(history) + 1
    BY <1>a, <1>b DEF Copied, DiskOK, Copies
  <1> USE <1>b DEF disk, bounds, worker
  <1>1. CASE SlotWritten \/ SettingWritten \/ IrWritten \/ Stop \/ Save \/ OneNames \/ OneRead
             \/ OneFile \/ OneManifest \/ OneUnread \/ OneListed \/ OneClean \/ BackUpOnConnect
             \/ CurrentNames \/ CurrentIrs \/ BackUp \/ Listing \/ ReadSlot \/ ReadSettings \/
             ReadIr \/ Commit \/ Push \/ Restore \/ PutSlot \/ PutSettings \/ PutIr
    BY <1>1 DEF SlotWritten, SettingWritten, IrWritten, Stop, Idle, Save, Command, OneNames,
       Quietly, OneRead, OneFile, Writes, OneManifest, OneUnread, OneListed, OneClean,
       BackUpOnConnect, CurrentNames, CurrentIrs, Trouble, BackUp, Listing, ReadSlot,
       ReadSettings, ReadIr, Commit, Push, Refresh, Restore, PutSlot, PutSettings, PutIr
  <1>2. CASE Snapshot
    <2>1. CASE history' = history
      BY <1>2, <1>c, <2>1 DEF Snapshot, Trouble
    <2>2. CASE history' = Copied /\ auto # None
      BY <1>2, <1>c, <2>2 DEF Snapshot, Trouble
    <2> QED BY <1>2, <2>1, <2>2 DEF Snapshot
  <1>3. CASE Prune
    <2> DEFINE newer(i) == SubSeq(history, i + 1, Len(history))
    <2>1. Doomed \in 0..Len(history) /\ Len(history) - Doomed <= Keep
         /\ (Len(history) > 0 => Len(history) - Doomed > 0)
      BY DEF Doomed
    <2>2. \A i \in 0..Len(history) : newer(i) \in Seq(Copies) /\ Len(newer(i)) = Len(history) - i
      BY SubSeqKept
    <2>3. CASE history' = newer(Doomed) /\ pc' = "listing" /\ UNCHANGED <<aside, troubles>>
      BY <2>1, <2>2, <2>3
    <2>4. ASSUME Trouble, NEW i \in 1..Doomed, NEW left \in Remains(history[i].dir),
                 \/ history' = <<[history[i] EXCEPT !.dir = left]>> \o newer(Doomed) /\ pc' = "listing"
                 \/ history' = <<[history[i] EXCEPT !.dir = left]>> \o newer(i) /\ pc' = "idle"
          PROVE  (/\ history \in Seq(Copies)
                  /\ Len(history) <= Keep + troubles + IF pc = "prune" THEN 1 ELSE 0
                  /\ aside => Len(history) > 0)'
      <3> DEFINE c == [history[i] EXCEPT !.dir = left]
      <3>1. history[i] \in Copies /\ i \in 0..Len(history)
        BY <2>1 DEF Doomed
      <3>2. c \in Copies
        BY <3>1, RemainsBundles DEF Copies
      <3> HIDE DEF c, newer
      <3>3. \A s \in Seq(Copies) : <<c>> \o s \in Seq(Copies) /\ Len(<<c>> \o s) = Len(s) + 1
        BY <3>2
      <3>4. history' = <<c>> \o newer(Doomed) \/ history' = <<c>> \o newer(i)
        BY <2>4 DEF c
      <3>5. history' \in Seq(Copies) /\ Len(history') <= Len(history) /\ Len(history') > 0
        <4>1. CASE history' = <<c>> \o newer(Doomed)
          <5>1. newer(Doomed) \in Seq(Copies) /\ Len(newer(Doomed)) = Len(history) - Doomed
            BY <2>1, <2>2
          <5> QED BY <2>1, <3>3, <4>1, <5>1
        <4>2. CASE history' = <<c>> \o newer(i)
          <5>1. newer(i) \in Seq(Copies) /\ Len(newer(i)) = Len(history) - i
            BY <3>1, <2>2
          <5> QED BY <2>1, <3>1, <3>3, <4>2, <5>1
        <4> QED BY <3>4, <4>1, <4>2
      <3> QED BY <2>4, <3>5 DEF Trouble
    <2> QED
      <3>1. Idle => pc' = "idle" /\ ~aside'
        BY DEF Idle
      <3> QED BY <1>3, <2>3, <2>4, <3>1 DEF Prune
  <1>4. CASE Skip
    <2>1. pc # "prune" /\ pc' = "idle" /\ ~aside'
      BY <1>4 DEF Skip, Idle
    <2>2. SubSeq(history, 1, Len(history) - 1) \in Seq(Copies)
          /\ Len(SubSeq(history, 1, Len(history) - 1)) <= Len(history)
      BY SubSeqKept
    <2>3. ASSUME NEW left \in Remains(auto), aside
          PROVE  /\ [history EXCEPT ![Len(history)].dir = left] \in Seq(Copies)
                 /\ Len([history EXCEPT ![Len(history)].dir = left]) = Len(history)
      <3>1. left \in Bundles
        BY <1>a, <2>3, RemainsBundles DEF Control, DiskOK
      <3>2. \A i \in DOMAIN history : [history[i] EXCEPT !.dir = left] \in Copies
        <4>1. \A i \in DOMAIN history : history[i] \in Copies
          OBVIOUS
        <4>2. \A c \in Copies : [c EXCEPT !.dir = left] \in Copies
          BY <3>1 DEF Copies
        <4> QED BY <4>1, <4>2
      <3>3. Len(history) \in DOMAIN history
        BY <2>3
      <3>4. [history EXCEPT ![Len(history)].dir = left]
              = [history EXCEPT ![Len(history)] = [history[Len(history)] EXCEPT !.dir = left]]
        BY <3>3
      <3>5. \A c \in Copies : LET h == [history EXCEPT ![Len(history)] = c]
                            IN  h \in Seq(Copies) /\ Len(h) = Len(history)
        BY <3>3
      <3> QED BY <3>2, <3>3, <3>4, <3>5
    <2>4. CASE history' = history
      BY <1>4, <2>1, <2>4 DEF Skip, Trouble
    <2>5. CASE history' = SubSeq(history, 1, Len(history) - 1) /\ troubles' = troubles
      BY <2>1, <2>2, <2>5
    <2>6. ASSUME Trouble, aside, NEW left \in Remains(auto),
                 history' = [history EXCEPT ![Len(history)].dir = left]
          PROVE  (/\ history \in Seq(Copies)
                  /\ Len(history) <= Keep + troubles + IF pc = "prune" THEN 1 ELSE 0
                  /\ aside => Len(history) > 0)'
      BY <2>1, <2>3, <2>6 DEF Trouble
    <2> QED BY <1>4, <2>4, <2>5, <2>6 DEF Skip
  <1>5. CASE UNCHANGED vars
    BY <1>5 DEF vars
  <1> QED BY <1>1, <1>2, <1>3, <1>4, <1>5 DEF Next

(* What a restore may be of. *)
LEMMA SourcesOK ==
    ASSUME DiskOK, NEW b \in Sources, b.dir # None
    PROVE  b.dir \in Bundles /\ b.was \in Bundles
  <1>1. CASE b = [dir |-> auto, was |-> auto]
    BY <1>1 DEF DiskOK
  <1>2. ASSUME NEW k \in DOMAIN history, b = history[k]
        PROVE  b \in Copies
    BY <1>2 DEF DiskOK
  <1> QED BY <1>1, <1>2 DEF Sources, Copies

(* A bundle being read is a bundle, with its manifest and its list of names. *)
LEMMA ReadSlotKeeps ==
    ASSUME PedalOK, WorkerOK, Control, BundleAssumption, ReadSlot
    PROVE  /\ build' \in Bundles
           /\ build'.manifest \in Manifests /\ build'.manifest.ir = build.manifest.ir
           /\ build'.manifest.names =
                IF slots[at].doc = Blank THEN [build.manifest.names EXCEPT ![at] = Unnamed]
                ELSE build.manifest.names
           /\ build'.presets =
                IF slots[at].doc = Blank THEN build.presets
                ELSE Put(build.presets,
                         [at |-> at, name |-> build.listed[at], doc |-> slots[at].doc])
           /\ build'.unread =
                IF slots[at].doc \in Unreadable THEN build.unread \cup {at} ELSE build.unread
           /\ build'.listed = build.listed /\ build'.settings = build.settings
           /\ build'.ir = build.ir /\ build'.sum = build.sum
  <1>a. /\ build \in Bundles /\ build.manifest \in Manifests /\ at \in Index
        /\ build.listed \in [Index -> Names] /\ build.listed[at] \in Names
        /\ slots[at].doc \in Docs \cup {Blank} /\ Blank \notin Docs /\ Unreadable \subseteq Docs
    BY ContentsParts DEF PedalOK, WorkerOK, Control, ReadSlot, Capturing, BundleAssumption
  <1>b. build.presets \subseteq [at : Index, name : Names, doc : Docs] /\ build.unread \subseteq Index
    BY <1>a, BundleParts
  <1> DEFINE d == slots[at].doc
             m == [build.manifest EXCEPT !.names[at] = Unnamed]
             file == [at |-> at, name |-> build.listed[at], doc |-> d]
  <1>1. CASE d = Blank
    <2>1. build' = [build EXCEPT !.manifest = m]
      BY <1>1 DEF ReadSlot
    <2>2. /\ m \in Manifests /\ m.ir = build.manifest.ir
          /\ m.names = [build.manifest.names EXCEPT ![at] = Unnamed]
      BY <1>a, ManifestNamed
    <2> HIDE DEF m
    <2> QED BY <1>1, <1>a, <2>1, <2>2 DEF Bundles
  <1>2. CASE d # Blank
    <2>1. build' = [build EXCEPT !.presets = Put(build.presets, file),
                                 !.unread = IF d \in Unreadable THEN build.unread \cup {at}
                                            ELSE build.unread]
      BY <1>2 DEF ReadSlot
    <2>2. Put(build.presets, file) \subseteq [at : Index, name : Names, doc : Docs]
      BY <1>a, <1>b, <1>2 DEF Put
    <2>3. (IF d \in Unreadable THEN build.unread \cup {at} ELSE build.unread) \subseteq Index
      BY <1>a, <1>b
    <2> HIDE DEF d, file
    <2>4. build' \in Bundles
      BY <1>a, <2>1, <2>2, <2>3 DEF Bundles
    <2> QED BY <1>2, <1>a, <2>1, <2>4 DEF d, file, Bundles
  <1> QED BY <1>1, <1>2

(* And so it is with the impulse response read. *)
LEMMA ReadIrKeeps ==
    ASSUME PedalOK, WorkerOK, Control, DiskOK, BundleAssumption, ReadIr
    PROVE  /\ build' \in Bundles
           /\ build'.manifest \in Manifests /\ build'.manifest.names = build.manifest.names
           /\ build'.manifest.ir = (IF ir = None THEN build.manifest.ir ELSE ir.name)
           /\ build'.ir = (IF ir = None THEN build.ir ELSE IF Kept THEN auto.ir ELSE ir)
           /\ build'.sum = (IF ir = None THEN build.sum ELSE ir.samples)
           /\ build'.presets = build.presets /\ build'.unread = build.unread
           /\ build'.listed = build.listed /\ build'.settings = build.settings
  <1>a. build \in Bundles /\ build.manifest \in Manifests
    BY DEF WorkerOK, Control, ReadIr, Capturing
  <1>1. CASE ir = None
    BY <1>a, <1>1 DEF ReadIr
  <1>2. CASE ir # None
    <2>1. ir \in Irs /\ ir.name \in IrNames /\ ir.samples \in Samples
      BY <1>2 DEF PedalOK, Irs
    <2> DEFINE r == IF Kept THEN auto.ir ELSE ir
               m == [build.manifest EXCEPT !.ir = ir.name]
    <2>2. r \in Irs \cup {None}
      BY <2>1, BundleParts DEF Kept, DiskOK
    <2>3. m \in Manifests /\ m.names = build.manifest.names /\ m.ir = ir.name
      BY <1>a, <2>1 DEF Manifests
    <2>4. build' = [build EXCEPT !.manifest = m, !.sum = ir.samples, !.ir = r]
      BY <1>2 DEF ReadIr
    <2> HIDE DEF m
    <2>5. build' \in Bundles
      BY <1>a, <2>1, <2>2, <2>3, <2>4 DEF Bundles
    <2> QED BY <1>2, <1>a, <2>1, <2>3, <2>4, <2>5 DEF Bundles
  <1> QED BY <1>1, <1>2

(* What the worker has in hand stays in its sets. *)
LEMMA WorkerNext ==
    ASSUME Typed, BundleAssumption, [Next]_vars
    PROVE  WorkerOK'
  <1>a. PedalOK /\ WorkerOK /\ Control /\ DiskOK
    BY DEF Typed
  <1>b. Nothing \in Bundles /\ 1 \in Index
    BY <1>a, FirstBundles DEF BundleAssumption, Index
  <1>c. Labels \in [Index -> Names] /\ \A i \in Index : slots[i].doc \in Docs \cup {Blank}
    BY <1>a, LabelsOK, ContentsParts DEF PedalOK
  <1>d. Count \in Nat /\ Count >= 1 /\ at \in 1..Count
    BY <1>a DEF BundleAssumption, WorkerOK, Index
  <1>e. Idle => WorkerOK' /\ pc' = "idle" /\ ~aside'
    BY <1>b DEF Idle, WorkerOK
  <1>f. pc = "idle" \/ WorkerOK
    BY <1>a
  <1> USE DEF worker, disk, bounds, ghosts
  <1>1. CASE SlotWritten \/ SettingWritten \/ IrWritten \/ OneFile \/ OneManifest \/ OneUnread
             \/ OneListed \/ BackUpOnConnect \/ CurrentNames \/ BackUp \/ Snapshot \/ Push \/
             PutSettings \/ PutIr
    BY <1>1, <1>a DEF SlotWritten, SettingWritten, IrWritten, OneFile, Writes, OneManifest,
       OneUnread, OneListed, BackUpOnConnect, Command, CurrentNames, Quietly, BackUp, WorkerOK,
       Snapshot, Trouble, Push, Refresh, PutSettings, PutIr
  <1>2. CASE Stop
    BY <1>2, <1>e DEF Stop
  <1>3. CASE Save
    BY <1>3, <1>a, <1>b DEF Save, WorkerOK
  <1>4. CASE OneNames
    BY <1>4, <1>a, <1>c DEF OneNames, WorkerOK
  <1>5. CASE OneRead
    BY <1>5, <1>a, <1>c, <1>e DEF OneRead, WorkerOK
  <1>6. CASE OneClean
    BY <1>6, <1>e DEF OneClean
  <1>7. CASE CurrentIrs
    BY <1>7, <1>a, <1>e DEF CurrentIrs, WorkerOK
  <1>8. CASE Prune
    BY <1>8, <1>a, <1>e DEF Prune, WorkerOK
  <1>9. CASE Listing
    <2>1. [names |-> Labels, ir |-> None] \in Manifests
      BY <1>c DEF Manifests
    <2>2. build' \in Bundles
      BY <1>9, <1>b, <1>c, <2>1 DEF Listing, Nothing, Bundles
    <2> QED BY <1>9, <1>a, <1>b, <2>2 DEF Listing, WorkerOK
  <1>10. CASE ReadSlot
    <2>1. build' \in Bundles
      BY <1>10, <1>a, ReadSlotKeeps
    <2>2. at' \in Index
      BY <1>10, <1>b, <1>d DEF ReadSlot, Index
    <2> QED BY <1>10, <1>a, <2>1, <2>2 DEF ReadSlot, WorkerOK
  <1>11. CASE ReadSettings
    BY <1>11, <1>a DEF ReadSettings, WorkerOK, PedalOK, Bundles
  <1>12. CASE ReadIr
    <2>1. build' \in Bundles
      BY <1>12, <1>a, ReadIrKeeps
    <2> QED BY <1>12, <1>a, <2>1 DEF ReadIr, WorkerOK
  <1>13. CASE Commit
    BY <1>13, <1>e DEF Commit
  <1>14. CASE Skip
    BY <1>14, <1>e DEF Skip
  <1>15. CASE Restore
    <2>1. \A b \in Sources : b.dir # None => b.dir \in Bundles /\ b.was \in Bundles
      BY <1>a, SourcesOK
    <2> QED BY <1>15, <1>a, <1>b, <2>1 DEF Restore, WorkerOK
  <1>16. CASE PutSlot
    <2>1. at' \in Index
      BY <1>16, <1>b, <1>d DEF PutSlot, Index
    <2> QED BY <1>16, <1>a, <2>1 DEF PutSlot, WorkerOK
  <1>17. CASE UNCHANGED vars
    BY <1>17, <1>a DEF vars, WorkerOK
  <1> QED BY <1>1, <1>2, <1>3, <1>4, <1>5, <1>6, <1>7, <1>8, <1>9, <1>10, <1>11, <1>12, <1>13,
             <1>14, <1>15, <1>16, <1>17 DEF Next

(* The ghosts stay in their sets. *)
LEMMA GhostsNext ==
    ASSUME Typed, BundleAssumption, [Next]_vars
    PROVE  GhostsOK'
  <1>a. GhostsOK /\ at \in Index
    BY DEF Typed, WorkerOK
  <1>b. Index \subseteq Parts /\ TheSettings \in Parts /\ TheIr \in Parts
    BY DEF BundleAssumption, Index, Parts, TheSettings, TheIr
  <1> USE <1>a, <1>b DEF GhostsOK, ghosts, bounds
  <1>1. CASE SettingWritten \/ IrWritten \/ Stop \/ OneNames \/ OneRead \/ OneFile \/
             OneManifest \/ OneUnread \/ OneListed \/ BackUpOnConnect \/ CurrentNames \/
             CurrentIrs \/ BackUp \/ Snapshot \/ Prune \/ Listing \/ ReadSlot \/ ReadSettings
             \/ ReadIr \/ Commit \/ Skip \/ Restore \/ PutSettings \/ PutIr
    BY <1>1 DEF SettingWritten, IrWritten, Stop, Idle, OneNames, Quietly, OneRead, OneFile,
       Writes, OneManifest, OneUnread, OneListed, BackUpOnConnect, Command, CurrentNames,
       CurrentIrs, Trouble, BackUp, Snapshot, Prune, Listing, ReadSlot, ReadSettings, ReadIr,
       Commit, Skip, Restore, PutSettings, PutIr, Refresh
  <1>2. CASE SlotWritten
    BY <1>2 DEF SlotWritten
  <1>3. CASE Save
    BY <1>3 DEF Save, Command
  <1>4. CASE OneClean
    BY <1>4 DEF OneClean, Idle
  <1>5. CASE Push
    BY <1>5 DEF Push, Command, Refresh
  <1>6. CASE PutSlot
    BY <1>6 DEF PutSlot
  <1>7. CASE UNCHANGED vars
    BY <1>7 DEF vars
  <1> QED BY <1>1, <1>2, <1>3, <1>4, <1>5, <1>6, <1>7 DEF Next

(* What each place needs is there when it is reached. *)
LEMMA ControlNext ==
    ASSUME Typed, BundleAssumption, NoneAssumption, [Next]_vars
    PROVE  Control'
  <1>a. PedalOK /\ WorkerOK /\ Control /\ DiskOK
    BY DEF Typed
  <1>b. Labels \in [Index -> Names] /\ \A i \in Index : slots[i].doc \in Docs \cup {Blank}
    BY <1>a, LabelsOK, ContentsParts DEF PedalOK
  <1>c. Idle => pc' = "idle" /\ ~aside'
    BY DEF Idle
  <1> USE <1>a DEF Control, Places, Refreshing, Writing, Capturing, Restoring
  <1>d. auto # None => auto' # None
    BY AutoNext
  <1> USE DEF worker, disk, bounds, ghosts
  <1>1. CASE SlotWritten
    BY <1>1 DEF SlotWritten
  <1>2. CASE SettingWritten
    BY <1>2 DEF SettingWritten
  <1>3. CASE IrWritten
    BY <1>3 DEF IrWritten
  <1>4. CASE Stop
    BY <1>4, <1>c DEF Stop
  <1>5. CASE Save
    BY <1>5 DEF Save, Command
  <1>6. CASE OneNames
    BY <1>6, <1>b DEF OneNames, Quietly
  <1>7. CASE OneRead
    BY <1>7, <1>b, <1>c DEF OneRead, Quietly, WorkerOK
  <1>8. CASE OneFile
    BY <1>8, <1>c, <1>d DEF OneFile, Writes
  <1>9. CASE OneManifest
    BY <1>9, <1>c, <1>d DEF OneManifest, Writes
  <1>10. CASE OneUnread
    BY <1>10, <1>c, <1>d DEF OneUnread, Writes
  <1>11. CASE OneListed
    BY <1>11, <1>c, <1>d DEF OneListed, Writes
  <1>12. CASE OneClean
    BY <1>12, <1>c, <1>d DEF OneClean
  <1>13. CASE BackUpOnConnect
    BY <1>13 DEF BackUpOnConnect, Command
  <1>14. CASE CurrentNames
    BY <1>14 DEF CurrentNames, Quietly
  <1>15. CASE CurrentIrs
    BY <1>15, <1>c DEF CurrentIrs, Trouble
  <1>16. CASE BackUp
    BY <1>16 DEF BackUp, Command
  <1>17. CASE Snapshot
    BY <1>17 DEF Snapshot, Trouble
  <1>18. CASE Prune
    BY <1>18, <1>c DEF Prune, Trouble
  <1>19. CASE Listing
    <2>1. build'.manifest \in Manifests /\ build'.listed \in [Index -> Names]
      BY <1>19, <1>b DEF Listing, Nothing, Manifests
    <2> QED BY <1>19, <2>1 DEF Listing
  <1>20. CASE ReadSlot
    BY <1>20, ReadSlotKeeps DEF ReadSlot, Quietly
  <1>21. CASE ReadSettings
    BY <1>21 DEF ReadSettings, Quietly, PedalOK, Bundles, WorkerOK
  <1>22. CASE ReadIr
    BY <1>22, ReadIrKeeps DEF ReadIr, Quietly
  <1>23. CASE Commit
    BY <1>23, <1>c DEF Commit
  <1>24. CASE Skip
    BY <1>24, <1>c DEF Skip, Trouble
  <1>25. CASE Push
    BY <1>25 DEF Push, Command, Refresh
  <1>26. CASE Restore
    <2>1. build'.manifest \in Manifests /\ build'.settings \in Values
      <3>1. PICK b \in Sources : b.dir # None /\ Restorable(b.dir) /\ build' = b.dir
        BY <1>26 DEF Restore
      <3> QED BY <3>1, SourcesOK DEF Restorable, Bundles
    <2> QED BY <1>26, <2>1 DEF Restore, Command
  <1>27. CASE PutSlot
    BY <1>27 DEF PutSlot
  <1>28. CASE PutSettings
    BY <1>28 DEF PutSettings
  <1>29. CASE PutIr
    BY <1>29 DEF PutIr, Refresh
  <1>30. CASE UNCHANGED vars
    BY <1>30 DEF vars
  <1> QED BY <1>1, <1>2, <1>3, <1>4, <1>5, <1>6, <1>7, <1>8, <1>9, <1>10, <1>11, <1>12, <1>13,
             <1>14, <1>15, <1>16, <1>17, <1>18, <1>19, <1>20, <1>21, <1>22, <1>23, <1>24, <1>25,
             <1>26, <1>27, <1>28, <1>29, <1>30 DEF Next

(* Every step keeps them. *)
LEMMA TypedNext ==
    ASSUME Typed, BundleAssumption, NoneAssumption, [Next]_vars
    PROVE  Typed'
  BY PedalNext, AutoNext, HistoryNext, WorkerNext, GhostsNext, ControlNext DEF Typed, DiskOK

(* Every variable keeps to its values, and the history to its length and one more *)
(* for each removal that failed. *)
THEOREM TypeCorrect == Spec => []TypeOK
  <1>1. Init => Typed
    BY TypedInit, BundleAssumption
  <1>2. Typed /\ [Next]_vars => Typed'
    BY TypedNext, BundleAssumption, NoneAssumption
  <1>3. Typed => TypeOK
    BY BundleAssumption DEF Typed, PedalOK, DiskOK, WorkerOK, GhostsOK, Copies, TypeOK
  <1> QED BY <1>1, <1>2, <1>3, PTL DEF Spec

-----------------------------------------------------------------------------
(* The backup can be restored at any time                                   *)

\* Slot i of a bundle is one a restore can write or is told to leave alone.
Stands(b, i) ==
    \/ i \in b.unread \/ b.manifest.names[i] = Unnamed
    \/ \E f \in b.presets : f.at = i /\ f.name = b.manifest.names[i] /\ f.doc \notin Unreadable

\* One file for each slot and name.
Keyed(b) == \A f, g \in b.presets : f.at = g.at /\ f.name = g.name => f = g

\* The response is the one the manifest names, with its checksum.
Responds(b) ==
    /\ b.manifest.ir = IrName(b.ir)
    /\ b.ir # None => b.sum = b.ir.samples

Sound(b) ==
    /\ b.manifest \in Manifests /\ b.settings \in Values
    /\ \A i \in Index : Stands(b, i)
    /\ Keyed(b) /\ Responds(b)

\* The name the manifest is given for the slot refreshed.
Given == IF doc = Blank THEN Unnamed ELSE labels[at]

\* The new file is there before the manifest names it, and the manifest names it
\* before anything that goes with the old one does.
Refreshed ==
    /\ pc \in Writing \ {"oneFile"} /\ doc # Blank => File \in auto.presets
    /\ pc \in {"oneUnread", "oneListed", "oneClean"} => auto.manifest.names[at] = Given

\* What has been read so far stands.
Read ==
    /\ pc = "reading" => \A i \in Index : IF i < at THEN Stands(build, i)
                                          ELSE build.manifest.names[i] = build.listed[i]
    /\ pc \in {"settings", "irs", "commit"} => \A i \in Index : Stands(build, i)
    /\ pc \in Capturing => Keyed(build)
    /\ pc \in Capturing \ {"commit"} => build.ir = None /\ build.manifest.ir = None
    /\ pc = "commit" => Responds(build)

Whole == (auto # None => Sound(auto)) /\ Refreshed /\ Read

(* A slot that stands is one the restore has a plan for. *)
LEMMA PlanStands ==
    ASSUME NEW b, NEW i
    PROVE  Plan(b, i) # {} <=> Stands(b, i)
  BY DEF Plan, Found, Stands

(* A sound bundle passes all that a restore looks at. *)
LEMMA SoundRestores ==
    ASSUME NoneAssumption, NEW b, Sound(b)
    PROVE  Restorable(b)
  BY PlanStands DEF NoneAssumption, Sound, Responds, Restorable

(* A bundle stays sound when a readable file is put into it, *)
LEMMA FileSound ==
    ASSUME NEW b \in Bundles, Sound(b), NEW f, f.doc \notin Unreadable
    PROVE  Sound([b EXCEPT !.presets = Put(b.presets, f)])
  <1> DEFINE c == [b EXCEPT !.presets = Put(b.presets, f)]
  <1>1. /\ c.presets = Put(b.presets, f) /\ c.manifest = b.manifest /\ c.unread = b.unread
        /\ c.settings = b.settings /\ c.ir = b.ir /\ c.sum = b.sum
    BY DEF Bundles
  <1> HIDE DEF c
  <1>2. \A i \in Index : Stands(c, i)
    BY <1>1 DEF Sound, Stands, Put
  <1>3. Keyed(c)
    BY <1>1 DEF Sound, Keyed, Put
  <1>4. Sound(c)
    BY <1>1, <1>2, <1>3 DEF Sound, Responds
  <1> QED BY <1>4 DEF c

(* when its manifest takes a name whose file is there, *)
LEMMA NameSound ==
    ASSUME NEW b \in Bundles, Sound(b), NEW i \in Index, NEW n \in Names \cup {Unnamed},
           n = Unnamed \/ \E f \in b.presets : f.at = i /\ f.name = n /\ f.doc \notin Unreadable
    PROVE  /\ Sound([b EXCEPT !.manifest.names[i] = n])
           /\ [b EXCEPT !.manifest.names[i] = n].manifest.names[i] = n
  <1> DEFINE m == [b.manifest EXCEPT !.names[i] = n]
             c == [b EXCEPT !.manifest = m]
  <1>1. m \in Manifests /\ m.ir = b.manifest.ir /\ m.names = [b.manifest.names EXCEPT ![i] = n]
        /\ b.manifest.names \in [Index -> Names \cup {Unnamed}]
    BY ManifestNamed DEF Sound
  <1> HIDE DEF m
  <1>2. /\ c.presets = b.presets /\ c.manifest = m /\ c.unread = b.unread
        /\ c.settings = b.settings /\ c.ir = b.ir /\ c.sum = b.sum
    BY DEF Bundles
  <1> HIDE DEF c
  <1>3. \A j \in Index : Stands(c, j)
    BY <1>1, <1>2 DEF Sound, Stands
  <1>4. Sound(c) /\ c.manifest.names[i] = n
    BY <1>1, <1>2, <1>3 DEF Sound, Responds, Keyed
  <1> QED BY <1>4 DEF c, m

(* when what its manifest names is no longer called unreadable, *)
LEMMA UnreadSound ==
    ASSUME NEW b \in Bundles, Sound(b), NEW i \in Index,
           \/ b.manifest.names[i] = Unnamed
           \/ \E f \in b.presets :
                f.at = i /\ f.name = b.manifest.names[i] /\ f.doc \notin Unreadable
    PROVE  Sound([b EXCEPT !.unread = b.unread \ {i}])
  <1> DEFINE c == [b EXCEPT !.unread = b.unread \ {i}]
  <1>1. /\ c.presets = b.presets /\ c.manifest = b.manifest /\ c.unread = b.unread \ {i}
        /\ c.settings = b.settings /\ c.ir = b.ir /\ c.sum = b.sum
    BY DEF Bundles
  <1> HIDE DEF c
  <1>2. \A j \in Index : Stands(c, j)
    BY <1>1 DEF Sound, Stands
  <1>3. Sound(c)
    BY <1>1, <1>2 DEF Sound, Responds, Keyed
  <1> QED BY <1>3 DEF c

(* when it takes another list, *)
LEMMA ListSound ==
    ASSUME NEW b \in Bundles, Sound(b), NEW l
    PROVE  Sound([b EXCEPT !.listed = l])
  <1> DEFINE c == [b EXCEPT !.listed = l]
  <1>1. /\ c.presets = b.presets /\ c.manifest = b.manifest /\ c.unread = b.unread
        /\ c.settings = b.settings /\ c.ir = b.ir /\ c.sum = b.sum
    BY DEF Bundles
  <1> HIDE DEF c
  <1>2. Sound(c)
    BY <1>1 DEF Sound, Responds, Keyed, Stands
  <1> QED BY <1>2 DEF c

(* and when files go that no slot's name stands for. *)
LEMMA CleanSound ==
    ASSUME NEW b \in Bundles, Sound(b), NEW P,
           \A f \in P : f.name # b.manifest.names[f.at]
    PROVE  Sound([b EXCEPT !.presets = b.presets \ P])
  <1> DEFINE c == [b EXCEPT !.presets = b.presets \ P]
  <1>1. /\ c.presets = b.presets \ P /\ c.manifest = b.manifest /\ c.unread = b.unread
        /\ c.settings = b.settings /\ c.ir = b.ir /\ c.sum = b.sum
    BY DEF Bundles
  <1> HIDE DEF c
  <1>2. \A j \in Index : Stands(c, j)
    BY <1>1 DEF Sound, Stands
  <1>3. Sound(c)
    BY <1>1, <1>2 DEF Sound, Responds, Keyed
  <1> QED BY <1>3 DEF c

(* The bundle of the pedal as it is is sound. *)
LEMMA CopySound ==
    ASSUME BundleAssumption, NoneAssumption, PedalOK
    PROVE  Sound(Copy)
  <1>1. ASSUME NEW i \in Index, slots[i].doc \notin Unreadable
        PROVE  Stands(Copy, i)
    <2>1. Copy.manifest.names[i] = IF slots[i].doc = Blank THEN Unnamed ELSE slots[i].name
      BY DEF Copy
    <2>2. CASE slots[i].doc # Blank
      <3>1. [at |-> i, name |-> slots[i].name, doc |-> slots[i].doc] \in Copy.presets
        BY <2>2 DEF Copy
      <3> QED BY <1>1, <2>1, <2>2, <3>1 DEF Stands
    <2> QED BY <2>1, <2>2 DEF Stands
  <1>2. \A i \in Index : slots[i].doc \in Unreadable => Stands(Copy, i)
    BY DEF Copy, Stands
  <1>3. Keyed(Copy)
    BY DEF Copy, Keyed
  <1>4. Responds(Copy)
    BY DEF Copy, Responds
  <1>5. Copy.manifest \in Manifests /\ Copy.settings \in Values
    BY FirstBundles DEF Copy, PedalOK
  <1> QED BY <1>1, <1>2, <1>3, <1>4, <1>5 DEF Sound

(* The first state is sound. *)
LEMMA WholeInit ==
    ASSUME BundleAssumption, NoneAssumption, Init
    PROVE  Whole
  <1>1. PedalOK
    BY TypedInit DEF Typed
  <1>2. auto # None => Sound(auto)
    BY <1>1, CopySound DEF Init
  <1>3. Refreshed /\ Read
    BY DEF Init, Refreshed, Read, Writing, Refreshing, Capturing
  <1> QED BY <1>2, <1>3 DEF Whole

(* The automatic backup stays sound, whatever file is written. *)
LEMMA AutoSound ==
    ASSUME Typed, BundleAssumption, NoneAssumption, Whole, [Next]_vars
    PROVE  (auto # None => Sound(auto))'
  <1>a. auto # None => auto \in Bundles /\ Sound(auto)
    BY DEF Typed, DiskOK, Whole
  <1>b. pc \in Writing =>
          /\ auto # None /\ at \in Index /\ labels[at] \in Names
          /\ doc \in (Docs \ Unreadable) \cup {Blank} /\ Given \in Names \cup {Unnamed}
    BY DEF Typed, Control, Writing, WorkerOK, Given
  <1>c. /\ File.at = at /\ File.name = labels[at] /\ File.doc = doc
        /\ Refreshed /\ Read
    BY DEF File, Whole
  <1>d. /\ pc \in {"oneFile", "oneManifest", "oneUnread", "oneListed", "oneClean"} <=> pc \in Writing
        /\ Unreadable \subseteq Docs /\ Blank \notin Docs
    BY DEF Writing, Refreshing, BundleAssumption
  <1> USE DEF disk
  <1>1. CASE SlotWritten \/ SettingWritten \/ IrWritten \/ Stop \/ Save \/ OneNames \/ OneRead
             \/ BackUpOnConnect \/ CurrentNames \/ CurrentIrs \/ BackUp \/ Snapshot \/ Prune \/
             Listing \/ ReadSlot \/ ReadSettings \/ ReadIr \/ Skip \/ Push \/ Restore \/
             PutSlot \/ PutSettings \/ PutIr
    BY <1>1, <1>a DEF SlotWritten, SettingWritten, IrWritten, Stop, Idle, Save, Command,
       OneNames, Quietly, OneRead, BackUpOnConnect, CurrentNames, CurrentIrs, Trouble, BackUp,
       Snapshot, Prune, Listing, ReadSlot, ReadSettings, ReadIr, Skip, Push, Refresh, Restore,
       PutSlot, PutSettings, PutIr
  <1>2. CASE OneFile
    <2>1. pc \in Writing /\ auto' = IF doc = Blank THEN auto
                                    ELSE [auto EXCEPT !.presets = Put(auto.presets, File)]
      BY <1>2, <1>d DEF OneFile, Writes
    <2>2. doc \notin Unreadable
      BY <1>b, <1>d, <2>1
    <2> QED BY <1>a, <1>b, <1>c, <2>1, <2>2, FileSound
  <1>3. CASE OneManifest
    <2>1. pc \in Writing /\ auto' = [auto EXCEPT !.manifest.names[at] = Given]
      BY <1>3, <1>d DEF OneManifest, Writes, Given
    <2>2. Given = Unnamed \/ (File \in auto.presets /\ Given = labels[at] /\ doc \notin Unreadable)
      BY <1>3, <1>b, <1>c, <1>d, <2>1 DEF OneManifest, Writes, Refreshed, Given
    <2> HIDE DEF Given
    <2>3. Given = Unnamed \/ \E f \in auto.presets : f.at = at /\ f.name = Given /\ f.doc \notin Unreadable
      BY <1>c, <2>2
    <2> QED BY <1>a, <1>b, <2>1, <2>3, NameSound
  <1>4. CASE OneUnread
    <2>1. pc \in Writing /\ auto' = [auto EXCEPT !.unread = auto.unread \ {at}]
      BY <1>4, <1>d DEF OneUnread, Writes
    <2>2. \/ auto.manifest.names[at] = Unnamed
          \/ File \in auto.presets /\ auto.manifest.names[at] = labels[at] /\ doc \notin Unreadable
      BY <1>4, <1>b, <1>c, <1>d, <2>1 DEF OneUnread, Writes, Refreshed, Given
    <2> QED BY <1>a, <1>b, <1>c, <2>1, <2>2, UnreadSound
  <1>5. CASE OneListed
    BY <1>5, <1>a, <1>b, <1>d, ListSound DEF OneListed, Writes
  <1>6. CASE OneClean
    <2>1. pc \in Writing /\ auto' = [auto EXCEPT !.presets = auto.presets \ Others]
      BY <1>6, <1>d DEF OneClean
    <2>2. auto.manifest.names[at] = Given
      BY <1>6, <1>c DEF OneClean, Refreshed
    <2>3. auto.presets \subseteq [at : Index, name : Names, doc : Docs]
      BY <1>a, <1>b, <2>1, BundleParts
    <2>4. \A f \in Others : f.name # auto.manifest.names[f.at]
      BY <1>c, <2>2, <2>3 DEF Others, Given, BundleAssumption
    <2> QED BY <1>a, <1>b, <2>1, <2>4, CleanSound
  <1>7. CASE Commit
    <2>1. pc = "commit" /\ auto' = build
      BY <1>7 DEF Commit
    <2> QED BY <1>c, <2>1 DEF Typed, Control, Capturing, Read, Sound
  <1>8. CASE UNCHANGED vars
    BY <1>8, <1>a DEF vars
  <1> QED BY <1>1, <1>2, <1>3, <1>4, <1>5, <1>6, <1>7, <1>8 DEF Next

(* What is known of the slot being refreshed. *)
LEMMA RefreshedNext ==
    ASSUME Typed, BundleAssumption, NoneAssumption, Whole, [Next]_vars
    PROVE  Refreshed'
  <1>a. auto # None => auto \in Bundles /\ Sound(auto)
    BY DEF Typed, DiskOK, Whole
  <1>b. /\ pc \in Writing => auto # None /\ at \in Index /\ Given \in Names \cup {Unnamed}
        /\ Refreshed
    BY DEF Typed, Control, Writing, WorkerOK, Given, Whole
  <1>d. Idle => pc' = "idle"
    BY DEF Idle
  <1> USE DEF disk, worker, Refreshed, Writing, Refreshing
  <1>1. CASE IrWritten \/ Stop \/ Save \/ OneNames \/ OneRead \/ OneClean \/ BackUpOnConnect \/
             CurrentNames \/ CurrentIrs \/ BackUp \/ Snapshot \/ Prune \/ Listing \/ ReadSlot
             \/ ReadSettings \/ ReadIr \/ Commit \/ Skip \/ Push \/ Restore \/ PutSlot \/
             PutSettings \/ PutIr
    BY <1>1, <1>d DEF IrWritten, Stop, Save, Command, OneNames, Quietly, OneRead, OneClean,
       BackUpOnConnect, CurrentNames, CurrentIrs, Trouble, BackUp, Snapshot, Prune, Listing,
       ReadSlot, ReadSettings, ReadIr, Commit, Skip, Push, Refresh, Restore, PutSlot,
       PutSettings, PutIr
  <1>2. CASE SlotWritten
    BY <1>2, <1>b DEF SlotWritten, File, Given
  <1>3. CASE SettingWritten
    BY <1>3, <1>b DEF SettingWritten, File, Given
  <1>4. CASE OneFile
    <2>1. auto \in Bundles
      BY <1>4, <1>a, <1>b DEF OneFile, Writes
    <2>2. doc # Blank => auto' = [auto EXCEPT !.presets = Put(auto.presets, File)]
      BY <1>4 DEF OneFile, Writes
    <2>3. doc # Blank => File \in auto'.presets
      BY <2>1, <2>2 DEF Bundles, Put
    <2> QED BY <1>4, <2>3 DEF OneFile, Writes, File
  <1>5. CASE OneManifest
    <2>1. /\ auto \in Bundles /\ Sound(auto) /\ at \in Index /\ Given \in Names \cup {Unnamed}
          /\ auto' = [auto EXCEPT !.manifest.names[at] = Given]
      BY <1>5, <1>a, <1>b DEF OneManifest, Writes, Given
    <2>2. /\ auto'.presets = auto.presets
          /\ auto'.manifest.names[at] = Given
      <3> DEFINE m == [auto.manifest EXCEPT !.names[at] = Given]
      <3>1. m.names[at] = Given
        BY <2>1 DEF Sound, Manifests
      <3>2. auto' = [auto EXCEPT !.manifest = m]
        BY <2>1
      <3> HIDE DEF m
      <3> QED BY <2>1, <3>1, <3>2 DEF Bundles
    <2>3. UNCHANGED <<at, labels, doc>> /\ pc = "oneManifest" /\ pc' = "oneUnread"
      BY <1>5 DEF OneManifest, Writes
    <2>4. File' = File /\ Given' = Given
      BY <2>3 DEF File, Given
    <2> QED BY <1>b, <2>2, <2>3, <2>4
  <1>6. CASE OneUnread
    <2>1. auto \in Bundles /\ auto' = [auto EXCEPT !.unread = auto.unread \ {at}]
      BY <1>6, <1>a, <1>b DEF OneUnread, Writes
    <2>2. auto'.presets = auto.presets /\ auto'.manifest = auto.manifest
      BY <2>1 DEF Bundles
    <2>3. UNCHANGED <<at, labels, doc>> /\ pc = "oneUnread" /\ pc' = "oneListed"
      BY <1>6 DEF OneUnread, Writes
    <2>4. File' = File /\ Given' = Given
      BY <2>3 DEF File, Given
    <2> QED BY <1>b, <2>2, <2>3, <2>4
  <1>7. CASE OneListed
    <2>1. auto \in Bundles /\ (auto' = auto \/ auto' = [auto EXCEPT !.listed = labels])
      BY <1>7, <1>a, <1>b DEF OneListed, Writes
    <2>2. auto'.presets = auto.presets /\ auto'.manifest = auto.manifest
      BY <2>1 DEF Bundles
    <2>3. UNCHANGED <<at, labels, doc>> /\ pc = "oneListed" /\ pc' = "oneClean"
      BY <1>7 DEF OneListed, Writes
    <2>4. File' = File /\ Given' = Given
      BY <2>3 DEF File, Given
    <2> QED BY <1>b, <2>2, <2>3, <2>4
  <1>8. CASE UNCHANGED vars
    BY <1>8, <1>b DEF vars, File, Given
  <1> QED BY <1>1, <1>2, <1>3, <1>4, <1>5, <1>6, <1>7, <1>8 DEF Next

(* What has been read of the pedal stands. *)
LEMMA ReadNext ==
    ASSUME Typed, BundleAssumption, NoneAssumption, Whole, [Next]_vars
    PROVE  Read'
  <1>a. /\ PedalOK /\ DiskOK /\ WorkerOK /\ Control /\ Read
        /\ auto # None => Sound(auto)
    BY DEF Typed, Whole
  <1>b. Idle => pc' = "idle"
    BY DEF Idle
  <1>c. Count \in Nat /\ Count >= 1 /\ Index = 1..Count /\ at \in 1..Count
    BY <1>a DEF BundleAssumption, WorkerOK, Index
  <1> USE DEF disk, worker, Capturing
  <1>1. CASE IrWritten \/ Stop \/ Save \/ OneNames \/ OneRead \/ OneFile \/ OneManifest \/
             OneUnread \/ OneListed \/ OneClean \/ BackUpOnConnect \/ CurrentNames \/
             CurrentIrs \/ BackUp \/ Snapshot \/ Prune \/ Commit \/ Skip \/ Push \/ Restore \/
             PutSlot \/ PutSettings \/ PutIr
    BY <1>1, <1>b DEF IrWritten, Read, Stop, Save, Command, OneNames, Quietly, OneRead, OneFile,
       Writes, OneManifest, OneUnread, OneListed, OneClean, BackUpOnConnect, CurrentNames,
       CurrentIrs, Trouble, BackUp, Snapshot, Prune, Commit, Skip, Push, Refresh, Restore,
       PutSlot, PutSettings, PutIr
  <1>2. CASE SlotWritten
    BY <1>2, <1>a DEF SlotWritten, Read
  <1>3. CASE SettingWritten
    BY <1>3, <1>a DEF SettingWritten, Read
  <1>4. CASE Listing
    <2>1. /\ build'.manifest.names = Labels /\ build'.manifest.ir = None /\ build'.listed = Labels
          /\ build'.presets = {} /\ build'.ir = None
      BY <1>4 DEF Listing, Nothing
    <2>2. pc' = "reading" /\ at' = 1
      BY <1>4 DEF Listing
    <2> QED BY <1>c, <2>1, <2>2 DEF Read, Keyed
  <1>5. CASE ReadSlot
    <2>1. pc = "reading" /\ Keyed(build) /\ build.ir = None /\ build.manifest.ir = None
      BY <1>5, <1>a DEF ReadSlot, Read
    <2>2. /\ \A i \in Index : i < at => Stands(build, i)
          /\ \A i \in Index : i >= at => build.manifest.names[i] = build.listed[i]
      BY <1>a, <1>c, <2>1 DEF Read
    <2>3. /\ build'.manifest.ir = build.manifest.ir
          /\ build'.manifest.names =
               IF slots[at].doc = Blank THEN [build.manifest.names EXCEPT ![at] = Unnamed]
               ELSE build.manifest.names
          /\ build'.presets =
               IF slots[at].doc = Blank THEN build.presets
               ELSE Put(build.presets,
                        [at |-> at, name |-> build.listed[at], doc |-> slots[at].doc])
          /\ build'.unread =
               IF slots[at].doc \in Unreadable THEN build.unread \cup {at} ELSE build.unread
          /\ build'.listed = build.listed /\ build'.ir = build.ir
      BY <1>5, <1>a, ReadSlotKeeps
    <2>4. build.manifest.names \in [Index -> Names \cup {Unnamed}] /\ at \in Index
      BY <1>a, <1>c, <2>1 DEF Control, Manifests
    <2>5. Keyed(build')
      BY <2>1, <2>3 DEF Keyed, Put
    <2>6. ASSUME NEW i \in Index, i < at
          PROVE  Stands(build', i)
      <3>1. i # at /\ Stands(build, i)
        BY <1>c, <2>2, <2>6
      <3>2. build'.manifest.names[i] = build.manifest.names[i]
        BY <2>3, <2>4, <3>1
      <3>3. i \in build.unread => i \in build'.unread
        BY <2>3
      <3>4. \A f \in build.presets : f.at = i => f \in build'.presets
        BY <2>3, <3>1 DEF Put
      <3> QED BY <3>1, <3>2, <3>3, <3>4 DEF Stands
    <2>7. \A i \in Index : i > at => build'.manifest.names[i] = build'.listed[i]
      BY <1>c, <2>2, <2>3, <2>4
    <2>8. Stands(build', at)
      <3>1. CASE slots[at].doc = Blank
        BY <2>3, <2>4, <3>1 DEF Stands
      <3>2. CASE slots[at].doc \in Unreadable
        BY <2>3, <2>4, <3>2 DEF Stands
      <3>3. CASE slots[at].doc # Blank /\ slots[at].doc \notin Unreadable
        <4> DEFINE file == [at |-> at, name |-> build.listed[at], doc |-> slots[at].doc]
        <4>1. file \in build'.presets
          BY <2>3, <3>3 DEF Put
        <4>2. build'.manifest.names[at] = file.name
          BY <1>c, <2>2, <2>3, <2>4, <3>3
        <4> QED BY <3>3, <4>1, <4>2 DEF Stands
      <3> QED BY <3>1, <3>2, <3>3
    <2>9. \/ pc' = "reading" /\ at' = at + 1
          \/ pc' = "settings" /\ at = Count
      BY <1>5, <1>c, <2>1 DEF ReadSlot
    <2>10. \A i \in Index : i <= at => Stands(build', i)
      BY <1>c, <2>6, <2>8
    <2> HIDE DEF Keyed
    <2>11. CASE pc' = "reading" /\ at' = at + 1
      BY <1>c, <2>1, <2>3, <2>5, <2>7, <2>10, <2>11 DEF Read
    <2>12. CASE pc' = "settings" /\ at = Count
      BY <1>c, <2>1, <2>3, <2>5, <2>10, <2>12 DEF Read
    <2> QED BY <2>9, <2>11, <2>12
  <1>6. CASE ReadSettings
    <2>1. /\ pc = "settings" /\ pc' = "irs"
          /\ \A i \in Index : Stands(build, i)
          /\ Keyed(build) /\ build.ir = None /\ build.manifest.ir = None
      BY <1>6, <1>a DEF ReadSettings, Read
    <2>2. /\ build'.presets = build.presets /\ build'.manifest = build.manifest
          /\ build'.unread = build.unread /\ build'.ir = build.ir
      BY <1>6, <1>a DEF ReadSettings, WorkerOK, Bundles
    <2> QED BY <2>1, <2>2 DEF Read, Keyed, Stands
  <1>7. CASE ReadIr
    <2>1. /\ pc = "irs" /\ pc' = "commit"
          /\ \A i \in Index : Stands(build, i)
          /\ Keyed(build) /\ build.ir = None /\ build.manifest.ir = None
      BY <1>7, <1>a DEF ReadIr, Read
    <2>2. /\ build'.manifest.names = build.manifest.names
          /\ build'.manifest.ir = (IF ir = None THEN build.manifest.ir ELSE ir.name)
          /\ build'.ir = (IF ir = None THEN build.ir ELSE IF Kept THEN auto.ir ELSE ir)
          /\ build'.sum = (IF ir = None THEN build.sum ELSE ir.samples)
          /\ build'.presets = build.presets /\ build'.unread = build.unread
      BY <1>7, <1>a, ReadIrKeeps
    <2>3. Kept => /\ auto.ir # None /\ auto.ir.name = ir.name /\ auto.ir.samples = ir.samples
      BY <1>a DEF Kept, Sound, Responds
    <2>4. Responds(build')
      BY <2>1, <2>2, <2>3 DEF Responds, IrName
    <2> QED BY <2>1, <2>2, <2>4 DEF Read, Keyed, Stands
  <1>8. CASE UNCHANGED vars
    BY <1>8, <1>a DEF vars, Read
  <1> QED BY <1>1, <1>2, <1>3, <1>4, <1>5, <1>6, <1>7, <1>8 DEF Next

(* Every step keeps the backup whole. *)
LEMMA WholeNext ==
    ASSUME Typed, BundleAssumption, NoneAssumption, Whole, [Next]_vars
    PROVE  Whole'
  BY AutoSound, RefreshedNext, ReadNext DEF Whole

(* Whichever step of refreshing one preset was the last, and whatever was being read, *)
(* the automatic backup passes everything a restore looks at. *)
THEOREM StaysWholeHolds == Spec => []StaysWhole
  <1>1. Init => Typed /\ Whole
    BY TypedInit, WholeInit, BundleAssumption, NoneAssumption
  <1>2. Typed /\ Whole /\ [Next]_vars => Typed' /\ Whole'
    BY TypedNext, WholeNext, BundleAssumption, NoneAssumption
  <1>3. Whole => StaysWhole
    BY SoundRestores, NoneAssumption DEF Whole, StaysWhole
  <1> QED BY <1>1, <1>2, <1>3, PTL DEF Spec

-----------------------------------------------------------------------------
(* What calls itself current is what the pedal holds                        *)

\* Held, of any contents of a slot.
HeldAs(b, i, s) ==
    /\ Found(b, i) = {s.doc} \ {Blank}
    /\ b.manifest.names[i] = IF s.doc = Blank THEN Unnamed ELSE s.name
    /\ i \in b.unread <=> s.doc \in Unreadable

\* What was not written since is what the backup has.
Agrees ==
    auto # None =>
        /\ \A i \in Index : i \in changed \/ Held(auto, i)
        /\ TheIr \in changed \/ auto.ir = ir
        /\ TheSettings \in changed \/ auto.settings = setting

\* The slot refreshed was written; and what was read of it is there still, unless
\* somebody has written it again.
Refreshes ==
    /\ pc \in Refreshing => at \in changed
    /\ pc \in Refreshing \ {"oneNames"} => at \in moved \/ labels[at] = slots[at].name
    /\ pc \in Writing => at \in moved \/ doc = slots[at].doc
    /\ pc \in {"oneListed", "oneClean"} => at \notin auto.unread

\* So is what a whole backup has read.
Captures ==
    /\ pc = "reading" => \A i \in Index :
          IF i < at THEN i \in moved \/ Held(build, i)
          ELSE /\ i \notin build.unread /\ \A f \in build.presets : f.at # i
               /\ i \in moved \/ build.listed[i] = slots[i].name
    /\ pc \in {"settings", "irs", "commit"} => \A i \in Index : i \in moved \/ Held(build, i)
    /\ pc \in {"irs", "commit"} => TheSettings \in moved \/ build.settings = setting
    /\ pc = "commit" => build.ir = ir

\* The lists the pedal gave were those of the backup, and are still.
Compared ==
    /\ pc = "currentIrs" => moved # {} \/ auto.listed = Labels
    /\ verdict = "current" =>
          /\ pc = "idle" /\ auto # None
          /\ moved = {} => auto.listed = Labels /\ auto.manifest.ir = IrName(ir)

Tracked == Agrees /\ Refreshes /\ Captures /\ Compared

(* A slot's copy is what its own files make it. *)
LEMMA HeldKept ==
    ASSUME NEW b, NEW c, NEW i, NEW s, HeldAs(b, i, s),
           c.manifest.names[i] = b.manifest.names[i],
           i \in c.unread <=> i \in b.unread,
           \A f : f.at = i => (f \in c.presets <=> f \in b.presets)
    PROVE  HeldAs(c, i, s)
  <1>1. Found(c, i) = Found(b, i)
    BY DEF Found
  <1> QED BY <1>1 DEF HeldAs

(* Refreshing one preset touches the files of that slot alone. *)
LEMMA OthersKept ==
    ASSUME Typed, BundleAssumption, NEW i \in Index, i # at,
           OneFile \/ OneManifest \/ OneUnread \/ OneListed \/ OneClean
    PROVE  /\ auto'.manifest.names[i] = auto.manifest.names[i]
           /\ i \in auto'.unread <=> i \in auto.unread
           /\ \A f : f.at = i => (f \in auto'.presets <=> f \in auto.presets)
           /\ auto'.ir = auto.ir /\ auto'.settings = auto.settings
  <1>a. auto \in Bundles /\ auto.manifest \in Manifests /\ at \in Index /\ pc \in Writing
    BY DEF Typed, DiskOK, Control, WorkerOK, Writing, Refreshing, OneFile, OneManifest, OneUnread,
           OneListed, OneClean, Writes
  <1>1. CASE OneFile
    <2>1. auto' = auto \/ auto' = [auto EXCEPT !.presets = Put(auto.presets, File)]
      BY <1>1 DEF OneFile, Writes
    <2>2. File.at = at
      BY DEF File
    <2> QED BY <1>a, <2>1, <2>2 DEF Bundles, Put
  <1>2. CASE OneManifest
    <2> DEFINE m == [auto.manifest EXCEPT !.names[at] = Given]
    <2>1. auto' = [auto EXCEPT !.manifest = m]
      BY <1>2 DEF OneManifest, Writes, Given
    <2>2. m.names[i] = auto.manifest.names[i]
      BY <1>a DEF Manifests
    <2> HIDE DEF m
    <2> QED BY <1>a, <2>1, <2>2 DEF Bundles
  <1>3. CASE OneUnread
    BY <1>a, <1>3 DEF OneUnread, Writes, Bundles
  <1>4. CASE OneListed
    BY <1>a, <1>4 DEF OneListed, Writes, Bundles
  <1>5. CASE OneClean
    BY <1>a, <1>5 DEF OneClean, Bundles, Others
  <1> QED BY <1>1, <1>2, <1>3, <1>4, <1>5

(* A response and settings are never refreshed alone. *)
LEMMA FieldsKept ==
    ASSUME Typed, OneFile \/ OneManifest \/ OneUnread \/ OneListed \/ OneClean
    PROVE  auto'.ir = auto.ir /\ auto'.settings = auto.settings
  <1>a. auto \in Bundles
    BY DEF Typed, DiskOK, Control, Writing, Refreshing, OneFile, OneManifest, OneUnread, OneListed,
           OneClean, Writes
  <1>b. \A x : /\ [auto EXCEPT !.presets = x].ir = auto.ir
               /\ [auto EXCEPT !.presets = x].settings = auto.settings
               /\ [auto EXCEPT !.manifest = x].ir = auto.ir
               /\ [auto EXCEPT !.manifest = x].settings = auto.settings
               /\ [auto EXCEPT !.unread = x].ir = auto.ir
               /\ [auto EXCEPT !.unread = x].settings = auto.settings
               /\ [auto EXCEPT !.listed = x].ir = auto.ir
               /\ [auto EXCEPT !.listed = x].settings = auto.settings
    BY <1>a DEF Bundles
  <1>1. OneManifest => \E x : auto' = [auto EXCEPT !.manifest = x]
    BY DEF OneManifest, Writes
  <1>2. OneFile \/ OneClean => \E x : auto' = auto \/ auto' = [auto EXCEPT !.presets = x]
    BY DEF OneFile, OneClean, Writes
  <1>3. OneUnread => \E x : auto' = [auto EXCEPT !.unread = x]
    BY DEF OneUnread, Writes
  <1>4. OneListed => \E x : auto' = auto \/ auto' = [auto EXCEPT !.listed = x]
    BY DEF OneListed, Writes
  <1>5. CASE OneManifest
    BY <1>b, <1>1, <1>5
  <1>6. CASE OneFile \/ OneClean
    BY <1>b, <1>2, <1>6
  <1>7. CASE OneUnread
    BY <1>b, <1>3, <1>7
  <1>8. CASE OneListed
    BY <1>b, <1>4, <1>8
  <1> QED BY <1>5, <1>6, <1>7, <1>8

(* When the last of its files is done with, the slot refreshed holds what was read. *)
LEMMA CleanHeld ==
    ASSUME Typed, BundleAssumption, Whole, Tracked, OneClean, at \notin moved
    PROVE  HeldAs(auto', at, slots[at])
  <1>1. /\ pc = "oneClean" /\ auto # None /\ auto \in Bundles /\ at \in Index /\ Sound(auto)
        /\ doc \in (Docs \ Unreadable) \cup {Blank}
    BY DEF Typed, DiskOK, Control, WorkerOK, Writing, Refreshing, OneClean, Whole
  <1>2. /\ doc # Blank => File \in auto.presets
        /\ auto.manifest.names[at] = Given /\ at \notin auto.unread
        /\ labels[at] = slots[at].name /\ doc = slots[at].doc
    BY <1>1 DEF Whole, Refreshed, Tracked, Refreshes, Writing, Refreshing
  <1>3. /\ auto'.presets = auto.presets \ Others /\ auto'.manifest = auto.manifest
        /\ auto'.unread = auto.unread
    BY <1>1 DEF OneClean, Bundles
  <1>4. File.at = at /\ File.name = labels[at] /\ File.doc = doc
    BY DEF File
  <1>5. Found(auto', at) = {doc} \ {Blank}
    <2>1. CASE doc = Blank
      BY <1>3, <2>1 DEF Found, Others
    <2>2. CASE doc # Blank
      <3>1. File \in auto'.presets
        BY <1>2, <1>3, <1>4, <2>2 DEF Others
      <3>2. \A f \in auto'.presets : f.at = at /\ f.name = labels[at] => f = File
        BY <1>1, <1>2, <1>3, <1>4, <2>2 DEF Sound, Keyed
      <3>3. auto'.manifest.names[at] = labels[at]
        BY <1>2, <1>3, <2>2 DEF Given
      <3> QED BY <1>4, <2>2, <3>1, <3>2, <3>3 DEF Found
    <2> QED BY <2>1, <2>2
  <1>6. doc \notin Unreadable
    BY <1>1 DEF BundleAssumption
  <1> QED BY <1>2, <1>3, <1>5, <1>6 DEF HeldAs, Given

(* Six steps write the automatic backup. *)
LEMMA OnlyWrites ==
    ASSUME [Next]_vars
    PROVE  \/ UNCHANGED auto
           \/ OneFile \/ OneManifest \/ OneUnread \/ OneListed \/ OneClean \/ Commit
  <1> USE DEF disk
  <1>1. CASE SlotWritten \/ SettingWritten \/ IrWritten \/ Stop \/ Save \/ OneNames \/ OneRead
             \/ BackUpOnConnect \/ CurrentNames \/ CurrentIrs \/ BackUp \/ Snapshot \/ Prune \/
             Listing \/ ReadSlot \/ ReadSettings \/ ReadIr \/ Skip \/ Push \/ Restore \/
             PutSlot \/ PutSettings \/ PutIr
    BY <1>1 DEF SlotWritten, SettingWritten, IrWritten, Stop, Idle, Save, Command, OneNames,
       Quietly, OneRead, BackUpOnConnect, CurrentNames, CurrentIrs, Trouble, BackUp, Snapshot,
       Prune, Listing, ReadSlot, ReadSettings, ReadIr, Skip, Push, Refresh, Restore, PutSlot,
       PutSettings, PutIr
  <1>2. CASE OneFile
    BY <1>2
  <1>3. CASE OneManifest
    BY <1>3
  <1>4. CASE OneUnread
    BY <1>4
  <1>5. CASE OneListed
    BY <1>5
  <1>6. CASE OneClean
    BY <1>6
  <1>7. CASE Commit
    BY <1>7
  <1>8. CASE UNCHANGED vars
    BY <1>8 DEF vars
  <1> QED BY <1>1, <1>2, <1>3, <1>4, <1>5, <1>6, <1>7, <1>8 DEF Next

(* The bundle of the pedal as it is holds what the pedal holds. *)
LEMMA CopyHeld ==
    ASSUME BundleAssumption, PedalOK, NEW i \in Index
    PROVE  Held(Copy, i)
  <1>1. slots[i].name \in Names /\ slots[i].doc \in Docs \cup {Blank}
    BY ContentsParts DEF PedalOK
  <1>2. /\ Copy.manifest.names[i] = IF slots[i].doc = Blank THEN Unnamed ELSE slots[i].name
        /\ i \in Copy.unread <=> slots[i].doc \in Unreadable
    BY DEF Copy
  <1>3. \A f \in Copy.presets : f.at = i =>
           slots[i].doc # Blank /\ f.name = slots[i].name /\ f.doc = slots[i].doc
    BY DEF Copy
  <1>4. slots[i].doc # Blank =>
           [at |-> i, name |-> slots[i].name, doc |-> slots[i].doc] \in Copy.presets
    BY DEF Copy
  <1>5. Found(Copy, i) = {slots[i].doc} \ {Blank}
    <2>1. CASE slots[i].doc = Blank
      BY <1>3, <2>1 DEF Found
    <2>2. CASE slots[i].doc # Blank
      BY <1>2, <1>3, <1>4, <2>2 DEF Found
    <2> QED BY <2>1, <2>2
  <1> QED BY <1>2, <1>5 DEF Held

(* The worker starts with no backup, or one of the pedal as it is. *)
LEMMA TrackedInit ==
    ASSUME BundleAssumption, NoneAssumption, Init
    PROVE  Tracked
  <1>1. PedalOK
    BY TypedInit DEF Typed
  <1>2. Agrees
    BY <1>1, CopyHeld DEF Init, Agrees, Copy
  <1> QED BY <1>2 DEF Init, Tracked, Refreshes, Captures, Compared, Writing, Refreshing

(* What the pedal holds changes only where it is noted. *)
LEMMA SlotsKept ==
    ASSUME Typed, [Next]_vars
    PROVE  \/ /\ \A i \in Index : i \in changed' \/ (i \notin changed /\ slots'[i] = slots[i])
              /\ TheIr \in changed' \/ (TheIr \notin changed /\ ir' = ir)
              /\ TheSettings \in changed' \/ (TheSettings \notin changed /\ setting' = setting)
           \/ OneClean \/ Commit
  <1>a. slots \in [Index -> Contents]
    BY DEF Typed, PedalOK
  <1> USE <1>a DEF ghosts, pedal
  <1>1. CASE Stop \/ OneNames \/ OneRead \/ OneFile \/ OneManifest \/ OneUnread \/ OneListed \/
             OneClean \/ BackUpOnConnect \/ CurrentNames \/ CurrentIrs \/ BackUp \/ Snapshot \/
             Prune \/ Listing \/ ReadSlot \/ ReadSettings \/ ReadIr \/ Commit \/ Skip \/
             Restore
    BY <1>1 DEF Stop, Idle, OneNames, Quietly, OneRead, OneFile, Writes, OneManifest, OneUnread,
       OneListed, OneClean, BackUpOnConnect, Command, CurrentNames, CurrentIrs, Trouble, BackUp,
       Snapshot, Prune, Listing, ReadSlot, ReadSettings, ReadIr, Commit, Skip, Restore
  <1>2. CASE SlotWritten
    BY <1>2 DEF SlotWritten
  <1>3. CASE SettingWritten
    BY <1>3 DEF SettingWritten
  <1>4. CASE IrWritten
    BY <1>4 DEF IrWritten
  <1>5. CASE Save
    BY <1>5 DEF Save, Command
  <1>6. CASE Push
    BY <1>6 DEF Push, Command, Refresh
  <1>7. CASE PutSlot
    BY <1>7 DEF PutSlot
  <1>8. CASE PutSettings
    BY <1>8 DEF PutSettings
  <1>9. CASE PutIr
    BY <1>9 DEF PutIr, Refresh
  <1>10. CASE UNCHANGED vars
    BY <1>10 DEF vars
  <1> QED BY <1>1, <1>2, <1>3, <1>4, <1>5, <1>6, <1>7, <1>8, <1>9, <1>10 DEF Next

(* Unless the backup is written, what it agreed on it agrees on. *)
LEMMA AgreesNext ==
    ASSUME Typed, BundleAssumption, NoneAssumption, Whole, Tracked, [Next]_vars
    PROVE  Agrees'
  <1>a. Typed' /\ Whole'
    BY TypedNext, WholeNext
  <1>b. Agrees /\ Refreshes /\ Captures
    BY DEF Tracked
  <1>c. at \in Index /\ TheIr \notin Index /\ TheSettings \notin Index
    BY DEF Typed, WorkerOK, BundleAssumption, Index, TheIr, TheSettings
  <1>1. CASE UNCHANGED auto /\ ~OneClean /\ ~Commit
    BY <1>1, <1>b, SlotsKept DEF Agrees, Held, Found
  <1>2. CASE OneFile \/ OneManifest \/ OneUnread \/ OneListed
    <2>1. auto # None /\ at \in changed /\ UNCHANGED <<pedal, changed>>
      BY <1>2, <1>b DEF OneFile, OneManifest, OneUnread, OneListed, Writes, Typed, Control,
                        Refreshing, Refreshes
    <2>2. ASSUME NEW i \in Index, i \notin changed
          PROVE  Held(auto, i)'
      <3>1. HeldAs(auto, i, slots[i]) /\ i # at
        BY <1>b, <2>1, <2>2 DEF Agrees, Held, HeldAs
      <3>2. HeldAs(auto', i, slots[i])
        BY <1>2, <3>1, HeldKept, OthersKept
      <3> QED BY <2>1, <3>2 DEF Held, HeldAs, Found, pedal
    <2>3. auto'.ir = auto.ir /\ auto'.settings = auto.settings
      BY <1>2, FieldsKept
    <2> QED BY <1>b, <2>1, <2>2, <2>3 DEF Agrees, pedal
  <1>3. CASE OneClean
    <2>1. /\ auto # None /\ UNCHANGED pedal
          /\ changed' = IF at \in moved THEN changed ELSE changed \ {at}
      BY <1>3 DEF OneClean, Typed, Control, Refreshing
    <2>2. ASSUME NEW i \in Index, i # at, i \notin changed
          PROVE  Held(auto, i)'
      <3>1. HeldAs(auto, i, slots[i])
        BY <1>b, <2>1, <2>2 DEF Agrees, Held, HeldAs
      <3>2. HeldAs(auto', i, slots[i])
        BY <1>3, <2>2, <3>1, HeldKept, OthersKept
      <3> QED BY <2>1, <3>2 DEF Held, HeldAs, Found, pedal
    <2>3. ASSUME at \notin moved
          PROVE  \A i : i = at => Held(auto, i)'
      <3>1. HeldAs(auto', at, slots[at])
        BY <1>3, <2>3, CleanHeld
      <3>2. HeldAs(auto', at, slots'[at])
        BY <2>1, <3>1 DEF pedal
      <3>3. \A i : HeldAs(auto', i, slots'[i]) => Held(auto, i)'
        BY DEF Held, HeldAs, Found
      <3> QED BY <3>2, <3>3
    <2>4. auto'.ir = auto.ir /\ auto'.settings = auto.settings
      BY <1>3, FieldsKept
    <2>5. at \in changed
      BY <1>3, <1>b DEF OneClean, Refreshes, Refreshing
    <2> QED BY <1>b, <1>c, <2>1, <2>2, <2>3, <2>4, <2>5 DEF Agrees, pedal
  <1>4. CASE Commit
    BY <1>4, <1>b DEF Commit, Captures, Agrees, pedal, Held, Found
  <1>5. \/ UNCHANGED auto \/ OneFile \/ OneManifest \/ OneUnread \/ OneListed \/ OneClean \/ Commit
    BY OnlyWrites
  <1> QED BY <1>1, <1>2, <1>3, <1>4, <1>5

(* What was read of the slot refreshed is what the pedal holds, until it is written. *)
LEMMA RefreshesNext ==
    ASSUME Typed, BundleAssumption, NoneAssumption, Whole, Tracked, [Next]_vars
    PROVE  Refreshes'
  <1>a. /\ slots \in [Index -> Contents] /\ at \in Index /\ Refreshes
        /\ pc \in Refreshing => auto \in Bundles
    BY DEF Typed, PedalOK, WorkerOK, Tracked, DiskOK, Control
  <1>b. Idle => pc' = "idle"
    BY DEF Idle
  <1> USE <1>a DEF disk, pedal, worker, ghosts, Refreshes, Writing, Refreshing
  <1>1. CASE IrWritten \/ Stop \/ OneClean \/ BackUpOnConnect \/ CurrentNames \/ CurrentIrs \/
             BackUp \/ Snapshot \/ Prune \/ Listing \/ ReadSlot \/ ReadSettings \/ ReadIr \/
             Commit \/ Skip \/ Push \/ Restore \/ PutSlot \/ PutSettings \/ PutIr
    BY <1>1, <1>b DEF IrWritten, Stop, OneClean, BackUpOnConnect, Command, CurrentNames,
       Quietly, CurrentIrs, Trouble, BackUp, Snapshot, Prune, Listing, ReadSlot, ReadSettings,
       ReadIr, Commit, Skip, Push, Refresh, Restore, PutSlot, PutSettings, PutIr
  <1>2. CASE SlotWritten
    BY <1>2 DEF SlotWritten
  <1>3. CASE SettingWritten
    BY <1>3 DEF SettingWritten
  <1>4. CASE Save
    BY <1>4 DEF Save, Command
  <1>5. CASE OneNames
    BY <1>5 DEF OneNames, Quietly, Labels
  <1>6. CASE OneRead
    <2>1. CASE Idle
      BY <1>b, <2>1
    <2>2. CASE ~Idle
      BY <1>6, <2>2 DEF OneRead, Quietly
    <2> QED BY <2>1, <2>2
  <1>7. CASE OneFile
    BY <1>7 DEF OneFile, Writes
  <1>8. CASE OneManifest
    BY <1>8 DEF OneManifest, Writes
  <1>9. CASE OneUnread
    <2>1. auto'.unread = auto.unread \ {at}
      BY <1>9 DEF OneUnread, Writes, Bundles
    <2> QED BY <1>9, <2>1 DEF OneUnread, Writes
  <1>10. CASE OneListed
    <2>1. auto'.unread = auto.unread
      BY <1>10 DEF OneListed, Writes, Bundles
    <2> QED BY <1>10, <2>1 DEF OneListed, Writes
  <1>11. CASE UNCHANGED vars
    BY <1>11 DEF vars
  <1> QED BY <1>1, <1>2, <1>3, <1>4, <1>5, <1>6, <1>7, <1>8, <1>9, <1>10, <1>11 DEF Next

(* What was read of the whole pedal is what it holds, until it is written. *)
LEMMA CapturesNext ==
    ASSUME Typed, BundleAssumption, NoneAssumption, Whole, Tracked, [Next]_vars
    PROVE  Captures'
  <1>a. /\ slots \in [Index -> Contents] /\ build \in Bundles /\ Captures
        /\ PedalOK /\ WorkerOK /\ Control /\ DiskOK /\ Read
    BY DEF Typed, PedalOK, WorkerOK, Tracked, Whole
  <1>b. Idle => pc' = "idle"
    BY DEF Idle
  <1>c. /\ Count \in Nat /\ Count >= 1 /\ Index = 1..Count /\ at \in 1..Count
        /\ TheIr \notin Index /\ TheSettings \notin Index
    BY DEF Typed, WorkerOK, BundleAssumption, Index, TheIr, TheSettings
  <1> USE DEF disk, pedal, worker, ghosts, Capturing
  <1>1. CASE IrWritten \/ Stop \/ Save \/ OneNames \/ OneRead \/ OneFile \/ OneManifest \/
             OneUnread \/ OneListed \/ OneClean \/ BackUpOnConnect \/ CurrentNames \/
             CurrentIrs \/ BackUp \/ Snapshot \/ Prune \/ Commit \/ Skip \/ Push \/ Restore \/
             PutSlot \/ PutSettings \/ PutIr
    BY <1>1, <1>b DEF IrWritten, Captures, Stop, Save, Command, OneNames, Quietly, OneRead,
       OneFile, Writes, OneManifest, OneUnread, OneListed, OneClean, BackUpOnConnect,
       CurrentNames, CurrentIrs, Trouble, BackUp, Snapshot, Prune, Commit, Skip, Push, Refresh,
       Restore, PutSlot, PutSettings, PutIr
  <1>2. CASE SlotWritten
    <2>1. /\ \A i \in Index : slots'[i] = slots[i] \/ i \in moved'
          /\ moved \subseteq moved' /\ UNCHANGED <<ir, setting, pc, at, build>>
      BY <1>2, <1>a DEF SlotWritten
    <2>2. \A i \in Index : i \in moved \/ Held(build, i) => i \in moved' \/ Held(build, i)'
      BY <2>1 DEF Held, Found
    <2> QED BY <1>a, <2>1, <2>2 DEF Captures
  <1>3. CASE SettingWritten
    <2>1. /\ moved \subseteq moved' /\ TheSettings \in moved'
          /\ UNCHANGED <<slots, ir, pc, at, build>>
      BY <1>3 DEF SettingWritten
    <2>2. \A i \in Index : Held(build, i) => Held(build, i)'
      BY <2>1 DEF Held, Found
    <2> QED BY <1>a, <2>1, <2>2 DEF Captures
  <1>4. CASE Listing
    <2>1. /\ build'.listed = Labels /\ build'.presets = {} /\ build'.unread = {}
      BY <1>4 DEF Listing, Nothing
    <2>2. pc' = "reading" /\ at' = 1 /\ slots' = slots
      BY <1>4 DEF Listing
    <2> QED BY <1>c, <2>1, <2>2 DEF Captures, Labels
  <1>5. CASE ReadSlot
    <2>1. /\ pc = "reading" /\ UNCHANGED <<slots, ir, setting, moved>>
          /\ slots[at].doc \in Docs \cup {Blank} /\ Blank \notin Docs /\ Unreadable \subseteq Docs
      BY <1>5, <1>a, <1>c, ContentsParts DEF ReadSlot, Quietly, BundleAssumption
    <2>2. /\ build'.manifest.names =
               IF slots[at].doc = Blank THEN [build.manifest.names EXCEPT ![at] = Unnamed]
               ELSE build.manifest.names
          /\ build'.presets =
               IF slots[at].doc = Blank THEN build.presets
               ELSE Put(build.presets,
                        [at |-> at, name |-> build.listed[at], doc |-> slots[at].doc])
          /\ build'.unread =
               IF slots[at].doc \in Unreadable THEN build.unread \cup {at} ELSE build.unread
          /\ build'.listed = build.listed
      BY <1>5, <1>a, ReadSlotKeeps
    <2>3. build.manifest.names \in [Index -> Names \cup {Unnamed}] /\ at \in Index
      BY <1>a, <1>c, <2>1 DEF Control, Manifests
    <2>4. /\ at \notin build.unread /\ \A f \in build.presets : f.at # at
          /\ at \in moved \/ build.listed[at] = slots[at].name
          /\ build.manifest.names[at] = build.listed[at]
      BY <1>a, <1>c, <2>1, <2>3 DEF Captures, Read
    <2>5. ASSUME NEW i \in Index, i # at
          PROVE  /\ build'.manifest.names[i] = build.manifest.names[i]
                 /\ i \in build'.unread <=> i \in build.unread
                 /\ \A f : f.at = i => (f \in build'.presets <=> f \in build.presets)
      <3>1. build'.manifest.names[i] = build.manifest.names[i]
        BY <2>2, <2>3, <2>5
      <3>2. i \in build'.unread <=> i \in build.unread
        BY <2>2, <2>5
      <3>3. \A f : f.at = i => (f \in build'.presets <=> f \in build.presets)
        BY <2>2, <2>5 DEF Put
      <3> QED BY <3>1, <3>2, <3>3
    <2>6. ASSUME NEW i \in Index, i < at
          PROVE  i \in moved' \/ Held(build, i)'
      <3>1. i # at /\ (i \in moved \/ HeldAs(build, i, slots[i]))
        BY <1>a, <1>c, <2>1, <2>6 DEF Captures, Held, HeldAs
      <3>2. CASE HeldAs(build, i, slots[i])
        <4>1. HeldAs(build', i, slots[i])
          BY <2>5, <3>1, <3>2, HeldKept
        <4> QED BY <2>1, <4>1 DEF Held, HeldAs, Found
      <3> QED BY <2>1, <3>1, <3>2
    <2>7. at \in moved \/ HeldAs(build', at, slots[at])
      <3> SUFFICES ASSUME at \notin moved PROVE HeldAs(build', at, slots[at])
        OBVIOUS
      <3>1. CASE slots[at].doc = Blank
        <4>1. Found(build', at) = {}
          BY <2>2, <2>4, <3>1 DEF Found
        <4> QED BY <2>1, <2>2, <2>3, <2>4, <3>1, <4>1 DEF HeldAs
      <3>2. CASE slots[at].doc # Blank
        <4> DEFINE file == [at |-> at, name |-> build.listed[at], doc |-> slots[at].doc]
        <4>1. file \in build'.presets /\ \A f \in build'.presets : f.at = at => f = file
          BY <2>2, <2>4, <3>2 DEF Put
        <4>2. build'.manifest.names[at] = file.name /\ file.at = at /\ file.doc = slots[at].doc
          BY <2>2, <2>4, <3>2
        <4> HIDE DEF file
        <4>3. Found(build', at) = {slots[at].doc}
          BY <4>1, <4>2 DEF Found
        <4>4. at \in build'.unread <=> slots[at].doc \in Unreadable
          BY <2>2, <2>4
        <4>5. build'.manifest.names[at] = slots[at].name
          BY <2>2, <2>4, <3>2
        <4> QED BY <3>2, <4>3, <4>4, <4>5 DEF HeldAs
      <3> QED BY <3>1, <3>2
    <2>8. \A i \in Index : i <= at => i \in moved' \/ Held(build, i)'
      <3>1. \A i : HeldAs(build', i, slots'[i]) => Held(build, i)'
        BY DEF Held, HeldAs, Found
      <3>2. \A i : i = at => i \in moved' \/ Held(build, i)'
        BY <2>1, <2>7, <3>1
      <3> QED BY <1>c, <2>6, <3>2
    <2>9. \A i \in Index : i > at =>
             /\ i \notin build'.unread /\ \A f \in build'.presets : f.at # i
             /\ i \in moved' \/ build'.listed[i] = slots'[i].name
      <3> SUFFICES ASSUME NEW i \in Index, i > at
                   PROVE  /\ i \notin build'.unread /\ \A f \in build'.presets : f.at # i
                          /\ i \in moved' \/ build'.listed[i] = slots'[i].name
        OBVIOUS
      <3>1. /\ i # at /\ i \notin build.unread /\ \A f \in build.presets : f.at # i
            /\ i \in moved \/ build.listed[i] = slots[i].name
        BY <1>a, <1>c, <2>1 DEF Captures
      <3> QED BY <2>1, <2>2, <2>5, <3>1
    <2>10. \/ pc' = "reading" /\ at' = at + 1
           \/ pc' = "settings" /\ at = Count
      BY <1>5, <1>c DEF ReadSlot
    <2>11. CASE pc' = "reading" /\ at' = at + 1
      BY <1>c, <2>8, <2>9, <2>11 DEF Captures
    <2>12. CASE pc' = "settings" /\ at = Count
      BY <1>c, <2>8, <2>12 DEF Captures
    <2> QED BY <2>10, <2>11, <2>12
  <1>6. CASE ReadSettings
    <2>1. /\ pc = "settings" /\ pc' = "irs" /\ UNCHANGED <<slots, setting, moved>>
      BY <1>6 DEF ReadSettings, Quietly
    <2>2. /\ build'.presets = build.presets /\ build'.manifest = build.manifest
          /\ build'.unread = build.unread /\ build'.settings = setting
      BY <1>6, <1>a DEF ReadSettings, Bundles
    <2>3. \A i \in Index : Held(build, i) => Held(build, i)'
      BY <2>1, <2>2 DEF Held, Found
    <2> QED BY <1>a, <2>1, <2>2, <2>3 DEF Captures
  <1>7. CASE ReadIr
    <2>1. /\ pc = "irs" /\ pc' = "commit" /\ UNCHANGED <<slots, setting, ir, moved>>
      BY <1>7 DEF ReadIr, Quietly
    <2>2. /\ build'.manifest.names = build.manifest.names
          /\ build'.ir = (IF ir = None THEN build.ir ELSE IF Kept THEN auto.ir ELSE ir)
          /\ build'.presets = build.presets /\ build'.unread = build.unread
          /\ build'.settings = build.settings
      BY <1>7, <1>a, ReadIrKeeps
    <2>3. \A i \in Index : Held(build, i) => Held(build, i)'
      BY <2>1, <2>2 DEF Held, Found
    <2>4. ASSUME ir # None, Kept
          PROVE  auto.ir = ir
      <3>1. /\ auto \in Bundles /\ auto.ir # None /\ auto.sum = auto.ir.samples
            /\ auto.ir.name = ir.name /\ auto.sum = ir.samples
        BY <1>a, <2>4 DEF Kept, DiskOK, Whole, Sound, Responds
      <3>2. auto.ir \in Irs /\ ir \in Irs
        BY <1>a, <2>4, <3>1, BundleParts DEF PedalOK
      <3>3. \A r \in Irs : r = [name |-> r.name, samples |-> r.samples]
        BY DEF Irs
      <3>4. auto.ir = [name |-> ir.name, samples |-> ir.samples]
        BY <3>1, <3>2, <3>3
      <3> QED BY <3>2, <3>3, <3>4
    <2>5. build.ir = None
      BY <1>a, <2>1 DEF Read
    <2>6. build'.ir = ir'
      BY <2>1, <2>2, <2>4, <2>5
    <2> QED BY <1>a, <2>1, <2>2, <2>3, <2>6 DEF Captures
  <1>8. CASE UNCHANGED vars
    BY <1>8, <1>a DEF vars, Captures, Held, Found
  <1> QED BY <1>1, <1>2, <1>3, <1>4, <1>5, <1>6, <1>7, <1>8 DEF Next

(* A bundle is called current by the lists of the pedal as it is. *)
LEMMA ComparedNext ==
    ASSUME Typed, BundleAssumption, NoneAssumption, Whole, Tracked, [Next]_vars
    PROVE  Compared'
  <1>a. Compared /\ Control
    BY DEF Typed, Tracked
  <1>b. Idle => pc' = "idle"
    BY DEF Idle
  <1> USE <1>a DEF disk, pedal, worker, ghosts, bounds, Compared, Control
  <1>1. CASE SlotWritten
    BY <1>1 DEF SlotWritten, Labels
  <1>2. CASE SettingWritten
    BY <1>2 DEF SettingWritten, Labels
  <1>3. CASE IrWritten
    BY <1>3 DEF IrWritten
  <1>4. CASE Stop
    BY <1>4, <1>b DEF Stop
  <1>5. CASE Save
    BY <1>5 DEF Save, Command
  <1>6. CASE OneNames
    BY <1>6 DEF OneNames, Quietly
  <1>7. CASE OneRead
    BY <1>7, <1>b DEF OneRead, Quietly
  <1>8. CASE OneFile
    BY <1>8 DEF OneFile, Writes
  <1>9. CASE OneManifest
    BY <1>9 DEF OneManifest, Writes
  <1>10. CASE OneUnread
    BY <1>10 DEF OneUnread, Writes
  <1>11. CASE OneListed
    BY <1>11 DEF OneListed, Writes
  <1>12. CASE OneClean
    BY <1>12, <1>b DEF OneClean
  <1>13. CASE BackUpOnConnect
    BY <1>13 DEF BackUpOnConnect, Command
  <1>14. CASE CurrentNames
    BY <1>14 DEF CurrentNames, Quietly, Labels
  <1>15. CASE CurrentIrs
    BY <1>15, <1>b DEF CurrentIrs, Trouble, Labels
  <1>16. CASE BackUp
    BY <1>16 DEF BackUp, Command
  <1>17. CASE Snapshot
    BY <1>17 DEF Snapshot, Trouble
  <1>18. CASE Prune
    BY <1>18, <1>b DEF Prune, Trouble
  <1>19. CASE Listing
    BY <1>19 DEF Listing
  <1>20. CASE ReadSlot
    BY <1>20 DEF ReadSlot, Quietly
  <1>21. CASE ReadSettings
    BY <1>21 DEF ReadSettings, Quietly
  <1>22. CASE ReadIr
    BY <1>22 DEF ReadIr, Quietly
  <1>23. CASE Commit
    BY <1>23, <1>b DEF Commit
  <1>24. CASE Skip
    BY <1>24, <1>b DEF Skip, Trouble
  <1>25. CASE Push
    BY <1>25 DEF Push, Command, Refresh
  <1>26. CASE Restore
    BY <1>26 DEF Restore, Command
  <1>27. CASE PutSlot
    BY <1>27 DEF PutSlot
  <1>28. CASE PutSettings
    BY <1>28 DEF PutSettings
  <1>29. CASE PutIr
    BY <1>29 DEF PutIr, Refresh
  <1>30. CASE UNCHANGED vars
    BY <1>30 DEF vars, Labels
  <1> QED BY <1>1, <1>2, <1>3, <1>4, <1>5, <1>6, <1>7, <1>8, <1>9, <1>10, <1>11, <1>12, <1>13,
             <1>14, <1>15, <1>16, <1>17, <1>18, <1>19, <1>20, <1>21, <1>22, <1>23, <1>24, <1>25,
             <1>26, <1>27, <1>28, <1>29, <1>30 DEF Next

(* Every step keeps track of it. *)
LEMMA TrackedNext ==
    ASSUME Typed, BundleAssumption, NoneAssumption, Whole, Tracked, [Next]_vars
    PROVE  Tracked'
  BY AgreesNext, RefreshesNext, CapturesNext, ComparedNext DEF Tracked

(* A bundle that calls itself current holds whatever was not written behind its back, and the *)
(* names and the response the pedal lists. *)
THEOREM CurrentIsHeldHolds == Spec => []CurrentIsHeld
  <1>1. Init => Typed /\ Whole /\ Tracked
    BY TypedInit, WholeInit, TrackedInit, BundleAssumption, NoneAssumption
  <1>2. Typed /\ Whole /\ Tracked /\ [Next]_vars => Typed' /\ Whole' /\ Tracked'
    BY TypedNext, WholeNext, TrackedNext, BundleAssumption, NoneAssumption
  <1>3. Typed /\ Whole /\ Tracked => CurrentIsHeld
    <2> SUFFICES ASSUME Typed, Whole, Tracked, verdict = "current", moved = {}
                 PROVE  /\ \A i \in Index :
                             Held(auto, i) \/ (i \in changed /\ auto.listed[i] = slots[i].name)
                        /\ auto.ir = ir \/ (TheIr \in changed /\ IrName(auto.ir) = IrName(ir))
                        /\ auto.settings = setting \/ TheSettings \in changed
      BY DEF CurrentIsHeld
    <2>1. auto # None /\ auto.listed = Labels /\ auto.manifest.ir = IrName(ir)
      BY DEF Tracked, Compared
    <2>2. auto.manifest.ir = IrName(auto.ir)
      BY <2>1 DEF Whole, Sound, Responds
    <2> QED BY <2>1, <2>2 DEF Tracked, Agrees, Labels
  <1> QED BY <1>1, <1>2, <1>3, PTL DEF Spec

-----------------------------------------------------------------------------
(* What is set aside, and what goes of it                                   *)

\* What has been left of a bundle: some of its files.
Left(d, b) ==
    /\ d.manifest \in {b.manifest, None} /\ d.presets \subseteq b.presets
    /\ d.unread \in {b.unread, {}} /\ d.settings \in {b.settings, None} /\ d.ir \in {b.ir, None}

\* A copy was a sound bundle once.
CopyOK(c) == Sound(c.was) /\ Left(c.dir, c.was)

\* The newest copy is one of the bundle that is about to be replaced.
Aside ==
    aside => /\ pc \in {"prune", "listing"} \cup Capturing
             /\ history[Len(history)] = [dir |-> auto, was |-> auto]

Stored == (\A k \in DOMAIN history : CopyOK(history[k])) /\ Aside

(* A sequence with one more before it. *)
LEMMA TornKept ==
    ASSUME NEW S, NEW c \in S, NEW s \in Seq(S)
    PROVE  /\ <<c>> \o s \in Seq(S) /\ Len(<<c>> \o s) = Len(s) + 1
           /\ (<<c>> \o s)[1] = c
           /\ \A k \in 1..Len(s) : (<<c>> \o s)[k + 1] = s[k]
  OBVIOUS

(* What is left of what was left is what is left. *)
LEMMA LeftRemains ==
    ASSUME NEW d, NEW b, Left(d, b), NEW left \in Remains(d)
    PROVE  Left(left, b)
  BY DEF Left, Remains

(* A sequence that has another's members from the one after i on. *)
Shifted(rest, h, i) ==
    /\ Len(rest) = Len(h) - i
    /\ DOMAIN rest = 1..(Len(h) - i) /\ DOMAIN h = 1..Len(h)
    /\ \A k \in 1..(Len(h) - i) : rest[k] = h[i + k]

(* The copies that stay are where they were, less those before them. *)
LEMMA ShiftedParts ==
    ASSUME NEW rest, NEW h, NEW i \in Nat, Len(h) \in Nat, i <= Len(h), Shifted(rest, h, i)
    PROVE  /\ \A k \in DOMAIN h : k > i => k - i \in DOMAIN rest /\ rest[k - i] = h[k]
           /\ \A j \in DOMAIN rest : j + i \in DOMAIN h /\ rest[j] = h[j + i]
           /\ i < Len(h) => rest[Len(rest)] = h[Len(h)]
  <1> DEFINE n == Len(h)
  <1>1. /\ n \in Nat /\ Len(rest) = n - i /\ DOMAIN rest = 1..(n - i) /\ DOMAIN h = 1..n
        /\ \A k \in 1..(n - i) : rest[k] = h[i + k]
    BY DEF Shifted
  <1> HIDE DEF n
  <1>3. ASSUME NEW k \in DOMAIN h, k > i
        PROVE  k - i \in DOMAIN rest /\ rest[k - i] = h[k]
    <2>1. k \in 1..n
      BY <1>1
    <2>2. k - i \in 1..(n - i) /\ i + (k - i) = k
      BY <1>1, <1>3, <2>1
    <2>3. rest[k - i] = h[i + (k - i)]
      BY <1>1, <2>2
    <2> QED BY <1>1, <2>2, <2>3
  <1>4. ASSUME NEW j \in DOMAIN rest
        PROVE  j + i \in DOMAIN h /\ rest[j] = h[j + i]
    <2>1. j \in 1..(n - i)
      BY <1>1
    <2>2. i + j = j + i /\ j + i \in 1..n
      BY <1>1, <2>1
    <2>3. rest[j] = h[i + j]
      BY <1>1, <2>1
    <2> QED BY <1>1, <2>2, <2>3
  <1>5. i < n => rest[n - i] = h[n]
    <2> SUFFICES ASSUME i < n PROVE rest[n - i] = h[n]
      OBVIOUS
    <2>1. n - i \in 1..(n - i) /\ i + (n - i) = n
      BY <1>1
    <2>2. rest[n - i] = h[i + (n - i)]
      BY <1>1, <2>1
    <2> QED BY <2>1, <2>2
  <1> QED BY <1>1, <1>3, <1>4, <1>5 DEF n

(* Without its first i members a sequence holds the others, *)
LEMMA NewerParts ==
    ASSUME NEW S, NEW h \in Seq(S), NEW i \in 0..Len(h)
    PROVE  Shifted(SubSeq(h, i + 1, Len(h)), h, i)
  BY SubSeqKept DEF Shifted

(* and likewise with one before them. *)
Torn(rest, s, h, i, c) ==
    /\ Shifted(s, h, i)
    /\ Len(rest) = Len(s) + 1 /\ DOMAIN rest = 1..(Len(s) + 1)
    /\ rest[1] = c
    /\ \A k \in 1..Len(s) : rest[k + 1] = s[k]

(* The same, with the copy whose removal stopped before them. *)
LEMMA TornParts ==
    ASSUME NEW rest, NEW s, NEW h, NEW i \in Nat, NEW c, Len(h) \in Nat, i <= Len(h),
           Torn(rest, s, h, i, c)
    PROVE  /\ \A k \in DOMAIN h : k > i => k - i + 1 \in DOMAIN rest /\ rest[k - i + 1] = h[k]
           /\ \A j \in DOMAIN rest :
                rest[j] = c \/ (j + i - 1 \in DOMAIN h /\ rest[j] = h[j + i - 1])
           /\ i < Len(h) => rest[Len(rest)] = h[Len(h)]
  <1> DEFINE n == Len(h)
             m == Len(s)
  <1>1. /\ n \in Nat /\ m = n - i /\ DOMAIN s = 1..m /\ DOMAIN h = 1..n
        /\ DOMAIN rest = 1..(m + 1) /\ Len(rest) = m + 1
        /\ \A k \in 1..m : rest[k + 1] = s[k]
    BY DEF Torn, Shifted
  <1>2. /\ \A k \in DOMAIN h : k > i => k - i \in DOMAIN s /\ s[k - i] = h[k]
        /\ \A j \in DOMAIN s : j + i \in DOMAIN h /\ s[j] = h[j + i]
    BY ShiftedParts DEF Torn
  <1> HIDE DEF n, m
  <1>c. rest[1] = c
    BY DEF Torn
  <1>4. ASSUME NEW k \in DOMAIN h, k > i
        PROVE  k - i + 1 \in DOMAIN rest /\ rest[k - i + 1] = h[k]
    <2>1. k - i \in 1..m /\ s[k - i] = h[k]
      BY <1>1, <1>2, <1>4
    <2>2. k - i + 1 \in 1..(m + 1)
      BY <1>1, <2>1
    <2> QED BY <1>1, <2>1, <2>2
  <1>5. ASSUME NEW j \in DOMAIN rest
        PROVE  rest[j] = c \/ (j + i - 1 \in DOMAIN h /\ rest[j] = h[j + i - 1])
    <2>1. j \in 1..(m + 1) /\ m \in Nat
      BY <1>1
    <2>2. CASE j = 1
      BY <1>c, <2>2
    <2>3. CASE j # 1
      <3>1. j - 1 \in 1..m /\ (j - 1) + 1 = j /\ (j - 1) + i = j + i - 1
        BY <2>1, <2>3
      <3>2. rest[(j - 1) + 1] = s[j - 1]
        BY <1>1, <3>1
      <3>3. (j - 1) + i \in DOMAIN h /\ s[j - 1] = h[(j - 1) + i]
        BY <1>1, <1>2, <3>1
      <3> QED BY <3>1, <3>2, <3>3
    <2> QED BY <2>2, <2>3
  <1>6. i < n => rest[m + 1] = h[n]
    <2> SUFFICES ASSUME i < n PROVE rest[m + 1] = h[n]
      OBVIOUS
    <2>1. n \in DOMAIN h /\ n > i /\ n - i + 1 = m + 1
      BY <1>1
    <2>2. rest[n - i + 1] = h[n]
      BY <1>4, <2>1
    <2> QED BY <2>1, <2>2
  <1> QED BY <1>1, <1>4, <1>5, <1>6 DEF n, m

(* A prune keeps the Keep newest copies; what else it leaves is one of the others, *)
(* or what is left of one. *)
LEMMA PruneParts ==
    ASSUME Typed, BundleAssumption, Prune
    PROVE  /\ \A k \in DOMAIN history :
                k > Doomed => \E j \in DOMAIN history' : history'[j] = history[k]
           /\ \A j \in DOMAIN history' : \E k \in DOMAIN history :
                \/ history'[j] = history[k]
                \/ \E left \in Remains(history[k].dir) :
                      history'[j] = [history[k] EXCEPT !.dir = left]
           /\ Len(history) > 0 => history'[Len(history')] = history[Len(history)]
           /\ aside' => aside
  <1>1. /\ history \in Seq(Copies) /\ Doomed \in 0..Len(history)
        /\ Len(history) > 0 => Doomed < Len(history)
        /\ DOMAIN history = 1..Len(history) /\ Len(history) \in Nat
    BY DEF Typed, DiskOK, BundleAssumption, Doomed
  <1>2. Idle => ~aside'
    BY DEF Idle
  <1>3. CASE history' = SubSeq(history, Doomed + 1, Len(history)) /\ UNCHANGED aside
    <2>1. /\ \A k \in DOMAIN history :
                k > Doomed => k - Doomed \in DOMAIN history' /\ history'[k - Doomed] = history[k]
          /\ \A j \in DOMAIN history' : j + Doomed \in DOMAIN history /\ history'[j] = history[j + Doomed]
          /\ Doomed < Len(history) => history'[Len(history')] = history[Len(history)]
      <3>1. Shifted(history', history, Doomed)
        BY <1>1, <1>3, NewerParts
      <3>2. Doomed \in Nat /\ Len(history) \in Nat /\ Doomed <= Len(history)
        BY <1>1
      <3> QED BY <3>1, <3>2, ShiftedParts
    <2> QED BY <1>1, <1>3, <2>1
  <1>4. ASSUME NEW n \in 1..Doomed, NEW left \in Remains(history[n].dir),
               NEW i \in {n, Doomed},
               history' = <<[history[n] EXCEPT !.dir = left]>> \o SubSeq(history, i + 1, Len(history)),
               aside' => aside
        PROVE  /\ \A k \in DOMAIN history :
                    k > Doomed => \E j \in DOMAIN history' : history'[j] = history[k]
               /\ \A j \in DOMAIN history' : \E k \in DOMAIN history :
                    \/ history'[j] = history[k]
                    \/ \E rest \in Remains(history[k].dir) :
                          history'[j] = [history[k] EXCEPT !.dir = rest]
               /\ Len(history) > 0 => history'[Len(history')] = history[Len(history)]
    <2> DEFINE c == [history[n] EXCEPT !.dir = left]
    <2>1. n \in DOMAIN history /\ i \in 0..Len(history) /\ i <= Doomed
      BY <1>1
    <2>2. c \in Copies
      <3>1. history[n] \in Copies
        BY <1>1, <2>1
      <3> QED BY <3>1, RemainsBundles DEF Copies
    <2>3. /\ \A k \in DOMAIN history : k > i => \E j \in DOMAIN history' : history'[j] = history[k]
          /\ \A j \in DOMAIN history' : history'[j] = c \/ \E k \in DOMAIN history : history'[j] = history[k]
          /\ i < Len(history) => history'[Len(history')] = history[Len(history)]
      <3>1. history' = <<c>> \o SubSeq(history, i + 1, Len(history))
        BY <1>4
      <3> HIDE DEF c
      <3>2. /\ \A k \in DOMAIN history :
                  k > i => k - i + 1 \in DOMAIN history' /\ history'[k - i + 1] = history[k]
            /\ \A j \in DOMAIN history' :
                  history'[j] = c \/ (j + i - 1 \in DOMAIN history /\ history'[j] = history[j + i - 1])
            /\ i < Len(history) => history'[Len(history')] = history[Len(history)]
        <4> DEFINE s == SubSeq(history, i + 1, Len(history))
        <4>1. s \in Seq(Copies) /\ Shifted(s, history, i)
          BY <1>1, <2>1, NewerParts, SubSeqKept
        <4>2. history' = <<c>> \o s
          BY <3>1
        <4> HIDE DEF s
        <4>3. /\ history' \in Seq(Copies) /\ Len(history') = Len(s) + 1 /\ history'[1] = c
              /\ \A k \in 1..Len(s) : history'[k + 1] = s[k]
          BY <2>2, <4>1, <4>2, TornKept
        <4>4. DOMAIN history' = 1..(Len(s) + 1)
          BY <4>3
        <4>5. i \in Nat /\ Len(history) \in Nat /\ i <= Len(history)
          BY <1>1, <2>1
        <4>6. Torn(history', s, history, i, c)
          BY <4>1, <4>3, <4>4 DEF Torn
        <4> QED BY <4>5, <4>6, TornParts
      <3> QED BY <3>2
    <2>4. \A k \in DOMAIN history : k > Doomed => k > i
      BY <1>1, <2>1
    <2>5. Len(history) > 0 => i < Len(history)
      BY <1>1, <2>1
    <2>6. \E k \in DOMAIN history : \E rest \in Remains(history[k].dir) :
             c = [history[k] EXCEPT !.dir = rest]
      BY <2>1
    <2> HIDE DEF c
    <2> QED BY <2>3, <2>4, <2>5, <2>6
  <1>5. CASE history' = SubSeq(history, Doomed + 1, Len(history)) /\ UNCHANGED worker
    BY <1>3, <1>5 DEF worker
  <1>6. ASSUME NEW n \in 1..Doomed, NEW left \in Remains(history[n].dir),
               \/ /\ history' = <<[history[n] EXCEPT !.dir = left]>>
                                   \o SubSeq(history, Doomed + 1, Len(history))
                  /\ UNCHANGED worker
               \/ /\ history' = <<[history[n] EXCEPT !.dir = left]>>
                                   \o SubSeq(history, n + 1, Len(history))
                  /\ Idle
        PROVE  \E i \in {n, Doomed} :
                 /\ history' = <<[history[n] EXCEPT !.dir = left]>> \o SubSeq(history, i + 1, Len(history))
                 /\ aside' => aside
    <2>1. CASE /\ history' = <<[history[n] EXCEPT !.dir = left]>>
                              \o SubSeq(history, Doomed + 1, Len(history))
               /\ UNCHANGED worker
      BY <2>1 DEF worker
    <2>2. CASE /\ history' = <<[history[n] EXCEPT !.dir = left]>>
                              \o SubSeq(history, n + 1, Len(history))
               /\ Idle
      BY <1>2, <2>2
    <2> QED BY <1>6, <2>1, <2>2
  <1>7. \/ history' = SubSeq(history, Doomed + 1, Len(history)) /\ UNCHANGED worker
        \/ \E n \in 1..Doomed : \E left \in Remains(history[n].dir) :
             \/ /\ history' = <<[history[n] EXCEPT !.dir = left]>>
                                \o SubSeq(history, Doomed + 1, Len(history))
                /\ UNCHANGED worker
             \/ /\ history' = <<[history[n] EXCEPT !.dir = left]>>
                                \o SubSeq(history, n + 1, Len(history))
                /\ Idle
    BY DEF Prune
  <1>8. CASE \E n \in 1..Doomed : \E left \in Remains(history[n].dir) :
             \/ /\ history' = <<[history[n] EXCEPT !.dir = left]>>
                                \o SubSeq(history, Doomed + 1, Len(history))
                /\ UNCHANGED worker
             \/ /\ history' = <<[history[n] EXCEPT !.dir = left]>>
                                \o SubSeq(history, n + 1, Len(history))
                /\ Idle
    <2>1. PICK n \in 1..Doomed : \E left \in Remains(history[n].dir) : \E i \in {n, Doomed} :
                 /\ history' = <<[history[n] EXCEPT !.dir = left]>> \o SubSeq(history, i + 1, Len(history))
                 /\ aside' => aside
      BY <1>6, <1>8
    <2> QED BY <1>4, <2>1
  <1> QED BY <1>5, <1>7, <1>8

(* A copy is what the backup was, or what is left of it. *)
LEMMA StoredNext ==
    ASSUME Typed, BundleAssumption, NoneAssumption, Whole, Stored, [Next]_vars
    PROVE  Stored'
  <1>a. /\ history \in Seq(Copies) /\ Len(history) \in Nat /\ DOMAIN history = 1..Len(history)
        /\ auto # None => auto \in Bundles /\ Sound(auto)
        /\ aside => auto # None /\ Len(history) > 0
        /\ \A k \in DOMAIN history : CopyOK(history[k]) /\ history[k] \in Copies
        /\ Aside
    BY DEF Typed, DiskOK, Control, Whole, Stored
  <1>b. Idle => pc' = "idle" /\ ~aside'
    BY DEF Idle
  <1>c. \A c \in Copies, left \in Bundles :
           /\ [c EXCEPT !.dir = left] \in Copies
           /\ [c EXCEPT !.dir = left].dir = left /\ [c EXCEPT !.dir = left].was = c.was
    BY DEF Copies
  <1>d. \A c \in Copies : CopyOK(c) =>
           \A left \in Remains(c.dir) : CopyOK([c EXCEPT !.dir = left])
    <2> SUFFICES ASSUME NEW c \in Copies, CopyOK(c), NEW left \in Remains(c.dir)
                 PROVE  CopyOK([c EXCEPT !.dir = left])
      OBVIOUS
    <2>1. left \in Bundles
      BY RemainsBundles DEF Copies
    <2>2. Left(left, c.was)
      BY LeftRemains DEF CopyOK
    <2> QED BY <1>c, <2>1, <2>2 DEF CopyOK
  <1>1. CASE Snapshot
    <2>1. pc = "snapshot" /\ ~aside /\ auto' = auto
      BY <1>1, <1>a DEF Snapshot, Aside, Capturing
    <2>2. CASE history' = history
      <3>1. auto # None => Copied # history
        <4>1. ASSUME auto # None
              PROVE  Len(Copied) = Len(history) + 1
          <5>1. [dir |-> auto, was |-> auto] \in Copies
            BY <1>a, <4>1 DEF Copies
          <5> QED BY <1>a, <5>1 DEF Copied
        <4> QED BY <1>a, <4>1
      <3> QED BY <1>1, <1>a, <2>1, <2>2, <3>1 DEF Snapshot, Stored, Aside
    <2>3. CASE auto # None /\ history' = Copied
      <3> DEFINE c == [dir |-> auto, was |-> auto]
      <3>1. c \in Copies /\ CopyOK(c)
        BY <1>a, <2>3 DEF Copies, CopyOK, Left
      <3>2. history' = Append(history, c)
        BY <2>3 DEF Copied
      <3> HIDE DEF c
      <3>3. /\ Len(history') = Len(history) + 1 /\ DOMAIN history' = 1..(Len(history) + 1)
            /\ history'[Len(history) + 1] = c
            /\ \A k \in 1..Len(history) : history'[k] = history[k]
        BY <1>a, <3>1, <3>2
      <3>4. \A k \in DOMAIN history' : CopyOK(history'[k])
        BY <1>a, <3>1, <3>3
      <3>5. history'[Len(history')] = [dir |-> auto', was |-> auto']
        BY <2>1, <3>3 DEF c
      <3>6. aside' => pc' \in {"prune", "listing"}
        BY <1>1 DEF Snapshot
      <3> QED BY <3>4, <3>5, <3>6 DEF Stored, Aside
    <2> QED BY <1>1, <2>2, <2>3 DEF Snapshot
  <1>2. CASE Prune
    <2>1. \A j \in DOMAIN history' : CopyOK(history'[j])
      <3>1. \A j \in DOMAIN history' : \E k \in DOMAIN history :
                \/ history'[j] = history[k]
                \/ \E left \in Remains(history[k].dir) :
                      history'[j] = [history[k] EXCEPT !.dir = left]
        BY <1>2, PruneParts
      <3>2. \A k \in DOMAIN history : \A left \in Remains(history[k].dir) :
               CopyOK([history[k] EXCEPT !.dir = left])
        BY <1>a, <1>d
      <3> SUFFICES ASSUME NEW j \in DOMAIN history' PROVE CopyOK(history'[j])
        OBVIOUS
      <3>3. PICK k \in DOMAIN history :
                \/ history'[j] = history[k]
                \/ \E left \in Remains(history[k].dir) :
                      history'[j] = [history[k] EXCEPT !.dir = left]
        BY <3>1
      <3>4. CASE history'[j] = history[k]
        BY <1>a, <3>4
      <3>5. ASSUME NEW left \in Remains(history[k].dir),
                   history'[j] = [history[k] EXCEPT !.dir = left]
            PROVE  CopyOK(history'[j])
        <4> DEFINE c == [history[k] EXCEPT !.dir = left]
        <4>1. CopyOK(c)
          BY <3>2
        <4> HIDE DEF c
        <4> QED BY <3>5, <4>1 DEF c
      <3> QED BY <3>3, <3>4, <3>5
    <2>2. aside' => history'[Len(history')] = [dir |-> auto', was |-> auto']
      <3>1. (aside' => aside) /\ (Len(history) > 0 => history'[Len(history')] = history[Len(history)])
        BY <1>2, PruneParts
      <3> QED BY <1>2, <1>a, <3>1 DEF Prune, Aside
    <2>3. aside' => pc' \in {"prune", "listing"}
      BY <1>2, <1>b DEF Prune
    <2> QED BY <2>1, <2>2, <2>3 DEF Stored, Aside
  <1>3. CASE Skip
    <2>1. ~aside'
      BY <1>3, <1>b DEF Skip
    <2>2. CASE history' = history
      BY <1>a, <2>1, <2>2 DEF Stored, Aside
    <2>3. CASE history' = SubSeq(history, 1, Len(history) - 1)
      <3>1. /\ history' \in Seq(Copies) /\ DOMAIN history' \subseteq 1..(Len(history) - 1)
            /\ \A k \in 1..(Len(history) - 1) : history'[k] = history[k]
        BY <1>a, <2>3, SubSeqKept
      <3>2. \A k \in DOMAIN history' : k \in DOMAIN history /\ history'[k] = history[k]
        BY <1>a, <3>1
      <3> QED BY <1>a, <2>1, <3>2 DEF Stored, Aside
    <2>4. ASSUME aside, NEW left \in Remains(auto),
                 history' = [history EXCEPT ![Len(history)].dir = left]
          PROVE  \A k \in DOMAIN history' : CopyOK(history'[k])
      <3>1. Len(history) \in DOMAIN history /\ history[Len(history)].dir = auto
        BY <1>a, <2>4 DEF Aside
      <3>2. /\ DOMAIN history' = DOMAIN history
            /\ history'[Len(history)] = [history[Len(history)] EXCEPT !.dir = left]
            /\ \A k \in DOMAIN history : k # Len(history) => history'[k] = history[k]
        BY <1>a, <2>4, <3>1
      <3>3. CopyOK([history[Len(history)] EXCEPT !.dir = left])
        BY <1>a, <1>d, <3>1
      <3> QED BY <1>a, <3>2, <3>3
    <2> QED BY <1>3, <2>1, <2>2, <2>3, <2>4 DEF Skip, Stored, Aside
  <1>4. ASSUME ~Snapshot, ~Prune, ~Skip
        PROVE  history' = history /\ Aside'
    <2> USE DEF disk, worker
    <2>1. CASE SlotWritten \/ SettingWritten \/ IrWritten \/ Stop \/ Save \/ OneNames \/ OneRead
               \/ OneFile \/ OneManifest \/ OneUnread \/ OneListed \/ OneClean \/ BackUpOnConnect
               \/ CurrentNames \/ CurrentIrs \/ BackUp \/ Listing \/ ReadSlot \/ ReadSettings \/
               ReadIr \/ Commit \/ Push \/ Restore \/ PutSlot \/ PutSettings \/ PutIr
      BY <2>1, <1>a, <1>b DEF SlotWritten, Aside, Capturing, SettingWritten, IrWritten, Stop,
         Save, Command, OneNames, Quietly, OneRead, OneFile, Writes, OneManifest, OneUnread,
         OneListed, OneClean, BackUpOnConnect, CurrentNames, CurrentIrs, Trouble, BackUp, Listing,
         ReadSlot, ReadSettings, ReadIr, Commit, Push, Refresh, Restore, PutSlot, PutSettings,
         PutIr
    <2>5. CASE UNCHANGED vars
      BY <2>5, <1>a DEF vars, Aside
    <2> QED BY <1>4, <2>1, <2>5 DEF Next
  <1>5. CASE ~Snapshot /\ ~Prune /\ ~Skip
    <2>1. \A k \in DOMAIN history' : CopyOK(history'[k])
      BY <1>a, <1>4, <1>5
    <2> QED BY <1>4, <1>5, <2>1 DEF Stored
  <1> QED BY <1>1, <1>2, <1>3, <1>5

(* Nothing is set aside at first but the backup itself. *)
LEMMA StoredInit ==
    ASSUME BundleAssumption, NoneAssumption, Init
    PROVE  Stored
  <1>1. Sound(Copy) /\ Copy \in Bundles
    BY TypedInit, CopySound, FirstBundles DEF Typed
  <1>2. CopyOK([dir |-> Copy, was |-> Copy])
    BY <1>1 DEF CopyOK, Left
  <1>3. \A k \in DOMAIN history : CopyOK(history[k])
    <2>1. CASE history = <<>>
      BY <2>1
    <2>2. CASE auto = Copy /\ history = <<[dir |-> auto, was |-> auto]>>
      BY <1>2, <2>2
    <2> QED BY <2>1, <2>2 DEF Init
  <1> QED BY <1>3 DEF Init, Stored, Aside

(* Three steps change the history. *)
LEMMA OnlySetAside ==
    ASSUME [Next]_vars
    PROVE  Snapshot \/ Prune \/ Skip \/ history' = history
  <1> USE DEF disk
  <1>1. CASE SlotWritten \/ SettingWritten \/ IrWritten \/ Stop \/ Save \/ OneNames \/ OneRead
             \/ OneFile \/ OneManifest \/ OneUnread \/ OneListed \/ OneClean \/ BackUpOnConnect
             \/ CurrentNames \/ CurrentIrs \/ BackUp \/ Listing \/ ReadSlot \/ ReadSettings \/
             ReadIr \/ Commit \/ Push \/ Restore \/ PutSlot \/ PutSettings \/ PutIr
    BY <1>1 DEF SlotWritten, SettingWritten, IrWritten, Stop, Idle, Save, Command, OneNames,
       Quietly, OneRead, OneFile, Writes, OneManifest, OneUnread, OneListed, OneClean,
       BackUpOnConnect, CurrentNames, CurrentIrs, Trouble, BackUp, Listing, ReadSlot,
       ReadSettings, ReadIr, Commit, Push, Refresh, Restore, PutSlot, PutSettings, PutIr
  <1>2. CASE Snapshot
    BY <1>2
  <1>3. CASE Prune
    BY <1>3
  <1>4. CASE Skip
    BY <1>4
  <1>5. CASE UNCHANGED vars
    BY <1>5 DEF vars
  <1> QED BY <1>1, <1>2, <1>3, <1>4, <1>5 DEF Next

(* What a step may do to the history. *)
LEMMA HistoryStep ==
    ASSUME Typed, BundleAssumption, NoneAssumption, Whole, Stored, [Next]_vars
    PROVE  \A k \in DOMAIN history :
             \/ \E j \in DOMAIN history' : history'[j] = history[k]
             \/ Len(history) - k >= Keep
             \/ skip /\ k = Len(history)
  <1>a. /\ history \in Seq(Copies) /\ Len(history) \in Nat /\ DOMAIN history = 1..Len(history)
        /\ auto # None => auto \in Bundles
        /\ aside => auto # None /\ Len(history) > 0
        /\ Keep \in Nat
    BY DEF Typed, DiskOK, Control, BundleAssumption
  <1>1. CASE Snapshot
    <2>1. CASE history' = history
      BY <1>a, <2>1
    <2>2. CASE auto # None /\ history' = Copied
      <3>1. [dir |-> auto, was |-> auto] \in Copies
        BY <1>a, <2>2 DEF Copies
      <3>2. \A k \in 1..Len(history) : k \in DOMAIN history' /\ history'[k] = history[k]
        BY <1>a, <2>2, <3>1 DEF Copied
      <3> QED BY <1>a, <3>2
    <2> QED BY <1>1, <2>1, <2>2 DEF Snapshot
  <1>2. CASE Prune
    <2>1. \A k \in DOMAIN history : k > Doomed => \E j \in DOMAIN history' : history'[j] = history[k]
      BY <1>2, PruneParts
    <2>2. \A k \in DOMAIN history : k <= Doomed => Len(history) - k >= Keep
      BY <1>a DEF Doomed
    <2>3. Doomed \in Nat
      BY <1>a DEF Doomed
    <2> QED BY <1>a, <2>1, <2>2, <2>3
  <1>3. CASE Skip
    <2>1. CASE history' = history
      BY <1>a, <2>1
    <2>2. CASE history' = SubSeq(history, 1, Len(history) - 1)
      <3>1. \A k \in 1..(Len(history) - 1) : k \in DOMAIN history' /\ history'[k] = history[k]
        BY <1>a, <2>2, SubSeqKept
      <3> QED BY <1>3, <1>a, <3>1 DEF Skip
    <2>3. ASSUME aside, NEW left \in Remains(auto),
                 history' = [history EXCEPT ![Len(history)].dir = left]
          PROVE  \A k \in DOMAIN history :
                    k # Len(history) => k \in DOMAIN history' /\ history'[k] = history[k]
      BY <1>a, <2>3
    <2>4. skip
      BY <1>3 DEF Skip
    <2> QED BY <1>3, <1>a, <2>1, <2>2, <2>3, <2>4 DEF Skip
  <1>4. CASE history' = history
    BY <1>a, <1>4
  <1>5. Snapshot \/ Prune \/ Skip \/ history' = history
    BY OnlySetAside
  <1> QED BY <1>1, <1>2, <1>3, <1>4, <1>5

(* What a whole backup replaces is a copy in the history, and of the history a step takes *)
(* away only what has Keep newer ones, or the newest whose backup is skipped. *)
THEOREM HistoryKeptHolds == Spec => HistoryKept
  <1>1. Init => Typed /\ Whole /\ Stored
    BY TypedInit, WholeInit, StoredInit, BundleAssumption, NoneAssumption
  <1>2. Typed /\ Whole /\ Stored /\ [Next]_vars => Typed' /\ Whole' /\ Stored'
    BY TypedNext, WholeNext, StoredNext, BundleAssumption, NoneAssumption
  <1>3. Typed /\ Whole /\ Stored /\ [Next]_vars =>
          [/\ pc = "commit" /\ auto' # auto /\ aside => \E k \in DOMAIN history : history[k].dir = auto
           /\ \A k \in DOMAIN history :
                \/ \E j \in DOMAIN history' : history'[j] = history[k]
                \/ Len(history) - k >= Keep
                \/ skip /\ k = Len(history)]_vars
    <2>1. Typed /\ Stored /\ aside => \E k \in DOMAIN history : history[k].dir = auto
      <3> SUFFICES ASSUME Typed, Stored, aside
                   PROVE  \E k \in DOMAIN history : history[k].dir = auto
        OBVIOUS
      <3>1. Len(history) \in DOMAIN history
        BY DEF Typed, DiskOK
      <3> QED BY <3>1 DEF Stored, Aside
    <2> QED BY <2>1, HistoryStep, BundleAssumption, NoneAssumption
  <1> QED BY <1>1, <1>2, <1>3, PTL DEF Spec, HistoryKept

-----------------------------------------------------------------------------
(* A restore leaves the pedal with what its bundle held                     *)

\* Slot i has been given what the bundle held of it, unless somebody has written it again.
Returned(i) == i \in moved \/ Plan(source, i) \in {{slots[i]}, {None}}

\* What is left of the bundle is enough, and its slots are given back one after the other.
Underway ==
    pc \in Restoring =>
        /\ Sound(source) /\ Left(build, source) /\ Restorable(build)
        /\ \A i \in Index : (pc = "putSlot" /\ i >= at) \/ Returned(i)
        /\ pc = "putIr" => TheSettings \in moved \/ setting = source.settings \/ refused

\* Success is told until the next command, or until the backup that follows reads again.
Finished ==
    /\ verdict = "restored" =>
          pc \in {"idle", "snapshot", "prune", "listing"} /\ (pc = "idle" \/ auto # None)
    /\ RestoreIsWhole

(* What is left of a bundle, if it can be restored, says of a slot what the whole said, or *)
(* is what the whole left alone. *)
LEMMA PlanLeft ==
    ASSUME BundleAssumption, NoneAssumption, NEW d \in Bundles, NEW b \in Bundles,
           Sound(b), Left(d, b), Restorable(d), NEW i \in Index, NEW s \in Plan(d, i)
    PROVE  /\ s = None => Plan(b, i) = {None}
           /\ s # None => Plan(b, i) \in {{s}, {None}}
  <1>1. d.manifest = b.manifest /\ d.manifest \in Manifests
    BY DEF Left, Restorable, Sound
  <1>2. CASE i \in d.unread
    <2>1. i \in b.unread
      BY <1>2 DEF Left
    <2> QED BY <1>2, <2>1 DEF Plan
  <1>3. CASE i \notin d.unread
    <2>1. s # None
      BY <1>1, <1>3, ContentsParts DEF Plan, Found, Bundles, Manifests, NoneAssumption, Contents
    <2>2. CASE i \in b.unread
      BY <2>1, <2>2 DEF Plan
    <2>3. CASE i \notin b.unread
      <3>1. CASE d.manifest.names[i] = Unnamed
        BY <1>1, <1>3, <2>1, <2>3, <3>1 DEF Plan
      <3>2. CASE d.manifest.names[i] # Unnamed
        <4>1. PICK f \in d.presets :
                /\ f.at = i /\ f.name = d.manifest.names[i] /\ f.doc \notin Unreadable
                /\ s = [name |-> d.manifest.names[i], doc |-> f.doc]
          BY <1>3, <3>2 DEF Plan, Found
        <4>2. f \in b.presets /\ \A g \in b.presets : g.at = i /\ g.name = b.manifest.names[i] => g = f
          BY <1>1, <4>1 DEF Left, Sound, Keyed
        <4>3. Found(b, i) = {f.doc}
          BY <1>1, <4>1, <4>2 DEF Found
        <4>4. Plan(b, i) = {s}
          BY <1>1, <2>3, <3>2, <4>1, <4>3 DEF Plan
        <4> QED BY <2>1, <4>4
      <3> QED BY <3>1, <3>2
    <2> QED BY <2>1, <2>2, <2>3
  <1> QED BY <1>2, <1>3

(* What is left of the response, if the bundle can be restored, is the whole one. *)
LEMMA IrLeft ==
    ASSUME NoneAssumption, NEW d \in Bundles, NEW b \in Bundles,
           Sound(b), Left(d, b), Restorable(d)
    PROVE  (IF d.manifest.ir = None THEN None ELSE d.ir) = b.ir
  <1>1. d.manifest = b.manifest /\ b.manifest.ir = IrName(b.ir) /\ d.ir \in {b.ir, None}
    BY DEF Left, Restorable, Sound, Responds
  <1>2. b.ir # None => b.ir.name # None
    BY DEF Bundles, Irs, NoneAssumption
  <1>3. d.manifest.ir # None => IrName(d.ir) = d.manifest.ir
    BY DEF Restorable
  <1> QED BY <1>1, <1>2, <1>3 DEF IrName

(* Only a restore writes a bundle back. *)
LEMMA Outside ==
    ASSUME IrWritten \/ Stop \/ Save \/ OneNames \/ OneRead \/ OneFile \/ OneManifest \/
           OneUnread \/ OneListed \/ OneClean \/ BackUpOnConnect \/ CurrentNames \/
           CurrentIrs \/ BackUp \/ Snapshot \/ Prune \/ Listing \/ ReadSlot \/ ReadSettings
           \/ ReadIr \/ Commit \/ Skip \/ Push \/ PutIr
    PROVE  pc' \notin Restoring
  <1> USE DEF Restoring, Idle
  <1>1. CASE IrWritten \/ Save \/ OneNames \/ OneFile \/ OneManifest \/ OneUnread \/ OneListed
             \/ OneClean \/ BackUpOnConnect \/ BackUp \/ Listing \/ ReadSettings \/ ReadIr \/
             Commit \/ Push \/ PutIr
    BY <1>1 DEF IrWritten, Save, Command, OneNames, Quietly, OneFile, Writes, OneManifest,
       OneUnread, OneListed, OneClean, BackUpOnConnect, BackUp, Listing, ReadSettings, ReadIr,
       Commit, Push, Refresh, PutIr
  <1>2. CASE Stop
    BY <1>2 DEF Stop
  <1>3. CASE OneRead
    BY <1>3 DEF OneRead, Quietly
  <1>4. CASE CurrentIrs
    BY <1>4 DEF CurrentIrs, Trouble
  <1>5. CASE Prune
    BY <1>5 DEF Prune, Trouble
  <1>6. CASE Skip
    BY <1>6 DEF Skip, Trouble
  <1>7. CASE ReadSlot
    BY <1>7 DEF ReadSlot, Quietly
  <1>8. CASE Snapshot
    BY <1>8 DEF Snapshot, Trouble
  <1>9. CASE CurrentNames
    BY <1>9 DEF CurrentNames, Quietly
  <1> QED BY <1>1, <1>2, <1>3, <1>4, <1>5, <1>6, <1>7, <1>8, <1>9

(* A bundle written back is one that was sound once, and is written in order. *)
LEMMA UnderwayNext ==
    ASSUME Typed, BundleAssumption, NoneAssumption, Whole, Stored, Underway, [Next]_vars
    PROVE  Underway'
  <1>a. /\ PedalOK /\ DiskOK /\ build \in Bundles /\ source \in Bundles /\ at \in Nat
        /\ Index = 1..Count /\ Count \in Nat \ {0}
    BY DEF Typed, WorkerOK, Index, BundleAssumption
  <1>1. CASE IrWritten \/ Stop \/ Save \/ OneNames \/ OneRead \/ OneFile \/ OneManifest \/
             OneUnread \/ OneListed \/ OneClean \/ BackUpOnConnect \/ CurrentNames \/
             CurrentIrs \/ BackUp \/ Snapshot \/ Prune \/ Listing \/ ReadSlot \/ ReadSettings
             \/ ReadIr \/ Commit \/ Skip \/ Push \/ PutIr
    <2>1. pc' \notin Restoring
      BY <1>1, Outside
    <2> QED BY <2>1 DEF Underway
  <1>2. CASE SlotWritten
    <2>1. PICK j \in Index, s \in Contents :
            slots' = [slots EXCEPT ![j] = s] /\ moved' = moved \cup {j}
      BY <1>2 DEF SlotWritten
    <2>2. \A i \in Index : i # j => slots'[i] = slots[i]
      BY <1>a, <2>1 DEF PedalOK
    <2>3. \A i \in Index : Returned(i) => Returned(i)'
      BY <1>2, <2>1, <2>2 DEF SlotWritten, worker, Returned
    <2>4. UNCHANGED <<setting, pc, at, build, source, refused>> /\ moved \subseteq moved'
      BY <1>2, <2>1 DEF SlotWritten, worker
    <2> QED BY <2>3, <2>4 DEF Underway
  <1>3. CASE SettingWritten
    <2>1. UNCHANGED <<slots, pc, at, build, source, refused>> /\ moved' = moved \cup {TheSettings}
      BY <1>3 DEF SettingWritten, worker
    <2> QED BY <2>1 DEF Underway, Returned
  <1>4. CASE Restore
    <2>1. PICK b \in Sources : b.dir # None /\ Restorable(b.dir) /\ build' = b.dir /\ source' = b.was
      BY <1>4 DEF Restore
    <2>2. CopyOK(b)
      <3>1. CASE b = [dir |-> auto, was |-> auto]
        BY <2>1, <3>1 DEF Whole, CopyOK, Left
      <3>2. CASE \E k \in DOMAIN history : b = history[k]
        BY <3>2 DEF Stored
      <3> QED BY <3>1, <3>2 DEF Sources
    <2>3. pc' = "putSlot" /\ at' = 1
      BY <1>4 DEF Restore
    <2> QED BY <1>a, <2>1, <2>2, <2>3 DEF CopyOK, Underway
  <1>5. CASE PutSlot
    <2>1. PICK s \in Plan(build, at) :
            IF s = None THEN UNCHANGED slots ELSE slots' = [slots EXCEPT ![at] = s]
      BY <1>5 DEF PutSlot
    <2>2. /\ Sound(source) /\ Left(build, source) /\ Restorable(build) /\ at \in Index
          /\ \A i \in Index : i >= at \/ Returned(i)
          /\ UNCHANGED <<build, source, moved>>
      BY <1>5 DEF PutSlot, Underway, Restoring, Typed, WorkerOK
    <2>3. \A i \in Index : i # at => slots'[i] = slots[i]
      BY <1>a, <2>1 DEF PedalOK
    <2>4. s # None => slots'[at] = s
      BY <1>a, <2>1, <2>2 DEF PedalOK
    <2>5. Plan(source, at) \in {{slots'[at]}, {None}}
      BY <1>a, <2>1, <2>2, <2>4, PlanLeft
    <2>6. \A i \in Index : i > at \/ Returned(i)'
      BY <1>a, <2>2, <2>3, <2>5 DEF Returned
    <2>7. \/ at < Count /\ at' = at + 1 /\ pc' = "putSlot"
          \/ at = Count /\ pc' = "putSettings"
      BY <1>5, <1>a, <2>2 DEF PutSlot
    <2>8. \A i \in Index : (pc' = "putSlot" /\ i >= at') \/ Returned(i)'
      BY <1>a, <2>6, <2>7
    <2> QED BY <2>2, <2>7, <2>8 DEF Underway
  <1>6. CASE PutSettings
    <2>1. /\ pc = "putSettings" /\ pc' = "putIr" /\ (setting' = build.settings \/ refused')
          /\ UNCHANGED <<slots, build, source, moved>>
      BY <1>6 DEF PutSettings
    <2>2. Left(build, source) /\ Restorable(build)
      BY <2>1 DEF Underway, Restoring
    <2>3. setting' = source'.settings \/ refused'
      BY <2>1, <2>2 DEF Left, Restorable
    <2> QED BY <2>1, <2>3 DEF Underway, Restoring, Returned
  <1>7. CASE UNCHANGED vars
    BY <1>7 DEF vars, pedal, worker, ghosts, Underway, Returned
  <1> QED BY <1>1, <1>2, <1>3, <1>4, <1>5, <1>6, <1>7 DEF Next

(* What is told of a restore is so while it is told. *)
LEMMA FinishedNext ==
    ASSUME Typed, BundleAssumption, NoneAssumption, Underway, Finished, [Next]_vars
    PROVE  Finished'
  <1>a. /\ PedalOK /\ DiskOK /\ build \in Bundles /\ source \in Bundles
        /\ pc \in Refreshing \cup {"currentIrs", "prune"} => auto # None
        /\ verdict = "restored" =>
              pc \in {"idle", "snapshot", "prune", "listing"} /\ (pc = "idle" \/ auto # None)
    BY DEF Typed, WorkerOK, Control, Finished
  <1>b. Idle => pc' = "idle"
    BY DEF Idle
  <1>1. CASE Save \/ BackUpOnConnect \/ BackUp \/ Push \/ Restore \/ Listing \/ Commit \/
             OneNames \/ OneRead \/ OneFile \/ OneManifest \/ OneUnread \/ OneListed \/
             OneClean \/ CurrentNames \/ CurrentIrs \/ ReadSlot \/ ReadSettings \/ ReadIr \/
             PutSlot \/ PutSettings
    <2>1. verdict' # "restored"
      BY <1>1, <1>a DEF Save, Command, BackUpOnConnect, BackUp, Push, Refresh, Restore, Listing, Commit,
               OneNames, Quietly, OneRead, OneFile, Writes, OneManifest, OneUnread, OneListed, OneClean,
               CurrentNames, CurrentIrs, Trouble, ReadSlot, ReadSettings, ReadIr, PutSlot, PutSettings
    <2> QED BY <2>1 DEF Finished, RestoreIsWhole
  <1>2. CASE SlotWritten \/ SettingWritten \/ IrWritten
    <2>1. moved' # {} /\ UNCHANGED <<pc, auto, verdict>>
      BY <1>2 DEF SlotWritten, SettingWritten, IrWritten, disk
    <2> QED BY <1>a, <2>1 DEF Finished, RestoreIsWhole
  <1>3. CASE Stop \/ Snapshot \/ Prune \/ Skip
    <2>1. pc # "idle" /\ pc' \in {"idle", "prune", "listing"} /\ UNCHANGED <<auto, verdict>>
      BY <1>3, <1>b DEF Stop, Snapshot, Prune, Skip, Trouble, disk
    <2>2. verdict' = "restored" => pc' # Refresh'
      BY <1>3, <1>a, <2>1 DEF Refresh, Snapshot
    <2> QED BY <1>a, <2>1, <2>2 DEF Finished, RestoreIsWhole
  <1>4. CASE PutIr
    <2>1. /\ pc = "putIr" /\ pc' = Refresh
          /\ ir' = IF build.manifest.ir = None THEN None ELSE build.ir
          /\ UNCHANGED <<slots, setting, auto, source, refused, moved>>
      BY <1>4 DEF PutIr, disk, worker
    <2>2. /\ Sound(source) /\ Left(build, source) /\ Restorable(build)
          /\ \A i \in Index : Returned(i)
          /\ TheSettings \in moved \/ setting = source.settings \/ refused
      BY <2>1 DEF Underway, Restoring
    <2>3. ir' = source.ir
      BY <1>a, <2>1, <2>2, IrLeft
    <2>4. moved = {} => \A i \in Index : Plan(source, i) \in {{slots[i]}, {None}}
      BY <2>2 DEF Returned
    <2>5. RestoreIsWhole'
      BY <2>1, <2>2, <2>3, <2>4 DEF RestoreIsWhole
    <2>6. pc' \in {"idle", "snapshot"} /\ (pc' = "idle" \/ auto' # None)
      BY <2>1 DEF Refresh
    <2> QED BY <2>5, <2>6 DEF Finished
  <1>5. CASE UNCHANGED vars
    BY <1>5 DEF vars, pedal, disk, worker, ghosts, Finished, RestoreIsWhole, Refresh
  <1> QED BY <1>1, <1>2, <1>3, <1>4, <1>5 DEF Next

(* A restore that reports success has given back all that its bundle held when it was taken, *)
(* however much of that bundle is left. *)
THEOREM RestoreIsWholeHolds == Spec => []RestoreIsWhole
  <1> DEFINE All == Typed /\ Whole /\ Stored /\ Underway /\ Finished
  <1>1. Init => All
    <2>1. Init => Underway /\ Finished
      BY DEF Init, Underway, Restoring, Finished, RestoreIsWhole
    <2> QED BY <2>1, TypedInit, WholeInit, StoredInit, BundleAssumption, NoneAssumption
  <1>2. All /\ [Next]_vars => All'
    BY TypedNext, WholeNext, StoredNext, UnderwayNext, FinishedNext,
       BundleAssumption, NoneAssumption
  <1>3. All => RestoreIsWhole
    BY DEF Finished
  <1> QED BY <1>1, <1>2, <1>3, PTL DEF Spec

=============================================================================
