-------------------------- MODULE BundleSwapProofs --------------------------
(***************************************************************************)
(* BundleSwap's safety properties for any number of backups, kills and     *)
(* failed calls.  The inductive invariant says, for each place the         *)
(* operation can be in, what the two directories may hold there; the       *)
(* properties say nothing of pc, so they are not inductive on their own.   *)
(***************************************************************************)
EXTENDS BundleSwap, TLAPS

\* A directory that is a complete bundle, of a generation a capture made.
Whole(d) == d.kind = "bundle" /\ d.gen \in 1 .. gen

\* What is kept while nothing is known of where the operation is.
Settled ==
    /\ gen >= 1
    /\ target \in {Absent, Empty, Foreign} \/ Whole(target)
    /\ previous.kind = "bundle" => Whole(previous) /\ (target = Absent \/ Whole(target))
    /\ previous.kind = "torn" => Whole(target)

\* What was put aside is what commit saw at the target.
AsideMatches ==
    /\ replacing = "bundle" => Whole(previous)
    /\ replacing = "empty" => previous = Empty

\* The staged bundle is newer than anything published.
StagedIsNewest ==
    /\ staging = Bundle(gen)
    /\ Whole(target) => target.gen < gen
    /\ Whole(previous) => previous.gen < gen

AtPc ==
    /\ pc = "recoverRename" => target = Absent /\ Whole(previous)
    /\ pc = "recoverRemove" => Whole(target) /\ previous # Foreign
    /\ pc \in {"stage", "fill", "check"} => ~IsBundle(previous)
    /\ pc \in {"check", "aside", "publish", "rollback"} => StagedIsNewest
    /\ pc = "aside" => /\ previous = Absent
                       /\ \/ replacing = "bundle" /\ Whole(target)
                          \/ replacing = "empty" /\ target = Empty
    /\ pc = "publish" => target = Absent /\ AsideMatches
    /\ pc = "rollback" => target = Absent /\ AsideMatches /\ replacing # "none"
    /\ pc = "reclaim" => /\ Whole(target)
                         /\ \/ replacing = "bundle" /\ previous # Foreign
                            \/ replacing = "empty" /\ previous = Empty

IInv == TypeOK /\ Settled /\ AtPc

-----------------------------------------------------------------------------
\* A renaming never confuses the directory kinds: the constants differ.
LEMMA DirFacts ==
    /\ \A d \in {Absent, Empty, Foreign, Debris} : d \in Dirs /\ ~IsBundle(d)
    /\ \A n \in Nat : Bundle(n) \in Dirs /\ Torn(n) \in Dirs
    /\ \A d \in Dirs : d.kind = "bundle" => d = Bundle(d.gen)
    /\ \A d \in Dirs : Remains(d) \subseteq Dirs
    /\ \A d \in Dirs : \A r \in Remains(d) :
            IsBundle(d) /\ r # Foreign /\ r # Absent /\ r.kind # "bundle"
BY DEF Absent, Empty, Foreign, Debris, Bundle, Torn, Dir, Dirs, Kinds, IsBundle, Remains

\* Every state the program starts in satisfies the invariant.
LEMMA InitIInv == Init => IInv
BY DEF Init, IInv, TypeOK, Settled, AtPc, Whole, Dirs, Kinds, PCs, IsBundle,
       Absent, Empty, Foreign, Debris, Bundle, Torn, Dir

\* Each step of the program preserves it, one step of the proof per action.
LEMMA StepIInv == IInv /\ [Next]_vars => IInv'
<1>. SUFFICES ASSUME IInv, [Next]_vars PROVE IInv'
  OBVIOUS
<1>. USE DEF IInv, TypeOK, Settled, AtPc, StagedIsNewest, AsideMatches, Whole,
             PCs, Dirs, Kinds, Dir, Absent, Empty, Foreign, Debris, Bundle, Torn, disk
<1>1. ASSUME NEW o \in {"open", "capture", "snapshot"}, Begin(o) PROVE IInv'
  BY <1>1 DEF Begin
<1>2. CASE RecoverCheck
  BY <1>2 DEF RecoverCheck, IsBundle, Exists, AfterRecovery
<1>3. CASE RecoverRename
  BY <1>3 DEF RecoverRename, CanRename, AfterRecovery, IsBundle
<1>4. CASE RemoveSome
  BY <1>4 DEF RemoveSome, Remains
<1>5. CASE RecoverRemove
  BY <1>5 DEF RecoverRemove, AfterRecovery, IsBundle
<1>6. CASE Stage
  BY <1>6 DEF Stage, Exists
<1>7. CASE Fill
  BY <1>7 DEF Fill, IsBundle
<1>8. CASE FillStops
  BY <1>8 DEF FillStops, Abandon
<1>9. CASE CommitCheck
  BY <1>9 DEF CommitCheck, Abandon, Replaceable, IsBundle, Exists
<1>10. CASE PutAside
  BY <1>10 DEF PutAside, CanRename
<1>11. CASE Publish
  BY <1>11 DEF Publish, CanRename
<1>12. CASE Rollback
  BY <1>12 DEF Rollback, CanRename, Abandon
<1>13. CASE Reclaim
  BY <1>13 DEF Reclaim
<1>14. CASE FailedCall
  BY <1>14 DEF FailedCall, Abandon
<1>15. CASE Kill
  BY <1>15 DEF Kill, Abandon
<1>16. CASE UNCHANGED vars
  BY <1>16 DEF vars, IsBundle
<1>. QED
  BY <1>1, <1>2, <1>3, <1>4, <1>5, <1>6, <1>7, <1>8, <1>9, <1>10, <1>11, <1>12, <1>13, <1>14, <1>15, <1>16 DEF Next, Step

(***************************************************************************)
(* Theorem: the invariant holds in every reachable state, whatever the     *)
(* number of backups, kills and failures.                                  *)
(***************************************************************************)
THEOREM Invariance == Spec => []IInv
BY InitIInv, StepIInv, PTL DEF Spec

(***************************************************************************)
(* Theorem: the variables keep their types.                                *)
(***************************************************************************)
THEOREM TypeCorrect == Spec => []TypeOK
<1>1. IInv => TypeOK
  BY DEF IInv
<1>. QED
  BY <1>1, Invariance, PTL

(***************************************************************************)
(* Theorem: no kill and no failed call ever leaves half a backup where     *)
(* backups are opened (the target of recover_bundle's and commit's         *)
(* renames).                                                               *)
(***************************************************************************)
THEOREM NeverTornHolds == Spec => []NeverTorn
<1>1. IInv => NeverTorn
  BY DEF IInv, Settled, Whole, NeverTorn, Absent, Empty, Foreign, Dir
<1>. QED
  BY <1>1, Invariance, PTL

(***************************************************************************)
(* Theorem: somebody else's directory is never moved, replaced or deleted, *)
(* neither at the target (replaceable refuses it) nor at the `.previous`   *)
(* name (recover_bundle leaves what is no bundle).                         *)
(***************************************************************************)
THEOREM ForeignStaysHolds == Spec => ForeignStays
<1> DEFINE Kept == /\ target = Foreign => target' = Foreign
                   /\ previous = Foreign => previous' = Foreign
<1>1. IInv /\ [Next]_vars => [Kept]_vars
  <2>. SUFFICES ASSUME IInv, [Next]_vars PROVE [Kept]_vars
    OBVIOUS
  <2>. USE DEF IInv, AtPc, AsideMatches, Whole, Foreign, Absent, Empty, Dir
  <2>1. CASE RecoverRename
    BY <2>1 DEF RecoverRename
  <2>2. CASE RemoveSome
    BY <2>2 DEF RemoveSome, Remains
  <2>3. CASE RecoverRemove
    BY <2>3 DEF RecoverRemove
  <2>4. CASE PutAside
    BY <2>4 DEF PutAside
  <2>5. CASE Publish
    BY <2>5 DEF Publish
  <2>6. CASE Rollback
    BY <2>6 DEF Rollback, TypeOK
  <2>7. CASE Reclaim
    BY <2>7 DEF Reclaim
  <2>8. CASE UNCHANGED <<target, previous>>
    BY <2>8
  <2>. QED
    BY <2>1, <2>2, <2>3, <2>4, <2>5, <2>6, <2>7, <2>8
       DEF Next, Step, vars, disk, Begin, RecoverCheck, Stage, Fill, FillStops,
           CommitCheck, FailedCall, Kill
<1>. QED
  BY <1>1, Invariance, PTL DEF Spec, ForeignStays

-----------------------------------------------------------------------------
(***************************************************************************)
(* The refinement: two renames and a removal, interrupted anywhere, act as *)
(* one atomic replacement of the stored backup.                            *)
(***************************************************************************)
\* What an owner holds is a generation some capture made, or 0.
LEMMA HeldNat == IInv => Held \in Nat
BY DEF IInv, TypeOK, Held, Dirs

\* Publishing is the only step that changes it, and only to a newer one.
LEMMA StepStores == IInv /\ [Next]_vars => [Store!Next]_Held
<1>. SUFFICES ASSUME IInv, [Next]_vars PROVE Held' = Held \/ Store!Next
  BY DEF IInv
<1>. USE DEF IInv, TypeOK, Settled, AtPc, StagedIsNewest, AsideMatches, Whole,
             Dirs, Kinds, Dir, Absent, Empty, Foreign, Debris, Bundle, Torn
<1>1. CASE RecoverRename
  BY <1>1 DEF RecoverRename, Held
<1>2. CASE RemoveSome
  BY <1>2 DEF RemoveSome, Remains, Held
<1>3. CASE RecoverRemove
  BY <1>3 DEF RecoverRemove, Held
<1>4. CASE PutAside
  BY <1>4 DEF PutAside, Held
<1>5. CASE Publish
  <2>1. Held' = gen
    BY <1>5 DEF Publish, Held
  <2>2. Held < gen /\ Held \in Nat
    BY <1>5 DEF Publish, Held
  <2>. QED
    BY <2>1, <2>2 DEF Store!Next, Store!Publish
<1>6. CASE Rollback
  BY <1>6 DEF Rollback, Held
<1>7. CASE Reclaim
  BY <1>7 DEF Reclaim, Held
<1>8. CASE UNCHANGED <<target, previous>>
  BY <1>8 DEF Held
<1>. QED
  BY <1>1, <1>2, <1>3, <1>4, <1>5, <1>6, <1>7, <1>8
     DEF Next, Step, vars, disk, Begin, RecoverCheck, Stage, Fill, FillStops,
         CommitCheck, FailedCall, Kill

(***************************************************************************)
(* Theorem: BundleSwap implements BundleStore: the newest published backup *)
(* is held at every moment and replaced only by a newer complete one.      *)
(***************************************************************************)
THEOREM KeepsNewestHolds == Spec => KeepsNewest
<1>1. Init => Store!Init
  BY InitIInv, HeldNat DEF Store!Init
<1>. QED
  BY <1>1, StepStores, Invariance, PTL DEF Spec, KeepsNewest, Store!Spec
=============================================================================
