---------------------------- MODULE BundleStore ----------------------------
(***************************************************************************)
(* What a backup directory promises to its owner, with none of the         *)
(* machinery: it holds the newest backup that was ever published there (0  *)
(* before the first one), and the only step is to replace it, at once, by  *)
(* a newer complete one.  A crash, a failed call, a recovery and a refused *)
(* backup are all stutters.                                                *)
(***************************************************************************)
EXTENDS Naturals

VARIABLE stored

TypeOK == stored \in Nat

Init == stored \in Nat

Publish == /\ stored' \in Nat
           /\ stored' > stored

Next == Publish

Spec == Init /\ [][Next]_stored
=============================================================================
