---------------------------- MODULE MCBundleSwap ----------------------------
(* BundleSwap for TLC: the bounds are in the .cfg files.                   *)
EXTENDS BundleSwap
=============================================================================
