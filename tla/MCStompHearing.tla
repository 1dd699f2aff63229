-------------------------- MODULE MCStompHearing --------------------------
(* StompHearing for TLC: the bounds are in the .cfg files.                  *)
EXTENDS StompHearing
=============================================================================
