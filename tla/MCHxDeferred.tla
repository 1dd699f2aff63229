---------------------------- MODULE MCHxDeferred ----------------------------
(* HxDeferred with its constants given by the configurations. *)
EXTENDS HxDeferred
AllCalls == {"select", "write", "upload"}
WritesOnly == {"write"}
=============================================================================
