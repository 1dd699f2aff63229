---------------------------- MODULE MCHxSession ----------------------------
(* Instances of HxSession for TLC. *)
EXTENDS HxSession

\* What the transport may do: everything but a malformed transfer.
TransportFaults == {"writeTimeout", "writeError", "readError"}
Garbled == {"garbled"}

BothChannels == {"control", "data"}
DataOnly     == {"data"}
=============================================================================
