--------------------------- MODULE MCVoidxLibrary ---------------------------
(* VoidxLibrary with its constants given by the configurations.  Names,       *)
(* contents and values are interchangeable.                                  *)
EXTENDS VoidxLibrary, TLC
Everything == Kinds
Reordering == {"capture", "arm", "move", "restore_armed"}
Alike == Permutations(Names) \cup Permutations(Blobs) \cup Permutations(Values)
=============================================================================
