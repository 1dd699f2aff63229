----------------------------- MODULE MCHxEditor -----------------------------
(* HxEditor with its constants given by the configurations.  Slots and       *)
(* versions are interchangeable.                                             *)
EXTENDS HxEditor, TLC
Everything == Kinds
Playing == {"SetParam", "Undo", "InsertBlock", "LoadSteps", "AuditionDocument",
            "AuditionSteps", "EndAudition", "TryModel", "PutBack"}
Following == {"Select", "SetParam", "Undo", "LoadDocument", "AuditionDocument", "EndAudition"}
Lossy == {"lose"}
Refused == {"refuse"}
Panel == {"panel", "lose"}
Alike == Permutations(Presets) \cup Permutations(Texts)
=============================================================================
