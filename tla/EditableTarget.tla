--------------------------- MODULE EditableTarget ---------------------------
(***************************************************************************)
(* What a DLL writer promises about the file it edits, however many        *)
(* processes run it and wherever they stop.  The first thing that ever     *)
(* happens to the target's directory is that the original is saved, whole; *)
(* the saved copy is then the original for good; and whatever the target   *)
(* becomes is one of the Contents the writer's edits lead to from the      *)
(* original.                                                               *)
(***************************************************************************)

CONSTANTS Original, NoFile,
          Contents    \* what the target may ever hold

VARIABLES file, saved

Init ==
    /\ file = Original
    /\ saved = NoFile

Save ==
    /\ saved = NoFile
    /\ saved' = Original
    /\ UNCHANGED file

Rewrite ==
    /\ saved = Original
    /\ file' \in Contents
    /\ UNCHANGED saved

Spec == Init /\ [][Save \/ Rewrite]_<<file, saved>>
=============================================================================
