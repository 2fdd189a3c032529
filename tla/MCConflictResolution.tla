------------------------ MODULE MCConflictResolution ------------------------
(* Small instances of ConflictResolution: one resolver that writes a file or
   deletes it, one that makes a symbolic link. *)
EXTENDS ConflictResolution, TLC

CONSTANTS r1, r2
CONSTANTS NoEdits, NoGits, NoFaults, NoEvents

MCPlans == (r1 :> {"regular", "delete", "working"}) @@ (r2 :> {"symlink", "gitlink"})
DeletePlans == (r1 :> {"delete"})
MCBudget == ("edit" :> NoEdits) @@ ("git" :> NoGits) @@ ("fault" :> NoFaults)
                @@ ("total" :> NoEvents)
MCSymmetry == Permutations(Save)
=============================================================================
