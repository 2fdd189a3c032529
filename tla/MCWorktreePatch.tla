-------------------------- MODULE MCWorktreePatch --------------------------
(* Two tabs; patches that change a line, add a file, delete it, and one too large to undo. *)
EXTENDS WorktreePatch, TLC

CONSTANTS w1, w2

File(edits) == [edits |-> edits, there |-> TRUE]

MCWorktree    == {w1, w2}
MCInitialFile == (w1 :> File({1})) @@ (w2 :> File({1, 2}))
MCOffered     ==
    {[base |-> File({1}), target |-> File({1, 2}), file |-> FALSE, fits |-> TRUE],
     [base |-> File({1}), target |-> Absent, file |-> TRUE, fits |-> TRUE],
     [base |-> Absent, target |-> File({3}), file |-> TRUE, fits |-> FALSE]}
MCBudget      == [patch |-> 2, undo |-> 2, save |-> 2, delete |-> 1, switch |-> 1, close |-> 1,
                  total |-> 5]
=============================================================================
