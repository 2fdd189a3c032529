----------------------------- MODULE MCDiffPane -----------------------------
(* Small instances of DiffPane. *)
EXTENDS DiffPane, TLC

CONSTANTS edited, merging, c1, c2, s1, s2
CONSTANTS NoSelects, NoEdits, NoDrops, NoThemes, NoChoices, NoFailures, NoEvents

MCHistory == <<c1, c2>>
MCStashes == <<s1, s2>>
MCRowCount == [t \in {edited, merging, c1} |-> 1] @@ (c2 :> 2) @@ (s1 :> 3) @@ (s2 :> 4)
MCBudget ==
    ("select" :> NoSelects) @@ ("edit" :> NoEdits) @@ ("drop" :> NoDrops) @@
    ("theme" :> NoThemes) @@ ("choose" :> NoChoices) @@ ("failure" :> NoFailures) @@
    ("total" :> NoEvents)
=============================================================================
