------------------------- MODULE MCBranchGraphState -------------------------
(* Small instances of BranchGraphState: two local branches, main with an
   upstream on one of two remotes, and a feature branch. *)
EXTENDS BranchGraphState, TLC

CONSTANTS main, feature, originMain, forkMain
CONSTANTS NoCommits, NoCheckouts, NoPushes, NoFetches, NoDeletes, NoDetaches,
          NoPublishes, NoTracks, NoFulls, NoOperations, NoStages, NoToggles, NoSaves, NoErrors, NoEvents

MCTrunkOrder == <<main, originMain>>
MCInitialTips == (main :> 2) @@ (feature :> 1) @@ (originMain :> 1) @@ (forkMain :> 2)
LocalUpstream == (main :> originMain) @@ (feature :> main)
MCBudget ==
    ("commit" :> NoCommits) @@ ("checkout" :> NoCheckouts) @@ ("push" :> NoPushes) @@
    ("fetch" :> NoFetches) @@ ("delete" :> NoDeletes) @@ ("detach" :> NoDetaches) @@
    ("publish" :> NoPublishes) @@ ("track" :> NoTracks) @@
    ("full" :> NoFulls) @@ ("operation" :> NoOperations) @@ ("stage" :> NoStages) @@
    ("toggle" :> NoToggles) @@ ("save" :> NoSaves) @@ ("error" :> NoErrors) @@
    ("total" :> NoEvents)
=============================================================================
