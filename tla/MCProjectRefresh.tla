-------------------------- MODULE MCProjectRefresh --------------------------
(* Small instances of ProjectRefresh: a log of two or three commits, one of them by
   the user, pages of two commits and a first batch of one. *)
EXTENDS ProjectRefresh, TLC

CONSTANTS NoEdits, NoTrees, NoOps, NoRefreshes, NoToggles, NoErrors, NoWatchErrors, NoEvents

MCInitialLog == [f \in {"all", "mine"} |->
                    IF f = "all" THEN <<3, 2, 1>> ELSE <<2>>]
MCShortLog == [f \in {"all", "mine"} |->
                  IF f = "all" THEN <<2, 1>> ELSE <<2>>]
MCMine == {n \in 1..20 : n % 2 = 0}
MCBudget == [edit |-> NoEdits, tree |-> NoTrees, op |-> NoOps, refresh |-> NoRefreshes,
             toggle |-> NoToggles, error |-> NoErrors, watchError |-> NoWatchErrors,
             total |-> NoEvents]
MCSymmetry == Permutations(Pagers)
=============================================================================
