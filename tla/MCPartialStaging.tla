-------------------------- MODULE MCPartialStaging --------------------------
(* Two hunks in either worktree: replaced lines at the first line and the last; or a line put before *)
(* the first, which moves the rest, and the last two lines replaced by one.                          *)
EXTENDS PartialStaging

MCHead      == <<1, 2, 3, 4, 5, 6>>
MCWorktrees == {<<11, 2, 3, 4, 5, 16, 26>>, <<10, 1, 2, 3, 4, 15>>}
=============================================================================
