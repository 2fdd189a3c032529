---------------------------- MODULE MCCommitGraph ----------------------------
(* A small instance of CommitGraph. *)
EXTENDS CommitGraph

\* A page of the history, and all of it but one commit of another author's.  Where the sixth
\* commit has no child, the page is all of a history of five.
MCWindows == {1..5, (1..6) \ {3}}
=============================================================================
