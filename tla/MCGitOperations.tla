-------------------------- MODULE MCGitOperations --------------------------
(* Two files.  main, with two commits, and side change the same file,      *)
(* topic (a remote branch) adds the other; all three start from the first  *)
(* commit, which v1 tags, and so does a stash entry that changes the first *)
(* file.  On the server main has what topic has, and topic is gone.        *)
EXTENDS GitOperations

C(parents, f, g) == [parents |-> parents, tree |-> ("f" :> f) @@ ("g" :> g)]

Commits == << C(<<>>, {1}, {}), C(<<1>>, {1, 2}, {}), C(<<1>>, {1, 3}, {}), C(<<1>>, {1}, {4}),
              C(<<2>>, {1, 2, 6}, {}) >>
Refs == ("main" :> 5) @@ ("side" :> 3) @@ ("topic" :> 0) @@ ("v1" :> 1) @@
        ("origin/main" :> 1) @@ ("origin/side" :> 0) @@ ("origin/topic" :> 4)
Stashes == << [base |-> 1, tree |-> ("f" :> {1, 5}) @@ ("g" :> {})] >>
Names == ("origin/main" :> "main") @@ ("origin/side" :> "side") @@ ("origin/topic" :> "topic")
Tracks == ("main" :> "origin/main") @@ ("side" :> "none") @@ ("topic" :> "none")
Server == ("origin/main" :> 4) @@ ("origin/side" :> 0) @@ ("origin/topic" :> 0)

Ask(kind) == Request(kind, None, 0)

\* Every kind of operation, on few things.
Requests ==
    {Ask(k) : k \in {"stageAll", "unstageAll", "commit", "amend", "stashSave", "discardAll",
                     "clean", "resetHard", "abort", "continue", "fetch", "pull", "push",
                     "forcePush"}}
    \cup {Request("stage", "g", 0), Request("unstage", "f", 0), Request("resolve", "f", 0),
          Request("discard", "f", 0)}
    \cup {Request("checkout", b, 0) : b \in {"side", "origin/topic"}}
    \cup {Request("checkoutCommit", None, 1), Request("checkoutTag", "v1", 0)}
    \cup {Request("createBranch", "topic", 0),
          Request("deleteBranch", "side", 0), Request("deleteTag", "v1", 0),
          Request("renameBranch", "main", "topic")}
    \cup {Request(k, None, 1) : k \in {"stashPop", "stashApply", "stashDrop", "resetTo",
                                       "resetMixed", "resetSoft"}}
    \cup {Request("stashBranch", "topic", 1)}
    \cup {Request("cherryPick", None, 3), Request("cherryPick", None, 4), Request("revert", None, 5)}
    \cup {Request("rebase", plan, 0) : plan \in
              {<<Step(2, "drop"), Step(5, "pick")>>, <<Step(2, "reword"), Step(5, "squash")>>,
               <<Step(2, "drop"), Step(5, "squash")>>,
               <<Step(6, "drop")>>, <<Step(5, "drop"), Step(6, "reword")>>}}
    \cup {Request("merge", b, 0) : b \in {"main", "side", "origin/topic"}}

OperationBudget ==
    ("operation" :> 3) @@ ("undo" :> 1) @@ ("edit" :> 1) @@ ("expiry" :> 1) @@ ("failure" :> 1) @@
    ("total" :> 3)

CommitThenSwitch == {Ask("commit"), Request("checkout", "side", 0)}
SwitchThenPush   == {Ask("forcePush"), Request("checkout", "side", 0)}
=============================================================================
