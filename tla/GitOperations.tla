--------------------------- MODULE GitOperations ---------------------------
(***************************************************************************)
(* The operations a tab runs on its repository and its remote              *)
(* (crates/rgitui_git/src/project/local_ops.rs, network.rs and rebase.rs)  *)
(* and the undo stack of the workspace (crates/rgitui_workspace/src/       *)
(* workspace/undo.rs).                                                     *)
(*                                                                         *)
(* A click begins an operation on the foreground thread, where its undo is *)
(* pushed before anything is known of its outcome.  The operation then     *)
(* works on the repository in the background: some check first that no     *)
(* tracked file has changes, and the user may edit a file between that     *)
(* check and the work.  Last, its outcome and a fresh reading of the       *)
(* repository come back to the foreground.  Nothing serializes the         *)
(* operations of a project.                                                *)
(*                                                                         *)
(* The content of a file is the set of edits in it, {} when there is no    *)
(* such file.  A conflicting merge leaves the edits of both sides in the   *)
(* file.  What libgit2 and the git command do is modelled by how           *)
(* local_ops.rs uses them.                                                 *)
(***************************************************************************)
EXTENDS Naturals, Sequences, FiniteSets, SequencesExt

CONSTANTS
    Path, Branch, Remote, Tag,
    LocalName,       \* the branch that has the name of a remote one
    InitialCommits,  \* a commit is its parents and its tree; its id is its position
    InitialRefs,     \* where every branch and tag points, 0 for nowhere
    InitialBranch,   \* what is checked out
    InitialUpstream, \* the remote branch each branch tracks
    InitialServer,   \* where the branches are on the server
    InitialStashes,  \* the commit each entry was made on and the files it holds, newest first
    None,
    Offered,         \* what the user asks for, as far as it is there
    MaxRunning,      \* operations in flight at once
    MaxUndo,         \* MAX_UNDO_HISTORY
    Budget           \* how often each event from outside may happen

BudgetKind == {"operation", "undo", "edit", "expiry", "failure", "total"}
Ref == Branch \cup Remote \cup Tag

\* The kinds of operation, by what a request of the kind names.
OnPath   == {"stage", "unstage", "resolve", "discard"}
OnBranch == {"createBranch", "deleteBranch", "renameBranch", "stashBranch"}
OnTag    == {"checkoutTag", "createTag", "deleteTag"}
OnRef    == {"checkout", "merge"}
OnRemote == {"pull", "push", "forcePush"}
AtCommit == {"checkoutCommit", "createTag", "resetTo", "resetMixed", "resetSoft", "cherryPick",
             "revert"}
AtStash  == {"stashPop", "stashApply", "stashDrop", "stashBranch"}
Nameless == {"stageAll", "unstageAll", "commit", "amend", "stashSave", "discardAll", "clean",
             "resetHard", "abort", "continue", "fetch"}

Kind == OnPath \cup OnBranch \cup OnTag \cup OnRef \cup OnRemote \cup AtCommit \cup AtStash
            \cup Nameless \cup {"rebase"}

RebaseAction == {"pick", "reword", "squash", "fixup", "drop"}

\* A request on what is there when there are n commits; where a pull or a push goes is not its
\* to say.
Sensible(q, n) ==
    /\ q \in [kind : {q.kind}, on : {q.on}, at : {q.at}] /\ q.kind \in Kind
    /\ q.kind \in OnPath => q.on \in Path
    /\ q.kind \in OnBranch => q.on \in Branch
    /\ q.kind \in OnTag => q.on \in Tag
    /\ q.kind \in OnRef => q.on \in Branch \cup Remote
    /\ q.kind \in AtCommit => q.at \in 1..n
    /\ q.kind \in AtStash => q.at \in Nat \ {0}
    /\ q.kind = "createBranch" => q.at \in 0..n
    /\ q.kind = "renameBranch" => q.at \in Branch
    /\ q.kind = "rebase" => q.on \in Seq([commit : 1..n, action : RebaseAction])

ASSUME GitOperationsAssumption ==
    /\ LocalName \in [Remote -> Branch] /\ \A b \in Branch : \E m \in Remote : LocalName[m] = b
    /\ InitialCommits \in Seq([parents : Seq(Nat), tree : [Path -> SUBSET (1..99)]])
    /\ \A c \in DOMAIN InitialCommits : InitialCommits[c].parents \in Seq(1..(c - 1))
    /\ InitialRefs \in [Ref -> 0..Len(InitialCommits)]
    /\ InitialBranch \in Branch /\ InitialRefs[InitialBranch] # 0
    /\ InitialUpstream \in [Branch -> Remote \cup {None}]
    /\ InitialServer \in [Remote -> 0..Len(InitialCommits)]
    /\ InitialStashes \in Seq([base : 1..Len(InitialCommits), tree : [Path -> SUBSET (1..99)]])
    /\ None \notin Ref /\ Branch \cap (Remote \cup Tag) = {} /\ Remote \cap Tag = {}
    /\ MaxRunning \in Nat \ {0} /\ MaxUndo \in Nat \ {0}
    /\ Budget \in [BudgetKind -> Nat]

VARIABLES
    repo,       \* the repository with its working tree, and the branches on the server
    shown,      \* the snapshot the interface draws: refs, and whether anything changed
    running,    \* operations in flight
    undo,       \* UndoStack: the operations that would undo, newest last
    budget

vars == <<repo, shown, running, undo, budget>>

-----------------------------------------------------------------------------
(* The repository *)

HeadOid(r)     == IF r.branch = None THEN r.at ELSE r.refs[r.branch]
Tree(r, c)  == r.commits[c].tree
HeadTree(r) == Tree(r, HeadOid(r))

Tracked(r)   == {f \in Path : r.index[f] # {} \/ HeadTree(r)[f] # {}}
Untracked(r) == {f \in Path \ Tracked(r) : r.work[f] # {}}

\* repo_has_worktree_changes: untracked files do not count.
Changed(r) ==
    {f \in Tracked(r) : r.index[f] # HeadTree(r)[f] \/ r.work[f] # r.index[f]} \cup r.unmerged

Ancestors(r, c) ==
    LET reach[n \in 0..c] ==
            IF n = 0 THEN {c}
            ELSE reach[n - 1] \cup UNION {ToSet(r.commits[d].parents) : d \in reach[n - 1]}
    IN  reach[c]

EmptyTree == [f \in Path |-> {}]

\* The tree of the best common ancestor; unrelated commits have none.
BaseTree(r, c, d) ==
    LET common == Ancestors(r, c) \cap Ancestors(r, d)
    IN  IF common = {} THEN EmptyTree
        ELSE Tree(r, CHOOSE b \in common : \A a \in common : b \notin Ancestors(r, a) \ {a})

ParentTree(r, c) ==
    IF r.commits[c].parents = <<>> THEN EmptyTree ELSE Tree(r, r.commits[c].parents[1])

NotDoing == [what |-> "none", other |-> 0]

\* What the interface reads of it.
Reading(r) == [refs |-> r.refs, changed |-> Changed(r) \cup Untracked(r) # {}]

\* Moves HEAD's branch, or HEAD itself when it is detached.
MovedTo(r, c) ==
    IF r.branch = None THEN [r EXCEPT !.at = c] ELSE [r EXCEPT !.refs[r.branch] = c]

Committed(r, parents) ==
    MovedTo([r EXCEPT !.commits = Append(@, [parents |-> parents, tree |-> r.index])],
            Len(r.commits) + 1)

Outcome(result, r) == [result |-> result, repo |-> r]
Done(r)    == Outcome("done", r)
Refused(r) == Outcome("refused", r)

-----------------------------------------------------------------------------
(* What libgit2 does *)

Merged(base, ours, theirs) ==
    [f \in Path |-> IF ours[f] = base[f] THEN theirs[f]
                    ELSE IF theirs[f] = base[f] THEN ours[f]
                    ELSE ours[f] \cup theirs[f]]

Clashes(base, ours, theirs) ==
    {f \in Path : /\ ours[f] # base[f] /\ theirs[f] # base[f] /\ ours[f] # theirs[f]}

\* Mutant of CheckoutSafe: a forced checkout.
CheckoutForced(r, from, to) ==
    LET moved == {f \in Path : to[f] # from[f]}
    IN  Done([r EXCEPT !.index = [f \in Path |-> IF f \in moved THEN to[f] ELSE @[f]],
                       !.work  = [f \in Path |-> IF f \in moved THEN to[f] ELSE @[f]]])

\* Updates what differs between two trees, unless the working tree has something else.
CheckoutSafe(r, from, to) ==
    LET moved == {f \in Path : to[f] # from[f]}
    IN  IF \E f \in moved : r.work[f] \notin {from[f], to[f]} THEN Refused(r)
        ELSE Done([r EXCEPT !.index = [f \in Path |-> IF f \in moved THEN to[f] ELSE @[f]],
                            !.work  = [f \in Path |-> IF f \in moved THEN to[f] ELSE @[f]]])

\* Merge, cherry-pick and revert: three trees into the index and the working tree.
Absorbed(r, base, theirs, doing) ==
    LET out == CheckoutSafe(r, HeadTree(r), Merged(base, HeadTree(r), theirs))
    IN  IF out.result = "refused" THEN out
        ELSE Done([out.repo EXCEPT !.unmerged = Clashes(base, HeadTree(r), theirs),
                                   !.doing    = doing])

\* Mutant of HardReset: the index stays.
HardResetLeavingIndex(r, c) ==
    LET tree == Tree(r, c)
    IN  [MovedTo(r, c) EXCEPT
            !.unmerged = {}, !.doing = NotDoing,
            !.work = [f \in Path |-> IF f \in Tracked(r) \/ tree[f] # {} THEN tree[f] ELSE @[f]]]

HardReset(r, c) ==
    LET tree == Tree(r, c)
    IN  [MovedTo(r, c) EXCEPT
            !.index = tree, !.unmerged = {}, !.doing = NotDoing,
            !.work = [f \in Path |-> IF f \in Tracked(r) \/ tree[f] # {} THEN tree[f] ELSE @[f]]]

MixedReset(r, c) ==
    [MovedTo(r, c) EXCEPT !.index = Tree(r, c), !.unmerged = {}, !.doing = NotDoing]

\* No flags: what is staged is not told apart, untracked files stay.
Stashed(r) ==
    IF r.unmerged # {} \/ Changed(r) = {} THEN Refused(r)
    ELSE LET entry == [base |-> HeadOid(r),
                       tree |-> [f \in Path |-> IF f \in Tracked(r) THEN r.work[f] ELSE {}]]
         IN  Done([r EXCEPT !.stashes = <<entry>> \o @,
                            !.index   = HeadTree(r),
                            !.work    = [f \in Path |-> IF f \in Tracked(r) THEN HeadTree(r)[f]
                                                        ELSE @[f]]])

\* Wants a clean index.  A clash is no error: it leaves an unmerged file.
Unstashed(r, i) ==
    IF i > Len(r.stashes) \/ r.unmerged # {} \/ r.index # HeadTree(r) THEN Refused(r)
    ELSE LET base    == Tree(r, r.stashes[i].base)
             theirs  == r.stashes[i].tree
             clashes == Clashes(base, r.index, theirs)
             out     == CheckoutSafe(r, r.index, Merged(base, r.index, theirs))
             added   == {f \in Path : base[f] = {} /\ theirs[f] # {}}
         IN  IF out.result = "refused" THEN out
             ELSE IF clashes # {} THEN Done([out.repo EXCEPT !.unmerged = clashes])
             ELSE Done([out.repo EXCEPT
                           !.index = [f \in Path |-> IF f \in added THEN theirs[f]
                                                     ELSE r.index[f]]])

Dropped(r, i) == [r EXCEPT !.stashes = RemoveAt(@, i)]

-----------------------------------------------------------------------------
(* The operations.  A request names its kind, what it is on and a commit.  *)

Request(kind, on, at) == [kind |-> kind, on |-> on, at |-> at]

StageFile(r, f) ==
    IF f \in r.unmerged THEN Refused(r) ELSE Done([r EXCEPT !.index[f] = r.work[f]])

StageAll(r) ==
    Done([r EXCEPT !.index = [f \in Path |-> IF f \in r.unmerged THEN @[f] ELSE r.work[f]]])

UnstageFile(r, f) ==
    Done([r EXCEPT !.index[f] = HeadTree(r)[f], !.unmerged = @ \ {f}])

UnstageAll(r) == Done(MixedReset(r, HeadOid(r)))

\* stage_conflict_worktree_at: what the working tree has is the resolution.
ResolveConflict(r, f) ==
    IF f \notin r.unmerged THEN Refused(r)
    ELSE Done([r EXCEPT !.index[f] = r.work[f], !.unmerged = @ \ {f}])

\* write_tree needs an index without conflicts, and the operation one with entries.
NothingToCommit(r) == r.unmerged # {} \/ \A f \in Path : r.index[f] = {}

\* Mutant of CommitIndex: the commit of a merge in progress has one parent.
CommitOneParent(r) ==
    IF NothingToCommit(r) THEN Refused(r)
    ELSE Done([Committed(r, <<HeadOid(r)>>) EXCEPT
                  !.doing = IF @.what = "merge" THEN NotDoing ELSE @])

\* A commit made during a merge finishes the merge; of a cherry-pick or a revert it leaves
\* the state behind.
CommitIndex(r) ==
    IF NothingToCommit(r) THEN Refused(r)
    ELSE IF r.doing.what = "merge"
    THEN Done([Committed(r, <<HeadOid(r), r.doing.other>>) EXCEPT !.doing = NotDoing])
    ELSE Done(Committed(r, <<HeadOid(r)>>))

AmendCommit(r) ==
    IF NothingToCommit(r) \/ r.doing.what = "rebase" THEN Refused(r)
    ELSE Done(Committed(r, r.commits[HeadOid(r)].parents))

\* Mutant of CheckoutBranch: HEAD moves first.
CheckoutBranchHeadFirst(r, name) ==
    LET local == IF name \in Remote THEN LocalName[name] ELSE name
        made  == IF name \in Remote
                 THEN [r EXCEPT !.refs[local] = r.refs[name], !.upstream[local] = name] ELSE r
        moved == [made EXCEPT !.branch = local]
    IN  IF \/ r.refs[name] = 0
           \/ name \in Remote /\ r.refs[local] # 0
           \/ r.branch = local
        THEN Refused(r)
        ELSE CheckoutSafe(moved, HeadTree(r), HeadTree(moved))

\* A remote branch gets a local branch to track it first; that stays if the rest fails.
CheckoutBranch(r, name) ==
    LET local  == IF name \in Remote THEN LocalName[name] ELSE name
        target == r.refs[name]
        made   == IF name \in Remote
                  THEN [r EXCEPT !.refs[local] = target, !.upstream[local] = name] ELSE r
        out    == CheckoutSafe(made, HeadTree(r), Tree(r, target))
    IN  IF \/ target = 0
           \/ name \in Remote /\ r.refs[local] # 0
           \/ r.branch = local
        THEN Refused(r)
        ELSE IF out.result = "refused" THEN out
        ELSE Done([out.repo EXCEPT !.branch = local])

CheckoutCommit(r, c) ==
    LET out == CheckoutSafe(r, HeadTree(r), Tree(r, c))
    IN  IF out.result = "refused" THEN out
        ELSE Done([out.repo EXCEPT !.branch = None, !.at = c])

CheckoutTag(r, name) ==
    IF r.refs[name] = 0 THEN Refused(r) ELSE CheckoutCommit(r, r.refs[name])

CreateRef(r, name, c) ==
    IF r.refs[name] # 0 THEN Refused(r) ELSE Done([r EXCEPT !.refs[name] = c])

CreateBranch(r, name, c) == CreateRef(r, name, IF c = 0 THEN HeadOid(r) ELSE c)
CreateTag(r, name, c)    == CreateRef(r, name, c)

DeleteBranch(r, name) ==
    IF r.refs[name] = 0 \/ r.branch = name THEN Refused(r)
    ELSE Done([r EXCEPT !.refs[name] = 0, !.upstream[name] = None])

DeleteTag(r, name) ==
    IF r.refs[name] = 0 THEN Refused(r) ELSE Done([r EXCEPT !.refs[name] = 0])

RenameBranch(r, old, new) ==
    IF r.refs[old] = 0 \/ r.refs[new] # 0 THEN Refused(r)
    ELSE Done([r EXCEPT !.refs[old] = 0, !.refs[new] = r.refs[old],
                        !.upstream[old] = None, !.upstream[new] = r.upstream[old],
                        !.branch = IF @ = old THEN new ELSE @])

StashSave(r) == Stashed(r)

\* When the stash cannot be applied because the index already has conflicts, the operation
\* reports a pop with conflicts.
Lenient(out) == IF out.result = "refused" /\ out.repo.unmerged # {} THEN Done(out.repo) ELSE out

StashPop(r, i) ==
    LET out == Unstashed(r, i)
    IN  IF out.result = "done" THEN Done(Dropped(out.repo, i)) ELSE Lenient(out)

StashApply(r, i) == Lenient(Unstashed(r, i))

StashDrop(r, i) == IF i > Len(r.stashes) THEN Refused(r) ELSE Done(Dropped(r, i))

\* HEAD moves to the new branch first; the safe checkout of HEAD that follows finds nothing
\* to do, so the stash is applied to whatever was checked out before.
StashBranch(r, name, i) ==
    IF i > Len(r.stashes) \/ r.refs[name] # 0 THEN Refused(r)
    ELSE LET moved == [r EXCEPT !.refs[name] = r.stashes[i].base, !.branch = name]
             out   == Unstashed(moved, i)
         IN  IF out.result = "refused" THEN out ELSE Done(Dropped(out.repo, i))

DiscardChanges(r, f) ==
    IF f \in Untracked(r) THEN Done([r EXCEPT !.work[f] = {}])
    ELSE Done([r EXCEPT !.work[f] = HeadTree(r)[f], !.index[f] = HeadTree(r)[f],
                        !.unmerged = @ \ {f}])

CleanUntracked(r) ==
    Done([r EXCEPT !.work = [f \in Path |-> IF f \in Untracked(r) THEN {} ELSE @[f]]])

ResetHard(r)          == Done(HardReset(r, HeadOid(r)))
ResetToCommit(r, c)   == Done(HardReset(r, c))
ResetMixed(r, c)      == Done(MixedReset(r, c))

\* The operation tries open_rebase first, and ignores its failure.  A rebase of this model is
\* begun by the git command, whose rebase-merge has no cmt.<n> files: libgit2 does not open
\* it, so only the reset and the cleanup of the state remain.
AbortOperation(r)     == Done(HardReset(r, HeadOid(r)))

ResetSoft(r, c) ==
    IF r.doing.what = "merge" \/ r.unmerged # {} THEN Refused(r) ELSE Done(MovedTo(r, c))

\* Both leave the result in the index: nothing is committed.
PickedUp(out) ==
    IF out.result = "refused" THEN out
    ELSE IF out.repo.unmerged # {} THEN Outcome("conflicts", out.repo)
    ELSE Done([out.repo EXCEPT !.doing = NotDoing])

\* A merge has no single parent to compare with.
CherryPick(r, c) ==
    IF Len(r.commits[c].parents) > 1 THEN Refused(r)
    ELSE PickedUp(Absorbed(r, ParentTree(r, c), Tree(r, c), [what |-> "cherry-pick", other |-> c]))

Revert(r, c) ==
    IF Len(r.commits[c].parents) > 1 THEN Refused(r)
    ELSE PickedUp(Absorbed(r, Tree(r, c), ParentTree(r, c), [what |-> "revert", other |-> c]))

\* A fast-forward checks out before it moves the branch it takes HEAD to be on.
MergeBranch(r, name) ==
    LET ours   == HeadOid(r)
        theirs == r.refs[name]
        ahead  == CheckoutSafe(r, HeadTree(r), Tree(r, theirs))
        base   == BaseTree(r, ours, theirs)
        merged == Absorbed(r, base, Tree(r, theirs), [what |-> "merge", other |-> theirs])
    IN  IF theirs = 0 THEN Refused(r)
        ELSE IF theirs \in Ancestors(r, ours) THEN Done(r)
        ELSE IF ours \in Ancestors(r, theirs)
        THEN IF ahead.result = "refused" \/ r.branch = None
             THEN Refused(ahead.repo)
             ELSE Done(MovedTo(ahead.repo, theirs))
        ELSE IF merged.result = "refused" THEN merged
        ELSE IF merged.repo.unmerged # {} THEN Outcome("conflicts", merged.repo)
        ELSE Done([Committed(merged.repo, <<ours, theirs>>) EXCEPT !.doing = NotDoing])

FinishMergeCommit(r) ==
    Done([Committed(r, <<HeadOid(r), r.doing.other>>) EXCEPT !.doing = NotDoing])

\* `git cherry-pick --continue` refuses an empty commit.
RunContinue(r) ==
    IF r.index = HeadTree(r) THEN Refused(r)
    ELSE Done([Committed(r, <<HeadOid(r)>>) EXCEPT !.doing = NotDoing])

-----------------------------------------------------------------------------
(* The interactive rebase: a plan of steps, the oldest commit first.       *)

Step(commit, action) == [commit |-> commit, action |-> action]
Planned(plan) == {plan[i].commit : i \in DOMAIN plan}

\* The first parents of HEAD, as many as there are; 0 beyond the first commit.
FirstParents(r, n) ==
    LET line[k \in 0..n] ==
            IF k = 0 THEN HeadOid(r)
            ELSE IF line[k - 1] = 0 \/ r.commits[line[k - 1]].parents = <<>> THEN 0
            ELSE r.commits[line[k - 1]].parents[1]
    IN  line

\* The plan has exactly the commits of HEAD down to a base, in any order.
PlanFits(r, plan) ==
    LET line == FirstParents(r, Len(plan))
    IN  /\ plan # <<>> /\ line[Len(plan)] # 0
        /\ Planned(plan) = {line[k] : k \in 0..(Len(plan) - 1)}

\* What is in the index becomes a commit on HEAD, or part of the one that is there.
Recommitted(r, action) ==
    Committed(r, IF action \in {"squash", "fixup"} THEN r.commits[HeadOid(r)].parents
                 ELSE <<HeadOid(r)>>)

\* What becomes of a step, given what picking its commit gave.  A commit that is in place stays.
\* One that clashes or changes nothing stops the rebase; so does one with an untracked file in
\* the way, which is still to do.
Taken(r, step, paused, picked) ==
    IF picked.result = "refused"
    THEN Refused([r EXCEPT !.doing = [paused EXCEPT !.todo = <<step>> \o @]])
    ELSE IF step.action = "pick" /\ r.commits[step.commit].parents = <<HeadOid(r)>>
    THEN Done(MovedTo(picked.repo, step.commit))
    ELSE IF picked.repo.unmerged # {} THEN Outcome("conflicts", picked.repo)
    ELSE IF picked.repo.index = HeadTree(r) THEN Refused(picked.repo)
    ELSE Done(Recommitted(picked.repo, step.action))

\* Git never takes a merge, nor a commit into one before it that the plan does not have.
Untakable(r, step) ==
    \/ Len(r.commits[step.commit].parents) > 1
    \/ step.action \in {"squash", "fixup"} /\ r.doing.other = 0

\* The rebase stays at a step that git does not take: no commit is being picked.
Stuck(r, step, rest) ==
    Refused([r EXCEPT !.doing = [@ EXCEPT !.other = 0, !.todo = <<step>> \o rest]])

Pick(r, step, rest) ==
    LET paused == [r.doing EXCEPT !.other = step.commit, !.action = step.action, !.todo = rest]
        c      == step.commit
    IN  IF step.action = "drop" THEN Done(r)
        ELSE IF Untakable(r, step) THEN Stuck(r, step, rest)
        ELSE Taken(r, step, paused, Absorbed(r, ParentTree(r, c), Tree(r, c), paused))

PickNext(last, step, rest) == IF last.result = "done" THEN Pick(last.repo, step, rest) ELSE last

\* The branch, which must be where it was, moves to what the steps have made.
Landed(r) ==
    IF r.doing.of = None THEN Done([r EXCEPT !.doing = NotDoing])
    ELSE IF r.refs[r.doing.of] # r.doing.from THEN Refused(r)
    ELSE Done([r EXCEPT !.refs[r.doing.of] = HeadOid(r), !.branch = r.doing.of,
                        !.doing = NotDoing])

Concluded(out) == IF out.result = "done" THEN Landed(out.repo) ELSE out

\* The steps that are left.
Replayed(r) ==
    LET todo == r.doing.todo
        run[k \in 0..Len(todo)] ==
            IF k = 0 THEN Done(r)
            ELSE PickNext(run[k - 1], todo[k], SubSeq(todo, k + 1, Len(todo)))
    IN  Concluded(run[Len(todo)])

\* git rebase -i base, with the plan for its list of steps.
Rebase(r, plan, base) ==
    LET onto == CheckoutCommit(r, base)
    IN  IF Changed(r) # {} \/ r.doing.what = "rebase" \/ onto.result = "refused" THEN Refused(r)
        ELSE Replayed([onto.repo EXCEPT
                          !.doing = [what |-> "rebase", other |-> 0, action |-> "pick",
                                     todo |-> plan, of |-> r.branch, from |-> HeadOid(r)]])

\* The program takes another stop of a continued rebase for a failure.
Reported(out) == IF out.result = "conflicts" THEN Refused(out.repo) ELSE out

\* What was resolved is committed first.  A rebase that is stuck stays so.
ContinueRebase(r) ==
    IF r.doing.other = 0 \/ \E f \in Tracked(r) : r.work[f] # r.index[f] THEN Refused(r)
    ELSE Reported(Replayed(IF r.index = HeadTree(r) THEN r ELSE Recommitted(r, r.doing.action)))

ContinueOperation(r) ==
    IF r.unmerged # {} \/ r.doing = NotDoing THEN Refused(r)
    ELSE IF r.doing.what = "merge" THEN FinishMergeCommit(r)
    ELSE IF r.doing.what = "rebase" THEN ContinueRebase(r)
    ELSE RunContinue(r)

-----------------------------------------------------------------------------
(* The remote.  The git command does the work.                             *)

\* fetch --prune
Fetch(r) ==
    Done([r EXCEPT !.refs = [n \in Ref |-> IF n \in Remote THEN r.server[n] ELSE @[n]]])

\* Where git is set to merge, a fetch and a merge; neither starts while one is unfinished,
\* and a merge that is no fast-forward wants the index of HEAD.
Pull(r, name) ==
    LET ours    == HeadOid(r)
        theirs  == r.server[name]
        fetched == [r EXCEPT !.refs[name] = theirs]
        moved   == {f \in Path : Tree(r, theirs)[f] # HeadTree(r)[f]}
        ahead   == CheckoutSafe(fetched, HeadTree(r), Tree(r, theirs))
        merged  == Absorbed(fetched, BaseTree(r, ours, theirs), Tree(r, theirs),
                            [what |-> "merge", other |-> theirs])
    IN  IF theirs = 0 \/ r.unmerged # {} \/ r.doing.what = "merge" THEN Refused(r)
        ELSE IF theirs \in Ancestors(r, ours) THEN Done(fetched)
        ELSE IF r.doing.what = "cherry-pick" THEN Refused(fetched)
        ELSE IF ours \in Ancestors(r, theirs)
        THEN IF ahead.result = "refused" \/ \E f \in moved : r.index[f] # HeadTree(r)[f]
             THEN Refused(fetched)
             ELSE Done(MovedTo(ahead.repo, theirs))
        ELSE IF merged.result = "refused" \/ r.index # HeadTree(r) THEN Refused(fetched)
        ELSE IF merged.repo.unmerged # {} THEN Outcome("conflicts", merged.repo)
        ELSE Done([Committed(merged.repo, <<ours, theirs>>) EXCEPT !.doing = NotDoing])

\* Mutant of PushTo: every push is forced.
PushForced(r, name, tracks, force) ==
    IF r.branch = None THEN Refused(r)
    ELSE Done([r EXCEPT !.server[name] = HeadOid(r), !.refs[name] = HeadOid(r),
                        !.upstream[r.branch] = IF tracks = 1 THEN name ELSE @])

\* push HEAD:name, with --set-upstream where `tracks` is 1.
PushTo(r, name, tracks, force) ==
    IF \/ r.branch = None
       \/ ~force /\ r.server[name] # 0 /\ r.server[name] \notin Ancestors(r, HeadOid(r))
    THEN Refused(r)
    ELSE Done([r EXCEPT !.server[name] = HeadOid(r), !.refs[name] = HeadOid(r),
                        !.upstream[r.branch] = IF tracks = 1 THEN name ELSE @])

Networked(q) == q.kind \in {"fetch", "pull", "push", "forcePush"}

\* pull_target and push_target: the upstream of the branch checked out at the click, if its
\* reference is there, or else the remote branch of its name, which a push makes its upstream.
\* With HEAD detached the operation does not start.
Targeted(q) ==
    LET upstream == IF repo.branch = None THEN None ELSE repo.upstream[repo.branch]
        tracked  == upstream # None /\ repo.refs[upstream] # 0
    IN  IF q.kind \notin {"pull", "push", "forcePush"} THEN {q}
        ELSE IF tracked THEN {Request(q.kind, upstream, 0)}
        ELSE {Request(q.kind, m, 1) : m \in {n \in Remote : LocalName[n] = repo.branch}}

-----------------------------------------------------------------------------
(* Which operation a request is for.                                       *)

NeedsClean(q) == q.kind \in {"checkout", "checkoutCommit", "checkoutTag", "merge", "cherryPick",
                             "revert", "pull", "rebase"}

\* What the background part of an operation does to the repository.
Perform(q, r) ==
    CASE q.kind = "stage"          -> StageFile(r, q.on)
      [] q.kind = "stageAll"       -> StageAll(r)
      [] q.kind = "unstage"        -> UnstageFile(r, q.on)
      [] q.kind = "unstageAll"     -> UnstageAll(r)
      [] q.kind = "resolve"        -> ResolveConflict(r, q.on)
      [] q.kind = "commit"         -> CommitIndex(r)
      [] q.kind = "amend"          -> AmendCommit(r)
      [] q.kind = "checkout"       -> CheckoutBranch(r, q.on)
      [] q.kind = "checkoutCommit" -> CheckoutCommit(r, q.at)
      [] q.kind = "checkoutTag"    -> CheckoutTag(r, q.on)
      [] q.kind = "createBranch"   -> CreateBranch(r, q.on, q.at)
      [] q.kind = "createTag"      -> CreateTag(r, q.on, q.at)
      [] q.kind = "deleteBranch"   -> DeleteBranch(r, q.on)
      [] q.kind = "deleteTag"      -> DeleteTag(r, q.on)
      [] q.kind = "renameBranch"   -> RenameBranch(r, q.on, q.at)
      [] q.kind \in {"stashSave", "discardAll"} -> StashSave(r)
      [] q.kind = "stashPop"       -> StashPop(r, q.at)
      [] q.kind = "stashApply"     -> StashApply(r, q.at)
      [] q.kind = "stashDrop"      -> StashDrop(r, q.at)
      [] q.kind = "stashBranch"    -> StashBranch(r, q.on, q.at)
      [] q.kind = "discard"        -> DiscardChanges(r, q.on)
      [] q.kind = "clean"          -> CleanUntracked(r)
      [] q.kind = "resetHard"      -> ResetHard(r)
      [] q.kind = "resetTo"        -> ResetToCommit(r, q.at)
      [] q.kind = "resetMixed"     -> ResetMixed(r, q.at)
      [] q.kind = "resetSoft"      -> ResetSoft(r, q.at)
      [] q.kind = "cherryPick"     -> CherryPick(r, q.at)
      [] q.kind = "revert"         -> Revert(r, q.at)
      [] q.kind = "abort"          -> AbortOperation(r)
      [] q.kind = "merge"          -> MergeBranch(r, q.on)
      [] q.kind = "continue"       -> ContinueOperation(r)
      [] q.kind = "rebase"         -> Rebase(r, q.on, q.at)
      [] q.kind = "fetch"          -> Fetch(r)
      [] q.kind = "pull"           -> Pull(r, q.on)
      [] q.kind = "push"           -> PushTo(r, q.on, q.at, FALSE)
      [] q.kind = "forcePush"      -> PushTo(r, q.on, q.at, TRUE)

\* What the click on an operation pushes, from what is on screen or from HEAD as it is now.
UndoOf(q) ==
    CASE q.kind = "deleteBranch" /\ shown.refs[q.on] # 0
              -> <<Request("createBranch", q.on, shown.refs[q.on])>>
      [] q.kind = "deleteTag" /\ shown.refs[q.on] # 0
              -> <<Request("createTag", q.on, shown.refs[q.on])>>
      [] q.kind = "discardAll" -> <<Request("stashPop", None, 1)>>
      [] q.kind \in {"resetHard", "resetTo", "cherryPick", "revert"}
              -> <<Request("resetTo", None, HeadOid(repo))>>
      [] q.kind = "commit"     -> <<Request("resetSoft", None, HeadOid(repo))>>
      [] OTHER -> <<>>

-----------------------------------------------------------------------------
(* The actions *)

Phase == {"begun", "checked", "settling"}

\* "total" bounds the events together.
Spend(kind) == /\ budget[kind] > 0 /\ budget["total"] > 0
               /\ budget' = [budget EXCEPT ![kind] = @ - 1, !["total"] = @ - 1]

\* begin_operation; what is left of the budget makes the id unique.
Began(q, undoes) ==
    /\ Cardinality(running) < MaxRunning
    /\ running' = running \cup {[id |-> budget["total"], ask |-> q, undo |-> undoes,
                                 head |-> HeadOid(repo), phase |-> "begun", told |-> "",
                                 data |-> None]}

\* Mutant of Push: nothing is ever dropped.
PushUncapped(entries) == undo \o entries

Push(entries) ==
    LET all == undo \o entries
    IN  IF Len(all) > MaxUndo THEN Tail(all) ELSE all

\* The interface offers what there is.
Begin(q) ==
    /\ Sensible(q, Len(repo.commits))
    /\ Spend("operation")
    /\ q.kind = "discardAll" => shown.changed
    /\ \E ask \in Targeted(q) : Began(ask, UndoOf(q))
    /\ undo' = Push(UndoOf(q))
    /\ UNCHANGED <<repo, shown>>

\* execute_undo: the operation that undoes pushes no undo of its own.
ExecuteUndo ==
    /\ Spend("undo")
    /\ undo # <<>>
    /\ Began(Last(undo), <<>>)
    /\ undo' = Front(undo)
    /\ UNCHANGED <<repo, shown>>

\* Entries expire in the order they were pushed.
Expire ==
    /\ Spend("expiry")
    /\ undo # <<>>
    /\ undo' = Tail(undo)
    /\ UNCHANGED <<repo, shown, running>>

Moves(op, to) == running' = (running \ {op}) \cup {to}

\* ensure_clean_worktree; a rebase also compares its plan with HEAD, and finds its base.
Passes(q) == Changed(repo) = {} /\ (q.kind = "rebase" => PlanFits(repo, q.on))

Based(q) ==
    IF q.kind # "rebase" THEN q
    ELSE Request(q.kind, q.on, FirstParents(repo, Len(q.on))[Len(q.on)])

CheckClean(op) ==
    /\ op.phase = "begun" /\ NeedsClean(op.ask)
    /\ Moves(op, IF Passes(op.ask)
                 THEN [op EXCEPT !.phase = "checked", !.ask = Based(op.ask),
                                 !.head = IF op.ask.kind = "rebase" THEN HeadOid(repo) ELSE @]
                 ELSE [op EXCEPT !.phase = "settling", !.told = "refused"])
    /\ UNCHANGED <<repo, shown, undo, budget>>

Ready(op) == op.phase = (IF NeedsClean(op.ask) THEN "checked" ELSE "begun")

\* The work, and the reading of the repository that ends it.
Work(op) ==
    LET out == Perform(op.ask, repo)
    IN  /\ Ready(op)
        /\ repo' = out.repo
        /\ Moves(op, [op EXCEPT !.phase = "settling", !.told = out.result,
                                !.data = IF out.result = "refused" THEN None
                                         ELSE Reading(out.repo)])
        /\ UNCHANGED <<shown, undo, budget>>

\* The work is done and the reading fails: the operation reports a failure.
WorkUnread(op) ==
    LET out == Perform(op.ask, repo)
    IN  /\ Ready(op) /\ out.result # "refused"
        /\ Spend("failure")
        /\ repo' = out.repo
        /\ Moves(op, [op EXCEPT !.phase = "settling", !.told = "refused"])
        /\ UNCHANGED <<shown, undo>>

\* The network fails: before anything happened, or when the server has taken a push and its
\* answer is lost.  A retry is another click.
NetworkFails(op) ==
    /\ Ready(op) /\ Networked(op.ask)
    /\ Spend("failure")
    /\ \/ UNCHANGED repo
       \/ repo' = [repo EXCEPT !.server = Perform(op.ask, repo).repo.server]
    /\ Moves(op, [op EXCEPT !.phase = "settling", !.told = "refused"])
    /\ UNCHANGED <<shown, undo>>

\* complete_op or fail_op; only an outcome that was read is applied.
Settle(op) ==
    /\ op.phase = "settling"
    /\ running' = running \ {op}
    /\ shown' = IF op.told = "refused" THEN shown ELSE op.data
    /\ UNCHANGED <<repo, undo, budget>>

\* The user edits a file: an edit no file has yet.
Edit(f) ==
    /\ Spend("edit")
    /\ repo' = [repo EXCEPT !.work[f] = @ \cup {100 + budget["edit"]}]
    /\ UNCHANGED <<shown, running, undo>>

\* The watcher notices, and the project refreshes.
Refresh ==
    /\ shown # Reading(repo)
    /\ shown' = Reading(repo)
    /\ UNCHANGED <<repo, running, undo, budget>>

Init ==
    /\ repo = [commits |-> InitialCommits, refs |-> InitialRefs,
               branch |-> InitialBranch, at |-> InitialRefs[InitialBranch],
               stashes |-> InitialStashes,
               index |-> InitialCommits[InitialRefs[InitialBranch]].tree, unmerged |-> {},
               work |-> InitialCommits[InitialRefs[InitialBranch]].tree, doing |-> NotDoing,
               upstream |-> InitialUpstream, server |-> InitialServer]
    /\ shown = Reading(repo)
    /\ running = {}
    /\ undo = <<>>
    /\ budget = Budget

Background == \E op \in running : CheckClean(op) \/ Work(op) \/ Settle(op)

Next ==
    \/ \E q \in Offered : Begin(q)
    \/ ExecuteUndo
    \/ Expire
    \/ Background
    \/ \E op \in running : WorkUnread(op) \/ NetworkFails(op)
    \/ \E f \in Path : Edit(f)
    \/ Refresh

Spec == Init /\ [][Next]_vars

-----------------------------------------------------------------------------
(* Properties *)

Commit == 1..Len(repo.commits)
Contents == [Path -> SUBSET Nat]

\* The shape of the state; and HEAD never points to a branch that is gone.
TypeOK ==
    /\ \A c \in Commit : /\ repo.commits[c].parents \in Seq(1..(c - 1))
                         /\ repo.commits[c].tree \in Contents
    /\ repo.refs \in [Ref -> 0..Len(repo.commits)]
    /\ repo.branch \in Branch \cup {None}
    /\ repo.upstream \in [Branch -> Remote \cup {None}]
    /\ repo.server \in [Remote -> 0..Len(repo.commits)]
    /\ repo.branch # None => repo.refs[repo.branch] # 0
    /\ {repo.index, repo.work} \subseteq Contents
    /\ repo.unmerged \subseteq Path
    /\ \A i \in DOMAIN repo.stashes : /\ repo.stashes[i].base \in Commit
                                      /\ repo.stashes[i].tree \in Contents
    /\ repo.doing.what \in {"none", "merge", "cherry-pick", "revert", "rebase"}
    /\ \A op \in running : op.phase \in Phase /\ op.id \in 1..Budget["total"]
    /\ Len(undo) <= MaxUndo

Edits(contents) == UNION {contents[f] : f \in Path}
Recorded(r) == UNION {Edits(Tree(r, c)) : c \in DOMAIN r.commits}
Kept(r) == Edits(r.work) \cup Edits(r.index)
               \cup UNION {Edits(r.stashes[i].tree) : i \in DOMAIN r.stashes}

\* The step is the work of this operation, with this result.
Works(op, results) == Ready(op) /\ Perform(op.ask, repo).result \in results /\
                      (Work(op) \/ WorkUnread(op))

Discards(q) == q.kind \in {"discard", "clean", "resetHard", "resetTo", "abort", "stashDrop"}

\* Work that is in no commit is never lost, whatever the user edits between the check for a
\* clean tree and the work: after any operation but those that discard it, every edit is in
\* the working tree, the index, a stash or a commit.
WorkKept ==
    [][\A op \in running :
          ~Discards(op.ask) /\ Works(op, {"done", "conflicts", "refused"})
              => Kept(repo) \subseteq Kept(repo') \cup Recorded(repo')]_vars

\* An operation that is refused leaves files, index, HEAD, the server and the merge in
\* progress alone.
\* Three do not: a fast-forward with HEAD detached, a branch made from a stash, and a rebase
\* that stops where the program takes it for a failure.
RefusalHarmless ==
    [][\A op \in running :
          /\ repo' # repo
          /\ Works(op, {"refused"})
          /\ ~(op.ask.kind = "merge" /\ repo.branch = None) /\ op.ask.kind # "stashBranch"
          /\ ~(op.ask.kind \in {"rebase", "continue"} /\ repo'.doing.what = "rebase")
          => repo' = [repo EXCEPT !.refs = repo'.refs, !.upstream = repo'.upstream]]_vars

Abandons(q) == q.kind \in {"resetHard", "resetTo", "resetMixed", "unstageAll", "abort",
                           "merge", "cherryPick", "revert", "rebase"}

\* A merge in progress ends, with both its parents, in a commit, unless another operation
\* abandons it: no sequence of conflicts, checkouts, commits and continues drops its side.
MergeKept ==
    [][\A op \in running :
          /\ repo.doing.what = "merge" /\ repo'.doing # repo.doing
          /\ Works(op, {"done", "conflicts", "refused"}) /\ ~Abandons(op.ask)
          => {HeadOid(repo), repo.doing.other} \subseteq Ancestors(repo', HeadOid(repo'))]_vars

Rebasing == IF repo.doing.what = "rebase" THEN repo.doing.of ELSE None

\* What the commits of a plan merged into the line of first parents they are.
MergedBy(r, plan) ==
    UNION {UNION {Ancestors(r, r.commits[c].parents[i]) : i \in 2..Len(r.commits[c].parents)} :
              c \in Planned(plan)}

\* The step is part of a rebase that may take these commits from its branch.
Rewrites(gone) ==
    \E op \in running :
       \/ /\ op.ask.kind = "rebase" /\ Works(op, {"done"})
          /\ op.head = HeadOid(repo)
                => gone \subseteq Planned(op.ask.on) \cup MergedBy(repo, op.ask.on)
       \/ /\ op.ask.kind = "continue" /\ repo.doing.what = "rebase"
          /\ Works(op, {"done", "refused"})

\* A branch only moves when it is checked out, and only forward unless the operation is
\* there to move it; a rebase takes from its own branch no commit that its plan does not have and
\* no merge of the plan brought, if HEAD has not moved since the two were compared
\* (rebase.rs:52-61).  On the server only a forced push takes commits from a branch.
BranchesMoveForward ==
    [][/\ \A m \in Remote :
          repo'.server[m] # repo.server[m] /\ repo.server[m] # 0
              => \/ repo.server[m] \in Ancestors(repo', repo'.server[m])
                 \/ \E op \in running : Ready(op) /\ op.ask.kind = "forcePush"
       /\ \A b \in Branch :
          repo.refs[b] # 0 /\ repo'.refs[b] \notin {0, repo.refs[b]}
              => /\ b = repo.branch \/ b = Rebasing
                 /\ \/ repo.refs[b] \in Ancestors(repo', repo'.refs[b])
                    \/ \E op \in running : /\ Works(op, {"done"})
                                           /\ op.ask.kind \in {"amend", "resetHard", "resetTo",
                                                               "resetMixed", "resetSoft"}
                    \/ Rewrites(Ancestors(repo, repo.refs[b])
                                    \ Ancestors(repo', repo'.refs[b]))]_vars

\* "Push the branch checked out in the given worktree" (network.rs:360): the commits of a
\* branch go to its own branch on the server.  The name is taken at the click and HEAD when
\* git runs.
PushesItsBranch ==
    [][\A op \in running :
          Works(op, {"done"}) /\ op.ask.kind \in {"push", "forcePush"}
              => op.ask.on = repo.upstream[repo.branch] \/ LocalName[op.ask.on] = repo.branch]_vars

\* What an undo is meant to bring back.
Restored(q, before, after) ==
    /\ HeadOid(after) = HeadOid(before) /\ after.branch = before.branch
    /\ q.kind \in {"commit", "cherryPick", "revert"} => after.index = before.index
    /\ q.kind \in {"commit", "cherryPick", "revert", "discardAll"}
           => \A f \in Tracked(before) : after.work[f] = before.work[f]
    /\ q.kind = "discardAll" => after.stashes = before.stashes
    /\ q.kind \in {"deleteBranch", "deleteTag"} => after.refs = before.refs

\* When an operation is done and its undo was taken from the repository it worked on, the
\* undo, run on what it left, is done too and brings back what was there.
UndoReverses ==
    [][\A op \in running :
          /\ op.undo # <<>> /\ op.head = HeadOid(repo) /\ Works(op, {"done"})
          /\ op.ask.kind \in {"deleteBranch", "deleteTag"}
                 => op.undo[1].at = repo.refs[op.ask.on]
          /\ NeedsClean(op.ask) => Changed(repo) = {}
          => LET back == Perform(op.undo[1], repo')
             IN  back.result = "done" /\ Restored(op.ask, repo, back.repo)]_vars

\* As events.rs:2938 says of a commit: the HEAD captured before it lets a later undo
\* soft-reset the branch the commit was actually made on.  The undo resets whatever branch
\* is checked out when it runs, so it can move one to a commit it never had.
UndoMovesBack ==
    [][\A op \in running :
          Works(op, {"done"}) /\ op.ask.kind = "resetSoft"
              => op.ask.at \in Ancestors(repo, HeadOid(repo))]_vars
=============================================================================
