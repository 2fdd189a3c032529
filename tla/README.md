# rgitui, specified in TLA+

rgitui is a desktop Git client written in Rust on GPUI. One UI thread owns every
piece of application state; whatever reads or changes a repository runs on a
background executor and hands its result back to the UI thread. The interesting
errors are therefore not data races but races of *results*: an answer computed
from the repository as it was, applied to a project that has moved on. These
modules specify the parts of rgitui where that can go wrong, check them with TLC
on small instances, and prove the most important properties for instances of
every size with TLAPS.

Paths below are relative to `src/crates/`; `project/` is
`rgitui_git/src/project/`, `workspace/` is `rgitui_workspace/src/workspace/`.

## 1. Inventory

The crates, from the bottom up: `rgitui_git` (a repository and every operation on
it), `rgitui_graph` (lanes of the commit graph), `rgitui_diff` (diff view),
`rgitui_ai` (commit messages), `rgitui_workspace` (tabs, panels, orchestration of
operations, undo, GitHub data), `rgitui_settings`, `rgitui_theme`, `rgitui_ui`,
`rgitui_i18n`, and the binary `rgitui`. `GitProject` emits `GitProjectEvent`s
(operation updated, refreshed); the workspace subscribes, updates panels, starts
prefetches and shows toasts; panels send events back that start operations.

| Component | State | Operations | What is hard | What makes it correct |
|---|---|---|---|---|
| Project refresh coordination (`project/mod.rs`, `refresh.rs`, `watcher.rs`) | `recent_commits`, `has_more_commits`, `refresh_generation`, `commit_query_generation`, `load_more_in_flight`, `commit_author_filter`, the watcher's dirty flags and `last_fingerprint` | `refresh`, `load_more_commits`, `set_commit_author_filter`, the poll loop, `apply_refresh_data`, `append_page` | four kinds of task in flight at once, notify events lost, gathers that fail, history rewritten between request and answer | no newer snapshot is overwritten by the watcher, no row twice, no gap inside a page, paging is never stuck, every edit reaches the screen |
| Branch graph state (`project/mod.rs`, gathers in `refresh.rs`) | merged-into-trunk, merged-into-HEAD, ahead/behind per branch | `refresh_ahead_behind_attempt`, `apply_branch_graph_state`, `carry_forward_branch_graph_state` | several reads at several moments, answers carried across snapshots, bounded restarts | an answer shown belongs to the two tips shown; nothing recomputed in the steady state; answers arrive |
| Conflict-resolution transaction (`project/local_ops.rs` 3500-5470) | index lock file, temporary and backup entries beside the conflicted file, unmerged index entries | choose a side, write a resolution, verify, roll back | another program saves the file in between; the index write fails after the file was published; a crash leaves the lock | an external save is never lost; after an error the conflict is as it was |
| Worktree patch (`project/worktree_patch.rs`, `workspace/undo.rs`) | process-wide mutation lock, undo snapshots of files | apply a hunk or lines, restore | read, compare, rename, with editors in between; the tab is switched or closed meanwhile | no edit of the user is taken out of a file; an undo knows its checkout and its file |
| Partial staging (`project/diff.rs`) | the index | stage and unstage hunks and lines | the viewer names hunks and lines by number in the diff on screen, the task finds them in another; tasks of one selection load and write the index beside each other; the place in a hunk's header | a request that meets its diff moves exactly its lines; a late one makes nothing up |
| Git operations (`project/local_ops.rs`, `network.rs`, `rebase.rs`, `bisect.rs`, `submodule.rs`) | the repository: refs, HEAD, index, working tree, stashes, the state of a merge; the branches on the server | about sixty, one shape: begin, check, work in the background, gather, apply, complete or fail | a check and the work are apart; several steps, one of which is refused; any order of operations; what the click captured is old when git runs | no work is lost, a refusal changes nothing, a merge keeps both sides |
| History cache (`project/history_cache.rs`) | one file per repository and refs | load, hydrate, store, prune | published by rename while another window reads or prunes | a hit is the log of exactly these refs |
| Operation tracking (`workspace/events.rs`, `operations.rs`, `state.rs`) | running operations, last failed operation | begin, update, settle, retry | operation ids are per project, the workspace has many projects | an update settles the operation it is about; retry runs where the failure was |
| Undo stack (`workspace/undo.rs`) | up to 20 entries, each for 60 s | push, pop, purge, execute | entries are pushed before the operation has succeeded, and run in whatever state the repository is by then | undo reverts what was done, once |
| AI commit messages (`rgitui_ai/src/lib.rs`) | the generation in flight, its cancel flag | generate, cancel, tool loop of at most 8 turns, 180 s deadline | a cancelled generation answers late | one generation at a time; a late answer changes nothing |
| GitHub data service (`rgitui_workspace/src/github_data_service.rs`) | LRU cache with TTL, requests in flight with their waiters | request, join, finish, invalidate | a request invalidated while it is in flight | every waiter is answered; a stale answer is not cached |
| Diff pane and prefetch (`rgitui_diff/src/lib.rs`, `workspace/events.rs`, `rgitui_workspace/src/cache.rs`) | the viewer with two generation counters, the detail panel, the cache of laid-out rows, the cache of commit diffs, the prefetch queue of at most 64 | select a file, commit, stash entry, conflict or search result; deliver, lay out, change the theme, prefetch in batches of 32 | a request takes three steps and anything may be selected between them | what is shown was selected last, with its own rows; caches and queue are exact and bounded |
| Commit graph layout (`rgitui_git/src/graph.rs`, `rgitui_graph`) | lanes | one pass over the log, then the erasing of the reserved lane | lanes are freed, reused, reserved and erased; commits are missing from a page | lines meet from row to row and lead to the parents |
| Workspace tabs, focus, layout, crash recovery | UI state | open, close, switch, restore | persistence between crashes | restored as left |
| Readers (blame, search, file history, reflog), authentication and argument checks, update checker, avatars, keymap, settings, panels, toolkit, theme, translation, entry point, performance harness, test support | little or none | pure functions, rendering, I/O | - | - |

The hazards of these components, each at its line and with the properties that
would catch it, are in `PROJECT.json`.

## 2. Modules

| Module | What it is |
|---|---|
| `ProjectRefresh` | the refresh coordination of one `GitProject` |
| `MCProjectRefresh` | its small instances |
| `ProjectRefreshProofs` | types, the paging flag, the query generation, the watcher's guard and the commit list, proved |
| `BranchGraphState` | the deferred graph state of local branches |
| `MCBranchGraphState` | its small instances |
| `BranchGraphStateProofs` | types, merged-into-trunk, a moved upstream and the quiet steady state, proved |
| `ConflictResolution` | resolving a conflicted path in the working tree and in the index |
| `ConflictOutcome` | what that promises of the index, which `ConflictResolution` implements |
| `MCConflictResolution` | its small instances |
| `ConflictResolutionProofs` | types, the lock, the implementation of `ConflictOutcome` and that a refusal restores the conflict, proved |
| `DiffPane` | the diff viewer, the detail panel, what is read for them and what is read ahead |
| `LruCache` | the bounded cache of commit diffs, which `DiffPane` uses |
| `LruCacheProofs` | what is kept of a queue and what insertions leave; counting, induction and recursion over sequences, proved |
| `MCDiffPane` | its small instance |
| `DiffPaneProofs` | types, that what is shown is what was selected last, the row cache and the queue of diffs read ahead, proved |
| `GitOperations` | what 37 operations do to a repository and its remote, and the undo stack |
| `MCGitOperations` | its small instance |
| `GitOperationsProofs` | types, that work and merges are kept, that a refusal does no harm, that branches move forward and that an undo brings back, proved |
| `WorktreePatch` | patches of working-tree files, their undo, tabs and editors |
| `MCWorktreePatch` | its small instance |
| `WorktreePatchProofs` | all four properties, proved |
| `LineRewrite` | a diff as the viewer numbers it, and the rewrite of a file by part of a diff |
| `PartialStaging` | staging and unstaging hunks and lines, over `LineRewrite` |
| `MCPartialStaging` | its small instance |
| `CommitGraph` | the layout of the commit graph |
| `MCCommitGraph` | its small instance |
| `CommitGraphProofs` | types, the main line's lane, that lines meet and where they lead, proved |

The modules meet where the code does. `ProjectRefresh` has the coordination every
operation takes part in, `GitOperations` what the operations do; `WorktreePatch` has
the file system steps of a patch and takes its effect as given, `LineRewrite` computes
it; `DiffPane` shows the diffs whose hunk numbers `PartialStaging` sends.

### ProjectRefresh

The granularity is the one the code has: whatever a task does on the UI thread
between two awaits is one action, and so is each background read. The
repository is a pair of versions, of the git directory and of the working tree,
with one commit log per author filter. A commit is named by the version that
created it, so a log is a sequence of numbers without repetition. A commit, an amend or a
reset changes its newest commit, a fetch puts `FetchSize` new ones on top of it.

| Code | Model |
|---|---|
| `watcher.rs` poll loop: tick, `refs_fingerprint` scan, gather, guard on `refresh_generation` | `WatcherTick`, `WatcherScan`, `WatcherGather`, `WatcherApply`, `WatcherDropStale` |
| `refresh()` phase 1 and phase 2 | `StartRefresh`, `GatherRefresh`, `ApplyRefresh`, `FetchRest`, `ApplyRest` |
| operations | `StartOp`, `MutateOp`, `GatherOp`, `ApplyOp`, `FailOp` |
| `load_more_commits`, `set_commit_author_filter` | `LoadMore`, `ToggleMyCommits`, `FetchPage`, `ApplyPage`, `DropPage` |
| `load_commit_page`, the cursor and its window | `PageStart`, `PageAfter` |
| `append_page` without repeated ids | `AppendPage`, `NewTo` |
| notify callback, which may miss changes under `.git` where `NotifyMisses` | `EditGit` |
| `GitProject::open` with or without a history-cache hit | `Init` |

Two abstractions deserve a word. A gather is one atomic read, although the code
reads status, refs and log one after the other; what can go wrong between them
is not what these properties are about, and the commit-log reuse cache, where it
matters, is planned. The author filter of an operation's refresh is the one the
code uses: none for those that call `gather_refresh_data`, the current one for
staging.

### BranchGraphState

Whether a branch is merged, or how far it is ahead, is a function of two commits:
the tip of the branch and a reference (trunk tip, HEAD, upstream tip). The model
represents an answer by the pair it was computed from. An answer on screen is
right if its pair is the pair on screen, which is exactly the code's own
criterion for carrying it. The walk over the history keeps its three separate
reads, which are what races: the counts printed by `for-each-ref`
(`ReadTracking`), the tips looked up after it (`ReadKeys`), and the HEAD that
`merged_flags` resolves (`ReadHead`). The upstream of a branch is part of the refs, local or
remote: an operation sets it with a push (`publish`), another program changes it
(`track`), which the fingerprint of the refs does not show (`print`). `ApplyWalk` and
`RestartWalk` are the two sides of the generation guard. `CarryForward`, `Incomplete`, `UpstreamTip` and
`TrunkOf` translate the functions of the same purpose.

The watcher's tick and its scan of the refs are one action here, since
`ProjectRefresh` covers the interval between them. Walks and tasks in flight are
sets of records: any number of them may run at once, and two that are in the
same state and hold the same values do the same, so nothing is lost by
identifying them.

### ConflictResolution

Here another program can come between any two system calls, so a system call, or
a few that nobody can tell apart, is one action. The parent directory is a map
from names to inodes and an inode has a content: renames and links move inodes,
a save replaces the inode at the path or writes into it, and a handle keeps
naming its inode wherever it went. Contents are model values: what git left, what
a resolver writes, what an editor saves.

| Code (`local_ops.rs`) | Model |
|---|---|
| `apply_conflict_side`, `apply_conflict_resolution` up to the first write | `Load`, `Start`, `Capture`, `Recheck`, `Reload` |
| `write_regular_worktree_file_inner`, `publish_regular_file_noclobber` | `WriteTemp`, `Compare`, `MoveAside`, `Inspect`, `MoveBack`, `Publish`, `Fallback`, `Tidy` |
| `create_regular_file_noclobber`, `remove_created_file_if_same` | `CreateFile`, `FillFile`, `ConfirmFile`, `Identify`, `Discard`, `Examine`, `Cleaned` |
| `displace_worktree_entry_if_matches`, `remove_worktree_entry_if_matches`, `publish_special_worktree_entry` | `Displace`, `ExamineOld`, `DeleteBackup`, `MakeSymlink`, `Recapture` |
| `restore_displaced_entry` | `PutBack`, `Relink` |
| `write_conflict_index_resolution`, `GitIndexLock` | `Revalidate`, `LockIndex`, `CopyIndex`, `CommitIndex`, `Unlock` |
| `rollback_worktree_after_error` | `Rollback`, `ExamineNew`, `Recreate` |
| any of these calls returns an error | `FailStep` |

`plan` says which path through the code a resolution takes: a regular result, a
symbolic link, a deletion, a gitlink (the index only), or the working copy as it
is. Two resolutions stand for two windows on one repository, or for two clicks.
A hard link may always fail, which leads to the created file.

`AtomicResolution` says that this implements `ConflictOutcome`, under the mapping
that reads the stage of the path and the version of the other entries off the
index and an outcome off every resolution: the index is changed by one step that
replaces the very conflict it was made for, and by nothing else.

Left out: directories at the path, the check that the parent directory is still
the one that was opened, permissions (part of what is compared, hence of what a
content is), the recognition of conflict markers and the choice of temporary
names. An editor's write into a file is one step. When the clean-up of a created
file finds another file there, putting that back is one step. A crash
is not modelled: nothing in the code recovers from one.

### DiffPane

Everything in the tab runs on one thread; only reading git and laying out rows are
elsewhere. A request is therefore three steps: the handler that asks (`SelectFile`,
`SelectConflict`, `SelectStash`, `SelectCommit`, `Navigate`, `ProjectEvent`), the read
(`Read`, `ReadFails`), and the handler that delivers (`DeliverFile`, `DeliverConflict`,
`DeliverStash`, `DeliverCommit`, `DeliverEnriched`). A result is delivered only at the
generation it was asked for (`IsCurrent`); a refresh of what is shown keeps the
generation. Rows are a second request of the same shape with a counter of its own
(`Preparation`, `ShouldApplyPrepared`, `RowsPrepared`).

| Code | Model |
|---|---|
| `set_diff`, `set_diff_loading`, `begin_diff_request`, `set_conflict_loading`, `set_three_way_diff`, `set_error`, `clear` | `SetDiff`, `BeginLoading`, `BeginConflict`, `SetThreeWay`, `SetError`, `Clear` |
| `DisplayCache` | `Cached`, `MakeRoom`, `Forget` |
| theme observer of the viewer, conflict buttons | `ChangeTheme`, `Rehighlight`, `ChooseSide` |
| `LruCache` of `cache.rs` | `LruCache` |
| `DiffPrefetchState`, its drain loop | `Reserve`, `StartPrefetch`, `TakeBatch`, `FinishBatch` |

`selected` is a history variable: what the user asked for last. Commits never change,
so when they are read does not matter; files do, and so do stash indices. Left out: the
order in which a scroll proposes commits, file history and blame, and painting.

### GitOperations

The repository is one record: commits, refs, HEAD, index, working tree, unmerged
paths, stashes, the merge, cherry-pick or revert in progress, upstreams, and the branches
on the server. The content of a file is the set of edits in it, so a three-way merge is
a union, a clash is visible, and "no work is lost" can be said.

An operation is `Begin` (on the foreground thread, where its undo is pushed and where
push and pull choose their target, `Targeted`; what a click can name is there to be
clicked, `Sensible`), `CheckClean` where the code calls
`ensure_clean_worktree`, `Work`, and `Settle`. `Perform` dispatches to one operator per
function of `local_ops.rs`, `network.rs` and `rebase.rs`, each with its own refusals. A failing
`gather_refresh_data` after the work is `WorkUnread`; a failing network is
`NetworkFails`, before the command had any effect or after the server took a push.
Between any two steps come other operations, `ExecuteUndo`, `Expire`, an editor (`Edit`)
and the watcher's `Refresh`. A rebase compares its plan with HEAD in `CheckClean`
(`PlanFits`) and replays it in `Work` (`Rebase`, `Replayed`, `Pick`); a clash leaves the rest
of the plan in `doing`, and `ContinueRebase` goes on from there.

What libgit2 and git do is taken from how the code calls them: the safe checkout
compares with the tree that HEAD has; a hard or mixed reset ends the operation in
progress; applying a stash wants an index like HEAD and leaves conflicts unmerged without
an error; `git pull` merges (other settings of `pull.rebase` and `pull.ff` are left
out); `git rebase` detaches HEAD until its branch follows, and does what the plan says
whether or not the plan is complete, but takes no merge and squashes into no commit from
before the plan (`Untakable`): the rebase is stuck there (`Stuck`), and going on fails; an
abort tries `open_rebase` first, which does not find the state of a rebase that the git
command began, and its failure is ignored, so it resets and stays detached. Left out: bisect, submodules, worktrees and remotes as objects, signing,
hooks, and paths that are directories.

### WorktreePatch

A task takes the lock and reads the file (`ReadAndDecide`, or `Validate` for an undo),
compares the file twice with what it read (`Compare`), renames over it (`Publish`) and
compares once more (`Verify`); `Finish` is the foreground, which pushes the undo entry.
`Decide` says what a patch makes of what the file holds: nothing, the target, or a
three-way merge, which may also conflict. Editors save and delete at any step, tabs are
switched and closed. `writer` and `published` are history variables.

### LineRewrite and PartialStaging

A file is a sequence of distinct lines. `Hunks` is libgit2's diff with its context, and
numbers the lines as the viewer shows them. `RewriteSide` is `rewrite_side` with its
cursor, its runs of changes and the two orders in which an apply and a revert write a
run. `PartialStaging` sends requests by hunk number (`StageHunks`, `StageCurrentHunk`) or by
line numbers (`StageLines`). Every request is a task of its own, with a repository of its
own: `Take` loads the index, takes the diff as it is now and makes the patch (`HunkPatch`,
`LinePatch`), `Lock` takes `index.lock` or fails, and `Write` applies the patch to the index
that was loaded; the other tasks, the user and the viewer come between. A hunk has the place
its header gives (`NewStart`): of a hunk staged by number the one it has in the whole diff,
of lines the number of the first line the patch has on that side. libgit2 looks for the
lines a hunk starts from at that place and nowhere else, and refuses the patch if they are
not there (`FitsAt`). Line terminators, equal lines and modes are left out.

### CommitGraph

A commit is its place in the list, a lane one more than its number in the code.
`Histories` are the histories of two-parent merges whose order `git log --topo-order`
could print, merges of what one parent added to the other (`git merge --no-ff`) among
them, and `loaded` is the part that is listed. `LayRow` is one turn of the loop of
`compute_graph`, for the next commit of the list (`NextCommit`, `Place`, `FindLane`, `Route`,
`Draw`, `RouteMain`, `RouteParent`, `Trimmed`), and
`TrimLane` the erasing of the reserved lane at the end. The code frees the lanes that
wait for the commit of the row in two loops (`graph.rs:362` and `graph.rs:400`); the second
finds nothing the first has left, and `LayRow` has one. The choice of the main tip is left
open. Colours, octopus merges and the bounds of the ancestor search are left out.

`LinesLead` follows a line down to the row it ends at. A line to a loaded parent ends at
that parent or at a descendant of it, whose lane it joined; the first line of a commit
ends at the parent itself. The second holds unless a merge on the main line has both
parents on it (`Shortcut`): there lane 0 may be given to the parent the main line does
not go on to (section 6).

## 3. What is checked

| Run | Expected | What it shows |
|---|---|---|
| `refresh_safety` | holds | `TypeOK`, `PagingFlagExact`, `LiveQueriesMatchFilter`, `NoDuplicates`, `WatcherNeverGoesBack`, `PageContinuesList` under every interleaving of the watcher, a refresh, an operation, two page requests, a filter toggle, a foreign commit or reset, and a fetch that pushes the cursor of a page out of its window |
| `refresh_liveness` | holds | `PagingEnds` and `EditsReachTheView`, with lost notify events and with failing gathers, operations and pages |
| `graph_state` | holds | `TypeOK`, `TrunkAnswersHold`, `UpstreamMoveDropsCounts`, `SteadyStateIsQuiet`, `GraphStateSettles`, while refs and upstreams move, HEAD goes there and back, walks race and snapshots replace each other |
| `conflict_safety` | holds | `TypeOK`, `LockGivenBack`, `RefusalRestores`, `AtomicResolution`, `NoEditLostOtherwise`, for two resolutions of every plan, an editor, another git process and a call that fails |
| `diff_pane` | holds | `TypeOK`, `ShownIsSelected`, `DisplayCacheExact`, `PrefetchExact`, `ViewSettles`, for selections of every kind racing with refreshes, row layout, a theme change, edits and failing reads |
| `git_operations` | holds | `TypeOK`, `WorkKept`, `RefusalHarmless`, `MergeKept`, `BranchesMoveForward`, `UndoReverses`, for any three of 44 requests of 36 operations, undos, an editor, an expiry and failures, two in flight |
| `worktree_patch` | holds | `TypeOK`, `UndoKnowsItsFile`, `EditsSurvive`, `TasksSerialized`, for patches and undos in two checkouts with editors between any two system calls |
| `partial_staging` | holds | `RewriteDual`, `StagedAsShown`, `NothingMadeUp`, for hunks and lines of two diffs, one with hunks that change the number of lines, two gestures whose requests load and write the index in any order, and an edit |
| `commit_graph` | holds | `TypeOK`, `MainOnLaneZero`, `LinesMeet`, `LinesLead`, for every history of six commits, every page or filter, every main tip and feature branch |
| `git_undo_other_branch` | violated | `UndoMovesBack`: a commit, a checkout of another branch and the undo reset the other branch (`workspace/undo.rs:251`) |
| `git_push_other_branch` | violated | `PushesItsBranch`: a forced push asked for while a checkout is under way puts the new branch's commits over the old branch on the server (`project/network.rs:463`) |
| `stage_other_hunk` | violated | `StagedIsSelected`: staging the first hunk twice in a row stages the second one (`rgitui_diff/src/lib.rs:1717`) |

The violated properties are statements of the repository's own comments;
`PROJECT.json` quotes them with what the code does instead. Every property that
holds is also checked against a mutant: a definition in the module, in the form
a plausible bug would give it, that makes the property fail.

### Bounds

`Budget` limits how often each event of the environment happens (foreign edits,
saves, clicks, toggles, errors), each kind by itself and all of them by a total;
nothing else is bounded but what the code bounds, since every task ends.

`MCProjectRefresh` has a log of two or three commits, pages of two and a first batch
of one: small enough that one page is not all, large enough for phase 2, for a probe
commit and for a cursor that leaves the log. A fetch brings four commits (`FetchSize`),
more than a page and its probe, so that one of them also pushes the cursor of a page out
of the window of its `git log`. Three events in all are one more than a
stale result needs: one task begun before and finished after one edit. Two page
requests are needed, and enough, to let a superseded one meet its successor.
`MCBranchGraphState` has two local branches and two remote ones, `main` tracking
`originMain` and `feature` tracking `main`, a local upstream, and
three events of every kind, two of which may be checkouts, so that HEAD goes there and back;
`forkMain` is at the tip of `main`, so that a change of the upstream to it moves no ref.
`MaxAttempts` is 2 where the code has 3, so that the last attempt is reached with two events.

`MCConflictResolution` has two resolutions, one of which writes a file, deletes it
or stages the working copy while the other makes a symbolic link or stages a
gitlink, so that each meets a different one. Any two events of the environment
may happen, in any order and at any step: two saves, deletions or both, a git
process that takes the lock and changes this path or others, and one failing call.
Two are needed: losing a save takes a failure (or a change of the index) to make
the resolver turn back, and the save. The `Save` values are symmetric, since no
definition tells them apart, and only safety is checked.

`MCDiffPane` has two files, one of them in conflict, two commits, one of them empty, and
two stash entries; at most two selections, and three events in all. The caches and the
queue are at their limits at once (`DisplayEntries` 2 of 50, `DisplayRows` 3 of 200 000,
`CacheCapacity`, `PrefetchWindow`, `BatchSize` and `MaxPending` 1), so that every bound is
met by entries of different sizes.

`MCGitOperations` has two files, three local branches with their remote ones, a tag,
five commits that do and do not clash, and a stash entry; on the server `main` has moved
on and `topic` is gone. Any three events happen, two of them in flight at once
(`MaxRunning`), with one entry on the undo stack (`MaxUndo`, 20 in the code, so that one is
pushed out): a sequence such as merge or rebase, resolve, continue has three, and so has
operation, other operation, undo. `MCWorktreePatch` has two checkouts, three kinds of patch and five
events: two patches, an undo and an editor in between. `MCPartialStaging` has files of six
lines with one line of context, so that two changes make two hunks or one, and two working
trees that differ from the index by a replaced line, a replaced run and added or removed
lines: in one the first hunk changes the number of lines above the second. They are such that
lines both files have keep their order when some changes are left out, as the rewrite of
`LineRewrite`, with which `StagedAsShown` compares, and the patch may put the lines of a run
in different orders (`MCPartialStaging`). Two gestures of several requests each meet at
every step of one another.
`MCCommitGraph` has every history of six commits of at most two parents: a merge into a
branch that was itself merged takes five, and the sixth is a main tip above it. Its windows
are a page of five, which is all of a history of five where the sixth commit is joined to
none, and all but the third, which an author filter hides; the proofs are for every window.

### Fairness

Spawned tasks and the poll loop take their next step eventually
(`WF` on `WatcherStep`, on each task or walk, and on `Work` of `DiffPane`): GPUI's
executor runs every spawned task, and the poll loop sleeps a fixed time. The fallback
scan, every `FINGERPRINT_FALLBACK` (5 s), is an alternative of the tick. `Work` is one
condition for all requests of a pane, which is weaker than one for each: some request
takes a step, and as each takes a bounded number of steps all of them end. Nothing is
assumed of the user or of other programs: no edit, scroll, toggle or operation has to
happen. The other modules state no fairness and claim no liveness.

### Premises of the properties

A property says what the code guarantees, no more; where a premise leaves something
out, section 6 says what happens there.

- `EditsReachTheView` and `GraphStateSettles` exclude behaviours in which an
  operation or `refresh()` puts an older snapshot over a newer one
  (`ClobberPending`): neither looks at `refresh_generation`. The screen is then
  stale until the next event, and the code makes no promise about it. Both speak of
  projects that have shown something (`refreshGen > 0`): a toggle during the first
  refresh throws its snapshot away and nothing retries it.
- `EditsReachTheView` is checked with watcher gathers that succeed.
- `PageContinuesList` speaks of pages whose `git log` window held the cursor; where it did
  not, the code starts at a count.
- `GraphStateSettles` excludes walks that used up their attempts (`Exhausted`: the
  code says that restarting is bounded), failed tasks and walks, a detached HEAD, and a
  change of an upstream by another program, which the watcher's fingerprint does not show. It
  also excludes behaviours in which a snapshot carries an answer about another HEAD
  (`StaleCarryPending`), which a checkout there and back makes possible, and those in which an
  operation puts up the first snapshot (`FirstPending`), after which no walk is started.
- `UpstreamMoveDropsCounts` speaks of branches whose upstream, as the new snapshot has it, is
  a remote branch that is elsewhere than on the screen before, and of branches without one;
  local upstreams, and other ones that rest, keep counts that may be wrong.
- `NoEditLostOtherwise` states what the code's comments promise but for two places:
  `Recapture` takes what is at the path for the resolver's result, and `MoveBack`
  renames over whatever appeared after a check, when the displaced entry could not be
  read. It also leaves out saves made into the very file a resolver has created, which
  it takes back if it has to, and saves that a resolution was opened to replace.
- `RefusalRestores` speaks of resolutions that are refused because of the index
  alone. With a failing call the code keeps the entry under a temporary name and
  says so in the error; that it is kept is part of `NoEditLostOtherwise`.
- `ShownIsSelected` says of the detail panel that it agrees once nothing asked for at
  the current generation is outstanding: until then the panel may be ahead of the diff.
- `WorkKept` leaves out the operations whose purpose is to discard, and `MergeKept`
  those that abandon a merge. `RefusalHarmless` leaves three operations out by name.
  `BranchesMoveForward` speaks of a rebase whose HEAD has not moved since the plan was
  compared with it, lets what a merge of the plan had brought go with it (`MergedBy`), and
  says of a continued rebase only which branch it moves.
- `UndoReverses` speaks of operations that were done, and whose undo was taken from the
  repository they worked on.
- `EditsSurvive` leaves out one window: an editor saves after the last comparison and
  before the rename, which no comparison can close (`worktree_patch.rs:984`).
- `StagedAsShown` speaks of requests that meet the diff they were made on, with the index
  still as they loaded it (`Current`), and of patches that leave out no line the index has
  (`Whole`); it lets a request be refused only where changes that are left out move the place
  of one that is not (`Aligned`). `NothingMadeUp` is about every request, however stale, and
  compares what it writes with the index it loaded, over which others may have written since.
- `LinesMeet` leaves out the line of the main tip where the reserved lane ends right above
  it (`Unjoined`); `LinesLead` speaks of histories with a main branch, and of first lines
  where the main line has no `Shortcut`.

## 4. What is proved

For every value of the constants, from the assumption each module states beside them and
nothing else. The assumptions say what the constants are (`RefreshAssumption`,
`GraphStateAssumption`, `ConflictAssumption`, `DiffPaneAssumption`,
`WorktreePatchAssumption`, `CommitsAssumption`, `WindowsAssumption`); beyond types, commits
are listed after their parents and names of different things differ
(`GitOperationsAssumption`), and a pane's placeholder is no file, commit or diff.

- `TypeCorrect` of `ProjectRefresh`. The two facts that are more than types are
  that a watcher refresh asks for no fewer than `commit_limit` commits, and that
  the commits a page adds form a sequence, which rests on `NthExists`: counting a
  set of positions from below reaches every number up to its size.
- `PagingFlagCorrect` and `LiveQueriesCorrect`. `PagingFlagExact` is not inductive:
  a refresh that supersedes a request makes room for a new one while the old is
  still in flight. `PagingInv` adds that no task was asked under a generation yet
  to come, so a superseded request can never become live again; with that the
  two properties are inductive together.
- `WatcherMonotone`, an action property. `WatcherInv` adds that whatever has been
  gathered or shown is no newer than the repository, and that a watcher whose
  generation is current holds a snapshot at least as new as the one shown.
- `RowsUnique`. `RowsInv` adds that the logs hold no commit twice and none from the
  future, and the same of every list and page in flight; a page is filtered
  against the list it is appended to, so appending keeps the list injective
  however stale the page is.
- `TypeCorrect` of `BranchGraphState`, with the bound on the attempts of a walk.
- `TrunkAnswersCorrect`. `TrunkInv` adds `WalksBelong`: a walk that is not superseded
  asked about the refs on screen. Hence what it applies belongs there, and
  carrying forward preserves it since both tips are compared.
- `PagesContinue`, for any number of edits, pages and toggles. `PagesInv` says what a page in
  flight counts on: a page whose window held its cursor holds the commits that followed it
  when the log was read (`Follows`), and no edit puts a commit between two that the log still
  has (`EditShifts`). So a page that lands on its list, which is whole and still ends in the
  log, goes on where it ends; appending leaves out only what the list has already
  (`NewToCovers`), so what comes out is whole (`WholeWithPage`).
- `UpstreamMoveCorrect`, whatever upstreams are set and however they change. It rests on
  `SnapshotsBelong`: the counts in a snapshot are those of its own refs, so that what is not
  carried is right.
- `TypeCorrect`, `LockCorrect` and `AtomicCorrect` of `ConflictResolution`, from one
  invariant. `HandleOK` says what a resolution may count on in the directory: the
  entry it moved aside is still under the name it gave it, and the inode it writes
  through exists. The names are its own, so no other step disturbs them; without it
  the types do not hold, as a put-back could copy an entry that is missing. `LockOK`
  says that `index.lock` is held in the steps `copy` and `commit` and no other, that
  the private copy is the index on disk while it is held, and that the conflict is
  still in it when it is written.
- `AtomicCorrect` is the implementation of `ConflictOutcome`: by `LockOK` the only step
  of a resolution that changes the index is `CommitIndex`, which replaces the conflict
  and keeps every other entry, and it is the step that ends the resolution as
  resolved. Every other step of a resolution is a stutter or its refusal.

- `RefusalCorrect`. `Shape` says for every step of a resolution nothing has disturbed what
  the directory holds: the conflict at the path, or moved aside with the path free or
  holding the result. What disturbs is counted by the budget, which only decreases, and a
  resolver that has begun is never idle again, so undisturbed at the end means
  undisturbed throughout. A resolution that is refused undisturbed was refused by the index,
  and by `Shape` its rollback finds its own result and puts the conflict back.
- `SteadyStateCorrect`, from the types: carrying forward compares tips that are equal.
- `TypeCorrect`, `UndosKnowTheirFile`, `TasksAreSerialized` and `UserEditsSurvive` of
  `WorktreePatch`. The invariant is that a task holds the lock from reading the file to
  its last comparison (`LockHeld`), so that until it writes the last write to its file is
  the one it saw or an editor's (`SawLastWrite`), that what it decided keeps the edits of
  what it saw (`ChangesKeepEdits`), and that what it wrote is on record when its undo entry
  is made.
- `ShownIsSelectedHolds` of `DiffPane`. `RequestsFenced` is the argument of the generation
  counters: a request of the current generation is for what is selected, and one that
  would fill an empty viewer finds it empty. `PreparationsFenced` says the same of rows
  with their own counter, in the theme and the choice in force; `PanelFollows` relates the
  detail panel to both.
- `TypeCorrect`, `DisplayCacheIsExact` and `PrefetchIsExact` of `DiffPane`, together from
  `PaneAndCaches`. The queue and the caches are what recursive functions make of sequences
  of any length; `LruCacheProofs` has the induction over their prefixes (`CountUp`,
  `SequenceInduction`), the existence of a recursive function (`Recursion`), and from them
  what each function returns: what is kept of a queue is what belongs, in its order and
  once each, and insertions leave a cache within its capacity. The loop that evicts rows
  ends within the bound since an empty cache is within it, and the row count is the sum
  of the entries after every eviction. What a full queue drops is no longer scheduled, so
  scheduled stays what waits or is being computed, in whatever order a batch comes back.
- `TypeCorrect`, `WorkIsKept`, `RefusalIsHarmless` and `MergeIsKept` of `GitOperations`.
  `Good` is what every operation preserves: references, stash entries and the plan of a
  rebase name commits that are there, parents are older, HEAD is at a commit.
  `IndexBehind`, that what is staged is in the working tree or in a commit, is needed
  since a safe checkout looks at the working tree only and overwrites the index. For each
  operation one lemma says what it promises (`Ends`: edits are kept, a refusal leaves what
  it must; `Throws` for those that discard), and `PerformPromised` puts them together.
- `BranchesOnlyMoveForward` of `GitOperations`. `Ancestors` is a recursive function; that it
  is closed, and the least set that is, comes from the induction over commit numbers
  (`AncestorsOf`, `AncestorsLeast`), and that a repository with more commits has the
  same ancestors of the old ones from `AncestorsStay`. For each operation one lemma says
  where it leaves the branches (`Steady`, `Forward`, `OwnOnly`), and `PerformMoves` puts them
  together. A rebase carries that HEAD is on top of its base through the steps it replays.
  The invariant is `PlansFit`: the plan of a rebase that was checked has the commits of a
  line of first parents from where HEAD was to its base, also when other operations have
  made commits since. With it, all that HEAD had and the plan and its merges do not, the
  base has (`PlanCovers`), so a rebase that is done takes nothing else.
- `UndoBringsBack` of `GitOperations`. The invariant is `UndosFit`: an operation in flight
  carries the undo of its kind (`UndoneBy`), with the HEAD there was at the click. For each
  kind one lemma runs the undo on what the operation left (`Undone`). It finds what it
  needs: no name in the way, no conflict, the index of HEAD, the newest stash on the commit
  it was made on (`DiscardUndone`). For a cherry-pick or a revert a hard reset is enough
  only because the tree was clean, so that HEAD has all there was (`CleanIsHead`).
- `TypeCorrect`, `MainLineKeepsLane` and `LinesAreContinuous` of `CommitGraph`, whatever the
  order `is_ancestor_of` finds, so also where its search is cut short. `MainWay` says that
  lane 0 waits for a commit of the main line as long as one is to come; it rests on
  `MainChainIs`, that the main line goes through parents to its last commit.
  `ReservedPasses` says what the erasing counts on: above the main tip the reserved lane
  passes every row and no node is on it. `Meeting` is stronger than `LinesMeet`: until the
  lane is erased all lines meet, and the last row's are the lanes that wait. Each row takes
  at most one lane more than it found, for its second parent, and at most one for its
  node, hence the bound on the lanes.
- `LinesLeadToParents` of `CommitGraph`, for the ancestors a complete search finds. `LeadInv`
  says of every line of every row, while the drawing goes on, that it has ended at a commit,
  or its lane waits for one, that is its parent or a descendant (`RowLeads`). What makes it
  inductive is `Waiting`: no lane waits for a commit that has its row, and lane 0 waits for
  the first commit of the main line that has none. So a commit that takes a lane waiting
  for another is, if an ancestor of it, laid out of order, or the main line has taken a
  shortcut (`NextMeets`). `LoadedAncestorsIs` and `LeadsToIs` are the two recursions: the
  ancestors of the loaded commits, counting down from the last, and the search for the
  row at which a line ends.

Model-checked only, and why:

- the liveness properties `PagingEnds`, `EditsReachTheView`, `GraphStateSettles` and
  `ViewSettles`: liveness under fairness is out of the prover's reach.
- `NoEditLostOtherwise`: stated for what two resolutions and an editor do; with more of them
  a third can take what a second moved aside for its own.
- every property of `PartialStaging`: `LineRewrite` folds and flattens sequences of sequences
  with operators of the community modules, about which nothing is proved; a theorem needs
  them as recursive functions first, as was done for the queue of `DiffPane`. `RewriteDual`
  also needs that two files have their common lines in the same order.

## 5. Plan

1. Proofs: `RewriteDual`, with the rewrite as a recursive function.
2. Operation tracking and retry over two projects. Operation ids start at 1 in every
   project and the workspace keeps one list of running operations; a retry runs on the tab
   that is active.
3. GitHub data service: single flight and invalidation; abstract specification:
   every waiter is answered once. To prove: a waiter belongs to one request.
4. The lifecycle of AI generations: cancel, deadline, late answers.
5. History cache and commit-log reuse cache, composed with `ProjectRefresh`.
6. Bisect, submodules, worktrees and remotes as objects of `GitOperations`.

Not modelled, and not planned:

- pure readers and parsers (blame, search, file history, reflog), rendering, theming,
  translation, keymap and settings: state is local and sequential, and unit tests
  reach every case. They are a large part of the source, which is why the modules cover a
  small share of its lines.
- authentication and the validation of arguments, which have no protocol.
- the interior of libgit2 and git, taken from how the code calls them.
- a crash in the middle of an operation: nothing in the code recovers from one.

## 6. What the code does not guard

Behaviours the models have, or had to be given a premise for, because the code has no
guard against them. The properties above hold beside them.

- A commit made during a page request pushes the probe commit out of the window, so
  `has_more_commits` goes false and the last commit cannot be loaded until the next
  refresh (`project/refresh.rs:1324`).
- A watcher gather begun before My Commits was switched on fills the list with
  everybody's commits: its guard looks at `refresh_generation` only
  (`project/watcher.rs:427`, `watcher.rs:593`).
- A watcher gather that fails once loses the change it was for: the flag and the
  fingerprint are consumed before it runs (`project/watcher.rs:579`).
- More new commits than a page and its probe push the cursor of a page out of the window: the
  page starts at a count and the list has a gap (`project/refresh.rs:1362`),
  which the doc at `refresh.rs:1279` says cannot happen.
- A branch whose upstream is another local branch keeps its counts when that branch moves,
  since `upstream_tip` looks at remote branches only (`project/mod.rs:1339`). One that gets another upstream keeps those computed for the old one if
  the new one rests (`project/mod.rs:1265`); after a saved file no walk
  follows that would correct them.
- An operation that ends before the first refresh puts up a snapshot whose graph state is
  unknown, and starts no walk (`project/local_ops.rs:719`).
- With HEAD detached there is no head branch to compare, so every refresh drops the answers
  about HEAD and starts a walk (`project/mod.rs:1237`).
- A checkout there and back during a walk leaves answers computed about the other HEAD,
  since the walk is accepted by the tips on screen (`project/mod.rs:1167`),
  and the next refresh carries them (`mod.rs:1240`).
- A file saved while a conflict is resolved by deletion is taken for the result and removed
  by the rollback (`project/local_ops.rs:4062`).
- A selection of the file on screen and a refresh of it are at one viewer generation, so
  the older content can be the one that stays (`workspace/events.rs:1238`).
- A stash entry is named by its index until it is read; a stash in between shows another
  entry under its label (`workspace/events.rs:1609`).
- A theme change that keeps the appearance (dark to another dark) keeps rows laid out with
  the old colours (`rgitui_diff/src/lib.rs:924`).
- With HEAD detached a fast-forward merge checks files out before it looks for a branch to
  move, and fails with the files changed (`project/local_ops.rs:2638`).
- `stash_branch` moves HEAD before the checkout that may be refused
  (`project/local_ops.rs:1704`).
- Revert and cherry-pick leave their result staged when there is no conflict, where
  the doc of `revert_commit_at` says "creates a new commit" (`project/local_ops.rs:2239`).
- The undo entry of a discard, reset, cherry-pick or revert is pushed when it is asked for;
  if it is refused, the undo pops another stash entry or resets a branch
  (`workspace/events.rs:732`). The undo of a deleted branch does not restore its upstream.
- A commit or a checkout between the comparison of a rebase's plan with HEAD and the
  `git rebase` that gets the plan: git does not compare again, so the new commit is dropped
  from the branch, or the other branch is rewritten with the plan of the first
  (`project/rebase.rs:52-80`).
- A plan with a merge, or with a squash before any commit that stays, passes the comparison,
  which looks at the set of commits only; git stops at that step, HEAD is left detached on
  what was replayed, and no "continue" gets past it (`project/rebase.rs:72-80`).
- A rebase that stops a second time is reported as failed and not shown as a conflict until
  the watcher refreshes (`project/local_ops.rs:75`); one that is aborted leaves HEAD
  detached where it stopped (`project/local_ops.rs:2449`), and the branch as it was.
- An editor that saves between the last comparison of a patch and its rename loses the
  save (`project/worktree_patch.rs:984`).
- A patch of some lines of a run drops the removed lines that were not selected instead of
  keeping them as context, and git refuses it (`project/diff.rs:285`).
- A hunk, or lines of one, keeps the place it has with the hunks above it: below one that adds
  or removes lines it is refused when it is staged alone (`project/diff.rs:121`).
- The tasks of one selection load the index and write it without regard for each other: the
  second to write takes out what the first has staged, or finds `index.lock` taken and fails
  (`project/diff.rs:748`).
- A merge's second parent joins a lane that waits for a descendant of it, so the line
  ends at the descendant (`rgitui_git/src/graph.rs:668`). On the main line the parent drawn
  first is the first that is on the main line; where a merge has both there, the line in
  lane 0 can be the other one's, and it ends at the main line's next commit
  (`graph.rs:434`). Without `main` or `master` the
  chain of HEAD is forced onto lane 0 even if a lane was waiting there
  (`graph.rs:330`).
- The main tip has no line from above when the row right above it is the first that bends
  into its lane; the test at `graph.rs:1013` has a row between
  (`rgitui_git/src/graph.rs:579`).
