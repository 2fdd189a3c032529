-------------------------- MODULE BranchGraphState --------------------------
(***************************************************************************)
(* What the sidebar says about a local branch: is it merged into the trunk,*)
(* is it merged into HEAD, how far is it ahead of and behind its upstream  *)
(* (crates/rgitui_git/src/project/mod.rs).                                 *)
(*                                                                         *)
(* None of it is computed when a snapshot is gathered.  A walk over the    *)
(* history follows the snapshot in the background and writes its answers   *)
(* into the branch list if no other snapshot arrived meanwhile; the next   *)
(* snapshot then carries over those answers that should still hold.        *)
(*                                                                         *)
(* An answer is a function of two commits, the tip of the branch and a     *)
(* reference, so it is represented by the pair of commits it was computed  *)
(* from: it is right where it is shown exactly if that pair is the pair    *)
(* shown.  Commits are named by the version of the repository that made    *)
(* them.                                                                   *)
(***************************************************************************)
EXTENDS Naturals, Sequences, FiniteSets

CONSTANTS
    Local, Remote,   \* names of local and of remote-tracking branches
    NoBranch,        \* no upstream; as HEAD's branch: HEAD is detached
    TrunkOrder,      \* main, master, origin/main, origin/master
    InitialTips, InitialHead, InitialVersion,  \* no initial tip is above it
    InitialUpstream, \* the upstream configured for a local branch, or NoBranch
    MaxAttempts,     \* MAX_ATTEMPTS
    EditKinds,       \* what happens to the refs
    Budget           \* how often each event of the environment may happen

Branch == Local \cup Remote
Edit == {"commit", "checkout", "detach", "push", "fetch", "delete", "publish", "track"}
RefreshKind == {"full", "operation", "stage"}
BudgetKind == Edit \cup RefreshKind \cup {"toggle", "save", "error", "total"}

ASSUME GraphStateAssumption ==
    /\ Local \cap Remote = {} /\ NoBranch \notin Branch
    /\ TrunkOrder \in Seq(Branch)
    /\ InitialVersion \in Nat /\ InitialTips \in [Branch -> 0..InitialVersion]
    /\ InitialHead \in Local
    /\ InitialUpstream \in [Local -> Branch \cup {NoBranch}]
    /\ MaxAttempts \in Nat \ {0}
    /\ EditKinds \subseteq Edit
    /\ Budget \in [BudgetKind -> Nat]

VARIABLES
    repo,        \* the refs of the repository
    budget,      \* what is left of Budget
    scanned,     \* the fingerprint the watcher's last scan saw
    dirty,       \* AtomicBool: a watcher refresh is due
    watcher,     \* the watcher's poll loop
    tasks,       \* refresh() and operations in flight
    walks,       \* refresh_ahead_behind_attempt in flight
    shown,       \* the refs in `branches` and `head_branch`
    answers,     \* the graph state in `branches`
    refreshGen,  \* refresh_generation
    queryGen     \* commit_query_generation

outside == <<repo, budget, scanned, dirty>>
view    == <<shown, answers, refreshGen>>
vars    == <<outside, watcher, tasks, walks, view, queryGen>>

-----------------------------------------------------------------------------
(* Refs *)

NoCommit == 0

\* `on` is the branch HEAD is on; `at` is the commit of a detached HEAD.  `print` changes with
\* tips and HEAD, not with the configuration, where the upstreams are.
RefsOf(version, tip, on, at, upstream) ==
    [version |-> version, print |-> version, tip |-> tip, on |-> on, at |-> at,
     upstream |-> upstream]
NoRefs == RefsOf(0, [b \in Branch |-> NoCommit], NoBranch, NoCommit, [b \in Local |-> NoBranch])

Exists(refs, b) == refs.tip[b] # NoCommit
LocalsOf(refs)  == {b \in Local : Exists(refs, b)}

\* The first of main, master, origin/main and origin/master there is.
TrunkOf(tip) ==
    LET there == {i \in DOMAIN TrunkOrder : tip[TrunkOrder[i]] # NoCommit}
    IN  IF there = {} THEN NoCommit
        ELSE tip[TrunkOrder[CHOOSE i \in there : \A j \in there : i <= j]]
TrunkTip(refs) == TrunkOf(refs.tip)

\* HEAD as the branch list knows it: no branch claims a detached HEAD.
HeadTip(refs) == IF refs.on = NoBranch THEN NoCommit ELSE refs.tip[refs.on]

\* HEAD as the repository resolves it.
LiveHead(refs) == IF refs.on = NoBranch THEN refs.at ELSE refs.tip[refs.on]

\* The tip the upstream resolves to, local or remote; one that does not resolve is no upstream.
TrackedTip(refs, b) ==
    IF refs.upstream[b] = NoBranch THEN NoCommit ELSE refs.tip[refs.upstream[b]]

\* The tip `upstream_tip` finds for a name: it looks among the remote branches.
UpstreamTip(refs, u) == IF u \in Remote THEN refs.tip[u] ELSE NoCommit

-----------------------------------------------------------------------------
(* Answers *)

Unknown == <<NoCommit, NoCommit>>

\* What there is to know of a tip and a reference point; nothing if one of them
\* does not exist.
AnswerFor(tip, reference) ==
    IF tip = NoCommit \/ reference = NoCommit THEN Unknown ELSE <<tip, reference>>

NoAnswer == [main |-> Unknown, head |-> Unknown, track |-> Unknown]
NoAnswers == [b \in Local |-> NoAnswer]

\* Mutant of Kept: as if the tip of the branch were enough.
KeptByTip(answer, old, new) == answer

\* An answer stays if its reference point is known and unmoved.
Kept(answer, old, new) ==
    IF old # NoCommit /\ old = new THEN answer ELSE Unknown

\* Mutant of KeptCounts: keyed on the branch alone, as the overlay the watcher
\* once had was.
KeptByName(b, old, new, counts, before) == IF counts # Unknown THEN counts ELSE before

\* The counts an incoming branch has, or those it had if the upstream it has now is where it
\* was, whatever upstream the branch had then.
KeptCounts(b, old, new, counts, before) ==
    LET u == new.upstream[b]
    IN  CASE counts # Unknown -> counts
          [] counts = Unknown /\ TrackedTip(new, b) # NoCommit
                              /\ UpstreamTip(old, u) = UpstreamTip(new, u) -> before
          [] OTHER -> Unknown

\* Mutant of CarryForward: every refresh blanks what it did not compute.
NothingCarried(old, before, new, counts) ==
    [b \in Local |-> [NoAnswer EXCEPT !.track = counts[b]]]

CarryForward(old, before, new, counts) ==
    [b \in Local |->
        IF Exists(old, b) /\ old.tip[b] = new.tip[b]
        THEN [main  |-> Kept(before[b].main, TrunkTip(old), TrunkTip(new)),
              head  |-> Kept(before[b].head, HeadTip(old), HeadTip(new)),
              track |-> KeptCounts(b, old, new, counts[b], before[b].track)]
        ELSE [NoAnswer EXCEPT !.track = counts[b]]]

\* Whether a walk could supply an answer that is missing.
Incomplete(refs, known) ==
    \E b \in LocalsOf(refs) :
        \/ TrunkTip(refs) # NoCommit /\ known[b].main = Unknown
        \/ (HeadTip(refs) # NoCommit \/ refs.on = NoBranch) /\ known[b].head = Unknown
        \/ /\ UpstreamTip(refs, refs.upstream[b]) # NoCommit
           /\ known[b].track = Unknown

-----------------------------------------------------------------------------
(* The repository changes *)

Spend(kind) ==
    /\ budget[kind] > 0 /\ budget["total"] > 0
    /\ budget' = [budget EXCEPT ![kind] = @ - 1, !["total"] = @ - 1]

\* The refs after an edit of a kind that names branch b.  "publish" is a push that sets the
\* upstream, "track" another program's change of it.
Edited(kind, b) ==
    LET new  == repo.version + 1
        next == [repo EXCEPT !.version = new, !.print = new]
        Moved(x, c) == [next EXCEPT !.tip[x] = c]
    IN  CASE kind = "commit" /\ repo.on # NoBranch -> Moved(repo.on, new)
          [] kind = "commit" /\ repo.on = NoBranch -> [next EXCEPT !.at = new]
          [] kind = "checkout" -> [next EXCEPT !.on = b, !.at = NoCommit]
          [] kind = "detach"   -> [next EXCEPT !.on = NoBranch, !.at = LiveHead(repo)]
          [] kind = "push"     -> Moved(repo.upstream[b], repo.tip[b])
          [] kind = "fetch"    -> Moved(b, new)
          [] kind = "delete"   -> [Moved(b, NoCommit) EXCEPT !.upstream[b] = NoBranch]
          [] kind = "publish"  -> [Moved(b, repo.tip[repo.on]) EXCEPT
                                     !.upstream[repo.on] = b,
                                     !.print = IF repo.tip[b] = repo.tip[repo.on] THEN repo.print
                                               ELSE new]
          [] kind = "track"    -> [next EXCEPT !.upstream[repo.on] = IF b = repo.on THEN NoBranch
                                                                     ELSE b,
                                               !.print = repo.print]

Possible(kind, b) ==
    CASE kind = "commit"   -> b = InitialHead  \* the branch does not matter
      [] kind = "checkout" -> b \in LocalsOf(repo) \ {repo.on}
      [] kind = "detach"   -> repo.on # NoBranch /\ b = repo.on
      [] kind = "push"     -> b \in LocalsOf(repo) /\ repo.upstream[b] \in Remote
      [] kind = "fetch"    -> b \in Remote
      [] kind = "delete"   -> b \in LocalsOf(repo) \ {repo.on}
      [] kind = "publish"  -> repo.on # NoBranch /\ b \in Remote \ {repo.upstream[repo.on]}
      [] kind = "track"    -> repo.on # NoBranch /\ b # repo.upstream[repo.on]

\* For another program a push that sets the upstream is a "track" and a "push".
EditRefs(kind, b) ==
    /\ kind # "publish"
    /\ Possible(kind, b)
    /\ Spend(kind)
    /\ repo' = Edited(kind, b)
    /\ UNCHANGED <<scanned, dirty, watcher, tasks, walks, view, queryGen>>

\* A file is saved: the watcher refreshes, no ref moved.
SaveFile ==
    /\ Spend("save")
    /\ dirty' = TRUE
    /\ UNCHANGED <<repo, scanned, watcher, tasks, walks, view, queryGen>>

-----------------------------------------------------------------------------
(* The walk *)

Walk(attempt, tips, refresh, query) ==
    [pc |-> "track", attempt |-> attempt, tips |-> tips,
     refreshGen |-> refresh, queryGen |-> query,
     counts |-> [b \in Local |-> Unknown], keys |-> [b \in Local |-> NoCommit],
     head |-> NoCommit]

Replace(w, next) == walks' = (walks \ {w}) \cup {next}

\* git for-each-ref prints the counts of every branch that has an upstream...
ReadTracking(w) ==
    /\ w.pc = "track"
    /\ Replace(w, [w EXCEPT !.pc = "keys",
           !.counts = [b \in Local |-> AnswerFor(repo.tip[b], TrackedTip(repo, b))]])
    /\ UNCHANGED <<outside, watcher, tasks, view, queryGen>>

\* ...which says nothing of the commits they are for; those are looked up next.
ReadKeys(w) ==
    /\ w.pc = "keys"
    /\ Replace(w, [w EXCEPT !.pc = "merged",
           !.keys = [b \in Local |->
               IF TrackedTip(repo, b) # NoCommit THEN repo.tip[b] ELSE NoCommit]])
    /\ UNCHANGED <<outside, watcher, tasks, view, queryGen>>

\* merged_flags: the tips are those the snapshot had, HEAD is the repository's.
ReadHead(w) ==
    /\ w.pc = "merged"
    /\ Replace(w, [w EXCEPT !.pc = "apply", !.head = LiveHead(repo)])
    /\ UNCHANGED <<outside, watcher, tasks, view, queryGen>>

\* The repository would not open: nothing to apply, no other attempt.
FailWalk(w) ==
    /\ w.pc = "track"
    /\ Spend("error")
    /\ walks' = walks \ {w}
    /\ UNCHANGED <<repo, scanned, dirty, watcher, tasks, view, queryGen>>

\* Mutant of Superseded: only another query supersedes a walk.
SupersededByQuery(w) == w.queryGen # queryGen

Superseded(w) == w.queryGen # queryGen \/ w.refreshGen # refreshGen

\* merged_flags answers for the branches of the walk's snapshot, the counts are
\* matched by local tip only.
Answered(w) ==
    [b \in Local |->
        LET merged == Exists(shown, b) /\ shown.tip[b] = w.tips[b]
            counted == /\ Exists(shown, b) /\ shown.tip[b] = w.keys[b]
                       /\ w.counts[b] # Unknown
        IN  [main  |-> IF merged THEN AnswerFor(w.tips[b], TrunkOf(w.tips))
                       ELSE answers[b].main,
             head  |-> IF merged THEN AnswerFor(w.tips[b], w.head)
                       ELSE answers[b].head,
             track |-> IF counted THEN w.counts[b] ELSE answers[b].track]]

ApplyWalk(w) ==
    /\ w.pc = "apply"
    /\ ~Superseded(w)
    /\ answers' = Answered(w)
    /\ walks' = walks \ {w}
    /\ UNCHANGED <<outside, watcher, tasks, shown, refreshGen, queryGen>>

\* Mutant of MayRestart: one attempt too many.
MayRestartAtLimit(next) == next <= MaxAttempts /\ Incomplete(shown, answers)

\* "Restarting is bounded", and pointless once a newer walk has answered.
MayRestart(next) == next < MaxAttempts /\ Incomplete(shown, answers)

\* No branch to answer for: "retrying would not change that".
FoundNothing(w) ==
    \A b \in Local : /\ w.tips[b] = NoCommit
                     /\ w.keys[b] = NoCommit \/ w.counts[b] = Unknown

\* Mutant of RestartWalk: drop it silently, "which is what this did".
DropWalk(w) ==
    /\ w.pc = "apply"
    /\ Superseded(w)
    /\ walks' = walks \ {w}
    /\ UNCHANGED <<outside, watcher, tasks, view, queryGen>>

RestartWalk(w) ==
    /\ w.pc = "apply"
    /\ Superseded(w)
    /\ IF MayRestart(w.attempt + 1) /\ ~FoundNothing(w)
       THEN Replace(w, Walk(w.attempt + 1, shown.tip, refreshGen, queryGen))
       ELSE walks' = walks \ {w}
    /\ UNCHANGED <<outside, watcher, tasks, view, queryGen>>

-----------------------------------------------------------------------------
(* Snapshots *)

NoCounts == [b \in Local |-> Unknown]

\* Only the gather of an operation that moves refs counts ahead and behind.
Snapshot(refs, counting) ==
    [refs |-> refs,
     counts |-> IF counting THEN [b \in Local |-> AnswerFor(refs.tip[b], TrackedTip(refs, b))]
                ELSE NoCounts]
NoSnapshot == Snapshot(NoRefs, FALSE)

ApplyRefreshData(data) ==
    /\ shown' = data.refs
    /\ answers' = CarryForward(shown, answers, data.refs, data.counts)
    /\ refreshGen' = refreshGen + 1

RefreshAheadBehind == walks' = walks \cup {Walk(0, shown'.tip, refreshGen', queryGen)}

WalkIfNeeded ==
    IF Incomplete(shown', answers') THEN RefreshAheadBehind ELSE UNCHANGED walks

SleepingWatcher == [pc |-> "sleep", gen |-> 0, snap |-> NoSnapshot]

\* A tick with its scan of the refs.
WatcherTick ==
    /\ watcher.pc = "sleep"
    /\ dirty \/ scanned # repo.print
    /\ dirty' = FALSE
    /\ scanned' = repo.print
    /\ watcher' = [watcher EXCEPT !.pc = "gather", !.gen = refreshGen]
    /\ UNCHANGED <<repo, budget, tasks, walks, view, queryGen>>

WatcherGather ==
    /\ watcher.pc = "gather"
    /\ watcher' = [watcher EXCEPT !.pc = "apply", !.snap = Snapshot(repo, FALSE)]
    /\ UNCHANGED <<outside, tasks, walks, view, queryGen>>

\* The generation guard; a stale result re-arms the flag.
WatcherApply ==
    /\ watcher.pc = "apply"
    /\ watcher' = SleepingWatcher
    /\ IF watcher.gen = refreshGen
       THEN ApplyRefreshData(watcher.snap) /\ WalkIfNeeded /\ UNCHANGED dirty
       ELSE dirty' = TRUE /\ UNCHANGED <<walks, view>>
    /\ UNCHANGED <<repo, budget, scanned, tasks, queryGen>>

\* "full" is refresh(); "operation" stands for the operations that move refs and
\* refresh with gather_refresh_data; "stage" for those that move none.
Task(kind, query) ==
    [kind |-> kind, queryGen |-> query, snap |-> NoSnapshot,
     pc |-> IF kind = "operation" THEN "mutate" ELSE "gather"]

StartTask(kind) ==
    /\ Spend(kind)
    /\ queryGen' = IF kind = "full" THEN queryGen + 1 ELSE queryGen
    /\ tasks' = tasks \cup {Task(kind, queryGen')}
    /\ UNCHANGED <<repo, scanned, dirty, watcher, walks, view>>

\* No operation changes an upstream alone.
MutateTask(t, kind, b) ==
    /\ t.pc = "mutate"
    /\ kind # "track"
    /\ Possible(kind, b)
    /\ Spend(kind)
    /\ repo' = Edited(kind, b)
    /\ tasks' = (tasks \ {t}) \cup {[t EXCEPT !.pc = "gather"]}
    /\ UNCHANGED <<scanned, dirty, watcher, walks, view, queryGen>>

GatherTask(t) ==
    /\ t.pc = "gather"
    /\ tasks' = (tasks \ {t}) \cup
           {[t EXCEPT !.pc = "apply", !.snap = Snapshot(repo, t.kind = "operation")]}
    /\ UNCHANGED <<outside, watcher, walks, view, queryGen>>

FailTask(t) ==
    /\ t.pc \in {"mutate", "gather"}
    /\ Spend("error")
    /\ tasks' = tasks \ {t}
    /\ UNCHANGED <<repo, scanned, dirty, watcher, walks, view, queryGen>>

\* refresh() always walks, unless a newer query superseded it; staging walks if
\* an answer is missing; other operations leave the walk to the watcher.
ApplyTask(t) ==
    /\ t.pc = "apply"
    /\ tasks' = tasks \ {t}
    /\ CASE t.kind = "full" /\ t.queryGen # queryGen -> UNCHANGED <<view, walks>>
         [] t.kind = "full" /\ t.queryGen = queryGen ->
              ApplyRefreshData(t.snap) /\ RefreshAheadBehind
         [] t.kind = "stage" -> ApplyRefreshData(t.snap) /\ WalkIfNeeded
         [] t.kind = "operation" -> ApplyRefreshData(t.snap) /\ UNCHANGED walks
    /\ UNCHANGED <<outside, watcher, queryGen>>

\* set_commit_author_filter invalidates queries, a walk in flight among them.
ToggleMyCommits ==
    /\ Spend("toggle")
    /\ queryGen' = queryGen + 1
    /\ UNCHANGED <<repo, scanned, dirty, watcher, tasks, walks, view>>

-----------------------------------------------------------------------------
Init ==
    /\ repo = RefsOf(InitialVersion, InitialTips, InitialHead, NoCommit, InitialUpstream)
    /\ budget = Budget
    /\ scanned = repo.print /\ dirty = FALSE
    /\ watcher = SleepingWatcher
    /\ tasks = {} /\ walks = {}
    /\ shown = NoRefs /\ answers = NoAnswers
    /\ refreshGen = 0 /\ queryGen = 0

WatcherStep == WatcherTick \/ WatcherGather \/ WatcherApply
TaskStep(t) ==
    \/ \E kind \in EditKinds, b \in Branch : MutateTask(t, kind, b)
    \/ GatherTask(t) \/ FailTask(t) \/ ApplyTask(t)
WalkStep(w) ==
    ReadTracking(w) \/ ReadKeys(w) \/ ReadHead(w) \/ FailWalk(w) \/ ApplyWalk(w) \/ RestartWalk(w)

Next ==
    \/ \E kind \in EditKinds, b \in Branch : EditRefs(kind, b)
    \/ SaveFile
    \/ ToggleMyCommits
    \/ \E kind \in RefreshKind : StartTask(kind)
    \/ WatcherStep
    \/ \E t \in tasks : TaskStep(t)
    \/ \E w \in walks : WalkStep(w)

\* Spawned tasks run until they finish and the watcher keeps polling.
Fairness ==
    /\ WF_vars(WatcherStep)
    /\ WF_vars(\E t \in tasks : TaskStep(t))
    /\ WF_vars(\E w \in walks : WalkStep(w))

Spec == Init /\ [][Next]_vars
FairSpec == Spec /\ Fairness

-----------------------------------------------------------------------------
(* Properties *)

Refs == [version : Nat, print : Nat, tip : [Branch -> Nat], on : Local \cup {NoBranch}, at : Nat,
         upstream : [Local -> Branch \cup {NoBranch}]]
Pair == Nat \X Nat
Counts == [Local -> Pair]
Answers == [Local -> [main : Pair, head : Pair, track : Pair]]
SnapshotType == [refs : Refs, counts : Counts]
WatcherType == [pc : {"sleep", "gather", "apply"}, gen : Nat, snap : SnapshotType]
TaskType == [kind : RefreshKind, queryGen : Nat, snap : SnapshotType,
             pc : {"mutate", "gather", "apply"}]
WalkType == [pc : {"track", "keys", "merged", "apply"}, attempt : 0..MaxAttempts-1,
             tips : [Branch -> Nat], refreshGen : Nat, queryGen : Nat,
             counts : Counts, keys : [Local -> Nat], head : Nat]

\* The values of the model; no walk starts more often than MAX_ATTEMPTS allows.
TypeOK ==
    /\ repo \in Refs /\ budget \in [BudgetKind -> Nat]
    /\ scanned \in Nat /\ dirty \in BOOLEAN
    /\ watcher \in WatcherType
    /\ tasks \subseteq TaskType
    /\ walks \subseteq WalkType
    /\ shown \in Refs /\ answers \in Answers
    /\ refreshGen \in Nat /\ queryGen \in Nat

\* An answer shown is the answer for the branch tip and the reference shown
\* beside it.
RightFor(answer, tip, reference) == answer # Unknown => answer = <<tip, reference>>

\* "Merged into main" is never shown for another tip of the branch or of the
\* trunk than the ones on screen, whatever moves while the walk runs and whatever
\* snapshots it is carried through: the question is asked of the walk's snapshot,
\* the two generations tie the answer to it, and the carry-forward drops it when
\* the trunk moves.
TrunkAnswersHold ==
    \A b \in Local : RightFor(answers[b].main, shown.tip[b], TrunkTip(shown))

\* The same for "merged into HEAD" and for ahead/behind.
HeadAnswersHold ==
    \A b \in Local : RightFor(answers[b].head, shown.tip[b], LiveHead(shown))
CountsHold ==
    \A b \in Local : RightFor(answers[b].track, shown.tip[b], TrackedTip(shown, b))

\* "Each answer is carried only when both commits it was derived from are
\* unchanged": where the upstream a branch has now is another commit than on the
\* screen before, "which is what a push does", or where it has none, the counts
\* shown after a refresh are those for where it is now, or none.
UpstreamMoveDropsCounts ==
    [][shown' # shown => \A b \in Local :
         LET u == shown'.upstream[b]
         IN  u = NoBranch \/ (u \in Remote /\ shown.tip[u] # shown'.tip[u])
             => RightFor(answers'[b].track, shown'.tip[b], TrackedTip(shown', b))]_vars

\* Nothing moved, everything is known: a refresh keeps it so, and the watcher
\* schedules no walk on a file save.
SteadyStateIsQuiet ==
    [][(/\ shown.on # NoBranch
        /\ refreshGen' # refreshGen
        /\ shown'.tip = shown.tip /\ shown'.on = shown.on /\ shown'.upstream = shown.upstream
        /\ ~Incomplete(shown, answers))
       => ~Incomplete(shown', answers')]_vars

\* An operation or refresh() about to put an older snapshot over a newer one.
ClobberPending == \E t \in tasks : t.pc = "apply" /\ t.snap.refs.version < shown.version

\* A snapshot about to be applied that would carry an answer about another HEAD
\* than its own.  The code compares HEAD on the screen before and after, and a walk
\* may have looked while HEAD was elsewhere (mod.rs:1167): a checkout there and back.
CarriesStale(data) ==
    LET kept == CarryForward(shown, answers, data.refs, data.counts)
    IN  \E b \in Local : ~RightFor(kept[b].head, data.refs.tip[b], LiveHead(data.refs))

StaleCarryPending ==
    \/ watcher.pc = "apply" /\ watcher.gen = refreshGen /\ CarriesStale(watcher.snap)
    \/ \E t \in tasks : /\ t.pc = "apply" /\ (t.kind = "full" => t.queryGen = queryGen)
                        /\ CarriesStale(t.snap)

\* A walk that has used its attempts up.
Exhausted == \E w \in walks : w.attempt + 1 = MaxAttempts /\ Superseded(w)

\* An operation about to put up the first snapshot, with no walk after it.
FirstPending == refreshGen = 0 /\ \E t \in tasks : t.kind = "operation" /\ t.pc = "apply"

\* Once things are quiet the sidebar knows all there is to know of the repository
\* as it is, and nothing of it is wrong: provided that no snapshot carried an
\* answer about another HEAD (StaleCarryPending), no walk failed or used up its
\* attempts, no late task clobbered a newer snapshot, no operation came before the
\* first refresh, no other program changed an upstream, which the watcher does not
\* see, and HEAD was on a branch.
GraphStateSettles ==
    (/\ [](~ClobberPending /\ ~StaleCarryPending /\ ~FirstPending)
     /\ [](~Exhausted /\ repo.on # NoBranch)
     /\ [](budget["error"] = Budget["error"] /\ budget["track"] = Budget["track"]))
    => <>[](refreshGen > 0 =>
              /\ shown = repo
              /\ ~Incomplete(shown, answers)
              /\ TrunkAnswersHold /\ HeadAnswersHold /\ CountsHold)
=============================================================================
