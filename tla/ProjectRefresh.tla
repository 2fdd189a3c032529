--------------------------- MODULE ProjectRefresh ---------------------------
(***************************************************************************)
(* How a GitProject (crates/rgitui_git/src/project) keeps the snapshot it  *)
(* shows in step with a repository that other programs also change.        *)
(*                                                                         *)
(* Four kinds of asynchronous task read the repository on a background     *)
(* executor and write what they found into the project on the UI thread:   *)
(*   - the filesystem watcher's poll loop          (watcher.rs)            *)
(*   - refresh(), in two phases                    (refresh.rs)            *)
(*   - a git operation: mutate, gather, apply      (local_ops.rs)          *)
(*   - load_more_commits(), which pages the log    (mod.rs)                *)
(* Every piece of a handler that runs between two awaits is one action.    *)
(*                                                                         *)
(* The repository is abstracted to a version of its git directory, the     *)
(* commit log (newest first) an author filter selects, and a version of    *)
(* its working tree.  A commit is named by the git version that created it.*)
(***************************************************************************)
EXTENDS Naturals, Sequences, FiniteSets, Functions

CONSTANTS
    InitialLog,      \* the log of each author filter when the project is opened
    InitialVersion,  \* the git version at that time; no commit id is above it
    Mine,            \* the commits made here whose author is the current user
    FetchSize,       \* how many commits of others a fetch brings
    CommitLimit,     \* commit_limit, the page size
    FirstBatchSize,  \* FIRST_BATCH_SIZE
    Ops, Refreshers, Pagers,  \* slots: how many tasks of a kind may be in flight
    NotifyMisses,    \* whether notify can miss a change under .git
    EditKinds,       \* what other programs do to the git directory
    OpKinds,         \* the operations the user starts
    Budget           \* how often each event of the environment may happen

Filter == {"all", "mine"}
GitEdit == {"commit", "amend", "reset", "fetch", "index"}
BudgetKind == {"edit", "tree", "op", "refresh", "toggle", "error", "watchError", "total"}

ASSUME RefreshAssumption ==
    /\ InitialVersion \in Nat \ {0}
    /\ InitialLog \in [Filter -> Seq(1..InitialVersion)]
    /\ \A f \in Filter : IsInjective(InitialLog[f])
    /\ CommitLimit \in Nat \ {0} /\ FirstBatchSize \in Nat \ {0}
    /\ FetchSize \in Nat \ {0}
    /\ NotifyMisses \in BOOLEAN
    /\ EditKinds \subseteq GitEdit /\ OpKinds \subseteq GitEdit
    /\ Budget \in [BudgetKind -> Nat]

VARIABLES
    git,          \* the git directory: its version and, per filter, its log
    tree,         \* version of the working tree
    budget,       \* what is left of Budget
    gitDirty,     \* AtomicBool: something under .git changed
    dirty,        \* AtomicBool: a refresh is due
    fingerprint,  \* last_fingerprint: the git version the last scan saw
    watcher,      \* the poll loop
    commits,      \* recent_commits; commit_offset is always its length
    hasMore,      \* has_more_commits
    shown,        \* git and tree version of the snapshot last applied, 0 if none
    refreshGen,   \* refresh_generation
    filter,       \* commit_author_filter
    queryGen,     \* commit_query_generation
    inFlight,     \* load_more_in_flight
    op, refresher, pager  \* the tasks in flight

repo    == <<git, tree>>
flags   == <<gitDirty, dirty, fingerprint>>
view    == <<commits, hasMore, shown, refreshGen>>
query   == <<filter, queryGen, inFlight>>
tasks   == <<op, refresher, pager>>
vars    == <<repo, budget, flags, watcher, view, query, tasks>>

-----------------------------------------------------------------------------
(* Reading the repository *)

Smaller(m, n) == IF m < n THEN m ELSE n
Larger(m, n)  == IF m < n THEN n ELSE m

FirstBatch == Smaller(FirstBatchSize, CommitLimit)

FirstOf(log, n) == SubSeq(log, 1, Smaller(n, Len(log)))

\* One gather: the snapshot and the first `limit` commits, with the probe
\* commit that tells whether there are more.
Gather(f, limit) ==
    [git |-> git.version, tree |-> tree,
     commits |-> FirstOf(git.log[f], limit), more |-> Len(git.log[f]) > limit]

NoCursor   == 0
NoSnapshot == [git |-> 0, tree |-> 0, commits |-> <<>>, more |-> FALSE]
NoPage     == [ok |-> FALSE, page |-> <<>>, more |-> FALSE, anchored |-> FALSE]

CursorOf(list) == IF list = <<>> THEN NoCursor ELSE list[Len(list)]

\* Mutant of PageStart: page by count, as a plain --skip would.
SkipLoaded(window, loaded, cursor) == Smaller(loaded, Len(window))

\* How much of the window the list holds already: up to the cursor, or as many
\* commits as were loaded when the window does not hold the cursor.
PageStart(window, loaded, cursor) ==
    CASE cursor = NoCursor -> 0
      [] cursor # NoCursor /\ cursor \in Range(window) ->
           CHOOSE i \in DOMAIN window : window[i] = cursor
      [] OTHER -> Smaller(loaded, Len(window))

\* The page after the cursor, from a window just large enough to hold what was
\* loaded, the page and a probe commit.  `anchored` is for the properties alone:
\* whether the window did hold the cursor.
PageAfter(log, loaded, cursor, limit) ==
    LET window == FirstOf(log, loaded + limit + 1)
        rest   == SubSeq(window, PageStart(window, loaded, cursor) + 1, Len(window))
    IN  [ok |-> TRUE, page |-> FirstOf(rest, limit), more |-> Len(rest) > limit,
         anchored |-> cursor # NoCursor /\ cursor \in Range(window)]

\* Mutant of NewTo: append the page as it came.
WholePage(list, page) == page

\* What a page adds to the list: the commits the list does not hold yet, in
\* order (SelectSeq, spelled out by position so that it can be reasoned about).
NewTo(list, page) ==
    LET fresh  == {i \in DOMAIN page : page[i] \notin Range(list)}
        Nth(k) == CHOOSE i \in fresh : Cardinality({j \in fresh : j <= i}) = k
    IN  [k \in 1..Cardinality(fresh) |-> page[Nth(k)]]

-----------------------------------------------------------------------------
(* Writing into the project, on the UI thread *)

ApplyRefreshData(data) ==
    /\ commits' = data.commits
    /\ hasMore' = data.more
    /\ shown' = [git |-> data.git, tree |-> data.tree]
    /\ refreshGen' = refreshGen + 1

AppendPage(result) ==
    /\ commits' = commits \o NewTo(commits, result.page)
    /\ hasMore' = result.more
    /\ UNCHANGED <<shown, refreshGen>>

\* The bound of the model: every event of the environment is paid for, by its
\* kind and out of a total.
Spend(kind) ==
    /\ budget[kind] > 0 /\ budget["total"] > 0
    /\ budget' = [budget EXCEPT ![kind] = @ - 1, !["total"] = @ - 1]

-----------------------------------------------------------------------------
(* The repository changes, under the hands of the user or of an operation *)

InFilter(c, f) == f = "all" \/ c \in Mine

NextVersion(kind) == git.version + (IF kind = "fetch" THEN FetchSize ELSE 1)

\* The commits an edit puts on top of the log, newest first.
NewCommits(kind, f) ==
    CASE kind \in {"commit", "amend"} /\ InFilter(git.version + 1, f) -> <<git.version + 1>>
      [] kind = "fetch" /\ f = "all" -> [i \in 1..FetchSize |-> NextVersion(kind) + 1 - i]
      [] OTHER -> <<>>

\* A commit or a fetch extends the log, a reset drops its newest commit, an amend
\* replaces it; staging only rewrites the index.
EditedLog(kind) ==
    LET Drops(f) == /\ kind \in {"amend", "reset"}
                    /\ git.log[f] # <<>>
                    /\ Head(git.log[f]) = Head(git.log["all"])
        Kept(f)  == IF Drops(f) THEN Tail(git.log[f]) ELSE git.log[f]
    IN  [f \in Filter |-> NewCommits(kind, f) \o Kept(f)]

\* The notify callback sets the flag; where it is unreliable (network mounts)
\* the fallback scan is there for the changes it misses.
EditGit(kind) ==
    /\ kind \in {"amend", "reset"} => git.log["all"] # <<>>
    /\ git' = [version |-> NextVersion(kind), log |-> EditedLog(kind)]
    /\ gitDirty' \in IF NotifyMisses THEN {gitDirty, TRUE} ELSE {TRUE}
    /\ UNCHANGED <<tree, dirty, fingerprint>>

ExternalGitEdit(kind) ==
    /\ Spend("edit")
    /\ EditGit(kind)
    /\ UNCHANGED <<watcher, view, query, tasks>>

ExternalTreeEdit ==
    /\ Spend("tree")
    /\ tree' = tree + 1
    /\ dirty' = TRUE
    /\ UNCHANGED <<git, gitDirty, fingerprint, watcher, view, query, tasks>>

-----------------------------------------------------------------------------
(* The watcher's poll loop *)

SleepingWatcher ==
    [pc |-> "sleep", filter |-> "all", limit |-> CommitLimit, gen |-> 0,
     snap |-> NoSnapshot]

\* Mutant of EffectiveLimit: refetch only what is loaded.
LoadedOnly == Len(commits)

\* A watcher refresh asks for at least what the list holds, so that it does not
\* cut off what the user paged in.
EffectiveLimit == Larger(Len(commits), CommitLimit)

\* Mutant of WatcherIsStale: the watcher does not look at the generation.
NeverStale == FALSE

\* A snapshot was applied since the watcher's tick.
WatcherIsStale == watcher.gen # refreshGen

\* A tick reads what the project shows and then swaps the dirty flags, with no
\* await in between.  `fallback` is FINGERPRINT_FALLBACK having elapsed or the
\* watched set having changed.
WatcherTick(fallback) ==
    /\ watcher.pc = "sleep"
    /\ LET scan == gitDirty \/ fallback
       IN  /\ scan \/ dirty
           /\ gitDirty' = FALSE
           /\ dirty' = (dirty /\ scan)
           /\ watcher' = [pc |-> IF scan THEN "scan" ELSE "gather",
                          filter |-> filter,
                          limit |-> EffectiveLimit,
                          gen |-> refreshGen,
                          snap |-> NoSnapshot]
    /\ UNCHANGED <<repo, budget, fingerprint, view, query, tasks>>

WatcherScan ==
    /\ watcher.pc = "scan"
    /\ fingerprint' = git.version
    /\ dirty' = FALSE
    /\ watcher' = IF dirty \/ fingerprint # git.version
                  THEN [watcher EXCEPT !.pc = "gather"]
                  ELSE SleepingWatcher
    /\ UNCHANGED <<repo, budget, gitDirty, view, query, tasks>>

\* After the debounce.  A failed gather goes back to sleep.
WatcherGather ==
    /\ watcher.pc = "gather"
    /\ \/ /\ watcher' = [watcher EXCEPT !.pc = "apply",
                                        !.snap = Gather(watcher.filter, watcher.limit)]
          /\ UNCHANGED budget
       \/ /\ Spend("watchError")
          /\ watcher' = SleepingWatcher
    /\ UNCHANGED <<repo, flags, view, query, tasks>>

WatcherApply ==
    /\ watcher.pc = "apply"
    /\ ~WatcherIsStale
    /\ ApplyRefreshData(watcher.snap)
    /\ watcher' = SleepingWatcher
    /\ UNCHANGED <<repo, budget, flags, query, tasks>>

\* Mutant of WatcherDropStale: the dropped result does not re-arm the flag.
WatcherForgetsStale ==
    /\ watcher.pc = "apply"
    /\ WatcherIsStale
    /\ watcher' = SleepingWatcher
    /\ UNCHANGED <<repo, budget, flags, view, query, tasks>>

WatcherDropStale ==
    /\ watcher.pc = "apply"
    /\ WatcherIsStale
    /\ dirty' = TRUE
    /\ watcher' = SleepingWatcher
    /\ UNCHANGED <<repo, budget, gitDirty, fingerprint, view, query, tasks>>

-----------------------------------------------------------------------------
(* Paging the log *)

IdlePager ==
    [pc |-> "idle", query |-> 0, filter |-> "all", loaded |-> 0,
     cursor |-> NoCursor, result |-> NoPage]

PageRequest(gen, f, list) ==
    [pc |-> "fetch", query |-> gen, filter |-> f, loaded |-> Len(list),
     cursor |-> CursorOf(list), result |-> NoPage]

LoadMore(p) ==
    /\ pager[p].pc = "idle"
    /\ ~inFlight /\ hasMore
    /\ inFlight' = TRUE
    /\ pager' = [pager EXCEPT ![p] = PageRequest(queryGen, filter, commits)]
    /\ UNCHANGED <<repo, budget, flags, watcher, view, filter, queryGen, op, refresher>>

\* Mutant of SupersedeQuery: queries in flight stay valid.
KeepQuery == UNCHANGED queryGen

\* What was asked before this no longer counts.
SupersedeQuery == queryGen' = queryGen + 1

\* ToggleMyCommits: set_commit_author_filter, then the first page of the new
\* list in the same update.
ToggleMyCommits(p) ==
    /\ pager[p].pc = "idle"
    /\ Spend("toggle")
    /\ filter' = IF filter = "all" THEN "mine" ELSE "all"
    /\ SupersedeQuery
    /\ commits' = <<>>
    /\ hasMore' = TRUE
    /\ inFlight' = TRUE
    /\ pager' = [pager EXCEPT ![p] = PageRequest(queryGen', filter', <<>>)]
    /\ UNCHANGED <<repo, flags, watcher, shown, refreshGen, op, refresher>>

FetchPage(p) ==
    /\ pager[p].pc = "fetch"
    /\ \/ /\ pager' = [pager EXCEPT ![p].pc = "apply",
                          ![p].result = PageAfter(git.log[pager[p].filter],
                              pager[p].loaded, pager[p].cursor, CommitLimit)]
          /\ UNCHANGED budget
       \/ /\ Spend("error")
          /\ pager' = [pager EXCEPT ![p].pc = "apply"]
    /\ UNCHANGED <<repo, flags, watcher, view, query, op, refresher>>

\* Mutant of ApplyPage: the error returns before the flag is cleared.
ApplyPageOrFail(p) ==
    /\ pager[p].pc = "apply"
    /\ pager[p].query = queryGen
    /\ IF pager[p].result.ok THEN AppendPage(pager[p].result) /\ inFlight' = FALSE
       ELSE UNCHANGED <<view, inFlight>>
    /\ pager' = [pager EXCEPT ![p] = IdlePager]
    /\ UNCHANGED <<repo, budget, flags, watcher, filter, queryGen, op, refresher>>

ApplyPage(p) ==
    /\ pager[p].pc = "apply"
    /\ pager[p].query = queryGen
    /\ inFlight' = FALSE
    /\ IF pager[p].result.ok THEN AppendPage(pager[p].result) ELSE UNCHANGED view
    /\ pager' = [pager EXCEPT ![p] = IdlePager]
    /\ UNCHANGED <<repo, budget, flags, watcher, filter, queryGen, op, refresher>>

\* Mutant of DropPage: the flag is cleared before the generation is compared.
DropPageAndFlag(p) ==
    /\ pager[p].pc = "apply"
    /\ pager[p].query # queryGen
    /\ inFlight' = FALSE
    /\ pager' = [pager EXCEPT ![p] = IdlePager]
    /\ UNCHANGED <<repo, budget, flags, watcher, view, filter, queryGen, op, refresher>>

DropPage(p) ==
    /\ pager[p].pc = "apply"
    /\ pager[p].query # queryGen
    /\ pager' = [pager EXCEPT ![p] = IdlePager]
    /\ UNCHANGED <<repo, budget, flags, watcher, view, query, op, refresher>>

-----------------------------------------------------------------------------
(* refresh(): a first batch, then the rest of the first commit_limit commits *)

IdleRefresher ==
    [pc |-> "idle", query |-> 0, filter |-> "all", snap |-> NoSnapshot,
     loaded |-> 0, cursor |-> NoCursor, result |-> NoPage]

StartRefresh(r) ==
    /\ refresher[r].pc = "idle"
    /\ Spend("refresh")
    /\ SupersedeQuery
    /\ inFlight' = FALSE
    /\ refresher' = [refresher EXCEPT ![r] = [IdleRefresher EXCEPT
                        !.pc = "gather", !.query = queryGen', !.filter = filter]]
    /\ UNCHANGED <<repo, flags, watcher, view, filter, op, pager>>

\* A failed gather ends the task and leaves the project as it was.
GatherRefresh(r) ==
    /\ refresher[r].pc = "gather"
    /\ \/ /\ refresher' = [refresher EXCEPT ![r].pc = "apply",
                              ![r].snap = Gather(refresher[r].filter, FirstBatch)]
          /\ UNCHANGED budget
       \/ /\ Spend("error")
          /\ refresher' = [refresher EXCEPT ![r] = IdleRefresher]
    /\ UNCHANGED <<repo, flags, watcher, view, query, op, pager>>

\* Phase 1 lands, unless a newer query superseded it; whether or not it did,
\* phase 2 starts from the end of whatever list the project now holds.
ApplyRefresh(r) ==
    /\ refresher[r].pc = "apply"
    /\ IF refresher[r].query = queryGen
       THEN ApplyRefreshData(refresher[r].snap) ELSE UNCHANGED view
    /\ refresher' = [refresher EXCEPT ![r] =
         IF refresher[r].snap.more /\ FirstBatch < CommitLimit
         THEN [@ EXCEPT !.pc = "fetch", !.snap = NoSnapshot,
                        !.loaded = Len(commits'), !.cursor = CursorOf(commits')]
         ELSE IdleRefresher]
    /\ UNCHANGED <<repo, budget, flags, watcher, query, op, pager>>

FetchRest(r) ==
    /\ refresher[r].pc = "fetch"
    /\ \/ /\ refresher' = [refresher EXCEPT ![r].pc = "append",
                 ![r].result = PageAfter(git.log[refresher[r].filter],
                     refresher[r].loaded, refresher[r].cursor, CommitLimit - FirstBatch)]
          /\ UNCHANGED budget
       \/ /\ Spend("error")
          /\ refresher' = [refresher EXCEPT ![r] = IdleRefresher]
    /\ UNCHANGED <<repo, flags, watcher, view, query, op, pager>>

ApplyRest(r) ==
    /\ refresher[r].pc = "append"
    /\ IF refresher[r].query = queryGen
       THEN AppendPage(refresher[r].result) ELSE UNCHANGED view
    /\ refresher' = [refresher EXCEPT ![r] = IdleRefresher]
    /\ UNCHANGED <<repo, budget, flags, watcher, query, op, pager>>

-----------------------------------------------------------------------------
(* Git operations *)

IdleOp == [pc |-> "idle", kind |-> "index", filter |-> "all", snap |-> NoSnapshot]

\* Staging refreshes under the author filter the project has now
\* (gather_refresh_data_lightweight_cached); every operation that moves a ref
\* refreshes with gather_refresh_data, which takes no filter.
RefreshFilter(kind) == IF kind = "index" THEN filter ELSE "all"

StartOp(o, kind) ==
    /\ op[o].pc = "idle"
    /\ Spend("op")
    /\ op' = [op EXCEPT ![o] = [pc |-> "mutate", kind |-> kind,
                                filter |-> RefreshFilter(kind), snap |-> NoSnapshot]]
    /\ UNCHANGED <<repo, flags, watcher, view, query, refresher, pager>>

FailOp(o) ==
    /\ op[o].pc \in {"mutate", "gather"}
    /\ Spend("error")
    /\ op' = [op EXCEPT ![o] = IdleOp]
    /\ UNCHANGED <<repo, flags, watcher, view, query, refresher, pager>>

MutateOp(o) ==
    /\ op[o].pc = "mutate"
    /\ EditGit(op[o].kind)
    /\ op' = [op EXCEPT ![o].pc = "gather"]
    /\ UNCHANGED <<budget, watcher, view, query, refresher, pager>>

GatherOp(o) ==
    /\ op[o].pc = "gather"
    /\ op' = [op EXCEPT ![o].pc = "apply", ![o].snap = Gather(op[o].filter, CommitLimit)]
    /\ UNCHANGED <<repo, budget, flags, watcher, view, query, refresher, pager>>

ApplyOp(o) ==
    /\ op[o].pc = "apply"
    /\ ApplyRefreshData(op[o].snap)
    /\ op' = [op EXCEPT ![o] = IdleOp]
    /\ UNCHANGED <<repo, budget, flags, watcher, query, refresher, pager>>

-----------------------------------------------------------------------------
(* GitProject::open: the commits come from the history cache when it has an
   entry for these refs, and the watcher starts. *)
Init ==
    /\ git = [version |-> InitialVersion, log |-> InitialLog]
    /\ tree = 1
    /\ budget = Budget
    /\ gitDirty = FALSE /\ dirty = FALSE /\ fingerprint = InitialVersion
    /\ watcher = SleepingWatcher
    /\ \/ commits = <<>> /\ hasMore = FALSE
       \/ /\ commits = FirstOf(InitialLog["all"], FirstBatch)
          /\ hasMore = (Len(InitialLog["all"]) > FirstBatch)
    /\ shown = [git |-> 0, tree |-> 0]
    /\ refreshGen = 0
    /\ filter = "all" /\ queryGen = 0 /\ inFlight = FALSE
    /\ op = [o \in Ops |-> IdleOp]
    /\ refresher = [r \in Refreshers |-> IdleRefresher]
    /\ pager = [p \in Pagers |-> IdlePager]

WatcherStep ==
    \/ \E fallback \in BOOLEAN : WatcherTick(fallback)
    \/ WatcherScan
    \/ WatcherGather
    \/ WatcherApply
    \/ WatcherDropStale

PagerStep(p) == FetchPage(p) \/ ApplyPage(p) \/ DropPage(p)
RefresherStep(r) == GatherRefresh(r) \/ ApplyRefresh(r) \/ FetchRest(r) \/ ApplyRest(r)
OpStep(o) == FailOp(o) \/ MutateOp(o) \/ GatherOp(o) \/ ApplyOp(o)

Next ==
    \/ \E kind \in EditKinds : ExternalGitEdit(kind)
    \/ ExternalTreeEdit
    \/ WatcherStep
    \/ \E p \in Pagers : LoadMore(p) \/ ToggleMyCommits(p) \/ PagerStep(p)
    \/ \E r \in Refreshers : StartRefresh(r) \/ RefresherStep(r)
    \/ \E o \in Ops : (\E kind \in OpKinds : StartOp(o, kind)) \/ OpStep(o)

\* Spawned tasks and the poll loop run until they finish; nobody makes another
\* program edit the repository, or the user scroll or press a key.
Fairness ==
    /\ WF_vars(WatcherStep)
    /\ \A p \in Pagers : WF_vars(PagerStep(p))
    /\ \A r \in Refreshers : WF_vars(RefresherStep(r))
    /\ \A o \in Ops : WF_vars(OpStep(o))

Spec == Init /\ [][Next]_vars
FairSpec == Spec /\ Fairness

-----------------------------------------------------------------------------
(* Properties *)

SnapshotType == [git : Nat, tree : Nat, commits : Seq(Nat), more : BOOLEAN]
PageType == [ok : BOOLEAN, page : Seq(Nat), more : BOOLEAN, anchored : BOOLEAN]

\* The values of the model, and one bound the code promises with them: a
\* watcher refresh asks for no fewer than commit_limit commits.
TypeOK ==
    /\ git \in [version : Nat, log : [Filter -> Seq(Nat)]]
    /\ tree \in Nat
    /\ budget \in [BudgetKind -> Nat]
    /\ gitDirty \in BOOLEAN /\ dirty \in BOOLEAN /\ fingerprint \in Nat
    /\ watcher \in [pc : {"sleep", "scan", "gather", "apply"}, filter : Filter,
                    limit : Nat, gen : Nat, snap : SnapshotType]
    /\ watcher.limit >= CommitLimit
    /\ commits \in Seq(Nat) /\ hasMore \in BOOLEAN
    /\ shown \in [git : Nat, tree : Nat] /\ refreshGen \in Nat
    /\ filter \in Filter /\ queryGen \in Nat /\ inFlight \in BOOLEAN
    /\ op \in [Ops -> [pc : {"idle", "mutate", "gather", "apply"}, kind : GitEdit,
                       filter : Filter, snap : SnapshotType]]
    /\ refresher \in [Refreshers ->
            [pc : {"idle", "gather", "apply", "fetch", "append"}, query : Nat,
             filter : Filter, snap : SnapshotType, loaded : Nat, cursor : Nat,
             result : PageType]]
    /\ pager \in [Pagers ->
            [pc : {"idle", "fetch", "apply"}, query : Nat, filter : Filter,
             loaded : Nat, cursor : Nat, result : PageType]]

\* A page request the project still waits for, and a refresh not superseded.
LivePager(p) == pager[p].pc # "idle" /\ pager[p].query = queryGen
LiveRefresher(r) == refresher[r].pc # "idle" /\ refresher[r].query = queryGen

\* load_more_in_flight is set exactly while one page request of the current
\* query is on its way: a superseded request can neither hold the flag, which
\* would end paging for good, nor be joined by a duplicate.
PagingFlagExact ==
    /\ inFlight <=> \E p \in Pagers : LivePager(p)
    /\ \A p, q \in Pagers : LivePager(p) /\ LivePager(q) => p = q

\* "Async commit results captured under an older generation must not be
\* applied" is enough for what it is for: whatever query may still land in the
\* list was asked under the author filter the user has now.
LiveQueriesMatchFilter ==
    /\ \A p \in Pagers : LivePager(p) => pager[p].filter = filter
    /\ \A r \in Refreshers : LiveRefresher(r) => refresher[r].filter = filter

\* No commit has two rows, however refreshes, pages and phase 2 interleave.
NoDuplicates == \A i, j \in DOMAIN commits : commits[i] = commits[j] => i = j

\* The watcher never replaces a snapshot by one of an older repository, whatever
\* full refresh lands while its own gather is in flight.
WatcherNeverGoesBack ==
    [][watcher.pc = "apply" /\ watcher'.pc = "sleep" =>
          shown'.git >= shown.git /\ shown'.tree >= shown.tree]_vars

\* The commits the list shows are consecutive in the log.
Whole(list, log) ==
    LET at == {i \in DOMAIN log : log[i] \in Range(list)}
    IN  \A i, j \in at : i..j \subseteq at

\* A page lands on the list it was requested for, which is whole and whose last
\* commit is still in the log.
LandsOnItsList(p) ==
    /\ LivePager(p) /\ pager[p].pc = "apply" /\ pager[p].result.ok
    /\ pager'[p].pc = "idle"
    /\ pager[p].cursor = CursorOf(commits)
    /\ pager[p].cursor \in Range(git.log[filter])
    /\ Whole(commits, git.log[filter])

\* "A concurrent ref change between the initial load and this call cannot shift
\* the page boundary and skip (or duplicate) a commit the way --skip would"
\* (refresh.rs:1279): such a page leaves no gap in the list if git log found the
\* cursor, whatever was committed, fetched, amended or reset between the request,
\* the git log and the append.  Where more than a page and a probe commit are new,
\* the cursor is outside what git log was asked for and the code counts instead
\* (refresh.rs:1362), past commits the list does not have.
PageContinuesList ==
    [][\A p \in Pagers : LandsOnItsList(p) /\ pager[p].result.anchored
                          => Whole(commits', git.log[filter])]_vars

\* Whatever happens to it, a page request gives the flag back, so that the user
\* can page on: a failed git log included.
PagingEnds == inFlight ~> ~inFlight

\* A task that is about to put an older snapshot over a newer one: an operation
\* and refresh() do not look at refresh_generation.
ClobberPending ==
    LET Older(snap) == snap.git < shown.git \/ snap.tree < shown.tree
    IN  \/ \E o \in Ops : op[o].pc = "apply" /\ Older(op[o].snap)
        \/ \E r \in Refreshers : refresher[r].pc = "apply" /\ Older(refresher[r].snap)

UpToDate == shown = [git |-> git.version, tree |-> tree]

\* Once something has been shown, every edit of the repository reaches the
\* screen: events missed by notify, snapshots dropped as stale and operations
\* that fail after they changed the repository included.  Behaviours in which a
\* late operation or refresh() overwrites a newer snapshot are excluded.
EditsReachTheView ==
    [](~ClobberPending) => <>[](refreshGen > 0 => UpToDate)
=============================================================================
