------------------------------ MODULE DiffPane ------------------------------
(***************************************************************************)
(* The diff pane of one tab: the diff viewer (crates/rgitui_diff), the     *)
(* detail panel beside it, the handlers of crates/rgitui_workspace/src/    *)
(* workspace/events.rs that fill both, and the scheduler that computes     *)
(* commit diffs ahead of the cursor.                                       *)
(*                                                                         *)
(* Handlers run on one thread.  Reading git and laying out rows happen in  *)
(* the background, so a request takes three steps, and between them the    *)
(* user selects other things, files change, and the theme changes.  What a *)
(* request delivers is fenced by a generation counter of the viewer; rows  *)
(* are fenced by another.                                                  *)
(*                                                                         *)
(* A thing to show is a file of the working tree, a commit or a stash      *)
(* entry.  A diff says whose it claims to be (`of`) and what was read      *)
(* (`body`): the version of a file, 0 when nothing is left to show, or the *)
(* commit or stash entry itself.                                           *)
(***************************************************************************)
EXTENDS FiniteSets, LruCache

CONSTANTS
    File,            \* files with changes, each on its side of the index
    Conflicted,      \* those that are in conflict to begin with
    History,         \* recent_commits, newest first
    EmptyCommit,     \* commits that change no file
    InitialStashes,  \* the stash list
    RowCount,        \* how many rows the diff of a thing takes
    InitialTheme,
    None,
    PrefetchWindow, BatchSize, MaxPending,  \* of the scheduler
    CacheCapacity,                          \* of the commit diffs
    DisplayEntries, DisplayRows,            \* of the viewer's rows
    Budget           \* how often each event from outside may happen

Commit == ToSet(History)
Stash  == ToSet(InitialStashes)
Thing  == File \cup Commit \cup Stash
Diff   == [of : Thing, body : Nat \cup Commit \cup Stash]
Theme  == {"dark", "light"}
BudgetKind == {"select", "edit", "drop", "theme", "choose", "failure", "total"}

ASSUME DiffPaneAssumption ==
    /\ Conflicted \subseteq File
    /\ History \in Seq(Commit) /\ InitialStashes \in Seq(Stash)
    /\ IsInjective(History) /\ IsInjective(InitialStashes)
    /\ EmptyCommit \subseteq Commit /\ InitialTheme \in Theme
    /\ RowCount \in [Thing -> Nat \ {0}]
    /\ File \cap Commit = {} /\ File \cap Stash = {} /\ Commit \cap Stash = {}
    /\ None \notin Thing \cup Nat \cup Diff
    /\ {PrefetchWindow, BatchSize, MaxPending, CacheCapacity, DisplayEntries, DisplayRows}
           \subseteq Nat \ {0}
    /\ Budget \in [BudgetKind -> Nat]

VARIABLES
    tree, conflicts, stashes,  \* the repository
    changed,                   \* it changed since the last event of the project
    theme, budget,
    known,          \* conflicts and stashes in the project's snapshot
    prewarmed,      \* has_prewarmed
    viewer,         \* DiffViewer
    displayCache,   \* DisplayCache
    preparing,      \* row preparations in flight
    detail,         \* the diff of a commit or stash entry in the detail panel
    requests,       \* reads in flight
    commitCache,    \* the commit diffs held
    prefetch,       \* DiffPrefetchState
    selected        \* history variable: what the user asked for last

repository == <<tree, conflicts, stashes>>
pane       == <<viewer, displayCache, preparing>>
ahead      == <<commitCache, prefetch>>
vars == <<repository, changed, theme, budget, known, prewarmed, pane, detail, requests,
          ahead, selected>>

-----------------------------------------------------------------------------
(* Diffs and rows *)

DiffOf(of, body) == [of |-> of, body |-> body]
Key(diff, look)  == [diff |-> diff, theme |-> look]

RowCost(key) == RowCount[key.diff.of]

RowsOf(keys) ==
    LET rows[n \in 0..Len(keys)] == IF n = 0 THEN 0 ELSE rows[n - 1] + RowCost(keys[n])
    IN  rows[Len(keys)]

NothingCached == [entries |-> {}, recency |-> <<>>, rows |-> 0]

\* Evicts from the front until the new key fits.
MakeRoom(cache, cost) ==
    LET fits == {i \in 0..Len(cache.recency) :
                    /\ Len(cache.recency) - i < DisplayEntries
                    /\ cache.rows - RowsOf(SubSeq(cache.recency, 1, i)) + cost <= DisplayRows}
        n    == CHOOSE i \in fits : \A j \in fits : i <= j
        out  == SubSeq(cache.recency, 1, n)
    IN  [entries |-> cache.entries \ ToSet(out),
         recency |-> SubSeq(cache.recency, n + 1, Len(cache.recency)),
         rows    |-> cache.rows - RowsOf(out)]

Forget(cache, key) ==
    [entries |-> cache.entries \ {key},
     recency |-> Without(cache.recency, key),
     rows    |-> cache.rows - (IF key \in cache.entries THEN RowCost(key) ELSE 0)]

\* Mutant of Cached: rows larger than the whole budget are kept too.
CachedWhatever(cache, key) ==
    LET left == Forget(cache, key)
        room == IF RowCost(key) > DisplayRows THEN NothingCached ELSE MakeRoom(left, RowCost(key))
    IN  [entries |-> room.entries \cup {key},
         recency |-> Append(room.recency, key),
         rows    |-> room.rows + RowCost(key)]

\* Rows larger than the whole budget are shown and not kept.
Cached(cache, key) ==
    LET left == Forget(cache, key)
        room == MakeRoom(left, RowCost(key))
    IN  IF RowCost(key) > DisplayRows THEN left
        ELSE [entries |-> room.entries \cup {key},
              recency |-> Append(room.recency, key),
              rows    |-> room.rows + RowCost(key)]

-----------------------------------------------------------------------------
(* The viewer *)

Preparation(kind, diff, look, choice) ==
    [kind |-> kind, diff |-> diff, theme |-> look, choice |-> choice,
     number |-> viewer.preparation + 1]

\* What every way to fill or empty the viewer resets, both generations included.
\* `target` stands for the path and the provenance of what is to be shown.
Reset(target, loading) ==
    [viewer EXCEPT !.generation = @ + 1, !.preparation = @ + 1, !.loading = loading,
                   !.failed = FALSE, !.target = target, !.diff = None, !.conflict = FALSE,
                   !.threeWay = None, !.choice = None, !.rows = None, !.threeRows = None]

SetDiff(diff) ==
    LET key == Key(diff, theme)
        hit == key \in displayCache.entries
        to  == [Reset(diff.of, ~hit) EXCEPT !.diff = diff, !.appearance = theme]
    IN  IF hit
        THEN /\ viewer' = [to EXCEPT !.rows = key]
             /\ displayCache' = [displayCache EXCEPT !.recency = Touch(@, key)]
             /\ UNCHANGED preparing
        ELSE /\ viewer' = to
             /\ preparing' = preparing \cup {Preparation("rows", diff, theme, None)}
             /\ UNCHANGED displayCache

Clear == viewer' = Reset(None, FALSE) /\ UNCHANGED <<displayCache, preparing>>

\* set_diff_loading with a file, begin_diff_request with None.
BeginLoading(target) ==
    viewer' = Reset(target, TRUE) /\ UNCHANGED <<displayCache, preparing>>

\* set_conflict_loading leaves the rows of the last ordinary diff where they are;
\* nothing draws them in this mode.
BeginConflict(file) ==
    /\ viewer' = [Reset(file, TRUE) EXCEPT !.conflict = TRUE, !.rows = viewer.rows]
    /\ UNCHANGED <<displayCache, preparing>>

SetThreeWay(diff) ==
    /\ viewer' = [Reset(diff.of, TRUE) EXCEPT !.conflict = TRUE, !.threeWay = diff,
                                              !.appearance = theme, !.rows = viewer.rows]
    /\ preparing' = preparing \cup {Preparation("threeWay", diff, theme, None)}
    /\ UNCHANGED displayCache

SetError ==
    /\ viewer' = [viewer EXCEPT !.preparation = @ + 1, !.loading = FALSE, !.failed = TRUE]
    /\ UNCHANGED <<displayCache, preparing>>

Spend(kind) ==
    /\ budget[kind] > 0 /\ budget["total"] > 0
    /\ budget' = [budget EXCEPT ![kind] = @ - 1, !["total"] = @ - 1]

\* A choice for the conflict keeps the last rows on screen while it is laid out.
ChooseSide(side) ==
    /\ viewer.threeWay # None /\ viewer.choice # side
    /\ Spend("choose")
    /\ viewer' = [viewer EXCEPT !.preparation = @ + 1, !.choice = side]
    /\ preparing' = preparing \cup {Preparation("threeWay", viewer.threeWay, theme, side)}
    /\ UNCHANGED <<repository, changed, theme, known, prewarmed, displayCache, detail,
                   requests, ahead, selected>>

\* Mutant of Rehighlight: a three-way preparation is invalidated as well.
RehighlightAll(look) ==
    LET to == [viewer EXCEPT !.appearance = look, !.preparation = @ + 1] IN
    IF look = viewer.appearance THEN UNCHANGED pane
    ELSE /\ displayCache' = NothingCached
         /\ viewer' = to
         /\ preparing' = IF viewer.diff = None THEN preparing
                         ELSE preparing \cup {Preparation("rows", viewer.diff, look, None)}

\* Three-way rows do not depend on the theme.
Rehighlight(look) ==
    LET to == [viewer EXCEPT !.appearance = look] IN
    IF look = viewer.appearance THEN UNCHANGED pane
    ELSE /\ displayCache' = NothingCached
         /\ IF viewer.threeWay # None THEN viewer' = to /\ UNCHANGED preparing
            ELSE /\ viewer' = [to EXCEPT !.preparation = @ + 1]
                 /\ preparing' = IF viewer.diff = None THEN preparing
                        ELSE preparing \cup {Preparation("rows", viewer.diff, look, None)}

ChangeTheme ==
    /\ Spend("theme")
    /\ \E look \in Theme \ {theme} : theme' = look /\ Rehighlight(look)
    /\ UNCHANGED <<repository, changed, known, prewarmed, detail, requests, ahead, selected>>

ShouldApplyPrepared(p) == p.number = viewer.preparation

RowsPrepared(p) ==
    /\ preparing' = preparing \ {p}
    /\ IF ~ShouldApplyPrepared(p) THEN UNCHANGED <<viewer, displayCache>>
       ELSE IF p.kind = "rows"
       THEN LET key == Key(p.diff, p.theme) IN
            /\ viewer' = [viewer EXCEPT !.rows = key, !.loading = FALSE]
            /\ displayCache' = Cached(displayCache, key)
       ELSE /\ viewer' = [viewer EXCEPT !.threeRows = [diff |-> p.diff, choice |-> p.choice],
                                        !.loading = FALSE]
            /\ UNCHANGED displayCache
    /\ UNCHANGED <<repository, changed, theme, budget, known, prewarmed, detail, requests,
                   ahead, selected>>

-----------------------------------------------------------------------------
(* The scheduler of speculative commit diffs *)

Idle == [pending |-> <<>>, scheduled |-> {}, running |-> FALSE, batch |-> <<>>]

\* Mutant of Reserve: a dropped commit stays scheduled.
ReserveForgetting(commits) ==
    LET wanted == Kept(commits, Commit \ ToSet(commitCache))
        queue  == prefetch.pending \o Kept(wanted, Commit \ prefetch.scheduled)
        excess == IF Len(queue) > MaxPending THEN Len(queue) - MaxPending ELSE 0
    IN  IF wanted = <<>> THEN prefetch
        ELSE [prefetch EXCEPT !.pending = SubSeq(queue, excess + 1, Len(queue)),
                              !.scheduled = @ \cup ToSet(wanted),
                              !.running = @ \/ queue # <<>>]

\* Queues the commits neither held nor scheduled, drops the oldest past the cap,
\* and starts the drain loop unless it runs.
Reserve(commits) ==
    LET wanted == Kept(commits, Commit \ ToSet(commitCache))
        queue  == prefetch.pending \o Kept(wanted, Commit \ prefetch.scheduled)
        excess == IF Len(queue) > MaxPending THEN Len(queue) - MaxPending ELSE 0
    IN  IF wanted = <<>> THEN prefetch
        ELSE [prefetch EXCEPT
                !.pending = SubSeq(queue, excess + 1, Len(queue)),
                !.scheduled = (@ \cup ToSet(wanted)) \ ToSet(SubSeq(queue, 1, excess)),
                !.running = @ \/ queue # <<>>]

\* The entries added last come first; the loop ends when there are none.
TakeBatch(state) ==
    LET rest == Len(state.pending) - BatchSize
        from == IF rest > 0 THEN rest ELSE 0
    IN  [state EXCEPT !.pending = SubSeq(@, 1, from),
                      !.batch = SubSeq(state.pending, from + 1, Len(state.pending)),
                      !.running = state.pending # <<>>]

StartPrefetch ==
    /\ prefetch.running /\ prefetch.batch = <<>>
    /\ prefetch' = TakeBatch(prefetch)
    /\ UNCHANGED <<repository, changed, theme, budget, known, prewarmed, pane, detail,
                   requests, commitCache, selected>>

\* A batch is computed concurrently, so its diffs arrive in any order; those that
\* failed are not kept.  The loop goes on to the next batch at once.
FinishBatch ==
    /\ prefetch.batch # <<>>
    /\ \/ UNCHANGED budget /\ \E order \in SetToSeqs(ToSet(prefetch.batch)) :
            commitCache' = InsertAll(commitCache, order, CacheCapacity)
       \/ Spend("failure") /\ UNCHANGED commitCache
    /\ prefetch' = TakeBatch([prefetch EXCEPT !.scheduled = @ \ ToSet(prefetch.batch)])
    /\ UNCHANGED <<repository, changed, theme, known, prewarmed, pane, detail, requests,
                   selected>>

\* The commits around one, the nearest first.
Neighbours(commit) ==
    LET n == CHOOSE i \in DOMAIN History : History[i] = commit
        places[d \in 0..PrefetchWindow] ==
            IF d = 0 THEN <<>>
            ELSE places[d - 1] \o Kept(<<n - d, n + d>>, DOMAIN History)
        near == places[PrefetchWindow]
    IN  [i \in DOMAIN near |-> History[near[i]]]

-----------------------------------------------------------------------------
(* Selecting something *)

\* `label` is the stash entry the result will be shown as, `index` where it is read.
Request(kind, of, label, index) ==
    [kind |-> kind, of |-> of, label |-> label, index |-> index,
     generation |-> viewer'.generation, stage |-> "reading", body |-> None]

\* A commit does not change, so it is no matter when it is read.
CommitRequest(kind, commit) ==
    [Request(kind, commit, None, 0) EXCEPT !.stage = "read", !.body = commit]

Ask(request) == requests' = requests \cup {request}

\* FileSelected in the sidebar empties the detail panel at once; a search result
\* that is opened leaves it until the diff is there.
SelectFile(file, kind) ==
    /\ kind = "file" => file \notin known.conflicts
    /\ Spend("select")
    /\ BeginLoading(file)
    /\ Ask(Request(kind, file, None, 0))
    /\ detail' = IF kind = "file" THEN None ELSE detail
    /\ selected' = file
    /\ UNCHANGED <<repository, changed, theme, known, prewarmed, ahead>>

SelectConflict(file) ==
    /\ file \in known.conflicts /\ Spend("select")
    /\ BeginConflict(file)
    /\ Ask(Request("conflict", file, None, 0))
    /\ detail' = None
    /\ selected' = file
    /\ UNCHANGED <<repository, changed, theme, known, prewarmed, ahead>>

\* The entry is named by its place in the stash list the sidebar shows.
SelectStash(i) ==
    /\ Spend("select")
    /\ BeginLoading(None)
    /\ Ask(Request("stash", None, known.stashes[i], i))
    /\ selected' = known.stashes[i]
    /\ UNCHANGED <<repository, changed, theme, known, prewarmed, detail, ahead>>

ShowCommit(commit) ==
    IF commit \in EmptyCommit THEN Clear ELSE SetDiff(DiffOf(commit, commit))

SelectCommit(commit) ==
    /\ Spend("select")
    /\ IF Holds(commitCache, commit)
       THEN /\ commitCache' = Lookup(commitCache, commit)
            /\ ShowCommit(commit)
            /\ Ask(CommitRequest("enrich", commit))
       ELSE /\ BeginLoading(None)
            /\ Ask(CommitRequest("commit", commit))
            /\ UNCHANGED commitCache
    /\ prefetch' = Reserve(Neighbours(commit))
    /\ selected' = commit
    /\ UNCHANGED <<repository, changed, theme, known, prewarmed, detail>>

\* A file in the detail panel: its diff came with the commit or stash entry.
SelectDetailFile ==
    /\ detail # None /\ detail.of \notin EmptyCommit /\ Spend("select")
    /\ SetDiff(detail)
    /\ selected' = detail.of
    /\ UNCHANGED <<repository, changed, theme, known, prewarmed, detail, requests, ahead>>

\* NavigatePrevCommit and NavigateNextCommit in the detail panel.
Navigate ==
    /\ detail # None /\ Spend("select")
    /\ \E i, j \in DOMAIN History :
        /\ History[i] = detail.of /\ (j = i + 1 \/ i = j + 1)
        /\ BeginLoading(None)
        /\ Ask(CommitRequest("navigate", History[j]))
        /\ selected' = History[j]
    /\ UNCHANGED <<repository, changed, theme, known, prewarmed, detail, ahead>>

-----------------------------------------------------------------------------
(* Reading in the background, and delivering *)

Reading(request) == request.stage = "reading"

Done(request, stage, body) ==
    requests' = (requests \ {request}) \cup {[request EXCEPT !.stage = stage, !.body = body]}

Read(request) ==
    /\ Reading(request)
    /\ LET of == request.of IN
       CASE request.kind \in {"file", "search", "refresh"} -> Done(request, "read", tree[of])
         [] request.kind = "conflict" /\ of \in conflicts -> Done(request, "read", tree[of])
         [] request.kind = "stash" /\ request.index <= Len(stashes) ->
                Done(request, "read", stashes[request.index])
         [] OTHER -> Done(request, "failed", None)
    /\ UNCHANGED <<repository, changed, theme, budget, known, prewarmed, pane, detail, ahead,
                   selected>>

\* enrich_commit_info may fail as well, and the commit is shown without it.
ReadFails(request) ==
    /\ Reading(request) \/ (request.kind \in {"commit", "navigate"} /\ request.stage = "read")
    /\ Spend("failure")
    /\ Done(request, "failed", None)
    /\ UNCHANGED <<repository, changed, theme, known, prewarmed, pane, detail, ahead, selected>>

\* Mutant of IsCurrent: a result is shown whatever was selected meanwhile.
AlwaysCurrent(request) == TRUE

IsCurrent(request) == viewer.generation = request.generation

Deliver(kinds) == {r \in requests : r.kind \in kinds /\ ~Reading(r)}

\* The change is gone, still the same, or another.
RefreshShown(request) ==
    LET diff == DiffOf(request.of, request.body) IN
    /\ IF request.body = 0 THEN Clear
       ELSE IF diff = viewer.diff THEN UNCHANGED pane ELSE SetDiff(diff)
    /\ detail' = None

\* A refresh that fails leaves the viewer as it is; every other request says so.
DeliverFile(request) ==
    /\ requests' = requests \ {request}
    /\ IF ~IsCurrent(request) \/ (request.stage = "failed" /\ request.kind = "refresh")
       THEN UNCHANGED <<pane, detail>>
       ELSE IF request.stage = "failed" THEN SetError /\ UNCHANGED detail
       ELSE IF request.kind = "refresh" THEN RefreshShown(request)
       ELSE /\ SetDiff(DiffOf(request.of, request.body))
            /\ detail' = IF request.kind = "search" THEN None ELSE detail
    /\ UNCHANGED <<repository, changed, theme, budget, known, prewarmed, ahead, selected>>

DeliverConflict(request) ==
    /\ requests' = requests \ {request}
    /\ IF ~IsCurrent(request) THEN UNCHANGED pane
       ELSE IF request.stage = "failed" THEN SetError
       ELSE SetThreeWay(DiffOf(request.of, request.body))
    /\ UNCHANGED <<repository, changed, theme, budget, known, prewarmed, detail, ahead, selected>>

DeliverStash(request) ==
    /\ requests' = requests \ {request}
    /\ IF ~IsCurrent(request) THEN UNCHANGED <<pane, detail>>
       ELSE IF request.stage = "failed" THEN SetError /\ UNCHANGED detail
       ELSE /\ SetDiff(DiffOf(request.label, request.body))
            /\ detail' = DiffOf(request.label, request.body)
    /\ UNCHANGED <<repository, changed, theme, budget, known, prewarmed, ahead, selected>>

\* A computed commit diff is kept even if it comes too late to be shown; the one
\* the detail panel's arrows ask for is not.
DeliverCommit(request) ==
    /\ requests' = requests \ {request}
    /\ commitCache' = IF request.kind = "commit" /\ request.stage = "read"
                      THEN Insert(commitCache, request.of, CacheCapacity) ELSE commitCache
    /\ IF ~IsCurrent(request) THEN UNCHANGED <<pane, detail>>
       ELSE IF request.stage = "failed" THEN SetError /\ UNCHANGED detail
       ELSE ShowCommit(request.of) /\ detail' = DiffOf(request.of, request.of)
    /\ UNCHANGED <<repository, changed, theme, budget, known, prewarmed, prefetch, selected>>

\* After a cache hit the diff is on screen and only the detail panel is missing.
DeliverEnriched(request) ==
    /\ requests' = requests \ {request}
    /\ detail' = IF IsCurrent(request) THEN DiffOf(request.of, request.of) ELSE detail
    /\ UNCHANGED <<repository, changed, theme, budget, known, prewarmed, pane, ahead, selected>>

-----------------------------------------------------------------------------
(* The repository changes, and the project says so *)

EditFile(file) ==
    /\ Spend("edit")
    /\ \E version \in {0, budget["edit"] + 1} : tree' = [tree EXCEPT ![file] = version]
    /\ conflicts' \in {conflicts, conflicts \ {file}}
    /\ changed' = TRUE
    /\ UNCHANGED <<stashes, theme, known, prewarmed, pane, detail, requests, ahead, selected>>

DropStash(i) ==
    /\ Spend("drop")
    /\ stashes' = RemoveAt(stashes, i)
    /\ changed' = TRUE
    /\ UNCHANGED <<tree, conflicts, theme, known, prewarmed, pane, detail, requests, ahead,
                   selected>>

\* A conflict view whose file is not in conflict any more.
ConflictGone == viewer.conflict /\ viewer.target \notin known'.conflicts

\* StatusChanged and its like: a resolved conflict is cleared away, and a diff of
\* the working tree, shown or being read, is read again at the generation it has.
ProjectEvent ==
    /\ changed /\ changed' = FALSE
    /\ known' = [conflicts |-> conflicts, stashes |-> stashes]
    /\ IF ConflictGone THEN Clear /\ UNCHANGED requests
       ELSE /\ UNCHANGED pane
            /\ IF viewer.target \in File /\ ~viewer.conflict
               THEN Ask(Request("refresh", viewer.target, None, 0))
               ELSE UNCHANGED requests
    /\ prewarmed' = TRUE
    /\ prefetch' = IF prewarmed THEN prefetch ELSE Reserve(History)
    /\ UNCHANGED <<repository, theme, budget, detail, commitCache, selected>>

-----------------------------------------------------------------------------
(* Specification *)

NewViewer ==
    [generation |-> 0, preparation |-> 0, loading |-> FALSE, failed |-> FALSE, target |-> None,
     diff |-> None, conflict |-> FALSE, threeWay |-> None, choice |-> None, rows |-> None,
     threeRows |-> None, appearance |-> "dark"]

Init ==
    /\ tree = [f \in File |-> 1] /\ conflicts = Conflicted /\ stashes = InitialStashes
    /\ changed = TRUE
    /\ theme = InitialTheme /\ budget = Budget
    /\ known = [conflicts |-> Conflicted, stashes |-> InitialStashes]
    /\ prewarmed = FALSE
    /\ viewer = NewViewer /\ displayCache = NothingCached /\ preparing = {}
    /\ detail = None /\ requests = {}
    /\ commitCache = <<>> /\ prefetch = Idle
    /\ selected = None

Select ==
    \/ \E f \in File : SelectFile(f, "file") \/ SelectFile(f, "search") \/ SelectConflict(f)
    \/ \E i \in DOMAIN known.stashes : SelectStash(i)
    \/ \E c \in Commit : SelectCommit(c)
    \/ SelectDetailFile
    \/ Navigate
    \/ \E side \in {"ours", "theirs", None} : ChooseSide(side)

Change ==
    \/ ChangeTheme
    \/ \E f \in File : EditFile(f)
    \/ \E i \in DOMAIN stashes : DropStash(i)
    \/ \E r \in requests : ReadFails(r)

DeliverResult ==
    \/ \E r \in Deliver({"file", "search", "refresh"}) : DeliverFile(r)
    \/ \E r \in Deliver({"conflict"}) : DeliverConflict(r)
    \/ \E r \in Deliver({"stash"}) : DeliverStash(r)
    \/ \E r \in Deliver({"commit", "navigate"}) : DeliverCommit(r)
    \/ \E r \in Deliver({"enrich"}) : DeliverEnriched(r)

Work ==
    \/ \E r \in requests : Read(r)
    \/ DeliverResult
    \/ \E p \in preparing : RowsPrepared(p)
    \/ StartPrefetch \/ FinishBatch
    \/ ProjectEvent

Next == Select \/ Change \/ Work

Spec == Init /\ [][Next]_vars

\* The executors run what was handed to them, and the watcher reports a change.
\* Nothing obliges the user, an editor or a failure.
FairSpec == Spec /\ WF_vars(Work)

-----------------------------------------------------------------------------
(* Properties *)

Rows == [diff : Diff, theme : Theme]

TypeOK ==
    /\ tree \in [File -> Nat] /\ conflicts \subseteq File /\ stashes \in Seq(Stash)
    /\ changed \in BOOLEAN /\ theme \in Theme /\ budget \in [BudgetKind -> Nat]
    /\ known \in [conflicts : SUBSET File, stashes : Seq(Stash)] /\ prewarmed \in BOOLEAN
    /\ viewer.generation \in Nat /\ viewer.preparation \in Nat
    /\ viewer.loading \in BOOLEAN /\ viewer.failed \in BOOLEAN /\ viewer.conflict \in BOOLEAN
    /\ viewer.target \in Thing \cup {None}
    /\ {viewer.diff, viewer.threeWay} \subseteq Diff \cup {None}
    /\ viewer.rows \in Rows \cup {None} /\ viewer.appearance \in Theme
    /\ viewer.diff # None => viewer.threeWay = None /\ ~viewer.conflict
    /\ viewer.failed => ~viewer.loading
    /\ displayCache.entries \subseteq Rows
    /\ detail \in Diff \cup {None} /\ selected \in Thing \cup {None}
    /\ commitCache \in Seq(Commit) /\ Len(commitCache) <= CacheCapacity
    /\ IsInjective(commitCache)

Current == {p \in preparing : p.number = viewer.preparation}

\* The rows are never another diff's, and once no preparation is under way they are laid
\* out for the theme and the choice in force.
RowsFollowDiff ==
    /\ viewer.diff # None =>
        /\ viewer.rows # None => viewer.rows.diff = viewer.diff
        /\ Current = {} => viewer.rows = Key(viewer.diff, theme)
    /\ viewer.threeWay # None /\ Current = {} =>
        viewer.threeRows = [diff |-> viewer.threeWay, choice |-> viewer.choice]

\* When nothing asked for is outstanding, the detail panel lists the commit or stash
\* entry whose diff is shown, and nothing beside a file of the working tree.
PanelAgrees ==
    viewer.diff # None /\ (\A r \in requests : r.generation # viewer.generation) =>
        IF viewer.diff.of \in File THEN detail = None
        ELSE detail # None /\ detail.of = viewer.diff.of

\* What is on screen is what the user asked for last: no request, no refresh and no
\* conflict that was loading when something else was selected can replace it, its rows
\* are its own, and the detail panel agrees.
ShownIsSelected ==
    /\ \A d \in {viewer.diff, viewer.threeWay} \ {None} : d.of = selected
    /\ RowsFollowDiff
    /\ PanelAgrees

\* The row cache stays within both bounds, its queue lists exactly its entries, and
\* its row count is theirs, whatever was cached, replaced, evicted or cleared.
DisplayCacheExact ==
    /\ IsInjective(displayCache.recency)
    /\ ToSet(displayCache.recency) = displayCache.entries
    /\ displayCache.rows = RowsOf(displayCache.recency)
    /\ Cardinality(displayCache.entries) <= DisplayEntries
    /\ displayCache.rows <= DisplayRows

\* The queue of speculative diffs is bounded, names no commit twice, a commit is
\* scheduled exactly as long as it is queued or being computed, and nothing waits
\* in a queue no loop drains.
PrefetchExact ==
    /\ IsInjective(prefetch.pending \o prefetch.batch)
    /\ prefetch.scheduled = ToSet(prefetch.pending \o prefetch.batch)
    /\ Len(prefetch.pending) <= MaxPending
    /\ ~prefetch.running => prefetch.scheduled = {}

Outlived == viewer.conflict /\ viewer.target \notin conflicts

\* The spinner goes away, and a conflict view does not outlive the conflict, whatever is
\* selected, edited, themed or fails meanwhile.
ViewSettles ==
    /\ viewer.loading ~> ~viewer.loading
    /\ Outlived ~> ~Outlived
=============================================================================
