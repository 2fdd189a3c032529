--------------------------- MODULE PartialStaging ---------------------------
(***************************************************************************)
(* Staging and unstaging hunks and lines of one file: what the diff viewer *)
(* asks for (stage_selection and hunks_under_selection of rgitui_diff), the *)
(* patch made for it and its way into the index (stage_hunk_at,            *)
(* stage_lines_at and their reverses in rgitui_git/src/project/diff.rs).   *)
(*                                                                         *)
(* The viewer numbers hunks and lines by the diff on screen; every request *)
(* is a task of its own with a repository of its own.  It loads the index  *)
(* and takes the diff again (Take), takes index.lock (Lock), and applies   *)
(* the patch to the index it loaded (Write): between these steps others    *)
(* write the index.                                                        *)
(***************************************************************************)
EXTENDS LineRewrite

CONSTANTS
    HeadFile,    \* the file in HEAD
    Worktrees,   \* what the user may make of it
    MaxRequests,
    MaxEdits,
    Nothing

ASSUME PartialStagingAssumption ==
    /\ HeadFile \in Seq(Nat) /\ Worktrees \subseteq Seq(Nat) /\ Worktrees # {}
    /\ MaxRequests \in Nat /\ MaxEdits \in Nat
    /\ Context > 0
    /\ Nothing \notin Seq(Nat)

VARIABLES
    work,      \* the file in the working tree
    index,     \* the file in the index
    shown,     \* the diff on screen: its sides and its hunks
    tasks,     \* requests under way
    requests, edits

vars == <<work, index, shown, tasks, requests, edits>>

Sides(staged) == IF staged THEN <<HeadFile, index>> ELSE <<index, work>>

Diff(staged) == LET sides == Sides(staged)
                IN  [staged |-> staged, from |-> sides[1], to |-> sides[2],
                     hunks |-> Hunks(sides[1], sides[2])]

-----------------------------------------------------------------------------
(* What the selection asks for *)

\* The rows of the unified view: a header, then the lines of each hunk.
DisplayRows(hunks) ==
    FlattenSeq([h \in DOMAIN hunks |-> <<[header |-> h]>> \o [i \in DOMAIN hunks[h] |->
                                            [header |-> 0, row |-> hunks[h][i]]]])

\* hunks_under_selection: a hunk counts from its header on.
HunksUnder(rows, first, last) ==
    {rows[i].header : i \in {j \in first..(last - 1) : rows[j].header # 0
                                                       /\ rows[j + 1].header = 0}}

LinesUnder(rows, first, last) ==
    {PairOf(rows[i].row) : i \in {j \in first..last : rows[j].header = 0
                                                      /\ ~IsContext(rows[j].row)}}

\* current_hunk_index: the hunk the cursor is in.
CurrentHunk(rows, i) == Max({rows[j].header : j \in 1..i})

\* The lines a request is about, when the viewer sends it.
Meant(pairs) ==
    {row.line : row \in {r \in UNION {ToSet(shown.hunks[h]) : h \in DOMAIN shown.hunks} :
                           ~IsContext(r) /\ PairOf(r) \in pairs}}

\* A request: what it is for, the diff it was made on, and, once it has taken its own, the
\* index it loaded, the other side of that diff, and its patch.
Task(hunk, pairs, lines) ==
    [staged |-> shown.staged, hunk |-> hunk, pairs |-> pairs, lines |-> lines,
     from |-> shown.from, to |-> shown.to, nth |-> requests,
     pc |-> "spawned", loaded |-> <<>>, other |-> <<>>, patch |-> <<>>]

HunkTask(h) == Task(h, {}, Meant(ChangesIn(shown.hunks, {h})))

\* One gesture of the user asks for some of these sets of requests.
Requests(asked) == /\ requests > 0 /\ requests' = requests - 1
                   /\ \E some \in asked \ {{}} : tasks' = tasks \cup some
                   /\ UNCHANGED <<work, index, shown, edits>>

\* stage_selection, unstage_selection: one request for every hunk.
StageHunks ==
    LET rows == DisplayRows(shown.hunks)
    IN  Requests({{HunkTask(h) : h \in HunksUnder(rows, first, last)} : first, last \in DOMAIN rows})

StageCurrentHunk ==
    LET rows == DisplayRows(shown.hunks)
    IN  Requests({{HunkTask(CurrentHunk(rows, i))} : i \in DOMAIN rows})

\* In partial mode the selected lines are one request.
StageLines ==
    LET rows == DisplayRows(shown.hunks)
    IN  Requests({{Task(0, pairs, Meant(pairs))} :
                    pairs \in {LinesUnder(rows, first, last) : first, last \in DOMAIN rows} \ {{}}})

-----------------------------------------------------------------------------
(* The patch, and the index *)

\* emitted_sign: unstaging turns the diff around.
Before(row, staged) == row.kind = "context" \/ row.kind = (IF staged THEN "addition" ELSE "deletion")

\* Mutant of After: the unchanged lines around a change are not written back.
AfterBare(row, staged) == row.kind = (IF staged THEN "deletion" ELSE "addition")

After(row, staged) == row.kind = "context" \/ row.kind = (IF staged THEN "deletion" ELSE "addition")

Lines(rows) == [i \in DOMAIN rows |-> rows[i].line]

\* The number in the header at which a hunk's new lines start: of the first line the patch has on
\* that side, or the hunk's own.  A hunk with no line on that side has no unchanged line, so it
\* is the whole file, and it starts at 0.
NewStart(rows, hunk, staged) ==
    LET written == SelectSeq(rows, LAMBDA r : After(r, staged))
                     \o SelectSeq(hunk, LAMBDA r : After(r, staged))
    IN  IF written = <<>> THEN 0
        ELSE IF staged THEN Head(written).old ELSE Head(written).new

PatchHunk(rows, hunk, staged) ==
    [start  |-> NewStart(rows, hunk, staged),
     before |-> Lines(SelectSeq(rows, LAMBDA r : Before(r, staged))),
     after  |-> Lines(SelectSeq(rows, LAMBDA r : After(r, staged)))]

\* Mutant of HunkPatch: the number is taken one too high.
NextHunkPatch(hunks, h, staged) ==
    IF h + 1 \in DOMAIN hunks THEN <<PatchHunk(hunks[h + 1], hunks[h + 1], staged)>> ELSE <<>>

\* generate_hunk_patch_for_repo: the hunk of that number now, at the place it has when the hunks
\* above it are applied too.
HunkPatch(hunks, h, staged) ==
    IF h \in DOMAIN hunks THEN <<PatchHunk(hunks[h], hunks[h], staged)>> ELSE <<>>

\* generate_line_patch_for_repo: the selected changes between the unchanged lines; a hunk with
\* none is left out.  Unselected changes are dropped on either side.
LinePatch(hunks, pairs, staged) ==
    LET selected == SelectedLines(pairs)
        Emitted(hunk) == SelectSeq(hunk, LAMBDA r : IsContext(r) \/ IsSelected(r, selected))
        touched == SelectSeq(hunks, LAMBDA h : \E r \in ToSet(h) : IsSelected(r, selected))
    IN  [h \in DOMAIN touched |-> PatchHunk(Emitted(touched[h]), touched[h], staged)]

\* libgit2 looks for the lines a hunk starts from at the place its header gives, in the file as
\* the hunks before it left it, and nowhere else.
Place(hunk) == IF hunk.start = 0 THEN 0 ELSE hunk.start - 1

FitsAt(file, hunk, i) == /\ i + Len(hunk.before) <= Len(file)
                         /\ SubSeq(file, i + 1, i + Len(hunk.before)) = hunk.before

ApplyHunk(file, hunk) ==
    LET i == Place(hunk)
    IN  IF file = Nothing THEN Nothing
        ELSE IF ~FitsAt(file, hunk, i) THEN Nothing
        ELSE SubSeq(file, 1, i) \o hunk.after \o SubSeq(file, i + Len(hunk.before) + 1, Len(file))

\* The index a request writes, or Nothing when a hunk of its patch does not fit.
Patched(t) == FoldLeft(ApplyHunk, t.loaded, t.patch)

Patch(t) == LET hunks == Diff(t.staged).hunks
            IN  IF t.hunk # 0 THEN HunkPatch(hunks, t.hunk, t.staged)
                ELSE LinePatch(hunks, t.pairs, t.staged)

\* The first half of stage_hunk_at, stage_lines_at, unstage_hunk_at and unstage_lines_at: the
\* repository is opened and the diff taken; without a patch the request fails.
Take(t) ==
    /\ t.pc = "spawned"
    /\ LET patch == Patch(t)
           sides == Sides(t.staged)
           taken == [t EXCEPT !.pc = "taken", !.loaded = index, !.patch = patch,
                              !.other = IF t.staged THEN sides[1] ELSE sides[2]]
       IN  tasks' = (tasks \ {t}) \cup (IF patch = <<>> THEN {} ELSE {taken})
    /\ UNCHANGED <<work, index, shown, requests, edits>>

\* repo.apply takes index.lock and does not load the index again; a request that finds the lock
\* taken fails.
Lock(t) ==
    /\ t.pc = "taken"
    /\ tasks' = (tasks \ {t}) \cup (IF \E other \in tasks : other.pc = "locked" THEN {}
                                   ELSE {[t EXCEPT !.pc = "locked"]})
    /\ UNCHANGED <<work, index, shown, requests, edits>>

\* The rest of repo.apply: a patch that does not fit leaves the index as it is.
Write(t) ==
    /\ t.pc = "locked"
    /\ tasks' = tasks \ {t}
    /\ LET patched == Patched(t) IN index' = IF patched = Nothing THEN index ELSE patched
    /\ UNCHANGED <<work, shown, requests, edits>>

-----------------------------------------------------------------------------
(* The viewer and the user *)

Show(staged) ==
    /\ <<shown.staged, shown.from, shown.to>> # <<staged>> \o Sides(staged)
    /\ shown' = Diff(staged)
    /\ UNCHANGED <<work, index, tasks, requests, edits>>

Edit(content) ==
    /\ edits > 0 /\ edits' = edits - 1
    /\ content # work
    /\ work' = content
    /\ UNCHANGED <<index, shown, tasks, requests>>

Init ==
    /\ work \in Worktrees
    /\ index = HeadFile
    /\ shown = Diff(FALSE)
    /\ tasks = {}
    /\ requests = MaxRequests /\ edits = MaxEdits

Next ==
    \/ StageHunks
    \/ StageCurrentHunk
    \/ StageLines
    \/ \E t \in tasks : Take(t) \/ Lock(t) \/ Write(t)
    \/ \E staged \in BOOLEAN : Show(staged)
    \/ \E content \in Worktrees : Edit(content)

Spec == Init /\ [][Next]_vars

-----------------------------------------------------------------------------
(* Properties *)

NoLineTwice(file) == \A i, j \in DOMAIN file : file[i] = file[j] => i = j

\* The request took the diff it was made on, and what it loaded is still the index.
Current(t) == /\ index = t.loaded
              /\ (IF t.staged THEN <<t.other, t.loaded>> ELSE <<t.loaded, t.other>>) = <<t.from, t.to>>

MeantRow(t, row) == ~IsContext(row) /\ row.line \in t.lines
OtherRow(t, row) == ~IsContext(row) /\ row.line \notin t.lines

Touched(t, hunk) == \E row \in ToSet(hunk) : MeantRow(t, row)

\* The patch leaves out no line that is in the index on that side.
Whole(t) ==
    \A hunk \in ToSet(Hunks(t.from, t.to)) :
        Touched(t, hunk) => \A row \in ToSet(hunk) : Before(row, t.staged) => ~OtherRow(t, row)

\* What is not asked for does not move what is: above a hunk with lines of the request, the other
\* changes remove as many lines as they add, and there are none in it before an unchanged line.
Aligned(t) ==
    LET hunks == Hunks(t.from, t.to)
        Others(h, kind) == {r \in ToSet(hunks[h]) : OtherRow(t, r) /\ r.kind = kind}
        Above(h, kind)  == UNION {Others(g, kind) : g \in 1..(h - 1)}
    IN  \A h \in DOMAIN hunks : Touched(t, hunks[h]) =>
            /\ Cardinality(Above(h, "addition")) = Cardinality(Above(h, "deletion"))
            /\ \A i \in DOMAIN hunks[h] :
                  OtherRow(t, hunks[h][i]) => \E j \in 1..i : IsContext(hunks[h][j])

\* The file of the index side with the lines meant staged, or unstaged.
Asked(t) ==
    RewriteSide(t.loaded, Hunks(t.from, t.to), IF t.staged THEN "revert" ELSE "apply",
                {PairOf(r) : r \in {row \in ToSet(DiffRows(t.from, t.to)) : MeantRow(t, row)}})

\* A request that meets the diff it was made on, and takes whole hunks on the side of the index,
\* puts into the index, or takes out of it, the lines meant and no others, in their places, or
\* is refused: two ways of patching, by hunk or by lines, and the rewrite of worktree_patch.rs
\* agree.  It is refused only when changes it leaves out move the place its header gives
\* (diff.rs:51-390).
StagedAsShown ==
    [][\A t \in tasks : Write(t) /\ Current(t) /\ Whole(t) =>
          \/ index' = Asked(t)
          \/ index' = index /\ ~Aligned(t)]_vars

\* However late a request comes and whatever the others do, what it writes is made of the index it
\* loaded: it takes no line out of that one that both HEAD and the working tree had, brings in
\* none that neither had, and writes none twice (diff.rs:51-390).
NothingMadeUp ==
    [][\A t \in tasks : Write(t) /\ index' # index =>
          /\ ToSet(index') \subseteq ToSet(t.loaded) \cup ToSet(t.other)
          /\ ToSet(t.loaded) \cap ToSet(t.other) \subseteq ToSet(index')
          /\ NoLineTwice(index')]_vars

\* An apply of some lines from one side and a revert of the others from the other side give the
\* same file, "so an apply and a revert can never disagree about which lines they touch"
\* (worktree_patch.rs, rewrite_side); all lines give the other side.
RewriteDual ==
    LET hunks == shown.hunks
        all   == ChangesIn(hunks, DOMAIN hunks)
    IN  /\ RewriteSide(shown.from, hunks, "apply", all) = shown.to
        /\ \A pairs \in UNION {SUBSET ChangesIn(hunks, {h}) : h \in DOMAIN hunks} :
              RewriteSide(shown.from, hunks, "apply", pairs)
                  = RewriteSide(shown.to, hunks, "revert", all \ pairs)

\* "Requests staging of the hunks - or, in partial mode, the individual lines - under the
\* current selection" (rgitui_diff/src/lib.rs:1695): of the index it loaded a request changes only
\* the lines meant.  The code asks for hunks by number, and the numbers shift when the first of
\* them is staged.
StagedIsSelected ==
    [][\A t \in tasks : Write(t) /\ index' # index =>
          SymDiff(ToSet(t.loaded), ToSet(index')) \subseteq t.lines]_vars

=============================================================================
