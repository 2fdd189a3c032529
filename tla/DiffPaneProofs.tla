--------------------------- MODULE DiffPaneProofs ---------------------------
(***************************************************************************)
(* Proofs about DiffPane, for any files, commits and stash entries, any    *)
(* order of selections, results, edits and theme changes, and caches of    *)
(* any size: what is on screen is what the user asked for last, and the    *)
(* two caches and the scheduler's queue keep their books.                  *)
(***************************************************************************)
EXTENDS DiffPane, LruCacheProofs

-----------------------------------------------------------------------------
(* Types *)

Side  == {"ours", "theirs", None}
Place == Commit \cup Stash
Body  == Nat \cup Place

ViewerType ==
    [generation : Nat, preparation : Nat, loading : BOOLEAN, failed : BOOLEAN,
     target : Thing \cup {None}, diff : Diff \cup {None}, conflict : BOOLEAN,
     threeWay : Diff \cup {None}, choice : Side, rows : Rows \cup {None},
     threeRows : [diff : Diff, choice : Side] \cup {None}, appearance : Theme]

PreparationType ==
    [kind : {"rows", "threeWay"}, diff : Diff, theme : Theme, choice : Side, number : Nat]

FileKind   == {"file", "search", "refresh", "conflict"}
CommitKind == {"commit", "navigate", "enrich"}

RequestType ==
    [kind : FileKind \cup CommitKind \cup {"stash"}, of : Thing \cup {None},
     label : Stash \cup {None}, index : Nat, generation : Nat,
     stage : {"reading", "read", "failed"}, body : Body \cup {None}]

\* A request names what its kind reads, and holds the body once it has been read.
RequestOK(r) ==
    /\ r \in RequestType
    /\ r.kind \in FileKind   => r.of \in File
    /\ r.kind \in CommitKind => r.of \in Commit
    /\ r.kind = "stash"      => r.label \in Stash /\ r.index # 0
    /\ r.kind = "enrich"     => r.stage = "read"
    /\ r.stage = "read"      => r.body \in Body

RepositoryOK ==
    /\ tree \in [File -> Nat] /\ conflicts \subseteq File /\ stashes \in Seq(Stash)
    /\ known \in [conflicts : SUBSET File, stashes : Seq(Stash)]
    /\ theme \in Theme

-----------------------------------------------------------------------------
(* The rows *)

\* A preparation that may still be shown is of the diff, the theme and the choice in force.
PreparationsFenced ==
    /\ \A p \in preparing : p.number <= viewer.preparation
    /\ \A p \in Current :
          IF p.kind = "rows"
          THEN p.diff = viewer.diff /\ p.theme = theme /\ viewer.threeWay = None
          ELSE p.diff = viewer.threeWay /\ p.choice = viewer.choice /\ viewer.diff = None

\* The viewer shows one diff, or a conflict, and has seen the last change of the theme.
OneView ==
    /\ viewer.diff # None => viewer.threeWay = None
    /\ viewer.diff # None \/ viewer.threeWay # None => viewer.appearance = theme

PaneInv ==
    /\ viewer \in ViewerType /\ preparing \subseteq PreparationType /\ theme \in Theme
    /\ PreparationsFenced
    /\ OneView
    /\ RowsFollowDiff

-----------------------------------------------------------------------------
(* The requests *)

Live(r)   == r.generation = viewer.generation
Wanted(r) == IF r.kind = "stash" THEN r.label ELSE r.of

\* A request whose result may still be shown is for what is selected, and unless it is a
\* refresh or completes a diff from the cache, nothing is shown before it comes.
RequestsFenced ==
    /\ \A r \in requests : r.generation <= viewer.generation
    /\ \A r \in requests : Live(r) =>
          /\ Wanted(r) = selected
          /\ r.kind \notin {"refresh", "enrich"} => viewer.diff = None /\ viewer.threeWay = None
          /\ r.kind = "file" => detail = None
          /\ r.kind = "enrich" => viewer.diff \in {None, DiffOf(r.of, r.of)}

SelectedShown ==
    /\ viewer.target # None => viewer.target = selected
    /\ \A d \in {viewer.diff, viewer.threeWay} \ {None} : d.of = selected

\* The detail panel is empty beside a file, and lists the commit or stash entry that is
\* shown, or is about to.
PanelFollows ==
    /\ detail \in Diff \cup {None} /\ (detail # None => detail.of \in Place)
    /\ viewer.diff # None =>
          IF viewer.diff.of \in File THEN detail = None
          ELSE \/ \E r \in requests : Live(r) /\ r.kind = "enrich"
               \/ detail # None /\ detail.of = viewer.diff.of

RequestInv ==
    /\ \A r \in requests : RequestOK(r)
    /\ selected \in Thing \cup {None}
    /\ RequestsFenced
    /\ SelectedShown
    /\ PanelFollows

IInv == RepositoryOK /\ PaneInv /\ RequestInv

LEMMA IInvShown == IInv => ShownIsSelected
<1> SUFFICES ASSUME IInv PROVE ShownIsSelected
  OBVIOUS
<1>1. PanelAgrees
  BY DEF IInv, RequestInv, PanelFollows, PanelAgrees, Live
<1> QED BY <1>1 DEF IInv, PaneInv, RequestInv, SelectedShown, ShownIsSelected

-----------------------------------------------------------------------------
(* What fills and empties the viewer *)

\* What a reset leaves.
LEMMA ResetFields ==
    ASSUME viewer \in ViewerType, NEW target \in Thing \cup {None}, NEW loading \in BOOLEAN
    PROVE  /\ Reset(target, loading) \in ViewerType
           /\ Reset(target, loading).generation = viewer.generation + 1
           /\ Reset(target, loading).preparation = viewer.preparation + 1
           /\ Reset(target, loading).target = target
           /\ Reset(target, loading).diff = None
           /\ Reset(target, loading).threeWay = None
           /\ Reset(target, loading).choice = None
<1>1. viewer.generation + 1 \in Nat /\ viewer.preparation + 1 \in Nat
  BY DEF ViewerType
<1>2. None \in Side
  BY DEF Side
<1>3. Reset(target, loading) \in ViewerType
  BY <1>1, <1>2 DEF ViewerType, Reset
<1>4. /\ Reset(target, loading).generation = viewer.generation + 1
      /\ Reset(target, loading).preparation = viewer.preparation + 1
  BY DEF ViewerType, Reset
<1> QED BY <1>3, <1>4 DEF ViewerType, Reset

\* The two counters of the viewer.
LEMMA Counters ==
    ASSUME PaneInv
    PROVE  viewer.generation \in Nat /\ viewer.preparation \in Nat
BY DEF PaneInv, ViewerType

\* An empty viewer has no rows to be wrong.
LEMMA EmptyPane ==
    ASSUME PaneInv, theme' = theme, preparing' = preparing,
           viewer' \in ViewerType, viewer'.preparation = viewer.preparation + 1,
           viewer'.diff = None, viewer'.threeWay = None
    PROVE  PaneInv'
<1>1. \A p \in preparing : p.number \in Nat /\ p.number <= viewer.preparation
  BY DEF PaneInv, PreparationsFenced, PreparationType
<1>2. \A p \in preparing' : p.number <= viewer'.preparation /\ p.number # viewer'.preparation
  BY <1>1, Counters
<1>3. PreparationsFenced'
  BY <1>2 DEF PreparationsFenced, Current
<1> QED BY <1>3 DEF PaneInv, OneView, RowsFollowDiff

LEMMA ClearPane ==
    ASSUME PaneInv, theme' = theme, Clear
    PROVE  /\ PaneInv' /\ viewer'.generation = viewer.generation + 1
           /\ viewer'.target = None /\ viewer'.diff = None /\ viewer'.threeWay = None
BY ResetFields, EmptyPane DEF Clear, PaneInv

LEMMA BeginLoadingPane ==
    ASSUME PaneInv, theme' = theme, NEW target \in Thing \cup {None}, BeginLoading(target)
    PROVE  /\ PaneInv' /\ viewer'.generation = viewer.generation + 1
           /\ viewer'.target = target /\ viewer'.diff = None /\ viewer'.threeWay = None
BY ResetFields, EmptyPane DEF BeginLoading, PaneInv

LEMMA BeginConflictPane ==
    ASSUME PaneInv, theme' = theme, NEW file \in File, BeginConflict(file)
    PROVE  /\ PaneInv' /\ viewer'.generation = viewer.generation + 1
           /\ viewer'.target = file /\ viewer'.diff = None /\ viewer'.threeWay = None
<1> DEFINE v == Reset(file, TRUE)
<1>1. /\ v \in ViewerType /\ v.generation = viewer.generation + 1
      /\ v.preparation = viewer.preparation + 1 /\ v.target = file
      /\ v.diff = None /\ v.threeWay = None
  BY ResetFields DEF PaneInv, Thing
<1>2. viewer' = [v EXCEPT !.conflict = TRUE, !.rows = viewer.rows] /\ preparing' = preparing
  BY DEF BeginConflict
<1>3. viewer.rows \in Rows \cup {None}
  BY DEF PaneInv, ViewerType
<1> HIDE DEF v
<1>4. /\ viewer' \in ViewerType /\ viewer'.generation = viewer.generation + 1
      /\ viewer'.preparation = viewer.preparation + 1 /\ viewer'.target = file
      /\ viewer'.diff = None /\ viewer'.threeWay = None
  BY <1>1, <1>2, <1>3 DEF ViewerType
<1> QED BY <1>2, <1>4, EmptyPane

LEMMA PreparationFields ==
    ASSUME PaneInv, NEW kind \in {"rows", "threeWay"}, NEW diff \in Diff, NEW look \in Theme,
           NEW choice \in Side
    PROVE  LET p == Preparation(kind, diff, look, choice)
           IN  /\ p \in PreparationType /\ p.number = viewer.preparation + 1
               /\ p.kind = kind /\ p.diff = diff /\ p.theme = look /\ p.choice = choice
BY Counters DEF Preparation, PreparationType

\* With a new number the one preparation that may be shown is the new one.
LEMMA OnlyNew ==
    ASSUME PaneInv, NEW q, preparing' = preparing \cup {q},
           viewer'.preparation = viewer.preparation + 1, q.number = viewer'.preparation
    PROVE  Current' = {q} /\ \A p \in preparing' : p.number <= viewer'.preparation
<1>1. \A p \in preparing : p.number \in Nat /\ p.number <= viewer.preparation
  BY DEF PaneInv, PreparationsFenced, PreparationType
<1> QED BY <1>1, Counters DEF Current

LEMMA NoneNew ==
    ASSUME PaneInv, preparing' \subseteq preparing, viewer'.preparation = viewer.preparation + 1
    PROVE  Current' = {} /\ \A p \in preparing' : p.number <= viewer'.preparation
<1>1. \A p \in preparing : p.number \in Nat /\ p.number <= viewer.preparation
  BY DEF PaneInv, PreparationsFenced, PreparationType
<1> QED BY <1>1, Counters DEF Current

LEMMA SetDiffPane ==
    ASSUME PaneInv, theme' = theme, NEW diff \in Diff, SetDiff(diff)
    PROVE  /\ PaneInv' /\ viewer'.generation = viewer.generation + 1
           /\ viewer'.target = diff.of /\ viewer'.diff = diff /\ viewer'.threeWay = None
<1> DEFINE key == Key(diff, theme)
           hit == key \in displayCache.entries
           v   == Reset(diff.of, ~hit)
           to  == [v EXCEPT !.diff = diff, !.appearance = theme]
<1>0. diff.of \in Thing /\ theme \in Theme /\ key \in Rows /\ key.diff = diff
  BY DEF Diff, PaneInv, Rows, Key
<1>1. /\ v \in ViewerType /\ v.generation = viewer.generation + 1
      /\ v.preparation = viewer.preparation + 1 /\ v.target = diff.of
      /\ v.diff = None /\ v.threeWay = None
  BY <1>0, ResetFields DEF PaneInv
<1> HIDE DEF v
<1>2. /\ to \in ViewerType /\ to.generation = viewer.generation + 1
      /\ to.preparation = viewer.preparation + 1 /\ to.target = diff.of
      /\ to.diff = diff /\ to.threeWay = None /\ to.appearance = theme
  BY <1>0, <1>1 DEF ViewerType
<1>3. to.rows = None
  BY <1>1 DEF ViewerType, v, Reset, PaneInv
<1> HIDE DEF to
<1>4. CASE hit
  <2>1. viewer' = [to EXCEPT !.rows = key] /\ preparing' = preparing
    BY <1>4 DEF SetDiff, to, v
  <2> HIDE DEF key
  <2>2. /\ viewer' \in ViewerType /\ viewer'.generation = viewer.generation + 1
        /\ viewer'.preparation = viewer.preparation + 1 /\ viewer'.target = diff.of
        /\ viewer'.diff = diff /\ viewer'.threeWay = None /\ viewer'.appearance = theme
        /\ viewer'.rows = key
    BY <1>0, <1>2, <2>1 DEF ViewerType
  <2>3. Current' = {} /\ \A p \in preparing' : p.number <= viewer'.preparation
    BY <2>1, <2>2, NoneNew
  <2>4. PaneInv'
    BY <1>0, <2>1, <2>2, <2>3 DEF PaneInv, PreparationsFenced, OneView, RowsFollowDiff, key
  <2> QED BY <2>2, <2>4
<1>5. CASE ~hit
  <2> DEFINE q == Preparation("rows", diff, theme, None)
  <2>1. viewer' = to /\ preparing' = preparing \cup {q}
    BY <1>5 DEF SetDiff, to, v
  <2>2. /\ q \in PreparationType /\ q.number = viewer.preparation + 1
        /\ q.kind = "rows" /\ q.diff = diff /\ q.theme = theme
    BY <1>0, PreparationFields DEF Side
  <2> HIDE DEF q
  <2>3. Current' = {q} /\ \A p \in preparing' : p.number <= viewer'.preparation
    BY <1>2, <2>1, <2>2, OnlyNew
  <2>4. PaneInv'
    BY <1>0, <1>2, <1>3, <2>1, <2>2, <2>3
       DEF PaneInv, PreparationsFenced, OneView, RowsFollowDiff
  <2> QED BY <1>2, <2>1, <2>4
<1> QED BY <1>4, <1>5

LEMMA SetThreeWayPane ==
    ASSUME PaneInv, theme' = theme, NEW diff \in Diff, SetThreeWay(diff)
    PROVE  /\ PaneInv' /\ viewer'.generation = viewer.generation + 1
           /\ viewer'.target = diff.of /\ viewer'.diff = None /\ viewer'.threeWay = diff
<1> DEFINE v == Reset(diff.of, TRUE)
           q == Preparation("threeWay", diff, theme, None)
<1>0. diff.of \in Thing /\ theme \in Theme /\ viewer.rows \in Rows \cup {None}
  BY DEF Diff, PaneInv, ViewerType
<1>1. /\ v \in ViewerType /\ v.generation = viewer.generation + 1
      /\ v.preparation = viewer.preparation + 1 /\ v.target = diff.of
      /\ v.diff = None /\ v.threeWay = None /\ v.choice = None
  BY <1>0, ResetFields DEF PaneInv
<1>2. /\ viewer' = [v EXCEPT !.conflict = TRUE, !.threeWay = diff, !.appearance = theme,
                             !.rows = viewer.rows]
      /\ preparing' = preparing \cup {q}
  BY DEF SetThreeWay
<1> HIDE DEF v
<1>3. /\ viewer' \in ViewerType /\ viewer'.generation = viewer.generation + 1
      /\ viewer'.preparation = viewer.preparation + 1 /\ viewer'.target = diff.of
      /\ viewer'.diff = None /\ viewer'.threeWay = diff /\ viewer'.appearance = theme
      /\ viewer'.choice = None
  BY <1>0, <1>1, <1>2 DEF ViewerType
<1>4. /\ q \in PreparationType /\ q.number = viewer.preparation + 1
      /\ q.kind = "threeWay" /\ q.diff = diff /\ q.choice = None
  BY <1>0, PreparationFields DEF Side
<1> HIDE DEF q
<1>5. Current' = {q} /\ \A p \in preparing' : p.number <= viewer'.preparation
  BY <1>2, <1>3, <1>4, OnlyNew
<1>6. PaneInv'
  BY <1>0, <1>2, <1>3, <1>4, <1>5 DEF PaneInv, PreparationsFenced, OneView, RowsFollowDiff
<1> QED BY <1>3, <1>6

LEMMA SetErrorPane ==
    ASSUME PaneInv, theme' = theme, SetError, viewer.diff = None, viewer.threeWay = None
    PROVE  /\ PaneInv' /\ viewer'.generation = viewer.generation
           /\ viewer'.target = viewer.target /\ viewer'.diff = None /\ viewer'.threeWay = None
<1>1. /\ viewer' \in ViewerType /\ viewer'.preparation = viewer.preparation + 1
      /\ viewer'.generation = viewer.generation /\ viewer'.target = viewer.target
      /\ viewer'.diff = None /\ viewer'.threeWay = None /\ preparing' = preparing
  <2>1. viewer.preparation + 1 \in Nat /\ viewer \in ViewerType
    BY DEF PaneInv, ViewerType
  <2>2. viewer' = [viewer EXCEPT !.preparation = @ + 1, !.loading = FALSE, !.failed = TRUE]
    BY DEF SetError
  <2>3. viewer' \in ViewerType
    BY <2>1, <2>2 DEF ViewerType
  <2> QED BY <2>1, <2>2, <2>3 DEF SetError, ViewerType
<1> QED BY <1>1, EmptyPane

LEMMA ChooseSidePane ==
    ASSUME PaneInv, NEW side \in Side, ChooseSide(side)
    PROVE  /\ PaneInv' /\ viewer'.generation = viewer.generation
           /\ viewer'.target = viewer.target /\ viewer'.diff = viewer.diff
           /\ viewer'.threeWay = viewer.threeWay
<1> DEFINE q == Preparation("threeWay", viewer.threeWay, theme, side)
<1>1. /\ viewer \in ViewerType /\ viewer.preparation + 1 \in Nat /\ theme \in Theme
      /\ viewer.threeWay \in Diff /\ viewer.threeWay # None /\ viewer.diff = None
  BY DEF PaneInv, ViewerType, ChooseSide, OneView
<1>2. /\ viewer' = [viewer EXCEPT !.preparation = @ + 1, !.choice = side]
      /\ preparing' = preparing \cup {q} /\ theme' = theme
  BY DEF ChooseSide
<1>3. viewer' \in ViewerType
  BY <1>1, <1>2 DEF ViewerType
<1>4. /\ viewer'.preparation = viewer.preparation + 1 /\ viewer'.choice = side
      /\ viewer'.generation = viewer.generation /\ viewer'.target = viewer.target
      /\ viewer'.diff = viewer.diff /\ viewer'.threeWay = viewer.threeWay
      /\ viewer'.appearance = viewer.appearance
  BY <1>1, <1>2 DEF ViewerType
<1>5. /\ q \in PreparationType /\ q.number = viewer.preparation + 1
      /\ q.kind = "threeWay" /\ q.diff = viewer.threeWay /\ q.choice = side
  BY <1>1, PreparationFields
<1> HIDE DEF q
<1>6. Current' = {q} /\ \A p \in preparing' : p.number <= viewer'.preparation
  BY <1>2, <1>4, <1>5, OnlyNew
<1>7. PaneInv'
  BY <1>1, <1>2, <1>3, <1>4, <1>5, <1>6
     DEF PaneInv, PreparationsFenced, OneView, RowsFollowDiff
<1> QED BY <1>4, <1>7

\* A change of the theme lays the rows of a diff out again; those of a conflict do not depend
\* on it, so a preparation of them under way stays good.
LEMMA ChangeThemePane ==
    ASSUME PaneInv, ChangeTheme
    PROVE  /\ PaneInv' /\ theme' \in Theme /\ viewer'.generation = viewer.generation
           /\ viewer'.target = viewer.target /\ viewer'.diff = viewer.diff
           /\ viewer'.threeWay = viewer.threeWay
<1>1. PICK look \in Theme \ {theme} : theme' = look /\ Rehighlight(look)
  BY DEF ChangeTheme
<1>2. viewer \in ViewerType /\ viewer.preparation + 1 \in Nat
  BY DEF PaneInv, ViewerType
<1>3. CASE look = viewer.appearance
  <2>1. UNCHANGED <<viewer, preparing>>
    BY <1>1, <1>3 DEF Rehighlight, pane
  <2>2. viewer.diff = None /\ viewer.threeWay = None
    BY <1>1, <1>3 DEF PaneInv, OneView
  <2>3. PreparationsFenced'
    <3>1. Current' = Current
      BY <2>1 DEF Current
    <3>2. \A p \in Current : p.diff = None
      BY <2>2 DEF PaneInv, PreparationsFenced
    <3>3. \A p \in Current : p.diff \in Diff
      BY DEF PaneInv, PreparationType, Current
    <3>4. Current = {}
      BY <3>2, <3>3, DiffPaneAssumption DEF DiffPaneAssumption
    <3> QED BY <2>1, <3>1, <3>4 DEF PaneInv, PreparationsFenced
  <2> QED BY <1>1, <2>1, <2>2, <2>3 DEF PaneInv, OneView, RowsFollowDiff
<1>4. CASE look # viewer.appearance /\ viewer.threeWay # None
  <2>1. viewer' = [viewer EXCEPT !.appearance = look] /\ preparing' = preparing
    BY <1>1, <1>4 DEF Rehighlight
  <2>2. /\ viewer' \in ViewerType /\ viewer'.appearance = look
        /\ viewer'.generation = viewer.generation /\ viewer'.target = viewer.target
        /\ viewer'.preparation = viewer.preparation /\ viewer'.choice = viewer.choice
        /\ viewer'.diff = viewer.diff /\ viewer'.threeWay = viewer.threeWay
        /\ viewer'.threeRows = viewer.threeRows
    BY <1>1, <1>2, <2>1 DEF ViewerType
  <2>3. viewer.diff = None /\ Current' = Current
    BY <1>4, <2>1, <2>2 DEF PaneInv, OneView, Current
  <2>4. PreparationsFenced'
    BY <1>4, <2>1, <2>2, <2>3 DEF PaneInv, PreparationsFenced
  <2> QED BY <1>1, <1>4, <2>1, <2>2, <2>3, <2>4 DEF PaneInv, OneView, RowsFollowDiff
<1>5. CASE look # viewer.appearance /\ viewer.threeWay = None
  <2>1. viewer' = [viewer EXCEPT !.appearance = look, !.preparation = @ + 1]
    BY <1>1, <1>2, <1>5 DEF Rehighlight, ViewerType
  <2>2. viewer' \in ViewerType
    BY <1>1, <1>2, <2>1 DEF ViewerType
  <2>3. /\ viewer'.appearance = look /\ viewer'.preparation = viewer.preparation + 1
        /\ viewer'.generation = viewer.generation /\ viewer'.target = viewer.target
        /\ viewer'.diff = viewer.diff /\ viewer'.threeWay = viewer.threeWay
        /\ viewer'.rows = viewer.rows
    BY <1>1, <1>2, <2>1 DEF ViewerType
  <2>4. CASE viewer.diff = None
    <3>1. preparing' = preparing
      BY <1>1, <1>5, <2>4 DEF Rehighlight
    <3>2. Current' = {} /\ \A p \in preparing' : p.number <= viewer'.preparation
      BY <2>3, <3>1, NoneNew
    <3> QED BY <1>1, <1>5, <2>2, <2>3, <2>4, <3>1, <3>2
            DEF PaneInv, PreparationsFenced, OneView, RowsFollowDiff
  <2>5. CASE viewer.diff # None
    <3> DEFINE q == Preparation("rows", viewer.diff, look, None)
    <3>1. preparing' = preparing \cup {q}
      BY <1>1, <1>5, <2>5 DEF Rehighlight
    <3>2. viewer.diff \in Diff
      BY <1>2, <2>5 DEF ViewerType
    <3>3. /\ q \in PreparationType /\ q.number = viewer.preparation + 1
          /\ q.kind = "rows" /\ q.diff = viewer.diff /\ q.theme = look
      BY <1>1, <3>2, PreparationFields DEF Side
    <3> HIDE DEF q
    <3>4. Current' = {q} /\ \A p \in preparing' : p.number <= viewer'.preparation
      BY <2>3, <3>1, <3>3, OnlyNew
    <3> QED BY <1>1, <1>5, <2>2, <2>3, <2>5, <3>1, <3>3, <3>4
            DEF PaneInv, PreparationsFenced, OneView, RowsFollowDiff
  <2> QED BY <2>4, <2>5
<1> QED BY <1>3, <1>4, <1>5

\* Rows are delivered: they replace those shown only if nothing was asked for since.
LEMMA RowsPreparedPane ==
    ASSUME PaneInv, NEW p \in preparing, RowsPrepared(p)
    PROVE  /\ PaneInv' /\ viewer'.generation = viewer.generation
           /\ viewer'.target = viewer.target /\ viewer'.diff = viewer.diff
           /\ viewer'.threeWay = viewer.threeWay
<1>1. /\ viewer \in ViewerType /\ p \in PreparationType /\ theme \in Theme
      /\ preparing' = preparing \ {p} /\ theme' = theme
  BY DEF PaneInv, RowsPrepared
<1>2. CASE ~ShouldApplyPrepared(p)
  <2>1. viewer' = viewer
    BY <1>2 DEF RowsPrepared
  <2>2. Current' = Current
    BY <1>1, <1>2, <2>1 DEF Current, ShouldApplyPrepared
  <2> QED BY <1>1, <2>1, <2>2 DEF PaneInv, PreparationsFenced, OneView, RowsFollowDiff
<1>3. CASE ShouldApplyPrepared(p) /\ p.kind = "rows"
  <2> DEFINE key == Key(p.diff, p.theme)
  <2>1. p \in Current /\ p.diff = viewer.diff /\ p.theme = theme /\ viewer.threeWay = None
    BY <1>3 DEF PaneInv, PreparationsFenced, Current, ShouldApplyPrepared
  <2>2. key \in Rows /\ key = Key(viewer.diff, theme) /\ key.diff = viewer.diff
    BY <1>1, <2>1 DEF Key, Rows, PreparationType
  <2>3. viewer' = [viewer EXCEPT !.rows = key, !.loading = FALSE]
    BY <1>3 DEF RowsPrepared
  <2> HIDE DEF key
  <2>4. /\ viewer' \in ViewerType /\ viewer'.appearance = viewer.appearance
        /\ viewer'.generation = viewer.generation /\ viewer'.target = viewer.target
        /\ viewer'.preparation = viewer.preparation
        /\ viewer'.diff = viewer.diff /\ viewer'.threeWay = viewer.threeWay
        /\ viewer'.rows = key /\ viewer'.choice = viewer.choice
    BY <1>1, <2>2, <2>3 DEF ViewerType
  <2>5. Current' \subseteq Current
    BY <1>1, <2>4 DEF Current
  <2>6. PreparationsFenced'
    BY <1>1, <2>4, <2>5 DEF PaneInv, PreparationsFenced
  <2>7. RowsFollowDiff'
    BY <1>1, <2>1, <2>2, <2>4 DEF RowsFollowDiff
  <2> QED BY <1>1, <2>4, <2>6, <2>7 DEF PaneInv, OneView
<1>4. CASE ShouldApplyPrepared(p) /\ p.kind = "threeWay"
  <2> DEFINE laid == [diff |-> p.diff, choice |-> p.choice]
  <2>1. /\ p \in Current /\ p.diff = viewer.threeWay /\ p.choice = viewer.choice
        /\ viewer.diff = None
    BY <1>4 DEF PaneInv, PreparationsFenced, Current, ShouldApplyPrepared
  <2>2. laid \in [diff : Diff, choice : Side]
        /\ laid = [diff |-> viewer.threeWay, choice |-> viewer.choice]
    BY <1>1, <2>1 DEF PreparationType
  <2>3. viewer' = [viewer EXCEPT !.threeRows = laid, !.loading = FALSE]
    BY <1>4 DEF RowsPrepared
  <2> HIDE DEF laid
  <2>4. /\ viewer' \in ViewerType /\ viewer'.appearance = viewer.appearance
        /\ viewer'.generation = viewer.generation /\ viewer'.target = viewer.target
        /\ viewer'.preparation = viewer.preparation
        /\ viewer'.diff = viewer.diff /\ viewer'.threeWay = viewer.threeWay
        /\ viewer'.threeRows = laid /\ viewer'.choice = viewer.choice
    BY <1>1, <2>2, <2>3 DEF ViewerType
  <2>5. Current' \subseteq Current
    BY <1>1, <2>4 DEF Current
  <2>6. PreparationsFenced'
    BY <1>1, <2>4, <2>5 DEF PaneInv, PreparationsFenced
  <2>7. RowsFollowDiff'
    BY <1>1, <2>1, <2>2, <2>4 DEF RowsFollowDiff
  <2> QED BY <1>1, <2>4, <2>6, <2>7 DEF PaneInv, OneView
<1> QED BY <1>1, <1>2, <1>3, <1>4 DEF PreparationType

-----------------------------------------------------------------------------
(* Requests come, move and go *)

SameView ==
    /\ viewer'.generation = viewer.generation /\ viewer'.target = viewer.target
    /\ viewer'.diff = viewer.diff /\ viewer'.threeWay = viewer.threeWay

\* Nothing the requests depend on changes.
LEMMA RequestsStay ==
    ASSUME RequestInv, SameView, UNCHANGED <<requests, detail, selected>>
    PROVE  RequestInv'
BY DEF RequestInv, SameView, RequestsFenced, SelectedShown, PanelFollows, Live

\* A read succeeds or fails.
LEMMA RequestMoves ==
    ASSUME RequestInv, SameView, UNCHANGED <<detail, selected>>,
           NEW r \in requests, r.kind # "enrich", NEW q, RequestOK(q),
           q.kind = r.kind, q.of = r.of, q.label = r.label, q.generation = r.generation,
           requests' = (requests \ {r}) \cup {q}
    PROVE  RequestInv'
<1>1. RequestsFenced'
  BY DEF RequestInv, SameView, RequestsFenced, Live, Wanted
<1>2. PanelFollows'
  BY DEF RequestInv, SameView, PanelFollows, Live
<1> QED BY <1>1, <1>2 DEF RequestInv, SameView, SelectedShown

\* A result is dropped, or says nothing new.
LEMMA RequestEnds ==
    ASSUME RequestInv, SameView, UNCHANGED <<detail, selected>>,
           NEW r \in requests, ~(Live(r) /\ r.kind = "enrich"), requests' = requests \ {r}
    PROVE  RequestInv'
<1>1. RequestsFenced'
  BY DEF RequestInv, SameView, RequestsFenced, Live
<1>2. PanelFollows'
  BY DEF RequestInv, SameView, PanelFollows, Live
<1> QED BY <1>1, <1>2 DEF RequestInv, SameView, SelectedShown

\* Whatever fills or empties the viewer outdates every request but one made with it.
LEMMA NewGeneration ==
    ASSUME RequestInv, viewer.generation \in Nat, viewer'.generation = viewer.generation + 1,
           NEW q, requests' \subseteq requests \cup {q},
           q \in requests' \ requests =>
               /\ RequestOK(q) /\ q.generation = viewer'.generation /\ Wanted(q) = selected'
               /\ q.kind \notin {"refresh", "enrich"}
                      => viewer'.diff = None /\ viewer'.threeWay = None
               /\ q.kind = "file" => detail' = None
               /\ q.kind = "enrich" => viewer'.diff \in {None, DiffOf(q.of, q.of)},
           selected' \in Thing \cup {None}, SelectedShown', PanelFollows'
    PROVE  RequestInv'
<1>1. \A r \in requests : r.generation \in Nat /\ r.generation <= viewer.generation
  BY DEF RequestInv, RequestsFenced, RequestOK, RequestType
<1>2. \A r \in requests : r.generation <= viewer'.generation /\ r.generation # viewer'.generation
  BY <1>1
<1>3. RequestsFenced'
  <2>1. SUFFICES ASSUME NEW r \in requests'
                 PROVE  /\ r.generation <= viewer'.generation
                        /\ Live(r)' =>
                              /\ Wanted(r) = selected'
                              /\ r.kind \notin {"refresh", "enrich"}
                                     => viewer'.diff = None /\ viewer'.threeWay = None
                              /\ r.kind = "file" => detail' = None
                              /\ r.kind = "enrich" => viewer'.diff \in {None, DiffOf(r.of, r.of)}
    BY DEF RequestsFenced, Wanted, DiffOf
  <2>2. CASE r \in requests
    BY <1>2, <2>2 DEF Live
  <2>3. CASE r \notin requests
    <3>1. r = q /\ r.generation = viewer'.generation /\ viewer'.generation \in Nat
      BY <2>3
    <3> QED BY <2>3, <3>1
  <2> QED BY <2>2, <2>3
<1> QED BY <1>3 DEF RequestInv

\* An empty viewer waits for what is selected.
LEMMA EmptiedView ==
    ASSUME viewer'.diff = None, viewer'.threeWay = None, viewer'.target \in {None, selected'},
           detail' \in Diff \cup {None}, detail' # None => detail'.of \in Place
    PROVE  SelectedShown' /\ PanelFollows'
BY DEF SelectedShown, PanelFollows

\* A file of the working tree is shown with an empty detail panel.
LEMMA FileShown ==
    ASSUME NEW diff \in Diff, diff.of \in File, viewer'.diff = diff, viewer'.threeWay = None,
           viewer'.target = diff.of, selected' = diff.of, detail' = None
    PROVE  SelectedShown' /\ PanelFollows'
BY DEF SelectedShown, PanelFollows

\* A commit or stash entry is shown with its own panel.
LEMMA PlaceShown ==
    ASSUME NEW diff \in Diff, diff.of \in Place, viewer'.diff = diff, viewer'.threeWay = None,
           viewer'.target = diff.of, selected' = diff.of,
           detail' \in Diff, detail'.of = diff.of
    PROVE  SelectedShown' /\ PanelFollows'
<1>1. diff.of \notin File /\ detail' # None
  BY DiffPaneAssumption DEF DiffPaneAssumption, Place
<1> QED BY <1>1 DEF SelectedShown, PanelFollows

-----------------------------------------------------------------------------
(* Each selection keeps the invariant *)

\* A request made with the viewer emptied for it.
LEMMA NewRequest ==
    ASSUME PaneInv, NEW kind \in FileKind \cup {"stash"}, NEW of \in Thing \cup {None},
           NEW label \in Stash \cup {None}, NEW index \in Nat,
           kind \in FileKind => of \in File, kind = "stash" => label \in Stash /\ index # 0,
           viewer'.generation = viewer.generation + 1 \/ viewer'.generation = viewer.generation
    PROVE  LET q == Request(kind, of, label, index)
           IN  /\ RequestOK(q) /\ q.generation = viewer'.generation
               /\ q.kind = kind /\ q.of = of /\ q.label = label
<1>1. viewer'.generation \in Nat
  BY Counters
<1> QED BY <1>1 DEF Request, RequestOK, RequestType, FileKind, CommitKind

LEMMA NewCommitRequest ==
    ASSUME PaneInv, NEW kind \in CommitKind, NEW commit \in Commit,
           viewer'.generation = viewer.generation + 1
    PROVE  LET q == CommitRequest(kind, commit)
           IN  /\ RequestOK(q) /\ q.generation = viewer'.generation
               /\ q.kind = kind /\ q.of = commit
<1>1. viewer'.generation \in Nat
  BY Counters
<1> DEFINE r == Request(kind, commit, None, 0)
<1>2. /\ r \in RequestType /\ r.generation = viewer'.generation /\ r.kind = kind /\ r.of = commit
  BY <1>1 DEF Request, RequestType, FileKind, CommitKind, Thing
<1>3. CommitRequest(kind, commit) = [r EXCEPT !.stage = "read", !.body = commit]
  BY DEF CommitRequest
<1> HIDE DEF r
<1>4. /\ CommitRequest(kind, commit) \in RequestType
      /\ CommitRequest(kind, commit).generation = viewer'.generation
      /\ CommitRequest(kind, commit).kind = kind /\ CommitRequest(kind, commit).of = commit
      /\ CommitRequest(kind, commit).stage = "read" /\ CommitRequest(kind, commit).body = commit
  BY <1>2, <1>3 DEF RequestType, Body, Place
<1> QED BY <1>4 DEF RequestOK, FileKind, CommitKind, Body, Place

\* The detail panel lists a commit or stash entry, or nothing.
LEMMA DetailType ==
    ASSUME RequestInv
    PROVE  detail \in Diff \cup {None} /\ (detail # None => detail.of \in Place)
BY DEF RequestInv, PanelFollows

LEMMA SelectFileInv ==
    ASSUME IInv, NEW file \in File, NEW kind \in {"file", "search"}, SelectFile(file, kind)
    PROVE  IInv'
<1> DEFINE q == Request(kind, file, None, 0)
<1>1. /\ BeginLoading(file) /\ requests' = requests \cup {q} /\ selected' = file
      /\ detail' = IF kind = "file" THEN None ELSE detail
      /\ UNCHANGED <<tree, conflicts, stashes, theme, known>>
  BY DEF SelectFile, Ask, repository
<1>2. /\ PaneInv' /\ viewer'.generation = viewer.generation + 1
      /\ viewer'.target = file /\ viewer'.diff = None /\ viewer'.threeWay = None
  BY <1>1, BeginLoadingPane DEF IInv, Thing
<1>3. RequestOK(q) /\ q.generation = viewer'.generation /\ q.kind = kind /\ q.of = file
  BY <1>2, NewRequest DEF IInv, FileKind, Thing
<1> HIDE DEF q
<1>4. SelectedShown' /\ PanelFollows'
  <2>1. detail' \in Diff \cup {None} /\ (detail' # None => detail'.of \in Place)
    BY <1>1, DetailType DEF IInv
  <2> QED BY <1>1, <1>2, <2>1, EmptiedView
<1>5. RequestInv'
  BY <1>1, <1>2, <1>3, <1>4, Counters, NewGeneration DEF IInv, Wanted, Thing
<1> QED BY <1>1, <1>2, <1>5 DEF IInv, RepositoryOK

LEMMA SelectConflictInv ==
    ASSUME IInv, NEW file \in File, SelectConflict(file)
    PROVE  IInv'
<1> DEFINE q == Request("conflict", file, None, 0)
<1>1. /\ BeginConflict(file) /\ requests' = requests \cup {q} /\ selected' = file
      /\ detail' = None
      /\ UNCHANGED <<tree, conflicts, stashes, theme, known>>
  BY DEF SelectConflict, Ask, repository
<1>2. /\ PaneInv' /\ viewer'.generation = viewer.generation + 1
      /\ viewer'.target = file /\ viewer'.diff = None /\ viewer'.threeWay = None
  BY <1>1, BeginConflictPane DEF IInv
<1>3. RequestOK(q) /\ q.generation = viewer'.generation /\ q.kind = "conflict" /\ q.of = file
  <2>1. viewer'.generation \in Nat
    BY <1>2, Counters DEF IInv
  <2> QED BY <1>2, <2>1 DEF Request, RequestOK, RequestType, FileKind, CommitKind, Thing
<1> HIDE DEF q
<1>4. SelectedShown' /\ PanelFollows'
  BY <1>1, <1>2, EmptiedView
<1>5. RequestInv'
  BY <1>1, <1>2, <1>3, <1>4, Counters, NewGeneration DEF IInv, Wanted, Thing
<1> QED BY <1>1, <1>2, <1>5 DEF IInv, RepositoryOK

LEMMA SelectStashInv ==
    ASSUME IInv, NEW i \in DOMAIN known.stashes, SelectStash(i)
    PROVE  IInv'
<1> DEFINE entry == known.stashes[i]
           q     == Request("stash", None, entry, i)
<1>1. /\ BeginLoading(None) /\ requests' = requests \cup {q} /\ selected' = entry
      /\ UNCHANGED <<tree, conflicts, stashes, theme, known, detail>>
  BY DEF SelectStash, Ask, repository
<1>2. entry \in Stash /\ i \in Nat /\ i # 0
  <2>1. known.stashes \in Seq(Stash)
    BY DEF IInv, RepositoryOK
  <2> QED BY <2>1, ElementOfSeq
<1>3. /\ PaneInv' /\ viewer'.generation = viewer.generation + 1
      /\ viewer'.target = None /\ viewer'.diff = None /\ viewer'.threeWay = None
  BY <1>1, BeginLoadingPane DEF IInv
<1> HIDE DEF entry
<1>4. RequestOK(q) /\ q.generation = viewer'.generation /\ q.kind = "stash" /\ q.label = entry
  BY <1>2, <1>3, NewRequest DEF IInv, FileKind
<1> HIDE DEF q
<1>5. SelectedShown' /\ PanelFollows'
  BY <1>1, <1>3, EmptiedView, DetailType DEF IInv
<1>6. RequestInv'
  BY <1>1, <1>2, <1>3, <1>4, <1>5, Counters, NewGeneration DEF IInv, Wanted, Thing
<1> QED BY <1>1, <1>3, <1>6 DEF IInv, RepositoryOK

\* The diff of a commit goes with it.
LEMMA CommitDiff ==
    ASSUME NEW commit \in Commit
    PROVE  /\ DiffOf(commit, commit) \in Diff /\ DiffOf(commit, commit).of = commit
           /\ commit \in Place /\ commit \in Thing /\ commit \notin File
BY DiffPaneAssumption DEF DiffPaneAssumption, DiffOf, Diff, Place, Thing

LEMMA ShowCommitPane ==
    ASSUME PaneInv, theme' = theme, NEW commit \in Commit, ShowCommit(commit)
    PROVE  /\ PaneInv' /\ viewer'.generation = viewer.generation + 1
           /\ viewer'.target \in {None, commit} /\ viewer'.threeWay = None
           /\ viewer'.diff \in {None, DiffOf(commit, commit)}
<1>1. CASE commit \in EmptyCommit
  BY <1>1, ClearPane DEF ShowCommit
<1>2. CASE commit \notin EmptyCommit
  BY <1>2, CommitDiff, SetDiffPane DEF ShowCommit
<1> QED BY <1>1, <1>2

\* A diff of the cache is shown at once, and the detail panel follows.
LEMMA SelectCommitInv ==
    ASSUME IInv, NEW commit \in Commit, SelectCommit(commit)
    PROVE  IInv'
<1>1. /\ selected' = commit
      /\ UNCHANGED <<tree, conflicts, stashes, theme, known, detail>>
  BY DEF SelectCommit, repository
<1>2. RepositoryOK'
  BY <1>1 DEF IInv, RepositoryOK
<1>3. CASE Holds(commitCache, commit)
  <2> DEFINE q == CommitRequest("enrich", commit)
  <2>1. ShowCommit(commit) /\ requests' = requests \cup {q}
    BY <1>3 DEF SelectCommit, Ask
  <2>2. /\ PaneInv' /\ viewer'.generation = viewer.generation + 1
        /\ viewer'.target \in {None, commit} /\ viewer'.threeWay = None
        /\ viewer'.diff \in {None, DiffOf(commit, commit)}
    BY <1>1, <2>1, ShowCommitPane DEF IInv
  <2>3. /\ RequestOK(q) /\ q.generation = viewer'.generation
        /\ q.kind = "enrich" /\ q.of = commit
    BY <2>2, NewCommitRequest DEF IInv, CommitKind
  <2> HIDE DEF q
  <2>4. SelectedShown'
    BY <1>1, <2>2, CommitDiff DEF SelectedShown
  <2>5. PanelFollows'
    <3>1. \E r \in requests' : r.generation = viewer'.generation /\ r.kind = "enrich"
      BY <2>1, <2>3
    <3>2. viewer'.diff # None => viewer'.diff.of \notin File
      BY <2>2, CommitDiff
    <3> QED BY <1>1, <3>1, <3>2, DetailType DEF IInv, PanelFollows, Live
  <2>6. RequestInv'
    BY <1>1, <2>1, <2>2, <2>3, <2>4, <2>5, Counters, CommitDiff, NewGeneration DEF IInv, Wanted
  <2> QED BY <1>2, <2>2, <2>6 DEF IInv
<1>4. CASE ~Holds(commitCache, commit)
  <2> DEFINE q == CommitRequest("commit", commit)
  <2>1. BeginLoading(None) /\ requests' = requests \cup {q}
    BY <1>4 DEF SelectCommit, Ask
  <2>2. /\ PaneInv' /\ viewer'.generation = viewer.generation + 1
        /\ viewer'.target = None /\ viewer'.diff = None /\ viewer'.threeWay = None
    BY <1>1, <2>1, BeginLoadingPane DEF IInv
  <2>3. /\ RequestOK(q) /\ q.generation = viewer'.generation
        /\ q.kind = "commit" /\ q.of = commit
    BY <2>2, NewCommitRequest DEF IInv, CommitKind
  <2> HIDE DEF q
  <2>4. SelectedShown' /\ PanelFollows'
    BY <1>1, <2>2, EmptiedView, DetailType DEF IInv
  <2>5. RequestInv'
    BY <1>1, <2>1, <2>2, <2>3, <2>4, Counters, CommitDiff, NewGeneration DEF IInv, Wanted
  <2> QED BY <1>2, <2>2, <2>5 DEF IInv
<1> QED BY <1>3, <1>4

LEMMA SelectDetailFileInv ==
    ASSUME IInv, SelectDetailFile
    PROVE  IInv'
<1>1. /\ detail # None /\ SetDiff(detail) /\ selected' = detail.of
      /\ UNCHANGED <<tree, conflicts, stashes, theme, known, detail, requests>>
  BY DEF SelectDetailFile, repository
<1>2. detail \in Diff /\ detail.of \in Place /\ detail.of \in Thing
  BY <1>1, DetailType DEF IInv, Place, Thing
<1>3. /\ PaneInv' /\ viewer'.generation = viewer.generation + 1
      /\ viewer'.target = detail.of /\ viewer'.diff = detail /\ viewer'.threeWay = None
  BY <1>1, <1>2, SetDiffPane DEF IInv
<1>4. SelectedShown' /\ PanelFollows'
  BY <1>1, <1>2, <1>3, PlaceShown
<1>5. RequestInv'
  <2>1. requests' \subseteq requests \cup {None} /\ (None \in requests' \ requests => FALSE)
    BY <1>1
  <2> QED BY <1>1, <1>2, <1>3, <1>4, <2>1, Counters, NewGeneration DEF IInv
<1> QED BY <1>1, <1>3, <1>5 DEF IInv, RepositoryOK

LEMMA NavigateInv ==
    ASSUME IInv, Navigate
    PROVE  IInv'
<1>1. PICK j \in DOMAIN History :
          /\ BeginLoading(None)
          /\ requests' = requests \cup {CommitRequest("navigate", History[j])}
          /\ selected' = History[j]
          /\ UNCHANGED <<tree, conflicts, stashes, theme, known, detail>>
  BY DEF Navigate, Ask, repository
<1> DEFINE commit == History[j]
           q      == CommitRequest("navigate", commit)
<1>2. commit \in Commit
  BY DEF Commit, ToSet
<1>3. /\ PaneInv' /\ viewer'.generation = viewer.generation + 1
      /\ viewer'.target = None /\ viewer'.diff = None /\ viewer'.threeWay = None
  BY <1>1, BeginLoadingPane DEF IInv
<1>4. requests' = requests \cup {q} /\ selected' = commit
  BY <1>1
<1> HIDE DEF commit
<1>5. /\ RequestOK(q) /\ q.generation = viewer'.generation
      /\ q.kind = "navigate" /\ q.of = commit
  BY <1>2, <1>3, NewCommitRequest DEF IInv, CommitKind
<1> HIDE DEF q
<1>6. SelectedShown' /\ PanelFollows'
  BY <1>1, <1>3, EmptiedView, DetailType DEF IInv
<1>7. RequestInv'
  BY <1>2, <1>3, <1>4, <1>5, <1>6, Counters, CommitDiff, NewGeneration DEF IInv, Wanted
<1> QED BY <1>1, <1>3, <1>7 DEF IInv, RepositoryOK

LEMMA SelectInv ==
    ASSUME IInv, Select
    PROVE  IInv'
<1>1. ASSUME NEW side \in Side, ChooseSide(side) PROVE IInv'
  <2>1. PaneInv' /\ SameView
    BY <1>1, ChooseSidePane DEF IInv, SameView
  <2>2. UNCHANGED <<tree, conflicts, stashes, theme, known, requests, detail, selected>>
    BY <1>1 DEF ChooseSide, repository
  <2> QED BY <2>1, <2>2, RequestsStay DEF IInv, RepositoryOK
<1>2. CASE \E f \in File : SelectFile(f, "file") \/ SelectFile(f, "search") \/ SelectConflict(f)
  BY <1>2, SelectFileInv, SelectConflictInv
<1>3. CASE \E i \in DOMAIN known.stashes : SelectStash(i)
  BY <1>3, SelectStashInv
<1>4. CASE \E c \in Commit : SelectCommit(c)
  BY <1>4, SelectCommitInv
<1>5. CASE SelectDetailFile \/ Navigate
  BY <1>5, SelectDetailFileInv, NavigateInv
<1> QED BY <1>1, <1>2, <1>3, <1>4, <1>5 DEF Select, Side

-----------------------------------------------------------------------------
(* Each result, and each change, keeps the invariant *)

LEMMA ReadInv ==
    ASSUME IInv, NEW r \in requests, Read(r)
    PROVE  IInv'
<1>1. /\ RequestOK(r) /\ r.stage = "reading" /\ r.kind # "enrich"
      /\ UNCHANGED <<tree, conflicts, stashes, theme, known, viewer, preparing, detail, selected>>
  BY DEF IInv, RequestInv, RequestOK, Read, Reading, repository, pane
<1>2. PICK stage \in {"read", "failed"}, body \in Body \cup {None} :
          /\ Done(r, stage, body)
          /\ stage = "read" => body \in Body
  <2>1. CASE r.kind \in {"file", "search", "refresh"}
    <3>1. Done(r, "read", tree[r.of])
      BY <2>1 DEF Read
    <3>2. tree[r.of] \in Nat
      BY <1>1, <2>1 DEF IInv, RepositoryOK, RequestOK, FileKind
    <3> QED BY <3>1, <3>2 DEF Body
  <2>2. CASE r.kind = "conflict" /\ r.of \in conflicts
    <3>1. Done(r, "read", tree[r.of])
      BY <2>2 DEF Read
    <3>2. tree[r.of] \in Nat
      BY <1>1, <2>2 DEF IInv, RepositoryOK, RequestOK, FileKind
    <3> QED BY <3>1, <3>2 DEF Body
  <2>3. CASE r.kind = "stash" /\ r.index <= Len(stashes)
    <3>1. Done(r, "read", stashes[r.index])
      BY <2>3 DEF Read
    <3>2. stashes \in Seq(Stash) /\ r.index \in Nat /\ r.index # 0
      BY <1>1, <2>3 DEF IInv, RepositoryOK, RequestOK, RequestType
    <3>3. stashes[r.index] \in Stash
      BY <2>3, <3>2, ElementOfSeq
    <3> QED BY <3>1, <3>3 DEF Body, Place
  <2>4. CASE /\ r.kind \notin {"file", "search", "refresh"}
             /\ ~(r.kind = "conflict" /\ r.of \in conflicts)
             /\ ~(r.kind = "stash" /\ r.index <= Len(stashes))
    <3>1. Done(r, "failed", None)
      BY <2>4 DEF Read
    <3> QED BY <3>1
  <2> QED BY <2>1, <2>2, <2>3, <2>4
<1> DEFINE q == [r EXCEPT !.stage = stage, !.body = body]
<1>3. /\ RequestOK(q) /\ q.kind = r.kind /\ q.of = r.of /\ q.label = r.label
      /\ q.generation = r.generation
  BY <1>1, <1>2 DEF RequestOK, RequestType
<1>4. requests' = (requests \ {r}) \cup {q}
  BY <1>2 DEF Done
<1> HIDE DEF q
<1>5. RequestInv'
  BY <1>1, <1>3, <1>4, RequestMoves DEF IInv, SameView
<1>6. PaneInv'
  BY <1>1 DEF IInv, PaneInv, PreparationsFenced, OneView, RowsFollowDiff, Current
<1> QED BY <1>1, <1>5, <1>6 DEF IInv, RepositoryOK

LEMMA ReadFailsInv ==
    ASSUME IInv, NEW r \in requests, ReadFails(r)
    PROVE  IInv'
<1>1. /\ RequestOK(r) /\ r.kind # "enrich"
      /\ UNCHANGED <<tree, conflicts, stashes, theme, known, viewer, preparing, detail, selected>>
      /\ Done(r, "failed", None)
  BY DEF IInv, RequestInv, RequestOK, ReadFails, Reading, repository, pane
<1> DEFINE q == [r EXCEPT !.stage = "failed", !.body = None]
<1>2. /\ RequestOK(q) /\ q.kind = r.kind /\ q.of = r.of /\ q.label = r.label
      /\ q.generation = r.generation
  BY <1>1 DEF RequestOK, RequestType
<1>3. requests' = (requests \ {r}) \cup {q}
  BY <1>1 DEF Done
<1> HIDE DEF q
<1>4. RequestInv'
  BY <1>1, <1>2, <1>3, RequestMoves DEF IInv, SameView
<1>5. PaneInv'
  BY <1>1 DEF IInv, PaneInv, PreparationsFenced, OneView, RowsFollowDiff, Current
<1> QED BY <1>1, <1>4, <1>5 DEF IInv, RepositoryOK

\* Handlers that touch neither the viewer nor its rows.
LEMMA PaneStays ==
    ASSUME PaneInv, UNCHANGED <<viewer, preparing, theme>>
    PROVE  PaneInv' /\ SameView
BY DEF PaneInv, PreparationsFenced, OneView, RowsFollowDiff, Current, SameView

\* A result of an earlier generation is dropped.
LEMMA StaleDropped ==
    ASSUME IInv, NEW r \in requests, requests' = requests \ {r},
           ~(Live(r) /\ r.kind = "enrich"),
           UNCHANGED <<tree, conflicts, stashes, theme, known, viewer, preparing, detail, selected>>
    PROVE  IInv'
<1>1. PaneInv' /\ SameView
  BY PaneStays DEF IInv
<1>2. RequestInv'
  BY <1>1, RequestEnds DEF IInv
<1> QED BY <1>1, <1>2 DEF IInv, RepositoryOK

\* An error is shown in place of nothing.
LEMMA ErrorShown ==
    ASSUME IInv, NEW r \in requests, requests' = requests \ {r}, Live(r),
           r.kind \notin {"refresh", "enrich"}, SetError,
           UNCHANGED <<tree, conflicts, stashes, theme, known, detail, selected>>
    PROVE  IInv'
<1>1. viewer.diff = None /\ viewer.threeWay = None
  BY DEF IInv, RequestInv, RequestsFenced
<1>2. PaneInv' /\ SameView
  BY <1>1, SetErrorPane DEF IInv, SameView
<1>3. RequestInv'
  BY <1>2, RequestEnds DEF IInv
<1> QED BY <1>2, <1>3 DEF IInv, RepositoryOK

\* A live result that fills or empties the viewer.
LEMMA ResultShown ==
    ASSUME IInv, NEW r \in requests, requests' = requests \ {r},
           PaneInv', viewer'.generation = viewer.generation + 1, SelectedShown', PanelFollows',
           UNCHANGED <<tree, conflicts, stashes, theme, known, selected>>
    PROVE  IInv'
<1>1. requests' \subseteq requests \cup {r} /\ r \notin requests' \ requests
  OBVIOUS
<1>2. selected' \in Thing \cup {None}
  BY DEF IInv, RequestInv
<1>3. RequestInv'
  BY <1>1, <1>2, Counters, NewGeneration DEF IInv
<1> QED BY <1>3 DEF IInv, RepositoryOK

\* What a request that is still live is for.
LEMMA LiveWanted ==
    ASSUME IInv, NEW r \in requests, Live(r)
    PROVE  RequestOK(r) /\ selected = Wanted(r)
BY DEF IInv, RequestInv, RequestsFenced

LEMMA DeliverFileInv ==
    ASSUME IInv, NEW r \in Deliver({"file", "search", "refresh"}), DeliverFile(r)
    PROVE  IInv'
<1> DEFINE diff == DiffOf(r.of, r.body)
<1>1. /\ r \in requests /\ r.kind \in {"file", "search", "refresh"} /\ RequestOK(r)
      /\ requests' = requests \ {r}
      /\ UNCHANGED <<tree, conflicts, stashes, theme, known, selected>>
      /\ r.stage \in {"read", "failed"}
  BY DEF Deliver, DeliverFile, IInv, RequestInv, RequestOK, RequestType, Reading, repository
<1>2. CASE ~IsCurrent(r) \/ (r.stage = "failed" /\ r.kind = "refresh")
  <2>1. UNCHANGED <<viewer, preparing, detail>>
    BY <1>2 DEF DeliverFile, pane
  <2> QED BY <1>1, <2>1, StaleDropped
<1>3. CASE IsCurrent(r) /\ r.stage = "failed" /\ r.kind # "refresh"
  <2>1. SetError /\ UNCHANGED detail /\ Live(r)
    BY <1>3 DEF DeliverFile, IsCurrent, Live
  <2> QED BY <1>1, <1>3, <2>1, ErrorShown
<1>4. CASE IsCurrent(r) /\ r.stage = "read"
  <2>1. Live(r) /\ selected = r.of /\ r.of \in File /\ r.body \in Body
    BY <1>1, <1>4, LiveWanted DEF IsCurrent, Live, Wanted, RequestOK, FileKind
  <2>2. diff \in Diff /\ diff.of = r.of
    BY <2>1 DEF DiffOf, Diff, Thing, Body, Place
  <2>3. ASSUME SetDiff(diff), detail' = None PROVE IInv'
    <3>1. /\ PaneInv' /\ viewer'.generation = viewer.generation + 1
          /\ viewer'.target = diff.of /\ viewer'.diff = diff /\ viewer'.threeWay = None
      BY <1>1, <2>2, <2>3, SetDiffPane DEF IInv
    <3>2. SelectedShown' /\ PanelFollows'
      BY <1>1, <2>1, <2>2, <2>3, <3>1, FileShown
    <3> QED BY <1>1, <3>1, <3>2, ResultShown
  <2>4. CASE r.kind = "refresh"
    <3>1. RefreshShown(r)
      BY <1>1, <1>4, <2>4 DEF DeliverFile
    <3>2. CASE r.body = 0
      <4>1. Clear /\ detail' = None
        BY <3>1, <3>2 DEF RefreshShown
      <4>2. /\ PaneInv' /\ viewer'.generation = viewer.generation + 1
            /\ viewer'.target = None /\ viewer'.diff = None /\ viewer'.threeWay = None
        BY <1>1, <4>1, ClearPane DEF IInv
      <4>3. SelectedShown' /\ PanelFollows'
        BY <4>1, <4>2, EmptiedView
      <4> QED BY <1>1, <4>2, <4>3, ResultShown
    <3>3. CASE r.body # 0 /\ diff = viewer.diff
      <4>1. UNCHANGED <<viewer, preparing>> /\ detail' = None
        BY <3>1, <3>3 DEF RefreshShown, pane
      <4>2. diff # None /\ viewer.diff.of \in File
        BY <2>1, <2>2, <3>3, DiffPaneAssumption DEF DiffPaneAssumption
      <4>3. detail = None
        BY <3>3, <4>2 DEF IInv, RequestInv, PanelFollows
      <4> QED BY <1>1, <2>4, <4>1, <4>3, StaleDropped
    <3>4. CASE r.body # 0 /\ diff # viewer.diff
      <4>1. SetDiff(diff) /\ detail' = None
        BY <3>1, <3>4 DEF RefreshShown
      <4> QED BY <2>3, <4>1
    <3> QED BY <3>2, <3>3, <3>4
  <2>5. CASE r.kind # "refresh"
    <3>1. /\ SetDiff(diff)
          /\ detail' = IF r.kind = "search" THEN None ELSE detail
      BY <1>1, <1>4, <2>5 DEF DeliverFile
    <3>2. r.kind = "file" => detail = None
      BY <1>1, <2>1 DEF IInv, RequestInv, RequestsFenced
    <3> QED BY <1>1, <2>3, <2>5, <3>1, <3>2
  <2> QED BY <2>4, <2>5
<1> QED BY <1>1, <1>2, <1>3, <1>4

LEMMA DeliverConflictInv ==
    ASSUME IInv, NEW r \in Deliver({"conflict"}), DeliverConflict(r)
    PROVE  IInv'
<1> DEFINE diff == DiffOf(r.of, r.body)
<1>1. /\ r \in requests /\ r.kind = "conflict" /\ RequestOK(r)
      /\ requests' = requests \ {r}
      /\ UNCHANGED <<tree, conflicts, stashes, theme, known, selected, detail>>
      /\ r.stage \in {"read", "failed"}
  BY DEF Deliver, DeliverConflict, IInv, RequestInv, RequestOK, RequestType, Reading, repository
<1>2. CASE ~IsCurrent(r)
  <2>1. UNCHANGED <<viewer, preparing>>
    BY <1>2 DEF DeliverConflict, pane
  <2> QED BY <1>1, <2>1, StaleDropped
<1>3. CASE IsCurrent(r) /\ r.stage = "failed"
  <2>1. SetError /\ Live(r)
    BY <1>3 DEF DeliverConflict, IsCurrent, Live
  <2> QED BY <1>1, <2>1, ErrorShown
<1>4. CASE IsCurrent(r) /\ r.stage = "read"
  <2>1. Live(r) /\ selected = r.of /\ r.of \in File /\ r.body \in Body /\ SetThreeWay(diff)
    BY <1>1, <1>4, LiveWanted
       DEF IsCurrent, Live, Wanted, RequestOK, FileKind, DeliverConflict
  <2>2. diff \in Diff /\ diff.of = r.of
    BY <2>1 DEF DiffOf, Diff, Thing, Body, Place
  <2> HIDE DEF diff
  <2>3. /\ PaneInv' /\ viewer'.generation = viewer.generation + 1
        /\ viewer'.target = diff.of /\ viewer'.diff = None /\ viewer'.threeWay = diff
    BY <1>1, <2>1, <2>2, SetThreeWayPane DEF IInv
  <2>4. SelectedShown' /\ PanelFollows'
    BY <1>1, <2>1, <2>2, <2>3, DetailType DEF IInv, SelectedShown, PanelFollows
  <2> QED BY <1>1, <2>3, <2>4, ResultShown
<1> QED BY <1>1, <1>2, <1>3, <1>4

LEMMA DeliverStashInv ==
    ASSUME IInv, NEW r \in Deliver({"stash"}), DeliverStash(r)
    PROVE  IInv'
<1> DEFINE diff == DiffOf(r.label, r.body)
<1>1. /\ r \in requests /\ r.kind = "stash" /\ RequestOK(r)
      /\ requests' = requests \ {r}
      /\ UNCHANGED <<tree, conflicts, stashes, theme, known, selected>>
      /\ r.stage \in {"read", "failed"}
  BY DEF Deliver, DeliverStash, IInv, RequestInv, RequestOK, RequestType, Reading, repository
<1>2. CASE ~IsCurrent(r)
  <2>1. UNCHANGED <<viewer, preparing, detail>>
    BY <1>2 DEF DeliverStash, pane
  <2> QED BY <1>1, <2>1, StaleDropped
<1>3. CASE IsCurrent(r) /\ r.stage = "failed"
  <2>1. SetError /\ UNCHANGED detail /\ Live(r)
    BY <1>3 DEF DeliverStash, IsCurrent, Live
  <2> QED BY <1>1, <2>1, ErrorShown
<1>4. CASE IsCurrent(r) /\ r.stage = "read"
  <2>1. /\ Live(r) /\ selected = r.label /\ r.label \in Stash /\ r.body \in Body
        /\ SetDiff(diff) /\ detail' = diff
    BY <1>1, <1>4, LiveWanted DEF IsCurrent, Live, Wanted, RequestOK, DeliverStash
  <2>2. diff \in Diff /\ diff.of = r.label /\ diff.of \in Place
    BY <2>1 DEF DiffOf, Diff, Thing, Body, Place
  <2> HIDE DEF diff
  <2>3. /\ PaneInv' /\ viewer'.generation = viewer.generation + 1
        /\ viewer'.target = diff.of /\ viewer'.diff = diff /\ viewer'.threeWay = None
    BY <1>1, <2>1, <2>2, SetDiffPane DEF IInv
  <2>4. SelectedShown' /\ PanelFollows'
    BY <1>1, <2>1, <2>2, <2>3, PlaceShown
  <2> QED BY <1>1, <2>3, <2>4, ResultShown
<1> QED BY <1>1, <1>2, <1>3, <1>4

LEMMA DeliverCommitInv ==
    ASSUME IInv, NEW r \in Deliver({"commit", "navigate"}), DeliverCommit(r)
    PROVE  IInv'
<1> DEFINE diff == DiffOf(r.of, r.of)
<1>1. /\ r \in requests /\ r.kind \in {"commit", "navigate"} /\ RequestOK(r)
      /\ requests' = requests \ {r}
      /\ UNCHANGED <<tree, conflicts, stashes, theme, known, selected>>
      /\ r.stage \in {"read", "failed"} /\ r.of \in Commit
  BY DEF Deliver, DeliverCommit, IInv, RequestInv, RequestOK, RequestType, CommitKind, Reading,
         repository
<1>2. CASE ~IsCurrent(r)
  <2>1. UNCHANGED <<viewer, preparing, detail>>
    BY <1>2 DEF DeliverCommit, pane
  <2> QED BY <1>1, <2>1, StaleDropped
<1>3. CASE IsCurrent(r) /\ r.stage = "failed"
  <2>1. SetError /\ UNCHANGED detail /\ Live(r)
    BY <1>3 DEF DeliverCommit, IsCurrent, Live
  <2> QED BY <1>1, <2>1, ErrorShown
<1>4. CASE IsCurrent(r) /\ r.stage = "read"
  <2>1. Live(r) /\ selected = r.of /\ ShowCommit(r.of) /\ detail' = diff
    BY <1>1, <1>4, LiveWanted DEF IsCurrent, Live, Wanted, DeliverCommit
  <2>2. diff \in Diff /\ diff.of = r.of /\ diff.of \in Place
    BY <1>1, CommitDiff
  <2>3. /\ PaneInv' /\ viewer'.generation = viewer.generation + 1
        /\ viewer'.target \in {None, r.of} /\ viewer'.threeWay = None
        /\ viewer'.diff \in {None, diff}
    BY <1>1, <2>1, ShowCommitPane DEF IInv
  <2> HIDE DEF diff
  <2>4. SelectedShown'
    BY <1>1, <2>1, <2>2, <2>3 DEF SelectedShown
  <2>5. PanelFollows'
    <3>1. diff # None /\ diff.of \notin File
      BY <2>2, DiffPaneAssumption DEF DiffPaneAssumption, Place
    <3> QED BY <2>1, <2>2, <2>3, <3>1 DEF PanelFollows
  <2> QED BY <1>1, <2>3, <2>4, <2>5, ResultShown
<1> QED BY <1>1, <1>2, <1>3, <1>4

\* The diff a cache hit showed gets its detail panel.
LEMMA DeliverEnrichedInv ==
    ASSUME IInv, NEW r \in Deliver({"enrich"}), DeliverEnriched(r)
    PROVE  IInv'
<1>1. /\ r \in requests /\ r.kind = "enrich" /\ RequestOK(r) /\ r.of \in Commit
      /\ requests' = requests \ {r}
      /\ UNCHANGED <<tree, conflicts, stashes, theme, known, selected, viewer, preparing>>
  BY DEF Deliver, DeliverEnriched, IInv, RequestInv, RequestOK, CommitKind, repository, pane
<1>2. CASE ~IsCurrent(r)
  <2>1. detail' = detail /\ ~Live(r)
    BY <1>2 DEF DeliverEnriched, IsCurrent, Live
  <2> QED BY <1>1, <2>1, StaleDropped
<1>3. CASE IsCurrent(r)
  <2> DEFINE diff == DiffOf(r.of, r.of)
  <2>1. Live(r) /\ selected = r.of /\ detail' = diff
    BY <1>1, <1>3, LiveWanted DEF IsCurrent, Live, Wanted, DeliverEnriched
  <2>2. diff \in Diff /\ diff.of = r.of /\ r.of \in Place /\ r.of \notin File /\ diff # None
    BY <1>1, CommitDiff, DiffPaneAssumption DEF DiffPaneAssumption
  <2>3. viewer.diff \in {None, diff}
    BY <1>1, <2>1 DEF IInv, RequestInv, RequestsFenced
  <2> HIDE DEF diff
  <2>4. PaneInv' /\ SameView
    BY <1>1, PaneStays DEF IInv
  <2>5. \A q \in requests : Live(q) => q.kind # "file"
    BY <2>1, <2>2 DEF IInv, RequestInv, RequestOK, FileKind, RequestsFenced, Wanted
  <2>6. RequestsFenced'
    BY <1>1, <2>4, <2>5 DEF IInv, RequestInv, RequestsFenced, SameView, Live
  <2>7. PanelFollows'
    BY <1>1, <2>1, <2>2, <2>3 DEF PanelFollows
  <2>8. RequestInv'
    BY <1>1, <2>6, <2>7 DEF IInv, RequestInv, SelectedShown
  <2> QED BY <1>1, <2>4, <2>8 DEF IInv, RepositoryOK
<1> QED BY <1>2, <1>3

\* No event from outside happens more often than its bound allows.
BudgetOK == budget \in [BudgetKind -> Nat]

EventKind == BudgetKind \ {"total"}

LEMMA SpendBudget ==
    ASSUME BudgetOK, NEW kind \in EventKind, Spend(kind)
    PROVE  BudgetOK'
<1>1. budget[kind] \in Nat /\ budget[kind] > 0 /\ budget["total"] \in Nat /\ budget["total"] > 0
  BY DEF BudgetOK, Spend, BudgetKind, EventKind
<1>2. budget' = [budget EXCEPT ![kind] = @ - 1, !["total"] = @ - 1]
  BY DEF Spend
<1> QED BY <1>1, <1>2 DEF BudgetOK, BudgetKind, EventKind

LEMMA StepBudget ==
    ASSUME BudgetOK, [Next]_vars
    PROVE  BudgetOK'
<1>1. CASE \E kind \in EventKind : Spend(kind)
  BY <1>1, SpendBudget
<1>2. CASE UNCHANGED budget
  BY <1>2 DEF BudgetOK
<1>3. Select => \E kind \in EventKind : Spend(kind)
  BY DEF EventKind, BudgetKind, Select, SelectFile, SelectConflict, SelectStash, SelectCommit,
         SelectDetailFile, Navigate, ChooseSide
<1>4. Change => \E kind \in EventKind : Spend(kind)
  BY DEF EventKind, BudgetKind, Change, ChangeTheme, EditFile, DropStash, ReadFails
<1>5. Work => UNCHANGED budget \/ \E kind \in EventKind : Spend(kind)
  BY DEF EventKind, BudgetKind, Work, DeliverResult, Read, DeliverFile, DeliverConflict,
         DeliverStash, DeliverCommit, DeliverEnriched, RowsPrepared, StartPrefetch, FinishBatch,
         ProjectEvent
<1> QED BY <1>1, <1>2, <1>3, <1>4, <1>5 DEF Next, vars

\* What comes from outside leaves the screen to the event of the project.
LEMMA ChangeInv ==
    ASSUME IInv, BudgetOK, Change
    PROVE  IInv'
<1>1. CASE ChangeTheme
  <2>1. UNCHANGED <<tree, conflicts, stashes, known, requests, detail, selected>>
    BY <1>1 DEF ChangeTheme, repository
  <2>2. PaneInv' /\ SameView /\ theme' \in Theme
    BY <1>1, ChangeThemePane DEF IInv, SameView
  <2> QED BY <2>1, <2>2, RequestsStay DEF IInv, RepositoryOK
<1>2. ASSUME NEW f \in File, EditFile(f) PROVE IInv'
  <2>1. /\ UNCHANGED <<stashes, theme, known, viewer, preparing, requests, detail, selected>>
        /\ conflicts' \subseteq conflicts
    BY <1>2 DEF EditFile, pane
  <2>2. PICK version \in {0, budget["edit"] + 1} : tree' = [tree EXCEPT ![f] = version]
    BY <1>2 DEF EditFile
  <2>3. version \in Nat
    <3>1. budget["edit"] \in Nat
      BY DEF BudgetOK, BudgetKind
    <3> QED BY <2>2, <3>1
  <2> QED BY <2>1, <2>2, <2>3, PaneStays, RequestsStay DEF IInv, RepositoryOK
<1>3. ASSUME NEW i \in DOMAIN stashes, DropStash(i) PROVE IInv'
  <2>1. /\ UNCHANGED <<tree, conflicts, theme, known, viewer, preparing, requests, detail,
                       selected>>
        /\ stashes' = RemoveAt(stashes, i)
    BY <1>3 DEF DropStash, pane
  <2>2. stashes' \in Seq(Stash)
    BY <2>1 DEF IInv, RepositoryOK, RemoveAt
  <2> QED BY <2>1, <2>2, PaneStays, RequestsStay DEF IInv, RepositoryOK
<1> QED BY <1>1, <1>2, <1>3, ReadFailsInv DEF Change

\* A refresh reads what is shown, or is about to be, at the generation it has.
LEMMA ProjectEventInv ==
    ASSUME IInv, ProjectEvent
    PROVE  IInv'
<1>1. /\ known' = [conflicts |-> conflicts, stashes |-> stashes]
      /\ UNCHANGED <<tree, conflicts, stashes, theme, detail, selected>>
  BY DEF ProjectEvent, repository
<1>2. RepositoryOK'
  BY <1>1 DEF IInv, RepositoryOK
<1>3. CASE ConflictGone
  <2>1. Clear /\ UNCHANGED requests
    BY <1>3 DEF ProjectEvent
  <2>2. /\ PaneInv' /\ viewer'.generation = viewer.generation + 1
        /\ viewer'.target = None /\ viewer'.diff = None /\ viewer'.threeWay = None
    BY <1>1, <2>1, ClearPane DEF IInv
  <2>3. SelectedShown' /\ PanelFollows'
    BY <1>1, <2>2, EmptiedView, DetailType DEF IInv
  <2>4. requests' \subseteq requests \cup {None} /\ (None \in requests' \ requests => FALSE)
    BY <2>1
  <2>5. RequestInv'
    BY <1>1, <2>2, <2>3, <2>4, Counters, NewGeneration DEF IInv, RequestInv
  <2> QED BY <1>2, <2>2, <2>5 DEF IInv
<1>4. CASE ~ConflictGone /\ ~(viewer.target \in File /\ ~viewer.conflict)
  <2>1. UNCHANGED <<viewer, preparing, requests>>
    BY <1>4 DEF ProjectEvent, pane
  <2> QED BY <1>1, <1>2, <2>1, PaneStays, RequestsStay DEF IInv
<1>5. CASE ~ConflictGone /\ viewer.target \in File /\ ~viewer.conflict
  <2> DEFINE q == Request("refresh", viewer.target, None, 0)
  <2>1. UNCHANGED <<viewer, preparing>> /\ requests' = requests \cup {q}
    BY <1>5 DEF ProjectEvent, Ask, pane
  <2>2. viewer.target = selected /\ viewer.target \in Thing
    BY <1>5, DiffPaneAssumption
       DEF DiffPaneAssumption, IInv, RequestInv, SelectedShown, Thing
  <2>3. /\ RequestOK(q) /\ q.generation = viewer'.generation
        /\ q.kind = "refresh" /\ q.of = viewer.target
    <3>1. /\ "refresh" \in FileKind \cup {"stash"} /\ None \in Stash \cup {None} /\ 0 \in Nat
          /\ viewer.target \in Thing \cup {None} /\ "refresh" # "stash"
          /\ viewer'.generation = viewer.generation
      BY <2>1, <2>2 DEF FileKind
    <3> QED BY <1>5, <3>1, NewRequest DEF IInv
  <2> HIDE DEF q
  <2>4. PaneInv' /\ SameView
    BY <1>1, <2>1, PaneStays DEF IInv
  <2>5. viewer'.generation \in Nat
    BY <2>1, Counters DEF IInv
  <2>6. RequestsFenced'
    <3>1. \A r \in requests' : r \in requests \/ r = q
      BY <2>1
    <3> QED BY <1>1, <2>1, <2>2, <2>3, <2>5, <3>1 DEF IInv, RequestInv, RequestsFenced, Live, Wanted
  <2>7. PanelFollows'
    BY <1>1, <2>1 DEF IInv, RequestInv, PanelFollows, Live
  <2>8. RequestInv'
    BY <1>1, <2>1, <2>3, <2>6, <2>7 DEF IInv, RequestInv, SelectedShown
  <2> QED BY <1>2, <2>4, <2>8 DEF IInv
<1> QED BY <1>3, <1>4, <1>5

LEMMA WorkInv ==
    ASSUME IInv, Work
    PROVE  IInv'
<1>1. CASE DeliverResult
  BY <1>1, DeliverFileInv, DeliverConflictInv, DeliverStashInv, DeliverCommitInv,
     DeliverEnrichedInv DEF DeliverResult
<1>2. ASSUME NEW p \in preparing, RowsPrepared(p) PROVE IInv'
  <2>1. UNCHANGED <<tree, conflicts, stashes, theme, known, requests, detail, selected>>
    BY <1>2 DEF RowsPrepared, repository
  <2>2. PaneInv' /\ SameView
    BY <1>2, RowsPreparedPane DEF IInv, SameView
  <2> QED BY <2>1, <2>2, RequestsStay DEF IInv, RepositoryOK
<1>3. CASE StartPrefetch \/ FinishBatch
  <2>1. UNCHANGED <<tree, conflicts, stashes, theme, known, viewer, preparing, requests, detail,
                    selected>>
    BY <1>3 DEF StartPrefetch, FinishBatch, repository, pane
  <2> QED BY <2>1, PaneStays, RequestsStay DEF IInv, RepositoryOK
<1> QED BY <1>1, <1>2, <1>3, ReadInv, ProjectEventInv DEF Work

-----------------------------------------------------------------------------
(* What is shown is what was selected *)

LEMMA InitInv == Init => BudgetOK /\ IInv
<1> SUFFICES ASSUME Init PROVE BudgetOK /\ IInv
  OBVIOUS
<1>1. RepositoryOK
  BY DiffPaneAssumption DEF DiffPaneAssumption, Init, RepositoryOK
<1>2. viewer = NewViewer /\ preparing = {} /\ theme \in Theme
  BY DiffPaneAssumption DEF Init, DiffPaneAssumption
<1>3. PaneInv
  <2>1. NewViewer \in ViewerType
    BY DEF NewViewer, ViewerType, Side, Theme
  <2> QED BY <1>2, <2>1
          DEF PaneInv, PreparationsFenced, OneView, RowsFollowDiff, Current, NewViewer
<1>4. RequestInv
  BY <1>2 DEF Init, RequestInv, RequestsFenced, SelectedShown, PanelFollows, NewViewer
<1>5. BudgetOK
  BY DiffPaneAssumption DEF DiffPaneAssumption, Init, BudgetOK
<1> QED BY <1>1, <1>3, <1>4, <1>5 DEF IInv

LEMMA StepInv == BudgetOK /\ IInv /\ [Next]_vars => IInv'
<1> SUFFICES ASSUME BudgetOK, IInv, [Next]_vars PROVE IInv'
  OBVIOUS
<1>1. CASE Next
  BY <1>1, SelectInv, ChangeInv, WorkInv DEF Next
<1>2. CASE UNCHANGED vars
  <2>1. UNCHANGED <<tree, conflicts, stashes, theme, known, viewer, preparing, requests, detail,
                    selected>>
    BY <1>2 DEF vars, repository, pane
  <2> QED BY <2>1, PaneStays, RequestsStay DEF IInv, RepositoryOK
<1> QED BY <1>1, <1>2

\* What the viewer shows is what was selected last, its rows are of that diff, laid out for the
\* theme and the choice in force, and the detail panel lists the same commit or stash entry:
\* the generations of set_diff, clear, set_conflict_loading and rehighlight are enough, however
\* selections, results, refreshes, edits and theme changes fall between each other.
THEOREM ShownIsSelectedHolds == Spec => []ShownIsSelected
<1>1. Init => BudgetOK /\ IInv
  BY InitInv
<1>2. BudgetOK /\ IInv /\ [Next]_vars => (BudgetOK /\ IInv)'
  BY StepInv, StepBudget
<1>3. IInv => ShownIsSelected
  BY IInvShown
<1> QED BY <1>1, <1>2, <1>3, PTL DEF Spec

-----------------------------------------------------------------------------
(* The rows of a queue of keys *)

LEMMA Bounds ==
    /\ PrefetchWindow \in Nat \ {0} /\ BatchSize \in Nat \ {0} /\ MaxPending \in Nat \ {0}
    /\ CacheCapacity \in Nat \ {0} /\ DisplayEntries \in Nat \ {0}
    /\ DisplayRows \in Nat \ {0}
BY DiffPaneAssumption DEF DiffPaneAssumption

LEMMA RowCostType ==
    ASSUME NEW key \in Rows
    PROVE  RowCost(key) \in Nat \ {0}
BY DiffPaneAssumption DEF DiffPaneAssumption, RowCost, Rows, Diff

\* The recursion of RowsOf, written out.
Counts(f, s) ==
    /\ f \in [0..Len(s) -> Nat] /\ f[0] = 0
    /\ \A n \in 1..Len(s) : f[n] = f[n - 1] + RowCost(s[n])

\* The recursion of RowsOf has exactly one solution.
LEMMA RowsSteps ==
    ASSUME NEW s \in Seq(Rows)
    PROVE  \E f : Counts(f, s) /\ RowsOf(s) = f[Len(s)]
<1> DEFINE N == Len(s)
           step == [n \in 1..N |-> [r \in Nat |-> r + RowCost(s[n])]]
           rows[n \in 0..Len(s)] == IF n = 0 THEN 0 ELSE rows[n - 1] + RowCost(s[n])
<1>1. N \in Nat /\ \A n \in 1..N : s[n] \in Rows
  BY LenProperties
<1>2. \A n \in 1..N : \A r \in Nat : r + RowCost(s[n]) \in Nat
  BY <1>1, RowCostType
<1> HIDE DEF N
<1>3. step \in Steps(N, Nat)
  BY <1>2 DEF Steps
<1>4. \A n \in 1..N : \A r \in Nat : step[n][r] = r + RowCost(s[n])
  OBVIOUS
<1> HIDE DEF step
<1>5. PICK f : Follows(f, N, Nat, 0, step)
  BY <1>1, <1>3, Recursion
<1>6. f \in [0..N -> Nat] /\ f[0] = 0 /\ \A n \in 1..N : f[n] = f[n - 1] + RowCost(s[n])
  <2>1. \A n \in 1..N : n - 1 \in 0..N
    BY <1>1
  <2> QED BY <1>4, <1>5, <2>1 DEF Follows
<1>7. f = [n \in 0..N |-> IF n = 0 THEN 0 ELSE f[n - 1] + RowCost(s[n])]
  <2>1. \A n \in 0..N : f[n] = IF n = 0 THEN 0 ELSE f[n - 1] + RowCost(s[n])
    BY <1>1, <1>6
  <2> QED BY <1>6, <2>1
<1>8. rows = [n \in 0..N |-> IF n = 0 THEN 0 ELSE rows[n - 1] + RowCost(s[n])]
  BY <1>7, Zenon DEF N
<1>9. RowsOf(s) = rows[N]
  BY DEF RowsOf, N
<1> HIDE DEF rows
<1>10. rows[0] = f[0] /\ \A k \in 1..N : rows[k] = rows[k - 1] + RowCost(s[k])
  BY <1>1, <1>6, <1>8
<1>11. \A k \in 0..N : rows[k] = f[k]
  <2>1. InStep(rows, f, N)
    BY <1>6, <1>10 DEF InStep
  <2> QED BY <1>1, <2>1, SameSteps
<1>12. RowsOf(s) = f[N]
  BY <1>1, <1>9, <1>11
<1> QED BY <1>6, <1>12 DEF N, Counts

LEMMA RowsNone == RowsOf(<<>>) = 0
<1> DEFINE s == <<>>
<1>1. s \in Seq(Rows) /\ Len(s) = 0
  OBVIOUS
<1> HIDE DEF s
<1>2. PICK f : Counts(f, s) /\ RowsOf(s) = f[Len(s)]
  BY <1>1, RowsSteps
<1> QED BY <1>1, <1>2 DEF s, Counts

\* A key more costs its rows.
LEMMA RowsAppend ==
    ASSUME NEW q \in Seq(Rows), NEW e \in Rows
    PROVE  RowsOf(q) \in Nat /\ RowsOf(Append(q, e)) = RowsOf(q) + RowCost(e)
<1> DEFINE N == Len(q)
           t == Append(q, e)
<1>1. /\ N \in Nat /\ t \in Seq(Rows) /\ Len(t) = N + 1 /\ t[N + 1] = e
      /\ \A n \in 1..N : t[n] = q[n]
  BY AppendProperties, LenProperties
<1>2. PICK f : Counts(f, q) /\ RowsOf(q) = f[Len(q)]
  BY RowsSteps
<1> HIDE DEF t
<1>3. PICK g : Counts(g, t) /\ RowsOf(t) = g[Len(t)]
  BY <1>1, RowsSteps
<1>4. f[0] = g[0] /\ f[N] \in Nat /\ \A k \in 1..N : f[k] = f[k - 1] + RowCost(q[k])
  BY <1>1, <1>2, <1>3 DEF Counts
<1>5. \A k \in 1..N + 1 : g[k] = g[k - 1] + RowCost(t[k])
  BY <1>1, <1>3 DEF Counts
<1> HIDE DEF N
<1>6. InStep(f, g, N)
  BY <1>1, <1>4, <1>5 DEF InStep
<1>7. f[N] = g[N]
  <2>1. \A k \in 0..N : f[k] = g[k]
    BY <1>1, <1>6, SameSteps
  <2> QED BY <1>1, <2>1
<1>8. g[N + 1] = g[N] + RowCost(e)
  <2>1. N + 1 \in 1..N + 1 /\ N + 1 - 1 = N
    BY <1>1
  <2> QED BY <1>1, <1>5, <2>1
<1> QED BY <1>1, <1>2, <1>3, <1>4, <1>7, <1>8 DEF t, N

LEMMA RowsType ==
    ASSUME NEW q \in Seq(Rows)
    PROVE  RowsOf(q) \in Nat
<1>1. PICK f : Counts(f, q) /\ RowsOf(q) = f[Len(q)]
  BY RowsSteps
<1> QED BY <1>1, LenProperties DEF Counts

\* Rows add up.
LEMMA RowsConcat ==
    ASSUME NEW q \in Seq(Rows), NEW t \in Seq(Rows)
    PROVE  RowsOf(q \o t) = RowsOf(q) + RowsOf(t)
<1> DEFINE T == {s \in Seq(Rows) : RowsOf(q \o s) = RowsOf(q) + RowsOf(s)}
<1>1. <<>> \in T
  BY RowsNone, RowsType, ConcatEmptySeq, EmptySet
<1>2. ASSUME NEW s \in Seq(Rows), NEW e \in Rows, s \in T PROVE Append(s, e) \in T
  <2>1. q \o s \in Seq(Rows) /\ q \o Append(s, e) = Append(q \o s, e)
    OBVIOUS
  <2>2. /\ RowsOf(Append(q \o s, e)) = RowsOf(q \o s) + RowCost(e)
        /\ RowsOf(Append(s, e)) = RowsOf(s) + RowCost(e)
    BY <2>1, RowsAppend
  <2>3. RowsOf(q) \in Nat /\ RowsOf(s) \in Nat /\ RowCost(e) \in Nat
    BY RowsType, RowCostType
  <2>4. RowsOf(q \o s) = RowsOf(q) + RowsOf(s)
    BY <1>2
  <2>5. RowsOf(q \o Append(s, e)) = RowsOf(q) + RowsOf(Append(s, e))
    BY <2>1, <2>2, <2>3, <2>4
  <2> QED BY <2>5, AppendSet
<1>3. t \in T
  <2> HIDE DEF T
  <2> QED BY <1>1, <1>2, SequenceInduction
<1> QED BY <1>3

\* A key that is taken out takes its rows with it.
LEMMA RowsWithout ==
    ASSUME NEW key \in Rows, NEW q \in Seq(Rows), IsInjective(q), key \in ToSet(q)
    PROVE  RowsOf(Without(q, key)) + RowCost(key) = RowsOf(q)
<1> DEFINE keep == ToSet(q) \ {key}
           Good(s) == IsInjective(s) /\ ToSet(s) \subseteq keep \cup {key} =>
                          RowsOf(Kept(s, keep)) + (IF key \in ToSet(s) THEN RowCost(key) ELSE 0)
                              = RowsOf(s)
           T == {s \in Seq(Rows) : Good(s)}
<1> HIDE DEF keep
<1>0. key \notin keep /\ RowCost(key) \in Nat
  BY RowCostType DEF keep
<1>1. <<>> \in T
  <2>1. Good(<<>>)
    BY KeptNothing, EmptySet, RowsNone
  <2> QED BY <2>1
<1>2. ASSUME NEW s \in Seq(Rows), NEW e \in Rows, s \in T PROVE Append(s, e) \in T
  <2> DEFINE k == Kept(s, keep)
  <2>1. k \in Seq(Rows) /\ Good(s) /\ Kept(Append(s, e), keep) = KeepOne(k, e, keep)
    BY <1>2, KeptAppend
  <2>2. /\ RowsOf(Append(s, e)) = RowsOf(s) + RowCost(e) /\ RowsOf(s) \in Nat
        /\ RowsOf(Append(k, e)) = RowsOf(k) + RowCost(e) /\ RowsOf(k) \in Nat
        /\ RowCost(e) \in Nat
    BY <2>1, RowsAppend, RowCostType
  <2> HIDE DEF k
  <2> SUFFICES ASSUME IsInjective(Append(s, e)), ToSet(Append(s, e)) \subseteq keep \cup {key}
               PROVE  RowsOf(Kept(Append(s, e), keep))
                        + (IF key \in ToSet(Append(s, e)) THEN RowCost(key) ELSE 0)
                            = RowsOf(Append(s, e))
    BY AppendSet
  <2>4. /\ IsInjective(s) /\ e \notin ToSet(s) /\ ToSet(Append(s, e)) = ToSet(s) \cup {e}
        /\ ToSet(s) \subseteq keep \cup {key}
    BY AppendSet
  <2>5. RowsOf(k) + (IF key \in ToSet(s) THEN RowCost(key) ELSE 0) = RowsOf(s)
    BY <2>1, <2>4 DEF k
  <2>6. CASE e = key
    <3>1. Kept(Append(s, e), keep) = k
      BY <1>0, <2>1, <2>6 DEF KeepOne
    <3> QED BY <2>2, <2>4, <2>5, <2>6, <3>1
  <2>7. CASE e # key
    <3>1. e \in keep /\ Kept(Append(s, e), keep) = Append(k, e)
      BY <2>1, <2>4, <2>7 DEF KeepOne
    <3> QED BY <1>0, <2>2, <2>4, <2>5, <2>7, <3>1
  <2> QED BY <2>6, <2>7
<1>3. q \in T
  <2> HIDE DEF T
  <2> QED BY <1>1, <1>2, SequenceInduction
<1> QED BY <1>3 DEF keep, Without

-----------------------------------------------------------------------------
(* The cache of rows *)

\* What a cache of rows is, and the bounds it keeps.
Exact(cache) ==
    /\ cache \in [entries : SUBSET Rows, recency : Seq(Rows), rows : Nat]
    /\ IsInjective(cache.recency) /\ ToSet(cache.recency) = cache.entries
    /\ cache.rows = RowsOf(cache.recency)
    /\ Len(cache.recency) <= DisplayEntries /\ cache.rows <= DisplayRows

LEMMA ExactShown == Exact(displayCache) => DisplayCacheExact
<1> SUFFICES ASSUME Exact(displayCache) PROVE DisplayCacheExact
  OBVIOUS
<1>1. displayCache.recency \in Seq(Rows)
  BY DEF Exact
<1>2. /\ Cardinality(displayCache.entries) <= Len(displayCache.recency)
      /\ IsFiniteSet(displayCache.entries)
  BY <1>1, SetFinite DEF Exact
<1>3. Cardinality(displayCache.entries) <= DisplayEntries
  <2>1. Cardinality(displayCache.entries) \in Nat /\ Len(displayCache.recency) \in Nat
    BY <1>1, <1>2, FS_CardinalityType, LenProperties
  <2> QED BY <1>2, <2>1, Bounds DEF Exact
<1> QED BY <1>3 DEF Exact, DisplayCacheExact

LEMMA ExactNothing == Exact(NothingCached)
BY EmptySet, RowsNone, Bounds DEF Exact, NothingCached

LEMMA ExactTouch ==
    ASSUME NEW cache, Exact(cache), NEW key \in cache.entries
    PROVE  Exact([cache EXCEPT !.recency = Touch(@, key)])
<1> DEFINE q == cache.recency
<1>1. /\ q \in Seq(Rows) /\ IsInjective(q) /\ key \in ToSet(q) /\ key \in Rows
      /\ cache.rows = RowsOf(q)
  BY DEF Exact
<1> HIDE DEF q
<1>2. /\ Touch(q, key) \in Seq(Rows) /\ IsInjective(Touch(q, key))
      /\ ToSet(Touch(q, key)) = ToSet(q) /\ Len(Touch(q, key)) = Len(q)
  <2>1. ToSet(q) \cup {key} = ToSet(q)
    BY <1>1
  <2> QED BY <1>1, <2>1, TouchIs
<1>3. RowsOf(Touch(q, key)) = RowsOf(q)
  <2>1. Without(q, key) \in Seq(Rows)
    BY <1>1, WithoutIs
  <2>2. RowsOf(Without(q, key)) + RowCost(key) = RowsOf(q)
    BY <1>1, RowsWithout
  <2>3. RowsOf(Append(Without(q, key), key)) = RowsOf(Without(q, key)) + RowCost(key)
    BY <1>1, <2>1, RowsAppend
  <2> QED BY <2>2, <2>3 DEF Touch
<1> QED BY <1>1, <1>2, <1>3 DEF Exact, q

\* Forgetting a key leaves an exact cache without it.
LEMMA ExactForget ==
    ASSUME NEW cache, Exact(cache), NEW key \in Rows
    PROVE  Exact(Forget(cache, key)) /\ key \notin Forget(cache, key).entries
<1> DEFINE q == cache.recency
           w == Without(q, key)
<1>1. /\ q \in Seq(Rows) /\ IsInjective(q) /\ ToSet(q) = cache.entries
      /\ cache.rows = RowsOf(q) /\ cache.rows \in Nat /\ cache.entries \subseteq Rows
      /\ Len(q) <= DisplayEntries /\ cache.rows <= DisplayRows /\ Len(q) \in Nat
  BY LenProperties DEF Exact
<1> HIDE DEF q
<1>2. /\ w \in Seq(Rows) /\ IsInjective(w) /\ ToSet(w) = cache.entries \ {key}
      /\ key \in cache.entries => Len(w) + 1 = Len(q)
      /\ key \notin cache.entries => w = q
  BY <1>1, WithoutIs
<1>3. Len(w) \in Nat /\ RowsOf(w) \in Nat /\ RowCost(key) \in Nat
  BY <1>2, LenProperties, RowsType, RowCostType
<1>4. RowsOf(w) = cache.rows - (IF key \in cache.entries THEN RowCost(key) ELSE 0)
  <2>1. CASE key \in cache.entries
    <3>1. RowsOf(w) + RowCost(key) = RowsOf(q)
      BY <1>1, <2>1, RowsWithout
    <3> QED BY <1>1, <1>3, <2>1, <3>1
  <2>2. CASE key \notin cache.entries
    BY <1>1, <1>2, <2>2
  <2> QED BY <2>1, <2>2
<1>5. Len(w) <= DisplayEntries /\ RowsOf(w) <= DisplayRows
  BY <1>1, <1>2, <1>3, <1>4, Bounds
<1>6. Forget(cache, key) = [entries |-> cache.entries \ {key}, recency |-> w, rows |-> RowsOf(w)]
  BY <1>4 DEF Forget, q
<1> HIDE DEF w
<1> QED BY <1>1, <1>2, <1>3, <1>5, <1>6 DEF Exact

\* A non-empty set of natural numbers has a least element.
LEMMA LeastNatural ==
    ASSUME NEW T \in SUBSET Nat, T # {}
    PROVE  \E m \in T : \A n \in T : m <= n
<1>1. PICK m \in T : \A n \in T : ~(<<n, m>> \in OpToRel(<, Nat))
  BY NatLessThanWellFounded, WFMin, Zenon
<1>2. ASSUME NEW n \in T PROVE m <= n
  <2>1. ~(n < m)
    BY <1>1 DEF OpToRel
  <2> QED BY <2>1
<1> QED BY <1>2

\* What is left after evicting, and that it leaves room.
LEMMA ExactRoom ==
    ASSUME NEW cache, Exact(cache), NEW cost \in Nat, cost <= DisplayRows
    PROVE  LET room == MakeRoom(cache, cost)
           IN  /\ Exact(room) /\ room.entries \subseteq cache.entries
               /\ Len(room.recency) < DisplayEntries /\ room.rows + cost <= DisplayRows
<1> DEFINE q == cache.recency
           fits == {i \in 0..Len(q) :
                       /\ Len(q) - i < DisplayEntries
                       /\ cache.rows - RowsOf(SubSeq(q, 1, i)) + cost <= DisplayRows}
           n == CHOOSE i \in fits : \A j \in fits : i <= j
           a == SubSeq(q, 1, n)
           b == SubSeq(q, n + 1, Len(q))
<1>1. /\ q \in Seq(Rows) /\ IsInjective(q) /\ ToSet(q) = cache.entries /\ cache.rows = RowsOf(q)
      /\ cache.entries \subseteq Rows /\ Len(q) \in Nat /\ RowsOf(q) \in Nat
  BY LenProperties, RowsType DEF Exact
<1>2. MakeRoom(cache, cost) =
         [entries |-> cache.entries \ ToSet(a), recency |-> b, rows |-> cache.rows - RowsOf(a)]
  BY DEF MakeRoom
<1> HIDE DEF q
<1>3. Len(q) \in fits
  <2>1. SubSeq(q, 1, Len(q)) = q
    BY <1>1, SubSeqFull
  <2>2. RowsOf(q) - RowsOf(q) + cost <= DisplayRows /\ Len(q) - Len(q) < DisplayEntries
    BY <1>1, Bounds
  <2>3. Len(q) \in 0..Len(q)
    BY <1>1
  <2> QED BY <1>1, <2>1, <2>2, <2>3
<1>4. n \in fits
  <2>1. fits \in SUBSET Nat /\ fits # {}
    BY <1>1, <1>3
  <2> HIDE DEF fits
  <2>2. \E i \in fits : \A j \in fits : i <= j
    BY <2>1, LeastNatural
  <2> QED BY <2>2
<1>5. /\ n \in 0..Len(q) /\ Len(q) - n < DisplayEntries
      /\ cache.rows - RowsOf(a) + cost <= DisplayRows
  BY <1>4
<1> HIDE DEF n, fits
<1>6. a \in Seq(Rows) /\ b \in Seq(Rows) /\ q = a \o b /\ Len(b) = Len(q) - n
  BY <1>1, <1>5, Split
<1> HIDE DEF a, b
<1>7. /\ IsInjective(b) /\ ToSet(a) \cap ToSet(b) = {} /\ ToSet(q) = ToSet(a) \cup ToSet(b)
  BY <1>1, <1>6, ConcatSet
<1>8. RowsOf(q) = RowsOf(a) + RowsOf(b) /\ RowsOf(a) \in Nat /\ RowsOf(b) \in Nat
  BY <1>6, RowsConcat, RowsType
<1>9. /\ ToSet(b) = cache.entries \ ToSet(a) /\ RowsOf(b) = cache.rows - RowsOf(a)
      /\ Len(b) < DisplayEntries /\ RowsOf(b) + cost <= DisplayRows /\ RowsOf(b) <= DisplayRows
  BY <1>1, <1>5, <1>6, <1>7, <1>8, Bounds
<1>10. MakeRoom(cache, cost) = [entries |-> ToSet(b), recency |-> b, rows |-> RowsOf(b)]
  BY <1>2, <1>9
<1>11. Len(b) <= DisplayEntries
  BY <1>6, <1>9, LenProperties, Bounds
<1> DEFINE room == MakeRoom(cache, cost)
<1>12. room.entries = ToSet(b) /\ room.recency = b /\ room.rows = RowsOf(b)
  BY <1>10
<1>13. ToSet(b) \subseteq cache.entries
  BY <1>1, <1>7
<1>14. room \in [entries : SUBSET Rows, recency : Seq(Rows), rows : Nat]
  BY <1>1, <1>6, <1>8, <1>10, <1>13
<1> HIDE DEF room
<1>15. Exact(room)
  BY <1>7, <1>9, <1>11, <1>12, <1>14 DEF Exact
<1> QED BY <1>9, <1>12, <1>13, <1>15 DEF room

\* Whatever is cached, and whatever that replaces or evicts, the cache stays exact.
LEMMA ExactCached ==
    ASSUME NEW cache, Exact(cache), NEW key \in Rows
    PROVE  Exact(Cached(cache, key))
<1> DEFINE left == Forget(cache, key)
           cost == RowCost(key)
           room == MakeRoom(left, cost)
           q == room.recency
<1>1. Exact(left) /\ key \notin left.entries /\ cost \in Nat
  BY ExactForget, RowCostType
<1>2. CASE cost > DisplayRows
  BY <1>1, <1>2 DEF Cached
<1>3. CASE ~(cost > DisplayRows)
  <2>1. Cached(cache, key) = [entries |-> room.entries \cup {key}, recency |-> Append(q, key),
                              rows |-> room.rows + cost]
    BY <1>3 DEF Cached
  <2> HIDE DEF left, cost
  <2>2. cost <= DisplayRows
    BY <1>1, <1>3, Bounds
  <2>3. /\ Exact(room) /\ room.entries \subseteq left.entries /\ Len(q) < DisplayEntries
        /\ room.rows + cost <= DisplayRows
    BY <1>1, <2>2, ExactRoom
  <2> HIDE DEF room
  <2>4. /\ q \in Seq(Rows) /\ IsInjective(q) /\ ToSet(q) = room.entries /\ room.rows = RowsOf(q)
        /\ room.entries \subseteq Rows /\ room.rows \in Nat /\ Len(q) \in Nat
    BY <2>3, LenProperties DEF Exact
  <2> HIDE DEF q
  <2>5. /\ Append(q, key) \in Seq(Rows) /\ IsInjective(Append(q, key))
        /\ ToSet(Append(q, key)) = room.entries \cup {key} /\ Len(Append(q, key)) = Len(q) + 1
    BY <1>1, <2>3, <2>4, AppendSet
  <2>6. RowsOf(Append(q, key)) = room.rows + cost
    BY <2>4, RowsAppend DEF cost
  <2>7. Len(q) + 1 <= DisplayEntries /\ room.rows + cost \in Nat
    BY <1>1, <2>3, <2>4, Bounds
  <2> QED BY <2>1, <2>3, <2>4, <2>5, <2>6, <2>7 DEF Exact
<1> QED BY <1>2, <1>3

-----------------------------------------------------------------------------
(* The commit diffs held *)

\* The commit diffs held: a bounded queue that lists no commit twice.
HeldOK(cache) ==
    cache \in Seq(Commit) /\ IsInjective(cache) /\ Len(cache) <= CacheCapacity

LEMMA LookupHeld ==
    ASSUME NEW cache, HeldOK(cache), NEW key \in Commit
    PROVE  HeldOK(Lookup(cache, key))
<1>1. CASE Holds(cache, key)
  BY <1>1, HoldsIs, TouchIs DEF HeldOK, Lookup
<1>2. CASE ~Holds(cache, key)
  BY <1>2 DEF Lookup
<1> QED BY <1>1, <1>2

\* An insertion never exceeds the capacity: a new key takes the place of the oldest.
LEMMA InsertHeld ==
    ASSUME NEW cache, HeldOK(cache), NEW key \in Commit
    PROVE  HeldOK(Insert(cache, key, CacheCapacity))
<1>1. cache \in Seq(Commit) /\ IsInjective(cache) /\ Len(cache) <= CacheCapacity
  BY DEF HeldOK
<1>2. Len(cache) \in Nat /\ CacheCapacity \in Nat \ {0}
  BY <1>1, LenProperties, Bounds
<1>3. CASE key \in ToSet(cache)
  <2>1. Insert(cache, key, CacheCapacity) = Touch(cache, key)
    BY <1>3, HoldsIs DEF Insert
  <2> QED BY <1>1, <1>3, <2>1, TouchIs DEF HeldOK
<1>4. CASE key \notin ToSet(cache)
  <2> DEFINE q == IF Len(cache) >= CacheCapacity THEN Tail(cache) ELSE cache
  <2>1. Insert(cache, key, CacheCapacity) = Append(q, key)
    BY <1>4, HoldsIs DEF Insert
  <2>2. q \in Seq(Commit) /\ IsInjective(q) /\ key \notin ToSet(q) /\ Len(q) + 1 <= CacheCapacity
    <3>1. CASE Len(cache) >= CacheCapacity
      <4>1. cache # <<>> /\ 1 \in 0..Len(cache)
        BY <1>2, <3>1, EmptySet
      <4>2. q = SubSeq(cache, 1 + 1, Len(cache))
        BY <1>1, <3>1, <4>1, TailIsSubSeq
      <4> DEFINE a == SubSeq(cache, 1, 1)
      <4>3. a \in Seq(Commit) /\ q \in Seq(Commit) /\ cache = a \o q /\ Len(q) = Len(cache) - 1
        BY <1>1, <4>1, <4>2, Split
      <4> HIDE DEF a, q
      <4>4. IsInjective(q) /\ ToSet(cache) = ToSet(a) \cup ToSet(q)
        BY <1>1, <4>3, ConcatSet
      <4> QED BY <1>1, <1>2, <1>4, <4>3, <4>4
    <3>2. CASE ~(Len(cache) >= CacheCapacity)
      BY <1>1, <1>2, <1>4, <3>2
    <3> QED BY <3>1, <3>2
  <2> HIDE DEF q
  <2>3. /\ Append(q, key) \in Seq(Commit) /\ IsInjective(Append(q, key))
        /\ Len(Append(q, key)) = Len(q) + 1
    BY <2>2, AppendSet
  <2> QED BY <2>1, <2>2, <2>3 DEF HeldOK
<1> QED BY <1>3, <1>4

\* So does a batch, in whatever order its diffs arrive.
LEMMA BatchHeld ==
    ASSUME HeldOK(commitCache), NEW batch \in Seq(Commit), NEW order \in SetToSeqs(ToSet(batch))
    PROVE  HeldOK(InsertAll(commitCache, order, CacheCapacity))
<1> DEFINE S == {q \in Seq(Commit) : HeldOK(q)}
           N == Cardinality(ToSet(batch))
<1>1. N \in Nat
  BY SetFinite, FS_CardinalityType
<1>2. ToSet(batch) \subseteq Commit
  BY LenProperties DEF ToSet
<1>3. order \in Seq(Commit)
  <2>1. order \in [1..N -> ToSet(batch)]
    BY DEF SetToSeqs
  <2> HIDE DEF N
  <2>2. order \in [1..N -> Commit]
    BY <1>2, <2>1
  <2> QED BY <1>1, <2>2
<1>4. commitCache \in S /\ \A q \in S : \A k \in Commit : Insert(q, k, CacheCapacity) \in S
  <2>1. \A q \in S : \A k \in Commit : HeldOK(Insert(q, k, CacheCapacity))
    BY InsertHeld
  <2> QED BY <2>1 DEF HeldOK
<1> HIDE DEF S
<1>5. InsertAll(commitCache, order, CacheCapacity) \in S
  BY <1>3, <1>4, InsertAllIn
<1> QED BY <1>5 DEF S

-----------------------------------------------------------------------------
(* The queue of the scheduler *)

\* The scheduler, with the types of what it keeps.
PrefetchOK ==
    /\ prefetch \in [pending : Seq(Commit), scheduled : SUBSET Commit, running : BOOLEAN,
                     batch : Seq(Commit)]
    /\ PrefetchExact

\* A batch is taken when what is scheduled is what waits.
LEMMA TakeBatchIs ==
    ASSUME NEW state, state \in [pending : Seq(Commit), scheduled : SUBSET Commit,
                                 running : BOOLEAN, batch : Seq(Commit)],
           IsInjective(state.pending), state.scheduled = ToSet(state.pending),
           Len(state.pending) <= MaxPending, prefetch' = TakeBatch(state)
    PROVE  PrefetchOK'
<1> DEFINE q == state.pending
           rest == Len(q) - BatchSize
           from == IF rest > 0 THEN rest ELSE 0
           a == SubSeq(q, 1, from)
           b == SubSeq(q, from + 1, Len(q))
<1>1. q \in Seq(Commit) /\ Len(q) \in Nat /\ BatchSize \in Nat /\ MaxPending \in Nat
  BY LenProperties, Bounds
<1>2. from \in 0..Len(q)
  BY <1>1
<1>3. prefetch' = [state EXCEPT !.pending = a, !.batch = b, !.running = (q # <<>>)]
  BY DEF TakeBatch
<1> HIDE DEF q, from
<1>4. a \in Seq(Commit) /\ b \in Seq(Commit) /\ q = a \o b /\ Len(a) = from
  BY <1>1, <1>2, Split
<1> HIDE DEF a, b
<1>5. /\ prefetch'.pending = a /\ prefetch'.batch = b /\ prefetch'.running = (q # <<>>)
      /\ prefetch'.scheduled = state.scheduled
      /\ prefetch' \in [pending : Seq(Commit), scheduled : SUBSET Commit, running : BOOLEAN,
                        batch : Seq(Commit)]
  BY <1>3, <1>4
<1>6. Len(a) <= MaxPending
  BY <1>1, <1>2, <1>4 DEF q
<1>7. q = <<>> => state.scheduled = {}
  BY EmptySet DEF q
<1> QED BY <1>4, <1>5, <1>6, <1>7 DEF PrefetchOK, PrefetchExact, q

LEMMA StartPrefetchOK ==
    ASSUME PrefetchOK, StartPrefetch
    PROVE  PrefetchOK'
<1>1. prefetch.batch = <<>> /\ prefetch' = TakeBatch(prefetch)
  BY DEF StartPrefetch
<1>2. prefetch.pending \in Seq(Commit) /\ prefetch.pending \o prefetch.batch = prefetch.pending
  BY <1>1, ConcatEmptySeq DEF PrefetchOK
<1> QED BY <1>1, <1>2, TakeBatchIs DEF PrefetchOK, PrefetchExact

\* A batch that is done is no longer scheduled, and the next one is taken from the queue.
LEMMA FinishBatchOK ==
    ASSUME PrefetchOK, HeldOK(commitCache), FinishBatch
    PROVE  PrefetchOK' /\ HeldOK(commitCache')
<1> DEFINE state == [prefetch EXCEPT !.scheduled = @ \ ToSet(prefetch.batch)]
<1>1. /\ prefetch.pending \in Seq(Commit) /\ prefetch.batch \in Seq(Commit)
      /\ IsInjective(prefetch.pending \o prefetch.batch)
      /\ prefetch.scheduled = ToSet(prefetch.pending \o prefetch.batch)
  BY DEF PrefetchOK, PrefetchExact
<1>2. /\ IsInjective(prefetch.pending)
      /\ prefetch.scheduled = ToSet(prefetch.pending) \cup ToSet(prefetch.batch)
      /\ ToSet(prefetch.pending) \cap ToSet(prefetch.batch) = {}
  BY <1>1, ConcatSet
<1>3. /\ state.pending = prefetch.pending
      /\ state.scheduled = ToSet(prefetch.pending)
      /\ state \in [pending : Seq(Commit), scheduled : SUBSET Commit, running : BOOLEAN,
                    batch : Seq(Commit)]
  BY <1>2 DEF PrefetchOK
<1>4. prefetch' = TakeBatch(state)
  BY DEF FinishBatch
<1> HIDE DEF state
<1>5. PrefetchOK'
  BY <1>2, <1>3, <1>4, TakeBatchIs DEF PrefetchOK, PrefetchExact
<1>6. HeldOK(commitCache')
  <2>1. CASE UNCHANGED commitCache
    BY <2>1
  <2>2. CASE \E order \in SetToSeqs(ToSet(prefetch.batch)) :
                commitCache' = InsertAll(commitCache, order, CacheCapacity)
    BY <1>1, <2>2, BatchHeld
  <2> QED BY <2>1, <2>2 DEF FinishBatch
<1> QED BY <1>5, <1>6

\* What a reservation drops past the cap is no longer scheduled.
LEMMA ReserveOK ==
    ASSUME PrefetchOK, NEW commits \in Seq(Commit), IsInjective(commits),
           prefetch' = Reserve(commits)
    PROVE  PrefetchOK'
<1> DEFINE wanted == Kept(commits, Commit \ ToSet(commitCache))
           fresh == Kept(wanted, Commit \ prefetch.scheduled)
           p == prefetch.pending
           batch == prefetch.batch
           queue == p \o fresh
           excess == IF Len(queue) > MaxPending THEN Len(queue) - MaxPending ELSE 0
           a == SubSeq(queue, 1, excess)
           b == SubSeq(queue, excess + 1, Len(queue))
           sched == (prefetch.scheduled \cup ToSet(wanted)) \ ToSet(a)
<1>1. /\ p \in Seq(Commit) /\ batch \in Seq(Commit) /\ IsInjective(p \o batch)
      /\ prefetch.scheduled = ToSet(p \o batch) /\ prefetch.scheduled \subseteq Commit
      /\ prefetch.running \in BOOLEAN
      /\ ~prefetch.running => prefetch.scheduled = {}
  BY DEF PrefetchOK, PrefetchExact
<1>2. /\ wanted \in Seq(Commit) /\ IsInjective(wanted)
      /\ fresh \in Seq(Commit) /\ IsInjective(fresh)
      /\ ToSet(fresh) = ToSet(wanted) \cap (Commit \ prefetch.scheduled)
  BY KeptIs
<1>3. CASE wanted = <<>>
  <2>1. prefetch' = prefetch
    BY <1>3 DEF Reserve
  <2> QED BY <2>1 DEF PrefetchOK, PrefetchExact
<1>4. CASE wanted # <<>>
  <2>1. prefetch' = [prefetch EXCEPT !.pending = b, !.scheduled = sched,
                                     !.running = @ \/ queue # <<>>]
    BY <1>4 DEF Reserve
  <2>2. ToSet(wanted) \subseteq Commit
    BY <1>2, LenProperties DEF ToSet
  <2> HIDE DEF wanted, fresh, p, batch
  <2>3. /\ IsInjective(p) /\ IsInjective(batch) /\ ToSet(p) \cap ToSet(batch) = {}
        /\ prefetch.scheduled = ToSet(p) \cup ToSet(batch)
    BY <1>1, ConcatSet
  <2>4. ToSet(fresh) \cap ToSet(p) = {} /\ ToSet(fresh) \cap ToSet(batch) = {}
    BY <1>2, <2>3
  <2>5. /\ queue \in Seq(Commit) /\ ToSet(queue) = ToSet(p) \cup ToSet(fresh)
        /\ IsInjective(queue) /\ Len(queue) \in Nat
    BY <1>1, <1>2, <2>3, <2>4, ConcatSet, LenProperties
  <2> HIDE DEF queue
  <2>6. excess \in 0..Len(queue) /\ Len(queue) - excess <= MaxPending
    BY <2>5, Bounds
  <2> HIDE DEF excess
  <2>7. /\ a \in Seq(Commit) /\ b \in Seq(Commit) /\ queue = a \o b
        /\ Len(b) = Len(queue) - excess
    BY <2>5, <2>6, Split
  <2> HIDE DEF a, b
  <2>8. /\ IsInjective(b) /\ ToSet(a) \cap ToSet(b) = {} /\ ToSet(queue) = ToSet(a) \cup ToSet(b)
    BY <2>5, <2>7, ConcatSet
  <2>9. ToSet(b) \cap ToSet(batch) = {}
    BY <2>3, <2>4, <2>5, <2>8
  <2>10. sched = ToSet(b) \cup ToSet(batch)
    <3>1. prefetch.scheduled \cup ToSet(wanted) = ToSet(queue) \cup ToSet(batch)
      BY <1>2, <2>2, <2>3, <2>5
    <3>2. ToSet(a) \cap ToSet(batch) = {}
      BY <2>3, <2>4, <2>5, <2>8
    <3> QED BY <2>8, <3>1, <3>2
  <2>11. IsInjective(b \o batch) /\ ToSet(b \o batch) = sched
    BY <1>1, <2>3, <2>7, <2>8, <2>9, <2>10, ConcatSet
  <2>12. sched \subseteq Commit
    BY <1>1, <2>2
  <2> HIDE DEF sched
  <2>13. /\ prefetch'.pending = b /\ prefetch'.scheduled = sched /\ prefetch'.batch = batch
         /\ prefetch'.running = (prefetch.running \/ queue # <<>>)
         /\ prefetch' \in [pending : Seq(Commit), scheduled : SUBSET Commit, running : BOOLEAN,
                           batch : Seq(Commit)]
    BY <2>1, <2>7, <2>12 DEF PrefetchOK, batch
  <2>14. ~prefetch'.running => sched = {}
    <3> SUFFICES ASSUME ~prefetch.running, queue = <<>> PROVE sched = {}
      BY <2>13
    <3>1. ToSet(b) = {} /\ ToSet(batch) = {}
      BY <1>1, <2>3, <2>8, EmptySet
    <3> QED BY <2>10, <3>1
  <2> QED BY <2>6, <2>7, <2>11, <2>13, <2>14 DEF PrefetchOK, PrefetchExact
<1> QED BY <1>3, <1>4

\* The two places at a distance from one, if they exist.
Ring(n, d) == Kept(<<n - d, n + d>>, DOMAIN History)

\* Places of the history up to a distance, none of them twice.
Around(s, n, d) ==
    /\ s \in Seq(Int) /\ IsInjective(s)
    /\ ToSet(s) \subseteq (DOMAIN History) \cap (n - d)..(n + d)

LEMMA RingIs ==
    ASSUME NEW n \in Int, NEW d \in Nat \ {0}
    PROVE  /\ Ring(n, d) \in Seq(Int) /\ IsInjective(Ring(n, d))
           /\ ToSet(Ring(n, d)) \subseteq (DOMAIN History) \cap {n - d, n + d}
<1> DEFINE two == <<n - d, n + d>>
<1>1. two \in Seq(Int) /\ Len(two) = 2 /\ two[1] = n - d /\ two[2] = n + d
      /\ DOMAIN two = 1..2
  OBVIOUS
<1> HIDE DEF two
<1>2. IsInjective(two)
  BY <1>1 DEF IsInjective
<1>3. ToSet(two) \subseteq {n - d, n + d}
  BY <1>1 DEF ToSet
<1> QED BY <1>1, <1>2, <1>3, KeptIs DEF Ring, two

LEMMA AroundStep ==
    ASSUME NEW n \in Int, NEW d \in Nat \ {0}, NEW s, Around(s, n, d - 1)
    PROVE  Around(s \o Ring(n, d), n, d)
<1> DEFINE r == Ring(n, d)
<1>1. /\ r \in Seq(Int) /\ IsInjective(r) /\ ToSet(r) \subseteq DOMAIN History
      /\ ToSet(r) \subseteq {n - d, n + d}
  BY RingIs
<1>2. /\ s \in Seq(Int) /\ IsInjective(s) /\ ToSet(s) \subseteq DOMAIN History
      /\ ToSet(s) \subseteq (n - (d - 1))..(n + (d - 1))
  BY DEF Around
<1> HIDE DEF r
<1>3. ToSet(s) \cap ToSet(r) = {} /\ ToSet(s) \cup ToSet(r) \subseteq (n - d)..(n + d)
  <2>1. \A x \in ToSet(s) : x \in Int /\ n - d < x /\ x < n + d
    BY <1>2
  <2>2. \A x \in ToSet(r) : x = n - d \/ x = n + d
    BY <1>1
  <2>3. n - d \in (n - d)..(n + d) /\ n + d \in (n - d)..(n + d)
    OBVIOUS
  <2> QED BY <2>1, <2>2, <2>3
<1>4. /\ s \o r \in Seq(Int) /\ IsInjective(s \o r) /\ ToSet(s \o r) = ToSet(s) \cup ToSet(r)
  BY <1>1, <1>2, <1>3, ConcatSet
<1> QED BY <1>1, <1>2, <1>3, <1>4 DEF Around, r

\* The history names no commit twice, so the commits around one are distinct.
LEMMA HistoryIs ==
    /\ History \in Seq(Commit) /\ IsInjective(History)
    /\ \A c \in Commit : \E i \in DOMAIN History : History[i] = c
BY DiffPaneAssumption DEF DiffPaneAssumption, Commit, ToSet

\* The commits around one are commits of the history, and none comes twice.
LEMMA NeighboursIs ==
    ASSUME NEW commit \in Commit
    PROVE  Neighbours(commit) \in Seq(Commit) /\ IsInjective(Neighbours(commit))
<1> DEFINE n == CHOOSE i \in DOMAIN History : History[i] = commit
           W == PrefetchWindow
           none == <<>>
           S == Seq(Int)
           step == [d \in 1..W |-> [r \in S |-> r \o Ring(n, d)]]
           places[d \in 0..PrefetchWindow] ==
               IF d = 0 THEN <<>>
               ELSE places[d - 1] \o Kept(<<n - d, n + d>>, DOMAIN History)
           near == places[PrefetchWindow]
<1>1. n \in DOMAIN History
  BY HistoryIs
<1>2. n \in Int
  BY <1>1, HistoryIs, LenProperties
<1>3. W \in Nat /\ none \in S /\ Around(none, n, 0)
  BY Bounds, EmptySet DEF Around
<1> HIDE DEF n, W, none
<1>4. \A d \in 1..W : \A r \in S : r \o Ring(n, d) \in S
  <2>1. \A d \in 1..W : Ring(n, d) \in S
    BY <1>2, <1>3, RingIs
  <2> QED BY <2>1, ConcatProperties
<1> HIDE DEF S
<1>5. step \in Steps(W, S)
  BY <1>4 DEF Steps
<1>6. \A d \in 1..W : \A r \in S : step[d][r] = r \o Ring(n, d)
  OBVIOUS
<1> HIDE DEF step
<1>7. PICK f : Follows(f, W, S, none, step)
  BY <1>3, <1>5, Recursion
<1>8. f \in [0..W -> S] /\ f[0] = none /\ \A d \in 1..W : f[d] = f[d - 1] \o Ring(n, d)
  <2>1. \A d \in 1..W : d - 1 \in 0..W
    BY <1>3
  <2> QED BY <1>6, <1>7, <2>1 DEF Follows
<1>9. f = [d \in 0..W |-> IF d = 0 THEN none ELSE f[d - 1] \o Ring(n, d)]
  <2>1. \A d \in 0..W : f[d] = IF d = 0 THEN none ELSE f[d - 1] \o Ring(n, d)
    BY <1>3, <1>8
  <2> QED BY <1>8, <2>1
<1>10. places = [d \in 0..W |-> IF d = 0 THEN none ELSE places[d - 1] \o Ring(n, d)]
  BY <1>9, Zenon DEF W, none, Ring
<1>11. Neighbours(commit) = [i \in DOMAIN near |-> History[near[i]]]
  BY DEF Neighbours, n
<1>12. near = places[W]
  BY DEF W
<1> HIDE DEF places, near
<1>13. places[0] = none /\ \A d \in 1..W : places[d] = places[d - 1] \o Ring(n, d)
  <2>1. \A d \in 0..W : places[d] = IF d = 0 THEN none ELSE places[d - 1] \o Ring(n, d)
    BY <1>10, Zenon
  <2>2. 0 \in 0..W /\ \A d \in 1..W : d \in 0..W /\ d # 0
    BY <1>3
  <2> QED BY <2>1, <2>2, Zenon
<1>14. Around(places[W], n, W)
  <2> DEFINE T == {d \in 0..W : Around(places[d], n, d)}
  <2>1. 0 \in T
    BY <1>3, <1>13
  <2>2. \A d \in 1..W : d - 1 \in T => d \in T
    <3> SUFFICES ASSUME NEW d \in 1..W, d - 1 \in T PROVE d \in T
      OBVIOUS
    <3>1. d \in Nat \ {0} /\ d \in 0..W
      BY <1>3
    <3>2. Around(places[d - 1], n, d - 1)
      OBVIOUS
    <3>3. Around(places[d - 1] \o Ring(n, d), n, d)
      BY <1>2, <3>1, <3>2, AroundStep
    <3> QED BY <1>13, <3>1, <3>3
  <2>3. 0..W \subseteq T
    <3> HIDE DEF T
    <3> QED BY <1>3, <2>1, <2>2, CountUp
  <2> QED BY <1>3, <2>3
<1>15. near \in Seq(Int) /\ IsInjective(near) /\ ToSet(near) \subseteq DOMAIN History
  BY <1>12, <1>14 DEF Around
<1>16. Len(near) \in Nat /\ DOMAIN near = 1..Len(near)
  BY <1>15, LenProperties
<1>17. \A i \in DOMAIN near : near[i] \in DOMAIN History
  BY <1>15 DEF ToSet
<1>18. \A i \in DOMAIN History : History[i] \in Commit
  BY HistoryIs, LenProperties
<1> DEFINE shown == [i \in DOMAIN near |-> History[near[i]]]
<1>19. shown \in Seq(Commit)
  BY <1>16, <1>17, <1>18
<1>20. IsInjective(shown)
  BY <1>15, <1>17, HistoryIs DEF IsInjective
<1> QED BY <1>11, <1>19, <1>20

-----------------------------------------------------------------------------
(* What a step does to the pane *)

\* Every step leaves the viewer and its rows alone, or does one of these.
PaneStep ==
    \/ UNCHANGED <<viewer, displayCache>>
    \/ \E diff \in Diff : SetDiff(diff)
    \/ Clear
    \/ \E target \in Thing \cup {None} : BeginLoading(target)
    \/ \E file \in File : BeginConflict(file)
    \/ \E diff \in Diff : SetThreeWay(diff)
    \/ SetError
    \/ \E side \in Side : ChooseSide(side)
    \/ ChangeTheme
    \/ \E p \in preparing : RowsPrepared(p)

LEMMA SelectMoves ==
    ASSUME IInv, Select
    PROVE  PaneStep
<1>0. File \subseteq Thing /\ Commit \subseteq Thing
  BY DEF Thing
<1>1. ASSUME NEW f \in File, SelectFile(f, "file") \/ SelectFile(f, "search") PROVE PaneStep
  BY <1>0, <1>1 DEF SelectFile, PaneStep
<1>2. ASSUME NEW f \in File, SelectConflict(f) PROVE PaneStep
  BY <1>2 DEF SelectConflict, PaneStep
<1>3. ASSUME NEW i \in DOMAIN known.stashes, SelectStash(i) PROVE PaneStep
  BY <1>3 DEF SelectStash, PaneStep
<1>4. ASSUME NEW c \in Commit, SelectCommit(c) PROVE PaneStep
  BY <1>4, CommitDiff DEF SelectCommit, ShowCommit, PaneStep
<1>5. CASE SelectDetailFile
  <2>1. detail \in Diff /\ SetDiff(detail)
    BY <1>5, DetailType DEF SelectDetailFile, IInv
  <2> QED BY <2>1 DEF PaneStep
<1>6. CASE Navigate
  BY <1>6 DEF Navigate, PaneStep
<1>7. ASSUME NEW side \in {"ours", "theirs", None}, ChooseSide(side) PROVE PaneStep
  BY <1>7 DEF PaneStep, Side
<1> QED BY <1>1, <1>2, <1>3, <1>4, <1>5, <1>6, <1>7 DEF Select

LEMMA DeliverMoves ==
    ASSUME IInv, DeliverResult
    PROVE  PaneStep
<1>0. \A r \in requests : RequestOK(r)
  BY DEF IInv, RequestInv
<1>1. ASSUME NEW r \in Deliver({"file", "search", "refresh"}), DeliverFile(r) PROVE PaneStep
  <2>1. /\ r \in requests /\ RequestOK(r) /\ r.of \in File
        /\ r.stage \in {"read", "failed"} /\ (r.stage = "read" => r.body \in Body)
    BY <1>0, <1>1 DEF Deliver, RequestOK, RequestType, FileKind, Reading
  <2>2. r.stage = "read" => DiffOf(r.of, r.body) \in Diff
    BY <2>1 DEF DiffOf, Diff, Thing, Body, Place
  <2> QED BY <1>1, <2>1, <2>2 DEF DeliverFile, RefreshShown, PaneStep, pane
<1>2. ASSUME NEW r \in Deliver({"conflict"}), DeliverConflict(r) PROVE PaneStep
  <2>1. /\ r \in requests /\ RequestOK(r) /\ r.of \in File
        /\ r.stage \in {"read", "failed"} /\ (r.stage = "read" => r.body \in Body)
    BY <1>0, <1>2 DEF Deliver, RequestOK, RequestType, FileKind, Reading
  <2>2. r.stage = "read" => DiffOf(r.of, r.body) \in Diff
    BY <2>1 DEF DiffOf, Diff, Thing, Body, Place
  <2> QED BY <1>2, <2>1, <2>2 DEF DeliverConflict, PaneStep, pane
<1>3. ASSUME NEW r \in Deliver({"stash"}), DeliverStash(r) PROVE PaneStep
  <2>1. /\ r \in requests /\ RequestOK(r) /\ r.label \in Stash
        /\ r.stage \in {"read", "failed"} /\ (r.stage = "read" => r.body \in Body)
    BY <1>0, <1>3 DEF Deliver, RequestOK, RequestType, Reading
  <2>2. r.stage = "read" => DiffOf(r.label, r.body) \in Diff
    BY <2>1 DEF DiffOf, Diff, Thing, Body, Place
  <2> QED BY <1>3, <2>1, <2>2 DEF DeliverStash, PaneStep, pane
<1>4. ASSUME NEW r \in Deliver({"commit", "navigate"}), DeliverCommit(r) PROVE PaneStep
  <2>1. r \in requests /\ RequestOK(r) /\ r.of \in Commit
    BY <1>0, <1>4 DEF Deliver, RequestOK, CommitKind
  <2> QED BY <1>4, <2>1, CommitDiff DEF DeliverCommit, ShowCommit, PaneStep, pane
<1>5. ASSUME NEW r \in Deliver({"enrich"}), DeliverEnriched(r) PROVE PaneStep
  BY <1>5 DEF DeliverEnriched, PaneStep, pane
<1> QED BY <1>1, <1>2, <1>3, <1>4, <1>5 DEF DeliverResult

LEMMA PaneMoves ==
    ASSUME IInv, [Next]_vars
    PROVE  PaneStep
<1>1. CASE Change
  BY <1>1 DEF Change, EditFile, DropStash, ReadFails, PaneStep, pane
<1>2. ASSUME Work, ~DeliverResult PROVE PaneStep
  <2>1. CASE \E r \in requests : Read(r)
    BY <2>1 DEF Read, PaneStep, pane
  <2>2. CASE StartPrefetch \/ FinishBatch
    BY <2>2 DEF StartPrefetch, FinishBatch, PaneStep, pane
  <2>3. CASE ProjectEvent
    BY <2>3 DEF ProjectEvent, PaneStep, pane
  <2> QED BY <1>2, <2>1, <2>2, <2>3 DEF Work, PaneStep
<1>3. CASE UNCHANGED vars
  BY <1>3 DEF vars, pane, PaneStep
<1> QED BY <1>1, <1>2, <1>3, SelectMoves, DeliverMoves DEF Next

\* A conflict view shows no ordinary diff, and what failed is not loading.
FlagsOK ==
    /\ viewer.diff # None => ~viewer.conflict
    /\ viewer.failed => ~viewer.loading

LEMMA ResetFlags ==
    ASSUME viewer \in ViewerType, NEW target \in Thing \cup {None}, NEW loading \in BOOLEAN
    PROVE  /\ Reset(target, loading).conflict = FALSE /\ Reset(target, loading).failed = FALSE
BY DEF ViewerType, Reset

LEMMA FlagsStep ==
    ASSUME PaneInv, FlagsOK, PaneStep
    PROVE  FlagsOK'
<1>0. viewer \in ViewerType
  BY DEF PaneInv
<1>1. CASE UNCHANGED <<viewer, displayCache>>
  BY <1>1 DEF FlagsOK
<1>2. ASSUME NEW diff \in Diff, SetDiff(diff) PROVE FlagsOK'
  <2> DEFINE v == Reset(diff.of, ~(Key(diff, theme) \in displayCache.entries))
  <2>1. v \in ViewerType /\ v.conflict = FALSE /\ v.failed = FALSE
    <3>1. diff.of \in Thing
      BY DEF Diff
    <3> QED BY <1>0, <3>1, ResetFields, ResetFlags
  <2>2. \/ viewer' = [v EXCEPT !.diff = diff, !.appearance = theme]
        \/ viewer' = [[v EXCEPT !.diff = diff, !.appearance = theme]
                         EXCEPT !.rows = Key(diff, theme)]
    BY <1>2 DEF SetDiff
  <2> HIDE DEF v
  <2>3. viewer'.conflict = FALSE /\ viewer'.failed = FALSE
    BY <2>1, <2>2 DEF ViewerType
  <2> QED BY <2>3 DEF FlagsOK
<1>3. CASE Clear
  BY <1>0, <1>3, ResetFlags DEF Clear, FlagsOK
<1>4. ASSUME NEW target \in Thing \cup {None}, BeginLoading(target) PROVE FlagsOK'
  BY <1>0, <1>4, ResetFlags DEF BeginLoading, FlagsOK
<1>5. ASSUME NEW file \in File, BeginConflict(file) PROVE FlagsOK'
  <2> DEFINE v == Reset(file, TRUE)
  <2>1. v \in ViewerType /\ v.diff = None /\ v.failed = FALSE
    BY <1>0, ResetFields, ResetFlags DEF Thing
  <2>2. viewer' = [v EXCEPT !.conflict = TRUE, !.rows = viewer.rows]
    BY <1>5 DEF BeginConflict
  <2> HIDE DEF v
  <2> QED BY <2>1, <2>2 DEF ViewerType, FlagsOK
<1>6. ASSUME NEW diff \in Diff, SetThreeWay(diff) PROVE FlagsOK'
  <2> DEFINE v == Reset(diff.of, TRUE)
  <2>1. v \in ViewerType /\ v.diff = None /\ v.failed = FALSE
    <3>1. diff.of \in Thing
      BY DEF Diff
    <3> QED BY <1>0, <3>1, ResetFields, ResetFlags
  <2>2. viewer' = [v EXCEPT !.conflict = TRUE, !.threeWay = diff, !.appearance = theme,
                            !.rows = viewer.rows]
    BY <1>6 DEF SetThreeWay
  <2> HIDE DEF v
  <2> QED BY <2>1, <2>2 DEF ViewerType, FlagsOK
<1>7. CASE SetError
  BY <1>0, <1>7 DEF SetError, ViewerType, FlagsOK
<1>8. ASSUME NEW side \in Side, ChooseSide(side) PROVE FlagsOK'
  BY <1>0, <1>8 DEF ChooseSide, ViewerType, FlagsOK
<1>9. CASE ChangeTheme
  BY <1>0, <1>9 DEF ChangeTheme, Rehighlight, ViewerType, FlagsOK, pane
<1>10. ASSUME NEW p \in preparing, RowsPrepared(p) PROVE FlagsOK'
  BY <1>0, <1>10 DEF RowsPrepared, ViewerType, FlagsOK
<1> QED BY <1>1, <1>2, <1>3, <1>4, <1>5, <1>6, <1>7, <1>8, <1>9, <1>10 DEF PaneStep

\* A hit moves a key to the end of the queue, prepared rows are cached, and a change of
\* the theme empties the cache: nothing else touches it.
LEMMA CacheStep ==
    ASSUME PaneInv, Exact(displayCache), PaneStep
    PROVE  Exact(displayCache')
<1>1. CASE UNCHANGED displayCache
  BY <1>1
<1>2. ASSUME NEW diff \in Diff, SetDiff(diff) PROVE Exact(displayCache')
  <2> DEFINE key == Key(diff, theme)
  <2>1. CASE key \in displayCache.entries
    <3>1. displayCache' = [displayCache EXCEPT !.recency = Touch(@, key)]
      BY <1>2, <2>1 DEF SetDiff
    <3> HIDE DEF key
    <3> QED BY <2>1, <3>1, ExactTouch
  <2>2. CASE key \notin displayCache.entries
    BY <1>1, <1>2, <2>2 DEF SetDiff
  <2> QED BY <2>1, <2>2
<1>3. CASE ChangeTheme
  <2>1. UNCHANGED displayCache \/ displayCache' = NothingCached
    BY <1>3 DEF ChangeTheme, Rehighlight, pane
  <2> QED BY <1>1, <2>1, ExactNothing
<1>4. ASSUME NEW p \in preparing, RowsPrepared(p) PROVE Exact(displayCache')
  <2>1. p \in PreparationType /\ Key(p.diff, p.theme) \in Rows
    BY DEF PaneInv, PreparationType, Rows, Key
  <2>2. UNCHANGED displayCache \/ displayCache' = Cached(displayCache, Key(p.diff, p.theme))
    BY <1>4 DEF RowsPrepared
  <2> QED BY <1>1, <2>1, <2>2, ExactCached
<1>5. ASSUME NEW target \in Thing \cup {None}, BeginLoading(target) PROVE Exact(displayCache')
  BY <1>1, <1>5 DEF BeginLoading
<1>6. ASSUME NEW file \in File, BeginConflict(file) PROVE Exact(displayCache')
  BY <1>1, <1>6 DEF BeginConflict
<1>7. ASSUME NEW diff \in Diff, SetThreeWay(diff) PROVE Exact(displayCache')
  BY <1>1, <1>7 DEF SetThreeWay
<1>8. ASSUME NEW side \in Side, ChooseSide(side) PROVE Exact(displayCache')
  BY <1>1, <1>8 DEF ChooseSide
<1>9. Clear \/ SetError => UNCHANGED displayCache
  BY DEF Clear, SetError
<1>10. CASE UNCHANGED <<viewer, displayCache>>
  BY <1>1, <1>10
<1> QED BY <1>1, <1>2, <1>3, <1>4, <1>5, <1>6, <1>7, <1>8, <1>9, <1>10 DEF PaneStep

-----------------------------------------------------------------------------
(* What a step does to the commit diffs held and to the queue *)

LEMMA AheadStep ==
    ASSUME IInv, HeldOK(commitCache), PrefetchOK, [Next]_vars
    PROVE  HeldOK(commitCache') /\ PrefetchOK'
<1> DEFINE Goal == HeldOK(commitCache') /\ PrefetchOK'
<1>1. CASE UNCHANGED ahead
  BY <1>1 DEF ahead, PrefetchOK, PrefetchExact
<1>2. ASSUME NEW c \in Commit, SelectCommit(c) PROVE Goal
  <2>1. prefetch' = Reserve(Neighbours(c))
    BY <1>2 DEF SelectCommit
  <2>2. PrefetchOK'
    BY <2>1, NeighboursIs, ReserveOK
  <2>3. UNCHANGED commitCache \/ commitCache' = Lookup(commitCache, c)
    BY <1>2 DEF SelectCommit
  <2> QED BY <2>2, <2>3, LookupHeld
<1>3. ASSUME NEW r \in Deliver({"commit", "navigate"}), DeliverCommit(r) PROVE Goal
  <2>1. r.of \in Commit
    BY <1>3 DEF Deliver, IInv, RequestInv, RequestOK, CommitKind
  <2>2. UNCHANGED commitCache \/ commitCache' = Insert(commitCache, r.of, CacheCapacity)
    BY <1>3 DEF DeliverCommit
  <2>3. UNCHANGED prefetch
    BY <1>3 DEF DeliverCommit
  <2> QED BY <2>1, <2>2, <2>3, InsertHeld DEF PrefetchOK, PrefetchExact
<1>4. CASE StartPrefetch
  <2>1. UNCHANGED commitCache
    BY <1>4 DEF StartPrefetch
  <2> QED BY <1>4, <2>1, StartPrefetchOK
<1>5. CASE FinishBatch
  BY <1>5, FinishBatchOK
<1>6. CASE ProjectEvent
  <2>1. UNCHANGED commitCache /\ (UNCHANGED prefetch \/ prefetch' = Reserve(History))
    BY <1>6 DEF ProjectEvent
  <2> QED BY <2>1, HistoryIs, ReserveOK DEF PrefetchOK, PrefetchExact
<1>7. CASE Select
  BY <1>1, <1>2, <1>7 DEF Select, SelectFile, SelectConflict, SelectStash, SelectDetailFile,
                          Navigate, ChooseSide
<1>8. CASE Change
  BY <1>1, <1>8 DEF Change, ChangeTheme, EditFile, DropStash, ReadFails
<1>9. CASE DeliverResult
  BY <1>1, <1>3, <1>9 DEF DeliverResult, DeliverFile, DeliverConflict, DeliverStash,
                          DeliverEnriched
<1>10. CASE Work
  BY <1>1, <1>4, <1>5, <1>6, <1>9, <1>10 DEF Work, Read, RowsPrepared
<1>11. CASE UNCHANGED vars
  BY <1>1, <1>11 DEF vars
<1> QED BY <1>7, <1>8, <1>10, <1>11 DEF Next

\* The two flags of the project's side.
SwitchesOK == changed \in BOOLEAN /\ prewarmed \in BOOLEAN

LEMMA SwitchesStep ==
    ASSUME SwitchesOK, [Next]_vars
    PROVE  SwitchesOK'
<1>1. CASE UNCHANGED <<changed, prewarmed>>
  BY <1>1 DEF SwitchesOK
<1>2. CASE Select
  BY <1>1, <1>2 DEF Select, SelectFile, SelectConflict, SelectStash, SelectCommit,
                    SelectDetailFile, Navigate, ChooseSide
<1>3. CASE Change
  BY <1>3 DEF SwitchesOK, Change, ChangeTheme, EditFile, DropStash, ReadFails
<1>4. CASE Work
  BY <1>4 DEF SwitchesOK, Work, DeliverResult, Read, DeliverFile, DeliverConflict, DeliverStash,
              DeliverCommit, DeliverEnriched, RowsPrepared, StartPrefetch, FinishBatch, ProjectEvent
<1>5. CASE UNCHANGED vars
  BY <1>1, <1>5 DEF vars
<1> QED BY <1>2, <1>3, <1>4, <1>5 DEF Next

-----------------------------------------------------------------------------
(* Types, and the two caches *)

\* The inductive invariant of the three theorems.
PaneAndCaches ==
    /\ BudgetOK /\ IInv /\ SwitchesOK /\ FlagsOK
    /\ Exact(displayCache) /\ HeldOK(commitCache) /\ PrefetchOK

LEMMA PaneAndCachesInit == Init => PaneAndCaches
<1> SUFFICES ASSUME Init PROVE PaneAndCaches
  OBVIOUS
<1>1. SwitchesOK /\ FlagsOK
  BY DEF Init, SwitchesOK, FlagsOK, NewViewer
<1>2. Exact(displayCache)
  BY ExactNothing DEF Init
<1>3. HeldOK(commitCache)
  <2>1. Len(commitCache) <= CacheCapacity
    BY EmptySet, Bounds DEF Init
  <2> QED BY <2>1, EmptySet DEF Init, HeldOK
<1>4. PrefetchOK
  <2>1. prefetch = [pending |-> <<>>, scheduled |-> {}, running |-> FALSE, batch |-> <<>>]
    BY DEF Init, Idle
  <2>2. prefetch.pending \o prefetch.batch = <<>> /\ Len(prefetch.pending) <= MaxPending
    BY <2>1, EmptySet, Bounds
  <2> QED BY <2>1, <2>2, EmptySet DEF PrefetchOK, PrefetchExact
<1> QED BY <1>1, <1>2, <1>3, <1>4, InitInv DEF PaneAndCaches

LEMMA PaneAndCachesStep == PaneAndCaches /\ [Next]_vars => PaneAndCaches'
<1> SUFFICES ASSUME PaneAndCaches, [Next]_vars PROVE PaneAndCaches'
  OBVIOUS
<1>1. BudgetOK' /\ IInv' /\ SwitchesOK'
  BY StepBudget, StepInv, SwitchesStep DEF PaneAndCaches
<1>2. FlagsOK' /\ Exact(displayCache)'
  BY PaneMoves, FlagsStep, CacheStep DEF PaneAndCaches, IInv
<1>3. HeldOK(commitCache)' /\ PrefetchOK'
  BY AheadStep DEF PaneAndCaches
<1> QED BY <1>1, <1>2, <1>3 DEF PaneAndCaches

LEMMA PaneAndCachesType == PaneAndCaches => TypeOK
<1> SUFFICES ASSUME PaneAndCaches PROVE TypeOK
  OBVIOUS
<1>1. /\ viewer.generation \in Nat /\ viewer.preparation \in Nat
      /\ viewer.loading \in BOOLEAN /\ viewer.failed \in BOOLEAN /\ viewer.conflict \in BOOLEAN
      /\ viewer.target \in Thing \cup {None}
      /\ {viewer.diff, viewer.threeWay} \subseteq Diff \cup {None}
      /\ viewer.rows \in Rows \cup {None} /\ viewer.appearance \in Theme
      /\ viewer.diff # None => viewer.threeWay = None
  BY DEF PaneAndCaches, IInv, PaneInv, ViewerType, OneView
<1>2. detail \in Diff \cup {None} /\ selected \in Thing \cup {None}
  BY DEF PaneAndCaches, IInv, RequestInv, PanelFollows
<1>3. displayCache.entries \subseteq Rows
  BY DEF PaneAndCaches, Exact
<1> QED BY <1>1, <1>2, <1>3
        DEF PaneAndCaches, IInv, RepositoryOK, BudgetOK, SwitchesOK, FlagsOK, HeldOK, TypeOK

\* Every value the pane, the requests, the repository and the scheduler hold has its type: no
\* conflict view shows an ordinary diff, what failed is not loading, and the commit diffs held
\* are distinct and no more than the cache of cache.rs may hold.
THEOREM TypeCorrect == Spec => []TypeOK
BY PaneAndCachesInit, PaneAndCachesStep, PaneAndCachesType, PTL DEF Spec

\* The row cache keeps both of its bounds, its queue lists exactly its entries and its row count
\* is theirs, for bounds of any size and diffs of any length: what DisplayCache touches, replaces,
\* evicts, refuses and clears leaves no entry without a place in the queue and no row uncounted.
THEOREM DisplayCacheIsExact == Spec => []DisplayCacheExact
<1>1. PaneAndCaches => DisplayCacheExact
  BY ExactShown DEF PaneAndCaches
<1> QED BY <1>1, PaneAndCachesInit, PaneAndCachesStep, PTL DEF Spec

\* The queue of speculative diffs keeps its cap, names no commit twice, a commit is scheduled
\* exactly as long as it waits or is being computed, and what waits is drained, for a history
\* and a window of any length: what the cap drops may be asked for again.
THEOREM PrefetchIsExact == Spec => []PrefetchExact
<1>1. PaneAndCaches => PrefetchExact
  BY DEF PaneAndCaches, PrefetchOK
<1> QED BY <1>1, PaneAndCachesInit, PaneAndCachesStep, PTL DEF Spec
=============================================================================
