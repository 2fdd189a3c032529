----------------------------- MODULE CommitGraph -----------------------------
(* The layout of the commit graph (rgitui_git/src/graph.rs): compute_graph gives
   every loaded commit a row and a lane, keeps for every open lane the commit it
   waits for, and draws in each row the lines that pass through, end at its node or
   leave it for its parents; at the end it erases the part of lane 0 that was
   reserved for the main branch and that nothing used.

   A commit is its place in the order of `git log --topo-order`, and a lane is one
   above its number in the code. Colours are left out.                            *)
EXTENDS Integers, Sequences, FiniteSets, SequencesExt, FiniteSetsExt

CONSTANTS
    Commits,     \* how many commits the history has
    Windows      \* the sets of commits that may be loaded: a page, or one author's

ASSUME CommitsAssumption == Commits \in Nat \ {0}
ASSUME WindowsAssumption == Windows \subseteq (SUBSET (1..Commits)) \ {{}}

Oid == 1..Commits
None == 0                  \* no commit: a lane that waits for nothing

VARIABLES
    parents,     \* the parents of every commit, in git's order
    loaded,      \* the commits the list holds
    main,        \* the tip find_main_branch_tip finds, or None
    chain,       \* the main line
    ancestors,   \* the loaded part of each commit's proper ancestors
    lanes,       \* for each lane the commit it waits for, or None
    rows,        \* the rows laid out so far
    done

vars == <<parents, loaded, main, chain, ancestors, lanes, rows, done>>
history == <<parents, loaded, main, chain, ancestors>>

Parents(c) == ToSet(parents[c])
WholeList == Oid                          \* mutant: the filter is ignored
Listed == loaded
Laid == {rows[i].commit : i \in DOMAIN rows}
NextCommit == Min(Listed \ Laid)          \* the commits come in their order
-----------------------------------------------------------------------------
(* The histories git can list: commits with at most two parents, also merges of what
   one parent added to the other, in the order of --topo-order, which shows every
   child before its parents and takes a commit's parents, once all their children
   are shown, from a stack.                                                        *)
ParentLists(c) ==
    {<<>>} \union {<<p>> : p \in c + 1..Commits}
           \union {<<p, q>> : p, q \in c + 1..Commits}

Histories[c \in 1..Commits + 1] ==
    IF c > Commits THEN {<<>>}
    ELSE {<<l>> \o h : l \in ParentLists(c), h \in Histories[c + 1]}

TopoOrdered(ps) ==
    LET Children(c) == {d \in Oid : c \in ToSet(ps[d])}
        Freed(c) == SelectSeq(ps[c], LAMBDA p : Children(p) \subseteq 1..c)
        stack[n \in 0..Commits] ==
            IF n = 0 THEN SetToSortSeq({c \in Oid : Children(c) = {}}, <)
            ELSE Reverse(Freed(n)) \o Tail(stack[n - 1])
    IN \A n \in 1..Commits : Head(stack[n - 1]) = n

Legal(ps) ==
    /\ \A c \in Oid : IsInjective(ps[c])
    /\ TopoOrdered(ps)

\* is_ancestor_of: what the walk from a commit finds; it sees the parents of loaded
\* commits only.
LoadedAncestors(ps, window) ==
    LET proper[c \in Oid] ==
            IF c \notin window THEN {}
            ELSE ToSet(ps[c]) \union UNION {proper[p] : p \in ToSet(ps[c])}
    IN proper

\* The main line from a tip down: of a merge's parents the first that no feature
\* branch points at, or else the first.
MainParent(ps, c, feature) ==
    LET plain == {i \in DOMAIN ps[c] : ps[c][i] \notin feature}
    IN ps[c][IF plain = {} THEN 1 ELSE Min(plain)]

MainChain(ps, window, feature, tip) ==
    LET from[c \in Oid] ==
            {c} \union IF c \notin window \/ ps[c] = <<>> THEN {}
                       ELSE from[MainParent(ps, c, feature)]
    IN IF tip = None THEN {} ELSE from[tip]

\* Lane 0 is held for a main tip that is not the first commit.
Reserved == main # None /\ main # Min(Listed)

\* `head` counts only where there is no main or master; `feature` are the parents of
\* merges that a local branch other than main and master points at.
Init ==
    /\ parents \in {ps \in Histories[1] : Legal(ps)}
    /\ loaded \in Windows
    /\ main \in loaded \union {None}
    /\ \E head \in IF main = None THEN loaded \union {None} ELSE {None},
          feature \in SUBSET {p \in loaded : \E c \in loaded : Len(parents[c]) > 1
                                                               /\ p \in Parents(c)} :
           chain = MainChain(parents, loaded, feature, IF main = None THEN head ELSE main)
    /\ ancestors = LoadedAncestors(parents, loaded)
    /\ lanes = IF Reserved THEN <<main>> ELSE <<>>
    /\ rows = <<>>
    /\ done = FALSE
-----------------------------------------------------------------------------
(* Lanes.                                                                          *)
IsAncestor(a, d) == a = d \/ (d # None /\ a \in ancestors[d])

At(ls, l) == IF l \in DOMAIN ls THEN ls[l] ELSE None

Put(ls, l, c) ==
    [k \in 1..IF l > Len(ls) THEN l ELSE Len(ls) |-> IF k = l THEN c ELSE At(ls, k)]

First(found) == IF found = {} THEN None ELSE Min(found)

\* The first lane but `skip` that waits for the commit, and the first that waits for it
\* or a descendant.
ExactLane(c, ls, skip) == First({l \in DOMAIN ls \ skip : ls[l] = c})
KinLane(c, ls, skip) == First({l \in DOMAIN ls \ skip : IsAncestor(c, ls[l])})

\* alloc_lane
AllocLane(ls, skip) == Min({l \in 1..Len(ls) + 2 : l \notin skip /\ At(ls, l) = None})

\* find_lane: the lane that waits for the commit, else one that waits for a
\* descendant, else a new one.
FindLane(c, ls, skip) ==
    LET exact == ExactLane(c, ls, skip)
        kin == KinLane(c, ls, skip)
        lane == IF exact # None THEN exact ELSE IF kin # None THEN kin
                ELSE AllocLane(ls, skip)
    IN [lane |-> lane, lanes |-> Put(ls, lane, c), incoming |-> kin # None]

\* Where a commit goes: on the main line lane 0 if it is free or on its way there.
Place(c, ls) ==
    LET first == At(ls, 1) IN
    IF c \notin chain THEN FindLane(c, ls, {1})
    ELSE IF first = None \/ IsAncestor(c, first) \/ first \in chain
         THEN [lane |-> 1, lanes |-> Put(ls, 1, c), incoming |-> first # None]
    ELSE FindLane(c, ls, {})

\* Mutant: an ancestor's lane is preferred to the commit's own.
RouteToKin(p, node, ls) ==
    LET kin == KinLane(p, ls, {})
        Open(l) == [to |-> l, lanes |-> Put(ls, l, p)]
    IN IF kin # None THEN [to |-> kin, lanes |-> ls] ELSE Open(AllocLane(ls, {}))

\* route_parent: the lane a line to a parent takes, and the lanes then.
RouteParent(p, node, ls) ==
    LET exact == ExactLane(p, ls, {})
        kin == KinLane(p, ls, {})
        Open(l) == [to |-> l, lanes |-> Put(ls, l, p)]
    IN IF exact # None THEN [to |-> exact, lanes |-> ls]
       ELSE IF ls[node] = None THEN Open(node)
       ELSE IF kin # None THEN [to |-> kin, lanes |-> ls]
       ELSE Open(AllocLane(ls, {}))

\* Mutant: the main line is routed as any other.
RouteMainAnywhere(p, node, ls) == RouteParent(p, node, ls)

\* The main line goes on in lane 0.
RouteMain(p, node, ls) ==
    IF ls[1] \in {None, p} THEN [to |-> 1, lanes |-> Put(ls, 1, p)]
    ELSE RouteParent(p, node, ls)

\* The parents in the order they are routed: on the main line the main parent first.
Routed(c) ==
    LET onMain == {i \in DOMAIN parents[c] : c \in chain /\ parents[c][i] \in chain}
        first == IF onMain = {} THEN 1 ELSE Min(onMain)
    IN IF parents[c] = <<>> THEN <<>>
       ELSE <<parents[c][first]>> \o RemoveAt(parents[c], first)

\* One more line, from a commit to its parent p; r is what was drawn before and the lanes.
Draw(c, p, node, r) ==
    LET one == IF r.edges = <<>> /\ {c, p} \subseteq chain THEN RouteMain(p, node, r.lanes)
               ELSE RouteParent(p, node, r.lanes)
    IN [edges |-> Append(r.edges, [from |-> node, to |-> one.to]), lanes |-> one.lanes]

Route(c, node, ls) ==
    LET ps == Routed(c)
        drawn[n \in 0..Len(ps)] == IF n = 0 THEN [edges |-> <<>>, lanes |-> ls]
                                   ELSE Draw(c, ps[n], node, drawn[n - 1])
    IN drawn[Len(ps)]

Trimmed(ls) == SubSeq(ls, 1, Max({0} \union {l \in DOMAIN ls : ls[l] # None}))
-----------------------------------------------------------------------------
\* One row: the commit's lane, the lines that pass or end, the lines to its parents.
LayRow ==
    /\ Listed \ Laid # {}
    /\ LET c == NextCommit
           placed == Place(c, lanes)
           node == placed.lane
           busy == {l \in DOMAIN placed.lanes \ {node} : placed.lanes[l] # None}
           passing == {[from |-> l, to |-> IF placed.lanes[l] = c THEN node ELSE l] : l \in busy}
           left == [l \in DOMAIN placed.lanes |->
                       IF placed.lanes[l] = c THEN None ELSE placed.lanes[l]]
           routed == Route(c, node, left)
       IN /\ rows' = Append(rows, [commit |-> c, lane |-> node, incoming |-> placed.incoming,
                                   passing |-> passing, leaving |-> routed.edges])
          /\ lanes' = Trimmed(routed.lanes)
    /\ UNCHANGED <<history, done>>

\* The reserved lane above the main tip is erased down to the first row that bends
\* into it; if that reaches the row above the tip, the tip has no line from above.
Row(c) == CHOOSE i \in DOMAIN rows : rows[i].commit = c

BendsIn(row) == \E e \in row.passing \union ToSet(row.leaving) : e.to = 1 /\ e.from # 1

StripAll == Row(main) - 1                 \* mutant: all of the reserved lane is erased

StripUntil ==
    LET above == Row(main) - 1
        bends == {i \in 1..above : BendsIn(rows[i])}
    IN IF bends = {} THEN above ELSE Min(bends)

Stub == [from |-> 1, to |-> 1]

TrimLane ==
    /\ ~done
    /\ Listed \subseteq Laid
    /\ LET bare(i) == Reserved /\ i <= StripUntil /\ Stub \in rows[i].passing
       IN rows' = [i \in DOMAIN rows |->
                     IF bare(i) THEN [rows[i] EXCEPT !.passing = @ \ {Stub}]
                     ELSE IF i > 1 /\ rows[i].commit = main /\ rows[i].lane = 1 /\ bare(i - 1)
                          THEN [rows[i] EXCEPT !.incoming = FALSE]
                     ELSE rows[i]]
    /\ done' = TRUE
    /\ UNCHANGED <<history, lanes>>

Next == LayRow \/ TrimLane

Spec == Init /\ [][Next]_vars
-----------------------------------------------------------------------------
Lane == 1..2 * Commits
Line == [from : Lane, to : Lane]

\* Type correctness.
TypeOK ==
    /\ lanes \in Seq(Oid \union {None})
    /\ \A i \in DOMAIN rows :
           /\ rows[i].commit \in loaded
           /\ rows[i].lane \in Lane
           /\ rows[i].incoming \in BOOLEAN
           /\ rows[i].passing \subseteq Line
           /\ rows[i].leaving \in Seq(Line)
    /\ done \in BOOLEAN

\* The main line keeps lane 0, whatever branches were drawn above it and whichever of
\* its merges' parents git lists first (graph.rs:217).
MainOnLaneZero ==
    main # None => \A i \in DOMAIN rows : rows[i].commit \in chain => rows[i].lane = 1

(* What the finished drawing shows: the lanes in which lines enter and leave a row,
   whether a line that comes down in lane l ends at a row's commit, and the commit at
   which a line that leaves a row in lane l ends, or None if it runs off the end of
   the list.                                                                       *)
Above(row) == {e.from : e \in row.passing} \union IF row.incoming THEN {row.lane} ELSE {}
Below(row) == {e.to : e \in {p \in row.passing : p.from = p.to} \union ToSet(row.leaving)}

EndsAt(row, l) == l = row.lane \/ [from |-> l, to |-> row.lane] \in row.passing

LeadsTo(l) ==
    LET end[i \in DOMAIN rows] ==
            IF i = Len(rows) THEN None
            ELSE IF EndsAt(rows[i + 1], l) THEN rows[i + 1].commit ELSE end[i + 1]
    IN end

\* The row above the main tip is the first that bends into its lane: the line the tip
\* should have from above is erased together with the reserved lane (graph.rs:574).
Unjoined(i) == Reserved /\ i + 1 = Row(main) /\ i = StripUntil /\ BendsIn(rows[i])

\* Lines are continuous: what leaves a row enters the next, in the same lane, and
\* nothing enters from nowhere, also where the reserved lane was erased; the one
\* exception is the main tip's own line.
LinesMeet ==
    done => \A i \in 1..Len(rows) - 1 :
                Below(rows[i]) = Above(rows[i + 1]) \union IF Unjoined(i) THEN {1} ELSE {}

\* A merge on the main line has both parents on it: what it merged only added to the
\* main line, and the main line's old end is some other branch's.
Shortcut == \E c \in chain \cap loaded : Len(parents[c]) > 1 /\ Parents(c) \subseteq chain

\* With a main branch, a line to a parent that is loaded ends at that parent or, joined
\* to another, at a descendant of it; unless there is a shortcut on the main line, the
\* line to the first parent, or on the main line to the main parent, ends at that
\* parent, and off the end of the list only if the parent is not loaded.
LinesLead ==
    done /\ main # None =>
        \A i \in DOMAIN rows : \A k \in DOMAIN rows[i].leaving :
            LET p == Routed(rows[i].commit)[k]
                q == LeadsTo(rows[i].leaving[k].to)[i]
            IN /\ p \in loaded => q # None /\ IsAncestor(p, q)
               /\ k = 1 /\ ~Shortcut => q = IF p \in loaded THEN p ELSE None
=============================================================================
