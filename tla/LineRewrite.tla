---------------------------- MODULE LineRewrite ----------------------------
(***************************************************************************)
(* A diff as the viewer shows it, and a file rewritten so that it takes    *)
(* part of a diff or gives it back (rewrite_side, SelectedLines and        *)
(* ScopedLine of crates/rgitui_git/src/project/worktree_patch.rs).         *)
(*                                                                         *)
(* A file is a sequence of lines, no two of them equal.  Line terminators  *)
(* are left out.                                                           *)
(***************************************************************************)
EXTENDS Naturals, Sequences, FiniteSets, SequencesExt, FiniteSetsExt

CONSTANT Context   \* unchanged lines shown around a change

ASSUME LineRewriteAssumption == Context \in Nat

-----------------------------------------------------------------------------
(* libgit2's diff *)

\* The number of a line in a file; 0, the code's None, when it is not there.
Number(file, line) == SelectInSeq(file, LAMBDA l : l = line)

Row(kind, from, to, line) ==
    [kind |-> kind, line |-> line,
     old  |-> IF kind = "addition" THEN 0 ELSE Number(from, line),
     new  |-> IF kind = "deletion" THEN 0 ELSE Number(to, line)]

\* Between two lines that stay, the removed ones and then the added ones.
DiffRows(from, to) ==
    LET kept == SelectSeq(from, LAMBDA l : Number(to, l) # 0)
        Position(file, k) == IF k = 0 THEN 0
                             ELSE IF k > Len(kept) THEN Len(file) + 1 ELSE Number(file, kept[k])
        Between(file, k)  == SubSeq(file, Position(file, k - 1) + 1, Position(file, k) - 1)
        Rows(kind, lines) == [i \in DOMAIN lines |-> Row(kind, from, to, lines[i])]
    IN  FlattenSeq([k \in 1..(Len(kept) + 1) |->
            Rows("deletion", Between(from, k)) \o Rows("addition", Between(to, k))
                \o IF k > Len(kept) THEN <<>> ELSE Rows("context", <<kept[k]>>)])

IsContext(row) == row.kind = "context"

InHunk(rows, i) == /\ i \in DOMAIN rows
                   /\ \E j \in DOMAIN rows : ~IsContext(rows[j]) /\ i <= j + Context /\ j <= i + Context

HunksOf(rows) ==
    LET starts == SetToSortSeq({i \in DOMAIN rows : InHunk(rows, i) /\ ~InHunk(rows, i - 1)}, <)
        End(i) == Min({j \in i..Len(rows) : ~InHunk(rows, j + 1)})
    IN  [h \in DOMAIN starts |-> SubSeq(rows, starts[h], End(starts[h]))]

\* The rows are bound, so that TLC computes them once.
Hunks(from, to) == CHOOSE hunks \in {HunksOf(rows) : rows \in {DiffRows(from, to)}} : TRUE

\* The changes of some hunks, as the pairs of numbers the viewer emits.
PairOf(row) == <<row.old, row.new>>

ChangesIn(hunks, wanted) ==
    {PairOf(row) : row \in UNION {{r \in ToSet(hunks[h]) : ~IsContext(r)} :
                                    h \in wanted \cap DOMAIN hunks}}

-----------------------------------------------------------------------------
(* SelectedLines, rewrite_side *)

SelectedLines(pairs) == [additions |-> {p[2] : p \in {q \in pairs : q[1] = 0}},
                         deletions |-> {p[1] : p \in {q \in pairs : q[2] = 0}}]

IsSelected(row, selected) == \/ row.kind = "addition" /\ row.new \in selected.additions
                             \/ row.kind = "deletion" /\ row.old \in selected.deletions

BaseNumber(row, direction) == IF direction = "apply" THEN row.old ELSE row.new

\* Row i starts a run of changes; where the run ends.
StartsRun(hunk, i) == ~IsContext(hunk[i]) /\ (i > 1 => IsContext(hunk[i - 1]))
RunEnd(hunk, i)    == Max({j \in i..Len(hunk) : \A k \in i..j : ~IsContext(hunk[k])})

\* Mutant of RewriteRun: a revert puts the kept line first, as an apply does.
RewriteRunOneOrder(base, run, direction, selected) ==
    LET baseSide   == SelectSeq(run, LAMBDA r : BaseNumber(r, direction) # 0)
        targetSide == SelectSeq(run, LAMBDA r : BaseNumber(r, direction) = 0)
        Kept(k)    == IF k <= Len(baseSide) /\ ~IsSelected(baseSide[k], selected)
                      THEN <<base[BaseNumber(baseSide[k], direction)]>> ELSE <<>>
        Applied(k) == IF k <= Len(targetSide) /\ IsSelected(targetSide[k], selected)
                      THEN <<targetSide[k].line>> ELSE <<>>
    IN  FlattenSeq([k \in 1..Max({Len(baseSide), Len(targetSide)}) |-> Kept(k) \o Applied(k)])

\* The i-th removal of a run is paired with its i-th insertion.
RewriteRun(base, run, direction, selected) ==
    LET baseSide   == SelectSeq(run, LAMBDA r : BaseNumber(r, direction) # 0)
        targetSide == SelectSeq(run, LAMBDA r : BaseNumber(r, direction) = 0)
        Kept(k)    == IF k <= Len(baseSide) /\ ~IsSelected(baseSide[k], selected)
                      THEN <<base[BaseNumber(baseSide[k], direction)]>> ELSE <<>>
        Applied(k) == IF k <= Len(targetSide) /\ IsSelected(targetSide[k], selected)
                      THEN <<targetSide[k].line>> ELSE <<>>
    IN  FlattenSeq([k \in 1..Max({Len(baseSide), Len(targetSide)}) |->
            IF direction = "apply" THEN Kept(k) \o Applied(k) ELSE Applied(k) \o Kept(k)])

\* What is written so far, and the next line of the base to copy.
RewriteRow(base, hunk, i, direction, selected, done) ==
    LET row == hunk[i]
        no  == BaseNumber(row, direction)
        run == SubSeq(hunk, i, RunEnd(hunk, i))
        inBase == {BaseNumber(r, direction) : r \in ToSet(run)} \ {0}
    IN  IF IsContext(row)
        THEN [out |-> done.out \o SubSeq(base, done.cursor, no), cursor |-> no + 1]
        ELSE IF StartsRun(hunk, i)
        THEN [out    |-> done.out \o RewriteRun(base, run, direction, selected),
              cursor |-> IF inBase = {} THEN done.cursor ELSE Max(inBase) + 1]
        ELSE done

RewriteHunk(base, hunk, direction, selected, done) ==
    LET numbers == {BaseNumber(r, direction) : r \in ToSet(hunk)} \ {0}
        copied  == IF numbers = {} THEN done
                   ELSE [out    |-> done.out \o SubSeq(base, done.cursor, Min(numbers) - 1),
                         cursor |-> Max({done.cursor, Min(numbers)})]
    IN  FoldLeftDomain(LAMBDA acc, i : RewriteRow(base, hunk, i, direction, selected, acc),
                       copied, hunk)

RewriteSide(base, hunks, direction, pairs) ==
    LET selected == SelectedLines(pairs)
        done == FoldLeft(LAMBDA acc, hunk : RewriteHunk(base, hunk, direction, selected, acc),
                         [out |-> <<>>, cursor |-> 1], hunks)
    IN  done.out \o SubSeq(base, done.cursor, Len(base))

=============================================================================
