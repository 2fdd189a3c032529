--------------------------- MODULE WorktreePatch ---------------------------
(***************************************************************************)
(* Putting part of a diff into a file of the working tree, or taking it    *)
(* out, and undoing that (crates/rgitui_git/src/project/worktree_patch.rs, *)
(* WorktreePatchApplied of workspace/events.rs, and the undo stack).       *)
(*                                                                         *)
(* Tasks run in the background, under one lock for the whole program.      *)
(* Editors know nothing of the lock: a file may be saved or deleted        *)
(* between any two system calls, so a task reads the file, compares it     *)
(* twice with what it read, renames its own copy over it, and compares     *)
(* once more.  Each of these is a step here.                               *)
(*                                                                         *)
(* There is a file in every open checkout.  Its content is the set of      *)
(* changes in it: those of the diffs and those of the user.                *)
(***************************************************************************)
EXTENDS Naturals, Sequences, FiniteSets, SequencesExt

CONSTANTS
    Worktree,      \* one checkout per tab
    InitialFile,   \* what the file holds in each
    Offered,       \* the patches the user asks for
    MaxRunning,    \* tasks in flight
    MaxUndo,       \* MAX_UNDO_HISTORY
    Nobody,
    Budget         \* how often each event from outside may happen

BudgetKind == {"patch", "undo", "save", "delete", "switch", "close", "total"}
Content == [edits : SUBSET Nat, there : BOOLEAN]
Absent  == [edits |-> {}, there |-> FALSE]

\* The two sides of a diff, whether the whole file is meant, whether its snapshots fit.
Patch == [base : Content, target : Content, file : BOOLEAN, fits : BOOLEAN]

\* The user's edits are numbered from 100.
ASSUME WorktreePatchAssumption ==
    /\ InitialFile \in [Worktree -> [edits : SUBSET (1..99), there : BOOLEAN]]
    /\ Offered \subseteq Patch
    /\ \A p \in Offered : p.base.edits \cup p.target.edits \subseteq 1..99 /\ p.base # p.target
    /\ MaxRunning \in Nat \ {0} /\ MaxUndo \in Nat \ {0}
    /\ Nobody \notin Nat
    /\ Budget \in [BudgetKind -> Nat]

VARIABLES
    files,      \* the file of each checkout
    open,       \* the checkouts that have a tab
    activeTab,
    lock,       \* WORKTREE_MUTATION_LOCK: the task that holds it
    tasks,      \* tasks in flight
    undo,       \* UndoStack: snapshots with the checkout they belong to, newest last
    budget,
    writer,     \* history variable: the task that wrote the file last
    published   \* history variable: every change a patch made

vars == <<files, open, activeTab, lock, tasks, undo, budget, writer, published>>

-----------------------------------------------------------------------------
(* What a patch makes of a file *)

\* Mutant of Decide: the patch goes in verbatim whatever the file holds.
DecideVerbatim(patch, existing) ==
    {IF patch.file /\ ~patch.target.there THEN Absent
     ELSE [edits |-> patch.target.edits, there |-> TRUE]} \ {existing}

\* What may be written over the existing file; nothing when the patch is refused.  Around
\* other edits a three-way merge finds a result or a conflict.
Decide(patch, existing) ==
    LET ours   == existing.edits
        merged == (ours \cup (patch.target.edits \ patch.base.edits))
                      \ (patch.base.edits \ patch.target.edits)
    IN  IF patch.file /\ ~patch.target.there /\ patch.target.edits = {}
        THEN IF existing.there /\ ours = patch.base.edits THEN {Absent} ELSE {}
        ELSE IF ours = patch.base.edits
        THEN {[edits |-> patch.target.edits, there |-> TRUE]}
        ELSE IF merged = ours THEN {}
        ELSE {[edits |-> merged, there |-> TRUE]}

MayConflict(patch, existing) ==
    existing.edits # patch.base.edits \/ Decide(patch, existing) = {}

-----------------------------------------------------------------------------
(* The tasks *)

\* "total" bounds the events together.
Spend(kind) == /\ budget[kind] > 0 /\ budget["total"] > 0
               /\ budget' = [budget EXCEPT ![kind] = @ - 1, !["total"] = @ - 1]

Task(kind, w, patch, before, after) ==
    [id |-> budget["total"], kind |-> kind, worktree |-> w, patch |-> patch, step |-> "begun",
     before |-> before, after |-> after, saw |-> Nobody]

Moves(t, to) == tasks' = (tasks \ {t}) \cup {to}
Fails(t)     == Moves(t, [t EXCEPT !.step = "failed"])

\* patch_worktree_at: the checkout is the one on screen at the click.
PatchWorktree(patch) ==
    /\ Spend("patch")
    /\ activeTab \in open /\ Cardinality(tasks) < MaxRunning
    /\ tasks' = tasks \cup {Task("patch", activeTab, patch, Absent, Absent)}
    /\ UNCHANGED <<files, open, activeTab, lock, undo, writer, published>>

\* Mutant of MayLock: two tasks at once.
MayLockAnyway(t) == t.step = "begun"

MayLock(t) == t.step = "begun" /\ lock = Nobody

\* apply_worktree_patch: takes the lock, reads the file and decides.
ReadAndDecide(t) ==
    LET existing == files[t.worktree]
    IN  /\ t.kind = "patch" /\ MayLock(t)
        /\ \/ \E after \in Decide(t.patch, existing) :
                 /\ Moves(t, [t EXCEPT !.step = "decided", !.before = existing, !.after = after,
                                       !.saw = writer[t.worktree]])
                 /\ lock' = t.id
           \/ /\ MayConflict(t.patch, existing)
              /\ Fails(t)
              /\ UNCHANGED lock
        /\ UNCHANGED <<files, open, activeTab, undo, budget, writer, published>>

\* restore_worktree_files: the file must be what the patch left.
Validate(t) ==
    /\ t.kind = "restore" /\ MayLock(t)
    /\ IF files[t.worktree] = t.before
       THEN /\ Moves(t, [t EXCEPT !.step = "decided", !.saw = writer[t.worktree]])
            /\ lock' = t.id
       ELSE Fails(t) /\ UNCHANGED lock
    /\ UNCHANGED <<files, open, activeTab, undo, budget, writer, published>>

\* replace_file_if_unchanged compares before it writes its temporary file and again after.
Compare(t, from, to) ==
    /\ t.step = from
    /\ IF files[t.worktree] = t.before
       THEN Moves(t, [t EXCEPT !.step = to]) /\ UNCHANGED lock
       ELSE Fails(t) /\ lock' = Nobody
    /\ UNCHANGED <<files, open, activeTab, undo, budget, writer, published>>

\* The rename, or the deletion, which fails when the file is gone already.
Publish(t) ==
    /\ t.step = "compared"
    /\ IF ~t.after.there /\ ~files[t.worktree].there
       THEN /\ Fails(t) /\ lock' = Nobody
            /\ UNCHANGED <<files, writer, published>>
       ELSE /\ files' = [files EXCEPT ![t.worktree] = t.after]
            /\ writer' = [writer EXCEPT ![t.worktree] = t.id]
            /\ published' = published \cup {[worktree |-> t.worktree, before |-> t.before,
                                             after |-> t.after]}
            /\ Moves(t, [t EXCEPT !.step = "published"])
            /\ UNCHANGED lock
    /\ UNCHANGED <<open, activeTab, undo, budget>>

\* A file that changed since is an error, and the task gives the lock back.
Verify(t) ==
    /\ t.step = "published"
    /\ IF files[t.worktree] = t.after THEN Moves(t, [t EXCEPT !.step = "done"]) ELSE Fails(t)
    /\ lock' = Nobody
    /\ UNCHANGED <<files, open, activeTab, undo, budget, writer, published>>

\* The foreground's end of a task, if its project is still open.  WorktreePatchApplied stamps
\* the undo entry with the checkout the task was started for; a refused undo is not put back.
Entry(t, w) == [worktree |-> w, before |-> t.before, after |-> t.after]

\* Mutant of Push: the history grows without bound.
PushUncapped(entry) == Append(undo, entry)

Push(entry) == LET longer == Append(undo, entry)
               IN  IF Len(longer) > MaxUndo THEN Tail(longer) ELSE longer

Undoable(t) == t.kind = "patch" /\ t.step = "done" /\ t.patch.fits /\ t.worktree \in open

\* Mutant of Finish: the entry is stamped with the checkout on screen when the task ends.
FinishOnScreen(t) ==
    /\ t.step \in {"done", "failed"}
    /\ tasks' = tasks \ {t}
    /\ undo' = IF Undoable(t) THEN Push(Entry(t, activeTab)) ELSE undo
    /\ UNCHANGED <<files, open, activeTab, lock, budget, writer, published>>

Finish(t) ==
    /\ t.step \in {"done", "failed"}
    /\ tasks' = tasks \ {t}
    /\ undo' = IF Undoable(t) THEN Push(Entry(t, t.worktree)) ELSE undo
    /\ UNCHANGED <<files, open, activeTab, lock, budget, writer, published>>

\* execute_undo: the newest entry is popped; it is lost when its tab was closed.
ExecuteUndo ==
    /\ Spend("undo")
    /\ undo # <<>> /\ Cardinality(tasks) < MaxRunning
    /\ undo' = Front(undo)
    /\ LET entry == Last(undo)
       IN  IF entry.worktree \in open
           THEN /\ activeTab' = entry.worktree
                /\ \E patch \in Offered :
                      tasks' = tasks \cup {Task("restore", entry.worktree, patch, entry.after,
                                                entry.before)}
           ELSE UNCHANGED <<activeTab, tasks>>
    /\ UNCHANGED <<files, open, lock, writer, published>>

-----------------------------------------------------------------------------
(* Editors and tabs *)

Save(w) ==
    /\ Spend("save")
    /\ files' = [files EXCEPT ![w] = [edits |-> @.edits \cup {100 + budget["total"]},
                                      there |-> TRUE]]
    /\ writer' = [writer EXCEPT ![w] = Nobody]
    /\ UNCHANGED <<open, activeTab, lock, tasks, undo, published>>

Delete(w) ==
    /\ Spend("delete")
    /\ files[w].there
    /\ files' = [files EXCEPT ![w] = Absent]
    /\ writer' = [writer EXCEPT ![w] = Nobody]
    /\ UNCHANGED <<open, activeTab, lock, tasks, undo, published>>

SwitchTab(w) ==
    /\ Spend("switch")
    /\ w \in open \ {activeTab}
    /\ activeTab' = w
    /\ UNCHANGED <<files, open, lock, tasks, undo, writer, published>>

\* close_tab shifts the tabs under the active index; the tasks of the closed one go on.
CloseTab(w) ==
    /\ Spend("close")
    /\ w \in open
    /\ open' = open \ {w}
    /\ IF open' = {} THEN UNCHANGED activeTab ELSE activeTab' \in open'
    /\ UNCHANGED <<files, lock, tasks, undo, writer, published>>

Init ==
    /\ files = InitialFile
    /\ open = Worktree /\ activeTab \in Worktree
    /\ lock = Nobody
    /\ tasks = {} /\ undo = <<>> /\ published = {}
    /\ budget = Budget
    /\ writer = [w \in Worktree |-> Nobody]

Steps(t) ==
    \/ ReadAndDecide(t)
    \/ Validate(t)
    \/ Compare(t, "decided", "compared once")
    \/ Compare(t, "compared once", "compared")
    \/ Publish(t)
    \/ Verify(t)
    \/ Finish(t)

Next ==
    \/ \E patch \in Offered : PatchWorktree(patch)
    \/ ExecuteUndo
    \/ \E t \in tasks : Steps(t)
    \/ \E w \in Worktree : Save(w) \/ Delete(w) \/ SwitchTab(w) \/ CloseTab(w)

Spec == Init /\ [][Next]_vars

-----------------------------------------------------------------------------
(* Properties *)

Change   == [worktree : Worktree, before : Content, after : Content]
StepName == {"begun", "decided", "compared once", "compared", "published", "done", "failed"}
TaskType == [id : Nat, kind : {"patch", "restore"}, worktree : Worktree, patch : Offered,
             step : StepName, before : Content, after : Content, saw : Nat \cup {Nobody}]

\* Every variable keeps its type: the module's state is that of worktree_patch.rs:51-1300.
TypeOK ==
    /\ files \in [Worktree -> Content]
    /\ open \subseteq Worktree /\ activeTab \in Worktree
    /\ lock \in Nat \cup {Nobody}
    /\ tasks \subseteq TaskType /\ Cardinality(tasks) <= MaxRunning
    /\ undo \in Seq(Change) /\ Len(undo) <= MaxUndo
    /\ budget \in [BudgetKind -> Nat]
    /\ writer \in [Worktree -> Nat \cup {Nobody}]
    /\ published \subseteq Change

UserEdits(content) == {e \in content.edits : e >= 100}

\* The change that a task about to rename has prepared is for another content than the file's.
Overtaken(t) == t.step = "compared" /\ files[t.worktree] # t.before

\* Neither a patch nor its undo, whatever else went on since, takes one of the user's own edits
\* out of a file, unless the editor saved it after the last comparison (read, three-way merge,
\* comparisons and rename of apply_worktree_patch and restore_worktree_files).
EditsSurvive ==
    [][\A w \in Worktree :
          ~(UserEdits(files[w]) \subseteq UserEdits(files'[w]))
              => \/ writer'[w] = Nobody
                 \/ \E t \in tasks : t.worktree = w /\ Overtaken(t)]_vars

\* Two of the program's own tasks never start from one content of a file: the last write a task
\* replaces is the one it saw, or an editor's (WORKTREE_MUTATION_LOCK, worktree_patch.rs:47-51).
TasksSerialized ==
    [][\A t \in tasks : Publish(t) => writer[t.worktree] \in {t.saw, Nobody}]_vars

\* What an undo would put back is what a patch found in the same file of the same checkout, and
\* what it would replace is what the patch left, whichever tab was on screen when the patch or
\* the undo ended (events.rs:1064, push_undo_for_paths, execute_undo).
UndoKnowsItsFile ==
    /\ \A i \in DOMAIN undo : undo[i] \in published
    /\ \A t \in tasks : t.kind = "restore" =>
           [worktree |-> t.worktree, before |-> t.after, after |-> t.before] \in published

=============================================================================
