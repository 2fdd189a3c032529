------------------------ MODULE WorktreePatchProofs ------------------------
(***************************************************************************)
(* Proofs about WorktreePatch, for any checkouts, any patches, any number  *)
(* of tasks in flight and any editors: its types, that the tasks exclude   *)
(* each other, that an undo knows its file, and that neither a patch nor   *)
(* an undo takes an edit of the user's out of a file.                      *)
(***************************************************************************)
EXTENDS WorktreePatch, FiniteSetTheorems, SequenceTheorems, TLAPS

-----------------------------------------------------------------------------
(* The inductive invariant *)

\* Between the decision and the last comparison a task works under the lock.
Working == {"decided", "compared once", "compared", "published"}
Written == {"published", "done"}

\* The identity of a task is what was left of the budget when it began.
TasksApart ==
    /\ IsFiniteSet(tasks)
    /\ \A t \in tasks : t.id > budget["total"]
    /\ \A t, u \in tasks : t.id = u.id => t = u

LockHeld == \A t \in tasks : t.step \in Working => lock = t.id

\* Until a task writes, the last write to its file is the one it saw, or an editor's.
SawLastWrite ==
    \A t \in tasks : t.step \in Working \ {"published"} => writer[t.worktree] \in {t.saw, Nobody}

SameEdits(before, after) == UserEdits(before) = UserEdits(after)

\* A change leaves the user's edits as they were, both when it is decided and once it is made.
ChangesKeepEdits ==
    /\ \A c \in published : SameEdits(c.before, c.after)
    /\ \A t \in tasks : t.kind = "patch" /\ t.step \in Working => SameEdits(t.before, t.after)

\* What a patch has written is on record when its undo entry is made.
PatchesOnRecord ==
    \A t \in tasks : t.kind = "patch" /\ t.step \in Written => Entry(t, t.worktree) \in published

IInv ==
    /\ TypeOK
    /\ TasksApart
    /\ LockHeld
    /\ SawLastWrite
    /\ ChangesKeepEdits
    /\ PatchesOnRecord
    /\ UndoKnowsItsFile

LEMMA InitInv == Init => IInv
<1> SUFFICES ASSUME Init PROVE IInv
  OBVIOUS
<1> USE WorktreePatchAssumption DEF WorktreePatchAssumption, Init
<1>1. TypeOK
  <2>1. Cardinality(tasks) <= MaxRunning
    BY FS_EmptySet
  <2>2. files \in [Worktree -> Content]
    <3>1. \A w \in Worktree : InitialFile[w] \in Content
      <4> TAKE w \in Worktree
      <4>1. InitialFile[w] \in [edits : SUBSET (1..99), there : BOOLEAN]
        OBVIOUS
      <4>2. InitialFile[w].edits \in SUBSET Nat
        <5>1. 1..99 \subseteq Nat /\ InitialFile[w].edits \subseteq 1..99
          BY <4>1
        <5> QED BY <5>1
      <4> QED BY <4>1, <4>2 DEF Content
    <3> QED BY <3>1
  <2> QED BY <2>1, <2>2 DEF TypeOK
<1>2. TasksApart
  BY FS_EmptySet DEF TasksApart
<1> QED BY <1>1, <1>2 DEF IInv, LockHeld, SawLastWrite, ChangesKeepEdits, PatchesOnRecord,
                          UndoKnowsItsFile

-----------------------------------------------------------------------------
(* The pieces of a step *)

\* An event takes one from the budget, and so from what is left of it.
LEMMA SpendBudget ==
    ASSUME TypeOK, NEW kind \in BudgetKind, Spend(kind)
    PROVE  /\ budget' \in [BudgetKind -> Nat]
           /\ budget["total"] \in Nat /\ budget'["total"] < budget["total"]
<1>1. /\ budget["total"] \in Nat /\ budget["total"] > 0
      /\ budget[kind] \in Nat /\ budget[kind] > 0
  BY DEF TypeOK, Spend, BudgetKind
<1> QED BY <1>1 DEF TypeOK, Spend, BudgetKind

\* Whatever the file holds, a patch that applies keeps the edits that are the user's: those
\* of the diffs are numbered below 100.
LEMMA DecideKeepsEdits ==
    ASSUME NEW patch \in Offered, NEW existing \in Content, NEW after \in Decide(patch, existing)
    PROVE  after \in Content /\ SameEdits(existing, after)
<1>1. /\ patch.base \in Content /\ patch.target \in Content
      /\ \A e \in patch.base.edits \cup patch.target.edits : e \in Nat /\ ~(e >= 100)
  BY WorktreePatchAssumption DEF WorktreePatchAssumption, Patch
<1>2. CASE existing.edits = patch.base.edits
  <2>1. after = Absent \/ after = [edits |-> patch.target.edits, there |-> TRUE]
    BY <1>2 DEF Decide
  <2>2. \A e \in existing.edits \cup after.edits : ~(e >= 100)
    BY <1>1, <1>2, <2>1 DEF Absent
  <2>3. patch.target.edits \in SUBSET Nat
    BY <1>1 DEF Content
  <2>4. after \in Content
    <3>1. [edits |-> {}, there |-> FALSE] \in Content
      BY DEF Content
    <3>2. [edits |-> patch.target.edits, there |-> TRUE] \in Content
      BY <2>3 DEF Content
    <3> QED BY <2>1, <3>1, <3>2 DEF Absent
  <2> QED BY <2>2, <2>4 DEF SameEdits, UserEdits
<1>3. CASE existing.edits # patch.base.edits
  <2> DEFINE merged == (existing.edits \cup (patch.target.edits \ patch.base.edits))
                           \ (patch.base.edits \ patch.target.edits)
  <2>1. after = [edits |-> merged, there |-> TRUE]
    BY <1>3 DEF Decide
  <2>2. \A e : e >= 100 => (e \in existing.edits <=> e \in merged)
    BY <1>1
  <2>3. merged \in SUBSET Nat
    BY <1>1 DEF Content
  <2>4. after.edits = merged /\ after \in Content
    BY <2>1, <2>3 DEF Content
  <2> HIDE DEF merged
  <2> QED BY <2>2, <2>4 DEF SameEdits, UserEdits
<1> QED BY <1>2, <1>3

\* A task that goes on is still the only one of its identity.
LEMMA TaskMoves ==
    ASSUME TypeOK, TasksApart, NEW t \in tasks, NEW u \in TaskType, u.id = t.id,
           Moves(t, u), UNCHANGED budget
    PROVE  tasks' \subseteq TaskType /\ Cardinality(tasks') <= MaxRunning /\ TasksApart'
<1>1. IsFiniteSet(tasks \ {t}) /\ Cardinality(tasks \ {t}) = Cardinality(tasks) - 1
  BY FS_RemoveElement DEF TasksApart
<1>2. IsFiniteSet(tasks') /\ Cardinality(tasks') <= Cardinality(tasks \ {t}) + 1
  <2>1. Cardinality(tasks \ {t}) \in Nat
    BY <1>1, FS_CardinalityType
  <2> QED BY <1>1, <2>1, FS_AddElement DEF Moves
<1>3. Cardinality(tasks) \in Nat
  BY FS_CardinalityType DEF TasksApart
<1>4. Cardinality(tasks') <= MaxRunning
  <2>1. Cardinality(tasks') \in Nat
    BY <1>2, FS_CardinalityType
  <2> QED BY <1>1, <1>2, <1>3, <2>1, WorktreePatchAssumption DEF TypeOK, WorktreePatchAssumption
<1>5. TasksApart'
  BY <1>2 DEF TasksApart, Moves
<1> QED BY <1>4, <1>5 DEF TypeOK, Moves

\* A new task has an identity no other task has.
LEMMA TaskBegins ==
    ASSUME TypeOK, TasksApart, NEW kind \in BudgetKind, Spend(kind),
           Cardinality(tasks) < MaxRunning,
           NEW u \in TaskType, u.id = budget["total"], tasks' = tasks \cup {u}
    PROVE  tasks' \subseteq TaskType /\ Cardinality(tasks') <= MaxRunning /\ TasksApart'
<1>1. IsFiniteSet(tasks') /\ Cardinality(tasks') <= Cardinality(tasks) + 1
  <2>1. IsFiniteSet(tasks) /\ Cardinality(tasks) \in Nat
    BY FS_CardinalityType DEF TasksApart
  <2>2. /\ IsFiniteSet(tasks \cup {u})
        /\ Cardinality(tasks \cup {u}) \in {Cardinality(tasks), Cardinality(tasks) + 1}
    BY <2>1, FS_AddElement
  <2> QED BY <2>1, <2>2
<1>2. Cardinality(tasks) \in Nat /\ Cardinality(tasks') \in Nat
  BY <1>1, FS_CardinalityType DEF TasksApart
<1>3. Cardinality(tasks') <= MaxRunning
  BY <1>1, <1>2, WorktreePatchAssumption DEF WorktreePatchAssumption
<1>4. \A t \in tasks : t.id \in Nat /\ t.id > budget["total"]
  BY DEF TypeOK, TaskType, TasksApart
<1>5. /\ budget["total"] \in Nat /\ budget'["total"] \in Nat
      /\ budget'["total"] < budget["total"]
  BY SpendBudget DEF BudgetKind
<1>6. \A t \in tasks' : t.id > budget'["total"]
  BY <1>4, <1>5
<1>7. \A t, v \in tasks' : t.id = v.id => t = v
  <2>1. \A t \in tasks : t.id # u.id
    BY <1>4, <1>5
  <2> QED BY <2>1 DEF TasksApart
<1> QED BY <1>1, <1>3, <1>6, <1>7 DEF TypeOK, TasksApart

LEMMA ContentFacts ==
    /\ Absent \in Content
    /\ \A c \in Content : c.edits \in SUBSET Nat /\ c.there \in BOOLEAN
    /\ \A edits \in SUBSET Nat : [edits |-> edits, there |-> TRUE] \in Content
BY DEF Absent, Content

\* The undo stack after a push: the entries it had and the new one, never more than MaxUndo.
LEMMA PushKeepsBound ==
    ASSUME TypeOK, NEW entry \in Change
    PROVE  /\ Push(entry) \in Seq(Change) /\ Len(Push(entry)) <= MaxUndo
           /\ \A i \in DOMAIN Push(entry) :
                  Push(entry)[i] = entry \/ \E j \in DOMAIN undo : Push(entry)[i] = undo[j]
<1> DEFINE longer == Append(undo, entry)
<1>1. /\ undo \in Seq(Change) /\ Len(undo) \in Nat /\ Len(undo) <= MaxUndo
      /\ MaxUndo \in Nat
  BY WorktreePatchAssumption DEF WorktreePatchAssumption, TypeOK
<1>2. /\ longer \in Seq(Change) /\ Len(longer) = Len(undo) + 1
      /\ \A i \in 1..Len(longer) : longer[i] = IF i = Len(longer) THEN entry ELSE undo[i]
  BY <1>1
<1> HIDE DEF longer
<1>3. CASE Len(longer) > MaxUndo
  <2>1. Push(entry) = Tail(longer)
    BY <1>3 DEF Push, longer
  <2>2. /\ Tail(longer) \in Seq(Change) /\ Len(Tail(longer)) = Len(undo)
        /\ \A i \in 1..Len(undo) : Tail(longer)[i] = longer[i + 1]
    BY <1>1, <1>2
  <2>3. ASSUME NEW i \in 1..Len(undo)
        PROVE  Tail(longer)[i] = entry \/ \E j \in 1..Len(undo) : Tail(longer)[i] = undo[j]
    BY <1>1, <1>2, <2>2
  <2>4. DOMAIN Tail(longer) = 1..Len(undo) /\ DOMAIN undo = 1..Len(undo)
    BY <1>1, <2>2
  <2> QED BY <1>1, <2>1, <2>2, <2>3, <2>4
<1>4. CASE ~(Len(longer) > MaxUndo)
  <2>1. Push(entry) = longer
    BY <1>4 DEF Push, longer
  <2>2. DOMAIN longer = 1..Len(undo) + 1 /\ DOMAIN undo = 1..Len(undo)
    BY <1>1, <1>2
  <2> QED BY <1>1, <1>2, <1>4, <2>1, <2>2
<1> QED BY <1>3, <1>4

-----------------------------------------------------------------------------
(* Each action keeps the invariant *)

LEMMA PatchWorktreeInv ==
    ASSUME IInv, NEW patch \in Offered, PatchWorktree(patch)
    PROVE  IInv'
<1> DEFINE u == Task("patch", activeTab, patch, Absent, Absent)
<1>1. u \in TaskType /\ u.id = budget["total"] /\ u.step = "begun" /\ u.kind = "patch"
  <2>1. budget["total"] \in Nat
    BY DEF IInv, TypeOK, BudgetKind
  <2> QED BY <2>1, ContentFacts DEF IInv, TypeOK, PatchWorktree, Task, TaskType, StepName
<1>2. tasks' = tasks \cup {u} /\ Cardinality(tasks) < MaxRunning /\ Spend("patch")
  BY DEF PatchWorktree
<1> HIDE DEF u
<1>3. tasks' \subseteq TaskType /\ Cardinality(tasks') <= MaxRunning /\ TasksApart'
  BY <1>1, <1>2, TaskBegins DEF IInv, BudgetKind
<1>4. TypeOK'
  BY <1>2, <1>3, SpendBudget DEF IInv, TypeOK, PatchWorktree, BudgetKind
<1>5. /\ LockHeld' /\ SawLastWrite' /\ ChangesKeepEdits' /\ PatchesOnRecord'
      /\ UndoKnowsItsFile'
  BY <1>1, <1>2 DEF IInv, LockHeld, SawLastWrite, ChangesKeepEdits, PatchesOnRecord,
                    UndoKnowsItsFile, PatchWorktree, Working, Written
<1> QED BY <1>3, <1>4, <1>5 DEF IInv

LEMMA ExecuteUndoInv ==
    ASSUME IInv, ExecuteUndo
    PROVE  IInv'
<1> DEFINE entry == Last(undo)
<1>1. /\ undo \in Seq(Change) /\ Len(undo) \in Nat \ {0}
      /\ entry \in Change /\ entry \in published
  BY DEF IInv, TypeOK, UndoKnowsItsFile, ExecuteUndo, Last
<1>2. /\ undo' \in Seq(Change) /\ Len(undo') <= MaxUndo
      /\ \A i \in DOMAIN undo' : undo'[i] \in published
  <2>1. /\ undo' \in Seq(Change) /\ Len(undo') = Len(undo) - 1
        /\ \A i \in 1..Len(undo) - 1 : undo'[i] = undo[i]
    <3>1. undo' = SubSeq(undo, 1, Len(undo) - 1)
      BY DEF ExecuteUndo, Front
    <3>2. \A i \in 1..Len(undo) : undo[i] \in Change
      BY <1>1, ElementOfSeq
    <3> DEFINE n == Len(undo) - 1
    <3>3. n \in Nat /\ 1..n \subseteq 1..Len(undo)
      BY <1>1
    <3>4. \A i \in 1..n : undo[i] \in Change
      BY <3>2, <3>3
    <3> HIDE DEF n
    <3>5. /\ SubSeq(undo, 1, n) \in Seq(Change)
          /\ Len(SubSeq(undo, 1, n)) = IF 1 <= n THEN n - 1 + 1 ELSE 0
          /\ \A i \in 1..(n - 1 + 1) : SubSeq(undo, 1, n)[i] = undo[1 + i - 1]
      BY <3>3, <3>4, SubSeqProperties
    <3>6. n - 1 + 1 = n /\ (IF 1 <= n THEN n - 1 + 1 ELSE 0) = n /\ \A i \in 1..n : 1 + i - 1 = i
      BY <3>3
    <3>7. Len(SubSeq(undo, 1, n)) = n /\ \A i \in 1..n : SubSeq(undo, 1, n)[i] = undo[i]
      BY <3>5, <3>6
    <3> QED BY <3>1, <3>5, <3>7 DEF n
  <2>2. Len(undo) <= MaxUndo /\ MaxUndo \in Nat
    BY WorktreePatchAssumption DEF IInv, TypeOK, WorktreePatchAssumption
  <2>3. \A i \in 1..Len(undo) : undo[i] \in published
    BY <1>1 DEF IInv, UndoKnowsItsFile
  <2>4. DOMAIN undo' = 1..Len(undo) - 1
    BY <1>1, <2>1
  <2> QED BY <1>1, <2>1, <2>2, <2>3, <2>4
<1>3. Spend("undo") /\ UNCHANGED <<files, open, lock, writer, published>>
  BY DEF ExecuteUndo
<1> HIDE DEF entry
<1>4. CASE entry.worktree \in open
  <2>1. PICK patch \in Offered :
            tasks' = tasks \cup {Task("restore", entry.worktree, patch, entry.after, entry.before)}
    BY <1>4 DEF ExecuteUndo, entry
  <2> DEFINE u == Task("restore", entry.worktree, patch, entry.after, entry.before)
  <2>2. /\ u \in TaskType /\ u.id = budget["total"] /\ u.step = "begun" /\ u.kind = "restore"
        /\ u.worktree = entry.worktree /\ u.before = entry.after /\ u.after = entry.before
    <3>1. budget["total"] \in Nat
      BY DEF IInv, TypeOK, BudgetKind
    <3> QED BY <1>1, <3>1 DEF Change, Task, TaskType, StepName
  <2>3. tasks' = tasks \cup {u} /\ Cardinality(tasks) < MaxRunning
    BY <2>1 DEF ExecuteUndo
  <2> HIDE DEF u
  <2>4. tasks' \subseteq TaskType /\ Cardinality(tasks') <= MaxRunning /\ TasksApart'
    BY <1>3, <2>2, <2>3, TaskBegins DEF IInv, BudgetKind
  <2>5. activeTab' \in Worktree
    BY <1>4 DEF IInv, TypeOK, ExecuteUndo, entry
  <2>6. TypeOK'
    BY <1>2, <1>3, <2>4, <2>5, SpendBudget DEF IInv, TypeOK, BudgetKind
  <2>7. UndoKnowsItsFile'
    <3>1. [worktree |-> u.worktree, before |-> u.after, after |-> u.before] = entry
      BY <1>1, <2>2 DEF Change
    <3> QED BY <1>1, <1>2, <1>3, <2>3, <3>1 DEF IInv, UndoKnowsItsFile
  <2>8. LockHeld' /\ SawLastWrite' /\ ChangesKeepEdits' /\ PatchesOnRecord'
    BY <1>3, <2>2, <2>3 DEF IInv, LockHeld, SawLastWrite, ChangesKeepEdits, PatchesOnRecord,
                            Working, Written
  <2> QED BY <2>4, <2>6, <2>7, <2>8 DEF IInv
<1>5. CASE entry.worktree \notin open
  <2>1. UNCHANGED <<activeTab, tasks>>
    BY <1>5 DEF ExecuteUndo, entry
  <2>2. TypeOK'
    BY <1>2, <1>3, <2>1, SpendBudget DEF IInv, TypeOK, BudgetKind
  <2>3. TasksApart'
    <3>1. \A t \in tasks : t.id \in Nat
      BY DEF IInv, TypeOK, TaskType
    <3>2. /\ budget["total"] \in Nat /\ budget'["total"] \in Nat
          /\ budget'["total"] < budget["total"]
      BY <1>3, SpendBudget DEF IInv, BudgetKind
    <3> QED BY <2>1, <3>1, <3>2 DEF IInv, TasksApart
  <2>4. /\ LockHeld' /\ SawLastWrite' /\ ChangesKeepEdits' /\ PatchesOnRecord'
        /\ UndoKnowsItsFile'
    BY <1>2, <1>3, <2>1 DEF IInv, LockHeld, SawLastWrite, ChangesKeepEdits, PatchesOnRecord,
                            UndoKnowsItsFile
  <2> QED BY <2>2, <2>3, <2>4 DEF IInv
<1> QED BY <1>4, <1>5

\* The lock is free, so no task is between its decision and its last comparison.
LEMMA NobodyWorks ==
    ASSUME IInv, lock = Nobody
    PROVE  \A t \in tasks : t.step \notin Working
<1>1. \A t \in tasks : t.id # Nobody
  BY WorktreePatchAssumption DEF IInv, TypeOK, TaskType, WorktreePatchAssumption
<1> QED BY <1>1 DEF IInv, LockHeld

\* Only one task works.
LEMMA OneWorks ==
    ASSUME IInv, NEW t \in tasks, t.step \in Working
    PROVE  lock = t.id /\ \A v \in tasks : v.step \in Working => v = t
BY DEF IInv, LockHeld, TasksApart

\* A task decides: to give up, or to replace what it read.
LEMMA DecisionInv ==
    ASSUME IInv, NEW t \in tasks, MayLock(t),
           NEW u \in TaskType, Moves(t, u),
           u.id = t.id /\ u.kind = t.kind /\ u.worktree = t.worktree,
           UNCHANGED <<files, open, activeTab, undo, budget, writer, published>>,
           \/ u.step = "failed" /\ u.before = t.before /\ u.after = t.after /\ lock' = lock
           \/ /\ u.step = "decided" /\ lock' = t.id /\ u.saw = writer[t.worktree]
              /\ t.kind = "patch" => SameEdits(u.before, u.after)
              /\ t.kind = "restore" => u.before = t.before /\ u.after = t.after
    PROVE  IInv'
<1>1. \A v \in tasks : v.step \notin Working
  BY NobodyWorks DEF MayLock
<1>2. tasks' \subseteq TaskType /\ Cardinality(tasks') <= MaxRunning /\ TasksApart'
  BY TaskMoves DEF IInv
<1>3. TypeOK'
  <2>1. lock' \in Nat \cup {Nobody}
    BY DEF IInv, TypeOK, TaskType
  <2> QED BY <1>2, <2>1 DEF IInv, TypeOK
<1>4. LockHeld' /\ SawLastWrite'
  BY <1>1 DEF LockHeld, SawLastWrite, Moves, Working
<1>5. ChangesKeepEdits'
  BY <1>1 DEF IInv, ChangesKeepEdits, Moves, Working
<1>6. PatchesOnRecord'
  BY DEF IInv, PatchesOnRecord, Moves, Written
<1>7. UndoKnowsItsFile'
  <2>1. u.kind = "restore" => u.before = t.before /\ u.after = t.after
    OBVIOUS
  <2>2. u.kind = "restore" =>
            [worktree |-> u.worktree, before |-> u.after, after |-> u.before] \in published
    BY <2>1 DEF IInv, UndoKnowsItsFile
  <2> QED BY <2>2 DEF IInv, UndoKnowsItsFile, Moves
<1> QED BY <1>2, <1>3, <1>4, <1>5, <1>6, <1>7 DEF IInv

LEMMA ReadAndDecideInv ==
    ASSUME IInv, NEW t \in tasks, ReadAndDecide(t)
    PROVE  IInv'
<1> DEFINE existing == files[t.worktree]
<1>1. t \in TaskType /\ existing \in Content /\ writer[t.worktree] \in Nat \cup {Nobody}
  BY DEF IInv, TypeOK, TaskType
<1>2. /\ t.kind = "patch" /\ MayLock(t)
      /\ UNCHANGED <<files, open, activeTab, undo, budget, writer, published>>
  BY DEF ReadAndDecide
<1> HIDE DEF existing
<1>3. ASSUME NEW after \in Decide(t.patch, existing),
             Moves(t, [t EXCEPT !.step = "decided", !.before = existing, !.after = after,
                                !.saw = writer[t.worktree]]),
             lock' = t.id
      PROVE  IInv'
  <2> DEFINE u == [t EXCEPT !.step = "decided", !.before = existing, !.after = after,
                            !.saw = writer[t.worktree]]
  <2>1. after \in Content /\ SameEdits(existing, after)
    BY <1>1, DecideKeepsEdits DEF TaskType
  <2>2. /\ u \in TaskType /\ u.id = t.id /\ u.kind = t.kind /\ u.worktree = t.worktree
        /\ u.step = "decided" /\ u.saw = writer[t.worktree]
        /\ u.before = existing /\ u.after = after
    BY <1>1, <2>1 DEF TaskType, StepName
  <2>3. Moves(t, u)
    BY <1>3
  <2> HIDE DEF u
  <2> QED BY <1>2, <1>3, <2>1, <2>2, <2>3, DecisionInv
<1>4. ASSUME Fails(t), UNCHANGED lock
      PROVE  IInv'
  <2> DEFINE u == [t EXCEPT !.step = "failed"]
  <2>1. /\ u \in TaskType /\ u.id = t.id /\ u.kind = t.kind /\ u.worktree = t.worktree
        /\ u.step = "failed" /\ u.before = t.before /\ u.after = t.after
    BY <1>1 DEF TaskType, StepName
  <2>2. Moves(t, u)
    BY <1>4 DEF Fails
  <2> HIDE DEF u
  <2> QED BY <1>2, <1>4, <2>1, <2>2, DecisionInv
<1> QED BY <1>3, <1>4 DEF ReadAndDecide, existing

LEMMA ValidateInv ==
    ASSUME IInv, NEW t \in tasks, Validate(t)
    PROVE  IInv'
<1>1. t \in TaskType /\ writer[t.worktree] \in Nat \cup {Nobody}
  BY DEF IInv, TypeOK, TaskType
<1>2. /\ t.kind = "restore" /\ MayLock(t)
      /\ UNCHANGED <<files, open, activeTab, undo, budget, writer, published>>
  BY DEF Validate
<1>3. CASE files[t.worktree] = t.before
  <2> DEFINE u == [t EXCEPT !.step = "decided", !.saw = writer[t.worktree]]
  <2>1. /\ u \in TaskType /\ u.id = t.id /\ u.kind = t.kind /\ u.worktree = t.worktree
        /\ u.step = "decided" /\ u.saw = writer[t.worktree]
        /\ u.before = t.before /\ u.after = t.after
    BY <1>1 DEF TaskType, StepName
  <2>2. Moves(t, u) /\ lock' = t.id
    BY <1>3 DEF Validate
  <2> HIDE DEF u
  <2> QED BY <1>2, <2>1, <2>2, DecisionInv
<1>4. CASE files[t.worktree] # t.before
  <2> DEFINE u == [t EXCEPT !.step = "failed"]
  <2>1. /\ u \in TaskType /\ u.id = t.id /\ u.kind = t.kind /\ u.worktree = t.worktree
        /\ u.step = "failed" /\ u.before = t.before /\ u.after = t.after
    BY <1>1 DEF TaskType, StepName
  <2>2. Moves(t, u) /\ lock' = lock
    BY <1>4 DEF Validate, Fails
  <2> HIDE DEF u
  <2> QED BY <1>2, <2>1, <2>2, DecisionInv
<1> QED BY <1>3, <1>4

\* A task that works goes on under the lock, or ends and gives it back, and the file is as it
\* was.
LEMMA WorkInv ==
    ASSUME IInv, NEW t \in tasks, t.step \in Working,
           NEW step \in StepName, Moves(t, [t EXCEPT !.step = step]),
           UNCHANGED <<files, open, activeTab, undo, budget, writer, published>>,
           \/ step \in {"compared once", "compared"} /\ t.step # "published" /\ lock' = lock
           \/ step = "done" /\ t.step = "published" /\ lock' = Nobody
           \/ step = "failed" /\ lock' = Nobody
    PROVE  IInv'
<1> DEFINE u == [t EXCEPT !.step = step]
<1>1. /\ u \in TaskType /\ u.id = t.id /\ u.kind = t.kind /\ u.worktree = t.worktree
      /\ u.step = step /\ u.saw = t.saw /\ u.before = t.before /\ u.after = t.after
  <2>1. t \in TaskType
    BY DEF IInv, TypeOK
  <2> QED BY <2>1 DEF TaskType
<1>2. Moves(t, u)
  OBVIOUS
<1> HIDE DEF u
<1>3. lock = t.id /\ \A v \in tasks \ {t} : v.step \notin Working
  BY OneWorks
<1>4. tasks' \subseteq TaskType /\ Cardinality(tasks') <= MaxRunning /\ TasksApart'
  BY <1>1, <1>2, TaskMoves DEF IInv
<1>5. TypeOK'
  <2>1. lock' \in Nat \cup {Nobody}
    BY DEF IInv, TypeOK
  <2> QED BY <1>4, <2>1 DEF IInv, TypeOK
<1>6. LockHeld' /\ SawLastWrite'
  BY <1>1, <1>2, <1>3 DEF IInv, LockHeld, SawLastWrite, Moves, Working
<1>7. ChangesKeepEdits'
  BY <1>1, <1>2 DEF IInv, ChangesKeepEdits, Moves
<1>8. PatchesOnRecord'
  <2>1. u.kind = "patch" /\ u.step \in Written => Entry(u, u.worktree) \in published
    BY <1>1 DEF IInv, PatchesOnRecord, Written, Entry
  <2> QED BY <1>2, <2>1 DEF IInv, PatchesOnRecord, Moves
<1>9. UndoKnowsItsFile'
  <2>1. u.kind = "restore" =>
            [worktree |-> u.worktree, before |-> u.after, after |-> u.before] \in published
    BY <1>1 DEF IInv, UndoKnowsItsFile
  <2> QED BY <1>2, <2>1 DEF IInv, UndoKnowsItsFile, Moves
<1> QED BY <1>4, <1>5, <1>6, <1>7, <1>8, <1>9 DEF IInv

LEMMA CompareInv ==
    ASSUME IInv, NEW t \in tasks, NEW from \in Working \ {"published"},
           NEW to \in {"compared once", "compared"}, Compare(t, from, to)
    PROVE  IInv'
<1>1. t.step \in Working /\ t.step # "published"
  BY DEF Compare
<1>2. CASE files[t.worktree] = t.before
  BY <1>1, <1>2, WorkInv DEF Compare, StepName
<1>3. CASE files[t.worktree] # t.before
  BY <1>1, <1>3, WorkInv DEF Compare, Fails, StepName
<1> QED BY <1>2, <1>3

LEMMA VerifyInv ==
    ASSUME IInv, NEW t \in tasks, Verify(t)
    PROVE  IInv'
<1>1. t.step = "published" /\ t.step \in Working
  BY DEF Verify, Working
<1>2. CASE files[t.worktree] = t.after
  BY <1>1, <1>2, WorkInv DEF Verify, StepName
<1>3. CASE files[t.worktree] # t.after
  BY <1>1, <1>3, WorkInv DEF Verify, Fails, StepName
<1> QED BY <1>2, <1>3

LEMMA PublishInv ==
    ASSUME IInv, NEW t \in tasks, Publish(t)
    PROVE  IInv'
<1>1. t \in TaskType /\ t.step = "compared" /\ t.step \in Working /\ t.step # "published"
  BY DEF IInv, TypeOK, Publish, Working
<1>2. CASE ~t.after.there /\ ~files[t.worktree].there
  BY <1>1, <1>2, WorkInv DEF Publish, Fails, StepName
<1>3. CASE ~(~t.after.there /\ ~files[t.worktree].there)
  <2> DEFINE u == [t EXCEPT !.step = "published"]
             c == [worktree |-> t.worktree, before |-> t.before, after |-> t.after]
  <2>1. /\ u \in TaskType /\ u.id = t.id /\ u.kind = t.kind /\ u.worktree = t.worktree
        /\ u.step = "published" /\ u.before = t.before /\ u.after = t.after
    BY <1>1 DEF TaskType, StepName
  <2>2. c \in Change /\ c = Entry(u, u.worktree) /\ c.before = t.before /\ c.after = t.after
    BY <1>1, <2>1 DEF TaskType, Change, Entry
  <2>3. /\ Moves(t, u) /\ published' = published \cup {c}
        /\ files' = [files EXCEPT ![t.worktree] = t.after]
        /\ writer' = [writer EXCEPT ![t.worktree] = t.id]
        /\ UNCHANGED <<open, activeTab, lock, undo, budget>>
    BY <1>3 DEF Publish
  <2> HIDE DEF u, c
  <2>4. lock = t.id /\ \A v \in tasks \ {t} : v.step \notin Working
    BY <1>1, OneWorks
  <2>5. tasks' \subseteq TaskType /\ Cardinality(tasks') <= MaxRunning /\ TasksApart'
    BY <2>1, <2>3, TaskMoves DEF IInv
  <2>6. TypeOK'
    <3>1. files' \in [Worktree -> Content] /\ writer' \in [Worktree -> Nat \cup {Nobody}]
      BY <1>1, <2>3 DEF IInv, TypeOK, TaskType
    <3> QED BY <2>2, <2>3, <2>5, <3>1 DEF IInv, TypeOK
  <2>7. LockHeld' /\ SawLastWrite'
    BY <2>1, <2>3, <2>4 DEF LockHeld, SawLastWrite, Moves, Working
  <2>8. ChangesKeepEdits'
    <3>1. SameEdits(t.before, t.after)
      <4>1. CASE t.kind = "patch"
        BY <1>1, <4>1 DEF IInv, ChangesKeepEdits
      <4>2. CASE t.kind = "restore"
        <5>1. [worktree |-> t.worktree, before |-> t.after, after |-> t.before] \in published
          BY <4>2 DEF IInv, UndoKnowsItsFile
        <5>2. SameEdits(t.after, t.before)
          BY <5>1 DEF IInv, ChangesKeepEdits
        <5> QED BY <5>2 DEF SameEdits
      <4> QED BY <1>1, <4>1, <4>2 DEF TaskType
    <3> QED BY <2>1, <2>2, <2>3, <3>1 DEF IInv, ChangesKeepEdits, Moves
  <2>9. PatchesOnRecord'
    BY <2>2, <2>3 DEF IInv, PatchesOnRecord, Moves
  <2>10. UndoKnowsItsFile'
    <3>1. u.kind = "restore" =>
              [worktree |-> u.worktree, before |-> u.after, after |-> u.before] \in published
      BY <2>1 DEF IInv, UndoKnowsItsFile
    <3> QED BY <2>3, <3>1 DEF IInv, UndoKnowsItsFile, Moves
  <2> QED BY <2>5, <2>6, <2>7, <2>8, <2>9, <2>10 DEF IInv
<1> QED BY <1>2, <1>3

LEMMA FinishInv ==
    ASSUME IInv, NEW t \in tasks, Finish(t)
    PROVE  IInv'
<1>1. /\ t \in TaskType /\ tasks' = tasks \ {t}
      /\ UNCHANGED <<files, open, activeTab, lock, budget, writer, published>>
  BY DEF IInv, TypeOK, Finish
<1>2. /\ undo' \in Seq(Change) /\ Len(undo') <= MaxUndo
      /\ \A i \in DOMAIN undo' : undo'[i] \in published
  <2>1. CASE Undoable(t)
    <3>1. Entry(t, t.worktree) \in Change /\ Entry(t, t.worktree) \in published
      BY <1>1, <2>1 DEF IInv, PatchesOnRecord, Undoable, Written, Entry, Change, TaskType
    <3>2. undo' = Push(Entry(t, t.worktree))
      BY <2>1 DEF Finish
    <3> QED BY <3>1, <3>2, PushKeepsBound DEF IInv, UndoKnowsItsFile
  <2>2. CASE ~Undoable(t)
    BY <2>2 DEF IInv, TypeOK, UndoKnowsItsFile, Finish
  <2> QED BY <2>1, <2>2
<1>3. /\ TasksApart' /\ Cardinality(tasks') <= MaxRunning
  <2>1. IsFiniteSet(tasks') /\ Cardinality(tasks') = Cardinality(tasks) - 1
    BY <1>1, FS_RemoveElement DEF IInv, TasksApart
  <2>2. Cardinality(tasks) \in Nat
    BY FS_CardinalityType DEF IInv, TasksApart
  <2>3. Cardinality(tasks') <= MaxRunning
    BY <2>1, <2>2, WorktreePatchAssumption DEF IInv, TypeOK, WorktreePatchAssumption
  <2> QED BY <1>1, <2>1, <2>3 DEF IInv, TasksApart
<1>4. TypeOK'
  BY <1>1, <1>2, <1>3 DEF IInv, TypeOK
<1>5. /\ LockHeld' /\ SawLastWrite' /\ ChangesKeepEdits' /\ PatchesOnRecord'
      /\ UndoKnowsItsFile'
  BY <1>1, <1>2 DEF IInv, LockHeld, SawLastWrite, ChangesKeepEdits, PatchesOnRecord,
                    UndoKnowsItsFile
<1> QED BY <1>3, <1>4, <1>5 DEF IInv

\* Editors and tabs change no task; what an editor saves is nobody's write.
LEMMA OutsideInv ==
    ASSUME IInv, NEW w \in Worktree, Save(w) \/ Delete(w) \/ SwitchTab(w) \/ CloseTab(w)
    PROVE  IInv'
<1>1. /\ UNCHANGED <<lock, tasks, undo, published>>
      /\ \E kind \in BudgetKind : Spend(kind)
  BY DEF Save, Delete, SwitchTab, CloseTab, BudgetKind
<1>2. /\ budget' \in [BudgetKind -> Nat]
      /\ budget["total"] \in Nat /\ budget'["total"] \in Nat
      /\ budget'["total"] < budget["total"]
  BY <1>1, SpendBudget DEF IInv, BudgetKind
<1>3. writer' = writer \/ writer' = [writer EXCEPT ![w] = Nobody]
  BY DEF Save, Delete, SwitchTab, CloseTab
<1>4. files' \in [Worktree -> Content]
  <2>1. CASE Save(w)
    <3>1. /\ files[w] \in Content /\ 100 + budget["total"] \in Nat
          /\ files[w].edits \cup {100 + budget["total"]} \in SUBSET Nat
      BY <1>2, ContentFacts DEF IInv, TypeOK
    <3>2. [edits |-> files[w].edits \cup {100 + budget["total"]}, there |-> TRUE] \in Content
      BY <3>1, ContentFacts
    <3> QED BY <2>1, <3>2 DEF IInv, TypeOK, Save
  <2>2. CASE Delete(w)
    BY <2>2, ContentFacts DEF IInv, TypeOK, Delete
  <2> QED BY <2>1, <2>2 DEF IInv, TypeOK, SwitchTab, CloseTab
<1>5. open' \subseteq Worktree /\ activeTab' \in Worktree
  BY DEF IInv, TypeOK, Save, Delete, SwitchTab, CloseTab
<1>6. TypeOK'
  <2>1. writer' \in [Worktree -> Nat \cup {Nobody}]
    BY <1>3 DEF IInv, TypeOK
  <2> QED BY <1>1, <1>2, <1>4, <1>5, <2>1 DEF IInv, TypeOK
<1>7. TasksApart'
  <2>1. \A t \in tasks : t.id \in Nat
    BY DEF IInv, TypeOK, TaskType
  <2> QED BY <1>1, <1>2, <2>1 DEF IInv, TasksApart
<1>8. SawLastWrite'
  <2>1. \A t \in tasks : t.worktree \in Worktree
    BY DEF IInv, TypeOK, TaskType
  <2> QED BY <1>1, <1>3, <2>1 DEF IInv, TypeOK, SawLastWrite
<1>9. LockHeld' /\ ChangesKeepEdits' /\ PatchesOnRecord' /\ UndoKnowsItsFile'
  BY <1>1 DEF IInv, LockHeld, ChangesKeepEdits, PatchesOnRecord, UndoKnowsItsFile
<1> QED BY <1>6, <1>7, <1>8, <1>9 DEF IInv

-----------------------------------------------------------------------------
(* The theorems *)

LEMMA StepInv == IInv /\ [Next]_vars => IInv'
<1> SUFFICES ASSUME IInv, [Next]_vars PROVE IInv'
  OBVIOUS
<1>1. ASSUME NEW patch \in Offered, PatchWorktree(patch) PROVE IInv'
  BY <1>1, PatchWorktreeInv
<1>2. CASE ExecuteUndo
  BY <1>2, ExecuteUndoInv
<1>3. ASSUME NEW t \in tasks, Steps(t) PROVE IInv'
  <2>1. CASE ReadAndDecide(t)
    BY <2>1, ReadAndDecideInv
  <2>2. CASE Validate(t)
    BY <2>2, ValidateInv
  <2>3. CASE Compare(t, "decided", "compared once") \/ Compare(t, "compared once", "compared")
    BY <2>3, CompareInv DEF Working
  <2>4. CASE Publish(t)
    BY <2>4, PublishInv
  <2>5. CASE Verify(t)
    BY <2>5, VerifyInv
  <2>6. CASE Finish(t)
    BY <2>6, FinishInv
  <2> QED BY <1>3, <2>1, <2>2, <2>3, <2>4, <2>5, <2>6 DEF Steps
<1>4. ASSUME NEW w \in Worktree, Save(w) \/ Delete(w) \/ SwitchTab(w) \/ CloseTab(w)
      PROVE  IInv'
  BY <1>4, OutsideInv
<1>5. CASE UNCHANGED vars
  BY <1>5 DEF vars, IInv, TypeOK, TasksApart, LockHeld, SawLastWrite, ChangesKeepEdits,
              PatchesOnRecord, UndoKnowsItsFile
<1> QED BY <1>1, <1>2, <1>3, <1>4, <1>5 DEF Next

LEMMA Invariant == Spec => []IInv
BY InitInv, StepInv, PTL DEF Spec

\* Every variable keeps its type; no more than MaxRunning tasks are in flight and the undo
\* stack never exceeds its bound.
THEOREM TypeCorrect == Spec => []TypeOK
<1>1. IInv => TypeOK
  BY DEF IInv
<1> QED BY Invariant, <1>1, PTL

\* What an undo, waiting or under way, would put back is what a patch found in the same
\* file of the same checkout, whichever tabs were switched to or closed since.
THEOREM UndosKnowTheirFile == Spec => []UndoKnowsItsFile
<1>1. IInv => UndoKnowsItsFile
  BY DEF IInv
<1> QED BY Invariant, <1>1, PTL

\* No task replaces a write of another task that it has not seen: the lock serializes them,
\* however many are in flight.
THEOREM TasksAreSerialized == Spec => TasksSerialized
<1>1. IInv /\ [Next]_vars
          => [\A t \in tasks : Publish(t) => writer[t.worktree] \in {t.saw, Nobody}]_vars
  BY DEF IInv, SawLastWrite, Publish, Working
<1> QED BY Invariant, <1>1, PTL DEF Spec, TasksSerialized

\* No patch and no undo takes an edit of the user's out of a file, unless an editor saved the
\* file between the task's last comparison and its rename.
THEOREM UserEditsSurvive == Spec => EditsSurvive
<1> DEFINE Kept == \A w \in Worktree :
                       ~(UserEdits(files[w]) \subseteq UserEdits(files'[w]))
                           => \/ writer'[w] = Nobody
                              \/ \E t \in tasks : t.worktree = w /\ Overtaken(t)
<1>1. IInv /\ [Next]_vars => [Kept]_vars
  <2> SUFFICES ASSUME IInv, [Next]_vars,
                      NEW w \in Worktree, ~(UserEdits(files[w]) \subseteq UserEdits(files'[w]))
               PROVE  \/ writer'[w] = Nobody
                      \/ \E t \in tasks : t.worktree = w /\ Overtaken(t)
    OBVIOUS
  <2>1. files'[w] # files[w]
    OBVIOUS
  <2>2. ASSUME NEW v \in Worktree, Save(v) \/ Delete(v)
        PROVE  writer'[w] = Nobody
    BY <2>1, <2>2 DEF IInv, TypeOK, Save, Delete
  <2>3. ASSUME NEW t \in tasks, Publish(t)
        PROVE  t.worktree = w /\ Overtaken(t)
    <3>1. /\ t \in TaskType /\ t.step = "compared" /\ t.worktree = w
          /\ files'[w] = t.after
      BY <2>1, <2>3 DEF IInv, TypeOK, TaskType, Publish
    <3>2. SameEdits(t.before, t.after)
      <4>1. CASE t.kind = "patch"
        BY <3>1, <4>1 DEF IInv, ChangesKeepEdits, Working
      <4>2. CASE t.kind = "restore"
        BY <4>2 DEF IInv, ChangesKeepEdits, UndoKnowsItsFile, SameEdits
      <4> QED BY <3>1, <4>1, <4>2 DEF TaskType
    <3>3. files[w] # t.before
      BY <3>1, <3>2 DEF SameEdits
    <3> QED BY <3>1, <3>3 DEF Overtaken
  <2>4. ASSUME UNCHANGED files
        PROVE  FALSE
    BY <2>1, <2>4
  <2>5. ASSUME NEW t \in tasks, Steps(t), ~Publish(t)
        PROVE  UNCHANGED files
    BY <2>5 DEF Steps, ReadAndDecide, Validate, Compare, Verify, Finish
  <2> QED BY <2>2, <2>3, <2>4, <2>5
          DEF Next, vars, PatchWorktree, ExecuteUndo, SwitchTab, CloseTab
<1> QED BY Invariant, <1>1, PTL DEF Spec, EditsSurvive
=============================================================================
