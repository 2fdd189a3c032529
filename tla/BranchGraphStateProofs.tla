----------------------- MODULE BranchGraphStateProofs -----------------------
(***************************************************************************)
(* What holds of BranchGraphState for every value of its constants: any    *)
(* branches, upstreams and trunk order, any number of walks and tasks.     *)
(***************************************************************************)
EXTENDS BranchGraphState, WellFoundedInduction, TLAPS

-----------------------------------------------------------------------------
(* Lookups *)

\* A non-empty set of natural numbers has a least element.
LEMMA LeastNatural ==
    ASSUME NEW T \in SUBSET Nat, T # {}
    PROVE  \E m \in T : \A n \in T : m <= n
<1>1. \E m \in T : \A n \in T : ~(<<n, m>> \in OpToRel(<, Nat))
  BY NatLessThanWellFounded, WFMin, Zenon
<1>2. PICK m \in T : \A n \in T : ~(<<n, m>> \in OpToRel(<, Nat))
  BY <1>1
<1>3. ASSUME NEW n \in T PROVE m <= n
  <2>1. ~(n < m)
    BY <1>2 DEF OpToRel
  <2> QED BY <2>1
<1> QED BY <1>3

\* The trunk is at a commit, or there is none.
LEMMA TrunkOfType ==
    ASSUME NEW tip \in [Branch -> Nat]
    PROVE  TrunkOf(tip) \in Nat
<1> DEFINE there == {i \in DOMAIN TrunkOrder : tip[TrunkOrder[i]] # NoCommit}
           first == CHOOSE i \in there : \A j \in there : i <= j
<1>1. CASE there = {}
  BY <1>1 DEF TrunkOf, NoCommit
<1>2. CASE there # {}
  <2>1. there \in SUBSET Nat
    BY GraphStateAssumption
  <2>2. \E i \in there : \A j \in there : i <= j
    BY <1>2, <2>1, LeastNatural
  <2>3. first \in there
    BY <2>2
  <2>4. TrunkOrder[first] \in Branch
    BY <2>3, GraphStateAssumption
  <2>5. TrunkOf(tip) = tip[TrunkOrder[first]]
    BY <1>2 DEF TrunkOf
  <2> QED BY <2>4, <2>5
<1> QED BY <1>1, <1>2

\* What is looked up in the refs is a commit, or NoCommit.
LEMMA LookupTypes ==
    ASSUME NEW refs \in Refs
    PROVE  /\ TrunkTip(refs) \in Nat /\ HeadTip(refs) \in Nat /\ LiveHead(refs) \in Nat
           /\ \A b \in Local : refs.tip[b] \in Nat /\ TrackedTip(refs, b) \in Nat
<1>1. TrunkTip(refs) \in Nat
  BY TrunkOfType DEF TrunkTip, Refs
<1>2. HeadTip(refs) \in Nat /\ LiveHead(refs) \in Nat
  BY DEF HeadTip, LiveHead, Refs, Branch, NoCommit
<1>3. ASSUME NEW b \in Local
      PROVE  refs.tip[b] \in Nat /\ TrackedTip(refs, b) \in Nat
  BY DEF TrackedTip, Refs, Branch, NoCommit
<1> QED BY <1>1, <1>2, <1>3

\* An answer is a pair of commits, and the answer for that pair.
LEMMA AnswerForType ==
    ASSUME NEW tip \in Nat, NEW reference \in Nat
    PROVE  /\ AnswerFor(tip, reference) \in Pair
           /\ RightFor(AnswerFor(tip, reference), tip, reference)
BY DEF AnswerFor, RightFor, Unknown, NoCommit, Pair

\* A snapshot is one, and its counts are those of its own refs.
LEMMA SnapshotIsRight ==
    ASSUME NEW refs \in Refs, NEW counting \in BOOLEAN
    PROVE  /\ Snapshot(refs, counting) \in SnapshotType
           /\ Snapshot(refs, counting).refs = refs
           /\ \A b \in Local : RightFor(Snapshot(refs, counting).counts[b],
                                        refs.tip[b], TrackedTip(refs, b))
<1> DEFINE counted == [b \in Local |-> AnswerFor(refs.tip[b], TrackedTip(refs, b))]
<1>1. \A b \in Local : /\ AnswerFor(refs.tip[b], TrackedTip(refs, b)) \in Pair
                       /\ RightFor(AnswerFor(refs.tip[b], TrackedTip(refs, b)),
                                   refs.tip[b], TrackedTip(refs, b))
  BY LookupTypes, AnswerForType
<1>2. counted \in Counts /\ NoCounts \in Counts
  BY <1>1 DEF Counts, NoCounts, Unknown, NoCommit, Pair
<1>3. Snapshot(refs, counting) = [refs |-> refs, counts |-> IF counting THEN counted ELSE NoCounts]
  BY DEF Snapshot
<1>4. \A b \in Local : RightFor(NoCounts[b], refs.tip[b], TrackedTip(refs, b))
  BY DEF NoCounts, RightFor
<1>5. \A b \in Local : counted[b] = AnswerFor(refs.tip[b], TrackedTip(refs, b))
  OBVIOUS
<1>6. CASE counting
  <2> HIDE DEF counted
  <2> QED BY <1>1, <1>2, <1>3, <1>5, <1>6 DEF SnapshotType
<1>7. CASE ~counting
  <2> HIDE DEF counted
  <2> QED BY <1>2, <1>3, <1>4, <1>7 DEF SnapshotType
<1> QED BY <1>6, <1>7

\* Before anything was gathered.
LEMMA NothingIsRight ==
    /\ NoRefs \in Refs /\ NoSnapshot \in SnapshotType
    /\ NoSnapshot.refs = NoRefs
    /\ \A b \in Local : NoSnapshot.counts[b] = Unknown
    /\ NoAnswers \in Answers
    /\ SleepingWatcher \in WatcherType
<1>1. NoRefs \in Refs
  BY DEF NoRefs, RefsOf, Refs, NoCommit
<1>2. NoSnapshot \in SnapshotType /\ NoSnapshot.refs = NoRefs
  BY <1>1, SnapshotIsRight DEF NoSnapshot
<1>3. \A b \in Local : NoSnapshot.counts[b] = Unknown
  BY DEF NoSnapshot, Snapshot, NoCounts
<1>4. NoAnswers \in Answers
  BY DEF NoAnswers, NoAnswer, Answers, Unknown, NoCommit, Pair
<1> QED BY <1>1, <1>2, <1>3, <1>4 DEF SleepingWatcher, WatcherType

-----------------------------------------------------------------------------
(* Types *)

\* What is carried forward are answers.
LEMMA CarryForwardType ==
    ASSUME NEW old \in Refs, NEW before \in Answers, NEW new \in Refs, NEW counts \in Counts
    PROVE  CarryForward(old, before, new, counts) \in Answers
<1>1. Unknown \in Pair
  BY DEF Unknown, NoCommit, Pair
<1>2. ASSUME NEW b \in Local
      PROVE  /\ Kept(before[b].main, TrunkTip(old), TrunkTip(new)) \in Pair
             /\ Kept(before[b].head, HeadTip(old), HeadTip(new)) \in Pair
             /\ KeptCounts(b, old, new, counts[b], before[b].track) \in Pair
             /\ counts[b] \in Pair
  <2>1. before[b] \in [main : Pair, head : Pair, track : Pair] /\ counts[b] \in Pair
    BY DEF Answers, Counts
  <2>2. /\ Kept(before[b].main, TrunkTip(old), TrunkTip(new)) \in Pair
        /\ Kept(before[b].head, HeadTip(old), HeadTip(new)) \in Pair
    BY <1>1, <2>1 DEF Kept
  <2>3. KeptCounts(b, old, new, counts[b], before[b].track) \in Pair
    BY <1>1, <2>1 DEF KeptCounts
  <2> QED BY <2>1, <2>2, <2>3
<1>3. ASSUME NEW b \in Local
      PROVE  [NoAnswer EXCEPT !.track = counts[b]] \in [main : Pair, head : Pair, track : Pair]
  BY <1>1, <1>2 DEF NoAnswer
<1> HIDE DEF Kept, KeptCounts
<1> QED BY <1>2, <1>3 DEF CarryForward, Answers

\* A walk starts from the tips on screen.
LEMMA WalkTypes ==
    ASSUME NEW attempt \in 0..MaxAttempts-1, NEW tips \in [Branch -> Nat],
           NEW refresh \in Nat, NEW query \in Nat
    PROVE  Walk(attempt, tips, refresh, query) \in WalkType
BY DEF Walk, WalkType, Counts, Pair, Unknown, NoCommit

\* An edit leaves refs.
LEMMA EditedType ==
    ASSUME repo \in Refs, NEW kind \in Edit, NEW b \in Branch, Possible(kind, b)
    PROVE  Edited(kind, b) \in Refs
<1> DEFINE new  == repo.version + 1
           next == [repo EXCEPT !.version = new, !.print = new]
           Moved(x, c) == [next EXCEPT !.tip[x] = c]
<1>1. LiveHead(repo) \in Nat /\ new \in Nat /\ NoCommit \in Nat
  BY LookupTypes DEF Refs, NoCommit
<1>2. next \in Refs
  BY <1>1 DEF Refs
<1>3. ASSUME NEW x \in Branch, NEW c \in Nat PROVE Moved(x, c) \in Refs
  <2> HIDE DEF next
  <2> QED BY <1>2 DEF Refs
<1>4. \A x \in Branch : repo.tip[x] \in Nat
  BY DEF Refs
<1>5. CASE kind = "push"
  <2>1. Edited(kind, b) = Moved(repo.upstream[b], repo.tip[b]) /\ repo.upstream[b] \in Branch
    BY <1>5 DEF Edited, Possible, Branch
  <2> HIDE DEF Moved
  <2> QED BY <1>3, <1>4, <2>1
<1>6. CASE kind \in {"commit", "fetch"}
  <2>1. CASE kind = "commit" /\ repo.on = NoBranch
    <3>1. Edited(kind, b) = [next EXCEPT !.at = new]
      BY <2>1 DEF Edited
    <3> HIDE DEF next, new
    <3> QED BY <1>1, <1>2, <3>1 DEF Refs
  <2>2. CASE kind = "fetch" \/ repo.on # NoBranch
    <3>1. \E x \in Branch : Edited(kind, b) = Moved(x, new)
      BY <1>6, <2>2 DEF Edited, Refs, Branch
    <3> HIDE DEF Moved, new
    <3> QED BY <1>1, <1>3, <3>1
  <2> QED BY <1>6, <2>1, <2>2
<1>7. CASE kind \in {"checkout", "detach"}
  <2>1. b \in Local
    BY <1>7 DEF Possible, LocalsOf, Refs
  <2>2. \E on \in Local \cup {NoBranch}, at \in Nat :
          Edited(kind, b) = [next EXCEPT !.on = on, !.at = at]
    BY <1>1, <1>7, <2>1 DEF Edited
  <2> HIDE DEF next
  <2> QED BY <1>2, <2>2 DEF Refs
<1>8. CASE kind = "delete"
  <2>1. Edited(kind, b) = [Moved(b, NoCommit) EXCEPT !.upstream[b] = NoBranch]
    BY <1>8 DEF Edited
  <2>2. Moved(b, NoCommit) \in Refs
    BY <1>1, <1>3
  <2> HIDE DEF Moved
  <2> QED BY <2>1, <2>2 DEF Refs
<1>9. CASE kind = "publish"
  <2>1. repo.on \in Local
    BY <1>9 DEF Possible, Refs
  <2>2. \E print \in Nat : Edited(kind, b) = [Moved(b, repo.tip[repo.on]) EXCEPT
                                               !.upstream[repo.on] = b, !.print = print]
    BY <1>1, <1>9 DEF Edited, Refs
  <2>3. Moved(b, repo.tip[repo.on]) \in Refs
    BY <1>3, <1>4, <2>1 DEF Branch
  <2> HIDE DEF Moved
  <2> QED BY <2>1, <2>2, <2>3 DEF Refs
<1>10. CASE kind = "track"
  <2>1. \E u \in Branch \cup {NoBranch} :
          Edited(kind, b) = [next EXCEPT !.upstream[repo.on] = u, !.print = repo.print]
    BY <1>10 DEF Edited
  <2>2. repo.print \in Nat
    BY DEF Refs
  <2> HIDE DEF next
  <2> QED BY <1>2, <2>1, <2>2 DEF Refs
<1> QED BY <1>5, <1>6, <1>7, <1>8, <1>9, <1>10 DEF Edit

\* Spending keeps the budget one.
LEMMA SpendType ==
    ASSUME budget \in [BudgetKind -> Nat], NEW kind \in BudgetKind, Spend(kind)
    PROVE  budget' \in [BudgetKind -> Nat]
BY DEF Spend, BudgetKind

\* A snapshot that is applied leaves refs, answers and a generation.
LEMMA ApplyType ==
    ASSUME TypeOK, NEW data \in SnapshotType, ApplyRefreshData(data)
    PROVE  shown' \in Refs /\ answers' \in Answers /\ refreshGen' \in Nat
BY CarryForwardType DEF ApplyRefreshData, TypeOK, SnapshotType

\* A walk that follows a snapshot is one.
LEMMA FollowUpType ==
    ASSUME TypeOK, shown' \in Refs, refreshGen' \in Nat,
           RefreshAheadBehind \/ WalkIfNeeded \/ UNCHANGED walks
    PROVE  walks' \subseteq WalkType
<1>1. Walk(0, shown'.tip, refreshGen', queryGen) \in WalkType
  <2>1. 0 \in 0..MaxAttempts-1
    BY GraphStateAssumption
  <2> QED BY <2>1, WalkTypes DEF TypeOK, Refs
<1> QED BY <1>1 DEF RefreshAheadBehind, WalkIfNeeded, TypeOK

\* The environment and the user.
LEMMA UserKeepsType ==
    ASSUME TypeOK
    PROVE  /\ \A kind \in EditKinds, b \in Branch : EditRefs(kind, b) => TypeOK'
           /\ SaveFile => TypeOK'
           /\ ToggleMyCommits => TypeOK'
           /\ \A kind \in RefreshKind : StartTask(kind) => TypeOK'
<1>1. ASSUME NEW kind \in EditKinds, NEW b \in Branch, EditRefs(kind, b) PROVE TypeOK'
  <2>1. kind \in Edit /\ kind \in BudgetKind
    BY GraphStateAssumption DEF BudgetKind
  <2>2. repo' \in Refs
    BY <1>1, <2>1, EditedType DEF EditRefs, TypeOK
  <2>3. budget' \in [BudgetKind -> Nat]
    BY <1>1, <2>1, SpendType DEF EditRefs, TypeOK
  <2> QED BY <1>1, <2>2, <2>3 DEF EditRefs, TypeOK, view
<1>2. ASSUME SaveFile PROVE TypeOK'
  BY <1>2, SpendType DEF SaveFile, TypeOK, view, BudgetKind
<1>3. ASSUME ToggleMyCommits PROVE TypeOK'
  BY <1>3, SpendType DEF ToggleMyCommits, TypeOK, view, BudgetKind
<1>4. ASSUME NEW kind \in RefreshKind, StartTask(kind) PROVE TypeOK'
  <2>1. budget' \in [BudgetKind -> Nat]
    BY <1>4, SpendType DEF StartTask, TypeOK, BudgetKind
  <2>2. queryGen' \in Nat
    BY <1>4 DEF StartTask, TypeOK
  <2>3. Task(kind, queryGen') \in TaskType
    BY <2>2, NothingIsRight DEF Task, TaskType
  <2> QED BY <1>4, <2>1, <2>2, <2>3 DEF StartTask, TypeOK, view
<1> QED BY <1>1, <1>2, <1>3, <1>4

\* The watcher.
LEMMA WatcherKeepsType ==
    ASSUME TypeOK, WatcherStep
    PROVE  TypeOK'
<1>1. CASE WatcherTick
  BY <1>1 DEF WatcherTick, TypeOK, WatcherType, Refs, view
<1>2. CASE WatcherGather
  <2>1. Snapshot(repo, FALSE) \in SnapshotType
    BY SnapshotIsRight DEF TypeOK
  <2> QED BY <1>2, <2>1 DEF WatcherGather, TypeOK, WatcherType, view, outside
<1>3. CASE WatcherApply
  <2>1. watcher' \in WatcherType /\ dirty' \in BOOLEAN
    BY <1>3, NothingIsRight DEF WatcherApply, TypeOK
  <2>2. watcher.snap \in SnapshotType
    BY DEF TypeOK, WatcherType
  <2>3. shown' \in Refs /\ answers' \in Answers /\ refreshGen' \in Nat
    BY <1>3, <2>2, ApplyType DEF WatcherApply, TypeOK, view
  <2>4. walks' \subseteq WalkType
    BY <1>3, <2>3, FollowUpType DEF WatcherApply
  <2> QED BY <1>3, <2>1, <2>3, <2>4 DEF WatcherApply, TypeOK
<1> QED BY <1>1, <1>2, <1>3 DEF WatcherStep

\* refresh() and the operations.
LEMMA TaskKeepsType ==
    ASSUME TypeOK, NEW t \in tasks, TaskStep(t)
    PROVE  TypeOK'
<1>0. t \in TaskType
  BY DEF TypeOK
<1>1. ASSUME NEW kind \in EditKinds, NEW b \in Branch, MutateTask(t, kind, b) PROVE TypeOK'
  <2>1. kind \in Edit /\ kind \in BudgetKind
    BY GraphStateAssumption DEF BudgetKind
  <2>2. repo' \in Refs
    BY <1>1, <2>1, EditedType DEF MutateTask, TypeOK
  <2>3. budget' \in [BudgetKind -> Nat]
    BY <1>1, <2>1, SpendType DEF MutateTask, TypeOK
  <2>4. [t EXCEPT !.pc = "gather"] \in TaskType
    BY <1>0 DEF TaskType
  <2> QED BY <1>1, <2>2, <2>3, <2>4 DEF MutateTask, TypeOK, view
<1>2. CASE GatherTask(t)
  <2>1. Snapshot(repo, t.kind = "operation") \in SnapshotType
    BY SnapshotIsRight DEF TypeOK
  <2>2. [t EXCEPT !.pc = "apply", !.snap = Snapshot(repo, t.kind = "operation")] \in TaskType
    BY <1>0, <2>1 DEF TaskType
  <2> QED BY <1>2, <2>2 DEF GatherTask, TypeOK, view, outside
<1>3. CASE FailTask(t)
  BY <1>3, SpendType DEF FailTask, TypeOK, view, BudgetKind
<1>4. CASE ApplyTask(t)
  <2>1. t.snap \in SnapshotType
    BY <1>0 DEF TaskType
  <2>2. shown' \in Refs /\ answers' \in Answers /\ refreshGen' \in Nat
    BY <1>0, <1>4, <2>1, ApplyType DEF ApplyTask, TypeOK, view, TaskType, RefreshKind
  <2>3. walks' \subseteq WalkType
    BY <1>0, <1>4, <2>2, FollowUpType DEF ApplyTask, TaskType, RefreshKind
  <2> QED BY <1>4, <2>2, <2>3 DEF ApplyTask, TypeOK, outside
<1> QED BY <1>1, <1>2, <1>3, <1>4 DEF TaskStep

\* What a walk found are answers.
LEMMA AnsweredType ==
    ASSUME TypeOK, NEW w \in walks
    PROVE  Answered(w) \in Answers
<1>0. w \in WalkType /\ answers \in Answers
  BY DEF TypeOK
<1>1. ASSUME NEW b \in Local
      PROVE  /\ AnswerFor(w.tips[b], TrunkOf(w.tips)) \in Pair
             /\ AnswerFor(w.tips[b], w.head) \in Pair
             /\ w.counts[b] \in Pair
             /\ answers[b] \in [main : Pair, head : Pair, track : Pair]
  <2>1. w.tips[b] \in Nat /\ TrunkOf(w.tips) \in Nat /\ w.head \in Nat
    BY <1>0, TrunkOfType DEF WalkType, Branch
  <2> QED BY <1>0, <2>1, AnswerForType DEF WalkType, Counts, Answers
<1> QED BY <1>1 DEF Answered, Answers

\* The walks.
LEMMA WalkKeepsType ==
    ASSUME TypeOK, NEW w \in walks, WalkStep(w)
    PROVE  TypeOK'
<1>0. w \in WalkType /\ repo \in Refs
  BY DEF TypeOK
<1>1. CASE ReadTracking(w)
  <2>1. [b \in Local |-> AnswerFor(repo.tip[b], TrackedTip(repo, b))] \in Counts
    BY <1>0, LookupTypes, AnswerForType DEF Counts
  <2>2. walks' \subseteq WalkType
    BY <1>0, <1>1, <2>1 DEF ReadTracking, Replace, TypeOK, WalkType
  <2> QED BY <1>1, <2>2 DEF ReadTracking, TypeOK, view, outside
<1>2. CASE ReadKeys(w)
  <2>1. [b \in Local |-> IF TrackedTip(repo, b) # NoCommit THEN repo.tip[b] ELSE NoCommit]
          \in [Local -> Nat]
    BY <1>0, LookupTypes DEF NoCommit
  <2>2. walks' \subseteq WalkType
    BY <1>0, <1>2, <2>1 DEF ReadKeys, Replace, TypeOK, WalkType
  <2> QED BY <1>2, <2>2 DEF ReadKeys, TypeOK, view, outside
<1>3. CASE ReadHead(w)
  <2>1. LiveHead(repo) \in Nat
    BY <1>0, LookupTypes
  <2>2. [w EXCEPT !.pc = "apply", !.head = LiveHead(repo)] \in WalkType
    BY <1>0, <2>1 DEF WalkType
  <2>3. walks' \subseteq WalkType
    BY <1>3, <2>2 DEF ReadHead, Replace, TypeOK
  <2> QED BY <1>3, <2>3 DEF ReadHead, TypeOK, view, outside
<1>4. CASE FailWalk(w)
  BY <1>4, SpendType DEF FailWalk, TypeOK, view, BudgetKind
<1>5. CASE ApplyWalk(w)
  BY <1>5, AnsweredType DEF ApplyWalk, TypeOK, outside
<1>6. CASE RestartWalk(w)
  <2>1. MayRestart(w.attempt + 1) =>
          Walk(w.attempt + 1, shown.tip, refreshGen, queryGen) \in WalkType
    <3>1. MayRestart(w.attempt + 1) => w.attempt + 1 \in 0..MaxAttempts-1
      BY <1>0, GraphStateAssumption DEF MayRestart, WalkType
    <3> QED BY <3>1, WalkTypes DEF TypeOK, Refs
  <2>2. walks' \subseteq WalkType
    BY <1>6, <2>1 DEF RestartWalk, Replace, TypeOK
  <2> QED BY <1>6, <2>2 DEF RestartWalk, TypeOK, view, outside
<1> QED BY <1>1, <1>2, <1>3, <1>4, <1>5, <1>6 DEF WalkStep

\* Every value has its type, and no walk is attempted more than MAX_ATTEMPTS
\* times, whatever supersedes it.
THEOREM TypeCorrect == Spec => []TypeOK
<1>1. Init => TypeOK
  <2> SUFFICES ASSUME Init PROVE TypeOK
    OBVIOUS
  <2>1. /\ InitialTips \in [Branch -> Nat] /\ InitialHead \in Local /\ InitialVersion \in Nat
        /\ InitialUpstream \in [Local -> Branch \cup {NoBranch}]
    BY GraphStateAssumption
  <2>2. repo \in Refs
    BY <2>1 DEF Init, RefsOf, Refs, NoCommit
  <2>3. scanned \in Nat /\ dirty \in BOOLEAN /\ refreshGen \in Nat /\ queryGen \in Nat
    BY <2>1 DEF Init, RefsOf
  <2>4. budget \in [BudgetKind -> Nat]
    BY GraphStateAssumption DEF Init
  <2> QED BY <2>2, <2>3, <2>4, NothingIsRight DEF Init, TypeOK
<1>2. TypeOK /\ [Next]_vars => TypeOK'
  <2> SUFFICES ASSUME TypeOK, [Next]_vars PROVE TypeOK'
    OBVIOUS
  <2>1. CASE UNCHANGED vars
    BY <2>1 DEF TypeOK, vars, view, outside
  <2>2. CASE Next
    BY <2>2, UserKeepsType, WatcherKeepsType, TaskKeepsType, WalkKeepsType DEF Next
  <2> QED BY <2>1, <2>2
<1> QED BY <1>1, <1>2, PTL DEF Spec

-----------------------------------------------------------------------------
(* Merged into the trunk *)

\* A walk whose generation is current was asked about the tips on screen.
WalksBelong ==
    \A w \in walks :
        /\ w.refreshGen <= refreshGen
        /\ w.refreshGen = refreshGen => w.tips = shown.tip

TrunkInv == WalksBelong /\ TrunkAnswersHold

\* Nothing the invariant is about changes, but for walks that end or go on.
LEMMA TrunkFrame ==
    ASSUME TypeOK, TrunkInv, UNCHANGED view,
           \A v \in walks' : \/ v \in walks
                             \/ \E w \in walks : v.refreshGen = w.refreshGen /\ v.tips = w.tips
                             \/ v.refreshGen = refreshGen /\ v.tips = shown.tip
    PROVE  TrunkInv'
<1>1. WalksBelong'
  BY DEF TrunkInv, WalksBelong, view, TypeOK
<1>2. TrunkAnswersHold'
  BY DEF TrunkInv, TrunkAnswersHold, view
<1> QED BY <1>1, <1>2 DEF TrunkInv

\* A snapshot is applied: every walk in flight is superseded, and an answer is
\* carried only for the same tip and the same trunk.
LEMMA TrunkApply ==
    ASSUME TypeOK, TrunkInv, NEW data \in SnapshotType, ApplyRefreshData(data),
           RefreshAheadBehind \/ WalkIfNeeded \/ UNCHANGED walks
    PROVE  TrunkInv'
<1>1. refreshGen' = refreshGen + 1 /\ refreshGen \in Nat /\ shown' = data.refs
  BY DEF ApplyRefreshData, TypeOK
<1>2. WalksBelong'
  <2>1. ASSUME NEW w \in walks'
        PROVE  w \in walks \/ (w.refreshGen = refreshGen' /\ w.tips = shown'.tip)
    BY <2>1 DEF RefreshAheadBehind, WalkIfNeeded, Walk
  <2>2. ASSUME NEW w \in walks PROVE w.refreshGen \in Nat /\ w.refreshGen <= refreshGen
    <3>1. w \in WalkType
      BY DEF TypeOK
    <3> QED BY <3>1 DEF WalkType, TrunkInv, WalksBelong
  <2>3. ASSUME NEW w \in walks'
        PROVE  /\ w.refreshGen <= refreshGen'
               /\ w.refreshGen = refreshGen' => w.tips = shown'.tip
    BY <1>1, <2>1, <2>2
  <2> QED BY <2>3 DEF WalksBelong
<1>3. TrunkAnswersHold'
  <2> SUFFICES ASSUME NEW b \in Local
               PROVE  RightFor(answers'[b].main, shown'.tip[b], TrunkTip(shown'))
    BY DEF TrunkAnswersHold
  <2>1. RightFor(answers[b].main, shown.tip[b], TrunkTip(shown))
    BY DEF TrunkInv, TrunkAnswersHold
  <2>2. answers'[b].main = Unknown
        \/ /\ shown.tip[b] = shown'.tip[b]
           /\ answers'[b].main = Kept(answers[b].main, TrunkTip(shown), TrunkTip(shown'))
    BY <1>1 DEF ApplyRefreshData, CarryForward, NoAnswer
  <2> QED BY <2>1, <2>2 DEF Kept, RightFor
<1> QED BY <1>2, <1>3 DEF TrunkInv

\* The walks.
LEMMA WalkKeepsTrunk ==
    ASSUME TypeOK, TrunkInv, NEW w \in walks, WalkStep(w)
    PROVE  TrunkInv'
<1>1. CASE ReadTracking(w)
  BY <1>1, TrunkFrame DEF ReadTracking, Replace, TypeOK, WalkType
<1>2. CASE ReadKeys(w)
  BY <1>2, TrunkFrame DEF ReadKeys, Replace, TypeOK, WalkType
<1>3. CASE ReadHead(w)
  BY <1>3, TrunkFrame DEF ReadHead, Replace, TypeOK, WalkType
<1>4. CASE FailWalk(w)
  BY <1>4, TrunkFrame DEF FailWalk
<1>5. CASE ApplyWalk(w)
  <2>1. w.tips = shown.tip
    <3>1. w.refreshGen = refreshGen
      BY <1>5 DEF ApplyWalk, Superseded
    <3> QED BY <3>1 DEF TrunkInv, WalksBelong
  <2>2. WalksBelong'
    BY <1>5 DEF ApplyWalk, TrunkInv, WalksBelong
  <2>3. TrunkAnswersHold'
    <3> SUFFICES ASSUME NEW b \in Local
                 PROVE  RightFor(answers'[b].main, shown'.tip[b], TrunkTip(shown'))
      BY DEF TrunkAnswersHold
    <3>1. shown' = shown /\ answers'[b] = Answered(w)[b]
      BY <1>5 DEF ApplyWalk
    <3>2. RightFor(answers[b].main, shown.tip[b], TrunkTip(shown))
      BY DEF TrunkInv, TrunkAnswersHold
    <3>3. \/ answers'[b].main = answers[b].main
          \/ answers'[b].main = AnswerFor(w.tips[b], TrunkOf(w.tips))
      BY <3>1 DEF Answered
    <3>4. AnswerFor(w.tips[b], TrunkOf(w.tips)) = AnswerFor(shown.tip[b], TrunkTip(shown))
      BY <2>1 DEF TrunkTip
    <3>5. RightFor(AnswerFor(shown.tip[b], TrunkTip(shown)), shown.tip[b], TrunkTip(shown))
      BY LookupTypes, AnswerForType DEF TypeOK
    <3> QED BY <3>1, <3>2, <3>3, <3>4, <3>5
  <2> QED BY <2>2, <2>3 DEF TrunkInv
<1>6. CASE RestartWalk(w)
  BY <1>6, TrunkFrame DEF RestartWalk, Replace, Walk
<1> QED BY <1>1, <1>2, <1>3, <1>4, <1>5, <1>6 DEF WalkStep

\* Everybody.
LEMMA TrunkStep == TypeOK /\ TrunkInv /\ [Next]_vars => TrunkInv'
<1> SUFFICES ASSUME TypeOK, TrunkInv, [Next]_vars PROVE TrunkInv'
  OBVIOUS
<1>1. CASE UNCHANGED vars
  BY <1>1, TrunkFrame DEF vars
<1>2. ASSUME NEW kind \in EditKinds, NEW b \in Branch, EditRefs(kind, b) PROVE TrunkInv'
  BY <1>2, TrunkFrame DEF EditRefs
<1>3. CASE SaveFile
  BY <1>3, TrunkFrame DEF SaveFile
<1>4. CASE ToggleMyCommits
  BY <1>4, TrunkFrame DEF ToggleMyCommits
<1>5. ASSUME NEW kind \in RefreshKind, StartTask(kind) PROVE TrunkInv'
  BY <1>5, TrunkFrame DEF StartTask
<1>6. CASE WatcherStep
  <2>1. CASE WatcherTick
    BY <2>1, TrunkFrame DEF WatcherTick
  <2>2. CASE WatcherGather
    BY <2>2, TrunkFrame DEF WatcherGather
  <2>3. CASE WatcherApply
    <3>1. watcher.snap \in SnapshotType
      BY DEF TypeOK, WatcherType
    <3>2. CASE watcher.gen = refreshGen
      BY <2>3, <3>1, <3>2, TrunkApply DEF WatcherApply
    <3>3. CASE watcher.gen # refreshGen
      BY <2>3, <3>3, TrunkFrame DEF WatcherApply
    <3> QED BY <3>2, <3>3
  <2> QED BY <1>6, <2>1, <2>2, <2>3 DEF WatcherStep
<1>7. ASSUME NEW t \in tasks, TaskStep(t) PROVE TrunkInv'
  <2>0. t \in TaskType
    BY DEF TypeOK
  <2>1. ASSUME NEW kind \in EditKinds, NEW b \in Branch, MutateTask(t, kind, b) PROVE TrunkInv'
    BY <2>1, TrunkFrame DEF MutateTask
  <2>2. CASE GatherTask(t)
    BY <2>2, TrunkFrame DEF GatherTask
  <2>3. CASE FailTask(t)
    BY <2>3, TrunkFrame DEF FailTask
  <2>4. CASE ApplyTask(t)
    <3>1. t.snap \in SnapshotType
      BY <2>0 DEF TaskType
    <3>2. \/ UNCHANGED <<view, walks>>
          \/ /\ ApplyRefreshData(t.snap)
             /\ RefreshAheadBehind \/ WalkIfNeeded \/ UNCHANGED walks
      BY <2>0, <2>4 DEF ApplyTask, TaskType, RefreshKind
    <3> QED BY <3>1, <3>2, TrunkFrame, TrunkApply
  <2> QED BY <1>7, <2>1, <2>2, <2>3, <2>4 DEF TaskStep
<1> QED BY <1>1, <1>2, <1>3, <1>4, <1>5, <1>6, <1>7, WalkKeepsTrunk DEF Next

\* "Merged into main" is shown only for the branch tip and the trunk tip on
\* screen, whatever the refs do while walks and snapshots race.
THEOREM TrunkAnswersCorrect == Spec => []TrunkAnswersHold
<1>1. Init => TrunkInv
  <2> SUFFICES ASSUME Init PROVE TrunkInv
    OBVIOUS
  <2>1. WalksBelong
    BY DEF Init, WalksBelong
  <2>2. TrunkAnswersHold
    BY DEF Init, TrunkAnswersHold, NoAnswers, NoAnswer, RightFor
  <2> QED BY <2>1, <2>2 DEF TrunkInv
<1>2. TrunkInv => TrunkAnswersHold
  BY DEF TrunkInv
<1> QED BY <1>1, <1>2, TypeCorrect, TrunkStep, PTL DEF Spec

-----------------------------------------------------------------------------
(* Ahead of and behind the upstream *)

\* The counts a snapshot was gathered with are those of its refs.
CountsBelong(snap) ==
    \A b \in Local : RightFor(snap.counts[b], snap.refs.tip[b], TrackedTip(snap.refs, b))

SnapshotsBelong == CountsBelong(watcher.snap) /\ \A t \in tasks : CountsBelong(t.snap)

\* Gathering a snapshot, or none.
LEMMA GatheredBelong ==
    /\ CountsBelong(NoSnapshot)
    /\ \A refs \in Refs, counting \in BOOLEAN : CountsBelong(Snapshot(refs, counting))
<1>1. CountsBelong(NoSnapshot)
  BY NothingIsRight DEF CountsBelong, RightFor
<1>2. ASSUME NEW refs \in Refs, NEW counting \in BOOLEAN
      PROVE  CountsBelong(Snapshot(refs, counting))
  BY SnapshotIsRight DEF CountsBelong
<1> QED BY <1>1, <1>2

\* Snapshots stay as they were gathered.
LEMMA BelongStep == TypeOK /\ SnapshotsBelong /\ [Next]_vars => SnapshotsBelong'
<1> SUFFICES ASSUME TypeOK, SnapshotsBelong, [Next]_vars PROVE SnapshotsBelong'
  OBVIOUS
<1>0. repo \in Refs
  BY DEF TypeOK
<1> DEFINE Keep == /\ watcher'.snap = watcher.snap \/ CountsBelong(watcher'.snap)
                   /\ \A t \in tasks' : t \in tasks \/ CountsBelong(t.snap)
<1>1. ASSUME Keep PROVE SnapshotsBelong'
  BY <1>1 DEF SnapshotsBelong
<1>2. CASE UNCHANGED vars
  BY <1>1, <1>2 DEF vars
<1>3. ASSUME NEW kind \in EditKinds, NEW b \in Branch, EditRefs(kind, b) PROVE Keep
  BY <1>3 DEF EditRefs
<1>4. CASE SaveFile \/ ToggleMyCommits
  BY <1>1, <1>4 DEF SaveFile, ToggleMyCommits
<1>5. ASSUME NEW kind \in RefreshKind, StartTask(kind) PROVE Keep
  BY <1>5, GatheredBelong DEF StartTask, Task
<1>6. ASSUME WatcherStep PROVE Keep
  <2>1. CASE WatcherTick
    BY <2>1 DEF WatcherTick, TypeOK, WatcherType
  <2>2. CASE WatcherGather
    <3>1. watcher'.snap = Snapshot(repo, FALSE)
      BY <2>2 DEF WatcherGather, TypeOK, WatcherType
    <3> QED BY <1>0, <2>2, <3>1, GatheredBelong DEF WatcherGather
  <2>3. CASE WatcherApply
    BY <2>3, GatheredBelong DEF WatcherApply, SleepingWatcher
  <2> QED BY <1>6, <2>1, <2>2, <2>3 DEF WatcherStep
<1>7. ASSUME NEW t \in tasks, TaskStep(t) PROVE Keep
  <2>0. t \in TaskType /\ CountsBelong(t.snap)
    BY DEF TypeOK, SnapshotsBelong
  <2>1. ASSUME NEW kind \in EditKinds, NEW b \in Branch, MutateTask(t, kind, b) PROVE Keep
    BY <2>0, <2>1 DEF MutateTask, TaskType
  <2>2. CASE GatherTask(t)
    <3>1. CountsBelong(Snapshot(repo, t.kind = "operation"))
      BY <1>0, GatheredBelong
    <3> QED BY <2>0, <2>2, <3>1 DEF GatherTask, TaskType
  <2>3. CASE FailTask(t) \/ ApplyTask(t)
    BY <2>3 DEF FailTask, ApplyTask, outside
  <2> QED BY <1>7, <2>1, <2>2, <2>3 DEF TaskStep
<1>8. ASSUME NEW w \in walks, WalkStep(w) PROVE Keep
  BY <1>8 DEF WalkStep, ReadTracking, ReadKeys, ReadHead, FailWalk, ApplyWalk, RestartWalk, outside
<1> QED BY <1>1, <1>2, <1>3, <1>4, <1>5, <1>6, <1>7, <1>8 DEF Next

\* An apply with an upstream that is elsewhere than on screen before, or with none.
LEMMA ApplyDropsCounts ==
    ASSUME TypeOK, NEW data \in SnapshotType, ApplyRefreshData(data), CountsBelong(data),
           NEW b \in Local,
           \/ shown'.upstream[b] = NoBranch
           \/ UpstreamTip(shown, shown'.upstream[b]) # UpstreamTip(shown', shown'.upstream[b])
    PROVE  RightFor(answers'[b].track, shown'.tip[b], TrackedTip(shown', b))
<1>1. shown' = data.refs
  BY DEF ApplyRefreshData
<1>2. \/ TrackedTip(data.refs, b) = NoCommit
      \/ UpstreamTip(shown, data.refs.upstream[b]) # UpstreamTip(data.refs, data.refs.upstream[b])
  BY <1>1 DEF TrackedTip
<1>3. RightFor(data.counts[b], shown'.tip[b], TrackedTip(shown', b))
  BY <1>1 DEF CountsBelong
<1>4. answers'[b].track \in {data.counts[b], Unknown}
  <2>1. KeptCounts(b, shown, data.refs, data.counts[b], answers[b].track) \in {data.counts[b], Unknown}
    BY <1>2 DEF KeptCounts
  <2>2. answers'[b].track \in
          {KeptCounts(b, shown, data.refs, data.counts[b], answers[b].track), data.counts[b]}
    BY DEF ApplyRefreshData, CarryForward, NoAnswer
  <2> QED BY <2>1, <2>2
<1> QED BY <1>3, <1>4 DEF RightFor

\* Whatever upstreams are set, local or remote, and however they change: counts are
\* not carried to a branch whose remote upstream is elsewhere than on screen before,
\* nor to one that has none.
THEOREM UpstreamMoveCorrect == Spec => UpstreamMoveDropsCounts
<1> DEFINE Drops == shown' # shown => \A b \in Local :
             LET u == shown'.upstream[b]
             IN  u = NoBranch \/ (u \in Remote /\ shown.tip[u] # shown'.tip[u])
                 => RightFor(answers'[b].track, shown'.tip[b], TrackedTip(shown', b))
<1>1. Init => SnapshotsBelong
  BY GatheredBelong DEF Init, SnapshotsBelong, SleepingWatcher
<1>2. TypeOK /\ SnapshotsBelong /\ [Next]_vars => [Drops]_vars
  <2> SUFFICES ASSUME TypeOK, SnapshotsBelong, Next, shown' # shown, NEW b \in Local,
                      LET u == shown'.upstream[b]
                      IN  u = NoBranch \/ (u \in Remote /\ shown.tip[u] # shown'.tip[u])
               PROVE  RightFor(answers'[b].track, shown'.tip[b], TrackedTip(shown', b))
    OBVIOUS
  <2>1. /\ shown' # shown
        /\ \/ shown'.upstream[b] = NoBranch
           \/ UpstreamTip(shown, shown'.upstream[b]) # UpstreamTip(shown', shown'.upstream[b])
    BY DEF UpstreamTip
  <2>2. CASE WatcherStep
    <3>1. ApplyRefreshData(watcher.snap)
      BY <2>1, <2>2 DEF WatcherStep, WatcherTick, WatcherGather, WatcherApply, view
    <3> QED BY <2>1, <3>1, ApplyDropsCounts DEF TypeOK, WatcherType, SnapshotsBelong
  <2>3. ASSUME NEW t \in tasks, TaskStep(t)
        PROVE  RightFor(answers'[b].track, shown'.tip[b], TrackedTip(shown', b))
    <3>1. t \in TaskType /\ t.snap \in SnapshotType
      BY DEF TypeOK, TaskType
    <3>2. ApplyTask(t)
      BY <2>1, <2>3 DEF TaskStep, MutateTask, GatherTask, FailTask, view
    <3>3. ApplyRefreshData(t.snap)
      BY <2>1, <3>1, <3>2 DEF ApplyTask, view, TaskType, RefreshKind
    <3> QED BY <2>1, <3>1, <3>3, ApplyDropsCounts DEF SnapshotsBelong
  <2>4. ~(\E kind \in EditKinds, x \in Branch : EditRefs(kind, x))
    BY <2>1 DEF EditRefs, view
  <2>5. ~(SaveFile \/ ToggleMyCommits \/ \E kind \in RefreshKind : StartTask(kind))
    BY <2>1 DEF SaveFile, ToggleMyCommits, StartTask, view
  <2>6. ~(\E w \in walks : WalkStep(w))
    BY <2>1 DEF WalkStep, ReadTracking, ReadKeys, ReadHead, FailWalk, ApplyWalk, RestartWalk, view
  <2> QED BY <2>2, <2>3, <2>4, <2>5, <2>6 DEF Next
<1> QED BY <1>1, <1>2, TypeCorrect, BelongStep, PTL DEF Spec, UpstreamMoveDropsCounts

-----------------------------------------------------------------------------
(* A refresh of what did not move *)

\* Who applies a snapshot: the watcher, or a task.
LEMMA WhoApplies ==
    ASSUME TypeOK, Next, refreshGen' # refreshGen
    PROVE  \E data \in SnapshotType : ApplyRefreshData(data)
<1>1. CASE WatcherStep
  <2>1. ApplyRefreshData(watcher.snap)
    BY <1>1 DEF WatcherStep, WatcherTick, WatcherGather, WatcherApply, view
  <2> QED BY <2>1 DEF TypeOK, WatcherType
<1>2. ASSUME NEW t \in tasks, TaskStep(t)
      PROVE  \E data \in SnapshotType : ApplyRefreshData(data)
  <2>1. t \in TaskType /\ t.snap \in SnapshotType
    BY DEF TypeOK, TaskType
  <2>2. ApplyTask(t)
    BY <1>2 DEF TaskStep, MutateTask, GatherTask, FailTask, view
  <2>3. ApplyRefreshData(t.snap)
    BY <2>1, <2>2 DEF ApplyTask, view, TaskType, RefreshKind
  <2> QED BY <2>1, <2>3
<1>3. ~(\E kind \in EditKinds, b \in Branch : EditRefs(kind, b))
  BY DEF EditRefs, view
<1>4. ~(SaveFile \/ ToggleMyCommits \/ \E kind \in RefreshKind : StartTask(kind))
  BY DEF SaveFile, ToggleMyCommits, StartTask, view
<1>5. ~(\E w \in walks : WalkStep(w))
  BY DEF WalkStep, ReadTracking, ReadKeys, ReadHead, FailWalk, ApplyWalk, RestartWalk, view
<1> QED BY <1>1, <1>2, <1>3, <1>4, <1>5 DEF Next

\* What is known of a branch that stays, with trunk, HEAD and upstream where they were, is
\* carried over.
LEMMA CarriedOver ==
    ASSUME TypeOK, NEW data \in SnapshotType, ApplyRefreshData(data), NEW b \in LocalsOf(shown'),
           shown'.tip = shown.tip, shown'.on = shown.on, shown'.upstream = shown.upstream
    PROVE  /\ TrunkTip(shown) # NoCommit => answers'[b].main = answers[b].main
           /\ HeadTip(shown) # NoCommit => answers'[b].head = answers[b].head
           /\ UpstreamTip(shown, shown.upstream[b]) # NoCommit
                  => answers'[b].track \in {answers[b].track} \cup (Pair \ {Unknown})
<1>1. /\ shown' = data.refs /\ data.refs.upstream[b] = shown.upstream[b]
      /\ b \in Local /\ Exists(shown, b) /\ shown.tip[b] = data.refs.tip[b]
      /\ answers' = CarryForward(shown, answers, data.refs, data.counts)
  BY DEF ApplyRefreshData, LocalsOf, Exists
<1>2. /\ TrunkTip(data.refs) = TrunkTip(shown) /\ HeadTip(data.refs) = HeadTip(shown)
      /\ UpstreamTip(data.refs, shown.upstream[b]) = UpstreamTip(shown, shown.upstream[b])
  BY <1>1 DEF TrunkTip, HeadTip, UpstreamTip
<1>3. answers'[b] =
        [main  |-> Kept(answers[b].main, TrunkTip(shown), TrunkTip(data.refs)),
         head  |-> Kept(answers[b].head, HeadTip(shown), HeadTip(data.refs)),
         track |-> KeptCounts(b, shown, data.refs, data.counts[b], answers[b].track)]
  BY <1>1 DEF CarryForward
<1>4. UpstreamTip(shown, shown.upstream[b]) # NoCommit => TrackedTip(data.refs, b) # NoCommit
  BY <1>1, GraphStateAssumption DEF UpstreamTip, TrackedTip, Branch
<1>5. data.counts[b] \in Pair
  BY <1>1 DEF SnapshotType, Counts
<1>6. UpstreamTip(shown, shown.upstream[b]) # NoCommit
        => KeptCounts(b, shown, data.refs, data.counts[b], answers[b].track)
               \in {answers[b].track} \cup (Pair \ {Unknown})
  <2>1. UpstreamTip(shown, data.refs.upstream[b]) = UpstreamTip(data.refs, data.refs.upstream[b])
    BY <1>1, <1>2
  <2> QED BY <1>4, <1>5, <2>1 DEF KeptCounts
<1> QED BY <1>2, <1>3, <1>6 DEF Kept

\* A refresh of a repository that did not move, every answer known, leaves none unknown, so
\* the file saves that follow schedule no walk: for any number of branches and any order of
\* walks, tasks and watcher.
THEOREM SteadyStateCorrect == Spec => SteadyStateIsQuiet
<1> DEFINE Quiet == (/\ shown.on # NoBranch
                     /\ refreshGen' # refreshGen
                     /\ shown'.tip = shown.tip /\ shown'.on = shown.on
                     /\ shown'.upstream = shown.upstream
                     /\ ~Incomplete(shown, answers))
                    => ~Incomplete(shown', answers')
<1>1. TypeOK /\ [Next]_vars => [Quiet]_vars
  <2> SUFFICES ASSUME TypeOK, Next, shown.on # NoBranch, refreshGen' # refreshGen,
                      shown'.tip = shown.tip, shown'.on = shown.on, shown'.upstream = shown.upstream,
                      ~Incomplete(shown, answers), NEW b \in LocalsOf(shown')
               PROVE  ~ \/ TrunkTip(shown') # NoCommit /\ answers'[b].main = Unknown
                        \/ /\ HeadTip(shown') # NoCommit \/ shown'.on = NoBranch
                           /\ answers'[b].head = Unknown
                        \/ UpstreamTip(shown', shown'.upstream[b]) # NoCommit /\ answers'[b].track = Unknown
    BY DEF Incomplete
  <2>1. PICK data \in SnapshotType : ApplyRefreshData(data)
    BY WhoApplies
  <2>2. b \in LocalsOf(shown)
    BY DEF LocalsOf, Exists
  <2>3. /\ TrunkTip(shown') = TrunkTip(shown) /\ HeadTip(shown') = HeadTip(shown)
        /\ UpstreamTip(shown', shown'.upstream[b]) = UpstreamTip(shown, shown.upstream[b])
    BY DEF TrunkTip, HeadTip, UpstreamTip
  <2>4. /\ TrunkTip(shown) # NoCommit => answers[b].main # Unknown
        /\ HeadTip(shown) # NoCommit => answers[b].head # Unknown
        /\ UpstreamTip(shown, shown.upstream[b]) # NoCommit => answers[b].track # Unknown
    BY <2>2 DEF Incomplete
  <2> QED BY <2>1, <2>3, <2>4, CarriedOver
<1> QED BY <1>1, TypeCorrect, PTL DEF Spec, SteadyStateIsQuiet
=============================================================================
