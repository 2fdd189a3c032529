------------------------ MODULE GitOperationsProofs ------------------------
(***************************************************************************)
(* Proofs about GitOperations, for any files, branches, history, requests  *)
(* and number of operations in flight: its types, that no operation loses  *)
(* work it is not there to discard, that a refused one does no harm, that  *)
(* branches move forward, here and on the server, and that an undo brings  *)
(* back what there was.                                                    *)
(***************************************************************************)
EXTENDS GitOperations, FiniteSetTheorems, SequenceTheorems, WellFoundedInduction, TLAPS

-----------------------------------------------------------------------------
(* The inductive invariant *)

CommitType == [parents : Seq(Nat), tree : Contents]
StashType  == [base : Nat, tree : Contents]
StepType   == [commit : Nat, action : RebaseAction]

\* The state of a merge, a cherry-pick or a revert, and of a rebase.
DoingType ==
    [what : {"none", "merge", "cherry-pick", "revert"}, other : Nat]
    \cup [what : {"rebase"}, other : Nat, action : RebaseAction, todo : Seq(StepType),
          of : Branch \cup {None}, from : Nat]

Repository ==
    [commits : Seq(CommitType), refs : [Ref -> Nat], branch : Branch \cup {None}, at : Nat,
     stashes : Seq(StashType), index : Contents, unmerged : SUBSET Path, work : Contents,
     doing : DoingType, upstream : [Branch -> Remote \cup {None}], server : [Remote -> Nat]]

HistoryOK(r) ==
    \A c \in 1..Len(r.commits) : \A i \in 1..Len(r.commits[c].parents) :
        r.commits[c].parents[i] \in 1..(c - 1)

RefsOK(r) ==
    /\ \A n \in Ref : r.refs[n] <= Len(r.commits)
    /\ \A m \in Remote : r.server[m] <= Len(r.commits)

HeadOK(r) == HeadOid(r) \in 1..Len(r.commits)

StashesOK(stashes, n) == \A i \in 1..Len(stashes) : stashes[i].base \in 1..n

DoingOK(doing, n) ==
    /\ doing.what = "merge" => doing.other \in 1..n
    /\ doing.what = "rebase" => \A k \in 1..Len(doing.todo) : doing.todo[k].commit \in 1..n

\* What is staged is in the working tree too, or in a commit.
IndexBehind(r) == \A f \in Path : r.index[f] \subseteq r.work[f] \cup Recorded(r)

Good(r) ==
    /\ r \in Repository
    /\ HistoryOK(r)
    /\ RefsOK(r)
    /\ HeadOK(r)
    /\ StashesOK(r.stashes, Len(r.commits))
    /\ DoingOK(r.doing, Len(r.commits))
    /\ IndexBehind(r)

Result == {"done", "refused", "conflicts"}

\* What is on screen may be old, but commits stay.
Seen(n) == [refs : [Ref -> 0..n], changed : BOOLEAN]

\* A request that can be worked on: a pull or a push has its target, a rebase its base.
Workable(q, n) ==
    /\ Sensible(q, n)
    /\ q.kind \in OnRemote => q.on \in Remote
    /\ q.kind = "rebase" => q.at \in 1..n

OperationOK(op, n) ==
    /\ op \in [id : 1..Budget["total"], ask : {op.ask}, undo : {op.undo}, head : {op.head},
               phase : Phase, told : {op.told}, data : {op.data}]
    /\ Sensible(op.ask, n)
    /\ op.ask.kind \in OnRemote => op.ask.on \in Remote
    /\ op.phase = "checked" => Workable(op.ask, n)
    /\ op.phase = "settling" /\ op.told # "refused" => op.data \in Seen(n)

UndoType(n) ==
    {q \in [kind : Kind \ OnRemote, on : Ref \cup {None}, at : Nat] : Sensible(q, n)}

BudgetOK == /\ budget \in [BudgetKind -> Nat]
            /\ budget["total"] <= Budget["total"]

IInv ==
    /\ Good(repo)
    /\ shown \in Seen(Len(repo.commits))
    /\ \A op \in running : OperationOK(op, Len(repo.commits))
    /\ undo \in Seq(UndoType(Len(repo.commits)))
    /\ Len(undo) <= MaxUndo
    /\ BudgetOK

-----------------------------------------------------------------------------
(* What an operation does to the work there is *)

\* Where an edit can be.
Safe(r) == Kept(r) \cup Recorded(r)

\* Commits are only added.
Extends(r, s) == /\ Len(r.commits) <= Len(s.commits)
                 /\ \A c \in 1..Len(r.commits) : s.commits[c] = r.commits[c]

Follows(r, s) == Good(s) /\ Extends(r, s)
Keeps(r, s)   == Follows(r, s) /\ Kept(r) \subseteq Safe(s)

LEMMA RecordedStays ==
    ASSUME NEW r, NEW s, Good(r), Good(s), Extends(r, s)
    PROVE  Recorded(r) \subseteq Recorded(s)
<1>1. DOMAIN r.commits = 1..Len(r.commits) /\ DOMAIN s.commits = 1..Len(s.commits)
      /\ Len(r.commits) \in Nat /\ Len(s.commits) \in Nat
  BY DEF Good, Repository
<1>2. \A c \in DOMAIN r.commits : c \in DOMAIN s.commits /\ Tree(s, c) = Tree(r, c)
  BY <1>1 DEF Extends, Tree
<1> QED BY <1>2 DEF Recorded

\* The places an edit can be in.
LEMMA Places ==
    ASSUME NEW r, Good(r)
    PROVE  /\ \A f \in Path : /\ r.work[f] \subseteq Safe(r) /\ r.index[f] \subseteq Safe(r)
                              /\ HeadTree(r)[f] \subseteq Recorded(r)
           /\ \A i \in 1..Len(r.stashes) : \A f \in Path : r.stashes[i].tree[f] \subseteq Safe(r)
           /\ \A c \in 1..Len(r.commits) : \A f \in Path : Tree(r, c)[f] \subseteq Recorded(r)
<1>1. DOMAIN r.commits = 1..Len(r.commits) /\ DOMAIN r.stashes = 1..Len(r.stashes)
  BY DEF Good, Repository
<1>2. \A c \in 1..Len(r.commits) : \A f \in Path : Tree(r, c)[f] \subseteq Recorded(r)
  BY <1>1 DEF Recorded, Edits
<1>3. \A f \in Path : HeadTree(r)[f] \subseteq Recorded(r)
  BY <1>2 DEF HeadTree, Good, HeadOK
<1>4. \A f \in Path : r.work[f] \subseteq Safe(r) /\ r.index[f] \subseteq Safe(r)
  BY DEF Safe, Kept, Edits
<1>5. \A i \in 1..Len(r.stashes) : \A f \in Path : r.stashes[i].tree[f] \subseteq Safe(r)
  BY <1>1 DEF Safe, Kept, Edits
<1> QED BY <1>2, <1>3, <1>4, <1>5

\* It is enough that the working tree and the stashes are kept.
LEMMA KeepsBy ==
    ASSUME NEW r, NEW s, Good(r), Good(s), Extends(r, s),
           \A f \in Path : r.work[f] \subseteq Safe(s),
           \A i \in 1..Len(r.stashes) : \A f \in Path : r.stashes[i].tree[f] \subseteq Safe(s)
    PROVE  Keeps(r, s)
<1>1. DOMAIN r.stashes = 1..Len(r.stashes)
  BY DEF Good, Repository
<1>2. Edits(r.work) \subseteq Safe(s)
  BY DEF Edits
<1>3. \A f \in Path : r.index[f] \subseteq Safe(s)
  BY RecordedStays DEF Good, IndexBehind, Safe
<1>4. Edits(r.index) \subseteq Safe(s)
  BY <1>3 DEF Edits
<1>5. \A i \in DOMAIN r.stashes : Edits(r.stashes[i].tree) \subseteq Safe(s)
  BY <1>1 DEF Edits
<1>6. UNION {Edits(r.stashes[i].tree) : i \in DOMAIN r.stashes} \subseteq Safe(s)
  BY <1>5
<1> QED BY <1>2, <1>4, <1>6 DEF Keeps, Follows, Kept

LEMMA KeepsSame == ASSUME NEW r, Good(r) PROVE Keeps(r, r)
<1>1. Extends(r, r)
  BY DEF Extends, Good, Repository
<1> QED BY <1>1 DEF Keeps, Follows, Safe

LEMMA FollowsOn ==
    ASSUME NEW r, NEW s, NEW t, Good(r), Follows(r, s), Follows(s, t)
    PROVE  Follows(r, t)
<1>1. Len(r.commits) \in Nat /\ Len(s.commits) \in Nat /\ Len(t.commits) \in Nat
  BY DEF Good, Repository, Follows
<1> QED BY <1>1 DEF Follows, Extends

LEMMA KeepsOn ==
    ASSUME NEW r, NEW s, NEW t, Good(r), Keeps(r, s), Keeps(s, t)
    PROVE  Keeps(r, t)
<1>1. Follows(r, t)
  BY FollowsOn DEF Keeps
<1>2. Recorded(s) \subseteq Recorded(t)
  BY RecordedStays DEF Keeps, Follows
<1> QED BY <1>1, <1>2 DEF Keeps, Safe

-----------------------------------------------------------------------------
(* The parts operations are made of *)

SameHistory(r, s) ==
    /\ s.commits = r.commits /\ s.refs = r.refs /\ s.branch = r.branch /\ s.at = r.at
    /\ s.upstream = r.upstream /\ s.server = r.server

SameFiles(r, s) ==
    /\ s.index = r.index /\ s.work = r.work /\ s.unmerged = r.unmerged
    /\ s.doing = r.doing /\ s.stashes = r.stashes

LEMMA HeadTreeType ==
    ASSUME NEW r, Good(r)
    PROVE  /\ HeadOid(r) \in 1..Len(r.commits) /\ HeadTree(r) \in Contents
           /\ Len(r.commits) \in Nat
           /\ \A c \in 1..Len(r.commits) : Tree(r, c) \in Contents
<1>1. \A c \in 1..Len(r.commits) : r.commits[c] \in CommitType
  BY ElementOfSeq DEF Good, Repository
<1> QED BY <1>1 DEF Good, HeadOK, HeadTree, Tree, CommitType, Repository

LEMMA FilesChange ==
    ASSUME NEW r, NEW s \in Repository, Good(r), SameHistory(r, s),
           StashesOK(s.stashes, Len(r.commits)), DoingOK(s.doing, Len(r.commits)),
           \A f \in Path : s.index[f] \subseteq s.work[f] \cup Recorded(r)
    PROVE  /\ Follows(r, s) /\ Recorded(s) = Recorded(r)
           /\ HeadOid(s) = HeadOid(r) /\ HeadTree(s) = HeadTree(r)
<1>1. /\ Recorded(s) = Recorded(r) /\ HeadOid(s) = HeadOid(r) /\ HeadTree(s) = HeadTree(r)
  BY DEF SameHistory, Recorded, Edits, HeadTree, HeadOid, Tree
<1>2. HistoryOK(s) /\ RefsOK(s) /\ HeadOK(s)
  BY <1>1 DEF Good, SameHistory, HistoryOK, RefsOK, HeadOK
<1>3. Good(s)
  BY <1>1, <1>2 DEF Good, SameHistory, IndexBehind
<1>4. Extends(r, s)
  BY DEF SameHistory, Extends, Good, Repository
<1> QED BY <1>1, <1>3, <1>4 DEF Follows

LEMMA HeadChange ==
    ASSUME NEW r, NEW s \in Repository, Good(r), s.commits = r.commits, SameFiles(r, s),
           RefsOK(s), HeadOK(s)
    PROVE  Keeps(r, s) /\ Recorded(s) = Recorded(r)
<1>1. Recorded(s) = Recorded(r) /\ Kept(s) = Kept(r)
  BY DEF SameFiles, Recorded, Kept, Edits, Tree
<1>2. Good(s)
  BY <1>1 DEF Good, SameFiles, HistoryOK, IndexBehind
<1>3. Extends(r, s)
  BY DEF Extends, Good, Repository
<1> QED BY <1>1, <1>2, <1>3 DEF Keeps, Follows, Safe

LEMMA MovedToKeeps ==
    ASSUME NEW r, Good(r), NEW c \in 1..Len(r.commits), NEW s, s = MovedTo(r, c)
    PROVE  /\ Keeps(r, s) /\ Good(s)
           /\ s.commits = r.commits /\ SameFiles(r, s) /\ Recorded(s) = Recorded(r)
           /\ s.branch = r.branch /\ s.upstream = r.upstream /\ s.server = r.server
           /\ HeadOid(s) = c /\ HeadTree(s) = Tree(r, c)
<1>1. c \in Nat /\ Len(r.commits) \in Nat
  BY DEF Good, Repository
<1>2. /\ s \in Repository /\ s.commits = r.commits /\ SameFiles(r, s)
      /\ s.branch = r.branch /\ s.upstream = r.upstream /\ s.server = r.server
      /\ RefsOK(s) /\ HeadOid(s) = c
  <2>1. CASE r.branch = None
    BY <1>1, <2>1 DEF MovedTo, Good, Repository, SameFiles, RefsOK, HeadOid
  <2>2. CASE r.branch # None
    <3>1. r.branch \in Ref
      BY <2>2 DEF Good, Repository, Ref
    <3> DEFINE refs == [r.refs EXCEPT ![r.branch] = c]
    <3>2. refs \in [Ref -> Nat] /\ refs[r.branch] = c /\ \A n \in Ref : refs[n] <= Len(r.commits)
      BY <1>1, <3>1 DEF Good, Repository, RefsOK
    <3>3. s = [r EXCEPT !.refs = refs]
      BY <2>2 DEF MovedTo
    <3> HIDE DEF refs
    <3>4. /\ s \in Repository /\ s.commits = r.commits /\ SameFiles(r, s) /\ s.refs = refs
          /\ s.branch = r.branch /\ s.upstream = r.upstream /\ s.server = r.server
      BY <3>2, <3>3 DEF Good, Repository, SameFiles
    <3> QED BY <2>2, <3>2, <3>4 DEF Good, RefsOK, HeadOid
  <2> QED BY <2>1, <2>2
<1>3. HeadTree(s) = Tree(r, c)
  BY <1>2 DEF HeadTree, Tree
<1>4. Keeps(r, s) /\ Recorded(s) = Recorded(r)
  BY <1>2, HeadChange DEF HeadOK
<1> QED BY <1>2, <1>3, <1>4 DEF Keeps, Follows

\* A safe checkout writes only over what is committed, or what it would write.
LEMMA CheckoutSafeKeeps ==
    ASSUME NEW r, Good(r), NEW from \in Contents, NEW to \in Contents,
           \A f \in Path : from[f] \subseteq Recorded(r),
           NEW out, out = CheckoutSafe(r, from, to)
    PROVE  /\ out.result \in {"done", "refused"}
           /\ out.result = "refused" => out.repo = r
           /\ Keeps(r, out.repo) /\ SameHistory(r, out.repo)
           /\ out.repo.unmerged = r.unmerged /\ out.repo.doing = r.doing
           /\ out.repo.stashes = r.stashes
           /\ out.result = "done" =>
                 \A f \in Path :
                    IF to[f] = from[f]
                    THEN out.repo.index[f] = r.index[f] /\ out.repo.work[f] = r.work[f]
                    ELSE /\ out.repo.index[f] = to[f] /\ out.repo.work[f] = to[f]
                         /\ r.work[f] \in {from[f], to[f]}
<1> DEFINE moved == {f \in Path : to[f] # from[f]}
           index == [f \in Path |-> IF f \in moved THEN to[f] ELSE r.index[f]]
           work  == [f \in Path |-> IF f \in moved THEN to[f] ELSE r.work[f]]
           s     == [r EXCEPT !.index = index, !.work = work]
<1>1. CASE \E f \in moved : r.work[f] \notin {from[f], to[f]}
  <2>1. out = Refused(r)
    BY <1>1 DEF CheckoutSafe
  <2> QED BY <2>1, KeepsSame DEF Refused, Outcome, SameHistory
<1>2. CASE \A f \in moved : r.work[f] \in {from[f], to[f]}
  <2>1. out = Done(s)
    BY <1>2 DEF CheckoutSafe
  <2>2. index \in Contents /\ work \in Contents
    BY DEF Good, Repository, Contents
  <2> HIDE DEF index, work
  <2>3. /\ s \in Repository /\ SameHistory(r, s) /\ s.index = index /\ s.work = work
        /\ s.unmerged = r.unmerged /\ s.doing = r.doing /\ s.stashes = r.stashes
    BY <2>2 DEF Good, Repository, SameHistory
  <2> HIDE DEF s
  <2>4. \A f \in Path : s.index[f] \subseteq s.work[f] \cup Recorded(r)
    BY <2>3 DEF index, work, Good, IndexBehind
  <2>5. Follows(r, s) /\ Recorded(s) = Recorded(r)
    BY <2>3, <2>4, FilesChange DEF Good
  <2>6. \A f \in Path : r.work[f] \subseteq Safe(s)
    <3> TAKE f \in Path
    <3>1. s.work[f] \subseteq Safe(s)
      BY <2>5, Places DEF Follows
    <3>2. CASE f \in moved
      BY <1>2, <2>3, <2>5, <3>1, <3>2 DEF work, Safe
    <3>3. CASE f \notin moved
      BY <2>3, <3>1, <3>3 DEF work
    <3> QED BY <3>2, <3>3
  <2>7. \A i \in 1..Len(r.stashes) : \A f \in Path : r.stashes[i].tree[f] \subseteq Safe(s)
    BY <2>3, <2>5, Places DEF Follows
  <2>8. Keeps(r, s)
    BY <2>5, <2>6, <2>7, KeepsBy DEF Follows
  <2>9. \A f \in Path : IF to[f] = from[f]
                        THEN s.index[f] = r.index[f] /\ s.work[f] = r.work[f]
                        ELSE /\ s.index[f] = to[f] /\ s.work[f] = to[f]
                             /\ r.work[f] \in {from[f], to[f]}
    BY <1>2, <2>3 DEF index, work
  <2> QED BY <2>1, <2>3, <2>8, <2>9 DEF Done, Outcome
<1> QED BY <1>1, <1>2

\* What an absorbed change leaves: the change in the working tree and the index, and in
\* `doing` what is not finished.
LEMMA AbsorbedKeeps ==
    ASSUME NEW r, Good(r), NEW base \in Contents, NEW theirs \in Contents,
           NEW doing \in DoingType, DoingOK(doing, Len(r.commits)),
           NEW out, out = Absorbed(r, base, theirs, doing)
    PROVE  /\ out.result \in {"done", "refused"}
           /\ out.result = "refused" => out.repo = r
           /\ Keeps(r, out.repo) /\ Good(out.repo) /\ SameHistory(r, out.repo)
           /\ out.repo.stashes = r.stashes
           /\ HeadOid(out.repo) = HeadOid(r) /\ HeadTree(out.repo) = HeadTree(r)
           /\ out.result = "done" => /\ out.repo.doing = doing
                                     /\ out.repo.unmerged \in SUBSET Path
<1> DEFINE to == Merged(base, HeadTree(r), theirs)
           u  == Clashes(base, HeadTree(r), theirs)
<1>1. /\ HeadTree(r) \in Contents /\ to \in Contents /\ u \in SUBSET Path
      /\ \A f \in Path : HeadTree(r)[f] \subseteq Recorded(r)
  <2>1. HeadTree(r) \in Contents
    BY HeadTreeType
  <2> QED BY <2>1, Places DEF Merged, Clashes, Contents
<1> DEFINE safe == CheckoutSafe(r, HeadTree(r), to)
           s    == [safe.repo EXCEPT !.unmerged = u, !.doing = doing]
<1>2. /\ safe.result \in {"done", "refused"}
      /\ safe.result = "refused" => safe.repo = r
      /\ Keeps(r, safe.repo) /\ SameHistory(r, safe.repo)
      /\ safe.repo.stashes = r.stashes
  BY <1>1, CheckoutSafeKeeps
<1>3. out = IF safe.result = "refused" THEN safe ELSE Done(s)
  BY DEF Absorbed
<1> HIDE DEF to, u, safe
<1>4. CASE safe.result = "refused"
  BY <1>2, <1>3, <1>4 DEF Keeps, Follows
<1>5. CASE safe.result = "done"
  <2>1. Good(safe.repo)
    BY <1>2 DEF Keeps, Follows
  <2>2. /\ s \in Repository /\ SameHistory(safe.repo, s) /\ s.unmerged = u /\ s.doing = doing
        /\ s.stashes = safe.repo.stashes /\ s.work = safe.repo.work
        /\ s.index = safe.repo.index
    BY <1>1, <2>1 DEF Good, Repository, SameHistory
  <2> HIDE DEF s
  <2>3. SameHistory(r, s)
    BY <1>2, <2>2 DEF SameHistory
  <2>4. StashesOK(s.stashes, Len(safe.repo.commits)) /\ DoingOK(s.doing, Len(safe.repo.commits))
    BY <1>2, <2>1, <2>2 DEF SameHistory, Good
  <2>5. Follows(safe.repo, s) /\ Recorded(s) = Recorded(safe.repo)
    BY <2>1, <2>2, <2>4, FilesChange DEF Good, IndexBehind
  <2>6. Keeps(safe.repo, s)
    BY <2>1, <2>2, <2>5, Places, KeepsBy DEF Follows
  <2>7. Keeps(r, s) /\ Good(s)
    BY <1>2, <2>6, KeepsOn DEF Keeps, Follows
  <2>8. HeadOid(s) = HeadOid(r) /\ HeadTree(s) = HeadTree(r)
    BY <2>3 DEF SameHistory, HeadOid, HeadTree, Tree
  <2>9. out.result = "done" /\ out.repo = s
    BY <1>3, <1>5 DEF Done, Outcome
  <2>10. s.stashes = r.stashes /\ s.doing = doing /\ s.unmerged \in SUBSET Path
    BY <1>1, <1>2, <2>2
  <2> QED BY <2>3, <2>7, <2>8, <2>9, <2>10
<1> QED BY <1>2, <1>4, <1>5

NotDoingOK == NotDoing \in DoingType /\ \A n \in Nat : DoingOK(NotDoing, n)
LEMMA NotDoingFits == NotDoingOK
BY DEF NotDoingOK, NotDoing, DoingType, DoingOK

LEMMA HardResetFollows ==
    ASSUME NEW r, Good(r), NEW c \in 1..Len(r.commits), NEW s, s = HardReset(r, c)
    PROVE  /\ Follows(r, s) /\ HeadOid(s) = c /\ s.doing = NotDoing
           /\ s.server = r.server /\ s.branch = r.branch
<1> DEFINE m == MovedTo(r, c)
           work == [f \in Path |-> IF f \in Tracked(r) \/ Tree(r, c)[f] # {} THEN Tree(r, c)[f]
                                   ELSE m.work[f]]
<1>1. /\ Keeps(r, m) /\ Good(m) /\ m.commits = r.commits /\ SameFiles(r, m)
      /\ Recorded(m) = Recorded(r) /\ m.server = r.server /\ m.branch = r.branch
      /\ HeadOid(m) = c
  BY MovedToKeeps
<1>2. Tree(r, c) \in Contents /\ Len(m.commits) \in Nat
  BY <1>1, HeadTreeType
<1> HIDE DEF m
<1>3. work \in Contents
  BY <1>1, <1>2 DEF Good, Repository, Contents
<1>4. s = [m EXCEPT !.index = Tree(r, c), !.unmerged = {}, !.doing = NotDoing, !.work = work]
  BY DEF HardReset, m
<1> HIDE DEF work
<1>5. /\ s \in Repository /\ SameHistory(m, s) /\ s.index = Tree(r, c) /\ s.work = work
      /\ s.unmerged = {} /\ s.doing = NotDoing /\ s.stashes = m.stashes
  BY <1>1, <1>2, <1>3, <1>4, NotDoingFits DEF Good, Repository, SameHistory, NotDoingOK
<1>6. \A f \in Path : s.index[f] \subseteq s.work[f] \cup Recorded(m)
  BY <1>1, <1>5, Places
<1>7. StashesOK(s.stashes, Len(m.commits)) /\ DoingOK(s.doing, Len(m.commits))
  BY <1>1, <1>2, <1>5, NotDoingFits DEF NotDoingOK, Good
<1>8. Follows(m, s) /\ HeadOid(s) = HeadOid(m)
  BY <1>1, <1>5, <1>6, <1>7, FilesChange
<1>9. Follows(r, s)
  BY <1>1, <1>8, FollowsOn DEF Keeps
<1> QED BY <1>1, <1>5, <1>8, <1>9 DEF SameHistory

LEMMA MixedResetKeeps ==
    ASSUME NEW r, Good(r), NEW c \in 1..Len(r.commits), NEW s, s = MixedReset(r, c)
    PROVE  /\ Keeps(r, s) /\ HeadOid(s) = c /\ s.doing = NotDoing
           /\ s.server = r.server /\ s.branch = r.branch
<1> DEFINE m == MovedTo(r, c)
<1>1. /\ Keeps(r, m) /\ Good(m) /\ m.commits = r.commits /\ SameFiles(r, m)
      /\ Recorded(m) = Recorded(r) /\ m.server = r.server /\ m.branch = r.branch
      /\ HeadOid(m) = c
  BY MovedToKeeps
<1>2. Tree(r, c) \in Contents /\ Len(m.commits) \in Nat
  BY <1>1, HeadTreeType
<1>4. s = [m EXCEPT !.index = Tree(r, c), !.unmerged = {}, !.doing = NotDoing]
  BY DEF MixedReset
<1> HIDE DEF m
<1>5. /\ s \in Repository /\ SameHistory(m, s) /\ s.index = Tree(r, c) /\ s.work = m.work
      /\ s.unmerged = {} /\ s.doing = NotDoing /\ s.stashes = m.stashes
  BY <1>1, <1>2, <1>4, NotDoingFits DEF Good, Repository, SameHistory, NotDoingOK
<1>6. \A f \in Path : s.index[f] \subseteq s.work[f] \cup Recorded(m)
  BY <1>1, <1>5, Places
<1>7. StashesOK(s.stashes, Len(m.commits)) /\ DoingOK(s.doing, Len(m.commits))
  BY <1>1, <1>2, <1>5, NotDoingFits DEF NotDoingOK, Good
<1>8. Follows(m, s) /\ HeadOid(s) = HeadOid(m)
  BY <1>1, <1>5, <1>6, <1>7, FilesChange
<1>9. Keeps(m, s)
  BY <1>1, <1>5, <1>8, Places, KeepsBy DEF Follows
<1>10. Keeps(r, s)
  BY <1>1, <1>9, KeepsOn
<1> QED BY <1>1, <1>5, <1>8, <1>10 DEF SameHistory

LEMMA BoundsGrow ==
    ASSUME NEW n \in Nat, NEW m \in Nat, n <= m
    PROVE  /\ \A doing : DoingOK(doing, n) => DoingOK(doing, m)
           /\ \A stashes : StashesOK(stashes, n) => StashesOK(stashes, m)
<1>1. \A c \in 1..n : c \in 1..m
  OBVIOUS
<1> QED BY <1>1 DEF DoingOK, StashesOK

\* The new commit is HEAD; it has what is in the index.
LEMMA CommittedKeeps ==
    ASSUME NEW r, Good(r), NEW parents \in Seq(1..Len(r.commits)),
           NEW s, s = Committed(r, parents)
    PROVE  /\ Keeps(r, s) /\ Good(s) /\ SameFiles(r, s)
           /\ HeadOid(s) = Len(r.commits) + 1 /\ HeadTree(s) = r.index
           /\ Len(s.commits) = Len(r.commits) + 1
           /\ s.commits[Len(r.commits) + 1] = [parents |-> parents, tree |-> r.index]
           /\ s.branch = r.branch /\ s.upstream = r.upstream /\ s.server = r.server
<1> DEFINE n     == Len(r.commits)
           entry == [parents |-> parents, tree |-> r.index]
           m     == [r EXCEPT !.commits = Append(r.commits, entry)]
<1>1. n \in Nat /\ r.commits \in Seq(CommitType) /\ r.index \in Contents
  BY DEF Good, Repository
<1>2. entry \in CommitType
  <2>1. parents \in Seq(Nat)
    BY <1>1, SeqMonotonic
  <2> QED BY <1>1, <2>1 DEF CommitType
<1> HIDE DEF entry
<1>3. /\ Append(r.commits, entry) \in Seq(CommitType) /\ Len(Append(r.commits, entry)) = n + 1
      /\ \A c \in 1..n : Append(r.commits, entry)[c] = r.commits[c]
      /\ Append(r.commits, entry)[n + 1] = entry
  BY <1>1, <1>2, AppendProperties
<1>4. /\ m \in Repository /\ m.commits = Append(r.commits, entry) /\ SameFiles(r, m)
      /\ m.refs = r.refs /\ m.branch = r.branch /\ m.at = r.at
      /\ m.upstream = r.upstream /\ m.server = r.server
  BY <1>3 DEF Good, Repository, SameFiles
<1> HIDE DEF m
<1>5. Extends(r, m)
  BY <1>1, <1>3, <1>4 DEF Extends
<1>6. HeadOid(m) = HeadOid(r)
  BY <1>4 DEF HeadOid
<1>7. HistoryOK(m)
  <2> SUFFICES ASSUME NEW c \in 1..Len(m.commits), NEW i \in 1..Len(m.commits[c].parents)
               PROVE  m.commits[c].parents[i] \in 1..(c - 1)
    BY DEF HistoryOK
  <2>1. CASE c \in 1..n
    BY <1>1, <1>3, <1>4, <2>1 DEF Good, HistoryOK
  <2>2. CASE c = n + 1
    <3>1. m.commits[c].parents = parents
      BY <1>3, <1>4, <2>2 DEF entry
    <3>2. parents[i] \in 1..n
      BY <3>1, ElementOfSeq
    <3> QED BY <1>1, <2>2, <3>1, <3>2
  <2> QED BY <1>1, <1>3, <1>4, <2>1, <2>2
<1>8. Recorded(r) \subseteq Recorded(m)
  <2>1. DOMAIN r.commits = 1..n /\ DOMAIN m.commits = 1..(n + 1)
    BY <1>1, <1>3, <1>4, LenProperties
  <2>2. \A c \in DOMAIN r.commits : c \in DOMAIN m.commits /\ Tree(m, c) = Tree(r, c)
    BY <1>1, <1>3, <1>4, <2>1 DEF Tree
  <2> QED BY <2>2 DEF Recorded
<1>9. Good(m)
  <2>1. RefsOK(m) /\ HeadOK(m)
    BY <1>1, <1>3, <1>4, <1>6 DEF Good, RefsOK, HeadOK, Repository
  <2>2. StashesOK(m.stashes, Len(m.commits)) /\ DoingOK(m.doing, Len(m.commits))
    BY <1>1, <1>3, <1>4, BoundsGrow DEF Good, SameFiles
  <2>3. IndexBehind(m)
    BY <1>4, <1>8 DEF Good, SameFiles, IndexBehind
  <2> QED BY <1>4, <1>7, <2>1, <2>2, <2>3 DEF Good
<1>10. Kept(m) = Kept(r)
  BY <1>4 DEF SameFiles, Kept
<1>11. Keeps(r, m)
  BY <1>5, <1>9, <1>10 DEF Keeps, Follows, Safe
<1>12. n + 1 \in 1..Len(m.commits)
  BY <1>1, <1>3, <1>4
<1>13. s = MovedTo(m, n + 1)
  BY DEF Committed, m, entry
<1>14. /\ Keeps(m, s) /\ Good(s) /\ s.commits = m.commits /\ SameFiles(m, s)
       /\ s.branch = m.branch /\ s.upstream = m.upstream /\ s.server = m.server
       /\ HeadOid(s) = n + 1 /\ HeadTree(s) = Tree(m, n + 1)
  BY <1>9, <1>12, <1>13, MovedToKeeps
<1>15. Tree(m, n + 1) = r.index
  BY <1>3, <1>4 DEF Tree, entry
<1>16. Keeps(r, s)
  BY <1>11, <1>14, KeepsOn
<1>17. SameFiles(r, s)
  BY <1>4, <1>14 DEF SameFiles
<1>18. s.commits[n + 1] = entry /\ Len(s.commits) = n + 1
  BY <1>3, <1>4, <1>14
<1> QED BY <1>4, <1>14, <1>15, <1>16, <1>17, <1>18 DEF entry

\* Another state of a merge or a rebase, nothing else.
LEMMA DoingChange ==
    ASSUME NEW r, Good(r), NEW doing \in DoingType, DoingOK(doing, Len(r.commits)),
           NEW s, s = [r EXCEPT !.doing = doing]
    PROVE  /\ Keeps(r, s) /\ Good(s) /\ SameHistory(r, s) /\ s.doing = doing
           /\ s.index = r.index /\ s.work = r.work /\ s.unmerged = r.unmerged
           /\ s.stashes = r.stashes /\ HeadOid(s) = HeadOid(r) /\ HeadTree(s) = HeadTree(r)
<1>1. /\ s \in Repository /\ SameHistory(r, s) /\ s.doing = doing
      /\ s.index = r.index /\ s.work = r.work /\ s.unmerged = r.unmerged
      /\ s.stashes = r.stashes
  BY DEF Good, Repository, SameHistory
<1>2. Follows(r, s) /\ HeadOid(s) = HeadOid(r) /\ HeadTree(s) = HeadTree(r)
  BY <1>1, FilesChange DEF Good, IndexBehind
<1>3. Keeps(r, s)
  BY <1>1, <1>2, Places, KeepsBy DEF Follows
<1> QED BY <1>1, <1>2, <1>3 DEF Follows

\* Another working tree and index, with what is unmerged.
LEMMA TreesChange ==
    ASSUME NEW r, Good(r), NEW s \in Repository, SameHistory(r, s),
           s.doing = r.doing, s.stashes = r.stashes,
           \A f \in Path : s.index[f] \subseteq s.work[f] \cup Recorded(r)
    PROVE  /\ Follows(r, s) /\ Good(s) /\ Recorded(s) = Recorded(r)
           /\ HeadOid(s) = HeadOid(r) /\ HeadTree(s) = HeadTree(r)
           /\ (\A f \in Path : r.work[f] \subseteq s.work[f] \cup Recorded(r)) => Keeps(r, s)
<1>1. /\ Follows(r, s) /\ HeadOid(s) = HeadOid(r) /\ HeadTree(s) = HeadTree(r)
      /\ Recorded(s) = Recorded(r)
  BY FilesChange DEF Good
<1>2. ASSUME \A f \in Path : r.work[f] \subseteq s.work[f] \cup Recorded(r) PROVE Keeps(r, s)
  <2>1. \A f \in Path : r.work[f] \subseteq Safe(s)
    BY <1>1, <1>2, Places DEF Follows, Safe
  <2>2. \A i \in 1..Len(r.stashes) : \A f \in Path : r.stashes[i].tree[f] \subseteq Safe(s)
    BY <1>1, Places DEF Follows
  <2> QED BY <1>1, <2>1, <2>2, KeepsBy DEF Follows
<1> QED BY <1>1, <1>2 DEF Follows

\* Without the element at a place, those after it move up.
LEMMA RemoveAtElements ==
    ASSUME NEW S, NEW seq \in Seq(S), NEW i \in 1..Len(seq)
    PROVE  /\ RemoveAt(seq, i) \in Seq(S) /\ Len(RemoveAt(seq, i)) = Len(seq) - 1
           /\ \A j \in 1..(Len(seq) - 1) :
                 RemoveAt(seq, i)[j] = IF j < i THEN seq[j] ELSE seq[j + 1]
<1> DEFINE front == SubSeq(seq, 1, i - 1)
           back  == SubSeq(seq, i + 1, Len(seq))
<1>1. Len(seq) \in Nat /\ i \in Nat /\ 1 <= i /\ i <= Len(seq)
  OBVIOUS
<1>2. /\ front \in Seq(S) /\ Len(front) = i - 1
      /\ \A j \in 1..(i - 1) : front[j] = seq[j]
  <2>1. \A j \in 1..(i - 1) : seq[j] \in S
    BY <1>1, ElementOfSeq
  <2>2. 1 \in Int /\ i - 1 \in Int
    BY <1>1
  <2>3. /\ front \in Seq(S) /\ Len(front) = IF 1 <= i - 1 THEN (i - 1) - 1 + 1 ELSE 0
        /\ \A j \in 1..((i - 1) - 1 + 1) : front[j] = seq[1 + j - 1]
    BY <2>1, <2>2, SubSeqProperties
  <2> QED BY <1>1, <2>3
<1>3. /\ back \in Seq(S) /\ Len(back) = Len(seq) - i
      /\ \A j \in 1..(Len(seq) - i) : back[j] = seq[i + j]
  <2>1. \A j \in (i + 1)..Len(seq) : seq[j] \in S
    BY <1>1, ElementOfSeq
  <2>2. i + 1 \in Int /\ Len(seq) \in Int
    BY <1>1
  <2>3. /\ back \in Seq(S) /\ Len(back) = IF i + 1 <= Len(seq) THEN Len(seq) - (i + 1) + 1 ELSE 0
        /\ \A j \in 1..(Len(seq) - (i + 1) + 1) : back[j] = seq[(i + 1) + j - 1]
    BY <2>1, <2>2, SubSeqProperties
  <2> QED BY <1>1, <2>3
<1>4. RemoveAt(seq, i) = front \o back
  BY DEF RemoveAt
<1> HIDE DEF front, back
<1>5. /\ front \o back \in Seq(S) /\ Len(front \o back) = Len(front) + Len(back)
      /\ \A j \in 1..(Len(front) + Len(back)) :
            (front \o back)[j] = IF j <= Len(front) THEN front[j] ELSE back[j - Len(front)]
  BY <1>2, <1>3, ConcatProperties
<1>6. ASSUME NEW j \in 1..(Len(seq) - 1)
      PROVE  (front \o back)[j] = IF j < i THEN seq[j] ELSE seq[j + 1]
  <2>1. CASE j < i
    BY <1>1, <1>2, <1>3, <1>5, <2>1
  <2>2. CASE ~(j < i)
    <3>1. j - Len(front) \in 1..(Len(seq) - i) /\ ~(j <= Len(front))
      BY <1>1, <1>2, <2>2
    <3>2. (front \o back)[j] = back[j - Len(front)]
      BY <1>1, <1>2, <1>3, <1>5, <3>1
    <3>3. back[j - Len(front)] = seq[i + (j - Len(front))]
      BY <1>3, <3>1
    <3>4. i + (j - Len(front)) = j + 1
      BY <1>1, <1>2
    <3> QED BY <2>2, <3>2, <3>3, <3>4
  <2> QED BY <2>1, <2>2
<1> QED BY <1>1, <1>2, <1>3, <1>4, <1>5, <1>6

\* Stashing moves what tracked files have into the new entry.
LEMMA StashedKeeps ==
    ASSUME NEW r, Good(r), NEW out, out = Stashed(r)
    PROVE  /\ out.result \in {"done", "refused"}
           /\ out.result = "refused" => out.repo = r
           /\ Keeps(r, out.repo) /\ SameHistory(r, out.repo) /\ out.repo.doing = r.doing
<1> DEFINE saved == [f \in Path |-> IF f \in Tracked(r) THEN r.work[f] ELSE {}]
           entry == [base |-> HeadOid(r), tree |-> saved]
           work  == [f \in Path |-> IF f \in Tracked(r) THEN HeadTree(r)[f] ELSE r.work[f]]
           all   == <<entry>> \o r.stashes
           s     == [r EXCEPT !.stashes = all, !.index = HeadTree(r), !.work = work]
<1>1. CASE r.unmerged # {} \/ Changed(r) = {}
  BY <1>1, KeepsSame DEF Stashed, Refused, Outcome, SameHistory
<1>2. CASE ~(r.unmerged # {} \/ Changed(r) = {})
  <2>1. /\ HeadOid(r) \in 1..Len(r.commits) /\ HeadTree(r) \in Contents
        /\ Len(r.commits) \in Nat
    BY HeadTreeType
  <2>2. saved \in Contents /\ work \in Contents
    BY <2>1 DEF Good, Repository, Contents
  <2>3. out = Done(s)
    BY <1>2 DEF Stashed
  <2> HIDE DEF saved, work
  <2>4. /\ all \in Seq(StashType) /\ Len(all) = Len(r.stashes) + 1 /\ all[1] = entry
        /\ \A i \in 1..Len(r.stashes) : all[i + 1] = r.stashes[i]
        /\ \A i \in 2..Len(all) : all[i] = r.stashes[i - 1]
        /\ Len(r.stashes) \in Nat
    <3>1. entry \in StashType
      BY <2>1, <2>2 DEF StashType
    <3>2. r.stashes \in Seq(StashType) /\ Len(r.stashes) \in Nat
      BY DEF Good, Repository
    <3> HIDE DEF entry
    <3>3. <<entry>> \in Seq(StashType) /\ Len(<<entry>>) = 1 /\ <<entry>>[1] = entry
      BY <3>1
    <3>4. /\ all \in Seq(StashType) /\ Len(all) = 1 + Len(r.stashes)
          /\ \A i \in 1..(1 + Len(r.stashes)) :
                all[i] = IF i <= 1 THEN <<entry>>[i] ELSE r.stashes[i - 1]
      BY <3>2, <3>3, ConcatProperties
    <3> QED BY <3>2, <3>3, <3>4
  <2> HIDE DEF all
  <2>5. /\ s \in Repository /\ SameHistory(r, s) /\ s.index = HeadTree(r) /\ s.work = work
        /\ s.stashes = all /\ s.doing = r.doing
    BY <2>1, <2>2, <2>4 DEF Good, Repository, SameHistory
  <2> HIDE DEF s
  <2>6. StashesOK(s.stashes, Len(r.commits))
    <3> SUFFICES ASSUME NEW i \in 1..Len(all) PROVE all[i].base \in 1..Len(r.commits)
      BY <2>5 DEF StashesOK
    <3>1. CASE i = 1
      BY <2>1, <2>4, <3>1
    <3>2. CASE i \in 2..Len(all)
      <4>1. i - 1 \in 1..Len(r.stashes)
        BY <2>4, <3>2
      <4> QED BY <2>4, <3>2, <4>1 DEF Good, StashesOK
    <3> QED BY <2>4, <3>1, <3>2
  <2>7. Follows(r, s) /\ Recorded(s) = Recorded(r)
    BY <2>5, <2>6, FilesChange, Places DEF Good
  <2>8. \A f \in Path : r.work[f] \subseteq Safe(s)
    <3> TAKE f \in Path
    <3>1. 1 \in 1..Len(s.stashes) /\ s.stashes[1].tree = saved
      BY <2>4, <2>5
    <3>2. saved[f] \subseteq Safe(s) /\ work[f] \subseteq Safe(s)
      BY <2>5, <2>7, <3>1, Places DEF Follows
    <3> QED BY <3>2 DEF saved, work
  <2>9. \A i \in 1..Len(r.stashes) : \A f \in Path : r.stashes[i].tree[f] \subseteq Safe(s)
    <3> TAKE i \in 1..Len(r.stashes)
    <3>1. i + 1 \in 1..Len(s.stashes) /\ s.stashes[i + 1] = r.stashes[i]
      BY <2>4, <2>5
    <3> QED BY <2>7, <3>1, Places DEF Follows
  <2>10. Keeps(r, s)
    BY <2>7, <2>8, <2>9, KeepsBy DEF Follows
  <2> QED BY <2>3, <2>5, <2>10 DEF Done, Outcome
<1> QED BY <1>1, <1>2

\* Applying a stash entry brings back everything in it that is in no commit.
LEMMA UnstashedKeeps ==
    ASSUME NEW r, Good(r), NEW i \in Nat \ {0}, NEW out, out = Unstashed(r, i)
    PROVE  /\ out.result \in {"done", "refused"}
           /\ out.result = "refused" => out.repo = r
           /\ Keeps(r, out.repo) /\ Good(out.repo) /\ SameHistory(r, out.repo)
           /\ out.repo.doing = r.doing /\ out.repo.stashes = r.stashes
           /\ out.result = "done" =>
                 /\ i \in 1..Len(r.stashes)
                 /\ \A f \in Path : r.stashes[i].tree[f] \subseteq
                        out.repo.work[f] \cup out.repo.index[f] \cup Recorded(out.repo)
<1> DEFINE base    == Tree(r, r.stashes[i].base)
           theirs  == r.stashes[i].tree
           clashes == Clashes(base, r.index, theirs)
           to      == Merged(base, r.index, theirs)
           safe    == CheckoutSafe(r, r.index, to)
           added   == {f \in Path : base[f] = {} /\ theirs[f] # {}}
           index   == [f \in Path |-> IF f \in added THEN theirs[f] ELSE r.index[f]]
<1>1. CASE i > Len(r.stashes) \/ r.unmerged # {} \/ r.index # HeadTree(r)
  <2>1. out = Refused(r)
    BY <1>1 DEF Unstashed
  <2> QED BY <2>1, KeepsSame DEF Refused, Outcome, SameHistory
<1>2. CASE ~(i > Len(r.stashes) \/ r.unmerged # {} \/ r.index # HeadTree(r))
  <2>1. i \in 1..Len(r.stashes) /\ r.index = HeadTree(r) /\ Len(r.commits) \in Nat
    BY <1>2 DEF Good, Repository
  <2>2. /\ theirs \in Contents /\ base \in Contents /\ r.index \in Contents
        /\ \A f \in Path : base[f] \subseteq Recorded(r) /\ r.index[f] \subseteq Recorded(r)
    <3>1. r.stashes[i] \in StashType /\ r.stashes[i].base \in 1..Len(r.commits)
      BY <2>1, ElementOfSeq DEF Good, Repository, StashesOK
    <3>2. base \in Contents /\ r.index \in Contents
      BY <2>1, <3>1, HeadTreeType
    <3> QED BY <2>1, <3>1, <3>2, Places DEF StashType
  <2>3. to \in Contents /\ clashes \in SUBSET Path
    BY <2>2 DEF Merged, Clashes, Contents
  <2>4. index \in Contents
    BY <2>2 DEF Contents
  <2>5. out = IF safe.result = "refused" THEN safe
              ELSE IF clashes # {} THEN Done([safe.repo EXCEPT !.unmerged = clashes])
              ELSE Done([safe.repo EXCEPT !.index = index])
    BY <1>2 DEF Unstashed
  <2> HIDE DEF index
  <2>6. /\ safe.result \in {"done", "refused"}
        /\ safe.result = "refused" => safe.repo = r
        /\ Keeps(r, safe.repo) /\ Good(safe.repo) /\ SameHistory(r, safe.repo)
        /\ safe.repo.unmerged = r.unmerged /\ safe.repo.doing = r.doing
        /\ safe.repo.stashes = r.stashes
        /\ safe.result = "done" =>
              \A f \in Path :
                 IF to[f] = r.index[f]
                 THEN safe.repo.index[f] = r.index[f] /\ safe.repo.work[f] = r.work[f]
                 ELSE /\ safe.repo.index[f] = to[f] /\ safe.repo.work[f] = to[f]
                      /\ r.work[f] \in {r.index[f], to[f]}
    BY <2>2, <2>3, CheckoutSafeKeeps DEF Keeps, Follows
  <2>7. \A f \in Path : theirs[f] \subseteq to[f] \cup base[f]
    BY DEF Merged
  <2> HIDE DEF safe, to
  <2>8. Recorded(safe.repo) = Recorded(r)
    BY <2>6 DEF SameHistory, Recorded, Edits, Tree
  <2>9. CASE safe.result = "refused"
    BY <2>5, <2>6, <2>9
  <2>10. CASE safe.result = "done" /\ clashes # {}
    <3> DEFINE s == [safe.repo EXCEPT !.unmerged = clashes]
    <3>1. out = Done(s)
      BY <2>5, <2>10
    <3>2. /\ s \in Repository /\ SameHistory(safe.repo, s)
          /\ s.doing = safe.repo.doing /\ s.stashes = safe.repo.stashes
          /\ s.index = safe.repo.index /\ s.work = safe.repo.work
      BY <2>3, <2>6 DEF Good, Repository, SameHistory
    <3> HIDE DEF s, clashes
    <3>3. Keeps(safe.repo, s) /\ Good(s) /\ Recorded(s) = Recorded(safe.repo)
      BY <2>6, <3>2, TreesChange DEF Good, IndexBehind
    <3>4. Keeps(r, s) /\ SameHistory(r, s) /\ s.doing = r.doing /\ s.stashes = r.stashes
      BY <2>6, <3>2, <3>3, KeepsOn DEF SameHistory
    <3>5. \A f \in Path : theirs[f] \subseteq s.work[f] \cup s.index[f] \cup Recorded(s)
      BY <2>2, <2>6, <2>7, <2>8, <2>10, <3>2, <3>3
    <3> QED BY <2>1, <3>1, <3>3, <3>4, <3>5 DEF Done, Outcome
  <2>11. CASE safe.result = "done" /\ clashes = {}
    <3> DEFINE s == [safe.repo EXCEPT !.index = index]
    <3>1. out = Done(s)
      BY <2>5, <2>11
    <3>2. \A f \in Path : f \in added => theirs[f] = r.index[f] \/ theirs[f] = to[f]
      BY <2>11 DEF to, Merged, Clashes
    <3>3. \A f \in Path : index[f] \subseteq safe.repo.work[f] \cup Recorded(safe.repo)
      <4> TAKE f \in Path
      <4>1. CASE f \in added
        BY <2>2, <2>6, <2>8, <2>11, <3>2, <4>1 DEF index
      <4>2. CASE f \notin added
        BY <2>2, <2>8, <4>2 DEF index
      <4> QED BY <4>1, <4>2
    <3>4. /\ s \in Repository /\ SameHistory(safe.repo, s)
          /\ s.doing = safe.repo.doing /\ s.stashes = safe.repo.stashes
          /\ s.index = index /\ s.work = safe.repo.work
      BY <2>4, <2>6 DEF Good, Repository, SameHistory
    <3> HIDE DEF s
    <3>5. Keeps(safe.repo, s) /\ Good(s) /\ Recorded(s) = Recorded(safe.repo)
      BY <2>6, <3>3, <3>4, TreesChange
    <3>6. Keeps(r, s) /\ SameHistory(r, s) /\ s.doing = r.doing /\ s.stashes = r.stashes
      BY <2>6, <3>4, <3>5, KeepsOn DEF SameHistory
    <3>7. \A f \in Path : theirs[f] \subseteq s.work[f] \cup s.index[f] \cup Recorded(s)
      BY <2>2, <2>6, <2>7, <2>8, <2>11, <3>4, <3>5
    <3> QED BY <2>1, <3>1, <3>5, <3>6, <3>7 DEF Done, Outcome
  <2> QED BY <2>6, <2>9, <2>10, <2>11
<1> QED BY <1>1, <1>2

\* A dropped entry takes with it what is nowhere else.
LEMMA DroppedFollows ==
    ASSUME NEW r, Good(r), NEW i \in 1..Len(r.stashes), NEW s, s = Dropped(r, i)
    PROVE  /\ Follows(r, s) /\ SameHistory(r, s) /\ s.doing = r.doing
           /\ s.index = r.index /\ s.work = r.work /\ s.unmerged = r.unmerged
           /\ (\A f \in Path : r.stashes[i].tree[f] \subseteq
                                   r.work[f] \cup r.index[f] \cup Recorded(r)) => Keeps(r, s)
<1>1. r.stashes \in Seq(StashType) /\ Len(r.stashes) \in Nat /\ i \in Nat
  BY DEF Good, Repository
<1>2. /\ RemoveAt(r.stashes, i) \in Seq(StashType)
      /\ Len(RemoveAt(r.stashes, i)) = Len(r.stashes) - 1
      /\ \A j \in 1..(Len(r.stashes) - 1) :
            RemoveAt(r.stashes, i)[j] = IF j < i THEN r.stashes[j] ELSE r.stashes[j + 1]
  BY <1>1, RemoveAtElements
<1>3. /\ s \in Repository /\ SameHistory(r, s) /\ s.doing = r.doing
      /\ s.index = r.index /\ s.work = r.work /\ s.unmerged = r.unmerged
      /\ s.stashes = RemoveAt(r.stashes, i)
  BY <1>2 DEF Dropped, Good, Repository, SameHistory
<1>4. StashesOK(s.stashes, Len(r.commits))
  <2> SUFFICES ASSUME NEW j \in 1..Len(s.stashes) PROVE s.stashes[j].base \in 1..Len(r.commits)
    BY DEF StashesOK
  <2>1. j \in 1..Len(r.stashes) /\ j + 1 \in 1..Len(r.stashes) /\ j \in 1..(Len(r.stashes) - 1)
    BY <1>1, <1>2, <1>3
  <2> QED BY <1>2, <1>3, <2>1 DEF Good, StashesOK
<1>5. Follows(r, s) /\ Recorded(s) = Recorded(r)
  BY <1>3, <1>4, FilesChange DEF Good, IndexBehind
<1>6. ASSUME \A f \in Path :
                 r.stashes[i].tree[f] \subseteq r.work[f] \cup r.index[f] \cup Recorded(r)
      PROVE  Keeps(r, s)
  <2>1. \A f \in Path : r.work[f] \subseteq Safe(s) /\ r.index[f] \subseteq Safe(s)
    BY <1>3, <1>5, Places DEF Follows
  <2>2. ASSUME NEW j \in 1..Len(r.stashes), NEW f \in Path
        PROVE  r.stashes[j].tree[f] \subseteq Safe(s)
    <3>1. CASE j = i
      BY <1>5, <1>6, <2>1, <3>1 DEF Safe
    <3>2. CASE j < i
      <4>1. j \in 1..(Len(r.stashes) - 1) /\ s.stashes[j] = r.stashes[j]
        BY <1>1, <1>2, <1>3, <3>2
      <4> QED BY <1>2, <1>3, <1>5, <4>1, Places DEF Follows
    <3>3. CASE j > i
      <4>1. j - 1 \in 1..(Len(r.stashes) - 1) /\ ~(j - 1 < i) /\ (j - 1) + 1 = j
        BY <1>1, <3>3
      <4>2. s.stashes[j - 1] = r.stashes[j]
        BY <1>2, <1>3, <4>1
      <4> QED BY <1>2, <1>3, <1>5, <4>1, <4>2, Places DEF Follows
    <3> QED BY <1>1, <3>1, <3>2, <3>3
  <2> QED BY <1>5, <2>1, <2>2, KeepsBy DEF Follows
<1> QED BY <1>3, <1>5, <1>6

-----------------------------------------------------------------------------
(* The operations *)

\* An operation that keeps work, one that may discard it, and one that does nothing when it is
\* refused and leaves the state of a merge or a rebase alone.
Ends(r, out)   == out.result \in Result /\ Keeps(r, out.repo)
Throws(r, out) == out.result \in Result /\ Follows(r, out.repo)
Plain(r, out)  == /\ out.result = "refused" => out.repo = r
                  /\ out.repo.doing = r.doing

LEMMA RefusedEnds ==
    ASSUME NEW r, Good(r)
    PROVE  Ends(r, Refused(r)) /\ Plain(r, Refused(r))
BY KeepsSame DEF Ends, Plain, Refused, Outcome, Result

LEMMA DoneEnds ==
    ASSUME NEW r, NEW s
    PROVE  /\ Done(s).result = "done" /\ Done(s).repo = s
           /\ Keeps(r, s) => Ends(r, Done(s))
           /\ Follows(r, s) => Throws(r, Done(s))
           /\ s.doing = r.doing => Plain(r, Done(s))
BY DEF Ends, Throws, Plain, Done, Outcome, Result

\* The fields a change of the files leaves.
FilesOnly(r, s) == SameHistory(r, s) /\ s.doing = r.doing /\ s.stashes = r.stashes

LEMMA StageFileEnds ==
    ASSUME NEW r, Good(r), NEW f \in Path, NEW out, out = StageFile(r, f)
    PROVE  Ends(r, out) /\ Plain(r, out)
<1> DEFINE index == [r.index EXCEPT ![f] = r.work[f]]
           s     == [r EXCEPT !.index = index]
<1>1. CASE f \in r.unmerged
  BY <1>1, RefusedEnds DEF StageFile
<1>2. CASE f \notin r.unmerged
  <2>1. index \in Contents /\ \A g \in Path : index[g] = IF g = f THEN r.work[f] ELSE r.index[g]
    BY DEF Good, Repository, Contents
  <2>2. out = Done(s)
    BY <1>2 DEF StageFile
  <2> HIDE DEF index
  <2>3. s \in Repository /\ FilesOnly(r, s) /\ s.index = index /\ s.work = r.work
    BY <2>1 DEF Good, Repository, FilesOnly, SameHistory
  <2> HIDE DEF s
  <2>4. Keeps(r, s)
    BY <2>1, <2>3, TreesChange DEF FilesOnly, Good, IndexBehind
  <2> QED BY <2>2, <2>3, <2>4, DoneEnds DEF FilesOnly
<1> QED BY <1>1, <1>2

LEMMA StageAllEnds ==
    ASSUME NEW r, Good(r), NEW out, out = StageAll(r)
    PROVE  Ends(r, out) /\ Plain(r, out)
<1> DEFINE index == [f \in Path |-> IF f \in r.unmerged THEN r.index[f] ELSE r.work[f]]
           s     == [r EXCEPT !.index = index]
<1>1. index \in Contents
  BY DEF Good, Repository, Contents
<1>2. out = Done(s)
  BY DEF StageAll
<1>3. \A f \in Path : index[f] \in {r.index[f], r.work[f]}
  OBVIOUS
<1> HIDE DEF index
<1>4. s \in Repository /\ FilesOnly(r, s) /\ s.index = index /\ s.work = r.work
  BY <1>1 DEF Good, Repository, FilesOnly, SameHistory
<1> HIDE DEF s
<1>5. \A f \in Path : s.index[f] \subseteq s.work[f] \cup Recorded(r)
  BY <1>3, <1>4 DEF Good, IndexBehind
<1>6. Keeps(r, s)
  BY <1>4, <1>5, TreesChange DEF FilesOnly
<1> QED BY <1>2, <1>4, <1>6, DoneEnds DEF FilesOnly

LEMMA UnstageFileEnds ==
    ASSUME NEW r, Good(r), NEW f \in Path, NEW out, out = UnstageFile(r, f)
    PROVE  Ends(r, out) /\ Plain(r, out)
<1> DEFINE index    == [r.index EXCEPT ![f] = HeadTree(r)[f]]
           unmerged == r.unmerged \ {f}
           s        == [r EXCEPT !.index = index, !.unmerged = unmerged]
<1>1. /\ index \in Contents /\ unmerged \in SUBSET Path
      /\ \A g \in Path : index[g] = IF g = f THEN HeadTree(r)[f] ELSE r.index[g]
  <2>1. HeadTree(r) \in Contents
    BY HeadTreeType
  <2> QED BY <2>1 DEF Good, Repository, Contents
<1>2. out = Done(s)
  BY DEF UnstageFile
<1> HIDE DEF index, unmerged
<1>3. s \in Repository /\ FilesOnly(r, s) /\ s.index = index /\ s.work = r.work
  BY <1>1 DEF Good, Repository, FilesOnly, SameHistory
<1> HIDE DEF s
<1>4. \A g \in Path : s.index[g] \subseteq s.work[g] \cup Recorded(r)
  BY <1>1, <1>3, Places DEF Good, IndexBehind
<1>5. Keeps(r, s)
  BY <1>3, <1>4, TreesChange DEF FilesOnly
<1> QED BY <1>2, <1>3, <1>5, DoneEnds DEF FilesOnly

LEMMA ResolveConflictEnds ==
    ASSUME NEW r, Good(r), NEW f \in Path, NEW out, out = ResolveConflict(r, f)
    PROVE  Ends(r, out) /\ Plain(r, out)
<1> DEFINE index    == [r.index EXCEPT ![f] = r.work[f]]
           unmerged == r.unmerged \ {f}
           s        == [r EXCEPT !.index = index, !.unmerged = unmerged]
<1>1. CASE f \notin r.unmerged
  BY <1>1, RefusedEnds DEF ResolveConflict
<1>2. CASE f \in r.unmerged
  <2>1. /\ index \in Contents /\ unmerged \in SUBSET Path
        /\ \A g \in Path : index[g] = IF g = f THEN r.work[f] ELSE r.index[g]
    BY DEF Good, Repository, Contents
  <2>2. out = Done(s)
    BY <1>2 DEF ResolveConflict
  <2> HIDE DEF index, unmerged
  <2>3. s \in Repository /\ FilesOnly(r, s) /\ s.index = index /\ s.work = r.work
    BY <2>1 DEF Good, Repository, FilesOnly, SameHistory
  <2> HIDE DEF s
  <2>4. Keeps(r, s)
    BY <2>1, <2>3, TreesChange DEF FilesOnly, Good, IndexBehind
  <2> QED BY <2>2, <2>3, <2>4, DoneEnds DEF FilesOnly
<1> QED BY <1>1, <1>2

LEMMA DiscardChangesThrows ==
    ASSUME NEW r, Good(r), NEW f \in Path, NEW out, out = DiscardChanges(r, f)
    PROVE  Throws(r, out) /\ Plain(r, out)
<1> DEFINE h == HeadTree(r)
<1>1. h \in Contents
  BY HeadTreeType
<1>2. CASE f \in Untracked(r)
  <2> DEFINE work == [r.work EXCEPT ![f] = {}]
             s    == [r EXCEPT !.work = work]
  <2>1. /\ work \in Contents /\ r.index[f] = {}
        /\ \A g \in Path : work[g] = IF g = f THEN {} ELSE r.work[g]
    BY <1>2 DEF Good, Repository, Contents, Untracked, Tracked
  <2>2. out = Done(s)
    BY <1>2 DEF DiscardChanges
  <2> HIDE DEF work
  <2>3. s \in Repository /\ FilesOnly(r, s) /\ s.index = r.index /\ s.work = work
    BY <2>1 DEF Good, Repository, FilesOnly, SameHistory
  <2> HIDE DEF s
  <2>4. Follows(r, s)
    BY <2>1, <2>3, TreesChange DEF FilesOnly, Good, IndexBehind
  <2> QED BY <2>2, <2>3, <2>4, DoneEnds DEF FilesOnly
<1>3. CASE f \notin Untracked(r)
  <2> DEFINE work  == [r.work EXCEPT ![f] = h[f]]
             index == [r.index EXCEPT ![f] = h[f]]
             unmerged == r.unmerged \ {f}
             s     == [r EXCEPT !.work = work, !.index = index, !.unmerged = unmerged]
  <2>1. /\ work \in Contents /\ index \in Contents /\ unmerged \in SUBSET Path
        /\ \A g \in Path : /\ work[g] = IF g = f THEN h[f] ELSE r.work[g]
                           /\ index[g] = IF g = f THEN h[f] ELSE r.index[g]
    BY <1>1 DEF Good, Repository, Contents
  <2>2. out = Done(s)
    BY <1>3 DEF DiscardChanges
  <2> HIDE DEF work, index, unmerged
  <2>3. s \in Repository /\ FilesOnly(r, s) /\ s.index = index /\ s.work = work
    BY <2>1 DEF Good, Repository, FilesOnly, SameHistory
  <2> HIDE DEF s
  <2>4. Follows(r, s)
    BY <2>1, <2>3, TreesChange DEF FilesOnly, Good, IndexBehind
  <2> QED BY <2>2, <2>3, <2>4, DoneEnds DEF FilesOnly
<1> QED BY <1>2, <1>3

LEMMA CleanUntrackedThrows ==
    ASSUME NEW r, Good(r), NEW out, out = CleanUntracked(r)
    PROVE  Throws(r, out) /\ Plain(r, out)
<1> DEFINE work == [f \in Path |-> IF f \in Untracked(r) THEN {} ELSE r.work[f]]
           s    == [r EXCEPT !.work = work]
<1>1. work \in Contents /\ \A f \in Path : r.index[f] \subseteq work[f] \cup Recorded(r)
  BY DEF Good, Repository, Contents, Untracked, Tracked, IndexBehind
<1>2. out = Done(s)
  BY DEF CleanUntracked
<1> HIDE DEF work
<1>3. s \in Repository /\ FilesOnly(r, s) /\ s.index = r.index /\ s.work = work
  BY <1>1 DEF Good, Repository, FilesOnly, SameHistory
<1> HIDE DEF s
<1>4. Follows(r, s)
  BY <1>1, <1>3, TreesChange DEF FilesOnly
<1> QED BY <1>2, <1>3, <1>4, DoneEnds DEF FilesOnly

\* A commit that finishes what was in progress.
Finished(r, parents) == [Committed(r, parents) EXCEPT !.doing = NotDoing]
Merging(c) == [what |-> "merge", other |-> c]

\* A commit that ends what was in progress.
LEMMA CommittedAndDone ==
    ASSUME NEW r, Good(r), NEW parents \in Seq(1..Len(r.commits)),
           NEW s, s = Finished(r, parents)
    PROVE  /\ Keeps(r, s) /\ Good(s) /\ s.doing = NotDoing
           /\ HeadOid(s) = Len(r.commits) + 1 /\ Len(s.commits) = Len(r.commits) + 1
           /\ s.commits[Len(r.commits) + 1].parents = parents /\ s.server = r.server
<1> DEFINE m == Committed(r, parents)
<1>1. /\ Keeps(r, m) /\ Good(m) /\ HeadOid(m) = Len(r.commits) + 1
      /\ Len(m.commits) = Len(r.commits) + 1 /\ m.server = r.server
      /\ m.commits[Len(r.commits) + 1] = [parents |-> parents, tree |-> r.index]
  BY CommittedKeeps
<1> HIDE DEF m
<1>2. NotDoing \in DoingType /\ DoingOK(NotDoing, Len(m.commits))
  BY <1>1, NotDoingFits DEF NotDoingOK, Good, Repository
<1>3. /\ Keeps(m, s) /\ Good(s) /\ SameHistory(m, s) /\ s.doing = NotDoing
      /\ HeadOid(s) = HeadOid(m)
  BY <1>1, <1>2, DoingChange DEF m, Finished
<1>4. Keeps(r, s)
  BY <1>1, <1>3, KeepsOn
<1> QED BY <1>1, <1>3, <1>4 DEF SameHistory

\* What a commit of a merge in progress is made from.
LEMMA MergeParents ==
    ASSUME NEW r, Good(r)
    PROVE  /\ <<HeadOid(r)>> \in Seq(1..Len(r.commits))
           /\ r.commits[HeadOid(r)].parents \in Seq(1..Len(r.commits))
           /\ \A c \in 1..Len(r.commits) :
                 r.commits[c].parents \in Seq(Nat) /\ r.commits[c].parents \in Seq(1..(c - 1))
           /\ \A c \in 1..Len(r.commits) : <<HeadOid(r), c>> \in Seq(1..Len(r.commits))
           /\ r.doing.what = "merge" => r.doing.other \in 1..Len(r.commits)
<1>1. HeadOid(r) \in 1..Len(r.commits) /\ Len(r.commits) \in Nat
  BY HeadTreeType
<1>2. \A c \in 1..Len(r.commits) : <<HeadOid(r), c>> \in Seq(1..Len(r.commits))
  BY <1>1
<1>3. ASSUME NEW c \in 1..Len(r.commits)
      PROVE  /\ r.commits[c].parents \in Seq(Nat) /\ r.commits[c].parents \in Seq(1..(c - 1))
             /\ r.commits[c].parents \in Seq(1..Len(r.commits))
  <2> DEFINE p == r.commits[c].parents
  <2>1. p \in Seq(Nat)
    <3>1. r.commits[c] \in CommitType
      BY ElementOfSeq DEF Good, Repository
    <3> QED BY <3>1 DEF CommitType
  <2>2. \A i \in 1..Len(p) : p[i] \in 1..(c - 1)
    BY DEF Good, HistoryOK
  <2> HIDE DEF p
  <2>3. p \in Seq(1..(c - 1))
    <3>1. Len(p) \in Nat /\ p \in [1..Len(p) -> 1..(c - 1)]
      BY <2>1, <2>2, LenProperties
    <3> QED BY <3>1, SeqDef
  <2>4. 1..(c - 1) \subseteq 1..Len(r.commits)
    BY <1>1
  <2>5. p \in Seq(1..Len(r.commits))
    BY <2>3, <2>4, SeqMonotonic
  <2> QED BY <2>1, <2>3, <2>5 DEF p
<1>4. r.doing.what = "merge" => r.doing.other \in 1..Len(r.commits)
  BY DEF Good, DoingOK
<1> QED BY <1>1, <1>2, <1>3, <1>4

\* What the end of a merge is: a commit of both sides, which is HEAD.
Joins(r, s) ==
    /\ HeadOid(s) \in 1..Len(s.commits) /\ HeadOid(s) >= 2
    /\ s.commits[HeadOid(s)].parents = <<HeadOid(r), r.doing.other>>

LEMMA CommitIndexEnds ==
    ASSUME NEW r, Good(r), NEW out, out = CommitIndex(r)
    PROVE  /\ Ends(r, out) /\ (out.result = "refused" => out.repo = r)
           /\ out.repo.doing = r.doing \/ (r.doing.what = "merge" /\ Joins(r, out.repo))
<1>1. CASE NothingToCommit(r)
  BY <1>1, RefusedEnds DEF CommitIndex, Plain
<1>2. CASE ~NothingToCommit(r) /\ r.doing.what = "merge"
  <2> DEFINE parents == <<HeadOid(r), r.doing.other>>
             s == Finished(r, parents)
  <2>1. parents \in Seq(1..Len(r.commits)) /\ Len(r.commits) \in Nat
        /\ HeadOid(r) \in 1..Len(r.commits)
    BY <1>2, MergeParents, HeadTreeType
  <2>2. out = Done(s)
    BY <1>2 DEF CommitIndex, Finished
  <2> HIDE DEF parents
  <2>3. /\ Keeps(r, s) /\ HeadOid(s) = Len(r.commits) + 1 /\ Len(s.commits) = Len(r.commits) + 1
        /\ s.commits[Len(r.commits) + 1].parents = parents
    BY <2>1, CommittedAndDone
  <2> HIDE DEF s
  <2>4. Joins(r, s)
    BY <2>1, <2>3 DEF Joins, parents
  <2> QED BY <1>2, <2>2, <2>3, <2>4, DoneEnds
<1>3. CASE ~NothingToCommit(r) /\ r.doing.what # "merge"
  <2> DEFINE s == Committed(r, <<HeadOid(r)>>)
  <2>1. out = Done(s)
    BY <1>3 DEF CommitIndex
  <2>2. Keeps(r, s) /\ SameFiles(r, s)
    BY MergeParents, CommittedKeeps
  <2> HIDE DEF s
  <2> QED BY <2>1, <2>2, DoneEnds DEF SameFiles
<1> QED BY <1>1, <1>2, <1>3

LEMMA AmendCommitEnds ==
    ASSUME NEW r, Good(r), NEW out, out = AmendCommit(r)
    PROVE  Ends(r, out) /\ Plain(r, out)
<1>1. CASE NothingToCommit(r) \/ r.doing.what = "rebase"
  BY <1>1, RefusedEnds DEF AmendCommit
<1>2. CASE ~(NothingToCommit(r) \/ r.doing.what = "rebase")
  <2> DEFINE s == Committed(r, r.commits[HeadOid(r)].parents)
  <2>1. out = Done(s)
    BY <1>2 DEF AmendCommit
  <2>2. Keeps(r, s) /\ SameFiles(r, s)
    BY MergeParents, CommittedKeeps
  <2> HIDE DEF s
  <2> QED BY <2>1, <2>2, DoneEnds DEF SameFiles
<1> QED BY <1>1, <1>2

LEMMA FinishMergeCommitEnds ==
    ASSUME NEW r, Good(r), r.doing.what = "merge", NEW out, out = FinishMergeCommit(r)
    PROVE  Ends(r, out) /\ out.result = "done" /\ Joins(r, out.repo)
<1> DEFINE parents == <<HeadOid(r), r.doing.other>>
           s == Finished(r, parents)
<1>1. parents \in Seq(1..Len(r.commits)) /\ Len(r.commits) \in Nat
      /\ HeadOid(r) \in 1..Len(r.commits)
  BY MergeParents, HeadTreeType
<1>2. out = Done(s)
  BY DEF FinishMergeCommit, Finished
<1> HIDE DEF parents
<1>3. /\ Keeps(r, s) /\ HeadOid(s) = Len(r.commits) + 1 /\ Len(s.commits) = Len(r.commits) + 1
      /\ s.commits[Len(r.commits) + 1].parents = parents
  BY <1>1, CommittedAndDone
<1> HIDE DEF s
<1>4. Joins(r, s)
  BY <1>1, <1>3 DEF Joins, parents
<1> QED BY <1>2, <1>3, <1>4, DoneEnds

LEMMA RunContinueEnds ==
    ASSUME NEW r, Good(r), NEW out, out = RunContinue(r)
    PROVE  Ends(r, out) /\ (out.result = "refused" => out.repo = r)
<1>1. CASE r.index = HeadTree(r)
  BY <1>1, RefusedEnds DEF RunContinue, Plain
<1>2. CASE r.index # HeadTree(r)
  <2> DEFINE s == Finished(r, <<HeadOid(r)>>)
  <2>1. out = Done(s)
    BY <1>2 DEF RunContinue, Finished
  <2>2. Keeps(r, s)
    BY MergeParents, CommittedAndDone
  <2> HIDE DEF s
  <2> QED BY <2>1, <2>2, DoneEnds
<1> QED BY <1>1, <1>2

\* What a refused operation may leave: other references, nothing else.
Harmless(r, s) ==
    /\ s.commits = r.commits /\ s.branch = r.branch /\ s.at = r.at /\ s.server = r.server
    /\ SameFiles(r, s)

\* No branch moves, here or on the server, though one may come or go here.
Steady(r, s) ==
    /\ s.server = r.server
    /\ \A b \in Branch : r.refs[b] = 0 \/ s.refs[b] \in {0, r.refs[b]}

LEMMA SteadyBy ==
    ASSUME NEW r, NEW s, s.server = r.server,
           s.refs = r.refs \/ \A n \in Ref : r.refs[n] = 0 \/ s.refs[n] \in {0, r.refs[n]}
    PROVE  Steady(r, s)
BY DEF Steady, Ref

LEMMA HarmlessSame == ASSUME NEW r PROVE Harmless(r, r)
BY DEF Harmless, SameFiles

\* Another branch checked out, which is where the files are now.
LEMMA BranchChange ==
    ASSUME NEW r, Good(r), NEW s \in Repository, SameFiles(r, s),
           s.commits = r.commits, s.refs = r.refs, s.server = r.server,
           HeadOid(s) \in 1..Len(r.commits)
    PROVE  Keeps(r, s) /\ Good(s)
<1>1. RefsOK(s) /\ HeadOK(s)
  BY DEF Good, RefsOK, HeadOK
<1> QED BY <1>1, HeadChange DEF Keeps, Follows

LEMMA CheckoutCommitEnds ==
    ASSUME NEW r, Good(r), NEW c \in 1..Len(r.commits), NEW out, out = CheckoutCommit(r, c)
    PROVE  /\ Ends(r, out) /\ Plain(r, out) /\ Good(out.repo)
           /\ out.repo.commits = r.commits /\ out.result \in {"done", "refused"}
           /\ out.repo.refs = r.refs /\ out.repo.server = r.server
           /\ out.result = "done" => out.repo.branch = None /\ out.repo.at = c
<1> DEFINE safe == CheckoutSafe(r, HeadTree(r), Tree(r, c))
           s    == [safe.repo EXCEPT !.branch = None, !.at = c]
<1>1. /\ HeadTree(r) \in Contents /\ Tree(r, c) \in Contents /\ c \in Nat
      /\ \A f \in Path : HeadTree(r)[f] \subseteq Recorded(r)
  BY HeadTreeType, Places
<1>2. /\ safe.result \in {"done", "refused"}
      /\ safe.result = "refused" => safe.repo = r
      /\ Keeps(r, safe.repo) /\ SameHistory(r, safe.repo) /\ safe.repo.doing = r.doing
  BY <1>1, CheckoutSafeKeeps
<1>3. out = IF safe.result = "refused" THEN safe ELSE Done(s)
  BY DEF CheckoutCommit
<1> HIDE DEF safe
<1>4. CASE safe.result = "refused"
  BY <1>2, <1>3, <1>4 DEF Ends, Plain, Result, Keeps, Follows, SameHistory
<1>5. CASE safe.result = "done"
  <2>1. /\ Good(safe.repo) /\ safe.repo.commits = r.commits
        /\ safe.repo.refs = r.refs /\ safe.repo.server = r.server
    BY <1>2 DEF Keeps, Follows, SameHistory
  <2>2. /\ s \in Repository /\ SameFiles(safe.repo, s) /\ s.commits = safe.repo.commits
        /\ s.refs = safe.repo.refs /\ s.server = safe.repo.server
        /\ s.branch = None /\ s.at = c /\ HeadOid(s) = c
    BY <1>1, <2>1 DEF Good, Repository, SameFiles, HeadOid
  <2> HIDE DEF s
  <2>9. Keeps(safe.repo, s) /\ Good(s)
    BY <2>1, <2>2, BranchChange
  <2>3. Keeps(r, s) /\ s.doing = r.doing
    BY <1>2, <2>2, <2>9, KeepsOn DEF SameFiles
  <2>4. out = Done(s)
    BY <1>3, <1>5
  <2> QED BY <2>1, <2>2, <2>9, <2>3, <2>4, DoneEnds
<1> QED BY <1>2, <1>4, <1>5

\* Another place for a reference that HEAD is not on, or that leaves HEAD on a commit.
LEMMA RefsChange ==
    ASSUME NEW r, Good(r), NEW s \in Repository, Harmless(r, s),
           s.refs \in [Ref -> 0..Len(r.commits)],
           r.branch # None => s.refs[r.branch] # 0
    PROVE  Keeps(r, s) /\ Good(s)
<1>1. \A n \in Ref : s.refs[n] \in Nat /\ s.refs[n] <= Len(r.commits)
  BY DEF Good, Repository
<1>2. s.commits = r.commits /\ SameFiles(r, s)
  BY DEF Harmless
<1>3. RefsOK(s)
  BY <1>1 DEF Good, RefsOK, Harmless
<1>4. HeadOK(s)
  <2>1. CASE r.branch = None
    BY <2>1 DEF Good, HeadOK, HeadOid, Harmless
  <2>2. CASE r.branch # None
    <3>1. r.branch \in Ref
      BY <2>2 DEF Good, Repository, Ref
    <3> QED BY <1>1, <2>2, <3>1 DEF HeadOK, HeadOid, Harmless
  <2> QED BY <2>1, <2>2
<1> QED BY <1>2, <1>3, <1>4, HeadChange DEF Keeps, Follows

LEMMA NatRefs == ASSUME NEW n PROVE [Ref -> 0..n] \subseteq [Ref -> Nat]
OBVIOUS

LEMMA RefsType ==
    ASSUME NEW r, Good(r)
    PROVE  /\ r.refs \in [Ref -> 0..Len(r.commits)] /\ r.server \in [Remote -> 0..Len(r.commits)]
           /\ r.upstream \in [Branch -> Remote \cup {None}] /\ r.branch \in Branch \cup {None}
           /\ r.branch # None => r.branch \in Branch /\ r.refs[r.branch] # 0
           /\ Branch \subseteq Ref /\ Remote \subseteq Ref /\ Tag \subseteq Ref
<1>1. \A n \in Ref : r.refs[n] \in 0..Len(r.commits)
  BY DEF Good, Repository, RefsOK
<1>2. \A m \in Remote : r.server[m] \in 0..Len(r.commits)
  BY DEF Good, Repository, RefsOK
<1>3. r.refs \in [Ref -> 0..Len(r.commits)] /\ r.server \in [Remote -> 0..Len(r.commits)]
  BY <1>1, <1>2 DEF Good, Repository
<1>4. r.branch # None => r.branch \in Branch /\ r.refs[r.branch] # 0
  BY DEF Good, Repository, HeadOK, HeadOid
<1> QED BY <1>3, <1>4 DEF Good, Repository, Ref

LEMMA CheckoutBranchEnds ==
    ASSUME NEW r, Good(r), NEW name \in Branch \cup Remote, NEW out, out = CheckoutBranch(r, name)
    PROVE  /\ Ends(r, out) /\ out.repo.doing = r.doing
           /\ out.result = "refused" => Harmless(r, out.repo)
           /\ Steady(r, out.repo)
<1> DEFINE local  == IF name \in Remote THEN LocalName[name] ELSE name
           target == r.refs[name]
           made   == IF name \in Remote
                     THEN [r EXCEPT !.refs[local] = target, !.upstream[local] = name] ELSE r
           safe   == CheckoutSafe(made, HeadTree(r), Tree(r, target))
           s      == [safe.repo EXCEPT !.branch = local]
<1>1. CASE \/ target = 0
           \/ name \in Remote /\ r.refs[local] # 0
           \/ r.branch = local
  <2>1. out = Refused(r)
    BY <1>1 DEF CheckoutBranch
  <2> QED BY <2>1, RefusedEnds, HarmlessSame, SteadyBy DEF Plain, Refused, Outcome
<1>2. CASE ~(\/ target = 0
             \/ name \in Remote /\ r.refs[local] # 0
             \/ r.branch = local)
  <2>1. local \in Branch /\ target \in 1..Len(r.commits) /\ r.branch # local /\ name \in Ref
    <3>1. name \in Ref /\ local \in Branch
      BY GitOperationsAssumption DEF GitOperationsAssumption, Ref
    <3>2. target \in 0..Len(r.commits) /\ Len(r.commits) \in Nat
      BY <3>1, RefsType, HeadTreeType
    <3> QED BY <1>2, <3>1, <3>2
  <2>2. out = IF safe.result = "refused" THEN safe ELSE Done(s)
    BY <1>2 DEF CheckoutBranch
  <2>3. /\ Keeps(r, made) /\ Good(made) /\ Harmless(r, made) /\ made.refs[local] = target
        /\ Steady(r, made)
    <3>1. CASE name \in Remote
      <4> DEFINE refs     == [r.refs EXCEPT ![local] = target]
                 upstream == [r.upstream EXCEPT ![local] = name]
      <4>1. local \in Ref
        BY <2>1, RefsType
      <4>2. /\ refs \in [Ref -> 0..Len(r.commits)] /\ refs[local] = target
            /\ \A n \in Ref : n # local => refs[n] = r.refs[n]
            /\ upstream \in [Branch -> Remote \cup {None}]
        BY <2>1, <3>1, <4>1, RefsType
      <4>3. r.branch # None => refs[r.branch] # 0
        BY <2>1, <4>2, RefsType
      <4>4. made = [r EXCEPT !.refs = refs, !.upstream = upstream]
        BY <3>1
      <4> HIDE DEF refs, upstream
      <4>5. made \in Repository /\ Harmless(r, made) /\ made.refs = refs
        BY <4>2, <4>4, NatRefs DEF Good, Repository, Harmless, SameFiles
      <4> HIDE DEF made
      <4>6. Steady(r, made)
        BY <1>2, <3>1, <4>2, <4>5, SteadyBy DEF Harmless
      <4> QED BY <4>2, <4>3, <4>5, <4>6, RefsChange
    <3>2. CASE name \notin Remote
      <4>1. made = r /\ local = name
        BY <3>2
      <4> QED BY <4>1, KeepsSame, HarmlessSame, SteadyBy
    <3> QED BY <3>1, <3>2
  <2> HIDE DEF made
  <2>4. /\ HeadTree(r) \in Contents /\ Tree(r, target) \in Contents
        /\ \A f \in Path : HeadTree(r)[f] \subseteq Recorded(made)
    <3>1. \A f \in Path : HeadTree(r)[f] \subseteq Recorded(r)
      BY Places
    <3>2. Recorded(made) = Recorded(r)
      BY <2>3 DEF Harmless, Recorded, Edits, Tree
    <3> QED BY <2>1, <3>1, <3>2, HeadTreeType
  <2>5. /\ safe.result \in {"done", "refused"}
        /\ safe.result = "refused" => safe.repo = made
        /\ Keeps(made, safe.repo) /\ SameHistory(made, safe.repo)
        /\ safe.repo.doing = made.doing
    BY <2>3, <2>4, CheckoutSafeKeeps
  <2> HIDE DEF safe, target, local
  <2>6. /\ Keeps(r, safe.repo) /\ safe.repo.doing = r.doing /\ Good(safe.repo)
        /\ safe.repo.refs = made.refs /\ safe.repo.server = made.server
    BY <2>3, <2>5, KeepsOn DEF Harmless, SameFiles, SameHistory, Keeps, Follows
  <2>7. CASE safe.result = "refused"
    BY <2>2, <2>3, <2>5, <2>6, <2>7 DEF Ends, Result
  <2>8. CASE safe.result = "done"
    <3>1. /\ safe.repo.commits = r.commits /\ safe.repo.refs[local] = target
          /\ safe.repo.at \in Nat /\ local # None
      BY <2>1, <2>3, <2>5, <2>6, GitOperationsAssumption
         DEF SameHistory, Harmless, Good, Repository, GitOperationsAssumption, Ref
    <3>2. /\ s \in Repository /\ SameFiles(safe.repo, s) /\ s.commits = safe.repo.commits
          /\ s.refs = safe.repo.refs /\ s.server = safe.repo.server /\ s.branch = local
      BY <2>1, <2>6 DEF Good, Repository, SameFiles
    <3> HIDE DEF s
    <3>3. Keeps(safe.repo, s)
      BY <2>1, <2>6, <3>1, <3>2, BranchChange DEF HeadOid
    <3>4. Keeps(r, s) /\ s.doing = r.doing
      BY <2>6, <3>2, <3>3, KeepsOn DEF SameFiles
    <3>5. out = Done(s)
      BY <2>2, <2>8
    <3>6. Steady(r, s)
      BY <2>3, <2>6, <3>2 DEF Steady
    <3> QED BY <3>4, <3>5, <3>6, DoneEnds
  <2> QED BY <2>5, <2>7, <2>8
<1> QED BY <1>1, <1>2

LEMMA CheckoutTagEnds ==
    ASSUME NEW r, Good(r), NEW name \in Tag, NEW out, out = CheckoutTag(r, name)
    PROVE  Ends(r, out) /\ Plain(r, out) /\ Steady(r, out.repo)
<1>1. CASE r.refs[name] = 0
  BY <1>1, RefusedEnds, SteadyBy DEF CheckoutTag, Refused, Outcome
<1>2. CASE r.refs[name] # 0
  <2>1. r.refs[name] \in 1..Len(r.commits)
    <3>1. r.refs[name] \in 0..Len(r.commits) /\ Len(r.commits) \in Nat
      BY RefsType, HeadTreeType
    <3> QED BY <1>2, <3>1
  <2> QED BY <1>2, <2>1, CheckoutCommitEnds, SteadyBy DEF CheckoutTag
<1> QED BY <1>1, <1>2

LEMMA CreateRefEnds ==
    ASSUME NEW r, Good(r), NEW name \in Ref, NEW c \in 1..Len(r.commits),
           NEW out, out = CreateRef(r, name, c)
    PROVE  Ends(r, out) /\ Plain(r, out) /\ Steady(r, out.repo)
<1> DEFINE refs == [r.refs EXCEPT ![name] = c]
           s    == [r EXCEPT !.refs = refs]
<1>1. CASE r.refs[name] # 0
  BY <1>1, RefusedEnds, SteadyBy DEF CreateRef, Refused, Outcome
<1>2. CASE r.refs[name] = 0
  <2>1. out = Done(s)
    BY <1>2 DEF CreateRef
  <2>2. /\ refs \in [Ref -> 0..Len(r.commits)]
        /\ \A n \in Ref : refs[n] = IF n = name THEN c ELSE r.refs[n]
    <3>1. c \in 0..Len(r.commits)
      BY HeadTreeType
    <3> QED BY <3>1, RefsType
  <2>3. r.branch # None => refs[r.branch] # 0
    BY <1>2, <2>2, RefsType
  <2> HIDE DEF refs
  <2>4. s \in Repository /\ Harmless(r, s) /\ s.refs = refs
    BY <2>2, NatRefs DEF Good, Repository, Harmless, SameFiles
  <2> HIDE DEF s
  <2>5. Steady(r, s)
    BY <1>2, <2>2, <2>4, SteadyBy DEF Harmless
  <2> QED BY <2>1, <2>2, <2>3, <2>4, <2>5, RefsChange, DoneEnds DEF Harmless, SameFiles
<1> QED BY <1>1, <1>2

LEMMA CreateBranchEnds ==
    ASSUME NEW r, Good(r), NEW name \in Branch, NEW c \in 0..Len(r.commits),
           NEW out, out = CreateBranch(r, name, c)
    PROVE  Ends(r, out) /\ Plain(r, out) /\ Steady(r, out.repo)
<1>1. (IF c = 0 THEN HeadOid(r) ELSE c) \in 1..Len(r.commits) /\ name \in Ref
  BY HeadTreeType, RefsType
<1> QED BY <1>1, CreateRefEnds DEF CreateBranch

LEMMA DeleteBranchEnds ==
    ASSUME NEW r, Good(r), NEW name \in Branch, NEW out, out = DeleteBranch(r, name)
    PROVE  Ends(r, out) /\ Plain(r, out) /\ Steady(r, out.repo)
<1> DEFINE refs     == [r.refs EXCEPT ![name] = 0]
           upstream == [r.upstream EXCEPT ![name] = None]
           s        == [r EXCEPT !.refs = refs, !.upstream = upstream]
<1>1. CASE r.refs[name] = 0 \/ r.branch = name
  BY <1>1, RefusedEnds, SteadyBy DEF DeleteBranch, Refused, Outcome
<1>2. CASE ~(r.refs[name] = 0 \/ r.branch = name)
  <2>1. out = Done(s)
    BY <1>2 DEF DeleteBranch
  <2>2. /\ refs \in [Ref -> 0..Len(r.commits)] /\ upstream \in [Branch -> Remote \cup {None}]
        /\ \A n \in Ref : refs[n] = IF n = name THEN 0 ELSE r.refs[n]
    <3>1. 0 \in 0..Len(r.commits) /\ name \in Ref
      BY HeadTreeType, RefsType
    <3> QED BY <3>1, RefsType
  <2>3. r.branch # None => refs[r.branch] # 0
    BY <1>2, <2>2, RefsType
  <2> HIDE DEF refs, upstream
  <2>4. s \in Repository /\ Harmless(r, s) /\ s.refs = refs
    BY <2>2, NatRefs DEF Good, Repository, Harmless, SameFiles
  <2> HIDE DEF s
  <2>5. Steady(r, s)
    BY <2>2, <2>4, SteadyBy DEF Harmless
  <2> QED BY <2>1, <2>2, <2>3, <2>4, <2>5, RefsChange, DoneEnds DEF Harmless, SameFiles
<1> QED BY <1>1, <1>2

LEMMA DeleteTagEnds ==
    ASSUME NEW r, Good(r), NEW name \in Tag, NEW out, out = DeleteTag(r, name)
    PROVE  Ends(r, out) /\ Plain(r, out) /\ Steady(r, out.repo)
<1> DEFINE refs == [r.refs EXCEPT ![name] = 0]
           s    == [r EXCEPT !.refs = refs]
<1>1. CASE r.refs[name] = 0
  BY <1>1, RefusedEnds, SteadyBy DEF DeleteTag, Refused, Outcome
<1>2. CASE r.refs[name] # 0
  <2>1. out = Done(s)
    BY <1>2 DEF DeleteTag
  <2>2. /\ refs \in [Ref -> 0..Len(r.commits)]
        /\ \A n \in Ref : refs[n] = IF n = name THEN 0 ELSE r.refs[n]
    <3>1. 0 \in 0..Len(r.commits) /\ name \in Ref
      BY HeadTreeType, RefsType
    <3> QED BY <3>1, RefsType
  <2>3. r.branch # None => refs[r.branch] # 0
    <3>1. name \notin Branch
      BY GitOperationsAssumption DEF GitOperationsAssumption
    <3> QED BY <2>2, <3>1, RefsType
  <2> HIDE DEF refs
  <2>4. s \in Repository /\ Harmless(r, s) /\ s.refs = refs
    BY <2>2, NatRefs DEF Good, Repository, Harmless, SameFiles
  <2> HIDE DEF s
  <2>5. Steady(r, s)
    BY <2>2, <2>4, SteadyBy DEF Harmless
  <2> QED BY <2>1, <2>2, <2>3, <2>4, <2>5, RefsChange, DoneEnds DEF Harmless, SameFiles
<1> QED BY <1>1, <1>2

\* HEAD goes with the branch that is renamed.
LEMMA RenameBranchEnds ==
    ASSUME NEW r, Good(r), NEW old \in Branch, NEW new \in Branch,
           NEW out, out = RenameBranch(r, old, new)
    PROVE  Ends(r, out) /\ Plain(r, out) /\ Steady(r, out.repo)
<1> DEFINE refs     == [[r.refs EXCEPT ![old] = 0] EXCEPT ![new] = r.refs[old]]
           upstream == [[r.upstream EXCEPT ![old] = None] EXCEPT ![new] = r.upstream[old]]
           branch   == IF r.branch = old THEN new ELSE r.branch
           s        == [r EXCEPT !.refs[old] = 0, !.refs[new] = r.refs[old],
                                 !.upstream[old] = None, !.upstream[new] = r.upstream[old],
                                 !.branch = IF @ = old THEN new ELSE @]
<1>1. CASE r.refs[old] = 0 \/ r.refs[new] # 0
  BY <1>1, RefusedEnds, SteadyBy DEF RenameBranch, Refused, Outcome
<1>2. CASE ~(r.refs[old] = 0 \/ r.refs[new] # 0)
  <2>1. out = Done(s)
    BY <1>2 DEF RenameBranch
  <2>2. /\ refs \in [Ref -> 0..Len(r.commits)] /\ upstream \in [Branch -> Remote \cup {None}]
        /\ \A n \in Ref : refs[n] = IF n = new THEN r.refs[old]
                                   ELSE IF n = old THEN 0 ELSE r.refs[n]
        /\ branch \in Branch \cup {None} /\ old # new
    <3>1. /\ 0 \in 0..Len(r.commits) /\ old \in Ref /\ new \in Ref
          /\ r.refs[old] \in 0..Len(r.commits) /\ r.upstream[old] \in Remote \cup {None}
      BY HeadTreeType, RefsType
    <3>2. refs \in [Ref -> 0..Len(r.commits)] /\ upstream \in [Branch -> Remote \cup {None}]
      BY <3>1, RefsType
    <3>3. \A n \in Ref : refs[n] = IF n = new THEN r.refs[old]
                                   ELSE IF n = old THEN 0 ELSE r.refs[n]
      BY <3>1, RefsType
    <3> QED BY <1>2, <3>2, <3>3, RefsType
  <2>3. /\ s \in Repository /\ s.commits = r.commits /\ SameFiles(r, s) /\ s.refs = refs
        /\ s.server = r.server /\ s.branch = branch /\ s.at = r.at
    <3>1. s = [r EXCEPT !.refs = refs, !.upstream = upstream, !.branch = branch]
      BY DEF Good, Repository
    <3> HIDE DEF refs, upstream, branch, s
    <3> QED BY <2>2, <3>1, NatRefs DEF Good, Repository, SameFiles
  <2> HIDE DEF refs, s
  <2>4. RefsOK(s)
    <3>1. \A n \in Ref : refs[n] <= Len(r.commits)
      BY <2>2
    <3> QED BY <2>3, <3>1 DEF RefsOK, Good
  <2>5. HeadOK(s)
    <3>1. Branch \subseteq Ref /\ HeadOid(r) \in 1..Len(r.commits) /\ new # None
      BY RefsType, HeadTreeType, GitOperationsAssumption DEF GitOperationsAssumption, Ref
    <3>2. CASE r.branch = None
      BY <2>3, <3>1, <3>2, GitOperationsAssumption
         DEF HeadOK, HeadOid, Ref, GitOperationsAssumption
    <3>3. CASE r.branch = old
      BY <1>2, <2>2, <2>3, <3>1, <3>3, GitOperationsAssumption
         DEF HeadOK, HeadOid, Ref, GitOperationsAssumption
    <3>4. CASE r.branch # None /\ r.branch # old
      <4>1. r.branch # new /\ r.branch \in Ref
        BY <1>2, <3>4, RefsType
      <4> QED BY <2>2, <2>3, <3>1, <3>4, <4>1 DEF HeadOK, HeadOid
    <3> QED BY <3>2, <3>3, <3>4
  <2>6. Keeps(r, s)
    BY <2>3, <2>4, <2>5, HeadChange
  <2>7. Steady(r, s)
    BY <1>2, <2>2, <2>3, SteadyBy
  <2> QED BY <2>1, <2>3, <2>6, <2>7, DoneEnds DEF SameFiles
<1> QED BY <1>1, <1>2

LEMMA StashSaveEnds ==
    ASSUME NEW r, Good(r), NEW out, out = StashSave(r)
    PROVE  Ends(r, out) /\ Plain(r, out)
BY StashedKeeps DEF StashSave, Ends, Plain, Result

LEMMA LenientEnds ==
    ASSUME NEW r, NEW out, Ends(r, out), Plain(r, out)
    PROVE  Ends(r, Lenient(out)) /\ Plain(r, Lenient(out))
BY DEF Lenient, Ends, Plain, Done, Outcome, Result

LEMMA StashApplyEnds ==
    ASSUME NEW r, Good(r), NEW i \in Nat \ {0}, NEW out, out = StashApply(r, i)
    PROVE  Ends(r, out) /\ Plain(r, out)
<1>1. Ends(r, Unstashed(r, i)) /\ Plain(r, Unstashed(r, i))
  BY UnstashedKeeps DEF Ends, Plain, Result
<1> QED BY <1>1, LenientEnds DEF StashApply

\* What was applied and then dropped is all there still.
LEMMA AppliedAndDropped ==
    ASSUME NEW r, Good(r), NEW i \in Nat \ {0}, NEW out, out = Unstashed(r, i),
           out.result = "done", NEW s, s = Dropped(out.repo, i)
    PROVE  Keeps(r, s) /\ SameHistory(r, s) /\ s.doing = r.doing
<1>1. /\ Keeps(r, out.repo) /\ Good(out.repo) /\ SameHistory(r, out.repo)
      /\ out.repo.doing = r.doing /\ out.repo.stashes = r.stashes
      /\ i \in 1..Len(r.stashes)
      /\ \A f \in Path : r.stashes[i].tree[f] \subseteq
             out.repo.work[f] \cup out.repo.index[f] \cup Recorded(out.repo)
  BY UnstashedKeeps
<1>2. Keeps(out.repo, s) /\ SameHistory(out.repo, s) /\ s.doing = out.repo.doing
  BY <1>1, DroppedFollows
<1> QED BY <1>1, <1>2, KeepsOn DEF SameHistory

LEMMA StashPopEnds ==
    ASSUME NEW r, Good(r), NEW i \in Nat \ {0}, NEW out, out = StashPop(r, i)
    PROVE  Ends(r, out) /\ Plain(r, out)
<1> DEFINE back == Unstashed(r, i)
<1>1. Ends(r, back) /\ Plain(r, back)
  BY UnstashedKeeps DEF Ends, Plain, Result
<1>2. CASE back.result = "done"
  <2>1. out = Done(Dropped(back.repo, i))
    BY <1>2 DEF StashPop
  <2> QED BY <1>2, <2>1, AppliedAndDropped, DoneEnds
<1>3. CASE back.result # "done"
  <2>1. out = Lenient(back)
    BY <1>3 DEF StashPop
  <2> QED BY <1>1, <2>1, LenientEnds
<1> QED BY <1>2, <1>3

LEMMA StashDropThrows ==
    ASSUME NEW r, Good(r), NEW i \in Nat \ {0}, NEW out, out = StashDrop(r, i)
    PROVE  Throws(r, out) /\ Plain(r, out)
<1>1. CASE i > Len(r.stashes)
  BY <1>1, RefusedEnds DEF StashDrop, Ends, Throws, Keeps
<1>2. CASE i <= Len(r.stashes)
  <2>1. Len(r.stashes) \in Nat
    BY DEF Good, Repository
  <2>2. i \in 1..Len(r.stashes) /\ ~(i > Len(r.stashes))
    BY <1>2, <2>1
  <2> QED BY <2>2, DroppedFollows, DoneEnds DEF StashDrop
<1>3. Len(r.stashes) \in Nat
  BY DEF Good, Repository
<1> QED BY <1>1, <1>2, <1>3

\* The new branch is where the stash was made, whatever becomes of the stash.
LEMMA StashBranchEnds ==
    ASSUME NEW r, Good(r), NEW name \in Branch, NEW i \in Nat \ {0},
           NEW out, out = StashBranch(r, name, i)
    PROVE  /\ Ends(r, out) /\ out.repo.doing = r.doing
           /\ Steady(r, out.repo)
<1> DEFINE moved == [r EXCEPT !.refs[name] = r.stashes[i].base, !.branch = name]
           back  == Unstashed(moved, i)
<1>0. Len(r.stashes) \in Nat
  BY DEF Good, Repository
<1>1. CASE i > Len(r.stashes) \/ r.refs[name] # 0
  BY <1>1, RefusedEnds, SteadyBy DEF StashBranch, Plain, Refused, Outcome
<1>2. CASE ~(i > Len(r.stashes) \/ r.refs[name] # 0)
  <2>1. r.stashes[i].base \in 1..Len(r.commits) /\ name \in Ref /\ name # None
    <3>1. i \in 1..Len(r.stashes)
      BY <1>0, <1>2
    <3> QED BY <3>1, RefsType, GitOperationsAssumption
            DEF Good, StashesOK, GitOperationsAssumption
  <2>2. /\ Keeps(r, moved) /\ Good(moved) /\ moved.doing = r.doing
        /\ Steady(r, moved)
    <3> DEFINE refs == [r.refs EXCEPT ![name] = r.stashes[i].base]
    <3>1. r.stashes[i].base \in 0..Len(r.commits)
      BY <2>1
    <3>2. /\ refs \in [Ref -> 0..Len(r.commits)]
          /\ refs[name] = r.stashes[i].base
          /\ \A n \in Ref : r.refs[n] = 0 \/ refs[n] = r.refs[n]
          /\ \A n \in Ref : refs[n] \in 0..Len(r.commits)
      BY <1>2, <2>1, <3>1, RefsType
    <3>3. moved = [r EXCEPT !.refs = refs, !.branch = name]
      OBVIOUS
    <3> HIDE DEF refs, moved
    <3>4. /\ moved \in Repository /\ moved.commits = r.commits /\ SameFiles(r, moved)
          /\ moved.refs = refs /\ moved.server = r.server /\ moved.branch = name
      BY <3>2, <3>3, NatRefs DEF Good, Repository, SameFiles
    <3>5. RefsOK(moved)
      BY <3>2, <3>4 DEF RefsOK, Good
    <3>6. HeadOK(moved)
      BY <2>1, <3>2, <3>4 DEF HeadOK, HeadOid
    <3>7. Steady(r, moved)
      BY <3>2, <3>4, SteadyBy
    <3> QED BY <3>4, <3>5, <3>6, <3>7, HeadChange DEF Keeps, Follows, SameFiles
  <2>3. out = IF back.result = "refused" THEN back ELSE Done(Dropped(back.repo, i))
    BY <1>2 DEF StashBranch
  <2> HIDE DEF moved
  <2>4. CASE back.result = "refused"
    <3>1. back.repo = moved
      BY <2>2, <2>4, UnstashedKeeps
    <3> QED BY <2>2, <2>3, <2>4, <3>1 DEF Ends, Result
  <2>5. CASE back.result = "done"
    <3> DEFINE s == Dropped(back.repo, i)
    <3>1. Keeps(moved, s) /\ s.doing = moved.doing /\ SameHistory(moved, s)
      BY <2>2, <2>5, AppliedAndDropped
    <3> HIDE DEF s
    <3>2. Keeps(r, s) /\ s.doing = r.doing /\ Steady(r, s)
      BY <2>2, <3>1, KeepsOn DEF SameHistory, Steady
    <3>3. out = Done(s)
      BY <2>3, <2>5 DEF s
    <3> QED BY <3>2, <3>3, DoneEnds
  <2>6. back.result \in {"done", "refused"}
    BY <2>2, UnstashedKeeps
  <2> QED BY <2>4, <2>5, <2>6
<1> QED BY <1>1, <1>2

-----------------------------------------------------------------------------
(* The recursive functions *)

\* A set of natural numbers with a member has a least one.
LEMMA LeastNatural ==
    ASSUME NEW T \in SUBSET Nat, T # {}
    PROVE  \E m \in T : \A n \in T : m <= n
<1>1. PICK m \in T : \A n \in T : ~(<<n, m>> \in OpToRel(<, Nat))
  BY NatLessThanWellFounded, WFMin, Zenon
<1>2. ASSUME NEW n \in T PROVE m <= n
  <2>1. ~(n < m)
    BY <1>1 DEF OpToRel
  <2> QED BY <2>1
<1> QED BY <1>2

Steps(S, N) == [1..N -> [S -> S]]
Runs(f, S, N, first, next) ==
    f \in [0..N -> S] /\ f[0] = first /\ \A k \in 1..N : f[k] = next[k][f[k - 1]]

\* A function that starts with `first` and goes on by `next` exists, and stays in the set that
\* `next` stays in.
LEMMA RecursionExists ==
    ASSUME NEW S, NEW first \in S, NEW N \in Nat, NEW next \in Steps(S, N)
    PROVE  \E f : Runs(f, S, N, first, next)
<1> DEFINE Upto(n) == \E f \in [0..n -> S] :
                         f[0] = first /\ \A k \in 1..n : f[k] = next[k][f[k - 1]]
           missing == {n \in 0..N : ~Upto(n)}
<1>0. N \in 0..N /\ (Upto(N) => \E f : Runs(f, S, N, first, next))
  BY DEF Runs
<1> HIDE DEF Upto
<1>1. CASE missing = {}
  BY <1>0, <1>1
<1>2. CASE missing # {}
  <2>1. PICK m \in missing : \A n \in missing : m <= n
    <3>1. missing \in SUBSET Nat
      OBVIOUS
    <3> QED BY <1>2, <3>1, LeastNatural
  <2>2. CASE m = 0
    <3> DEFINE g == [k \in 0..0 |-> first]
    <3>1. g \in [0..0 -> S] /\ g[0] = first /\ \A k \in 1..0 : g[k] = next[k][g[k - 1]]
      OBVIOUS
    <3> HIDE DEF g
    <3>2. Upto(0)
      BY <3>1 DEF Upto
    <3> QED BY <2>1, <2>2, <3>2
  <2>3. CASE m # 0
    <3>1. m \in 1..N /\ m - 1 \in 0..N /\ ~(m <= m - 1)
      BY <2>3
    <3>2. Upto(m - 1)
      BY <2>1, <3>1
    <3>3. PICK f \in [0..(m - 1) -> S] :
             f[0] = first /\ \A k \in 1..(m - 1) : f[k] = next[k][f[k - 1]]
      BY <3>2 DEF Upto
    <3> DEFINE g == [k \in 0..m |-> IF k = m THEN next[m][f[m - 1]] ELSE f[k]]
    <3>4. next[m][f[m - 1]] \in S
      BY <3>1 DEF Steps
    <3>5. g \in [0..m -> S]
      BY <3>1, <3>4
    <3>6. g[0] = first
      BY <3>1, <3>3
    <3>7. \A k \in 1..m : g[k] = next[k][g[k - 1]]
      <4> TAKE k \in 1..m
      <4>1. k - 1 \in 0..m /\ k - 1 # m /\ g[k - 1] = f[k - 1]
        BY <3>1
      <4>2. CASE k = m
        BY <4>1, <4>2
      <4>3. CASE k # m
        <5>1. k \in 1..(m - 1) /\ g[k] = f[k]
          BY <3>1, <4>3
        <5> QED BY <3>3, <4>1, <5>1
      <4> QED BY <4>2, <4>3
    <3> HIDE DEF g
    <3>8. Upto(m)
      BY <3>5, <3>6, <3>7 DEF Upto
    <3> QED BY <2>1, <3>8
  <2> QED BY <2>2, <2>3
<1> QED BY <1>1, <1>2

\* A recursive function stays where it starts.
LEMMA RecursionStays ==
    ASSUME NEW S, NEW N \in Nat, NEW f, f[0] \in S,
           \A k \in 1..N : f[k - 1] \in S => f[k] \in S
    PROVE  \A k \in 0..N : f[k] \in S
<1> DEFINE strays == {n \in 0..N : f[n] \notin S}
<1>1. SUFFICES ASSUME strays # {} PROVE FALSE
  OBVIOUS
<1>2. PICK m \in strays : \A n \in strays : m <= n
  <2>1. strays \in SUBSET Nat
    OBVIOUS
  <2> QED BY <1>1, <2>1, LeastNatural
<1>3. m \in 1..N /\ m - 1 \in 0..N /\ ~(m <= m - 1)
  BY <1>2
<1>4. f[m - 1] \in S
  BY <1>2, <1>3
<1> QED BY <1>2, <1>3, <1>4

\* The sets of commits that are reached from a commit in n steps.
Reaches(f, r, c) ==
    /\ f[0] = {c}
    /\ \A n \in 1..c : f[n] = f[n - 1] \cup UNION {ToSet(r.commits[d].parents) : d \in f[n - 1]}
    /\ \A n \in 0..c : f[n] \subseteq 1..c /\ c \in f[n]
    /\ f[c] = Ancestors(r, c)

LEMMA ReachExists ==
    ASSUME NEW r, NEW c \in Nat \ {0}, \A d \in 1..c : ToSet(r.commits[d].parents) \subseteq 1..c
    PROVE  \E f : Reaches(f, r, c)
<1> DEFINE Older(set) == UNION {ToSet(r.commits[d].parents) : d \in set}
           S == {set \in SUBSET (1..c) : c \in set}
           next == [k \in 1..c |-> [set \in S |-> set \cup Older(set)]]
           reach[n \in 0..c] ==
               IF n = 0 THEN {c}
               ELSE reach[n - 1] \cup UNION {ToSet(r.commits[d].parents) : d \in reach[n - 1]}
<1>1. c \in Nat /\ c >= 1 /\ {c} \in S
  OBVIOUS
<1>2. \A set \in S : set \cup Older(set) \in S
  OBVIOUS
<1>3. next \in Steps(S, c)
  BY <1>2 DEF Steps
<1>4. PICK f \in [0..c -> S] : f[0] = {c} /\ \A k \in 1..c : f[k] = next[k][f[k - 1]]
  <2> HIDE DEF S, next
  <2> QED BY <1>1, <1>3, RecursionExists DEF Runs
<1>5. \A k \in 1..c : f[k] = f[k - 1] \cup Older(f[k - 1])
  <2> TAKE k \in 1..c
  <2>1. k - 1 \in 0..c
    OBVIOUS
  <2> QED BY <1>4, <2>1
<1>6. f = [n \in 0..c |-> IF n = 0 THEN {c}
                          ELSE f[n - 1] \cup UNION {ToSet(r.commits[d].parents) : d \in f[n - 1]}]
  <2>1. \A n \in 0..c : f[n] = IF n = 0 THEN {c} ELSE f[n - 1] \cup Older(f[n - 1])
    BY <1>4, <1>5
  <2> QED BY <1>4, <2>1
<1>7. reach = [n \in 0..c |-> IF n = 0 THEN {c}
                   ELSE reach[n - 1] \cup UNION {ToSet(r.commits[d].parents) : d \in reach[n - 1]}]
  BY <1>6, Zenon
<1>8. Ancestors(r, c) = reach[c]
  BY DEF Ancestors
<1> HIDE DEF reach
<1>9. /\ reach[0] = {c}
      /\ \A n \in 1..c : reach[n - 1] \in S => reach[n] = reach[n - 1] \cup Older(reach[n - 1])
      /\ \A n \in 1..c : reach[n] = reach[n - 1] \cup Older(reach[n - 1])
  <2>1. \A n \in 0..c : reach[n] = IF n = 0 THEN {c} ELSE reach[n - 1] \cup Older(reach[n - 1])
    BY <1>7
  <2>2. 0 \in 0..c /\ \A n \in 1..c : n \in 0..c /\ n # 0
    BY <1>1
  <2> QED BY <2>1, <2>2
<1>10. \A n \in 0..c : reach[n] \in S
  <2> DEFINE f0 == reach
  <2>1. \A k \in 1..c : f0[k - 1] \in S => f0[k] \in S
    BY <1>2, <1>9
  <2>2. f0[0] \in S
    BY <1>1, <1>9
  <2> HIDE DEF f0, S
  <2>3. \A k \in 0..c : f0[k] \in S
    BY <1>1, <2>1, <2>2, RecursionStays
  <2> QED BY <2>3 DEF f0
<1>11. Reaches(reach, r, c)
  BY <1>8, <1>9, <1>10 DEF Reaches
<1> QED BY <1>11

\* What is reached in n steps stays reached.
LEMMA ReachGrows ==
    ASSUME NEW r, NEW c \in Nat \ {0}, NEW f, Reaches(f, r, c), NEW k \in 0..c
    PROVE  f[k] \subseteq Ancestors(r, c)
<1> SUFFICES ASSUME NEW d \in f[k] PROVE d \in Ancestors(r, c)
  OBVIOUS
<1> DEFINE S == {set \in SUBSET (1..c) : d \in set}
           n == c - k
           g == [j \in 0..n |-> f[k + j]]
<1>1. n \in Nat /\ 0 \in 0..n /\ n \in 0..n /\ k + n = c /\ k + 0 = k
  OBVIOUS
<1>2. \A j \in 0..n : k + j \in 0..c
  OBVIOUS
<1>3. g[0] \in S
  BY <1>1, <1>2 DEF Reaches
<1>4. ASSUME NEW j \in 1..n, g[j - 1] \in S PROVE g[j] \in S
  <2>1. j - 1 \in 0..n /\ j \in 0..n /\ k + j \in 1..c /\ k + (j - 1) = (k + j) - 1
    BY <1>1
  <2>2. g[j - 1] = f[(k + j) - 1] /\ g[j] = f[k + j]
    BY <2>1
  <2>3. f[(k + j) - 1] \subseteq f[k + j] /\ f[k + j] \subseteq 1..c
    BY <1>2, <2>1 DEF Reaches
  <2> QED BY <1>4, <2>2, <2>3
<1>5. \A j \in 0..n : g[j] \in S
  <2>1. \A j \in 1..n : g[j - 1] \in S => g[j] \in S
    BY <1>4
  <2> HIDE DEF g, S, n
  <2> QED BY <1>1, <1>3, <2>1, RecursionStays
<1>6. g[n] = f[c]
  BY <1>1
<1> QED BY <1>1, <1>5, <1>6 DEF Reaches

\* A commit that is reached is reached in as many steps as there are commits between: the rest
\* of the steps reach its parents.
LEMMA ReachCloses ==
    ASSUME NEW r, NEW c \in Nat \ {0},
           \A d \in 1..c : ToSet(r.commits[d].parents) \subseteq 1..(d - 1),
           NEW d \in Ancestors(r, c)
    PROVE  ToSet(r.commits[d].parents) \subseteq Ancestors(r, c)
<1>1. PICK f : Reaches(f, r, c)
  <2>1. \A e \in 1..c : ToSet(r.commits[e].parents) \subseteq 1..c
    <3> TAKE e \in 1..c
    <3>1. 1..(e - 1) \subseteq 1..c
      OBVIOUS
    <3> QED BY <3>1
  <2> QED BY <2>1, ReachExists
<1> DEFINE Soon(n) == \A e \in f[n] : \E k \in 0..n : k + e <= c /\ e \in f[k]
           late == {n \in 0..c : ~Soon(n)}
<1>2. late = {}
  <2>1. SUFFICES ASSUME late # {} PROVE FALSE
    OBVIOUS
  <2>2. PICK m \in late : \A n \in late : m <= n
    <3>1. late \in SUBSET Nat
      OBVIOUS
    <3> HIDE DEF late
    <3> QED BY <2>1, <3>1, LeastNatural
  <2>3. Soon(0)
    BY <1>1 DEF Reaches
  <2>4. m \in 1..c /\ m - 1 \in 0..c /\ ~(m <= m - 1)
    <3>1. m \in 0..c /\ m # 0
      BY <2>2, <2>3
    <3> QED BY <3>1
  <2>5. Soon(m - 1)
    BY <2>2, <2>4
  <2>6. ASSUME NEW e \in f[m] PROVE \E k \in 0..m : k + e <= c /\ e \in f[k]
    <3>1. CASE e \in f[m - 1]
      <4>1. PICK k \in 0..(m - 1) : k + e <= c /\ e \in f[k]
        BY <2>5, <3>1
      <4>2. k \in 0..m
        BY <2>4, <4>1
      <4> QED BY <4>1, <4>2
    <3>2. CASE e \notin f[m - 1]
      <4>1. PICK y \in f[m - 1] : e \in ToSet(r.commits[y].parents)
        BY <1>1, <2>4, <3>2 DEF Reaches
      <4>2. PICK k \in 0..(m - 1) : k + y <= c /\ y \in f[k]
        BY <2>5, <4>1
      <4>3. y \in 1..c /\ e \in 1..(y - 1)
        <5>1. y \in 1..c
          BY <1>1, <2>4, <4>1 DEF Reaches
        <5> QED BY <4>1, <5>1
      <4>4. k + 1 \in 1..c /\ k + 1 \in 0..m /\ (k + 1) - 1 = k /\ (k + 1) + e <= c
        BY <2>4, <4>2, <4>3
      <4>5. f[k + 1] = f[k] \cup UNION {ToSet(r.commits[x].parents) : x \in f[k]}
        <5> DEFINE j == k + 1
        <5>1. j \in 1..c /\ j - 1 = k
          BY <4>4
        <5>2. f[j] = f[j - 1] \cup UNION {ToSet(r.commits[x].parents) : x \in f[j - 1]}
          BY <1>1, <5>1 DEF Reaches
        <5> QED BY <5>1, <5>2
      <4>6. e \in f[k + 1]
        BY <4>1, <4>2, <4>5
      <4> QED BY <4>4, <4>6
    <3> QED BY <3>1, <3>2
  <2> QED BY <2>2, <2>6
<1>3. Soon(c) /\ f[c] = Ancestors(r, c)
  <2>1. c \in 0..c
    OBVIOUS
  <2> QED BY <1>1, <1>2, <2>1 DEF Reaches
<1>4. PICK k \in 0..c : k + d <= c /\ d \in f[k]
  BY <1>3
<1>5. d \in 1..c
  BY <1>1, <1>4 DEF Reaches
<1> DEFINE j == k + 1
<1>6. j \in 1..c /\ j \in 0..c /\ j - 1 = k
  BY <1>4, <1>5
<1> HIDE DEF j
<1>7. f[j] = f[j - 1] \cup UNION {ToSet(r.commits[x].parents) : x \in f[j - 1]}
  BY <1>1, <1>6 DEF Reaches
<1>8. ToSet(r.commits[d].parents) \subseteq f[j]
  BY <1>4, <1>6, <1>7
<1> QED BY <1>1, <1>6, <1>8, ReachGrows

\* A set with a commit and with the parents of what is in it has its ancestors.
LEMMA ReachLeast ==
    ASSUME NEW r, NEW c \in Nat \ {0},
           \A d \in 1..c : ToSet(r.commits[d].parents) \subseteq 1..c,
           NEW T, c \in T, \A d \in T \cap (1..c) : ToSet(r.commits[d].parents) \subseteq T
    PROVE  Ancestors(r, c) \subseteq T
<1>1. PICK f : Reaches(f, r, c)
  BY ReachExists
<1> DEFINE S == SUBSET (T \cap (1..c))
<1>2. f[0] \in S
  BY <1>1 DEF Reaches
<1>3. \A k \in 1..c : f[k - 1] \in S => f[k] \in S
  BY <1>1 DEF Reaches
<1>4. \A k \in 0..c : f[k] \in S
  <2> HIDE DEF S
  <2> QED BY <1>2, <1>3, RecursionStays
<1>5. c \in 0..c /\ f[c] = Ancestors(r, c)
  BY <1>1 DEF Reaches
<1> QED BY <1>4, <1>5

LEMMA ParentsAreOlder ==
    ASSUME NEW r, Good(r), NEW c \in 1..Len(r.commits)
    PROVE  /\ \A d \in 1..c : ToSet(r.commits[d].parents) \subseteq 1..(d - 1)
           /\ \A d \in 1..c : ToSet(r.commits[d].parents) \subseteq 1..c
           /\ c \in Nat \ {0} /\ 1..c \subseteq 1..Len(r.commits) /\ Len(r.commits) \in Nat
<1>1. c \in Nat \ {0} /\ 1..c \subseteq 1..Len(r.commits) /\ Len(r.commits) \in Nat
  BY HeadTreeType
<1>2. ASSUME NEW d \in 1..c
      PROVE  /\ ToSet(r.commits[d].parents) \subseteq 1..(d - 1)
             /\ ToSet(r.commits[d].parents) \subseteq 1..c
  <2>1. d \in 1..Len(r.commits) /\ 1..(d - 1) \subseteq 1..c
    BY <1>1
  <2>2. r.commits[d].parents \in Seq(1..(d - 1))
    BY <2>1, MergeParents
  <2>3. ToSet(r.commits[d].parents) \subseteq 1..(d - 1)
    BY <2>2, ElementOfSeq, LenProperties DEF ToSet
  <2> QED BY <2>1, <2>3
<1> QED BY <1>1, <1>2

\* No commit is among the ancestors of an older one, and a commit and its parents are among its
\* own, with all their ancestors.
LEMMA AncestorsOf ==
    ASSUME NEW r, Good(r), NEW c \in 1..Len(r.commits)
    PROVE  /\ c \in Ancestors(r, c) /\ Ancestors(r, c) \subseteq 1..c
           /\ Ancestors(r, c) \subseteq 1..Len(r.commits)
           /\ ToSet(r.commits[c].parents) \subseteq Ancestors(r, c)
           /\ \A d \in Ancestors(r, c) : ToSet(r.commits[d].parents) \subseteq Ancestors(r, c)
           /\ \A d \in Ancestors(r, c) : Ancestors(r, d) \subseteq Ancestors(r, c)
<1>1. PICK f : Reaches(f, r, c)
  BY ParentsAreOlder, ReachExists
<1>2. c \in Nat \ {0} /\ c \in 0..c /\ 1..c \subseteq 1..Len(r.commits)
  BY ParentsAreOlder
<1>3. c \in Ancestors(r, c) /\ Ancestors(r, c) \subseteq 1..c
  BY <1>1, <1>2 DEF Reaches
<1>4. \A d \in Ancestors(r, c) : ToSet(r.commits[d].parents) \subseteq Ancestors(r, c)
  BY <1>2, ParentsAreOlder, ReachCloses
<1>5. ASSUME NEW d \in Ancestors(r, c) PROVE Ancestors(r, d) \subseteq Ancestors(r, c)
  <2>1. d \in 1..Len(r.commits)
    BY <1>2, <1>3
  <2>2. \A e \in Ancestors(r, c) \cap (1..d) :
           ToSet(r.commits[e].parents) \subseteq Ancestors(r, c)
    BY <1>4
  <2> DEFINE T == Ancestors(r, c)
  <2> HIDE DEF T
  <2>3. /\ \A e \in 1..d : ToSet(r.commits[e].parents) \subseteq 1..d
        /\ d \in Nat \ {0} /\ d \in T
        /\ \A e \in T \cap (1..d) : ToSet(r.commits[e].parents) \subseteq T
    BY <2>1, <2>2, ParentsAreOlder DEF T
  <2> QED BY <2>3, ReachLeast DEF T
<1> QED BY <1>2, <1>3, <1>4, <1>5

\* A set of commits of r with a commit and the parents of what is in it has its ancestors.
LEMMA AncestorsLeast ==
    ASSUME NEW r, Good(r), NEW c \in 1..Len(r.commits), NEW T, c \in T,
           \A d \in T \cap (1..Len(r.commits)) : ToSet(r.commits[d].parents) \subseteq T
    PROVE  Ancestors(r, c) \subseteq T
<1>1. /\ \A d \in 1..c : ToSet(r.commits[d].parents) \subseteq 1..c
      /\ c \in Nat \ {0} /\ 1..c \subseteq 1..Len(r.commits)
  BY ParentsAreOlder
<1>2. \A d \in T \cap (1..c) : ToSet(r.commits[d].parents) \subseteq T
  BY <1>1
<1> QED BY <1>1, <1>2, ReachLeast

\* Commits are only added, and have the ancestors they had.
LEMMA AncestorsStay ==
    ASSUME NEW r, NEW s, Good(r), Good(s), Extends(r, s), NEW c \in 1..Len(r.commits)
    PROVE  /\ c \in 1..Len(s.commits) /\ Ancestors(s, c) = Ancestors(r, c)
<1>1. c \in 1..Len(s.commits) /\ 1..Len(r.commits) \subseteq 1..Len(s.commits)
  BY HeadTreeType DEF Extends
<1> DEFINE A == Ancestors(r, c)
           B == Ancestors(s, c)
<1>2. c \in A /\ A \subseteq 1..Len(r.commits) /\ A \subseteq 1..c
      /\ \A d \in A : ToSet(r.commits[d].parents) \subseteq A
  BY AncestorsOf
<1>3. c \in B /\ B \subseteq 1..c /\ \A d \in B : ToSet(s.commits[d].parents) \subseteq B
  BY <1>1, AncestorsOf
<1>4. \A d \in 1..Len(r.commits) : s.commits[d].parents = r.commits[d].parents
  BY DEF Extends
<1>5. \A d \in A \cap (1..Len(s.commits)) : ToSet(s.commits[d].parents) \subseteq A
  BY <1>2, <1>4
<1>6. \A d \in B \cap (1..Len(r.commits)) : ToSet(r.commits[d].parents) \subseteq B
  BY <1>3, <1>4
<1> HIDE DEF A, B
<1>7. Ancestors(s, c) \subseteq A
  BY <1>1, <1>2, <1>5, AncestorsLeast
<1>8. Ancestors(r, c) \subseteq B
  BY <1>3, <1>6, AncestorsLeast
<1> QED BY <1>1, <1>7, <1>8 DEF A, B

\* The best common ancestor is one of the common ones: the youngest of them is no ancestor of
\* another.
LEMMA BaseTreeType ==
    ASSUME NEW r, Good(r), NEW c \in 1..Len(r.commits), NEW d \in 1..Len(r.commits)
    PROVE  BaseTree(r, c, d) \in Contents
<1> DEFINE common == Ancestors(r, c) \cap Ancestors(r, d)
           best(b) == \A a \in common : b \notin Ancestors(r, a) \ {a}
<1>1. common \in SUBSET (1..Len(r.commits)) /\ Len(r.commits) \in Nat
  BY AncestorsOf, HeadTreeType
<1>2. \A a \in common : Ancestors(r, a) \subseteq 1..a
  BY <1>1, AncestorsOf
<1>3. CASE common = {}
  BY <1>3 DEF BaseTree, EmptyTree, Contents
<1>4. CASE common # {}
  <2> DEFINE back == {Len(r.commits) - b : b \in common}
  <2>1. PICK m \in back : \A n \in back : m <= n
    <3>1. back \in SUBSET Nat /\ back # {}
      BY <1>1, <1>4
    <3> QED BY <3>1, LeastNatural
  <2>2. PICK b \in common : m = Len(r.commits) - b
    BY <2>1
  <2> HIDE DEF common
  <2>3. ASSUME NEW a \in common PROVE b \notin Ancestors(r, a) \ {a}
    <3>1. a \in 1..Len(r.commits) /\ b \in 1..Len(r.commits)
      BY <1>1
    <3>2. m <= Len(r.commits) - a
      BY <2>1
    <3>4. a <= b
      BY <1>1, <2>2, <3>1, <3>2
    <3>3. Ancestors(r, a) \subseteq 1..a
      BY <1>2
    <3> QED BY <3>1, <3>3, <3>4
  <2>4. (CHOOSE x \in common : best(x)) \in common
    BY <2>2, <2>3
  <2>5. BaseTree(r, c, d) = Tree(r, CHOOSE x \in common : best(x))
    BY <1>4 DEF BaseTree, common
  <2> HIDE DEF best
  <2> QED BY <1>1, <2>4, <2>5, HeadTreeType
<1> QED BY <1>3, <1>4

ParentOf(r, c) ==
    IF c = 0 \/ r.commits[c].parents = <<>> THEN 0 ELSE r.commits[c].parents[1]

LEMMA FirstParentsStay ==
    ASSUME NEW r, NEW n \in Nat, NEW S, HeadOid(r) \in S, \A c \in S : ParentOf(r, c) \in S
    PROVE  /\ \A k \in 0..n : FirstParents(r, n)[k] \in S
           /\ FirstParents(r, n)[0] = HeadOid(r)
           /\ \A k \in 1..n : FirstParents(r, n)[k] = ParentOf(r, FirstParents(r, n)[k - 1])
<1> DEFINE next == [k \in 1..n |-> [c \in S |-> ParentOf(r, c)]]
           line[k \in 0..n] ==
               IF k = 0 THEN HeadOid(r)
               ELSE IF line[k - 1] = 0 \/ r.commits[line[k - 1]].parents = <<>> THEN 0
               ELSE r.commits[line[k - 1]].parents[1]
<1>1. next \in Steps(S, n)
  BY DEF Steps
<1>2. PICK f \in [0..n -> S] : f[0] = HeadOid(r) /\ \A k \in 1..n : f[k] = next[k][f[k - 1]]
  <2> HIDE DEF next
  <2> QED BY <1>1, RecursionExists DEF Runs
<1>3. f = [k \in 0..n |-> IF k = 0 THEN HeadOid(r)
                          ELSE IF f[k - 1] = 0 \/ r.commits[f[k - 1]].parents = <<>> THEN 0
                          ELSE r.commits[f[k - 1]].parents[1]]
  <2>1. \A k \in 1..n : f[k] = ParentOf(r, f[k - 1])
    <3> TAKE k \in 1..n
    <3>1. k - 1 \in 0..n
      OBVIOUS
    <3> QED BY <1>2, <3>1
  <2> QED BY <1>2, <2>1 DEF ParentOf
<1>4. line = [k \in 0..n |-> IF k = 0 THEN HeadOid(r)
                  ELSE IF line[k - 1] = 0 \/ r.commits[line[k - 1]].parents = <<>> THEN 0
                  ELSE r.commits[line[k - 1]].parents[1]]
  BY <1>3, Zenon
<1>5. FirstParents(r, n) = line
  BY DEF FirstParents
<1> HIDE DEF line
<1>6. line[0] = HeadOid(r) /\ \A k \in 1..n : line[k] = ParentOf(r, line[k - 1])
  <2>1. line[0] = HeadOid(r)
    BY <1>4
  <2>2. ASSUME NEW k \in 1..n PROVE line[k] = ParentOf(r, line[k - 1])
    <3>1. k \in 0..n /\ k # 0
      OBVIOUS
    <3>2. line[k] = IF line[k - 1] = 0 \/ r.commits[line[k - 1]].parents = <<>> THEN 0
                    ELSE r.commits[line[k - 1]].parents[1]
      BY <1>4, <3>1, Zenon
    <3> QED BY <3>2, Zenon DEF ParentOf
  <2> QED BY <2>1, <2>2
<1>7. \A k \in 0..n : line[k] \in S
  <2> HIDE DEF next
  <2> QED BY <1>6, RecursionStays
<1> QED BY <1>5, <1>6, <1>7

LEMMA FirstParentsType ==
    ASSUME NEW r, Good(r), NEW n \in Nat
    PROVE  /\ \A k \in 0..n : FirstParents(r, n)[k] \in 0..Len(r.commits)
           /\ FirstParents(r, n)[0] = HeadOid(r)
           /\ \A k \in 1..n : FirstParents(r, n)[k] = ParentOf(r, FirstParents(r, n)[k - 1])
<1>1. HeadOid(r) \in 0..Len(r.commits) /\ Len(r.commits) \in Nat
  BY HeadTreeType
<1>2. ASSUME NEW c \in 0..Len(r.commits) PROVE ParentOf(r, c) \in 0..Len(r.commits)
  <2>1. CASE c = 0
    BY <1>1, <2>1 DEF ParentOf
  <2>2. CASE c # 0
    <3> DEFINE p == r.commits[c].parents
    <3>1. c \in 1..Len(r.commits) /\ 1..(c - 1) \subseteq 0..Len(r.commits)
      BY <1>1, <2>2
    <3>2. p \in Seq(1..(c - 1))
      BY <3>1, MergeParents
    <3> HIDE DEF p
    <3>3. p # <<>> => p[1] \in 1..(c - 1)
      BY <3>2, ElementOfSeq
    <3> QED BY <1>1, <3>1, <3>3 DEF ParentOf, p
  <2> QED BY <2>1, <2>2
<1>3. \A c \in 0..Len(r.commits) : ParentOf(r, c) \in 0..Len(r.commits)
  BY <1>2
<1> QED BY <1>1, <1>3, FirstParentsStay

\* The plan has the commits of a line of first parents from a head down to a base.
FitsAlong(r, line, head, plan, base) ==
    /\ \A k \in 0..Len(plan) : line[k] \in 1..Len(r.commits)
    /\ \A k \in 0..(Len(plan) - 1) : /\ r.commits[line[k]].parents # <<>>
                                     /\ line[k + 1] = r.commits[line[k]].parents[1]
    /\ line[0] = head /\ line[Len(plan)] = base
    /\ Planned(plan) = {line[k] : k \in 0..(Len(plan) - 1)}

FitsFrom(r, head, plan, base) == \E line : FitsAlong(r, line, head, plan, base)

LEMMA PlanFitsFrom ==
    ASSUME NEW r, Good(r), NEW plan, Len(plan) \in Nat, PlanFits(r, plan)
    PROVE  FitsFrom(r, HeadOid(r), plan, FirstParents(r, Len(plan))[Len(plan)])
<1> DEFINE n == Len(plan)
           line == FirstParents(r, n)
<1>1. /\ \A k \in 0..n : line[k] \in 0..Len(r.commits)
      /\ line[0] = HeadOid(r) /\ \A k \in 1..n : line[k] = ParentOf(r, line[k - 1])
  BY FirstParentsType
<1>2. line[n] # 0 /\ Planned(plan) = {line[k] : k \in 0..(n - 1)}
  BY DEF PlanFits
<1> HIDE DEF line
<1>3. ASSUME NEW k \in 0..n PROVE line[k] # 0
  <2>1. SUFFICES ASSUME line[k] = 0 PROVE FALSE
    OBVIOUS
  <2> DEFINE tail == [j \in 0..(n - k) |-> line[k + j]]
             S    == {0}
  <2>2. tail[0] \in S /\ n - k \in Nat
    BY <2>1
  <2>3. \A j \in 1..(n - k) : tail[j - 1] \in S => tail[j] \in S
    <3> TAKE j \in 1..(n - k)
    <3>1. k + j \in 1..n /\ j - 1 \in 0..(n - k) /\ j \in 0..(n - k) /\ (k + j) - 1 = k + (j - 1)
      OBVIOUS
    <3> QED BY <1>1, <3>1 DEF ParentOf
  <2>4. n - k \in 0..(n - k)
    BY <2>2
  <2>5. tail[n - k] = line[n]
    BY <2>4
  <2> HIDE DEF tail, S
  <2>6. tail[n - k] \in S
    BY <2>2, <2>3, <2>4, RecursionStays
  <2> QED BY <1>2, <2>5, <2>6 DEF S
<1>4. \A k \in 0..n : line[k] \in 1..Len(r.commits)
  BY <1>1, <1>3, HeadTreeType
<1>5. ASSUME NEW k \in 0..(n - 1)
      PROVE  r.commits[line[k]].parents # <<>> /\ line[k + 1] = r.commits[line[k]].parents[1]
  <2>1. k + 1 \in 1..n /\ k + 1 \in 0..n /\ (k + 1) - 1 = k
    OBVIOUS
  <2>2. line[k + 1] = ParentOf(r, line[k]) /\ line[k + 1] # 0
    BY <1>1, <1>3, <2>1
  <2> QED BY <2>2 DEF ParentOf
<1>6. FitsAlong(r, line, HeadOid(r), plan, line[n])
  BY <1>1, <1>2, <1>4, <1>5 DEF FitsAlong
<1> QED BY <1>6 DEF FitsFrom, line

\* Commits are only added: a plan that fits goes on to fit.
LEMMA FitStays ==
    ASSUME NEW r, NEW s, Extends(r, s), Len(r.commits) \in Nat, Len(s.commits) \in Nat,
           NEW head, NEW plan, NEW base, Len(plan) \in Nat, FitsFrom(r, head, plan, base)
    PROVE  FitsFrom(s, head, plan, base)
<1>1. PICK line : FitsAlong(r, line, head, plan, base)
  BY DEF FitsFrom
<1>2. \A k \in 0..Len(plan) :
         line[k] \in 1..Len(s.commits) /\ s.commits[line[k]] = r.commits[line[k]]
  BY <1>1 DEF FitsAlong, Extends
<1>3. \A k \in 0..(Len(plan) - 1) : k \in 0..Len(plan)
  OBVIOUS
<1>4. FitsAlong(s, line, head, plan, base)
  BY <1>1, <1>2, <1>3 DEF FitsAlong
<1> QED BY <1>4 DEF FitsFrom

\* Every ancestor of the head is in the plan, came with a merge of the plan, or is one of the base.
LEMMA PlanCovers ==
    ASSUME NEW r, Good(r), NEW head, NEW plan, NEW base, Len(plan) \in Nat,
           FitsFrom(r, head, plan, base)
    PROVE  /\ head \in 1..Len(r.commits) /\ base \in 1..Len(r.commits)
           /\ Ancestors(r, head) \subseteq Planned(plan) \cup MergedBy(r, plan)
                                              \cup Ancestors(r, base)
<1> DEFINE n == Len(plan)
           T == Planned(plan) \cup MergedBy(r, plan) \cup Ancestors(r, base)
<1>1. PICK line : FitsAlong(r, line, head, plan, base)
  BY DEF FitsFrom
<1>2. /\ \A k \in 0..n : line[k] \in 1..Len(r.commits)
      /\ \A k \in 0..(n - 1) : /\ r.commits[line[k]].parents # <<>>
                              /\ line[k + 1] = r.commits[line[k]].parents[1]
      /\ line[0] = head /\ line[n] = base /\ 0 \in 0..n /\ n \in 0..n
      /\ Planned(plan) = {line[k] : k \in 0..(n - 1)}
  BY <1>1 DEF FitsAlong
<1>3. head \in 1..Len(r.commits) /\ base \in 1..Len(r.commits)
  BY <1>2
<1>4. base \in Ancestors(r, base)
      /\ \A d \in Ancestors(r, base) : ToSet(r.commits[d].parents) \subseteq Ancestors(r, base)
  BY <1>3, AncestorsOf
<1>5. \A k \in 0..n : line[k] \in Planned(plan) \cup Ancestors(r, base)
  <2> TAKE k \in 0..n
  <2>1. k = n \/ k \in 0..(n - 1)
    <3>1. n \in Nat
      OBVIOUS
    <3> HIDE DEF n
    <3> QED BY <3>1
  <2>2. CASE k = n
    BY <1>2, <1>4, <2>2
  <2>3. CASE k \in 0..(n - 1)
    <3>1. line[k] \in {line[j] : j \in 0..(n - 1)}
      BY <2>3
    <3> QED BY <1>2, <3>1
  <2> QED BY <2>1, <2>2, <2>3
<1>6. ASSUME NEW d \in Planned(plan) PROVE ToSet(r.commits[d].parents) \subseteq T
  <2>1. PICK k \in 0..(n - 1) : d = line[k]
    BY <1>2
  <2> DEFINE p == r.commits[d].parents
  <2>2. d \in 1..Len(r.commits) /\ k + 1 \in 0..n
    BY <1>2, <2>1
  <2>3. p \in Seq(1..Len(r.commits))
    <3>1. p \in Seq(1..(d - 1)) /\ 1..(d - 1) \subseteq 1..Len(r.commits)
      BY <2>2, MergeParents, HeadTreeType
    <3> QED BY <3>1, SeqMonotonic
  <2>4. p[1] \in T
    BY <1>2, <1>5, <2>1, <2>2
  <2>5. \A i \in 2..Len(p) : Ancestors(r, p[i]) \subseteq MergedBy(r, plan)
    BY DEF MergedBy
  <2> HIDE DEF p
  <2>6. ASSUME NEW i \in 1..Len(p) PROVE p[i] \in T
    <3>1. CASE i = 1
      BY <2>4, <3>1
    <3>2. CASE i # 1
      <4>1. i \in 2..Len(p) /\ p[i] \in 1..Len(r.commits)
        BY <2>3, <3>2, ElementOfSeq
      <4>2. p[i] \in Ancestors(r, p[i])
        BY <4>1, AncestorsOf
      <4> QED BY <2>5, <4>1, <4>2
    <3> QED BY <3>1, <3>2
  <2> HIDE DEF T
  <2>7. DOMAIN p = 1..Len(p)
    BY <2>3, LenProperties
  <2>8. ToSet(p) \subseteq T
    BY <2>6, <2>7 DEF ToSet
  <2> QED BY <2>8 DEF p
<1>7. ASSUME NEW d \in MergedBy(r, plan) PROVE ToSet(r.commits[d].parents) \subseteq T
  <2>9. PICK c \in Planned(plan) :
           d \in UNION {Ancestors(r, r.commits[c].parents[i]) : i \in 2..Len(r.commits[c].parents)}
    BY DEF MergedBy
  <2>1. PICK i \in 2..Len(r.commits[c].parents) : d \in Ancestors(r, r.commits[c].parents[i])
    BY <2>9
  <2> DEFINE e == r.commits[c].parents[i]
  <2>2. PICK k \in 0..(n - 1) : c = line[k]
    BY <1>2
  <2>3. c \in 1..Len(r.commits)
    BY <1>2, <2>2
  <2>4. e \in 1..Len(r.commits)
    <3> DEFINE p == r.commits[c].parents
    <3>1. p \in Seq(1..(c - 1)) /\ 1..(c - 1) \subseteq 1..Len(r.commits)
      BY <2>3, MergeParents, HeadTreeType
    <3>2. i \in 1..Len(p)
      OBVIOUS
    <3> HIDE DEF p
    <3>3. p[i] \in 1..Len(r.commits)
      BY <3>1, <3>2, ElementOfSeq
    <3> QED BY <3>3 DEF p
  <2>5. Ancestors(r, e) \subseteq MergedBy(r, plan)
    BY DEF MergedBy
  <2> HIDE DEF e
  <2>6. ToSet(r.commits[d].parents) \subseteq Ancestors(r, e)
    BY <2>1, <2>4, AncestorsOf DEF e
  <2> QED BY <2>5, <2>6
<1>8. head \in T
  BY <1>2, <1>5
<1>9. \A d \in T \cap (1..Len(r.commits)) : ToSet(r.commits[d].parents) \subseteq T
  BY <1>4, <1>6, <1>7
<1> HIDE DEF T
<1>10. Ancestors(r, head) \subseteq T
  BY <1>3, <1>8, <1>9, AncestorsLeast
<1> QED BY <1>3, <1>10 DEF T

-----------------------------------------------------------------------------
(* Where the branches go                                                   *)

\* What else a step does to the branches: all stay where they are; only the one that is checked
\* out moves; it moves on.
Alike(r, s) ==
    /\ s.commits = r.commits /\ s.branch = r.branch /\ s.server = r.server
    /\ HeadOid(s) = HeadOid(r) /\ \A b \in Branch : s.refs[b] = r.refs[b]

OwnOnly(r, s) ==
    /\ s.server = r.server
    /\ \A b \in Branch : b = r.branch \/ s.refs[b] = r.refs[b]

Onward(r, s) ==
    /\ OwnOnly(r, s)
    /\ r.branch # None => HeadOid(r) \in Ancestors(s, s.refs[r.branch])

\* None moves but the one that is checked out, and that one on.
Forward(r, s) ==
    /\ s.server = r.server
    /\ \A b \in Branch : \/ r.refs[b] = 0 \/ s.refs[b] \in {0, r.refs[b]}
                         \/ b = r.branch /\ r.refs[b] \in Ancestors(s, s.refs[b])

LEMMA NamesApart ==
    /\ Branch \subseteq Ref /\ Remote \subseteq Ref /\ Tag \subseteq Ref /\ None \notin Ref
    /\ \A b \in Branch : b \notin Remote /\ b \notin Tag /\ b # None
BY GitOperationsAssumption DEF GitOperationsAssumption, Ref

LEMMA AlikeSame ==
    ASSUME NEW r, NEW s, SameHistory(r, s)
    PROVE  Alike(r, s)
BY DEF SameHistory, Alike, HeadOid

LEMMA AlikeOn ==
    ASSUME NEW r, NEW m, NEW s, Alike(r, m)
    PROVE  /\ Steady(r, m)
           /\ Alike(m, s) => Alike(r, s)
           /\ OwnOnly(m, s) => OwnOnly(r, s)
           /\ Onward(m, s) => Onward(r, s)
BY DEF Alike, Steady, OwnOnly, Onward

LEMMA SteadySame == ASSUME NEW r PROVE Alike(r, r) /\ Steady(r, r)
BY DEF Alike, Steady

LEMMA IsForward ==
    ASSUME NEW r, NEW s
    PROVE  (Steady(r, s) => Forward(r, s)) /\ (Onward(r, s) => Forward(r, s))
BY NamesApart DEF Steady, Onward, OwnOnly, Forward, HeadOid

LEMMA MovedToBranches ==
    ASSUME NEW r, Good(r), NEW c \in 1..Len(r.commits), NEW s, s = MovedTo(r, c)
    PROVE  /\ OwnOnly(r, s) /\ (r.branch # None => s.refs[r.branch] = c)
           /\ s.refs = IF r.branch = None THEN r.refs ELSE [r.refs EXCEPT ![r.branch] = c]
           /\ c = HeadOid(r) => Steady(r, s)
<1>1. r.branch # None => r.branch \in Ref
  BY RefsType, NamesApart
<1>2. s.server = r.server /\ r.refs \in [Ref -> Nat]
  BY MovedToKeeps DEF Good, Repository
<1>3. s.refs = IF r.branch = None THEN r.refs ELSE [r.refs EXCEPT ![r.branch] = c]
  BY DEF MovedTo, Good, Repository
<1>4. \A b \in Branch : b \in Ref /\ b # None
  BY NamesApart
<1> QED BY <1>1, <1>2, <1>3, <1>4 DEF OwnOnly, Steady, HeadOid

LEMMA MovedOnward ==
    ASSUME NEW r, Good(r), NEW c \in 1..Len(r.commits), HeadOid(r) \in Ancestors(r, c),
           NEW s, s = MovedTo(r, c)
    PROVE  Onward(r, s)
<1>1. Good(s) /\ Extends(r, s)
  BY MovedToKeeps DEF Keeps, Follows
<1>2. HeadOid(r) \in Ancestors(s, c)
  BY <1>1, AncestorsStay
<1> QED BY <1>2, MovedToBranches DEF Onward

\* A commit on top of HEAD.
LEMMA CommittedBranches ==
    ASSUME NEW r, Good(r), NEW parents \in Seq(1..Len(r.commits)),
           NEW s, s = Committed(r, parents) \/ s = Finished(r, parents)
    PROVE  /\ OwnOnly(r, s)
           /\ HeadOid(r) \in ToSet(parents) => Onward(r, s)
<1> DEFINE c == Len(r.commits) + 1
<1>1. Len(r.commits) \in Nat /\ r.refs \in [Ref -> Nat] /\ r \in Repository
  BY HeadTreeType DEF Good, Repository
<1>2. /\ Good(s) /\ s.server = r.server /\ HeadOid(s) = c /\ Len(s.commits) = c
      /\ s.commits[c].parents = parents
  <2>1. CASE s = Committed(r, parents)
    <3>1. /\ Good(s) /\ s.server = r.server /\ HeadOid(s) = c /\ Len(s.commits) = c
          /\ s.commits[c] = [parents |-> parents, tree |-> r.index]
      BY <2>1, CommittedKeeps, Zenon
    <3> QED BY <3>1
  <2>2. CASE s = Finished(r, parents)
    BY <2>2, CommittedAndDone, Zenon
  <2> QED BY <2>1, <2>2
<1>3. /\ s.refs = IF r.branch = None THEN r.refs ELSE [r.refs EXCEPT ![r.branch] = c]
  BY <1>1 DEF Committed, Finished, MovedTo, Repository
<1>4. r.branch # None => r.branch \in Ref
  BY RefsType, NamesApart
<1>5. \A b \in Branch : b \in Ref
  BY NamesApart
<1> HIDE DEF c
<1>6. OwnOnly(r, s) /\ (r.branch # None => s.refs[r.branch] = c)
  BY <1>1, <1>2, <1>3, <1>4, <1>5 DEF OwnOnly
<1>7. c \in 1..Len(s.commits)
  BY <1>1, <1>2 DEF c
<1>8. ToSet(parents) \subseteq Ancestors(s, c)
  BY <1>2, <1>7, AncestorsOf
<1> QED BY <1>6, <1>8 DEF Onward

\* The references and the server as they were.
Still(r, s) == s.refs = r.refs /\ s.server = r.server

LEMMA StillIsSteady ==
    ASSUME NEW r, NEW s
    PROVE  /\ Still(r, s) => Steady(r, s)
           /\ SameHistory(r, s) => Still(r, s) /\ Steady(r, s)
BY SteadyBy DEF Still, SameHistory

\* The operations on files.
LEMMA FilesSteady ==
    ASSUME NEW r, Good(r), NEW f
    PROVE  /\ Steady(r, StageFile(r, f).repo) /\ Steady(r, StageAll(r).repo)
           /\ Steady(r, UnstageFile(r, f).repo) /\ Steady(r, ResolveConflict(r, f).repo)
           /\ Steady(r, DiscardChanges(r, f).repo) /\ Steady(r, CleanUntracked(r).repo)
<1>1. r \in Repository
  BY DEF Good
<1>2. Still(r, StageFile(r, f).repo)
  BY <1>1 DEF StageFile, Done, Refused, Outcome, Still, Repository
<1>3. Still(r, StageAll(r).repo)
  BY <1>1 DEF StageAll, Done, Outcome, Still, Repository
<1>4. Still(r, UnstageFile(r, f).repo)
  BY <1>1 DEF UnstageFile, Done, Outcome, Still, Repository
<1>5. Still(r, ResolveConflict(r, f).repo)
  BY <1>1 DEF ResolveConflict, Done, Refused, Outcome, Still, Repository
<1>6. Still(r, DiscardChanges(r, f).repo)
  BY <1>1 DEF DiscardChanges, Done, Outcome, Still, Repository
<1>7. Still(r, CleanUntracked(r).repo)
  BY <1>1 DEF CleanUntracked, Done, Outcome, Still, Repository
<1> QED BY <1>2, <1>3, <1>4, <1>5, <1>6, <1>7, StillIsSteady

\* The operations on stashes; a branch made from one was not there.
LEMMA StashesSteady ==
    ASSUME NEW r, Good(r)
    PROVE  /\ Steady(r, StashSave(r).repo)
           /\ \A i \in Nat \ {0} : /\ Steady(r, StashPop(r, i).repo)
                                   /\ Steady(r, StashApply(r, i).repo)
                                   /\ Steady(r, StashDrop(r, i).repo)
<1>1. Steady(r, StashSave(r).repo)
  BY StashedKeeps, StillIsSteady DEF StashSave
<1>2. ASSUME NEW i \in Nat \ {0}
      PROVE  /\ Steady(r, StashPop(r, i).repo) /\ Steady(r, StashApply(r, i).repo)
             /\ Steady(r, StashDrop(r, i).repo)
  <2> DEFINE out == Unstashed(r, i)
  <2>1. Good(out.repo) /\ SameHistory(r, out.repo)
    BY UnstashedKeeps
  <2>2. \A s \in Repository : Still(s, Dropped(s, i))
    BY DEF Still, Dropped, Repository
  <2>3. out.repo \in Repository /\ r \in Repository
    BY <2>1 DEF Good
  <2>4. StashPop(r, i).repo \in {out.repo, Dropped(out.repo, i)}
    BY DEF StashPop, Lenient, Done, Outcome
  <2>5. StashApply(r, i).repo = out.repo
    BY DEF StashApply, Lenient, Done, Outcome
  <2>6. StashDrop(r, i).repo \in {r, Dropped(r, i)}
    BY DEF StashDrop, Done, Refused, Outcome
  <2> HIDE DEF out
  <2>7. Still(r, StashPop(r, i).repo)
    BY <2>1, <2>2, <2>3, <2>4 DEF Still, SameHistory
  <2>8. Still(r, StashDrop(r, i).repo)
    BY <2>2, <2>3, <2>6 DEF Still
  <2> QED BY <2>1, <2>5, <2>7, <2>8, StillIsSteady
<1> QED BY <1>1, <1>2


\* A commit is on top of HEAD; an amended one is in its place.
LEMMA CommitsForward ==
    ASSUME NEW r, Good(r)
    PROVE  /\ Forward(r, CommitIndex(r).repo)
           /\ r.doing.what = "merge" => Forward(r, FinishMergeCommit(r).repo)
           /\ Forward(r, RunContinue(r).repo)
           /\ AmendCommit(r).result \in {"done", "refused"}
           /\ AmendCommit(r).result = "refused" => AmendCommit(r).repo = r
           /\ OwnOnly(r, AmendCommit(r).repo)
<1> DEFINE one == <<HeadOid(r)>>
           two == <<HeadOid(r), r.doing.other>>
<1>1. /\ one \in Seq(1..Len(r.commits))
      /\ r.doing.what = "merge" => two \in Seq(1..Len(r.commits))
      /\ r.commits[HeadOid(r)].parents \in Seq(1..Len(r.commits))
  BY MergeParents
<1>2. HeadOid(r) \in ToSet(one) /\ HeadOid(r) \in ToSet(two)
  <2>1. one[1] = HeadOid(r) /\ two[1] = HeadOid(r) /\ 1 \in DOMAIN one /\ 1 \in DOMAIN two
    OBVIOUS
  <2> QED BY <2>1 DEF ToSet
<1>3. /\ \/ CommitIndex(r).repo \in {r, Committed(r, one)}
         \/ r.doing.what = "merge" /\ CommitIndex(r).repo = Finished(r, two)
      /\ FinishMergeCommit(r).repo = Finished(r, two)
      /\ RunContinue(r).repo \in {r, Finished(r, one)}
  <2>1. \/ CommitIndex(r) = Refused(r) \/ CommitIndex(r) = Done(Committed(r, one))
        \/ r.doing.what = "merge" /\ CommitIndex(r) = Done(Finished(r, two))
    BY DEF CommitIndex, Finished
  <2>2. FinishMergeCommit(r) = Done(Finished(r, two))
    BY DEF FinishMergeCommit, Finished
  <2>3. RunContinue(r) = Refused(r) \/ RunContinue(r) = Done(Finished(r, one))
    BY DEF RunContinue, Finished
  <2>4. \A x : Done(x).repo = x /\ Refused(x).repo = x
    BY DEF Done, Refused, Outcome
  <2> QED BY <2>1, <2>2, <2>3, <2>4
<1>4. \/ AmendCommit(r) = Refused(r)
      \/ AmendCommit(r) = Done(Committed(r, r.commits[HeadOid(r)].parents))
  BY DEF AmendCommit
<1> HIDE DEF one, two
<1>5. Forward(r, r) /\ Forward(r, Committed(r, one)) /\ Forward(r, Finished(r, one))
  <2>1. Onward(r, Committed(r, one))
    BY <1>1, <1>2, CommittedBranches
  <2>2. Onward(r, Finished(r, one))
    BY <1>1, <1>2, CommittedBranches
  <2> QED BY <2>1, <2>2, SteadySame, IsForward
<1>6. r.doing.what = "merge" => Forward(r, Finished(r, two))
  <2> SUFFICES ASSUME r.doing.what = "merge" PROVE Onward(r, Finished(r, two))
    BY IsForward
  <2> QED BY <1>1, <1>2, CommittedBranches
<1>7. OwnOnly(r, Committed(r, r.commits[HeadOid(r)].parents)) /\ OwnOnly(r, r)
  BY <1>1, CommittedBranches DEF OwnOnly
<1>8. OwnOnly(r, AmendCommit(r).repo)
  BY <1>4, <1>7 DEF Done, Refused, Outcome
<1>9. /\ AmendCommit(r).result \in {"done", "refused"}
      /\ AmendCommit(r).result = "refused" => AmendCommit(r).repo = r
  BY <1>4 DEF Done, Refused, Outcome
<1> QED BY <1>3, <1>5, <1>6, <1>8, <1>9

\* A reset moves only the branch that is checked out, and to HEAD not even that.
LEMMA ResetsMove ==
    ASSUME NEW r, Good(r), NEW c \in 1..Len(r.commits)
    PROVE  /\ OwnOnly(r, HardReset(r, c)) /\ OwnOnly(r, MixedReset(r, c))
           /\ c = HeadOid(r) => Steady(r, HardReset(r, c)) /\ Steady(r, MixedReset(r, c))
           /\ ResetSoft(r, c).result \in {"done", "refused"}
           /\ ResetSoft(r, c).result = "refused" => ResetSoft(r, c).repo = r
           /\ OwnOnly(r, ResetSoft(r, c).repo)
<1> DEFINE m == MovedTo(r, c)
<1>1. m \in Repository /\ OwnOnly(r, m) /\ (c = HeadOid(r) => Steady(r, m))
  BY MovedToKeeps, MovedToBranches DEF Good
<1>2. Still(m, HardReset(r, c)) /\ Still(m, MixedReset(r, c))
  <2> DEFINE tree == Tree(r, c)
             work == [f \in Path |-> IF f \in Tracked(r) \/ tree[f] # {} THEN tree[f]
                                     ELSE m.work[f]]
  <2>1. /\ HardReset(r, c) = [m EXCEPT !.index = tree, !.unmerged = {}, !.doing = NotDoing,
                                       !.work = work]
        /\ MixedReset(r, c) = [m EXCEPT !.index = tree, !.unmerged = {}, !.doing = NotDoing]
    BY DEF HardReset, MixedReset
  <2> HIDE DEF m, tree, work
  <2> QED BY <1>1, <2>1 DEF Still, Repository
<1>3. \/ ResetSoft(r, c).result = "refused" /\ ResetSoft(r, c).repo = r
      \/ ResetSoft(r, c).result = "done" /\ ResetSoft(r, c).repo = m
  BY DEF ResetSoft, Done, Refused, Outcome
<1> HIDE DEF m
<1> QED BY <1>1, <1>2, <1>3 DEF Still, OwnOnly, Steady

-----------------------------------------------------------------------------
(* Resets, picks, merges and the remote                                    *)

LEMMA ResetsThrow ==
    ASSUME NEW r, Good(r), NEW c \in 1..Len(r.commits)
    PROVE  /\ Throws(r, ResetHard(r)) /\ ResetHard(r).result = "done"
           /\ Throws(r, ResetToCommit(r, c)) /\ ResetToCommit(r, c).result = "done"
           /\ Throws(r, AbortOperation(r)) /\ AbortOperation(r).result = "done"
           /\ Ends(r, ResetMixed(r, c)) /\ ResetMixed(r, c).result = "done"
           /\ Ends(r, UnstageAll(r)) /\ UnstageAll(r).result = "done"
<1>1. HeadOid(r) \in 1..Len(r.commits)
  BY HeadTreeType
<1>2. Throws(r, ResetHard(r)) /\ ResetHard(r).result = "done"
  BY <1>1, HardResetFollows, DoneEnds DEF ResetHard
<1>3. Throws(r, ResetToCommit(r, c)) /\ ResetToCommit(r, c).result = "done"
  BY HardResetFollows, DoneEnds DEF ResetToCommit
<1>4. Throws(r, AbortOperation(r)) /\ AbortOperation(r).result = "done"
  BY <1>1, HardResetFollows, DoneEnds DEF AbortOperation
<1>5. Ends(r, ResetMixed(r, c)) /\ ResetMixed(r, c).result = "done"
  BY MixedResetKeeps, DoneEnds DEF ResetMixed
<1>6. Ends(r, UnstageAll(r)) /\ UnstageAll(r).result = "done"
  BY <1>1, MixedResetKeeps, DoneEnds DEF UnstageAll
<1> QED BY <1>2, <1>3, <1>4, <1>5, <1>6

LEMMA ResetSoftEnds ==
    ASSUME NEW r, Good(r), NEW c \in 1..Len(r.commits), NEW out, out = ResetSoft(r, c)
    PROVE  Ends(r, out) /\ Plain(r, out)
<1>1. CASE r.doing.what = "merge" \/ r.unmerged # {}
  BY <1>1, RefusedEnds DEF ResetSoft
<1>2. CASE ~(r.doing.what = "merge" \/ r.unmerged # {})
  <2>1. out = Done(MovedTo(r, c))
    BY <1>2 DEF ResetSoft
  <2> QED BY <2>1, MovedToKeeps, DoneEnds DEF SameFiles
<1> QED BY <1>1, <1>2

LEMMA ParentTreeType ==
    ASSUME NEW r, Good(r), NEW c \in 1..Len(r.commits)
    PROVE  ParentTree(r, c) \in Contents
<1> DEFINE p == r.commits[c].parents
<1>1. p \in Seq(1..Len(r.commits))
  <2>1. p \in Seq(1..(c - 1)) /\ 1..(c - 1) \subseteq 1..Len(r.commits)
    BY MergeParents, HeadTreeType
  <2> QED BY <2>1, SeqMonotonic
<1>2. ParentTree(r, c) = IF p = <<>> THEN EmptyTree ELSE Tree(r, p[1])
  BY DEF ParentTree
<1> HIDE DEF p
<1>3. p # <<>> => p[1] \in 1..Len(r.commits)
  BY <1>1, ElementOfSeq
<1>4. EmptyTree \in Contents
  BY DEF EmptyTree, Contents
<1> QED BY <1>2, <1>3, <1>4, HeadTreeType

\* A pick is refused, stops on a conflict, or leaves its change in the index.
LEMMA PickedUpEnds ==
    ASSUME NEW r, Good(r), NEW base \in Contents, NEW theirs \in Contents,
           NEW doing \in DoingType, DoingOK(doing, Len(r.commits)),
           NEW out, out = PickedUp(Absorbed(r, base, theirs, doing))
    PROVE  Ends(r, out) /\ (out.result = "refused" => out.repo = r) /\ Steady(r, out.repo)
<1> DEFINE a == Absorbed(r, base, theirs, doing)
<1>1. /\ a.result \in {"done", "refused"} /\ (a.result = "refused" => a.repo = r)
      /\ Keeps(r, a.repo) /\ Good(a.repo) /\ SameHistory(r, a.repo)
  BY AbsorbedKeeps
<1>5. Steady(r, a.repo)
  BY <1>1, StillIsSteady
<1> HIDE DEF a
<1>2. CASE a.result = "refused"
  BY <1>1, <1>5, <1>2 DEF PickedUp, Ends, Result, a
<1>3. CASE a.result = "done" /\ a.repo.unmerged # {}
  BY <1>1, <1>5, <1>3 DEF PickedUp, Ends, Result, Outcome, a
<1>4. CASE a.result = "done" /\ a.repo.unmerged = {}
  <2> DEFINE s == [a.repo EXCEPT !.doing = NotDoing]
  <2>1. out = Done(s)
    BY <1>4 DEF PickedUp, a
  <2>2. NotDoing \in DoingType /\ DoingOK(NotDoing, Len(a.repo.commits))
    BY <1>1, NotDoingFits, HeadTreeType DEF NotDoingOK
  <2>3. Keeps(a.repo, s) /\ SameHistory(a.repo, s)
    BY <1>1, <2>2, DoingChange
  <2> HIDE DEF s
  <2>4. Steady(r, s)
    BY <1>1, <2>3, StillIsSteady DEF SameHistory, Still
  <2> QED BY <1>1, <2>1, <2>3, <2>4, KeepsOn, DoneEnds
<1> QED BY <1>1, <1>2, <1>3, <1>4

LEMMA PicksEnd ==
    ASSUME NEW r, Good(r), NEW c \in 1..Len(r.commits),
           NEW out, out = CherryPick(r, c) \/ out = Revert(r, c)
    PROVE  Ends(r, out) /\ (out.result = "refused" => out.repo = r) /\ Steady(r, out.repo)
<1> DEFINE picking   == [what |-> "cherry-pick", other |-> c]
           reverting == [what |-> "revert", other |-> c]
<1>1. /\ Tree(r, c) \in Contents /\ ParentTree(r, c) \in Contents
      /\ picking \in DoingType /\ reverting \in DoingType
      /\ DoingOK(picking, Len(r.commits)) /\ DoingOK(reverting, Len(r.commits))
  BY HeadTreeType, ParentTreeType DEF DoingType, DoingOK
<1>2. CASE Len(r.commits[c].parents) > 1
  <2>1. out = Refused(r)
    BY <1>2 DEF CherryPick, Revert
  <2>2. out.repo = r
    BY <2>1 DEF Refused, Outcome
  <2> QED BY <2>1, <2>2, RefusedEnds, SteadySame
<1>3. CASE ~(Len(r.commits[c].parents) > 1)
  <2>1. \/ out = PickedUp(Absorbed(r, ParentTree(r, c), Tree(r, c), picking))
        \/ out = PickedUp(Absorbed(r, Tree(r, c), ParentTree(r, c), reverting))
    BY <1>3 DEF CherryPick, Revert
  <2> HIDE DEF picking, reverting
  <2> QED BY <1>1, <2>1, PickedUpEnds
<1> QED BY <1>2, <1>3

\* A merge without conflicts is a commit of both sides.
LEMMA MergeCommits ==
    ASSUME NEW r, Good(r), NEW base \in Contents, NEW c \in 1..Len(r.commits),
           NEW merged, merged = Absorbed(r, base, Tree(r, c), Merging(c)),
           NEW s, s = Finished(merged.repo, <<HeadOid(r), c>>)
    PROVE  /\ merged.result = "refused" => merged.repo = r
           /\ merged.result # "refused" => /\ Keeps(r, s) /\ Keeps(r, merged.repo)
                                          /\ Onward(r, s) /\ Steady(r, merged.repo)
                                          /\ s.server = r.server
                                          /\ merged.repo.server = r.server
<1>1. /\ Merging(c) \in DoingType /\ DoingOK(Merging(c), Len(r.commits))
      /\ Tree(r, c) \in Contents
  BY HeadTreeType DEF Merging, DoingType, DoingOK
<1> DEFINE m == merged.repo
           parents == <<HeadOid(r), c>>
<1>2. /\ merged.result = "refused" => m = r
      /\ Keeps(r, m) /\ Good(m) /\ SameHistory(r, m) /\ HeadOid(m) = HeadOid(r)
  BY <1>1, AbsorbedKeeps
<1>3. parents \in Seq(1..Len(m.commits))
  <2>1. c \in 1..Len(m.commits)
    BY <1>2 DEF SameHistory
  <2> QED BY <1>2, <2>1, MergeParents
<1> HIDE DEF parents
<1>4. HeadOid(m) \in ToSet(parents)
  <2>1. <<HeadOid(r), c>>[1] = HeadOid(r) /\ 1 \in DOMAIN <<HeadOid(r), c>>
    OBVIOUS
  <2> QED BY <1>2, <2>1 DEF ToSet, parents
<1>5. Keeps(m, s) /\ s.server = m.server /\ Onward(m, s)
  <2>1. s = Finished(m, parents)
    BY DEF parents
  <2> HIDE DEF m
  <2>2. Keeps(m, s) /\ s.server = m.server
    BY <1>2, <1>3, <2>1, CommittedAndDone
  <2>3. Onward(m, s)
    BY <1>2, <1>3, <1>4, <2>1, CommittedBranches
  <2> QED BY <2>2, <2>3
<1>6. Onward(r, s) /\ Steady(r, m)
  BY <1>2, <1>5, AlikeSame, AlikeOn
<1> QED BY <1>2, <1>5, <1>6, KeepsOn DEF SameHistory

\* A fast-forward: the files of the commit, then HEAD.
LEMMA AheadKeeps ==
    ASSUME NEW r, Good(r), NEW c \in 1..Len(r.commits),
           NEW ahead, ahead = CheckoutSafe(r, HeadTree(r), Tree(r, c))
    PROVE  /\ ahead.result = "refused" => ahead.repo = r
           /\ Keeps(r, ahead.repo)
           /\ Keeps(r, MovedTo(ahead.repo, c)) /\ MovedTo(ahead.repo, c).doing = r.doing
           /\ MovedTo(ahead.repo, c).server = r.server
           /\ Steady(r, ahead.repo)
           /\ HeadOid(r) \in Ancestors(r, c) => Onward(r, MovedTo(ahead.repo, c))
<1>1. /\ HeadTree(r) \in Contents /\ Tree(r, c) \in Contents
      /\ \A f \in Path : HeadTree(r)[f] \subseteq Recorded(r)
  BY HeadTreeType, Places
<1>2. /\ ahead.result = "refused" => ahead.repo = r
      /\ Keeps(r, ahead.repo) /\ Good(ahead.repo)
      /\ ahead.repo.commits = r.commits /\ ahead.repo.doing = r.doing
      /\ ahead.repo.server = r.server /\ SameHistory(r, ahead.repo)
  BY <1>1, CheckoutSafeKeeps DEF SameHistory, Keeps, Follows
<1>3. /\ Keeps(ahead.repo, MovedTo(ahead.repo, c)) /\ MovedTo(ahead.repo, c).doing = r.doing
      /\ MovedTo(ahead.repo, c).server = r.server
  BY <1>2, MovedToKeeps DEF SameFiles
<1>4. Alike(r, ahead.repo)
  BY <1>2, AlikeSame
<1>5. Steady(r, ahead.repo)
  BY <1>4, AlikeOn
<1>6. ASSUME HeadOid(r) \in Ancestors(r, c) PROVE Onward(r, MovedTo(ahead.repo, c))
  <2>1. Ancestors(ahead.repo, c) = Ancestors(r, c) /\ c \in 1..Len(ahead.repo.commits)
    BY <1>2, AncestorsStay DEF Keeps, Follows
  <2>2. HeadOid(ahead.repo) \in Ancestors(ahead.repo, c)
    BY <1>4, <1>6, <2>1 DEF Alike
  <2>3. Onward(ahead.repo, MovedTo(ahead.repo, c))
    BY <1>2, <2>1, <2>2, MovedOnward
  <2> QED BY <1>4, <2>3, AlikeOn
<1> QED BY <1>2, <1>3, <1>5, <1>6, KeepsOn

LEMMA MergeBranchEnds ==
    ASSUME NEW r, Good(r), NEW name \in Branch \cup Remote, NEW out, out = MergeBranch(r, name)
    PROVE  /\ Ends(r, out)
           /\ out.result = "refused" => out.repo = r \/ r.branch = None
           /\ Forward(r, out.repo)
<1> DEFINE ours   == HeadOid(r)
           theirs == r.refs[name]
           ahead  == CheckoutSafe(r, HeadTree(r), Tree(r, theirs))
           base   == BaseTree(r, ours, theirs)
           merged == Absorbed(r, base, Tree(r, theirs), Merging(theirs))
           s      == Finished(merged.repo, <<ours, theirs>>)
<1>1. CASE theirs = 0
  <2>1. out = Refused(r)
    BY <1>1 DEF MergeBranch
  <2>2. Forward(r, out.repo)
    BY <2>1, SteadySame, IsForward DEF Refused, Outcome
  <2> QED BY <2>1, <2>2, RefusedEnds DEF Plain
<1>2. CASE theirs # 0
  <2>1. theirs \in 1..Len(r.commits) /\ ours \in 1..Len(r.commits)
    <3>1. name \in Ref
      BY DEF Ref
    <3>2. theirs \in 0..Len(r.commits) /\ Len(r.commits) \in Nat
      BY <3>1, RefsType, HeadTreeType
    <3> QED BY <1>2, <3>2, HeadTreeType
  <2>2. base \in Contents
    BY <2>1, BaseTreeType
  <2>3. \/ out = Done(r)
        \/ (ahead.result = "refused" \/ r.branch = None) /\ out = Refused(ahead.repo)
        \/ ours \in Ancestors(r, theirs) /\ out = Done(MovedTo(ahead.repo, theirs))
        \/ merged.result = "refused" /\ out = merged
        \/ merged.result # "refused" /\ out = Outcome("conflicts", merged.repo)
        \/ merged.result # "refused" /\ out = Done(s)
    BY <1>2 DEF MergeBranch, Merging, Finished
  <2>4. /\ ahead.result = "refused" => ahead.repo = r
        /\ Keeps(r, ahead.repo) /\ Keeps(r, MovedTo(ahead.repo, theirs))
        /\ Steady(r, ahead.repo)
        /\ ours \in Ancestors(r, theirs) => Onward(r, MovedTo(ahead.repo, theirs))
    BY <2>1, AheadKeeps
  <2>5. /\ merged.result = "refused" => merged.repo = r
        /\ merged.result # "refused" => /\ Keeps(r, merged.repo) /\ Keeps(r, s)
                                        /\ Onward(r, s) /\ Steady(r, merged.repo)
    <3> HIDE DEF merged, s, base, theirs, ahead
    <3>1. s = Finished(merged.repo, <<HeadOid(r), theirs>>)
      BY DEF s
    <3>2. merged = Absorbed(r, base, Tree(r, theirs), Merging(theirs))
      BY DEF merged
    <3> QED BY <2>1, <2>2, <3>1, <3>2, MergeCommits
  <2> HIDE DEF theirs, ours, ahead, base, merged, s
  <2>6. Forward(r, r)
    BY SteadySame, IsForward
  <2>7. CASE out = Done(r)
    BY <2>6, <2>7, KeepsSame, DoneEnds
  <2>8. CASE (ahead.result = "refused" \/ r.branch = None) /\ out = Refused(ahead.repo)
    BY <2>4, <2>8, IsForward DEF Refused, Outcome, Ends, Result
  <2>9. CASE ours \in Ancestors(r, theirs) /\ out = Done(MovedTo(ahead.repo, theirs))
    BY <2>4, <2>9, IsForward, DoneEnds
  <2>10. CASE merged.result = "refused" /\ out = merged
    BY <2>5, <2>6, <2>10, KeepsSame DEF Ends, Result
  <2>11. CASE merged.result # "refused" /\ out = Outcome("conflicts", merged.repo)
    BY <2>5, <2>11, IsForward DEF Outcome, Ends, Result
  <2>12. CASE merged.result # "refused" /\ out = Done(s)
    BY <2>5, <2>12, IsForward, DoneEnds
  <2> QED BY <2>3, <2>7, <2>8, <2>9, <2>10, <2>11, <2>12
<1> QED BY <1>1, <1>2

\* What a fetch leaves of the repository, when the references it moves are not branches.
LEMMA FetchedKeeps ==
    ASSUME NEW r, Good(r), NEW refs \in [Ref -> 0..Len(r.commits)],
           \A n \in Branch : refs[n] = r.refs[n],
           NEW s, s = [r EXCEPT !.refs = refs]
    PROVE  /\ Keeps(r, s) /\ Good(s) /\ Harmless(r, s)
           /\ HeadOid(s) = HeadOid(r) /\ HeadTree(s) = HeadTree(r)
           /\ \A c : Tree(s, c) = Tree(r, c)
           /\ Alike(r, s)
<1>1. /\ s \in Repository /\ Harmless(r, s) /\ s.refs = refs
  BY NatRefs DEF Good, Repository, Harmless, SameFiles
<1>2. r.branch # None => s.refs[r.branch] # 0
  BY <1>1, RefsType
<1>3. Keeps(r, s) /\ Good(s)
  BY <1>1, <1>2, RefsChange
<1>4. HeadOid(s) = HeadOid(r)
  BY <1>1, RefsType DEF HeadOid, Harmless
<1>5. Alike(r, s)
  BY <1>1, <1>4 DEF Alike, Harmless
<1> QED BY <1>1, <1>3, <1>4, <1>5 DEF HeadTree, Tree, Harmless

LEMMA FetchEnds ==
    ASSUME NEW r, Good(r), NEW out, out = Fetch(r)
    PROVE  /\ Ends(r, out) /\ out.result = "done" /\ out.repo.doing = r.doing
           /\ out.repo.server = r.server /\ Steady(r, out.repo)
<1> DEFINE refs == [n \in Ref |-> IF n \in Remote THEN r.server[n] ELSE r.refs[n]]
           s    == [r EXCEPT !.refs = refs]
<1>1. out = Done(s)
  BY DEF Fetch
<1>2. refs \in [Ref -> 0..Len(r.commits)] /\ \A n \in Branch : refs[n] = r.refs[n]
  <2>1. \A n \in Branch : n \notin Remote /\ n \in Ref
    BY GitOperationsAssumption DEF GitOperationsAssumption, Ref
  <2> QED BY <2>1, RefsType
<1> HIDE DEF refs
<1>3. Keeps(r, s) /\ s.doing = r.doing /\ s.server = r.server /\ Steady(r, s)
  BY <1>2, FetchedKeeps, AlikeOn DEF Harmless, SameFiles
<1> HIDE DEF s
<1> QED BY <1>1, <1>3, DoneEnds

LEMMA PushToEnds ==
    ASSUME NEW r, Good(r), NEW name \in Remote, NEW tracks, NEW force \in BOOLEAN,
           NEW out, out = PushTo(r, name, tracks, force)
    PROVE  /\ Ends(r, out) /\ Plain(r, out) /\ out.repo.commits = r.commits
           /\ \A b \in Branch : out.repo.refs[b] = r.refs[b]
           /\ \A m \in Remote : \/ out.repo.server[m] = r.server[m] \/ r.server[m] = 0 \/ force
                               \/ /\ out.repo.server[m] = HeadOid(r)
                                  /\ r.server[m] \in Ancestors(out.repo, HeadOid(r))
<1> DEFINE server   == [r.server EXCEPT ![name] = HeadOid(r)]
           refs     == [r.refs EXCEPT ![name] = HeadOid(r)]
           upstream == [r.upstream EXCEPT ![r.branch] = IF tracks = 1 THEN name ELSE @]
           s        == [r EXCEPT !.server = server, !.refs = refs, !.upstream = upstream]
<1> DEFINE ahead == force \/ r.server[name] = 0 \/ r.server[name] \in Ancestors(r, HeadOid(r))
<1>1. out = Refused(r) \/ (r.branch # None /\ ahead /\ out = Done(s))
  BY DEF PushTo
<1>2. CASE out = Refused(r)
  BY <1>2, RefusedEnds DEF Refused, Outcome
<1>3. CASE r.branch # None /\ ahead /\ out = Done(s)
  <2>1. /\ HeadOid(r) \in 0..Len(r.commits) /\ name \in Ref /\ name # r.branch
        /\ r.branch \in Branch /\ r.branch \in Ref /\ Len(r.commits) \in Nat
    <3>1. r.branch \in Branch /\ r.branch \in Ref /\ name \in Ref
      BY <1>3, RefsType
    <3>2. name # r.branch
      BY <3>1, GitOperationsAssumption DEF GitOperationsAssumption
    <3> QED BY <3>1, <3>2, HeadTreeType
  <2>2. /\ server \in [Remote -> 0..Len(r.commits)] /\ refs \in [Ref -> 0..Len(r.commits)]
        /\ upstream \in [Branch -> Remote \cup {None}] /\ refs[r.branch] = r.refs[r.branch]
    BY <2>1, RefsType
  <2> HIDE DEF server, refs, upstream
  <2>3. /\ \A n \in Ref : refs[n] \in Nat /\ refs[n] <= Len(r.commits)
        /\ \A m \in Remote : server[m] \in Nat /\ server[m] <= Len(r.commits)
    BY <2>1, <2>2
  <2>4. refs \in [Ref -> Nat] /\ server \in [Remote -> Nat]
    BY <2>2, <2>3
  <2>12. \A b \in Branch : refs[b] = r.refs[b]
    BY NamesApart, RefsType DEF refs
  <2>13. \A m \in Remote : server[m] = r.server[m] \/ (m = name /\ server[m] = HeadOid(r))
    BY RefsType DEF server
  <2>5. /\ s \in Repository /\ SameFiles(r, s) /\ s.commits = r.commits /\ s.branch = r.branch
        /\ s.refs = refs /\ s.server = server
    BY <2>2, <2>4 DEF Good, Repository, SameFiles
  <2> HIDE DEF s
  <2>6. RefsOK(s) /\ HeadOK(s)
    <3>1. HeadOid(s) = HeadOid(r)
      BY <1>3, <2>2, <2>5 DEF HeadOid
    <3> QED BY <2>3, <2>5, <3>1, HeadTreeType DEF RefsOK, HeadOK
  <2>7. Keeps(r, s) /\ Good(s) /\ Extends(r, s)
    BY <2>5, <2>6, HeadChange DEF Keeps, Follows
  <2>8. Ancestors(s, HeadOid(r)) = Ancestors(r, HeadOid(r))
    BY <2>7, AncestorsStay, HeadTreeType
  <2>9. \A m \in Remote : \/ s.server[m] = r.server[m] \/ r.server[m] = 0 \/ force
                           \/ /\ s.server[m] = HeadOid(r)
                              /\ r.server[m] \in Ancestors(s, HeadOid(r))
    BY <1>3, <2>13, <2>5, <2>8
  <2>10. Ends(r, out) /\ Plain(r, out)
    BY <1>3, <2>5, <2>7, DoneEnds DEF SameFiles
  <2>11. out.repo = s
    BY <1>3 DEF Done, Outcome
  <2> QED BY <2>12, <2>5, <2>9, <2>10, <2>11
<1> QED BY <1>1, <1>2, <1>3

LEMMA PullEnds ==
    ASSUME NEW r, Good(r), NEW name \in Remote, NEW out, out = Pull(r, name)
    PROVE  /\ Ends(r, out)
           /\ out.result = "refused" => Harmless(r, out.repo)
           /\ r.doing.what = "merge" => out.repo.doing = r.doing
           /\ out.repo.server = r.server /\ Forward(r, out.repo)
<1> DEFINE ours    == HeadOid(r)
           theirs  == r.server[name]
           refs    == [r.refs EXCEPT ![name] = theirs]
           fetched == [r EXCEPT !.refs = refs]
           ahead   == CheckoutSafe(fetched, HeadTree(r), Tree(r, theirs))
           base    == BaseTree(r, ours, theirs)
           merged  == Absorbed(fetched, base, Tree(r, theirs), Merging(theirs))
           s       == Finished(merged.repo, <<ours, theirs>>)
<1>1. CASE theirs = 0 \/ r.unmerged # {} \/ r.doing.what = "merge"
  <2>1. out = Refused(r)
    BY <1>1 DEF Pull
  <2>2. Forward(r, out.repo)
    BY <2>1, SteadySame, IsForward DEF Refused, Outcome
  <2> QED BY <2>1, <2>2, RefusedEnds, HarmlessSame DEF Plain, Refused, Outcome
<1>2. CASE ~(theirs = 0 \/ r.unmerged # {} \/ r.doing.what = "merge")
  <2>1. /\ theirs \in 1..Len(r.commits) /\ ours \in 1..Len(r.commits)
        /\ name \in Ref /\ \A n \in Branch : n # name /\ n \in Ref
    <3>1. theirs \in 0..Len(r.commits) /\ Len(r.commits) \in Nat /\ name \in Ref
          /\ ours \in 1..Len(r.commits)
      BY RefsType, HeadTreeType
    <3>2. \A n \in Branch : n # name /\ n \in Ref
      BY GitOperationsAssumption DEF GitOperationsAssumption, Ref
    <3> QED BY <1>2, <3>1, <3>2
  <2>2. refs \in [Ref -> 0..Len(r.commits)] /\ \A n \in Branch : refs[n] = r.refs[n]
    <3>1. theirs \in 0..Len(r.commits)
      BY <2>1
    <3> QED BY <2>1, <3>1, RefsType
  <2>3. fetched = [r EXCEPT !.refs[name] = theirs]
    OBVIOUS
  <2>4. \/ out = Done(fetched)
        \/ out = Refused(fetched)
        \/ ours \in Ancestors(r, theirs) /\ out = Done(MovedTo(ahead.repo, theirs))
        \/ merged.result # "refused" /\ out = Outcome("conflicts", merged.repo)
        \/ merged.result # "refused" /\ out = Done(s)
    BY <1>2, <2>3 DEF Pull, Merging, Finished
  <2> HIDE DEF refs
  <2>5. /\ Keeps(r, fetched) /\ Good(fetched) /\ Harmless(r, fetched)
        /\ HeadOid(fetched) = ours /\ HeadTree(fetched) = HeadTree(r)
        /\ Tree(fetched, theirs) = Tree(r, theirs) /\ Alike(r, fetched)
    BY <2>2, FetchedKeeps
  <2>6. theirs \in 1..Len(fetched.commits)
    BY <2>1, <2>5 DEF Harmless
  <2>7. base \in Contents
    BY <2>1, BaseTreeType
  <2> HIDE DEF fetched
  <2>8. /\ Keeps(fetched, MovedTo(ahead.repo, theirs))
        /\ MovedTo(ahead.repo, theirs).server = fetched.server
        /\ HeadOid(fetched) \in Ancestors(fetched, theirs)
              => Onward(fetched, MovedTo(ahead.repo, theirs))
    BY <2>5, <2>6, AheadKeeps
  <2>9. merged.result # "refused" => /\ Keeps(fetched, merged.repo) /\ Keeps(fetched, s)
                                     /\ Onward(fetched, s) /\ Steady(fetched, merged.repo)
                                     /\ s.server = fetched.server
                                     /\ merged.repo.server = fetched.server
    <3> HIDE DEF merged, s, base, theirs, ours, ahead
    <3>1. s = Finished(merged.repo, <<HeadOid(fetched), theirs>>)
      BY <2>5 DEF s
    <3>2. merged = Absorbed(fetched, base, Tree(fetched, theirs), Merging(theirs))
      BY <2>5 DEF merged
    <3> QED BY <2>5, <2>6, <2>7, <3>1, <3>2, MergeCommits
  <2> HIDE DEF theirs, ours, ahead, base, merged, s
  <2>15. Forward(r, fetched)
    BY <2>5, AlikeOn, IsForward
  <2>16. ours \in Ancestors(r, theirs) => Forward(r, MovedTo(ahead.repo, theirs))
    <3>1. Ancestors(fetched, theirs) = Ancestors(r, theirs)
      BY <2>1, <2>5, AncestorsStay DEF Keeps, Follows
    <3>2. ours \in Ancestors(r, theirs) => Onward(fetched, MovedTo(ahead.repo, theirs))
      BY <2>5, <2>8, <3>1
    <3> QED BY <2>5, <3>2, AlikeOn, IsForward
  <2>17. merged.result # "refused" => Forward(r, merged.repo) /\ Forward(r, s)
    <3>1. ASSUME merged.result # "refused" PROVE Steady(r, merged.repo)
      BY <2>5, <2>9, <3>1 DEF Alike, Steady
    <3>2. ASSUME merged.result # "refused" PROVE Onward(r, s)
      BY <2>5, <2>9, <3>2, AlikeOn
    <3> QED BY <3>1, <3>2, IsForward
  <2>10. CASE out = Done(fetched)
    BY <1>2, <2>5, <2>15, <2>10, DoneEnds DEF Harmless
  <2>11. CASE out = Refused(fetched)
    BY <1>2, <2>5, <2>15, <2>11 DEF Harmless, Refused, Outcome, Ends, Result
  <2>12. CASE ours \in Ancestors(r, theirs) /\ out = Done(MovedTo(ahead.repo, theirs))
    BY <1>2, <2>5, <2>8, <2>16, <2>12, KeepsOn, DoneEnds DEF Harmless
  <2>13. CASE merged.result # "refused" /\ out = Outcome("conflicts", merged.repo)
    BY <1>2, <2>5, <2>9, <2>17, <2>13, KeepsOn DEF Harmless, Outcome, Ends, Result
  <2>14. CASE merged.result # "refused" /\ out = Done(s)
    BY <1>2, <2>5, <2>9, <2>17, <2>14, KeepsOn, DoneEnds DEF Harmless
  <2> QED BY <2>4, <2>10, <2>11, <2>12, <2>13, <2>14
<1> QED BY <1>1, <1>2

-----------------------------------------------------------------------------
(* The rebase                                                              *)

Outcomes == [result : Result, repo : Repository]

LEMMA RecommittedKeeps ==
    ASSUME NEW r, Good(r), NEW action, NEW s, s = Recommitted(r, action)
    PROVE  Keeps(r, s) /\ Good(s) /\ s.doing = r.doing
<1> DEFINE parents == IF action \in {"squash", "fixup"} THEN r.commits[HeadOid(r)].parents
                      ELSE <<HeadOid(r)>>
<1>1. s = Committed(r, parents)
  BY DEF Recommitted
<1>2. parents \in Seq(1..Len(r.commits))
  BY MergeParents
<1> HIDE DEF parents
<1> QED BY <1>1, <1>2, CommittedKeeps DEF SameFiles

\* What a rebase has to do, and the step put back in front of it.
LEMMA StepsFit ==
    ASSUME NEW n \in Nat, NEW doing \in DoingType, doing.what = "rebase", DoingOK(doing, n),
           NEW step \in StepType, step.commit \in 1..n,
           NEW d, d = [doing EXCEPT !.todo = <<step>> \o @]
    PROVE  d \in DoingType /\ DoingOK(d, n) /\ d.what = "rebase"
<1> DEFINE todo == <<step>> \o doing.todo
<1>1. doing.todo \in Seq(StepType) /\ \A k \in 1..Len(doing.todo) : doing.todo[k].commit \in 1..n
  BY DEF DoingType, DoingOK
<1>2. <<step>> \in Seq(StepType) /\ Len(<<step>>) = 1 /\ <<step>>[1] = step
  OBVIOUS
<1>3. /\ todo \in Seq(StepType) /\ Len(todo) = 1 + Len(doing.todo)
      /\ \A i \in 1..Len(todo) : todo[i] = IF i <= 1 THEN <<step>>[i] ELSE doing.todo[i - 1]
  BY <1>1, <1>2, ConcatProperties
<1>4. d = [doing EXCEPT !.todo = todo]
  OBVIOUS
<1> HIDE DEF todo
<1>5. \A k \in 1..Len(todo) : todo[k].commit \in 1..n
  <2> TAKE k \in 1..Len(todo)
  <2>1. Len(doing.todo) \in Nat /\ Len(todo) \in Nat
    BY <1>1, <1>3
  <2>2. CASE k = 1
    BY <1>2, <1>3, <2>2
  <2>3. CASE k # 1
    <3>1. k - 1 \in 1..Len(doing.todo) /\ ~(k <= 1)
      BY <1>3, <2>1, <2>3
    <3>2. todo[k] = doing.todo[k - 1]
      BY <1>3, <3>1
    <3> QED BY <1>1, <3>1, <3>2
  <2> QED BY <2>2, <2>3
<1>6. d \in DoingType /\ d.what = "rebase" /\ d.todo = todo
  BY <1>3, <1>4 DEF DoingType
<1> QED BY <1>5, <1>6 DEF DoingOK

\* A step that is refused, or that stops, leaves the rebase to be continued.
LEMMA TakenEnds ==
    ASSUME NEW r, Good(r), NEW step \in StepType, step.commit \in 1..Len(r.commits),
           NEW paused \in DoingType, paused.what = "rebase", DoingOK(paused, Len(r.commits)),
           NEW picked,
           picked = Absorbed(r, ParentTree(r, step.commit), Tree(r, step.commit), paused),
           NEW out, out = Taken(r, step, paused, picked)
    PROVE  Ends(r, out) /\ out \in Outcomes /\ out.repo.doing.what = "rebase"
<1>1. /\ picked.result \in {"done", "refused"}
      /\ Keeps(r, picked.repo) /\ Good(picked.repo) /\ picked.repo.commits = r.commits
      /\ picked.result = "done" => picked.repo.doing = paused
  <2> DEFINE base   == ParentTree(r, step.commit)
             theirs == Tree(r, step.commit)
  <2>1. base \in Contents /\ theirs \in Contents /\ picked = Absorbed(r, base, theirs, paused)
    BY HeadTreeType, ParentTreeType
  <2> HIDE DEF base, theirs
  <2> QED BY <2>1, AbsorbedKeeps DEF SameHistory
<1>2. CASE picked.result = "refused"
  <2> DEFINE d == [paused EXCEPT !.todo = <<step>> \o @]
             s == [r EXCEPT !.doing = d]
  <2>1. out = Refused(s)
    BY <1>2 DEF Taken
  <2>2. d \in DoingType /\ DoingOK(d, Len(r.commits)) /\ d.what = "rebase"
    BY HeadTreeType, StepsFit
  <2> HIDE DEF d
  <2>3. Keeps(r, s) /\ Good(s) /\ s.doing = d
    BY <2>2, DoingChange
  <2> HIDE DEF s
  <2> QED BY <2>1, <2>2, <2>3 DEF Refused, Outcome, Ends, Result, Outcomes, Good
<1>3. CASE picked.result = "done"
  <2>1. \/ out = Done(MovedTo(picked.repo, step.commit))
        \/ out = Outcome("conflicts", picked.repo)
        \/ out = Refused(picked.repo)
        \/ out = Done(Recommitted(picked.repo, step.action))
    BY <1>3 DEF Taken
  <2>2. CASE out = Done(MovedTo(picked.repo, step.commit))
    <3> DEFINE s == MovedTo(picked.repo, step.commit)
    <3>1. Keeps(picked.repo, s) /\ Good(s) /\ s.doing = paused
      BY <1>1, <1>3, MovedToKeeps DEF SameFiles
    <3> HIDE DEF s
    <3>2. Keeps(r, s)
      BY <1>1, <3>1, KeepsOn
    <3> QED BY <2>2, <3>1, <3>2 DEF s, Done, Outcome, Ends, Result, Outcomes, Good
  <2>3. CASE out = Outcome("conflicts", picked.repo)
    BY <1>1, <1>3, <2>3 DEF Outcome, Ends, Result, Outcomes, Good
  <2>4. CASE out = Refused(picked.repo)
    BY <1>1, <1>3, <2>4 DEF Refused, Outcome, Ends, Result, Outcomes, Good
  <2>5. CASE out = Done(Recommitted(picked.repo, step.action))
    <3> DEFINE s == Recommitted(picked.repo, step.action)
    <3>1. Keeps(picked.repo, s) /\ Good(s) /\ s.doing = paused
      BY <1>1, <1>3, RecommittedKeeps
    <3> HIDE DEF s
    <3>2. Keeps(r, s)
      BY <1>1, <3>1, KeepsOn
    <3> QED BY <2>5, <3>1, <3>2 DEF s, Done, Outcome, Ends, Result, Outcomes, Good
  <2> QED BY <2>1, <2>2, <2>3, <2>4, <2>5
<1> QED BY <1>1, <1>2, <1>3

LEMMA StuckEnds ==
    ASSUME NEW r, Good(r), r.doing.what = "rebase",
           NEW step \in StepType, step.commit \in 1..Len(r.commits),
           NEW rest \in Seq(StepType),
           \A k \in 1..Len(rest) : rest[k].commit \in 1..Len(r.commits),
           NEW out, out = Stuck(r, step, rest)
    PROVE  /\ Ends(r, out) /\ out \in Outcomes /\ out.repo.doing.what = "rebase"
           /\ out.result = "refused" /\ SameHistory(r, out.repo)
           /\ out.repo.doing.of = r.doing.of
<1> DEFINE before == [r.doing EXCEPT !.other = 0, !.todo = rest]
           after  == [r.doing EXCEPT !.other = 0, !.todo = <<step>> \o rest]
           s      == [r EXCEPT !.doing = after]
<1>1. /\ before \in DoingType /\ before.what = "rebase" /\ before.todo = rest
      /\ after = [before EXCEPT !.todo = <<step>> \o @] /\ after.of = r.doing.of
  BY DEF Good, Repository, DoingType
<1>2. out = Refused(s)
  BY DEF Stuck
<1> HIDE DEF before, after
<1>3. DoingOK(before, Len(r.commits))
  BY <1>1 DEF DoingOK
<1>4. after \in DoingType /\ DoingOK(after, Len(r.commits)) /\ after.what = "rebase"
  BY <1>1, <1>3, HeadTreeType, StepsFit
<1>5. Keeps(r, s) /\ Good(s) /\ s.doing = after /\ SameHistory(r, s)
  BY <1>4, DoingChange
<1> HIDE DEF s
<1>6. out.result = "refused" /\ out.repo = s /\ s \in Repository /\ out \in Outcomes
  BY <1>2, <1>5 DEF Refused, Outcome, Result, Outcomes, Good
<1> QED BY <1>1, <1>4, <1>5, <1>6 DEF Ends, Result

\* The outcomes the steps of a rebase of r go through.
Replaying(r) == {o \in Outcomes : Ends(r, o) /\ o.repo.doing.what = "rebase"}

LEMMA PickNextStays ==
    ASSUME NEW r, Good(r), NEW o \in Replaying(r),
           NEW step \in StepType, step.commit \in 1..Len(r.commits),
           NEW rest \in Seq(StepType),
           \A k \in 1..Len(rest) : rest[k].commit \in 1..Len(r.commits)
    PROVE  PickNext(o, step, rest) \in Replaying(r)
<1> DEFINE m == o.repo
           paused == [m.doing EXCEPT !.other = step.commit, !.action = step.action, !.todo = rest]
           out    == Pick(m, step, rest)
<1>1. Ends(r, o) /\ Keeps(r, m) /\ Good(m) /\ m.doing.what = "rebase" /\ m.doing \in DoingType
      /\ m \in Repository
  BY DEF Replaying, Ends, Keeps, Follows, Good, Repository
<1>2. CASE o.result # "done"
  BY <1>2 DEF PickNext
<1>3. CASE o.result = "done"
  <2>1. PickNext(o, step, rest) = out
    BY <1>3 DEF PickNext
  <2>2. \A c \in 1..Len(r.commits) : c \in 1..Len(m.commits)
    BY <1>1, HeadTreeType DEF Keeps, Follows, Extends
  <2>3. paused \in DoingType /\ paused.what = "rebase" /\ paused.todo = rest
    BY <1>1 DEF DoingType, StepType
  <2>4. out = IF step.action = "drop" THEN Done(m)
              ELSE IF Untakable(m, step) THEN Stuck(m, step, rest)
              ELSE Taken(m, step, paused,
                         Absorbed(m, ParentTree(m, step.commit), Tree(m, step.commit), paused))
    BY DEF Pick
  <2> HIDE DEF paused, out, m
  <2>5. DoingOK(paused, Len(m.commits))
    BY <2>2, <2>3 DEF DoingOK
  <2>6. CASE step.action = "drop"
    BY <1>1, <2>1, <2>4, <2>6 DEF Done, Outcome, Replaying, Outcomes, Ends, Result
  <2>7. CASE step.action # "drop"
    <3>1. Ends(m, out) /\ out \in Outcomes /\ out.repo.doing.what = "rebase"
      <4>1. CASE Untakable(m, step)
        BY <1>1, <2>2, <2>4, <2>7, <4>1, StuckEnds
      <4>2. CASE ~Untakable(m, step)
        BY <1>1, <2>2, <2>3, <2>4, <2>5, <2>7, <4>2, TakenEnds
      <4> QED BY <4>1, <4>2
    <3>2. Ends(r, out)
      BY <1>1, <3>1, KeepsOn DEF Ends
    <3> QED BY <2>1, <3>1, <3>2 DEF Replaying
  <2> QED BY <2>6, <2>7
<1> QED BY <1>2, <1>3

\* The outcomes of n steps.
Run(r, n) ==
    LET run[k \in 0..n] ==
            IF k = 0 THEN Done(r)
            ELSE PickNext(run[k - 1], r.doing.todo[k], SubSeq(r.doing.todo, k + 1, n))
    IN  run

LEMMA RunStays ==
    ASSUME NEW r, NEW n \in Nat, NEW S, Done(r) \in S,
           \A k \in 1..n : \A o \in S :
              PickNext(o, r.doing.todo[k], SubSeq(r.doing.todo, k + 1, n)) \in S
    PROVE  \A k \in 0..n : Run(r, n)[k] \in S
<1> DEFINE after(o, k) == PickNext(o, r.doing.todo[k], SubSeq(r.doing.todo, k + 1, n))
           next == [k \in 1..n |-> [o \in S |-> after(o, k)]]
           run[k \in 0..n] ==
               IF k = 0 THEN Done(r)
               ELSE PickNext(run[k - 1], r.doing.todo[k], SubSeq(r.doing.todo, k + 1, n))
<1>1. next \in Steps(S, n)
  BY DEF Steps
<1>2. PICK f : Runs(f, S, n, Done(r), next)
  <2> HIDE DEF next
  <2> QED BY <1>1, RecursionExists
<1>3. f = [k \in 0..n |-> IF k = 0 THEN Done(r)
              ELSE PickNext(f[k - 1], r.doing.todo[k], SubSeq(r.doing.todo, k + 1, n))]
  <2> HIDE DEF after
  <2>1. f \in [0..n -> S] /\ f[0] = Done(r) /\ \A k \in 1..n : f[k] = next[k][f[k - 1]]
    BY <1>2 DEF Runs
  <2>2. \A k \in 1..n : f[k] = after(f[k - 1], k)
    <3> TAKE k \in 1..n
    <3>1. k - 1 \in 0..n
      OBVIOUS
    <3> QED BY <2>1, <3>1
  <2>3. f = [k \in 0..n |-> IF k = 0 THEN Done(r) ELSE after(f[k - 1], k)]
    BY <2>1, <2>2
  <2> QED BY <2>3 DEF after
<1>4. run = [k \in 0..n |-> IF k = 0 THEN Done(r)
              ELSE PickNext(run[k - 1], r.doing.todo[k], SubSeq(r.doing.todo, k + 1, n))]
  BY <1>3, Zenon
<1>5. Run(r, n) = run
  BY DEF Run
<1> HIDE DEF run
<1>6. run[0] \in S /\ \A k \in 1..n : run[k - 1] \in S => run[k] \in S
  <2>1. run[0] \in S
    BY <1>4
  <2>2. ASSUME NEW k \in 1..n PROVE run[k] = after(run[k - 1], k)
    <3>1. k \in 0..n /\ k # 0
      OBVIOUS
    <3> QED BY <1>4, <3>1
  <2> QED BY <2>1, <2>2
<1>7. \A k \in 0..n : run[k] \in S
  <2> HIDE DEF next, after
  <2> QED BY <1>6, RecursionStays
<1> QED BY <1>5, <1>7

LEMMA LandedEnds ==
    ASSUME NEW r, Good(r), r.doing.what = "rebase", NEW out, out = Landed(r)
    PROVE  Ends(r, out) /\ (out.result # "done" => out.repo.doing.what = "rebase")
<1> DEFINE m == [r EXCEPT !.doing = NotDoing]
<1>1. /\ r.doing.of \in Branch \cup {None}
      /\ NotDoing \in DoingType /\ DoingOK(NotDoing, Len(r.commits))
  <2>1. r.doing \in DoingType
    BY DEF Good, Repository
  <2> QED BY <2>1, NotDoingFits, HeadTreeType DEF NotDoingOK, DoingType
<1>2. Keeps(r, m) /\ Good(m) /\ SameHistory(r, m)
  BY <1>1, DoingChange
<1>3. CASE r.doing.of = None
  <2>1. out = Done(m)
    BY <1>3 DEF Landed
  <2> HIDE DEF m
  <2> QED BY <1>2, <2>1, DoneEnds
<1>4. CASE r.doing.of # None /\ r.refs[r.doing.of] # r.doing.from
  <2>1. out = Refused(r)
    BY <1>4 DEF Landed
  <2> QED BY <2>1, RefusedEnds DEF Refused, Outcome
<1>5. CASE r.doing.of # None /\ ~(r.refs[r.doing.of] # r.doing.from)
  <2> DEFINE b    == r.doing.of
             head == HeadOid(r)
             refs == [m.refs EXCEPT ![b] = head]
             s    == [m EXCEPT !.refs = refs, !.branch = b]
  <2>1. out = Done(s)
    BY <1>2, <1>5 DEF Landed, SameHistory
  <2>2. b \in Branch /\ b \in Ref /\ b # None /\ head \in 1..Len(m.commits)
        /\ Len(m.commits) \in Nat
    BY <1>1, <1>2, <1>5, HeadTreeType, RefsType DEF SameHistory
  <2> HIDE DEF m, b, head
  <2>3. refs \in [Ref -> 0..Len(m.commits)] /\ refs[b] = head
    <3>1. head \in 0..Len(m.commits)
      BY <2>2
    <3> QED BY <1>2, <2>2, <3>1, RefsType
  <2> HIDE DEF refs
  <2>4. /\ s \in Repository /\ SameFiles(m, s) /\ s.commits = m.commits
        /\ s.refs = refs /\ s.branch = b /\ s.server = m.server
    BY <1>2, <2>2, <2>3, NatRefs DEF Good, Repository, SameFiles
  <2> HIDE DEF s
  <2>5. RefsOK(s)
    <3>1. \A n \in Ref : refs[n] <= Len(m.commits)
      BY <2>3
    <3> QED BY <1>2, <2>4, <3>1 DEF Good, RefsOK
  <2>6. HeadOK(s)
    BY <2>2, <2>3, <2>4 DEF HeadOK, HeadOid
  <2>7. Keeps(r, s)
    BY <1>2, <2>4, <2>5, <2>6, HeadChange, KeepsOn
  <2> QED BY <2>1, <2>7, DoneEnds
<1> QED BY <1>3, <1>4, <1>5

\* The steps that are left can be taken.
LEMMA StepsLeft ==
    ASSUME NEW r, Good(r), r.doing.what = "rebase"
    PROVE  /\ Len(r.doing.todo) \in Nat
           /\ \A k \in 1..Len(r.doing.todo) :
                 LET rest == SubSeq(r.doing.todo, k + 1, Len(r.doing.todo))
                 IN  /\ r.doing.todo[k] \in StepType
                     /\ r.doing.todo[k].commit \in 1..Len(r.commits)
                     /\ rest \in Seq(StepType)
                     /\ \A j \in 1..Len(rest) : rest[j].commit \in 1..Len(r.commits)
<1> DEFINE todo == r.doing.todo
           n    == Len(todo)
           rest(k) == SubSeq(todo, k + 1, n)
<1>1. /\ todo \in Seq(StepType) /\ n \in Nat
      /\ \A k \in 1..n : todo[k] \in StepType /\ todo[k].commit \in 1..Len(r.commits)
  <2>1. r.doing \in DoingType /\ DoingOK(r.doing, Len(r.commits))
    BY DEF Good, Repository
  <2>2. todo \in Seq(StepType)
    BY <2>1 DEF DoingType
  <2>3. \A k \in 1..n : todo[k].commit \in 1..Len(r.commits)
    BY <2>1 DEF DoingOK
  <2> HIDE DEF todo
  <2> QED BY <2>2, <2>3, ElementOfSeq, LenProperties
<1>2. ASSUME NEW k \in 1..n
      PROVE  /\ rest(k) \in Seq(StepType)
             /\ \A j \in 1..Len(rest(k)) : rest(k)[j].commit \in 1..Len(r.commits)
  <2> HIDE DEF todo
  <2>1. CASE k = n
    <3>1. rest(k) = <<>>
      BY <1>1, <2>1, SubSeqEmpty
    <3>2. <<>> \in Seq(StepType) /\ Len(<<>>) = 0
      OBVIOUS
    <3> HIDE DEF rest
    <3> QED BY <3>1, <3>2
  <2>2. CASE k # n
    <3>1. k + 1 \in 1..n /\ n \in 1..Len(todo) /\ k + 1 <= n
      BY <1>1, <2>2
    <3>2. /\ rest(k) \in Seq(StepType) /\ Len(rest(k)) = n - (k + 1) + 1
          /\ \A j \in 1..(n - (k + 1) + 1) : rest(k)[j] = todo[(k + 1) + j - 1]
      BY <1>1, <3>1, SubSeqProperties
    <3>3. \A j \in 1..(n - (k + 1) + 1) : (k + 1) + j - 1 \in 1..n
      BY <1>1, <3>1
    <3> QED BY <1>1, <3>2, <3>3
  <2> QED BY <2>1, <2>2
<1>3. ASSUME NEW k \in 1..n
      PROVE  /\ todo[k] \in StepType /\ todo[k].commit \in 1..Len(r.commits)
             /\ rest(k) \in Seq(StepType)
             /\ \A j \in 1..Len(rest(k)) : rest(k)[j].commit \in 1..Len(r.commits)
  <2> HIDE DEF todo, n, rest
  <2> QED BY <1>1, <1>2
<1> QED BY <1>1, <1>3

\* What a rebase concludes is in every set of outcomes that it starts in and its steps stay in.
LEMMA ReplayStays ==
    ASSUME NEW r, Good(r), r.doing.what = "rebase", NEW S, Done(r) \in S,
           \A k \in 1..Len(r.doing.todo) : \A o \in S :
              PickNext(o, r.doing.todo[k], SubSeq(r.doing.todo, k + 1, Len(r.doing.todo))) \in S
    PROVE  \E last \in S : Replayed(r) = Concluded(last)
<1> DEFINE n    == Len(r.doing.todo)
           last == Run(r, n)[n]
<1>1. Replayed(r) = Concluded(last)
  BY DEF Replayed, Run
<1>2. n \in Nat /\ n \in 0..n
  BY StepsLeft
<1>3. \A k \in 1..n : \A o \in S :
         PickNext(o, r.doing.todo[k], SubSeq(r.doing.todo, k + 1, n)) \in S
  OBVIOUS
<1>4. \A k \in 0..n : Run(r, n)[k] \in S
  <2> HIDE DEF n
  <2> QED BY <1>2, <1>3, RunStays
<1> HIDE DEF n
<1> QED BY <1>1, <1>2, <1>4

\* However far a rebase gets, it loses nothing; where it is refused or stops, it can go on.
LEMMA ReplayedEnds ==
    ASSUME NEW r, Good(r), r.doing.what = "rebase", NEW out, out = Replayed(r)
    PROVE  Ends(r, out) /\ (out.result # "done" => out.repo.doing.what = "rebase")
<1> DEFINE todo == r.doing.todo
           n    == Len(todo)
           rest(k) == SubSeq(todo, k + 1, n)
<1>1. Done(r) \in Replaying(r)
  BY KeepsSame DEF Replaying, Outcomes, Ends, Done, Outcome, Result, Good
<1>2. \A k \in 1..n : \A o \in Replaying(r) : PickNext(o, todo[k], rest(k)) \in Replaying(r)
  <2> TAKE k \in 1..n
  <2> TAKE o \in Replaying(r)
  <2>1. /\ todo[k] \in StepType /\ todo[k].commit \in 1..Len(r.commits)
        /\ rest(k) \in Seq(StepType)
        /\ \A j \in 1..Len(rest(k)) : rest(k)[j].commit \in 1..Len(r.commits)
    BY StepsLeft
  <2> HIDE DEF rest, todo, n
  <2> QED BY <2>1, PickNextStays
<1>3. PICK last \in Replaying(r) : out = Concluded(last)
  <2> DEFINE S == Replaying(r)
  <2>1. Done(r) \in S /\ \A k \in 1..n : \A o \in S : PickNext(o, todo[k], rest(k)) \in S
    BY <1>1, <1>2
  <2> HIDE DEF S
  <2>2. \E last \in S : Replayed(r) = Concluded(last)
    BY <2>1, ReplayStays
  <2> QED BY <2>2 DEF S
<1>4. Ends(r, last) /\ Good(last.repo) /\ last.repo.doing.what = "rebase"
  BY DEF Replaying, Ends, Keeps, Follows
<1>5. CASE last.result = "done"
  <2> DEFINE m == last.repo
  <2>1. out = Landed(m)
    BY <1>3, <1>5 DEF Concluded
  <2>2. Keeps(r, m) /\ Good(m) /\ m.doing.what = "rebase"
    BY <1>4 DEF Ends
  <2> HIDE DEF m
  <2>3. Ends(m, out) /\ (out.result # "done" => out.repo.doing.what = "rebase")
    BY <2>1, <2>2, LandedEnds
  <2> QED BY <2>2, <2>3, KeepsOn DEF Ends
<1>6. CASE last.result # "done"
  BY <1>3, <1>4, <1>6 DEF Concluded
<1> QED BY <1>5, <1>6

\* What a rebase has to do when it begins.
LEMMA RebaseDoing ==
    ASSUME NEW r, Good(r), NEW plan \in Seq([commit : 1..Len(r.commits), action : RebaseAction]),
           NEW doing,
           doing = [what |-> "rebase", other |-> 0, action |-> "pick", todo |-> plan,
                    of |-> r.branch, from |-> HeadOid(r)]
    PROVE  /\ doing \in DoingType /\ DoingOK(doing, Len(r.commits))
           /\ doing.what = "rebase" /\ doing.other = 0 /\ doing.of = r.branch
<1>1. plan \in Seq(StepType) /\ \A k \in 1..Len(plan) : plan[k].commit \in 1..Len(r.commits)
  <2>1. [commit : 1..Len(r.commits), action : RebaseAction] \subseteq StepType
    BY HeadTreeType DEF StepType
  <2>2. \A k \in 1..Len(plan) : plan[k] \in [commit : 1..Len(r.commits), action : RebaseAction]
    BY ElementOfSeq
  <2> QED BY <2>1, <2>2, SeqMonotonic
<1>2. r.branch \in Branch \cup {None} /\ HeadOid(r) \in Nat
  BY HeadTreeType, RefsType
<1>3. 0 \in Nat /\ "pick" \in RebaseAction
  BY DEF RebaseAction
<1> DEFINE of == r.branch
           from == HeadOid(r)
<1>4. doing = [what |-> "rebase", other |-> 0, action |-> "pick", todo |-> plan, of |-> of,
               from |-> from]
  OBVIOUS
<1> HIDE DEF of, from, StepType
<1>5. doing \in [what : {"rebase"}, other : Nat, action : RebaseAction,
                 todo : Seq(StepType), of : Branch \cup {None}, from : Nat]
  BY <1>1, <1>2, <1>3, <1>4 DEF of, from
<1>6. doing \in DoingType
  BY <1>5 DEF DoingType
<1>7. doing.what = "rebase" /\ doing.other = 0 /\ doing.of = r.branch /\ doing.todo = plan
  BY <1>4 DEF of
<1> QED BY <1>1, <1>6, <1>7 DEF DoingOK

LEMMA RebaseEnds ==
    ASSUME NEW r, Good(r), NEW plan \in Seq([commit : 1..Len(r.commits), action : RebaseAction]),
           NEW base \in 1..Len(r.commits), NEW out, out = Rebase(r, plan, base)
    PROVE  /\ Ends(r, out)
           /\ out.result = "refused" => out.repo = r \/ out.repo.doing.what = "rebase"
<1> DEFINE onto  == CheckoutCommit(r, base)
           doing == [what |-> "rebase", other |-> 0, action |-> "pick", todo |-> plan,
                     of |-> r.branch, from |-> HeadOid(r)]
           s     == [onto.repo EXCEPT !.doing = doing]
<1>1. CASE Changed(r) # {} \/ r.doing.what = "rebase" \/ onto.result = "refused"
  BY <1>1, RefusedEnds DEF Rebase, Plain
<1>2. CASE ~(Changed(r) # {} \/ r.doing.what = "rebase" \/ onto.result = "refused")
  <2>1. out = Replayed(s)
    BY <1>2 DEF Rebase
  <2>2. Keeps(r, onto.repo) /\ Good(onto.repo) /\ onto.repo.commits = r.commits
    BY CheckoutCommitEnds DEF Ends
  <2>4. /\ doing \in DoingType /\ DoingOK(doing, Len(onto.repo.commits))
        /\ doing.what = "rebase"
    BY <2>2, RebaseDoing
  <2> HIDE DEF onto, doing
  <2>6. Keeps(onto.repo, s) /\ Good(s) /\ s.doing = doing
    BY <2>2, <2>4, DoingChange
  <2> HIDE DEF s
  <2>7. Ends(s, out) /\ (out.result # "done" => out.repo.doing.what = "rebase")
    BY <2>1, <2>4, <2>6, ReplayedEnds
  <2>8. Keeps(r, s)
    BY <2>2, <2>6, KeepsOn
  <2> QED BY <2>7, <2>8, KeepsOn DEF Ends
<1> QED BY <1>1, <1>2

LEMMA ContinueRebaseEnds ==
    ASSUME NEW r, Good(r), r.doing.what = "rebase", NEW out, out = ContinueRebase(r)
    PROVE  /\ Ends(r, out)
           /\ out.result = "refused" => out.repo.doing.what = "rebase" \/ out.repo = r
<1> DEFINE m    == IF r.index = HeadTree(r) THEN r ELSE Recommitted(r, r.doing.action)
           next == Replayed(m)
<1>1. CASE r.doing.other = 0 \/ \E f \in Tracked(r) : r.work[f] # r.index[f]
  BY <1>1, RefusedEnds DEF ContinueRebase, Plain
<1>2. CASE ~(r.doing.other = 0 \/ \E f \in Tracked(r) : r.work[f] # r.index[f])
  <2>1. out = Reported(next)
    BY <1>2 DEF ContinueRebase
  <2>2. Keeps(r, m) /\ Good(m) /\ m.doing.what = "rebase"
    BY KeepsSame, RecommittedKeeps
  <2> HIDE DEF m
  <2>3. Ends(m, next) /\ (next.result # "done" => next.repo.doing.what = "rebase")
    BY <2>2, ReplayedEnds
  <2> HIDE DEF next
  <2> QED BY <2>1, <2>2, <2>3, KeepsOn DEF Reported, Refused, Outcome, Ends, Result
<1> QED BY <1>1, <1>2

LEMMA ContinueOperationEnds ==
    ASSUME NEW r, Good(r), NEW out, out = ContinueOperation(r)
    PROVE  /\ Ends(r, out)
           /\ out.result = "refused" => out.repo.doing.what = "rebase" \/ out.repo = r
           /\ r.doing.what = "merge" => out.repo.doing = r.doing \/ Joins(r, out.repo)
<1>1. CASE r.unmerged # {} \/ r.doing = NotDoing
  BY <1>1, RefusedEnds DEF ContinueOperation, Plain
<1>2. CASE ~(r.unmerged # {} \/ r.doing = NotDoing) /\ r.doing.what = "merge"
  <2>1. out = FinishMergeCommit(r)
    BY <1>2 DEF ContinueOperation
  <2> QED BY <1>2, <2>1, FinishMergeCommitEnds
<1>3. CASE ~(r.unmerged # {} \/ r.doing = NotDoing) /\ r.doing.what = "rebase"
  <2>1. out = ContinueRebase(r)
    BY <1>3 DEF ContinueOperation
  <2> QED BY <1>3, <2>1, ContinueRebaseEnds
<1>4. CASE /\ ~(r.unmerged # {} \/ r.doing = NotDoing)
           /\ r.doing.what # "merge" /\ r.doing.what # "rebase"
  <2>1. out = RunContinue(r)
    BY <1>4 DEF ContinueOperation
  <2> QED BY <1>4, <2>1, RunContinueEnds
<1> QED BY <1>1, <1>2, <1>3, <1>4

-----------------------------------------------------------------------------
(* Where a rebase leaves the branches                                       *)

\* HEAD is on a line from the base; if it is the base itself, no commit has been picked.
OnBase(r, base) ==
    /\ base \in Ancestors(r, HeadOid(r))
    /\ HeadOid(r) = base => r.doing.other = 0

\* A commit other than the base has it among the ancestors of its parents.
LEMMA BaseOfParents ==
    ASSUME NEW r, Good(r), NEW c \in 1..Len(r.commits), NEW base \in Ancestors(r, c), base # c
    PROVE  \E p \in ToSet(r.commits[c].parents) : base \in Ancestors(r, p)
<1> DEFINE parents == ToSet(r.commits[c].parents)
           T == {c} \cup UNION {Ancestors(r, p) : p \in parents}
<1>1. \A p \in parents : p \in 1..Len(r.commits)
  BY AncestorsOf
<1>2. ASSUME NEW p \in parents
      PROVE  /\ p \in Ancestors(r, p)
             /\ \A d \in Ancestors(r, p) : ToSet(r.commits[d].parents) \subseteq Ancestors(r, p)
  BY <1>1, AncestorsOf
<1>3. parents \subseteq T
  BY <1>2
<1>4. ASSUME NEW d \in T PROVE ToSet(r.commits[d].parents) \subseteq T
  <2>1. CASE d = c
    BY <1>3, <2>1
  <2>2. CASE d # c
    <3>1. PICK p \in parents : d \in Ancestors(r, p)
      BY <2>2
    <3>2. ToSet(r.commits[d].parents) \subseteq Ancestors(r, p)
      BY <1>2, <3>1
    <3> QED BY <3>2
  <2> QED BY <2>1, <2>2
<1>5. c \in T
  OBVIOUS
<1> HIDE DEF T
<1>6. Ancestors(r, c) \subseteq T
  BY <1>4, <1>5, AncestorsLeast
<1> QED BY <1>6 DEF T

\* A commit that a rebase makes stands on what the base stands on.
LEMMA RecommittedMoves ==
    ASSUME NEW r, Good(r), NEW action, NEW s, s = Recommitted(r, action)
    PROVE  /\ OwnOnly(r, s) /\ s.branch = r.branch
           /\ \A base \in Ancestors(r, HeadOid(r)) :
                 (action \in {"squash", "fixup"} => HeadOid(r) # base)
                    => base \in Ancestors(s, HeadOid(s)) /\ HeadOid(s) # base
<1> DEFINE parents == IF action \in {"squash", "fixup"} THEN r.commits[HeadOid(r)].parents
                      ELSE <<HeadOid(r)>>
           c == Len(r.commits) + 1
<1>1. s = Committed(r, parents)
  BY DEF Recommitted
<1>2. parents \in Seq(1..Len(r.commits)) /\ HeadOid(r) \in 1..Len(r.commits)
      /\ Len(r.commits) \in Nat
  BY MergeParents, HeadTreeType
<1>6. /\ action \notin {"squash", "fixup"} => HeadOid(r) \in ToSet(parents)
      /\ action \in {"squash", "fixup"} => parents = r.commits[HeadOid(r)].parents
  <2>1. <<HeadOid(r)>>[1] = HeadOid(r) /\ 1 \in DOMAIN <<HeadOid(r)>>
    OBVIOUS
  <2> QED BY <2>1 DEF ToSet
<1> HIDE DEF parents
<1>3. OwnOnly(r, s) /\ s.branch = r.branch
  BY <1>1, <1>2, CommittedBranches, CommittedKeeps
<1>4. /\ Good(s) /\ HeadOid(s) = c /\ Len(s.commits) = c /\ Extends(r, s)
      /\ s.commits[c].parents = parents /\ c \in 1..Len(s.commits)
  <2>1. /\ Keeps(r, s) /\ Good(s) /\ HeadOid(s) = c /\ Len(s.commits) = c
        /\ s.commits[c] = [parents |-> parents, tree |-> r.index]
    BY <1>1, <1>2, CommittedKeeps
  <2> QED BY <1>2, <2>1 DEF Keeps, Follows
<1>5. ASSUME NEW base \in Ancestors(r, HeadOid(r)),
             action \in {"squash", "fixup"} => HeadOid(r) # base
      PROVE  base \in Ancestors(s, HeadOid(s)) /\ HeadOid(s) # base
  <2>1. \E p \in ToSet(parents) : base \in Ancestors(r, p)
    <3>1. CASE action \in {"squash", "fixup"}
      BY <1>2, <1>5, <1>6, <3>1, BaseOfParents
    <3>2. CASE action \notin {"squash", "fixup"}
      BY <1>6, <3>2
    <3> QED BY <3>1, <3>2
  <2>2. PICK p \in ToSet(parents) : base \in Ancestors(r, p)
    BY <2>1
  <2>3. p \in 1..Len(r.commits)
    BY <1>2, ElementOfSeq, LenProperties DEF ToSet
  <2>4. Ancestors(s, p) = Ancestors(r, p)
    BY <1>4, <2>3, AncestorsStay
  <2>5. p \in Ancestors(s, c) /\ Ancestors(s, p) \subseteq Ancestors(s, c)
    BY <1>4, AncestorsOf
  <2>6. base \in 1..Len(r.commits)
    BY <1>2, AncestorsOf
  <2> QED BY <1>2, <1>4, <2>2, <2>4, <2>5, <2>6
<1> QED BY <1>3, <1>5

\* A commit that is in place stands on HEAD.
LEMMA InPlaceMoves ==
    ASSUME NEW r, Good(r), NEW c \in 1..Len(r.commits), NEW s, s = MovedTo(r, c),
           r.commits[c].parents = <<HeadOid(r)>>
    PROVE  /\ OwnOnly(r, s) /\ s.branch = r.branch
           /\ \A base \in Ancestors(r, HeadOid(r)) :
                 base \in Ancestors(s, HeadOid(s)) /\ HeadOid(s) # base
<1>1. OwnOnly(r, s) /\ s.branch = r.branch /\ HeadOid(s) = c /\ Good(s) /\ Extends(r, s)
  BY MovedToBranches, MovedToKeeps DEF Keeps, Follows
<1>2. HeadOid(r) \in ToSet(r.commits[c].parents)
  <2>1. <<HeadOid(r)>>[1] = HeadOid(r) /\ 1 \in DOMAIN <<HeadOid(r)>>
    OBVIOUS
  <2> QED BY <2>1 DEF ToSet
<1>3. Ancestors(s, c) = Ancestors(r, c)
  BY <1>1, AncestorsStay
<1>4. Ancestors(r, HeadOid(r)) \subseteq Ancestors(r, c)
  BY <1>2, AncestorsOf
<1>5. HeadOid(r) \in 1..(c - 1)
  <2>1. c \in 1..c
    OBVIOUS
  <2> QED BY <1>2, <2>1, ParentsAreOlder
<1>6. Ancestors(r, HeadOid(r)) \subseteq 1..HeadOid(r)
  BY HeadTreeType, AncestorsOf
<1>7. \A base \in Ancestors(r, HeadOid(r)) : base # c
  BY <1>5, <1>6
<1> QED BY <1>1, <1>3, <1>4, <1>7

LEMMA TakenMoves ==
    ASSUME NEW r, Good(r), NEW step \in StepType, step.commit \in 1..Len(r.commits),
           NEW paused \in DoingType, paused.what = "rebase", DoingOK(paused, Len(r.commits)),
           NEW picked,
           picked = Absorbed(r, ParentTree(r, step.commit), Tree(r, step.commit), paused),
           NEW out, out = Taken(r, step, paused, picked)
    PROVE  /\ OwnOnly(r, out.repo) /\ out.repo.branch = r.branch
           /\ out.repo.doing.of = paused.of
           /\ \A base \in Ancestors(r, HeadOid(r)) :
                 /\ step.action \in {"squash", "fixup"} => HeadOid(r) # base
                 /\ out.result = "done"
                 => base \in Ancestors(out.repo, HeadOid(out.repo)) /\ HeadOid(out.repo) # base
<1> DEFINE m == picked.repo
           Rises(t) == \A base \in Ancestors(r, HeadOid(r)) :
                          (step.action \in {"squash", "fixup"} => HeadOid(r) # base)
                             => base \in Ancestors(t, HeadOid(t)) /\ HeadOid(t) # base
<1>1. /\ picked.result \in {"done", "refused"}
      /\ Good(m) /\ SameHistory(r, m) /\ HeadOid(m) = HeadOid(r)
      /\ Keeps(r, m)
      /\ picked.result = "done" => m.doing = paused
  <2> DEFINE base   == ParentTree(r, step.commit)
             theirs == Tree(r, step.commit)
  <2>1. base \in Contents /\ theirs \in Contents /\ picked = Absorbed(r, base, theirs, paused)
    BY HeadTreeType, ParentTreeType
  <2> HIDE DEF base, theirs
  <2> QED BY <2>1, AbsorbedKeeps
<1>2. /\ Alike(r, m) /\ m.commits = r.commits /\ m.branch = r.branch
      /\ Ancestors(m, HeadOid(r)) = Ancestors(r, HeadOid(r))
  <2>1. Alike(r, m) /\ m.commits = r.commits /\ m.branch = r.branch
    BY <1>1, AlikeSame DEF SameHistory
  <2>2. Good(m) /\ Extends(r, m) /\ HeadOid(r) \in 1..Len(r.commits)
    BY <1>1, HeadTreeType DEF Keeps, Follows
  <2> HIDE DEF m
  <2> QED BY <2>1, <2>2, AncestorsStay
<1>3. OwnOnly(r, m) /\ OwnOnly(r, r)
  BY <1>2 DEF Alike, OwnOnly
<1> HIDE DEF m
<1>4. CASE picked.result = "refused"
  <2> DEFINE d == [paused EXCEPT !.todo = <<step>> \o @]
             t == [r EXCEPT !.doing = d]
  <2>1. out = Refused(t)
    BY <1>4 DEF Taken
  <2>2. d.of = paused.of
    BY DEF DoingType
  <2> HIDE DEF d
  <2>3. t.doing = d /\ t.branch = r.branch /\ t.refs = r.refs /\ t.server = r.server
    BY DEF Good, Repository
  <2> HIDE DEF t
  <2> QED BY <2>1, <2>2, <2>3 DEF OwnOnly, Refused, Outcome
<1>5. CASE picked.result = "done"
  <2>1. \/ r.commits[step.commit].parents = <<HeadOid(r)>> /\ out = Done(MovedTo(m, step.commit))
        \/ out = Outcome("conflicts", m)
        \/ out = Refused(m)
        \/ out = Done(Recommitted(m, step.action))
    BY <1>5 DEF Taken, m
  <2>2. CASE r.commits[step.commit].parents = <<HeadOid(r)>> /\ out = Done(MovedTo(m, step.commit))
    <3> DEFINE t == MovedTo(m, step.commit)
    <3>1. step.commit \in 1..Len(m.commits) /\ m.commits[step.commit].parents = <<HeadOid(m)>>
      BY <1>1, <1>2, <2>2
    <3>2. t.doing = m.doing
      BY <1>1, <3>1, MovedToKeeps DEF SameFiles
    <3>3. /\ OwnOnly(m, t) /\ t.branch = m.branch
          /\ \A base \in Ancestors(m, HeadOid(m)) :
                base \in Ancestors(t, HeadOid(t)) /\ HeadOid(t) # base
      BY <1>1, <3>1, InPlaceMoves
    <3>4. out.repo = t
      BY <2>2 DEF Done, Outcome
    <3> HIDE DEF t
    <3>5. OwnOnly(r, t) /\ Rises(t)
      BY <1>1, <1>2, <3>3, AlikeOn
    <3> QED BY <1>1, <1>2, <1>5, <3>2, <3>3, <3>4, <3>5
  <2>3. CASE out = Outcome("conflicts", m)
    BY <1>1, <1>2, <1>3, <1>5, <2>3 DEF Outcome
  <2>4. CASE out = Refused(m)
    BY <1>1, <1>2, <1>3, <1>5, <2>4 DEF Refused, Outcome
  <2>5. CASE out = Done(Recommitted(m, step.action))
    <3> DEFINE t == Recommitted(m, step.action)
    <3>1. t.doing = m.doing
      BY <1>1, RecommittedKeeps
    <3>2. /\ OwnOnly(m, t) /\ t.branch = m.branch
          /\ \A base \in Ancestors(m, HeadOid(m)) :
                (step.action \in {"squash", "fixup"} => HeadOid(m) # base)
                   => base \in Ancestors(t, HeadOid(t)) /\ HeadOid(t) # base
      BY <1>1, RecommittedMoves
    <3>3. out.repo = t
      BY <2>5 DEF Done, Outcome
    <3> HIDE DEF t
    <3>4. OwnOnly(r, t) /\ Rises(t)
      BY <1>1, <1>2, <3>2, AlikeOn
    <3> QED BY <1>1, <1>2, <1>5, <3>1, <3>2, <3>3, <3>4
  <2> QED BY <2>1, <2>2, <2>3, <2>4, <2>5
<1> QED BY <1>1, <1>4, <1>5

\* The outcomes the steps of a rebase of r go through, none of which moves a branch that is not
\* checked out; from a base, all that go on are on it.
Carried(r, base) ==
    {o \in Replaying(r) :
        /\ OwnOnly(r, o.repo) /\ o.repo.branch = r.branch /\ o.repo.doing.of = r.doing.of
        /\ base # 0 /\ o.result = "done" => OnBase(o.repo, base)}

LEMMA PickNextCarries ==
    ASSUME NEW r, Good(r), NEW base, NEW o \in Carried(r, base),
           NEW step \in StepType, step.commit \in 1..Len(r.commits),
           NEW rest \in Seq(StepType),
           \A k \in 1..Len(rest) : rest[k].commit \in 1..Len(r.commits)
    PROVE  PickNext(o, step, rest) \in Carried(r, base)
<1> DEFINE m == o.repo
           paused == [m.doing EXCEPT !.other = step.commit, !.action = step.action, !.todo = rest]
           out    == Pick(m, step, rest)
<1>1. /\ o \in Replaying(r) /\ PickNext(o, step, rest) \in Replaying(r)
      /\ OwnOnly(r, m) /\ m.branch = r.branch /\ m.doing.of = r.doing.of
  BY PickNextStays DEF Carried
<1>2. CASE o.result # "done"
  BY <1>2 DEF PickNext
<1>3. CASE o.result = "done"
  <2>1. PickNext(o, step, rest) = out /\ (base # 0 => OnBase(m, base))
    BY <1>3 DEF PickNext, Carried
  <2>2. /\ Keeps(r, m) /\ Good(m) /\ m.doing.what = "rebase" /\ m.doing \in DoingType
    BY <1>1 DEF Replaying, Ends, Keeps, Follows, Good, Repository
  <2>3. \A c \in 1..Len(r.commits) : c \in 1..Len(m.commits)
    BY <2>2, HeadTreeType DEF Keeps, Follows, Extends
  <2>4. paused \in DoingType /\ paused.what = "rebase" /\ paused.todo = rest
        /\ paused.of = m.doing.of
    BY <2>2 DEF DoingType, StepType
  <2>5. out = IF step.action = "drop" THEN Done(m)
              ELSE IF Untakable(m, step) THEN Stuck(m, step, rest)
              ELSE Taken(m, step, paused,
                         Absorbed(m, ParentTree(m, step.commit), Tree(m, step.commit), paused))
    BY DEF Pick
  <2> HIDE DEF paused, out, m
  <2>6. SUFFICES /\ OwnOnly(m, out.repo) /\ out.repo.branch = m.branch
                 /\ out.repo.doing.of = m.doing.of
                 /\ base # 0 /\ out.result = "done" => OnBase(out.repo, base)
    BY <1>1, <2>1 DEF OwnOnly, Carried
  <2>7. CASE step.action = "drop"
    BY <2>1, <2>5, <2>7 DEF Done, Outcome, OwnOnly
  <2>8. CASE step.action # "drop" /\ Untakable(m, step)
    <3>1. /\ out.result = "refused" /\ SameHistory(m, out.repo)
          /\ out.repo.doing.of = m.doing.of
      BY <2>2, <2>3, <2>5, <2>8, StuckEnds
    <3> QED BY <3>1 DEF SameHistory, OwnOnly
  <2>9. CASE step.action # "drop" /\ ~Untakable(m, step)
    <3>1. DoingOK(paused, Len(m.commits))
      BY <2>3, <2>4 DEF DoingOK
    <3>2. /\ OwnOnly(m, out.repo) /\ out.repo.branch = m.branch
          /\ out.repo.doing.of = paused.of
          /\ \A b \in Ancestors(m, HeadOid(m)) :
                /\ step.action \in {"squash", "fixup"} => HeadOid(m) # b
                /\ out.result = "done"
                => b \in Ancestors(out.repo, HeadOid(out.repo)) /\ HeadOid(out.repo) # b
      BY <2>2, <2>3, <2>4, <2>5, <2>9, <3>1, TakenMoves
    <3>3. step.action \in {"squash", "fixup"} => m.doing.other # 0
      BY <2>9 DEF Untakable
    <3> QED BY <2>1, <2>4, <3>2, <3>3 DEF OnBase
  <2> QED BY <2>7, <2>8, <2>9
<1> QED BY <1>2, <1>3

\* In the end only the branch that the rebase is of moves, to HEAD.
LEMMA LandedMoves ==
    ASSUME NEW r, Good(r), r.doing.what = "rebase", NEW out, out = Landed(r)
    PROVE  /\ out.result \in {"done", "refused"}
           /\ out.repo.server = r.server /\ out.repo.commits = r.commits
           /\ \A b \in Branch : \/ out.repo.refs[b] = r.refs[b]
                                \/ /\ b = r.doing.of /\ out.result = "done"
                                   /\ out.repo.refs[b] = HeadOid(r)
<1> DEFINE m == [r EXCEPT !.doing = NotDoing]
           s == [r EXCEPT !.refs[r.doing.of] = HeadOid(r), !.branch = r.doing.of,
                          !.doing = NotDoing]
<1>1. r \in Repository /\ r.refs \in [Ref -> Nat] /\ \A b \in Branch : b \in Ref
  BY NamesApart DEF Good, Repository
<1>2. \/ out = Done(m)
      \/ out = Refused(r)
      \/ out = Done(s)
  BY DEF Landed
<1>3. m.refs = r.refs /\ m.server = r.server /\ m.commits = r.commits
  BY <1>1 DEF Repository
<1>4. /\ s.refs = [r.refs EXCEPT ![r.doing.of] = HeadOid(r)]
      /\ s.server = r.server /\ s.commits = r.commits
  BY <1>1 DEF Repository
<1> HIDE DEF m, s
<1>5. CASE out = Done(m)
  BY <1>3, <1>5 DEF Done, Outcome
<1>6. CASE out = Refused(r)
  BY <1>6 DEF Refused, Outcome
<1>7. CASE out = Done(s)
  <2>1. out.result = "done" /\ out.repo = s
    BY <1>7 DEF Done, Outcome
  <2>2. \A b \in Branch : s.refs[b] = r.refs[b] \/ (b = r.doing.of /\ s.refs[b] = HeadOid(r))
    BY <1>1, <1>4
  <2> QED BY <1>4, <2>1, <2>2
<1> QED BY <1>2, <1>5, <1>6, <1>7

LEMMA ReplayedMoves ==
    ASSUME NEW r, Good(r), r.doing.what = "rebase", NEW base, base = 0 \/ OnBase(r, base),
           NEW out, out = Replayed(r)
    PROVE  /\ out.repo.server = r.server
           /\ \A b \in Branch :
                 \/ out.repo.refs[b] = r.refs[b] \/ b = r.branch
                 \/ /\ b = r.doing.of /\ out.result = "done"
                    /\ base # 0 => base \in Ancestors(out.repo, out.repo.refs[b])
<1> DEFINE todo == r.doing.todo
           n    == Len(todo)
           rest(k) == SubSeq(todo, k + 1, n)
           S == Carried(r, base)
<1>1. Done(r) \in S
  BY KeepsSame DEF Carried, OwnOnly, Replaying, Outcomes, Ends, Done, Outcome, Result, Good
<1>2. \A k \in 1..n : \A o \in S : PickNext(o, todo[k], rest(k)) \in S
  <2> TAKE k \in 1..n
  <2> TAKE o \in S
  <2>1. /\ todo[k] \in StepType /\ todo[k].commit \in 1..Len(r.commits)
        /\ rest(k) \in Seq(StepType)
        /\ \A j \in 1..Len(rest(k)) : rest(k)[j].commit \in 1..Len(r.commits)
    BY StepsLeft
  <2> HIDE DEF rest, todo, n
  <2> QED BY <2>1, PickNextCarries
<1> HIDE DEF S
<1>3. PICK last \in S : out = Concluded(last)
  <2>1. \E last \in S : Replayed(r) = Concluded(last)
    BY <1>1, <1>2, ReplayStays
  <2> QED BY <2>1
<1> DEFINE m == last.repo
<1>4. /\ Good(m) /\ m.doing.what = "rebase"
      /\ OwnOnly(r, m) /\ m.doing.of = r.doing.of
      /\ base # 0 /\ last.result = "done" => OnBase(m, base)
  BY DEF S, Carried, Replaying, Ends, Keeps, Follows
<1> HIDE DEF m
<1>5. CASE last.result = "done"
  <2>1. out = Landed(m)
    BY <1>3, <1>5 DEF Concluded, m
  <2>2. /\ out.repo.server = m.server /\ out.repo.commits = m.commits
        /\ \A b \in Branch : \/ out.repo.refs[b] = m.refs[b]
                             \/ /\ b = m.doing.of /\ out.result = "done"
                                /\ out.repo.refs[b] = HeadOid(m)
    BY <1>4, <2>1, LandedMoves
  <2>3. Good(out.repo) /\ Extends(m, out.repo)
    BY <1>4, <2>1, LandedEnds DEF Ends, Keeps, Follows
  <2>4. Ancestors(out.repo, HeadOid(m)) = Ancestors(m, HeadOid(m))
    BY <1>4, <2>3, AncestorsStay, HeadTreeType
  <2>5. base # 0 => base \in Ancestors(out.repo, HeadOid(m))
    BY <1>4, <1>5, <2>4 DEF OnBase
  <2> QED BY <1>4, <2>2, <2>5 DEF OwnOnly
<1>6. CASE last.result # "done"
  <2>1. out.repo = m
    BY <1>3, <1>6 DEF Concluded, m
  <2> QED BY <1>4, <2>1 DEF OwnOnly
<1> QED BY <1>5, <1>6

\* A rebase moves only the branch that is checked out, and when it is done, to a line from the
\* base.
LEMMA RebaseMoves ==
    ASSUME NEW r, Good(r), NEW plan \in Seq([commit : 1..Len(r.commits), action : RebaseAction]),
           NEW base \in 1..Len(r.commits), NEW out, out = Rebase(r, plan, base)
    PROVE  /\ out.repo.server = r.server
           /\ \A b \in Branch :
                 \/ out.repo.refs[b] = r.refs[b]
                 \/ /\ b = r.branch /\ out.result = "done"
                    /\ base \in Ancestors(out.repo, out.repo.refs[b])
<1> DEFINE onto  == CheckoutCommit(r, base)
           doing == [what |-> "rebase", other |-> 0, action |-> "pick", todo |-> plan,
                     of |-> r.branch, from |-> HeadOid(r)]
           s     == [onto.repo EXCEPT !.doing = doing]
<1>1. CASE Changed(r) # {} \/ r.doing.what = "rebase" \/ onto.result = "refused"
  <2>1. out = Refused(r)
    BY <1>1 DEF Rebase
  <2> QED BY <2>1 DEF Refused, Outcome
<1>2. CASE ~(Changed(r) # {} \/ r.doing.what = "rebase" \/ onto.result = "refused")
  <2>1. out = Replayed(s)
    BY <1>2 DEF Rebase
  <2>2. /\ Good(onto.repo) /\ onto.repo.commits = r.commits
        /\ onto.repo.refs = r.refs /\ onto.repo.server = r.server
        /\ onto.repo.branch = None /\ onto.repo.at = base
    BY <1>2, CheckoutCommitEnds
  <2>3. /\ doing \in DoingType /\ DoingOK(doing, Len(onto.repo.commits))
        /\ doing.what = "rebase" /\ doing.other = 0 /\ doing.of = r.branch
    BY <2>2, RebaseDoing
  <2> HIDE DEF onto, doing
  <2>4. /\ Good(s) /\ s.doing = doing /\ SameHistory(onto.repo, s)
        /\ HeadOid(s) = HeadOid(onto.repo)
    BY <2>2, <2>3, DoingChange
  <2> HIDE DEF s
  <2>5. HeadOid(s) = base /\ s.branch = None /\ s.commits = r.commits
        /\ s.refs = r.refs /\ s.server = r.server
    BY <2>2, <2>4 DEF HeadOid, SameHistory
  <2>6. OnBase(s, base)
    <3>1. base \in Ancestors(s, base)
      BY <2>4, <2>5, AncestorsOf
    <3> QED BY <2>3, <2>4, <2>5, <3>1 DEF OnBase
  <2>7. base # 0
    BY HeadTreeType
  <2>8. /\ out.repo.server = s.server
        /\ \A b \in Branch :
              \/ out.repo.refs[b] = s.refs[b] \/ b = s.branch
              \/ /\ b = s.doing.of /\ out.result = "done"
                 /\ base # 0 => base \in Ancestors(out.repo, out.repo.refs[b])
    BY <2>1, <2>3, <2>4, <2>6, ReplayedMoves
  <2> QED BY <2>3, <2>4, <2>5, <2>7, <2>8, NamesApart
<1> QED BY <1>1, <1>2

\* A rebase that is continued moves the branch it is of, and the one that is checked out.
LEMMA ContinueMoves ==
    ASSUME NEW r, Good(r), r.doing.what = "rebase", NEW out, out = ContinueRebase(r)
    PROVE  /\ out.result \in {"done", "refused"}
           /\ out.repo.server = r.server
           /\ \A b \in Branch : out.repo.refs[b] = r.refs[b] \/ b = r.branch \/ b = r.doing.of
<1> DEFINE m    == IF r.index = HeadTree(r) THEN r ELSE Recommitted(r, r.doing.action)
           next == Replayed(m)
<1>1. CASE r.doing.other = 0 \/ \E f \in Tracked(r) : r.work[f] # r.index[f]
  <2>1. out = Refused(r)
    BY <1>1 DEF ContinueRebase
  <2> QED BY <2>1 DEF Refused, Outcome
<1>2. CASE ~(r.doing.other = 0 \/ \E f \in Tracked(r) : r.work[f] # r.index[f])
  <2>1. out = Reported(next)
    BY <1>2 DEF ContinueRebase
  <2>2. Good(m) /\ m.doing = r.doing /\ OwnOnly(r, m) /\ m.branch = r.branch
    BY RecommittedKeeps, RecommittedMoves DEF OwnOnly
  <2> HIDE DEF m
  <2>3. Ends(m, next)
    BY <2>2, ReplayedEnds
  <2>4. /\ next.repo.server = m.server
        /\ \A b \in Branch : \/ next.repo.refs[b] = m.refs[b] \/ b = m.branch
                             \/ b = m.doing.of
    BY <2>2, ReplayedMoves
  <2> HIDE DEF next
  <2>5. out.result \in {"done", "refused"} /\ out.repo = next.repo
    BY <2>1, <2>3 DEF Reported, Refused, Outcome, Ends, Result
  <2> QED BY <2>2, <2>4, <2>5 DEF OwnOnly
<1> QED BY <1>1, <1>2

-----------------------------------------------------------------------------
(* Whatever a request asks for                                             *)

\* Where a refused operation is not harmless.
Exceptional(q, r, s) ==
    \/ q.kind = "merge" /\ r.branch = None
    \/ q.kind = "stashBranch"
    \/ q.kind \in {"rebase", "continue"} /\ s.doing.what = "rebase"

\* What any operation promises: only one that is there to discard work does, a refused one is
\* harmless, and a merge in progress goes on unless it is joined or abandoned.
Promised(q, r, out) ==
    /\ out.result \in Result /\ Follows(r, out.repo)
    /\ ~Discards(q) => Keeps(r, out.repo)
    /\ out.result = "refused" => Harmless(r, out.repo) \/ Exceptional(q, r, out.repo)
    /\ r.doing.what = "merge" /\ ~Abandons(q) => out.repo.doing = r.doing \/ Joins(r, out.repo)

LEMMA PlainPromised ==
    ASSUME NEW q, NEW r, NEW out, Plain(r, out),
           Ends(r, out) \/ (Throws(r, out) /\ Discards(q))
    PROVE  Promised(q, r, out)
<1>1. out.result = "refused" => Harmless(r, out.repo)
  BY HarmlessSame DEF Plain
<1> QED BY <1>1 DEF Plain, Ends, Throws, Keeps, Promised

LEMMA EndsPromised ==
    ASSUME NEW q, NEW r, NEW out, Ends(r, out),
           out.result = "refused" => out.repo = r \/ Harmless(r, out.repo)
                                     \/ Exceptional(q, r, out.repo),
           Abandons(q) \/ out.repo.doing = r.doing
              \/ (r.doing.what = "merge" => out.repo.doing = r.doing \/ Joins(r, out.repo))
    PROVE  Promised(q, r, out)
<1>1. out.result = "refused" => Harmless(r, out.repo) \/ Exceptional(q, r, out.repo)
  BY HarmlessSame
<1> QED BY <1>1 DEF Ends, Keeps, Promised

LEMMA PerformPromised ==
    ASSUME NEW r, Good(r), NEW q, Workable(q, Len(r.commits)), NEW out, out = Perform(q, r)
    PROVE  Promised(q, r, out)
<1>0. q.kind \in Kind
  BY DEF Workable, Sensible

<1>1. CASE q.kind = "stage"
  <2>1. out = StageFile(r, q.on)
    BY <1>1 DEF Perform
  <2>2. q.on \in Path
    BY <1>1 DEF Workable, Sensible, OnPath
  <2> QED BY <1>1, <2>1, <2>2, StageFileEnds, PlainPromised
<1>2. CASE q.kind = "stageAll"
  <2>1. out = StageAll(r)
    BY <1>2 DEF Perform
  <2> QED BY <1>2, <2>1, StageAllEnds, PlainPromised
<1>3. CASE q.kind = "unstage"
  <2>1. out = UnstageFile(r, q.on)
    BY <1>3 DEF Perform
  <2>2. q.on \in Path
    BY <1>3 DEF Workable, Sensible, OnPath
  <2> QED BY <1>3, <2>1, <2>2, UnstageFileEnds, PlainPromised
<1>4. CASE q.kind = "unstageAll"
  <2>1. out = UnstageAll(r)
    BY <1>4 DEF Perform
  <2> QED BY <1>4, <2>1, ResetsThrow, HeadTreeType, EndsPromised DEF Abandons
<1>5. CASE q.kind = "resolve"
  <2>1. out = ResolveConflict(r, q.on)
    BY <1>5 DEF Perform
  <2>2. q.on \in Path
    BY <1>5 DEF Workable, Sensible, OnPath
  <2> QED BY <1>5, <2>1, <2>2, ResolveConflictEnds, PlainPromised
<1>6. CASE q.kind = "commit"
  <2>1. out = CommitIndex(r)
    BY <1>6 DEF Perform
  <2> QED BY <1>6, <2>1, CommitIndexEnds, EndsPromised
<1>7. CASE q.kind = "amend"
  <2>1. out = AmendCommit(r)
    BY <1>7 DEF Perform
  <2> QED BY <1>7, <2>1, AmendCommitEnds, PlainPromised
<1>8. CASE q.kind = "checkout"
  <2>1. out = CheckoutBranch(r, q.on)
    BY <1>8 DEF Perform
  <2>2. q.on \in Branch \cup Remote
    BY <1>8 DEF Workable, Sensible, OnRef
  <2> QED BY <1>8, <2>1, <2>2, CheckoutBranchEnds, EndsPromised
<1>9. CASE q.kind = "checkoutCommit"
  <2>1. out = CheckoutCommit(r, q.at)
    BY <1>9 DEF Perform
  <2>2. q.at \in 1..Len(r.commits)
    BY <1>9 DEF Workable, Sensible, AtCommit
  <2> QED BY <1>9, <2>1, <2>2, CheckoutCommitEnds, PlainPromised
<1>10. CASE q.kind = "checkoutTag"
  <2>1. out = CheckoutTag(r, q.on)
    BY <1>10 DEF Perform
  <2>2. q.on \in Tag
    BY <1>10 DEF Workable, Sensible, OnTag
  <2> QED BY <1>10, <2>1, <2>2, CheckoutTagEnds, PlainPromised
<1>11. CASE q.kind = "createBranch"
  <2>1. out = CreateBranch(r, q.on, q.at)
    BY <1>11 DEF Perform
  <2>2. q.on \in Branch /\ q.at \in 0..Len(r.commits)
    BY <1>11 DEF Workable, Sensible, OnBranch
  <2> QED BY <1>11, <2>1, <2>2, CreateBranchEnds, PlainPromised
<1>12. CASE q.kind = "createTag"
  <2>1. out = CreateTag(r, q.on, q.at)
    BY <1>12 DEF Perform
  <2>2. q.on \in Ref /\ q.at \in 1..Len(r.commits)
    BY <1>12 DEF Workable, Sensible, OnTag, AtCommit, Ref
  <2> QED BY <1>12, <2>1, <2>2, CreateRefEnds, PlainPromised DEF CreateTag
<1>13. CASE q.kind = "deleteBranch"
  <2>1. out = DeleteBranch(r, q.on)
    BY <1>13 DEF Perform
  <2>2. q.on \in Branch
    BY <1>13 DEF Workable, Sensible, OnBranch
  <2> QED BY <1>13, <2>1, <2>2, DeleteBranchEnds, PlainPromised
<1>14. CASE q.kind = "deleteTag"
  <2>1. out = DeleteTag(r, q.on)
    BY <1>14 DEF Perform
  <2>2. q.on \in Tag
    BY <1>14 DEF Workable, Sensible, OnTag
  <2> QED BY <1>14, <2>1, <2>2, DeleteTagEnds, PlainPromised
<1>15. CASE q.kind = "renameBranch"
  <2>1. out = RenameBranch(r, q.on, q.at)
    BY <1>15 DEF Perform
  <2>2. q.on \in Branch /\ q.at \in Branch
    BY <1>15 DEF Workable, Sensible, OnBranch
  <2> QED BY <1>15, <2>1, <2>2, RenameBranchEnds, PlainPromised
<1>16. CASE q.kind \in {"stashSave", "discardAll"}
  <2>1. out = StashSave(r)
    BY <1>16 DEF Perform
  <2> QED BY <1>16, <2>1, StashSaveEnds, PlainPromised
<1>17. CASE q.kind = "stashPop"
  <2>1. out = StashPop(r, q.at)
    BY <1>17 DEF Perform
  <2>2. q.at \in Nat \ {0}
    BY <1>17 DEF Workable, Sensible, AtStash
  <2> QED BY <1>17, <2>1, <2>2, StashPopEnds, PlainPromised
<1>18. CASE q.kind = "stashApply"
  <2>1. out = StashApply(r, q.at)
    BY <1>18 DEF Perform
  <2>2. q.at \in Nat \ {0}
    BY <1>18 DEF Workable, Sensible, AtStash
  <2> QED BY <1>18, <2>1, <2>2, StashApplyEnds, PlainPromised
<1>19. CASE q.kind = "stashDrop"
  <2>1. out = StashDrop(r, q.at)
    BY <1>19 DEF Perform
  <2>2. q.at \in Nat \ {0}
    BY <1>19 DEF Workable, Sensible, AtStash
  <2> QED BY <1>19, <2>1, <2>2, StashDropThrows, PlainPromised DEF Discards
<1>20. CASE q.kind = "stashBranch"
  <2>1. out = StashBranch(r, q.on, q.at)
    BY <1>20 DEF Perform
  <2>2. q.on \in Branch /\ q.at \in Nat \ {0}
    BY <1>20 DEF Workable, Sensible, OnBranch, AtStash
  <2> QED BY <1>20, <2>1, <2>2, StashBranchEnds, EndsPromised DEF Exceptional
<1>21. CASE q.kind = "discard"
  <2>1. out = DiscardChanges(r, q.on)
    BY <1>21 DEF Perform
  <2>2. q.on \in Path
    BY <1>21 DEF Workable, Sensible, OnPath
  <2> QED BY <1>21, <2>1, <2>2, DiscardChangesThrows, PlainPromised DEF Discards
<1>22. CASE q.kind = "clean"
  <2>1. out = CleanUntracked(r)
    BY <1>22 DEF Perform
  <2> QED BY <1>22, <2>1, CleanUntrackedThrows, PlainPromised DEF Discards
<1>23. CASE q.kind = "resetHard"
  <2>1. out = ResetHard(r)
    BY <1>23 DEF Perform
  <2> QED BY <1>23, <2>1, ResetsThrow, HeadTreeType DEF Promised, Throws, Discards, Abandons
<1>24. CASE q.kind = "resetTo"
  <2>1. out = ResetToCommit(r, q.at)
    BY <1>24 DEF Perform
  <2>2. q.at \in 1..Len(r.commits)
    BY <1>24 DEF Workable, Sensible, AtCommit
  <2> QED BY <1>24, <2>1, <2>2, ResetsThrow DEF Promised, Throws, Discards, Abandons
<1>25. CASE q.kind = "resetMixed"
  <2>1. out = ResetMixed(r, q.at)
    BY <1>25 DEF Perform
  <2>2. q.at \in 1..Len(r.commits)
    BY <1>25 DEF Workable, Sensible, AtCommit
  <2> QED BY <1>25, <2>1, <2>2, ResetsThrow, EndsPromised DEF Abandons
<1>26. CASE q.kind = "resetSoft"
  <2>1. out = ResetSoft(r, q.at)
    BY <1>26 DEF Perform
  <2>2. q.at \in 1..Len(r.commits)
    BY <1>26 DEF Workable, Sensible, AtCommit
  <2> QED BY <1>26, <2>1, <2>2, ResetSoftEnds, PlainPromised
<1>27. CASE q.kind = "cherryPick"
  <2>1. out = CherryPick(r, q.at)
    BY <1>27 DEF Perform
  <2>2. q.at \in 1..Len(r.commits)
    BY <1>27 DEF Workable, Sensible, AtCommit
  <2> QED BY <1>27, <2>1, <2>2, PicksEnd, EndsPromised DEF Abandons
<1>28. CASE q.kind = "revert"
  <2>1. out = Revert(r, q.at)
    BY <1>28 DEF Perform
  <2>2. q.at \in 1..Len(r.commits)
    BY <1>28 DEF Workable, Sensible, AtCommit
  <2> QED BY <1>28, <2>1, <2>2, PicksEnd, EndsPromised DEF Abandons
<1>29. CASE q.kind = "abort"
  <2>1. out = AbortOperation(r)
    BY <1>29 DEF Perform
  <2> QED BY <1>29, <2>1, ResetsThrow, HeadTreeType DEF Promised, Throws, Discards, Abandons
<1>30. CASE q.kind = "merge"
  <2>1. out = MergeBranch(r, q.on)
    BY <1>30 DEF Perform
  <2>2. q.on \in Branch \cup Remote
    BY <1>30 DEF Workable, Sensible, OnRef
  <2> QED BY <1>30, <2>1, <2>2, MergeBranchEnds, EndsPromised DEF Abandons, Exceptional
<1>31. CASE q.kind = "continue"
  <2>1. out = ContinueOperation(r)
    BY <1>31 DEF Perform
  <2> QED BY <1>31, <2>1, ContinueOperationEnds, EndsPromised DEF Exceptional
<1>32. CASE q.kind = "rebase"
  <2>1. out = Rebase(r, q.on, q.at)
    BY <1>32 DEF Perform
  <2>2. /\ q.on \in Seq([commit : 1..Len(r.commits), action : RebaseAction])
        /\ q.at \in 1..Len(r.commits)
    BY <1>32 DEF Workable, Sensible
  <2> QED BY <1>32, <2>1, <2>2, RebaseEnds, EndsPromised DEF Abandons, Exceptional
<1>33. CASE q.kind = "fetch"
  <2>1. out = Fetch(r)
    BY <1>33 DEF Perform
  <2> QED BY <1>33, <2>1, FetchEnds, EndsPromised
<1>34. CASE q.kind = "pull"
  <2>1. out = Pull(r, q.on)
    BY <1>34 DEF Perform
  <2>2. q.on \in Remote
    BY <1>34 DEF Workable, Sensible, OnRemote
  <2> QED BY <1>34, <2>1, <2>2, PullEnds, EndsPromised
<1>35. CASE q.kind \in {"push", "forcePush"}
  <2> DEFINE force == q.kind = "forcePush"
  <2>1. force \in BOOLEAN /\ out = PushTo(r, q.on, q.at, force)
    BY <1>35 DEF Perform
  <2>2. q.on \in Remote
    BY <1>35 DEF Workable, Sensible, OnRemote
  <2> HIDE DEF force
  <2>3. Ends(r, out) /\ Plain(r, out)
    BY <2>1, <2>2, PushToEnds
  <2> QED BY <2>3, PlainPromised
<1> QED BY <1>0, <1>1, <1>2, <1>3, <1>4, <1>5, <1>6, <1>7, <1>8, <1>9, <1>10, <1>11, <1>12,
           <1>13, <1>14, <1>15, <1>16, <1>17, <1>18, <1>19, <1>20, <1>21, <1>22, <1>23,
           <1>24, <1>25, <1>26, <1>27, <1>28, <1>29, <1>30, <1>31, <1>32, <1>33, <1>34,
           <1>35
         DEF Kind, OnPath, OnBranch, OnTag, OnRef, OnRemote, AtCommit, AtStash, Nameless

Rewriting == {"amend", "resetHard", "resetTo", "resetMixed", "resetSoft"}

\* Where any operation leaves the branches: on the server only a forced push takes commits from
\* one; here one moves on when it is checked out, unless the operation is there to move it.
BranchMoves(q, r, out) ==
    /\ \A m \in Remote : \/ out.repo.server[m] = r.server[m] \/ r.server[m] = 0
                         \/ /\ r.server[m] \in Ancestors(out.repo, out.repo.server[m])
                            /\ out.repo.server[m] # 0
                         \/ q.kind = "forcePush"
    /\ \A b \in Branch :
          \/ r.refs[b] = 0 \/ out.repo.refs[b] \in {0, r.refs[b]}
          \/ b = r.branch /\ r.refs[b] \in Ancestors(out.repo, out.repo.refs[b])
          \/ b = r.branch /\ q.kind \in Rewriting /\ out.result = "done"
          \/ /\ b = r.branch /\ q.kind = "rebase" /\ out.result = "done"
             /\ q.at \in Ancestors(out.repo, out.repo.refs[b])
          \/ /\ b = r.branch \/ b = r.doing.of
             /\ q.kind = "continue" /\ r.doing.what = "rebase"
             /\ out.result \in {"done", "refused"}

LEMMA ForwardMoves ==
    ASSUME NEW q, NEW r, NEW out, Forward(r, out.repo) \/ Steady(r, out.repo)
    PROVE  BranchMoves(q, r, out)
BY IsForward DEF Forward, BranchMoves

LEMMA RewritingMoves ==
    ASSUME NEW q, q.kind \in Rewriting, NEW r, NEW out, OwnOnly(r, out.repo),
           out.result = "done" \/ out.repo = r
    PROVE  BranchMoves(q, r, out)
BY DEF OwnOnly, BranchMoves

LEMMA ContinueOperationMoves ==
    ASSUME NEW r, Good(r), NEW q, q.kind = "continue", NEW out, out = ContinueOperation(r)
    PROVE  BranchMoves(q, r, out)
<1>1. CASE r.unmerged # {} \/ r.doing = NotDoing
  <2>1. out = Refused(r)
    BY <1>1 DEF ContinueOperation
  <2>2. Steady(r, out.repo)
    BY <2>1, SteadySame DEF Refused, Outcome
  <2> QED BY <2>2, ForwardMoves
<1>2. CASE ~(r.unmerged # {} \/ r.doing = NotDoing) /\ r.doing.what = "merge"
  <2>1. out = FinishMergeCommit(r)
    BY <1>2 DEF ContinueOperation
  <2> QED BY <1>2, <2>1, CommitsForward, ForwardMoves
<1>3. CASE ~(r.unmerged # {} \/ r.doing = NotDoing) /\ r.doing.what = "rebase"
  <2>1. out = ContinueRebase(r)
    BY <1>3 DEF ContinueOperation
  <2> QED BY <1>3, <2>1, ContinueMoves DEF BranchMoves
<1>4. CASE /\ ~(r.unmerged # {} \/ r.doing = NotDoing)
           /\ r.doing.what # "merge" /\ r.doing.what # "rebase"
  <2>1. out = RunContinue(r)
    BY <1>4 DEF ContinueOperation
  <2> QED BY <2>1, CommitsForward, ForwardMoves
<1> QED BY <1>1, <1>2, <1>3, <1>4

LEMMA PerformMoves ==
    ASSUME NEW r, Good(r), NEW q, Workable(q, Len(r.commits)), NEW out, out = Perform(q, r)
    PROVE  BranchMoves(q, r, out)
<1>0. q.kind \in Kind /\ HeadOid(r) \in 1..Len(r.commits)
  BY HeadTreeType DEF Workable, Sensible
<1>1. CASE q.kind \in {"stage", "stageAll", "unstage", "resolve", "discard", "clean"}
  <2>1. /\ q.kind = "stage" => out = StageFile(r, q.on)
        /\ q.kind = "stageAll" => out = StageAll(r)
        /\ q.kind = "unstage" => out = UnstageFile(r, q.on)
        /\ q.kind = "resolve" => out = ResolveConflict(r, q.on)
    BY DEF Perform
  <2>2. /\ q.kind = "discard" => out = DiscardChanges(r, q.on)
        /\ q.kind = "clean" => out = CleanUntracked(r)
    BY DEF Perform
  <2>3. Steady(r, out.repo)
    BY <1>1, <2>1, <2>2, FilesSteady
  <2> QED BY <2>3, ForwardMoves
<1>2. CASE q.kind \in {"stashSave", "discardAll", "stashPop", "stashApply", "stashDrop"}
  <2>1. q.kind \in {"stashPop", "stashApply", "stashDrop"} => q.at \in Nat \ {0}
    BY DEF Workable, Sensible, AtStash
  <2>2. \/ out = StashSave(r)
        \/ q.at \in Nat \ {0} /\ out = StashPop(r, q.at)
        \/ q.at \in Nat \ {0} /\ out = StashApply(r, q.at)
        \/ q.at \in Nat \ {0} /\ out = StashDrop(r, q.at)
    BY <1>2, <2>1 DEF Perform
  <2>3. Steady(r, out.repo)
    BY <2>2, StashesSteady
  <2> QED BY <2>3, ForwardMoves
<1>3. CASE q.kind = "stashBranch"
  <2>1. out = StashBranch(r, q.on, q.at)
    BY <1>3 DEF Perform
  <2>2. q.on \in Branch /\ q.at \in Nat \ {0}
    BY <1>3 DEF Workable, Sensible, OnBranch, AtStash
  <2> QED BY <2>1, <2>2, StashBranchEnds, ForwardMoves
<1>4. CASE q.kind \in {"commit", "amend"}
  <2>1. CASE q.kind = "commit"
    <3>1. out = CommitIndex(r)
      BY <2>1 DEF Perform
    <3> QED BY <3>1, CommitsForward, ForwardMoves
  <2>2. CASE q.kind = "amend"
    <3>1. out = AmendCommit(r)
      BY <2>2 DEF Perform
    <3> QED BY <2>2, <3>1, CommitsForward, RewritingMoves DEF Rewriting
  <2> QED BY <1>4, <2>1, <2>2
<1>5. CASE q.kind \in {"checkout", "checkoutCommit", "checkoutTag"}
  <2>1. CASE q.kind = "checkout"
    <3>1. out = CheckoutBranch(r, q.on) /\ q.on \in Branch \cup Remote
      BY <2>1 DEF Perform, Workable, Sensible, OnRef
    <3> QED BY <3>1, CheckoutBranchEnds, ForwardMoves
  <2>2. CASE q.kind = "checkoutCommit"
    <3>1. out = CheckoutCommit(r, q.at) /\ q.at \in 1..Len(r.commits)
      BY <2>2 DEF Perform, Workable, Sensible, AtCommit
    <3>2. Steady(r, out.repo)
      BY <3>1, CheckoutCommitEnds, SteadyBy
    <3> QED BY <3>2, ForwardMoves
  <2>3. CASE q.kind = "checkoutTag"
    <3>1. out = CheckoutTag(r, q.on) /\ q.on \in Tag
      BY <2>3 DEF Perform, Workable, Sensible, OnTag
    <3> QED BY <3>1, CheckoutTagEnds, ForwardMoves
  <2> QED BY <1>5, <2>1, <2>2, <2>3
<1>6. CASE q.kind \in {"createBranch", "createTag"}
  <2>1. CASE q.kind = "createBranch"
    <3>1. out = CreateBranch(r, q.on, q.at)
      BY <2>1 DEF Perform
    <3>2. q.on \in Branch /\ q.at \in 0..Len(r.commits)
      BY <2>1 DEF Workable, Sensible, OnBranch
    <3> QED BY <3>1, <3>2, CreateBranchEnds, ForwardMoves
  <2>2. CASE q.kind = "createTag"
    <3>1. out = CreateRef(r, q.on, q.at)
      BY <2>2 DEF Perform, CreateTag
    <3>2. q.on \in Ref /\ q.at \in 1..Len(r.commits)
      BY <2>2 DEF Workable, Sensible, OnTag, AtCommit, Ref
    <3> QED BY <3>1, <3>2, CreateRefEnds, ForwardMoves
  <2> QED BY <1>6, <2>1, <2>2
<1>7. CASE q.kind \in {"deleteBranch", "deleteTag", "renameBranch"}
  <2>1. CASE q.kind = "deleteBranch"
    <3>1. out = DeleteBranch(r, q.on) /\ q.on \in Branch
      BY <2>1 DEF Perform, Workable, Sensible, OnBranch
    <3> QED BY <3>1, DeleteBranchEnds, ForwardMoves
  <2>2. CASE q.kind = "deleteTag"
    <3>1. out = DeleteTag(r, q.on) /\ q.on \in Tag
      BY <2>2 DEF Perform, Workable, Sensible, OnTag
    <3> QED BY <3>1, DeleteTagEnds, ForwardMoves
  <2>3. CASE q.kind = "renameBranch"
    <3>1. out = RenameBranch(r, q.on, q.at) /\ q.on \in Branch /\ q.at \in Branch
      BY <2>3 DEF Perform, Workable, Sensible, OnBranch
    <3> QED BY <3>1, RenameBranchEnds, ForwardMoves
  <2> QED BY <1>7, <2>1, <2>2, <2>3
<1>8. CASE q.kind \in {"unstageAll", "resetHard", "abort"}
  <2>1. out = Done(MixedReset(r, HeadOid(r))) \/ out = Done(HardReset(r, HeadOid(r)))
    <3>1. q.kind = "unstageAll" => out = UnstageAll(r)
      BY DEF Perform
    <3>2. q.kind = "resetHard" => out = ResetHard(r)
      BY DEF Perform
    <3>3. q.kind = "abort" => out = AbortOperation(r)
      BY DEF Perform
    <3> QED BY <1>8, <3>1, <3>2, <3>3 DEF UnstageAll, ResetHard, AbortOperation
  <2>2. out.repo = MixedReset(r, HeadOid(r)) \/ out.repo = HardReset(r, HeadOid(r))
    BY <2>1 DEF Done, Outcome
  <2>3. Steady(r, out.repo)
    BY <1>0, <2>2, ResetsMove
  <2> QED BY <2>3, ForwardMoves
<1>9. CASE q.kind \in {"resetTo", "resetMixed"}
  <2>1. q.at \in 1..Len(r.commits)
    BY <1>9 DEF Workable, Sensible, AtCommit
  <2>2. out = Done(HardReset(r, q.at)) \/ out = Done(MixedReset(r, q.at))
    BY <1>9 DEF Perform, ResetToCommit, ResetMixed
  <2>3. out.result = "done" /\ OwnOnly(r, out.repo)
    BY <2>1, <2>2, ResetsMove DEF Done, Outcome
  <2> QED BY <1>9, <2>3, RewritingMoves DEF Rewriting
<1>10. CASE q.kind = "resetSoft"
  <2>1. out = ResetSoft(r, q.at) /\ q.at \in 1..Len(r.commits)
    BY <1>10 DEF Perform, Workable, Sensible, AtCommit
  <2> QED BY <1>10, <2>1, ResetsMove, RewritingMoves DEF Rewriting
<1>11. CASE q.kind \in {"cherryPick", "revert"}
  <2>1. out = CherryPick(r, q.at) \/ out = Revert(r, q.at)
    BY <1>11 DEF Perform
  <2>2. q.at \in 1..Len(r.commits)
    BY <1>11 DEF Workable, Sensible, AtCommit
  <2> QED BY <2>1, <2>2, PicksEnd, ForwardMoves
<1>12. CASE q.kind = "merge"
  <2>1. out = MergeBranch(r, q.on) /\ q.on \in Branch \cup Remote
    BY <1>12 DEF Perform, Workable, Sensible, OnRef
  <2> QED BY <2>1, MergeBranchEnds, ForwardMoves
<1>13. CASE q.kind = "continue"
  <2>1. out = ContinueOperation(r)
    BY <1>13 DEF Perform
  <2> QED BY <1>13, <2>1, ContinueOperationMoves
<1>14. CASE q.kind = "rebase"
  <2>1. out = Rebase(r, q.on, q.at)
    BY <1>14 DEF Perform
  <2>2. /\ q.on \in Seq([commit : 1..Len(r.commits), action : RebaseAction])
        /\ q.at \in 1..Len(r.commits)
    BY <1>14 DEF Workable, Sensible
  <2>3. /\ out.repo.server = r.server
        /\ \A b \in Branch : \/ out.repo.refs[b] = r.refs[b]
                            \/ /\ b = r.branch /\ out.result = "done"
                               /\ q.at \in Ancestors(out.repo, out.repo.refs[b])
    BY <2>1, <2>2, RebaseMoves
  <2> QED BY <1>14, <2>3 DEF BranchMoves
<1>15. CASE q.kind \in {"fetch", "pull"}
  <2>1. CASE q.kind = "fetch"
    <3>1. out = Fetch(r)
      BY <2>1 DEF Perform
    <3> QED BY <3>1, FetchEnds, ForwardMoves
  <2>2. CASE q.kind = "pull"
    <3>1. out = Pull(r, q.on) /\ q.on \in Remote
      BY <2>2 DEF Perform, Workable, Sensible, OnRemote
    <3> QED BY <3>1, PullEnds, ForwardMoves
  <2> QED BY <1>15, <2>1, <2>2
<1>16. CASE q.kind \in {"push", "forcePush"}
  <2> DEFINE force == q.kind = "forcePush"
  <2>1. out = PushTo(r, q.on, q.at, force) /\ q.on \in Remote /\ force \in BOOLEAN
    <3>1. CASE q.kind = "push"
      <4>1. out = PushTo(r, q.on, q.at, FALSE) /\ force = FALSE
        BY <3>1 DEF Perform
      <4>2. q.on \in Remote
        BY <3>1 DEF Workable, OnRemote
      <4> HIDE DEF force
      <4> QED BY <4>1, <4>2
    <3>2. CASE q.kind = "forcePush"
      <4>1. out = PushTo(r, q.on, q.at, TRUE) /\ force = TRUE
        BY <3>2 DEF Perform
      <4>2. q.on \in Remote
        BY <3>2 DEF Workable, OnRemote
      <4> HIDE DEF force
      <4> QED BY <4>1, <4>2
    <3> QED BY <1>16, <3>1, <3>2
  <2>2. /\ \A b \in Branch : out.repo.refs[b] = r.refs[b]
        /\ \A m \in Remote : \/ out.repo.server[m] = r.server[m] \/ r.server[m] = 0 \/ force
                             \/ /\ out.repo.server[m] = HeadOid(r)
                                /\ r.server[m] \in Ancestors(out.repo, HeadOid(r))
    <3> HIDE DEF force
    <3> QED BY <2>1, PushToEnds
  <2>3. HeadOid(r) # 0
    BY HeadTreeType
  <2> QED BY <2>2, <2>3 DEF BranchMoves
<1> QED BY <1>0, <1>1, <1>2, <1>3, <1>4, <1>5, <1>6, <1>7, <1>8, <1>9, <1>10, <1>11, <1>12,
           <1>13, <1>14, <1>15, <1>16
         DEF Kind, OnPath, OnBranch, OnTag, OnRef, OnRemote, AtCommit, AtStash, Nameless

\* When the answer of the server is lost, what it has is on commits that are here.
LEMMA ServerStays ==
    ASSUME NEW r, Good(r), NEW q, Workable(q, Len(r.commits)), Networked(q)
    PROVE  Perform(q, r).repo.server \in [Remote -> 0..Len(r.commits)]
<1> DEFINE out == Perform(q, r)
<1>1. CASE q.kind = "fetch"
  <2>1. out = Fetch(r)
    BY <1>1 DEF Perform
  <2> QED BY <2>1, FetchEnds, RefsType
<1>2. CASE q.kind = "pull"
  <2>1. out = Pull(r, q.on)
    BY <1>2 DEF Perform
  <2>2. q.on \in Remote
    BY <1>2 DEF Workable, Sensible, OnRemote
  <2> QED BY <2>1, <2>2, PullEnds, RefsType
<1>3. CASE q.kind \in {"push", "forcePush"}
  <2>1. out = PushTo(r, q.on, q.at, FALSE) \/ out = PushTo(r, q.on, q.at, TRUE)
    BY <1>3 DEF Perform
  <2>2. q.on \in Remote
    BY <1>3 DEF Workable, Sensible, OnRemote
  <2>3. Good(out.repo) /\ out.repo.commits = r.commits
    <3> HIDE DEF out
    <3>1. Ends(r, out) /\ out.repo.commits = r.commits
      <4>1. CASE out = PushTo(r, q.on, q.at, FALSE)
        <5> DEFINE force == FALSE
        <5>1. force \in BOOLEAN /\ out = PushTo(r, q.on, q.at, force)
          BY <4>1
        <5> HIDE DEF force
        <5> QED BY <2>2, <5>1, PushToEnds
      <4>2. CASE out = PushTo(r, q.on, q.at, TRUE)
        <5> DEFINE force == TRUE
        <5>1. force \in BOOLEAN /\ out = PushTo(r, q.on, q.at, force)
          BY <4>2
        <5> HIDE DEF force
        <5> QED BY <2>2, <5>1, PushToEnds
      <4> QED BY <2>1, <4>1, <4>2
    <3> QED BY <3>1 DEF Ends, Keeps, Follows
  <2> QED BY <2>3, RefsType
<1> QED BY <1>1, <1>2, <1>3 DEF Networked

-----------------------------------------------------------------------------
(* The invariant is inductive                                              *)

\* Commits are only added, so what was typed stays typed.
LEMMA TypesGrow ==
    ASSUME NEW n \in Nat, NEW m \in Nat, n <= m
    PROVE  /\ \A q : Sensible(q, n) => Sensible(q, m)
           /\ \A q : Workable(q, n) => Workable(q, m)
           /\ Seen(n) \subseteq Seen(m)
           /\ \A op : OperationOK(op, n) => OperationOK(op, m)
           /\ Seq(UndoType(n)) \subseteq Seq(UndoType(m))
<1>1. 1..n \subseteq 1..m /\ 0..n \subseteq 0..m
  OBVIOUS
<1>2. Seq([commit : 1..n, action : RebaseAction])
          \subseteq Seq([commit : 1..m, action : RebaseAction])
  <2>1. [commit : 1..n, action : RebaseAction] \subseteq [commit : 1..m, action : RebaseAction]
    BY <1>1
  <2> QED BY <2>1, SeqMonotonic
<1>3. \A q : Sensible(q, n) => Sensible(q, m)
  BY <1>1, <1>2 DEF Sensible
<1>4. \A q : Workable(q, n) => Workable(q, m)
  BY <1>1, <1>3 DEF Workable
<1>5. Seen(n) \subseteq Seen(m)
  <2>1. [Ref -> 0..n] \subseteq [Ref -> 0..m]
    BY <1>1
  <2> QED BY <2>1 DEF Seen
<1>6. \A op : OperationOK(op, n) => OperationOK(op, m)
  BY <1>3, <1>4, <1>5 DEF OperationOK
<1>7. UndoType(n) \subseteq UndoType(m)
  BY <1>3 DEF UndoType
<1>8. Seq(UndoType(n)) \subseteq Seq(UndoType(m))
  BY <1>7, SeqMonotonic
<1> QED BY <1>3, <1>4, <1>5, <1>6, <1>8

\* What an operation in the background can do to the rest.
LEMMA RepositoryMoves ==
    ASSUME IInv, Follows(repo, repo'), UNCHANGED undo
    PROVE  /\ Good(repo') /\ shown \in Seen(Len(repo'.commits))
           /\ \A op \in running : OperationOK(op, Len(repo'.commits))
           /\ undo' \in Seq(UndoType(Len(repo'.commits))) /\ Len(undo') <= MaxUndo
<1>1. /\ Len(repo.commits) \in Nat /\ Len(repo'.commits) \in Nat /\ Good(repo')
      /\ Len(repo.commits) <= Len(repo'.commits)
  BY HeadTreeType DEF IInv, Follows, Extends
<1> QED BY <1>1, TypesGrow DEF IInv

LEMMA ReadingSeen ==
    ASSUME NEW r, Good(r)
    PROVE  Reading(r) \in Seen(Len(r.commits))
BY RefsType DEF Reading, Seen

LEMMA ReadyIsWorkable ==
    ASSUME IInv, NEW op \in running, Ready(op)
    PROVE  Workable(op.ask, Len(repo.commits))
<1>1. OperationOK(op, Len(repo.commits))
  BY DEF IInv
<1>2. CASE NeedsClean(op.ask)
  BY <1>1, <1>2 DEF Ready, OperationOK
<1>3. CASE ~NeedsClean(op.ask)
  <2>1. op.ask.kind # "rebase"
    BY <1>3 DEF NeedsClean
  <2> QED BY <1>1, <2>1 DEF OperationOK, Workable
<1> QED BY <1>2, <1>3

\* What the work of an operation leaves.
LEMMA WorkPromised ==
    ASSUME IInv, NEW op \in running, Ready(op)
    PROVE  /\ Promised(op.ask, repo, Perform(op.ask, repo))
           /\ Follows(repo, Perform(op.ask, repo).repo)
           /\ Perform(op.ask, repo).result \in Result
<1>1. Workable(op.ask, Len(repo.commits)) /\ Good(repo)
  BY ReadyIsWorkable DEF IInv
<1>2. Promised(op.ask, repo, Perform(op.ask, repo))
  BY <1>1, PerformPromised
<1> QED BY <1>2 DEF Promised

LEMMA SpendOK ==
    ASSUME BudgetOK, NEW kind \in BudgetKind \ {"total"}, Spend(kind)
    PROVE  BudgetOK' /\ budget["total"] \in 1..Budget["total"]
<1>1. /\ "total" \in BudgetKind /\ Budget["total"] \in Nat
      /\ budget \in [BudgetKind -> Nat] /\ budget["total"] <= Budget["total"]
  BY GitOperationsAssumption DEF GitOperationsAssumption, BudgetOK, BudgetKind
<1>2. /\ budget[kind] \in Nat /\ budget[kind] > 0 /\ budget["total"] \in Nat
      /\ budget["total"] > 0
      /\ budget' = [budget EXCEPT ![kind] = @ - 1, !["total"] = @ - 1]
  BY <1>1 DEF Spend
<1>3. budget' \in [BudgetKind -> Nat] /\ budget'["total"] <= budget["total"]
  BY <1>1, <1>2
<1> QED BY <1>1, <1>2, <1>3 DEF BudgetOK

LEMMA InitInv == Init => IInv
<1> SUFFICES ASSUME Init PROVE IInv
  OBVIOUS
<1> DEFINE head == InitialRefs[InitialBranch]
           tree == InitialCommits[head].tree
<1>1. /\ InitialCommits \in Seq(CommitType) /\ InitialStashes \in Seq(StashType)
      /\ Len(InitialCommits) \in Nat
  <2>1. /\ InitialCommits \in Seq([parents : Seq(Nat), tree : [Path -> SUBSET (1..99)]])
        /\ InitialStashes \in Seq([base : 1..Len(InitialCommits), tree : [Path -> SUBSET (1..99)]])
    BY GitOperationsAssumption DEF GitOperationsAssumption
  <2>2. SUBSET (1..99) \subseteq SUBSET Nat /\ 1..Len(InitialCommits) \subseteq Nat
    OBVIOUS
  <2>3. [Path -> SUBSET (1..99)] \subseteq Contents
    BY <2>2 DEF Contents
  <2>4. /\ [parents : Seq(Nat), tree : [Path -> SUBSET (1..99)]] \subseteq CommitType
        /\ [base : 1..Len(InitialCommits), tree : [Path -> SUBSET (1..99)]] \subseteq StashType
    BY <2>2, <2>3 DEF CommitType, StashType
  <2> QED BY <2>1, <2>4, SeqMonotonic, LenProperties
<1>2. head \in 1..Len(InitialCommits) /\ InitialBranch \in Branch /\ InitialBranch \in Ref
  <2>1. InitialBranch \in Branch /\ InitialBranch \in Ref /\ head # 0
    BY GitOperationsAssumption DEF GitOperationsAssumption, Ref
  <2>2. head \in 0..Len(InitialCommits)
    BY <2>1, GitOperationsAssumption DEF GitOperationsAssumption
  <2> QED BY <1>1, <2>1, <2>2
<1>3. tree \in Contents
  <2>1. InitialCommits[head] \in CommitType
    BY <1>1, <1>2, ElementOfSeq
  <2> QED BY <2>1 DEF CommitType
<1>4. /\ repo.commits = InitialCommits /\ repo.refs = InitialRefs /\ repo.branch = InitialBranch
      /\ repo.at = head /\ repo.stashes = InitialStashes /\ repo.index = tree
      /\ repo.unmerged = {} /\ repo.work = tree /\ repo.doing = NotDoing
      /\ repo.upstream = InitialUpstream /\ repo.server = InitialServer
      /\ repo = [commits |-> repo.commits, refs |-> repo.refs, branch |-> repo.branch,
                 at |-> repo.at, stashes |-> repo.stashes, index |-> repo.index,
                 unmerged |-> repo.unmerged, work |-> repo.work, doing |-> repo.doing,
                 upstream |-> repo.upstream, server |-> repo.server]
  BY DEF Init
<1>5. /\ InitialRefs \in [Ref -> 0..Len(InitialCommits)] /\ InitialRefs \in [Ref -> Nat]
      /\ InitialServer \in [Remote -> 0..Len(InitialCommits)]
      /\ InitialServer \in [Remote -> Nat]
      /\ InitialUpstream \in [Branch -> Remote \cup {None}] /\ InitialBranch # None
  BY NatRefs, GitOperationsAssumption DEF GitOperationsAssumption, Ref
<1> HIDE DEF head, tree
<1>6. repo \in Repository
  <2>1. NotDoing \in DoingType /\ head \in Nat
    BY <1>1, <1>2, NotDoingFits DEF NotDoingOK
  <2> QED BY <1>1, <1>2, <1>3, <1>4, <1>5, <2>1 DEF Repository
<1>7. HistoryOK(repo)
  <2> SUFFICES ASSUME NEW c \in 1..Len(InitialCommits),
                      NEW i \in 1..Len(InitialCommits[c].parents)
               PROVE  InitialCommits[c].parents[i] \in 1..(c - 1)
    BY <1>4 DEF HistoryOK
  <2>1. InitialCommits[c].parents \in Seq(1..(c - 1))
    <3>1. DOMAIN InitialCommits = 1..Len(InitialCommits)
      BY <1>1
    <3> QED BY <3>1, GitOperationsAssumption DEF GitOperationsAssumption
  <2> QED BY <2>1, ElementOfSeq
<1>8. RefsOK(repo)
  <2>1. \A n \in Ref : InitialRefs[n] <= Len(InitialCommits)
    BY <1>5
  <2>2. \A m \in Remote : InitialServer[m] <= Len(InitialCommits)
    BY <1>5
  <2> QED BY <1>4, <2>1, <2>2 DEF RefsOK
<1>9. HeadOK(repo)
  BY <1>2, <1>4, <1>5 DEF HeadOK, HeadOid, head
<1>10. StashesOK(repo.stashes, Len(repo.commits))
  <2> DEFINE T == [base : 1..Len(InitialCommits), tree : [Path -> SUBSET (1..99)]]
  <2>1. InitialStashes \in Seq(T)
    BY GitOperationsAssumption DEF GitOperationsAssumption
  <2>2. \A e \in T : e.base \in 1..Len(InitialCommits)
    OBVIOUS
  <2> HIDE DEF T
  <2>3. \A i \in 1..Len(InitialStashes) : InitialStashes[i] \in T
    BY <2>1, ElementOfSeq
  <2> QED BY <1>4, <2>2, <2>3 DEF StashesOK
<1>11. DoingOK(repo.doing, Len(repo.commits)) /\ IndexBehind(repo)
  BY <1>1, <1>4, NotDoingFits DEF NotDoingOK, IndexBehind
<1>12. Good(repo)
  BY <1>6, <1>7, <1>8, <1>9, <1>10, <1>11 DEF Good
<1>13. shown \in Seen(Len(repo.commits))
  BY <1>12, ReadingSeen DEF Init
<1>14. running = {} /\ undo = <<>> /\ Len(undo) <= MaxUndo
       /\ undo \in Seq(UndoType(Len(repo.commits)))
  BY GitOperationsAssumption DEF GitOperationsAssumption, Init
<1>15. BudgetOK
  BY GitOperationsAssumption DEF GitOperationsAssumption, BudgetOK, BudgetKind, Init
<1> QED BY <1>12, <1>13, <1>14, <1>15 DEF IInv

LEMMA OneIsSeq ==
    ASSUME NEW S, NEW e \in S
    PROVE  <<e>> \in Seq(S) /\ Len(<<e>>) = 1
OBVIOUS

LEMMA RequestIsSensible ==
    ASSUME NEW kind, NEW on, NEW at, NEW n \in Nat, NEW q, q = Request(kind, on, at),
           \/ kind = "createBranch" /\ on \in Branch /\ at \in 1..n
           \/ kind = "createTag" /\ on \in Tag /\ at \in 1..n
           \/ kind = "stashPop" /\ on = None /\ at = 1
           \/ kind \in {"resetTo", "resetSoft"} /\ on = None /\ at \in 1..n
    PROVE  q \in UndoType(n)
<1>1. q.kind = kind /\ q.on = on /\ q.at = at /\ q = [kind |-> kind, on |-> on, at |-> at]
  BY DEF Request
<1>2. /\ kind \in Kind \ OnRemote /\ kind # "renameBranch" /\ kind # "rebase"
      /\ kind \notin OnPath /\ kind \notin OnRef
  BY DEF Kind, OnRemote, OnPath, OnRef, OnBranch, OnTag, AtCommit, AtStash, Nameless
<1>3. q \in [kind : Kind \ OnRemote, on : Ref \cup {None}, at : Nat]
  BY <1>1, <1>2 DEF Ref
<1>4. /\ kind \in OnBranch => on \in Branch
      /\ kind \in OnTag => on \in Tag
      /\ kind \in AtCommit => at \in 1..n
      /\ kind \in AtStash => at \in Nat \ {0}
      /\ kind = "createBranch" => at \in 0..n
  BY DEF OnBranch, OnTag, AtCommit, AtStash
<1>5. Sensible(q, n)
  BY <1>1, <1>2, <1>4 DEF Sensible
<1> QED BY <1>3, <1>5 DEF UndoType

\* What is pushed for undoing is there to be done.
LEMMA UndoOfType ==
    ASSUME IInv, NEW q, Sensible(q, Len(repo.commits))
    PROVE  /\ UndoOf(q) \in Seq(UndoType(Len(repo.commits)))
           /\ Len(UndoOf(q)) \in {0, 1}
<1> DEFINE n == Len(repo.commits)
           T == UndoType(n)
<1>1. /\ n \in Nat /\ HeadOid(repo) \in 1..n /\ shown \in Seen(n)
  BY HeadTreeType DEF IInv
<1>2. Sensible(q, n)
  OBVIOUS
<1>3. \A b \in Ref : shown.refs[b] \in 0..n
  BY <1>1 DEF Seen
<1>4. CASE q.kind = "deleteBranch" /\ shown.refs[q.on] # 0
  <2> DEFINE e == Request("createBranch", q.on, shown.refs[q.on])
  <2>1. q.on \in Branch /\ q.on \in Ref
    BY <1>2, <1>4 DEF Sensible, OnBranch, Ref
  <2>2. shown.refs[q.on] \in 1..n
    BY <1>1, <1>3, <1>4, <2>1
  <2>3. e \in T
    BY <1>1, <2>1, <2>2, RequestIsSensible
  <2>4. UndoOf(q) = <<e>>
    BY <1>4 DEF UndoOf
  <2> HIDE DEF e, T, n
  <2>5. UndoOf(q) \in Seq(T) /\ Len(UndoOf(q)) = 1
    BY <2>3, <2>4, OneIsSeq
  <2> QED BY <2>5 DEF T, n
<1>5. CASE q.kind = "deleteTag" /\ shown.refs[q.on] # 0
  <2> DEFINE e == Request("createTag", q.on, shown.refs[q.on])
  <2>1. q.on \in Tag /\ q.on \in Ref
    BY <1>2, <1>5 DEF Sensible, OnTag, Ref
  <2>2. shown.refs[q.on] \in 1..n
    BY <1>1, <1>3, <1>5, <2>1
  <2>3. e \in T
    BY <1>1, <2>1, <2>2, RequestIsSensible
  <2>4. UndoOf(q) = <<e>>
    BY <1>5 DEF UndoOf
  <2> HIDE DEF e, T, n
  <2>5. UndoOf(q) \in Seq(T) /\ Len(UndoOf(q)) = 1
    BY <2>3, <2>4, OneIsSeq
  <2> QED BY <2>5 DEF T, n
<1>6. CASE q.kind = "discardAll"
  <2> DEFINE e == Request("stashPop", None, 1)
  <2>3. e \in T
    BY <1>1, RequestIsSensible
  <2>4. UndoOf(q) = <<e>>
    BY <1>6 DEF UndoOf
  <2> HIDE DEF e, T, n
  <2>5. UndoOf(q) \in Seq(T) /\ Len(UndoOf(q)) = 1
    BY <2>3, <2>4, OneIsSeq
  <2> QED BY <2>5 DEF T, n
<1>7. CASE q.kind \in {"resetHard", "resetTo", "cherryPick", "revert"}
  <2> DEFINE e == Request("resetTo", None, HeadOid(repo))
  <2>3. e \in T
    BY <1>1, RequestIsSensible
  <2>4. UndoOf(q) = <<e>>
    BY <1>7 DEF UndoOf
  <2> HIDE DEF e, T, n
  <2>5. UndoOf(q) \in Seq(T) /\ Len(UndoOf(q)) = 1
    BY <2>3, <2>4, OneIsSeq
  <2> QED BY <2>5 DEF T, n
<1>8. CASE q.kind = "commit"
  <2> DEFINE e == Request("resetSoft", None, HeadOid(repo))
  <2>3. e \in T
    BY <1>1, RequestIsSensible
  <2>4. UndoOf(q) = <<e>>
    BY <1>8 DEF UndoOf
  <2> HIDE DEF e, T, n
  <2>5. UndoOf(q) \in Seq(T) /\ Len(UndoOf(q)) = 1
    BY <2>3, <2>4, OneIsSeq
  <2> QED BY <2>5 DEF T, n
<1>9. CASE /\ ~(q.kind = "deleteBranch" /\ shown.refs[q.on] # 0)
           /\ ~(q.kind = "deleteTag" /\ shown.refs[q.on] # 0)
           /\ q.kind # "discardAll" /\ q.kind # "commit"
           /\ q.kind \notin {"resetHard", "resetTo", "cherryPick", "revert"}
  <2>1. UndoOf(q) = <<>>
    BY <1>9 DEF UndoOf
  <2> QED BY <2>1
<1> QED BY <1>4, <1>5, <1>6, <1>7, <1>8, <1>9

\* The target of a pull or a push is a branch on the server; the rest of a request stays.
LEMMA TargetedIsRemote ==
    ASSUME IInv, NEW q, Sensible(q, Len(repo.commits)), NEW ask \in Targeted(q)
    PROVE  /\ Sensible(ask, Len(repo.commits))
           /\ ask.kind \in OnRemote => ask.on \in Remote
<1>1. Sensible(q, Len(repo.commits))
  OBVIOUS
<1>2. CASE q.kind \notin {"pull", "push", "forcePush"}
  BY <1>1, <1>2 DEF Targeted, OnRemote
<1>3. CASE q.kind \in {"pull", "push", "forcePush"}
  <2> DEFINE upstream == IF repo.branch = None THEN None ELSE repo.upstream[repo.branch]
  <2>1. upstream \in Remote \cup {None}
    BY RefsType DEF IInv
  <2>2. PICK m \in Remote, at \in {0, 1} : ask = Request(q.kind, m, at)
    BY <1>3, <2>1 DEF Targeted
  <2>3. ask.kind = q.kind /\ ask.on = m /\ ask = [kind |-> ask.kind, on |-> ask.on, at |-> ask.at]
    BY <2>2 DEF Request
  <2>4. Sensible(ask, Len(repo.commits))
    BY <1>3, <2>3 DEF Sensible, Kind, OnPath, OnBranch, OnTag, OnRef, OnRemote, AtCommit, AtStash
  <2> QED BY <2>3, <2>4
<1> QED BY <1>2, <1>3

\* A new operation takes its place among the others.
LEMMA BeganOK ==
    ASSUME IInv, NEW ask, NEW undoes, Began(ask, undoes),
           Sensible(ask, Len(repo.commits)), ask.kind \in OnRemote => ask.on \in Remote,
           budget["total"] \in 1..Budget["total"]
    PROVE  \A op \in running' : OperationOK(op, Len(repo.commits))
<1> DEFINE op0 == [id |-> budget["total"], ask |-> ask, undo |-> undoes,
                   head |-> HeadOid(repo), phase |-> "begun", told |-> "", data |-> None]
<1>1. running' = running \cup {op0}
  BY Zenon DEF Began
<1>2. /\ op0.ask = ask /\ op0.phase = "begun"
      /\ op0 \in [id : 1..Budget["total"], ask : {op0.ask}, undo : {op0.undo}, head : {op0.head},
                  phase : Phase, told : {op0.told}, data : {op0.data}]
  BY DEF Phase
<1> HIDE DEF op0
<1>3. OperationOK(op0, Len(repo.commits))
  BY <1>2 DEF OperationOK
<1> QED BY <1>1, <1>3 DEF IInv

\* The stack of undos takes at most one more, and drops its oldest when it is full.
LEMMA PushOK ==
    ASSUME NEW T, undo \in Seq(T), Len(undo) <= MaxUndo,
           NEW entries \in Seq(T), Len(entries) \in {0, 1}
    PROVE  Push(entries) \in Seq(T) /\ Len(Push(entries)) <= MaxUndo
<1> DEFINE all == undo \o entries
<1>1. MaxUndo \in Nat \ {0} /\ Len(undo) \in Nat
  BY GitOperationsAssumption, LenProperties DEF GitOperationsAssumption
<1>2. all \in Seq(T) /\ Len(all) = Len(undo) + Len(entries)
  BY ConcatProperties
<1>5. Push(entries) = IF Len(all) > MaxUndo THEN Tail(all) ELSE all
  BY DEF Push
<1>6. Len(all) - 1 <= MaxUndo
  <2> DEFINE a == Len(undo)
             b == Len(entries)
  <2>1. a \in Nat /\ b \in {0, 1} /\ a <= MaxUndo /\ Len(all) = a + b /\ MaxUndo \in Nat
    BY <1>1, <1>2
  <2> HIDE DEF a, b
  <2> QED BY <2>1
<1> HIDE DEF all
<1>7. Len(all) \in Nat
  BY <1>2, LenProperties
<1>3. CASE Len(all) > MaxUndo
  <2>1. all # <<>> /\ Len(all) > 0
    BY <1>1, <1>2, <1>3, EmptySeq
  <2>2. Tail(all) \in Seq(T) /\ Len(Tail(all)) = Len(all) - 1
    BY <1>2, <2>1, HeadTailProperties
  <2>3. Push(entries) = Tail(all)
    BY <1>3, <1>5
  <2> QED BY <1>6, <2>2, <2>3
<1>4. CASE ~(Len(all) > MaxUndo)
  <2>1. Push(entries) = all
    BY <1>4, <1>5
  <2>2. Len(all) <= MaxUndo
    BY <1>1, <1>4, <1>7
  <2> QED BY <1>2, <2>1, <2>2
<1> QED BY <1>3, <1>4

LEMMA BeginInv ==
    ASSUME IInv, NEW q, Begin(q)
    PROVE  IInv'
<1>1. BudgetOK' /\ budget["total"] \in 1..Budget["total"]
  BY SpendOK DEF IInv, Begin, BudgetKind
<1>2. PICK ask \in Targeted(q) : Began(ask, UndoOf(q))
  BY DEF Begin
<1>3. \A op \in running' : OperationOK(op, Len(repo.commits))
  BY <1>1, <1>2, TargetedIsRemote, BeganOK DEF Begin
<1>4. undo' \in Seq(UndoType(Len(repo.commits))) /\ Len(undo') <= MaxUndo
  BY UndoOfType, PushOK DEF Begin, IInv
<1>5. repo' = repo /\ shown' = shown
  BY DEF Begin
<1> QED BY <1>1, <1>3, <1>4, <1>5 DEF IInv

LEMMA ExecuteUndoInv ==
    ASSUME IInv, ExecuteUndo
    PROVE  IInv'
<1> DEFINE T == UndoType(Len(repo.commits))
           n == Len(undo)
<1>1. BudgetOK' /\ budget["total"] \in 1..Budget["total"]
  BY SpendOK DEF IInv, ExecuteUndo, BudgetKind
<1>2. /\ undo \in Seq(T) /\ undo # <<>> /\ n \in Nat /\ n # 0 /\ n <= MaxUndo /\ MaxUndo \in Nat
      /\ undo' = Front(undo) /\ Began(Last(undo), <<>>)
  BY EmptySeq, LenProperties, GitOperationsAssumption
     DEF IInv, ExecuteUndo, GitOperationsAssumption
<1> HIDE DEF T, n
<1>3. Last(undo) \in T
  BY <1>2, ElementOfSeq DEF Last, n
<1>4. undo' \in Seq(T) /\ Len(undo') <= MaxUndo
  <2>1. \A i \in 1..n : undo[i] \in T
    BY <1>2, ElementOfSeq DEF n
  <2>2. undo' = SubSeq(undo, 1, n - 1)
    BY <1>2 DEF Front, n
  <2>3. SubSeq(undo, 1, n - 1) \in Seq(T) /\ Len(SubSeq(undo, 1, n - 1)) <= n
    BY <1>2, <2>1, SubSeqProperties DEF n
  <2>4. Len(SubSeq(undo, 1, n - 1)) \in Nat
    BY <2>3, LenProperties
  <2> QED BY <1>2, <2>2, <2>3, <2>4
<1>5. Sensible(Last(undo), Len(repo.commits)) /\ Last(undo).kind \notin OnRemote
  BY <1>3 DEF T, UndoType
<1>6. \A op \in running' : OperationOK(op, Len(repo.commits))
  BY <1>1, <1>2, <1>5, BeganOK
<1>7. repo' = repo /\ shown' = shown
  BY DEF ExecuteUndo
<1> QED BY <1>1, <1>4, <1>6, <1>7 DEF IInv, T

LEMMA ExpireInv ==
    ASSUME IInv, Expire
    PROVE  IInv'
<1> DEFINE T == UndoType(Len(repo.commits))
<1>1. BudgetOK'
  BY SpendOK DEF IInv, Expire, BudgetKind
<1>2. /\ undo \in Seq(T) /\ undo # <<>> /\ Len(undo) \in Nat /\ Len(undo) <= MaxUndo
      /\ undo' = Tail(undo) /\ MaxUndo \in Nat
  BY LenProperties, GitOperationsAssumption DEF IInv, Expire, GitOperationsAssumption
<1> HIDE DEF T
<1>3. Tail(undo) \in Seq(T) /\ Len(Tail(undo)) = Len(undo) - 1
  BY <1>2, HeadTailProperties
<1>4. Len(undo') <= MaxUndo
  BY <1>2, <1>3
<1>5. repo' = repo /\ shown' = shown /\ running' = running
  BY DEF Expire
<1> QED BY <1>1, <1>2, <1>3, <1>4, <1>5 DEF IInv, T

\* An operation that has ended, with nothing to apply or with a reading of the repository.
LEMMA EndedOK ==
    ASSUME NEW op, NEW n, OperationOK(op, n), NEW told, NEW data,
           told # "refused" => data \in Seen(n)
    PROVE  OperationOK([op EXCEPT !.phase = "settling", !.told = told, !.data = data], n)
<1> DEFINE to == [op EXCEPT !.phase = "settling", !.told = told, !.data = data]
<1>1. /\ to.ask = op.ask /\ to.phase = "settling" /\ to.told = told /\ to.data = data
      /\ to \in [id : 1..Budget["total"], ask : {to.ask}, undo : {to.undo}, head : {to.head},
                 phase : Phase, told : {to.told}, data : {to.data}]
  BY DEF OperationOK, Phase
<1> HIDE DEF to
<1>2. OperationOK(to, n)
  BY <1>1 DEF OperationOK
<1> QED BY <1>2 DEF to

LEMMA RefusedOK ==
    ASSUME NEW op, NEW n, OperationOK(op, n)
    PROVE  OperationOK([op EXCEPT !.phase = "settling", !.told = "refused"], n)
<1> DEFINE to == [op EXCEPT !.phase = "settling", !.told = "refused"]
<1>1. /\ to.ask = op.ask /\ to.phase = "settling" /\ to.told = "refused"
      /\ to \in [id : 1..Budget["total"], ask : {to.ask}, undo : {to.undo}, head : {to.head},
                 phase : Phase, told : {to.told}, data : {to.data}]
  BY DEF OperationOK, Phase
<1> HIDE DEF to
<1>2. OperationOK(to, n)
  BY <1>1 DEF OperationOK
<1> QED BY <1>2 DEF to

LEMMA SettleInv ==
    ASSUME IInv, NEW op \in running, Settle(op)
    PROVE  IInv'
<1>1. /\ running' \subseteq running /\ repo' = repo /\ undo' = undo /\ budget' = budget
  BY DEF Settle
<1>2. shown' \in Seen(Len(repo.commits))
  <2>1. OperationOK(op, Len(repo.commits)) /\ shown \in Seen(Len(repo.commits))
    BY DEF IInv
  <2> QED BY <2>1 DEF Settle, OperationOK
<1> QED BY <1>1, <1>2 DEF IInv, BudgetOK

\* A plan that fits has its base among the commits.
LEMMA BasedOK ==
    ASSUME IInv, NEW q, Sensible(q, Len(repo.commits)),
           q.kind \in OnRemote => q.on \in Remote, Passes(q)
    PROVE  Workable(Based(q), Len(repo.commits))
<1>1. CASE q.kind # "rebase"
  <2>1. Based(q) = q
    BY <1>1 DEF Based
  <2> QED BY <1>1, <2>1 DEF Workable
<1>2. CASE q.kind = "rebase"
  <2> DEFINE n    == Len(repo.commits)
             m    == Len(q.on)
             at   == FirstParents(repo, m)[m]
  <2>1. q.on \in Seq([commit : 1..n, action : RebaseAction]) /\ n \in Nat /\ m \in Nat
    BY <1>2, HeadTreeType, LenProperties DEF Sensible, IInv
  <2>2. at \in 0..n
    BY <2>1, FirstParentsType DEF IInv
  <2>3. at # 0
    BY <1>2 DEF Passes, PlanFits
  <2>4. Based(q) = Request("rebase", q.on, at)
    BY <1>2 DEF Based
  <2> HIDE DEF n, m, at
  <2>5. at \in 1..n
    BY <2>1, <2>2, <2>3
  <2> DEFINE b == Based(q)
  <2>6. /\ b.kind = "rebase" /\ b.on = q.on /\ b.at = at
        /\ b = [kind |-> b.kind, on |-> b.on, at |-> b.at]
    BY <2>4 DEF Request
  <2> HIDE DEF b
  <2>7. Workable(b, n)
    BY <2>1, <2>5, <2>6 DEF Workable, Sensible, Kind, OnPath, OnBranch, OnTag, OnRef, OnRemote,
                            AtCommit, AtStash
  <2> QED BY <2>7 DEF b, n
<1> QED BY <1>1, <1>2

LEMMA CheckCleanInv ==
    ASSUME IInv, NEW op \in running, CheckClean(op)
    PROVE  IInv'
<1> DEFINE n == Len(repo.commits)
           head == IF op.ask.kind = "rebase" THEN HeadOid(repo) ELSE op.head
           checked == [op EXCEPT !.phase = "checked", !.ask = Based(op.ask), !.head = head]
           refused == [op EXCEPT !.phase = "settling", !.told = "refused"]
<1>1. OperationOK(op, n)
  BY DEF IInv
<1>2. ASSUME Passes(op.ask) PROVE OperationOK(checked, n)
  <2>1. Workable(Based(op.ask), n)
    BY <1>1, <1>2, BasedOK DEF OperationOK
  <2>2. /\ checked.ask = Based(op.ask) /\ checked.phase = "checked"
        /\ checked \in [id : 1..Budget["total"], ask : {checked.ask}, undo : {checked.undo},
                        head : {checked.head}, phase : Phase, told : {checked.told},
                        data : {checked.data}]
    BY <1>1 DEF OperationOK, Phase
  <2> HIDE DEF checked
  <2> QED BY <2>1, <2>2 DEF OperationOK, Workable
<1>3. OperationOK(refused, n)
  BY <1>1, RefusedOK
<1>4. running' = (running \ {op}) \cup {IF Passes(op.ask) THEN checked ELSE refused}
  BY DEF CheckClean, Moves
<1> HIDE DEF checked, refused
<1>5. \A p \in running' : OperationOK(p, n)
  BY <1>2, <1>3, <1>4 DEF IInv
<1>6. repo' = repo /\ undo' = undo /\ budget' = budget /\ shown' = shown
  BY DEF CheckClean
<1> QED BY <1>5, <1>6 DEF IInv, BudgetOK

LEMMA WorkInv ==
    ASSUME IInv, NEW op \in running, Work(op)
    PROVE  IInv'
<1> DEFINE out == Perform(op.ask, repo)
           data == IF out.result = "refused" THEN None ELSE Reading(out.repo)
           n == Len(repo'.commits)
           to == [op EXCEPT !.phase = "settling", !.told = out.result, !.data = data]
<1>1. /\ repo' = out.repo /\ running' = (running \ {op}) \cup {to}
      /\ UNCHANGED <<shown, undo, budget>> /\ Ready(op)
  BY DEF Work, Moves
<1>2. Follows(repo, repo')
  BY <1>1, WorkPromised
<1>3. /\ Good(repo') /\ shown \in Seen(n) /\ \A p \in running : OperationOK(p, n)
      /\ undo' \in Seq(UndoType(n)) /\ Len(undo') <= MaxUndo
  BY <1>1, <1>2, RepositoryMoves
<1>4. out.result # "refused" => data \in Seen(n)
  BY <1>1, <1>3, ReadingSeen
<1> HIDE DEF out, data
<1>5. OperationOK(to, n)
  BY <1>3, <1>4, EndedOK
<1> HIDE DEF to
<1>6. \A p \in running' : OperationOK(p, n)
  BY <1>1, <1>3, <1>5
<1> QED BY <1>1, <1>3, <1>6 DEF IInv, BudgetOK

LEMMA WorkUnreadInv ==
    ASSUME IInv, NEW op \in running, WorkUnread(op)
    PROVE  IInv'
<1> DEFINE out == Perform(op.ask, repo)
           n == Len(repo'.commits)
           to == [op EXCEPT !.phase = "settling", !.told = "refused"]
<1>1. /\ repo' = out.repo /\ running' = (running \ {op}) \cup {to}
      /\ UNCHANGED <<shown, undo>> /\ Ready(op) /\ Spend("failure")
  BY DEF WorkUnread, Moves
<1>2. Follows(repo, repo')
  BY <1>1, WorkPromised
<1>3. /\ Good(repo') /\ shown \in Seen(n) /\ \A p \in running : OperationOK(p, n)
      /\ undo' \in Seq(UndoType(n)) /\ Len(undo') <= MaxUndo
  BY <1>1, <1>2, RepositoryMoves
<1>4. OperationOK(to, n)
  BY <1>3, RefusedOK
<1> HIDE DEF out, to
<1>5. \A p \in running' : OperationOK(p, n)
  BY <1>1, <1>3, <1>4
<1>6. BudgetOK'
  BY <1>1, SpendOK DEF IInv, BudgetKind
<1> QED BY <1>1, <1>3, <1>5, <1>6 DEF IInv

\* Only the branches on the server move.
LEMMA ServerChange ==
    ASSUME NEW r, Good(r), NEW server \in [Remote -> 0..Len(r.commits)],
           NEW s, s = [r EXCEPT !.server = server]
    PROVE  Keeps(r, s)
<1>1. /\ s.commits = r.commits /\ SameFiles(r, s) /\ s.refs = r.refs /\ s.branch = r.branch
      /\ s.at = r.at /\ s.server = server /\ Len(r.commits) \in Nat
  BY DEF Good, Repository, SameFiles
<1>2. server \in [Remote -> Nat] /\ \A m \in Remote : server[m] <= Len(r.commits)
  BY <1>1
<1>3. s \in Repository
  BY <1>2 DEF Good, Repository
<1>4. RefsOK(s) /\ HeadOK(s)
  BY <1>1, <1>2 DEF Good, RefsOK, HeadOK, HeadOid
<1> QED BY <1>1, <1>3, <1>4, HeadChange

LEMMA NetworkFailsInv ==
    ASSUME IInv, NEW op \in running, NetworkFails(op)
    PROVE  IInv'
<1> DEFINE n == Len(repo'.commits)
           to == [op EXCEPT !.phase = "settling", !.told = "refused"]
<1>1. /\ running' = (running \ {op}) \cup {to}
      /\ UNCHANGED <<shown, undo>> /\ Ready(op) /\ Networked(op.ask) /\ Spend("failure")
      /\ repo' = repo \/ repo' = [repo EXCEPT !.server = Perform(op.ask, repo).repo.server]
  BY DEF NetworkFails, Moves
<1>2. Follows(repo, repo')
  <2> DEFINE server == Perform(op.ask, repo).repo.server
  <2>1. server \in [Remote -> 0..Len(repo.commits)] /\ Good(repo)
    BY <1>1, ReadyIsWorkable, ServerStays DEF IInv
  <2>2. repo' = repo \/ repo' = [repo EXCEPT !.server = server]
    BY <1>1
  <2> HIDE DEF server
  <2> QED BY <2>1, <2>2, ServerChange, KeepsSame DEF Keeps
<1>3. /\ Good(repo') /\ shown \in Seen(n) /\ \A p \in running : OperationOK(p, n)
      /\ undo' \in Seq(UndoType(n)) /\ Len(undo') <= MaxUndo
  BY <1>1, <1>2, RepositoryMoves
<1>4. OperationOK(to, n)
  BY <1>3, RefusedOK
<1> HIDE DEF to
<1>5. \A p \in running' : OperationOK(p, n)
  BY <1>1, <1>3, <1>4
<1>6. BudgetOK'
  BY <1>1, SpendOK DEF IInv, BudgetKind
<1> QED BY <1>1, <1>3, <1>5, <1>6 DEF IInv

LEMMA EditInv ==
    ASSUME IInv, NEW f \in Path, Edit(f)
    PROVE  IInv'
<1> DEFINE n == Len(repo'.commits)
           work == [repo.work EXCEPT ![f] = @ \cup {100 + budget["edit"]}]
<1>1. /\ UNCHANGED <<shown, undo, running>> /\ Spend("edit")
      /\ repo' = [repo EXCEPT !.work = work]
  BY DEF Edit
<1>2. work \in Contents /\ \A g \in Path : repo.work[g] \subseteq work[g]
  <2>1. budget["edit"] \in Nat /\ repo.work \in Contents
    BY DEF IInv, BudgetOK, BudgetKind, Good, Repository
  <2>2. {100 + budget["edit"]} \in SUBSET Nat
    BY <2>1
  <2> QED BY <2>1, <2>2 DEF Contents
<1> HIDE DEF work
<1>3. /\ repo' \in Repository /\ SameHistory(repo, repo') /\ repo'.doing = repo.doing
      /\ repo'.stashes = repo.stashes /\ repo'.index = repo.index /\ repo'.work = work
  BY <1>1, <1>2 DEF IInv, Good, Repository, SameHistory
<1>4. \A g \in Path : repo'.index[g] \subseteq repo'.work[g] \cup Recorded(repo)
  BY <1>2, <1>3 DEF IInv, Good, IndexBehind
<1>5. Follows(repo, repo')
  BY <1>3, <1>4, TreesChange DEF IInv
<1>6. /\ Good(repo') /\ shown \in Seen(n) /\ \A p \in running : OperationOK(p, n)
      /\ undo' \in Seq(UndoType(n)) /\ Len(undo') <= MaxUndo
  BY <1>1, <1>5, RepositoryMoves
<1>7. BudgetOK'
  BY <1>1, SpendOK DEF IInv, BudgetKind
<1> QED BY <1>1, <1>6, <1>7 DEF IInv

LEMMA RefreshInv ==
    ASSUME IInv, Refresh
    PROVE  IInv'
<1>1. repo' = repo /\ undo' = undo /\ budget' = budget /\ running' = running
  BY DEF Refresh
<1>2. shown' \in Seen(Len(repo.commits))
  BY ReadingSeen DEF Refresh, IInv
<1> QED BY <1>1, <1>2 DEF IInv, BudgetOK

LEMMA NextInv == IInv /\ [Next]_vars => IInv'
<1> SUFFICES ASSUME IInv, [Next]_vars PROVE IInv'
  OBVIOUS
<1>1. CASE \E q \in Offered : Begin(q)
  BY <1>1, BeginInv
<1>2. CASE ExecuteUndo
  BY <1>2, ExecuteUndoInv
<1>3. CASE Expire
  BY <1>3, ExpireInv
<1>4. CASE Background
  BY <1>4, CheckCleanInv, WorkInv, SettleInv DEF Background
<1>5. CASE \E op \in running : WorkUnread(op) \/ NetworkFails(op)
  BY <1>5, WorkUnreadInv, NetworkFailsInv
<1>6. CASE \E f \in Path : Edit(f)
  BY <1>6, EditInv
<1>7. CASE Refresh
  BY <1>7, RefreshInv
<1>8. CASE UNCHANGED vars
  BY <1>8 DEF vars, IInv, BudgetOK
<1> QED BY <1>1, <1>2, <1>3, <1>4, <1>5, <1>6, <1>7, <1>8 DEF Next

LEMMA Invariance == Spec => []IInv
BY InitInv, NextInv, PTL DEF Spec

-----------------------------------------------------------------------------
(* What a rebase takes from its branch                                      *)

\* The plan of a rebase that was checked has the commits from where HEAD was then down to its
\* base.
FitOf(op, r) ==
    op.ask.kind = "rebase" /\ op.phase = "checked"
        => FitsFrom(r, op.head, op.ask.on, op.ask.at)

PlansFit == \A op \in running : FitOf(op, repo)

\* Only the work of an operation and an edit change the repository.
LEMMA OthersLeaveIt ==
    ASSUME [Next]_vars, ~ \E f \in Path : Edit(f),
           ~ \E op \in running : Work(op) \/ WorkUnread(op) \/ NetworkFails(op)
    PROVE  repo' = repo
<1>1. \A q : Begin(q) => repo' = repo
  BY DEF Begin
<1>2. ExecuteUndo => repo' = repo
  BY DEF ExecuteUndo
<1>3. Expire => repo' = repo
  BY DEF Expire
<1>4. \A op : CheckClean(op) => repo' = repo
  BY DEF CheckClean
<1>5. \A op : Settle(op) => repo' = repo
  BY DEF Settle
<1>6. Refresh => repo' = repo
  BY DEF Refresh
<1>7. UNCHANGED vars => repo' = repo
  BY DEF vars
<1>8. Next => \/ \E q \in Offered : Begin(q)
              \/ ExecuteUndo \/ Expire \/ Refresh
              \/ \E op \in running : CheckClean(op) \/ Settle(op)
  BY DEF Next, Background
<1> QED BY <1>1, <1>2, <1>3, <1>4, <1>5, <1>6, <1>7, <1>8

\* No step takes a commit away.
LEMMA NextExtends ==
    ASSUME IInv, [Next]_vars
    PROVE  Good(repo) /\ Good(repo') /\ Extends(repo, repo')
<1>1. Good(repo) /\ Good(repo') /\ repo \in Repository /\ Len(repo.commits) \in Nat
  BY NextInv, HeadTreeType DEF IInv, Good
<1>2. repo'.commits = repo.commits => Extends(repo, repo')
  BY <1>1 DEF Extends
<1>3. CASE \E op \in running : Work(op) \/ WorkUnread(op)
  BY <1>1, <1>3, WorkPromised DEF Work, WorkUnread, Follows
<1>4. CASE ~ \E op \in running : Work(op) \/ WorkUnread(op)
  <2>1. \A op : NetworkFails(op) => repo'.commits = repo.commits
    BY <1>1 DEF NetworkFails, Repository
  <2>2. \A f \in Path : Edit(f) => repo'.commits = repo.commits
    BY <1>1 DEF Edit, Repository
  <2>3. repo'.commits = repo.commits
    BY <1>4, <2>1, <2>2, OthersLeaveIt
  <2> QED BY <1>1, <1>2, <2>3
<1> QED BY <1>3, <1>4

\* What an operation that begins adds has not begun its work.
LEMMA BeganOnly ==
    ASSUME NEW ask, NEW undoes, Began(ask, undoes), NEW p \in running'
    PROVE  p \in running \/ p.phase = "begun"
<1> DEFINE op0 == [id |-> budget["total"], ask |-> ask, undo |-> undoes,
                   head |-> HeadOid(repo), phase |-> "begun", told |-> "", data |-> None]
<1>1. running' = running \cup {op0}
  BY Zenon DEF Began
<1>2. op0.phase = "begun"
  OBVIOUS
<1> HIDE DEF op0
<1> QED BY <1>1, <1>2

LEMMA PlansFitNext == IInv /\ PlansFit /\ [Next]_vars => PlansFit'
<1> SUFFICES ASSUME IInv, PlansFit, [Next]_vars PROVE PlansFit'
  OBVIOUS
<1>1. Good(repo) /\ Good(repo') /\ Extends(repo, repo')
      /\ Len(repo.commits) \in Nat /\ Len(repo'.commits) \in Nat
  BY NextExtends, HeadTreeType
<1>2. \A op \in running : OperationOK(op, Len(repo.commits))
  BY DEF IInv
<1>3. ASSUME NEW op \in running, op.ask.kind = "rebase" PROVE Len(op.ask.on) \in Nat
  <2>1. op.ask.on \in Seq([commit : 1..Len(repo.commits), action : RebaseAction])
    BY <1>2, <1>3 DEF OperationOK, Sensible
  <2> QED BY <2>1, LenProperties
<1>4. ASSUME NEW op \in running PROVE FitOf(op, repo')
  BY <1>1, <1>3, FitStays DEF FitOf, PlansFit
<1>5. ASSUME NEW op \in running, CheckClean(op), NEW p \in running' PROVE FitOf(p, repo')
  <2> DEFINE q == op.ask
             head == IF q.kind = "rebase" THEN HeadOid(repo) ELSE op.head
             checked == [op EXCEPT !.phase = "checked", !.ask = Based(q), !.head = head]
             refused == [op EXCEPT !.phase = "settling", !.told = "refused"]
  <2>1. /\ p \in running \/ (Passes(q) /\ p = checked) \/ p = refused
        /\ repo' = repo
    BY <1>5 DEF CheckClean, Moves
  <2>2. checked.phase = "checked" /\ checked.ask = Based(q) /\ checked.head = head
        /\ refused.phase # "checked"
    BY <1>2 DEF OperationOK
  <2> HIDE DEF checked, refused
  <2>3. CASE q.kind = "rebase" /\ Passes(q)
    <3> DEFINE at == FirstParents(repo, Len(q.on))[Len(q.on)]
    <3>1. FitsFrom(repo, HeadOid(repo), q.on, at)
      BY <1>1, <1>3, <2>3, PlanFitsFrom DEF Passes
    <3>2. Based(q) = Request(q.kind, q.on, at)
      BY <2>3 DEF Based
    <3> HIDE DEF at
    <3>3. checked.ask.on = q.on /\ checked.ask.at = at /\ checked.head = HeadOid(repo)
      BY <2>2, <2>3, <3>2 DEF Request
    <3>4. FitOf(checked, repo)
      BY <3>1, <3>3 DEF FitOf
    <3> QED BY <1>4, <2>1, <2>2, <3>4 DEF FitOf
  <2>4. CASE ~(q.kind = "rebase" /\ Passes(q))
    <3>1. Passes(q) => checked.ask.kind # "rebase"
      BY <2>2, <2>4 DEF Based
    <3> QED BY <1>4, <2>1, <2>2, <3>1 DEF FitOf
  <2> QED BY <2>3, <2>4
<1>6. ASSUME NEW op \in running,
             Work(op) \/ WorkUnread(op) \/ NetworkFails(op) \/ Settle(op), NEW p \in running'
      PROVE  FitOf(p, repo')
  <2>1. p \in running \/ p.phase = "settling"
    BY <1>2, <1>6 DEF Work, WorkUnread, NetworkFails, Settle, Moves, OperationOK
  <2> QED BY <1>4, <2>1 DEF FitOf
<1>7. ASSUME \/ \E q \in Offered : Begin(q)
             \/ ExecuteUndo \/ Expire \/ Refresh \/ UNCHANGED vars
             \/ \E f \in Path : Edit(f),
             NEW p \in running'
      PROVE  FitOf(p, repo')
  <2>1. ASSUME NEW q, NEW undoes, Began(q, undoes) PROVE p \in running \/ p.phase = "begun"
    BY <2>1, BeganOnly
  <2>2. (\E q \in Offered : Begin(q)) => p \in running \/ p.phase = "begun"
    BY <2>1 DEF Begin
  <2>3. ExecuteUndo => p \in running \/ p.phase = "begun"
    BY <2>1 DEF ExecuteUndo
  <2>4. Expire \/ Refresh \/ UNCHANGED vars => p \in running
    BY <1>7 DEF Expire, Refresh, vars
  <2>5. (\E f \in Path : Edit(f)) => p \in running
    BY <1>7 DEF Edit
  <2>6. p \in running \/ p.phase = "begun"
    BY <1>7, <2>2, <2>3, <2>4, <2>5
  <2> QED BY <1>4, <2>6 DEF FitOf
<1> QED BY <1>5, <1>6, <1>7 DEF Next, Background, PlansFit

LEMMA PlansStayFit == Spec => [](IInv /\ PlansFit)
<1>1. Init => PlansFit
  BY DEF Init, PlansFit
<1> QED BY <1>1, InitInv, NextInv, PlansFitNext, PTL DEF Spec

\* A rebase that is done takes from its branch what was in its plan or came with a merge of it.
LEMMA RebaseTakes ==
    ASSUME IInv, PlansFit, NEW op \in running, op.ask.kind = "rebase", Ready(op),
           Good(repo'), Extends(repo, repo'), op.head = HeadOid(repo),
           NEW c \in 1..Len(repo'.commits), op.ask.at \in Ancestors(repo', c)
    PROVE  Ancestors(repo, HeadOid(repo)) \ Ancestors(repo', c)
               \subseteq Planned(op.ask.on) \cup MergedBy(repo, op.ask.on)
<1> DEFINE base == op.ask.at
           plan == op.ask.on
<1>1. Good(repo) /\ op.phase = "checked"
  BY DEF IInv, Ready, NeedsClean
<1>2. Len(plan) \in Nat /\ FitsFrom(repo, HeadOid(repo), plan, base)
  <2>1. plan \in Seq([commit : 1..Len(repo.commits), action : RebaseAction])
    BY DEF IInv, OperationOK, Sensible
  <2> QED BY <1>1, <2>1, LenProperties DEF PlansFit, FitOf
<1>3. /\ base \in 1..Len(repo.commits)
      /\ Ancestors(repo, HeadOid(repo))
             \subseteq Planned(plan) \cup MergedBy(repo, plan) \cup Ancestors(repo, base)
  <2> HIDE DEF plan, base
  <2> QED BY <1>1, <1>2, PlanCovers
<1>4. Ancestors(repo', base) = Ancestors(repo, base)
  BY <1>1, <1>3, AncestorsStay
<1>5. Ancestors(repo', base) \subseteq Ancestors(repo', c)
  BY AncestorsOf
<1> QED BY <1>3, <1>4, <1>5

-----------------------------------------------------------------------------
(* What undoes an operation                                                 *)

\* The operation that the click on another pushes, for the HEAD there is then.
UndoneBy(q, head, u) ==
    \/ q.kind = "deleteBranch" /\ u = Request("createBranch", q.on, u.at)
    \/ q.kind = "deleteTag" /\ u = Request("createTag", q.on, u.at)
    \/ q.kind = "discardAll" /\ u = Request("stashPop", None, 1)
    \/ /\ q.kind \in {"resetHard", "resetTo", "cherryPick", "revert"}
       /\ u = Request("resetTo", None, head)
    \/ q.kind = "commit" /\ u = Request("resetSoft", None, head)

UndoFits(op) == op.undo = <<>> \/ UndoneBy(op.ask, op.head, op.undo[1])

UndosFit == \A op \in running : UndoFits(op)

LEMMA UndoOfFits ==
    ASSUME NEW q, NEW ask \in Targeted(q)
    PROVE  UndoOf(q) = <<>> \/ UndoneBy(ask, HeadOid(repo), UndoOf(q)[1])
<1>1. CASE q.kind \in {"pull", "push", "forcePush"}
  <2>1. UndoOf(q) = <<>>
    BY <1>1 DEF UndoOf
  <2> QED BY <2>1
<1>2. CASE q.kind \notin {"pull", "push", "forcePush"}
  <2>1. ask = q
    BY <1>2 DEF Targeted
  <2>2. CASE q.kind \in {"deleteBranch", "deleteTag"} /\ shown.refs[q.on] # 0
    BY <2>1, <2>2 DEF UndoOf, UndoneBy, Request
  <2>3. CASE q.kind = "discardAll"
    BY <2>1, <2>3 DEF UndoOf, UndoneBy
  <2>4. CASE q.kind \in {"resetHard", "resetTo", "cherryPick", "revert"}
    BY <2>1, <2>4 DEF UndoOf, UndoneBy
  <2>5. CASE q.kind = "commit"
    BY <2>1, <2>5 DEF UndoOf, UndoneBy
  <2>6. CASE /\ ~(q.kind \in {"deleteBranch", "deleteTag"} /\ shown.refs[q.on] # 0)
             /\ q.kind \notin {"discardAll", "resetHard", "resetTo", "cherryPick", "revert",
                               "commit"}
    BY <2>6 DEF UndoOf
  <2> QED BY <2>2, <2>3, <2>4, <2>5, <2>6
<1> QED BY <1>1, <1>2

LEMMA BeganUndo ==
    ASSUME NEW ask, NEW undoes, Began(ask, undoes), UndosFit,
           undoes = <<>> \/ UndoneBy(ask, HeadOid(repo), undoes[1])
    PROVE  UndosFit'
<1> DEFINE op0 == [id |-> budget["total"], ask |-> ask, undo |-> undoes,
                   head |-> HeadOid(repo), phase |-> "begun", told |-> "", data |-> None]
<1>1. running' = running \cup {op0}
  BY Zenon DEF Began
<1>2. op0.ask = ask /\ op0.undo = undoes /\ op0.head = HeadOid(repo)
  BY Zenon
<1> HIDE DEF op0
<1>3. UndoFits(op0)
  BY <1>2 DEF UndoFits
<1> QED BY <1>1, <1>3 DEF UndosFit

LEMMA UndosFitNext == IInv /\ UndosFit /\ [Next]_vars => UndosFit'
<1> SUFFICES ASSUME IInv, UndosFit, [Next]_vars PROVE UndosFit'
  OBVIOUS
<1>1. \A op \in running : OperationOK(op, Len(repo.commits))
  BY DEF IInv
<1>2. ASSUME NEW q, Begin(q) PROVE UndosFit'
  <2>1. PICK ask \in Targeted(q) : Began(ask, UndoOf(q))
    BY <1>2 DEF Begin
  <2> QED BY <2>1, UndoOfFits, BeganUndo
<1>3. CASE ExecuteUndo
  BY <1>3, BeganUndo DEF ExecuteUndo
<1>4. CASE Expire \/ Refresh \/ UNCHANGED vars
  BY <1>4 DEF Expire, Refresh, vars, UndosFit
<1>5. ASSUME NEW f \in Path, Edit(f) PROVE UndosFit'
  BY <1>5 DEF Edit, UndosFit
<1>6. ASSUME NEW op \in running, CheckClean(op) PROVE UndosFit'
  <2> DEFINE head == IF op.ask.kind = "rebase" THEN HeadOid(repo) ELSE op.head
             checked == [op EXCEPT !.phase = "checked", !.ask = Based(op.ask), !.head = head]
             refused == [op EXCEPT !.phase = "settling", !.told = "refused"]
  <2>1. /\ checked.ask = Based(op.ask) /\ checked.undo = op.undo /\ checked.head = head
        /\ refused.ask = op.ask /\ refused.undo = op.undo /\ refused.head = op.head
    BY <1>1 DEF OperationOK
  <2>2. running' = (running \ {op}) \cup {checked}
        \/ running' = (running \ {op}) \cup {refused}
    BY <1>6 DEF CheckClean, Moves
  <2>3. UndoFits(op)
    BY DEF UndosFit
  <2>4. op.ask.kind # "rebase" => Based(op.ask) = op.ask /\ head = op.head
    BY DEF Based
  <2>5. op.ask.kind = "rebase" => op.undo = <<>>
    BY <2>3 DEF UndoFits, UndoneBy
  <2> HIDE DEF checked, refused, head
  <2>6. UndoFits(checked) /\ UndoFits(refused)
    BY <2>1, <2>3, <2>4, <2>5 DEF UndoFits
  <2> QED BY <2>2, <2>6 DEF UndosFit
<1>7. ASSUME NEW op \in running, Work(op) \/ WorkUnread(op) \/ NetworkFails(op) PROVE UndosFit'
  <2> DEFINE read(told, data) == [op EXCEPT !.phase = "settling", !.told = told, !.data = data]
             unread == [op EXCEPT !.phase = "settling", !.told = "refused"]
  <2>1. unread.ask = op.ask /\ unread.undo = op.undo /\ unread.head = op.head
    BY <1>1 DEF OperationOK
  <2>2. ASSUME NEW told, NEW data PROVE UndoFits(read(told, data))
    <3> DEFINE to == read(told, data)
    <3>1. to.ask = op.ask /\ to.undo = op.undo /\ to.head = op.head
      BY <1>1 DEF OperationOK
    <3> HIDE DEF to
    <3>2. UndoFits(to)
      BY <3>1 DEF UndosFit, UndoFits
    <3> QED BY <3>2 DEF to
  <2>3. \/ \E told, data : running' = (running \ {op}) \cup {read(told, data)}
        \/ running' = (running \ {op}) \cup {unread}
    BY <1>7 DEF Work, WorkUnread, NetworkFails, Moves
  <2> HIDE DEF unread, read
  <2>4. UndoFits(unread)
    BY <2>1 DEF UndosFit, UndoFits
  <2> QED BY <2>2, <2>3, <2>4 DEF UndosFit
<1>8. ASSUME NEW op \in running, Settle(op) PROVE UndosFit'
  BY <1>8 DEF Settle, UndosFit
<1>9. Next => \/ \E q \in Offered : Begin(q)
              \/ ExecuteUndo \/ Expire \/ Refresh \/ \E f \in Path : Edit(f)
              \/ \E op \in running : CheckClean(op) \/ Settle(op)
              \/ \E op \in running : Work(op) \/ WorkUnread(op) \/ NetworkFails(op)
  BY DEF Next, Background
<1> QED BY <1>2, <1>3, <1>4, <1>5, <1>6, <1>7, <1>8, <1>9

LEMMA UndosStayFit == Spec => [](IInv /\ UndosFit)
<1>1. Init => UndosFit
  BY DEF Init, UndosFit
<1> QED BY <1>1, InitInv, NextInv, UndosFitNext, PTL DEF Spec

\* The undo, run on what the operation left, is done and brings back what was there.
Undone(q, r, u, s) ==
    LET back == Perform(u, s) IN back.result = "done" /\ Restored(q, r, back.repo)

\* A deleted branch or tag is made again.
LEMMA MadeAgain ==
    ASSUME NEW r, Good(r), NEW q, Workable(q, Len(r.commits)),
           q.kind \in {"deleteBranch", "deleteTag"}, Perform(q, r).result = "done",
           NEW u, UndoneBy(q, HeadOid(r), u), u.at = r.refs[q.on]
    PROVE  Undone(q, r, u, Perform(q, r).repo)
<1> DEFINE name == q.on
           out  == Perform(q, r)
           s    == out.repo
           refs == [r.refs EXCEPT ![name] = 0]
<1>1. name \in Ref /\ r \in Repository /\ r.refs \in [Ref -> Nat] /\ u.at \in Nat
  BY DEF Workable, Sensible, OnBranch, OnTag, Ref, Good, Repository
<1>2. /\ q.kind = "deleteBranch" => out = DeleteBranch(r, name)
      /\ q.kind = "deleteTag" => out = DeleteTag(r, name)
  BY DEF Perform
<1>3. r.refs[name] # 0 /\ s.refs = refs /\ s.branch = r.branch /\ s.at = r.at /\ s \in Repository
  <2>1. CASE q.kind = "deleteBranch"
    <3>1. name \in Branch /\ r.upstream \in [Branch -> Remote \cup {None}]
      BY <2>1 DEF Workable, Sensible, OnBranch, Good, Repository
    <3>2. r.refs[name] # 0 /\ out = Done([r EXCEPT !.refs[name] = 0, !.upstream[name] = None])
      <4>1. ~(r.refs[name] = 0 \/ r.branch = name)
        BY <1>2, <2>1 DEF DeleteBranch, Refused, Outcome
      <4> QED BY <1>2, <2>1, <4>1 DEF DeleteBranch
    <3>3. s = [r EXCEPT !.refs = refs, !.upstream = [r.upstream EXCEPT ![name] = None]]
      BY <1>1, <3>1, <3>2 DEF Done, Outcome, Repository
    <3>4. /\ refs \in [Ref -> Nat]
          /\ [r.upstream EXCEPT ![name] = None] \in [Branch -> Remote \cup {None}]
      BY <1>1, <3>1
    <3> HIDE DEF refs, s
    <3> QED BY <1>1, <3>2, <3>3, <3>4 DEF Repository
  <2>2. CASE q.kind = "deleteTag"
    <3>1. r.refs[name] # 0 /\ out = Done([r EXCEPT !.refs[name] = 0])
      <4>1. ~(r.refs[name] = 0)
        BY <1>2, <2>2 DEF DeleteTag, Refused, Outcome
      <4> QED BY <1>2, <2>2, <4>1 DEF DeleteTag
    <3>2. s = [r EXCEPT !.refs = refs]
      BY <1>1, <3>1 DEF Done, Outcome, Repository
    <3>3. refs \in [Ref -> Nat]
      BY <1>1
    <3> HIDE DEF refs, s
    <3> QED BY <1>1, <3>1, <3>2, <3>3 DEF Repository
  <2> QED BY <2>1, <2>2
<1> DEFINE back == Perform(u, s)
           t    == [s EXCEPT !.refs[name] = u.at]
<1> HIDE DEF s
<1>4. back = CreateRef(s, name, u.at)
  <2>1. u.at # 0
    BY <1>3
  <2>2. CASE q.kind = "deleteBranch"
    <3>1. u = Request("createBranch", name, u.at)
      BY <2>2 DEF UndoneBy
    <3>2. u.kind = "createBranch" /\ u.on = name
      BY <3>1 DEF Request
    <3> QED BY <2>1, <3>2 DEF Perform, CreateBranch
  <2>3. CASE q.kind = "deleteTag"
    <3>1. u = Request("createTag", name, u.at)
      BY <2>3 DEF UndoneBy
    <3>2. u.kind = "createTag" /\ u.on = name
      BY <3>1 DEF Request
    <3> QED BY <3>2 DEF Perform, CreateTag
  <2> QED BY <2>2, <2>3
<1>5. back = Done(t)
  <2>1. s.refs[name] = 0
    BY <1>1, <1>3
  <2> QED BY <1>4, <2>1 DEF CreateRef
<1>6. t.refs = r.refs /\ t.branch = r.branch /\ t.at = r.at
  <2>1. [refs EXCEPT ![name] = r.refs[name]] = r.refs
    BY <1>1
  <2>2. t = [s EXCEPT !.refs = [refs EXCEPT ![name] = r.refs[name]]]
    BY <1>3
  <2> HIDE DEF t, refs
  <2>3. t = [s EXCEPT !.refs = r.refs]
    BY <2>1, <2>2
  <2> QED BY <1>3, <2>3 DEF Repository
<1>7. back.result = "done" /\ back.repo = t
  BY <1>5 DEF Done, Outcome
<1> HIDE DEF back, t
<1>8. HeadOid(t) = HeadOid(r)
  BY <1>6 DEF HeadOid
<1> QED BY <1>6, <1>7, <1>8 DEF Undone, Restored, back, s

\* A hard reset to where HEAD was puts HEAD and all its files back.
LEMMA ResetBack ==
    ASSUME NEW s, Good(s), NEW c \in 1..Len(s.commits), NEW u, u = Request("resetTo", None, c)
    PROVE  /\ Perform(u, s).result = "done"
           /\ HeadOid(Perform(u, s).repo) = c /\ Perform(u, s).repo.branch = s.branch
           /\ Perform(u, s).repo.index = Tree(s, c)
           /\ \A f \in Path : Tree(s, c)[f] # {} => Perform(u, s).repo.work[f] = Tree(s, c)[f]
<1> DEFINE back == Perform(u, s)
           t    == HardReset(s, c)
           m    == MovedTo(s, c)
           tree == Tree(s, c)
           work == [f \in Path |-> IF f \in Tracked(s) \/ tree[f] # {} THEN tree[f] ELSE m.work[f]]
<1>1. u.kind = "resetTo" /\ u.at = c
  BY DEF Request
<1>2. back = Done(t)
  BY <1>1 DEF Perform, ResetToCommit
<1>3. back.result = "done" /\ back.repo = t
  BY <1>2 DEF Done, Outcome
<1>4. HeadOid(t) = c /\ t.branch = s.branch
  BY HardResetFollows
<1>5. m \in Repository
  BY MovedToKeeps DEF Good
<1>6. t = [m EXCEPT !.index = tree, !.unmerged = {}, !.doing = NotDoing, !.work = work]
  BY DEF HardReset
<1> HIDE DEF m, work, back, t
<1>7. t.index = tree /\ t.work = work
  BY <1>5, <1>6 DEF Repository
<1>8. \A f \in Path : tree[f] # {} => work[f] = tree[f]
  BY DEF work
<1> QED BY <1>3, <1>4, <1>7, <1>8 DEF back

\* A reset is undone by a reset.
LEMMA ResetUndone ==
    ASSUME NEW r, Good(r), NEW q, Workable(q, Len(r.commits)),
           q.kind \in {"resetHard", "resetTo"}, NEW u, UndoneBy(q, HeadOid(r), u)
    PROVE  Undone(q, r, u, Perform(q, r).repo)
<1> DEFINE s == Perform(q, r).repo
<1>1. PICK c \in 1..Len(r.commits) : s = HardReset(r, c)
  <2>1. CASE q.kind = "resetHard"
    BY <2>1, HeadTreeType DEF Perform, ResetHard, Done, Outcome
  <2>2. CASE q.kind = "resetTo"
    <3>1. q.at \in 1..Len(r.commits)
      BY <2>2 DEF Workable, Sensible, AtCommit
    <3> QED BY <2>2, <3>1 DEF Perform, ResetToCommit, Done, Outcome
  <2> QED BY <2>1, <2>2
<1> HIDE DEF s
<1>2. Good(s) /\ Extends(r, s) /\ s.branch = r.branch
  BY <1>1, HardResetFollows DEF Follows
<1>3. HeadOid(r) \in 1..Len(s.commits)
  BY <1>2, HeadTreeType DEF Extends
<1>4. u = Request("resetTo", None, HeadOid(r))
  BY DEF UndoneBy
<1> DEFINE back == Perform(u, s)
<1>5. back.result = "done" /\ HeadOid(back.repo) = HeadOid(r) /\ back.repo.branch = s.branch
  BY <1>2, <1>3, <1>4, ResetBack
<1> HIDE DEF back
<1>6. Undone(q, r, u, s)
  BY <1>2, <1>5 DEF Undone, Restored, back
<1> QED BY <1>6 DEF s

\* A clean tree has what HEAD has.
LEMMA CleanIsHead ==
    ASSUME NEW r, Good(r), Changed(r) = {}
    PROVE  /\ r.index = HeadTree(r)
           /\ \A f \in Tracked(r) : HeadTree(r)[f] # {} /\ r.work[f] = HeadTree(r)[f]
<1>1. \A f \in Tracked(r) : r.index[f] = HeadTree(r)[f] /\ r.work[f] = r.index[f]
  BY DEF Changed
<1>2. \A f \in Path \ Tracked(r) : r.index[f] = {} /\ HeadTree(r)[f] = {}
  BY DEF Tracked
<1>3. r.index \in Contents /\ HeadTree(r) \in Contents
  BY HeadTreeType DEF Good, Repository
<1>4. \A f \in Path : r.index[f] = HeadTree(r)[f]
  BY <1>1, <1>2
<1>5. r.index = HeadTree(r)
  BY <1>3, <1>4 DEF Contents
<1>6. \A f \in Tracked(r) : HeadTree(r)[f] # {}
  BY <1>1 DEF Tracked
<1> QED BY <1>1, <1>5, <1>6

\* A cherry-pick or a revert that ended without a conflict only changed files.
LEMMA PickedHistory ==
    ASSUME NEW r, Good(r), NEW c \in 1..Len(r.commits),
           NEW out, out = CherryPick(r, c) \/ out = Revert(r, c), out.result = "done"
    PROVE  Good(out.repo) /\ SameHistory(r, out.repo)
<1> DEFINE picking   == [what |-> "cherry-pick", other |-> c]
           reverting == [what |-> "revert", other |-> c]
<1>1. /\ Tree(r, c) \in Contents /\ ParentTree(r, c) \in Contents
      /\ picking \in DoingType /\ reverting \in DoingType
      /\ DoingOK(picking, Len(r.commits)) /\ DoingOK(reverting, Len(r.commits))
  BY HeadTreeType, ParentTreeType DEF DoingType, DoingOK
<1>2. Good(out.repo)
  BY PicksEnd DEF Ends, Keeps, Follows
<1>3. PICK a : /\ \/ a = Absorbed(r, ParentTree(r, c), Tree(r, c), picking)
                  \/ a = Absorbed(r, Tree(r, c), ParentTree(r, c), reverting)
               /\ out = PickedUp(a)
  BY DEF CherryPick, Revert, Refused, Outcome
<1> HIDE DEF picking, reverting
<1>4. SameHistory(r, a.repo) /\ a.repo \in Repository
  BY <1>1, <1>3, AbsorbedKeeps DEF Good
<1>5. out = Done([a.repo EXCEPT !.doing = NotDoing])
  BY <1>3 DEF PickedUp, Outcome
<1>6. out.repo = [a.repo EXCEPT !.doing = NotDoing]
  BY <1>5 DEF Done, Outcome
<1>7. SameHistory(r, out.repo)
  BY <1>4, <1>6 DEF SameHistory, Repository
<1> QED BY <1>2, <1>7

\* A cherry-pick or a revert is undone by a reset, as the tree was clean before.
LEMMA PickUndone ==
    ASSUME NEW r, Good(r), NEW q, Workable(q, Len(r.commits)),
           q.kind \in {"cherryPick", "revert"}, Perform(q, r).result = "done",
           Changed(r) = {}, NEW u, UndoneBy(q, HeadOid(r), u)
    PROVE  Undone(q, r, u, Perform(q, r).repo)
<1> DEFINE s == Perform(q, r).repo
<1>1. q.at \in 1..Len(r.commits)
  BY DEF Workable, Sensible, AtCommit
<1>2. Perform(q, r) = CherryPick(r, q.at) \/ Perform(q, r) = Revert(r, q.at)
  BY DEF Perform
<1>3. Good(s) /\ SameHistory(r, s)
  BY <1>1, <1>2, PickedHistory
<1> HIDE DEF s
<1>4. /\ HeadOid(r) \in 1..Len(s.commits) /\ Tree(s, HeadOid(r)) = HeadTree(r)
      /\ s.branch = r.branch
  BY <1>3, HeadTreeType DEF SameHistory, Tree, HeadTree
<1>5. u = Request("resetTo", None, HeadOid(r))
  BY DEF UndoneBy
<1> DEFINE back == Perform(u, s)
<1>6. /\ back.result = "done" /\ HeadOid(back.repo) = HeadOid(r) /\ back.repo.branch = s.branch
      /\ back.repo.index = HeadTree(r)
      /\ \A f \in Path : HeadTree(r)[f] # {} => back.repo.work[f] = HeadTree(r)[f]
  BY <1>3, <1>4, <1>5, ResetBack
<1> HIDE DEF back
<1>7. \A f \in Tracked(r) : f \in Path
  BY DEF Tracked
<1>8. /\ back.repo.index = r.index
      /\ \A f \in Tracked(r) : back.repo.work[f] = r.work[f]
  BY <1>6, <1>7, CleanIsHead
<1>9. Undone(q, r, u, s)
  BY <1>4, <1>6, <1>8 DEF Undone, Restored, back
<1> QED BY <1>9 DEF s

\* A commit is undone by a soft reset: what was staged is staged again.
LEMMA CommitUndone ==
    ASSUME NEW r, Good(r), NEW q, q.kind = "commit", Perform(q, r).result = "done",
           NEW u, UndoneBy(q, HeadOid(r), u)
    PROVE  Undone(q, r, u, Perform(q, r).repo)
<1> DEFINE out == Perform(q, r)
           s   == out.repo
<1>1. out = CommitIndex(r)
  BY DEF Perform
<1>2. Good(s) /\ Extends(r, s)
  BY <1>1, CommitIndexEnds DEF Ends, Keeps, Follows
<1>3. ~NothingToCommit(r) /\ r.unmerged = {}
  BY <1>1 DEF CommitIndex, NothingToCommit, Refused, Outcome
<1>4. /\ s.branch = r.branch /\ s.index = r.index /\ s.work = r.work /\ s.unmerged = {}
      /\ s.doing.what # "merge"
  <2>1. ASSUME NEW parents \in Seq(1..Len(r.commits)), NEW m, m = Committed(r, parents)
        PROVE  /\ m \in Repository /\ m.branch = r.branch /\ m.index = r.index
               /\ m.work = r.work /\ m.unmerged = {} /\ m.doing = r.doing
    <3>1. Good(m) /\ SameFiles(r, m) /\ m.branch = r.branch
      BY <2>1, CommittedKeeps
    <3> QED BY <1>3, <3>1 DEF SameFiles, Good
  <2>2. CASE r.doing.what = "merge"
    <3> DEFINE parents == <<HeadOid(r), r.doing.other>>
               m == Committed(r, parents)
    <3>1. parents \in Seq(1..Len(r.commits))
      BY <2>2, HeadTreeType DEF Good, DoingOK
    <3>2. out = Done([m EXCEPT !.doing = NotDoing])
      BY <1>1, <1>3, <2>2 DEF CommitIndex
    <3> HIDE DEF parents
    <3>3. /\ m \in Repository /\ m.branch = r.branch /\ m.index = r.index
          /\ m.work = r.work /\ m.unmerged = {}
      BY <2>1, <3>1
    <3> HIDE DEF m, out
    <3>4. s = [m EXCEPT !.doing = NotDoing]
      BY <3>2 DEF Done, Outcome
    <3> QED BY <3>3, <3>4 DEF Repository, NotDoing
  <2>3. CASE r.doing.what # "merge"
    <3> DEFINE parents == <<HeadOid(r)>>
               m == Committed(r, parents)
    <3>1. parents \in Seq(1..Len(r.commits))
      BY HeadTreeType
    <3>2. out = Done(m)
      BY <1>1, <1>3, <2>3 DEF CommitIndex
    <3> HIDE DEF parents
    <3>3. /\ m.branch = r.branch /\ m.index = r.index
          /\ m.work = r.work /\ m.unmerged = {} /\ m.doing = r.doing
      BY <2>1, <3>1
    <3> HIDE DEF m, out
    <3>4. s = m
      BY <3>2 DEF Done, Outcome
    <3> QED BY <2>3, <3>3, <3>4
  <2> QED BY <2>2, <2>3
<1> HIDE DEF out, s
<1> DEFINE c    == HeadOid(r)
           back == Perform(u, s)
           t    == MovedTo(s, c)
<1>5. c \in 1..Len(s.commits)
  BY <1>2, HeadTreeType DEF Extends
<1>6. u.kind = "resetSoft" /\ u.at = c
  BY DEF UndoneBy, Request
<1>7. back = Done(t)
  BY <1>4, <1>6 DEF Perform, ResetSoft
<1>8. back.result = "done" /\ back.repo = t
  BY <1>7 DEF Done, Outcome
<1> HIDE DEF c
<1>9. SameFiles(s, t) /\ t.branch = s.branch /\ HeadOid(t) = c
  BY <1>2, <1>5, MovedToKeeps
<1> HIDE DEF back, t
<1>10. Undone(q, r, u, s)
  BY <1>4, <1>8, <1>9 DEF Undone, Restored, SameFiles, back, c
<1> QED BY <1>10 DEF s, out

\* Discarded changes come back: they are the newest stash, and HEAD is still what it was made on.
LEMMA DiscardUndone ==
    ASSUME NEW r, Good(r), NEW q, q.kind = "discardAll", Perform(q, r).result = "done",
           NEW u, UndoneBy(q, HeadOid(r), u)
    PROVE  Undone(q, r, u, Perform(q, r).repo)
<1> DEFINE out   == Perform(q, r)
           s     == out.repo
           head  == HeadTree(r)
           saved == [f \in Path |-> IF f \in Tracked(r) THEN r.work[f] ELSE {}]
           entry == [base |-> HeadOid(r), tree |-> saved]
           work  == [f \in Path |-> IF f \in Tracked(r) THEN head[f] ELSE r.work[f]]
           all   == <<entry>> \o r.stashes
<1>1. out = Stashed(r)
  BY DEF Perform, StashSave
<1>2. r.unmerged = {} /\ out = Done([r EXCEPT !.stashes = all, !.index = head, !.work = work])
  <2>1. ~(r.unmerged # {} \/ Changed(r) = {})
    BY <1>1 DEF Stashed, Refused, Outcome
  <2> QED BY <1>1, <2>1 DEF Stashed
<1>3. /\ r \in Repository /\ head \in Contents /\ saved \in Contents /\ work \in Contents
      /\ HeadOid(r) \in 1..Len(r.commits)
  BY HeadTreeType DEF Good, Repository, Contents
<1>4. /\ all \in Seq(StashType) /\ all[1] = entry /\ Len(all) \in Nat \ {0}
      /\ RemoveAt(all, 1) = r.stashes
  <2>1. entry \in StashType /\ r.stashes \in Seq(StashType) /\ Len(r.stashes) \in Nat
    BY <1>3, LenProperties DEF StashType, Repository
  <2> HIDE DEF entry
  <2>2. <<entry>> \in Seq(StashType) /\ Len(<<entry>>) = 1 /\ <<entry>>[1] = entry
    BY <2>1
  <2>3. /\ all \in Seq(StashType) /\ Len(all) = 1 + Len(r.stashes)
        /\ \A k \in 1..(1 + Len(r.stashes)) :
              all[k] = IF k <= 1 THEN <<entry>>[k] ELSE r.stashes[k - 1]
    BY <2>1, <2>2, ConcatProperties
  <2> HIDE DEF all
  <2>4. 1 \in 1..Len(all) /\ all[1] = entry
    BY <2>1, <2>2, <2>3
  <2>5. /\ RemoveAt(all, 1) \in Seq(StashType) /\ Len(RemoveAt(all, 1)) = Len(all) - 1
        /\ \A k \in 1..(Len(all) - 1) :
              RemoveAt(all, 1)[k] = IF k < 1 THEN all[k] ELSE all[k + 1]
    BY <2>3, <2>4, RemoveAtElements
  <2>6. Len(RemoveAt(all, 1)) = Len(r.stashes)
        /\ \A k \in 1..Len(r.stashes) : RemoveAt(all, 1)[k] = r.stashes[k]
    BY <2>1, <2>3, <2>5
  <2>7. RemoveAt(all, 1) = r.stashes
    BY <2>1, <2>5, <2>6, SeqEqual
  <2> QED BY <2>1, <2>3, <2>4, <2>7
<1>5. s = [r EXCEPT !.stashes = all, !.index = head, !.work = work]
  BY <1>2 DEF Done, Outcome
<1> HIDE DEF out, s, all, work, saved
<1>6. /\ s.stashes = all /\ s.index = head /\ s.work = work /\ s.commits = r.commits
      /\ s.branch = r.branch /\ s.at = r.at /\ s.refs = r.refs /\ s.unmerged = {}
      /\ s \in Repository
  BY <1>2, <1>3, <1>4, <1>5 DEF Repository
<1>7. HeadOid(s) = HeadOid(r) /\ HeadTree(s) = head /\ Tree(s, HeadOid(r)) = head
  BY <1>6 DEF HeadOid, HeadTree, Tree
<1> DEFINE back  == Perform(u, s)
           again == Unstashed(s, 1)
           c     == CheckoutSafe(s, head, saved)
           moved == {f \in Path : saved[f] # head[f]}
           files == [f \in Path |-> IF f \in moved THEN saved[f] ELSE work[f]]
<1>8. back = (IF again.result = "done" THEN Done(Dropped(again.repo, 1)) ELSE Lenient(again))
  <2>1. u.kind = "stashPop" /\ u.at = 1
    BY DEF UndoneBy, Request
  <2> QED BY <2>1 DEF Perform, StashPop
<1>9. Merged(head, head, saved) = saved /\ Clashes(head, head, saved) = {}
  <2>1. Merged(head, head, saved) = [f \in Path |-> saved[f]]
    BY DEF Merged
  <2> QED BY <1>3, <2>1 DEF Clashes, Contents
<1>10. \A f \in moved : s.work[f] \in {head[f], saved[f]}
  <2>1. \A f \in moved : f \in Tracked(r)
    BY DEF saved, Tracked
  <2> QED BY <1>6, <2>1 DEF work
<1>11. /\ c.result = "done" /\ c.repo.work = files /\ c.repo.stashes = all
       /\ c.repo.branch = r.branch /\ c.repo.at = r.at /\ c.repo.refs = r.refs
       /\ c.repo.index \in Contents /\ c.repo \in Repository
  <2> DEFINE index == [f \in Path |-> IF f \in moved THEN saved[f] ELSE s.index[f]]
             wk    == [f \in Path |-> IF f \in moved THEN saved[f] ELSE s.work[f]]
             t     == [s EXCEPT !.index = index, !.work = wk]
  <2>1. c = Done(t)
    BY <1>10 DEF CheckoutSafe
  <2>2. index \in Contents /\ wk \in Contents /\ wk = files
    BY <1>3, <1>6 DEF Contents
  <2>3. c.result = "done" /\ c.repo = t
    BY <2>1 DEF Done, Outcome
  <2> HIDE DEF index, wk, files, c
  <2> QED BY <1>6, <2>2, <2>3 DEF Repository
<1> DEFINE added == {f \in Path : head[f] = {} /\ saved[f] # {}}
           index == [f \in Path |-> IF f \in added THEN saved[f] ELSE s.index[f]]
<1>12. again = Done([c.repo EXCEPT !.index = index])
  <2>1. s.stashes[1].base = HeadOid(r) /\ s.stashes[1].tree = saved /\ ~(1 > Len(s.stashes))
    BY <1>4, <1>6
  <2> HIDE DEF index, c
  <2> QED BY <1>6, <1>7, <1>9, <1>11, <2>1 DEF Unstashed, index, c
<1> HIDE DEF index, c, files
<1> DEFINE popped == [c.repo EXCEPT !.index = index]
           t      == Dropped(popped, 1)
<1>13. /\ popped.work = files /\ popped.stashes = all /\ popped.branch = r.branch
       /\ popped.at = r.at /\ popped.refs = r.refs
       /\ t = [popped EXCEPT !.stashes = RemoveAt(all, 1)]
       /\ t.work = files /\ t.branch = r.branch /\ t.at = r.at /\ t.refs = r.refs
       /\ t.stashes = RemoveAt(all, 1)
  BY <1>11 DEF Dropped, Repository
<1>14. back = Done(t)
  <2>1. again.result = "done" /\ again.repo = popped
    BY <1>12 DEF Done, Outcome
  <2> QED BY <1>8, <2>1
<1>15. back.result = "done" /\ back.repo = t
  BY <1>14 DEF Done, Outcome
<1>16. \A f \in Tracked(r) : t.work[f] = r.work[f]
  <2>1. \A f \in Tracked(r) : f \in Path /\ saved[f] = r.work[f] /\ work[f] = head[f]
    BY DEF Tracked, saved, work
  <2> QED BY <1>13, <2>1 DEF files
<1>17. HeadOid(t) = HeadOid(r)
  BY <1>13 DEF HeadOid
<1> HIDE DEF back, t
<1>18. Undone(q, r, u, s)
  BY <1>4, <1>13, <1>15, <1>16, <1>17 DEF Undone, Restored, back
<1> QED BY <1>18 DEF s, out

-----------------------------------------------------------------------------
(* Theorems *)

LEMMA TypeOfInv == IInv => TypeOK
<1> SUFFICES ASSUME IInv PROVE TypeOK
  OBVIOUS
<1>1. Good(repo) /\ repo \in Repository /\ Len(repo.commits) \in Nat
  BY HeadTreeType DEF IInv, Good
<1>2. ASSUME NEW c \in Commit
      PROVE  repo.commits[c].parents \in Seq(1..(c - 1)) /\ repo.commits[c].tree \in Contents
  <2>1. c \in 1..Len(repo.commits)
    BY DEF Commit
  <2> QED BY <1>1, <2>1, MergeParents, HeadTreeType DEF Tree
<1>3. /\ repo.refs \in [Ref -> 0..Len(repo.commits)] /\ repo.branch \in Branch \cup {None}
      /\ repo.upstream \in [Branch -> Remote \cup {None}]
      /\ repo.server \in [Remote -> 0..Len(repo.commits)]
      /\ repo.branch # None => repo.refs[repo.branch] # 0
  BY <1>1, RefsType
<1>4. {repo.index, repo.work} \subseteq Contents /\ repo.unmerged \subseteq Path
  BY <1>1 DEF Repository
<1>5. ASSUME NEW i \in DOMAIN repo.stashes
      PROVE  repo.stashes[i].base \in Commit /\ repo.stashes[i].tree \in Contents
  <2>1. repo.stashes \in Seq(StashType) /\ DOMAIN repo.stashes = 1..Len(repo.stashes)
    BY <1>1 DEF Repository
  <2>2. repo.stashes[i] \in StashType
    BY <2>1, ElementOfSeq
  <2> QED BY <1>1, <2>1, <2>2 DEF Good, StashesOK, StashType, Commit
<1>6. repo.doing.what \in {"none", "merge", "cherry-pick", "revert", "rebase"}
  BY <1>1 DEF Repository, DoingType
<1>7. \A op \in running : op.phase \in Phase /\ op.id \in 1..Budget["total"]
  BY DEF IInv, OperationOK
<1>8. Len(undo) <= MaxUndo
  BY DEF IInv
<1> QED BY <1>2, <1>3, <1>4, <1>5, <1>6, <1>7, <1>8 DEF TypeOK

\* However operations, failures and edits interleave, commits, references, stashes and the
\* merge or rebase in progress keep their shape, no reference points to a commit that is not
\* there, HEAD is never on a branch that is gone, and the stack of undos stays within its limit.
THEOREM TypeCorrect == Spec => []TypeOK
BY Invariance, TypeOfInv, PTL

\* What a step that is the work of an operation does to the repository.
LEMMA WorksPromised ==
    ASSUME IInv, NEW op \in running, NEW results, Works(op, results)
    PROVE  /\ repo' = Perform(op.ask, repo).repo /\ Perform(op.ask, repo).result \in results
           /\ Promised(op.ask, repo, Perform(op.ask, repo)) /\ Follows(repo, repo')
BY WorkPromised DEF Works, Work, WorkUnread

\* No operation but those that are there to discard work loses an edit, for any history, any
\* requests, and whatever was edited since its check for a clean tree.
THEOREM WorkIsKept == Spec => WorkKept
<1> DEFINE A == \A op \in running :
                   ~Discards(op.ask) /\ Works(op, {"done", "conflicts", "refused"})
                       => Kept(repo) \subseteq Kept(repo') \cup Recorded(repo')
<1>1. ASSUME IInv, [Next]_vars PROVE A
  <2> SUFFICES ASSUME NEW op \in running, ~Discards(op.ask),
                      Works(op, {"done", "conflicts", "refused"})
               PROVE  Kept(repo) \subseteq Kept(repo') \cup Recorded(repo')
    OBVIOUS
  <2>1. repo' = Perform(op.ask, repo).repo /\ Promised(op.ask, repo, Perform(op.ask, repo))
    BY <1>1, WorksPromised
  <2>2. Keeps(repo, repo')
    BY <2>1 DEF Promised
  <2> QED BY <2>2 DEF Keeps, Safe
<1> QED BY <1>1, Invariance, PTL DEF Spec, WorkKept

\* A refused operation changes at most references and what tracks what, the three exceptions
\* apart, for any history and any requests.
THEOREM RefusalIsHarmless == Spec => RefusalHarmless
<1> DEFINE A == \A op \in running :
                   /\ repo' # repo
                   /\ Works(op, {"refused"})
                   /\ ~(op.ask.kind = "merge" /\ repo.branch = None) /\ op.ask.kind # "stashBranch"
                   /\ ~(op.ask.kind \in {"rebase", "continue"} /\ repo'.doing.what = "rebase")
                   => repo' = [repo EXCEPT !.refs = repo'.refs, !.upstream = repo'.upstream]
<1>1. ASSUME IInv, [Next]_vars PROVE A
  <2> SUFFICES ASSUME NEW op \in running, Works(op, {"refused"}),
                      ~(op.ask.kind = "merge" /\ repo.branch = None),
                      op.ask.kind # "stashBranch",
                      ~(op.ask.kind \in {"rebase", "continue"} /\ repo'.doing.what = "rebase")
               PROVE  repo' = [repo EXCEPT !.refs = repo'.refs, !.upstream = repo'.upstream]
    OBVIOUS
  <2>1. /\ repo' = Perform(op.ask, repo).repo /\ Perform(op.ask, repo).result = "refused"
        /\ Promised(op.ask, repo, Perform(op.ask, repo)) /\ Follows(repo, repo')
    BY <1>1, WorksPromised
  <2>2. Harmless(repo, repo')
    BY <2>1 DEF Promised, Exceptional
  <2>3. repo \in Repository /\ repo' \in Repository
    BY <1>1, <2>1 DEF IInv, Follows, Good
  <2> QED BY <2>2, <2>3 DEF Harmless, SameFiles, Repository
<1> QED BY <1>1, Invariance, PTL DEF Spec, RefusalHarmless

\* A merge in progress that ends without being abandoned ends in a commit with both its sides
\* among its ancestors, for any history and any requests.
THEOREM MergeIsKept == Spec => MergeKept
<1> DEFINE A == \A op \in running :
                   /\ repo.doing.what = "merge" /\ repo'.doing # repo.doing
                   /\ Works(op, {"done", "conflicts", "refused"}) /\ ~Abandons(op.ask)
                   => {HeadOid(repo), repo.doing.other} \subseteq Ancestors(repo', HeadOid(repo'))
<1>1. ASSUME IInv, [Next]_vars PROVE A
  <2> SUFFICES ASSUME NEW op \in running, repo.doing.what = "merge", repo'.doing # repo.doing,
                      Works(op, {"done", "conflicts", "refused"}), ~Abandons(op.ask)
               PROVE  {HeadOid(repo), repo.doing.other}
                          \subseteq Ancestors(repo', HeadOid(repo'))
    OBVIOUS
  <2>1. /\ repo' = Perform(op.ask, repo).repo /\ Follows(repo, repo')
        /\ Promised(op.ask, repo, Perform(op.ask, repo))
    BY <1>1, WorksPromised
  <2>2. Joins(repo, repo') /\ Good(repo')
    BY <2>1 DEF Promised, Follows
  <2> DEFINE c == HeadOid(repo')
             parents == repo'.commits[c].parents
  <2>3. /\ c \in 1..Len(repo'.commits) /\ parents = <<HeadOid(repo), repo.doing.other>>
    BY <2>2 DEF Joins
  <2>4. ToSet(parents) \subseteq Ancestors(repo', c)
    BY <2>2, <2>3, AncestorsOf
  <2>5. {HeadOid(repo), repo.doing.other} \subseteq ToSet(parents)
    <3> HIDE DEF parents
    <3>1. /\ parents[1] = HeadOid(repo) /\ parents[2] = repo.doing.other
          /\ DOMAIN parents = {1, 2}
      BY <2>3
    <3> QED BY <3>1 DEF ToSet
  <2> QED BY <2>4, <2>5
<1> QED BY <1>1, Invariance, PTL DEF Spec, MergeKept

\* A branch moves only when it is checked out or the rebase that is continued is of it, and only
\* on unless the operation is there to move it; a rebase takes from its branch only what its plan
\* has or what came with a merge of the plan, if HEAD is where it was when the two were compared;
\* on the server only a forced push takes commits from a branch.
THEOREM BranchesOnlyMoveForward == Spec => BranchesMoveForward
<1> DEFINE Served(m) ==
               repo'.server[m] # repo.server[m] /\ repo.server[m] # 0
                   => \/ repo.server[m] \in Ancestors(repo', repo'.server[m])
                      \/ \E op \in running : Ready(op) /\ op.ask.kind = "forcePush"
           Moved(b) ==
               repo.refs[b] # 0 /\ repo'.refs[b] \notin {0, repo.refs[b]}
                   => /\ b = repo.branch \/ b = Rebasing
                      /\ \/ repo.refs[b] \in Ancestors(repo', repo'.refs[b])
                         \/ \E op \in running : /\ Works(op, {"done"})
                                                /\ op.ask.kind \in {"amend", "resetHard", "resetTo",
                                                                    "resetMixed", "resetSoft"}
                         \/ Rewrites(Ancestors(repo, repo.refs[b])
                                         \ Ancestors(repo', repo'.refs[b]))
<1>1. ASSUME IInv, [Next]_vars, repo'.refs = repo.refs,
             \A m \in Remote : repo'.server[m] = repo.server[m]
      PROVE  (\A m \in Remote : Served(m)) /\ \A b \in Branch : Moved(b)
  BY <1>1
<1>2. ASSUME IInv, PlansFit, [Next]_vars, NEW op \in running, Work(op) \/ WorkUnread(op)
      PROVE  (\A m \in Remote : Served(m)) /\ \A b \in Branch : Moved(b)
  <2> DEFINE out == Perform(op.ask, repo)
  <2>1. repo' = out.repo /\ Ready(op)
    BY <1>2 DEF Work, WorkUnread
  <2>2. BranchMoves(op.ask, repo, out)
    BY <1>2, <2>1, ReadyIsWorkable, PerformMoves DEF IInv
  <2>3. Good(repo) /\ Good(repo') /\ Extends(repo, repo')
    BY <1>2, NextExtends
  <2>4. \A results : out.result \in results => Works(op, results)
    BY <1>2, <2>1 DEF Works
  <2> HIDE DEF out
  <2>5. ASSUME NEW m \in Remote PROVE Served(m)
    BY <2>1, <2>2 DEF BranchMoves
  <2>6. ASSUME NEW b \in Branch, repo.refs[b] # 0, repo'.refs[b] \notin {0, repo.refs[b]}
        PROVE  Moved(b)
    <3>1. CASE b = repo.branch /\ repo.refs[b] \in Ancestors(repo', repo'.refs[b])
      BY <3>1
    <3>2. CASE b = repo.branch /\ op.ask.kind \in Rewriting /\ out.result = "done"
      BY <2>4, <3>2 DEF Rewriting
    <3>3. CASE /\ b = repo.branch /\ op.ask.kind = "rebase" /\ out.result = "done"
               /\ op.ask.at \in Ancestors(repo', repo'.refs[b])
      <4> DEFINE gone == Ancestors(repo, repo.refs[b]) \ Ancestors(repo', repo'.refs[b])
      <4>1. HeadOid(repo) = repo.refs[b]
        BY <3>3, NamesApart DEF HeadOid
      <4>2. repo'.refs[b] \in 1..Len(repo'.commits)
        <5>1. repo'.refs[b] \in 0..Len(repo'.commits) /\ Len(repo'.commits) \in Nat
          BY <2>3, RefsType, NamesApart, HeadTreeType
        <5> QED BY <2>6, <5>1
      <4>3. op.head = HeadOid(repo)
               => gone \subseteq Planned(op.ask.on) \cup MergedBy(repo, op.ask.on)
        BY <1>2, <2>1, <2>3, <3>3, <4>1, <4>2, RebaseTakes
      <4> HIDE DEF gone
      <4>4. Rewrites(gone)
        BY <2>4, <3>3, <4>3 DEF Rewrites
      <4> QED BY <3>3, <4>4 DEF gone
    <3>4. CASE /\ b = repo.branch \/ b = repo.doing.of
               /\ op.ask.kind = "continue" /\ repo.doing.what = "rebase"
               /\ out.result \in {"done", "refused"}
      <4> DEFINE gone == Ancestors(repo, repo.refs[b]) \ Ancestors(repo', repo'.refs[b])
      <4>1. Rewrites(gone)
        BY <2>4, <3>4 DEF Rewrites
      <4>2. b = repo.branch \/ b = Rebasing
        BY <3>4 DEF Rebasing
      <4> QED BY <4>1, <4>2
    <3> QED BY <2>1, <2>2, <2>6, <3>1, <3>2, <3>3, <3>4 DEF BranchMoves
  <2> QED BY <2>5, <2>6
<1>3. ASSUME IInv, [Next]_vars, NEW op \in running, NetworkFails(op)
      PROVE  (\A m \in Remote : Served(m)) /\ \A b \in Branch : Moved(b)
  <2> DEFINE out == Perform(op.ask, repo)
  <2>1. /\ Ready(op) /\ Networked(op.ask) /\ Workable(op.ask, Len(repo.commits))
        /\ Good(repo) /\ repo \in Repository
    BY <1>3, ReadyIsWorkable DEF NetworkFails, IInv, Good
  <2>2. /\ repo'.refs = repo.refs /\ repo'.commits = repo.commits
        /\ repo'.server = repo.server \/ repo'.server = out.repo.server
    BY <1>3, <2>1 DEF NetworkFails, Repository
  <2>3. BranchMoves(op.ask, repo, out) /\ Follows(repo, out.repo)
        /\ out.repo.server \in [Remote -> 0..Len(repo.commits)]
    BY <1>3, <2>1, PerformMoves, WorkPromised, ServerStays
  <2>4. Good(repo') /\ Extends(repo, repo')
    BY <1>3, NextExtends
  <2> HIDE DEF out
  <2>5. ASSUME NEW m \in Remote, out.repo.server[m] # 0
        PROVE  Ancestors(repo', out.repo.server[m]) = Ancestors(out.repo, out.repo.server[m])
    <3>1. out.repo.server[m] \in 1..Len(repo.commits)
      BY <2>1, <2>3, <2>5, HeadTreeType
    <3> DEFINE c == out.repo.server[m]
    <3> HIDE DEF c
    <3>2. Ancestors(repo', c) = Ancestors(repo, c)
      BY <2>1, <2>4, <3>1, AncestorsStay DEF c
    <3>3. Ancestors(out.repo, c) = Ancestors(repo, c)
      BY <2>1, <2>3, <3>1, AncestorsStay DEF c, Follows
    <3> QED BY <3>2, <3>3 DEF c
  <2>6. ASSUME NEW m \in Remote PROVE Served(m)
    BY <2>1, <2>2, <2>3, <2>5 DEF BranchMoves
  <2> QED BY <2>2, <2>6
<1>4. ASSUME IInv, [Next]_vars,
             ~ \E op \in running : Work(op) \/ WorkUnread(op) \/ NetworkFails(op)
      PROVE  repo'.refs = repo.refs /\ repo'.server = repo.server
  <2>1. repo \in Repository
    BY <1>4 DEF IInv, Good
  <2>2. \A f \in Path : Edit(f) => repo'.refs = repo.refs /\ repo'.server = repo.server
    BY <2>1 DEF Edit, Repository
  <2> QED BY <1>4, <2>2, OthersLeaveIt
<1>5. ASSUME IInv, PlansFit, [Next]_vars
      PROVE  (\A m \in Remote : Served(m)) /\ \A b \in Branch : Moved(b)
  <2> HIDE DEF Served, Moved
  <2> QED BY <1>1, <1>2, <1>3, <1>4, <1>5
<1> QED BY <1>5, PlansStayFit, PTL DEF Spec, BranchesMoveForward

\* When an operation is done and its undo was taken from the repository it worked on, the undo,
\* run on what it left, is done too and brings back what was there, for any history and any
\* requests.
THEOREM UndoBringsBack == Spec => UndoReverses
<1> DEFINE A == \A op \in running :
                   /\ op.undo # <<>> /\ op.head = HeadOid(repo) /\ Works(op, {"done"})
                   /\ op.ask.kind \in {"deleteBranch", "deleteTag"}
                          => op.undo[1].at = repo.refs[op.ask.on]
                   /\ NeedsClean(op.ask) => Changed(repo) = {}
                   => LET back == Perform(op.undo[1], repo')
                      IN  back.result = "done" /\ Restored(op.ask, repo, back.repo)
<1>1. ASSUME IInv, UndosFit, [Next]_vars PROVE A
  <2> SUFFICES ASSUME NEW op \in running, op.undo # <<>>, op.head = HeadOid(repo),
                      Works(op, {"done"}),
                      op.ask.kind \in {"deleteBranch", "deleteTag"}
                          => op.undo[1].at = repo.refs[op.ask.on],
                      NeedsClean(op.ask) => Changed(repo) = {}
               PROVE  Undone(op.ask, repo, op.undo[1], repo')
    BY DEF Undone
  <2> DEFINE q == op.ask
             u == op.undo[1]
  <2>1. /\ Good(repo) /\ Workable(q, Len(repo.commits)) /\ Perform(q, repo).result = "done"
        /\ repo' = Perform(q, repo).repo
    BY <1>1, WorksPromised, ReadyIsWorkable DEF Works, IInv
  <2>2. UndoneBy(q, HeadOid(repo), u)
    BY <1>1 DEF UndosFit, UndoFits
  <2> HIDE DEF q, u
  <2>3. CASE q.kind \in {"deleteBranch", "deleteTag"}
    BY <2>1, <2>2, <2>3, MadeAgain DEF q, u
  <2>4. CASE q.kind = "discardAll"
    BY <2>1, <2>2, <2>4, DiscardUndone DEF q, u
  <2>5. CASE q.kind \in {"resetHard", "resetTo"}
    BY <2>1, <2>2, <2>5, ResetUndone DEF q, u
  <2>6. CASE q.kind \in {"cherryPick", "revert"}
    <3>1. Changed(repo) = {}
      BY <2>6 DEF NeedsClean, q
    <3> QED BY <2>1, <2>2, <2>6, <3>1, PickUndone DEF q, u
  <2>7. CASE q.kind = "commit"
    BY <2>1, <2>2, <2>7, CommitUndone DEF q, u
  <2> QED BY <2>2, <2>3, <2>4, <2>5, <2>6, <2>7 DEF UndoneBy
<1> QED BY <1>1, UndosStayFit, PTL DEF Spec, UndoReverses
=============================================================================
