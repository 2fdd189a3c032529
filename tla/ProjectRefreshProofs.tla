------------------------ MODULE ProjectRefreshProofs ------------------------
(***************************************************************************)
(* What holds of ProjectRefresh for every value of its constants: any log, *)
(* any page size, any number of tasks in flight.  Each safety property     *)
(* rests on an inductive invariant that says more than the property: what  *)
(* the tasks in flight hold.                                               *)
(***************************************************************************)
EXTENDS ProjectRefresh, SequenceTheorems, FiniteSetTheorems, WellFoundedInduction, TLAPS

-----------------------------------------------------------------------------
(* Natural numbers and sequences *)

\* A non-empty set of natural numbers has a least element.
LEMMA LeastNatural ==
    ASSUME NEW T \in SUBSET Nat, T # {}
    PROVE  \E m \in T : \A n \in T : m <= n
<1>1. \E m \in T : \A n \in T : ~(<<n, m>> \in OpToRel(<, Nat))
  BY NatLessThanWellFounded, WFMin, Zenon
<1>2. PICK m \in T : \A n \in T : ~(<<n, m>> \in OpToRel(<, Nat))
  BY <1>1
<1>3. ASSUME NEW n \in T PROVE m <= n
  <2>1. ~(n < m)
    BY <1>2 DEF OpToRel
  <2> QED BY <2>1
<1> QED BY <1>3

\* The first commits of a log form a log.
LEMMA FirstOfType ==
    ASSUME NEW S, NEW log \in Seq(S), NEW n \in Nat
    PROVE  /\ FirstOf(log, n) \in Seq(S)
           /\ Len(FirstOf(log, n)) <= Len(log)
           /\ \A i \in 1..Len(FirstOf(log, n)) : FirstOf(log, n)[i] = log[i]
BY DEF FirstOf, Smaller

\* The cursor of a list is a commit, or none.
LEMMA CursorType ==
    ASSUME NEW list \in Seq(Nat)
    PROVE  CursorOf(list) \in Nat
BY DEF CursorOf, NoCursor

\* A page starts at a position of its window, or just after its end.
LEMMA PageStartType ==
    ASSUME NEW window \in Seq(Nat), NEW loaded \in Nat, NEW cursor \in Nat
    PROVE  PageStart(window, loaded, cursor) \in 0..Len(window)
<1>1. CASE cursor = NoCursor
  BY <1>1 DEF PageStart, NoCursor
<1>2. CASE cursor # NoCursor /\ cursor \in Range(window)
  <2>1. \E i \in DOMAIN window : window[i] = cursor
    BY <1>2 DEF Range
  <2>2. (CHOOSE i \in DOMAIN window : window[i] = cursor) \in DOMAIN window
    BY <2>1
  <2> QED BY <1>2, <2>2 DEF PageStart
<1>3. CASE cursor # NoCursor /\ cursor \notin Range(window)
  BY <1>3 DEF PageStart, Smaller
<1> QED BY <1>1, <1>2, <1>3

\* What git log answers a page request with is a page.
LEMMA PageAfterType ==
    ASSUME NEW log \in Seq(Nat), NEW loaded \in Nat, NEW cursor \in Nat, NEW limit \in Nat
    PROVE  /\ PageAfter(log, loaded, cursor, limit) \in PageType
           /\ IsInjective(log) => IsInjective(PageAfter(log, loaded, cursor, limit).page)
<1> DEFINE window == FirstOf(log, loaded + limit + 1)
           start  == PageStart(window, loaded, cursor)
           rest   == SubSeq(window, start + 1, Len(window))
           page   == FirstOf(rest, limit)
<1>1. /\ window \in Seq(Nat) /\ Len(window) <= Len(log)
      /\ \A i \in 1..Len(window) : window[i] = log[i]
  BY FirstOfType
<1>2. start \in 0..Len(window)
  BY <1>1, PageStartType
<1> HIDE DEF window, start
<1>3. /\ rest \in Seq(Nat) /\ Len(rest) = Len(window) - start
      /\ \A i \in 1..Len(rest) : rest[i] = window[start + i]
  BY <1>1, <1>2
<1> HIDE DEF rest
<1>4. /\ page \in Seq(Nat) /\ Len(page) <= Len(rest)
      /\ \A i \in 1..Len(page) : page[i] = rest[i]
  BY <1>3, FirstOfType
<1> HIDE DEF page
<1>5. PageAfter(log, loaded, cursor, limit)
        = [ok |-> TRUE, page |-> page, more |-> Len(rest) > limit,
           anchored |-> cursor # NoCursor /\ cursor \in Range(window)]
  BY DEF PageAfter, page, rest, start, window
<1>6. ASSUME IsInjective(log) PROVE IsInjective(page)
  <2>1. ASSUME NEW i \in 1..Len(page)
        PROVE  page[i] = log[start + i] /\ start + i \in 1..Len(log)
    <3>1. i \in 1..Len(rest) /\ page[i] = rest[i]
      BY <1>3, <1>4, LenProperties
    <3>2. rest[i] = window[start + i]
      BY <1>3, <3>1
    <3>3. Len(window) \in Nat /\ Len(log) \in Nat
      BY <1>1, LenProperties
    <3>4. start + i \in 1..Len(window)
      BY <1>2, <1>3, <3>1, <3>3
    <3>5. start + i \in 1..Len(log)
      BY <1>1, <3>3, <3>4
    <3> QED BY <1>1, <3>1, <3>2, <3>4, <3>5
  <2>2. DOMAIN page = 1..Len(page) /\ DOMAIN log = 1..Len(log)
    BY <1>4, LenProperties
  <2>3. SUFFICES ASSUME NEW i \in 1..Len(page), NEW j \in 1..Len(page), page[i] = page[j]
                 PROVE  i = j
    BY <2>2 DEF IsInjective
  <2>4. log[start + i] = log[start + j]
    BY <2>1, <2>3
  <2>5. start + i = start + j
    BY <1>6, <2>1, <2>2, <2>4 DEF IsInjective
  <2> QED BY <2>5, <1>2, <1>1, LenProperties
<1> QED BY <1>4, <1>3, <1>5, <1>6 DEF PageType

\* Counting a set of positions from below reaches every number up to its size.
LEMMA NthExists ==
    ASSUME NEW n \in Nat, NEW S \in SUBSET (1..n), NEW k \in 1..Cardinality(S)
    PROVE  \E i \in S : Cardinality({j \in S : j <= i}) = k
<1> DEFINE Upto(i) == {j \in S : j <= i}
           T == {i \in 1..n : Cardinality(Upto(i)) >= k}
<1>0. \A j \in S : j \in Nat /\ 1 <= j /\ j <= n
  OBVIOUS
<1>1. IsFiniteSet(S) /\ Cardinality(S) \in Nat
  <2>1. IsFiniteSet(1..n)
    BY FS_Interval
  <2> QED BY <2>1, FS_Subset, FS_CardinalityType
<1>2. ASSUME NEW i \in Nat PROVE IsFiniteSet(Upto(i)) /\ Cardinality(Upto(i)) \in Nat
  <2>1. Upto(i) \in SUBSET S
    OBVIOUS
  <2>2. IsFiniteSet(Upto(i))
    BY <1>1, <2>1, FS_Subset
  <2> QED BY <2>2, FS_CardinalityType
<1>3. n \in T
  <2>1. Upto(n) = S
    BY <1>0
  <2>2. n # 0
    <3>1. SUFFICES ASSUME n = 0 PROVE FALSE
      OBVIOUS
    <3>2. S = {}
      BY <3>1
    <3> QED BY <3>2, FS_EmptySet
  <2> QED BY <1>1, <2>1, <2>2
<1>4. PICK m \in T : \A i \in T : m <= i
  <2>1. T \in SUBSET Nat
    OBVIOUS
  <2> QED BY <1>3, <2>1, LeastNatural
<1>5. m \in 1..n /\ m - 1 \in Nat /\ Cardinality(Upto(m)) >= k
  BY <1>4
<1>6. Cardinality(Upto(m - 1)) < k
  <2>1. CASE m - 1 = 0
    <3>1. \A j \in S : ~(j <= m - 1)
      BY <1>0, <2>1
    <3>2. Upto(m - 1) = {}
      BY <3>1
    <3>3. Cardinality(Upto(m - 1)) = 0
      BY <3>2, FS_EmptySet
    <3> QED BY <3>3, <1>1
  <2>2. CASE m - 1 # 0
    <3>1. m - 1 \in 1..n /\ ~(m <= m - 1)
      BY <1>5, <2>2
    <3>2. m - 1 \notin T
      BY <1>4, <3>1
    <3>3. ~(Cardinality(Upto(m - 1)) >= k)
      BY <3>1, <3>2
    <3> HIDE DEF Upto
    <3> QED BY <3>3, <1>1, <1>2, <1>5
  <2> QED BY <2>1, <2>2
<1>7. m \in S
  <2>1. SUFFICES ASSUME m \notin S PROVE FALSE
    OBVIOUS
  <2>2. ASSUME NEW j \in S PROVE j <= m <=> j <= m - 1
    BY <1>0, <1>5, <2>1
  <2>3. Upto(m) = Upto(m - 1)
    BY <2>2
  <2> HIDE DEF Upto
  <2> QED BY <1>1, <1>2, <1>5, <1>6, <2>3
<1>8. Cardinality(Upto(m)) = Cardinality(Upto(m - 1)) + 1
  <2>1. \A j \in S : j <= m <=> j <= m - 1 \/ j = m
    BY <1>0, <1>5
  <2>2. ~(m <= m - 1) /\ m <= m
    BY <1>5
  <2>3. Upto(m) = Upto(m - 1) \cup {m} /\ m \notin Upto(m - 1)
    BY <1>7, <2>1, <2>2, Zenon
  <2> HIDE DEF Upto
  <2> QED BY <1>2, <1>5, <2>3, FS_AddElement
<1>9. Cardinality(Upto(m)) = k
  <2> HIDE DEF Upto
  <2> QED BY <1>1, <1>2, <1>5, <1>6, <1>8
<1> QED BY <1>7, <1>9

\* What a page adds: commits of the page, each once, none of them in the list.
LEMMA NewToType ==
    ASSUME NEW list \in Seq(Nat), NEW page \in Seq(Nat)
    PROVE  /\ NewTo(list, page) \in Seq(Nat)
           /\ \A k \in DOMAIN NewTo(list, page) : NewTo(list, page)[k] \notin Range(list)
           /\ IsInjective(page) => IsInjective(NewTo(list, page))
<1> DEFINE fresh  == {i \in DOMAIN page : page[i] \notin Range(list)}
           n      == Cardinality(fresh)
           Nth(k) == CHOOSE i \in fresh : Cardinality({j \in fresh : j <= i}) = k
           new    == [k \in 1..n |-> page[Nth(k)]]
<1>1. NewTo(list, page) = new
  BY DEF NewTo
<1>2. fresh \in SUBSET (1..Len(page)) /\ Len(page) \in Nat
  BY LenProperties
<1>3. n \in Nat
  <2>1. IsFiniteSet(1..Len(page))
    BY <1>2, FS_Interval
  <2> QED BY <1>2, <2>1, FS_Subset, FS_CardinalityType
<1>4. ASSUME NEW k \in 1..n
      PROVE  Nth(k) \in fresh /\ Cardinality({j \in fresh : j <= Nth(k)}) = k
  <2>1. \E i \in fresh : Cardinality({j \in fresh : j <= i}) = k
    <3> HIDE DEF fresh
    <3> QED BY <1>2, NthExists
  <2> HIDE DEF fresh
  <2> QED BY <2>1
<1>5. ASSUME NEW k \in 1..n
      PROVE  new[k] = page[Nth(k)] /\ new[k] \in Nat /\ new[k] \notin Range(list)
  <2>1. Nth(k) \in DOMAIN page /\ page[Nth(k)] \notin Range(list)
    BY <1>4
  <2>2. new[k] = page[Nth(k)]
    OBVIOUS
  <2> HIDE DEF Nth, new
  <2> QED BY <2>1, <2>2, ElementOfSeq, LenProperties
<1>6. DOMAIN new = 1..n
  OBVIOUS
<1>7. new \in Seq(Nat)
  <2>1. new \in [1..n -> Nat]
    BY <1>5
  <2> QED BY <1>3, <2>1, SeqDef
<1>8. ASSUME IsInjective(page), NEW k \in 1..n, NEW l \in 1..n, new[k] = new[l]
      PROVE  k = l
  <2>1. page[Nth(k)] = page[Nth(l)]
    BY <1>5, <1>8
  <2>2. Nth(k) \in DOMAIN page /\ Nth(l) \in DOMAIN page
    BY <1>4
  <2>3. Nth(k) = Nth(l)
    BY <1>8, <2>1, <2>2 DEF IsInjective
  <2> HIDE DEF Nth
  <2> QED BY <1>4, <2>3
<1>9. IsInjective(page) => IsInjective(new)
  <2> HIDE DEF new
  <2> QED BY <1>6, <1>8 DEF IsInjective
<1> HIDE DEF new
<1> QED BY <1>1, <1>5, <1>6, <1>7, <1>9

-----------------------------------------------------------------------------
(* Type correctness *)

GitType == [version : Nat, log : [Filter -> Seq(Nat)]]

\* A gather is a snapshot, whatever the filter and the limit.
LEMMA GatherType ==
    ASSUME git \in GitType, tree \in Nat, NEW f \in Filter, NEW limit \in Nat
    PROVE  /\ Gather(f, limit) \in SnapshotType
           /\ IsInjective(git.log[f]) => IsInjective(Gather(f, limit).commits)
<1> DEFINE log == git.log[f]
           first == FirstOf(log, limit)
<1>1. log \in Seq(Nat) /\ git.version \in Nat
  BY DEF GitType
<1>2. /\ first \in Seq(Nat) /\ Len(first) <= Len(log)
      /\ \A i \in 1..Len(first) : first[i] = log[i]
  BY <1>1, FirstOfType
<1>3. Gather(f, limit) = [git |-> git.version, tree |-> tree, commits |-> first,
                          more |-> Len(log) > limit]
  BY DEF Gather
<1>4. ASSUME IsInjective(log) PROVE IsInjective(first)
  <2>1. DOMAIN first = 1..Len(first) /\ DOMAIN log = 1..Len(log)
        /\ Len(first) \in Nat /\ Len(log) \in Nat
    BY <1>1, <1>2, LenProperties
  <2> HIDE DEF first, log
  <2> QED BY <1>2, <1>4, <2>1 DEF IsInjective
<1> HIDE DEF first
<1> QED BY <1>1, <1>2, <1>3, <1>4 DEF SnapshotType

\* The commits an edit adds are new, and all of them different.
LEMMA NewCommitsType ==
    ASSUME git \in GitType, NEW kind \in GitEdit, NEW f \in Filter
    PROVE  /\ git.version \in Nat /\ NextVersion(kind) \in Nat /\ git.version < NextVersion(kind)
           /\ NewCommits(kind, f) \in Seq(Nat) /\ IsInjective(NewCommits(kind, f))
           /\ \A i \in DOMAIN NewCommits(kind, f) :
                git.version < NewCommits(kind, f)[i] /\ NewCommits(kind, f)[i] <= NextVersion(kind)
<1>1. git.version \in Nat /\ FetchSize \in Nat /\ FetchSize >= 1
  BY RefreshAssumption DEF GitType, RefreshAssumption
<1>2. NextVersion(kind) \in Nat /\ git.version < NextVersion(kind)
  BY <1>1 DEF NextVersion
<1>3. CASE kind \in {"commit", "amend"} /\ InFilter(git.version + 1, f)
  <2>1. NewCommits(kind, f) = <<git.version + 1>> /\ NextVersion(kind) = git.version + 1
    BY <1>3 DEF NewCommits, NextVersion
  <2> QED BY <1>1, <1>2, <2>1 DEF IsInjective
<1>4. CASE ~(kind \in {"commit", "amend"} /\ InFilter(git.version + 1, f)) /\ kind = "fetch" /\ f = "all"
  <2>1. /\ NewCommits(kind, f) = [i \in 1..FetchSize |-> NextVersion(kind) + 1 - i]
        /\ NextVersion(kind) = git.version + FetchSize
    BY <1>4 DEF NewCommits, NextVersion
  <2> DEFINE new == [i \in 1..FetchSize |-> git.version + FetchSize + 1 - i]
  <2>2. \A i \in 1..FetchSize : new[i] \in Nat /\ git.version < new[i] /\ new[i] <= git.version + FetchSize
    BY <1>1
  <2>3. new \in Seq(Nat)
    BY <1>1, <2>2, IsASeq
  <2>4. IsInjective(new)
    BY <1>1 DEF IsInjective
  <2> QED BY <1>1, <1>2, <2>1, <2>2, <2>3, <2>4
<1>5. CASE /\ ~(kind \in {"commit", "amend"} /\ InFilter(git.version + 1, f))
           /\ ~(kind = "fetch" /\ f = "all")
  <2>1. NewCommits(kind, f) = <<>>
    BY <1>5 DEF NewCommits
  <2> QED BY <1>1, <1>2, <2>1, EmptySeq DEF IsInjective
<1> QED BY <1>3, <1>4, <1>5

\* New commits on top of a log whose commits are older.
LEMMA OnTopOf ==
    ASSUME NEW new \in Seq(Nat), NEW kept \in Seq(Nat), NEW v \in Nat, NEW top \in Nat, v < top,
           IsInjective(new), \A i \in DOMAIN new : v < new[i] /\ new[i] <= top,
           IsInjective(kept), \A i \in DOMAIN kept : kept[i] <= v
    PROVE  IsInjective(new \o kept) /\ \A i \in DOMAIN (new \o kept) : (new \o kept)[i] <= top
<1> DEFINE log == new \o kept
           b == Len(new)
<1>1. /\ log \in Seq(Nat) /\ Len(log) = b + Len(kept) /\ b \in Nat /\ Len(kept) \in Nat
      /\ DOMAIN log = 1..Len(log) /\ DOMAIN new = 1..b /\ DOMAIN kept = 1..Len(kept)
  BY LenProperties
<1>2. \A i \in DOMAIN log : log[i] = IF i <= b THEN new[i] ELSE kept[i - b]
  BY <1>1
<1> HIDE DEF log, b
<1>3. \A i \in DOMAIN log : \/ i <= b /\ i \in DOMAIN new /\ log[i] = new[i]
                            \/ i > b /\ i - b \in DOMAIN kept /\ log[i] = kept[i - b]
  BY <1>1, <1>2
<1>4. /\ \A i \in DOMAIN new : new[i] \in Nat
      /\ \A i \in DOMAIN kept : kept[i] \in Nat
  BY ElementOfSeq, LenProperties
<1>5. \A i \in DOMAIN log : log[i] <= top
  BY <1>3, <1>4
<1>6. \A i \in DOMAIN log : /\ i \in Nat /\ log[i] \in Nat
                            /\ i <= b => v < log[i]
                            /\ i > b  => log[i] <= v
  <2> TAKE i \in DOMAIN log
  <2>1. i \in Nat /\ b \in Nat
    BY <1>1
  <2>2. CASE i <= b /\ i \in DOMAIN new /\ log[i] = new[i]
    <3>1. new[i] \in Nat /\ v < new[i]
      BY <1>4, <2>2
    <3> QED BY <2>1, <2>2, <3>1
  <2>3. CASE i > b /\ i - b \in DOMAIN kept /\ log[i] = kept[i - b]
    <3>1. kept[i - b] \in Nat /\ kept[i - b] <= v
      BY <1>4, <2>3
    <3> QED BY <2>1, <2>3, <3>1
  <2> QED BY <1>3, <2>2, <2>3
<1>7. ASSUME NEW i \in DOMAIN log, NEW j \in DOMAIN log, log[i] = log[j] PROVE i = j
  <2>1. CASE i <= b /\ j <= b
    <3>1. /\ i \in DOMAIN new /\ j \in DOMAIN new
          /\ new[i] = log[i] /\ new[j] = log[j]
      BY <1>1, <1>3, <1>6, <2>1
    <3> QED BY <1>7, <3>1 DEF IsInjective
  <2>2. CASE i > b /\ j > b
    <3>1. /\ i - b \in DOMAIN kept /\ j - b \in DOMAIN kept
          /\ kept[i - b] = log[i] /\ kept[j - b] = log[j]
      BY <1>1, <1>3, <1>6, <2>2
    <3>2. i - b = j - b
      BY <1>7, <3>1 DEF IsInjective
    <3> QED BY <1>1, <1>6, <3>2
  <2>3. ~(i <= b /\ j > b) /\ ~(i > b /\ j <= b)
    BY <1>1, <1>6, <1>7
  <2> QED BY <1>1, <1>6, <2>1, <2>2, <2>3
<1> QED BY <1>5, <1>7 DEF IsInjective, log

\* An edit of the git directory leaves a log per filter; the commits it adds
\* are new.
LEMMA EditedLogType ==
    ASSUME git \in GitType, NEW kind \in GitEdit, kind \in {"amend", "reset"} => git.log["all"] # <<>>
    PROVE  /\ EditedLog(kind) \in [Filter -> Seq(Nat)]
           /\ \A f \in Filter :
                IsInjective(git.log[f]) /\ (\A i \in DOMAIN git.log[f] : git.log[f][i] <= git.version)
                => /\ IsInjective(EditedLog(kind)[f])
                   /\ \A i \in DOMAIN EditedLog(kind)[f] : EditedLog(kind)[f][i] <= NextVersion(kind)
<1> DEFINE top == NextVersion(kind)
           Drops(f) == /\ kind \in {"amend", "reset"}
                       /\ git.log[f] # <<>>
                       /\ Head(git.log[f]) = Head(git.log["all"])
           Kept(f)  == IF Drops(f) THEN Tail(git.log[f]) ELSE git.log[f]
           Log(f)   == NewCommits(kind, f) \o Kept(f)
<1>1. EditedLog(kind) = [f \in Filter |-> Log(f)]
  BY DEF EditedLog
<1>2. git.version \in Nat /\ top \in Nat /\ git.version < top
  BY NewCommitsType DEF Filter
<1>3. ASSUME NEW f \in Filter
      PROVE  /\ Kept(f) \in Seq(Nat)
             /\ IsInjective(git.log[f]) => IsInjective(Kept(f))
             /\ (\A i \in DOMAIN git.log[f] : git.log[f][i] <= git.version)
                => \A i \in DOMAIN Kept(f) : Kept(f)[i] <= git.version
  <2>1. git.log[f] \in Seq(Nat)
    BY DEF GitType
  <2>2. CASE ~Drops(f)
    BY <2>1, <2>2
  <2>3. CASE Drops(f)
    <3> DEFINE log == git.log[f]
    <3>1. log \in Seq(Nat) /\ log # <<>> /\ Kept(f) = Tail(log)
      BY <2>1, <2>3
    <3> HIDE DEF Kept, Drops, log
    <3>2. /\ Tail(log) \in Seq(Nat) /\ Len(Tail(log)) = Len(log) - 1
          /\ \A i \in 1..Len(Tail(log)) : Tail(log)[i] = log[i + 1]
      BY <3>1, HeadTailProperties
    <3>3. /\ DOMAIN log = 1..Len(log) /\ DOMAIN Tail(log) = 1..Len(Tail(log))
          /\ Len(log) \in Nat
      BY <3>1, <3>2, LenProperties
    <3>4. \A i \in DOMAIN Tail(log) : i \in Nat /\ i + 1 \in DOMAIN log /\ Tail(log)[i] = log[i + 1]
      BY <3>2, <3>3
    <3>5. IsInjective(log) => IsInjective(Tail(log))
      BY <3>4 DEF IsInjective
    <3> QED BY <3>1, <3>2, <3>4, <3>5 DEF log
  <2> QED BY <2>2, <2>3
<1>4. ASSUME NEW f \in Filter
      PROVE  /\ Log(f) \in Seq(Nat)
             /\ IsInjective(git.log[f]) /\ (\A i \in DOMAIN git.log[f] : git.log[f][i] <= git.version)
                => /\ IsInjective(Log(f))
                   /\ \A i \in DOMAIN Log(f) : Log(f)[i] <= top
  <2> DEFINE kept == Kept(f)
             new  == NewCommits(kind, f)
  <2>1. /\ kept \in Seq(Nat)
        /\ IsInjective(git.log[f]) => IsInjective(kept)
        /\ (\A i \in DOMAIN git.log[f] : git.log[f][i] <= git.version)
           => \A i \in DOMAIN kept : kept[i] <= git.version
    BY <1>3
  <2>2. /\ new \in Seq(Nat) /\ IsInjective(new)
        /\ \A i \in DOMAIN new : git.version < new[i] /\ new[i] <= top
    BY NewCommitsType
  <2>3. Log(f) = new \o kept
    OBVIOUS
  <2> HIDE DEF kept, new, Log, Kept, top
  <2>4. Log(f) \in Seq(Nat)
    BY <2>1, <2>2, <2>3, ConcatProperties
  <2>5. ASSUME IsInjective(git.log[f]), \A i \in DOMAIN git.log[f] : git.log[f][i] <= git.version
        PROVE  IsInjective(new \o kept) /\ \A i \in DOMAIN (new \o kept) : (new \o kept)[i] <= top
    <3>1. IsInjective(kept) /\ \A i \in DOMAIN kept : kept[i] <= git.version
      BY <2>1, <2>5
    <3> QED BY <1>2, <2>1, <2>2, <3>1, OnTopOf
  <2> QED BY <2>3, <2>4, <2>5
<1> HIDE DEF Log, top
<1> QED BY <1>1, <1>4 DEF top

\* The records a task holds while nothing is in flight.
LEMMA IdleTypes ==
    /\ NoSnapshot \in SnapshotType /\ NoPage \in PageType
    /\ CommitLimit \in Nat /\ FirstBatch \in Nat /\ CommitLimit - FirstBatch \in Nat
<1>1. <<>> \in Seq(Nat)
  BY EmptySeq
<1>2. CommitLimit \in Nat /\ FirstBatch \in Nat /\ FirstBatch <= CommitLimit
  BY RefreshAssumption DEF RefreshAssumption, FirstBatch, Smaller
<1> QED BY <1>1, <1>2 DEF NoSnapshot, NoPage, SnapshotType, PageType

WatcherType == [pc : {"sleep", "scan", "gather", "apply"}, filter : Filter,
                limit : Nat, gen : Nat, snap : SnapshotType]
OpType == [pc : {"idle", "mutate", "gather", "apply"}, kind : GitEdit,
           filter : Filter, snap : SnapshotType]
RefresherType == [pc : {"idle", "gather", "apply", "fetch", "append"}, query : Nat,
                  filter : Filter, snap : SnapshotType, loaded : Nat, cursor : Nat,
                  result : PageType]
PagerType == [pc : {"idle", "fetch", "apply"}, query : Nat, filter : Filter,
              loaded : Nat, cursor : Nat, result : PageType]

\* An opened project has the types, with or without a history cache entry.
LEMMA InitType == Init => TypeOK
<1> SUFFICES ASSUME Init PROVE TypeOK
  OBVIOUS
<1> USE RefreshAssumption DEF RefreshAssumption
<1>1. /\ InitialLog \in [Filter -> Seq(Nat)] /\ InitialVersion \in Nat
      /\ "all" \in Filter /\ "index" \in GitEdit
  <2>1. \A f \in Filter : InitialLog[f] \in Seq(Nat)
    <3>1. 1..InitialVersion \subseteq Nat
      OBVIOUS
    <3> QED BY <3>1, SeqMonotonic
  <2> QED BY <2>1 DEF Filter, GitEdit
<1>2. commits \in Seq(Nat) /\ hasMore \in BOOLEAN
  <2>1. FirstOf(InitialLog["all"], FirstBatch) \in Seq(Nat)
    BY <1>1, IdleTypes, FirstOfType
  <2>2. <<>> \in Seq(Nat)
    BY EmptySeq
  <2>3. commits \in Seq(Nat)
    BY <2>1, <2>2 DEF Init
  <2>4. hasMore \in BOOLEAN
    <3>1. (Len(InitialLog["all"]) > FirstBatch) \in BOOLEAN
      OBVIOUS
    <3>2. hasMore = FALSE \/ hasMore = (Len(InitialLog["all"]) > FirstBatch)
      BY DEF Init
    <3> QED BY <3>1, <3>2
  <2> QED BY <2>3, <2>4
<1>3. watcher \in WatcherType /\ watcher.limit >= CommitLimit
  BY <1>1, IdleTypes DEF Init, SleepingWatcher, WatcherType
<1>4. op \in [Ops -> OpType]
  BY <1>1, IdleTypes DEF Init, IdleOp, OpType
<1>5. refresher \in [Refreshers -> RefresherType]
  BY <1>1, IdleTypes DEF Init, IdleRefresher, RefresherType, NoCursor
<1>6. pager \in [Pagers -> PagerType]
  BY <1>1, IdleTypes DEF Init, IdlePager, PagerType, NoCursor
<1>7. git \in [version : Nat, log : [Filter -> Seq(Nat)]]
  BY <1>1 DEF Init
<1>8. /\ tree \in Nat /\ budget \in [BudgetKind -> Nat]
      /\ gitDirty \in BOOLEAN /\ dirty \in BOOLEAN /\ fingerprint \in Nat
      /\ shown \in [git : Nat, tree : Nat] /\ refreshGen \in Nat
      /\ filter \in Filter /\ queryGen \in Nat /\ inFlight \in BOOLEAN
  BY <1>1 DEF Init
<1> QED BY <1>2, <1>3, <1>4, <1>5, <1>6, <1>7, <1>8
        DEF TypeOK, WatcherType, OpType, RefresherType, PagerType

\* The git directory keeps its type through every edit of it.
LEMMA EditGitType ==
    ASSUME git \in GitType, gitDirty \in BOOLEAN, NEW kind \in GitEdit, EditGit(kind)
    PROVE  git' \in GitType /\ gitDirty' \in BOOLEAN
<1>1. EditedLog(kind) \in [Filter -> Seq(Nat)]
  BY EditedLogType DEF EditGit
<1>2. git' = [version |-> NextVersion(kind), log |-> EditedLog(kind)] /\ NextVersion(kind) \in Nat
  BY NewCommitsType DEF EditGit, Filter
<1>3. git' \in GitType
  BY <1>1, <1>2 DEF GitType
<1>4. gitDirty' \in BOOLEAN
  BY DEF EditGit
<1> QED BY <1>3, <1>4

\* The budget stays a count per kind of event.
LEMMA SpendType ==
    ASSUME budget \in [BudgetKind -> Nat], NEW kind \in BudgetKind, Spend(kind)
    PROVE  budget' \in [BudgetKind -> Nat]
BY DEF Spend, BudgetKind

\* Applying a snapshot writes values of the right types into the project.
LEMMA ApplyRefreshDataType ==
    ASSUME refreshGen \in Nat, NEW data \in SnapshotType, ApplyRefreshData(data)
    PROVE  /\ commits' \in Seq(Nat) /\ hasMore' \in BOOLEAN
           /\ shown' \in [git : Nat, tree : Nat] /\ refreshGen' \in Nat
BY DEF ApplyRefreshData, SnapshotType

\* So does appending a page.
LEMMA AppendPageType ==
    ASSUME commits \in Seq(Nat), NEW result \in PageType, AppendPage(result)
    PROVE  commits' \in Seq(Nat) /\ hasMore' \in BOOLEAN
<1>1. result.page \in Seq(Nat) /\ result.more \in BOOLEAN
  BY DEF PageType
<1>2. NewTo(commits, result.page) \in Seq(Nat)
  BY <1>1, NewToType
<1> QED BY <1>1, <1>2, ConcatProperties DEF AppendPage

\* TypeOK, with the records of the tasks under their names.
LEMMA TypeParts ==
    TypeOK <=>
      /\ git \in GitType /\ tree \in Nat /\ budget \in [BudgetKind -> Nat]
      /\ gitDirty \in BOOLEAN /\ dirty \in BOOLEAN /\ fingerprint \in Nat
      /\ watcher \in WatcherType /\ watcher.limit >= CommitLimit
      /\ commits \in Seq(Nat) /\ hasMore \in BOOLEAN
      /\ shown \in [git : Nat, tree : Nat] /\ refreshGen \in Nat
      /\ filter \in Filter /\ queryGen \in Nat /\ inFlight \in BOOLEAN
      /\ op \in [Ops -> OpType]
      /\ refresher \in [Refreshers -> RefresherType]
      /\ pager \in [Pagers -> PagerType]
BY DEF TypeOK, GitType, WatcherType, OpType, RefresherType, PagerType

\* TypeParts, of the state after a step.
LEMMA TypePartsPrimed ==
    TypeOK' <=>
      /\ git' \in GitType /\ tree' \in Nat /\ budget' \in [BudgetKind -> Nat]
      /\ gitDirty' \in BOOLEAN /\ dirty' \in BOOLEAN /\ fingerprint' \in Nat
      /\ watcher' \in WatcherType /\ watcher'.limit >= CommitLimit
      /\ commits' \in Seq(Nat) /\ hasMore' \in BOOLEAN
      /\ shown' \in [git : Nat, tree : Nat] /\ refreshGen' \in Nat
      /\ filter' \in Filter /\ queryGen' \in Nat /\ inFlight' \in BOOLEAN
      /\ op' \in [Ops -> OpType]
      /\ refresher' \in [Refreshers -> RefresherType]
      /\ pager' \in [Pagers -> PagerType]
BY DEF TypeOK, GitType, WatcherType, OpType, RefresherType, PagerType

\* The environment and the watcher.
LEMMA WatcherKeepsType ==
    ASSUME TypeOK, \/ \E kind \in EditKinds : ExternalGitEdit(kind)
                   \/ ExternalTreeEdit \/ WatcherStep
    PROVE  TypeOK'
<1> USE DEF repo, flags, view, query, tasks
<1>1. ASSUME NEW kind \in EditKinds, ExternalGitEdit(kind) PROVE TypeOK'
  <2>1. kind \in GitEdit
    BY RefreshAssumption DEF RefreshAssumption
  <2>2. git' \in GitType /\ gitDirty' \in BOOLEAN
    BY <1>1, <2>1, TypeParts, EditGitType DEF ExternalGitEdit
  <2>3. budget' \in [BudgetKind -> Nat]
    BY <1>1, TypeParts, SpendType DEF ExternalGitEdit, BudgetKind
  <2> QED BY <1>1, <2>2, <2>3, TypeParts, TypePartsPrimed DEF ExternalGitEdit, EditGit
<1>2. CASE ExternalTreeEdit
  <2>1. budget' \in [BudgetKind -> Nat]
    BY <1>2, TypeParts, SpendType DEF ExternalTreeEdit, BudgetKind
  <2> QED BY <1>2, <2>1, TypeParts, TypePartsPrimed DEF ExternalTreeEdit
<1>3. ASSUME NEW fallback \in BOOLEAN, WatcherTick(fallback) PROVE TypeOK'
  <2>1. EffectiveLimit \in Nat /\ EffectiveLimit >= CommitLimit
    BY TypeParts, IdleTypes, LenProperties DEF EffectiveLimit, Larger
  <2>2. watcher' \in WatcherType /\ watcher'.limit >= CommitLimit
    BY <1>3, <2>1, TypeParts, IdleTypes DEF WatcherTick, WatcherType
  <2>3. gitDirty' \in BOOLEAN /\ dirty' \in BOOLEAN
    BY <1>3, TypeParts DEF WatcherTick
  <2> QED BY <1>3, <2>2, <2>3, TypeParts, TypePartsPrimed DEF WatcherTick
<1>4. SleepingWatcher \in WatcherType /\ SleepingWatcher.limit >= CommitLimit
  BY IdleTypes DEF SleepingWatcher, WatcherType, Filter
<1>5. CASE WatcherScan
  <2>1. watcher' \in WatcherType /\ watcher'.limit >= CommitLimit
    BY <1>4, <1>5, TypeParts DEF WatcherScan, WatcherType
  <2> QED BY <1>5, <2>1, TypeParts, TypePartsPrimed DEF WatcherScan, GitType
<1>6. CASE WatcherGather
  <2>1. CASE watcher' = SleepingWatcher /\ Spend("watchError")
    BY <1>4, <1>6, <2>1, TypeParts, TypePartsPrimed, SpendType DEF WatcherGather, BudgetKind
  <2>2. CASE watcher' = [watcher EXCEPT !.pc = "apply",
                                       !.snap = Gather(watcher.filter, watcher.limit)]
    <3>1. Gather(watcher.filter, watcher.limit) \in SnapshotType
      BY TypeParts, GatherType DEF WatcherType
    <3>2. watcher' \in WatcherType /\ watcher'.limit >= CommitLimit
      BY <2>2, <3>1, TypeParts DEF WatcherType
    <3>3. budget' \in [BudgetKind -> Nat]
      BY <1>6, TypeParts, SpendType DEF WatcherGather, BudgetKind
    <3> QED BY <1>6, <3>2, <3>3, TypeParts, TypePartsPrimed DEF WatcherGather
  <2> QED BY <1>6, <2>1, <2>2 DEF WatcherGather
<1>7. CASE WatcherApply
  <2>1. watcher.snap \in SnapshotType
    BY TypeParts DEF WatcherType
  <2>2. /\ commits' \in Seq(Nat) /\ hasMore' \in BOOLEAN
        /\ shown' \in [git : Nat, tree : Nat] /\ refreshGen' \in Nat
    BY <1>7, <2>1, TypeParts, ApplyRefreshDataType DEF WatcherApply
  <2> QED BY <1>4, <1>7, <2>2, TypeParts, TypePartsPrimed DEF WatcherApply
<1>8. CASE WatcherDropStale
  BY <1>4, <1>8, TypeParts, TypePartsPrimed DEF WatcherDropStale
<1> QED BY <1>1, <1>2, <1>3, <1>5, <1>6, <1>7, <1>8 DEF WatcherStep

\* load_more_commits() and ToggleMyCommits.
LEMMA PagerKeepsType ==
    ASSUME TypeOK, NEW p \in Pagers, LoadMore(p) \/ ToggleMyCommits(p) \/ PagerStep(p)
    PROVE  TypeOK'
<1> USE DEF repo, flags, view, query, tasks
<1>1. ASSUME NEW gen \in Nat, NEW f \in Filter, NEW list \in Seq(Nat)
      PROVE  PageRequest(gen, f, list) \in PagerType
  BY CursorType, IdleTypes, LenProperties DEF PageRequest, PagerType
<1>2. IdlePager \in PagerType
  BY IdleTypes DEF IdlePager, PagerType, Filter, NoCursor
<1>3. CASE LoadMore(p)
  BY <1>1, <1>3, TypeParts, TypePartsPrimed DEF LoadMore
<1>4. CASE ToggleMyCommits(p)
  <2>1. <<>> \in Seq(Nat)
    BY EmptySeq
  <2>2. queryGen' \in Nat /\ filter' \in Filter
    BY <1>4, TypeParts DEF ToggleMyCommits, SupersedeQuery, Filter
  <2>3. budget' \in [BudgetKind -> Nat]
    BY <1>4, TypeParts, SpendType DEF ToggleMyCommits, BudgetKind
  <2>4. pager' \in [Pagers -> PagerType]
    BY <1>1, <1>4, <2>1, <2>2, TypeParts DEF ToggleMyCommits
  <2> QED BY <1>4, <2>1, <2>2, <2>3, <2>4, TypeParts, TypePartsPrimed DEF ToggleMyCommits
<1>5. CASE FetchPage(p)
  <2> DEFINE found == PageAfter(git.log[pager[p].filter], pager[p].loaded, pager[p].cursor, CommitLimit)
  <2>1. pager[p] \in PagerType
    BY TypeParts
  <2>2. found \in PageType
    <3>1. git.log[pager[p].filter] \in Seq(Nat)
      BY <2>1, TypeParts DEF GitType, PagerType
    <3> QED BY <2>1, <3>1, IdleTypes, PageAfterType DEF PagerType
  <2> HIDE DEF found
  <2>3. [pager[p] EXCEPT !.pc = "apply", !.result = found] \in PagerType
        /\ [pager[p] EXCEPT !.pc = "apply"] \in PagerType
    BY <2>1, <2>2 DEF PagerType
  <2>4. pager' \in [Pagers -> PagerType]
    BY <1>5, <2>3, TypeParts DEF FetchPage, found
  <2>5. budget' \in [BudgetKind -> Nat]
    BY <1>5, TypeParts, SpendType DEF FetchPage, BudgetKind
  <2> QED BY <1>5, <2>4, <2>5, TypeParts, TypePartsPrimed DEF FetchPage
<1>6. CASE ApplyPage(p)
  <2>1. pager[p].result \in PageType
    BY TypeParts DEF PagerType
  <2>2. /\ commits' \in Seq(Nat) /\ hasMore' \in BOOLEAN
        /\ shown' = shown /\ refreshGen' = refreshGen
    <3>1. CASE AppendPage(pager[p].result)
      BY <2>1, <3>1, TypeParts, AppendPageType DEF AppendPage
    <3>2. CASE UNCHANGED view
      BY <3>2, TypeParts
    <3> QED BY <1>6, <3>1, <3>2 DEF ApplyPage
  <2>3. inFlight' \in BOOLEAN /\ pager' \in [Pagers -> PagerType]
    BY <1>2, <1>6, TypeParts DEF ApplyPage
  <2> QED BY <1>6, <2>2, <2>3, TypeParts, TypePartsPrimed DEF ApplyPage
<1>7. CASE DropPage(p)
  BY <1>2, <1>7, TypeParts, TypePartsPrimed DEF DropPage
<1> QED BY <1>3, <1>4, <1>5, <1>6, <1>7 DEF PagerStep

\* refresh().
LEMMA RefresherKeepsType ==
    ASSUME TypeOK, NEW r \in Refreshers, StartRefresh(r) \/ RefresherStep(r)
    PROVE  TypeOK'
<1> USE DEF repo, flags, view, query, tasks
<1>1. IdleRefresher \in RefresherType
  BY IdleTypes DEF IdleRefresher, RefresherType, Filter, NoCursor
<1>2. refresher[r] \in RefresherType
  BY TypeParts
<1>3. ASSUME NEW new \in RefresherType, refresher' = [refresher EXCEPT ![r] = new]
      PROVE  refresher' \in [Refreshers -> RefresherType]
  BY <1>3, TypeParts
<1>4. CASE StartRefresh(r)
  <2>1. queryGen' \in Nat
    BY <1>4, TypeParts DEF StartRefresh, SupersedeQuery
  <2>2. [IdleRefresher EXCEPT !.pc = "gather", !.query = queryGen', !.filter = filter]
          \in RefresherType
    BY <1>1, <2>1, TypeParts DEF RefresherType
  <2>3. budget' \in [BudgetKind -> Nat]
    BY <1>4, TypeParts, SpendType DEF StartRefresh, BudgetKind
  <2>4. refresher' \in [Refreshers -> RefresherType]
    BY <1>3, <1>4, <2>2 DEF StartRefresh
  <2> QED BY <1>4, <2>1, <2>3, <2>4, TypeParts, TypePartsPrimed DEF StartRefresh
<1>5. CASE GatherRefresh(r)
  <2> DEFINE found == Gather(refresher[r].filter, FirstBatch)
  <2>1. found \in SnapshotType
    BY <1>2, TypeParts, IdleTypes, GatherType DEF RefresherType
  <2> HIDE DEF found
  <2>2. [refresher[r] EXCEPT !.pc = "apply", !.snap = found] \in RefresherType
    BY <1>2, <2>1 DEF RefresherType
  <2>3. refresher' \in [Refreshers -> RefresherType]
    BY <1>1, <1>3, <1>5, <2>2 DEF GatherRefresh, found
  <2>4. budget' \in [BudgetKind -> Nat]
    BY <1>5, TypeParts, SpendType DEF GatherRefresh, BudgetKind
  <2> QED BY <1>5, <2>3, <2>4, TypeParts, TypePartsPrimed DEF GatherRefresh
<1>6. CASE ApplyRefresh(r)
  <2>1. /\ commits' \in Seq(Nat) /\ hasMore' \in BOOLEAN
        /\ shown' \in [git : Nat, tree : Nat] /\ refreshGen' \in Nat
    <3>1. CASE ApplyRefreshData(refresher[r].snap)
      BY <1>2, <3>1, TypeParts, ApplyRefreshDataType DEF RefresherType
    <3>2. CASE UNCHANGED view
      BY <3>2, TypeParts
    <3> QED BY <1>6, <3>1, <3>2 DEF ApplyRefresh
  <2>2. Len(commits') \in Nat /\ CursorOf(commits') \in Nat
    BY <2>1, CursorType, LenProperties
  <2>3. [refresher[r] EXCEPT !.pc = "fetch", !.snap = NoSnapshot,
            !.loaded = Len(commits'), !.cursor = CursorOf(commits')] \in RefresherType
    BY <1>2, <2>2, IdleTypes DEF RefresherType
  <2>4. refresher' \in [Refreshers -> RefresherType]
    BY <1>1, <1>3, <1>6, <2>3 DEF ApplyRefresh
  <2> QED BY <1>6, <2>1, <2>4, TypeParts, TypePartsPrimed DEF ApplyRefresh
<1>7. CASE FetchRest(r)
  <2> DEFINE found == PageAfter(git.log[refresher[r].filter], refresher[r].loaded,
                                refresher[r].cursor, CommitLimit - FirstBatch)
  <2>1. found \in PageType
    <3>1. git.log[refresher[r].filter] \in Seq(Nat)
      BY <1>2, TypeParts DEF GitType, RefresherType
    <3> QED BY <1>2, <3>1, IdleTypes, PageAfterType DEF RefresherType
  <2> HIDE DEF found
  <2>2. [refresher[r] EXCEPT !.pc = "append", !.result = found] \in RefresherType
    BY <1>2, <2>1 DEF RefresherType
  <2>3. refresher' \in [Refreshers -> RefresherType]
    BY <1>1, <1>3, <1>7, <2>2 DEF FetchRest, found
  <2>4. budget' \in [BudgetKind -> Nat]
    BY <1>7, TypeParts, SpendType DEF FetchRest, BudgetKind
  <2> QED BY <1>7, <2>3, <2>4, TypeParts, TypePartsPrimed DEF FetchRest
<1>8. CASE ApplyRest(r)
  <2>1. /\ commits' \in Seq(Nat) /\ hasMore' \in BOOLEAN
        /\ shown' = shown /\ refreshGen' = refreshGen
    <3>1. CASE AppendPage(refresher[r].result)
      BY <1>2, <3>1, TypeParts, AppendPageType DEF AppendPage, RefresherType
    <3>2. CASE UNCHANGED view
      BY <3>2, TypeParts
    <3> QED BY <1>8, <3>1, <3>2 DEF ApplyRest
  <2>2. refresher' \in [Refreshers -> RefresherType]
    BY <1>1, <1>3, <1>8 DEF ApplyRest
  <2> QED BY <1>8, <2>1, <2>2, TypeParts, TypePartsPrimed DEF ApplyRest
<1> QED BY <1>4, <1>5, <1>6, <1>7, <1>8 DEF RefresherStep

\* Operations.
LEMMA OpKeepsType ==
    ASSUME TypeOK, NEW o \in Ops, (\E kind \in OpKinds : StartOp(o, kind)) \/ OpStep(o)
    PROVE  TypeOK'
<1> USE DEF repo, flags, view, query, tasks
<1>1. IdleOp \in OpType
  BY IdleTypes DEF IdleOp, OpType, Filter, GitEdit
<1>2. op[o] \in OpType
  BY TypeParts
<1>3. ASSUME NEW new \in OpType, op' = [op EXCEPT ![o] = new]
      PROVE  op' \in [Ops -> OpType]
  BY <1>3, TypeParts
<1>4. ASSUME NEW kind \in OpKinds, StartOp(o, kind) PROVE TypeOK'
  <2>1. kind \in GitEdit /\ RefreshFilter(kind) \in Filter
    BY RefreshAssumption, TypeParts DEF RefreshAssumption, RefreshFilter, Filter
  <2>2. [pc |-> "mutate", kind |-> kind, filter |-> RefreshFilter(kind),
         snap |-> NoSnapshot] \in OpType
    BY <2>1, IdleTypes DEF OpType
  <2>3. op' \in [Ops -> OpType]
    BY <1>3, <1>4, <2>2 DEF StartOp
  <2>4. budget' \in [BudgetKind -> Nat]
    BY <1>4, TypeParts, SpendType DEF StartOp, BudgetKind
  <2> QED BY <1>4, <2>3, <2>4, TypeParts, TypePartsPrimed DEF StartOp
<1>5. CASE FailOp(o)
  <2>1. budget' \in [BudgetKind -> Nat]
    BY <1>5, TypeParts, SpendType DEF FailOp, BudgetKind
  <2> QED BY <1>1, <1>3, <1>5, <2>1, TypeParts, TypePartsPrimed DEF FailOp
<1>6. CASE MutateOp(o)
  <2>1. op[o].kind \in GitEdit
    BY <1>2 DEF OpType
  <2>2. git' \in GitType /\ gitDirty' \in BOOLEAN
    BY <1>6, <2>1, TypeParts, EditGitType DEF MutateOp
  <2>3. [op[o] EXCEPT !.pc = "gather"] \in OpType
    BY <1>2 DEF OpType
  <2>4. op' \in [Ops -> OpType]
    BY <1>3, <1>6, <2>3 DEF MutateOp
  <2> QED BY <1>6, <2>2, <2>4, TypeParts, TypePartsPrimed DEF MutateOp, EditGit
<1>7. CASE GatherOp(o)
  <2> DEFINE found == Gather(op[o].filter, CommitLimit)
  <2>1. found \in SnapshotType
    BY <1>2, TypeParts, IdleTypes, GatherType DEF OpType
  <2> HIDE DEF found
  <2>2. [op[o] EXCEPT !.pc = "apply", !.snap = found] \in OpType
    BY <1>2, <2>1 DEF OpType
  <2>3. op' \in [Ops -> OpType]
    BY <1>3, <1>7, <2>2 DEF GatherOp, found
  <2> QED BY <1>7, <2>3, TypeParts, TypePartsPrimed DEF GatherOp
<1>8. CASE ApplyOp(o)
  <2>1. /\ commits' \in Seq(Nat) /\ hasMore' \in BOOLEAN
        /\ shown' \in [git : Nat, tree : Nat] /\ refreshGen' \in Nat
    BY <1>2, <1>8, TypeParts, ApplyRefreshDataType DEF ApplyOp, OpType
  <2>2. op' \in [Ops -> OpType]
    BY <1>1, <1>3, <1>8 DEF ApplyOp
  <2> QED BY <1>8, <2>1, <2>2, TypeParts, TypePartsPrimed DEF ApplyOp
<1> QED BY <1>4, <1>5, <1>6, <1>7, <1>8 DEF OpStep

\* Every value the project, the watcher and the tasks in flight hold has its
\* type, and a watcher refresh never asks for fewer than commit_limit commits.
THEOREM TypeCorrect == Spec => []TypeOK
<1>1. TypeOK /\ [Next]_vars => TypeOK'
  <2> SUFFICES ASSUME TypeOK, [Next]_vars PROVE TypeOK'
    OBVIOUS
  <2>1. CASE UNCHANGED vars
    BY <2>1, TypeParts, TypePartsPrimed DEF vars, repo, flags, view, query, tasks
  <2>2. CASE Next
    BY <2>2, WatcherKeepsType, PagerKeepsType, RefresherKeepsType, OpKeepsType DEF Next
  <2> QED BY <2>1, <2>2
<1> QED BY <1>1, InitType, PTL DEF Spec

-----------------------------------------------------------------------------
(* Paging: load_more_in_flight and the query generation *)

\* No task holds a query that the project has yet to issue: what makes a bump
\* of commit_query_generation supersede every query in flight.
QueriesIssued ==
    /\ \A p \in Pagers : pager[p].query <= queryGen
    /\ \A r \in Refreshers : refresher[r].query <= queryGen

PagingInv == QueriesIssued /\ PagingFlagExact /\ LiveQueriesMatchFilter

\* Nothing is in flight when a project opens.
LEMMA PagingInit == Init => PagingInv
BY DEF Init, PagingInv, QueriesIssued, PagingFlagExact, LiveQueriesMatchFilter,
       LivePager, LiveRefresher, IdlePager, IdleRefresher

\* A step that touches neither the tasks that query nor the flag, the filter and
\* the generation.
LEMMA PagingFrame ==
    ASSUME PagingInv, UNCHANGED <<query, refresher, pager>>
    PROVE  PagingInv'
BY DEF PagingInv, QueriesIssued, PagingFlagExact, LiveQueriesMatchFilter,
       LivePager, LiveRefresher, query

\* A pager that moves within its request keeps its query, its filter and the flag.
LEMMA PagingInRequest ==
    ASSUME PagingInv, UNCHANGED <<query, refresher>>,
           \A q \in Pagers : /\ pager'[q].query = pager[q].query
                             /\ pager'[q].filter = pager[q].filter
                             /\ pager'[q].pc = "idle" <=> pager[q].pc = "idle"
    PROVE  PagingInv'
<1>1. \A q \in Pagers : LivePager(q)' <=> LivePager(q)
  BY DEF LivePager, query
<1>2. QueriesIssued'
  BY DEF PagingInv, QueriesIssued, query
<1>3. PagingFlagExact'
  BY <1>1 DEF PagingInv, PagingFlagExact, query
<1>4. LiveQueriesMatchFilter'
  BY <1>1 DEF PagingInv, LiveQueriesMatchFilter, LiveRefresher, query
<1> QED BY <1>2, <1>3, <1>4 DEF PagingInv

\* A page request takes the flag only when nobody has it, gives it back when it
\* lands, and leaves it alone once it is superseded.
LEMMA PagerKeepsPaging ==
    ASSUME TypeOK, PagingInv, NEW p \in Pagers,
           LoadMore(p) \/ ToggleMyCommits(p) \/ PagerStep(p)
    PROVE  PagingInv'
<1> USE TypeParts
<1>1. pager \in [Pagers -> PagerType] /\ queryGen \in Nat /\ inFlight \in BOOLEAN
  OBVIOUS
<1>2. \A q \in Pagers : pager[q].query \in Nat /\ pager[q].query <= queryGen
  BY <1>1 DEF PagerType, PagingInv, QueriesIssued
<1>3. \A r \in Refreshers : refresher[r].query \in Nat /\ refresher[r].query <= queryGen
  BY DEF RefresherType, PagingInv, QueriesIssued
<1>4. CASE LoadMore(p)
  <2>1. \A q \in Pagers : ~LivePager(q)
    BY <1>4 DEF LoadMore, PagingInv, PagingFlagExact
  <2>2. /\ pager'[p].pc = "fetch" /\ pager'[p].query = queryGen /\ pager'[p].filter = filter
        /\ \A q \in Pagers : q # p => pager'[q] = pager[q]
        /\ UNCHANGED <<filter, queryGen, refresher>> /\ inFlight'
    BY <1>1, <1>4 DEF LoadMore, PageRequest
  <2>3. \A q \in Pagers : LivePager(q)' <=> q = p
    BY <2>1, <2>2 DEF LivePager
  <2>4. QueriesIssued'
    <3>1. ASSUME NEW q \in Pagers PROVE pager'[q].query <= queryGen'
      <4>1. CASE q = p
        BY <1>1, <2>2, <4>1
      <4>2. CASE q # p
        BY <1>2, <2>2, <4>2
      <4> QED BY <4>1, <4>2
    <3> QED BY <1>3, <2>2, <3>1 DEF QueriesIssued
  <2>5. PagingFlagExact'
    BY <2>2, <2>3 DEF PagingFlagExact
  <2>6. LiveQueriesMatchFilter'
    BY <2>2, <2>3 DEF LiveQueriesMatchFilter, PagingInv, LiveRefresher
  <2> QED BY <2>4, <2>5, <2>6 DEF PagingInv
<1>5. CASE ToggleMyCommits(p)
  <2>1. /\ pager'[p].pc = "fetch" /\ pager'[p].query = queryGen' /\ pager'[p].filter = filter'
        /\ \A q \in Pagers : q # p => pager'[q] = pager[q]
        /\ UNCHANGED refresher /\ queryGen' = queryGen + 1 /\ inFlight'
    BY <1>1, <1>5 DEF ToggleMyCommits, SupersedeQuery, PageRequest
  <2>2. \A q \in Pagers : LivePager(q)' <=> q = p
    BY <1>1, <1>2, <2>1 DEF LivePager
  <2>3. \A r \in Refreshers : ~LiveRefresher(r)'
    BY <1>1, <1>3, <2>1 DEF LiveRefresher
  <2>4. QueriesIssued'
    <3>1. ASSUME NEW q \in Pagers PROVE pager'[q].query <= queryGen'
      <4>1. CASE q = p
        BY <1>1, <2>1, <4>1
      <4>2. CASE q # p
        BY <1>1, <1>2, <2>1, <4>2
      <4> QED BY <4>1, <4>2
    <3>2. ASSUME NEW r \in Refreshers PROVE refresher'[r].query <= queryGen'
      BY <1>1, <1>3, <2>1
    <3> QED BY <3>1, <3>2 DEF QueriesIssued
  <2>5. PagingFlagExact'
    BY <2>1, <2>2 DEF PagingFlagExact
  <2>6. LiveQueriesMatchFilter'
    BY <2>1, <2>2, <2>3 DEF LiveQueriesMatchFilter
  <2> QED BY <2>4, <2>5, <2>6 DEF PagingInv
<1>6. CASE FetchPage(p)
  <2>1. pager[p] \in PagerType /\ pager[p].pc = "fetch"
    BY <1>1, <1>6 DEF FetchPage
  <2>2. /\ pager'[p].query = pager[p].query /\ pager'[p].filter = pager[p].filter
        /\ pager'[p].pc = "apply"
        /\ \A q \in Pagers : q # p => pager'[q] = pager[q]
    BY <1>1, <1>6, <2>1 DEF FetchPage, PagerType
  <2> QED BY <1>6, <2>1, <2>2, PagingInRequest DEF FetchPage
<1>7. CASE ApplyPage(p) \/ DropPage(p)
  <2>1. /\ pager'[p].pc = "idle" /\ pager'[p].query = 0
        /\ \A q \in Pagers : q # p => pager'[q] = pager[q]
        /\ UNCHANGED <<filter, queryGen, refresher>>
    BY <1>1, <1>7 DEF ApplyPage, DropPage, IdlePager, query
  <2>2. \A q \in Pagers : LivePager(q)' <=> LivePager(q) /\ q # p
    BY <2>1 DEF LivePager
  <2>3. QueriesIssued'
    <3>1. ASSUME NEW q \in Pagers PROVE pager'[q].query <= queryGen'
      <4>1. CASE q = p
        BY <1>1, <2>1, <4>1
      <4>2. CASE q # p
        BY <1>2, <2>1, <4>2
      <4> QED BY <4>1, <4>2
    <3> QED BY <1>3, <2>1, <3>1 DEF QueriesIssued
  <2>4. PagingFlagExact'
    <3>1. CASE ApplyPage(p)
      <4>1. LivePager(p) /\ ~inFlight'
        BY <3>1 DEF ApplyPage, LivePager
      <4>2. \A q \in Pagers : ~LivePager(q)'
        BY <2>2, <4>1 DEF PagingInv, PagingFlagExact
      <4> QED BY <4>1, <4>2 DEF PagingFlagExact
    <3>2. CASE DropPage(p)
      <4>1. ~LivePager(p) /\ inFlight' = inFlight
        BY <3>2 DEF DropPage, LivePager, query
      <4>2. \A q \in Pagers : LivePager(q)' <=> LivePager(q)
        BY <2>2, <4>1
      <4> QED BY <4>1, <4>2 DEF PagingInv, PagingFlagExact
    <3> QED BY <1>7, <3>1, <3>2
  <2>5. LiveQueriesMatchFilter'
    BY <2>1, <2>2 DEF PagingInv, LiveQueriesMatchFilter, LiveRefresher
  <2> QED BY <2>3, <2>4, <2>5 DEF PagingInv
<1> QED BY <1>4, <1>5, <1>6, <1>7 DEF PagerStep

\* A refresher that moves within its query, or ends it.
LEMMA RefresherInQuery ==
    ASSUME PagingInv, queryGen \in Nat, UNCHANGED <<query, pager>>,
           \A s \in Refreshers :
              \/ refresher'[s].pc = "idle" /\ refresher'[s].query = 0
              \/ /\ refresher[s].pc # "idle"
                 /\ refresher'[s].query = refresher[s].query
                 /\ refresher'[s].filter = refresher[s].filter
              \/ refresher'[s] = refresher[s]
    PROVE  PagingInv'
<1>1. \A s \in Refreshers : LiveRefresher(s)' =>
                               LiveRefresher(s) /\ refresher'[s].filter = refresher[s].filter
  BY DEF LiveRefresher, query
<1>2. QueriesIssued'
  BY DEF PagingInv, QueriesIssued, query
<1>3. PagingFlagExact'
  BY DEF PagingInv, PagingFlagExact, LivePager, query
<1>4. LiveQueriesMatchFilter'
  BY <1>1 DEF PagingInv, LiveQueriesMatchFilter, LivePager, query
<1> QED BY <1>2, <1>3, <1>4 DEF PagingInv

\* refresh() supersedes every request in flight and clears the flag with it.
LEMMA RefresherKeepsPaging ==
    ASSUME TypeOK, PagingInv, NEW r \in Refreshers, StartRefresh(r) \/ RefresherStep(r)
    PROVE  PagingInv'
<1>1. /\ refresher \in [Refreshers -> RefresherType] /\ queryGen \in Nat
      /\ \A p \in Pagers : pager[p].query \in Nat
      /\ \A s \in Refreshers : refresher[s].query \in Nat
  BY TypeParts DEF PagerType, RefresherType
<1>2. CASE StartRefresh(r)
  <2>1. /\ refresher'[r].query = queryGen' /\ refresher'[r].filter = filter
        /\ \A s \in Refreshers : s # r => refresher'[s] = refresher[s]
        /\ UNCHANGED <<filter, pager>> /\ queryGen' = queryGen + 1 /\ inFlight' = FALSE
    BY <1>1, <1>2 DEF StartRefresh, SupersedeQuery, IdleRefresher
  <2>2. \A p \in Pagers : ~LivePager(p)'
    BY <1>1, <2>1 DEF LivePager, PagingInv, QueriesIssued
  <2>3. \A s \in Refreshers : LiveRefresher(s)' => s = r
    BY <1>1, <2>1 DEF LiveRefresher, PagingInv, QueriesIssued
  <2>4. QueriesIssued'
    <3>1. ASSUME NEW s \in Refreshers PROVE refresher'[s].query <= queryGen'
      <4>1. CASE s = r
        BY <1>1, <2>1, <4>1
      <4>2. CASE s # r
        BY <1>1, <2>1, <4>2 DEF PagingInv, QueriesIssued
      <4> QED BY <4>1, <4>2
    <3>2. ASSUME NEW p \in Pagers PROVE pager'[p].query <= queryGen'
      BY <1>1, <2>1 DEF PagingInv, QueriesIssued
    <3> QED BY <3>1, <3>2 DEF QueriesIssued
  <2>5. PagingFlagExact'
    BY <2>1, <2>2 DEF PagingFlagExact
  <2>6. LiveQueriesMatchFilter'
    BY <2>1, <2>2, <2>3 DEF LiveQueriesMatchFilter
  <2> QED BY <2>4, <2>5, <2>6 DEF PagingInv
<1>3. CASE RefresherStep(r)
  <2>1. refresher[r] \in RefresherType /\ refresher[r].pc # "idle"
    BY <1>1, <1>3 DEF RefresherStep, GatherRefresh, ApplyRefresh, FetchRest, ApplyRest
  <2>2. UNCHANGED <<query, pager>>
    BY <1>3 DEF RefresherStep, GatherRefresh, ApplyRefresh, FetchRest, ApplyRest
  <2>3. /\ \A s \in Refreshers : s # r => refresher'[s] = refresher[s]
        /\ \/ refresher'[r] = IdleRefresher
           \/ /\ refresher'[r].query = refresher[r].query
              /\ refresher'[r].filter = refresher[r].filter
    <3>1. CASE GatherRefresh(r)
      BY <1>1, <2>1, <3>1 DEF GatherRefresh, RefresherType
    <3>2. CASE ApplyRefresh(r)
      BY <1>1, <2>1, <3>2 DEF ApplyRefresh, RefresherType
    <3>3. CASE FetchRest(r)
      BY <1>1, <2>1, <3>3 DEF FetchRest, RefresherType
    <3>4. CASE ApplyRest(r)
      BY <1>1, <3>4 DEF ApplyRest
    <3> QED BY <1>3, <3>1, <3>2, <3>3, <3>4 DEF RefresherStep
  <2> QED BY <1>1, <2>1, <2>2, <2>3, RefresherInQuery DEF IdleRefresher
<1> QED BY <1>2, <1>3

\* Every step keeps PagingInv.
LEMMA PagingStep == TypeOK /\ PagingInv /\ [Next]_vars => PagingInv'
<1> SUFFICES ASSUME TypeOK, PagingInv, [Next]_vars PROVE PagingInv'
  OBVIOUS
<1> USE DEF tasks
<1>1. CASE UNCHANGED vars
  BY <1>1, PagingFrame DEF vars
<1>2. ASSUME NEW kind \in EditKinds, ExternalGitEdit(kind) PROVE PagingInv'
  BY <1>2, PagingFrame DEF ExternalGitEdit
<1>3. CASE ExternalTreeEdit
  BY <1>3, PagingFrame DEF ExternalTreeEdit
<1>4. CASE WatcherStep
  BY <1>4, PagingFrame DEF WatcherStep, WatcherTick, WatcherScan, WatcherGather,
                           WatcherApply, WatcherDropStale
<1>5. ASSUME NEW p \in Pagers, LoadMore(p) \/ ToggleMyCommits(p) \/ PagerStep(p)
      PROVE  PagingInv'
  BY <1>5, PagerKeepsPaging
<1>6. ASSUME NEW r \in Refreshers, StartRefresh(r) \/ RefresherStep(r) PROVE PagingInv'
  BY <1>6, RefresherKeepsPaging
<1>7. ASSUME NEW o \in Ops, (\E kind \in OpKinds : StartOp(o, kind)) \/ OpStep(o)
      PROVE  PagingInv'
  BY <1>7, PagingFrame DEF StartOp, OpStep, FailOp, MutateOp, GatherOp, ApplyOp
<1> QED BY <1>1, <1>2, <1>3, <1>4, <1>5, <1>6, <1>7 DEF Next

\* load_more_in_flight is set exactly while one page request of the current query
\* is on its way, for any number of requests and refreshes.
THEOREM PagingFlagCorrect == Spec => []PagingFlagExact
<1>1. PagingInv => PagingFlagExact
  BY DEF PagingInv
<1> QED BY <1>1, TypeCorrect, PagingInit, PagingStep, PTL DEF Spec

\* Whatever query may still land in the commit list was asked under the author
\* filter the user has now.
THEOREM LiveQueriesCorrect == Spec => []LiveQueriesMatchFilter
<1>1. PagingInv => LiveQueriesMatchFilter
  BY DEF PagingInv
<1> QED BY <1>1, TypeCorrect, PagingInit, PagingStep, PTL DEF Spec

-----------------------------------------------------------------------------
(* The watcher against the refreshes that do not wait for it *)

\* A snapshot is not of a later repository than the one there is.
Known(snap) == snap.git <= git.version /\ snap.tree <= tree

\* Nobody holds a snapshot of a later repository, and a watcher about to apply
\* one under the current generation holds one at least as new as what is shown.
WatcherInv ==
    /\ Known(shown) /\ Known(watcher.snap)
    /\ \A o \in Ops : Known(op[o].snap)
    /\ \A r \in Refreshers : Known(refresher[r].snap)
    /\ watcher.gen <= refreshGen
    /\ watcher.pc = "apply" /\ watcher.gen = refreshGen =>
         shown.git <= watcher.snap.git /\ shown.tree <= watcher.snap.tree

\* Nothing has been gathered when a project opens.
LEMMA WatcherInit == Init => WatcherInv
<1> SUFFICES ASSUME Init PROVE WatcherInv
  OBVIOUS
<1>1. git.version \in Nat /\ tree = 1
  BY RefreshAssumption DEF Init, RefreshAssumption
<1>2. Known(NoSnapshot) /\ Known(shown)
  BY <1>1 DEF Known, NoSnapshot, Init
<1> QED BY <1>2 DEF Init, WatcherInv, SleepingWatcher, IdleOp, IdleRefresher

\* The types the comparisons of this section need.
LEMMA VersionTypes ==
    ASSUME TypeOK
    PROVE  /\ git.version \in Nat /\ tree \in Nat /\ refreshGen \in Nat
           /\ shown.git \in Nat /\ shown.tree \in Nat
           /\ watcher.gen \in Nat /\ watcher.snap.git \in Nat /\ watcher.snap.tree \in Nat
           /\ \A o \in Ops : op[o].snap.git \in Nat /\ op[o].snap.tree \in Nat
           /\ \A r \in Refreshers : refresher[r].snap.git \in Nat /\ refresher[r].snap.tree \in Nat
BY TypeParts DEF GitType, WatcherType, OpType, RefresherType, SnapshotType

\* An edit of the history moves the repository on.
LEMMA EditGrows ==
    ASSUME TypeOK, NEW kind \in GitEdit, EditGit(kind)
    PROVE  git'.version \in Nat /\ git.version <= git'.version
<1>1. git \in GitType /\ git'.version = NextVersion(kind)
  BY TypeParts DEF EditGit
<1>2. \E f \in Filter : TRUE
  BY DEF Filter
<1>3. git.version \in Nat /\ NextVersion(kind) \in Nat /\ git.version < NextVersion(kind)
  BY <1>1, <1>2, NewCommitsType
<1> QED BY <1>1, <1>3

\* The repository only moves on, and nobody gathers or applies anything.
LEMMA WatcherFrameRepo ==
    ASSUME TypeOK, WatcherInv, UNCHANGED <<watcher, view>>,
           git'.version \in Nat, git.version <= git'.version,
           tree' = tree \/ tree' = tree + 1,
           \A o \in Ops : op'[o].snap = op[o].snap \/ op'[o].snap = NoSnapshot,
           \A r \in Refreshers : refresher'[r].snap = refresher[r].snap
                                   \/ refresher'[r].snap = NoSnapshot
    PROVE  WatcherInv'
<1>1. git.version <= git'.version /\ tree <= tree' /\ git'.version \in Nat /\ tree' \in Nat
  BY VersionTypes
<1>2. Known(shown)' /\ Known(watcher.snap)'
  BY <1>1, VersionTypes DEF WatcherInv, Known, view
<1>3. \A o \in Ops : Known(op[o].snap)'
  BY <1>1, VersionTypes DEF WatcherInv, Known, NoSnapshot
<1>4. \A r \in Refreshers : Known(refresher[r].snap)'
  BY <1>1, VersionTypes DEF WatcherInv, Known, NoSnapshot
<1> QED BY <1>2, <1>3, <1>4 DEF WatcherInv, view

\* Somebody other than the watcher applies a snapshot, or nobody does.
LEMMA WatcherFrameApply ==
    ASSUME TypeOK, WatcherInv, UNCHANGED <<repo, watcher>>,
           \/ UNCHANGED view
           \/ Known(shown)' /\ refreshGen' = refreshGen + 1
           \/ shown' = shown /\ refreshGen' = refreshGen,
           \A o \in Ops : Known(op[o].snap)',
           \A r \in Refreshers : Known(refresher[r].snap)'
    PROVE  WatcherInv'
<1>1. Known(shown)' /\ Known(watcher.snap)'
  BY DEF WatcherInv, Known, repo, view
<1>2. watcher'.gen <= refreshGen'
  BY VersionTypes DEF WatcherInv, view
<1>3. watcher'.gen = refreshGen' => UNCHANGED <<shown, refreshGen>>
  BY VersionTypes DEF WatcherInv, view
<1> QED BY <1>1, <1>2, <1>3 DEF WatcherInv

\* A gather is no newer than the repository it was read from.
LEMMA GatherKnown ==
    ASSUME TypeOK, NEW f, NEW limit
    PROVE  /\ Gather(f, limit).git = git.version /\ Gather(f, limit).tree = tree
           /\ Known(Gather(f, limit)) /\ Known(NoSnapshot)
BY VersionTypes DEF Gather, Known, NoSnapshot

\* The watcher: its tick remembers the generation, its gather reads the newest
\* repository there is.
LEMMA WatcherStepKeeps ==
    ASSUME TypeOK, WatcherInv, WatcherStep
    PROVE  WatcherInv'
<1> USE DEF repo, flags, view, query, tasks
<1>1. CASE \E fallback \in BOOLEAN : WatcherTick(fallback)
  <2>1. watcher'.pc # "apply" /\ watcher'.gen = refreshGen /\ watcher'.snap = NoSnapshot
    BY <1>1 DEF WatcherTick
  <2> QED BY <1>1, <2>1, VersionTypes, GatherKnown DEF WatcherTick, WatcherInv, Known
<1>2. CASE watcher' = SleepingWatcher /\ UNCHANGED <<repo, shown, refreshGen, op, refresher>>
  BY <1>2, VersionTypes, GatherKnown DEF SleepingWatcher, WatcherInv, Known
<1>3. CASE WatcherScan
  <2>1. CASE watcher' = [watcher EXCEPT !.pc = "gather"]
    BY <1>3, <2>1, TypeParts DEF WatcherScan, WatcherInv, Known, WatcherType
  <2> QED BY <1>2, <1>3, <2>1 DEF WatcherScan
<1>4. CASE WatcherGather
  <2>1. CASE watcher' = [watcher EXCEPT !.pc = "apply",
                                       !.snap = Gather(watcher.filter, watcher.limit)]
    <3>1. /\ watcher'.snap = Gather(watcher.filter, watcher.limit)
          /\ watcher'.gen = watcher.gen
      BY <2>1, TypeParts DEF WatcherType
    <3>2. /\ watcher'.snap.git = git.version /\ watcher'.snap.tree = tree
          /\ UNCHANGED <<git, tree, shown, refreshGen, op, refresher>>
      BY <1>4, <3>1, GatherKnown DEF WatcherGather
    <3> QED BY <3>1, <3>2, VersionTypes DEF WatcherInv, Known
  <2> QED BY <1>2, <1>4, <2>1 DEF WatcherGather
<1>5. CASE WatcherApply
  <2>1. /\ shown' = [git |-> watcher.snap.git, tree |-> watcher.snap.tree]
        /\ refreshGen' = refreshGen + 1 /\ watcher' = SleepingWatcher
        /\ UNCHANGED <<repo, op, refresher>>
    BY <1>5 DEF WatcherApply, ApplyRefreshData
  <2> QED BY <2>1, VersionTypes, GatherKnown DEF SleepingWatcher, WatcherInv, Known
<1>6. CASE WatcherDropStale
  BY <1>2, <1>6 DEF WatcherDropStale
<1> QED BY <1>1, <1>3, <1>4, <1>5, <1>6 DEF WatcherStep

\* Whatever refresh() applies, it moves the generation on.
LEMMA RefresherKeepsWatcher ==
    ASSUME TypeOK, WatcherInv, NEW r \in Refreshers, StartRefresh(r) \/ RefresherStep(r)
    PROVE  WatcherInv'
<1> USE DEF repo, flags, view, query, tasks
<1>1. refresher \in [Refreshers -> RefresherType] /\ refresher[r] \in RefresherType
  BY TypeParts
<1>2. /\ UNCHANGED <<repo, watcher, op>>
      /\ \/ UNCHANGED view
         \/ Known(shown)' /\ refreshGen' = refreshGen + 1
         \/ shown' = shown /\ refreshGen' = refreshGen
  <2>1. CASE StartRefresh(r) \/ GatherRefresh(r) \/ FetchRest(r)
    BY <2>1 DEF StartRefresh, GatherRefresh, FetchRest
  <2>2. CASE ApplyRefresh(r)
    BY <2>2 DEF ApplyRefresh, ApplyRefreshData, WatcherInv, Known
  <2>3. CASE ApplyRest(r)
    BY <2>3 DEF ApplyRest, AppendPage
  <2> QED BY <2>1, <2>2, <2>3 DEF RefresherStep
<1>3. /\ \A s \in Refreshers : s # r => refresher'[s] = refresher[s]
      /\ \/ refresher'[r].snap = refresher[r].snap
         \/ refresher'[r].snap = NoSnapshot
         \/ refresher'[r].snap = Gather(refresher[r].filter, FirstBatch)
  <2>1. CASE StartRefresh(r)
    BY <1>1, <2>1 DEF StartRefresh, IdleRefresher
  <2>2. CASE GatherRefresh(r)
    BY <1>1, <2>2 DEF GatherRefresh, IdleRefresher, RefresherType
  <2>3. CASE ApplyRefresh(r)
    BY <1>1, <2>3 DEF ApplyRefresh, IdleRefresher, RefresherType
  <2>4. CASE FetchRest(r)
    BY <1>1, <2>4 DEF FetchRest, IdleRefresher, RefresherType
  <2>5. CASE ApplyRest(r)
    BY <1>1, <2>5 DEF ApplyRest, IdleRefresher
  <2> QED BY <2>1, <2>2, <2>3, <2>4, <2>5 DEF RefresherStep
<1>4. \A s \in Refreshers : Known(refresher[s].snap)'
  <2>1. UNCHANGED <<git, tree>>
    BY <1>2
  <2>2. Known(refresher[r].snap)'
    BY <1>3, <2>1, GatherKnown DEF WatcherInv, Known
  <2> QED BY <1>3, <2>1, <2>2 DEF WatcherInv, Known
<1>5. \A o \in Ops : Known(op[o].snap)'
  BY <1>2 DEF WatcherInv, Known
<1> QED BY <1>2, <1>4, <1>5, WatcherFrameApply

\* So does an operation.
LEMMA OpKeepsWatcher ==
    ASSUME TypeOK, WatcherInv, NEW o \in Ops,
           (\E kind \in OpKinds : StartOp(o, kind)) \/ OpStep(o)
    PROVE  WatcherInv'
<1> USE DEF repo, flags, view, query, tasks
<1>1. op \in [Ops -> OpType] /\ op[o] \in OpType
  BY TypeParts
<1>2. CASE MutateOp(o)
  <2>1. /\ git'.version \in Nat /\ git.version <= git'.version
        /\ UNCHANGED <<tree, watcher, view, refresher>>
    <3>1. op[o].kind \in GitEdit
      BY <1>1 DEF OpType
    <3>2. EditGit(op[o].kind) /\ UNCHANGED <<watcher, view, refresher>>
      BY <1>2 DEF MutateOp
    <3>3. tree' = tree
      BY <3>2 DEF EditGit
    <3> QED BY <3>1, <3>2, <3>3, EditGrows
  <2>2. \A q \in Ops : op'[q].snap = op[q].snap
    BY <1>1, <1>2 DEF MutateOp, OpType
  <2> QED BY <2>1, <2>2, WatcherFrameRepo
<1>3. CASE (\E kind \in OpKinds : StartOp(o, kind)) \/ FailOp(o) \/ GatherOp(o) \/ ApplyOp(o)
  <2>1. /\ UNCHANGED <<repo, watcher, refresher>>
        /\ \/ UNCHANGED view
           \/ Known(shown)' /\ refreshGen' = refreshGen + 1
    <3>1. CASE ApplyOp(o)
      BY <3>1 DEF ApplyOp, ApplyRefreshData, WatcherInv, Known
    <3> QED BY <1>3, <3>1 DEF StartOp, FailOp, GatherOp
  <2>2. /\ \A q \in Ops : q # o => op'[q] = op[q]
        /\ op'[o].snap = NoSnapshot \/ op'[o].snap = Gather(op[o].filter, CommitLimit)
    BY <1>1, <1>3 DEF StartOp, FailOp, GatherOp, ApplyOp, IdleOp, OpType
  <2>3. \A q \in Ops : Known(op[q].snap)'
    <3>1. UNCHANGED <<git, tree>>
      BY <2>1
    <3>2. Known(op[o].snap)'
      BY <2>2, <3>1, GatherKnown DEF Known
    <3> QED BY <2>2, <3>1, <3>2 DEF WatcherInv, Known
  <2>4. \A r \in Refreshers : Known(refresher[r].snap)'
    BY <2>1 DEF WatcherInv, Known
  <2> QED BY <2>1, <2>3, <2>4, WatcherFrameApply
<1> QED BY <1>2, <1>3 DEF OpStep

\* Every step keeps WatcherInv.
LEMMA WatcherNext == TypeOK /\ WatcherInv /\ [Next]_vars => WatcherInv'
<1> SUFFICES ASSUME TypeOK, WatcherInv, [Next]_vars PROVE WatcherInv'
  OBVIOUS
<1> USE DEF repo, flags, view, query, tasks
<1>1. CASE UNCHANGED vars
  BY <1>1, VersionTypes, WatcherFrameRepo DEF vars
<1>2. ASSUME NEW kind \in EditKinds, ExternalGitEdit(kind) PROVE WatcherInv'
  <2>1. kind \in GitEdit /\ EditGit(kind)
    BY <1>2, RefreshAssumption DEF ExternalGitEdit, RefreshAssumption
  <2> QED BY <1>2, <2>1, EditGrows, WatcherFrameRepo DEF ExternalGitEdit, EditGit
<1>3. CASE ExternalTreeEdit
  BY <1>3, VersionTypes, WatcherFrameRepo DEF ExternalTreeEdit
<1>4. CASE WatcherStep
  BY <1>4, WatcherStepKeeps
<1>5. ASSUME NEW p \in Pagers, LoadMore(p) \/ ToggleMyCommits(p) \/ PagerStep(p)
      PROVE  WatcherInv'
  <2>1. UNCHANGED <<repo, watcher, shown, refreshGen, op, refresher>>
    BY <1>5 DEF LoadMore, ToggleMyCommits, PagerStep, FetchPage, ApplyPage, DropPage, AppendPage
  <2> QED BY <2>1, WatcherFrameApply DEF WatcherInv, Known
<1>6. ASSUME NEW r \in Refreshers, StartRefresh(r) \/ RefresherStep(r) PROVE WatcherInv'
  BY <1>6, RefresherKeepsWatcher
<1>7. ASSUME NEW o \in Ops, (\E kind \in OpKinds : StartOp(o, kind)) \/ OpStep(o)
      PROVE  WatcherInv'
  BY <1>7, OpKeepsWatcher
<1> QED BY <1>1, <1>2, <1>3, <1>4, <1>5, <1>6, <1>7 DEF Next

\* The watcher never replaces a snapshot by an older one, whatever refreshes and
\* operations apply theirs while its gather is in flight.
THEOREM WatcherMonotone == Spec => WatcherNeverGoesBack
<1> DEFINE Step == watcher.pc = "apply" /\ watcher'.pc = "sleep" =>
                     shown'.git >= shown.git /\ shown'.tree >= shown.tree
<1>1. TypeOK /\ WatcherInv /\ [Next]_vars => [Step]_vars
  <2> SUFFICES ASSUME TypeOK, WatcherInv, Next, watcher.pc = "apply", watcher'.pc = "sleep"
               PROVE  shown'.git >= shown.git /\ shown'.tree >= shown.tree
    BY DEF vars
  <2>1. CASE WatcherApply
    <3>1. shown' = [git |-> watcher.snap.git, tree |-> watcher.snap.tree]
      BY <2>1 DEF WatcherApply, ApplyRefreshData
    <3>2. watcher.gen = refreshGen
      BY <2>1 DEF WatcherApply, WatcherIsStale
    <3> QED BY <3>1, <3>2, VersionTypes DEF WatcherInv
  <2>2. CASE UNCHANGED shown
    BY <2>2, VersionTypes
  <2>3. WatcherApply \/ UNCHANGED shown \/ UNCHANGED watcher
    BY DEF Next, WatcherStep, PagerStep, RefresherStep, OpStep, WatcherTick, WatcherScan,
           WatcherGather, WatcherDropStale, ExternalGitEdit, ExternalTreeEdit, LoadMore,
           ToggleMyCommits, FetchPage, ApplyPage, DropPage, StartRefresh, GatherRefresh,
           ApplyRefresh, FetchRest, ApplyRest, StartOp, FailOp, MutateOp, GatherOp, ApplyOp,
           view
  <2> QED BY <2>1, <2>2, <2>3
<1>2. Spec => [][Step]_vars
  BY <1>1, TypeCorrect, WatcherInit, WatcherNext, PTL DEF Spec
<1> QED BY <1>2 DEF WatcherNeverGoesBack

-----------------------------------------------------------------------------
(* One row per commit *)

\* No log, list, snapshot or page holds a commit twice; and the log holds no
\* commit that is yet to be made.
LogsInv ==
    \A f \in Filter : /\ IsInjective(git.log[f])
                      /\ \A i \in DOMAIN git.log[f] : git.log[f][i] <= git.version

ListsInv ==
    /\ IsInjective(commits)
    /\ IsInjective(watcher.snap.commits)
    /\ \A o \in Ops : IsInjective(op[o].snap.commits)
    /\ \A r \in Refreshers : /\ IsInjective(refresher[r].snap.commits)
                             /\ IsInjective(refresher[r].result.page)
    /\ \A p \in Pagers : IsInjective(pager[p].result.page)

RowsInv == LogsInv /\ ListsInv

\* The empty list holds no commit twice.
LEMMA NothingTwice ==
    IsInjective(<<>>) /\ IsInjective(NoSnapshot.commits) /\ IsInjective(NoPage.page)
BY DEF IsInjective, NoSnapshot, NoPage

\* Nor do the first commits of a log that does not.
LEMMA FirstOfInjective ==
    ASSUME NEW log \in Seq(Nat), NEW n \in Nat, IsInjective(log)
    PROVE  IsInjective(FirstOf(log, n))
<1> DEFINE first == FirstOf(log, n)
<1>1. /\ first \in Seq(Nat) /\ Len(first) <= Len(log)
      /\ \A i \in 1..Len(first) : first[i] = log[i]
  BY FirstOfType
<1> HIDE DEF first
<1>2. /\ DOMAIN first = 1..Len(first) /\ DOMAIN log = 1..Len(log)
      /\ Len(first) \in Nat /\ Len(log) \in Nat
  BY <1>1, LenProperties
<1>3. IsInjective(first)
  BY <1>1, <1>2 DEF IsInjective
<1> QED BY <1>3 DEF first

\* The list of an opened project is a prefix of its log.
LEMMA RowsInit == Init => RowsInv
<1> SUFFICES ASSUME Init PROVE RowsInv
  OBVIOUS
<1>1. /\ \A f \in Filter : InitialLog[f] \in Seq(1..InitialVersion) /\ IsInjective(InitialLog[f])
      /\ InitialVersion \in Nat /\ "all" \in Filter
  BY RefreshAssumption DEF RefreshAssumption, Filter
<1>2. \A f \in Filter : InitialLog[f] \in Seq(Nat)
  <2>1. 1..InitialVersion \subseteq Nat
    BY <1>1
  <2> QED BY <1>1, <2>1, SeqMonotonic
<1>3. LogsInv
  <2>1. ASSUME NEW f \in Filter, NEW i \in DOMAIN InitialLog[f]
        PROVE  InitialLog[f][i] <= InitialVersion
    <3>1. InitialLog[f][i] \in 1..InitialVersion
      BY <1>1, ElementOfSeq, LenProperties
    <3> QED BY <1>1, <3>1
  <2> QED BY <1>1, <2>1 DEF LogsInv, Init
<1>4. IsInjective(commits)
  BY <1>1, <1>2, NothingTwice, FirstOfInjective, IdleTypes DEF Init
<1> QED BY <1>3, <1>4, NothingTwice
        DEF RowsInv, ListsInv, Init, SleepingWatcher, IdleOp, IdleRefresher, IdlePager

\* The list after a page: what it held, and after it what the page adds.
LEMMA AppendPageInjective ==
    ASSUME commits \in Seq(Nat), IsInjective(commits),
           NEW result \in PageType, IsInjective(result.page), AppendPage(result)
    PROVE  IsInjective(commits')
<1> DEFINE new == NewTo(commits, result.page)
<1>1. /\ new \in Seq(Nat) /\ IsInjective(new)
      /\ \A k \in DOMAIN new : new[k] \notin Range(commits)
  BY NewToType DEF PageType
<1> HIDE DEF new
<1>2. commits' = commits \o new
  BY DEF AppendPage, new
<1> DEFINE all == commits \o new
<1> HIDE DEF all
<1>3. /\ DOMAIN commits = 1..Len(commits) /\ DOMAIN new = 1..Len(new)
      /\ Len(commits) \in Nat /\ Len(new) \in Nat
  BY <1>1, LenProperties
<1>4. /\ all \in Seq(Nat) /\ Len(all) = Len(commits) + Len(new)
      /\ \A i \in 1..Len(commits) : all[i] = commits[i]
      /\ \A i \in 1..Len(new) : all[Len(commits) + i] = new[i]
  BY <1>1 DEF all
<1>5. DOMAIN all = 1..(Len(commits) + Len(new))
  BY <1>4, LenProperties
<1>6. ASSUME NEW i \in DOMAIN all
      PROVE  \/ /\ i \in DOMAIN commits /\ all[i] = commits[i]
                /\ all[i] \in Range(commits)
             \/ /\ i - Len(commits) \in DOMAIN new /\ all[i] = new[i - Len(commits)]
                /\ all[i] \notin Range(commits)
  <2>1. CASE i <= Len(commits)
    <3>1. i \in DOMAIN commits /\ all[i] = commits[i]
      BY <1>3, <1>4, <1>5, <2>1
    <3> QED BY <3>1 DEF Range
  <2>2. CASE ~(i <= Len(commits))
    <3> DEFINE k == i - Len(commits)
    <3>1. k \in DOMAIN new /\ i = Len(commits) + k
      BY <1>3, <1>5, <2>2
    <3>2. all[i] = new[k]
      BY <1>3, <1>4, <3>1
    <3> QED BY <1>1, <3>1, <3>2
  <2> QED BY <2>1, <2>2
<1>7. ASSUME NEW i \in DOMAIN all, NEW j \in DOMAIN all, all[i] = all[j]
      PROVE  i = j
  <2>1. CASE i \in DOMAIN commits /\ all[i] = commits[i] /\ all[i] \in Range(commits)
    BY <1>6, <1>7, <2>1 DEF IsInjective
  <2>2. CASE /\ i - Len(commits) \in DOMAIN new /\ all[i] = new[i - Len(commits)]
             /\ all[i] \notin Range(commits)
    <3>1. i - Len(commits) = j - Len(commits)
      BY <1>1, <1>6, <1>7, <2>2 DEF IsInjective
    <3> QED BY <1>3, <1>5, <3>1
  <2> QED BY <1>6, <2>1, <2>2
<1>8. IsInjective(all)
  BY <1>7 DEF IsInjective
<1>9. commits' = all
  BY <1>2 DEF all
<1> QED BY <1>8, <1>9, Zenon

\* What a gather or a page reads from such logs holds no commit twice either.
LEMMA ReadsInjective ==
    ASSUME TypeOK, LogsInv, NEW f \in Filter
    PROVE  /\ \A limit \in Nat : IsInjective(Gather(f, limit).commits)
           /\ \A loaded \in Nat, cursor \in Nat, limit \in Nat :
                IsInjective(PageAfter(git.log[f], loaded, cursor, limit).page)
<1>1. git.log[f] \in Seq(Nat) /\ IsInjective(git.log[f]) /\ git \in GitType /\ tree \in Nat
  BY TypeParts DEF LogsInv, GitType
<1> QED BY <1>1, GatherType, PageAfterType

\* A new commit is in no log yet, and dropping one leaves the rest as it was.
LEMMA EditKeepsLogs ==
    ASSUME TypeOK, LogsInv, NEW kind \in GitEdit, EditGit(kind)
    PROVE  LogsInv'
<1>1. git \in GitType /\ git' = [version |-> NextVersion(kind), log |-> EditedLog(kind)]
  BY TypeParts DEF EditGit
<1>2. EditedLog(kind) \in [Filter -> Seq(Nat)]
  BY <1>1, EditedLogType DEF EditGit
<1>3. \A f \in Filter : /\ IsInjective(EditedLog(kind)[f])
                        /\ \A i \in DOMAIN EditedLog(kind)[f] :
                             EditedLog(kind)[f][i] <= NextVersion(kind)
  BY <1>1, EditedLogType DEF EditGit, LogsInv
<1> QED BY <1>1, <1>3 DEF LogsInv

\* A step of one task changes what that task holds and, if it applies it, the
\* list.
LEMMA ListsFrame ==
    ASSUME ListsInv, IsInjective(commits'),
           watcher'.snap = watcher.snap \/ IsInjective(watcher'.snap.commits),
           \A o \in Ops : op'[o] = op[o] \/ IsInjective(op'[o].snap.commits),
           \A r \in Refreshers : 
              \/ refresher'[r] = refresher[r]
              \/ /\ IsInjective(refresher'[r].snap.commits)
                 /\ IsInjective(refresher'[r].result.page),
           \A p \in Pagers : pager'[p] = pager[p] \/ IsInjective(pager'[p].result.page)
    PROVE  ListsInv'
BY DEF ListsInv

\* Steps that leave the repository alone leave its logs alone.
LEMMA LogsFrame ==
    ASSUME LogsInv, UNCHANGED git
    PROVE  LogsInv'
BY DEF LogsInv

\* The watcher replaces the list by one gather.
LEMMA WatcherKeepsRows ==
    ASSUME TypeOK, RowsInv, WatcherStep
    PROVE  RowsInv'
<1> USE DEF repo, flags, view, query, tasks
<1>1. UNCHANGED <<git, op, refresher, pager>>
  BY DEF WatcherStep, WatcherTick, WatcherScan, WatcherGather, WatcherApply, WatcherDropStale
<1>2. watcher \in WatcherType
  BY TypeParts
<1>3. IsInjective(SleepingWatcher.snap.commits)
  BY NothingTwice DEF SleepingWatcher
<1>4. IsInjective(commits') /\ (watcher'.snap = watcher.snap \/ IsInjective(watcher'.snap.commits))
  <2>1. CASE \E fallback \in BOOLEAN : WatcherTick(fallback)
    BY <2>1, NothingTwice DEF WatcherTick, RowsInv, ListsInv
  <2>2. CASE WatcherScan
    BY <1>2, <1>3, <2>2 DEF WatcherScan, RowsInv, ListsInv, WatcherType
  <2>3. CASE WatcherGather
    <3>1. IsInjective(Gather(watcher.filter, watcher.limit).commits)
      BY <1>2, ReadsInjective DEF RowsInv, WatcherType
    <3> QED BY <1>2, <1>3, <2>3, <3>1 DEF WatcherGather, RowsInv, ListsInv, WatcherType
  <2>4. CASE WatcherApply
    BY <1>3, <2>4 DEF WatcherApply, ApplyRefreshData, RowsInv, ListsInv
  <2>5. CASE WatcherDropStale
    BY <1>3, <2>5 DEF WatcherDropStale, RowsInv, ListsInv
  <2> QED BY <2>1, <2>2, <2>3, <2>4, <2>5 DEF WatcherStep
<1> QED BY <1>1, <1>4, LogsFrame, ListsFrame DEF RowsInv

\* A page is filtered against the list it is appended to.
LEMMA PagerKeepsRows ==
    ASSUME TypeOK, RowsInv, NEW p \in Pagers, LoadMore(p) \/ ToggleMyCommits(p) \/ PagerStep(p)
    PROVE  RowsInv'
<1> USE DEF repo, flags, view, query, tasks
<1>1. UNCHANGED <<git, watcher, op, refresher>>
  BY DEF LoadMore, ToggleMyCommits, PagerStep, FetchPage, ApplyPage, DropPage
<1>2. /\ pager \in [Pagers -> PagerType] /\ pager[p] \in PagerType /\ pager[p].result \in PageType
      /\ IsInjective(pager[p].result.page) /\ IsInjective(commits) /\ commits \in Seq(Nat)
  BY TypeParts DEF PagerType, RowsInv, ListsInv
<1>3. /\ IsInjective(commits')
      /\ \A q \in Pagers : q # p => pager'[q] = pager[q]
      /\ IsInjective(pager'[p].result.page)
  <2>1. CASE LoadMore(p)
    BY <1>2, <2>1, NothingTwice DEF LoadMore, PageRequest
  <2>2. CASE ToggleMyCommits(p)
    BY <1>2, <2>2, NothingTwice DEF ToggleMyCommits, PageRequest
  <2>3. CASE FetchPage(p)
    <3> DEFINE found == PageAfter(git.log[pager[p].filter], pager[p].loaded,
                                  pager[p].cursor, CommitLimit)
    <3>1. IsInjective(found.page)
      BY <1>2, ReadsInjective, IdleTypes DEF RowsInv, PagerType
    <3> HIDE DEF found
    <3>2. /\ \A q \in Pagers : q # p => pager'[q] = pager[q]
          /\ pager'[p].result = found \/ pager'[p].result = pager[p].result
      BY <1>2, <2>3 DEF FetchPage, found, PagerType
    <3>3. commits' = commits
      BY <2>3 DEF FetchPage
    <3> QED BY <1>2, <3>1, <3>2, <3>3
  <2>4. CASE ApplyPage(p)
    <3>1. CASE AppendPage(pager[p].result)
      <4>1. IsInjective(commits')
        BY <1>2, <3>1, AppendPageInjective
      <4> QED BY <1>2, <2>4, <4>1, NothingTwice DEF ApplyPage, IdlePager
    <3>2. CASE UNCHANGED view
      BY <1>2, <2>4, <3>2, NothingTwice DEF ApplyPage, IdlePager
    <3> QED BY <2>4, <3>1, <3>2 DEF ApplyPage
  <2>5. CASE DropPage(p)
    BY <1>2, <2>5, NothingTwice DEF DropPage, IdlePager
  <2> QED BY <2>1, <2>2, <2>3, <2>4, <2>5 DEF PagerStep
<1>4. ListsInv'
  BY <1>1, <1>3 DEF ListsInv, RowsInv
<1> QED BY <1>1, <1>4, LogsFrame DEF RowsInv

\* refresh(): the first batch replaces the list, the rest is filtered as a page is.
LEMMA RefresherKeepsRows ==
    ASSUME TypeOK, RowsInv, NEW r \in Refreshers, StartRefresh(r) \/ RefresherStep(r)
    PROVE  RowsInv'
<1> USE DEF repo, flags, view, query, tasks
<1>1. UNCHANGED <<git, watcher, op, pager>>
  BY DEF StartRefresh, RefresherStep, GatherRefresh, ApplyRefresh, FetchRest, ApplyRest
<1>2. /\ refresher \in [Refreshers -> RefresherType] /\ refresher[r] \in RefresherType
      /\ refresher[r].result \in PageType /\ commits \in Seq(Nat)
  BY TypeParts DEF RefresherType
<1>3. /\ IsInjective(refresher[r].result.page) /\ IsInjective(refresher[r].snap.commits)
      /\ IsInjective(commits)
  BY DEF RowsInv, ListsInv
<1>4. IsInjective(IdleRefresher.snap.commits) /\ IsInjective(IdleRefresher.result.page)
  BY NothingTwice DEF IdleRefresher
<1>5. /\ IsInjective(commits')
      /\ \A s \in Refreshers : s # r => refresher'[s] = refresher[s]
      /\ IsInjective(refresher'[r].snap.commits) /\ IsInjective(refresher'[r].result.page)
  <2>1. CASE StartRefresh(r)
    BY <1>2, <1>3, <2>1, NothingTwice DEF StartRefresh, IdleRefresher
  <2>2. CASE GatherRefresh(r)
    <3> DEFINE found == Gather(refresher[r].filter, FirstBatch)
    <3>1. IsInjective(found.commits)
      BY <1>2, ReadsInjective, IdleTypes DEF RowsInv, RefresherType
    <3> HIDE DEF found
    <3>2. \/ refresher'[r] = IdleRefresher
          \/ refresher'[r].snap = found /\ refresher'[r].result = refresher[r].result
      BY <1>2, <2>2 DEF GatherRefresh, found, RefresherType
    <3> QED BY <1>2, <1>3, <1>4, <2>2, <3>1, <3>2 DEF GatherRefresh
  <2>3. CASE ApplyRefresh(r)
    <3>1. IsInjective(commits')
      BY <1>3, <2>3 DEF ApplyRefresh, ApplyRefreshData
    <3>2. \/ refresher'[r] = IdleRefresher
          \/ refresher'[r].snap = NoSnapshot /\ refresher'[r].result = refresher[r].result
      BY <1>2, <2>3 DEF ApplyRefresh, RefresherType
    <3> QED BY <1>2, <1>3, <1>4, <2>3, <3>1, <3>2, NothingTwice DEF ApplyRefresh
  <2>4. CASE FetchRest(r)
    <3> DEFINE found == PageAfter(git.log[refresher[r].filter], refresher[r].loaded,
                                  refresher[r].cursor, CommitLimit - FirstBatch)
    <3>1. IsInjective(found.page)
      BY <1>2, ReadsInjective, IdleTypes DEF RowsInv, RefresherType
    <3> HIDE DEF found
    <3>2. \/ refresher'[r] = IdleRefresher
          \/ refresher'[r].snap = refresher[r].snap /\ refresher'[r].result = found
      BY <1>2, <2>4 DEF FetchRest, found, RefresherType
    <3> QED BY <1>2, <1>3, <1>4, <2>4, <3>1, <3>2 DEF FetchRest
  <2>5. CASE ApplyRest(r)
    <3>1. CASE AppendPage(refresher[r].result)
      <4>1. IsInjective(commits')
        BY <1>2, <1>3, <3>1, AppendPageInjective
      <4> QED BY <1>2, <1>4, <2>5, <4>1 DEF ApplyRest
    <3>2. CASE UNCHANGED view
      BY <1>2, <1>3, <1>4, <2>5, <3>2 DEF ApplyRest
    <3> QED BY <2>5, <3>1, <3>2 DEF ApplyRest
  <2> QED BY <2>1, <2>2, <2>3, <2>4, <2>5 DEF RefresherStep
<1>6. ListsInv'
  BY <1>1, <1>5 DEF ListsInv, RowsInv
<1> QED BY <1>1, <1>6, LogsFrame DEF RowsInv

\* An operation replaces the list by one gather.
LEMMA OpKeepsRows ==
    ASSUME TypeOK, RowsInv, NEW o \in Ops,
           (\E kind \in OpKinds : StartOp(o, kind)) \/ OpStep(o)
    PROVE  RowsInv'
<1> USE DEF repo, flags, view, query, tasks
<1>1. UNCHANGED <<watcher, refresher, pager>>
  BY DEF StartOp, OpStep, FailOp, MutateOp, GatherOp, ApplyOp
<1>2. op \in [Ops -> OpType] /\ op[o] \in OpType
  BY TypeParts
<1>3. LogsInv'
  <2>1. CASE MutateOp(o)
    BY <1>2, <2>1, EditKeepsLogs DEF MutateOp, RowsInv, OpType
  <2>2. CASE UNCHANGED git
    BY <2>2, LogsFrame DEF RowsInv
  <2> QED BY <2>1, <2>2 DEF StartOp, OpStep, FailOp, GatherOp, ApplyOp
<1>4. IsInjective(commits')
  BY DEF StartOp, OpStep, FailOp, MutateOp, GatherOp, ApplyOp, ApplyRefreshData,
         RowsInv, ListsInv
<1>5. IsInjective(Gather(op[o].filter, CommitLimit).commits)
  BY <1>2, ReadsInjective, IdleTypes DEF RowsInv, OpType
<1>6. /\ \A q \in Ops : q # o => op'[q] = op[q]
      /\ \/ op'[o].snap = op[o].snap
         \/ op'[o].snap = NoSnapshot
         \/ op'[o].snap = Gather(op[o].filter, CommitLimit)
  <2>1. CASE MutateOp(o)
    BY <1>2, <2>1 DEF MutateOp, OpType
  <2>2. CASE GatherOp(o)
    BY <1>2, <2>2 DEF GatherOp, OpType
  <2>3. CASE (\E kind \in OpKinds : StartOp(o, kind)) \/ FailOp(o) \/ ApplyOp(o)
    BY <1>2, <2>3 DEF StartOp, FailOp, ApplyOp, IdleOp
  <2> QED BY <2>1, <2>2, <2>3 DEF OpStep
<1>7. ListsInv'
  BY <1>1, <1>4, <1>5, <1>6, NothingTwice DEF ListsInv, RowsInv
<1> QED BY <1>3, <1>7 DEF RowsInv

\* Every step keeps RowsInv.
LEMMA RowsNext == TypeOK /\ RowsInv /\ [Next]_vars => RowsInv'
<1> SUFFICES ASSUME TypeOK, RowsInv, [Next]_vars PROVE RowsInv'
  OBVIOUS
<1> USE DEF repo, flags, view, query, tasks
<1>1. CASE UNCHANGED vars
  BY <1>1, LogsFrame DEF vars, RowsInv, ListsInv
<1>2. ASSUME NEW kind \in EditKinds, ExternalGitEdit(kind) PROVE RowsInv'
  <2>1. LogsInv'
    BY <1>2, EditKeepsLogs, RefreshAssumption DEF ExternalGitEdit, RowsInv, RefreshAssumption
  <2> QED BY <1>2, <2>1 DEF ExternalGitEdit, RowsInv, ListsInv
<1>3. CASE ExternalTreeEdit
  BY <1>3, LogsFrame DEF ExternalTreeEdit, RowsInv, ListsInv
<1>4. CASE WatcherStep
  BY <1>4, WatcherKeepsRows
<1>5. ASSUME NEW p \in Pagers, LoadMore(p) \/ ToggleMyCommits(p) \/ PagerStep(p)
      PROVE  RowsInv'
  BY <1>5, PagerKeepsRows
<1>6. ASSUME NEW r \in Refreshers, StartRefresh(r) \/ RefresherStep(r) PROVE RowsInv'
  BY <1>6, RefresherKeepsRows
<1>7. ASSUME NEW o \in Ops, (\E kind \in OpKinds : StartOp(o, kind)) \/ OpStep(o)
      PROVE  RowsInv'
  BY <1>7, OpKeepsRows
<1> QED BY <1>1, <1>2, <1>3, <1>4, <1>5, <1>6, <1>7 DEF Next

\* No commit has two rows in the list, however refreshes, pages, operations and
\* history rewrites interleave, whatever the log and the page size.
THEOREM RowsUnique == Spec => []NoDuplicates
<1>1. RowsInv => NoDuplicates
  BY DEF RowsInv, ListsInv, NoDuplicates, IsInjective
<1> QED BY <1>1, TypeCorrect, RowsInit, RowsNext, PTL DEF Spec

-----------------------------------------------------------------------------
(* A page continues the list *)

\* The commits of the page are those that follow the cursor in the log.
Follows(log, cursor, page) ==
    \A i \in DOMAIN log : log[i] = cursor =>
        \A k \in 1..Len(page) : i + k \in DOMAIN log /\ log[i + k] = page[k]

\* A page that was found by its cursor follows it in whatever the log has become since: history
\* is rewritten from the top, and no commit comes back.
PagesInv ==
    \A p \in Pagers : pager[p].result.anchored =>
        /\ pager[p].cursor # NoCursor /\ pager[p].cursor <= git.version
        /\ Follows(git.log[pager[p].filter], pager[p].cursor, pager[p].result.page)

\* Below the commits newer than `old`, `edited` is `log` shifted by d.
ShiftedBy(log, edited, old, d) ==
    \A j \in DOMAIN edited : edited[j] <= old =>
        /\ j + d \in DOMAIN log /\ edited[j] = log[j + d]
        /\ \A k \in Nat : j + d + k \in DOMAIN log
                          => j + k \in DOMAIN edited /\ edited[j + k] = log[j + d + k]

\* Two logs that agree up to a shift: a commits are gone from the top and b are new.
LEMMA ShiftedLogs ==
    ASSUME NEW log \in Seq(Nat), NEW edited \in Seq(Nat), NEW old \in Nat,
           NEW a \in Nat, NEW b \in Nat, Len(edited) = Len(log) - a + b,
           \A j \in 1..b : ~(edited[j] <= old),
           \A i \in Nat : i >= 1 /\ i + a <= Len(log) => edited[i + b] = log[i + a]
    PROVE  ShiftedBy(log, edited, old, a - b)
<1>1. /\ DOMAIN edited = 1..Len(edited) /\ DOMAIN log = 1..Len(log)
      /\ Len(edited) \in Nat /\ Len(log) \in Nat
  BY LenProperties
<1>2. SUFFICES ASSUME NEW j \in 1..Len(edited), edited[j] <= old
      PROVE  /\ j + (a - b) \in 1..Len(log) /\ edited[j] = log[j + (a - b)]
             /\ \A k \in Nat : j + (a - b) + k \in 1..Len(log)
                    => j + k \in 1..Len(edited) /\ edited[j + k] = log[j + (a - b) + k]
  BY <1>1 DEF ShiftedBy
<1> DEFINE i == j - b
<1>3. i \in Nat /\ i >= 1 /\ i + a <= Len(log) /\ i + b = j /\ i + a = j + (a - b)
  <2>1. j \notin 1..b
    BY <1>2
  <2> QED BY <1>1, <1>2, <2>1
<1>4. edited[j] = log[j + (a - b)]
  BY <1>3
<1>5. ASSUME NEW k \in Nat, j + (a - b) + k \in 1..Len(log)
      PROVE  j + k \in 1..Len(edited) /\ edited[j + k] = log[j + (a - b) + k]
  <2>1. /\ i + k \in Nat /\ i + k >= 1 /\ (i + k) + a <= Len(log)
        /\ (i + k) + b = j + k /\ (i + k) + a = j + (a - b) + k
    BY <1>1, <1>3, <1>5
  <2>2. edited[j + k] = log[j + (a - b) + k]
    BY <2>1
  <2> QED BY <1>1, <1>3, <2>1, <2>2
<1> QED BY <1>1, <1>3, <1>4, <1>5

\* A log with or without its newest commit, and commits newer than `old` on top.
LEMMA EditShifts ==
    ASSUME NEW log \in Seq(Nat), NEW old \in Nat,
           NEW kept \in Seq(Nat), kept = log \/ (log # <<>> /\ kept = Tail(log)),
           NEW new \in Seq(Nat), \A i \in DOMAIN new : old < new[i]
    PROVE  \E d \in Int : ShiftedBy(log, new \o kept, old, d)
<1> DEFINE Dropped(a) == /\ Len(kept) = Len(log) - a
                         /\ \A i \in Nat : i >= 1 /\ i + a <= Len(log) => kept[i] = log[i + a]
           edited == new \o kept
           b == Len(new)
<1>1. Len(log) \in Nat /\ Len(kept) \in Nat /\ b \in Nat /\ DOMAIN new = 1..b
  BY LenProperties
<1>2. \E a \in Nat : Dropped(a)
  <2>1. CASE kept = log
    <3>1. Dropped(0)
      BY <1>1, <2>1
    <3> QED BY <3>1
  <2>2. CASE log # <<>> /\ kept = Tail(log)
    <3>1. Len(kept) = Len(log) - 1 /\ \A i \in 1..Len(kept) : kept[i] = log[i + 1]
      BY <2>2, HeadTailProperties
    <3>2. Dropped(1)
      BY <1>1, <3>1
    <3> QED BY <3>2
  <2> QED BY <2>1, <2>2
<1>3. /\ edited \in Seq(Nat) /\ Len(edited) = Len(kept) + b
      /\ \A i \in Nat : i >= 1 /\ i <= Len(kept) => edited[i + b] = kept[i]
      /\ \A i \in 1..b : edited[i] = new[i]
  BY <1>1
<1>4. \A i \in 1..b : ~(edited[i] <= old)
  <2>1. \A i \in 1..b : new[i] \in Nat /\ old < new[i]
    BY <1>1, ElementOfSeq
  <2> HIDE DEF edited, b
  <2> QED BY <1>3, <2>1
<1> HIDE DEF edited, b
<1>5. PICK a \in Nat : Dropped(a)
  BY <1>2
<1>6. Len(edited) = Len(log) - a + b
  BY <1>1, <1>3, <1>5
<1>7. ASSUME NEW i \in Nat, i >= 1, i + a <= Len(log)
      PROVE  edited[i + b] = log[i + a]
  <2>1. kept[i] = log[i + a]
    BY <1>5, <1>7
  <2>2. i <= Len(kept)
    <3>1. Len(kept) = Len(log) - a
      BY <1>5
    <3> QED BY <1>1, <1>7, <3>1
  <2>3. edited[i + b] = kept[i]
    BY <1>3, <1>7, <2>2
  <2> QED BY <2>1, <2>3
<1> HIDE DEF Dropped
<1>8. ShiftedBy(log, edited, old, a - b)
  BY <1>1, <1>3, <1>4, <1>6, <1>7, ShiftedLogs
<1>9. a - b \in Int
  BY <1>1
<1> QED BY <1>8, <1>9 DEF edited

\* What followed the cursor follows it after an edit.
LEMMA EditKeepsFollowing ==
    ASSUME git \in GitType, NEW kind \in GitEdit, EditGit(kind), NEW f \in Filter,
           NEW cursor \in Nat, cursor <= git.version, NEW page \in Seq(Nat),
           Follows(git.log[f], cursor, page)
    PROVE  cursor <= git'.version /\ Follows(git'.log[f], cursor, page)
<1> DEFINE old  == git.version
           log  == git.log[f]
           new  == NewCommits(kind, f)
           kept == IF /\ kind \in {"amend", "reset"} /\ log # <<>> /\ Head(log) = Head(git.log["all"])
                   THEN Tail(log) ELSE log
           edited == git'.log[f]
<1>1. git' = [version |-> NextVersion(kind), log |-> EditedLog(kind)]
      /\ old \in Nat /\ log \in Seq(Nat)
  BY DEF EditGit, GitType
<1>2. edited = new \o kept
  BY <1>1 DEF EditedLog
<1>3. kept = log \/ (log # <<>> /\ kept = Tail(log))
  OBVIOUS
<1>4. /\ kept \in Seq(Nat) /\ new \in Seq(Nat) /\ \A i \in DOMAIN new : old < new[i]
      /\ NextVersion(kind) \in Nat /\ old < NextVersion(kind)
  <2>1. kept \in Seq(Nat)
    BY <1>1, HeadTailProperties
  <2> QED BY <2>1, NewCommitsType
<1>5. cursor <= git'.version
  BY <1>1, <1>4
<1> HIDE DEF kept, edited, log, new, old
<1>6. PICK d \in Int : ShiftedBy(log, edited, old, d)
  BY <1>1, <1>2, <1>3, <1>4, EditShifts
<1>7. ASSUME NEW j \in DOMAIN edited, edited[j] = cursor, NEW k \in 1..Len(page)
      PROVE  j + k \in DOMAIN edited /\ edited[j + k] = page[k]
  <2>1. j + d \in DOMAIN log /\ log[j + d] = cursor
    BY <1>6, <1>7 DEF ShiftedBy, old
  <2>2. j + d + k \in DOMAIN log /\ log[j + d + k] = page[k]
    BY <2>1 DEF Follows, log
  <2>3. k \in Nat
    BY LenProperties
  <2> QED BY <1>6, <1>7, <2>2, <2>3 DEF ShiftedBy, old
<1>8. Follows(edited, cursor, page)
  BY <1>7 DEF Follows
<1> QED BY <1>5, <1>8 DEF edited

\* A page that is found by its cursor follows it.
LEMMA FoundFollows ==
    ASSUME NEW log \in Seq(Nat), IsInjective(log),
           NEW loaded \in Nat, NEW cursor \in Nat, NEW limit \in Nat,
           PageAfter(log, loaded, cursor, limit).anchored
    PROVE  /\ cursor # NoCursor /\ cursor \in Range(log)
           /\ Follows(log, cursor, PageAfter(log, loaded, cursor, limit).page)
<1> DEFINE window == FirstOf(log, loaded + limit + 1)
           start  == PageStart(window, loaded, cursor)
           rest   == SubSeq(window, start + 1, Len(window))
           page   == FirstOf(rest, limit)
<1>1. /\ window \in Seq(Nat) /\ Len(window) <= Len(log)
      /\ \A i \in 1..Len(window) : window[i] = log[i]
  BY FirstOfType
<1> DEFINE hit == cursor # NoCursor /\ cursor \in Range(window)
<1>2. PageAfter(log, loaded, cursor, limit)
        = [ok |-> TRUE, page |-> page, more |-> Len(rest) > limit, anchored |-> hit]
  BY DEF PageAfter
<1>3. cursor # NoCursor /\ cursor \in Range(window)
  <2>1. hit
    <3> HIDE DEF hit, page, rest, window
    <3> QED BY <1>2
  <2> QED BY <2>1
<1>4. start \in DOMAIN window /\ window[start] = cursor
  <2>1. start = CHOOSE i \in DOMAIN window : window[i] = cursor
    BY <1>3 DEF PageStart
  <2>2. \E i \in DOMAIN window : window[i] = cursor
    BY <1>3 DEF Range
  <2> QED BY <2>1, <2>2
<1> HIDE DEF window, start
<1>5. DOMAIN window = 1..Len(window) /\ DOMAIN log = 1..Len(log) /\ Len(window) \in Nat /\ Len(log) \in Nat
  BY <1>1, LenProperties
<1>6. /\ rest \in Seq(Nat) /\ Len(rest) = Len(window) - start
      /\ \A i \in 1..Len(rest) : rest[i] = window[start + i]
  <2>1. start \in 0..Len(window)
    BY <1>4, <1>5
  <2> QED BY <1>1, <2>1
<1> HIDE DEF rest
<1>7. /\ page \in Seq(Nat) /\ Len(page) <= Len(rest) /\ Len(page) \in Nat
      /\ \A i \in 1..Len(page) : page[i] = rest[i]
  BY <1>6, FirstOfType, LenProperties
<1> HIDE DEF page
<1>8. start \in DOMAIN log /\ log[start] = cursor
  BY <1>1, <1>4, <1>5
<1>9. ASSUME NEW i \in DOMAIN log, log[i] = cursor, NEW k \in 1..Len(page)
      PROVE  i + k \in DOMAIN log /\ log[i + k] = page[k]
  <2>1. i = start
    BY <1>8, <1>9 DEF IsInjective
  <2>2. k \in 1..Len(rest) /\ start + k \in 1..Len(window)
    BY <1>4, <1>5, <1>6, <1>7
  <2>3. page[k] = rest[k] /\ rest[k] = window[start + k] /\ window[start + k] = log[start + k]
    BY <1>1, <1>6, <1>7, <2>2
  <2> QED BY <1>1, <1>5, <2>1, <2>2, <2>3
<1>10. cursor \in Range(log)
  BY <1>8 DEF Range
<1> QED BY <1>2, <1>3, <1>9, <1>10 DEF Follows

\* Two positions of a set with as many below them are one.
LEMMA NthUnique ==
    ASSUME NEW n \in Nat, NEW S \in SUBSET (1..n), NEW a \in S, NEW b \in S,
           Cardinality({j \in S : j <= a}) = Cardinality({j \in S : j <= b})
    PROVE  a = b
<1> DEFINE Upto(i) == {j \in S : j <= i}
<1>1. \A i \in S : IsFiniteSet(Upto(i)) /\ i \in Upto(i)
  <2>1. IsFiniteSet(1..n)
    BY FS_Interval
  <2>2. \A i \in S : i \in 1..n /\ i <= i
    OBVIOUS
  <2>3. \A i \in S : Upto(i) \in SUBSET (1..n) /\ i \in Upto(i)
    BY <2>2, Zenon
  <2> HIDE DEF Upto
  <2> QED BY <2>1, <2>3, FS_Subset
<1>2. ASSUME NEW x \in S, NEW y \in S, x < y, Cardinality(Upto(x)) = Cardinality(Upto(y))
      PROVE  FALSE
  <2>0. \A j \in S : j \in Nat
    OBVIOUS
  <2>1. Upto(x) \in SUBSET Upto(y) /\ y \notin Upto(x)
    <3>1. ASSUME NEW j \in S, j <= x PROVE j <= y
      BY <1>2, <2>0, <3>1
    <3>2. ~(y <= x)
      BY <1>2, <2>0
    <3> QED BY <3>1, <3>2
  <2>2. Upto(x) = Upto(y)
    BY <1>1, <1>2, <2>1, FS_Subset
  <2> QED BY <1>1, <2>1, <2>2
<1>3. a < b \/ b < a \/ a = b
  OBVIOUS
<1> QED BY <1>2, <1>3

\* With a page appended, the list holds what it held and all of the page.
LEMMA NewToCovers ==
    ASSUME NEW list \in Seq(Nat), NEW page \in Seq(Nat)
    PROVE  Range(list \o NewTo(list, page)) = Range(list) \cup Range(page)
<1> DEFINE fresh  == {i \in DOMAIN page : page[i] \notin Range(list)}
           n      == Cardinality(fresh)
           Rank(i) == Cardinality({j \in fresh : j <= i})
           Nth(k) == CHOOSE i \in fresh : Rank(i) = k
           new    == NewTo(list, page)
<1>1. new = [k \in 1..n |-> page[Nth(k)]] /\ new \in Seq(Nat)
  BY NewToType DEF NewTo
<1>2. fresh \in SUBSET (1..Len(page)) /\ Len(page) \in Nat
  BY LenProperties
<1>3. IsFiniteSet(fresh) /\ n \in Nat
  <2>1. IsFiniteSet(1..Len(page))
    BY <1>2, FS_Interval
  <2> QED BY <1>2, <2>1, FS_Subset, FS_CardinalityType
<1>4. ASSUME NEW k \in 1..n PROVE Nth(k) \in fresh
  <2>1. \E i \in fresh : Rank(i) = k
    <3> HIDE DEF fresh
    <3> QED BY <1>2, NthExists
  <2> HIDE DEF fresh, Rank
  <2> QED BY <2>1
<1>5. ASSUME NEW i \in fresh PROVE Rank(i) \in 1..n /\ Nth(Rank(i)) = i
  <2>1. {j \in fresh : j <= i} \subseteq fresh /\ i \in {j \in fresh : j <= i}
    BY <1>2
  <2>2. IsFiniteSet({j \in fresh : j <= i}) /\ Rank(i) \in Nat /\ Rank(i) <= n
    BY <1>3, <2>1, FS_Subset, FS_CardinalityType
  <2>3. Rank(i) # 0
    BY <2>1, <2>2, FS_EmptySet
  <2>4. Nth(Rank(i)) \in fresh /\ Rank(Nth(Rank(i))) = Rank(i)
    <3> HIDE DEF fresh, Rank
    <3> QED OBVIOUS
  <2>5. Nth(Rank(i)) = i
    <3> DEFINE m == Nth(Rank(i))
    <3>1. m \in fresh /\ Rank(m) = Rank(i)
      BY <2>4
    <3> HIDE DEF m, fresh
    <3>2. m = i
      BY <1>2, <3>1, NthUnique
    <3> QED BY <3>2 DEF m
  <2> QED BY <1>3, <2>2, <2>3, <2>5
<1>6. Range(new) = {page[i] : i \in fresh}
  <2>1. ASSUME NEW x \in Range(new) PROVE \E i \in fresh : x = page[i]
    <3>1. PICK k \in 1..n : x = page[Nth(k)]
      BY <1>1, <2>1 DEF Range
    <3> HIDE DEF Nth, fresh
    <3> QED BY <1>4, <3>1
  <2>2. ASSUME NEW i \in fresh PROVE page[i] \in Range(new)
    <3>1. Rank(i) \in DOMAIN new /\ new[Rank(i)] = page[Nth(Rank(i))]
      BY <1>1, <1>5
    <3>2. new[Rank(i)] = page[i]
      BY <1>5, <3>1
    <3> HIDE DEF new, Rank
    <3> QED BY <3>1, <3>2 DEF Range
  <2> HIDE DEF new, fresh
  <2> QED BY <2>1, <2>2
<1>7. Range(list) \cup Range(new) = Range(list) \cup Range(page)
  <2>1. \A i \in DOMAIN page : page[i] \in Range(list) \/ i \in fresh
    OBVIOUS
  <2>2. \A i \in fresh : i \in DOMAIN page
    OBVIOUS
  <2> HIDE DEF fresh, new
  <2> QED BY <1>6, <2>1, <2>2 DEF Range
<1>0. new \in Seq(Nat)
  BY <1>1
<1> HIDE DEF new
<1>8. Range(list \o new) = Range(list) \cup Range(new)
  <2>1. \A s \in Seq(Nat) : Range(s) = {s[i] : i \in 1..Len(s)} /\ Len(s) \in Nat
    BY LenProperties DEF Range
  <2>2. /\ list \o new \in Seq(Nat) /\ Len(list \o new) = Len(list) + Len(new)
        /\ \A i \in 1..Len(list) : (list \o new)[i] = list[i]
        /\ \A i \in 1..Len(new) : (list \o new)[Len(list) + i] = new[i]
    BY <1>0, ConcatProperties
  <2> DEFINE all == list \o new
  <2> HIDE DEF all
  <2>3. ASSUME NEW i \in 1..Len(all) PROVE all[i] \in Range(list) \cup Range(new)
    <3>1. CASE i <= Len(list)
      BY <1>0, <2>1, <2>2, <3>1 DEF all
    <3>2. CASE ~(i <= Len(list))
      <4>1. i - Len(list) \in 1..Len(new) /\ i = Len(list) + (i - Len(list))
        BY <1>0, <2>1, <2>2, <3>2 DEF all
      <4>2. all[i] = new[i - Len(list)]
        BY <2>2, <4>1 DEF all
      <4> QED BY <1>0, <2>1, <4>1, <4>2
    <3> QED BY <3>1, <3>2
  <2>4. ASSUME NEW i \in 1..Len(list) PROVE list[i] \in Range(all)
    <3>1. i \in 1..Len(all) /\ all[i] = list[i]
      BY <1>0, <2>1, <2>2 DEF all
    <3> QED BY <2>1, <2>2, <3>1 DEF all
  <2>5. ASSUME NEW i \in 1..Len(new) PROVE new[i] \in Range(all)
    <3>1. Len(list) + i \in 1..Len(all) /\ all[Len(list) + i] = new[i]
      BY <1>0, <2>1, <2>2 DEF all
    <3> QED BY <2>1, <2>2, <3>1 DEF all
  <2>6. all \in Seq(Nat)
    BY <2>2 DEF all
  <2>7. Range(all) = Range(list) \cup Range(new)
    <3>1. /\ Range(all) = {all[i] : i \in 1..Len(all)}
          /\ Range(list) = {list[i] : i \in 1..Len(list)}
          /\ Range(new) = {new[i] : i \in 1..Len(new)}
      BY <1>0, <2>1, <2>6
    <3>2. ASSUME NEW x \in Range(all) PROVE x \in Range(list) \cup Range(new)
      BY <2>3, <3>1
    <3>3. ASSUME NEW x \in Range(list) \cup Range(new) PROVE x \in Range(all)
      BY <2>4, <2>5, <3>1
    <3> QED BY <3>2, <3>3
  <2> QED BY <2>7 DEF all
<1> QED BY <1>7, <1>8 DEF new

\* A list that is whole, with a page that follows its last commit, is whole.
LEMMA WholeWithPage ==
    ASSUME NEW log \in Seq(Nat), IsInjective(log), NEW list \in Seq(Nat), NEW page \in Seq(Nat),
           NEW more \in Seq(Nat), Range(more) = Range(list) \cup Range(page),
           NEW cursor \in Range(list), cursor \in Range(log),
           Follows(log, cursor, page), Whole(list, log)
    PROVE  Whole(more, log)
<1> DEFINE at == {i \in DOMAIN log : log[i] \in Range(list)}
           on == {i \in DOMAIN log : log[i] \in Range(page)}
<1>1. DOMAIN log = 1..Len(log) /\ Len(log) \in Nat /\ DOMAIN page = 1..Len(page) /\ Len(page) \in Nat
  BY LenProperties
<1>2. PICK c \in DOMAIN log : log[c] = cursor
  BY DEF Range
<1>3. \A k \in 1..Len(page) : c + k \in DOMAIN log /\ log[c + k] = page[k]
  BY <1>2 DEF Follows
<1>4. c \in at /\ \A i, j \in at : i..j \subseteq at
  BY <1>2 DEF Whole
<1>5. on = (c + 1)..(c + Len(page))
  <2>1. ASSUME NEW i \in on PROVE i \in (c + 1)..(c + Len(page))
    <3>1. PICK k \in 1..Len(page) : log[i] = page[k]
      BY <1>1 DEF Range
    <3>2. i = c + k
      BY <1>3, <3>1 DEF IsInjective
    <3> QED BY <1>1, <3>2
  <2>2. ASSUME NEW i \in (c + 1)..(c + Len(page)) PROVE i \in on
    <3>1. i - c \in 1..Len(page) /\ c + (i - c) = i
      BY <1>1
    <3>2. i \in DOMAIN log /\ log[i] = page[i - c]
      BY <1>3, <3>1
    <3>3. page[i - c] \in Range(page)
      BY <1>1, <3>1 DEF Range
    <3> QED BY <3>2, <3>3
  <2> QED BY <2>1, <2>2
<1>6. {i \in DOMAIN log : log[i] \in Range(more)} = at \cup on
  OBVIOUS
<1>7. \A i \in at \cup on : i \in Nat
  BY <1>1
<1> HIDE DEF at, on
<1>8. ASSUME NEW a \in at \cup on, NEW b \in at \cup on, NEW m \in a..b
      PROVE  m \in at \cup on
  <2>1. a \in Nat /\ b \in Nat /\ c \in Nat /\ m \in Nat /\ a <= m /\ m <= b
    BY <1>1, <1>7
  <2>2. CASE m <= c
    <3>1. a \in at
      BY <1>1, <1>5, <2>1, <2>2
    <3>2. m \in a..c
      BY <2>1, <2>2
    <3> QED BY <1>4, <3>1, <3>2
  <2>3. CASE ~(m <= c) /\ b \in at
    <3>1. m \in c..b
      BY <2>1, <2>3
    <3> QED BY <1>4, <2>3, <3>1
  <2>4. CASE ~(m <= c) /\ b \in on
    <3>1. m \in (c + 1)..(c + Len(page))
      BY <1>1, <1>5, <2>1, <2>4
    <3> QED BY <1>5, <3>1
  <2> QED BY <2>2, <2>3, <2>4
<1> QED BY <1>6, <1>8 DEF Whole

\* What an edit leaves of the pages found.
LEMMA EditKeepsPages ==
    ASSUME TypeOK, PagesInv, NEW kind \in GitEdit, EditGit(kind), UNCHANGED pager
    PROVE  PagesInv'
<1> SUFFICES ASSUME NEW p \in Pagers, pager[p].result.anchored
             PROVE  /\ pager[p].cursor # NoCursor /\ pager[p].cursor <= git'.version
                    /\ Follows(git'.log[pager[p].filter], pager[p].cursor, pager[p].result.page)
  BY DEF PagesInv
<1>1. git \in GitType /\ pager[p] \in PagerType
  BY TypeParts
<1>2. pager[p].filter \in Filter /\ pager[p].cursor \in Nat /\ pager[p].result.page \in Seq(Nat)
  BY <1>1 DEF PagerType, PageType
<1>3. /\ pager[p].cursor # NoCursor /\ pager[p].cursor <= git.version
      /\ Follows(git.log[pager[p].filter], pager[p].cursor, pager[p].result.page)
  BY DEF PagesInv
<1> QED BY <1>1, <1>2, <1>3, EditKeepsFollowing

\* Steps that leave logs and pagers alone.
LEMMA PagesFrame ==
    ASSUME PagesInv, UNCHANGED <<git, pager>>
    PROVE  PagesInv'
BY DEF PagesInv

\* A page request finds what follows its cursor.
LEMMA PagerKeepsPages ==
    ASSUME TypeOK, LogsInv, PagesInv, NEW p \in Pagers,
           LoadMore(p) \/ ToggleMyCommits(p) \/ PagerStep(p)
    PROVE  PagesInv'
<1> USE DEF repo, flags, view, query, tasks
<1>1. UNCHANGED git
  BY DEF LoadMore, ToggleMyCommits, PagerStep, FetchPage, ApplyPage, DropPage
<1>2. pager \in [Pagers -> PagerType] /\ pager[p] \in PagerType /\ git \in GitType
  BY TypeParts
<1>3. /\ \A q \in Pagers : q # p => pager'[q] = pager[q]
      /\ \/ pager'[p].result = NoPage
         \/ /\ pager'[p].result = pager[p].result /\ pager'[p].cursor = pager[p].cursor
            /\ pager'[p].filter = pager[p].filter
         \/ /\ pager'[p].result = PageAfter(git.log[pager[p].filter], pager[p].loaded,
                                           pager[p].cursor, CommitLimit)
            /\ pager'[p].cursor = pager[p].cursor /\ pager'[p].filter = pager[p].filter
  <2>1. CASE LoadMore(p) \/ ToggleMyCommits(p)
    BY <1>2, <2>1 DEF LoadMore, ToggleMyCommits, PageRequest
  <2>2. CASE FetchPage(p)
    <3> DEFINE found == PageAfter(git.log[pager[p].filter], pager[p].loaded,
                                  pager[p].cursor, CommitLimit)
    <3> HIDE DEF found
    <3>1. /\ \A q \in Pagers : q # p => pager'[q] = pager[q]
          /\ pager'[p].result = found \/ pager'[p].result = pager[p].result
          /\ pager'[p].cursor = pager[p].cursor /\ pager'[p].filter = pager[p].filter
      BY <1>2, <2>2 DEF FetchPage, found, PagerType
    <3> QED BY <3>1 DEF found
  <2>3. CASE ApplyPage(p) \/ DropPage(p)
    BY <1>2, <2>3 DEF ApplyPage, DropPage, IdlePager
  <2> QED BY <2>1, <2>2, <2>3 DEF PagerStep
<1>4. ASSUME NEW q \in Pagers, pager'[q].result.anchored
      PROVE  /\ pager'[q].cursor # NoCursor /\ pager'[q].cursor <= git.version
             /\ Follows(git.log[pager'[q].filter], pager'[q].cursor, pager'[q].result.page)
  <2>1. CASE q # p
    BY <1>3, <1>4, <2>1 DEF PagesInv
  <2>2. CASE q = p
    <3>1. pager'[p].result # NoPage
      BY <1>4, <2>2 DEF NoPage
    <3>2. CASE /\ pager'[p].result = pager[p].result /\ pager'[p].cursor = pager[p].cursor
               /\ pager'[p].filter = pager[p].filter
      BY <1>4, <2>2, <3>2 DEF PagesInv
    <3>3. CASE /\ pager'[p].result = PageAfter(git.log[pager[p].filter], pager[p].loaded,
                                              pager[p].cursor, CommitLimit)
               /\ pager'[p].cursor = pager[p].cursor /\ pager'[p].filter = pager[p].filter
      <4> DEFINE log == git.log[pager[p].filter]
                 cursor == pager[p].cursor
                 loaded == pager[p].loaded
      <4>1. /\ pager[p].filter \in Filter /\ log \in Seq(Nat) /\ loaded \in Nat /\ cursor \in Nat
            /\ git.version \in Nat
        BY <1>2 DEF PagerType, GitType
      <4>2. IsInjective(log) /\ \A i \in DOMAIN log : log[i] <= git.version
        BY <4>1 DEF LogsInv
      <4>3. PageAfter(log, loaded, cursor, CommitLimit).anchored
        BY <1>4, <2>2, <3>3
      <4> HIDE DEF log, cursor, loaded
      <4>4. /\ cursor # NoCursor /\ cursor \in Range(log)
            /\ Follows(log, cursor, PageAfter(log, loaded, cursor, CommitLimit).page)
        BY <4>1, <4>2, <4>3, IdleTypes, FoundFollows
      <4>5. cursor <= git.version
        BY <4>2, <4>4 DEF Range
      <4> QED BY <2>2, <3>3, <4>4, <4>5 DEF log, cursor, loaded
    <3> QED BY <1>3, <3>1, <3>2, <3>3
  <2> QED BY <2>1, <2>2
<1> QED BY <1>1, <1>4 DEF PagesInv

\* Everybody.
LEMMA PagesNext == TypeOK /\ LogsInv /\ PagesInv /\ [Next]_vars => PagesInv'
<1> SUFFICES ASSUME TypeOK, LogsInv, PagesInv, [Next]_vars PROVE PagesInv'
  OBVIOUS
<1> USE DEF repo, flags, view, query, tasks
<1>1. CASE UNCHANGED vars
  BY <1>1, PagesFrame DEF vars
<1>2. ASSUME NEW kind \in EditKinds, ExternalGitEdit(kind) PROVE PagesInv'
  BY <1>2, EditKeepsPages, RefreshAssumption DEF ExternalGitEdit, RefreshAssumption
<1>3. CASE ExternalTreeEdit \/ WatcherStep
  BY <1>3, PagesFrame DEF ExternalTreeEdit, WatcherStep, WatcherTick, WatcherScan, WatcherGather,
                          WatcherApply, WatcherDropStale
<1>4. ASSUME NEW p \in Pagers, LoadMore(p) \/ ToggleMyCommits(p) \/ PagerStep(p)
      PROVE  PagesInv'
  BY <1>4, PagerKeepsPages
<1>5. ASSUME NEW r \in Refreshers, StartRefresh(r) \/ RefresherStep(r) PROVE PagesInv'
  BY <1>5, PagesFrame DEF StartRefresh, RefresherStep, GatherRefresh, ApplyRefresh, FetchRest,
                          ApplyRest
<1>6. ASSUME NEW o \in Ops, (\E kind \in OpKinds : StartOp(o, kind)) \/ OpStep(o)
      PROVE  PagesInv'
  <2>1. CASE MutateOp(o)
    <3>1. op[o].kind \in GitEdit /\ EditGit(op[o].kind) /\ UNCHANGED pager
      BY <2>1, TypeParts DEF MutateOp, OpType
    <3> QED BY <3>1, EditKeepsPages
  <2>2. CASE (\E kind \in OpKinds : StartOp(o, kind)) \/ FailOp(o) \/ GatherOp(o) \/ ApplyOp(o)
    BY <2>2, PagesFrame DEF StartOp, FailOp, GatherOp, ApplyOp
  <2> QED BY <1>6, <2>1, <2>2 DEF OpStep
<1> QED BY <1>1, <1>2, <1>3, <1>4, <1>5, <1>6 DEF Next

\* A page that was found by its cursor continues the list, however much was committed, amended
\* or reset between the request, the git log and the append, whatever the page size.
THEOREM PagesContinue == Spec => PageContinuesList
<1> DEFINE Step == \A p \in Pagers : LandsOnItsList(p) /\ pager[p].result.anchored
                                     => Whole(commits', git.log[filter])
<1>1. Init => PagesInv
  BY DEF Init, PagesInv, IdlePager, NoPage
<1>2. TypeOK /\ RowsInv /\ PagingInv /\ PagesInv /\ [Next]_vars => [Step]_vars
  <2> SUFFICES ASSUME TypeOK, RowsInv, PagingInv, PagesInv, Next, NEW p \in Pagers,
                      LandsOnItsList(p), pager[p].result.anchored
               PROVE  Whole(commits', git.log[filter])
    OBVIOUS
  <2>1. /\ LivePager(p) /\ pager[p].pc = "apply" /\ pager[p].query = queryGen /\ pager[p].result.ok
        /\ pager'[p].pc = "idle" /\ pager[p].cursor = CursorOf(commits)
        /\ pager[p].cursor \in Range(git.log[filter]) /\ Whole(commits, git.log[filter])
    BY DEF LandsOnItsList, LivePager
  <2>2. pager \in [Pagers -> PagerType] /\ git \in GitType /\ commits \in Seq(Nat) /\ filter \in Filter
    BY TypeParts
  <2>3. ApplyPage(p)
    <3>1. pager'[p] # pager[p]
      BY <2>1
    <3>2. \A q \in Pagers : q # p /\ (LoadMore(q) \/ ToggleMyCommits(q) \/ PagerStep(q))
                            => pager'[p] = pager[p]
      BY <2>2 DEF LoadMore, ToggleMyCommits, PagerStep, FetchPage, ApplyPage, DropPage
    <3>3. \E q \in Pagers : LoadMore(q) \/ ToggleMyCommits(q) \/ PagerStep(q)
      BY <3>1 DEF Next, WatcherStep, RefresherStep, OpStep, WatcherTick, WatcherScan,
           WatcherGather, WatcherApply, WatcherDropStale, ExternalGitEdit, ExternalTreeEdit,
           StartRefresh, GatherRefresh, ApplyRefresh, FetchRest, ApplyRest, StartOp, FailOp,
           MutateOp, GatherOp, ApplyOp, query, tasks
    <3>4. LoadMore(p) \/ ToggleMyCommits(p) \/ PagerStep(p)
      BY <3>1, <3>2, <3>3
    <3> QED BY <2>1, <3>4 DEF LoadMore, ToggleMyCommits, PagerStep, FetchPage, DropPage
  <2> DEFINE page == pager[p].result.page
             log == git.log[filter]
  <2>4. page \in Seq(Nat) /\ log \in Seq(Nat) /\ IsInjective(log)
    BY <2>2 DEF PagerType, PageType, GitType, RowsInv, LogsInv
  <2>5. Follows(log, CursorOf(commits), page)
    <3>1. pager[p].filter = filter
      BY <2>1 DEF PagingInv, LiveQueriesMatchFilter
    <3> QED BY <2>1, <3>1 DEF PagesInv
  <2>6. commits' = commits \o NewTo(commits, page)
    BY <2>1, <2>3 DEF ApplyPage, AppendPage
  <2>7. CursorOf(commits) \in Range(commits)
    <3>1. CursorOf(commits) # NoCursor
      BY <2>1 DEF PagesInv
    <3>2. commits # <<>> /\ CursorOf(commits) = commits[Len(commits)]
      BY <3>1 DEF CursorOf
    <3>3. Len(commits) \in DOMAIN commits
      BY <2>2, <3>2
    <3> QED BY <3>2, <3>3 DEF Range
  <2> HIDE DEF page, log
  <2>8. commits' \in Seq(Nat) /\ Range(commits') = Range(commits) \cup Range(page)
    BY <2>2, <2>4, <2>6, NewToType, NewToCovers, ConcatProperties
  <2>9. Whole(commits', log)
    BY <2>1, <2>2, <2>4, <2>5, <2>7, <2>8, WholeWithPage DEF log
  <2> QED BY <2>9 DEF log
<1>3. RowsInv => LogsInv
  BY DEF RowsInv
<1> QED BY <1>1, <1>2, <1>3, TypeCorrect, PagingInit, PagingStep, RowsInit, RowsNext, PagesNext,
           PTL DEF Spec, PageContinuesList

=============================================================================
