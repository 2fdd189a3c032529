--------------------------- MODULE LruCacheProofs ---------------------------
(***************************************************************************)
(* Proofs about LruCache, for queues of any length and any keys: what is   *)
(* kept of a queue, what a touch and a list of insertions leave.  A        *)
(* recursion over a queue is reasoned about by counting up to its length.  *)
(***************************************************************************)
EXTENDS LruCache, SequenceTheorems, FiniteSetTheorems, WellFoundedInduction, TLAPS

-----------------------------------------------------------------------------
(* Counting, induction and recursion *)

\* Counting up to N by ones reaches every number up to N.
LEMMA CountUp ==
    ASSUME NEW N \in Nat, NEW T, 0 \in T, \A k \in 1..N : k - 1 \in T => k \in T
    PROVE  0..N \subseteq T
<1> DEFINE rest == {k \in 0..N : k \notin T}
<1>1. CASE rest = {}
  BY <1>1
<1>2. CASE rest # {}
  <2>1. PICK m \in rest : \A n \in rest : ~(<<n, m>> \in OpToRel(<, Nat))
    <3>1. rest \in SUBSET Nat
      OBVIOUS
    <3> HIDE DEF rest
    <3> QED BY <1>2, <3>1, NatLessThanWellFounded, WFMin, Zenon
  <2>2. m \in 1..N /\ m - 1 \in 0..N
    <3>1. m \in 0..N /\ m # 0
      BY <2>1, Zenon
    <3> QED BY <3>1
  <2>3. m - 1 \notin rest
    <3> SUFFICES ASSUME m - 1 \in rest PROVE FALSE
      OBVIOUS
    <3>1. <<m - 1, m>> \notin OpToRel(<, Nat)
      BY <2>1
    <3> QED BY <2>2, <3>1 DEF OpToRel
  <2> QED BY <2>1, <2>2, <2>3
<1> QED BY <1>1, <1>2

\* What holds of the empty sequence, and of a sequence with one more member, holds of all.
LEMMA SequenceInduction ==
    ASSUME NEW S, NEW T, <<>> \in T, \A s \in Seq(S), e \in S : s \in T => Append(s, e) \in T
    PROVE  Seq(S) \subseteq T
<1> SUFFICES ASSUME NEW s \in Seq(S) PROVE s \in T
  OBVIOUS
<1> DEFINE N == Len(s)
           U == {n \in 0..N : SubSeq(s, 1, n) \in T}
<1>0. N \in Nat /\ s \in [1..N -> S]
  BY LenProperties
<1>1. 0 \in U
  <2>1. SubSeq(s, 1, 0) = <<>>
    BY SubSeqEmpty
  <2>2. SubSeq(s, 1, 0) \in T
    BY <2>1, Zenon
  <2>3. 0 \in 0..N
    BY <1>0
  <2> QED BY <2>2, <2>3, Zenon
<1>2. ASSUME NEW k \in 1..N, k - 1 \in U PROVE k \in U
  <2>1. SubSeq(s, 1, k - 1) \in Seq(S) /\ s[k] \in S
    <3>1. \A i \in 1..k - 1 : s[i] \in S
      BY <1>0
    <3> QED BY <1>0, <3>1, SubSeqProperties
  <2>2. SubSeq(s, 1, k) = Append(SubSeq(s, 1, k - 1), s[k])
    <3>1. SubSeq(s, 1, k) = SubSeq(s, 1, k - 1) \o <<s[k]>>
      BY <1>0, SubSeqRecursiveSecond
    <3> QED BY <2>1, <3>1, AppendIsConcat
  <2>3. SubSeq(s, 1, k - 1) \in T
    BY <1>2
  <2>4. SubSeq(s, 1, k) \in T
    BY <2>1, <2>2, <2>3
  <2> QED BY <1>0, <2>4
<1>3. 0..N \subseteq U
  <2> HIDE DEF U, N
  <2> QED BY <1>0, <1>1, <1>2, CountUp
<1>4. SubSeq(s, 1, N) \in T
  BY <1>0, <1>3
<1> QED BY <1>4, SubSeqFull

\* A value that is built in steps, and nothing else is built by the same steps.
Steps(N, S) == [1..N -> [S -> S]]

Follows(f, N, S, first, step) ==
    f \in [0..N -> S] /\ f[0] = first /\ \A k \in 1..N : f[k] = step[k][f[k - 1]]

LEMMA Recursion ==
    ASSUME NEW N \in Nat, NEW S, NEW first \in S, NEW step, step \in Steps(N, S)
    PROVE  \E f : Follows(f, N, S, first, step)
<1> USE DEF Steps
<1> DEFINE Upto(n) == \E f \in [0..n -> S] :
                         f[0] = first /\ \A k \in 1..n : f[k] = step[k][f[k - 1]]
           T == {n \in 0..N : Upto(n)}
<1>1. 0 \in T
  <2> DEFINE f == [k \in 0..0 |-> first]
  <2>1. f \in [0..0 -> S] /\ f[0] = first /\ 1..0 = {}
    OBVIOUS
  <2> HIDE DEF f
  <2> QED BY <2>1
<1>2. ASSUME NEW m \in 1..N, m - 1 \in T PROVE m \in T
  <2>1. PICK f \in [0..m - 1 -> S] : f[0] = first /\ \A k \in 1..m - 1 : f[k] = step[k][f[k - 1]]
    BY <1>2
  <2>2. m \in Nat /\ m >= 1 /\ m - 1 \in 0..m - 1
    OBVIOUS
  <2> DEFINE last == step[m][f[m - 1]]
             g == [k \in 0..m |-> IF k = m THEN last ELSE f[k]]
  <2>3. last \in S
    BY <2>1, <2>2
  <2> HIDE DEF last
  <2>4. g \in [0..m -> S]
    BY <2>1, <2>2, <2>3
  <2>5. \A k \in 0..m - 1 : g[k] = f[k]
    BY <2>2
  <2>6. g[m] = last
    BY <2>2
  <2> HIDE DEF g
  <2>7. g[0] = first
    BY <2>1, <2>2, <2>5
  <2>8. \A k \in 1..m : g[k] = step[k][g[k - 1]]
    <3> TAKE k \in 1..m
    <3>1. CASE k = m
      BY <2>2, <2>5, <2>6, <3>1 DEF last
    <3>2. CASE k # m
      <4>1. k \in 1..m - 1 /\ k - 1 \in 0..m - 1 /\ k \in 0..m - 1
        BY <2>2, <3>2
      <4> QED BY <2>1, <2>5, <4>1
    <3> QED BY <3>1, <3>2
  <2> QED BY <2>4, <2>7, <2>8
<1>3. N \in T
  <2> HIDE DEF T
  <2>1. 0..N \subseteq T
    BY <1>1, <1>2, CountUp
  <2> QED BY <2>1
<1> QED BY <1>3 DEF Follows

\* Where two functions take the same step from the same value.
InStep(f, g, N) == f[0] = g[0] /\ \A k \in 1..N : f[k - 1] = g[k - 1] => f[k] = g[k]

LEMMA SameSteps ==
    ASSUME NEW N \in Nat, NEW f, NEW g, InStep(f, g, N)
    PROVE  \A k \in 0..N : f[k] = g[k]
<1> DEFINE T == {k \in 0..N : f[k] = g[k]}
<1>1. 0 \in T
  BY DEF InStep
<1>2. \A k \in 1..N : k - 1 \in T => k \in T
  BY DEF InStep
<1>3. 0..N \subseteq T
  <2> HIDE DEF T
  <2> QED BY <1>1, <1>2, CountUp
<1> QED BY <1>3

-----------------------------------------------------------------------------
(* Queues and their members *)

LEMMA EmptySet ==
    /\ ToSet(<<>>) = {} /\ IsInjective(<<>>) /\ Len(<<>>) = 0
    /\ \A S : <<>> \in Seq(S)
BY DEF ToSet, IsInjective

\* Members of a queue with one more.
LEMMA AppendSet ==
    ASSUME NEW S, NEW q \in Seq(S), NEW e \in S
    PROVE  /\ Append(q, e) \in Seq(S) /\ Len(Append(q, e)) = Len(q) + 1
           /\ ToSet(Append(q, e)) = ToSet(q) \cup {e}
           /\ IsInjective(Append(q, e)) <=> IsInjective(q) /\ e \notin ToSet(q)
<1> DEFINE t == Append(q, e)
           N == Len(q)
<1>1. /\ N \in Nat /\ t \in Seq(S) /\ Len(t) = N + 1 /\ t[N + 1] = e
      /\ \A n \in 1..N : t[n] = q[n]
      /\ DOMAIN q = 1..N /\ DOMAIN t = 1..N + 1
  BY AppendProperties, LenProperties
<1> HIDE DEF t, N
<1>2. ToSet(t) = ToSet(q) \cup {e}
  BY <1>1 DEF ToSet
<1>3. IsInjective(t) => IsInjective(q) /\ e \notin ToSet(q)
  BY <1>1 DEF ToSet, IsInjective
<1>4. IsInjective(q) /\ e \notin ToSet(q) => IsInjective(t)
  BY <1>1 DEF ToSet, IsInjective
<1> QED BY <1>1, <1>2, <1>3, <1>4 DEF t, N

\* A queue in two parts.
LEMMA ConcatSet ==
    ASSUME NEW S, NEW q \in Seq(S), NEW t \in Seq(S)
    PROVE  /\ q \o t \in Seq(S) /\ Len(q \o t) = Len(q) + Len(t)
           /\ ToSet(q \o t) = ToSet(q) \cup ToSet(t)
           /\ IsInjective(q \o t) <=>
                 IsInjective(q) /\ IsInjective(t) /\ ToSet(q) \cap ToSet(t) = {}
<1> DEFINE u == q \o t
           M == Len(q)
           N == Len(t)
<1>1. /\ M \in Nat /\ N \in Nat /\ u \in Seq(S) /\ Len(u) = M + N
      /\ \A i \in 1..M : u[i] = q[i]
      /\ \A i \in 1..N : u[M + i] = t[i]
      /\ DOMAIN q = 1..M /\ DOMAIN t = 1..N /\ DOMAIN u = 1..M + N
  BY ConcatProperties, LenProperties
<1> HIDE DEF u, M, N
<1>2. \A i \in 1..M + N : i \in 1..M \/ (i - M \in 1..N /\ i = M + (i - M))
  BY <1>1
<1>3. \A i \in 1..N : M + i \in 1..M + N /\ M + i \notin 1..M
  BY <1>1
<1>4. ToSet(u) = ToSet(q) \cup ToSet(t)
  <2>1. ASSUME NEW e \in ToSet(u) PROVE e \in ToSet(q) \cup ToSet(t)
    <3>1. PICK i \in 1..M + N : e = u[i]
      BY <1>1 DEF ToSet
    <3> QED BY <1>1, <1>2, <3>1 DEF ToSet
  <2>2. ASSUME NEW e \in ToSet(q) PROVE e \in ToSet(u)
    BY <1>1 DEF ToSet
  <2>3. ASSUME NEW e \in ToSet(t) PROVE e \in ToSet(u)
    <3>1. PICK i \in 1..N : e = t[i]
      BY <1>1 DEF ToSet
    <3> QED BY <1>1, <1>3, <3>1 DEF ToSet
  <2> QED BY <2>1, <2>2, <2>3
<1>5. ASSUME IsInjective(u) PROVE IsInjective(q) /\ IsInjective(t) /\ ToSet(q) \cap ToSet(t) = {}
  <2>1. IsInjective(q)
    BY <1>1, <1>5 DEF IsInjective
  <2>2. IsInjective(t)
    <3> SUFFICES ASSUME NEW i \in 1..N, NEW j \in 1..N, t[i] = t[j] PROVE i = j
      BY <1>1 DEF IsInjective
    <3>1. u[M + i] = u[M + j]
      BY <1>1
    <3>2. M + i = M + j
      BY <1>1, <1>3, <1>5, <3>1 DEF IsInjective
    <3> QED BY <1>1, <3>2
  <2>3. ToSet(q) \cap ToSet(t) = {}
    <3> SUFFICES ASSUME NEW i \in 1..M, NEW j \in 1..N, q[i] = t[j] PROVE FALSE
      BY <1>1 DEF ToSet
    <3>1. u[i] = u[M + j]
      BY <1>1
    <3>2. i \in DOMAIN u /\ M + j \in DOMAIN u /\ M + j \notin 1..M
      BY <1>1, <1>3
    <3>3. i = M + j
      BY <1>5, <3>1, <3>2 DEF IsInjective
    <3> QED BY <3>2, <3>3
  <2> QED BY <2>1, <2>2, <2>3
<1>6. ASSUME IsInjective(q), IsInjective(t), ToSet(q) \cap ToSet(t) = {} PROVE IsInjective(u)
  <2> SUFFICES ASSUME NEW i \in 1..M + N, NEW j \in 1..M + N, u[i] = u[j] PROVE i = j
    BY <1>1 DEF IsInjective
  <2>1. CASE i \in 1..M /\ j \in 1..M
    BY <1>1, <1>6, <2>1 DEF IsInjective
  <2>2. CASE i - M \in 1..N /\ j - M \in 1..N
    <3>1. t[i - M] = t[j - M]
      BY <1>1, <1>2, <2>2
    <3>2. i - M = j - M
      BY <1>1, <1>6, <2>2, <3>1 DEF IsInjective
    <3> QED BY <1>1, <3>2
  <2>3. ASSUME NEW k \in 1..M, NEW l \in 1..N PROVE u[k] # u[M + l]
    BY <1>1, <1>6 DEF ToSet
  <2>4. CASE i \in 1..M /\ j - M \in 1..N
    <3>1. u[j] = u[M + (j - M)]
      BY <1>1, <2>4
    <3> QED BY <2>3, <2>4, <3>1
  <2>5. CASE i - M \in 1..N /\ j \in 1..M
    <3>1. u[i] = u[M + (i - M)]
      BY <1>1, <2>5
    <3> QED BY <2>3, <2>5, <3>1
  <2> QED BY <1>2, <2>1, <2>2, <2>4, <2>5
<1> QED BY <1>1, <1>4, <1>5, <1>6 DEF u, M, N

\* The two parts of a queue.
LEMMA Split ==
    ASSUME NEW S, NEW q \in Seq(S), NEW n \in 0..Len(q)
    PROVE  LET a == SubSeq(q, 1, n)
               b == SubSeq(q, n + 1, Len(q))
           IN  /\ a \in Seq(S) /\ b \in Seq(S) /\ q = a \o b
               /\ Len(a) = n /\ Len(b) = Len(q) - n
<1>1. Len(q) \in Nat /\ n \in Nat /\ \A i \in 1..Len(q) : q[i] \in S
  BY LenProperties
<1>2. SubSeq(q, 1, n) \in Seq(S) /\ Len(SubSeq(q, 1, n)) = n
  <2>1. \A i \in 1..n : q[i] \in S
    BY <1>1
  <2>2. /\ SubSeq(q, 1, n) \in Seq(S)
        /\ Len(SubSeq(q, 1, n)) = IF 1 <= n THEN n - 1 + 1 ELSE 0
    BY <1>1, <2>1, SubSeqProperties
  <2> QED BY <1>1, <2>2
<1>3. SubSeq(q, n + 1, Len(q)) \in Seq(S) /\ Len(SubSeq(q, n + 1, Len(q))) = Len(q) - n
  <2>1. \A i \in n + 1..Len(q) : q[i] \in S
    BY <1>1
  <2>2. /\ SubSeq(q, n + 1, Len(q)) \in Seq(S)
        /\ Len(SubSeq(q, n + 1, Len(q))) = IF n + 1 <= Len(q) THEN Len(q) - (n + 1) + 1 ELSE 0
    BY <1>1, <2>1, SubSeqProperties
  <2> QED BY <1>1, <2>2
<1>4. SubSeq(q, 1, n) \o SubSeq(q, n + 1, Len(q)) = SubSeq(q, 1, Len(q))
  <2>1. 1 \in 1..Len(q) + 1 /\ n \in 1 - 1..Len(q) /\ Len(q) \in n..Len(q)
    BY <1>1
  <2> QED BY <2>1, ConcatAdjacentSubSeq
<1>5. SubSeq(q, 1, Len(q)) = q
  BY SubSeqFull
<1> QED BY <1>2, <1>3, <1>4, <1>5

\* A queue has no more members than places.
LEMMA SetFinite ==
    ASSUME NEW S, NEW q \in Seq(S)
    PROVE  IsFiniteSet(ToSet(q)) /\ Cardinality(ToSet(q)) <= Len(q)
<1> DEFINE N == Len(q)
           D == 1..N
<1>1. N \in Nat /\ DOMAIN q = D /\ q \in [D -> ToSet(q)]
  <2>1. N \in Nat /\ DOMAIN q = D /\ q \in [D -> S]
    BY LenProperties
  <2> QED BY <2>1 DEF ToSet
<1>2. IsFiniteSet(D) /\ Cardinality(D) = N
  BY <1>1, FS_Interval
<1>3. \A t \in ToSet(q) : \E d \in D : q[d] = t
  BY <1>1 DEF ToSet
<1> HIDE DEF D, N
<1>4. q \in Surjection(D, ToSet(q))
  BY <1>1, <1>3 DEF Surjection
<1>5. IsFiniteSet(ToSet(q)) /\ Cardinality(ToSet(q)) <= Cardinality(D)
  BY <1>2, <1>4, FS_Surjection
<1> QED BY <1>2, <1>5 DEF N

-----------------------------------------------------------------------------
(* What is kept of a queue *)

\* One member more, if it is kept.
KeepOne(r, e, keep) == IF e \in keep THEN Append(r, e) ELSE r

LEMMA KeepOneType ==
    ASSUME NEW S, NEW keep, NEW r \in Seq(S), NEW e \in S
    PROVE  KeepOne(r, e, keep) \in Seq(S)
BY AppendProperties DEF KeepOne

\* The recursion of Kept, written out.
KeepsOn(f, s, keep, S) ==
    /\ f \in [0..Len(s) -> Seq(S)] /\ f[0] = <<>>
    /\ \A n \in 1..Len(s) : f[n] = KeepOne(f[n - 1], s[n], keep)

\* The recursion of Kept has exactly one solution.
LEMMA KeptSteps ==
    ASSUME NEW S, NEW keep, NEW s \in Seq(S)
    PROVE  \E f : KeepsOn(f, s, keep, S) /\ Kept(s, keep) = f[Len(s)]
<1> DEFINE N == Len(s)
           Q == Seq(S)
           none == <<>>
           step == [n \in 1..N |-> [r \in Q |-> KeepOne(r, s[n], keep)]]
           kept[n \in 0..Len(s)] ==
               IF n = 0 THEN <<>>
               ELSE IF s[n] \in keep THEN Append(kept[n - 1], s[n]) ELSE kept[n - 1]
<1>1. N \in Nat /\ none \in Q /\ \A n \in 1..N : s[n] \in S
  BY LenProperties
<1>2. \A n \in 1..N : \A r \in Q : KeepOne(r, s[n], keep) \in Q
  BY <1>1, KeepOneType
<1> HIDE DEF N, Q, none
<1>3. step \in Steps(N, Q)
  BY <1>2 DEF Steps
<1>4. \A n \in 1..N : \A r \in Q : step[n][r] = KeepOne(r, s[n], keep)
  OBVIOUS
<1> HIDE DEF step
<1>5. PICK f : Follows(f, N, Q, none, step)
  BY <1>1, <1>3, Recursion
<1>6. f \in [0..N -> Q] /\ f[0] = none /\ \A n \in 1..N : f[n] = KeepOne(f[n - 1], s[n], keep)
  <2>1. \A n \in 1..N : n - 1 \in 0..N
    BY <1>1
  <2> QED BY <1>4, <1>5, <2>1 DEF Follows
<1>7. f = [n \in 0..N |-> IF n = 0 THEN none ELSE KeepOne(f[n - 1], s[n], keep)]
  <2>1. \A n \in 0..N : f[n] = IF n = 0 THEN none ELSE KeepOne(f[n - 1], s[n], keep)
    BY <1>1, <1>6
  <2> QED BY <1>6, <2>1
<1>8. kept = [n \in 0..N |-> IF n = 0 THEN none ELSE KeepOne(kept[n - 1], s[n], keep)]
  BY <1>7, Zenon DEF N, KeepOne, none
<1>9. Kept(s, keep) = kept[N]
  BY DEF Kept, N
<1> HIDE DEF kept
<1>10. kept[0] = f[0] /\ \A k \in 1..N : kept[k] = KeepOne(kept[k - 1], s[k], keep)
  BY <1>1, <1>6, <1>8
<1>11. \A k \in 0..N : kept[k] = f[k]
  <2>1. InStep(kept, f, N)
    BY <1>6, <1>10 DEF InStep
  <2> QED BY <1>1, <2>1, SameSteps
<1>12. Kept(s, keep) = f[N]
  BY <1>1, <1>9, <1>11
<1> QED BY <1>6, <1>12 DEF N, Q, none, KeepsOn

\* What is kept of a queue with one more member.
LEMMA KeptAppend ==
    ASSUME NEW S, NEW keep, NEW q \in Seq(S), NEW e \in S
    PROVE  /\ Kept(q, keep) \in Seq(S)
           /\ Kept(Append(q, e), keep) = KeepOne(Kept(q, keep), e, keep)
<1> DEFINE N == Len(q)
           t == Append(q, e)
<1>1. /\ N \in Nat /\ t \in Seq(S) /\ Len(t) = N + 1 /\ t[N + 1] = e
      /\ \A n \in 1..N : t[n] = q[n]
  BY AppendProperties, LenProperties
<1>2. PICK f : KeepsOn(f, q, keep, S) /\ Kept(q, keep) = f[Len(q)]
  BY KeptSteps
<1> HIDE DEF t
<1>3. PICK g : KeepsOn(g, t, keep, S) /\ Kept(t, keep) = g[Len(t)]
  BY <1>1, KeptSteps
<1>4. /\ f[0] = g[0] /\ f[N] \in Seq(S)
      /\ \A k \in 1..N : f[k] = KeepOne(f[k - 1], q[k], keep)
  BY <1>1, <1>2, <1>3 DEF KeepsOn
<1>5. \A k \in 1..N + 1 : g[k] = KeepOne(g[k - 1], t[k], keep)
  BY <1>1, <1>3 DEF KeepsOn
<1> HIDE DEF N
<1>6. InStep(f, g, N)
  BY <1>1, <1>4, <1>5 DEF InStep
<1>7. f[N] = g[N]
  <2>1. N \in Nat
    BY <1>1
  <2>2. \A k \in 0..N : f[k] = g[k]
    BY <1>6, <2>1, SameSteps
  <2> QED BY <2>1, <2>2
<1>8. g[N + 1] = KeepOne(g[N], e, keep)
  BY <1>1, <1>5
<1> QED BY <1>1, <1>2, <1>3, <1>4, <1>7, <1>8 DEF t, N

LEMMA KeptNothing ==
    ASSUME NEW keep
    PROVE  Kept(<<>>, keep) = <<>>
<1> DEFINE s == <<>>
<1>1. s \in Seq({}) /\ Len(s) = 0
  OBVIOUS
<1> HIDE DEF s
<1>2. PICK f : KeepsOn(f, s, keep, {}) /\ Kept(s, keep) = f[Len(s)]
  BY <1>1, KeptSteps
<1> QED BY <1>1, <1>2 DEF s, KeepsOn

\* Kept keeps the members that are in the set, and no member twice that was there once.
LEMMA KeptIs ==
    ASSUME NEW S, NEW keep, NEW q \in Seq(S)
    PROVE  /\ Kept(q, keep) \in Seq(S) /\ Len(Kept(q, keep)) <= Len(q)
           /\ ToSet(Kept(q, keep)) = ToSet(q) \cap keep
           /\ IsInjective(q) => IsInjective(Kept(q, keep))
<1> DEFINE Good(s) == /\ Kept(s, keep) \in Seq(S) /\ Len(Kept(s, keep)) <= Len(s)
                      /\ ToSet(Kept(s, keep)) = ToSet(s) \cap keep
                      /\ IsInjective(s) => IsInjective(Kept(s, keep))
           T == {s \in Seq(S) : Good(s)}
<1>1. <<>> \in T
  <2>1. Kept(<<>>, keep) = <<>>
    BY KeptNothing
  <2>2. <<>> \in Seq(S) /\ Len(<<>>) <= Len(<<>>) /\ ToSet(<<>>) = ToSet(<<>>) \cap keep
    BY EmptySet
  <2> QED BY <2>1, <2>2
<1>2. ASSUME NEW s \in Seq(S), NEW e \in S, s \in T PROVE Append(s, e) \in T
  <2> DEFINE k == Kept(s, keep)
  <2>1. /\ k \in Seq(S) /\ Len(k) <= Len(s) /\ ToSet(k) = ToSet(s) \cap keep
        /\ IsInjective(s) => IsInjective(k) 
    BY <1>2
  <2>2. Kept(Append(s, e), keep) = KeepOne(k, e, keep)
    BY KeptAppend
  <2>3. Len(k) \in Nat /\ Len(s) \in Nat
    BY <2>1, LenProperties
  <2> HIDE DEF k
  <2>4. Good(Append(s, e))
    BY <2>1, <2>2, <2>3, AppendSet DEF KeepOne
  <2> QED BY <2>4, AppendSet
<1>3. q \in T
  <2> HIDE DEF T
  <2> QED BY <1>1, <1>2, SequenceInduction
<1> QED BY <1>3

\* A queue without a key: the key is gone, and nothing else.
LEMMA WithoutIs ==
    ASSUME NEW S, NEW key, NEW q \in Seq(S), IsInjective(q)
    PROVE  /\ Without(q, key) \in Seq(S) /\ IsInjective(Without(q, key))
           /\ ToSet(Without(q, key)) = ToSet(q) \ {key}
           /\ key \in ToSet(q) => Len(Without(q, key)) + 1 = Len(q)
           /\ key \notin ToSet(q) => Without(q, key) = q
<1> DEFINE keep == ToSet(q) \ {key}
           Good(s) == IsInjective(s) /\ ToSet(s) \subseteq keep \cup {key} =>
                          IF key \in ToSet(s) THEN Len(Kept(s, keep)) + 1 = Len(s)
                          ELSE Kept(s, keep) = s
           T == {s \in Seq(S) : Good(s)}
<1> HIDE DEF keep
<1>0. key \notin keep
  BY DEF keep
<1>1. <<>> \in T
  <2>1. Good(<<>>)
    BY KeptNothing, EmptySet
  <2> QED BY <2>1
<1>2. ASSUME NEW s \in Seq(S), NEW e \in S, s \in T PROVE Append(s, e) \in T
  <2> DEFINE k == Kept(s, keep)
  <2>1. k \in Seq(S) /\ Good(s) /\ Kept(Append(s, e), keep) = KeepOne(k, e, keep)
    BY <1>2, KeptAppend
  <2>2. Len(k) \in Nat /\ Len(s) \in Nat /\ Len(Append(s, e)) = Len(s) + 1
    BY <2>1, LenProperties, AppendSet
  <2>3. e \in keep => Len(Append(k, e)) = Len(k) + 1
    BY <2>1, AppendSet
  <2> HIDE DEF k
  <2> SUFFICES ASSUME IsInjective(Append(s, e)), ToSet(Append(s, e)) \subseteq keep \cup {key}
               PROVE  IF key \in ToSet(Append(s, e))
                      THEN Len(Kept(Append(s, e), keep)) + 1 = Len(Append(s, e))
                      ELSE Kept(Append(s, e), keep) = Append(s, e)
    BY AppendSet
  <2>4. /\ IsInjective(s) /\ e \notin ToSet(s) /\ ToSet(Append(s, e)) = ToSet(s) \cup {e}
        /\ ToSet(s) \subseteq keep \cup {key}
    BY AppendSet
  <2>5. CASE e = key
    <3>1. Kept(Append(s, e), keep) = s
      BY <1>0, <2>1, <2>4, <2>5 DEF KeepOne, k
    <3> QED BY <2>2, <2>4, <2>5, <3>1
  <2>6. CASE e # key
    <3>1. e \in keep /\ Kept(Append(s, e), keep) = Append(k, e)
      BY <2>1, <2>4, <2>6 DEF KeepOne
    <3>2. CASE key \in ToSet(s)
      BY <2>1, <2>2, <2>3, <2>4, <3>1, <3>2 DEF k
    <3>3. CASE key \notin ToSet(s)
      BY <2>1, <2>4, <2>6, <3>1, <3>3 DEF k
    <3> QED BY <3>2, <3>3
  <2> QED BY <2>5, <2>6
<1>3. q \in T
  <2> HIDE DEF T
  <2> QED BY <1>1, <1>2, SequenceInduction
<1>4. IF key \in ToSet(q) THEN Len(Without(q, key)) + 1 = Len(q) ELSE Without(q, key) = q
  BY <1>3 DEF keep, Without
<1> QED BY <1>4, KeptIs DEF Without

-----------------------------------------------------------------------------
(* Touching and inserting *)

LEMMA HoldsIs ==
    ASSUME NEW cache, NEW key
    PROVE  Holds(cache, key) <=> key \in ToSet(cache)
BY DEF Holds, ToSet

\* A key that is touched comes last, and the queue lists the same keys.
LEMMA TouchIs ==
    ASSUME NEW S, NEW key \in S, NEW q \in Seq(S), IsInjective(q)
    PROVE  /\ Touch(q, key) \in Seq(S) /\ IsInjective(Touch(q, key))
           /\ ToSet(Touch(q, key)) = ToSet(q) \cup {key}
           /\ key \in ToSet(q) => Len(Touch(q, key)) = Len(q)
<1>1. /\ Without(q, key) \in Seq(S) /\ IsInjective(Without(q, key))
      /\ ToSet(Without(q, key)) = ToSet(q) \ {key}
      /\ key \in ToSet(q) => Len(Without(q, key)) + 1 = Len(q)
  BY WithoutIs
<1>2. Len(Without(q, key)) \in Nat
  BY <1>1, LenProperties
<1> QED BY <1>1, <1>2, AppendSet DEF Touch

\* What every insertion keeps, a list of them keeps.
LEMMA InsertAllIn ==
    ASSUME NEW K, NEW keys \in Seq(K), NEW S, NEW cache \in S, NEW capacity,
           \A q \in S : \A k \in K : Insert(q, k, capacity) \in S
    PROVE  InsertAll(cache, keys, capacity) \in S
<1> DEFINE N == Len(keys)
           step == [n \in 1..N |-> [q \in S |-> Insert(q, keys[n], capacity)]]
           after[n \in 0..Len(keys)] ==
               IF n = 0 THEN cache ELSE Insert(after[n - 1], keys[n], capacity)
<1>1. N \in Nat /\ \A n \in 1..N : keys[n] \in K
  BY LenProperties
<1> HIDE DEF N
<1>2. step \in Steps(N, S)
  BY <1>1 DEF Steps
<1>3. \A n \in 1..N : \A q \in S : step[n][q] = Insert(q, keys[n], capacity)
  OBVIOUS
<1> HIDE DEF step
<1>4. PICK f : Follows(f, N, S, cache, step)
  BY <1>1, <1>2, Recursion
<1>5. /\ f \in [0..N -> S] /\ f[0] = cache
      /\ \A n \in 1..N : f[n] = Insert(f[n - 1], keys[n], capacity)
  <2>1. \A n \in 1..N : n - 1 \in 0..N
    BY <1>1
  <2> QED BY <1>3, <1>4, <2>1 DEF Follows
<1>6. f = [n \in 0..N |-> IF n = 0 THEN cache ELSE Insert(f[n - 1], keys[n], capacity)]
  <2>1. \A n \in 0..N : f[n] = IF n = 0 THEN cache ELSE Insert(f[n - 1], keys[n], capacity)
    BY <1>1, <1>5
  <2> QED BY <1>5, <2>1
<1>7. after = [n \in 0..N |-> IF n = 0 THEN cache ELSE Insert(after[n - 1], keys[n], capacity)]
  BY <1>6, Zenon DEF N
<1>8. InsertAll(cache, keys, capacity) = after[N]
  BY DEF InsertAll, N
<1> HIDE DEF after
<1>9. after[0] = f[0] /\ \A k \in 1..N : after[k] = Insert(after[k - 1], keys[k], capacity)
  BY <1>1, <1>5, <1>7
<1>10. after[N] = f[N]
  <2>1. InStep(after, f, N)
    BY <1>5, <1>9 DEF InStep
  <2>2. \A k \in 0..N : after[k] = f[k]
    BY <1>1, <2>1, SameSteps
  <2> QED BY <1>1, <2>2
<1> QED BY <1>1, <1>5, <1>8, <1>10
=============================================================================
