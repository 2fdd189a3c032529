-------------------------- MODULE CommitGraphProofs --------------------------
(***************************************************************************)
(* Proofs about CommitGraph, for histories of any length, any part of them *)
(* loaded and any main tip: its types, that the main line keeps lane 0,    *)
(* that lines are continuous, and where they lead.                         *)
(***************************************************************************)
EXTENDS CommitGraph, WellFoundedInduction, TLAPS

-----------------------------------------------------------------------------
(* Numbers *)

\* A set of natural numbers with a member has a least one.
LEMMA LeastNatural ==
    ASSUME NEW T \in SUBSET Nat, T # {}
    PROVE  \E m \in T : \A n \in T : m <= n
<1>1. PICK m \in T : \A n \in T : ~(<<n, m>> \in OpToRel(<, Nat))
  BY NatLessThanWellFounded, WFMin, Zenon
<1>2. ASSUME NEW n \in T PROVE m <= n
  <2>1. ~(n < m)
    BY <1>1 DEF OpToRel
  <2> QED BY <2>1
<1> QED BY <1>2

LEMMA MinIs ==
    ASSUME NEW T \in SUBSET Nat, T # {}
    PROVE  Min(T) \in T /\ \A n \in T : Min(T) <= n
<1>1. \E m \in T : \A n \in T : m <= n
  BY LeastNatural
<1> QED BY <1>1 DEF Min

\* Counting up to N by ones reaches every number up to N, and so does counting down.
LEMMA CountUp ==
    ASSUME NEW N \in Nat, NEW T, 0 \in T, \A k \in 1..N : k - 1 \in T => k \in T
    PROVE  0..N \subseteq T
<1> DEFINE rest == {k \in 0..N : k \notin T}
<1>1. CASE rest = {}
  BY <1>1
<1>2. CASE rest # {}
  <2>1. PICK m \in rest : \A n \in rest : m <= n
    <3>1. rest \in SUBSET Nat
      OBVIOUS
    <3> QED BY <1>2, <3>1, LeastNatural
  <2>2. m \in 1..N /\ m - 1 \in 0..N /\ ~(m <= m - 1)
    BY <2>1
  <2>3. m - 1 \in T
    BY <2>1, <2>2
  <2> QED BY <2>1, <2>2, <2>3
<1> QED BY <1>1, <1>2

LEMMA MaxIs ==
    ASSUME NEW N \in Nat, NEW T \in SUBSET (0..N), T # {}
    PROVE  Max(T) \in T /\ \A n \in T : n <= Max(T)
<1> DEFINE mirror == {N - n : n \in T}
<1>1. mirror \in SUBSET Nat /\ mirror # {}
  <2>1. \A n \in T : N - n \in Nat
    OBVIOUS
  <2> QED BY <2>1
<1>2. PICK k \in mirror : \A n \in mirror : k <= n
  BY <1>1, LeastNatural
<1>3. PICK m \in T : k = N - m
  BY <1>2
<1>4. \A n \in T : m >= n
  <2> TAKE n \in T
  <2>1. N - n \in mirror /\ m \in Nat /\ n \in Nat
    OBVIOUS
  <2>2. N - m <= N - n
    BY <1>2, <1>3, <2>1
  <2> QED BY <2>1, <2>2
<1>5. Max(T) \in T /\ \A n \in T : Max(T) >= n
  BY <1>3, <1>4 DEF Max
<1> QED BY <1>5

-----------------------------------------------------------------------------
(* Lanes *)

Slot == Oid \cup {None}
Lanes == Seq(Slot)
Busy(ls) == {l \in DOMAIN ls : ls[l] # None}

LEMMA OidIsNat == Oid \subseteq Nat \ {0} /\ None \notin Oid /\ Slot \subseteq Nat
BY CommitsAssumption DEF Oid, None, Slot

\* A lane that nothing waits in and a lane that was never opened are the same.
LEMMA AtIs ==
    ASSUME NEW ls \in Lanes, NEW l \in Nat \ {0}
    PROVE  /\ At(ls, l) \in Slot
           /\ l \in Busy(ls) <=> At(ls, l) # None
           /\ l \in DOMAIN ls => At(ls, l) = ls[l]
           /\ l \in Busy(ls) => l \in 1..Len(ls)
BY DEF Lanes, At, Busy, Slot

LEMMA PutIs ==
    ASSUME NEW ls \in Lanes, NEW l \in Nat \ {0}, NEW c \in Slot
    PROVE  /\ Put(ls, l, c) \in Lanes
           /\ Len(Put(ls, l, c)) = IF l > Len(ls) THEN l ELSE Len(ls)
           /\ At(Put(ls, l, c), l) = c
           /\ \A k \in Nat \ {0, l} : At(Put(ls, l, c), k) = At(ls, k)
<1> DEFINE n == IF l > Len(ls) THEN l ELSE Len(ls)
           new == [k \in 1..n |-> IF k = l THEN c ELSE At(ls, k)]
<1>1. n \in Nat /\ Len(ls) \in Nat /\ l \in 1..n /\ Len(ls) <= n
  BY DEF Lanes
<1>2. \A k \in 1..n : At(ls, k) \in Slot
  BY <1>1, AtIs
<1>3. Put(ls, l, c) = new
  BY DEF Put
<1> HIDE DEF n
<1>4. new \in [1..n -> Slot]
  BY <1>2
<1>5. new \in Seq(Slot) /\ DOMAIN new = 1..n
  BY <1>1, <1>4
<1>6. Len(new) = n
  BY <1>1, <1>5
<1>7. At(new, l) = c
  BY <1>1, <1>5 DEF At
<1>8. ASSUME NEW k \in Nat \ {0, l} PROVE At(new, k) = At(ls, k)
  <2>1. CASE k \in 1..n
    BY <1>5, <2>1 DEF At
  <2>2. CASE k \notin 1..n
    <3>1. k \notin DOMAIN ls
      BY <1>1, <2>2 DEF Lanes
    <3> QED BY <1>5, <2>2, <3>1 DEF At
  <2> QED BY <2>1, <2>2
<1> HIDE DEF new
<1> QED BY <1>3, <1>5, <1>6, <1>7, <1>8 DEF Lanes, n

LEMMA FirstIs ==
    ASSUME NEW found \in SUBSET (Nat \ {0})
    PROVE  /\ First(found) = None => found = {}
           /\ First(found) # None => First(found) \in found
           /\ First(found) \in Nat
<1>1. CASE found = {}
  BY <1>1 DEF First, None
<1>2. CASE found # {}
  <2>1. Min(found) \in found
    BY <1>2, MinIs
  <2> QED BY <1>2, <2>1 DEF First, None
<1> QED BY <1>1, <1>2

\* alloc_lane: a free lane, not the one to skip, and at most one is added; two where
\* the first would be the one to skip.
LEMMA AllocLaneIs ==
    ASSUME NEW ls \in Lanes, NEW skip \in {{}, {1}}
    PROVE  LET l == AllocLane(ls, skip)
           IN  /\ l \in Nat \ {0} /\ l \notin skip /\ At(ls, l) = None
               /\ l <= Len(ls) + 1 \/ l = 2
               /\ skip = {} => l <= Len(ls) + 1
<1> DEFINE free == {l \in 1..Len(ls) + 2 : l \notin skip /\ At(ls, l) = None}
<1>1. Len(ls) \in Nat /\ DOMAIN ls = 1..Len(ls)
  BY DEF Lanes
<1>2. \A l \in {Len(ls) + 1, Len(ls) + 2} : At(ls, l) = None
  BY <1>1 DEF At
<1>3. /\ Len(ls) + 1 \in free \/ (Len(ls) = 0 /\ 2 \in free)
      /\ skip = {} => Len(ls) + 1 \in free
  <2>1. CASE skip = {}
    BY <1>1, <1>2, <2>1
  <2>2. CASE skip = {1}
    <3>1. CASE Len(ls) = 0
      BY <1>1, <1>2, <2>2, <3>1
    <3>2. CASE Len(ls) # 0
      <4>1. Len(ls) + 1 \in 1..Len(ls) + 2 /\ Len(ls) + 1 \notin skip
        BY <1>1, <2>2, <3>2
      <4>2. Len(ls) + 1 \in free
        BY <1>2, <4>1
      <4> QED BY <2>2, <4>2
    <3> QED BY <3>1, <3>2
  <2> QED BY <2>1, <2>2
<1>4. free \in SUBSET Nat /\ free # {}
  BY <1>1, <1>3
<1>5. Min(free) \in free /\ \A n \in free : Min(free) <= n
  BY <1>4, MinIs
<1>6. AllocLane(ls, skip) = Min(free)
  BY DEF AllocLane
<1>7. Min(free) <= Len(ls) + 1 \/ Min(free) <= 2
  BY <1>3, <1>5
<1> HIDE DEF free
<1>8. Min(free) \in Nat \ {0} /\ Min(free) \notin skip /\ At(ls, Min(free)) = None
  BY <1>1, <1>5 DEF free
<1>9. Min(free) <= Len(ls) + 1 \/ Min(free) = 2
  <2>1. CASE Min(free) <= 2
    <3>1. Min(free) = 2 \/ Min(free) = 1
      BY <1>8, <2>1
    <3> QED BY <1>1, <3>1
  <2> QED BY <1>7, <2>1
<1> QED BY <1>1, <1>3, <1>5, <1>6, <1>8, <1>9

-----------------------------------------------------------------------------
(* Where a commit goes *)

\* The first lane that waits for a commit, and the first that waits for it or for a
\* descendant: a busy lane, and where there is one of the first kind there is one of the
\* second.
LEMMA ExactAndKin ==
    ASSUME NEW ls \in Lanes, NEW c \in Oid, NEW skip \in {{}, {1}}
    PROVE  /\ ExactLane(c, ls, skip) # None
                 => /\ ExactLane(c, ls, skip) \in Busy(ls) \ skip
                    /\ At(ls, ExactLane(c, ls, skip)) = c
           /\ KinLane(c, ls, skip) # None
                 => /\ KinLane(c, ls, skip) \in Busy(ls) \ skip
                    /\ IsAncestor(c, At(ls, KinLane(c, ls, skip)))
           /\ ExactLane(c, ls, skip) # None => KinLane(c, ls, skip) # None
<1> DEFINE exact == {l \in DOMAIN ls \ skip : ls[l] = c}
           kin == {l \in DOMAIN ls \ skip : IsAncestor(c, ls[l])}
<1>1. DOMAIN ls \in SUBSET (Nat \ {0})
  BY DEF Lanes
<1>2. exact \in SUBSET (Nat \ {0}) /\ kin \in SUBSET (Nat \ {0}) /\ exact \subseteq kin
  BY <1>1 DEF IsAncestor
<1>3. c # None
  BY OidIsNat
<1>4. kin \subseteq Busy(ls) \ skip
  BY <1>3 DEF Busy, IsAncestor
<1>5. ExactLane(c, ls, skip) = First(exact) /\ KinLane(c, ls, skip) = First(kin)
  BY DEF ExactLane, KinLane
<1>6. /\ First(exact) # None => First(exact) \in exact
      /\ First(kin) # None => First(kin) \in kin
      /\ First(kin) = None => kin = {}
  <2> HIDE DEF exact, kin
  <2> QED BY <1>2, FirstIs
<1>7. \A l \in exact : l \in Busy(ls) \ skip /\ At(ls, l) = c
  BY <1>2, <1>4 DEF At
<1>8. \A l \in kin : IsAncestor(c, At(ls, l))
  BY DEF At
<1> HIDE DEF exact, kin
<1> QED BY <1>2, <1>4, <1>5, <1>6, <1>7, <1>8

\* What find_lane and the main line's rule agree on: the commit is in its lane, the other
\* lanes are as they were, and there is a line from above if the lane was waiting.
Placed(c, ls, p) ==
    /\ p.lane \in Nat \ {0} /\ p.lanes \in Lanes /\ p.lane \in DOMAIN p.lanes
    /\ At(p.lanes, p.lane) = c
    /\ \A k \in Nat \ {0, p.lane} : At(p.lanes, k) = At(ls, k)
    /\ p.incoming \in BOOLEAN /\ (p.incoming <=> At(ls, p.lane) # None)
    /\ Len(p.lanes) >= Len(ls)
    /\ Len(p.lanes) <= Len(ls) + 1 \/ Len(p.lanes) <= 2

LEMMA PutPlaces ==
    ASSUME NEW ls \in Lanes, NEW c \in Oid, NEW l \in Nat \ {0},
           l <= Len(ls) + 1 \/ l <= 2,
           NEW incoming \in BOOLEAN, incoming <=> At(ls, l) # None
    PROVE  Placed(c, ls, [lane |-> l, lanes |-> Put(ls, l, c), incoming |-> incoming])
<1> DEFINE new == Put(ls, l, c)
<1>1. c \in Slot /\ Len(ls) \in Nat
  BY DEF Slot, Lanes
<1>2. /\ new \in Lanes /\ Len(new) = IF l > Len(ls) THEN l ELSE Len(ls)
      /\ At(new, l) = c /\ \A k \in Nat \ {0, l} : At(new, k) = At(ls, k)
  BY <1>1, PutIs
<1> HIDE DEF new
<1>3. l \in 1..Len(new) /\ Len(new) >= Len(ls) /\ (Len(new) <= Len(ls) + 1 \/ Len(new) <= 2)
  BY <1>1, <1>2
<1>4. DOMAIN new = 1..Len(new)
  BY <1>2 DEF Lanes
<1> DEFINE p == [lane |-> l, lanes |-> new, incoming |-> incoming]
<1>5. p.lane = l /\ p.lanes = new /\ p.incoming = incoming
  OBVIOUS
<1> HIDE DEF p
<1>6. Placed(c, ls, p)
  BY <1>2, <1>3, <1>4, <1>5 DEF Placed
<1> QED BY <1>6 DEF p, new

LEMMA FindLaneIs ==
    ASSUME NEW ls \in Lanes, NEW c \in Oid, NEW skip \in {{}, {1}}
    PROVE  LET lane == FindLane(c, ls, skip).lane
           IN  /\ Placed(c, ls, FindLane(c, ls, skip)) /\ lane \notin skip
               /\ At(ls, lane) # None => IsAncestor(c, At(ls, lane))
<1> DEFINE exact == ExactLane(c, ls, skip)
           kin == KinLane(c, ls, skip)
           free == AllocLane(ls, skip)
           lane == IF exact # None THEN exact ELSE IF kin # None THEN kin ELSE free
<1>1. FindLane(c, ls, skip) =
          [lane |-> lane, lanes |-> Put(ls, lane, c), incoming |-> kin # None]
  BY DEF FindLane
<1>2. /\ exact # None => exact \in Busy(ls) \ skip /\ At(ls, exact) = c /\ kin # None
      /\ kin # None => kin \in Busy(ls) \ skip /\ IsAncestor(c, At(ls, kin))
  BY ExactAndKin
<1>3. /\ free \in Nat \ {0} /\ free \notin skip /\ At(ls, free) = None
      /\ free <= Len(ls) + 1 \/ free = 2
  BY AllocLaneIs
<1>4. \A l \in Busy(ls) : l \in Nat \ {0} /\ l <= Len(ls) /\ At(ls, l) # None
  BY DEF Busy, Lanes, At
<1> HIDE DEF exact, kin, free
<1>5. /\ lane \in Nat \ {0} /\ lane \notin skip /\ (kin # None <=> At(ls, lane) # None)
  BY <1>2, <1>3, <1>4
<1>6. lane <= Len(ls) + 1 \/ lane <= 2
  <2>1. Len(ls) \in Nat
    BY DEF Lanes
  <2> QED BY <1>2, <1>3, <1>4, <2>1
<1>m. At(ls, lane) # None => IsAncestor(c, At(ls, lane))
  <2>1. IsAncestor(c, c)
    BY DEF IsAncestor
  <2> QED BY <1>2, <1>3, <2>1
<1> HIDE DEF lane
<1>7. Placed(c, ls, [lane |-> lane, lanes |-> Put(ls, lane, c), incoming |-> kin # None])
  <2> DEFINE incoming == kin # None
  <2>1. incoming \in BOOLEAN /\ (incoming <=> At(ls, lane) # None)
    BY <1>5
  <2> HIDE DEF incoming
  <2>2. Placed(c, ls, [lane |-> lane, lanes |-> Put(ls, lane, c), incoming |-> incoming])
    BY <1>5, <1>6, <2>1, PutPlaces
  <2> QED BY <2>2 DEF incoming
<1>8. FindLane(c, ls, skip).lane = lane
  BY <1>1
<1> QED BY <1>1, <1>5, <1>7, <1>8, <1>m

\* A commit off the main line is never put on lane 0, and one on the main line is where
\* lane 0 is free or waits for the main line. The lane waited for a descendant, or on
\* the main line for it.
LEMMA PlaceIs ==
    ASSUME NEW ls \in Lanes, NEW c \in Oid
    PROVE  /\ Placed(c, ls, Place(c, ls))
           /\ c \notin chain => Place(c, ls).lane # 1
           /\ c \in chain /\ At(ls, 1) \in chain \cup {None} => Place(c, ls).lane = 1
           /\ At(ls, Place(c, ls).lane) # None
                 => \/ IsAncestor(c, At(ls, Place(c, ls).lane))
                    \/ Place(c, ls).lane = 1 /\ {c, At(ls, 1)} \subseteq chain
<1> DEFINE first == At(ls, 1)
<1>1. CASE c \notin chain
  BY <1>1, FindLaneIs DEF Place
<1>2. CASE c \in chain /\ (first = None \/ IsAncestor(c, first) \/ first \in chain)
  <2>1. Place(c, ls) = [lane |-> 1, lanes |-> Put(ls, 1, c), incoming |-> first # None]
    BY <1>2 DEF Place
  <2>2. 1 \in Nat \ {0} /\ 1 <= 2
    OBVIOUS
  <2> DEFINE incoming == first # None
  <2>3. incoming \in BOOLEAN /\ (incoming <=> At(ls, 1) # None)
    OBVIOUS
  <2> HIDE DEF incoming
  <2>4. Placed(c, ls, [lane |-> 1, lanes |-> Put(ls, 1, c), incoming |-> incoming])
    BY <2>2, <2>3, PutPlaces
  <2>5. Place(c, ls).lane = 1
    BY <2>1
  <2> QED BY <1>2, <2>1, <2>4, <2>5 DEF incoming
<1>3. CASE c \in chain /\ ~(first = None \/ IsAncestor(c, first) \/ first \in chain)
  <2>1. Place(c, ls) = FindLane(c, ls, {})
    BY <1>3 DEF Place
  <2> QED BY <1>3, <2>1, FindLaneIs
<1> QED BY <1>1, <1>2, <1>3

\* The lanes once everything that waited for the commit has met it.
Left(c, ls) == [l \in DOMAIN ls |-> IF ls[l] = c THEN None ELSE ls[l]]

LEMMA LeftIs ==
    ASSUME NEW ls \in Lanes, NEW c \in Oid
    PROVE  /\ Left(c, ls) \in Lanes /\ Len(Left(c, ls)) = Len(ls)
           /\ \A k \in Nat \ {0} :
                 At(Left(c, ls), k) = IF At(ls, k) = c THEN None ELSE At(ls, k)
<1>1. Len(ls) \in Nat /\ DOMAIN ls = 1..Len(ls) /\ \A l \in 1..Len(ls) : ls[l] \in Slot
  BY DEF Lanes
<1>2. Left(c, ls) \in [1..Len(ls) -> Slot]
  BY <1>1 DEF Left, Slot
<1>3. Left(c, ls) \in Seq(Slot) /\ Len(Left(c, ls)) = Len(ls)
  BY <1>1, <1>2
<1>4. c # None
  BY OidIsNat
<1> QED BY <1>1, <1>3, <1>4 DEF At, Left, Lanes

\* Dropping the free lanes at the end loses nothing that waits.
LEMMA TrimmedIs ==
    ASSUME NEW ls \in Lanes
    PROVE  /\ Trimmed(ls) \in Lanes /\ Len(Trimmed(ls)) <= Len(ls)
           /\ \A k \in Nat \ {0} : At(Trimmed(ls), k) = At(ls, k)
<1> DEFINE used == {0} \union {l \in DOMAIN ls : ls[l] # None}
           n == Max(used)
<1>1. Len(ls) \in Nat /\ DOMAIN ls = 1..Len(ls)
  BY DEF Lanes
<1>2. used \in SUBSET (0..Len(ls)) /\ used # {}
  BY <1>1
<1>3. n \in used /\ \A l \in used : l <= n
  <2> HIDE DEF used
  <2> QED BY <1>1, <1>2, MaxIs
<1>4. n \in 0..Len(ls)
  BY <1>2, <1>3
<1>5. Trimmed(ls) = SubSeq(ls, 1, n)
  BY DEF Trimmed
<1> HIDE DEF n
<1>6. /\ SubSeq(ls, 1, n) \in Seq(Slot) /\ Len(SubSeq(ls, 1, n)) = n
      /\ \A l \in 1..n : SubSeq(ls, 1, n)[l] = ls[l]
  <2>1. CASE n = 0
    BY <1>1, <2>1 DEF Lanes
  <2>2. CASE n # 0
    <3>1. 1 \in 1..Len(ls) /\ n \in 1..Len(ls)
      BY <1>1, <1>4, <2>2
    <3> QED BY <1>1, <3>1 DEF Lanes
  <2> QED BY <2>1, <2>2
<1>7. ASSUME NEW k \in Nat \ {0} PROVE At(SubSeq(ls, 1, n), k) = At(ls, k)
  <2>1. CASE k \in 1..n
    BY <1>1, <1>4, <1>6, <2>1 DEF At
  <2>2. CASE k \notin 1..n
    <3>1. ~(k <= n)
      BY <1>4, <2>2
    <3>2. At(ls, k) = None
      BY <1>3, <3>1 DEF At
    <3>3. k \notin DOMAIN SubSeq(ls, 1, n)
      BY <1>4, <1>6, <2>2
    <3> QED BY <3>2, <3>3 DEF At
  <2> QED BY <2>1, <2>2
<1> QED BY <1>1, <1>4, <1>5, <1>6, <1>7 DEF Lanes

-----------------------------------------------------------------------------
(* The lines to the parents *)

\* The line to a parent is drawn: its lane waits for the parent or a descendant, and for
\* the parent where it is new or the commit's own lane was free; no lane that waited is
\* disturbed, and at most one lane is added, none where the commit's own lane is free.
Opens(node, p, ls, one) ==
    /\ one.lanes \in Lanes /\ one.to \in Busy(one.lanes)
    /\ IsAncestor(p, At(one.lanes, one.to))
    /\ At(ls, node) = None \/ one.to \notin Busy(ls) => At(one.lanes, one.to) = p
    /\ Busy(one.lanes) = Busy(ls) \cup {one.to}
    /\ \A k \in Busy(ls) : At(one.lanes, k) = At(ls, k)
    /\ Len(ls) <= Len(one.lanes) /\ Len(one.lanes) <= Len(ls) + 1
    /\ At(ls, node) = None => Len(one.lanes) = Len(ls)

LEMMA JoinOpens ==
    ASSUME NEW ls \in Lanes, NEW l \in Busy(ls), NEW node, NEW p,
           IsAncestor(p, At(ls, l)), At(ls, node) = None => At(ls, l) = p
    PROVE  Opens(node, p, ls, [to |-> l, lanes |-> ls])
<1>1. Len(ls) \in Nat
  BY DEF Lanes
<1>2. Busy(ls) = Busy(ls) \cup {l}
  OBVIOUS
<1> DEFINE one == [to |-> l, lanes |-> ls]
<1>3. one.to = l /\ one.lanes = ls
  OBVIOUS
<1> HIDE DEF one
<1>4. Opens(node, p, ls, one)
  BY <1>1, <1>2, <1>3 DEF Opens
<1> QED BY <1>4 DEF one

LEMMA PutOpens ==
    ASSUME NEW ls \in Lanes, NEW p \in Oid, NEW l \in Nat \ {0}, At(ls, l) \in {None, p},
           l <= Len(ls) + 1, NEW node, At(ls, node) = None => l <= Len(ls)
    PROVE  Opens(node, p, ls, [to |-> l, lanes |-> Put(ls, l, p)])
<1> DEFINE new == Put(ls, l, p)
<1>1. Len(ls) \in Nat /\ p \in Slot /\ p # None
  BY OidIsNat DEF Lanes, Slot
<1>2. /\ new \in Lanes /\ Len(new) = IF l > Len(ls) THEN l ELSE Len(ls)
      /\ At(new, l) = p /\ \A k \in Nat \ {0, l} : At(new, k) = At(ls, k)
  BY <1>1, PutIs
<1> HIDE DEF new
<1>3. \A k \in Nat \ {0} : /\ k \in Busy(new) <=> At(new, k) # None
                           /\ k \in Busy(ls) <=> At(ls, k) # None
  BY <1>2, AtIs
<1>4. Busy(new) \subseteq Nat \ {0} /\ Busy(ls) \subseteq Nat \ {0}
  BY <1>2 DEF Busy, Lanes
<1>5. Busy(new) = Busy(ls) \cup {l}
  BY <1>1, <1>2, <1>3, <1>4
<1>6. \A k \in Busy(ls) : At(new, k) = At(ls, k)
  BY <1>2, <1>3, <1>4
<1> DEFINE one == [to |-> l, lanes |-> new]
<1>7. one.to = l /\ one.lanes = new
  OBVIOUS
<1> HIDE DEF one
<1>8. IsAncestor(p, p)
  BY DEF IsAncestor
<1>9. Opens(node, p, ls, one)
  BY <1>1, <1>2, <1>5, <1>6, <1>7, <1>8 DEF Opens
<1> QED BY <1>9 DEF one, new

LEMMA RouteParentIs ==
    ASSUME NEW ls \in Lanes, NEW p \in Oid, NEW node \in DOMAIN ls
    PROVE  Opens(node, p, ls, RouteParent(p, node, ls))
<1> DEFINE exact == ExactLane(p, ls, {})
           kin == KinLane(p, ls, {})
           free == AllocLane(ls, {})
<1>1. /\ exact # None => exact \in Busy(ls) /\ At(ls, exact) = p
      /\ kin # None => kin \in Busy(ls) /\ IsAncestor(p, At(ls, kin))
      /\ IsAncestor(p, p)
  BY ExactAndKin DEF IsAncestor
<1>2. free \in Nat \ {0} /\ At(ls, free) = None /\ free <= Len(ls) + 1
  BY AllocLaneIs
<1>3. node \in Nat \ {0} /\ node <= Len(ls) /\ Len(ls) \in Nat /\ At(ls, node) = ls[node]
  BY DEF Lanes, At
<1>4. RouteParent(p, node, ls) =
        IF exact # None THEN [to |-> exact, lanes |-> ls]
        ELSE IF ls[node] = None THEN [to |-> node, lanes |-> Put(ls, node, p)]
        ELSE IF kin # None THEN [to |-> kin, lanes |-> ls]
        ELSE [to |-> free, lanes |-> Put(ls, free, p)]
  BY DEF RouteParent
<1> HIDE DEF exact, kin, free
<1>5. CASE exact # None
  BY <1>1, <1>4, <1>5, JoinOpens
<1>6. CASE exact = None /\ ls[node] = None
  <2>1. Opens(node, p, ls, [to |-> node, lanes |-> Put(ls, node, p)])
    BY <1>3, <1>6, PutOpens
  <2> QED BY <1>4, <1>6, <2>1
<1>7. CASE exact = None /\ ls[node] # None /\ kin # None
  BY <1>1, <1>3, <1>4, <1>7, JoinOpens
<1>8. CASE exact = None /\ ls[node] # None /\ kin = None
  <2>1. Opens(node, p, ls, [to |-> free, lanes |-> Put(ls, free, p)])
    BY <1>2, <1>3, <1>8, PutOpens
  <2> QED BY <1>4, <1>8, <2>1
<1> QED BY <1>5, <1>6, <1>7, <1>8

\* On the main line lane 0 is taken where it is free.
LEMMA RouteMainIs ==
    ASSUME NEW ls \in Lanes, NEW p \in Oid, NEW node \in DOMAIN ls
    PROVE  /\ Opens(node, p, ls, RouteMain(p, node, ls))
           /\ At(ls, 1) = None => At(RouteMain(p, node, ls).lanes, 1) = p
<1>1. node \in Nat \ {0} /\ node <= Len(ls) /\ Len(ls) \in Nat
  BY DEF Lanes
<1>2. 1 \in DOMAIN ls /\ At(ls, 1) = ls[1] /\ 1 <= Len(ls)
  BY <1>1 DEF Lanes, At
<1>3. CASE ls[1] \in {None, p}
  <2>1. RouteMain(p, node, ls) = [to |-> 1, lanes |-> Put(ls, 1, p)]
    BY <1>3 DEF RouteMain
  <2>2. Opens(node, p, ls, [to |-> 1, lanes |-> Put(ls, 1, p)])
    BY <1>1, <1>2, <1>3, PutOpens
  <2>3. At(Put(ls, 1, p), 1) = p
    BY PutIs DEF Slot
  <2> QED BY <2>1, <2>2, <2>3
<1>4. CASE ls[1] \notin {None, p}
  BY <1>2, <1>4, RouteParentIs DEF RouteMain
<1> QED BY <1>3, <1>4

Edge == [from : Nat, to : Nat]
Drawing == [edges : Seq(Edge), lanes : Lanes]

\* What is drawn after n of a commit's parents: every line leaves the commit's lane for a
\* lane that waits for its parent or a descendant, and for the parent itself if it is the
\* first; the lanes that wait are those that did, undisturbed, and those.
Drawn(c, node, ls, n) ==
    {r \in Drawing :
        /\ Len(r.edges) = n
        /\ \A i \in 1..n : r.edges[i].from = node /\ r.edges[i].to \in Busy(r.lanes)
        /\ Busy(r.lanes) = Busy(ls) \cup {r.edges[i].to : i \in 1..n}
        /\ \A k \in Busy(ls) : At(r.lanes, k) = At(ls, k)
        /\ \A i \in 1..n : IsAncestor(Routed(c)[i], At(r.lanes, r.edges[i].to))
        /\ n > 0 => At(r.lanes, r.edges[1].to) = Routed(c)[1]
        /\ \A k \in Busy(r.lanes) \ Busy(ls) : \E i \in 1..n : At(r.lanes, k) = Routed(c)[i]
        /\ Len(ls) <= Len(r.lanes)
        /\ n = 0 => r.lanes = ls
        /\ n > 0 => Len(r.lanes) < Len(ls) + n
        /\ n > 0 /\ {c, Routed(c)[1]} \subseteq chain /\ At(ls, 1) = None
               => At(r.lanes, 1) = Routed(c)[1]}

LEMMA DrawIs ==
    ASSUME NEW c \in Oid, NEW ls \in Lanes, NEW node \in DOMAIN ls, At(ls, node) = None,
           None \notin chain, Routed(c) \in Seq(Oid), NEW n \in 1..Len(Routed(c)),
           NEW r \in Drawn(c, node, ls, n - 1)
    PROVE  Draw(c, Routed(c)[n], node, r) \in Drawn(c, node, ls, n)
<1> DEFINE p == Routed(c)[n]
           onMain == r.edges = <<>> /\ {c, p} \subseteq chain
           one == IF onMain THEN RouteMain(p, node, r.lanes) ELSE RouteParent(p, node, r.lanes)
           edge == [from |-> node, to |-> one.to]
           new == [edges |-> Append(r.edges, edge), lanes |-> one.lanes]
<1>1. /\ r.edges \in Seq(Edge) /\ r.lanes \in Lanes /\ Len(r.edges) = n - 1
      /\ \A i \in 1..n - 1 : r.edges[i].from = node /\ r.edges[i].to \in Busy(r.lanes)
      /\ Busy(r.lanes) = Busy(ls) \cup {r.edges[i].to : i \in 1..n - 1}
      /\ \A k \in Busy(ls) : At(r.lanes, k) = At(ls, k)
      /\ \A i \in 1..n - 1 : IsAncestor(Routed(c)[i], At(r.lanes, r.edges[i].to))
      /\ n - 1 > 0 => At(r.lanes, r.edges[1].to) = Routed(c)[1]
      /\ \A k \in Busy(r.lanes) \ Busy(ls) :
            \E i \in 1..n - 1 : At(r.lanes, k) = Routed(c)[i]
      /\ Len(ls) <= Len(r.lanes)
      /\ n - 1 = 0 => r.lanes = ls
      /\ n - 1 > 0 => Len(r.lanes) < Len(ls) + (n - 1)
      /\ n - 1 > 0 /\ {c, Routed(c)[1]} \subseteq chain /\ At(ls, 1) = None
             => At(r.lanes, 1) = Routed(c)[1]
  BY DEF Drawn, Drawing
<1>2. n \in Nat /\ n >= 1 /\ Len(ls) \in Nat /\ Len(r.lanes) \in Nat /\ p \in Oid
  BY <1>1 DEF Lanes
<1>3. node \in DOMAIN r.lanes /\ node \in Nat \ {0}
  BY <1>1, <1>2 DEF Lanes
<1>4. Draw(c, p, node, r) = new
  BY DEF Draw
<1>5. /\ Opens(node, p, r.lanes, one)
      /\ onMain /\ At(r.lanes, 1) = None => At(one.lanes, 1) = p
  <2> HIDE DEF p
  <2>1. CASE onMain
    BY <1>1, <1>2, <1>3, <2>1, RouteMainIs
  <2>2. CASE ~onMain
    BY <1>1, <1>2, <1>3, <2>2, RouteParentIs
  <2> QED BY <2>1, <2>2
<1>6. r.edges = <<>> <=> n = 1
  BY <1>1, <1>2
<1>o. onMain <=> (n = 1 /\ {c, p} \subseteq chain)
  BY <1>6
<1> HIDE DEF p, onMain, one
<1>7. /\ one.lanes \in Lanes /\ one.to \in Busy(one.lanes)
      /\ Busy(one.lanes) = Busy(r.lanes) \cup {one.to}
      /\ \A k \in Busy(r.lanes) : At(one.lanes, k) = At(r.lanes, k)
      /\ Len(r.lanes) <= Len(one.lanes) /\ Len(one.lanes) <= Len(r.lanes) + 1
      /\ At(r.lanes, node) = None => Len(one.lanes) = Len(r.lanes)
      /\ IsAncestor(p, At(one.lanes, one.to))
      /\ At(r.lanes, node) = None \/ one.to \notin Busy(r.lanes)
             => At(one.lanes, one.to) = p
      /\ Len(one.lanes) \in Nat
  BY <1>5 DEF Opens, Lanes
<1>8. one.to \in Nat /\ edge \in Edge /\ edge.from = node /\ edge.to = one.to
  BY <1>3, <1>7 DEF Edge, Busy, Lanes
<1> HIDE DEF edge
<1>9. /\ new.edges = Append(r.edges, edge) /\ new.lanes = one.lanes
  OBVIOUS
<1> HIDE DEF new
<1>10. /\ new.edges \in Seq(Edge) /\ Len(new.edges) = n /\ new.edges[n] = edge
       /\ \A i \in 1..n - 1 : new.edges[i] = r.edges[i]
  BY <1>1, <1>2, <1>8, <1>9
<1>11. new \in Drawing
  BY <1>7, <1>8, <1>1 DEF new, Drawing
<1>12. \A i \in 1..n : new.edges[i].from = node /\ new.edges[i].to \in Busy(new.lanes)
  <2> TAKE i \in 1..n
  <2>1. CASE i = n
    BY <1>7, <1>8, <1>9, <1>10, <2>1
  <2>2. CASE i # n
    <3>1. i \in 1..n - 1
      BY <1>2, <2>2
    <3>2. r.edges[i].from = node /\ r.edges[i].to \in Busy(r.lanes)
      BY <1>1, <3>1
    <3> QED BY <1>7, <1>9, <1>10, <3>1, <3>2
  <2> QED BY <2>1, <2>2
<1>13. Busy(new.lanes) = Busy(ls) \cup {new.edges[i].to : i \in 1..n}
  <2>1. {new.edges[i].to : i \in 1..n} = {r.edges[i].to : i \in 1..n - 1} \cup {one.to}
    <3>1. n \in 1..n /\ \A i \in 1..n : i = n \/ i \in 1..n - 1
      BY <1>2
    <3>2. \A i \in 1..n - 1 : i \in 1..n
      BY <1>2
    <3>3. new.edges[n].to = one.to
      BY <1>8, <1>10
    <3>4. \A i \in 1..n - 1 : new.edges[i].to = r.edges[i].to
      BY <1>10
    <3> QED BY <3>1, <3>2, <3>3, <3>4
  <2>2. Busy(new.lanes) = Busy(r.lanes) \cup {one.to}
    BY <1>7, <1>9
  <2>3. Busy(r.lanes) = Busy(ls) \cup {r.edges[i].to : i \in 1..n - 1}
    BY <1>1
  <2> QED BY <2>1, <2>2, <2>3
<1>14. \A k \in Busy(ls) : At(new.lanes, k) = At(ls, k)
  BY <1>1, <1>7, <1>9
<1>15. Len(ls) <= Len(new.lanes)
  BY <1>1, <1>2, <1>7, <1>9
<1>16. Len(new.lanes) < Len(ls) + n
  BY <1>1, <1>2, <1>7, <1>9
<1>17. {c, Routed(c)[1]} \subseteq chain /\ At(ls, 1) = None
           => At(new.lanes, 1) = Routed(c)[1]
  <2> SUFFICES ASSUME {c, Routed(c)[1]} \subseteq chain, At(ls, 1) = None
               PROVE  At(new.lanes, 1) = Routed(c)[1]
    OBVIOUS
  <2>1. CASE n = 1
    BY <1>1, <1>5, <1>9, <1>o, <2>1 DEF p
  <2>2. CASE n # 1
    <3>1. At(r.lanes, 1) = Routed(c)[1] /\ At(r.lanes, 1) # None
      BY <1>1, <1>2, <2>2
    <3>2. 1 \in Busy(r.lanes)
      BY <1>1, <3>1, AtIs
    <3> QED BY <1>7, <1>9, <3>1, <3>2
  <2> QED BY <2>1, <2>2
\* Where the lines lead.
<1>18. \A i \in 1..n - 1 : /\ new.edges[i].to = r.edges[i].to
                           /\ At(new.lanes, r.edges[i].to) = At(r.lanes, r.edges[i].to)
  BY <1>1, <1>7, <1>9, <1>10
<1>19. At(new.lanes, new.edges[n].to) = At(one.lanes, one.to)
  BY <1>8, <1>9, <1>10
<1>20. \A i \in 1..n : IsAncestor(Routed(c)[i], At(new.lanes, new.edges[i].to))
  <2> TAKE i \in 1..n
  <2>1. CASE i = n
    BY <1>7, <1>19, <2>1 DEF p
  <2>2. CASE i # n
    <3>1. i \in 1..n - 1
      BY <1>2, <2>2
    <3> QED BY <1>1, <1>18, <3>1
  <2> QED BY <2>1, <2>2
<1>21. At(new.lanes, new.edges[1].to) = Routed(c)[1]
  <2>1. CASE n = 1
    <3>1. At(r.lanes, node) = None
      BY <1>1, <2>1
    <3> QED BY <1>7, <1>19, <2>1, <3>1 DEF p
  <2>2. CASE n # 1
    <3>1. 1 \in 1..n - 1 /\ n - 1 > 0
      BY <1>2, <2>2
    <3> QED BY <1>1, <1>18, <3>1
  <2> QED BY <2>1, <2>2
<1>22. \A k \in Busy(new.lanes) \ Busy(ls) : \E i \in 1..n : At(new.lanes, k) = Routed(c)[i]
  <2> TAKE k \in Busy(new.lanes) \ Busy(ls)
  <2>1. CASE k \in Busy(r.lanes)
    <3>1. PICK i \in 1..n - 1 : At(r.lanes, k) = Routed(c)[i]
      BY <1>1, <2>1
    <3>2. i \in 1..n /\ At(new.lanes, k) = At(r.lanes, k)
      BY <1>2, <1>7, <1>9, <2>1
    <3> QED BY <3>1, <3>2
  <2>2. CASE k \notin Busy(r.lanes)
    <3>1. k = one.to
      BY <1>7, <1>9, <2>2
    <3>2. At(new.lanes, k) = p
      BY <1>7, <1>9, <2>2, <3>1
    <3>3. n \in 1..n
      BY <1>2
    <3> QED BY <3>2, <3>3 DEF p
  <2> QED BY <2>1, <2>2
<1>23. new \in Drawn(c, node, ls, n)
  <2>1. n # 0
    BY <1>2
  <2> HIDE DEF p
  <2> QED BY <2>1, <1>10, <1>11, <1>12, <1>13, <1>14, <1>15, <1>16, <1>17, <1>20, <1>21,
             <1>22 DEF Drawn
<1> QED BY <1>4, <1>23 DEF p

\* The recursion over the parents of a commit.
LEMMA RouteIs ==
    ASSUME NEW c \in Oid, NEW ls \in Lanes, NEW node \in DOMAIN ls, At(ls, node) = None,
           None \notin chain, Routed(c) \in Seq(Oid)
    PROVE  Route(c, node, ls) \in Drawn(c, node, ls, Len(Routed(c)))
<1> DEFINE ps == Routed(c)
           N == Len(ps)
           first == [edges |-> <<>>, lanes |-> ls]
           D(n) == Drawn(c, node, ls, n)
           Upto(n) == \E f \in [0..n -> Drawing] :
                         /\ f[0] = first /\ f[0] \in D(0)
                         /\ \A k \in 1..n : f[k] = Draw(c, ps[k], node, f[k - 1]) /\ f[k] \in D(k)
           drawn[n \in 0..N] == IF n = 0 THEN first ELSE Draw(c, ps[n], node, drawn[n - 1])
           T == {n \in 0..N : Upto(n)}
<1>0. N \in Nat
  OBVIOUS
<1>1. first \in D(0)
  <2>1. first.edges = <<>> /\ first.lanes = ls /\ first \in Drawing /\ Len(first.edges) = 0
    BY DEF Drawing
  <2>2. Len(ls) \in Nat
    BY DEF Lanes
  <2> HIDE DEF first
  <2> QED BY <2>1, <2>2 DEF Drawn
<1>2. \A n \in 0..N : D(n) \subseteq Drawing
  BY DEF Drawn
<1>3. ASSUME NEW n \in 1..N, NEW r \in D(n - 1) PROVE Draw(c, ps[n], node, r) \in D(n)
  BY <1>3, DrawIs
<1> HIDE DEF first, D
<1>4. 0 \in T
  <2> DEFINE f == [k \in 0..0 |-> first]
  <2>1. f \in [0..0 -> Drawing] /\ f[0] = first /\ 1..0 = {}
    BY <1>0, <1>1, <1>2
  <2> HIDE DEF f
  <2>2. Upto(0)
    BY <1>1, <2>1
  <2> QED BY <1>0, <2>2
<1>5. ASSUME NEW m \in 1..N, m - 1 \in T PROVE m \in T
  <2>1. PICK f \in [0..m - 1 -> Drawing] :
           /\ f[0] = first /\ f[0] \in D(0)
           /\ \A k \in 1..m - 1 : f[k] = Draw(c, ps[k], node, f[k - 1]) /\ f[k] \in D(k)
    BY <1>5
  <2>2. m \in Nat /\ m >= 1 /\ m - 1 \in 0..m - 1
    BY <1>0
  <2>3. f[m - 1] \in D(m - 1)
    BY <2>1, <2>2
  <2> DEFINE last == Draw(c, ps[m], node, f[m - 1])
             g == [k \in 0..m |-> IF k = m THEN last ELSE f[k]]
  <2>4. last \in D(m) /\ last \in Drawing
    BY <1>0, <1>2, <1>3, <2>3
  <2> HIDE DEF last
  <2>5. g \in [0..m -> Drawing]
    BY <2>1, <2>2, <2>4
  <2>6. \A k \in 0..m - 1 : g[k] = f[k]
    BY <2>2
  <2>7. g[m] = last
    BY <2>2
  <2> HIDE DEF g
  <2>8. g[0] = first /\ g[0] \in D(0)
    BY <2>1, <2>2, <2>6
  <2>9. \A k \in 1..m : g[k] = Draw(c, ps[k], node, g[k - 1]) /\ g[k] \in D(k)
    <3> TAKE k \in 1..m
    <3>1. CASE k = m
      BY <2>2, <2>4, <2>6, <2>7, <3>1 DEF last
    <3>2. CASE k # m
      <4>1. k \in 1..m - 1 /\ k - 1 \in 0..m - 1 /\ k \in 0..m - 1
        BY <2>2, <3>2
      <4> QED BY <2>1, <2>6, <4>1
    <3> QED BY <3>1, <3>2
  <2>10. Upto(m)
    BY <2>5, <2>8, <2>9
  <2> QED BY <2>10
<1>6. N \in T
  <2> HIDE DEF T, N
  <2>1. 0..N \subseteq T
    BY <1>0, <1>4, <1>5, CountUp
  <2> QED BY <1>0, <2>1
<1>7. PICK f \in [0..N -> Drawing] :
         /\ f[0] = first /\ f[0] \in D(0)
         /\ \A k \in 1..N : f[k] = Draw(c, ps[k], node, f[k - 1]) /\ f[k] \in D(k)
  BY <1>6
<1>8. f = [n \in 0..N |-> IF n = 0 THEN first ELSE Draw(c, ps[n], node, f[n - 1])]
  <2>1. \A n \in 0..N : f[n] = IF n = 0 THEN first ELSE Draw(c, ps[n], node, f[n - 1])
    BY <1>0, <1>7
  <2> HIDE DEF ps, N
  <2> QED BY <1>7, <2>1
<1>9. drawn = [n \in 0..N |-> IF n = 0 THEN first ELSE Draw(c, ps[n], node, drawn[n - 1])]
  BY <1>8, Zenon
<1>10. Route(c, node, ls) = drawn[N]
  BY DEF Route, first
<1> HIDE DEF drawn
\* The recursive function is the one that was built.
<1>11. \A n \in 0..N : drawn[n] \in D(n)
  <2> DEFINE S == {n \in 0..N : drawn[n] \in D(n)}
  <2>1. 0 \in S
    BY <1>0, <1>1, <1>9
  <2>2. \A k \in 1..N : k - 1 \in S => k \in S
    <3> TAKE k \in 1..N
    <3> HAVE k - 1 \in S
    <3>1. drawn[k] = Draw(c, ps[k], node, drawn[k - 1])
      BY <1>0, <1>9
    <3>2. drawn[k - 1] \in D(k - 1)
      OBVIOUS
    <3>3. drawn[k] \in D(k)
      BY <1>3, <3>1, <3>2
    <3> QED BY <1>0, <3>3
  <2>3. 0..N \subseteq S
    <3> HIDE DEF S, N
    <3> QED BY <1>0, <2>1, <2>2, CountUp
  <2> QED BY <2>3
<1>12. N \in 0..N
  BY <1>0
<1> QED BY <1>10, <1>11, <1>12 DEF D

-----------------------------------------------------------------------------
(* Parents *)

LEMMA ParentListsAre ==
    ASSUME NEW c \in Oid, NEW l \in ParentLists(c)
    PROVE  /\ l \in Seq(Oid) /\ Len(l) \in 0..2
           /\ \A i \in DOMAIN l : l[i] > c
           /\ c = Commits => l = <<>>
<1>1. Commits \in Nat /\ c \in Nat /\ c + 1..Commits \subseteq Oid
  BY CommitsAssumption DEF Oid
<1>2. CASE l = <<>>
  BY <1>2
<1>3. CASE \E p \in c + 1..Commits : l = <<p>>
  BY <1>1, <1>3
<1>4. CASE \E p, q \in c + 1..Commits : l = <<p, q>>
  BY <1>1, <1>4
<1> QED BY <1>2, <1>3, <1>4 DEF ParentLists

\* The order parents are routed in has the same parents, the main line's first.
LEMMA RoutedIs ==
    ASSUME NEW c \in Oid, parents[c] \in ParentLists(c)
    PROVE  /\ Routed(c) \in Seq(Oid) /\ Len(Routed(c)) = Len(parents[c])
           /\ \A k \in 1..Len(Routed(c)) : Routed(c)[k] \in Parents(c) /\ Routed(c)[k] > c
           /\ c \in chain /\ (\E i \in DOMAIN parents[c] : parents[c][i] \in chain)
                 => Len(Routed(c)) > 0 /\ Routed(c)[1] \in chain
<1> DEFINE l == parents[c]
           onMain == {i \in DOMAIN l : c \in chain /\ l[i] \in chain}
           first == IF onMain = {} THEN 1 ELSE Min(onMain)
<1>1. Routed(c) = IF l = <<>> THEN <<>> ELSE <<l[first]>> \o RemoveAt(l, first)
  BY DEF Routed
<1>2. l \in Seq(Oid) /\ Len(l) \in 0..2 /\ \A i \in DOMAIN l : l[i] > c
  BY ParentListsAre
<1>p. \A i \in DOMAIN l : l[i] \in Parents(c)
  BY DEF Parents, ToSet
<1>3. onMain # {} => first \in onMain
  <2>1. onMain \in SUBSET Nat
    BY <1>2
  <2> HIDE DEF onMain
  <2> QED BY <2>1, MinIs
<1>4. first \in {1} \cup onMain /\ onMain \subseteq 1..Len(l)
  BY <1>2, <1>3
<1>5. onMain # {} => l[first] \in chain
  BY <1>3
<1>6. c \in chain /\ (\E i \in DOMAIN l : l[i] \in chain) <=> onMain # {}
  OBVIOUS
<1> HIDE DEF l, onMain, first
<1>7. CASE l = <<>>
  <2>1. Routed(c) = <<>> /\ Len(Routed(c)) = 0 /\ 1..0 = {}
    BY <1>1, <1>7
  <2> QED BY <1>2, <1>4, <1>6, <1>7, <2>1 DEF l
<1>8. CASE l # <<>>
  <2>1. first \in 1..Len(l) /\ Len(l) \in 1..2
    BY <1>2, <1>4, <1>8
  <2> DEFINE rest == RemoveAt(l, first)
  <2>2. rest = SubSeq(l, 1, first - 1) \o SubSeq(l, first + 1, Len(l))
    BY DEF RemoveAt
  <2>3. /\ rest \in Seq(Oid) /\ Len(rest) = Len(l) - 1
        /\ \A k \in 1..Len(rest) : rest[k] = l[IF first = 1 THEN 2 ELSE 1]
    <3>1. CASE first = 1 /\ Len(l) = 1
      BY <1>2, <2>2, <3>1
    <3>2. CASE first = 1 /\ Len(l) = 2
      BY <1>2, <2>2, <3>2
    <3>3. CASE first = 2 /\ Len(l) = 2
      BY <1>2, <2>2, <3>3
    <3>4. \/ first = 1 /\ Len(l) = 1
          \/ first = 1 /\ Len(l) = 2
          \/ first = 2 /\ Len(l) = 2
      <4>1. CASE Len(l) = 1
        BY <2>1, <4>1
      <4>2. CASE Len(l) = 2
        BY <2>1, <4>2
      <4> QED BY <2>1, <4>1, <4>2
    <3> QED BY <3>1, <3>2, <3>3, <3>4
  <2> HIDE DEF rest
  <2>4. Routed(c) = <<l[first]>> \o rest /\ l[first] \in Oid
    BY <1>1, <1>2, <1>8, <2>1 DEF rest
  <2>5. /\ Routed(c) \in Seq(Oid) /\ Len(Routed(c)) = Len(l) /\ Routed(c)[1] = l[first]
        /\ Len(l) = 2 => Routed(c)[2] = rest[1]
    BY <1>2, <2>1, <2>3, <2>4
  <2>6. \A k \in 1..Len(Routed(c)) : \E i \in DOMAIN l : Routed(c)[k] = l[i]
    <3> TAKE k \in 1..Len(Routed(c))
    <3>1. CASE k = 1
      BY <1>2, <2>1, <2>5, <3>1
    <3>2. CASE k = 2 /\ Len(l) = 2
      <4>1. 1 \in 1..Len(rest) /\ 1 \in DOMAIN l /\ 2 \in DOMAIN l
        BY <1>2, <2>3, <3>2
      <4>2. Routed(c)[2] = l[IF first = 1 THEN 2 ELSE 1]
        BY <2>3, <2>5, <3>2, <4>1
      <4> QED BY <3>2, <4>1, <4>2
    <3> QED BY <2>1, <2>5, <3>1, <3>2
  <2> QED BY <1>2, <1>5, <1>6, <1>p, <2>1, <2>5, <2>6 DEF l
<1> QED BY <1>7, <1>8

-----------------------------------------------------------------------------
(* Histories *)

\* The histories from a commit on, from those of the next one on.
Onto(l, h) == <<l>> \o h
Extended(c, hs) == {Onto(l, h) : l \in ParentLists(c), h \in hs}

LEMMA ExtendedIs ==
    ASSUME NEW c, NEW hs, NEW w \in Extended(c, hs)
    PROVE  \E l \in ParentLists(c), h \in hs : w = Onto(l, h)
BY DEF Extended

\* The recursion has a solution.
LEMMA HistoriesIs ==
    Histories = [c \in 1..Commits + 1 |->
                    IF c > Commits THEN {<<>>} ELSE Extended(c, Histories[c + 1])]
<1> DEFINE N == Commits
           H(f, c) == IF c > N THEN {<<>>} ELSE Extended(c, f[c + 1])
           Upto(n) == \E f : f = [c \in N + 1 - n..N + 1 |-> H(f, c)]
           T == {n \in 0..N : Upto(n)}
<1>0. N \in Nat
  BY CommitsAssumption
<1> HIDE DEF N
<1>1. 0 \in T
  <2> DEFINE f == [c \in N + 1 - 0..N + 1 |-> {<<>>}]
  <2>1. \A c \in N + 1 - 0..N + 1 : c > N
    BY <1>0
  <2>2. f = [c \in N + 1 - 0..N + 1 |-> H(f, c)]
    BY <2>1
  <2> HIDE DEF f
  <2>3. Upto(0)
    BY <2>2
  <2> QED BY <1>0, <2>3
<1>2. ASSUME NEW n \in 1..N, n - 1 \in T PROVE n \in T
  <2>1. PICK f : f = [c \in N + 1 - (n - 1)..N + 1 |-> H(f, c)]
    BY <1>2
  <2> DEFINE g == [c \in N + 1 - n..N + 1 |->
                      IF c = N + 1 - n THEN Extended(c, f[c + 1]) ELSE f[c]]
  <2>2. ASSUME NEW c \in N + 1 - n..N + 1 PROVE g[c] = H(g, c)
    <3>1. n \in Nat /\ n >= 1 /\ n <= N /\ c \in Int
      BY <1>0
    <3>2. CASE c = N + 1 - n
      <4>1. c + 1 \in N + 1 - n..N + 1 /\ c + 1 # N + 1 - n /\ ~(c > N)
        BY <1>0, <3>1, <3>2
      <4>2. g[c + 1] = f[c + 1]
        BY <4>1
      <4>3. g[c] = Extended(c, f[c + 1])
        BY <3>2
      <4> QED BY <4>1, <4>2, <4>3
    <3>3. CASE c # N + 1 - n
      <4>1. c \in N + 1 - (n - 1)..N + 1
        BY <1>0, <3>1, <3>3
      <4>2. g[c] = f[c]
        BY <3>3
      <4>3. f[c] = H(f, c)
        BY <2>1, <4>1
      <4>4. CASE c > N
        BY <4>2, <4>3, <4>4
      <4>5. CASE ~(c > N)
        <5>1. c + 1 \in N + 1 - n..N + 1 /\ c + 1 # N + 1 - n
          BY <1>0, <3>1, <4>1, <4>5
        <5>2. g[c + 1] = f[c + 1]
          BY <5>1
        <5> QED BY <4>2, <4>3, <4>5, <5>2
      <4> QED BY <4>4, <4>5
    <3> QED BY <3>2, <3>3
  <2>3. g = [c \in N + 1 - n..N + 1 |-> g[c]]
    OBVIOUS
  <2> HIDE DEF g
  <2>4. g = [c \in N + 1 - n..N + 1 |-> H(g, c)]
    <3> HIDE DEF H
    <3> QED BY <2>2, <2>3
  <2>5. Upto(n)
    BY <2>4
  <2> QED BY <1>0, <2>5
<1>3. N \in T
  <2> HIDE DEF T
  <2>1. 0..N \subseteq T
    BY <1>0, <1>1, <1>2, CountUp
  <2> QED BY <1>0, <2>1
<1>4. PICK f : f = [c \in N + 1 - N..N + 1 |-> H(f, c)]
  BY <1>3
<1>5. N + 1 - N = 1
  BY <1>0
<1>6. f = [c \in 1..N + 1 |-> H(f, c)]
  BY <1>4, <1>5
<1>7. Histories = CHOOSE g : g = [c \in 1..N + 1 |-> H(g, c)]
  BY DEF Histories, N, Extended, Onto, H
<1>8. Histories = [c \in 1..N + 1 |-> H(Histories, c)]
  <2> HIDE DEF H
  <2> QED BY <1>6, <1>7, Zenon
<1> QED BY <1>8 DEF N

\* In a history every commit has the parents it may have.
LEMMA HistoryIs ==
    ASSUME NEW ps \in Histories[1]
    PROVE  \A c \in Oid : ps[c] \in ParentLists(c)
<1> DEFINE N == Commits
           From(c) == {h \in Seq(Seq(Oid)) :
                          /\ Len(h) = N + 1 - c
                          /\ \A i \in 1..N + 1 - c : h[i] \in ParentLists(c - 1 + i)}
           T == {n \in 0..N : Histories[N + 1 - n] \subseteq From(N + 1 - n)}
<1>0. N \in Nat
  BY CommitsAssumption
<1> HIDE DEF N
<1>1. \A c \in 1..N + 1 :
         Histories[c] = IF c > N THEN {<<>>} ELSE Extended(c, Histories[c + 1])
  BY HistoriesIs DEF N
<1>2. 0 \in T
  <2>1. N + 1 - 0 \in 1..N + 1 /\ N + 1 - 0 > N /\ N + 1 - (N + 1 - 0) = 0
    BY <1>0
  <2>2. Histories[N + 1 - 0] = {<<>>}
    BY <1>1, <2>1
  <2>3. <<>> \in Seq(Seq(Oid)) /\ Len(<<>>) = 0 /\ 1..0 = {}
    OBVIOUS
  <2>4. <<>> \in From(N + 1 - 0)
    BY <2>1, <2>3
  <2>5. 0 \in 0..N
    BY <1>0
  <2> HIDE DEF From
  <2> QED BY <2>2, <2>4, <2>5
<1>3. ASSUME NEW n \in 1..N, n - 1 \in T PROVE n \in T
  <2> DEFINE c == N + 1 - n
  <2>1. /\ c \in 1..N + 1 /\ ~(c > N) /\ c + 1 = N + 1 - (n - 1) /\ c \in Oid
        /\ N + 1 - c = n /\ N + 1 - (c + 1) = n - 1
    BY <1>0 DEF Oid, N
  <2>2. Histories[c] = Extended(c, Histories[c + 1])
    BY <1>1, <2>1
  <2>3. Histories[c + 1] \subseteq From(c + 1)
    <3>1. Histories[N + 1 - (n - 1)] \subseteq From(N + 1 - (n - 1))
      BY <1>3
    <3> HIDE DEF From, c
    <3> QED BY <2>1, <3>1
  <2> HIDE DEF c
  <2>4. ASSUME NEW l \in ParentLists(c), NEW h \in Histories[c + 1]
        PROVE  Onto(l, h) \in From(c)
    <3>1. /\ h \in Seq(Seq(Oid)) /\ Len(h) = n - 1
          /\ \A i \in 1..n - 1 : h[i] \in ParentLists(c + 1 - 1 + i)
      BY <2>1, <2>3
    <3>2. l \in Seq(Oid)
      BY <2>1, ParentListsAre
    <3> DEFINE w == <<l>> \o h
    <3>3. w \in Seq(Seq(Oid)) /\ Len(w) = n
      BY <1>0, <3>1, <3>2
    <3>4. \A i \in 1..n : w[i] = IF i = 1 THEN l ELSE h[i - 1]
      BY <1>0, <3>1, <3>2
    <3> HIDE DEF w
    <3>5. ASSUME NEW i \in 1..n PROVE w[i] \in ParentLists(c - 1 + i)
      <4>1. CASE i = 1
        <5>1. c - 1 + i = c
          BY <2>1, <4>1
        <5> QED BY <3>4, <4>1, <5>1
      <4>2. CASE i # 1
        <5>1. i - 1 \in 1..n - 1 /\ c + 1 - 1 + (i - 1) = c - 1 + i
          BY <1>0, <2>1, <4>2
        <5> QED BY <3>1, <3>4, <4>2, <5>1
      <4> QED BY <4>1, <4>2
    <3>6. w \in From(c)
      BY <2>1, <3>3, <3>5
    <3> QED BY <3>6 DEF w, Onto
  <2>5. Histories[c] \subseteq From(c)
    <3> HIDE DEF From
    <3> SUFFICES ASSUME NEW w \in Histories[c] PROVE w \in From(c)
      OBVIOUS
    <3>1. PICK l \in ParentLists(c), h \in Histories[c + 1] : w = Onto(l, h)
      BY <2>2, ExtendedIs
    <3> QED BY <2>4, <3>1
  <2> QED BY <1>0, <2>5 DEF c
<1>4. N \in T
  <2> HIDE DEF T
  <2>1. 0..N \subseteq T
    BY <1>0, <1>2, <1>3, CountUp
  <2> QED BY <1>0, <2>1
<1>5. N + 1 - N = 1 /\ N + 1 - 1 = N
  BY <1>0
<1>6. ps \in From(1)
  <2>1. Histories[N + 1 - N] \subseteq From(N + 1 - N)
    BY <1>4
  <2> HIDE DEF From
  <2> QED BY <1>5, <2>1
<1>7. \A i \in 1..N : ps[i] \in ParentLists(1 - 1 + i)
  BY <1>5, <1>6
<1>8. \A i \in 1..N : 1 - 1 + i = i
  BY <1>0
<1> QED BY <1>7, <1>8 DEF Oid, N

-----------------------------------------------------------------------------
(* The main line *)

LEMMA MainParentIs ==
    ASSUME NEW ps, NEW feature, NEW c \in Oid, ps[c] \in ParentLists(c), ps[c] # <<>>
    PROVE  /\ \E i \in DOMAIN ps[c] : MainParent(ps, c, feature) = ps[c][i]
           /\ MainParent(ps, c, feature) \in c + 1..Commits
<1> DEFINE l == ps[c]
           plain == {i \in DOMAIN l : l[i] \notin feature}
           k == IF plain = {} THEN 1 ELSE Min(plain)
<1>1. l \in Seq(Oid) /\ Len(l) \in Nat /\ \A i \in DOMAIN l : l[i] > c
  BY ParentListsAre
<1>2. 1 \in DOMAIN l
  BY <1>1
<1>3. plain # {} => Min(plain) \in plain
  <2>1. plain \in SUBSET Nat
    BY <1>1
  <2> HIDE DEF plain
  <2> QED BY <2>1, MinIs
<1>4. k \in DOMAIN l
  BY <1>2, <1>3
<1>5. MainParent(ps, c, feature) = l[k]
  BY DEF MainParent
<1> HIDE DEF k, l
<1>6. l[k] \in Oid /\ l[k] > c
  BY <1>1, <1>4
<1>7. l[k] \in c + 1..Commits
  BY <1>6, CommitsAssumption DEF Oid
<1> QED BY <1>4, <1>5, <1>7 DEF l

\* The next commit of a line is a parent.
Continues(ps, line, a) ==
    \E i \in DOMAIN ps[a] : ps[a][i] \in line /\ \A d \in line : a < d => ps[a][i] <= d

\* A line goes from c through parents of loaded commits to its last commit.
IsLine(ps, window, line, c) ==
    /\ line \in SUBSET Oid /\ c \in line /\ \A d \in line : c <= d
    /\ \A a \in line : \/ a \in window /\ Continues(ps, line, a)
                       \/ \A d \in line : d <= a

\* The main line is such a line, whatever the loaded commits and the feature branches.
LEMMA MainChainIs ==
    ASSUME NEW ps, \A c \in Oid : ps[c] \in ParentLists(c),
           NEW window, NEW feature, NEW tip \in Oid
    PROVE  IsLine(ps, window, MainChain(ps, window, feature, tip), tip)
<1> DEFINE N == Commits
           last(c) == c \notin window \/ ps[c] = <<>>
           next(c) == MainParent(ps, c, feature)
           G(f, c) == {c} \union IF last(c) THEN {} ELSE f[next(c)]
           from[c \in Oid] == G(from, c)
           Upto(n) == \E f : f = [c \in N + 1 - n..N |-> G(f, c)]
           T == {n \in 0..N : Upto(n)}
<1>0. N \in Nat /\ Oid = 1..N
  BY CommitsAssumption DEF Oid
<1>1. ASSUME NEW c \in Oid, ~last(c)
      PROVE  /\ next(c) \in c + 1..N /\ \E i \in DOMAIN ps[c] : ps[c][i] = next(c)
             /\ c \in window
  BY <1>1, MainParentIs
<1> HIDE DEF N, last, next
<1>2. 0 \in T
  <2> DEFINE f == [c \in N + 1 - 0..N |-> {}]
  <2>1. N + 1 - 0..N = {}
    BY <1>0
  <2>2. f = [c \in N + 1 - 0..N |-> G(f, c)]
    BY <2>1
  <2> HIDE DEF f
  <2>3. Upto(0)
    BY <2>2
  <2> QED BY <1>0, <2>3
<1>3. ASSUME NEW n \in 1..N, n - 1 \in T PROVE n \in T
  <2>1. PICK f : f = [c \in N + 1 - (n - 1)..N |-> G(f, c)]
    BY <1>3
  <2> DEFINE g == [c \in N + 1 - n..N |-> IF c = N + 1 - n THEN G(f, c) ELSE f[c]]
  <2>2. ASSUME NEW c \in N + 1 - n..N PROVE g[c] = G(f, c) /\ G(g, c) = G(f, c)
    <3>1. n \in Nat /\ n >= 1 /\ n <= N /\ c \in Int /\ c \in Oid /\ N + 1 - n <= c
      BY <1>0
    <3>2. g[c] = G(f, c)
      <4>1. CASE c = N + 1 - n
        BY <4>1
      <4>2. CASE c # N + 1 - n
        <5>1. c \in N + 1 - (n - 1)..N
          BY <1>0, <3>1, <4>2
        <5>2. f[c] = G(f, c)
          BY <2>1, <5>1
        <5> QED BY <4>2, <5>2
      <4> QED BY <4>1, <4>2
    <3>3. G(g, c) = G(f, c)
      <4>1. CASE last(c)
        BY <4>1
      <4>2. CASE ~last(c)
        <5>1. next(c) \in c + 1..N
          BY <1>1, <3>1, <4>2
        <5>2. next(c) \in N + 1 - n..N /\ next(c) # N + 1 - n
          BY <1>0, <3>1, <5>1
        <5>3. g[next(c)] = f[next(c)]
          BY <5>2
        <5> QED BY <5>3
      <4> QED BY <4>1, <4>2
    <3> QED BY <3>2, <3>3
  <2>3. g = [c \in N + 1 - n..N |-> g[c]]
    OBVIOUS
  <2> HIDE DEF g
  <2>4. g = [c \in N + 1 - n..N |-> G(g, c)]
    <3> HIDE DEF G
    <3> QED BY <2>2, <2>3
  <2>5. Upto(n)
    BY <2>4
  <2> QED BY <1>0, <2>5
<1>4. N \in T
  <2> HIDE DEF T
  <2>1. 0..N \subseteq T
    BY <1>0, <1>2, <1>3, CountUp
  <2> QED BY <1>0, <2>1
<1>5. PICK f : f = [c \in N + 1 - N..N |-> G(f, c)]
  BY <1>4
<1>6. N + 1 - N = 1
  BY <1>0
<1>7. f = [c \in Oid |-> G(f, c)]
  BY <1>0, <1>5, <1>6
<1>8. from = [c \in Oid |-> G(from, c)]
  <2> HIDE DEF G
  <2> QED BY <1>7, Zenon
<1>9. MainChain(ps, window, feature, tip) = from[tip]
  <2>1. tip # None
    BY OidIsNat
  <2> QED BY <2>1 DEF MainChain, last, next
<1> HIDE DEF from, T
\* Downwards, every line is one more commit before another's.
<1> DEFINE U == {n \in 0..N : \A c \in N + 1 - n..N : IsLine(ps, window, from[c], c)}
<1>10. 0 \in U
  <2>1. N + 1 - 0..N = {} /\ 0 \in 0..N
    BY <1>0
  <2> QED BY <2>1
<1>11. ASSUME NEW n \in 1..N, n - 1 \in U PROVE n \in U
  <2>1. \A c \in N + 1 - (n - 1)..N : IsLine(ps, window, from[c], c)
    BY <1>11
  <2> DEFINE c == N + 1 - n
  <2>2. /\ c \in Oid /\ c \in Nat /\ c + 1 = N + 1 - (n - 1) /\ n \in 0..N
        /\ \A d \in c..N : d = c \/ d \in c + 1..N
    BY <1>0
  <2> HIDE DEF c
  <2>3. from[c] = G(from, c)
    BY <1>8, <2>2
  <2>4. IsLine(ps, window, from[c], c)
    <3>1. CASE last(c)
      <4>1. from[c] = {c}
        BY <2>3, <3>1
      <4> QED BY <2>2, <4>1 DEF IsLine
    <3>2. CASE ~last(c)
      <4> DEFINE m == next(c)
      <4>1. m \in c + 1..N /\ c \in window /\ \E i \in DOMAIN ps[c] : ps[c][i] = m
        BY <1>1, <2>2, <3>2
      <4>2. from[c] = {c} \cup from[m]
        BY <2>3, <3>2
      <4>3. IsLine(ps, window, from[m], m)
        BY <2>1, <2>2, <4>1
      <4> HIDE DEF m
      <4> DEFINE line == from[m]
      <4>4. /\ line \in SUBSET Oid /\ m \in line /\ \A d \in line : m <= d
            /\ \A a \in line : \/ a \in window /\ Continues(ps, line, a)
                               \/ \A d \in line : d <= a
        BY <4>3 DEF IsLine
      <4>5. \A d \in line : c < d
        <5>1. m \in Nat /\ c < m /\ c \in Nat
          BY <2>2, <4>1, <1>0
        <5> SUFFICES ASSUME NEW d \in line PROVE c < d
          OBVIOUS
        <5>2. d \in Nat /\ m <= d
          BY <4>4, <1>0
        <5> QED BY <5>1, <5>2
      <4> HIDE DEF line
      <4>6. \A d \in {c} \cup line : c <= d
        BY <2>2, <4>4, <4>5, <1>0
      <4>7. ASSUME NEW a \in {c} \cup line
            PROVE  \/ a \in window /\ Continues(ps, {c} \cup line, a)
                   \/ \A d \in {c} \cup line : d <= a
        <5>1. CASE a = c
          <6>1. PICK i \in DOMAIN ps[c] : ps[c][i] = m
            BY <4>1
          <6>2. \A d \in {c} \cup line : c < d => m <= d
            BY <2>2, <4>4
          <6> QED BY <4>1, <4>4, <5>1, <6>1, <6>2 DEF Continues
        <5>2. CASE a \in line /\ a \in window /\ Continues(ps, line, a)
          <6>1. c < a /\ c \in Nat /\ a \in Nat
            BY <1>0, <2>2, <4>4, <4>5, <5>2
          <6>2. ~(a < c)
            BY <6>1
          <6> QED BY <5>2, <6>2 DEF Continues
        <5>3. CASE a \in line /\ \A d \in line : d <= a
          <6>1. c <= a
            BY <4>6
          <6> QED BY <5>3, <6>1
        <5> QED BY <4>4, <5>1, <5>2, <5>3
      <4>8. IsLine(ps, window, {c} \cup line, c)
        BY <2>2, <4>4, <4>6, <4>7 DEF IsLine
      <4> QED BY <4>2, <4>8 DEF line
    <3> QED BY <3>1, <3>2
  <2>5. ASSUME NEW d \in N + 1 - n..N PROVE IsLine(ps, window, from[d], d)
    BY <2>1, <2>2, <2>4 DEF c
  <2> QED BY <2>2, <2>5
<1>12. N \in U
  <2> HIDE DEF U
  <2>1. 0..N \subseteq U
    BY <1>0, <1>10, <1>11, CountUp
  <2> QED BY <1>0, <2>1
<1>13. \A c \in 1..N : IsLine(ps, window, from[c], c)
  BY <1>6, <1>12
<1> QED BY <1>0, <1>9, <1>13

-----------------------------------------------------------------------------
(* The invariant *)

\* What a drawing starts from: parents come after their children, the main tip is loaded,
\* and the main line goes from it through parents of loaded commits to its last commit.
HistoryInv ==
    /\ \A c \in Oid : parents[c] \in ParentLists(c)
    /\ loaded \in (SUBSET Oid) \ {{}} /\ main \in loaded \cup {None}
    /\ chain \in SUBSET Oid
    /\ main # None => main \in chain /\ \A d \in chain : main <= d
    /\ \A c \in chain : \/ c \in loaded /\ Continues(parents, chain, c)
                        \/ \A d \in chain : d <= c

Unlaid == Listed \ Laid

RowType == [commit : loaded, lane : Lane, incoming : BOOLEAN,
            passing : SUBSET Line, leaving : Seq(Line)]

\* The rows are in the order of the list, and there is room for the rows to come.
RowsInv ==
    /\ lanes \in Lanes /\ done \in BOOLEAN
    /\ rows \in Seq(RowType)
    /\ \A i, j \in DOMAIN rows : i < j => rows[i].commit < rows[j].commit
    /\ \A i \in DOMAIN rows, c \in Unlaid : rows[i].commit < c
    /\ \A c \in Unlaid : Len(lanes) < 2 * c
    /\ done => Unlaid = {}

\* As long as commits of the main line are to come, lane 0 waits for one; only before the
\* first row it may be closed, if that row is the main tip's.
MainWay ==
    main # None /\ chain \cap Unlaid # {}
        => \/ At(lanes, 1) \in chain
           \/ Laid = {} /\ lanes = <<>> /\ main = Min(Listed)

\* A reserved lane passes every row above the main tip, and waits for it.
ReservedPasses ==
    Reserved => /\ main \in Unlaid => At(lanes, 1) = main
                /\ \A i \in DOMAIN rows :
                      rows[i].commit < main => rows[i].lane # 1 /\ Stub \in rows[i].passing

\* Lines that pass a row go straight down or end at its node, and the others leave it.
RowShape(row) ==
    /\ \A e \in row.passing : e.from # row.lane /\ e.to \in {e.from, row.lane}
    /\ \A e, f \in row.passing : e.from = f.from => e = f
    /\ \A k \in DOMAIN row.leaving : row.leaving[k].from = row.lane

\* Until the reserved lane is erased, all lines meet, and the last row's are the lanes
\* that wait.
Meeting ==
    /\ \A i \in DOMAIN rows : RowShape(rows[i])
    /\ \A i \in 1..Len(rows) - 1 : Below(rows[i]) = Above(rows[i + 1])
    /\ rows # <<>> => Below(rows[Len(rows)]) = Busy(lanes)

IInv == /\ HistoryInv /\ RowsInv /\ MainOnLaneZero /\ MainWay
        /\ ~done => ReservedPasses /\ Meeting
        /\ LinesMeet

LEMMA UnlaidIs ==
    ASSUME HistoryInv
    PROVE  /\ Unlaid \subseteq loaded /\ loaded \subseteq Oid
           /\ Min(Listed) \in loaded /\ \A c \in loaded : Min(Listed) <= c
           /\ Unlaid # {} => NextCommit \in Unlaid /\ \A c \in Unlaid : NextCommit <= c
<1>1. Unlaid \subseteq loaded /\ loaded \subseteq Oid /\ loaded # {}
  BY DEF HistoryInv, Unlaid, Listed
<1>2. loaded \in SUBSET Nat /\ Unlaid \in SUBSET Nat
  BY <1>1, OidIsNat
<1>3. Min(loaded) \in loaded /\ \A c \in loaded : Min(loaded) <= c
  BY <1>1, <1>2, MinIs
<1>4. Unlaid # {} => Min(Unlaid) \in Unlaid /\ \A c \in Unlaid : Min(Unlaid) <= c
  BY <1>2, MinIs
<1> QED BY <1>1, <1>3, <1>4 DEF Listed, NextCommit, Unlaid

THEOREM InitialIsInvariant == Init => IInv
<1> SUFFICES ASSUME Init PROVE IInv
  OBVIOUS
<1>1. /\ parents \in Histories[1] /\ loaded \in Windows /\ main \in loaded \cup {None}
      /\ lanes = (IF Reserved THEN <<main>> ELSE <<>>) /\ rows = <<>> /\ done = FALSE
  BY DEF Init
<1>h. PICK head \in (IF main = None THEN loaded \cup {None} ELSE {None}) :
         \E feature : chain = MainChain(parents, loaded, feature,
                                        IF main = None THEN head ELSE main)
  BY DEF Init
<1>2. PICK feature :
         chain = MainChain(parents, loaded, feature, IF main = None THEN head ELSE main)
  BY <1>h
<1> DEFINE tip == IF main = None THEN head ELSE main
<1>3. loaded \in (SUBSET Oid) \ {{}}
  BY <1>1, WindowsAssumption DEF Oid
<1>4. tip \in Oid \cup {None} /\ (main # None => tip = main)
  BY <1>1, <1>3
<1>5. \A c \in Oid : parents[c] \in ParentLists(c)
  BY <1>1, HistoryIs
<1> HIDE DEF tip
<1>6. HistoryInv
  <2>1. CASE tip = None
    <3>1. chain = {}
      BY <1>2, <2>1 DEF MainChain, tip
    <3>2. main = None
      BY <1>4, <2>1
    <3> QED BY <1>1, <1>3, <1>5, <3>1, <3>2 DEF HistoryInv
  <2>2. CASE tip # None
    <3>1. tip \in Oid
      BY <1>4, <2>2
    <3>2. IsLine(parents, loaded, chain, tip)
      <4>1. chain = MainChain(parents, loaded, feature, tip)
        BY <1>2 DEF tip
      <4> QED BY <1>5, <3>1, <4>1, MainChainIs
    <3> QED BY <1>1, <1>3, <1>4, <1>5, <3>2 DEF HistoryInv, IsLine
  <2> QED BY <2>1, <2>2
<1>7. Laid = {} /\ Unlaid = loaded /\ DOMAIN rows = {} /\ Len(rows) = 0
  BY <1>1 DEF Laid, Unlaid, Listed
<1>r. rows \in Seq(RowType)
  BY <1>1
<1>8. CASE Reserved
  <2>1. lanes = <<main>> /\ main \in Oid /\ main # None
    BY <1>1, <1>3, <1>8 DEF Reserved
  <2>2. lanes \in Lanes /\ Len(lanes) = 1 /\ At(lanes, 1) = main
    BY <2>1 DEF Lanes, Slot, At
  <2>3. RowsInv
    <3>1. \A c \in Unlaid : 1 < 2 * c
      BY <1>3, <1>7, OidIsNat
    <3> QED BY <1>1, <1>7, <1>r, <2>2, <3>1 DEF RowsInv
  <2>4. MainWay /\ ReservedPasses
    BY <1>6, <1>7, <2>1, <2>2 DEF MainWay, ReservedPasses, HistoryInv
  <2> QED BY <1>1, <1>6, <1>7, <2>3, <2>4 DEF IInv, MainOnLaneZero, Meeting, LinesMeet
<1>9. CASE ~Reserved
  <2>1. lanes = <<>> /\ (main # None => main = Min(Listed))
    BY <1>1, <1>9 DEF Reserved
  <2>2. lanes \in Lanes /\ Len(lanes) = 0
    BY <2>1 DEF Lanes
  <2>3. RowsInv
    <3>1. \A c \in Unlaid : 0 < 2 * c
      BY <1>3, <1>7, OidIsNat
    <3> QED BY <1>1, <1>7, <1>r, <2>2, <3>1 DEF RowsInv
  <2>4. MainWay /\ ReservedPasses
    BY <1>7, <1>9, <2>1 DEF MainWay, ReservedPasses
  <2> QED BY <1>1, <1>6, <1>7, <2>3, <2>4 DEF IInv, MainOnLaneZero, Meeting, LinesMeet
<1> QED BY <1>8, <1>9

-----------------------------------------------------------------------------
(* Ancestors *)

\* The ancestors that a window of a history shows: those of loaded commits.
AncestorsStep(anc, ps, window, c) ==
    IF c \notin window THEN {} ELSE ToSet(ps[c]) \union UNION {anc[p] : p \in ToSet(ps[c])}

IsAncestry(anc, ps, window) == anc = [c \in Oid |-> AncestorsStep(anc, ps, window, c)]

LEMMA ParentsAre ==
    ASSUME NEW ps, NEW c \in Oid, ps[c] \in ParentLists(c)
    PROVE  \A p \in ToSet(ps[c]) : p \in c + 1..Commits
<1>1. \A i \in DOMAIN ps[c] : ps[c][i] \in Oid /\ ps[c][i] > c
  BY ParentListsAre
<1> QED BY <1>1, CommitsAssumption DEF ToSet, Oid

\* The recursion has a solution.
LEMMA LoadedAncestorsIs ==
    ASSUME NEW ps, \A c \in Oid : ps[c] \in ParentLists(c), NEW window
    PROVE  IsAncestry(LoadedAncestors(ps, window), ps, window)
<1> DEFINE N == Commits
           G(f, c) == IF c \notin window THEN {}
                      ELSE ToSet(ps[c]) \union UNION {f[p] : p \in ToSet(ps[c])}
           proper[c \in Oid] == G(proper, c)
           Upto(n) == \E f : f = [c \in N + 1 - n..N |-> G(f, c)]
           T == {n \in 0..N : Upto(n)}
<1>0. N \in Nat /\ Oid = 1..N
  BY CommitsAssumption DEF Oid
<1>1. ASSUME NEW c \in Oid PROVE \A p \in ToSet(ps[c]) : p \in c + 1..N
  BY ParentsAre
<1> HIDE DEF N
<1>2. 0 \in T
  <2> DEFINE f == [c \in N + 1 - 0..N |-> {}]
  <2>1. N + 1 - 0..N = {}
    BY <1>0
  <2>2. f = [c \in N + 1 - 0..N |-> G(f, c)]
    BY <2>1
  <2> HIDE DEF f
  <2>3. Upto(0)
    BY <2>2
  <2> QED BY <1>0, <2>3
<1>3. ASSUME NEW n \in 1..N, n - 1 \in T PROVE n \in T
  <2>1. PICK f : f = [c \in N + 1 - (n - 1)..N |-> G(f, c)]
    BY <1>3
  <2> DEFINE g == [c \in N + 1 - n..N |-> IF c = N + 1 - n THEN G(f, c) ELSE f[c]]
  <2>2. ASSUME NEW c \in N + 1 - n..N PROVE g[c] = G(f, c) /\ G(g, c) = G(f, c)
    <3>1. n \in Nat /\ n >= 1 /\ n <= N /\ c \in Int /\ c \in Oid /\ N + 1 - n <= c
      BY <1>0
    <3>2. g[c] = G(f, c)
      <4>1. CASE c = N + 1 - n
        BY <4>1
      <4>2. CASE c # N + 1 - n
        <5>1. c \in N + 1 - (n - 1)..N
          BY <1>0, <3>1, <4>2
        <5>2. f[c] = G(f, c)
          BY <2>1, <5>1
        <5> QED BY <4>2, <5>2
      <4> QED BY <4>1, <4>2
    <3>3. G(g, c) = G(f, c)
      <4>1. \A p \in ToSet(ps[c]) : g[p] = f[p]
        <5> TAKE p \in ToSet(ps[c])
        <5>1. p \in c + 1..N
          BY <1>1, <3>1
        <5>2. p \in N + 1 - n..N /\ p # N + 1 - n
          BY <1>0, <3>1, <5>1
        <5> QED BY <5>2
      <4> HIDE DEF g
      <4> QED BY <4>1
    <3> QED BY <3>2, <3>3
  <2>3. g = [c \in N + 1 - n..N |-> g[c]]
    OBVIOUS
  <2> HIDE DEF g
  <2>4. g = [c \in N + 1 - n..N |-> G(g, c)]
    <3> HIDE DEF G
    <3> QED BY <2>2, <2>3
  <2>5. Upto(n)
    BY <2>4
  <2> QED BY <1>0, <2>5
<1>4. N \in T
  <2> HIDE DEF T
  <2>1. 0..N \subseteq T
    BY <1>0, <1>2, <1>3, CountUp
  <2> QED BY <1>0, <2>1
<1>5. PICK f : f = [c \in N + 1 - N..N |-> G(f, c)]
  BY <1>4
<1>6. N + 1 - N = 1
  BY <1>0
<1>7. f = [c \in Oid |-> G(f, c)]
  BY <1>0, <1>5, <1>6
<1>8. proper = [c \in Oid |-> G(proper, c)]
  <2> HIDE DEF G
  <2> QED BY <1>7, Zenon
<1>9. LoadedAncestors(ps, window) = proper
  BY DEF LoadedAncestors
<1> HIDE DEF proper
<1>10. IsAncestry(proper, ps, window)
  BY <1>8 DEF IsAncestry, AncestorsStep
<1> QED BY <1>9, <1>10

\* What holds for the last commit, and for every commit if it holds for those after it,
\* holds for every commit.
LEMMA CountDown ==
    ASSUME NEW T, \A c \in Oid : (\A d \in c + 1..Commits : d \in T) => c \in T
    PROVE  Oid \subseteq T
<1> DEFINE N == Commits
           U == {n \in 0..N : \A d \in N + 1 - n..N : d \in T}
<1>0. N \in Nat /\ Oid = 1..N
  BY CommitsAssumption DEF Oid
<1>1. \A c \in 1..N : (\A d \in c + 1..N : d \in T) => c \in T
  BY <1>0
<1> HIDE DEF N
<1>2. 0 \in U
  <2>1. N + 1 - 0..N = {} /\ 0 \in 0..N
    BY <1>0
  <2> QED BY <2>1
<1>3. ASSUME NEW n \in 1..N, n - 1 \in U PROVE n \in U
  <2> DEFINE c == N + 1 - n
  <2>1. /\ c \in 1..N /\ c + 1 = N + 1 - (n - 1) /\ n \in 0..N
        /\ \A d \in c..N : d = c \/ d \in c + 1..N
    BY <1>0
  <2>2. \A d \in N + 1 - (n - 1)..N : d \in T
    BY <1>3
  <2> HIDE DEF c
  <2>3. c \in T
    BY <1>1, <2>1, <2>2
  <2>4. \A d \in c..N : d \in T
    BY <2>1, <2>2, <2>3
  <2> QED BY <2>1, <2>4 DEF c
<1>4. N \in U
  <2> HIDE DEF U
  <2>1. 0..N \subseteq U
    BY <1>0, <1>2, <1>3, CountUp
  <2> QED BY <1>0, <2>1
<1>5. N + 1 - N = 1
  BY <1>0
<1> QED BY <1>0, <1>4, <1>5

\* Ancestors come later in the list, only loaded commits have any, and an ancestor's are
\* a commit's own.
LEMMA AncestorsAre ==
    ASSUME HistoryInv, IsAncestry(ancestors, parents, loaded), NEW d \in Oid
    PROVE  /\ ancestors[d] \subseteq Oid /\ \A a \in ancestors[d] : d < a
           /\ ancestors[d] # {} => d \in loaded
           /\ \A b \in ancestors[d] : ancestors[b] \subseteq ancestors[d]
           /\ d \in loaded => Parents(d) \subseteq ancestors[d]
<1> DEFINE Good(c) == /\ ancestors[c] \subseteq Oid /\ \A a \in ancestors[c] : c < a
                      /\ \A b \in ancestors[c] : ancestors[b] \subseteq ancestors[c]
           T == {c \in Oid : Good(c)}
<1>1. ASSUME NEW c \in Oid
      PROVE  /\ c \notin loaded => ancestors[c] = {}
             /\ c \in loaded =>
                   ancestors[c] = Parents(c) \cup UNION {ancestors[p] : p \in Parents(c)}
  BY DEF IsAncestry, AncestorsStep, Parents
<1>2. ASSUME NEW c \in Oid, \A p \in c + 1..Commits : p \in T PROVE c \in T
  <2>1. CASE c \notin loaded
    BY <1>1, <2>1
  <2>2. CASE c \in loaded
    <3>1. \A p \in Parents(c) : p \in c + 1..Commits
      BY ParentsAre DEF HistoryInv, Parents
    <3>2. \A p \in Parents(c) : p \in T /\ p \in Oid /\ c < p
      <4>1. c \in Nat
        BY OidIsNat
      <4> QED BY <1>2, <3>1, <4>1
    <3>3. \A p \in Parents(c) : Good(p)
      BY <3>2
    <3>4. ancestors[c] = Parents(c) \cup UNION {ancestors[p] : p \in Parents(c)}
      BY <1>1, <2>2
    <3>5. ASSUME NEW a \in ancestors[c]
          PROVE  a \in Oid /\ c < a /\ ancestors[a] \subseteq ancestors[c]
      <4>1. CASE a \in Parents(c)
        BY <3>2, <3>4, <4>1
      <4>2. CASE a \notin Parents(c)
        <5>1. PICK p \in Parents(c) : a \in ancestors[p]
          BY <3>4, <4>2
        <5>2. a \in Oid /\ p < a /\ c < p /\ ancestors[a] \subseteq ancestors[p] /\ p \in Oid
          BY <3>2, <3>3, <5>1
        <5>3. ancestors[p] \subseteq ancestors[c]
          BY <3>4
        <5>4. c < a
          BY <5>2, OidIsNat
        <5> QED BY <5>2, <5>3, <5>4
      <4> QED BY <4>1, <4>2
    <3> QED BY <3>5
  <2> QED BY <2>1, <2>2
<1>3. d \in T
  <2> HIDE DEF T
  <2>1. Oid \subseteq T
    BY <1>2, CountDown
  <2> QED BY <2>1
<1> QED BY <1>1, <1>3

\* Of two commits of the main line the later is an ancestor of the earlier.
LEMMA MainAncestors ==
    ASSUME HistoryInv, IsAncestry(ancestors, parents, loaded),
           NEW c \in chain, NEW d \in chain, c < d
    PROVE  d \in ancestors[c]
<1> DEFINE T == {a \in Oid : a \in chain /\ a < d => d \in ancestors[a]}
<1>1. ASSUME NEW a \in Oid, \A b \in a + 1..Commits : b \in T PROVE a \in T
  <2> SUFFICES ASSUME a \in chain, a < d PROVE d \in ancestors[a]
    OBVIOUS
  <2>1. a \in Nat /\ d \in Nat /\ d \in Oid /\ ~(d <= a)
    BY OidIsNat DEF HistoryInv
  <2>2. a \in loaded /\ Continues(parents, chain, a)
    BY <2>1 DEF HistoryInv
  <2>3. PICK i \in DOMAIN parents[a] : parents[a][i] \in chain /\ parents[a][i] <= d
    BY <2>2 DEF Continues
  <2> DEFINE p == parents[a][i]
  <2>4. p \in Parents(a) /\ p \in chain /\ p <= d
    BY <2>3 DEF Parents, ToSet
  <2> HIDE DEF p
  <2>5. p \in a + 1..Commits /\ p \in Nat
    BY <2>1, <2>4, ParentsAre, CommitsAssumption DEF HistoryInv, Parents
  <2>6. Parents(a) \subseteq ancestors[a] /\ ancestors[p] \subseteq ancestors[a]
    BY <2>2, <2>4, AncestorsAre
  <2>7. CASE p = d
    BY <2>4, <2>6, <2>7
  <2>8. CASE p # d
    <3>1. p < d /\ p \in T
      BY <1>1, <2>1, <2>4, <2>5, <2>8
    <3> QED BY <2>4, <2>6, <3>1
  <2> QED BY <2>7, <2>8
<1>2. Oid \subseteq T
  <2> HIDE DEF T
  <2> QED BY <1>1, CountDown
<1> QED BY <1>2 DEF HistoryInv

-----------------------------------------------------------------------------
(* One row *)

\* What laying c's row does: the lanes that waited enter it, those that wait then leave
\* it; off the main line lane 0 is not taken and not closed, and on the main line it is
\* the commit's own, and waits for the next one.
LaidRow(c, row, ls) ==
    /\ row \in RowType /\ row.commit = c /\ RowShape(row)
    /\ Above(row) = Busy(lanes) /\ Below(row) = Busy(ls)
    /\ ls \in Lanes /\ Len(ls) < 2 * (c + 1)
    /\ c \notin chain => row.lane # 1
    /\ c \notin chain /\ At(lanes, 1) \in chain
           => At(ls, 1) = At(lanes, 1) /\ Stub \in row.passing
    /\ c \in chain /\ At(lanes, 1) \in chain \cup {None}
           => /\ row.lane = 1
              /\ At(ls, 1) \in chain \/ \A d \in chain : d <= c

\* The line in lane l ends at c's row if it waited for c or is in the lane c takes, or else
\* its lane waits on.
EndsOrWaits(c, row, ls, l) ==
    /\ EndsAt(row, l) <=> l = row.lane \/ At(lanes, l) = c
    /\ ~EndsAt(row, l) => At(ls, l) = At(lanes, l)

\* Where lines lead when c's row is laid: one ends at c if it waited for c or is in the
\* lane c takes, and the others wait on; c takes a lane that waited for it, for a
\* descendant, or on the main line for the main line; the line to each parent waits for it
\* or a descendant, the first for the parent itself; and what waits then is that.
LaidLines(c, row, ls) ==
    /\ \A l \in Busy(lanes) : EndsOrWaits(c, row, ls, l)
    /\ At(lanes, row.lane) # None
           => \/ IsAncestor(c, At(lanes, row.lane))
              \/ row.lane = 1 /\ {c, At(lanes, 1)} \subseteq chain
    /\ Len(row.leaving) = Len(Routed(c)) /\ Routed(c) \in Seq(Oid)
    /\ \A k \in 1..Len(Routed(c)) :
           LET w == At(ls, row.leaving[k].to)
           IN  w \in Oid /\ IsAncestor(Routed(c)[k], w) /\ (k = 1 => w = Routed(c)[1])
    /\ \A l \in Busy(ls) : \/ At(ls, l) = At(lanes, l) /\ At(ls, l) # c
                          \/ \E k \in 1..Len(Routed(c)) : At(ls, l) = Routed(c)[k]
    /\ (/\ c \in chain /\ At(lanes, 1) \in chain \cup {None}
        /\ Routed(c) # <<>> /\ Routed(c)[1] \in chain)
           => At(ls, 1) = Routed(c)[1]

LEMMA LayRowIs ==
    ASSUME HistoryInv, RowsInv, LayRow
    PROVE  \E row : /\ rows' = Append(rows, row) /\ LaidRow(NextCommit, row, lanes')
                    /\ LaidLines(NextCommit, row, lanes')
<1> DEFINE c == NextCommit
           placed == Place(c, lanes)
           node == placed.lane
           under == placed.lanes
           busy == {l \in DOMAIN under \ {node} : under[l] # None}
           passing == {[from |-> l, to |-> IF under[l] = c THEN node ELSE l] : l \in busy}
           left == [l \in DOMAIN under |-> IF under[l] = c THEN None ELSE under[l]]
           routed == Route(c, node, left)
           row == [commit |-> c, lane |-> node, incoming |-> placed.incoming,
                   passing |-> passing, leaving |-> routed.edges]
           n == Len(Routed(c))
<1>1. rows' = Append(rows, row) /\ lanes' = Trimmed(routed.lanes)
  BY DEF LayRow
<1>2. c \in Unlaid /\ c \in loaded /\ c \in Oid /\ c \in Nat /\ c >= 1 /\ c <= Commits
  <2>1. Unlaid # {}
    BY DEF LayRow, Unlaid
  <2> QED BY <2>1, UnlaidIs, CommitsAssumption DEF Oid
<1>3. parents[c] \in ParentLists(c)
  BY <1>2 DEF HistoryInv
<1>4. /\ Len(parents[c]) \in 0..2
      /\ c = Commits => Len(parents[c]) = 0
  BY <1>2, <1>3, ParentListsAre
<1>5. /\ Routed(c) \in Seq(Oid) /\ n = Len(parents[c])
      /\ c \in chain /\ (\E i \in DOMAIN parents[c] : parents[c][i] \in chain)
            => n > 0 /\ Routed(c)[1] \in chain
  BY <1>2, <1>3, RoutedIs
<1>6. lanes \in Lanes /\ Len(lanes) \in Nat /\ Len(lanes) < 2 * c
  BY <1>2 DEF RowsInv, Lanes
<1> HIDE DEF c
<1>7. /\ Placed(c, lanes, placed)
      /\ c \notin chain => node # 1
      /\ c \in chain /\ At(lanes, 1) \in chain \cup {None} => node = 1
      /\ At(lanes, node) # None
            => \/ IsAncestor(c, At(lanes, node))
               \/ node = 1 /\ {c, At(lanes, 1)} \subseteq chain
  BY <1>2, <1>6, PlaceIs
<1> HIDE DEF placed
<1>8. /\ node \in Nat \ {0} /\ under \in Lanes /\ node \in DOMAIN under
      /\ At(under, node) = c
      /\ \A k \in Nat \ {0, node} : At(under, k) = At(lanes, k)
      /\ placed.incoming \in BOOLEAN /\ (placed.incoming <=> At(lanes, node) # None)
      /\ Len(under) \in Nat /\ Len(under) <= 2 * c
  <2>1. Placed(c, lanes, placed)
    BY <1>7
  <2>2. Len(under) \in Nat
    BY <2>1 DEF Placed, Lanes
  <2>3. Len(under) <= 2 * c
    BY <1>2, <1>6, <2>1, <2>2 DEF Placed
  <2> QED BY <2>1, <2>2, <2>3 DEF Placed
<1> DEFINE incoming == placed.incoming
<1>9. incoming \in BOOLEAN /\ (incoming <=> At(lanes, node) # None)
  BY <1>8
<1>10. row = [commit |-> c, lane |-> node, incoming |-> incoming,
              passing |-> passing, leaving |-> routed.edges]
  OBVIOUS
<1> HIDE DEF node, under, incoming
<1>11. busy = Busy(under) \ {node} /\ left = Left(c, under)
  BY DEF Busy, Left
<1>12. /\ left \in Lanes /\ Len(left) = Len(under)
       /\ \A k \in Nat \ {0} : At(left, k) = IF At(under, k) = c THEN None ELSE At(under, k)
  BY <1>2, <1>8, <1>11, LeftIs
<1>13. At(left, node) = None /\ node \in DOMAIN left
  <2>1. At(left, node) = None
    BY <1>8, <1>12
  <2>2. DOMAIN left = DOMAIN under
    OBVIOUS
  <2> QED BY <1>8, <2>1, <2>2
<1> HIDE DEF left
<1>14. routed \in Drawn(c, node, left, n)
  <2>1. None \notin chain
    BY OidIsNat DEF HistoryInv
  <2> QED BY <1>2, <1>5, <1>12, <1>13, <2>1, RouteIs
<1> HIDE DEF routed, n
<1>15. /\ routed.edges \in Seq(Edge) /\ routed.lanes \in Lanes /\ Len(routed.edges) = n
       /\ \A i \in 1..n : routed.edges[i].from = node /\ routed.edges[i].to \in Busy(routed.lanes)
       /\ Busy(routed.lanes) = Busy(left) \cup {routed.edges[i].to : i \in 1..n}
       /\ \A k \in Busy(left) : At(routed.lanes, k) = At(left, k)
       /\ \A i \in 1..n : IsAncestor(Routed(c)[i], At(routed.lanes, routed.edges[i].to))
       /\ n > 0 => At(routed.lanes, routed.edges[1].to) = Routed(c)[1]
       /\ \A k \in Busy(routed.lanes) \ Busy(left) :
             \E i \in 1..n : At(routed.lanes, k) = Routed(c)[i]
       /\ n = 0 => routed.lanes = left
       /\ n > 0 => Len(routed.lanes) < Len(left) + n
       /\ n > 0 /\ {c, Routed(c)[1]} \subseteq chain /\ At(left, 1) = None
               => At(routed.lanes, 1) = Routed(c)[1]
  BY <1>14 DEF Drawn, Drawing
<1>16. n \in 0..2 /\ (c = Commits => n = 0)
  BY <1>4, <1>5
<1>17. Len(routed.lanes) \in Nat /\ Len(routed.lanes) < 2 * (c + 1)
       /\ (n > 0 => Len(routed.lanes) <= 2 * Commits) /\ Len(under) <= 2 * Commits
  <2>1. Len(routed.lanes) \in Nat /\ Commits \in Nat
    BY <1>15, CommitsAssumption DEF Lanes
  <2>2. n = 0 \/ n = 1 \/ n = 2
    BY <1>16
  <2>3. CASE n = 0
    BY <1>2, <1>8, <1>12, <1>15, <2>1, <2>3
  <2>4. CASE n # 0
    <3>1. c + 1 <= Commits
      BY <1>2, <1>16, <2>1, <2>4
    <3>2. Len(routed.lanes) <= Len(left) + 1
      BY <1>8, <1>12, <1>15, <2>1, <2>2, <2>4
    <3> QED BY <1>2, <1>8, <1>12, <2>1, <3>1, <3>2
  <2> QED BY <2>3, <2>4
<1> DEFINE ls == Trimmed(routed.lanes)
<1>18. /\ ls \in Lanes /\ Len(ls) < 2 * (c + 1)
       /\ \A k \in Nat \ {0} : At(ls, k) = At(routed.lanes, k)
  <2>1. /\ ls \in Lanes /\ Len(ls) <= Len(routed.lanes)
        /\ \A k \in Nat \ {0} : At(ls, k) = At(routed.lanes, k)
    BY <1>15, TrimmedIs
  <2>2. Len(ls) \in Nat
    BY <2>1 DEF Lanes
  <2> QED BY <1>2, <1>17, <2>1, <2>2
<1> HIDE DEF ls
<1>19. Busy(ls) = Busy(routed.lanes)
  <2>1. Busy(ls) \subseteq Nat \ {0} /\ Busy(routed.lanes) \subseteq Nat \ {0}
    BY <1>15, <1>18 DEF Busy, Lanes
  <2>2. \A k \in Nat \ {0} : k \in Busy(ls) <=> k \in Busy(routed.lanes)
    BY <1>15, <1>18, AtIs
  <2> QED BY <2>1, <2>2
\* The lines that pass or end.
<1>20. /\ busy \subseteq Nat \ {0} /\ busy \subseteq 1..Len(under) /\ node \notin busy
       /\ \A k \in busy : At(under, k) = under[k] /\ At(lanes, k) # None
       /\ Busy(lanes) = busy \cup IF incoming THEN {node} ELSE {}
  <2>1. busy \subseteq Nat \ {0} /\ busy \subseteq 1..Len(under) /\ node \notin busy
    BY <1>8, <1>11 DEF Busy, Lanes
  <2>2. \A k \in Nat \ {0, node} : k \in busy <=> At(lanes, k) # None
    <3> TAKE k \in Nat \ {0, node}
    <3>1. k \in Busy(under) <=> At(under, k) # None
      BY <1>8, AtIs
    <3> QED BY <1>8, <1>11, <3>1
  <2>3. \A k \in Nat \ {0} : k \in Busy(lanes) <=> At(lanes, k) # None
    BY <1>6, AtIs
  <2>4. Busy(lanes) \subseteq Nat \ {0}
    BY <1>6 DEF Busy, Lanes
  <2>5. \A k \in busy : At(under, k) = under[k]
    BY <1>8, <2>1, AtIs DEF Lanes
  <2>6. Busy(lanes) = busy \cup IF incoming THEN {node} ELSE {}
    BY <1>8, <1>9, <2>1, <2>2, <2>3, <2>4
  <2> QED BY <2>1, <2>2, <2>5, <2>6
<1>21. Busy(left) = {k \in busy : under[k] # c}
  <2>1. /\ Busy(left) \subseteq Nat \ {0}
        /\ \A k \in Nat \ {0} : k \in Busy(left) <=> At(left, k) # None
    BY <1>12, AtIs DEF Busy, Lanes
  <2>2. \A k \in Nat \ {0} : k \in Busy(under) <=> At(under, k) # None
    BY <1>8, AtIs
  <2> HIDE DEF busy
  <2>3. \A k \in Nat \ {0} : k \in Busy(left) <=> (k \in busy /\ under[k] # c)
    <3> TAKE k \in Nat \ {0}
    <3>1. CASE k = node
      BY <1>13, <1>20, <2>1, <3>1
    <3>2. CASE k # node
      <4>1. k \in busy <=> At(under, k) # None
        BY <1>11, <2>2, <3>2
      <4>2. k \in busy => At(under, k) = under[k]
        BY <1>20
      <4>3. At(left, k) # None <=> (At(under, k) # None /\ At(under, k) # c)
        BY <1>12
      <4> QED BY <2>1, <4>1, <4>2, <4>3
    <3> QED BY <3>1, <3>2
  <2> QED BY <1>20, <2>1, <2>3
<1> HIDE DEF busy
<1> DEFINE line(l) == [from |-> l, to |-> IF under[l] = c THEN node ELSE l]
<1>22. /\ passing = {line(l) : l \in busy}
       /\ \A l \in busy : /\ line(l).from = l
                          /\ line(l).to = IF under[l] = c THEN node ELSE l
  OBVIOUS
<1>23. node \in Lane /\ busy \subseteq Lane
  <2>1. node \in 1..Len(under)
    BY <1>8 DEF Lanes
  <2> QED BY <1>8, <1>17, <1>20, <2>1, CommitsAssumption DEF Lane
<1>24. \A l \in busy : line(l) \in Line
  BY <1>22, <1>23 DEF Line
<1> HIDE DEF line
<1>25. passing \subseteq Line
  BY <1>22, <1>24
<1> HIDE DEF passing
<1>26. routed.edges \in Seq(Line)
  <2>1. \A i \in 1..n : routed.edges[i] \in Line
    <3> TAKE i \in 1..n
    <3>1. routed.edges[i] \in Edge /\ routed.edges[i].from = node
          /\ routed.edges[i].to \in 1..Len(routed.lanes)
      BY <1>15 DEF Busy, Lanes
    <3>2. n > 0
      BY <1>16
    <3>3. routed.edges[i].to \in Lane
      BY <1>17, <3>1, <3>2, CommitsAssumption DEF Lane
    <3> QED BY <1>23, <3>1, <3>3 DEF Edge, Line
  <2> QED BY <1>15, <1>16, <2>1
<1>27. /\ row.commit = c /\ row.lane = node /\ row.incoming = incoming
       /\ row.passing = passing /\ row.leaving = routed.edges
  BY <1>10
<1>28. row \in RowType
  BY <1>2, <1>9, <1>10, <1>23, <1>25, <1>26 DEF RowType
<1> HIDE DEF row
<1>29. RowShape(row)
  <2>1. \A e \in passing : e.from # node /\ e.to \in {e.from, node}
    BY <1>20, <1>22
  <2>2. \A e, f \in passing : e.from = f.from => e = f
    BY <1>22
  <2>3. \A k \in DOMAIN routed.edges : routed.edges[k].from = node
    BY <1>15, <1>16
  <2> QED BY <1>27, <2>1, <2>2, <2>3 DEF RowShape
<1>30. Above(row) = Busy(lanes)
  <2>1. {e.from : e \in passing} = busy
    BY <1>22
  <2> QED BY <1>20, <1>27, <2>1 DEF Above
<1>31. Below(row) = Busy(ls)
  <2>1. {p.to : p \in {e \in passing : e.from = e.to}} = {k \in busy : under[k] # c}
    <3>1. ASSUME NEW e \in passing, e.from = e.to
          PROVE  e.to \in busy /\ under[e.to] # c
      BY <1>20, <1>22, <3>1
    <3>2. ASSUME NEW k \in busy, under[k] # c
          PROVE  \E e \in passing : e.from = e.to /\ e.to = k
      BY <1>22, <3>2
    <3> QED BY <3>1, <3>2
  <2>2. ToSet(routed.edges) = {routed.edges[i] : i \in 1..n}
    BY <1>15, <1>16 DEF ToSet
  <2>3. Below(row) = {p.to : p \in {e \in passing : e.from = e.to}}
                     \cup {routed.edges[i].to : i \in 1..n}
    BY <1>27, <2>2 DEF Below
  <2> QED BY <1>15, <1>19, <1>21, <2>1, <2>3
\* Lane 0.
<1>32. c \notin chain => node # 1
  BY <1>7
<1>33. ASSUME c \notin chain, At(lanes, 1) \in chain
       PROVE  At(ls, 1) = At(lanes, 1) /\ Stub \in passing
  <2>1. At(lanes, 1) # None /\ At(lanes, 1) # c /\ node # 1
    BY <1>32, <1>33, OidIsNat DEF HistoryInv
  <2>2. At(under, 1) = At(lanes, 1)
    BY <1>8, <2>1
  <2>3. 1 \in busy /\ under[1] # c
    <3>1. 1 \in Busy(lanes)
      BY <1>6, <2>1, AtIs
    <3>2. 1 \in busy
      BY <1>20, <2>1, <3>1
    <3> QED BY <1>20, <2>1, <2>2, <3>2
  <2>4. At(ls, 1) = At(lanes, 1)
    <3>1. 1 \in Busy(left)
      BY <1>21, <2>3
    <3> QED BY <1>12, <1>15, <1>18, <2>1, <2>2, <3>1
  <2>5. line(1) = Stub
    BY <2>3 DEF line, Stub
  <2> QED BY <1>22, <2>3, <2>4, <2>5
<1>34. ASSUME c \in chain, At(lanes, 1) \in chain \cup {None}
       PROVE  node = 1 /\ (At(ls, 1) \in chain \/ \A d \in chain : d <= c)
  <2>1. node = 1
    BY <1>7, <1>34
  <2>2. CASE \E i \in DOMAIN parents[c] : parents[c][i] \in chain
    <3>1. At(routed.lanes, 1) \in chain
      BY <1>5, <1>13, <1>15, <1>34, <2>1, <2>2
    <3> QED BY <1>18, <2>1, <3>1
  <2>3. CASE ~\E i \in DOMAIN parents[c] : parents[c][i] \in chain
    BY <1>34, <2>1, <2>3 DEF HistoryInv, Continues
  <2> QED BY <2>2, <2>3
<1>35. LaidRow(c, row, ls)
  BY <1>18, <1>27, <1>28, <1>29, <1>30, <1>31, <1>32, <1>33, <1>34 DEF LaidRow
\* Where lines lead.
<1>36. ASSUME NEW l \in Busy(lanes)
       PROVE  EndsOrWaits(c, row, ls, l)
  <2>1. CASE l = node
    BY <1>27, <2>1 DEF EndsAt, EndsOrWaits
  <2>2. CASE l # node
    <3>1. l \in busy /\ l \in Nat \ {0} /\ under[l] = At(lanes, l)
      BY <1>8, <1>20, <2>2
    <3>2. [from |-> l, to |-> node] \in passing <=> At(lanes, l) = c
      <4>1. ASSUME At(lanes, l) = c PROVE [from |-> l, to |-> node] \in passing
        BY <1>22, <3>1, <4>1 DEF line
      <4>2. ASSUME [from |-> l, to |-> node] \in passing PROVE At(lanes, l) = c
        <5> DEFINE e == [from |-> l, to |-> node]
        <5>1. e.from = l /\ e.to = node
          OBVIOUS
        <5>2. PICK k \in busy : e = line(k)
          BY <1>22, <4>2
        <5> HIDE DEF e
        <5>3. k = l /\ (IF under[k] = c THEN node ELSE k) = node
          BY <1>22, <5>1, <5>2
        <5> QED BY <2>2, <3>1, <5>3
      <4> QED BY <4>1, <4>2
    <3>3. EndsAt(row, l) <=> At(lanes, l) = c
      BY <1>27, <2>2, <3>2 DEF EndsAt
    <3>4. ASSUME At(lanes, l) # c PROVE At(ls, l) = At(lanes, l)
      <4>1. l \in Busy(left)
        BY <1>21, <3>1, <3>4
      <4>2. At(left, l) = At(under, l)
        BY <1>12, <1>20, <3>1, <3>4
      <4> QED BY <1>15, <1>18, <1>20, <3>1, <4>1, <4>2
    <3> QED BY <1>27, <2>2, <3>3, <3>4 DEF EndsOrWaits
  <2> QED BY <2>1, <2>2
<1>37. ASSUME NEW k \in 1..n
       PROVE  LET w == At(ls, routed.edges[k].to)
              IN  w \in Oid /\ IsAncestor(Routed(c)[k], w) /\ (k = 1 => w = Routed(c)[1])
  <2> DEFINE l == routed.edges[k].to
  <2>1. l \in Busy(routed.lanes) /\ l \in Nat \ {0} /\ n > 0
    BY <1>15, <1>16 DEF Busy, Lanes
  <2>2. At(ls, l) = At(routed.lanes, l)
    BY <1>18, <2>1
  <2>3. At(ls, l) \in Oid
    <3>1. At(ls, l) # None
      BY <1>15, <2>1, <2>2, AtIs
    <3>2. At(ls, l) \in Slot
      BY <1>18, <2>1, AtIs
    <3> QED BY <3>1, <3>2 DEF Slot
  <2> QED BY <1>15, <2>1, <2>2, <2>3
<1>38. ASSUME NEW l \in Busy(ls)
       PROVE  \/ At(ls, l) = At(lanes, l) /\ At(ls, l) # c
              \/ \E k \in 1..n : At(ls, l) = Routed(c)[k]
  <2>1. l \in Busy(routed.lanes) /\ l \in Nat \ {0} /\ At(ls, l) = At(routed.lanes, l)
    BY <1>18, <1>19 DEF Busy, Lanes
  <2>2. CASE l \in Busy(left)
    <3>1. l \in busy /\ l # node /\ under[l] # c
      BY <1>20, <1>21, <2>2
    <3>2. At(under, l) = At(lanes, l) /\ At(under, l) = under[l]
      BY <1>8, <1>20, <2>1, <3>1
    <3>3. At(routed.lanes, l) = At(under, l)
      BY <1>12, <1>15, <2>1, <2>2, <3>1, <3>2
    <3> QED BY <2>1, <3>1, <3>2, <3>3
  <2>3. CASE l \notin Busy(left)
    BY <1>15, <2>1, <2>3
  <2> QED BY <2>2, <2>3
<1>39. ASSUME c \in chain, At(lanes, 1) \in chain \cup {None},
              Routed(c) # <<>>, Routed(c)[1] \in chain
       PROVE  At(ls, 1) = Routed(c)[1]
  <2>1. n > 0
    BY <1>5, <1>16, <1>39 DEF n
  <2>2. At(left, 1) = None
    BY <1>13, <1>34, <1>39
  <2> QED BY <1>15, <1>18, <1>39, <2>1, <2>2
<1>40. LaidLines(c, row, ls)
  <2>1. At(lanes, node) # None
            => \/ IsAncestor(c, At(lanes, node))
               \/ node = 1 /\ {c, At(lanes, 1)} \subseteq chain
    BY <1>7 DEF node
  <2>2. Len(routed.edges) = Len(Routed(c)) /\ Routed(c) \in Seq(Oid)
    BY <1>5, <1>15 DEF n
  <2> QED BY <1>27, <1>36, <1>37, <1>38, <1>39, <2>1, <2>2 DEF LaidLines, n
<1> QED BY <1>1, <1>35, <1>40 DEF c, ls

\* The row is added under the others, for the first of the commits to come.
Adds(c, row) ==
    /\ c \in Unlaid /\ \A d \in Unlaid : c <= d
    /\ Len(rows) \in Nat /\ DOMAIN rows = 1..Len(rows)
    /\ rows' \in Seq(RowType) /\ Len(rows') = Len(rows) + 1 /\ DOMAIN rows' = 1..Len(rows) + 1
    /\ \A i \in 1..Len(rows) : rows'[i] = rows[i]
    /\ rows'[Len(rows) + 1] = row /\ Laid' = Laid \cup {c}
    /\ UNCHANGED <<parents, loaded, main, chain, ancestors, done>> /\ ~done

LEMMA LayRowAdds ==
    ASSUME IInv, LayRow
    PROVE  \E row : /\ LaidRow(NextCommit, row, lanes') /\ LaidLines(NextCommit, row, lanes')
                    /\ Adds(NextCommit, row)
<1> DEFINE c == NextCommit
           n == Len(rows)
<1>1. HistoryInv /\ RowsInv
  BY DEF IInv
<1>2. PICK row : /\ rows' = Append(rows, row) /\ LaidRow(c, row, lanes')
                 /\ LaidLines(c, row, lanes')
  BY <1>1, LayRowIs
<1>3. c \in Unlaid /\ \A d \in Unlaid : c <= d
  BY <1>1, UnlaidIs DEF LayRow, Unlaid
<1>4. ~done /\ UNCHANGED <<parents, loaded, main, chain, ancestors, done>>
  BY <1>1, <1>3 DEF LayRow, RowsInv, history
<1>5. row \in RowType /\ row.commit = c
  BY <1>2 DEF LaidRow
<1> HIDE DEF c
<1>6. /\ rows \in Seq(RowType) /\ n \in Nat /\ DOMAIN rows = 1..n
      /\ rows' \in Seq(RowType) /\ Len(rows') = n + 1 /\ DOMAIN rows' = 1..n + 1
      /\ \A i \in 1..n : rows'[i] = rows[i]
      /\ rows'[n + 1] = row
  BY <1>1, <1>2, <1>5 DEF RowsInv
<1> HIDE DEF n
<1>7. Laid' = Laid \cup {c}
  <2>1. Laid = {rows[i].commit : i \in 1..n} /\ Laid' = {rows'[i].commit : i \in 1..n + 1}
    BY <1>6 DEF Laid
  <2>2. n + 1 \in 1..n + 1 /\ \A i \in 1..n + 1 : i \in 1..n \/ i = n + 1
    BY <1>6
  <2>3. \A i \in 1..n : i \in 1..n + 1
    BY <1>6
  <2> QED BY <1>5, <1>6, <2>1, <2>2, <2>3
<1>8. Adds(c, row)
  BY <1>3, <1>4, <1>6, <1>7 DEF Adds, n
<1> QED BY <1>2, <1>8 DEF c

LEMMA LayRowKeeps ==
    ASSUME IInv, LayRow
    PROVE  IInv'
<1> DEFINE c == NextCommit
           n == Len(rows)
<1>1. HistoryInv /\ RowsInv /\ MainOnLaneZero /\ MainWay
  BY DEF IInv
<1>2. PICK row : LaidRow(c, row, lanes') /\ Adds(c, row)
  BY LayRowAdds
<1>3. c \in Unlaid /\ Unlaid \subseteq Oid /\ \A d \in Unlaid : c <= d
  BY <1>1, <1>2, UnlaidIs DEF Adds
<1>4. ~done /\ done' = done
  BY <1>2 DEF Adds
<1>5. UNCHANGED <<parents, loaded, main, chain>>
  BY <1>2 DEF Adds
<1>6. ReservedPasses /\ Meeting
  BY <1>4 DEF IInv
<1> HIDE DEF c
<1>7. /\ row \in RowType /\ row.commit = c /\ RowShape(row)
      /\ Above(row) = Busy(lanes) /\ Below(row) = Busy(lanes')
      /\ lanes' \in Lanes /\ Len(lanes') < 2 * (c + 1)
      /\ c \notin chain => row.lane # 1
      /\ c \notin chain /\ At(lanes, 1) \in chain
             => At(lanes', 1) = At(lanes, 1) /\ Stub \in row.passing
      /\ c \in chain /\ At(lanes, 1) \in chain \cup {None}
             => row.lane = 1 /\ (At(lanes', 1) \in chain \/ \A d \in chain : d <= c)
  BY <1>2 DEF LaidRow
<1>8. /\ rows \in Seq(RowType) /\ n \in Nat /\ DOMAIN rows = 1..n
      /\ rows' \in Seq(RowType) /\ Len(rows') = n + 1 /\ DOMAIN rows' = 1..n + 1
      /\ \A i \in 1..n : rows'[i] = rows[i]
      /\ rows'[n + 1] = row
      /\ rows' # <<>>
  BY <1>1, <1>2 DEF Adds, RowsInv
<1> HIDE DEF n
<1>9. \A i \in 1..n + 1 : i \in 1..n \/ i = n + 1
  BY <1>8
<1>10. /\ RowType' = RowType /\ Listed' = Listed /\ Lane' = Lane /\ Lanes' = Lanes
       /\ Reserved' = Reserved
  BY <1>5 DEF RowType, Listed, Lane, Lanes, Slot, Oid, Reserved, Line
<1>11. Laid' = Laid \cup {c}
  BY <1>2 DEF Adds
<1>12. Unlaid' = Unlaid \ {c}
  BY <1>10, <1>11 DEF Unlaid
<1>13. \A d \in Unlaid' : c < d /\ d \in Unlaid
  BY <1>3, <1>12, OidIsNat
<1>14. HistoryInv'
  <2>1. \A d : ParentLists(d)' = ParentLists(d)
    BY DEF ParentLists
  <2>2. Oid' = Oid
    BY DEF Oid
  <2> QED BY <1>1, <1>5, <2>1, <2>2 DEF HistoryInv
<1>15. RowsInv'
  <2>1. \A i, j \in DOMAIN rows' : i < j => rows'[i].commit < rows'[j].commit
    <3> TAKE i, j \in DOMAIN rows'
    <3> HAVE i < j
    <3>1. i \in 1..n
      BY <1>8
    <3>2. CASE j \in 1..n
      BY <1>1, <1>8, <3>1, <3>2 DEF RowsInv
    <3>3. CASE j = n + 1
      <4>1. rows[i].commit < c
        BY <1>1, <1>3, <1>8, <3>1 DEF RowsInv
      <4> QED BY <1>7, <1>8, <3>1, <3>3, <4>1
    <3> QED BY <1>8, <1>9, <3>2, <3>3
  <2>2. \A i \in DOMAIN rows', d \in Unlaid' : rows'[i].commit < d
    <3> TAKE i \in DOMAIN rows', d \in Unlaid'
    <3>1. CASE i \in 1..n
      <4>1. rows[i].commit < d
        BY <1>1, <1>8, <1>13, <3>1 DEF RowsInv
      <4> QED BY <1>8, <3>1, <4>1
    <3>2. CASE i = n + 1
      BY <1>7, <1>8, <1>13, <3>2
    <3> QED BY <1>8, <1>9, <3>1, <3>2
  <2>3. \A d \in Unlaid' : Len(lanes') < 2 * d
    <3> TAKE d \in Unlaid'
    <3>1. c < d /\ c \in Nat /\ d \in Nat
      BY <1>3, <1>13, OidIsNat
    <3>2. Len(lanes') \in Nat
      BY <1>7 DEF Lanes
    <3> QED BY <1>7, <3>1, <3>2
  <2>4. done' \in BOOLEAN /\ ~done'
    BY <1>1, <1>4 DEF RowsInv
  <2>5. lanes' \in Lanes' /\ rows' \in Seq(RowType')
    BY <1>7, <1>8, <1>10
  <2> QED BY <2>1, <2>2, <2>3, <2>4, <2>5 DEF RowsInv
\* The main line.
<1>16. ASSUME main # None, c \in chain
       PROVE  At(lanes, 1) \in chain \cup {None}
  <2>1. c \in chain \cap Unlaid
    BY <1>3, <1>16
  <2>2. At(lanes, 1) \in chain \/ lanes = <<>>
    BY <1>1, <1>16, <2>1 DEF MainWay
  <2>3. lanes = <<>> => At(lanes, 1) = None
    BY DEF At
  <2> QED BY <2>2, <2>3
<1>17. ASSUME main # None, c \notin chain, chain \cap Unlaid # {}
       PROVE  At(lanes, 1) \in chain
  <2>1. CASE Laid = {} /\ lanes = <<>> /\ main = Min(Listed)
    <3>1. c = Min(Listed)
      BY <2>1 DEF c, NextCommit
    <3>2. main \in chain
      BY <1>1, <1>17 DEF HistoryInv
    <3> QED BY <1>17, <2>1, <3>1, <3>2
  <2> QED BY <1>1, <1>17, <2>1 DEF MainWay
<1>18. MainOnLaneZero'
  <2> SUFFICES ASSUME main # None, NEW i \in DOMAIN rows', rows'[i].commit \in chain
               PROVE  rows'[i].lane = 1
    BY <1>5 DEF MainOnLaneZero
  <2>1. CASE i \in 1..n
    BY <1>1, <1>8, <2>1 DEF MainOnLaneZero
  <2>2. CASE i = n + 1
    BY <1>7, <1>8, <1>16, <2>2
  <2> QED BY <1>8, <1>9, <2>1, <2>2
<1>19. MainWay'
  <2> SUFFICES ASSUME main # None, NEW d \in chain \cap Unlaid' PROVE At(lanes', 1) \in chain
    BY <1>5 DEF MainWay
  <2>1. d \in Unlaid /\ c < d /\ c \in Nat /\ d \in Nat
    BY <1>3, <1>13, OidIsNat
  <2>2. CASE c \in chain
    <3>1. ~(d <= c)
      BY <2>1
    <3> QED BY <1>7, <1>16, <2>2, <3>1
  <2>3. CASE c \notin chain
    BY <1>7, <1>17, <2>1, <2>3
  <2> QED BY <2>2, <2>3
<1>20. ReservedPasses'
  <2> SUFFICES ASSUME Reserved
               PROVE  /\ main \in Unlaid' => At(lanes', 1) = main
                      /\ \A i \in DOMAIN rows' : rows'[i].commit < main
                            => rows'[i].lane # 1 /\ Stub \in rows'[i].passing
    BY <1>5, <1>10 DEF ReservedPasses, Stub
  <2>1. main # None /\ main \in chain /\ main \in loaded /\ \A d \in chain : main <= d
    BY <1>1 DEF Reserved, HistoryInv
  <2>2. main \in Oid /\ main \in Nat /\ c \in Nat
    BY <1>1, <1>3, <2>1, OidIsNat DEF HistoryInv
  <2>3. ASSUME c < main PROVE main \in Unlaid /\ c \notin chain
    <3>1. c \notin chain
      BY <2>1, <2>2, <2>3
    <3>2. ASSUME main \in Laid PROVE FALSE
      <4>1. PICK i \in 1..n : rows[i].commit = main
        BY <1>8, <3>2 DEF Laid
      <4>2. main < c
        BY <1>1, <1>3, <1>8, <4>1 DEF RowsInv
      <4> QED BY <2>2, <2>3, <4>2
    <3> QED BY <2>1, <3>1, <3>2 DEF Unlaid, Listed
  <2>4. ASSUME c < main
        PROVE  At(lanes', 1) = main /\ row.lane # 1 /\ Stub \in row.passing
    BY <1>6, <1>7, <2>1, <2>3, <2>4 DEF ReservedPasses
  <2>5. main \in Unlaid' => At(lanes', 1) = main
    BY <1>13, <2>4
  <2>6. ASSUME NEW i \in DOMAIN rows', rows'[i].commit < main
        PROVE  rows'[i].lane # 1 /\ Stub \in rows'[i].passing
    <3>1. CASE i \in 1..n
      BY <1>6, <1>8, <2>6, <3>1 DEF ReservedPasses
    <3>2. CASE i = n + 1
      BY <1>7, <1>8, <2>4, <2>6, <3>2
    <3> QED BY <1>8, <1>9, <3>1, <3>2
  <2> QED BY <2>5, <2>6
<1>21. Meeting'
  <2>1. \A i \in DOMAIN rows' : RowShape(rows'[i])
    BY <1>6, <1>7, <1>8, <1>9 DEF Meeting
  <2>2. ASSUME NEW i \in 1..n PROVE Below(rows'[i]) = Above(rows'[i + 1])
    <3>1. CASE i = n
      <4>1. rows # <<>> /\ rows'[i] = rows[n] /\ rows'[i + 1] = row
        BY <1>8, <3>1
      <4> QED BY <1>6, <1>7, <4>1 DEF Meeting, n
    <3>2. CASE i # n
      <4>1. i \in 1..n - 1 /\ i + 1 \in 1..n
        BY <1>8, <3>2
      <4> QED BY <1>6, <1>8, <4>1 DEF Meeting, n
    <3> QED BY <3>1, <3>2
  <2>3. Below(rows'[n + 1]) = Busy(lanes')
    BY <1>7, <1>8
  <2>4. n + 1 - 1 = n
    BY <1>8
  <2> QED BY <1>8, <2>1, <2>2, <2>3, <2>4 DEF Meeting
<1>22. LinesMeet'
  BY <1>4 DEF LinesMeet
<1> QED BY <1>14, <1>15, <1>18, <1>19, <1>20, <1>21, <1>22 DEF IInv

-----------------------------------------------------------------------------
(* The reserved lane is erased *)

\* A row that the reserved lane passed.
LEMMA BareRowIs ==
    ASSUME NEW r \in RowType, RowShape(r), r.lane # 1, Stub \in r.passing,
           NEW s \in RowType, s.lane = r.lane, s.incoming = r.incoming,
           s.leaving = r.leaving, s.passing = r.passing \ {Stub}
    PROVE  /\ Above(s) = Above(r) \ {1} /\ 1 \in Below(r)
           /\ Below(s) = IF BendsIn(r) THEN Below(r) ELSE Below(r) \ {1}
           /\ BendsIn(s) <=> BendsIn(r)
<1>1. /\ \A e \in r.passing : e.from # r.lane /\ e.to \in {e.from, r.lane}
      /\ \A e, f \in r.passing : e.from = f.from => e = f
      /\ \A k \in DOMAIN r.leaving : r.leaving[k].from = r.lane
  BY DEF RowShape
<1>2. Stub.from = 1 /\ Stub.to = 1
  BY DEF Stub
<1>3. \A e \in r.passing : e.from = 1 => e = Stub
  BY <1>1, <1>2
<1>4. \A e \in r.passing : e.to = 1 => e = Stub
  BY <1>1, <1>3
<1> DEFINE out == ToSet(r.leaving)
<1>5. \A e \in out : e.from = r.lane
  BY <1>1 DEF ToSet
<1> HIDE DEF out
<1>6. BendsIn(r) <=> \E e \in out : e.to = 1
  <2>1. BendsIn(r) <=> \E e \in r.passing \cup out : e.to = 1 /\ e.from # 1
    BY DEF BendsIn, out
  <2> QED BY <1>2, <1>4, <1>5, <2>1
<1>7. BendsIn(s) <=> \E e \in out : e.to = 1
  <2>1. BendsIn(s) <=> \E e \in (r.passing \ {Stub}) \cup out : e.to = 1 /\ e.from # 1
    BY DEF BendsIn, out
  <2> QED BY <1>4, <1>5, <2>1
<1> DEFINE straight == {p \in r.passing : p.from = p.to}
<1>8. Below(r) = {e.to : e \in straight \cup out}
  BY DEF Below, out
<1>9. {p \in s.passing : p.from = p.to} = straight \ {Stub}
  OBVIOUS
<1>10. Below(s) = {e.to : e \in (straight \ {Stub}) \cup out}
  BY <1>9 DEF Below, out
<1>11. Stub \in straight /\ \A e \in straight : e.to = 1 => e = Stub
  BY <1>2, <1>4
<1> HIDE DEF straight
<1>12. 1 \in Below(r) /\ {e.to : e \in straight \ {Stub}} = {e.to : e \in straight} \ {1}
  BY <1>2, <1>8, <1>11
<1>13. Below(s) = IF \E e \in out : e.to = 1 THEN Below(r) ELSE Below(r) \ {1}
  <2>1. Below(r) = {e.to : e \in straight} \cup {e.to : e \in out}
    BY <1>8
  <2>2. Below(s) = ({e.to : e \in straight} \ {1}) \cup {e.to : e \in out}
    BY <1>10, <1>12
  <2>3. (\E e \in out : e.to = 1) <=> 1 \in {e.to : e \in out}
    OBVIOUS
  <2>4. 1 \in {e.to : e \in straight}
    BY <1>2, <1>11
  <2> DEFINE a == {e.to : e \in straight}
             b == {e.to : e \in out}
  <2> HIDE DEF a, b
  <2>5. Below(r) = a \cup b /\ Below(s) = (a \ {1}) \cup b /\ 1 \in a
    BY <2>1, <2>2, <2>4 DEF a, b
  <2>6. (\E e \in out : e.to = 1) <=> 1 \in b
    BY <2>3 DEF b
  <2>7. CASE 1 \in b
    BY <2>5, <2>6, <2>7
  <2>8. CASE 1 \notin b
    BY <2>5, <2>6, <2>8
  <2> QED BY <2>7, <2>8
<1>14. Above(s) = Above(r) \ {1}
  <2>1. {e.from : e \in r.passing \ {Stub}} = {e.from : e \in r.passing} \ {1}
    BY <1>2, <1>3
  <2>2. Above(r) = {e.from : e \in r.passing} \cup IF r.incoming THEN {r.lane} ELSE {}
    BY DEF Above
  <2>3. Above(s) = {e.from : e \in r.passing \ {Stub}} \cup IF r.incoming THEN {r.lane} ELSE {}
    BY DEF Above
  <2> QED BY <2>1, <2>2, <2>3
<1> QED BY <1>6, <1>7, <1>12, <1>13, <1>14

\* The main tip's row, where the lane above it is erased.
LEMMA TipRowIs ==
    ASSUME NEW r \in RowType, RowShape(r), r.lane = 1,
           NEW s \in RowType, s.lane = r.lane, s.incoming = FALSE,
           s.leaving = r.leaving, s.passing = r.passing
    PROVE  /\ Above(s) = Above(r) \ {1} /\ Below(s) = Below(r)
           /\ BendsIn(s) <=> BendsIn(r)
<1>1. \A e \in r.passing : e.from # 1
  BY DEF RowShape
<1>2. Above(s) = {e.from : e \in r.passing}
  BY DEF Above
<1>3. Above(r) = {e.from : e \in r.passing} \cup IF r.incoming THEN {1} ELSE {}
  BY DEF Above
<1>4. 1 \notin {e.from : e \in r.passing}
  BY <1>1
<1> QED BY <1>2, <1>3, <1>4 DEF Below, BendsIn

\* What erasing does to each row.
LEMMA TrimLaneIs ==
    ASSUME RowsInv, ReservedPasses, MainOnLaneZero, HistoryInv, TrimLane
    PROVE  /\ rows' \in Seq(RowType) /\ Len(rows') = Len(rows)
           /\ \A i \in 1..Len(rows) :
                 LET s == rows'[i]
                     r == rows[i]
                     bare == Reserved /\ i <= StripUntil /\ Stub \in r.passing
                     tip == /\ i > 1 /\ r.commit = main /\ r.lane = 1
                            /\ Reserved /\ i - 1 <= StripUntil /\ Stub \in rows[i - 1].passing
                 IN  /\ s.commit = r.commit /\ s.lane = r.lane /\ s.leaving = r.leaving
                     /\ s.passing = IF bare THEN r.passing \ {Stub} ELSE r.passing
                     /\ s.incoming = IF ~bare /\ tip THEN FALSE ELSE r.incoming
<1> DEFINE bare(i) == Reserved /\ i <= StripUntil /\ Stub \in rows[i].passing
           tip(i) == i > 1 /\ rows[i].commit = main /\ rows[i].lane = 1 /\ bare(i - 1)
           new(i) == IF bare(i) THEN [rows[i] EXCEPT !.passing = @ \ {Stub}]
                     ELSE IF tip(i) THEN [rows[i] EXCEPT !.incoming = FALSE]
                     ELSE rows[i]
<1>1. rows' = [i \in DOMAIN rows |-> new(i)]
  BY DEF TrimLane
<1>2. rows \in Seq(RowType) /\ Len(rows) \in Nat /\ DOMAIN rows = 1..Len(rows)
  BY DEF RowsInv
<1> HIDE DEF bare, tip
<1>3. ASSUME NEW i \in 1..Len(rows)
      PROVE  /\ new(i) \in RowType
             /\ new(i).commit = rows[i].commit /\ new(i).lane = rows[i].lane
             /\ new(i).leaving = rows[i].leaving
             /\ new(i).passing = IF bare(i) THEN rows[i].passing \ {Stub} ELSE rows[i].passing
             /\ new(i).incoming = IF ~bare(i) /\ tip(i) THEN FALSE ELSE rows[i].incoming
  <2> DEFINE r == rows[i]
  <2>1. r \in RowType
    BY <1>2
  <2> HIDE DEF r
  <2>2. r.passing \ {Stub} \subseteq Line
    BY <2>1 DEF RowType
  <2>3. CASE bare(i)
    <3>1. new(i) = [r EXCEPT !.passing = r.passing \ {Stub}]
      BY <2>3 DEF r
    <3> HIDE DEF new
    <3>2. /\ [r EXCEPT !.passing = r.passing \ {Stub}] \in RowType
          /\ new(i).commit = r.commit /\ new(i).lane = r.lane
          /\ new(i).leaving = r.leaving /\ new(i).incoming = r.incoming
          /\ new(i).passing = r.passing \ {Stub}
      BY <2>1, <2>2, <3>1 DEF RowType
    <3> QED BY <2>3, <3>1, <3>2 DEF r
  <2>4. CASE ~bare(i) /\ tip(i)
    <3>1. new(i) = [r EXCEPT !.incoming = FALSE]
      BY <2>4 DEF r
    <3> HIDE DEF new
    <3>2. /\ [r EXCEPT !.incoming = FALSE] \in RowType
          /\ new(i).commit = r.commit /\ new(i).lane = r.lane
          /\ new(i).leaving = r.leaving /\ new(i).incoming = FALSE
          /\ new(i).passing = r.passing
      BY <2>1, <3>1 DEF RowType
    <3> QED BY <2>4, <3>1, <3>2 DEF r
  <2>5. CASE ~bare(i) /\ ~tip(i)
    BY <2>1, <2>5 DEF r
  <2> QED BY <2>3, <2>4, <2>5
<1> HIDE DEF new
<1>4. rows' \in Seq(RowType) /\ Len(rows') = Len(rows)
  <2>1. rows' \in [1..Len(rows) -> RowType]
    BY <1>1, <1>2, <1>3
  <2> QED BY <1>2, <2>1
<1>5. \A i \in 1..Len(rows) : rows'[i] = new(i)
  BY <1>1, <1>2
<1> QED BY <1>3, <1>4, <1>5 DEF bare, tip

\* Where the erased part ends: above the main tip's row, at the first row that bends in.
LEMMA StripUntilIs ==
    ASSUME NEW R \in Nat \ {0}, Row(main) = R
    PROVE  /\ StripUntil \in 0..R - 1
           /\ \A i \in 1..StripUntil : i < StripUntil => ~BendsIn(rows[i])
           /\ StripUntil # R - 1 => StripUntil > 0 /\ BendsIn(rows[StripUntil])
<1> DEFINE bends == {i \in 1..R - 1 : BendsIn(rows[i])}
<1>1. StripUntil = IF bends = {} THEN R - 1 ELSE Min(bends)
  BY DEF StripUntil
<1>2. bends # {} => Min(bends) \in bends /\ \A i \in bends : Min(bends) <= i
  <2>1. bends \in SUBSET Nat
    OBVIOUS
  <2> HIDE DEF bends
  <2> QED BY <2>1, MinIs
<1> DEFINE u == StripUntil
<1> HIDE DEF u
<1>3. CASE bends = {}
  <2>1. u = R - 1
    BY <1>1, <1>3 DEF u
  <2> QED BY <1>3, <2>1 DEF u
<1>4. CASE bends # {}
  <2>1. u \in bends /\ \A i \in bends : u <= i
    BY <1>1, <1>2, <1>4 DEF u
  <2>2. u \in 1..R - 1 /\ BendsIn(rows[u])
    BY <2>1
  <2>3. ASSUME NEW i \in 1..u, i < u PROVE ~BendsIn(rows[i])
    <3>1. i \in 1..R - 1 /\ ~(u <= i)
      BY <2>2, <2>3
    <3> QED BY <2>1, <3>1
  <2> QED BY <2>2, <2>3 DEF u
<1> QED BY <1>3, <1>4

LEMMA TrimLaneKeeps ==
    ASSUME IInv, TrimLane
    PROVE  IInv'
<1> DEFINE n == Len(rows)
<1>1. /\ HistoryInv /\ RowsInv /\ MainOnLaneZero /\ MainWay
      /\ ~done /\ ReservedPasses /\ Meeting /\ done' = TRUE
  BY DEF IInv, TrimLane
<1>2. UNCHANGED <<parents, loaded, main, chain, lanes>>
  BY DEF TrimLane, history
<1>3. Unlaid = {}
  BY DEF TrimLane, Unlaid
<1>4. /\ rows \in Seq(RowType) /\ n \in Nat /\ DOMAIN rows = 1..n
      /\ \A i \in 1..n : rows[i] \in RowType /\ RowShape(rows[i])
  BY <1>1 DEF RowsInv, Meeting
<1>5. /\ rows' \in Seq(RowType) /\ Len(rows') = n /\ DOMAIN rows' = 1..n
      /\ \A i \in 1..n : rows'[i] \in RowType
  <2>1. rows' \in Seq(RowType) /\ Len(rows') = n
    BY <1>1, TrimLaneIs
  <2> QED BY <1>4, <2>1
<1>6. \A i \in 1..n :
         LET s == rows'[i]
             r == rows[i]
             bare == Reserved /\ i <= StripUntil /\ Stub \in r.passing
             tip == /\ i > 1 /\ r.commit = main /\ r.lane = 1
                    /\ Reserved /\ i - 1 <= StripUntil /\ Stub \in rows[i - 1].passing
         IN  /\ s.commit = r.commit /\ s.lane = r.lane /\ s.leaving = r.leaving
             /\ s.passing = IF bare THEN r.passing \ {Stub} ELSE r.passing
             /\ s.incoming = IF ~bare /\ tip THEN FALSE ELSE r.incoming
  BY <1>1, TrimLaneIs
<1>7. \A i \in 1..n : rows'[i].commit = rows[i].commit /\ rows'[i].lane = rows[i].lane
  BY <1>6
<1> HIDE DEF n
<1>8. Laid' = Laid /\ Unlaid' = {} /\ Listed' = Listed
  <2>1. Laid = {rows[i].commit : i \in 1..n} /\ Laid' = {rows'[i].commit : i \in 1..n}
    BY <1>4, <1>5 DEF Laid
  <2>2. Laid' = Laid
    BY <1>7, <2>1
  <2> QED BY <1>2, <1>3, <2>2 DEF Unlaid, Listed
<1>9. RowType' = RowType /\ Lanes' = Lanes /\ Reserved' = Reserved /\ Oid' = Oid
  BY <1>2, <1>8 DEF RowType, Lane, Lanes, Slot, Oid, Line, Reserved
<1>10. HistoryInv'
  <2>1. \A d : ParentLists(d)' = ParentLists(d)
    BY DEF ParentLists
  <2> QED BY <1>1, <1>2, <1>9, <2>1 DEF HistoryInv
<1>11. RowsInv'
  BY <1>1, <1>2, <1>4, <1>5, <1>7, <1>8, <1>9 DEF RowsInv
<1>12. MainOnLaneZero' /\ MainWay'
  BY <1>1, <1>2, <1>4, <1>5, <1>7, <1>8 DEF MainOnLaneZero, MainWay
\* The lines.
<1>13. \A i \in 1..n - 1 : Below(rows[i]) = Above(rows[i + 1])
  BY <1>1 DEF Meeting, n
<1>14. CASE ~Reserved
  <2>1. \A i \in 1..n : /\ rows'[i].passing = rows[i].passing
                        /\ rows'[i].leaving = rows[i].leaving
                        /\ rows'[i].lane = rows[i].lane
                        /\ rows'[i].incoming = rows[i].incoming
    BY <1>6, <1>14
  <2>2. \A i \in 1..n : Below(rows'[i]) = Below(rows[i]) /\ Above(rows'[i]) = Above(rows[i])
    BY <2>1 DEF Below, Above
  <2>3. \A i \in 1..n - 1 : Below(rows'[i]) = Above(rows'[i + 1])
    <3> TAKE i \in 1..n - 1
    <3>1. i \in 1..n /\ i + 1 \in 1..n
      BY <1>4
    <3> QED BY <1>13, <2>2, <3>1
  <2>4. \A i : ~Unjoined(i)'
    BY <1>9, <1>14 DEF Unjoined
  <2>5. LinesMeet'
    BY <1>5, <2>3, <2>4 DEF LinesMeet
  <2> QED BY <1>1, <1>10, <1>11, <1>12, <2>5 DEF IInv
<1>15. CASE Reserved
  <2> DEFINE R == Row(main)
             u == StripUntil
  <2>1. main # None /\ main \in loaded /\ main \in chain /\ main \in Nat
    BY <1>1, <1>15, OidIsNat DEF HistoryInv, Reserved
  <2>2. PICK m \in 1..n : rows[m].commit = main
    BY <1>3, <1>4, <2>1 DEF Unlaid, Listed, Laid
  <2>3. \A i \in 1..n : rows[i].commit = main => i = m
    <3> TAKE i \in 1..n
    <3> HAVE rows[i].commit = main
    <3>1. ~(i < m) /\ ~(m < i)
      <4>1. ~(main < main)
        BY <2>1
      <4> QED BY <1>1, <1>4, <2>2, <4>1 DEF RowsInv
    <3> QED BY <2>2, <3>1
  <2>4. R = m /\ R' = m
    BY <1>2, <1>4, <1>5, <1>7, <2>2, <2>3 DEF Row
  <2>5. m \in Nat \ {0} /\ Row(main) = m
    BY <2>2, <2>4
  <2>6. /\ u \in 0..m - 1
        /\ \A i \in 1..u : i < u => ~BendsIn(rows[i])
        /\ u # m - 1 => u > 0 /\ BendsIn(rows[u])
    BY <2>5, StripUntilIs
  <2>7. \A i \in 1..m - 1 : rows[i].lane # 1 /\ Stub \in rows[i].passing
    <3> TAKE i \in 1..m - 1
    <3>1. i \in DOMAIN rows /\ m \in DOMAIN rows /\ i < m
      BY <1>4, <2>2
    <3>2. rows[i].commit < main
      BY <1>1, <2>2, <3>1 DEF RowsInv
    <3> QED BY <1>1, <1>15, <3>1, <3>2 DEF ReservedPasses
  <2>8. rows[m].lane = 1
    BY <1>1, <1>4, <2>1, <2>2 DEF MainOnLaneZero
  <2> HIDE DEF R, u
  \* The rows of the erased part, the tip's row if it reaches that, and the others.
  <2>9. ASSUME NEW i \in 1..n, i <= u
        PROVE  /\ Above(rows'[i]) = Above(rows[i]) \ {1} /\ 1 \in Below(rows[i])
               /\ Below(rows'[i]) = IF BendsIn(rows[i]) THEN Below(rows[i])
                                    ELSE Below(rows[i]) \ {1}
               /\ BendsIn(rows'[i]) <=> BendsIn(rows[i])
    <3>1. i \in 1..m - 1 /\ i # m
      BY <2>2, <2>6, <2>9
    <3>2. /\ rows'[i].lane = rows[i].lane /\ rows'[i].leaving = rows[i].leaving
          /\ rows'[i].passing = rows[i].passing \ {Stub}
          /\ rows'[i].incoming = rows[i].incoming
      BY <1>6, <1>15, <2>7, <2>9, <3>1 DEF u
    <3> QED BY <1>4, <1>5, <2>7, <3>1, <3>2, BareRowIs
  <2>10. ASSUME m > 1, u = m - 1
         PROVE  /\ Above(rows'[m]) = Above(rows[m]) \ {1} /\ Below(rows'[m]) = Below(rows[m])
                /\ BendsIn(rows'[m]) <=> BendsIn(rows[m])
    <3>1. m - 1 \in 1..m - 1 /\ ~(m <= u) /\ m - 1 <= u
      BY <2>2, <2>10
    <3>2. /\ rows'[m].lane = rows[m].lane /\ rows'[m].leaving = rows[m].leaving
          /\ rows'[m].passing = rows[m].passing
          /\ rows'[m].incoming = FALSE
      BY <1>6, <1>15, <2>2, <2>7, <2>8, <2>10, <3>1 DEF u
    <3> QED BY <1>4, <1>5, <2>2, <2>8, <3>2, TipRowIs
  <2>11. ASSUME NEW i \in 1..n, ~(i <= u), i # m \/ u # m - 1
         PROVE  /\ Above(rows'[i]) = Above(rows[i]) /\ Below(rows'[i]) = Below(rows[i])
                /\ BendsIn(rows'[i]) <=> BendsIn(rows[i])
    <3>1. rows[i].commit = main => i = m
      BY <2>3
    <3>2. i = m => ~(i - 1 <= u)
      BY <2>2, <2>6, <2>11
    <3>3. /\ rows'[i].lane = rows[i].lane /\ rows'[i].leaving = rows[i].leaving
          /\ rows'[i].passing = rows[i].passing
          /\ rows'[i].incoming = rows[i].incoming
      BY <1>6, <2>11, <3>1, <3>2 DEF u
    <3> QED BY <3>3 DEF Above, Below, BendsIn
  <2>12. \A i \in 1..m - 1 : BendsIn(rows'[i]) <=> BendsIn(rows[i])
    <3> TAKE i \in 1..m - 1
    <3>1. i \in 1..n /\ i # m
      BY <1>4, <2>2
    <3> QED BY <2>9, <2>11, <3>1
  <2>13. u' = u
    <3>1. {i \in 1..m - 1 : BendsIn(rows'[i])} = {i \in 1..m - 1 : BendsIn(rows[i])}
      BY <2>12
    <3>2. u = LET bends == {i \in 1..m - 1 : BendsIn(rows[i])}
              IN IF bends = {} THEN m - 1 ELSE Min(bends)
      BY <2>4 DEF u, StripUntil, R
    <3>3. u' = LET bends == {i \in 1..m - 1 : BendsIn(rows'[i])}
               IN IF bends = {} THEN m - 1 ELSE Min(bends)
      BY <2>4 DEF u, StripUntil, R
    <3> QED BY <3>1, <3>2, <3>3
  <2>14. \A i \in 1..n - 1 :
            Unjoined(i)' <=> (i + 1 = m /\ i = u /\ BendsIn(rows[i]))
    <3> TAKE i \in 1..n - 1
    <3>1. Unjoined(i)' <=> (i + 1 = m /\ i = u /\ BendsIn(rows'[i]))
      BY <1>9, <1>15, <2>4, <2>13 DEF Unjoined, R, u
    <3>2. i + 1 = m => i \in 1..m - 1
      BY <2>2
    <3> QED BY <2>12, <3>1, <3>2
  <2>15. ASSUME NEW i \in 1..n - 1
         PROVE  Below(rows'[i]) = Above(rows'[i + 1]) \cup IF Unjoined(i)' THEN {1} ELSE {}
    <3>1. i \in 1..n /\ i + 1 \in 1..n /\ i \in Nat /\ u \in Nat /\ m \in Nat
      BY <1>4, <2>2, <2>6
    <3>2. Below(rows[i]) = Above(rows[i + 1])
      BY <1>13
    <3>3. CASE i < u
      <4>1. i <= u /\ i + 1 <= u /\ i # u /\ i \in 1..u
        BY <3>1, <3>3
      <4>2. ~BendsIn(rows[i])
        BY <2>6, <3>3, <4>1
      <4>3. Below(rows'[i]) = Below(rows[i]) \ {1}
        BY <2>9, <3>1, <4>1, <4>2
      <4>4. Above(rows'[i + 1]) = Above(rows[i + 1]) \ {1}
        BY <2>9, <3>1, <4>1
      <4>5. ~Unjoined(i)'
        BY <2>14, <4>1
      <4> QED BY <3>2, <4>3, <4>4, <4>5
    <3>4. CASE i = u /\ i + 1 = m
      <4>1. i <= u /\ m > 1 /\ u = m - 1
        BY <3>1, <3>4
      <4>2. Above(rows'[i + 1]) = Above(rows[i + 1]) \ {1}
        BY <2>10, <3>4, <4>1
      <4>3. 1 \in Below(rows[i]) /\ Below(rows'[i]) = IF BendsIn(rows[i]) THEN Below(rows[i])
                                                       ELSE Below(rows[i]) \ {1}
        BY <2>9, <3>1, <4>1
      <4>4. Unjoined(i)' <=> BendsIn(rows[i])
        BY <2>14, <3>4
      <4> QED BY <3>2, <4>2, <4>3, <4>4
    <3>5. CASE i = u /\ i + 1 # m
      <4>1. i <= u /\ u # m - 1 /\ ~(i + 1 <= u)
        BY <3>1, <3>5
      <4>2. Below(rows'[i]) = Below(rows[i])
        BY <2>6, <2>9, <3>1, <3>5, <4>1
      <4>3. Above(rows'[i + 1]) = Above(rows[i + 1])
        BY <2>11, <3>1, <4>1
      <4>4. ~Unjoined(i)'
        BY <2>14, <3>5
      <4> QED BY <3>2, <4>2, <4>3, <4>4
    <3>6. CASE i > u
      <4>1. ~(i <= u) /\ ~(i + 1 <= u) /\ i # u /\ (i + 1 = m => u # m - 1)
        BY <3>1, <3>6
      <4>2. Below(rows'[i]) = Below(rows[i])
        <5>1. CASE i # m \/ u # m - 1
          BY <2>11, <3>1, <4>1, <5>1
        <5>2. CASE i = m /\ u = m - 1 /\ m > 1
          BY <2>10, <5>2
        <5>3. CASE i = m /\ m = 1
          <6>1. /\ rows'[m].leaving = rows[m].leaving /\ rows'[m].passing = rows[m].passing
            BY <1>6, <2>2, <4>1, <5>3 DEF u
          <6> QED BY <5>3, <6>1 DEF Below
        <5>4. m > 1 \/ m = 1
          BY <2>2
        <5> QED BY <5>1, <5>2, <5>3, <5>4
      <4>3. Above(rows'[i + 1]) = Above(rows[i + 1])
        BY <2>11, <3>1, <4>1
      <4>4. ~Unjoined(i)'
        BY <2>14, <4>1
      <4> QED BY <3>2, <4>2, <4>3, <4>4
    <3>7. i < u \/ i = u \/ i > u
      BY <3>1
    <3> QED BY <3>3, <3>4, <3>5, <3>6, <3>7
  <2>16. LinesMeet'
    BY <1>5, <2>15 DEF LinesMeet
  <2> QED BY <1>1, <1>10, <1>11, <1>12, <2>16 DEF IInv
<1> QED BY <1>14, <1>15

-----------------------------------------------------------------------------
(* Where lines lead *)

\* A line that leaves row i in lane l ends at row j, or has not ended.
EndsIn(i, l, j) == /\ j \in DOMAIN rows /\ i < j /\ EndsAt(rows[j], l)
                   /\ \A m \in DOMAIN rows : i < m /\ m < j => ~EndsAt(rows[m], l)
GoesOn(i, l) == \A m \in DOMAIN rows : i < m => ~EndsAt(rows[m], l)

\* It leads to w: it ended at w, or its lane waits for w.
LeadsOn(i, l, w) == \/ \E j \in DOMAIN rows : EndsIn(i, l, j) /\ rows[j].commit = w
                    \/ GoesOn(i, l) /\ At(lanes, l) = w

\* The lines of a row lead to its commit's parents or to descendants of them, the first
\* to the parent itself.
RowLeads(i) ==
    LET ps == Routed(rows[i].commit) IN
    /\ ps \in Seq(Oid) /\ Len(rows[i].leaving) = Len(ps)
    /\ \A k \in 1..Len(ps) : \E w \in Oid :
           /\ LeadsOn(i, rows[i].leaving[k].to, w) /\ IsAncestor(ps[k], w)
           /\ k = 1 /\ ~Shortcut => w = ps[k]

\* No lane waits for a commit that has its row, and lane 0 waits for the first commit of
\* the main line that has none.
Waiting ==
    /\ \A l \in Busy(lanes) : At(lanes, l) \notin Laid
    /\ main # None /\ ~Shortcut /\ At(lanes, 1) \in chain
           => \A d \in chain \ Laid : At(lanes, 1) <= d

LeadInv == /\ IsAncestry(ancestors, parents, loaded) /\ Waiting
           /\ main # None => \A i \in DOMAIN rows : RowLeads(i)

LEMMA InitialLeads == Init => LeadInv
<1> SUFFICES ASSUME Init PROVE LeadInv
  OBVIOUS
<1>1. /\ parents \in Histories[1] /\ ancestors = LoadedAncestors(parents, loaded)
      /\ lanes = (IF Reserved THEN <<main>> ELSE <<>>) /\ rows = <<>>
  BY DEF Init
<1>2. HistoryInv
  BY InitialIsInvariant DEF IInv
<1>3. IsAncestry(ancestors, parents, loaded)
  BY <1>1, <1>2, LoadedAncestorsIs DEF HistoryInv
<1>4. Laid = {} /\ DOMAIN rows = {}
  BY <1>1 DEF Laid
<1>5. At(lanes, 1) \in {main, None}
  BY <1>1 DEF At
<1>6. None \notin chain
  BY <1>2, OidIsNat DEF HistoryInv
<1> QED BY <1>2, <1>3, <1>4, <1>5, <1>6 DEF LeadInv, Waiting, HistoryInv

\* Of the commits to come the next one is the first, and no lane waits for an earlier one
\* that is loaded.
LEMMA NextMeets ==
    ASSUME IInv, LeadInv, main # None, Unlaid # {},
           NEW l \in Busy(lanes), At(lanes, l) # NextCommit,
           \/ IsAncestor(NextCommit, At(lanes, l))
           \/ l = 1 /\ {NextCommit, At(lanes, 1)} \subseteq chain
    PROVE  Shortcut /\ At(lanes, l) \in ancestors[NextCommit]
<1> DEFINE c == NextCommit
           w == At(lanes, l)
<1>1. HistoryInv /\ lanes \in Lanes /\ l \in Nat \ {0}
  BY DEF IInv, RowsInv, Lanes, Busy
<1>2. c \in Unlaid /\ c \in Oid /\ c \in Nat /\ \A d \in Unlaid : c <= d
  BY <1>1, UnlaidIs, OidIsNat
<1>3. w # None /\ w \in Oid /\ w \in Nat /\ w \notin Laid
  BY <1>1, AtIs, OidIsNat DEF LeadInv, Waiting, Slot
<1>4. w \in loaded => c < w
  <2>1. w \in loaded => w \in Unlaid
    BY <1>3 DEF Unlaid, Listed
  <2> QED BY <1>2, <1>3, <2>1
<1> HIDE DEF c, w
<1>5. ~IsAncestor(c, w)
  <2> SUFFICES ASSUME c \in ancestors[w] PROVE FALSE
    BY DEF IsAncestor, c, w
  <2>1. w < c /\ w \in loaded
    BY <1>1, <1>3, AncestorsAre DEF LeadInv
  <2> QED BY <1>2, <1>3, <1>4, <2>1
<1>6. l = 1 /\ c \in chain /\ w \in chain /\ w # c
  BY <1>5 DEF c, w
<1>7. c < w
  <2> SUFFICES ASSUME ~(c < w) PROVE FALSE
    OBVIOUS
  <2>1. w \in loaded
    <3>1. ~(c <= w)
      BY <1>2, <1>3, <1>6
    <3> QED BY <1>1, <1>6, <3>1 DEF HistoryInv
  <2> QED BY <1>4, <2>1
<1>8. w \in ancestors[c]
  BY <1>1, <1>6, <1>7, MainAncestors DEF LeadInv
<1>9. Shortcut
  <2>1. c \notin Laid /\ ~(w <= c)
    BY <1>2, <1>3, <1>7 DEF Unlaid
  <2> QED BY <1>6, <2>1 DEF LeadInv, Waiting, w
<1> QED BY <1>8, <1>9 DEF c, w

\* Which lines end at the row that is laid, and what the others wait for.
LEMMA EndingIs ==
    ASSUME NEW c, NEW row, NEW ls, LaidLines(c, row, ls), NEW l \in Busy(lanes)
    PROVE  /\ EndsAt(row, l) => l = row.lane \/ At(lanes, l) = c
           /\ ~EndsAt(row, l) => At(ls, l) = At(lanes, l)
<1>1. EndsOrWaits(c, row, ls, l)
  BY DEF LaidLines
<1> QED BY <1>1 DEF EndsOrWaits

\* So a line that ends at the next row leads to its commit as it led to what it waited
\* for.
LEMMA EndingLeads ==
    ASSUME IInv, LeadInv, main # None, Unlaid # {}, NEW row,
           LaidLines(NextCommit, row, lanes'), NEW l \in Busy(lanes), EndsAt(row, l),
           NEW p, IsAncestor(p, At(lanes, l))
    PROVE  IsAncestor(p, NextCommit) /\ (~Shortcut => At(lanes, l) = NextCommit)
<1> DEFINE c == NextCommit
           w == At(lanes, l)
<1>1. CASE w = c
  BY <1>1
<1>2. CASE w # c
  <2>1. l = row.lane
    BY <1>2, EndingIs
  <2>2. lanes \in Lanes /\ l \in Nat \ {0} /\ HistoryInv
    BY DEF IInv, RowsInv, Lanes, Busy
  <2>3. w # None /\ c \in Oid /\ c # None
    BY <2>2, AtIs, UnlaidIs, OidIsNat
  <2>4. IsAncestor(c, w) \/ (l = 1 /\ {c, At(lanes, 1)} \subseteq chain)
    BY <2>1, <2>3 DEF LaidLines
  <2>5. Shortcut /\ w \in ancestors[c]
    BY <1>2, <2>4, NextMeets
  <2>6. ancestors[w] \subseteq ancestors[c]
    BY <2>2, <2>3, <2>5, AncestorsAre DEF LeadInv
  <2>7. p = w \/ p \in ancestors[w]
    BY DEF IsAncestor
  <2>8. p \in ancestors[c]
    BY <2>5, <2>6, <2>7
  <2> QED BY <2>3, <2>5, <2>8 DEF IsAncestor
<1> QED BY <1>1, <1>2

\* The main line's next commit is the parent that is routed first.
LEMMA RoutedContinues ==
    ASSUME HistoryInv, ~Shortcut, NEW c \in chain \cap loaded, Continues(parents, chain, c)
    PROVE  /\ Routed(c) # <<>> /\ Routed(c)[1] \in chain
           /\ \A d \in chain : c < d => Routed(c)[1] <= d
<1>1. c \in Oid /\ parents[c] \in ParentLists(c)
  BY DEF HistoryInv
<1>2. PICK i \in DOMAIN parents[c] : parents[c][i] \in chain
                                     /\ \A d \in chain : c < d => parents[c][i] <= d
  BY DEF Continues
<1>3. /\ Routed(c) \in Seq(Oid) /\ Len(Routed(c)) > 0 /\ Routed(c)[1] \in chain
      /\ \A k \in 1..Len(Routed(c)) : Routed(c)[k] \in Parents(c)
  BY <1>1, <1>2, RoutedIs
<1>4. Routed(c)[1] \in Parents(c) /\ Routed(c) # <<>>
  BY <1>3
<1>5. parents[c] \in Seq(Oid) /\ Len(parents[c]) \in 1..2
  BY <1>1, <1>2, ParentListsAre
<1>6. Routed(c)[1] = parents[c][i]
  <2>1. PICK j \in DOMAIN parents[c] : Routed(c)[1] = parents[c][j]
    BY <1>4 DEF Parents, ToSet
  <2>2. CASE i = j
    BY <2>1, <2>2
  <2>3. CASE i # j
    <3>1. Len(parents[c]) > 1 /\ \A k \in DOMAIN parents[c] : k = i \/ k = j
      BY <1>5, <2>3
    <3>2. Parents(c) \subseteq chain
      BY <1>2, <1>3, <2>1, <3>1 DEF Parents, ToSet
    <3> QED BY <3>1, <3>2 DEF Shortcut
  <2> QED BY <2>2, <2>3
<1> QED BY <1>2, <1>3, <1>4, <1>6

LEMMA LayRowLeads ==
    ASSUME IInv, LeadInv, LayRow
    PROVE  LeadInv'
<1>c. PICK c : c = NextCommit
  OBVIOUS
<1>n. PICK n : n = Len(rows)
  OBVIOUS
<1>1. HistoryInv /\ RowsInv /\ MainWay /\ lanes \in Lanes
  BY DEF IInv, RowsInv
<1>2. PICK row : LaidRow(c, row, lanes') /\ LaidLines(c, row, lanes') /\ Adds(c, row)
  BY <1>c, LayRowAdds
<1>3. /\ c \in Unlaid /\ Unlaid # {} /\ \A d \in Unlaid : c <= d
      /\ n \in Nat /\ DOMAIN rows = 1..n /\ DOMAIN rows' = 1..n + 1
      /\ \A i \in 1..n : rows'[i] = rows[i]
      /\ rows'[n + 1] = row /\ Laid' = Laid \cup {c}
      /\ UNCHANGED <<parents, loaded, main, chain, ancestors>>
  BY <1>2, <1>n DEF Adds
<1>4. c \in Oid /\ c \in Nat /\ c \in loaded /\ c \notin Laid
  BY <1>1, <1>3, UnlaidIs, OidIsNat DEF Unlaid
<1>5. row \in RowType /\ row.commit = c /\ lanes' \in Lanes
  BY <1>2 DEF LaidRow
<1>6. /\ \A d : Routed(d)' = Routed(d)
      /\ \A a, d : IsAncestor(a, d)' = IsAncestor(a, d)
      /\ Shortcut' = Shortcut /\ Oid' = Oid
  BY <1>3 DEF Routed, IsAncestor, Shortcut, Parents, Oid
<1>7. IsAncestry(ancestors, parents, loaded)'
  <2>1. IsAncestry(ancestors, parents, loaded)
    BY DEF LeadInv
  <2> QED BY <1>3, <2>1
\* Parents come later than every commit laid.
<1>8. \A k \in 1..Len(Routed(c)) : Routed(c)[k] \notin Laid \cup {c}
  <2> TAKE k \in 1..Len(Routed(c))
  <2>1. Routed(c)[k] \in Oid /\ Routed(c)[k] > c
    BY <1>1, <1>4, RoutedIs DEF HistoryInv
  <2>2. \A i \in 1..n : rows[i].commit < c
    BY <1>1, <1>3 DEF RowsInv
  <2>3. \A d \in Laid : d < c
    BY <1>3, <2>2 DEF Laid
  <2>4. \A x \in Oid : x > c => ~(x < c) /\ x # c
    BY <1>4, OidIsNat
  <2> QED BY <2>1, <2>3, <2>4
<1>9. \A l \in Busy(lanes') : At(lanes', l) \notin Laid'
  <2> TAKE l \in Busy(lanes')
  <2>1. l \in Nat \ {0} /\ At(lanes', l) # None
    BY <1>5, AtIs DEF Busy, Lanes
  <2>2. CASE At(lanes', l) = At(lanes, l) /\ At(lanes', l) # c
    <3>1. l \in Busy(lanes)
      BY <1>1, <2>1, <2>2, AtIs
    <3> QED BY <1>3, <2>2, <3>1 DEF LeadInv, Waiting
  <2>3. CASE \E k \in 1..Len(Routed(c)) : At(lanes', l) = Routed(c)[k]
    BY <1>3, <1>8, <2>3
  <2> QED BY <1>2, <2>2, <2>3 DEF LaidLines
\* Lane 0 and the main line.
<1>10. ASSUME main # None, ~Shortcut, At(lanes', 1) \in chain, NEW d \in chain \ Laid'
       PROVE  At(lanes', 1) <= d
  <2>1. d \in chain /\ d \notin Laid /\ d # c /\ d \in Oid /\ d \in Nat
    BY <1>1, <1>3, <1>10, OidIsNat DEF HistoryInv
  <2>2. d < c => d \notin chain \/ d \notin loaded
    <3>1. d \in loaded => c <= d
      BY <1>3, <2>1 DEF Unlaid, Listed
    <3> QED BY <1>4, <2>1, <3>1
  <2>3. CASE c \in chain
    <3>1. c < d /\ Continues(parents, chain, c)
      <4>1. c < d
        <5>1. d < c => d \in loaded
          BY <1>1, <1>4, <2>1, <2>3 DEF HistoryInv
        <5> QED BY <1>4, <2>1, <2>2, <5>1
      <4>2. ~(d <= c)
        BY <1>4, <2>1, <4>1
      <4> QED BY <1>1, <2>1, <2>3, <4>1, <4>2 DEF HistoryInv
    <3>2. Routed(c) # <<>> /\ Routed(c)[1] \in chain /\ Routed(c)[1] <= d
      BY <1>1, <1>4, <1>10, <2>1, <2>3, <3>1, RoutedContinues
    <3>3. At(lanes, 1) \in chain \cup {None}
      <4>1. At(lanes, 1) \in chain \/ lanes = <<>>
        BY <1>1, <1>3, <1>10, <2>3 DEF MainWay
      <4>2. lanes = <<>> => At(lanes, 1) = None
        BY DEF At
      <4> QED BY <4>1, <4>2
    <3> QED BY <1>2, <2>3, <3>2, <3>3 DEF LaidLines
  <2>4. CASE c \notin chain /\ At(lanes, 1) \in chain
    <3>1. At(lanes', 1) = At(lanes, 1)
      BY <1>2, <2>4 DEF LaidRow
    <3> QED BY <1>10, <2>1, <2>4, <3>1 DEF LeadInv, Waiting
  <2>5. CASE c \notin chain /\ At(lanes, 1) \notin chain
    <3>1. chain \cap Unlaid = {}
      <4>1. CASE Laid = {} /\ main = Min(Listed)
        <5>1. c = Min(Listed) /\ main \in chain
          BY <1>1, <1>10, <1>c, <4>1 DEF NextCommit, HistoryInv
        <5> QED BY <2>5, <4>1, <5>1
      <4> QED BY <1>1, <1>10, <2>5, <4>1 DEF MainWay
    <3>2. d \notin loaded
      BY <2>1, <3>1 DEF Unlaid, Listed
    <3> QED BY <1>1, <1>10, <2>1, <3>2 DEF HistoryInv
  <2> QED BY <2>3, <2>4, <2>5
<1>11. Waiting'
  BY <1>3, <1>6, <1>9, <1>10 DEF Waiting
\* The rows above, and the new one.
<1>12. ASSUME main # None, NEW i \in 1..n PROVE RowLeads(i)'
  <2> DEFINE ps == Routed(rows[i].commit)
  <2>1. /\ ps \in Seq(Oid) /\ Len(rows[i].leaving) = Len(ps)
        /\ \A k \in 1..Len(ps) : \E w \in Oid :
              /\ LeadsOn(i, rows[i].leaving[k].to, w) /\ IsAncestor(ps[k], w)
              /\ k = 1 /\ ~Shortcut => w = ps[k]
    BY <1>3, <1>12 DEF LeadInv, RowLeads
  <2>2. ASSUME NEW k \in 1..Len(ps)
        PROVE  \E w \in Oid : /\ LeadsOn(i, rows[i].leaving[k].to, w)'
                              /\ IsAncestor(ps[k], w)
                              /\ k = 1 /\ ~Shortcut => w = ps[k]
    <3>l. PICK l : l = rows[i].leaving[k].to
      OBVIOUS
    <3>0. rows'[i].leaving[k].to = l
      BY <1>3, <3>l
    <3>1. PICK w \in Oid : /\ LeadsOn(i, l, w) /\ IsAncestor(ps[k], w)
                           /\ k = 1 /\ ~Shortcut => w = ps[k]
      BY <2>1, <3>l
    <3>2. l \in Lane /\ l \in Nat \ {0}
      <4>1. rows[i] \in RowType
        BY <1>1, <1>3 DEF RowsInv
      <4>2. rows[i].leaving \in Seq(Line)
        BY <4>1 DEF RowType
      <4>3. rows[i].leaving[k] \in Line
        BY <2>1, <4>2
      <4> QED BY <3>l, <4>3, CommitsAssumption DEF Line, Lane
    <3>3. CASE \E j \in DOMAIN rows : EndsIn(i, l, j) /\ rows[j].commit = w
      <4>1. PICK j \in 1..n : EndsIn(i, l, j) /\ rows[j].commit = w
        BY <1>3, <3>3
      <4>2. /\ j \in 1..n + 1 /\ rows'[j] = rows[j]
            /\ \A m \in 1..n + 1 : m < j => m \in 1..n
        BY <1>3
      <4>3. EndsIn(i, l, j)'
        BY <1>3, <4>1, <4>2 DEF EndsIn, EndsAt
      <4>4. LeadsOn(i, l, w)'
        BY <1>3, <4>1, <4>2, <4>3 DEF LeadsOn
      <4> QED BY <3>0, <3>1, <4>4
    <3>4. CASE GoesOn(i, l) /\ At(lanes, l) = w
      <4>1. l \in Busy(lanes)
        BY <1>1, <3>2, <3>4, AtIs, OidIsNat
      <4>2. \A m \in 1..n + 1 : i < m /\ m < n + 1 => m \in 1..n
        BY <1>3
      <4>3. \A m \in 1..n : i < m => ~EndsAt(rows[m], l)
        BY <1>3, <3>4 DEF GoesOn
      <4>4. CASE EndsAt(row, l)
        <5>1. n + 1 \in 1..n + 1 /\ i < n + 1
          BY <1>3
        <5>2. EndsIn(i, l, n + 1)'
          BY <1>3, <4>2, <4>3, <4>4, <5>1 DEF EndsIn, EndsAt
        <5>3. LeadsOn(i, l, c)'
          BY <1>3, <1>5, <5>1, <5>2 DEF LeadsOn
        <5>4. IsAncestor(ps[k], c) /\ (~Shortcut => w = c)
          BY <1>2, <1>3, <1>12, <3>1, <3>4, <4>1, <4>4, EndingLeads, <1>c
        <5> QED BY <1>4, <3>0, <3>1, <5>3, <5>4
      <4>5. CASE ~EndsAt(row, l)
        <5>1. \A m \in 1..n + 1 : m = n + 1 \/ m \in 1..n
          BY <1>3
        <5>2. GoesOn(i, l)'
          BY <1>3, <4>3, <4>5, <5>1 DEF GoesOn, EndsAt
        <5>3. At(lanes', l) = w
          BY <1>2, <3>4, <4>1, <4>5, EndingIs
        <5>4. LeadsOn(i, l, w)'
          BY <5>2, <5>3 DEF LeadsOn
        <5> QED BY <3>0, <3>1, <5>4
      <4> QED BY <4>4, <4>5
    <3> QED BY <3>1, <3>3, <3>4 DEF LeadsOn
  <2>3. rows'[i] = rows[i]
    BY <1>3
  <2>4. Routed(rows[i].commit)' = ps
    <3>1. PICK d : d = rows[i].commit
      OBVIOUS
    <3>2. Routed(d)' = Routed(d)
      BY <1>6
    <3> QED BY <2>3, <3>1, <3>2
  <2> HIDE DEF ps
  <2> QED BY <1>6, <2>1, <2>2, <2>3, <2>4 DEF RowLeads
<1>13. RowLeads(n + 1)'
  <2> DEFINE ps == Routed(c)
  <2>1. /\ Len(row.leaving) = Len(ps) /\ ps \in Seq(Oid)
        /\ \A k \in 1..Len(ps) :
              LET w == At(lanes', row.leaving[k].to)
              IN  w \in Oid /\ IsAncestor(ps[k], w) /\ (k = 1 => w = ps[1])
    BY <1>2 DEF LaidLines
  <2>2. \A m \in 1..n + 1 : ~(n + 1 < m)
    BY <1>3
  <2>3. \A l : GoesOn(n + 1, l)'
    BY <1>3, <2>2 DEF GoesOn
  <2>4. ASSUME NEW k \in 1..Len(ps)
        PROVE  \E w \in Oid : /\ LeadsOn(n + 1, row.leaving[k].to, w)' /\ IsAncestor(ps[k], w)
                              /\ k = 1 /\ ~Shortcut => w = ps[k]
    <3>1. PICK w \in Oid : /\ w = At(lanes', row.leaving[k].to)
                           /\ IsAncestor(ps[k], w) /\ (k = 1 => w = ps[1])
      BY <2>1
    <3>2. LeadsOn(n + 1, row.leaving[k].to, w)'
      BY <2>3, <3>1 DEF LeadsOn
    <3> QED BY <3>1, <3>2
  <2>5. rows'[n + 1] = row /\ row.commit = c /\ Routed(c)' = ps
    BY <1>3, <1>5, <1>6
  <2> HIDE DEF ps
  <2> QED BY <1>6, <2>1, <2>4, <2>5 DEF RowLeads
<1>14. ASSUME main' # None, NEW i \in DOMAIN rows' PROVE RowLeads(i)'
  <2>1. i \in 1..n \/ i = n + 1
    BY <1>3
  <2> QED BY <1>3, <1>12, <1>13, <1>14, <2>1
<1> QED BY <1>7, <1>11, <1>14 DEF LeadInv

LEMMA TrimLaneLeads ==
    ASSUME IInv, LeadInv, TrimLane
    PROVE  LeadInv'
<1>n. PICK n : n = Len(rows)
  OBVIOUS
<1>1. HistoryInv /\ RowsInv /\ MainOnLaneZero /\ ReservedPasses
  BY DEF IInv, TrimLane
<1>2. UNCHANGED <<parents, loaded, main, chain, ancestors, lanes>>
  BY DEF TrimLane, history
<1>3. /\ rows \in Seq(RowType) /\ n \in Nat /\ DOMAIN rows = 1..n
      /\ rows' \in Seq(RowType) /\ DOMAIN rows' = 1..n
  <2>1. rows' \in Seq(RowType) /\ Len(rows') = n
    BY <1>1, <1>n, TrimLaneIs
  <2>2. rows \in Seq(RowType)
    BY <1>1 DEF RowsInv
  <2> QED BY <1>n, <2>1, <2>2
<1>4. ASSUME NEW i \in 1..n
      PROVE  /\ rows'[i].commit = rows[i].commit /\ rows'[i].lane = rows[i].lane
             /\ rows'[i].leaving = rows[i].leaving
             /\ \/ rows'[i].passing = rows[i].passing
                \/ rows'[i].passing = rows[i].passing \ {Stub}
  BY <1>1, <1>n, TrimLaneIs
<1>5. ASSUME NEW i \in 1..n, NEW l PROVE EndsAt(rows[i], l)' <=> EndsAt(rows[i], l)
  <2>r. PICK r, s : r = rows[i] /\ s = rows'[i]
    OBVIOUS
  <2>1. s.lane = r.lane /\ (s.passing = r.passing \/ s.passing = r.passing \ {Stub})
    BY <1>4, <2>r
  <2>2. [from |-> l, to |-> r.lane] = Stub => l = r.lane
    <3>1. Stub.from = 1 /\ Stub.to = 1
      BY DEF Stub
    <3>2. [from |-> l, to |-> r.lane].from = l /\ [from |-> l, to |-> r.lane].to = r.lane
      OBVIOUS
    <3> QED BY <3>1, <3>2
  <2>3. EndsAt(s, l) <=> EndsAt(r, l)
    BY <2>1, <2>2 DEF EndsAt
  <2> QED BY <2>r, <2>3 DEF EndsAt
<1>6. Laid' = Laid
  <2>1. Laid = {rows[i].commit : i \in 1..n} /\ Laid' = {rows'[i].commit : i \in 1..n}
    BY <1>3 DEF Laid
  <2> QED BY <1>4, <2>1
<1>7. /\ \A d : Routed(d)' = Routed(d)
      /\ \A a, d : IsAncestor(a, d)' = IsAncestor(a, d)
      /\ Shortcut' = Shortcut /\ Oid' = Oid
  BY <1>2 DEF Routed, IsAncestor, Shortcut, Parents, Oid
<1>8. ASSUME NEW i \in 1..n, NEW l, NEW w, LeadsOn(i, l, w) PROVE LeadsOn(i, l, w)'
  <2>1. ASSUME NEW j \in DOMAIN rows, EndsIn(i, l, j), rows[j].commit = w
        PROVE  EndsIn(i, l, j)' /\ rows'[j].commit = w /\ j \in DOMAIN rows'
    <3>1. j \in 1..n /\ rows'[j].commit = w
      BY <1>3, <1>4, <2>1
    <3> QED BY <1>3, <1>5, <2>1, <3>1 DEF EndsIn
  <2>2. GoesOn(i, l) => GoesOn(i, l)'
    BY <1>3, <1>5 DEF GoesOn
  <2>3. At(lanes, l)' = At(lanes, l)
    BY <1>2 DEF At
  <2> QED BY <1>8, <2>1, <2>2, <2>3 DEF LeadsOn
<1>9. ASSUME main' # None, NEW i \in DOMAIN rows' PROVE RowLeads(i)'
  <2>1. i \in 1..n /\ main # None
    BY <1>2, <1>3, <1>9
  <2>2. RowLeads(i)
    BY <1>3, <2>1 DEF LeadInv
  <2>3. rows'[i].commit = rows[i].commit /\ rows'[i].leaving = rows[i].leaving
    BY <1>4, <2>1
  <2>d. PICK d : d = rows[i].commit
    OBVIOUS
  <2> DEFINE ps == Routed(d)
  <2>4. /\ ps \in Seq(Oid) /\ Len(rows[i].leaving) = Len(ps)
        /\ \A k \in 1..Len(ps) : \E w \in Oid :
              /\ LeadsOn(i, rows[i].leaving[k].to, w) /\ IsAncestor(ps[k], w)
              /\ k = 1 /\ ~Shortcut => w = ps[k]
    BY <2>2, <2>d DEF RowLeads
  <2>5. ASSUME NEW k \in 1..Len(ps)
        PROVE  \E w \in Oid : /\ LeadsOn(i, rows[i].leaving[k].to, w)'
                              /\ IsAncestor(ps[k], w)
                              /\ k = 1 /\ ~Shortcut => w = ps[k]
    <3>l. PICK l : l = rows[i].leaving[k].to
      OBVIOUS
    <3>1. PICK w \in Oid : /\ LeadsOn(i, l, w) /\ IsAncestor(ps[k], w)
                           /\ k = 1 /\ ~Shortcut => w = ps[k]
      BY <2>4, <3>l
    <3>2. LeadsOn(i, l, w)'
      BY <1>8, <2>1, <3>1
    <3>3. rows'[i].leaving[k].to = l
      BY <2>3, <3>l
    <3> QED BY <3>1, <3>2, <3>3
  <2>6. Routed(d)' = ps
    BY <1>7
  <2> HIDE DEF ps
  <2> QED BY <1>7, <2>3, <2>4, <2>5, <2>6, <2>d DEF RowLeads
<1>10. IsAncestry(ancestors, parents, loaded)'
  <2>1. IsAncestry(ancestors, parents, loaded)
    BY DEF LeadInv
  <2> QED BY <1>2, <2>1
<1>11. Waiting'
  <2>1. Waiting
    BY DEF LeadInv
  <2> QED BY <1>2, <1>6, <1>7, <2>1 DEF Waiting, Shortcut, Parents
<1> QED BY <1>9, <1>10, <1>11 DEF LeadInv

\* A search down from row i for the first of some rows: what a recursion that looks at one
\* row after the other finds.
SearchStep(n, hits, v, f, i) ==
    IF i = n THEN None ELSE IF i + 1 \in hits THEN v[i + 1] ELSE f[i + 1]

Searches(n, hits, v, f) == f = [i \in 1..n |-> SearchStep(n, hits, v, f, i)]

LEMMA SearchEnds ==
    ASSUME NEW n \in Nat, NEW hits \in SUBSET (1..n), NEW v
    PROVE  \E f : Searches(n, hits, v, f)
<1> DEFINE below(i) == {m \in hits : i < m}
           found(i) == IF below(i) = {} THEN None ELSE v[Min(below(i))]
           f == [i \in 1..n |-> found(i)]
<1>0. \A m \in hits : m \in Nat /\ m >= 1 /\ m <= n
  OBVIOUS
<1>1. ASSUME NEW i \in 1..n PROVE found(i) = SearchStep(n, hits, v, f, i)
  <2>1. CASE i = n
    <3>1. \A m \in hits : ~(i < m)
      BY <1>0, <2>1
    <3>2. below(i) = {}
      BY <3>1
    <3> QED BY <2>1, <3>2 DEF SearchStep
  <2>2. CASE i # n /\ i + 1 \in hits
    <3>1. below(i) \in SUBSET Nat /\ i + 1 \in below(i) /\ \A m \in below(i) : i + 1 <= m
      <4>1. \A m \in below(i) : m \in Nat /\ i + 1 <= m
        BY <1>0
      <4>2. i + 1 \in below(i)
        BY <2>2
      <4> QED BY <4>1, <4>2
    <3> HIDE DEF below
    <3>2. Min(below(i)) \in below(i) /\ \A m \in below(i) : Min(below(i)) <= m
      BY <3>1, MinIs
    <3>3. Min(below(i)) = i + 1
      <4> DEFINE x == Min(below(i))
      <4>1. x \in Nat /\ x <= i + 1 /\ i + 1 <= x
        BY <3>1, <3>2
      <4> HIDE DEF x
      <4>2. x = i + 1
        BY <4>1
      <4> QED BY <4>2 DEF x
    <3>4. found(i) = v[i + 1]
      BY <3>1, <3>3
    <3>5. SearchStep(n, hits, v, f, i) = v[i + 1]
      BY <2>2 DEF SearchStep
    <3> QED BY <3>4, <3>5
  <2>3. CASE i # n /\ i + 1 \notin hits
    <3>1. i + 1 \in 1..n
      BY <2>3
    <3>2. below(i) = below(i + 1)
      <4>1. \A m \in hits : i < m <=> i + 1 < m
        BY <2>3
      <4> QED BY <4>1
    <3>3. f[i + 1] = found(i + 1)
      BY <3>1
    <3> HIDE DEF f, below
    <3>4. SearchStep(n, hits, v, f, i) = f[i + 1]
      BY <2>3 DEF SearchStep
    <3> QED BY <3>2, <3>3, <3>4
  <2> QED BY <2>1, <2>2, <2>3
<1>2. f = [i \in 1..n |-> found(i)]
  OBVIOUS
<1> HIDE DEF f, found
<1>3. f = [i \in 1..n |-> SearchStep(n, hits, v, f, i)]
  BY <1>1, <1>2
<1> QED BY <1>3 DEF Searches

Finds(hits, v, f, i) ==
    /\ (\A m \in hits : ~(i < m)) => f[i] = None
    /\ \A j \in hits : i < j /\ (\A m \in hits : i < m => j <= m) => f[i] = v[j]

LEMMA SearchIs ==
    ASSUME NEW n \in Nat, NEW hits \in SUBSET (1..n), NEW v, NEW f,
           Searches(n, hits, v, f), NEW i \in 1..n
    PROVE  Finds(hits, v, f, i)
<1> DEFINE Good(a) == /\ (\A m \in hits : ~(a < m)) => f[a] = None
                      /\ \A j \in hits : a < j /\ (\A m \in hits : a < m => j <= m)
                                            => f[a] = v[j]
           T == {k \in 0..n : k < n => Good(n - k)}
<1>1. ASSUME NEW a \in 1..n
      PROVE  f[a] = IF a = n THEN None ELSE IF a + 1 \in hits THEN v[a + 1] ELSE f[a + 1]
  BY DEF Searches, SearchStep
<1>2. 1 \in 1..n /\ n >= 1
  OBVIOUS
<1>3. Good(n)
  <2>1. f[n] = None
    BY <1>1, <1>2
  <2>2. \A j \in hits : ~(n < j)
    OBVIOUS
  <2> QED BY <2>1, <2>2
<1>4. ASSUME NEW a \in 1..n, a # n, Good(a + 1) PROVE Good(a)
  <2>1. a + 1 \in 1..n /\ \A m \in hits : a < m <=> m = a + 1 \/ a + 1 < m
    BY <1>4
  <2>2. CASE a + 1 \in hits
    <3>1. f[a] = v[a + 1] /\ a < a + 1
      BY <1>1, <1>4, <2>2
    <3>2. \A j \in hits : a < j /\ (\A m \in hits : a < m => j <= m) => j = a + 1
      <4> TAKE j \in hits
      <4> HAVE a < j /\ (\A m \in hits : a < m => j <= m)
      <4>1. j <= a + 1 /\ j \in Nat /\ a < j
        BY <2>2, <3>1
      <4> QED BY <4>1
    <3> QED BY <2>2, <3>1, <3>2
  <2>3. CASE a + 1 \notin hits
    <3>1. f[a] = f[a + 1]
      BY <1>1, <1>4, <2>3
    <3>2. \A m \in hits : a < m <=> a + 1 < m
      BY <2>1, <2>3
    <3> QED BY <1>4, <3>1, <3>2
  <2> QED BY <2>2, <2>3
<1> HIDE DEF Good
<1>5. 0 \in T
  <2>1. n - 0 = n
    OBVIOUS
  <2> QED BY <1>3, <2>1
<1>6. ASSUME NEW k \in 1..n, k - 1 \in T PROVE k \in T
  <2> SUFFICES ASSUME k < n PROVE Good(n - k)
    OBVIOUS
  <2>1. n - k \in 1..n /\ n - k # n /\ n - (k - 1) = (n - k) + 1 /\ k - 1 < n
    OBVIOUS
  <2>2. Good(n - (k - 1))
    BY <1>6, <2>1
  <2>3. Good((n - k) + 1)
    BY <2>1, <2>2
  <2> QED BY <1>4, <2>1, <2>3
<1>7. n - i \in T
  <2> HIDE DEF T
  <2>1. 0..n \subseteq T
    BY <1>5, <1>6, CountUp
  <2>2. n - i \in 0..n
    OBVIOUS
  <2> QED BY <2>1, <2>2
<1>8. Good(n - (n - i))
  <2>1. n - i < n
    OBVIOUS
  <2> QED BY <1>7, <2>1
<1>9. n - (n - i) = i
  OBVIOUS
<1>10. Good(i)
  BY <1>8, <1>9
<1> QED BY <1>10 DEF Good, Finds

\* Where a line ends is the commit LeadsTo says.
LEMMA LeadsToIs ==
    ASSUME RowsInv, NEW i \in DOMAIN rows, NEW l
    PROVE  /\ GoesOn(i, l) => LeadsTo(l)[i] = None
           /\ \A j : EndsIn(i, l, j) => LeadsTo(l)[i] = rows[j].commit
<1> DEFINE n == Len(rows)
           hits == {m \in 1..n : EndsAt(rows[m], l)}
           v == [m \in 1..n |-> rows[m].commit]
           end[a \in DOMAIN rows] == SearchStep(n, hits, v, end, a)
<1>1. n \in Nat /\ DOMAIN rows = 1..n /\ hits \in SUBSET (1..n)
  BY DEF RowsInv
<1>2. Searches(n, hits, v, end)
  <2> HIDE DEF n, hits, v
  <2>1. \E f : f = [a \in 1..n |-> SearchStep(n, hits, v, f, a)]
    BY <1>1, SearchEnds DEF Searches
  <2>2. end = [a \in 1..n |-> SearchStep(n, hits, v, end, a)]
    BY <1>1, <2>1, Zenon
  <2> HIDE DEF end
  <2> QED BY <2>2 DEF Searches
<1>3. LeadsTo(l) = end
  <2> DEFINE step(f, a) == IF a = Len(rows) THEN None
                           ELSE IF EndsAt(rows[a + 1], l) THEN rows[a + 1].commit ELSE f[a + 1]
  <2>1. \A f : \A a \in DOMAIN rows : step(f, a) = SearchStep(n, hits, v, f, a)
    <3> TAKE f
    <3> TAKE a \in DOMAIN rows
    <3>1. CASE a = n
      BY <3>1 DEF SearchStep
    <3>2. CASE a # n
      <4>1. a + 1 \in 1..n
        BY <1>1, <3>2
      <4> QED BY <3>2, <4>1 DEF SearchStep
    <3> QED BY <3>1, <3>2
  <2>2. \A f : [a \in DOMAIN rows |-> step(f, a)]
               = [a \in DOMAIN rows |-> SearchStep(n, hits, v, f, a)]
    <3> HIDE DEF step, n, hits, v
    <3> QED BY <2>1
  <2>3. LeadsTo(l) = CHOOSE f : f = [a \in DOMAIN rows |-> step(f, a)]
    BY DEF LeadsTo
  <2>4. end = CHOOSE f : f = [a \in DOMAIN rows |-> SearchStep(n, hits, v, f, a)]
    OBVIOUS
  <2> HIDE DEF step, n, hits, v, end
  <2> QED BY <2>2, <2>3, <2>4, Zenon
<1> HIDE DEF end
<1>f. Finds(hits, v, end, i)
  <2> HIDE DEF n, hits, v
  <2> QED BY <1>1, <1>2, SearchIs
<1>4. GoesOn(i, l) => end[i] = None
  <2>1. GoesOn(i, l) => \A m \in hits : ~(i < m)
    BY <1>1 DEF GoesOn
  <2> HIDE DEF n, hits, v
  <2> QED BY <1>f, <2>1 DEF Finds
<1>5. ASSUME NEW j, EndsIn(i, l, j) PROVE end[i] = rows[j].commit
  <2>1. j \in hits /\ i < j /\ v[j] = rows[j].commit
    BY <1>1, <1>5 DEF EndsIn
  <2>2. \A m \in hits : i < m => j <= m
    <3> TAKE m \in hits
    <3> HAVE i < m
    <3>1. ~(m < j) /\ m \in Nat /\ j \in Nat
      BY <1>1, <1>5, <2>1 DEF EndsIn
    <3> QED BY <3>1
  <2> HIDE DEF n, hits, v
  <2>3. end[i] = v[j]
    BY <1>f, <2>1, <2>2 DEF Finds
  <2> QED BY <2>1, <2>3
<1> QED BY <1>3, <1>4, <1>5

-----------------------------------------------------------------------------
(* The theorems *)

THEOREM Invariance == Spec => []IInv
<1>1. Init => IInv
  BY InitialIsInvariant
<1>2. IInv /\ [Next]_vars => IInv'
  <2> SUFFICES ASSUME IInv, [Next]_vars PROVE IInv'
    OBVIOUS
  <2>1. CASE LayRow
    BY <2>1, LayRowKeeps
  <2>2. CASE TrimLane
    BY <2>2, TrimLaneKeeps
  <2>3. CASE UNCHANGED vars
    <3>1. UNCHANGED <<parents, loaded, main, chain, lanes, rows, done>>
      BY <2>3 DEF vars
    <3>2. /\ Listed' = Listed /\ Laid' = Laid /\ Unlaid' = Unlaid /\ Reserved' = Reserved
          /\ RowType' = RowType /\ Lanes' = Lanes /\ Oid' = Oid /\ Row(main)' = Row(main)
      BY <3>1 DEF Listed, Laid, Unlaid, Reserved, RowType, Lane, Line, Lanes, Slot, Oid, Row
    <3>3. StripUntil' = StripUntil
      BY <3>1, <3>2 DEF StripUntil
    <3>4. \A d : ParentLists(d)' = ParentLists(d)
      BY DEF ParentLists
    <3>5. HistoryInv'
      BY <3>1, <3>2, <3>4 DEF IInv, HistoryInv
    <3>6. RowsInv' /\ MainOnLaneZero' /\ MainWay' /\ (ReservedPasses' <=> ReservedPasses)
      BY <3>1, <3>2 DEF IInv, RowsInv, MainOnLaneZero, MainWay, ReservedPasses
    <3>7. (Meeting' <=> Meeting) /\ (LinesMeet' <=> LinesMeet)
      BY <3>1, <3>2, <3>3 DEF Meeting, LinesMeet, Unjoined
    <3> QED BY <3>1, <3>5, <3>6, <3>7 DEF IInv
  <2> QED BY <2>1, <2>2, <2>3 DEF Next
<1> QED BY <1>1, <1>2, PTL DEF Spec

\* Type correctness; the lanes of a drawing are at most twice as many as the commits.
THEOREM TypeCorrect == Spec => []TypeOK
<1>1. IInv => TypeOK
  <2> SUFFICES ASSUME IInv PROVE TypeOK
    OBVIOUS
  <2>1. /\ lanes \in Lanes /\ done \in BOOLEAN /\ rows \in Seq(RowType)
    BY DEF IInv, RowsInv
  <2>2. \A i \in DOMAIN rows : rows[i] \in RowType
    BY <2>1
  <2> QED BY <2>1, <2>2 DEF TypeOK, RowType, Lanes, Slot
<1> QED BY <1>1, Invariance, PTL

\* The main line keeps lane 0, in every history, for every part of it that is loaded.
THEOREM MainLineKeepsLane == Spec => []MainOnLaneZero
<1>1. IInv => MainOnLaneZero
  BY DEF IInv
<1> QED BY <1>1, Invariance, PTL

\* In a finished drawing the lines that leave a row are those that enter the next, but
\* for the main tip's own line where the lane above it was erased.
THEOREM LinesAreContinuous == Spec => []LinesMeet
<1>1. IInv => LinesMeet
  BY DEF IInv
<1> QED BY <1>1, Invariance, PTL

\* Where lines lead, in every history with a main branch: to the parent that is loaded or
\* a descendant of it, and the first, without a shortcut, to the parent itself.
THEOREM LinesLeadToParents == Spec => []LinesLead
<1>1. Init => IInv /\ LeadInv
  BY InitialIsInvariant, InitialLeads
<1>2. IInv /\ LeadInv /\ [Next]_vars => LeadInv'
  <2> SUFFICES ASSUME IInv, LeadInv, [Next]_vars PROVE LeadInv'
    OBVIOUS
  <2>1. CASE LayRow
    BY <2>1, LayRowLeads
  <2>2. CASE TrimLane
    BY <2>2, TrimLaneLeads
  <2>3. CASE UNCHANGED vars
    <3>1. UNCHANGED <<parents, loaded, main, chain, ancestors, lanes, rows>>
      BY <2>3 DEF vars
    <3>2. Laid' = Laid /\ Shortcut' = Shortcut /\ Oid' = Oid
      BY <3>1 DEF Laid, Shortcut, Parents, Oid
    <3>3. /\ \A d : Routed(d)' = Routed(d)
          /\ \A a, d : IsAncestor(a, d)' = IsAncestor(a, d)
      BY <3>1 DEF Routed, IsAncestor
    <3>4. \A i, l, w : LeadsOn(i, l, w)' = LeadsOn(i, l, w)
      BY <3>1 DEF LeadsOn, EndsIn, GoesOn, EndsAt, At
    <3>5. \A i : RowLeads(i)' = RowLeads(i)
      BY <3>1, <3>2, <3>3, <3>4 DEF RowLeads
    <3>6. IsAncestry(ancestors, parents, loaded)' <=> IsAncestry(ancestors, parents, loaded)
      BY <3>1
    <3>7. Waiting' <=> Waiting
      BY <3>1, <3>2 DEF Waiting
    <3> QED BY <3>1, <3>5, <3>6, <3>7 DEF LeadInv
  <2> QED BY <2>1, <2>2, <2>3 DEF Next
<1>3. IInv /\ LeadInv => LinesLead
  <2> SUFFICES ASSUME IInv, LeadInv, done, main # None,
                      NEW i \in DOMAIN rows, NEW k \in DOMAIN rows[i].leaving
               PROVE  LET p == Routed(rows[i].commit)[k]
                          q == LeadsTo(rows[i].leaving[k].to)[i]
                      IN  /\ p \in loaded => q # None /\ IsAncestor(p, q)
                          /\ k = 1 /\ ~Shortcut => q = IF p \in loaded THEN p ELSE None
    BY DEF LinesLead
  <2> DEFINE ps == Routed(rows[i].commit)
             l == rows[i].leaving[k].to
             p == ps[k]
             q == LeadsTo(l)[i]
  <2>1. /\ HistoryInv /\ RowsInv /\ lanes \in Lanes /\ loaded \subseteq Laid
        /\ IsAncestry(ancestors, parents, loaded)
    BY DEF IInv, RowsInv, LeadInv, Unlaid, Listed
  <2>2. rows[i] \in RowType /\ rows[i].leaving \in Seq(Line)
    <3>1. rows[i] \in RowType
      BY <2>1 DEF RowsInv
    <3> QED BY <3>1 DEF RowType
  <2>3. l \in Nat \ {0}
    <3>1. rows[i].leaving[k] \in Line
      BY <2>2
    <3> QED BY <3>1, CommitsAssumption DEF Line, Lane
  <2>4. PICK w \in Oid : /\ LeadsOn(i, l, w) /\ IsAncestor(p, w)
                         /\ k = 1 /\ ~Shortcut => w = p
    <3>1. RowLeads(i)
      BY DEF LeadInv
    <3>2. DOMAIN rows[i].leaving = 1..Len(rows[i].leaving)
      BY <2>2
    <3> QED BY <3>1, <3>2 DEF RowLeads
  <2>5. w # None
    BY OidIsNat
  <2> HIDE DEF p, q, l
  <2>6. CASE \E j \in DOMAIN rows : EndsIn(i, l, j) /\ rows[j].commit = w
    <3>1. PICK j \in DOMAIN rows : EndsIn(i, l, j) /\ rows[j].commit = w
      BY <2>6
    <3>2. q = w
      BY <2>1, <3>1, LeadsToIs DEF q
    <3>3. w \in loaded
      <4>1. rows[j] \in RowType
        BY <2>1 DEF RowsInv
      <4> QED BY <3>1, <4>1 DEF RowType
    <3>4. /\ p \in loaded => q # None /\ IsAncestor(p, q)
          /\ k = 1 /\ ~Shortcut => q = IF p \in loaded THEN p ELSE None
      BY <2>4, <2>5, <3>2, <3>3
    <3> QED BY <3>4 DEF p, q, l
  <2>7. CASE GoesOn(i, l) /\ At(lanes, l) = w
    <3>1. q = None
      BY <2>1, <2>7, LeadsToIs DEF q
    <3>2. l \in Busy(lanes)
      BY <2>1, <2>3, <2>5, <2>7, AtIs
    <3>3. w \notin loaded
      BY <2>1, <2>7, <3>2 DEF LeadInv, Waiting
    <3>4. p = w
      BY <2>1, <2>4, <3>3, AncestorsAre DEF IsAncestor
    <3>5. /\ p \in loaded => q # None /\ IsAncestor(p, q)
          /\ k = 1 /\ ~Shortcut => q = IF p \in loaded THEN p ELSE None
      BY <3>1, <3>3, <3>4
    <3> QED BY <3>5 DEF p, q, l
  <2> QED BY <2>4, <2>6, <2>7 DEF LeadsOn
<1> QED BY <1>1, <1>2, <1>3, Invariance, PTL DEF Spec
=============================================================================
