----------------------------- MODULE TeamProofs -----------------------------
(***************************************************************************)
(* Proofs about the thread team of a kernel launch.                        *)
(*                                                                         *)
(* KernelTeam, for teams of any size, any worker groups and replicas, any  *)
(* numbers of heads, rows and keys: how packing is shared out, that nobody *)
(* reads what is still being packed, and that a team that has closed has   *)
(* answered every row exactly, merged partials included.                   *)
(*                                                                         *)
(* WorkerAffinity, for teams of every size, any libraries and any CPUs,    *)
(* with affinity calls that fail: where bodies run, and that the calling   *)
(* thread gets its mask back.                                              *)
(***************************************************************************)
EXTENDS KernelTeam, WorkerAffinity, CommonTheorems

-----------------------------------------------------------------------------
LEMMA LaunchType ==
  ASSUME launch \in Launches
  PROVE  /\ launch.workers \in Nat \ {0} /\ launch.team \in 1..launch.workers
         /\ launch.heads * launch.depth \in Nat \ {0}
         /\ launch.rows \in Nat \ {0} /\ launch.skv \in Nat \ {0} /\ launch.prefix \in 0..launch.skv
         /\ Threads \subseteq Workers
<1>1. /\ launch.workers \in Nat \ {0} /\ launch.team \in 1..launch.workers
      /\ launch.heads \in Nat \ {0} /\ launch.depth \in Nat \ {0}
      /\ launch.rows \in Nat \ {0} /\ launch.skv \in Nat \ {0} /\ launch.prefix \in 0..launch.skv
  BY LaunchAssumption
<1>2. launch.heads * launch.depth \in Nat \ {0}
  BY <1>1
<1>3. Threads \subseteq Workers
  BY <1>1 DEF Threads, Workers
<1>4. QED
  BY <1>1, <1>2, <1>3

(* cpuattn_local_packed_rank numbers the workers of a group from 0. *)
LEMMA RanksAreTaken ==
  ASSUME launch \in Launches, NEW g, NEW member \in GroupMembers(g)
  PROVE  /\ Cardinality(GroupMembers(g)) \in Nat \ {0}
         /\ \A rank \in 0..Cardinality(GroupMembers(g)) - 1 :
              \E w \in GroupMembers(g) : GroupRank(w) = rank
<1> DEFINE M == GroupMembers(g)
           below(w) == {v \in M : v < w}
           n == Cardinality(M)
<1>1. launch.workers \in Nat \ {0} /\ Workers = 0..launch.workers - 1 /\ M \subseteq Workers
  BY LaunchType DEF Workers, GroupMembers
<1>2. IsFiniteSet(Workers)
  BY <1>1, FS_Interval
<1>3. IsFiniteSet(M) /\ n \in Nat
  BY <1>1, <1>2, FS_Subset, FS_CardinalityType
<1>4. n # 0 /\ member \in M
  BY <1>3, FS_EmptySet
<1>5. \A w \in M : GroupRank(w) = Cardinality(below(w))
  BY DEF GroupRank, GroupMembers
<1> HIDE DEF M
<1>6. \A w \in M : IsFiniteSet(below(w)) /\ Cardinality(below(w)) \in 0..n - 1
  <2> TAKE w \in M
  <2>1. IsFiniteSet(M \ {w}) /\ Cardinality(M \ {w}) = n - 1
    BY <1>3, FS_RemoveElement
  <2>2. below(w) \in SUBSET (M \ {w})
    BY <1>1
  <2>3. IsFiniteSet(below(w)) /\ Cardinality(below(w)) <= n - 1
    BY <2>1, <2>2, FS_Subset
  <2>4. Cardinality(below(w)) \in Nat
    BY <2>3, FS_CardinalityType
  <2>5. QED
    BY <1>3, <2>3, <2>4
<1>7. ASSUME NEW v \in M, NEW w \in M, v < w
      PROVE  Cardinality(below(v)) < Cardinality(below(w))
  <2>1. v \in below(w) /\ IsFiniteSet(below(w)) /\ Cardinality(below(w)) \in Nat
    BY <1>6, <1>7
  <2>2. IsFiniteSet(below(w) \ {v}) /\ Cardinality(below(w) \ {v}) = Cardinality(below(w)) - 1
    BY <2>1, FS_RemoveElement
  <2>3. below(v) \in SUBSET (below(w) \ {v})
    <3>1. v \in Int /\ w \in Int /\ \A x \in M : x \in Int
      BY <1>1
    <3>2. \A x \in M : x < v => x < w /\ x # v
      BY <1>7, <3>1
    <3>3. QED
      BY <3>2
  <2>4. Cardinality(below(v)) <= Cardinality(below(w) \ {v})
    BY <2>2, <2>3, FS_Subset
  <2>5. Cardinality(below(v)) \in 0..n - 1
    BY <1>6
  <2>6. QED
    BY <2>1, <2>2, <2>4, <2>5
<1> DEFINE f == [w \in M |-> Cardinality(below(w))]
<1>8. f \in [M -> 0..n - 1]
  BY <1>6
<1>9. \A v, w \in M : f[v] = f[w] => v = w
  <2> SUFFICES ASSUME NEW v \in M, NEW w \in M, v # w PROVE f[v] # f[w]
    OBVIOUS
  <2>1. v < w \/ w < v
    BY <1>1
  <2>2. f[v] < f[w] \/ f[w] < f[v]
    BY <1>7, <2>1
  <2>3. f[v] \in Nat /\ f[w] \in Nat
    BY <1>6
  <2>4. QED
    BY <2>2, <2>3
<1> HIDE DEF f
<1>10. f \in Injection(M, 0..n - 1)
  BY <1>8, <1>9 DEF Injection, IsInjective
<1>11. IsFiniteSet(0..n - 1) /\ Cardinality(0..n - 1) = n
  BY <1>3, <1>4, FS_Interval
<1>12. f \in Surjection(M, 0..n - 1)
  BY <1>10, <1>11, FS_Injection
<1>13. \A rank \in 0..n - 1 : \E w \in M : f[w] = rank
  BY <1>12 DEF Surjection
<1>14. \A w \in M : f[w] = GroupRank(w)
  BY <1>5 DEF f
<1>15. QED
  BY <1>3, <1>4, <1>13, <1>14 DEF M

-----------------------------------------------------------------------------
(* Where a worker's replica is. *)
LEMMA SlotType ==
  ASSUME launch \in Launches, Packs, NEW w \in Workers
  PROVE  /\ LocalSlot(w) \in Replicas
         /\ OwnerSlots(Group(w)) # {} => launch.owners[LocalSlot(w)] = Group(w)
<1>1. Len(launch.owners) \in Nat \ {0}
  <2>1. launch.owners \in Seq(Nat) /\ launch.owners # <<>>
    BY PackingAssumption DEF Packs
  <2>2. QED
    BY <2>1
<1>2. 1 \in Replicas
  BY <1>1 DEF Replicas
<1>3. OwnerSlots(Group(w)) # {} => LocalSlot(w) \in OwnerSlots(Group(w))
  BY DEF LocalSlot
<1>4. OwnerSlots(Group(w)) = {} => LocalSlot(w) = 1
  BY DEF LocalSlot
<1>5. QED
  BY <1>2, <1>3, <1>4 DEF OwnerSlots

(* Of the workers of a group that has a replica, one copies each panel. *)
LEMMA GroupPacks ==
  ASSUME launch \in Launches, NEW w \in Workers, OwnerSlots(Group(w)) # {}, NEW p \in Panels
  PROVE  \E u \in Workers : Group(u) = Group(w) /\ p \in PanelsOf(u)
<1> DEFINE count == launch.heads * launch.depth
           n == Cardinality(GroupMembers(Group(w)))
<1>1. w \in GroupMembers(Group(w))
  BY DEF GroupMembers
<1>2. /\ n \in Nat \ {0}
      /\ \A rank \in 0..n - 1 : \E u \in GroupMembers(Group(w)) : GroupRank(u) = rank
  BY <1>1, RanksAreTaken
<1>3. count \in Nat \ {0} /\ p \in 0..count - 1
  BY LaunchType DEF Panels
<1> HIDE DEF count, n
<1>4. PICK rank \in 0..n - 1 : p \in StaticRange(count, rank, n)
  BY <1>2, <1>3, ItemHasOwner
<1>5. PICK u \in GroupMembers(Group(w)) : GroupRank(u) = rank
  BY <1>2
<1>6. u \in Workers /\ Group(u) = Group(w)
  BY DEF GroupMembers
<1>7. PanelsOf(u) = StaticRange(count, GroupRank(u), n)
  BY <1>6 DEF PanelsOf, count, n
<1>8. QED
  BY <1>4, <1>5, <1>6, <1>7

(* Every panel of the replica that a worker reads is in some worker's share. *)
LEMMA ReplicaIsShared ==
  ASSUME launch \in Launches, Packs, NEW t \in Workers, NEW p \in Panels
  PROVE  \E u \in Workers : LocalSlot(u) = LocalSlot(t) /\ p \in PanelsOf(u)
<1>1. CASE OwnerSlots(Group(t)) # {}
  <2>1. PICK u \in Workers : Group(u) = Group(t) /\ p \in PanelsOf(u)
    BY <1>1, GroupPacks
  <2>2. LocalSlot(u) = LocalSlot(t)
    BY <2>1 DEF LocalSlot
  <2>3. QED
    BY <2>1, <2>2
<1>2. CASE OwnerSlots(Group(t)) = {}
  <2>1. LocalSlot(t) = 1 /\ 1 \in Replicas
    BY <1>2, SlotType DEF LocalSlot
  <2>2. 1 \in DOMAIN launch.owners
    <3>1. launch.owners \in Seq(Nat)
      BY PackingAssumption
    <3>2. QED
      BY <2>1, <3>1 DEF Replicas
  <2>3. PICK i \in DOMAIN launch.groups : launch.groups[i] = launch.owners[1]
    BY <2>2, PackingAssumption
  <2>4. launch.groups \in Seq(Nat) /\ Len(launch.groups) = launch.workers /\ launch.workers \in Nat
    BY PackingAssumption, LaunchAssumption
  <2>5. i \in 1..launch.workers
    BY <2>4
  <2> DEFINE w == i - 1
  <2>6. w \in Workers /\ w + 1 = i
    BY <2>4, <2>5 DEF Workers
  <2>7. Group(w) = launch.owners[1]
    BY <2>3, <2>6 DEF Group
  <2> HIDE DEF w
  <2>8. 1 \in OwnerSlots(Group(w))
    BY <2>1, <2>7 DEF OwnerSlots
  <2>9. PICK u \in Workers : Group(u) = Group(w) /\ p \in PanelsOf(u)
    BY <2>6, <2>8, GroupPacks
  <2>10. LocalSlot(u) \in Replicas /\ launch.owners[LocalSlot(u)] = launch.owners[1]
    BY <2>7, <2>8, <2>9, SlotType
  <2>11. LocalSlot(u) = 1
    <3>1. launch.owners \in Seq(Nat)
      BY PackingAssumption
    <3>2. LocalSlot(u) \in DOMAIN launch.owners
      BY <2>10, <3>1 DEF Replicas
    <3>3. QED
      BY <2>2, <2>10, <3>2, PackingAssumption
  <2>12. QED
    BY <2>1, <2>9, <2>11
<1>3. QED
  BY <1>1, <1>2

-----------------------------------------------------------------------------
(* How the split kernels share out keys and rows. *)

(* parallel_2d divides its workers evenly. *)
LEMMA KeyPartsDivides ==
  ASSUME NEW workers \in Nat \ {0}, NEW rows \in Nat \ {0}, NEW skv \in Nat \ {0},
         NEW tileK \in Nat \ {0}, Divisors(workers, skv, tileK) # {}
  PROVE  LET d == KeyParts(workers, rows, skv, tileK)
         IN  d \in 2..workers /\ workers % d = 0
<1> DEFINE ds == Divisors(workers, skv, tileK)
           active(d) == Smaller(workers \div d, rows) * d
           idle == {workers - active(d) : d \in ds}
<1>1. ds \subseteq 2..workers /\ \A d \in ds : workers % d = 0
  BY DEF Divisors
<1>2. \A d \in ds : active(d) \in Nat /\ active(d) <= workers
  <2> SUFFICES ASSUME NEW d \in 2..workers PROVE active(d) \in Nat /\ active(d) <= workers
    BY <1>1
  <2> DEFINE n == workers \div d
             m == Smaller(n, rows)
  <2>1. n \in Nat /\ d * n <= workers /\ d \in Nat
    BY DivideLeaves
  <2> HIDE DEF n
  <2>2. m \in Nat /\ m <= n
    BY <2>1 DEF Smaller
  <2> HIDE DEF m
  <2>3. m * d \in Nat /\ m * d <= d * n
    BY <2>1, <2>2
  <2>4. QED
    BY <2>1, <2>3 DEF m, n
<1> HIDE DEF active
<1>3. idle \subseteq Nat /\ idle # {}
  BY <1>2
<1>4. PICK least \in idle : \A i \in idle : least <= i
  BY <1>3, LeastNatural
<1> DEFINE busiest == {d \in ds : \A e \in ds : active(e) <= active(d)}
<1>5. busiest \subseteq Nat /\ busiest # {}
  <2>1. PICK d \in ds : least = workers - active(d)
    BY <1>4
  <2>2. ASSUME NEW e \in ds PROVE active(e) <= active(d)
    <3>1. least <= workers - active(e)
      BY <1>4
    <3>2. active(e) \in Nat /\ active(d) \in Nat
      BY <1>2
    <3>3. QED
      BY <2>1, <3>1, <3>2
  <2>3. QED
    BY <1>1, <2>1, <2>2
<1>6. PICK d \in busiest : \A e \in busiest : d <= e
  BY <1>5, LeastNatural
<1>7. ASSUME NEW e \in ds
      PROVE  active(e) < active(d) \/ (active(e) = active(d) /\ d <= e)
  <2>1. active(e) \in Nat /\ active(d) \in Nat /\ active(e) <= active(d)
    BY <1>2
  <2>2. CASE active(e) = active(d)
    BY <1>6, <2>2
  <2>3. QED
    BY <2>1, <2>2
<1>8. KeyParts(workers, rows, skv, tileK) \in ds
  <2>1. KeyParts(workers, rows, skv, tileK)
          = CHOOSE x \in ds : \A e \in ds : active(e) < active(x) \/ (active(e) = active(x) /\ x <= e)
    BY DEF KeyParts, active
  <2> HIDE DEF ds
  <2>2. d \in ds
    BY <1>6
  <2>3. QED
    BY <1>7, <2>1, <2>2
<1>9. QED
  BY <1>1, <1>8

(* The parts of a split, and where the workers are in it. *)
LEMMA PartsType ==
  ASSUME launch \in Launches, Splits
  PROVE  /\ Parts \in Nat \ {0}
         /\ \A w \in Workers : PartOf(w) \in 0..Parts - 1
         /\ launch.kernel = "2d" => /\ Split2D \in Nat \ {0} /\ QueryParts \in Nat \ {0}
                                    /\ launch.workers = Split2D * QueryParts
<1>1. /\ launch.workers \in Nat \ {0} /\ launch.rows \in Nat \ {0} /\ launch.skv \in Nat \ {0}
      /\ launch.tileK \in Nat \ {0} /\ Workers = 0..launch.workers - 1
  BY LaunchAssumption DEF Workers
<1>2. CASE launch.kernel = "2d"
  <2>1. Divisors(launch.workers, launch.skv, launch.tileK) # {}
    BY <1>2, SplitAssumption
  <2>2. Split2D \in 2..launch.workers /\ launch.workers % Split2D = 0
    BY <1>1, <2>1, KeyPartsDivides DEF Split2D
  <2>3. Split2D \in Nat \ {0}
    BY <1>1, <2>2
  <2>4. launch.workers = Split2D * QueryParts + 0 /\ QueryParts \in Nat
    BY <1>1, <2>2, <2>3, DivideRebuilds DEF QueryParts
  <2> HIDE DEF QueryParts, Split2D
  <2>5. launch.workers = Split2D * QueryParts /\ QueryParts # 0
    BY <1>1, <2>3, <2>4
  <2>6. \A w \in Workers : w % Split2D \in 0..Split2D - 1
    BY <1>1, <2>3, DivideRebuilds
  <2>7. QED
    BY <1>2, <2>3, <2>4, <2>5, <2>6 DEF Parts, PartOf
<1>3. CASE launch.kernel # "2d"
  BY <1>1, <1>3 DEF Parts, PartOf
<1>4. QED
  BY <1>2, <1>3

LEMMA ContributorsAttend ==
  ASSUME launch \in Launches, Splits, NEW r \in Rows
  PROVE  Contributors(r) = {w \in Workers : r \in RowsOf(w)}
<1>1. CASE launch.kernel = "2d"
  BY <1>1 DEF Contributors, RowsOf
<1>2. CASE launch.kernel = "split_k"
  BY <1>2 DEF Contributors, RowsOf
<1>3. QED
  BY <1>1, <1>2 DEF Splits

LEMMA RangeIsShare ==
  ASSUME launch \in Launches, Splits, NEW w \in Workers, NEW k \in Keys
  PROVE  k \in KeyRange(w) <=> k - 1 \in StaticRange(launch.skv, PartOf(w), Parts)
<1> DEFINE part == PartOf(w)
           below == (launch.skv * part) \div Parts
           above == (launch.skv * (part + 1)) \div Parts
<1>1. launch.skv \in Nat \ {0} /\ k \in 1..launch.skv /\ k - 1 \in 0..launch.skv - 1
  BY LaunchType DEF Keys
<1>2. Parts \in Nat \ {0} /\ part \in Nat
  BY PartsType
<1>3. below \in Int /\ above \in Int
  <2>1. launch.skv * part \in Nat /\ launch.skv * (part + 1) \in Nat
    BY <1>1, <1>2
  <2>2. QED
    BY <1>2, <2>1, DivideLeaves
<1>4. k \in KeyRange(w) <=> below < k /\ k <= above
  BY DEF KeyRange
<1>5. k - 1 \in StaticRange(launch.skv, part, Parts) <=> below <= k - 1 /\ k - 1 < above
  BY <1>1 DEF StaticRange
<1> HIDE DEF below, above, part
<1>6. (below < k <=> below <= k - 1) /\ (k <= above <=> k - 1 < above)
  BY <1>1, <1>3
<1>7. QED
  BY <1>4, <1>5, <1>6 DEF part

(* Of the contributors to a row, one attends to each key. *)
LEMMA KeyHasOneContributor ==
  ASSUME launch \in Launches, Splits, NEW r \in Rows, NEW k \in Keys
  PROVE  \E w \in Contributors(r) :
           k \in KeyRange(w) /\ \A v \in Contributors(r) : k \in KeyRange(v) => v = w
<1> DEFINE share(p) == StaticRange(launch.skv, p, Parts)
<1>1. launch.skv \in Nat \ {0} /\ k - 1 \in 0..launch.skv - 1 /\ Parts \in Nat \ {0}
  BY LaunchType, PartsType DEF Keys
<1>2. PICK p \in 0..Parts - 1 : k - 1 \in share(p)
  BY <1>1, ItemHasOwner
<1>3. \A w \in Workers : k \in KeyRange(w) <=> PartOf(w) = p
  <2> TAKE w \in Workers
  <2>1. k \in KeyRange(w) <=> k - 1 \in share(PartOf(w))
    BY RangeIsShare
  <2>2. PartOf(w) \in 0..Parts - 1
    BY PartsType
  <2>3. k - 1 \in share(PartOf(w)) => PartOf(w) = p
    BY <1>1, <1>2, <2>2, ItemHasOneOwner
  <2>4. QED
    BY <1>2, <2>1, <2>3
<1> HIDE DEF share
<1>4. launch.workers \in Nat \ {0} /\ Workers = 0..launch.workers - 1
  BY LaunchType DEF Workers
<1>5. CASE launch.kernel = "split_k"
  <2>1. Contributors(r) = Workers /\ Parts = launch.workers /\ \A w \in Workers : PartOf(w) = w
    BY <1>5 DEF Contributors, Parts, PartOf
  <2>2. p \in Workers
    BY <1>2, <1>4, <2>1
  <2>3. QED
    BY <1>3, <2>1, <2>2
<1>6. CASE launch.kernel = "2d"
  <2> DEFINE q == r % QueryParts
             w == Split2D * q + p
  <2>1. /\ Split2D \in Nat \ {0} /\ QueryParts \in Nat \ {0}
        /\ launch.workers = Split2D * QueryParts /\ Parts = Split2D /\ r \in Nat
    BY <1>6, LaunchType, PartsType DEF Parts, Rows
  <2>2. q \in 0..QueryParts - 1
    BY <2>1, DivideRebuilds
  <2> HIDE DEF q
  <2>3. w \in Workers
    <3>1. q \in Nat /\ q + 1 <= QueryParts /\ p \in Nat /\ p <= Split2D - 1
      BY <1>2, <2>1, <2>2
    <3>2. Split2D * (q + 1) <= Split2D * QueryParts
      BY <2>1, <3>1
    <3>3. Split2D * (q + 1) = Split2D * q + Split2D /\ Split2D * q \in Nat
      BY <2>1, <3>1
    <3>4. QED
      BY <1>4, <2>1, <3>1, <3>2, <3>3
  <2>4. w \div Split2D = q /\ w % Split2D = p
    <3>1. p \in 0..Split2D - 1 /\ q \in Nat /\ Split2D \in Nat \ {0}
      BY <1>2, <2>1, <2>2
    <3>2. (Split2D * q + p) \div Split2D = q /\ (Split2D * q + p) % Split2D = p
      BY <3>1, DivideUnique
    <3>3. QED
      BY <3>2
  <2>5. Contributors(r) = {v \in Workers : v \div Split2D = q}
    BY <1>6 DEF Contributors, q
  <2>6. \A v \in Workers : PartOf(v) = v % Split2D
    BY <1>6 DEF PartOf
  <2>7. w \in Contributors(r) /\ k \in KeyRange(w)
    BY <1>3, <2>3, <2>4, <2>5, <2>6
  <2>8. ASSUME NEW v \in Contributors(r), k \in KeyRange(v) PROVE v = w
    <3>1. v \in Workers /\ v \div Split2D = q /\ v % Split2D = p
      BY <1>3, <2>5, <2>6, <2>8
    <3>2. v \in Nat
      BY <1>4, <3>1
    <3>3. v = Split2D * (v \div Split2D) + (v % Split2D)
      BY <2>1, <3>2, DivideRebuilds
    <3>4. QED
      BY <3>1, <3>3
  <2>9. QED
    BY <2>7, <2>8
<1>7. QED
  BY <1>5, <1>6 DEF Splits

(* What a worker leaves in its partial, and what merging makes of it. *)
OwnShare(w) == [k \in Keys |-> IF k \in KeyRange(w) THEN 1 ELSE 0]

LEMMA MergedIsExact ==
  ASSUME launch \in Launches, Splits, NEW r \in Rows,
         \A w \in Contributors(r) : partial[w][r] = OwnShare(w)
  PROVE  MergedRow(r) = Exact
<1> SUFFICES ASSUME NEW k \in Keys PROVE MergedRow(r)[k] = 1
  BY DEF MergedRow, Exact
<1>1. IsFiniteSet(Workers) /\ Contributors(r) \subseteq Workers
  <2>1. launch.workers \in Nat \ {0} /\ Workers = 0..launch.workers - 1
    BY LaunchType DEF Workers
  <2>2. QED
    BY <2>1, FS_Interval DEF Contributors
<1>2. PICK w \in Contributors(r) :
        k \in KeyRange(w) /\ \A v \in Contributors(r) : k \in KeyRange(v) => v = w
  BY KeyHasOneContributor
<1>3. \A v \in Contributors(r) : partial[v][r][k] = IF v = w THEN 1 ELSE 0
  BY <1>2 DEF OwnShare
<1>4. ASSUME NEW g \in GroupsOf(r)
      PROVE  MergedGroup(r, g)[k] = IF g = Group(w) THEN 1 ELSE 0
  <2> DEFINE ws == InGroup(r, g)
             f == [v \in ws |-> partial[v][r][k]]
  <2>1. IsFiniteSet(ws) /\ ws \subseteq Contributors(r) /\ (w \in ws <=> g = Group(w))
    BY <1>1, FS_Subset DEF InGroup
  <2>2. \A v \in ws : f[v] = IF v = w THEN 1 ELSE 0
    BY <1>3, <2>1
  <2>3. \A v \in ws : ~(partial[v][r][k] < 0)
    BY <1>3, <2>1
  <2>4. MergedGroup(r, g)[k] = SumOver(f, ws)
    BY <2>3 DEF MergedGroup, Total
  <2> HIDE DEF f, ws
  <2>5. CASE g = Group(w)
    <3>1. w \in ws /\ f[w] = 1 /\ \A v \in ws \ {w} : f[v] = 0
      BY <2>1, <2>2, <2>5
    <3>2. SumOver(f, ws) = f[w]
      BY <2>1, <3>1, SumOfOne
    <3>3. QED
      BY <2>4, <2>5, <3>1, <3>2
  <2>6. CASE g # Group(w)
    <3>1. \A v \in ws : f[v] = 0
      BY <2>1, <2>2, <2>6
    <3>2. SumOver(f, ws) = 0
      BY <2>1, <3>1, SumOfZeros
    <3>3. QED
      BY <2>4, <2>6, <3>2
  <2>7. QED
    BY <2>5, <2>6
<1>5. IsFiniteSet(GroupsOf(r)) /\ Group(w) \in GroupsOf(r)
  <2>1. IsFiniteSet(Contributors(r))
    BY <1>1, FS_Subset
  <2> DEFINE of == [v \in Contributors(r) |-> Group(v)]
  <2>2. of \in Surjection(Contributors(r), GroupsOf(r))
    BY DEF Surjection, GroupsOf
  <2> HIDE DEF of
  <2>3. QED
    BY <2>1, <2>2, FS_Surjection DEF GroupsOf
<1> DEFINE f == [g \in GroupsOf(r) |-> MergedGroup(r, g)[k]]
<1>6. MergedRow(r)[k] = SumOver(f, GroupsOf(r))
  <2>1. \A g \in GroupsOf(r) : ~(MergedGroup(r, g)[k] < 0)
    BY <1>4
  <2>2. QED
    BY <2>1 DEF MergedRow
<1>7. f[Group(w)] = 1 /\ \A g \in GroupsOf(r) \ {Group(w)} : f[g] = 0
  BY <1>4, <1>5
<1> HIDE DEF f
<1>8. SumOver(f, GroupsOf(r)) = f[Group(w)]
  BY <1>5, <1>7, SumOfOne
<1>9. QED
  BY <1>6, <1>7, <1>8

-----------------------------------------------------------------------------
(* The inductive invariant. *)

Shape ==
  /\ launch \in Launches
  /\ packed \in [Replicas -> [Panels -> {launch.prefix, launch.skv}]]
  /\ partial = [w \in Workers |-> [r \in Rows |-> partial[w][r]]]
  /\ output = [r \in Rows |-> output[r]]
  /\ todo = [t \in Threads |-> todo[t]]
  /\ shared \subseteq Rows
  /\ pc \in [Threads -> {"pack", "packed", "attend", "attended", "merge", "done"}]
  /\ failed = Short(launch)

(* Nobody passes the barrier of a call that has rows to copy while another
   copies. *)
BarrierHolds ==
  (Packs /\ launch.prefix < launch.skv) =>
    \A t, u \in Threads : pc[t] = "pack" => pc[u] \in {"pack", "packed"}

(* A panel of a thread's share is left to copy, or has been copied. *)
PanelsDone ==
  \A t \in Threads :
    /\ pc[t] = "pack" => /\ todo[t] \subseteq Panels
                         /\ ~Packs => todo[t] = {}
    /\ Packs => \A p \in PanelsOf(t) :
         (pc[t] # "pack" \/ p \notin todo[t]) => packed[LocalSlot(t)][p] = launch.skv

(* A row of the team is left to attend to, or its answer is exact: a row of a
   thread's own share, or one that anybody may take. *)
RowsDone ==
  (launch.kernel \in {"blocked", "dynamic"} /\ ~failed) =>
    /\ \A t \in Threads :
         /\ pc[t] \notin {"attended", "merge"}
         /\ pc[t] = "attend" => todo[t] \subseteq RowsOf(t)
         /\ pc[t] \in {"attend", "done"} =>
              \A r \in RowsOf(t) : (pc[t] = "done" \/ r \notin todo[t]) => output[r] = Exact
    /\ launch.kernel = "dynamic" =>
         /\ \A r \in Rows \ shared : output[r] = Exact
         /\ (\E t \in Threads : pc[t] = "done") => shared = {}

(* Threads merge behind a barrier, each its own chunk of the rows. *)
Merging == {"merge", "done"}
Merger(r) == r \div Chunk
Unmerged(r) ==
  pc[Merger(r)] \notin Merging \/ (pc[Merger(r)] = "merge" /\ r \in todo[Merger(r)])

(* A row's partials are left to compute, or hold what their workers share out
   of the keys, until the row is merged; then its answer is exact. *)
PartialsDone ==
  (Splits /\ ~failed) =>
    /\ \A t, u \in Threads : pc[t] \in Merging => pc[u] \in {"attended"} \cup Merging
    /\ \A t \in Threads :
         /\ pc[t] = "attend" => todo[t] \subseteq RowsOf(t)
         /\ pc[t] = "merge" => todo[t] \subseteq MergeRows(t)
         /\ pc[t] \in {"attend", "attended"} \cup Merging =>
              \A r \in RowsOf(t) :
                (pc[t] # "attend" \/ r \notin todo[t]) /\ Unmerged(r) => partial[t][r] = OwnShare(t)
    /\ \A r \in Rows : Unmerged(r) \/ output[r] = Exact

IInv == Shape /\ BarrierHolds /\ PanelsDone /\ RowsDone /\ PartialsDone

(* Everything but the state of the team depends on the launch only. *)
LEMMA OfTheLaunch ==
  ASSUME launch' = launch
  PROVE  /\ Workers' = Workers /\ Threads' = Threads /\ Rows' = Rows /\ Panels' = Panels
         /\ Replicas' = Replicas /\ Packs' = Packs /\ Exact' = Exact
         /\ \A t : LocalSlot(t)' = LocalSlot(t)
         /\ \A t : PanelsOf(t)' = PanelsOf(t)
         /\ \A t : RowsOf(t)' = RowsOf(t)
         /\ Splits' = Splits /\ \A r : Merger(r)' = Merger(r)
         /\ \A t : OwnShare(t)' = OwnShare(t) /\ MergeRows(t)' = MergeRows(t)
         /\ (failed' = failed => Short(launch)' = Short(launch))
<1>1. /\ Workers' = Workers /\ Threads' = Threads /\ Rows' = Rows /\ Panels' = Panels
      /\ Replicas' = Replicas /\ Packs' = Packs /\ Exact' = Exact
      /\ \A t : Group(t)' = Group(t)
  BY DEF Workers, Threads, Rows, Panels, Replicas, Packs, Exact, Keys, Group
<1>2. \A t : OwnerSlots(Group(t))' = OwnerSlots(Group(t))
  BY <1>1 DEF OwnerSlots
<1>3. \A t : LocalSlot(t)' = LocalSlot(t)
  <2> TAKE t
  <2> DEFINE own == OwnerSlots(Group(t))
             next == OwnerSlots(Group(t))'
  <2>1. own = next
    BY <1>2
  <2>2. LocalSlot(t) = IF own = {} THEN 1 ELSE CHOOSE s \in own : TRUE
    BY DEF LocalSlot
  <2>3. LocalSlot(t)' = IF next = {} THEN 1 ELSE CHOOSE s \in next : TRUE
    BY DEF LocalSlot
  <2> HIDE DEF own, next
  <2>4. QED
    BY <2>1, <2>2, <2>3
<1>4. \A t : PanelsOf(t)' = PanelsOf(t)
  BY <1>1, <1>2 DEF PanelsOf, GroupRank, GroupMembers, Group
<1>5. \A t : RowsOf(t)' = RowsOf(t)
  BY <1>1 DEF RowsOf, QueryParts, Split2D
<1>6. Splits' = Splits /\ (\A r : Merger(r)' = Merger(r)) /\ \A t : MergeRows(t)' = MergeRows(t)
  BY <1>1 DEF Splits, Merger, Chunk, MergeRows
<1>7. \A t : OwnShare(t)' = OwnShare(t)
  <2>1. Keys' = Keys /\ \A t : KeyRange(t)' = KeyRange(t)
    BY DEF Keys, KeyRange, Parts, PartOf, Split2D
  <2>2. QED
    BY <2>1 DEF OwnShare
<1>8. QED
  BY <1>1, <1>3, <1>4, <1>5, <1>6, <1>7 DEF Short

(* What a thread reads after the barrier is current, in a team that is
   complete. *)
LEMMA ReplicaIsCurrent ==
  ASSUME IInv, Packs, ~failed, NEW t \in Threads, pc[t] \notin {"pack", "packed"}, NEW p \in Panels
  PROVE  packed[LocalSlot(t)][p] = launch.skv
<1>1. launch \in Launches /\ Threads = Workers
  BY LaunchType DEF IInv, Shape, Short, Threads, Workers
<1>2. launch.skv \in Nat /\ launch.prefix \in 0..launch.skv
  BY <1>1, LaunchType
<1>3. CASE launch.prefix = launch.skv
  BY <1>1, <1>3, SlotType DEF IInv, Shape
<1>4. CASE launch.prefix < launch.skv
  <2>1. \A u \in Threads : pc[u] # "pack"
    BY <1>4 DEF IInv, BarrierHolds
  <2>2. PICK u \in Workers : LocalSlot(u) = LocalSlot(t) /\ p \in PanelsOf(u)
    BY <1>1, ReplicaIsShared
  <2>3. QED
    BY <1>1, <2>1, <2>2 DEF IInv, PanelsDone
<1>5. QED
  BY <1>2, <1>3, <1>4

LEMMA AttendedIsExact ==
  ASSUME IInv, ~failed, NEW t \in Threads, pc[t] = "attend", NEW r \in Rows
  PROVE  Attended(t, r, Keys) = Exact
<1>1. launch.skv \in Nat
  BY LaunchType DEF IInv, Shape
<1>2. ASSUME NEW k \in Keys, Packs, NEW p \in PanelsRead(r)
      PROVE  k <= packed[LocalSlot(t)][p]
  <2>1. packed[LocalSlot(t)][p] = launch.skv
    BY <1>2, ReplicaIsCurrent DEF PanelsRead
  <2>2. QED
    BY <1>1, <2>1 DEF Keys
<1>3. QED
  BY <1>2 DEF Attended, Exact

LEMMA AttendedIsOwnShare ==
  ASSUME IInv, ~failed, NEW t \in Threads, pc[t] = "attend", NEW r \in Rows
  PROVE  Attended(t, r, KeyRange(t)) = OwnShare(t)
<1>1. launch.skv \in Nat
  BY LaunchType DEF IInv, Shape
<1>2. ASSUME NEW k \in Keys, Packs, NEW p \in PanelsRead(r)
      PROVE  k <= packed[LocalSlot(t)][p]
  <2>1. packed[LocalSlot(t)][p] = launch.skv
    BY <1>2, ReplicaIsCurrent DEF PanelsRead
  <2>2. QED
    BY <1>1, <2>1 DEF Keys
<1>3. QED
  BY <1>2 DEF Attended, OwnShare

(* A thread that enters a phase leaves the others where they are. *)
LEMMA EnterMoves ==
  ASSUME Shape, NEW t \in Threads,
         NEW phase \in {"packed", "attend", "attended", "merge", "done"}, NEW work,
         Enter(t, phase, work), launch' = launch
  PROVE  /\ pc' \in [Threads -> {"pack", "packed", "attend", "attended", "merge", "done"}]
         /\ pc'[t] = phase /\ todo'[t] = work
         /\ \A u \in Threads \ {t} : pc'[u] = pc[u] /\ todo'[u] = todo[u]
         /\ todo' = [u \in Threads |-> todo'[u]]
  BY DEF Shape, Enter

(* Every row has its merger. *)
LEMMA MergerType ==
  ASSUME launch \in Launches, NEW r \in Rows
  PROVE  Merger(r) \in Threads /\ r \in MergeRows(Merger(r)) /\ \A t : r \in MergeRows(t) => t = Merger(r)
<1>1. /\ launch.rows \in Nat \ {0} /\ launch.team \in Nat \ {0}
      /\ r \in Nat /\ r < launch.rows /\ Threads = 0..launch.team - 1
  BY LaunchType DEF Rows, Threads
<1> DEFINE n == launch.rows + launch.team - 1
<1>2. n \in Nat /\ launch.team <= n
  BY <1>1
<1>3. Chunk \in Nat /\ launch.team * Chunk <= n /\ n < launch.team * Chunk + launch.team
  BY <1>1, <1>2, DivideLeaves DEF Chunk
<1>4. 1 <= Chunk
  <2>1. launch.team * 1 <= n
    BY <1>1, <1>2
  <2>2. QED
    BY <1>1, <1>2, <2>1, DivideAbove DEF Chunk
<1> HIDE DEF Chunk
<1>5. r < launch.team * Chunk
  <2>1. launch.team * Chunk \in Nat
    BY <1>1, <1>3
  <2>2. QED
    BY <1>1, <1>3, <2>1
<1>6. Merger(r) \in Nat /\ Merger(r) <= launch.team - 1
  <2>1. launch.team - 1 \in Nat /\ Chunk \in Nat \ {0} /\ (launch.team - 1) + 1 = launch.team
    <3>1. Chunk \in Nat \ {0}
      BY <1>3, <1>4
    <3>2. QED
      BY <1>1, <3>1
  <2>2. Chunk * launch.team = launch.team * Chunk
    BY <1>1, <1>3
  <2>3. r \div Chunk <= launch.team - 1
    BY <1>1, <1>5, <2>1, <2>2, DivideBelow
  <2>4. QED
    BY <1>1, <2>1, <2>3, DivideLeaves DEF Merger
<1>7. QED
  BY <1>1, <1>6 DEF Merger, MergeRows

(* A thread that is not merging does not decide what is merged. *)
LEMMA UnmergedStays ==
  ASSUME launch \in Launches, launch' = launch, NEW t \in Threads,
         \A u \in Threads \ {t} : pc'[u] = pc[u] /\ todo'[u] = todo[u],
         pc[t] \notin Merging, pc'[t] \notin Merging
  PROVE  \A r \in Rows : Unmerged(r)' <=> Unmerged(r)
<1> SUFFICES ASSUME NEW r \in Rows PROVE Unmerged(r)' <=> Unmerged(r)
  OBVIOUS
<1>1. Merger(r) \in Threads /\ Merger(r)' = Merger(r)
  BY MergerType, OfTheLaunch
<1>2. Unmerged(r)' <=> \/ pc'[Merger(r)] \notin Merging
                       \/ pc'[Merger(r)] = "merge" /\ r \in todo'[Merger(r)]
  BY <1>1 DEF Unmerged, Merging
<1>3. QED
  BY <1>1, <1>2 DEF Unmerged, Merging

LEMMA RowsOfType ==
  ASSUME Splits
  PROVE  \A t : RowsOf(t) \subseteq Rows
  BY DEF RowsOf, Splits

(* Before a thread attends nothing of its work shows. *)
LEMMA PartialsWait ==
  ASSUME IInv, NEW t \in Threads,
         pc[t] \in {"pack", "packed"}, pc'[t] \in {"pack", "packed"},
         \A u \in Threads \ {t} : pc'[u] = pc[u] /\ todo'[u] = todo[u],
         UNCHANGED <<launch, partial, output, failed>>
  PROVE  PartialsDone'
<1>1. \A r \in Rows : Unmerged(r)' <=> Unmerged(r)
  BY UnmergedStays DEF IInv, Shape, Merging
<1>2. SUFFICES ASSUME Splits, ~failed PROVE PartialsDone'
  BY OfTheLaunch DEF PartialsDone
<1>3. \A u : RowsOf(u) \subseteq Rows
  BY <1>2, RowsOfType
<1>4. QED
  BY <1>1, <1>2, <1>3, OfTheLaunch DEF IInv, PartialsDone, Merging

-----------------------------------------------------------------------------
LEMMA InitIInv == Init => IInv
<1> SUFFICES ASSUME Init PROVE IInv
  OBVIOUS
<1>1. launch \in Launches
  BY DEF Init
<1>2. Shape
  BY <1>1, LaunchType DEF Init, Shape
<1>3. BarrierHolds
  BY DEF Init, BarrierHolds
<1>4. PanelsDone
  <2>1. \A t \in Threads : PanelsOf(t) \subseteq Panels
    BY DEF PanelsOf, StaticRange, Panels
  <2>2. QED
    BY <2>1 DEF Init, PanelsDone
<1>5. RowsDone
  BY DEF Init, RowsDone
<1>6. PartialsDone
  <2>1. \A r \in Rows : Unmerged(r)
    BY <1>1, MergerType DEF Init, Unmerged, Merging
  <2>2. QED
    BY <2>1 DEF Init, PartialsDone, Merging
<1>7. QED
  BY <1>2, <1>3, <1>4, <1>5, <1>6 DEF IInv

LEMMA PackPanelStep ==
  ASSUME IInv, NEW t \in Threads, PackPanel(t)
  PROVE  IInv'
<1>1. PICK p \in todo[t] :
        /\ packed' = [packed EXCEPT ![LocalSlot(t)][p] = launch.skv]
        /\ todo' = [todo EXCEPT ![t] = todo[t] \ {p}]
  BY DEF PackPanel, PackedTo
<1>2. pc[t] = "pack" /\ UNCHANGED <<launch, partial, output, shared, pc, failed>>
  BY DEF PackPanel
<1>3. launch \in Launches /\ t \in Workers /\ Packs /\ p \in Panels
  BY <1>1, <1>2, LaunchType DEF IInv, Shape, PanelsDone
<1>4. LocalSlot(t) \in Replicas
  BY <1>3, SlotType
<1>5. /\ todo'[t] = todo[t] \ {p} /\ \A u \in Threads \ {t} : todo'[u] = todo[u]
      /\ todo' = [u \in Threads |-> todo'[u]]
  BY <1>1 DEF IInv, Shape
<1>6. /\ packed' \in [Replicas -> [Panels -> {launch.prefix, launch.skv}]]
      /\ packed'[LocalSlot(t)][p] = launch.skv
      /\ \A s \in Replicas, q \in Panels : packed[s][q] = launch.skv => packed'[s][q] = launch.skv
  BY <1>1, <1>3, <1>4 DEF IInv, Shape
<1>7. Shape'
  BY <1>2, <1>5, <1>6, OfTheLaunch DEF IInv, Shape
<1>8. BarrierHolds'
  BY <1>2, OfTheLaunch DEF IInv, BarrierHolds
<1>9. PanelsDone'
  <2> SUFFICES ASSUME NEW u \in Threads
               PROVE  /\ pc'[u] = "pack" => todo'[u] \subseteq Panels
                      /\ \A q \in PanelsOf(u) : (pc'[u] # "pack" \/ q \notin todo'[u])
                           => packed'[LocalSlot(u)][q] = launch.skv
    BY <1>2, <1>3, OfTheLaunch DEF PanelsDone
  <2>1. pc'[u] = "pack" => todo'[u] \subseteq Panels
    BY <1>2, <1>5 DEF IInv, PanelsDone
  <2>2. ASSUME NEW q \in PanelsOf(u), pc'[u] # "pack" \/ q \notin todo'[u]
        PROVE  packed'[LocalSlot(u)][q] = launch.skv
    <3>1. q \in Panels /\ LocalSlot(u) \in Replicas
      BY <1>3, LaunchType, SlotType DEF PanelsOf, StaticRange, Panels
    <3>2. CASE u = t /\ q = p
      BY <1>6, <3>2
    <3>3. CASE ~(u = t /\ q = p)
      <4>1. pc[u] # "pack" \/ q \notin todo[u]
        BY <1>2, <1>5, <2>2, <3>3
      <4>2. packed[LocalSlot(u)][q] = launch.skv
        BY <1>3, <4>1 DEF IInv, PanelsDone
      <4>3. QED
        BY <1>6, <3>1, <4>2
    <3>4. QED
      BY <3>2, <3>3
  <2>3. QED
    BY <2>1, <2>2
<1>10. RowsDone'
  <2>1. \A u \in Threads : pc'[u] # "pack" => todo'[u] = todo[u]
    BY <1>2, <1>5
  <2>2. QED
    BY <1>2, <2>1, OfTheLaunch DEF IInv, RowsDone
<1>11. PartialsDone'
  BY <1>2, <1>5, PartialsWait
<1>12. QED
  BY <1>7, <1>8, <1>9, <1>10, <1>11 DEF IInv

LEMMA ReachBarrierStep ==
  ASSUME IInv, NEW t \in Threads, ReachBarrier(t)
  PROVE  IInv'
<1>1. /\ pc[t] = "pack" /\ todo[t] = {} /\ Enter(t, "packed", {})
      /\ UNCHANGED <<launch, packed, partial, output, shared, failed>>
  BY DEF ReachBarrier
<1>2. /\ pc' \in [Threads -> {"pack", "packed", "attend", "attended", "merge", "done"}]
      /\ pc'[t] = "packed" /\ todo'[t] = {}
      /\ \A u \in Threads \ {t} : pc'[u] = pc[u] /\ todo'[u] = todo[u]
      /\ todo' = [u \in Threads |-> todo'[u]]
  BY <1>1, EnterMoves DEF IInv
<1>3. Shape'
  BY <1>1, <1>2, OfTheLaunch DEF IInv, Shape
<1>4. BarrierHolds'
  BY <1>1, <1>2, OfTheLaunch DEF IInv, BarrierHolds
<1>5. PanelsDone'
  BY <1>1, <1>2, OfTheLaunch DEF IInv, PanelsDone
<1>6. RowsDone'
  BY <1>1, <1>2, OfTheLaunch DEF IInv, RowsDone
<1>7. PartialsDone'
  BY <1>1, <1>2, PartialsWait
<1>8. QED
  BY <1>3, <1>4, <1>5, <1>6, <1>7 DEF IInv

LEMMA StartAttendingStep ==
  ASSUME IInv, NEW t \in Threads, StartAttending(t)
  PROVE  IInv'
<1>1. /\ pc[t] = "packed" /\ Enter(t, "attend", RowsOf(t))
      /\ Packs => PackBarrier(t)
      /\ UNCHANGED <<launch, packed, partial, output, shared, failed>>
  BY DEF StartAttending
<1>2. /\ pc' \in [Threads -> {"pack", "packed", "attend", "attended", "merge", "done"}]
      /\ pc'[t] = "attend" /\ todo'[t] = RowsOf(t)
      /\ \A u \in Threads \ {t} : pc'[u] = pc[u] /\ todo'[u] = todo[u]
      /\ todo' = [u \in Threads |-> todo'[u]]
  BY <1>1, EnterMoves DEF IInv
<1>3. Shape'
  BY <1>1, <1>2, OfTheLaunch DEF IInv, Shape
<1>4. BarrierHolds'
  BY <1>1, <1>2, OfTheLaunch DEF BarrierHolds, PackBarrier
<1>5. PanelsDone'
  BY <1>1, <1>2, OfTheLaunch DEF IInv, PanelsDone
<1>6. RowsDone'
  BY <1>1, <1>2, OfTheLaunch DEF IInv, RowsDone
<1>7. PartialsDone'
  <2>1. \A r \in Rows : Unmerged(r)' <=> Unmerged(r)
    BY <1>1, <1>2, UnmergedStays DEF IInv, Shape, Merging
  <2>2. SUFFICES ASSUME Splits, ~failed PROVE PartialsDone'
    BY <1>1, OfTheLaunch DEF PartialsDone
  <2>3. \A u : RowsOf(u) \subseteq Rows
    BY <2>2, RowsOfType
  <2>4. QED
    BY <1>1, <1>2, <2>1, <2>2, <2>3, OfTheLaunch DEF IInv, PartialsDone, Merging
<1>8. QED
  BY <1>3, <1>4, <1>5, <1>6, <1>7 DEF IInv

(* Behind the barrier nothing of the packing changes. *)
LEMMA PackingIsOver ==
  ASSUME IInv, NEW t \in Threads, pc[t] \notin {"pack", "packed"}, pc'[t] # "pack",
         UNCHANGED <<launch, packed>>,
         \A u \in Threads \ {t} : pc'[u] = pc[u] /\ todo'[u] = todo[u]
  PROVE  BarrierHolds' /\ PanelsDone'
<1>1. BarrierHolds'
  BY OfTheLaunch DEF IInv, BarrierHolds
<1>2. PanelsDone'
  BY OfTheLaunch DEF IInv, PanelsDone
<1>3. QED
  BY <1>1, <1>2

LEMMA AttendRowStep ==
  ASSUME IInv, NEW t \in Threads, AttendRow(t)
  PROVE  IInv'
<1>1. PICK r \in todo[t] :
        /\ IF Splits
           THEN /\ partial' = [partial EXCEPT ![t][r] = Attended(t, r, KeyRange(t))]
                /\ UNCHANGED output
           ELSE /\ output' = [output EXCEPT ![r] = Attended(t, r, Keys)]
                /\ UNCHANGED partial
        /\ todo' = [todo EXCEPT ![t] = todo[t] \ {r}]
  BY DEF AttendRow
<1>2. pc[t] = "attend" /\ UNCHANGED <<launch, packed, shared, pc, failed>>
  BY DEF AttendRow
<1>3. /\ todo'[t] = todo[t] \ {r} /\ \A u \in Threads \ {t} : todo'[u] = todo[u]
      /\ todo' = [u \in Threads |-> todo'[u]]
      /\ output' = [x \in Rows |-> output'[x]]
  BY <1>1 DEF IInv, Shape
<1>4. Shape'
  <2>1. partial' = [w \in Workers |-> [x \in Rows |-> partial'[w][x]]]
    <3>1. CASE Splits
      <4> DEFINE share == Attended(t, r, KeyRange(t))
      <4>1. partial' = [partial EXCEPT ![t] = [partial[t] EXCEPT ![r] = share]]
        BY <1>1, <3>1
      <4>2. \A w \in Workers : partial[w] = [x \in Rows |-> partial[w][x]]
        BY DEF IInv, Shape
      <4>3. partial' = [w \in Workers |-> IF w = t THEN [partial[t] EXCEPT ![r] = share]
                                          ELSE partial[w]]
        BY <4>1 DEF IInv, Shape
      <4> HIDE DEF share
      <4>4. \A w \in Workers : partial'[w] = [x \in Rows |-> partial'[w][x]]
        BY <4>2, <4>3
      <4>5. QED
        BY <4>3, <4>4
    <3>2. CASE ~Splits
      BY <1>1, <3>2 DEF IInv, Shape
    <3>3. QED
      BY <3>1, <3>2
  <2>2. QED
    BY <1>2, <1>3, <2>1, OfTheLaunch DEF IInv, Shape
<1>5. BarrierHolds' /\ PanelsDone'
  BY <1>2, <1>3, PackingIsOver
<1>6. RowsDone'
  <2> SUFFICES ASSUME launch.kernel \in {"blocked", "dynamic"}, ~failed
               PROVE  RowsDone'
    BY <1>2 DEF RowsDone
  <2>1. todo[t] \subseteq RowsOf(t)
    BY <1>2 DEF IInv, RowsDone
  <2>2. r \in Rows /\ launch.kernel = "blocked"
    BY <2>1 DEF RowsOf
  <2>3. output' = [output EXCEPT ![r] = Exact]
    BY <1>1, <1>2, <2>2, AttendedIsExact DEF Splits
  <2>4. \A x \in Rows : output'[x] = IF x = r THEN Exact ELSE output[x]
    BY <2>3 DEF IInv, Shape
  <2>5. \A u \in Threads : RowsOf(u) \subseteq Rows
    BY <2>2 DEF RowsOf
  <2>6. QED
    BY <1>2, <1>3, <2>1, <2>2, <2>4, <2>5, OfTheLaunch DEF IInv, RowsDone
<1>7. PartialsDone'
  <2> SUFFICES ASSUME Splits, ~failed PROVE PartialsDone'
    BY <1>2, OfTheLaunch DEF PartialsDone
  <2>1. \A u : RowsOf(u) \subseteq Rows
    BY RowsOfType
  <2>2. todo[t] \subseteq RowsOf(t) /\ r \in Rows /\ Threads = Workers
    BY <1>2, <2>1, LaunchType DEF IInv, Shape, PartialsDone, Short, Threads, Workers
  <2>3. partial' = [partial EXCEPT ![t][r] = OwnShare(t)] /\ output' = output
    BY <1>1, <1>2, <2>2, AttendedIsOwnShare
  <2>4. \A u \in Threads : \A x \in Rows :
          partial'[u][x] = IF u = t /\ x = r THEN OwnShare(t) ELSE partial[u][x]
    BY <2>2, <2>3 DEF IInv, Shape
  <2>5. \A x \in Rows : Unmerged(x)' <=> Unmerged(x)
    BY <1>2, <1>3, UnmergedStays DEF IInv, Shape, Merging
  <2>6. ASSUME NEW u \in Threads, NEW x \in RowsOf(u),
               pc[u] \in {"attend", "attended"} \cup Merging,
               pc[u] # "attend" \/ x \notin todo'[u], Unmerged(x)
        PROVE  partial'[u][x] = OwnShare(u)
    BY <1>2, <1>3, <2>1, <2>4, <2>6 DEF IInv, PartialsDone
  <2>7. \A u \in Threads : pc[u] = "attend" => todo'[u] \subseteq RowsOf(u)
    BY <1>2, <1>3 DEF IInv, PartialsDone
  <2>8. \A u \in Threads : pc[u] = "merge" => todo'[u] \subseteq MergeRows(u)
    BY <1>2, <1>3 DEF IInv, PartialsDone
  <2>9. QED
    BY <1>2, <2>1, <2>3, <2>5, <2>6, <2>7, <2>8, OfTheLaunch DEF IInv, PartialsDone, Merging
<1>8. QED
  BY <1>4, <1>5, <1>6, <1>7 DEF IInv

LEMMA TakeRowStep ==
  ASSUME IInv, NEW t \in Threads, TakeRow(t)
  PROVE  IInv'
<1>1. PICK r \in shared :
        /\ output' = [output EXCEPT ![r] = Attended(t, r, Keys)]
        /\ shared' = shared \ {r}
  BY DEF TakeRow
<1>2. /\ pc[t] = "attend" /\ launch.kernel = "dynamic"
      /\ UNCHANGED <<launch, packed, partial, todo, pc, failed>>
  BY DEF TakeRow
<1>3. r \in Rows /\ output' = [x \in Rows |-> output'[x]]
  BY <1>1 DEF IInv, Shape
<1>4. Shape'
  BY <1>1, <1>2, <1>3, OfTheLaunch DEF IInv, Shape
<1>5. BarrierHolds' /\ PanelsDone'
  BY <1>2, PackingIsOver
<1>6. RowsDone'
  <2> SUFFICES ASSUME ~failed PROVE RowsDone'
    BY <1>2 DEF RowsDone
  <2>1. output' = [output EXCEPT ![r] = Exact]
    BY <1>1, <1>2, <1>3, AttendedIsExact
  <2>2. \A x \in Rows : output'[x] = IF x = r THEN Exact ELSE output[x]
    BY <2>1 DEF IInv, Shape
  <2>3. \A u \in Threads : RowsOf(u) = {}
    BY <1>2 DEF RowsOf
  <2>4. QED
    BY <1>1, <1>2, <2>2, <2>3, OfTheLaunch DEF IInv, RowsDone
<1>7. PartialsDone'
  BY <1>2, OfTheLaunch DEF PartialsDone, Splits
<1>8. QED
  BY <1>4, <1>5, <1>6, <1>7 DEF IInv

LEMMA EndAttendingStep ==
  ASSUME IInv, NEW t \in Threads, EndAttending(t)
  PROVE  IInv'
<1> DEFINE phase == IF Splits THEN "attended" ELSE "done"
<1>0. /\ phase \in {"attended", "done"} /\ (Splits => phase = "attended")
      /\ launch.kernel \in {"blocked", "dynamic"} => phase = "done"
  BY DEF Splits
<1>1. /\ pc[t] = "attend" /\ todo[t] = {} /\ Enter(t, phase, {})
      /\ launch.kernel = "dynamic" => shared = {}
      /\ UNCHANGED <<launch, packed, partial, output, shared, failed>>
  BY DEF EndAttending
<1> HIDE DEF phase
<1>2. /\ pc' \in [Threads -> {"pack", "packed", "attend", "attended", "merge", "done"}]
      /\ pc'[t] = phase /\ todo'[t] = {}
      /\ \A u \in Threads \ {t} : pc'[u] = pc[u] /\ todo'[u] = todo[u]
      /\ todo' = [u \in Threads |-> todo'[u]]
  BY <1>0, <1>1, EnterMoves DEF IInv
<1>3. Shape'
  BY <1>1, <1>2, OfTheLaunch DEF IInv, Shape
<1>4. BarrierHolds' /\ PanelsDone'
  BY <1>0, <1>1, <1>2, PackingIsOver
<1>5. RowsDone'
  BY <1>0, <1>1, <1>2, OfTheLaunch DEF IInv, RowsDone
<1>6. PartialsDone'
  <2> SUFFICES ASSUME Splits, ~failed PROVE PartialsDone'
    BY <1>1, OfTheLaunch DEF PartialsDone
  <2>1. \A r \in Rows : Unmerged(r)' <=> Unmerged(r)
    BY <1>0, <1>1, <1>2, UnmergedStays DEF IInv, Shape, Merging
  <2>2. \A u : RowsOf(u) \subseteq Rows
    BY RowsOfType
  <2>3. QED
    BY <1>0, <1>1, <1>2, <2>1, <2>2, OfTheLaunch DEF IInv, PartialsDone, Merging
<1>7. QED
  BY <1>3, <1>4, <1>5, <1>6 DEF IInv

LEMMA StartMergingStep ==
  ASSUME IInv, NEW t \in Threads, StartMerging(t)
  PROVE  IInv'
<1>1. /\ pc[t] = "attended" /\ Enter(t, "merge", MergeRows(t)) /\ MergeBarrier
      /\ UNCHANGED <<launch, packed, partial, output, shared, failed>>
  BY DEF StartMerging
<1>2. /\ pc' \in [Threads -> {"pack", "packed", "attend", "attended", "merge", "done"}]
      /\ pc'[t] = "merge" /\ todo'[t] = MergeRows(t)
      /\ \A u \in Threads \ {t} : pc'[u] = pc[u] /\ todo'[u] = todo[u]
      /\ todo' = [u \in Threads |-> todo'[u]]
  BY <1>1, EnterMoves DEF IInv
<1>3. Shape'
  BY <1>1, <1>2, OfTheLaunch DEF IInv, Shape
<1>4. BarrierHolds' /\ PanelsDone'
  BY <1>1, <1>2, PackingIsOver
<1>5. RowsDone'
  BY <1>1, OfTheLaunch DEF IInv, RowsDone
<1>6. PartialsDone'
  <2> SUFFICES ASSUME Splits, ~failed PROVE PartialsDone'
    BY <1>1, OfTheLaunch DEF PartialsDone
  <2>1. \A r \in Rows : Unmerged(r)' <=> Unmerged(r)
    <3> TAKE r \in Rows
    <3>1. /\ Merger(r) \in Threads /\ r \in MergeRows(Merger(r)) /\ Merger(r)' = Merger(r)
      BY <1>1, MergerType, OfTheLaunch DEF IInv, Shape
    <3>2. Unmerged(r)' <=> \/ pc'[Merger(r)] \notin Merging
                           \/ pc'[Merger(r)] = "merge" /\ r \in todo'[Merger(r)]
      BY <3>1 DEF Unmerged, Merging
    <3>3. QED
      BY <1>1, <1>2, <3>1, <3>2 DEF Unmerged, Merging
  <2>2. \A u : RowsOf(u) \subseteq Rows
    BY RowsOfType
  <2>3. \A u \in Threads : pc'[u] \in {"attended"} \cup Merging
    BY <1>1, <1>2 DEF MergeBarrier, Merging
  <2>4. QED
    BY <1>1, <1>2, <2>1, <2>2, <2>3, OfTheLaunch DEF IInv, PartialsDone, Merging
<1>7. QED
  BY <1>3, <1>4, <1>5, <1>6 DEF IInv

LEMMA MergeRowStep ==
  ASSUME IInv, NEW t \in Threads, MergeRow(t)
  PROVE  IInv'
<1>1. PICK r \in todo[t] :
        /\ partial' = [w \in Workers |->
                        IF w \in Contributors(r) /\ w = GroupRoot(r, Group(w))
                        THEN [partial[w] EXCEPT ![r] = MergedGroup(r, Group(w))]
                        ELSE partial[w]]
        /\ output' = [output EXCEPT ![r] = MergedRow(r)]
        /\ todo' = [todo EXCEPT ![t] = todo[t] \ {r}]
  BY DEF MergeRow
<1>2. pc[t] = "merge" /\ UNCHANGED <<launch, packed, shared, pc, failed>>
  BY DEF MergeRow
<1>3. /\ todo'[t] = todo[t] \ {r} /\ \A u \in Threads \ {t} : todo'[u] = todo[u]
      /\ todo' = [u \in Threads |-> todo'[u]]
      /\ output' = [x \in Rows |-> output'[x]]
  BY <1>1 DEF IInv, Shape
<1>4. \A w \in Workers : partial'[w] = [x \in Rows |-> partial'[w][x]]
  <2> SUFFICES ASSUME NEW w \in Workers PROVE partial'[w] = [x \in Rows |-> partial'[w][x]]
    OBVIOUS
  <2>1. partial[w] = [x \in Rows |-> partial[w][x]]
    BY DEF IInv, Shape
  <2>2. \/ partial'[w] = [partial[w] EXCEPT ![r] = MergedGroup(r, Group(w))]
        \/ partial'[w] = partial[w]
    BY <1>1
  <2>3. QED
    BY <2>1, <2>2
<1>5. Shape'
  <2>1. partial' = [w \in Workers |-> [x \in Rows |-> partial'[w][x]]]
    BY <1>1, <1>4
  <2>2. QED
    BY <1>2, <1>3, <2>1, OfTheLaunch DEF IInv, Shape
<1>6. BarrierHolds' /\ PanelsDone'
  BY <1>2, <1>3, PackingIsOver
<1>7. RowsDone'
  BY <1>2, OfTheLaunch DEF IInv, RowsDone
<1>8. PartialsDone'
  <2> SUFFICES ASSUME Splits, ~failed PROVE PartialsDone'
    BY <1>2, OfTheLaunch DEF PartialsDone
  <2>1. launch \in Launches /\ Threads = Workers /\ \A u : RowsOf(u) \subseteq Rows
    BY RowsOfType, LaunchType DEF IInv, Shape, Short, Threads, Workers
  <2>2. r \in MergeRows(t) /\ r \in Rows
    BY <1>2 DEF IInv, PartialsDone, MergeRows
  <2>3. Merger(r) = t /\ Unmerged(r)
    BY <1>2, <2>1, <2>2, MergerType DEF Unmerged
  <2>4. \A u \in Threads : pc[u] \in {"attended"} \cup Merging
    BY <1>2 DEF IInv, PartialsDone, Merging
  <2>5. \A w \in Contributors(r) : partial[w][r] = OwnShare(w)
    <3> SUFFICES ASSUME NEW w \in Contributors(r) PROVE partial[w][r] = OwnShare(w)
      OBVIOUS
    <3>1. w \in Threads /\ r \in RowsOf(w)
      BY <2>1, <2>2, ContributorsAttend
    <3>2. pc[w] \in {"attend", "attended"} \cup Merging /\ pc[w] # "attend"
      BY <2>4, <3>1 DEF Merging
    <3>3. QED
      BY <2>3, <3>1, <3>2 DEF IInv, PartialsDone
  <2>6. MergedRow(r) = Exact
    BY <2>1, <2>2, <2>5, MergedIsExact
  <2>7. \A x \in Rows : output'[x] = IF x = r THEN Exact ELSE output[x]
    BY <1>1, <2>6 DEF IInv, Shape
  <2>8. \A u \in Workers : \A x \in Rows : x # r => partial'[u][x] = partial[u][x]
    <3> SUFFICES ASSUME NEW u \in Workers, NEW x \in Rows, x # r
                 PROVE  partial'[u][x] = partial[u][x]
      OBVIOUS
    <3>1. partial[u] = [y \in Rows |-> partial[u][y]]
      BY DEF IInv, Shape
    <3>2. \/ partial'[u] = [partial[u] EXCEPT ![r] = MergedGroup(r, Group(u))]
          \/ partial'[u] = partial[u]
      BY <1>1
    <3>3. QED
      BY <3>1, <3>2
  <2>9. \A x \in Rows : Unmerged(x)' <=> Unmerged(x) /\ x # r
    <3> TAKE x \in Rows
    <3>1. /\ Merger(x) \in Threads /\ Merger(x)' = Merger(x)
      BY <1>2, <2>1, MergerType, OfTheLaunch
    <3>2. Unmerged(x)' <=> \/ pc[Merger(x)] \notin Merging
                           \/ pc[Merger(x)] = "merge" /\ x \in todo'[Merger(x)]
      BY <1>2, <3>1 DEF Unmerged, Merging
    <3>3. Merger(x) # t => x # r
      BY <2>3
    <3>4. QED
      BY <1>2, <1>3, <2>3, <3>1, <3>2, <3>3 DEF Unmerged, Merging
  <2>10. ASSUME NEW u \in Threads, NEW x \in RowsOf(u),
                pc[u] \in {"attend", "attended"} \cup Merging,
                pc[u] # "attend" \/ x \notin todo'[u], Unmerged(x)'
         PROVE  partial'[u][x] = OwnShare(u)
    BY <1>2, <1>3, <2>1, <2>4, <2>8, <2>9, <2>10 DEF IInv, PartialsDone, Merging
  <2>11. \A u \in Threads : pc[u] = "merge" => todo'[u] \subseteq MergeRows(u)
    BY <1>2, <1>3 DEF IInv, PartialsDone
  <2>12. \A u \in Threads : pc[u] # "attend"
    BY <2>4 DEF Merging
  <2>13. \A x \in Rows : Unmerged(x)' \/ output'[x] = Exact
    BY <2>7, <2>9 DEF IInv, PartialsDone
  <2>14. QED
    BY <1>2, <2>1, <2>4, <2>10, <2>11, <2>12, <2>13, OfTheLaunch DEF PartialsDone, Merging
<1>9. QED
  BY <1>5, <1>6, <1>7, <1>8 DEF IInv

LEMMA EndMergingStep ==
  ASSUME IInv, NEW t \in Threads, EndMerging(t)
  PROVE  IInv'
<1>1. /\ pc[t] = "merge" /\ todo[t] = {} /\ Enter(t, "done", {})
      /\ UNCHANGED <<launch, packed, partial, output, shared, failed>>
  BY DEF EndMerging
<1>2. /\ pc' \in [Threads -> {"pack", "packed", "attend", "attended", "merge", "done"}]
      /\ pc'[t] = "done" /\ todo'[t] = {}
      /\ \A u \in Threads \ {t} : pc'[u] = pc[u] /\ todo'[u] = todo[u]
      /\ todo' = [u \in Threads |-> todo'[u]]
  BY <1>1, EnterMoves DEF IInv
<1>3. Shape'
  BY <1>1, <1>2, OfTheLaunch DEF IInv, Shape
<1>4. BarrierHolds' /\ PanelsDone'
  BY <1>1, <1>2, PackingIsOver
<1>5. RowsDone'
  BY <1>1, OfTheLaunch DEF IInv, RowsDone
<1>6. PartialsDone'
  <2> SUFFICES ASSUME Splits, ~failed PROVE PartialsDone'
    BY <1>1, OfTheLaunch DEF PartialsDone
  <2>1. \A r \in Rows : Unmerged(r)' <=> Unmerged(r)
    <3> TAKE r \in Rows
    <3>1. Merger(r) \in Threads /\ Merger(r)' = Merger(r)
      BY <1>1, MergerType, OfTheLaunch DEF IInv, Shape
    <3>2. Unmerged(r)' <=> \/ pc'[Merger(r)] \notin Merging
                           \/ pc'[Merger(r)] = "merge" /\ r \in todo'[Merger(r)]
      BY <3>1 DEF Unmerged, Merging
    <3>3. QED
      BY <1>1, <1>2, <3>1, <3>2 DEF Unmerged, Merging
  <2>2. \A u : RowsOf(u) \subseteq Rows
    BY RowsOfType
  <2>3. QED
    BY <1>1, <1>2, <2>1, <2>2, OfTheLaunch DEF IInv, PartialsDone, Merging
<1>7. QED
  BY <1>3, <1>4, <1>5, <1>6 DEF IInv

LEMMA NextIInv ==
  IInv /\ [Next]_vars => IInv'
<1> SUFFICES ASSUME IInv, [Next]_vars PROVE IInv'
  OBVIOUS
<1>1. ASSUME NEW t \in Threads, Step(t) PROVE IInv'
  BY <1>1, PackPanelStep, ReachBarrierStep, StartAttendingStep, AttendRowStep, TakeRowStep,
     EndAttendingStep, StartMergingStep, MergeRowStep, EndMergingStep DEF Step
<1>2. CASE UNCHANGED vars
  <2>1. UNCHANGED <<launch, packed, partial, output, todo, shared, pc, failed>>
    BY <1>2 DEF vars
  <2>2. Shape'
    BY <2>1, OfTheLaunch DEF IInv, Shape
  <2>3. BarrierHolds' /\ PanelsDone' /\ RowsDone'
    BY <2>1, OfTheLaunch DEF IInv, BarrierHolds, PanelsDone, RowsDone
  <2>4. PartialsDone'
    <3>1. \A r : Unmerged(r)' <=> Unmerged(r)
      BY <2>1, OfTheLaunch DEF Unmerged, Merging
    <3>2. /\ Splits' = Splits /\ Threads' = Threads /\ Rows' = Rows /\ Exact' = Exact
          /\ \A t : RowsOf(t)' = RowsOf(t) /\ MergeRows(t)' = MergeRows(t) /\ OwnShare(t)' = OwnShare(t)
      BY <2>1, OfTheLaunch
    <3>3. SUFFICES ASSUME Splits, ~failed PROVE PartialsDone'
      BY <2>1, <3>2 DEF PartialsDone
    <3>4. PartialsDone
      BY DEF IInv
    <3>5. \A t, u \in Threads : pc'[t] \in Merging => pc'[u] \in {"attended"} \cup Merging
      BY <2>1, <3>3, <3>4 DEF PartialsDone
    <3>6. ASSUME NEW t \in Threads
          PROVE  /\ pc'[t] = "attend" => todo'[t] \subseteq RowsOf(t)
                 /\ pc'[t] = "merge" => todo'[t] \subseteq MergeRows(t)
                 /\ pc'[t] \in {"attend", "attended"} \cup Merging =>
                      \A r \in RowsOf(t) :
                        (pc'[t] # "attend" \/ r \notin todo'[t]) /\ Unmerged(r) =>
                          partial'[t][r] = OwnShare(t)
      BY <2>1, <3>3, <3>4 DEF PartialsDone
    <3>7. \A r \in Rows : Unmerged(r) \/ output'[r] = Exact
      BY <2>1, <3>3, <3>4 DEF PartialsDone
    <3>8. QED
      BY <3>1, <3>2, <3>5, <3>6, <3>7 DEF PartialsDone, Merging
  <2>5. QED
    BY <2>2, <2>3, <2>4 DEF IInv
<1>3. QED
  BY <1>1, <1>2 DEF Next

-----------------------------------------------------------------------------
(* The invariant of a team holds in every behaviour. *)
THEOREM TeamInvariant == Spec => []IInv
  BY InitIInv, NextIInv, PTL DEF Spec

(* cpuattn_pack_k and the barrier behind it: no thread reads a replica of
   which another has panels left to copy that would change what is read. *)
THEOREM PackingIsNotRead == Spec => []NoReadWhilePacking
<1>1. IInv => NoReadWhilePacking
  <2> SUFFICES ASSUME IInv, NEW t \in Threads, NEW u \in Threads, Packs,
                      pc[t] = "attend", pc[u] = "pack", NEW p \in todo[u]
               PROVE  packed[LocalSlot(u)][p] = launch.skv
    BY DEF NoReadWhilePacking
  <2>1. launch \in Launches /\ u \in Workers /\ p \in Panels
    BY LaunchType DEF IInv, Shape, PanelsDone
  <2>2. launch.prefix \in 0..launch.skv /\ launch.skv \in Nat
    BY <2>1, LaunchType
  <2>3. launch.prefix = launch.skv
    BY <2>2 DEF IInv, BarrierHolds
  <2>4. QED
    BY <2>1, <2>3, SlotType DEF IInv, Shape
<1>2. QED
  BY <1>1, TeamInvariant, PTL

(* The four kernels: when a complete team has closed, every row has attended to
   every key once, and to K as it is now, whether one thread made the row or the
   partials of many were merged into it. *)
THEOREM AnswersExact == Spec => []AnswersAreExact
<1>1. IInv => AnswersAreExact
  <2> SUFFICES ASSUME IInv, Closed, ~failed, NEW r \in Rows
               PROVE  output[r] = Exact
    BY DEF AnswersAreExact
  <2>1. launch \in Launches /\ launch.team \in Nat \ {0} /\ launch.rows \in Nat
    BY LaunchType DEF IInv, Shape
  <2>2. CASE launch.kernel = "dynamic"
    <3>1. 0 \in Threads
      BY <2>1 DEF Threads
    <3>2. shared = {}
      BY <2>2, <3>1 DEF IInv, RowsDone, Closed
    <3>3. QED
      BY <2>2, <3>2 DEF IInv, RowsDone
  <2>3. CASE launch.kernel = "blocked"
    <3>1. r % launch.team \in Threads
      BY <2>1 DEF Threads, Rows
    <3>2. r \in RowsOf(r % launch.team)
      BY <2>3 DEF RowsOf
    <3>3. QED
      BY <2>3, <3>1, <3>2 DEF IInv, RowsDone, Closed
  <2>4. CASE Splits
    <3>1. Merger(r) \in Threads
      BY <2>1, MergerType
    <3>2. ~Unmerged(r)
      BY <3>1 DEF Closed, Unmerged, Merging
    <3>3. QED
      BY <2>4, <3>2 DEF IInv, PartialsDone
  <2>5. QED
    BY <2>1, <2>2, <2>3, <2>4, LaunchAssumption, KernelAssumption DEF Splits
<1>2. QED
  BY <1>1, TeamInvariant, PTL

-----------------------------------------------------------------------------
(* WorkerAffinity: the placement of the team's threads. *)


TypeOK ==
  /\ mask \in [TeamThreads -> Masks]
  /\ target \in [Libraries -> [TeamThreads -> Cpus \cup {NoCpu}]]
  /\ original \in [Libraries -> [TeamThreads -> Masks \cup {NoMask}]]
  /\ call \in Calls \cup {NoCall}
  /\ call # NoCall => call.lib \in loaded
  /\ stage \in [TeamThreads -> {"pin", "body", "out"}]
  /\ affinityError \in BOOLEAN
  /\ loaded \subseteq Libraries

(* A record of a target that is not out of date is where the thread is. *)
RecordsAreTrue ==
  \A l \in loaded, t \in TeamThreads :
    (<<l, t>> \notin stray /\ target[l][t] # NoCpu) => mask[t] = {target[l][t]}

(* A thread that is not to be moved back is on no target. *)
PinnedAreRemembered ==
  \A l \in Libraries, t \in TeamThreads : original[l][t] = NoMask => target[l][t] = NoCpu

(* No library remembers anything of the calling thread but the one in whose
   pinned call it is at work. *)
CallerForgotten ==
  \A l \in Libraries :
    (call = NoCall \/ l # call.lib \/ ~call.pinned \/ stage[0] # "body") => original[l][0] = NoMask

BodiesOnTarget ==
  \A t \in CallWorkers :
    (stage[t] = "body" /\ call.pinned /\ ~affinityError) => target[call.lib][t] = Assigned(t)

(* Where the mask is that the calling thread came with. *)
EntryIsKept ==
  (call # NoCall /\ ~affinityError) =>
    IF call.pinned /\ stage[0] = "body" THEN original[call.lib][0] = call.entry
    ELSE mask[0] = call.entry

(* The inductive invariant. *)
PlacementIInv ==
  TypeOK /\ RecordsAreTrue /\ PinnedAreRemembered /\ CallerForgotten /\ BodiesOnTarget /\ EntryIsKept

-----------------------------------------------------------------------------
LEMMA PlacementType ==
  ASSUME NEW cpus \in Placements
  PROVE  Len(cpus) \in 1..Team /\ cpus \in [1..Len(cpus) -> Cpus]
<1>1. PICK w \in 1..Team : cpus \in [1..w -> Cpus]
  BY DEF Placements
<1>2. w \in Nat /\ cpus \in Seq(Cpus) /\ Len(cpus) = w
  BY <1>1, TeamAssumption
<1>3. QED
  BY <1>1, <1>2

LEMMA CallerIsThread ==
  0 \in TeamThreads
  BY TeamAssumption DEF TeamThreads

(* The workers of an open call are threads, the caller's own among them, and
   are assigned CPUs. *)
LEMMA WorkersType ==
  ASSUME TypeOK, call # NoCall
  PROVE  /\ call \in Calls /\ call.lib \in Libraries /\ call.lib \in loaded
         /\ CallWorkers \subseteq TeamThreads /\ 0 \in CallWorkers
         /\ \A t \in CallWorkers : Assigned(t) \in Cpus /\ Assigned(t) # NoCpu
<1>1. call \in Calls /\ call.lib \in Libraries /\ call.lib \in loaded /\ call.cpus \in Placements
  BY DEF TypeOK, Calls
<1>2. Len(call.cpus) \in 1..Team /\ call.cpus \in [1..Len(call.cpus) -> Cpus]
  BY <1>1, PlacementType
<1>3. CallWorkers = 0..Len(call.cpus) - 1
  BY DEF CallWorkers
<1>4. CallWorkers \subseteq TeamThreads /\ 0 \in CallWorkers
  BY <1>2, <1>3, TeamAssumption DEF TeamThreads
<1>5. \A t \in CallWorkers : t + 1 \in 1..Len(call.cpus)
  BY <1>2, <1>3
<1>6. QED
  BY <1>1, <1>2, <1>4, <1>5, TeamAssumption DEF Assigned

-----------------------------------------------------------------------------
LEMMA InitPlacement == PlacementInit => PlacementIInv
<1> SUFFICES ASSUME PlacementInit PROVE PlacementIInv
  OBVIOUS
<1>1. TypeOK
  BY DEF PlacementInit, TypeOK, NoMask
<1>2. QED
  BY <1>1, CallerIsThread DEF PlacementInit, PlacementIInv, RecordsAreTrue, PinnedAreRemembered, CallerForgotten,
     BodiesOnTarget, EntryIsKept, CallWorkers

LEMMA CallerMovesStep ==
  ASSUME PlacementIInv, NEW m \in Masks, CallerMoves(m)
  PROVE  PlacementIInv'
<1>1. mask' \in [TeamThreads -> Masks] /\ \A t \in TeamThreads : t # 0 => mask'[t] = mask[t]
  BY DEF PlacementIInv, TypeOK, CallerMoves
<1>2. TypeOK'
  BY <1>1 DEF PlacementIInv, TypeOK, CallerMoves, worldVars
<1>3. \A l \in loaded : target[l][0] = NoCpu
  BY CallerIsThread DEF PlacementIInv, TypeOK, CallerMoves, CallerForgotten, PinnedAreRemembered
<1>4. RecordsAreTrue'
  BY <1>1, <1>3 DEF PlacementIInv, RecordsAreTrue, CallerMoves, worldVars
<1>5. PinnedAreRemembered' /\ CallerForgotten' /\ BodiesOnTarget' /\ EntryIsKept'
  BY DEF PlacementIInv, PinnedAreRemembered, CallerForgotten, BodiesOnTarget, EntryIsKept, CallWorkers, CallerMoves
<1>6. QED
  BY <1>2, <1>4, <1>5 DEF PlacementIInv

LEMMA OpenStep ==
  ASSUME PlacementIInv, NEW lib \in loaded, NEW cpus \in Placements, NEW prepare \in BOOLEAN,
         Open(lib, cpus, prepare)
  PROVE  PlacementIInv'
<1>1. Len(cpus) \in 1..Team
  BY PlacementType
<1>2. call' \in Calls /\ call' # NoCall /\ call'.lib = lib /\ call'.entry = mask[0]
  <2> DEFINE pinned == prepare \/ Len(cpus) > 1
  <2>1. pinned \in BOOLEAN
    OBVIOUS
  <2>2. lib \in Libraries /\ mask[0] \in Masks
    BY CallerIsThread DEF PlacementIInv, TypeOK
  <2>3. call' = [lib |-> lib, cpus |-> cpus, pinned |-> pinned, entry |-> mask[0]]
    BY DEF Open
  <2> HIDE DEF pinned
  <2>4. call' \in Calls
    BY <2>1, <2>2, <2>3 DEF Calls
  <2>5. QED
    BY <2>3, <2>4, CallAssumption
<1>3. stage' \in [TeamThreads -> {"pin", "body", "out"}] /\ \A t \in TeamThreads : stage'[t] # "body"
  BY DEF Open
<1>4. TypeOK'
  BY <1>2, <1>3 DEF PlacementIInv, TypeOK, Open, worldVars
<1>5. RecordsAreTrue' /\ PinnedAreRemembered' /\ CallerForgotten'
  BY DEF PlacementIInv, RecordsAreTrue, PinnedAreRemembered, CallerForgotten, Open, worldVars
<1>6. BodiesOnTarget'
  <2>1. call'.cpus = cpus
    BY DEF Open
  <2>2. CallWorkers' = 0..Len(cpus) - 1
    BY <1>2, <2>1 DEF CallWorkers
  <2>3. CallWorkers' \subseteq TeamThreads
    BY <1>1, <2>2, TeamAssumption DEF TeamThreads
  <2>4. QED
    BY <1>3, <2>3 DEF BodiesOnTarget
<1>7. EntryIsKept'
  BY <1>2, <1>3, CallerIsThread DEF EntryIsKept, Open
<1>8. QED
  BY <1>4, <1>5, <1>6, <1>7 DEF PlacementIInv

(* A step of one thread of an open call leaves the call and the other threads
   where they are. *)
ThreadStep(t) ==
  /\ call # NoCall /\ call' = call /\ loaded' = loaded
  /\ t \in CallWorkers
  /\ \A u \in TeamThreads \ {t} :
       /\ mask'[u] = mask[u] /\ stage'[u] = stage[u]
       /\ \A l \in Libraries :
            /\ target'[l][u] = target[l][u] /\ original'[l][u] = original[l][u]
            /\ <<l, u>> \in stray' <=> <<l, u>> \in stray
  /\ \A l \in Libraries \ {call.lib}, u \in TeamThreads :
       target'[l][u] = target[l][u] /\ original'[l][u] = original[l][u]

(* What such a step owes the invariant is about its own thread. *)
LEMMA ThreadStepKeeps ==
  ASSUME PlacementIInv, NEW t \in TeamThreads, ThreadStep(t), TypeOK',
         affinityError => affinityError',
         \A l \in loaded : (<<l, t>> \notin stray' /\ target'[l][t] # NoCpu)
                              => mask'[t] = {target'[l][t]},
         original'[call.lib][t] = NoMask => target'[call.lib][t] = NoCpu,
         (t = 0 /\ (~call.pinned \/ stage'[t] # "body")) => original'[call.lib][t] = NoMask,
         (stage'[t] = "body" /\ call.pinned /\ ~affinityError') => target'[call.lib][t] = Assigned(t),
         (t = 0 /\ ~affinityError') =>
           IF call.pinned /\ stage'[t] = "body" THEN original'[call.lib][t] = call.entry
           ELSE mask'[t] = call.entry
  PROVE  PlacementIInv'
<1>0. TypeOK /\ call # NoCall
  BY DEF PlacementIInv, ThreadStep
<1>1. /\ call' = call /\ loaded' = loaded /\ call.lib \in Libraries /\ loaded \subseteq Libraries
      /\ CallWorkers \subseteq TeamThreads /\ 0 \in TeamThreads
  BY <1>0, WorkersType, CallerIsThread DEF ThreadStep, TypeOK
<1>2. CallWorkers' = CallWorkers /\ \A u \in TeamThreads : Assigned(u)' = Assigned(u)
  BY <1>1 DEF CallWorkers, Assigned
<1>3. RecordsAreTrue'
  BY <1>1 DEF PlacementIInv, RecordsAreTrue, ThreadStep
<1>4. PinnedAreRemembered'
  <2> SUFFICES ASSUME NEW l \in Libraries, NEW u \in TeamThreads, original'[l][u] = NoMask
               PROVE  target'[l][u] = NoCpu
    BY DEF PinnedAreRemembered
  <2>1. CASE u = t /\ l = call.lib
    BY <2>1
  <2>2. CASE ~(u = t /\ l = call.lib)
    <3>1. original'[l][u] = original[l][u] /\ target'[l][u] = target[l][u]
      BY <2>2 DEF ThreadStep
    <3>2. QED
      BY <3>1 DEF PlacementIInv, PinnedAreRemembered
  <2>3. QED
    BY <2>1, <2>2
<1>5. CallerForgotten'
  <2> SUFFICES ASSUME NEW l \in Libraries,
                      l # call.lib \/ ~call.pinned \/ stage'[0] # "body"
               PROVE  original'[l][0] = NoMask
    BY <1>0, <1>1 DEF CallerForgotten
  <2>1. CASE t = 0 /\ l = call.lib
    BY <2>1
  <2>2. CASE ~(t = 0 /\ l = call.lib)
    BY <2>2, <1>1 DEF PlacementIInv, CallerForgotten, ThreadStep
  <2>3. QED
    BY <2>1, <2>2
<1>6. BodiesOnTarget'
  <2> SUFFICES ASSUME NEW u \in CallWorkers, stage'[u] = "body", call.pinned, ~affinityError'
               PROVE  target'[call.lib][u] = Assigned(u)
    BY <1>1, <1>2 DEF BodiesOnTarget
  <2>1. CASE u = t
    BY <2>1
  <2>2. CASE u # t
    BY <2>2, <1>1 DEF PlacementIInv, BodiesOnTarget, ThreadStep
  <2>3. QED
    BY <2>1, <2>2
<1>7. EntryIsKept'
  <2> SUFFICES ASSUME ~affinityError'
               PROVE  IF call.pinned /\ stage'[0] = "body" THEN original'[call.lib][0] = call.entry
                      ELSE mask'[0] = call.entry
    BY <1>1 DEF EntryIsKept
  <2>1. CASE t = 0
    BY <2>1
  <2>2. CASE t # 0
    BY <2>2, <1>0, <1>1 DEF PlacementIInv, EntryIsKept, ThreadStep
  <2>3. QED
    BY <2>1, <2>2
<1>8. QED
  BY <1>3, <1>4, <1>5, <1>6, <1>7 DEF PlacementIInv

(* Where a thread of an open call stands before it is pinned. *)
LEMMA AboutToPin ==
  ASSUME PlacementIInv, call # NoCall, NEW t \in CallWorkers, stage[t] = "pin"
  PROVE  /\ t \in TeamThreads /\ call.lib \in Libraries
         /\ mask[t] \in Masks /\ Unpinned(call.lib, t) \in Masks
         /\ t = 0 => /\ original[call.lib][t] = NoMask /\ target[call.lib][t] = NoCpu
                     /\ ~affinityError => mask[t] = call.entry
<1>1. TypeOK /\ t \in TeamThreads /\ call.lib \in Libraries /\ 0 \in TeamThreads
  BY WorkersType, CallerIsThread DEF PlacementIInv
<1>2. mask[t] \in Masks /\ original[call.lib][t] \in Masks \cup {NoMask}
  BY <1>1 DEF TypeOK
<1>3. Unpinned(call.lib, t) \in Masks
  BY <1>2 DEF Unpinned
<1>4. t = 0 => original[call.lib][t] = NoMask
  BY <1>1 DEF PlacementIInv, CallerForgotten
<1>5. t = 0 => target[call.lib][t] = NoCpu
  BY <1>1, <1>4 DEF PlacementIInv, PinnedAreRemembered
<1>6. (t = 0 /\ ~affinityError) => mask[t] = call.entry
  BY DEF PlacementIInv, EntryIsKept
<1>7. QED
  BY <1>1, <1>2, <1>3, <1>4, <1>5, <1>6

-----------------------------------------------------------------------------
LEMMA StayUnpinnedStep ==
  ASSUME PlacementIInv, call # NoCall, NEW t \in CallWorkers, StayUnpinned(t)
  PROVE  PlacementIInv'
<1>1. stage[t] = "pin" /\ ~call.pinned
  BY DEF StayUnpinned
<1>2. t \in TeamThreads /\ call.lib \in Libraries
  BY <1>1, AboutToPin
<1>3. stage' = [stage EXCEPT ![t] = "body"] /\ stage'[t] = "body"
  BY <1>2 DEF StayUnpinned, EnterBody, PlacementIInv, TypeOK
<1>4. TypeOK'
  BY <1>2, <1>3 DEF PlacementIInv, TypeOK, StayUnpinned, worldVars
<1>5. ThreadStep(t)
  BY <1>2, <1>3 DEF ThreadStep, StayUnpinned, worldVars, PlacementIInv, TypeOK
<1>6. \A l \in loaded : (<<l, t>> \notin stray /\ target[l][t] # NoCpu) => mask[t] = {target[l][t]}
  BY <1>2 DEF PlacementIInv, RecordsAreTrue
<1>7. original[call.lib][t] = NoMask => target[call.lib][t] = NoCpu
  BY <1>2 DEF PlacementIInv, PinnedAreRemembered
<1>8. /\ t = 0 => original[call.lib][t] = NoMask
      /\ (t = 0 /\ ~affinityError) => mask[t] = call.entry
  BY <1>1, AboutToPin
<1>9. UNCHANGED <<mask, target, original, affinityError, stray>>
  BY DEF StayUnpinned
<1>10. QED
  BY <1>1, <1>2, <1>3, <1>4, <1>5, <1>6, <1>7, <1>8, <1>9, ThreadStepKeeps

LEMMA PinKeptStep ==
  ASSUME PlacementIInv, call # NoCall, NEW t \in CallWorkers, PinKept(t)
  PROVE  PlacementIInv'
<1>1. stage[t] = "pin" /\ call.pinned /\ target[call.lib][t] = Assigned(t)
  BY DEF PinKept, OnTarget
<1>2. t \in TeamThreads /\ call.lib \in Libraries /\ Assigned(t) # NoCpu
  BY <1>1, AboutToPin, WorkersType DEF PlacementIInv
<1>3. stage' = [stage EXCEPT ![t] = "body"] /\ stage'[t] = "body"
  BY <1>2 DEF PinKept, EnterBody, PlacementIInv, TypeOK
<1>4. TypeOK'
  BY <1>2, <1>3 DEF PlacementIInv, TypeOK, PinKept, worldVars
<1>5. ThreadStep(t)
  BY <1>2, <1>3 DEF ThreadStep, PinKept, worldVars, PlacementIInv, TypeOK
<1>6. \A l \in loaded : (<<l, t>> \notin stray /\ target[l][t] # NoCpu) => mask[t] = {target[l][t]}
  BY <1>2 DEF PlacementIInv, RecordsAreTrue
<1>7. original[call.lib][t] = NoMask => target[call.lib][t] = NoCpu
  BY <1>2 DEF PlacementIInv, PinnedAreRemembered
<1>8. t # 0
  BY <1>1, <1>2, AboutToPin
<1>9. UNCHANGED <<mask, target, original, affinityError, stray>>
  BY DEF PinKept
<1>10. QED
  BY <1>1, <1>2, <1>3, <1>4, <1>5, <1>6, <1>7, <1>8, <1>9, ThreadStepKeeps

LEMMA PinMovedStep ==
  ASSUME PlacementIInv, call # NoCall, NEW t \in CallWorkers, PinMoved(t)
  PROVE  PlacementIInv'
<1> DEFINE lib == call.lib
           base == Unpinned(lib, t)
<1>1. stage[t] = "pin" /\ call.pinned
  BY DEF PinMoved
<1>2. /\ t \in TeamThreads /\ lib \in Libraries /\ base \in Masks
      /\ Assigned(t) \in Cpus /\ Assigned(t) # NoCpu
      /\ t = 0 => original[lib][t] = NoMask /\ (~affinityError => mask[t] = call.entry)
  BY <1>1, AboutToPin, WorkersType DEF PlacementIInv
<1>3. /\ original' = [original EXCEPT ![lib][t] = base]
      /\ mask' = [mask EXCEPT ![t] = {Assigned(t)}]
      /\ target' = [target EXCEPT ![lib][t] = Assigned(t)]
      /\ stray' = (stray \ {<<lib, t>>}) \cup {<<l, t>> : l \in loaded \ {lib}}
      /\ stage' = [stage EXCEPT ![t] = "body"]
      /\ UNCHANGED <<call, affinityError, worldVars>>
  BY DEF PinMoved, EnterBody
<1> HIDE DEF base, lib
<1>4. /\ original'[lib][t] = base /\ mask'[t] = {Assigned(t)} /\ target'[lib][t] = Assigned(t)
      /\ stage'[t] = "body"
  BY <1>2, <1>3 DEF PlacementIInv, TypeOK
<1>5. TypeOK'
  <2>1. mask' \in [TeamThreads -> Masks] /\ target' \in [Libraries -> [TeamThreads -> Cpus \cup {NoCpu}]]
    BY <1>2, <1>3 DEF PlacementIInv, TypeOK, Masks
  <2>2. original' \in [Libraries -> [TeamThreads -> Masks \cup {NoMask}]]
    BY <1>2, <1>3 DEF PlacementIInv, TypeOK
  <2>3. QED
    BY <2>1, <2>2, <1>2, <1>3 DEF PlacementIInv, TypeOK, worldVars
<1>6. ThreadStep(t)
  BY <1>2, <1>3 DEF ThreadStep, worldVars, PlacementIInv, TypeOK, lib
<1>7. \A l \in loaded : l # lib => <<l, t>> \in stray'
  BY <1>3
<1>8. t = 0 => (~affinityError => base = call.entry)
  BY <1>2 DEF Unpinned, base
<1>9. affinityError' = affinityError /\ base # NoMask
  BY <1>2, <1>3 DEF Masks, NoMask
<1>10. QED
  BY <1>1, <1>2, <1>4, <1>5, <1>6, <1>7, <1>8, <1>9, ThreadStepKeeps DEF lib

LEMMA PinFailsStep ==
  ASSUME PlacementIInv, call # NoCall, NEW t \in CallWorkers, PinFails(t)
  PROVE  PlacementIInv'
<1> DEFINE lib == call.lib
           base == Unpinned(lib, t)
<1>1. stage[t] = "pin" /\ call.pinned
  BY DEF PinFails
<1>2. /\ t \in TeamThreads /\ lib \in Libraries /\ base \in Masks
  BY <1>1, AboutToPin
<1>3. /\ \/ original[lib][t] # NoMask /\ UNCHANGED <<mask, original>>
         \/ /\ mask' = [mask EXCEPT ![t] = base]
            /\ original' = [original EXCEPT ![lib][t] = base]
      /\ affinityError'
      /\ stray' = stray \cup {<<l, t>> : l \in loaded}
      /\ stage' = [stage EXCEPT ![t] = "body"]
      /\ UNCHANGED <<target, call, worldVars>>
  BY DEF PinFails, EnterBody
<1>4. affinityError' \in BOOLEAN
  BY DEF PinFails
<1> HIDE DEF base, lib
<1>5. base # NoMask
  BY <1>2 DEF Masks, NoMask
<1>6. original'[lib][t] # NoMask /\ stage'[t] = "body"
  BY <1>2, <1>3, <1>5 DEF PlacementIInv, TypeOK
<1>7. TypeOK'
  <2>1. mask' \in [TeamThreads -> Masks]
    BY <1>2, <1>3 DEF PlacementIInv, TypeOK
  <2>2. original' \in [Libraries -> [TeamThreads -> Masks \cup {NoMask}]]
    <3>1. [original EXCEPT ![lib][t] = base] \in [Libraries -> [TeamThreads -> Masks \cup {NoMask}]]
      BY <1>2 DEF PlacementIInv, TypeOK
    <3>2. QED
      BY <1>3, <3>1 DEF PlacementIInv, TypeOK
  <2>3. stage' \in [TeamThreads -> {"pin", "body", "out"}]
    BY <1>2, <1>3 DEF PlacementIInv, TypeOK
  <2>4. QED
    BY <2>1, <2>2, <2>3, <1>3, <1>4 DEF PlacementIInv, TypeOK, worldVars
<1>8. ThreadStep(t)
  BY <1>2, <1>3 DEF ThreadStep, worldVars, PlacementIInv, TypeOK, lib
<1>9. \A l \in loaded : <<l, t>> \in stray'
  BY <1>3
<1>10. QED
  BY <1>1, <1>2, <1>3, <1>6, <1>7, <1>8, <1>9, ThreadStepKeeps DEF lib

(* What a thread in the body of a call knows of its own record. *)
LEMMA InTheBody ==
  ASSUME PlacementIInv, call # NoCall, NEW t \in CallWorkers, stage[t] = "body"
  PROVE  /\ t \in TeamThreads /\ call.lib \in Libraries
         /\ original[call.lib][t] \in Masks \cup {NoMask}
         /\ original[call.lib][t] = NoMask => target[call.lib][t] = NoCpu
         /\ \A l \in loaded : (<<l, t>> \notin stray /\ target[l][t] # NoCpu)
                                => mask[t] = {target[l][t]}
         /\ (t = 0 /\ ~call.pinned) => original[call.lib][t] = NoMask
         /\ (t = 0 /\ ~affinityError) =>
              IF call.pinned THEN original[call.lib][t] = call.entry ELSE mask[t] = call.entry
         /\ call.entry # NoMask
<1>1. TypeOK /\ t \in TeamThreads /\ call.lib \in Libraries /\ 0 \in TeamThreads /\ call \in Calls
  BY WorkersType, CallerIsThread DEF PlacementIInv
<1>2. original[call.lib][t] \in Masks \cup {NoMask}
  BY <1>1 DEF TypeOK
<1>3. original[call.lib][t] = NoMask => target[call.lib][t] = NoCpu
  BY <1>1 DEF PlacementIInv, PinnedAreRemembered
<1>4. \A l \in loaded : (<<l, t>> \notin stray /\ target[l][t] # NoCpu) => mask[t] = {target[l][t]}
  BY <1>1 DEF PlacementIInv, RecordsAreTrue
<1>5. (t = 0 /\ ~call.pinned) => original[call.lib][t] = NoMask
  BY <1>1 DEF PlacementIInv, CallerForgotten
<1>6. (t = 0 /\ ~affinityError) =>
        IF call.pinned THEN original[call.lib][t] = call.entry ELSE mask[t] = call.entry
  BY DEF PlacementIInv, EntryIsKept
<1>7. call.entry # NoMask
  BY <1>1 DEF Calls, Masks, NoMask
<1>8. QED
  BY <1>1, <1>2, <1>3, <1>4, <1>5, <1>6, <1>7

LEMMA LeaveStep ==
  ASSUME PlacementIInv, call # NoCall, NEW t \in CallWorkers, Leave(t)
  PROVE  PlacementIInv'
<1>1. stage[t] = "body" /\ stage' = [stage EXCEPT ![t] = "out"] /\ UNCHANGED <<call, affinityError, worldVars>>
  BY DEF Leave
<1>2. t \in TeamThreads /\ call.lib \in Libraries
  BY <1>1, InTheBody
<1>3. stage'[t] = "out"
  BY <1>1, <1>2 DEF PlacementIInv, TypeOK
<1>4. CASE ~Restores(t)
  <2>1. UNCHANGED <<mask, target, original, stray>>
    BY <1>4 DEF Leave
  <2>2. TypeOK'
    BY <1>1, <1>2, <2>1 DEF PlacementIInv, TypeOK, worldVars
  <2>3. ThreadStep(t)
    BY <1>1, <1>2, <2>1 DEF ThreadStep, worldVars, PlacementIInv, TypeOK
  <2>4. t = 0 => original[call.lib][t] = NoMask
    BY <1>1, <1>4, InTheBody DEF Restores
  <2>5. (t = 0 /\ ~affinityError) => mask[t] = call.entry
    BY <1>1, <2>4, InTheBody
  <2>6. QED
    BY <1>1, <1>2, <1>3, <2>1, <2>2, <2>3, <2>4, <2>5, InTheBody, ThreadStepKeeps
<1>5. CASE Restores(t)
  <2>1. t = 0 /\ call.pinned /\ original[call.lib][t] # NoMask
    BY <1>5 DEF Restores
  <2>2. original[call.lib][t] \in Masks
    BY <1>1, <2>1, InTheBody
  <2>3. /\ mask' = [mask EXCEPT ![t] = original[call.lib][t]]
        /\ target' = [target EXCEPT ![call.lib][t] = NoCpu]
        /\ original' = [original EXCEPT ![call.lib][t] = NoMask]
        /\ stray' = stray \cup {<<l, t>> : l \in loaded \ {call.lib}}
    BY <1>5 DEF Leave, Forget
  <2>4. /\ mask'[t] = original[call.lib][t] /\ target'[call.lib][t] = NoCpu
        /\ original'[call.lib][t] = NoMask
    BY <1>2, <2>3 DEF PlacementIInv, TypeOK
  <2>5. TypeOK'
    BY <1>1, <1>2, <2>2, <2>3 DEF PlacementIInv, TypeOK, worldVars
  <2>6. ThreadStep(t)
    BY <1>1, <1>2, <2>3 DEF ThreadStep, worldVars, PlacementIInv, TypeOK
  <2>7. \A l \in loaded : l # call.lib => <<l, t>> \in stray'
    BY <2>3
  <2>8. ~affinityError => mask'[t] = call.entry
    BY <1>1, <2>1, <2>4, InTheBody
  <2>9. QED
    BY <1>1, <1>2, <1>3, <2>4, <2>5, <2>6, <2>7, <2>8, ThreadStepKeeps
<1>6. QED
  BY <1>4, <1>5

LEMMA LeaveFailsStep ==
  ASSUME PlacementIInv, call # NoCall, NEW t \in CallWorkers, LeaveFails(t)
  PROVE  PlacementIInv'
<1>1. /\ stage[t] = "body" /\ stage' = [stage EXCEPT ![t] = "out"]
      /\ affinityError' = TRUE
      /\ target' = [target EXCEPT ![call.lib][t] = NoCpu]
      /\ original' = [original EXCEPT ![call.lib][t] = NoMask]
      /\ UNCHANGED <<mask, call, stray, worldVars>>
  BY DEF LeaveFails, Forget
<1>2. /\ t \in TeamThreads /\ call.lib \in Libraries
      /\ \A l \in loaded : (<<l, t>> \notin stray /\ target[l][t] # NoCpu)
                             => mask[t] = {target[l][t]}
  BY <1>1, InTheBody
<1>3. /\ target'[call.lib][t] = NoCpu /\ original'[call.lib][t] = NoMask /\ stage'[t] = "out"
      /\ \A l \in loaded : l # call.lib => target'[l][t] = target[l][t]
  BY <1>1, <1>2 DEF PlacementIInv, TypeOK
<1>4. TypeOK'
  BY <1>1, <1>2 DEF PlacementIInv, TypeOK, worldVars
<1>5. ThreadStep(t)
  BY <1>1, <1>2 DEF ThreadStep, worldVars, PlacementIInv, TypeOK
<1>6. QED
  BY <1>1, <1>2, <1>3, <1>4, <1>5, ThreadStepKeeps

(* At the closing barrier the calling thread is out of the body. *)
LEMMA CallerIsOut ==
  ASSUME PlacementIInv, Close
  PROVE  stage[0] = "out" /\ (~affinityError => mask[0] = call.entry)
<1>1. stage[0] = "out"
  BY WorkersType DEF PlacementIInv, Close
<1>2. ~affinityError => mask[0] = call.entry
  BY <1>1 DEF PlacementIInv, EntryIsKept, Close
<1>3. QED
  BY <1>1, <1>2

LEMMA CloseStep ==
  ASSUME PlacementIInv, Close
  PROVE  PlacementIInv'
<1>1. call' = NoCall /\ affinityError' = FALSE /\ UNCHANGED <<mask, target, original, stage, stray, worldVars>>
  BY DEF Close
<1>2. TypeOK'
  BY <1>1 DEF PlacementIInv, TypeOK, worldVars
<1>3. RecordsAreTrue' /\ PinnedAreRemembered'
  BY <1>1 DEF PlacementIInv, RecordsAreTrue, PinnedAreRemembered, worldVars
<1>4. CallerForgotten'
  BY <1>1, CallerIsOut DEF PlacementIInv, CallerForgotten
<1>5. BodiesOnTarget' /\ EntryIsKept'
  BY <1>1 DEF BodiesOnTarget, EntryIsKept, CallWorkers
<1>6. QED
  BY <1>2, <1>3, <1>4, <1>5 DEF PlacementIInv

LEMMA NextPlacement ==
  PlacementIInv /\ [PlacementNext]_placementVars => PlacementIInv'
<1> SUFFICES ASSUME PlacementIInv, [PlacementNext]_placementVars PROVE PlacementIInv'
  OBVIOUS
<1>1. ASSUME NEW m \in Masks, CallerMoves(m) PROVE PlacementIInv'
  BY <1>1, CallerMovesStep
<1>2. ASSUME NEW lib \in loaded, NEW cpus \in Placements, NEW prepare \in BOOLEAN,
             Open(lib, cpus, prepare)
      PROVE  PlacementIInv'
  BY <1>2, OpenStep
<1>3. ASSUME NEW t \in CallWorkers,
             \/ StayUnpinned(t) \/ PinKept(t) \/ PinMoved(t)
             \/ PinFails(t) \/ Leave(t) \/ LeaveFails(t)
      PROVE  PlacementIInv'
  <2>1. call # NoCall
    BY DEF CallWorkers
  <2>2. QED
    BY <1>3, <2>1, StayUnpinnedStep, PinKeptStep, PinMovedStep, PinFailsStep, LeaveStep,
       LeaveFailsStep
<1>4. CASE Close
  BY <1>4, CloseStep
<1>5. CASE UNCHANGED placementVars
  BY <1>5 DEF placementVars, worldVars, PlacementIInv, TypeOK, RecordsAreTrue, PinnedAreRemembered, CallerForgotten,
     BodiesOnTarget, EntryIsKept, CallWorkers, Assigned
<1>6. QED
  BY <1>1, <1>2, <1>3, <1>4, <1>5 DEF PlacementNext

-----------------------------------------------------------------------------
(* The invariant of the placement holds in every behaviour. *)
THEOREM PlacementInvariant == PlacementSpec => []PlacementIInv
  BY InitPlacement, NextPlacement, PTL DEF PlacementSpec

(* A body that runs in a pinned call that reports no affinity error runs on
   the CPU its plan assigned, unless its record is known to be out of date
   (cpuattn_pin_worker returns early when the target is on record). *)
THEOREM BodiesRunWhereAssigned == PlacementSpec => []WorkersOnAssignedCpus
<1>1. PlacementIInv => WorkersOnAssignedCpus
  <2> SUFFICES ASSUME PlacementIInv, NEW t \in CallWorkers, stage[t] = "body", call.pinned, ~affinityError,
                      <<call.lib, t>> \notin stray
               PROVE  mask[t] = {Assigned(t)}
    BY DEF WorkersOnAssignedCpus
  <2>1. call # NoCall
    BY DEF CallWorkers
  <2>2. t \in TeamThreads /\ call.lib \in loaded /\ Assigned(t) # NoCpu
    BY <2>1, WorkersType DEF PlacementIInv
  <2>3. target[call.lib][t] = Assigned(t)
    BY DEF PlacementIInv, BodiesOnTarget
  <2>4. QED
    BY <2>2, <2>3 DEF PlacementIInv, RecordsAreTrue
<1>2. QED
  BY <1>1, PlacementInvariant, PTL

(* cpuattn_restore_worker gives the calling thread the mask it came with,
   whatever failed in the calls before. *)
THEOREM CallerGetsItsMaskBack == PlacementSpec => CallerKeepsItsMask
<1>1. PlacementIInv /\ [PlacementNext]_placementVars =>
        [(call # NoCall /\ call' = NoCall /\ ~affinityError) => mask'[0] = call.entry]_placementVars
  <2> SUFFICES ASSUME PlacementIInv, PlacementNext, call # NoCall, call' = NoCall, ~affinityError
               PROVE  mask'[0] = call.entry
    BY DEF placementVars
  <2>1. Close
    BY DEF PlacementNext, CallerMoves, Open, StayUnpinned, PinKept, PinMoved, PinFails, Leave, LeaveFails
  <2>2. QED
    BY <2>1, CallerIsOut DEF Close
<1>2. QED
  BY <1>1, PlacementInvariant, PTL DEF PlacementSpec, CallerKeepsItsMask
=============================================================================
