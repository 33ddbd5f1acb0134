-------------------------- MODULE PlanSearchProofs --------------------------
(***************************************************************************)
(* Proofs about LaunchPlanning and the search over its plans, for machines *)
(* of any number of CPUs, nodes and threads a core, calls and tiles of any *)
(* sizes, and pages and buckets of any size: what a plan of the plan space *)
(* is, how it fares at every length of its bucket, what a backend promises *)
(* to run, and which plans are measured before one is chosen.              *)
(*                                                                         *)
(* In this order: sizes; the topology and its launches; the workspace; the *)
(* backend; the plans of a call and the keys that order them; the teams of *)
(* the topology; the representatives; the estimates and their ranking; the *)
(* invariant of the search; the properties.                                *)
(***************************************************************************)
EXTENDS WorkerCount, CommonTheorems

-----------------------------------------------------------------------------
(* Sizes: aligned, and of the bucket of a length. *)
LEMMA AlignLaws ==
  ASSUME NEW x \in Nat, NEW unit \in Nat \ {0}
  PROVE  /\ Align(x, unit) \in Nat /\ x <= Align(x, unit)
         /\ Align(x, unit) % unit = 0
         /\ \E n \in Nat : Align(x, unit) = unit * n
<1> DEFINE n == (x + unit - 1) \div unit
           e == unit * n
<1>1. n \in Nat /\ x + unit - 1 < e + unit
  BY DivideLeaves
<1>2. Align(x, unit) = n * unit
  BY DEF Align
<1> HIDE DEF n
<1>3. e \in Nat /\ n * unit = e
  BY <1>1
<1>4. (unit * n + 0) % unit = 0
  BY <1>1, DivideUnique
<1>5. unit * n + 0 = e
  BY <1>3
<1>6. \E m \in Nat : e = unit * m
  BY <1>1
<1> HIDE DEF e
<1>7. QED
  BY <1>1, <1>2, <1>3, <1>4, <1>5, <1>6

LEMMA AlignGrows ==
  ASSUME NEW x \in Nat, NEW y \in Nat, x <= y, NEW unit \in Nat \ {0}
  PROVE  Align(x, unit) <= Align(y, unit)
<1> DEFINE m == (x + unit - 1) \div unit
           n == (y + unit - 1) \div unit
<1>1. x + unit - 1 \in Nat /\ y + unit - 1 \in Nat /\ x + unit - 1 <= y + unit - 1
  OBVIOUS
<1>2. m \in Nat /\ unit * m <= x + unit - 1 /\ n \in Nat
  BY <1>1, DivideLeaves
<1>3. m <= n
  <2>1. unit * m <= y + unit - 1
    BY <1>1, <1>2
  <2> HIDE DEF m
  <2>2. QED
    BY <1>1, <1>2, <2>1, DivideAbove
<1>4. Align(x, unit) = m * unit /\ Align(y, unit) = n * unit
  BY DEF Align
<1> HIDE DEF m, n
<1>5. m * unit = unit * m /\ n * unit = unit * n
  BY <1>2
<1>6. unit * m <= unit * n
  BY <1>2, <1>3, TimesGrows
<1>7. QED
  BY <1>4, <1>5, <1>6

LEMMA NumbersInOrder ==
  ASSUME NEW S, IsFiniteSet(S), S \subseteq Int
  PROVE  Lists(InOrder(S, <), S, Less(S))
<1> DEFINE B == Less(S)
           s == InOrder(S, <)
<1>1. \A x \in S : \A y \in S : <<x, y>> \in B <=> x < y
  BY DEF Less
<1>2. StrictOrder(B, S)
  <2> HIDE DEF B
  <2>1. \A x \in S : x \in Int
    OBVIOUS
  <2>2. QED
    BY <1>1, <2>1 DEF StrictOrder
<1>3. \A x \in S : {y \in S : y < x} = Below(B, S, x)
  BY <1>1 DEF Below
<1>4. s = [i \in 1..Cardinality(S) |-> CHOOSE x \in S : Cardinality({y \in S : y < x}) = i - 1]
  BY DEF InOrder
<1>5. s = [i \in 1..Cardinality(S) |-> CHOOSE x \in S : Cardinality(Below(B, S, x)) = i - 1]
  BY <1>3, <1>4
<1> HIDE DEF B, s
<1>6. Lists(s, S, B)
  BY <1>2, <1>5, InOrderLists
<1>7. QED
  BY <1>6 DEF B, s

LEMMA BucketEdge ==
  ASSUME NEW x \in Nat \ {0}
  PROVE  KvBucket(x, Unit) \in Nat \ {0}
<1> DEFINE n == (x - 1) \div Unit
           E == {e \in 0..n : 2^e <= n}
<1>1. n \in Nat /\ Unit \in Nat \ {0}
  BY SizesAssumption, DivideLeaves
<1>2. Cardinality(E) \in Nat
  <2>1. IsFiniteSet(0..n) /\ E \in SUBSET (0..n)
    BY <1>1, FS_Interval
  <2> HIDE DEF E
  <2>2. QED
    BY <2>1, FS_Subset, FS_CardinalityType
<1>3. BitLength(n) \in Nat
  BY <1>2 DEF BitLength
<1> HIDE DEF n, E
<1>4. Unit * 2^BitLength(n) \in Nat \ {0}
  BY <1>1, <1>3, PowerOfTwo, ProductIsPositive
<1>5. QED
  BY <1>1, <1>4 DEF KvBucket, n

(* The length a call is planned at is a size. *)
LEMMA PlannedLength ==
  ASSUME LegalCall(call)
  PROVE  PlannedSkv \in Nat \ {0}
<1>1. call.skv \in Nat \ {0}
  BY DEF LegalCall
<1>2. KvBucket(call.skv, Unit) \in Nat \ {0}
  BY <1>1, BucketEdge
<1>3. QED
  BY <1>1, <1>2 DEF PlannedSkv

-----------------------------------------------------------------------------
(* The topology, and the launches made of it. *)
HostIsReal == MachineIsReal(machine) /\ host = DetectHost(machine)

LEMMA HostFacts ==
  ASSUME HostIsReal
  PROVE  /\ Cpus = machine.allowed /\ IsFiniteSet(Cpus) /\ Cpus # {}
         /\ \A c \in Cpus : c \in Nat \ {0} /\ Node(c) \in Nat
         /\ \A c \in Cpus : host.cpus[c] = LogicalCpu(machine, c)
<1>1. host.cpus = [c \in machine.allowed |-> LogicalCpu(machine, c)]
  BY DEF HostIsReal, DetectHost
<1>2. Cpus = machine.allowed /\ \A c \in Cpus : host.cpus[c] = LogicalCpu(machine, c)
  BY <1>1 DEF Cpus
<1>3. IsFiniteSet(machine.allowed) /\ machine.allowed # {}
      /\ \A c \in machine.allowed : c \in Nat \ {0}
  BY DEF HostIsReal, MachineIsReal
<1>4. ASSUME NEW c \in Cpus PROVE Node(c) \in Nat
  <2>1. Node(c) = LogicalCpu(machine, c).node
    BY <1>2 DEF Node
  <2>2. CASE c \in machine.readable
    <3>1. machine.cpus[c].node \in Nat
      BY <1>2, <2>2 DEF HostIsReal, MachineIsReal
    <3>2. LogicalCpu(machine, c).node = machine.cpus[c].node
      BY <2>2 DEF LogicalCpu
    <3>3. QED
      BY <2>1, <3>1, <3>2
  <2>3. CASE c \notin machine.readable
    <3>1. LogicalCpu(machine, c).node = 0
      BY <2>3 DEF LogicalCpu
    <3>2. QED
      BY <2>1, <3>1
  <2>4. QED
    BY <2>2, <2>3
<1>5. QED
  BY <1>2, <1>3, <1>4

LEMMA CoresDiffer ==
  ASSUME HostIsReal
  PROVE  /\ IsFiniteSet(PhysicalCpus) /\ Cardinality(PhysicalCpus) \in Nat
         /\ PhysicalCpus \subseteq Cpus
         /\ \A c \in PhysicalCpus : c \in Nat \ {0} /\ Node(c) \in Nat
         /\ \A c \in PhysicalCpus : \A d \in PhysicalCpus : c # d =>
              <<host.cpus[c].socket, host.cpus[c].core>> # <<host.cpus[d].socket, host.cpus[d].core>>
<1>1. PhysicalCpus \in SUBSET Cpus
  BY DEF PhysicalCpus
<1>2. IsFiniteSet(Cpus) /\ \A c \in Cpus : c \in Nat \ {0} /\ Node(c) \in Nat
  BY HostFacts
<1>3. IsFiniteSet(PhysicalCpus) /\ Cardinality(PhysicalCpus) \in Nat
  BY <1>1, <1>2, FS_Subset, FS_CardinalityType
<1>4. ASSUME NEW c \in PhysicalCpus, NEW d \in PhysicalCpus, c # d
      PROVE  <<host.cpus[c].socket, host.cpus[c].core>> # <<host.cpus[d].socket, host.cpus[d].core>>
  <2>1. c < d \/ d < c
    <3>1. c \in Int /\ d \in Int
      BY <1>1, <1>2
    <3>2. QED
      BY <1>4, <3>1
  <2>2. \A a \in PhysicalCpus : \A b \in PhysicalCpus : a < b =>
          <<host.cpus[a].socket, host.cpus[a].core>> # <<host.cpus[b].socket, host.cpus[b].core>>
    BY DEF PhysicalCpus
  <2>3. QED
    BY <2>1, <2>2
<1>5. QED
  BY <1>1, <1>2, <1>3, <1>4

OnNode(n) == {c \in PhysicalCpus : Node(c) = n}

LEMMA NodeLists ==
  ASSUME HostIsReal, NEW n
  PROVE  Lists(NodeCpus(n), OnNode(n), Less(OnNode(n)))
<1>1. OnNode(n) \in SUBSET PhysicalCpus /\ IsFiniteSet(PhysicalCpus)
      /\ \A c \in PhysicalCpus : c \in Nat \ {0}
  BY CoresDiffer DEF OnNode
<1>2. IsFiniteSet(OnNode(n)) /\ OnNode(n) \subseteq Int
  BY <1>1, FS_Subset
<1>3. NodeCpus(n) = InOrder(OnNode(n), <)
  BY DEF NodeCpus, OnNode
<1>4. QED
  BY <1>2, <1>3, NumbersInOrder

(* By how many cores of its node a core is preceded. *)
Offset(c) == Cardinality({d \in PhysicalCpus : Node(d) = Node(c) /\ d < c})

RoundRobin ==
  {p \in PhysicalCpus \X PhysicalCpus :
     Offset(p[1]) < Offset(p[2]) \/ (Offset(p[1]) = Offset(p[2]) /\ Node(p[1]) < Node(p[2]))}

LEMMA OffsetsGrow ==
  ASSUME HostIsReal, NEW c \in PhysicalCpus
  PROVE  /\ Offset(c) \in Nat
         /\ \A d \in PhysicalCpus : Node(c) = Node(d) /\ c < d => Offset(c) < Offset(d)
<1> DEFINE S == OnNode(Node(c))
<1>1. S \in SUBSET PhysicalCpus /\ IsFiniteSet(PhysicalCpus)
      /\ \A d \in PhysicalCpus : d \in Nat \ {0}
  BY CoresDiffer DEF OnNode
<1>2. IsFiniteSet(S) /\ \A d \in S : d \in Int
  BY <1>1, FS_Subset
<1>3. StrictOrder(Less(S), S)
  <2>1. \A x \in S : \A y \in S : <<x, y>> \in Less(S) <=> x < y
    BY DEF Less
  <2> HIDE DEF S
  <2>2. QED
    BY <1>2, <2>1 DEF StrictOrder
<1>4. ASSUME NEW d \in PhysicalCpus, Node(d) = Node(c)
      PROVE  d \in S /\ Offset(d) = Cardinality(Below(Less(S), S, d))
  <2>1. d \in S
    BY <1>4 DEF OnNode
  <2>2. {e \in PhysicalCpus : Node(e) = Node(d) /\ e < d} = Below(Less(S), S, d)
    BY <1>4, <2>1 DEF Below, Less, OnNode
  <2>3. QED
    BY <2>1, <2>2 DEF Offset
<1>5. c \in S /\ Offset(c) = Cardinality(Below(Less(S), S, c))
  BY <1>4
<1>6. Offset(c) \in Nat
  <2>1. {d \in PhysicalCpus : Node(d) = Node(c) /\ d < c} \in SUBSET PhysicalCpus
    OBVIOUS
  <2>2. QED
    BY <1>1, <2>1, FS_Subset, FS_CardinalityType DEF Offset
<1>7. ASSUME NEW d \in PhysicalCpus, Node(c) = Node(d), c < d PROVE Offset(c) < Offset(d)
  <2>1. d \in S /\ Offset(d) = Cardinality(Below(Less(S), S, d))
    BY <1>4, <1>7
  <2>2. <<c, d>> \in Less(S)
    BY <1>5, <1>7, <2>1 DEF Less
  <2> HIDE DEF S
  <2>3. QED
    BY <1>2, <1>3, <1>5, <2>1, <2>2, BelowGrows
<1>8. QED
  BY <1>6, <1>7

LEMMA BalancedLists ==
  ASSUME HostIsReal
  PROVE  Lists(Balanced, PhysicalCpus, RoundRobin)
<1> DEFINE S == PhysicalCpus
<1>1. IsFiniteSet(S) /\ \A c \in S : c \in Nat \ {0} /\ Node(c) \in Nat /\ Offset(c) \in Nat
  BY CoresDiffer, OffsetsGrow
<1>2. \A c \in S : \A d \in S : <<c, d>> \in RoundRobin <=>
        Offset(c) < Offset(d) \/ (Offset(c) = Offset(d) /\ Node(c) < Node(d))
  BY DEF RoundRobin
<1>3. \A c \in S : \A d \in S : c # d /\ Node(c) = Node(d) => Offset(c) # Offset(d)
  <2> SUFFICES ASSUME NEW c \in S, NEW d \in S, c # d, Node(c) = Node(d)
               PROVE  Offset(c) # Offset(d)
    OBVIOUS
  <2>1. c < d \/ d < c
    BY <1>1
  <2>2. Offset(c) < Offset(d) \/ Offset(d) < Offset(c)
    BY <2>1, OffsetsGrow
  <2>3. QED
    BY <1>1, <2>2
<1>4. StrictOrder(RoundRobin, S)
  <2>1. \A c \in S : <<c, c>> \notin RoundRobin
    BY <1>1, <1>2
  <2>2. ASSUME NEW c \in S, NEW d \in S, c # d
        PROVE  <<c, d>> \in RoundRobin \/ <<d, c>> \in RoundRobin
    BY <1>1, <1>2, <1>3, <2>2
  <2>3. ASSUME NEW a \in S, NEW b \in S, NEW c \in S, <<a, b>> \in RoundRobin, <<b, c>> \in RoundRobin
        PROVE  <<a, c>> \in RoundRobin
    BY <1>1, <1>2, <2>3
  <2>4. QED
    BY <2>1, <2>2, <2>3 DEF StrictOrder
<1>5. Balanced = [i \in 1..Cardinality(S) |->
                    CHOOSE x \in S : Cardinality(Below(RoundRobin, S, x)) = i - 1]
  <2> DEFINE o == [c \in PhysicalCpus |->
                     Cardinality({d \in PhysicalCpus : Node(d) = Node(c) /\ d < c})]
             Before(x) == {y \in PhysicalCpus :
                             o[y] < o[x] \/ (o[y] = o[x] /\ Node(y) < Node(x))}
  <2>1. Balanced = [i \in 1..Cardinality(PhysicalCpus) |->
                      CHOOSE x \in PhysicalCpus : Cardinality(Before(x)) = i - 1]
    BY DEF Balanced, InOrder
  <2>2. \A c \in S : o[c] = Offset(c)
    BY DEF Offset
  <2> HIDE DEF o
  <2>3. \A x \in S : Before(x) = Below(RoundRobin, S, x)
    BY <1>2, <2>2 DEF Below
  <2> HIDE DEF Before
  <2>4. QED
    BY <2>1, <2>3
<1>6. QED
  BY <1>1, <1>4, <1>5, InOrderLists

(* Workers on different cores. *)
IsTeam(cpus) ==
  /\ Len(cpus) \in Nat \ {0} /\ cpus \in [1..Len(cpus) -> PhysicalCpus]
  /\ \A v \in 1..Len(cpus) : \A w \in 1..Len(cpus) : cpus[v] = cpus[w] => v = w

LEMMA PrefixIsTeam ==
  ASSUME NEW S, S \subseteq PhysicalCpus, NEW B, NEW s, Lists(s, S, B),
         NEW w \in Int, w <= Len(s), SubSeq(s, 1, w) # <<>>
  PROVE  IsTeam(SubSeq(s, 1, w))
<1>1. s \in Seq(S) /\ Len(s) \in Nat /\ DOMAIN s = 1..Len(s)
  BY ListLength
<1>2. w \in 1..Len(s) /\ Len(SubSeq(s, 1, w)) = w /\ SubSeq(s, 1, w) = [i \in 1..w |-> s[i]]
  BY <1>1, FirstPart
<1>3. \A i \in DOMAIN s : \A j \in DOMAIN s : s[i] = s[j] => i = j
  BY DEF Lists
<1>4. \A i \in 1..w : i \in DOMAIN s /\ s[i] \in PhysicalCpus
  BY <1>1, <1>2
<1> DEFINE t == SubSeq(s, 1, w)
<1>5. t = [i \in 1..w |-> s[i]] /\ Len(t) = w /\ w \in Nat \ {0}
  BY <1>1, <1>2
<1> HIDE DEF t
<1>6. t \in [1..w -> PhysicalCpus] /\ \A i \in 1..w : t[i] = s[i]
  BY <1>4, <1>5
<1>7. \A i \in 1..w : \A j \in 1..w : t[i] = t[j] => i = j
  BY <1>3, <1>4, <1>6
<1>8. IsTeam(t)
  BY <1>5, <1>6, <1>7 DEF IsTeam
<1>9. QED
  BY <1>8 DEF t

LEMMA CeilingType ==
  ASSUME NEW a \in Nat \ {0}, NEW b \in Nat \ {0}
  PROVE  Ceiling(a, b) \in Nat /\ Ceiling(a, b) >= 1
<1>1. a + b - 1 \in Nat /\ b * 1 <= a + b - 1
  OBVIOUS
<1>2. (a + b - 1) \div b \in Nat /\ 1 <= (a + b - 1) \div b
  BY <1>1, DivideLeaves, DivideAbove
<1>3. QED
  BY <1>2 DEF Ceiling

LEMMA ParallelismType ==
  ASSUME LegalCall(call), NEW k, LegalCode(k), k.kind = call.kind
  PROVE  MaximumParallelism(k) \in Int
<1>1. call.heads \in Nat \ {0} /\ call.dv \in Nat \ {0} /\ k.tileDV \in Nat \ {0}
      /\ k.tileQ \in Nat \ {0} /\ k.tileK \in Nat \ {0}
  BY DEF LegalCall, LegalCode
<1>2. CASE k.kind = "parallel"
  <2>1. /\ k.lowering \in {"parallel_blocked"} \cup Split /\ call.queries \in Nat \ {0}
    BY <1>2 DEF LegalCall, LegalCode
  <2>2. Ceiling(call.queries, k.tileQ) \in Nat
    BY <1>1, <2>1, CeilingType
  <2>3. RowBlocks(k) \in Int
    BY <1>1, <2>2 DEF RowBlocks
  <2>4. Tiles(k) \in Int
    <3>1. Ceiling(PlannedSkv, k.tileK) \in Nat
      BY <1>1, PlannedLength, CeilingType
    <3>2. Tiles(k) = Ceiling(PlannedSkv, k.tileK)
      BY DEF Tiles, KeyTiles, Ceiling
    <3>3. QED
      BY <3>1, <3>2
  <2>5. RowBlocks(k) * Tiles(k) \in Int
    BY <2>3, <2>4
  <2>6. QED
    BY <2>1, <2>3, <2>4, <2>5 DEF MaximumParallelism, Split
<1>3. CASE k.kind = "linear"
  <2>1. k.lowering \in {"linear_scan", "linear_2d"} \cup Blocks
    BY <1>3 DEF LegalCode
  <2>2. DvBlocks(k) \in Nat
    BY <1>1, CeilingType DEF DvBlocks
  <2>3. call.heads * DvBlocks(k) \in Int
    BY <1>1, <2>2
  <2>4. QED
    BY <1>1, <2>1, <2>3 DEF MaximumParallelism, Blocks
<1>4. QED
  BY <1>2, <1>3 DEF LegalCode

LEMMA SizesType ==
  ASSUME HostIsReal, NEW limit \in Int, NEW w \in Sizes(limit)
  PROVE  w \in Int /\ (w # 1 => w <= limit)
<1>1. CASE w \in {1, limit}
  BY <1>1
<1>2. CASE w \in {2^e : e \in {f \in 1..limit : 2^f <= limit}}
  <2>1. PICK e \in 1..limit : 2^e <= limit /\ w = 2^e
    BY <1>2
  <2>2. 2^e \in Int
    BY <2>1, PowerOfTwo
  <2>3. QED
    BY <2>1, <2>2
<1>3. CASE w \in {Smaller(limit, Len(NodeCpus(n))) : n \in Nodes}
  <2>1. PICK n \in Nodes : w = Smaller(limit, Len(NodeCpus(n)))
    BY <1>3
  <2>2. Len(NodeCpus(n)) \in Nat
    BY NodeLists, ListLength
  <2>3. QED
    BY <2>1, <2>2 DEF Smaller
<1>4. QED
  BY <1>1, <1>2, <1>3 DEF Sizes

LEMMA CandidatesAreTeams ==
  ASSUME HostIsReal, LegalCall(call), NEW k, LegalCode(k), k.kind = call.kind,
         NEW cpus \in CandidateCpus(k), cpus # <<>>
  PROVE  IsTeam(cpus)
<1> DEFINE limit == Smaller(MaximumParallelism(k), Cardinality(PhysicalCpus))
<1>1. limit \in Int /\ limit <= Cardinality(PhysicalCpus) /\ Cardinality(PhysicalCpus) \in Nat
  BY ParallelismType, CoresDiffer DEF Smaller
<1>2. \/ \E n \in Nodes : \E w \in Sizes(limit) \cap 1..Len(NodeCpus(n)) :
           cpus = SubSeq(NodeCpus(n), 1, w)
      \/ \E w \in Sizes(limit) \ {1} : cpus = SubSeq(Balanced, 1, w)
  BY DEF CandidateCpus
<1> HIDE DEF limit
<1>3. ASSUME NEW n \in Nodes, NEW w \in Sizes(limit) \cap 1..Len(NodeCpus(n)),
             cpus = SubSeq(NodeCpus(n), 1, w)
      PROVE  IsTeam(cpus)
  <2>1. Lists(NodeCpus(n), OnNode(n), Less(OnNode(n))) /\ OnNode(n) \subseteq PhysicalCpus
    BY NodeLists DEF OnNode
  <2>2. Len(NodeCpus(n)) \in Nat
    BY <2>1, ListLength
  <2>3. w \in Int /\ w <= Len(NodeCpus(n))
    BY <2>2
  <2>4. QED
    BY <1>3, <2>1, <2>3, PrefixIsTeam
<1>4. ASSUME NEW w \in Sizes(limit) \ {1}, cpus = SubSeq(Balanced, 1, w) PROVE IsTeam(cpus)
  <2>1. w \in Int /\ w <= limit
    BY <1>1, SizesType
  <2>2. Lists(Balanced, PhysicalCpus, RoundRobin)
    BY BalancedLists
  <2>3. w <= Len(Balanced)
    BY <1>1, <2>1, <2>2, ListLength
  <2>4. QED
    BY <1>4, <2>1, <2>2, <2>3, PrefixIsTeam
<1>5. QED
  BY <1>2, <1>3, <1>4

(* A launch of a team whose groups share its CPUs out, one for each node. *)
SharesOut(l) ==
  /\ IsTeam(l.cpus)
  /\ Len(l.groups) \in Nat \ {0} /\ DOMAIN l.groups = 1..Len(l.groups)
  /\ \A g \in DOMAIN l.groups :
       /\ l.groups[g].node \in Nat /\ l.groups[g].cpus # <<>> /\ IsInjective(l.groups[g].cpus)
       /\ \A i \in DOMAIN l.groups[g].cpus :
            /\ \E w \in DOMAIN l.cpus : l.cpus[w] = l.groups[g].cpus[i]
            /\ Node(l.groups[g].cpus[i]) = l.groups[g].node
  /\ \A g \in DOMAIN l.groups : \A h \in DOMAIN l.groups :
       l.groups[g].node = l.groups[h].node => g = h
  /\ \A w \in DOMAIN l.cpus : \E g \in DOMAIN l.groups :
       \E i \in DOMAIN l.groups[g].cpus : l.groups[g].cpus[i] = l.cpus[w]

(* The workers on the node n. *)
WorkersOn(cpus, n) == {w \in DOMAIN cpus : Node(cpus[w]) = n}

LEMMA WorkersInOrder ==
  ASSUME NEW cpus, IsTeam(cpus), NEW n
  PROVE  Lists(InOrder(WorkersOn(cpus, n), <), WorkersOn(cpus, n), Less(WorkersOn(cpus, n)))
<1>1. DOMAIN cpus = 1..Len(cpus) /\ Len(cpus) \in Nat
  BY DEF IsTeam
<1>2. IsFiniteSet(1..Len(cpus)) /\ WorkersOn(cpus, n) \in SUBSET (1..Len(cpus))
  BY <1>1, FS_Interval DEF WorkersOn
<1>3. IsFiniteSet(WorkersOn(cpus, n)) /\ WorkersOn(cpus, n) \subseteq Int
  BY <1>1, <1>2, FS_Subset
<1>4. QED
  BY <1>3, NumbersInOrder

LEMMA NodesInOrder ==
  ASSUME HostIsReal, NEW cpus, IsTeam(cpus)
  PROVE  /\ Lists(InOrder(NodesOf(cpus), <), NodesOf(cpus), Less(NodesOf(cpus)))
         /\ NodesOf(cpus) # {} /\ NodesOf(cpus) \subseteq Nat
<1> DEFINE n == Len(cpus)
           N == NodesOf(cpus)
           f == [w \in 1..n |-> Node(cpus[w])]
<1>1. DOMAIN cpus = 1..n /\ n \in Nat \ {0} /\ \A w \in 1..n : cpus[w] \in PhysicalCpus
  BY DEF IsTeam
<1>2. \A w \in 1..n : Node(cpus[w]) \in Nat
  BY <1>1, CoresDiffer
<1>3. N = {Node(cpus[w]) : w \in 1..n}
  BY <1>1 DEF NodesOf
<1>4. f \in Surjection(1..n, N)
  <2>1. \A w \in 1..n : f[w] \in N
    BY <1>3
  <2>2. f \in [1..n -> N]
    BY <2>1
  <2>3. \A x \in N : \E w \in 1..n : f[w] = x
    BY <1>3
  <2> HIDE DEF f, N, n
  <2>4. QED
    BY <2>2, <2>3 DEF Surjection
<1>5. IsFiniteSet(N)
  <2>1. IsFiniteSet(1..n)
    BY <1>1, FS_Interval
  <2> HIDE DEF f, N, n
  <2>2. QED
    BY <1>4, <2>1, FS_Surjection
<1>6. N # {} /\ N \subseteq Nat
  <2>1. 1 \in 1..n
    BY <1>1
  <2>2. QED
    BY <1>2, <1>3, <2>1
<1>7. N \subseteq Int
  BY <1>6
<1>8. Lists(InOrder(N, <), N, Less(N))
  BY <1>5, <1>7, NumbersInOrder
<1>9. QED
  BY <1>6, <1>8

LEMMA GroupsShareOut ==
  ASSUME HostIsReal, NEW cpus, IsTeam(cpus), NEW l, l = [cpus |-> cpus, groups |-> Groups(cpus)]
  PROVE  SharesOut(l)
<1> DEFINE N == NodesOf(cpus)
           nodes == InOrder(N, <)
           of(g) == InOrder(WorkersOn(cpus, nodes[g]), <)
           m == Len(nodes)
<1>1. Lists(nodes, N, Less(N)) /\ N # {} /\ N \subseteq Nat
  BY NodesInOrder
<1>2. m \in Nat \ {0} /\ DOMAIN nodes = 1..m
  <2>1. m \in Nat /\ DOMAIN nodes = 1..m
    BY <1>1, ListLength
  <2>2. \A x \in N : \E i \in DOMAIN nodes : nodes[i] = x
    BY <1>1 DEF Lists
  <2>3. 1..m # {}
    BY <1>1, <2>1, <2>2
  <2> HIDE DEF m, nodes, of
  <2>4. m # 0
    BY <2>3
  <2>5. QED
    BY <2>1, <2>4
<1>3. /\ l.cpus = cpus
      /\ l.groups = [g \in DOMAIN nodes |->
                       [node |-> nodes[g], cpus |-> [i \in DOMAIN of(g) |-> cpus[of(g)[i]]]]]
  <2> DEFINE F == [g \in DOMAIN nodes |-> of(g)]
  <2>1. Groups(cpus) = [g \in DOMAIN nodes |->
                          [node |-> nodes[g], cpus |-> [i \in DOMAIN F[g] |-> cpus[F[g][i]]]]]
    BY DEF Groups, WorkersOn
  <2>2. \A g \in DOMAIN nodes : F[g] = of(g)
    OBVIOUS
  <2> HIDE DEF F, of
  <2>3. QED
    BY <2>1, <2>2
<1>4. ASSUME NEW g \in 1..m
      PROVE  /\ nodes[g] \in N /\ nodes[g] \in Nat
             /\ Lists(of(g), WorkersOn(cpus, nodes[g]), Less(WorkersOn(cpus, nodes[g])))
             /\ l.groups[g].node = nodes[g]
             /\ DOMAIN l.groups[g].cpus = DOMAIN of(g)
             /\ \A i \in DOMAIN of(g) : l.groups[g].cpus[i] = cpus[of(g)[i]]
  <2>1. nodes[g] \in N
    BY <1>1, <1>2 DEF Lists
  <2>2. Lists(of(g), WorkersOn(cpus, nodes[g]), Less(WorkersOn(cpus, nodes[g])))
    BY WorkersInOrder
  <2> HIDE DEF of, nodes, N
  <2>3. l.groups[g] = [node |-> nodes[g], cpus |-> [i \in DOMAIN of(g) |-> cpus[of(g)[i]]]]
    BY <1>2, <1>3
  <2> DEFINE c == l.groups[g].cpus
  <2>4. l.groups[g].node = nodes[g] /\ c = [i \in DOMAIN of(g) |-> cpus[of(g)[i]]]
    BY <2>3
  <2> HIDE DEF c
  <2>5. DOMAIN c = DOMAIN of(g) /\ \A i \in DOMAIN of(g) : c[i] = cpus[of(g)[i]]
    BY <2>4
  <2>6. nodes[g] \in Nat
    BY <1>1, <2>1
  <2>7. QED
    BY <2>1, <2>2, <2>4, <2>5, <2>6 DEF c
<1>5. \A g \in 1..m : \A h \in 1..m : nodes[g] = nodes[h] => g = h
  BY <1>1, <1>2 DEF Lists
<1>6. \A x \in N : \E g \in 1..m : nodes[g] = x
  BY <1>1, <1>2 DEF Lists
<1> HIDE DEF nodes, of, m
<1>7. Len(l.groups) = m /\ DOMAIN l.groups = 1..m
  <2>1. DOMAIN l.groups = 1..m
    BY <1>2, <1>3
  <2>2. l.groups = [g \in 1..m |-> l.groups[g]]
    BY <1>2, <1>3
  <2> DEFINE e == l.groups
  <2>3. e = [g \in 1..m |-> e[g]]
    BY <2>2
  <2> HIDE DEF e
  <2>4. Len(e) = m
    BY <1>2, <2>3
  <2>5. QED
    BY <2>1, <2>4 DEF e
<1>8. ASSUME NEW g \in 1..m
      PROVE  /\ DOMAIN of(g) # {}
             /\ \A i \in DOMAIN of(g) : of(g)[i] \in WorkersOn(cpus, nodes[g])
             /\ \A i \in DOMAIN of(g) : \A j \in DOMAIN of(g) : of(g)[i] = of(g)[j] => i = j
             /\ \A w \in WorkersOn(cpus, nodes[g]) : \E i \in DOMAIN of(g) : of(g)[i] = w
  <2> DEFINE W == WorkersOn(cpus, nodes[g])
  <2>1. Lists(of(g), W, Less(W)) /\ nodes[g] \in N
    BY <1>4
  <2>2. PICK w \in DOMAIN cpus : Node(cpus[w]) = nodes[g]
    BY <2>1 DEF NodesOf
  <2>3. w \in W
    BY <2>2 DEF WorkersOn
  <2> HIDE DEF W
  <2>4. /\ \A i \in DOMAIN of(g) : of(g)[i] \in W
        /\ \A i \in DOMAIN of(g) : \A j \in DOMAIN of(g) : of(g)[i] = of(g)[j] => i = j
        /\ \A v \in W : \E i \in DOMAIN of(g) : of(g)[i] = v
    BY <2>1 DEF Lists
  <2>5. QED
    BY <2>3, <2>4 DEF W
<1>9. ASSUME NEW g \in 1..m
      PROVE  /\ l.groups[g].node \in Nat /\ l.groups[g].cpus # <<>> /\ IsInjective(l.groups[g].cpus)
             /\ \A i \in DOMAIN l.groups[g].cpus :
                  /\ \E w \in DOMAIN l.cpus : l.cpus[w] = l.groups[g].cpus[i]
                  /\ Node(l.groups[g].cpus[i]) = l.groups[g].node
  <2> DEFINE c == l.groups[g].cpus
  <2>1. /\ l.groups[g].node = nodes[g] /\ nodes[g] \in Nat /\ DOMAIN c = DOMAIN of(g)
        /\ \A i \in DOMAIN of(g) : c[i] = cpus[of(g)[i]]
    BY <1>4
  <2> HIDE DEF c
  <2>2. c # <<>>
    BY <1>8, <2>1
  <2>3. \A i \in DOMAIN c : of(g)[i] \in DOMAIN cpus /\ Node(c[i]) = nodes[g]
    BY <1>8, <2>1 DEF WorkersOn
  <2>4. \A v \in DOMAIN cpus : \A w \in DOMAIN cpus : cpus[v] = cpus[w] => v = w
    BY DEF IsTeam
  <2>5. \A i \in DOMAIN c : \A j \in DOMAIN c : c[i] = c[j] => i = j
    BY <1>8, <2>1, <2>3, <2>4
  <2>6. IsInjective(c)
    BY <2>5 DEF IsInjective
  <2>7. \A i \in DOMAIN c : \E w \in DOMAIN cpus : cpus[w] = c[i]
    BY <2>1, <2>3
  <2>8. QED
    BY <1>3, <2>1, <2>2, <2>3, <2>6, <2>7 DEF c
<1>10. ASSUME NEW w \in DOMAIN cpus
       PROVE  \E g \in 1..m : \E i \in DOMAIN l.groups[g].cpus : l.groups[g].cpus[i] = cpus[w]
  <2>1. Node(cpus[w]) \in N
    BY DEF NodesOf
  <2>2. PICK g \in 1..m : nodes[g] = Node(cpus[w])
    BY <1>6, <2>1
  <2>3. w \in WorkersOn(cpus, nodes[g])
    BY <2>2 DEF WorkersOn
  <2>4. PICK i \in DOMAIN of(g) : of(g)[i] = w
    BY <1>8, <2>3
  <2>5. i \in DOMAIN l.groups[g].cpus /\ l.groups[g].cpus[i] = cpus[w]
    BY <1>4, <2>4
  <2>6. QED
    BY <2>5
<1>11. \A g \in 1..m : \A h \in 1..m : l.groups[g].node = l.groups[h].node => g = h
  BY <1>4, <1>5
<1>12. IsTeam(l.cpus) /\ Len(l.groups) \in Nat \ {0} /\ DOMAIN l.groups = 1..Len(l.groups)
  BY <1>2, <1>3, <1>7
<1>13. \A w \in DOMAIN l.cpus : \E g \in DOMAIN l.groups :
         \E i \in DOMAIN l.groups[g].cpus : l.groups[g].cpus[i] = l.cpus[w]
  BY <1>3, <1>7, <1>10
<1>14. \A g \in DOMAIN l.groups :
         /\ l.groups[g].node \in Nat /\ l.groups[g].cpus # <<>> /\ IsInjective(l.groups[g].cpus)
         /\ \A i \in DOMAIN l.groups[g].cpus :
              /\ \E w \in DOMAIN l.cpus : l.cpus[w] = l.groups[g].cpus[i]
              /\ Node(l.groups[g].cpus[i]) = l.groups[g].node
  BY <1>7, <1>9
<1>15. \A g \in DOMAIN l.groups : \A h \in DOMAIN l.groups :
         l.groups[g].node = l.groups[h].node => g = h
  BY <1>7, <1>11
<1>16. QED
  BY <1>12, <1>13, <1>14, <1>15, Zenon DEF SharesOut

-----------------------------------------------------------------------------
(* The plans of the plan space. *)
OwnersAre(k, l, owners) ==
  IF k.packs
  THEN /\ Len(owners) \in Nat \ {0} /\ DOMAIN owners = 1..Len(owners)
       /\ IsInjective(owners) /\ \A i \in DOMAIN owners : owners[i] \in DOMAIN l.groups
  ELSE owners = <<>>

IsPlan(k, l, m) ==
  /\ LegalCode(k) /\ k.kind = call.kind /\ SharesOut(l) /\ Admits(k, Len(l.cpus))
  /\ OwnersAre(k, l, m.owners) /\ m.regions = Regions(k, l, m.owners)
  /\ m.total = PrivateOffset(k, l, m.owners) + Len(l.cpus) * WorkerStride(k, call)

LEMMA PackedOwnersAre ==
  ASSUME NEW l, SharesOut(l), NEW owners \in PackedOwners(l.groups)
  PROVE  /\ Len(owners) \in Nat \ {0} /\ DOMAIN owners = 1..Len(owners)
         /\ IsInjective(owners) /\ \A i \in DOMAIN owners : owners[i] \in DOMAIN l.groups
<1> DEFINE n == Len(l.groups)
<1>1. n \in Nat \ {0} /\ DOMAIN l.groups = 1..n
  BY DEF SharesOut
<1>2. (\E g \in 1..n : owners = <<g>>) \/ owners = [g \in 1..n |-> g]
  BY <1>1 DEF PackedOwners
<1>3. ASSUME NEW g \in 1..n, owners = <<g>>
      PROVE  /\ Len(owners) = 1 /\ DOMAIN owners = 1..1
             /\ \A i \in 1..1 : owners[i] = g
  BY <1>3
<1>4. ASSUME owners = [g \in 1..n |-> g]
      PROVE  Len(owners) = n /\ DOMAIN owners = 1..n /\ \A i \in 1..n : owners[i] = i
  <2> HIDE DEF n
  <2>1. QED
    BY <1>1, <1>4
<1> HIDE DEF n
<1>5. ASSUME NEW g \in 1..n, owners = <<g>>
      PROVE  /\ Len(owners) \in Nat \ {0} /\ DOMAIN owners = 1..Len(owners)
             /\ IsInjective(owners) /\ \A i \in DOMAIN owners : owners[i] \in 1..n
  BY <1>3, <1>5 DEF IsInjective
<1>6. ASSUME owners = [g \in 1..n |-> g]
      PROVE  /\ Len(owners) \in Nat \ {0} /\ DOMAIN owners = 1..Len(owners)
             /\ IsInjective(owners) /\ \A i \in DOMAIN owners : owners[i] \in 1..n
  BY <1>1, <1>4, <1>6 DEF IsInjective
<1>7. QED
  BY <1>1, <1>2, <1>5, <1>6

LEMMA PlansAreLegal ==
  ASSUME HostIsReal, LegalCall(call), NEW k, LegalCode(k), k.kind = call.kind,
         NEW l \in LaunchPlans(k), NEW m \in MemoryPlans(k, l)
  PROVE  IsPlan(k, l, m)
<1>1. PICK cpus \in CandidateCpus(k) :
        cpus # <<>> /\ Admits(k, Len(cpus)) /\ l = [cpus |-> cpus, groups |-> Groups(cpus)]
  BY DEF LaunchPlans
<1>2. SharesOut(l) /\ Admits(k, Len(l.cpus))
  <2>1. IsTeam(cpus)
    BY <1>1, CandidatesAreTeams
  <2>2. SharesOut(l)
    BY <1>1, <2>1, GroupsShareOut
  <2>3. QED
    BY <1>1, <2>2
<1>3. PICK owners \in IF k.packs THEN PackedOwners(l.groups) ELSE {<<>>} :
        m = [owners |-> owners, regions |-> Regions(k, l, owners),
             total |-> PrivateOffset(k, l, owners) + Len(l.cpus) * WorkerStride(k, call)]
  BY DEF MemoryPlans
<1>4. OwnersAre(k, l, owners)
  <2>1. CASE k.packs
    <3>1. owners \in PackedOwners(l.groups)
      BY <1>3, <2>1
    <3>2. QED
      BY <1>2, <2>1, <3>1, PackedOwnersAre DEF OwnersAre
  <2>2. CASE ~k.packs
    BY <1>3, <2>2 DEF OwnersAre
  <2>3. QED
    BY <2>1, <2>2
<1>5. /\ m.owners = owners /\ m.regions = Regions(k, l, owners)
      /\ m.total = PrivateOffset(k, l, owners) + Len(l.cpus) * WorkerStride(k, call)
  BY <1>3
<1>6. QED
  BY <1>2, <1>4, <1>5 DEF IsPlan

(* What is a plan stays one. *)
LEMMA PlansStay ==
  ASSUME UNCHANGED problem
  PROVE  /\ \A k, l, m : IsPlan(k, l, m) => IsPlan(k, l, m)'
         /\ HostIsReal => HostIsReal'
         /\ LegalCall(call) => LegalCall(call)'
         /\ \A c : NoLarger(c)' <=> NoLarger(c)
<1>1. call' = call /\ host' = host /\ machine' = machine
  BY DEF problem
<1>2. PhysicalCpus' = PhysicalCpus
  BY <1>1 DEF PhysicalCpus, Cpus
<1>3. \A l : SharesOut(l)' = SharesOut(l)
  BY <1>1, <1>2 DEF SharesOut, IsTeam, Node
<1>4. PlannedSkv' = PlannedSkv
  BY <1>1 DEF PlannedSkv
<1>5. \A k : /\ RowBlocks(k)' = RowBlocks(k) /\ Tiles(k)' = Tiles(k) /\ DvBlocks(k)' = DvBlocks(k)
  BY <1>1, <1>4 DEF RowBlocks, Tiles, DvBlocks
<1>6. \A k, w : Admits(k, w)' = Admits(k, w)
  BY <1>1, <1>5 DEF Admits, MaximumParallelism
<1>7. \A k : WorkerStride(k, call)' = WorkerStride(k, call)
  BY <1>1 DEF WorkerStride, WorkerFloats, LinearScratch
<1>8. \A k, n : PackedCopy(k, call, n)' = PackedCopy(k, call, n)
  BY <1>1 DEF PackedCopy
<1>9. \A k, l, owners : PrivateOffset(k, l, owners)' = PrivateOffset(k, l, owners)
  BY <1>4, <1>8 DEF PrivateOffset
<1>10. \A k, l, owners : Regions(k, l, owners)' = Regions(k, l, owners)
  BY <1>4, <1>7, <1>8, <1>9 DEF Regions
<1>11. \A k, l, m : IsPlan(k, l, m)' = IsPlan(k, l, m)
  BY <1>1, <1>3, <1>6, <1>7, <1>9, <1>10 DEF IsPlan
<1>12. \A c : NoLarger(c)' <=> NoLarger(c)
  BY <1>1 DEF NoLarger
<1>13. QED
  BY <1>1, <1>11, <1>12 DEF HostIsReal

-----------------------------------------------------------------------------
(* The sizes of the workspace. *)

(* Calls of one operator that are planned by their bucket. *)
Alike(c) == Bucketed(c) /\ Bucketed(call) /\ c.states = call.states

LEMMA CopyLaws ==
  ASSUME LegalCall(call), NEW k, LegalCode(k), k.kind = call.kind, NEW n \in Nat \ {0}
  PROVE  /\ PackedCopy(k, call, n) \in Nat /\ \E q \in Nat : PackedCopy(k, call, n) = Page * q
         /\ k.packs => PackedCopy(k, call, n) # 0
         /\ \A m \in Nat \ {0} : m <= n => /\ PackedCopy(k, call, m) \in Nat
                                           /\ PackedCopy(k, call, m) <= PackedCopy(k, call, n)
<1>1. CASE ~k.packs
  <2>1. \A m \in Nat : PackedCopy(k, call, m) = 0
    BY <1>1 DEF PackedCopy
  <2>2. 0 = Page * 0
    BY SizesAssumption
  <2>3. QED
    BY <1>1, <2>1, <2>2
<1>2. CASE k.packs
  <2> DEFINE b == call.kvHeads * call.d
             p(m) == b * Align(m, k.tileK)
  <2>1. k.tileK \in Nat \ {0} /\ call.d \in Nat \ {0} /\ call.kvHeads \in Nat \ {0}
    BY <1>2 DEF LegalCode, LegalCall
  <2>2. b \in Nat \ {0}
    BY <2>1, ProductIsPositive
  <2>3. \A m \in Nat : PackedCopy(k, call, m) = Align(p(m), Page)
    BY <1>2 DEF PackedCopy, PackedSkv, Align
  <2>4. Page \in Nat \ {0}
    BY SizesAssumption
  <2> HIDE DEF b
  <2>5. \A m \in Nat \ {0} : Align(m, k.tileK) \in Nat \ {0}
    <3> SUFFICES ASSUME NEW m \in Nat \ {0} PROVE Align(m, k.tileK) \in Nat \ {0}
      OBVIOUS
    <3>1. Align(m, k.tileK) \in Nat /\ m <= Align(m, k.tileK)
      BY <2>1, AlignLaws
    <3>2. QED
      BY <3>1
  <2>6. \A m \in Nat \ {0} : p(m) \in Nat \ {0}
    BY <2>2, <2>5, ProductIsPositive
  <2>7. \A m \in Nat \ {0} : m <= n => p(m) <= p(n)
    <3> SUFFICES ASSUME NEW m \in Nat \ {0}, m <= n PROVE p(m) <= p(n)
      OBVIOUS
    <3>1. Align(m, k.tileK) <= Align(n, k.tileK)
      BY <2>1, AlignGrows
    <3>2. QED
      BY <2>2, <2>5, <3>1, TimesGrows
  <2> HIDE DEF p
  <2>8. /\ Align(p(n), Page) \in Nat /\ p(n) <= Align(p(n), Page)
        /\ \E q \in Nat : Align(p(n), Page) = Page * q
    BY <2>4, <2>6, AlignLaws
  <2>9. ASSUME NEW m \in Nat \ {0}, m <= n
        PROVE  Align(p(m), Page) \in Nat /\ Align(p(m), Page) <= Align(p(n), Page)
    BY <2>4, <2>6, <2>7, <2>9, AlignLaws, AlignGrows
  <2>10. Align(p(n), Page) # 0
    BY <2>6, <2>8
  <2>11. QED
    BY <2>3, <2>8, <2>9, <2>10
<1>3. QED
  BY <1>1, <1>2

LEMMA ScratchType ==
  ASSUME LegalCall(call), NEW k, LegalCode(k), k.kind = "linear"
  PROVE  LinearScratch(k, call) \in Nat \ {0}
<1> DEFINE b == k.tileQ
           d == call.d
           v == call.dv
<1>1. b \in Nat \ {0} /\ d \in Nat \ {0} /\ v \in Nat \ {0}
  BY DEF LegalCode, LegalCall
<1>2. \/ LinearScratch(k, call) = 5 * d + 2 * v
      \/ LinearScratch(k, call) = 2 * b * d + 2 * b * v + b * b + 3 * b
      \/ LinearScratch(k, call) = 2 * b * d + 3 * b * v + b * b + 5 * b
      \/ LinearScratch(k, call) = 2 * d + 2 * v
  BY DEF LinearScratch
<1> HIDE DEF b, d, v
<1>3. b * d \in Nat /\ b * v \in Nat /\ b * b \in Nat
  BY <1>1, TimesGrows
<1>4. 2 * b * d = 2 * (b * d) /\ 2 * b * v = 2 * (b * v) /\ 3 * b * v = 3 * (b * v)
  BY <1>1
<1> DEFINE bd == b * d
           bv == b * v
           bb == b * b
<1>5. bd \in Nat /\ bv \in Nat /\ bb \in Nat
  BY <1>3
<1>6. \/ LinearScratch(k, call) = 5 * d + 2 * v
      \/ LinearScratch(k, call) = 2 * bd + 2 * bv + bb + 3 * b
      \/ LinearScratch(k, call) = 2 * bd + 3 * bv + bb + 5 * b
      \/ LinearScratch(k, call) = 2 * d + 2 * v
  BY <1>2, <1>4
<1> HIDE DEF bd, bv, bb
<1>7. QED
  BY <1>1, <1>5, <1>6

LEMMA StrideLaws ==
  ASSUME LegalCall(call), NEW k, LegalCode(k), k.kind = call.kind
  PROVE  WorkerStride(k, call) \in Nat \ {0} /\ WorkerFloats(k, call) <= WorkerStride(k, call)
         /\ WorkerFloats(k, call) \in Nat
<1>1. WorkerFloats(k, call) \in Nat \ {0}
  <2>1. CASE k.kind = "linear"
    <3>1. WorkerFloats(k, call) = LinearScratch(k, call)
      BY <2>1 DEF WorkerFloats, LegalCode, Blocks, Split
    <3>2. QED
      BY <2>1, <3>1, ScratchType
  <2>2. CASE k.kind = "parallel"
    <3>1. /\ k.tileQ \in Nat \ {0} /\ k.tileK \in Nat \ {0} /\ call.dv \in Nat \ {0}
          /\ call.heads \in Nat \ {0} /\ call.queries \in Nat \ {0} /\ call.states \in Nat
          /\ k.lowering \in {"parallel_blocked"} \cup Split
      BY <2>2 DEF LegalCode, LegalCall
    <3>2. CASE k.lowering = "parallel_blocked"
      <4>1. 2 * k.tileQ \in Nat \ {0}
        BY <3>1
      <4>2. 2 * k.tileQ * k.tileK \in Nat \ {0} /\ k.tileQ * call.dv \in Nat \ {0}
        BY <3>1, <4>1, ProductIsPositive
      <4>3. WorkerFloats(k, call) = 2 * k.tileQ * k.tileK + k.tileQ * call.dv
        BY <3>2 DEF WorkerFloats, Split
      <4>4. QED
        BY <4>2, <4>3
    <3>3. CASE k.lowering \in Split
      <4>1. call.dv + call.states \in Nat \ {0} /\ call.heads * call.queries \in Nat \ {0}
        BY <3>1, ProductIsPositive
      <4>2. call.heads * call.queries * (call.dv + call.states) \in Nat \ {0}
        BY <4>1, ProductIsPositive
      <4>3. WorkerFloats(k, call) = call.heads * call.queries * (call.dv + call.states)
        BY <3>3 DEF WorkerFloats, Split
      <4>4. QED
        BY <4>2, <4>3
    <3>4. QED
      BY <3>1, <3>2, <3>3
  <2>3. QED
    BY <2>1, <2>2 DEF LegalCode
<1>2. Page \in Nat \ {0}
  BY SizesAssumption
<1>3. Align(WorkerFloats(k, call), Page) \in Nat /\ WorkerFloats(k, call) <= Align(WorkerFloats(k, call), Page)
  BY <1>1, <1>2, AlignLaws
<1>4. QED
  BY <1>1, <1>3 DEF WorkerStride

(* A call that is no larger needs no more of either. *)
LEMMA StrideFits ==
  ASSUME LegalCall(call), NEW k, LegalCode(k), k.kind = call.kind,
         NEW c, LegalCall(c), c = call \/ Alike(c), NoLarger(c)
  PROVE  WorkerStride(k, c) \in Nat /\ WorkerStride(k, c) <= WorkerStride(k, call)
<1>1. CASE c = call
  BY <1>1, StrideLaws
<1>2. CASE c # call
  <2> DEFINE rows == c.heads * c.queries
             allRows == call.heads * call.queries
  <2>1. /\ c.kind = "parallel" /\ call.kind = "parallel" /\ c.states = call.states
        /\ rows <= allRows /\ c.dv <= call.dv
    BY <1>2 DEF Alike, Bucketed, NoLarger
  <2>2. /\ k.tileQ \in Nat /\ k.tileK \in Nat /\ c.dv \in Nat /\ call.dv \in Nat /\ c.states \in Nat
        /\ c.heads \in Nat \ {0} /\ c.queries \in Nat \ {0}
        /\ call.heads \in Nat \ {0} /\ call.queries \in Nat \ {0}
        /\ k.lowering \in {"parallel_blocked"} \cup Split
    BY <2>1 DEF LegalCall, LegalCode
  <2>3. rows \in Nat /\ allRows \in Nat
    BY <2>2, ProductIsPositive
  <2> HIDE DEF rows, allRows
  <2>4. WorkerFloats(k, c) \in Nat /\ WorkerFloats(k, c) <= WorkerFloats(k, call)
    <3>1. CASE k.lowering = "parallel_blocked"
      <4> DEFINE scores == 2 * k.tileQ * k.tileK
      <4>1. 2 * k.tileQ \in Nat
        BY <2>2
      <4>2. scores \in Nat
        BY <2>2, <4>1, TimesGrows
      <4>3. k.tileQ * c.dv \in Nat /\ k.tileQ * call.dv \in Nat /\ k.tileQ * c.dv <= k.tileQ * call.dv
        BY <2>1, <2>2, TimesGrows
      <4>4. /\ WorkerFloats(k, c) = scores + k.tileQ * c.dv
            /\ WorkerFloats(k, call) = scores + k.tileQ * call.dv
        BY <3>1 DEF WorkerFloats, Split
      <4> HIDE DEF scores
      <4>5. QED
        BY <4>2, <4>3, <4>4
    <3>2. CASE k.lowering \in Split
      <4> DEFINE part == c.dv + c.states
                 whole == call.dv + call.states
      <4>1. part \in Nat /\ whole \in Nat /\ part <= whole
        BY <2>1, <2>2
      <4>2. WorkerFloats(k, c) = rows * part /\ WorkerFloats(k, call) = allRows * whole
        BY <3>2 DEF WorkerFloats, Split, rows, allRows
      <4> HIDE DEF part, whole
      <4>3. rows * part \in Nat /\ rows * part <= allRows * whole
        BY <2>1, <2>3, <4>1, ProductsGrow
      <4>4. QED
        BY <4>2, <4>3
    <3>3. QED
      BY <2>2, <3>1, <3>2
  <2>5. WorkerFloats(k, call) \in Nat /\ Page \in Nat \ {0}
    BY StrideLaws, SizesAssumption
  <2>6. QED
    BY <2>4, <2>5, AlignLaws, AlignGrows DEF WorkerStride
<1>3. QED
  BY <1>1, <1>2

LEMMA CopyFits ==
  ASSUME LegalCall(call), NEW k, LegalCode(k), k.kind = call.kind,
         NEW c, LegalCall(c), c = call \/ Alike(c), NoLarger(c),
         NEW n \in Nat \ {0}, n <= PlannedSkv
  PROVE  /\ PackedCopy(k, c, n) \in Nat /\ PackedCopy(k, call, PlannedSkv) \in Nat
         /\ PackedCopy(k, c, n) <= PackedCopy(k, call, PlannedSkv)
<1>1. PlannedSkv \in Nat \ {0}
  BY PlannedLength
<1>2. CASE c = call
  BY <1>1, <1>2, CopyLaws
<1>3. CASE ~k.packs
  BY <1>3 DEF PackedCopy
<1>4. CASE c # call /\ k.packs
  <2> DEFINE b == c.kvHeads * c.d
             all == call.kvHeads * call.d
             short == Align(n, k.tileK)
             long == Align(PlannedSkv, k.tileK)
  <2>1. c.kind = "parallel" /\ call.kind = "parallel" /\ b <= all
    BY <1>4 DEF Alike, Bucketed, NoLarger
  <2>2. /\ k.tileK \in Nat \ {0} /\ c.d \in Nat \ {0} /\ c.kvHeads \in Nat \ {0}
        /\ call.d \in Nat \ {0} /\ call.kvHeads \in Nat \ {0}
    BY <2>1 DEF LegalCode, LegalCall
  <2>3. b \in Nat /\ all \in Nat
    BY <2>2, ProductIsPositive
  <2>4. short \in Nat /\ long \in Nat /\ short <= long
    BY <1>1, <2>2, AlignLaws, AlignGrows
  <2>5. /\ PackedCopy(k, c, n) = Align(b * short, Page)
        /\ PackedCopy(k, call, PlannedSkv) = Align(all * long, Page)
    BY <1>4 DEF PackedCopy, PackedSkv, Align
  <2> HIDE DEF b, all, short, long
  <2>6. b * short \in Nat /\ all * long \in Nat /\ b * short <= all * long
    BY <2>1, <2>3, <2>4, ProductsGrow
  <2> DEFINE x == b * short
             y == all * long
  <2>7. x \in Nat /\ y \in Nat /\ x <= y
    BY <2>6
  <2>8. PackedCopy(k, c, n) = Align(x, Page) /\ PackedCopy(k, call, PlannedSkv) = Align(y, Page)
    BY <2>5
  <2> HIDE DEF x, y
  <2>9. QED
    BY <2>7, <2>8, SizesAssumption, AlignLaws, AlignGrows
<1>5. QED
  BY <1>2, <1>3, <1>4

LEMMA WorkspaceHolds ==
  ASSUME LegalCall(call), NEW k, NEW l, NEW m, IsPlan(k, l, m), NEW n \in 1..PlannedSkv,
         NEW c, LegalCall(c), c = call \/ Alike(c), NoLarger(c)
  PROVE  ~(m.total < WorkspaceNeeded(k, l, m, c, n))
<1> DEFINE o == Len(m.owners)
           team == Len(l.cpus)
           stride == WorkerStride(k, c)
           planned == WorkerStride(k, call)
           small == PackedCopy(k, c, n)
           large == PackedCopy(k, call, PlannedSkv)
<1>1. LegalCode(k) /\ k.kind = call.kind /\ PlannedSkv \in Nat \ {0}
  BY PlannedLength DEF IsPlan
<1>2. n \in Nat \ {0} /\ n <= PlannedSkv
  BY <1>1
<1>3. small \in Nat /\ large \in Nat /\ small <= large
  BY <1>1, <1>2, CopyFits
<1>4. o \in Nat
  BY DEF IsPlan, OwnersAre
<1>5. team \in Nat /\ stride \in Nat /\ planned \in Nat /\ stride <= planned
  BY <1>1, StrideFits, StrideLaws DEF IsPlan, SharesOut, IsTeam
<1>6. m.total = o * large + team * planned /\ WorkspaceNeeded(k, l, m, c, n) = o * small + team * stride
  BY DEF IsPlan, PrivateOffset, WorkspaceNeeded
<1> HIDE DEF o, team, stride, planned, small, large
<1>7. o * small \in Nat /\ o * large \in Nat /\ o * small <= o * large
  BY <1>3, <1>4, TimesGrows
<1>8. team * stride \in Nat /\ team * planned \in Nat /\ team * stride <= team * planned
  BY <1>5, TimesGrows
<1>9. QED
  BY <1>6, <1>7, <1>8

(* The buffers of a linear worker are its scratch, to the float. *)
LEMMA BuffersFillTheScratch ==
  ASSUME LegalCall(call), NEW k, LegalCode(k), k.kind = "linear"
  PROVE  SumOver(LinearBuffers(k), DOMAIN LinearBuffers(k)) = LinearScratch(k, call)
<1> DEFINE b == k.tileQ
           d == call.d
           v == call.dv
           f == LinearBuffers(k)
           bd == b * d
           bv == b * v
           bb == b * b
<1>1. b \in Nat /\ d \in Nat /\ v \in Nat
  BY DEF LegalCode, LegalCall
<1>2. bd \in Nat /\ bv \in Nat /\ bb \in Nat
  BY <1>1, TimesGrows
<1>3. 2 * b * d = 2 * bd /\ 2 * b * v = 2 * bv /\ 3 * b * v = 3 * bv
  BY <1>1
<1>4. CASE k.lowering = "linear_scan"
  <2>1. f = <<d, d, v, v, d, d, d>> /\ LinearScratch(k, call) = 5 * d + 2 * v
    BY <1>4 DEF LinearBuffers, LinearScratch
  <2> HIDE DEF f, d, v
  <2>2. 7 \in Nat /\ DOMAIN f = 1..7 /\ \A x \in 1..7 : f[x] \in Int
    BY <1>1, <2>1
  <2>3. PICK s : Running(s, f, 7) /\ SumOver(f, DOMAIN f) = s[7]
    BY <2>2, RunningSums
  <2>4. s[7] = f[1] + f[2] + f[3] + f[4] + f[5] + f[6] + f[7]
    BY <2>2, <2>3, SumOfSeven
  <2>5. f[1] + f[2] + f[3] + f[4] + f[5] + f[6] + f[7] = 5 * d + 2 * v
    BY <1>1, <2>1
  <2>6. QED
    BY <2>1, <2>3, <2>4, <2>5 DEF f
<1>5. CASE k.lowering = "linear_2d"
  <2>1. f = <<d, d, v, v>> /\ LinearScratch(k, call) = 2 * d + 2 * v
    BY <1>5 DEF LinearBuffers, LinearScratch
  <2> HIDE DEF f, d, v
  <2>2. 4 \in Nat /\ DOMAIN f = 1..4 /\ \A x \in 1..4 : f[x] \in Int
    BY <1>1, <2>1
  <2>3. PICK s : Running(s, f, 4) /\ SumOver(f, DOMAIN f) = s[4]
    BY <2>2, RunningSums
  <2>4. s[4] = f[1] + f[2] + f[3] + f[4]
    BY <2>2, <2>3, SumOfFour
  <2>5. f[1] + f[2] + f[3] + f[4] = 2 * d + 2 * v
    BY <1>1, <2>1
  <2>6. QED
    BY <2>1, <2>3, <2>4, <2>5 DEF f
<1>6. CASE k.lowering = "linear_chunked"
  <2>1. f = <<bd, bd, bv, bv, bb, b, b, b>> /\ LinearScratch(k, call) = 2 * bd + 2 * bv + bb + 3 * b
    BY <1>3, <1>6 DEF LinearBuffers, LinearScratch
  <2> HIDE DEF f, d, v, b, bd, bv, bb
  <2>2. 8 \in Nat /\ DOMAIN f = 1..8 /\ \A x \in 1..8 : f[x] \in Int
    BY <1>1, <1>2, <2>1
  <2>3. PICK s : Running(s, f, 8) /\ SumOver(f, DOMAIN f) = s[8]
    BY <2>2, RunningSums
  <2>4. Running(s, f, 7) /\ s[8] = s[7] + f[8] /\ \A x \in 1..7 : f[x] \in Int
    BY <2>2, <2>3 DEF Running
  <2>5. s[7] = f[1] + f[2] + f[3] + f[4] + f[5] + f[6] + f[7]
    BY <2>4, SumOfSeven
  <2>6. /\ f[1] = bd /\ f[2] = bd /\ f[3] = bv /\ f[4] = bv
        /\ f[5] = bb /\ f[6] = b /\ f[7] = b /\ f[8] = b
    BY <2>1
  <2>7. s[8] = 2 * bd + 2 * bv + bb + 3 * b
    BY <1>1, <1>2, <2>4, <2>5, <2>6
  <2>8. QED
    BY <2>1, <2>3, <2>7 DEF f
<1>7. CASE k.lowering = "linear_delta"
  <2>1. f = <<bd, bd, bv, bv, bv, bb, b, b, b, b, b>>
        /\ LinearScratch(k, call) = 2 * bd + 3 * bv + bb + 5 * b
    BY <1>3, <1>7 DEF LinearBuffers, LinearScratch
  <2> HIDE DEF f, d, v, b, bd, bv, bb
  <2>2. 11 \in Nat /\ DOMAIN f = 1..11 /\ \A x \in 1..11 : f[x] \in Int
    BY <1>1, <1>2, <2>1
  <2>3. PICK s : Running(s, f, 11) /\ SumOver(f, DOMAIN f) = s[11]
    BY <2>2, RunningSums
  <2>4. /\ Running(s, f, 7) /\ \A x \in 1..7 : f[x] \in Int
        /\ s[8] = s[7] + f[8] /\ s[9] = s[8] + f[9]
        /\ s[10] = s[9] + f[10] /\ s[11] = s[10] + f[11]
    BY <2>2, <2>3 DEF Running
  <2>5. s[7] = f[1] + f[2] + f[3] + f[4] + f[5] + f[6] + f[7]
    BY <2>4, SumOfSeven
  <2>6. /\ f[1] = bd /\ f[2] = bd /\ f[3] = bv /\ f[4] = bv /\ f[5] = bv /\ f[6] = bb
        /\ f[7] = b /\ f[8] = b /\ f[9] = b /\ f[10] = b /\ f[11] = b
    BY <2>1
  <2>7. s[11] = 2 * bd + 3 * bv + bb + 5 * b
    BY <1>1, <1>2, <2>4, <2>5, <2>6
  <2>8. QED
    BY <2>1, <2>3, <2>7 DEF f
<1>8. QED
  BY <1>4, <1>5, <1>6, <1>7 DEF LegalCode, Blocks

(* A team of no divisor that has key tiles enough is odd, and larger than the
   square of the tiles. *)
LEMMA TeamsWithoutDivisor ==
  ASSUME NEW w \in Nat, w >= 4, HasNontrivialFactorization(w),
         NEW n \in Nat \ {0}, NEW t \in Nat \ {0}, Divisors(w, n, t) = {}
  PROVE  w % 2 = 1 /\ w >= 9 /\ KeyTiles(n, t) * KeyTiles(n, t) < w
<1> DEFINE tiles == KeyTiles(n, t)
           cap == IF tiles < 2 THEN 2 ELSE tiles
<1>1. tiles \in Nat
  <2>1. Ceiling(n, t) \in Nat /\ tiles = Ceiling(n, t)
    BY CeilingType DEF KeyTiles, Ceiling
  <2>2. QED
    BY <2>1
<1>2. \A d \in 2..w : w % d = 0 => ~(d <= cap)
  BY DEF Divisors
<1> HIDE DEF tiles
<1>3. cap \in Nat /\ 2 <= cap /\ tiles <= cap
  BY <1>1
<1> HIDE DEF cap
<1>4. w % 2 = 1
  <2>1. 2 \in 2..w /\ 2 \in Nat \ {0}
    OBVIOUS
  <2>2. w % 2 # 0 /\ w % 2 \in 0..2 - 1
    BY <1>2, <1>3, <2>1, DivideRebuilds
  <2>3. QED
    BY <2>2
<1>5. PICK d \in 2..w \div 2 : w % d = 0
  BY DEF HasNontrivialFactorization
<1> DEFINE q == w \div d
<1>6. d \in Nat \ {0} /\ 2 <= d /\ d * 2 <= w
  <2>1. w \div 2 \in Nat /\ 2 * (w \div 2) <= w
    BY DivideLeaves
  <2>2. QED
    BY <1>5, <2>1
<1>7. q \in Nat /\ w = d * q /\ 2 <= q
  <2>1. w = d * q + (w % d) /\ q \in Nat
    BY <1>6, DivideRebuilds
  <2>2. 2 <= q
    BY <1>6, DivideAbove
  <2> HIDE DEF q
  <2>3. d * q \in Nat
    BY <1>6, <2>1, TimesGrows
  <2>4. QED
    BY <1>5, <2>1, <2>2, <2>3
<1> HIDE DEF q
<1>8. w % q = 0
  <2>1. q \in Nat \ {0} /\ 0 \in 0..q - 1 /\ d \in Nat
    BY <1>6, <1>7
  <2>2. (q * d + 0) % q = 0
    BY <2>1, DivideUnique
  <2>3. q * d + 0 = w
    BY <1>6, <1>7
  <2>4. QED
    BY <2>2, <2>3
<1>9. d <= w /\ q <= w
  <2>1. 1 * q <= d * q
    BY <1>6, <1>7, ProductsGrow
  <2>2. QED
    BY <1>6, <1>7, <2>1
<1>10. ~(d <= cap) /\ ~(q <= cap)
  BY <1>2, <1>5, <1>6, <1>7, <1>8, <1>9
<1>11. tiles + 1 <= d /\ tiles + 1 <= q /\ 3 <= d /\ 3 <= q
  BY <1>1, <1>3, <1>6, <1>7, <1>10
<1>12. (tiles + 1) * (tiles + 1) <= w /\ 3 * 3 <= w
  BY <1>1, <1>6, <1>7, <1>11, ProductsGrow
<1>13. tiles * tiles < w
  <2>1. tiles * tiles \in Nat
    BY <1>1, TimesGrows
  <2>2. (tiles + 1) * (tiles + 1) = tiles * tiles + 2 * tiles + 1
    BY <1>1
  <2>3. QED
    BY <1>1, <1>12, <2>1, <2>2
<1>14. QED
  BY <1>4, <1>12, <1>13 DEF tiles

(* What a kernel answers to a plan, at any length of its bucket. *)
Refused(k, l, n) ==
  LET workers == Len(l.cpus)
      tiles == KeyTiles(n, k.tileK)
  IN  workers % 2 = 1 /\ workers >= 9 /\ tiles * tiles < workers

LEMMA KernelAnswers ==
  ASSUME LegalCall(call), NEW k, NEW l, NEW m, IsPlan(k, l, m), NEW n \in 1..PlannedSkv,
         NEW c, LegalCall(c), c = call \/ Alike(c),
         NEW s, s = KernelStatus(k, l, m, c, n)
  PROVE  /\ s \in {0, -2, -3} /\ (s = -3 => Refused(k, l, n))
         /\ s = -2 => ~NoLarger(c)
<1>1. Admits(k, Len(l.cpus)) /\ LegalCode(k) /\ Len(l.cpus) \in Nat \ {0}
  BY DEF IsPlan, SharesOut, IsTeam
<1>2. ~MissingArguments(k, l, m)
  <2>1. k.packs => m.owners # <<>>
    <3>1. k.packs => Len(m.owners) # 0
      BY DEF IsPlan, OwnersAre
    <3>2. QED
      BY <3>1
  <2>2. k.lowering = "parallel_split_k" => Len(l.cpus) > 1
    BY <1>1 DEF Admits
  <2>3. k.lowering = "parallel_2d" => Len(l.cpus) >= 4
    BY <1>1 DEF Admits
  <2>4. QED
    BY <1>1, <2>1, <2>2, <2>3 DEF MissingArguments
<1>3. NoLarger(c) => ~(m.total < WorkspaceNeeded(k, l, m, c, n))
  BY WorkspaceHolds
<1>4. ASSUME k.lowering = "parallel_2d", Divisors(Len(l.cpus), n, k.tileK) = {}
      PROVE  Refused(k, l, n)
  <2>1. HasNontrivialFactorization(Len(l.cpus)) /\ Len(l.cpus) >= 4
    BY <1>1, <1>4 DEF Admits
  <2>2. n \in Nat \ {0} /\ k.tileK \in Nat \ {0}
    BY <1>1, PlannedLength DEF LegalCode
  <2>3. QED
    BY <1>1, <1>4, <2>1, <2>2, TeamsWithoutDivisor DEF Refused
<1>5. QED
  BY <1>2, <1>3, <1>4 DEF KernelStatus

-----------------------------------------------------------------------------
(* The invariant: the host is what the process made of its machine, and what
   has been planned is one of the plans of the call. *)
HostMatches == HostIsReal /\ LegalCall(call) /\ CompatibleBackends(host) # {}

PlanMatches ==
  \A k, l, m : Planned /\ k = code /\ l = launch /\ m = memory => IsPlan(k, l, m)

AnswerMatches ==
  /\ status \in {0, -2, -3, NotRun}
  /\ Planned \/ status = NotRun
  /\ \A k, l, n : Planned /\ k = code /\ l = launch /\ n = skv /\ status = -3 => Refused(k, l, n)
  /\ \A c : c = served /\ status = -2 => ~NoLarger(c)

PlanInv == HostMatches /\ PlanMatches /\ AnswerMatches

LEMMA PlanInvStarts ==
  Init => PlanInv
<1> SUFFICES ASSUME Init PROVE PlanInv
  OBVIOUS
<1>1. PICK p \in Problems : machine = p.machine /\ host = DetectHost(p.machine) /\ call = p.call
  BY DEF Init
<1>2. MachineIsReal(p.machine) /\ LegalCall(p.call)
  BY ProblemsAssumption
<1>3. HostMatches
  BY <1>1, <1>2 DEF HostMatches, HostIsReal, Init
<1>4. code = Unplanned /\ status = NotRun
  BY DEF Init
<1>5. ~Planned
  BY <1>4 DEF Planned
<1>6. QED
  BY <1>3, <1>4, <1>5 DEF PlanInv, PlanMatches, AnswerMatches, NotRun

LEMMA HostStays ==
  ASSUME HostMatches, UNCHANGED problem
  PROVE  HostMatches'
<1>1. HostIsReal' /\ LegalCall(call)'
  BY PlansStay DEF HostMatches
<1>2. host' = host
  BY DEF problem
<1>3. (CompatibleBackends(host) # {})'
  BY <1>2 DEF HostMatches
<1>4. QED
  BY <1>1, <1>3 DEF HostMatches

LEMMA PlanStep ==
  ASSUME PlanInv, Plan
  PROVE  PlanInv'
<1>1. UNCHANGED problem /\ status' = status /\ ~Planned
  BY DEF Plan, Planned
<1>2. HostMatches'
  BY <1>1, HostStays DEF PlanInv
<1>3. IsPlan(code', launch', memory')
  <2>1. code' \in Codes /\ LegalCode(code') /\ code'.kind = call.kind
    BY CodesAssumption DEF Plan
  <2>2. launch' \in LaunchPlans(code') /\ memory' \in MemoryPlans(code', launch')
    BY DEF Plan
  <2>3. HostIsReal /\ LegalCall(call)
    BY DEF PlanInv, HostMatches
  <2>4. \A k : LegalCode(k) /\ k.kind = call.kind =>
          \A l \in LaunchPlans(k) : \A m \in MemoryPlans(k, l) : IsPlan(k, l, m)
    BY <2>3, PlansAreLegal
  <2>5. QED
    BY <2>1, <2>2, <2>4
<1>4. PlanMatches'
  <2>1. \A k, l, m : IsPlan(k, l, m) => IsPlan(k, l, m)'
    BY <1>1, PlansStay
  <2>2. \A k, l, m : k = code' /\ l = launch' /\ m = memory' => IsPlan(k, l, m)'
    BY <1>3, <2>1
  <2>3. QED
    BY <2>2 DEF PlanMatches
<1>5. status' = NotRun
  BY <1>1 DEF PlanInv, AnswerMatches
<1>6. AnswerMatches'
  BY <1>5 DEF AnswerMatches, NotRun
<1>7. QED
  BY <1>2, <1>4, <1>6 DEF PlanInv

(* What a plan is run for. *)
LEMMA RunsWithinTheBucket ==
  ASSUME LegalCall(call), NEW c \in {call} \cup OtherCalls,
         NEW n \in IF Bucketed(call) THEN 1..KvBucket(call.skv, Unit) ELSE {call.skv},
         TuneCall(c, n) = <<call, PlannedSkv>>
  PROVE  n \in 1..PlannedSkv /\ LegalCall(c) /\ (c = call \/ Alike(c))
<1>1. call.skv \in Nat \ {0}
  BY DEF LegalCall
<1>2. n \in 1..PlannedSkv
  BY <1>1 DEF PlannedSkv
<1>3. LegalCall(c)
  BY ProblemsAssumption
<1>4. c = call \/ Alike(c)
  BY DEF TuneCall, Alike
<1>5. QED
  BY <1>2, <1>3, <1>4

LEMMA RunStep ==
  ASSUME PlanInv, Run
  PROVE  PlanInv'
<1>1. UNCHANGED problem /\ code' = code /\ launch' = launch /\ memory' = memory /\ Planned
  BY DEF Run, Planned
<1>2. HostMatches'
  BY <1>1, HostStays DEF PlanInv
<1>3. IsPlan(code, launch, memory)
  BY <1>1 DEF PlanInv, PlanMatches
<1>4. PlanMatches'
  <2>1. \A k, l, m : IsPlan(k, l, m) => IsPlan(k, l, m)'
    BY <1>1, PlansStay
  <2>2. \A k, l, m : k = code' /\ l = launch' /\ m = memory' => IsPlan(k, l, m)'
    BY <1>1, <1>3, <2>1
  <2>3. QED
    BY <2>2 DEF PlanMatches
<1>5. LegalCall(call)
  BY DEF PlanInv, HostMatches
<1>6. /\ status' \in {0, -2, -3} /\ (status' = -3 => Refused(code, launch, skv'))
      /\ status' = -2 => ~NoLarger(served')
  <2>1. PICK c \in {call} \cup OtherCalls,
             n \in IF Bucketed(call) THEN 1..KvBucket(call.skv, Unit) ELSE {call.skv} :
          /\ TuneCall(c, n) = <<call, PlannedSkv>>
          /\ served' = c /\ skv' = n
          /\ status' = KernelStatus(code, launch, memory, c, n)
    BY DEF Run
  <2>2. n \in 1..PlannedSkv /\ LegalCall(c) /\ (c = call \/ Alike(c))
    BY <1>5, <2>1, RunsWithinTheBucket
  <2>3. \A s : s = KernelStatus(code, launch, memory, c, n) =>
          s \in {0, -2, -3} /\ (s = -3 => Refused(code, launch, n)) /\ (s = -2 => ~NoLarger(c))
    BY <1>3, <1>5, <2>2, KernelAnswers
  <2>4. QED
    BY <2>1, <2>3
<1>7. AnswerMatches'
  <2>1. \A k, l, n : k = code' /\ l = launch' /\ n = skv' /\ status' = -3 => Refused(k, l, n)
    BY <1>1, <1>6
  <2>2. Planned'
    BY <1>1 DEF Planned
  <2>3. status' \in {0, -2, -3, NotRun}
    BY <1>6
  <2>4. \A c : c = served' /\ status' = -2 => ~NoLarger(c)'
    BY <1>1, <1>6, PlansStay
  <2>5. QED
    BY <2>1, <2>2, <2>3, <2>4 DEF AnswerMatches
<1>8. QED
  BY <1>2, <1>4, <1>7 DEF PlanInv

LEMMA PlanStutters ==
  ASSUME PlanInv, UNCHANGED vars
  PROVE  PlanInv'
<1>1. UNCHANGED problem /\ code' = code /\ launch' = launch /\ memory' = memory
      /\ served' = served /\ skv' = skv /\ status' = status
  BY DEF vars
<1>2. HostMatches'
  BY <1>1, HostStays DEF PlanInv
<1>3. PlanMatches'
  <2>1. \A k, l, m : IsPlan(k, l, m) => IsPlan(k, l, m)'
    BY <1>1, PlansStay
  <2>2. QED
    BY <1>1, <2>1 DEF PlanInv, PlanMatches, Planned
<1>4. AnswerMatches'
  <2>1. \A c : c = served' /\ status' = -2 => ~NoLarger(c)'
    BY <1>1, PlansStay DEF PlanInv, AnswerMatches
  <2>2. QED
    BY <1>1, <2>1 DEF PlanInv, AnswerMatches, Planned
<1>5. QED
  BY <1>2, <1>3, <1>4 DEF PlanInv

-----------------------------------------------------------------------------
(* The backend. *)

(* Every CPU of a set has the features, and the vector length is the machine's. *)
RunsOn(b, m, cpus) ==
  /\ b.architecture = Architecture(m) /\ b.sve \in {0, m.sve}
  /\ \A c \in cpus : b.features \subseteq m.cpus[c].features

IsBackend(b) ==
  /\ b.features # {}
  /\ b.sve # 0 => "sve" \in b.features

LEMMA BackendsAre ==
  /\ DOMAIN BACKENDS = 1..4
  /\ \A i \in DOMAIN BACKENDS : IsBackend(BACKENDS[i])
<1>1. /\ BACKENDS[1] = BackendOf("x86_64", {"avx512f", "fma"}, 64, 0)
      /\ BACKENDS[2] = BackendOf("x86_64", {"avx2", "fma"}, 32, 0)
      /\ BACKENDS[3] = BackendOf("aarch64", {"sve"}, 32, 32)
      /\ BACKENDS[4] = BackendOf("aarch64", {"asimd"}, 16, 0)
      /\ DOMAIN BACKENDS = 1..4
  BY DEF BACKENDS
<1>2. IsBackend(BACKENDS[1]) /\ IsBackend(BACKENDS[2])
  BY <1>1 DEF IsBackend, BackendOf
<1>3. IsBackend(BACKENDS[3]) /\ IsBackend(BACKENDS[4])
  BY <1>1 DEF IsBackend, BackendOf
<1>4. \A i \in 1..4 : i = 1 \/ i = 2 \/ i = 3 \/ i = 4
  OBVIOUS
<1>5. QED
  BY <1>1, <1>2, <1>3, <1>4

(* The features of a host are those of all CPUs of which it has records. *)
LEMMA FeaturesOfAllowed ==
  ASSUME NEW m, MachineIsReal(m), m.allowed \subseteq m.listed
  PROVE  \A f : f \in Features(m) <=> \A c \in m.allowed : f \in m.cpus[c].features
<1> DEFINE R == AllowedCpuinfoRecords(m)
           rec(c) == [cpu |-> c, features |-> m.cpus[c].features]
<1>1. m.allowed # {} /\ 0 \notin m.allowed
  BY DEF MachineIsReal
<1>2. ASSUME NEW r \in R PROVE \E c \in m.allowed : r.features = m.cpus[c].features
  <2>1. r \in CpuinfoRecords(m) /\ r.cpu \in m.allowed
    BY <1>2 DEF AllowedCpuinfoRecords
  <2>2. (\E c \in m.listed : r = rec(c)) \/ r = [cpu |-> 0, features |-> {}]
    BY <2>1 DEF CpuinfoRecords
  <2>3. r # [cpu |-> 0, features |-> {}]
    BY <1>1, <2>1
  <2>4. PICK c \in m.listed : r = rec(c)
    BY <2>2, <2>3
  <2>5. r.cpu = c /\ r.features = m.cpus[c].features
    BY <2>4
  <2>6. QED
    BY <2>1, <2>5
<1>3. ASSUME NEW c \in m.allowed PROVE \E r \in R : r.features = m.cpus[c].features
  <2>1. c \in m.listed /\ rec(c) \in CpuinfoRecords(m)
    BY DEF CpuinfoRecords
  <2>2. rec(c).cpu = c /\ rec(c).features = m.cpus[c].features
    OBVIOUS
  <2>3. rec(c) \in R
    BY <2>1, <2>2 DEF AllowedCpuinfoRecords
  <2>4. QED
    BY <2>2, <2>3
<1>4. Features(m) = {f \in UNION {r.features : r \in R} : \A r \in R : f \in r.features}
  BY DEF Features
<1> HIDE DEF R
<1>5. QED
  BY <1>1, <1>2, <1>3, <1>4

LEMMA FeaturesOfListed ==
  ASSUME NEW m, ~(m.allowed \subseteq m.listed), NEW f \in Features(m), NEW c \in m.listed
  PROVE  f \in m.cpus[c].features
<1> DEFINE r == [cpu |-> c, features |-> m.cpus[c].features]
<1>1. r \in AllowedCpuinfoRecords(m)
  BY DEF AllowedCpuinfoRecords, CpuinfoRecords
<1>2. f \in r.features
  BY <1>1 DEF Features
<1>3. QED
  BY <1>2

LEMMA SupportedRunsOnAllowed ==
  ASSUME NEW m, MachineIsReal(m), m.allowed \subseteq m.listed, NEW b, IsBackend(b)
  PROVE  Supports(b, DetectHost(m)) <=> RunsOn(b, m, m.allowed)
<1> DEFINE h == DetectHost(m)
<1>1. /\ h.architecture = Architecture(m) /\ h.features = Features(m)
      /\ h.sve = IF "sve" \in Features(m) THEN m.sve ELSE 0
  BY DEF DetectHost
<1>2. b.features \subseteq Features(m) <=> \A c \in m.allowed : b.features \subseteq m.cpus[c].features
  BY FeaturesOfAllowed
<1>3. b.features \subseteq Features(m) => (b.sve \in {0, h.sve} <=> b.sve \in {0, m.sve})
  <2>1. CASE b.sve = 0
    BY <2>1
  <2>2. CASE b.sve # 0
    <3>1. b.features \subseteq Features(m) => h.sve = m.sve
      BY <1>1, <2>2 DEF IsBackend
    <3>2. QED
      BY <3>1
  <2>3. QED
    BY <2>1, <2>2
<1> HIDE DEF h
<1>4. Supports(b, h) <=> RunsOn(b, m, m.allowed)
  BY <1>1, <1>2, <1>3 DEF Supports, RunsOn
<1>5. QED
  BY <1>4 DEF h

LEMMA SupportedRunsOnListed ==
  ASSUME NEW m, ~(m.allowed \subseteq m.listed), NEW b, IsBackend(b), Supports(b, DetectHost(m))
  PROVE  RunsOn(b, m, m.listed)
<1> DEFINE h == DetectHost(m)
<1>1. /\ h.architecture = Architecture(m) /\ h.features = Features(m)
      /\ h.sve = IF "sve" \in Features(m) THEN m.sve ELSE 0
  BY DEF DetectHost
<1>2. h.architecture = b.architecture /\ b.features \subseteq h.features /\ b.sve \in {0, h.sve}
  BY DEF Supports
<1> HIDE DEF h
<1>3. \A c \in m.listed : b.features \subseteq m.cpus[c].features
  BY <1>1, <1>2, FeaturesOfListed
<1>4. b.sve \in {0, m.sve}
  <2>1. CASE b.sve = 0
    BY <2>1
  <2>2. CASE b.sve # 0
    BY <1>1, <1>2, <2>2 DEF IsBackend
  <2>3. QED
    BY <2>1, <2>2
<1>5. QED
  BY <1>1, <1>2, <1>3, <1>4 DEF RunsOn

LEMMA FirstCompatible ==
  ASSUME NEW h, CompatibleBackends(h) # {}
  PROVE  \E i \in DOMAIN BACKENDS :
           /\ SelectBackend(h) = BACKENDS[i] /\ Supports(BACKENDS[i], h)
           /\ \A j \in 1..i - 1 : j \in DOMAIN BACKENDS /\ ~Supports(BACKENDS[j], h)
<1> DEFINE C == CompatibleBackends(h)
           i == CHOOSE i \in C : \A j \in C : i <= j
<1>1. C \in SUBSET Nat /\ C # {} /\ DOMAIN BACKENDS = 1..4
  BY BackendsAre DEF CompatibleBackends
<1>2. \A x : x \in C <=> x \in DOMAIN BACKENDS /\ Supports(BACKENDS[x], h)
  BY DEF CompatibleBackends
<1>3. SelectBackend(h) = BACKENDS[i]
  BY DEF SelectBackend
<1> HIDE DEF C
<1>4. \E x \in C : \A y \in C : x <= y
  BY <1>1, LeastNatural
<1>5. i \in C /\ \A j \in C : i <= j
  BY <1>4
<1> HIDE DEF i
<1>6. i \in DOMAIN BACKENDS /\ Supports(BACKENDS[i], h) /\ i \in 1..4
  BY <1>1, <1>2, <1>5
<1>7. \A j \in 1..i - 1 : j \in DOMAIN BACKENDS /\ ~Supports(BACKENDS[j], h)
  <2> SUFFICES ASSUME NEW j \in 1..i - 1
               PROVE  j \in DOMAIN BACKENDS /\ ~Supports(BACKENDS[j], h)
    OBVIOUS
  <2>1. j \in 1..4 /\ ~(i <= j)
    BY <1>6
  <2>2. QED
    BY <1>1, <1>2, <1>5, <2>1
<1>8. QED
  BY <1>3, <1>6, <1>7

-----------------------------------------------------------------------------
(* The code plans of a backend. *)
LEMMA LanesAre ==
  ASSUME HostMatches
  PROVE  VectorBytes \in {64, 32, 16} /\ Lanes \in {16, 8, 4}
<1>1. PICK i \in DOMAIN BACKENDS : SelectBackend(host) = BACKENDS[i]
  BY FirstCompatible DEF HostMatches
<1>2. /\ BACKENDS[1] = BackendOf("x86_64", {"avx512f", "fma"}, 64, 0)
      /\ BACKENDS[2] = BackendOf("x86_64", {"avx2", "fma"}, 32, 0)
      /\ BACKENDS[3] = BackendOf("aarch64", {"sve"}, 32, 32)
      /\ BACKENDS[4] = BackendOf("aarch64", {"asimd"}, 16, 0)
      /\ DOMAIN BACKENDS = 1..4
  BY DEF BACKENDS
<1>3. i = 1 \/ i = 2 \/ i = 3 \/ i = 4
  BY <1>2
<1>4. BACKENDS[i].vectorBytes \in {64, 32, 16}
  BY <1>2, <1>3 DEF BackendOf
<1>5. VectorBytes \in {64, 32, 16}
  BY <1>1, <1>4 DEF VectorBytes
<1>6. 64 \div 4 = 16 /\ 32 \div 4 = 8 /\ 16 \div 4 = 4
  OBVIOUS
<1>7. Lanes \in {16, 8, 4}
  BY <1>5, <1>6 DEF Lanes, FloatBytes
<1>8. QED
  BY <1>5, <1>7

LEMMA MicrokernelsAre ==
  ASSUME NEW m \in Microkernels
  PROVE  m[1] \in Nat \ {0} /\ m[2] \in Nat \ {0}
         /\ m \in {<<8, 1>>, <<6, 2>>, <<4, 4>>} \cup {<<8, 2>>, <<6, 1>>} \cup {<<4, 2>>, <<2, 4>>}
<1>1. m \in {<<8, 1>>, <<6, 2>>, <<4, 4>>} \cup {<<8, 2>>, <<6, 1>>} \cup {<<4, 2>>, <<2, 4>>}
  BY DEF Microkernels
<1>2. QED
  BY <1>1

(* Legal, and with a number of vectors. *)
IsCode(k) ==
  LegalCode(k) /\ k.kind = call.kind /\ k.vectors \in Nat \ {0} /\ k.tileD \in Nat \ {0}

LEMMA ParallelPlansAreLegal ==
  ASSUME HostMatches, call.kind = "parallel", NEW k \in ParallelPlans
  PROVE  IsCode(k)
<1>1. Lanes \in {16, 8, 4}
  BY LanesAre
<1>2. ASSUME NEW m \in Microkernels, NEW x \in 1..2, NEW y \in 1..2,
             NEW packs \in BOOLEAN, NEW dynamic \in BOOLEAN,
             k = ParallelPlan("parallel_blocked", m[1], m[2], m[2] * Lanes * x, Lanes * y, packs, dynamic)
      PROVE  IsCode(k)
  <2>1. m[1] \in Nat \ {0} /\ m[2] \in {1, 2, 4}
    BY MicrokernelsAre
  <2>2. m[2] * Lanes * x \in Nat \ {0} /\ Lanes * y \in Nat \ {0}
    BY <1>1, <2>1
  <2>3. /\ k.kind = "parallel" /\ k.lowering = "parallel_blocked" /\ k.tileQ \in Nat \ {0}
        /\ k.tileK \in Nat \ {0} /\ k.tileDV \in Nat \ {0} /\ k.vectors \in Nat \ {0}
        /\ k.packs \in BOOLEAN /\ k.tileD \in Nat \ {0}
    BY <1>2, <2>1, <2>2 DEF ParallelPlan, HostMatches, LegalCall
  <2>4. QED
    BY <2>3 DEF IsCode, LegalCode
<1>3. ASSUME NEW lowering \in Split, NEW x \in {2, 4}, NEW packs \in BOOLEAN,
             k = ParallelPlan(lowering, 1, 2, x * Lanes, Lanes, packs, FALSE)
      PROVE  IsCode(k)
  <2>1. x * Lanes \in Nat \ {0} /\ Lanes \in Nat \ {0}
    BY <1>1
  <2>2. /\ k.kind = "parallel" /\ k.lowering \in Split /\ k.tileQ \in Nat \ {0}
        /\ k.tileK \in Nat \ {0} /\ k.tileDV \in Nat \ {0} /\ k.vectors \in Nat \ {0}
        /\ k.packs \in BOOLEAN /\ k.dynamic = FALSE /\ k.tileD \in Nat \ {0}
    BY <1>3, <2>1 DEF ParallelPlan, HostMatches, LegalCall
  <2>3. QED
    BY <2>2 DEF IsCode, LegalCode
<1> DEFINE A == {ParallelPlan("parallel_blocked", m[1], m[2], m[2] * Lanes * x, Lanes * y, packs, dynamic) :
                   m \in Microkernels, x \in 1..2, y \in 1..2, packs \in BOOLEAN, dynamic \in BOOLEAN}
           F(lowering, x, packs) == ParallelPlan(lowering, 1, 2, x * Lanes, Lanes, packs, FALSE)
           B == {F(lowering, x, packs) :
                   lowering \in Split, x \in {2, 4}, packs \in BOOLEAN}
<1>4. CASE k \in A
  <2>1. PICK m \in Microkernels, x \in 1..2, y \in 1..2, packs \in BOOLEAN, dynamic \in BOOLEAN :
          k = ParallelPlan("parallel_blocked", m[1], m[2], m[2] * Lanes * x, Lanes * y, packs, dynamic)
    BY <1>4
  <2>2. QED
    BY <1>2, <2>1
<1>5. CASE k \in B
  <2> HIDE DEF F
  <2>1. PICK lowering \in Split, x \in {2, 4}, packs \in BOOLEAN : k = F(lowering, x, packs)
    BY <1>5
  <2>2. QED
    BY <1>3, <2>1 DEF F
<1>6. ParallelPlans = A \cup (IF call.merges THEN B ELSE {})
  BY DEF ParallelPlans
<1> HIDE DEF A, B
<1>7. k \in A \/ k \in B
  BY <1>6
<1>8. QED
  BY <1>4, <1>5, <1>7

LEMMA LinearPlansAreLegal ==
  ASSUME HostMatches, call.kind = "linear", NEW k \in LinearPlans
  PROVE  IsCode(k)
<1>1. Lanes \in {16, 8, 4}
  BY LanesAre
<1>2. ASSUME NEW lowering \in {"linear_scan", "linear_2d"} \cup Blocks, NEW b \in Nat \ {0},
             NEW d \in Nat \ {0}, NEW dv \in Nat \ {0}, k = LinearPlan(lowering, b, d, dv)
      PROVE  IsCode(k)
  <2>1. /\ k.kind = "linear" /\ k.lowering = lowering /\ k.tileQ \in Nat \ {0}
        /\ k.tileK \in Nat \ {0} /\ k.tileDV \in Nat \ {0} /\ k.vectors \in Nat \ {0}
        /\ k.packs = FALSE /\ k.dynamic = FALSE /\ k.tileD \in Nat \ {0}
    BY <1>2 DEF LinearPlan
  <2>2. QED
    BY <2>1 DEF IsCode, LegalCode
<1>3. CASE k \in {LinearPlan("linear_scan", 1, x[1] * Lanes, x[2] * Lanes) : x \in {<<1, 1>>, <<2, 1>>, <<1, 2>>}}
  <2>1. PICK x \in {<<1, 1>>, <<2, 1>>, <<1, 2>>} :
          k = LinearPlan("linear_scan", 1, x[1] * Lanes, x[2] * Lanes)
    BY <1>3
  <2>2. x[1] * Lanes \in Nat \ {0} /\ x[2] * Lanes \in Nat \ {0}
    BY <1>1, <2>1
  <2>3. QED
    BY <1>2, <2>1, <2>2
<1>4. CASE k \in {LinearPlan("linear_2d", 1, Lanes, Lanes)}
  <2>1. Lanes \in Nat \ {0}
    BY <1>1
  <2>2. QED
    BY <1>2, <1>4, <2>1
<1>5. CASE k \in {LinearPlan("linear_chunked", b, Lanes, Lanes) :
                    b \in IF call.form # "block" THEN {} ELSE IF Lanes >= 8 THEN {2, 4, 6} ELSE {2, 4}}
  <2>1. PICK b \in {2, 4, 6} : k = LinearPlan("linear_chunked", b, Lanes, Lanes)
    BY <1>5
  <2>2. Lanes \in Nat \ {0} /\ b \in Nat \ {0} /\ "linear_chunked" \in Blocks
    BY <1>1 DEF Blocks
  <2>3. QED
    BY <1>2, <2>1, <2>2
<1>6. CASE k \in {LinearPlan("linear_delta", b, Lanes, Lanes) :
                    b \in IF call.form # "delta" THEN {} ELSE IF Lanes >= 8 THEN {4, 8, 16} ELSE {2, 4}}
  <2>1. PICK b \in {2, 4, 8, 16} : k = LinearPlan("linear_delta", b, Lanes, Lanes)
    BY <1>6
  <2>2. Lanes \in Nat \ {0} /\ b \in Nat \ {0} /\ "linear_delta" \in Blocks
    BY <1>1 DEF Blocks
  <2>3. QED
    BY <1>2, <2>1, <2>2
<1>7. QED
  BY <1>3, <1>4, <1>5, <1>6 DEF LinearPlans

LEMMA CodePlansAreLegal ==
  ASSUME HostMatches, NEW k \in CodePlans
  PROVE  IsCode(k)
<1>1. call.kind \in {"parallel", "linear"}
  BY DEF HostMatches, LegalCall
<1>2. QED
  BY <1>1, ParallelPlansAreLegal, LinearPlansAreLegal DEF CodePlans

LEMMA ParallelPlansFinite ==
  IsFiniteSet(ParallelPlans)
<1> DEFINE F(lowering, x, packs) == ParallelPlan(lowering, 1, 2, x * Lanes, Lanes, packs, FALSE)
           G(m, x, y, packs, dynamic) ==
             ParallelPlan("parallel_blocked", m[1], m[2], m[2] * Lanes * x, Lanes * y, packs, dynamic)
           A == {G(m, x, y, packs, dynamic) :
                   m \in Microkernels, x \in 1..2, y \in 1..2, packs \in BOOLEAN, dynamic \in BOOLEAN}
           B == {F(lowering, x, packs) : lowering \in Split, x \in {2, 4}, packs \in BOOLEAN}
<1>1. ParallelPlans = A \cup (IF call.merges THEN B ELSE {})
  BY DEF ParallelPlans
<1> HIDE DEF F, G
<1>2. IsFiniteSet(Microkernels)
  <2> DEFINE X == {<<8, 1>>, <<6, 2>>, <<4, 4>>}
             Y == {<<8, 2>>, <<6, 1>>}
             Z == {<<4, 2>>, <<2, 4>>}
  <2>1. IsFiniteSet(X)
    BY TripleFinite
  <2>2. IsFiniteSet(Y) /\ IsFiniteSet(Z)
    BY PairFinite
  <2>3. Microkernels \in SUBSET (X \cup Y \cup Z)
    BY MicrokernelsAre
  <2> HIDE DEF X, Y, Z
  <2>4. IsFiniteSet(X \cup Y)
    BY <2>1, <2>2, FS_Union
  <2>5. IsFiniteSet(X \cup Y \cup Z)
    BY <2>2, <2>4, FS_Union
  <2>6. QED
    BY <2>3, <2>5, FS_Subset
<1>3. IsFiniteSet(1..2)
  <2>1. 1 \in Int /\ 2 \in Int
    OBVIOUS
  <2>2. QED
    BY <2>1, FS_Interval
<1>4. IsFiniteSet(A)
  <2> DEFINE I == 1..2
             P == Microkernels \X I
             L == BOOLEAN \X BOOLEAN
             Q == I \X L
             S == P \X Q
             f == [t \in S |-> G(t[1][1], t[1][2], t[2][1], t[2][2][1], t[2][2][2])]
  <2>1. IsFiniteSet(I)
    BY <1>3
  <2>2. ASSUME NEW z \in A
        PROVE  \E m \in Microkernels, x \in I, y \in I, packs \in BOOLEAN, dynamic \in BOOLEAN :
                 z = G(m, x, y, packs, dynamic)
    BY <2>2
  <2> HIDE DEF I, A
  <2>3. IsFiniteSet(P)
    BY <1>2, <2>1, FS_Product
  <2>4. IsFiniteSet(L)
    BY BooleansFinite, FS_Product
  <2>5. IsFiniteSet(Q)
    <3> HIDE DEF L
    <3>1. QED
      BY <2>1, <2>4, FS_Product
  <2>6. IsFiniteSet(S)
    <3> HIDE DEF P, Q
    <3>1. QED
      BY <2>3, <2>5, FS_Product
  <2>7. ASSUME NEW z \in A PROVE \E t \in S : z = f[t]
    <3>1. PICK m \in Microkernels, x \in I, y \in I, packs \in BOOLEAN, dynamic \in BOOLEAN :
            z = G(m, x, y, packs, dynamic)
      BY <2>2
    <3>2. PICK p \in P : p[1] = m /\ p[2] = x
      BY PairExists
    <3>3. PICK l \in L : l[1] = packs /\ l[2] = dynamic
      <4> DEFINE Bool == BOOLEAN
      <4>1. L = Bool \X Bool /\ packs \in Bool /\ dynamic \in Bool
        OBVIOUS
      <4> HIDE DEF Bool, L
      <4>2. \A a \in Bool, b \in Bool : \E t \in Bool \X Bool : t[1] = a /\ t[2] = b
        BY PairExists
      <4>3. QED
        BY <4>1, <4>2, Zenon
    <3>4. PICK q \in Q : q[1] = y /\ q[2] = l
      <4> HIDE DEF L
      <4>1. QED
        BY PairExists
    <3>5. PICK t \in S : t[1] = p /\ t[2] = q
      <4> HIDE DEF P, Q
      <4>1. p \in P /\ q \in Q /\ S = P \X Q
        BY <3>2, <3>4
      <4> HIDE DEF S
      <4> HIDE DEF f, L
      <4>2. <<p, q>> \in P \X Q /\ <<p, q>>[1] = p /\ <<p, q>>[2] = q
        BY <4>1
      <4>3. QED
        BY <4>1, <4>2
    <3>6. f[t] = G(t[1][1], t[1][2], t[2][1], t[2][2][1], t[2][2][2])
      <4> HIDE DEF S
      <4>1. QED
        OBVIOUS
    <3>7. f[t] = G(m, x, y, packs, dynamic)
      <4> HIDE DEF f, S, P, Q, L
      <4>1. QED
        BY <3>2, <3>3, <3>4, <3>5, <3>6, Zenon
    <3>8. QED
      <4> HIDE DEF f, S
      <4>1. QED
        BY <3>1, <3>7, Zenon
  <2>8. DOMAIN f = S
    OBVIOUS
  <2> HIDE DEF f, S
  <2>9. QED
    BY <2>6, <2>7, <2>8, PartFinite
<1>5. IsFiniteSet(B)
  <2> DEFINE I == {2, 4}
             L == I \X BOOLEAN
             S == Split \X L
             f == [t \in S |-> F(t[1], t[2][1], t[2][2])]
  <2>1. IsFiniteSet(I)
    BY PairFinite
  <2>2. IsFiniteSet(Split)
    BY PairFinite DEF Split
  <2>3. ASSUME NEW z \in B
        PROVE  \E lowering \in Split, x \in I, packs \in BOOLEAN : z = F(lowering, x, packs)
    BY <2>3
  <2> HIDE DEF I, B
  <2>4. IsFiniteSet(L)
    BY <2>1, BooleansFinite, FS_Product
  <2>5. IsFiniteSet(S)
    <3> HIDE DEF L
    <3>1. QED
      BY <2>2, <2>4, FS_Product
  <2>6. ASSUME NEW z \in B PROVE \E t \in S : z = f[t]
    <3>1. PICK lowering \in Split, x \in I, packs \in BOOLEAN : z = F(lowering, x, packs)
      BY <2>3
    <3>2. PICK l \in L : l[1] = x /\ l[2] = packs
      <4> DEFINE Bool == BOOLEAN
      <4>1. L = I \X Bool /\ packs \in Bool
        OBVIOUS
      <4> HIDE DEF Bool, L
      <4>2. \A a \in I, b \in Bool : \E t \in L : t[1] = a /\ t[2] = b
        BY <4>1, PairExists
      <4>3. QED
        BY <4>1, <4>2, Zenon
    <3>3. PICK t \in S : t[1] = lowering /\ t[2] = l
      <4> HIDE DEF L
      <4>1. QED
        BY PairExists
    <3>4. f[t] = F(t[1], t[2][1], t[2][2])
      <4> HIDE DEF S
      <4>1. QED
        OBVIOUS
    <3>5. f[t] = F(lowering, x, packs)
      <4> HIDE DEF f, S, L
      <4>1. QED
        BY <3>2, <3>3, <3>4, Zenon
    <3>6. QED
      <4> HIDE DEF f, S
      <4>1. QED
        BY <3>1, <3>5, Zenon
  <2>7. DOMAIN f = S
    OBVIOUS
  <2> HIDE DEF f, S
  <2>8. QED
    BY <2>5, <2>6, <2>7, PartFinite
<1> HIDE DEF A, B
<1>6. IsFiniteSet(A \cup B)
  BY <1>4, <1>5, FS_Union
<1>7. ParallelPlans \in SUBSET (A \cup B)
  BY <1>1
<1>8. QED
  BY <1>6, <1>7, FS_Subset

LEMMA LinearPlansFinite ==
  IsFiniteSet(LinearPlans)
<1> DEFINE X == {<<1, 1>>, <<2, 1>>, <<1, 2>>}
           N == 1..16
           f == [x \in X |-> LinearPlan("linear_scan", 1, x[1] * Lanes, x[2] * Lanes)]
           g == [b \in N |-> LinearPlan("linear_chunked", b, Lanes, Lanes)]
           h == [b \in N |-> LinearPlan("linear_delta", b, Lanes, Lanes)]
           A == {f[x] : x \in X}
           B == {LinearPlan("linear_2d", 1, Lanes, Lanes)}
           C == {g[b] : b \in N}
           D == {h[b] : b \in N}
<1>1. IsFiniteSet(X) /\ IsFiniteSet(N) /\ IsFiniteSet(B)
  <2>1. IsFiniteSet(X)
    BY TripleFinite
  <2>2. IsFiniteSet(N)
    <3>1. 1 \in Int /\ 16 \in Int
      OBVIOUS
    <3>2. QED
      BY <3>1, FS_Interval
  <2>3. IsFiniteSet(B)
    BY FS_Singleton
  <2>4. QED
    BY <2>1, <2>2, <2>3
<1>2. DOMAIN f = X /\ DOMAIN g = N /\ DOMAIN h = N
  OBVIOUS
<1>3. LinearPlans \subseteq ((A \cup B) \cup C) \cup D
  <2> SUFFICES ASSUME NEW k \in LinearPlans PROVE k \in ((A \cup B) \cup C) \cup D
    OBVIOUS
  <2>1. CASE k \in {LinearPlan("linear_scan", 1, x[1] * Lanes, x[2] * Lanes) : x \in {<<1, 1>>, <<2, 1>>, <<1, 2>>}}
    <3>1. k \in A
      BY <2>1
    <3>2. QED
      BY <3>1, Zenon
  <2>2. CASE k \in {LinearPlan("linear_2d", 1, Lanes, Lanes)}
    <3>1. k \in B
      BY <2>2
    <3>2. QED
      BY <3>1, Zenon
  <2>3. CASE k \in {LinearPlan("linear_chunked", b, Lanes, Lanes) :
                      b \in IF call.form # "block" THEN {} ELSE IF Lanes >= 8 THEN {2, 4, 6} ELSE {2, 4}}
    <3>1. PICK b \in {2, 4, 6} : k = LinearPlan("linear_chunked", b, Lanes, Lanes)
      BY <2>3
    <3>2. b \in N
      OBVIOUS
    <3>3. k = g[b]
      BY <3>1, <3>2
    <3>4. k \in C
      BY <3>2, <3>3
    <3>5. QED
      BY <3>4, Zenon
  <2>4. CASE k \in {LinearPlan("linear_delta", b, Lanes, Lanes) :
                      b \in IF call.form # "delta" THEN {} ELSE IF Lanes >= 8 THEN {4, 8, 16} ELSE {2, 4}}
    <3>1. PICK b \in {2, 4, 8, 16} : k = LinearPlan("linear_delta", b, Lanes, Lanes)
      BY <2>4
    <3>2. b \in N
      OBVIOUS
    <3>3. k = h[b]
      BY <3>1, <3>2
    <3>4. k \in D
      BY <3>2, <3>3
    <3>5. QED
      BY <3>4, Zenon
  <2>5. QED
    BY <2>1, <2>2, <2>3, <2>4 DEF LinearPlans
<1> HIDE DEF X, N, f, g, h, B
<1>4. IsFiniteSet(A) /\ IsFiniteSet(C) /\ IsFiniteSet(D)
  BY <1>1, <1>2, ImageFinite
<1> HIDE DEF A, C, D
<1>5. IsFiniteSet(A \cup B)
  BY <1>1, <1>4, FS_Union
<1>6. IsFiniteSet((A \cup B) \cup C)
  BY <1>4, <1>5, FS_Union
<1>7. IsFiniteSet(((A \cup B) \cup C) \cup D)
  BY <1>4, <1>6, FS_Union
<1>8. QED
  BY <1>3, <1>7, FS_Subset

LEMMA CodePlansFinite ==
  IsFiniteSet(CodePlans)
<1>1. CodePlans = ParallelPlans \/ CodePlans = LinearPlans
  BY DEF CodePlans
<1>2. QED
  BY <1>1, ParallelPlansFinite, LinearPlansFinite

LEMMA SizesFinite ==
  ASSUME HostIsReal, NEW limit \in Int
  PROVE  IsFiniteSet(Sizes(limit))
<1> DEFINE E == {f \in 1..limit : 2^f <= limit}
           p == [e \in E |-> 2^e]
           s == [n \in Nodes |-> Smaller(limit, Len(NodeCpus(n)))]
           B == {p[e] : e \in E}
           C == {s[n] : n \in Nodes}
<1>1. Sizes(limit) = ({1, limit} \cup B) \cup C
  BY DEF Sizes
<1>2. IsFiniteSet(E)
  <2>1. IsFiniteSet(1..limit)
    <3>1. 1 \in Int
      OBVIOUS
    <3>2. QED
      BY <3>1, FS_Interval
  <2>2. E \in SUBSET (1..limit)
    OBVIOUS
  <2>3. QED
    BY <2>1, <2>2, FS_Subset
<1>3. IsFiniteSet(Nodes)
  <2> DEFINE f == [c \in Cpus |-> Node(c)]
  <2>1. Nodes = {f[c] : c \in Cpus} /\ DOMAIN f = Cpus
    BY DEF Nodes
  <2> HIDE DEF f
  <2>2. QED
    BY <2>1, HostFacts, ImageFinite
<1>4. DOMAIN p = E /\ DOMAIN s = Nodes
  OBVIOUS
<1> HIDE DEF p, s, E
<1>5. IsFiniteSet(B)
  BY <1>2, <1>4, ImageFinite
<1>6. IsFiniteSet(C)
  BY <1>3, <1>4, ImageFinite
<1> HIDE DEF B, C
<1>7. IsFiniteSet({1, limit})
  BY PairFinite
<1> DEFINE A == {1, limit}
<1>8. Sizes(limit) = (A \cup B) \cup C /\ IsFiniteSet(A)
  BY <1>1, <1>7
<1> HIDE DEF A
<1>9. IsFiniteSet(A \cup B)
  BY <1>5, <1>8, FS_Union
<1>10. QED
  BY <1>6, <1>8, <1>9, FS_Union

LEMMA CandidateCpusFinite ==
  ASSUME HostIsReal, LegalCall(call), NEW k, LegalCode(k), k.kind = call.kind
  PROVE  IsFiniteSet(CandidateCpus(k))
<1> DEFINE limit == Smaller(MaximumParallelism(k), Cardinality(PhysicalCpus))
<1>1. limit \in Int
  BY ParallelismType, CoresDiffer DEF Smaller
<1> DEFINE b == Balanced
           near(n) == {SubSeq(NodeCpus(n), 1, w) : w \in Sizes(limit) \cap 1..Len(NodeCpus(n))}
           far == {SubSeq(b, 1, w) : w \in Sizes(limit) \ {1}}
<1>2. CandidateCpus(k) = (UNION {near(n) : n \in Nodes}) \cup far
  BY DEF CandidateCpus
<1> HIDE DEF limit
<1>3. IsFiniteSet(Sizes(limit))
  BY <1>1, SizesFinite
<1>4. IsFiniteSet(Nodes)
  <2> DEFINE f == [c \in Cpus |-> Node(c)]
  <2>1. Nodes = {f[c] : c \in Cpus} /\ DOMAIN f = Cpus
    BY DEF Nodes
  <2> HIDE DEF f
  <2>2. QED
    BY <2>1, HostFacts, ImageFinite
<1>5. ASSUME NEW n PROVE IsFiniteSet(near(n))
  <2> DEFINE W == Sizes(limit) \cap 1..Len(NodeCpus(n))
             f == [w \in W |-> SubSeq(NodeCpus(n), 1, w)]
  <2>1. W \in SUBSET Sizes(limit)
    OBVIOUS
  <2>2. IsFiniteSet(W)
    BY <1>3, <2>1, FS_Subset
  <2>3. near(n) = {f[w] : w \in W} /\ DOMAIN f = W
    OBVIOUS
  <2> HIDE DEF f, W, near
  <2>4. QED
    BY <2>2, <2>3, ImageFinite
<1>6. IsFiniteSet(far)
  <2> DEFINE W == Sizes(limit) \ {1}
             f == [w \in W |-> SubSeq(b, 1, w)]
  <2>1. W \in SUBSET Sizes(limit)
    OBVIOUS
  <2>2. IsFiniteSet(W)
    BY <1>3, <2>1, FS_Subset
  <2>3. far = {f[w] : w \in W} /\ DOMAIN f = W
    OBVIOUS
  <2> HIDE DEF f, W, far
  <2>4. QED
    BY <2>2, <2>3, ImageFinite
<1>7. IsFiniteSet(UNION {near(n) : n \in Nodes})
  <2> DEFINE f == [n \in Nodes |-> near(n)]
  <2>1. {near(n) : n \in Nodes} = {f[n] : n \in Nodes} /\ DOMAIN f = Nodes
    <3> HIDE DEF near
    <3>1. QED
      OBVIOUS
  <2>2. \A n \in Nodes : IsFiniteSet(f[n])
    BY <1>5
  <2> HIDE DEF f, near
  <2>3. IsFiniteSet(UNION {f[n] : n \in Nodes})
    BY <1>4, <2>1, <2>2, FamilyFinite
  <2>4. QED
    BY <2>1, <2>3, Zenon
<1> DEFINE N == UNION {near(n) : n \in Nodes}
<1>8. CandidateCpus(k) = N \cup far /\ IsFiniteSet(N)
  BY <1>2, <1>7
<1> HIDE DEF N, far
<1>9. QED
  BY <1>6, <1>8, FS_Union

LEMMA LaunchPlansFinite ==
  ASSUME HostIsReal, LegalCall(call), NEW k, LegalCode(k), k.kind = call.kind
  PROVE  IsFiniteSet(LaunchPlans(k))
<1> DEFINE S == CandidateCpus(k)
           f == [c \in S |-> [cpus |-> c, groups |-> Groups(c)]]
<1>1. IsFiniteSet(S)
  BY CandidateCpusFinite
<1>2. \A l \in LaunchPlans(k) : \E c \in S : l = f[c]
  BY DEF LaunchPlans
<1>3. DOMAIN f = S
  OBVIOUS
<1> HIDE DEF f, S
<1>4. QED
  BY <1>1, <1>2, <1>3, PartFinite

LEMMA MemoryPlansFinite ==
  ASSUME NEW k, LegalCode(k), NEW l, SharesOut(l)
  PROVE  IsFiniteSet(MemoryPlans(k, l))
<1> DEFINE G == DOMAIN l.groups
           one == [g \in G |-> <<g>>]
           A == {one[g] : g \in G}
           B == {[g \in G |-> g]}
           S == A \cup B \cup {<<>>}
           f == [owners \in S |->
                  [owners |-> owners, regions |-> Regions(k, l, owners),
                   total |-> PrivateOffset(k, l, owners) + Len(l.cpus) * WorkerStride(k, call)]]
<1>1. IsFiniteSet(G)
  <2>1. G = 1..Len(l.groups) /\ Len(l.groups) \in Int /\ 1 \in Int
    BY DEF SharesOut
  <2>2. QED
    BY <2>1, FS_Interval
<1>2. DOMAIN one = G
  OBVIOUS
<1>3. PackedOwners(l.groups) \subseteq A \cup B
  BY DEF PackedOwners
<1> HIDE DEF G, one
<1>4. IsFiniteSet(A)
  BY <1>1, <1>2, ImageFinite
<1>5. IsFiniteSet(B)
  BY FS_Singleton
<1> HIDE DEF A, B
<1>6. IsFiniteSet(S)
  <2>1. IsFiniteSet(A \cup B)
    BY <1>4, <1>5, FS_Union
  <2>2. IsFiniteSet({<<>>})
    BY FS_Singleton
  <2>3. QED
    BY <2>1, <2>2, FS_Union
<1>7. \A m \in MemoryPlans(k, l) : \E owners \in S : m = f[owners]
  <2> SUFFICES ASSUME NEW m \in MemoryPlans(k, l) PROVE \E owners \in S : m = f[owners]
    OBVIOUS
  <2>1. PICK owners \in (IF k.packs THEN PackedOwners(l.groups) ELSE {<<>>}) :
          m = [owners |-> owners, regions |-> Regions(k, l, owners),
               total |-> PrivateOffset(k, l, owners) + Len(l.cpus) * WorkerStride(k, call)]
    BY DEF MemoryPlans
  <2>2. owners \in S
    BY <1>3, <2>1
  <2> HIDE DEF S
  <2>3. QED
    BY <2>1, <2>2
<1>8. DOMAIN f = S
  OBVIOUS
<1> HIDE DEF f, S
<1>9. QED
  BY <1>6, <1>7, <1>8, PartFinite

LEMMA CandidatesFinite ==
  ASSUME HostMatches
  PROVE  IsFiniteSet(Candidates)
<1> DEFINE plan(k, l, m) == [code |-> k, launch |-> l, memory |-> m]
           of(k, l) == {plan(k, l, m) : m \in MemoryPlans(k, l)}
           by(k) == UNION {of(k, l) : l \in LaunchPlans(k)}
<1>1. Candidates = UNION {by(k) : k \in CodePlans}
  BY DEF Candidates
<1>2. HostIsReal /\ LegalCall(call)
  BY DEF HostMatches
<1>3. ASSUME NEW k \in CodePlans, NEW l \in LaunchPlans(k) PROVE IsFiniteSet(of(k, l))
  <2>1. LegalCode(k) /\ k.kind = call.kind
    BY CodePlansAreLegal DEF IsCode
  <2>2. PICK cpus \in CandidateCpus(k) : cpus # <<>> /\ l = [cpus |-> cpus, groups |-> Groups(cpus)]
    BY DEF LaunchPlans
  <2>3. IsTeam(cpus)
    BY <1>2, <2>1, <2>2, CandidatesAreTeams
  <2>4. SharesOut(l)
    BY <1>2, <2>2, <2>3, GroupsShareOut
  <2> DEFINE S == MemoryPlans(k, l)
             f == [m \in S |-> plan(k, l, m)]
  <2>5. IsFiniteSet(S)
    BY <2>1, <2>4, MemoryPlansFinite
  <2>6. of(k, l) = {f[m] : m \in S} /\ DOMAIN f = S
    OBVIOUS
  <2> HIDE DEF S, f, of
  <2>7. QED
    BY <2>5, <2>6, ImageFinite
<1> HIDE DEF of
<1>4. ASSUME NEW k \in CodePlans PROVE IsFiniteSet(by(k))
  <2>1. LegalCode(k) /\ k.kind = call.kind
    BY CodePlansAreLegal DEF IsCode
  <2> DEFINE S == LaunchPlans(k)
             f == [l \in S |-> of(k, l)]
  <2>2. IsFiniteSet(S)
    BY <1>2, <2>1, LaunchPlansFinite
  <2>3. by(k) = UNION {f[l] : l \in S} /\ DOMAIN f = S
    OBVIOUS
  <2>4. \A l \in S : IsFiniteSet(f[l])
    BY <1>3
  <2> HIDE DEF S, f, by
  <2>5. QED
    BY <2>2, <2>3, <2>4, FamilyFinite
<1> HIDE DEF by
<1>5. IsFiniteSet(UNION {by(k) : k \in CodePlans})
  <2> DEFINE f == [k \in CodePlans |-> by(k)]
  <2>1. {by(k) : k \in CodePlans} = {f[k] : k \in CodePlans} /\ DOMAIN f = CodePlans
    OBVIOUS
  <2>2. \A k \in CodePlans : IsFiniteSet(f[k])
    BY <1>4
  <2> HIDE DEF f
  <2>3. QED
    BY <2>1, <2>2, CodePlansFinite, FamilyFinite
<1>6. QED
  BY <1>1, <1>5

LEMMA CandidatesArePlans ==
  ASSUME HostMatches, NEW p \in Candidates
  PROVE  /\ p = [code |-> p.code, launch |-> p.launch, memory |-> p.memory]
         /\ p.code \in CodePlans /\ p.launch \in LaunchPlans(p.code)
         /\ p.memory \in MemoryPlans(p.code, p.launch)
         /\ IsPlan(p.code, p.launch, p.memory)
<1>1. PICK k \in CodePlans : \E l \in LaunchPlans(k) : \E m \in MemoryPlans(k, l) :
        p = [code |-> k, launch |-> l, memory |-> m]
  BY DEF Candidates
<1>2. PICK l \in LaunchPlans(k) : \E m \in MemoryPlans(k, l) :
        p = [code |-> k, launch |-> l, memory |-> m]
  BY <1>1
<1>3. PICK m \in MemoryPlans(k, l) : p = [code |-> k, launch |-> l, memory |-> m]
  BY <1>2
<1>4. p.code = k /\ p.launch = l /\ p.memory = m
  BY <1>3
<1>5. LegalCode(k) /\ k.kind = call.kind
  BY CodePlansAreLegal DEF IsCode
<1>6. IsPlan(k, l, m)
  BY <1>5, PlansAreLegal DEF HostMatches
<1>7. QED
  BY <1>3, <1>4, <1>6

(* Every plan made of a code, a launch and a memory plan is a candidate. *)
LEMMA PlansAreCandidates ==
  ASSUME NEW k \in CodePlans, NEW l \in LaunchPlans(k), NEW m \in MemoryPlans(k, l)
  PROVE  [code |-> k, launch |-> l, memory |-> m] \in Candidates
<1>1. [code |-> k, launch |-> l, memory |-> m] \in
        UNION {{[code |-> k, launch |-> j, memory |-> n] : n \in MemoryPlans(k, j)} : j \in LaunchPlans(k)}
  OBVIOUS
<1>2. QED
  BY <1>1 DEF Candidates

(* A key: a sequence of numbers. *)
IsKey(a) == Len(a) \in Nat /\ a \in [1..Len(a) -> Int]

LEMMA PrecedesIsAnOrder ==
  ASSUME NEW a, NEW b, NEW c, IsKey(a), IsKey(b), IsKey(c)
  PROVE  /\ ~Precedes(a, a)
         /\ Len(a) = Len(b) /\ Len(b) = Len(c) /\ Precedes(a, b) /\ Precedes(b, c) => Precedes(a, c)
<1>1. ~Precedes(a, a)
  BY DEF Precedes, IsKey
<1>2. ASSUME Len(a) = Len(b), Len(b) = Len(c), Precedes(a, b), Precedes(b, c) PROVE Precedes(a, c)
  <2> DEFINE n == Len(a)
  <2>1. /\ n \in Nat /\ DOMAIN a = 1..n /\ DOMAIN b = 1..n /\ DOMAIN c = 1..n
        /\ \A i \in 1..n : a[i] \in Int /\ b[i] \in Int /\ c[i] \in Int
    BY <1>2 DEF IsKey
  <2>2. PICK i \in 1..n : a[i] < b[i] /\ \A j \in 1..i - 1 : a[j] = b[j]
    BY <1>2, <2>1 DEF Precedes
  <2>3. PICK k \in 1..n : b[k] < c[k] /\ \A j \in 1..k - 1 : b[j] = c[j]
    BY <1>2, <2>1 DEF Precedes
  <2> HIDE DEF n
  <2>4. CASE i <= k
    <3>1. a[i] < c[i]
      <4>1. CASE i = k
        BY <2>1, <2>2, <2>3, <4>1
      <4>2. CASE i < k
        <5>1. i \in 1..k - 1
          BY <2>1, <4>2
        <5>2. QED
          BY <2>2, <2>3, <5>1
      <4>3. QED
        BY <2>1, <2>4, <4>1, <4>2
    <3>2. \A j \in 1..i - 1 : j \in 1..k - 1
      BY <2>1, <2>4
    <3>3. \A j \in 1..i - 1 : a[j] = c[j]
      BY <2>2, <2>3, <3>2
    <3>4. QED
      BY <2>1, <3>1, <3>3 DEF Precedes
  <2>5. CASE k < i
    <3>1. k \in 1..i - 1
      BY <2>1, <2>5
    <3>2. a[k] < c[k]
      BY <2>2, <2>3, <3>1
    <3>3. \A j \in 1..k - 1 : j \in 1..i - 1
      BY <2>1, <2>5
    <3>4. \A j \in 1..k - 1 : a[j] = c[j]
      BY <2>2, <2>3, <3>3
    <3>5. QED
      BY <2>1, <3>2, <3>4 DEF Precedes
  <2>6. QED
    BY <2>1, <2>4, <2>5
<1>3. QED
  BY <1>1, <1>2

LEMMA KeysJoin ==
  ASSUME NEW a, NEW b, IsKey(a), IsKey(b)
  PROVE  /\ IsKey(a \o b) /\ Len(a \o b) = Len(a) + Len(b)
         /\ \A i \in 1..Len(a) : (a \o b)[i] = a[i]
         /\ \A i \in 1..Len(b) : (a \o b)[Len(a) + i] = b[i]
<1> DEFINE m == Len(a)
           n == Len(b)
<1>1. a \in Seq(Int) /\ b \in Seq(Int) /\ m \in Nat /\ n \in Nat
  BY DEF IsKey
<1>2. a \o b \in Seq(Int) /\ Len(a \o b) = m + n
  BY <1>1
<1>3. \A i \in 1..m : (a \o b)[i] = a[i]
  BY <1>1
<1>4. \A i \in 1..n : (a \o b)[m + i] = b[i]
  BY <1>1
<1>5. a \o b \in [1..m + n -> Int]
  <2> DEFINE s == a \o b
  <2>1. s \in Seq(Int) /\ Len(s) = m + n
    BY <1>2
  <2> HIDE DEF s
  <2>2. s \in [1..Len(s) -> Int]
    BY <2>1
  <2>3. QED
    BY <2>1, <2>2 DEF s
<1>6. QED
  BY <1>1, <1>2, <1>3, <1>4, <1>5 DEF IsKey

LEMMA DistanceType ==
  ASSUME NEW a \in Int, NEW b \in Int
  PROVE  Distance(a, b) \in Int
BY DEF Distance

LEMMA UnlikeType ==
  ASSUME NEW a, NEW b
  PROVE  Unlike(a, b) \in Int
BY DEF Unlike

LEMMA LoweringsInOrder ==
  ASSUME NEW k, LegalCode(k)
  PROVE  LoweringOrder[k.lowering] \in Int
<1>1. k.lowering \in {"parallel_blocked", "parallel_split_k", "parallel_2d", "linear_chunked",
                      "linear_delta", "linear_scan", "linear_2d"}
  BY DEF LegalCode, Split, Blocks
<1>2. QED
  BY <1>1 DEF LoweringOrder

(* The length of the part of a key that ranks the code. *)
CodeParts == IF call.kind = "parallel" THEN 7 ELSE 4

CodeKey(k) == IF k.kind = "parallel" THEN ParallelKey(k) ELSE LinearKey(k)

LEMMA CodeKeyIsKey ==
  ASSUME HostMatches, NEW k, IsCode(k)
  PROVE  IsKey(CodeKey(k)) /\ Len(CodeKey(k)) = CodeParts /\ CodeParts \in {4, 7}
<1>1. /\ LegalCode(k) /\ k.kind = call.kind /\ k.tileQ \in Int /\ k.tileK \in Int
      /\ k.tileDV \in Int /\ k.tileD \in Int /\ k.vectors \in Int
  BY DEF IsCode, LegalCode
<1>2. Lanes \in {16, 8, 4}
  BY LanesAre
<1>3. LoweringOrder[k.lowering] \in Int
  BY <1>1, LoweringsInOrder
<1>4. CASE call.kind = "parallel"
  <2> DEFINE a == LoweringOrder[k.lowering]
             b == Unlike(k.dynamic, PrefersDynamic)
             c == Unlike(k.packs, PrefersPacked)
             d == Distance(k.tileQ, IF Lanes >= 16 THEN 8 ELSE 4)
             e == Distance(k.vectors, 2)
             f == Distance(k.tileK, (IF Lanes >= 16 THEN 4 ELSE 2) * Lanes)
             g == Distance(k.tileDV, (IF Lanes >= 16 THEN 2 ELSE 1) * Lanes)
  <2>1. CodeKey(k) = <<a, b, c, d, e, f, g>>
    BY <1>1, <1>4 DEF CodeKey, ParallelKey
  <2>2. /\ (IF Lanes >= 16 THEN 8 ELSE 4) \in Int
        /\ (IF Lanes >= 16 THEN 4 ELSE 2) * Lanes \in Int
        /\ (IF Lanes >= 16 THEN 2 ELSE 1) * Lanes \in Int
    BY <1>2
  <2>3. d \in Int /\ e \in Int /\ f \in Int /\ g \in Int
    <3>1. d \in Int
      BY <1>1, <2>2, DistanceType
    <3>2. e \in Int
      <4>1. 2 \in Int /\ k.vectors \in Int
        BY <1>1
      <4>2. QED
        BY <4>1, DistanceType
    <3>3. f \in Int
      BY <1>1, <2>2, DistanceType
    <3>4. g \in Int
      BY <1>1, <2>2, DistanceType
    <3>5. QED
      BY <3>1, <3>2, <3>3, <3>4
  <2>4. a \in Int /\ b \in Int /\ c \in Int
    BY <1>3, UnlikeType
  <2> HIDE DEF a, b, c, d, e, f, g
  <2>5. <<a, b, c, d, e, f, g>> \in Seq(Int) /\ Len(<<a, b, c, d, e, f, g>>) = 7
    BY <2>3, <2>4
  <2>6. QED
    BY <1>4, <2>1, <2>5 DEF IsKey, CodeParts
<1>5. CASE call.kind = "linear"
  <2> DEFINE a == LoweringOrder[k.lowering]
             b == IF k.lowering = "linear_delta" THEN -k.tileQ
                  ELSE Distance(k.tileQ, Smaller(4, call.tokens))
             c == Distance(k.tileD, Lanes)
             d == Distance(k.tileDV, 2 * Lanes)
  <2>1. CodeKey(k) = <<a, b, c, d>>
    BY <1>1, <1>5 DEF CodeKey, LinearKey
  <2>2. Smaller(4, call.tokens) \in Int /\ 2 * Lanes \in Int /\ Lanes \in Int
    BY <1>2, <1>5 DEF HostMatches, LegalCall, Smaller
  <2>3. b \in Int /\ c \in Int /\ d \in Int
    <3>1. Distance(k.tileQ, Smaller(4, call.tokens)) \in Int
      BY <1>1, <2>2, DistanceType
    <3>2. -k.tileQ \in Int
      BY <1>1
    <3>3. c \in Int
      BY <1>1, <2>2, DistanceType
    <3>4. d \in Int
      BY <1>1, <2>2, DistanceType
    <3>5. QED
      BY <3>1, <3>2, <3>3, <3>4
  <2>4. a \in Int
    BY <1>3
  <2> HIDE DEF a, b, c, d
  <2>5. <<a, b, c, d>> \in Seq(Int) /\ Len(<<a, b, c, d>>) = 4
    BY <2>3, <2>4
  <2>6. QED
    BY <1>5, <2>1, <2>5 DEF IsKey, CodeParts
<1>6. QED
  BY <1>4, <1>5 DEF HostMatches, LegalCall

LEMMA TotalType ==
  ASSUME LegalCall(call), NEW k, NEW l, NEW m, IsPlan(k, l, m)
  PROVE  m.total \in Int /\ Len(m.owners) \in Nat
<1>1. LegalCode(k) /\ k.kind = call.kind
  BY DEF IsPlan
<1>2. PackedCopy(k, call, PlannedSkv) \in Nat
  BY <1>1, PlannedLength, CopyLaws
<1>3. WorkerStride(k, call) \in Nat
  BY <1>1, StrideLaws
<1>4. Len(m.owners) \in Nat
  BY DEF IsPlan, OwnersAre
<1>5. Len(l.cpus) \in Nat
  BY DEF IsPlan, SharesOut, IsTeam
<1> DEFINE c == PackedCopy(k, call, PlannedSkv)
           s == WorkerStride(k, call)
           o == Len(m.owners)
           w == Len(l.cpus)
<1>6. m.total = o * c + w * s
  BY DEF IsPlan, PrivateOffset
<1> HIDE DEF c, s, o, w
<1>7. o \in Nat /\ c \in Nat /\ w \in Nat /\ s \in Nat
  BY <1>2, <1>3, <1>4, <1>5 DEF c, s, o, w
<1>8. o * c + w * s \in Int
  BY <1>7
<1>9. QED
  BY <1>4, <1>6, <1>8

(* Keys of one team are of one length: the code, the placement, the CPUs. *)
LEMMA PreferenceIsKey ==
  ASSUME HostMatches, NEW p \in Candidates
  PROVE  /\ IsKey(Preference(p)) /\ Len(Preference(p)) = CodeParts + 3 + Team(p)
         /\ CodeParts \in {4, 7} /\ Team(p) \in Nat \ {0}
         /\ \A i \in 1..CodeParts : Preference(p)[i] = CodeKey(p.code)[i]
         /\ Preference(p)[CodeParts + 1] = IF Len(p.launch.groups) > 1 THEN 1 ELSE 0
         /\ Preference(p)[CodeParts + 2] = -Len(p.memory.owners)
<1>1. IsCode(p.code) /\ IsPlan(p.code, p.launch, p.memory) /\ LegalCall(call)
  BY CandidatesArePlans, CodePlansAreLegal DEF HostMatches
<1> DEFINE a == CodeKey(p.code)
           x == IF Len(p.launch.groups) > 1 THEN 1 ELSE 0
           y == -Len(p.memory.owners)
           z == p.memory.total
           b == <<x, y, z>>
           c == p.launch.cpus
<1>2. Preference(p) = a \o (b \o c)
  BY DEF Preference, CodeKey, PlacementKey
<1>3. IsKey(a) /\ Len(a) = CodeParts /\ CodeParts \in {4, 7}
  BY <1>1, CodeKeyIsKey
<1>4. x \in Int /\ y \in Int /\ z \in Int
  BY <1>1, TotalType
<1>5. IsKey(c) /\ Len(c) = Team(p) /\ Len(c) \in Nat \ {0}
  <2>1. Len(c) \in Nat \ {0} /\ c \in [1..Len(c) -> PhysicalCpus]
    BY <1>1 DEF IsPlan, SharesOut, IsTeam
  <2>2. PhysicalCpus \subseteq Int
    BY CoresDiffer DEF HostMatches
  <2>3. QED
    BY <2>1, <2>2 DEF IsKey, Team
<1> HIDE DEF a, c, x, y, z
<1>6. IsKey(b) /\ Len(b) = 3 /\ b[1] = x /\ b[2] = y
  <2>1. b \in Seq(Int) /\ Len(b) = 3
    BY <1>4
  <2>2. QED
    BY <1>4, <2>1 DEF IsKey
<1> HIDE DEF b
<1>7. /\ IsKey(b \o c) /\ Len(b \o c) = 3 + Len(c)
      /\ \A i \in 1..3 : (b \o c)[i] = b[i]
  <2>1. /\ IsKey(b \o c) /\ Len(b \o c) = Len(b) + Len(c)
        /\ \A i \in 1..Len(b) : (b \o c)[i] = b[i]
    <3>1. IsKey(b) /\ IsKey(c)
      BY <1>5, <1>6
    <3>2. QED
      BY <3>1, KeysJoin, Zenon
  <2>2. Len(b) = 3
    BY <1>6
  <2>3. QED
    BY <2>1, <2>2
<1> DEFINE d == b \o c
<1> HIDE DEF d
<1>8. /\ IsKey(a \o d) /\ Len(a \o d) = CodeParts + Len(d)
      /\ \A i \in 1..CodeParts : (a \o d)[i] = a[i]
      /\ \A i \in 1..Len(d) : (a \o d)[CodeParts + i] = d[i]
  <2>1. IsKey(d)
    BY <1>7 DEF d
  <2>2. QED
    BY <1>3, <2>1, KeysJoin
<1>9. Len(d) = 3 + Team(p) /\ d[1] = x /\ d[2] = y
  BY <1>5, <1>6, <1>7 DEF d
<1>10. 1 \in 1..Len(d) /\ 2 \in 1..Len(d)
  BY <1>5, <1>9
<1>11. Preference(p) = a \o d
  BY <1>2 DEF d
<1>12. (a \o d)[CodeParts + 1] = x /\ (a \o d)[CodeParts + 2] = y
  BY <1>8, <1>9, <1>10
<1>13. Len(a \o d) = CodeParts + 3 + Team(p)
  BY <1>3, <1>5, <1>8, <1>9
<1>14. QED
  BY <1>3, <1>5, <1>8, <1>11, <1>12, <1>13 DEF a, x, y

LEMMA PreferredIsBest ==
  ASSUME HostMatches, NEW G, G \subseteq Candidates, G # {}, NEW w, \A p \in G : Team(p) = w
  PROVE  /\ Preferred(G) \in G
         /\ \A q \in G : ~Precedes(Preference(q), Preference(Preferred(G)))
<1> DEFINE key(p) == Preference(p)
           R == {t \in G \X G : Precedes(key(t[1]), key(t[2]))}
           K == {<<key(p), p>> : p \in G}
<1>1. IsFiniteSet(G)
  BY CandidatesFinite, FS_Subset
<1>2. ASSUME NEW p \in G PROVE IsKey(key(p)) /\ Len(key(p)) = CodeParts + 3 + w
  BY PreferenceIsKey
<1> HIDE DEF key
<1>3. \A p \in G : \A q \in G : <<p, q>> \in R <=> Precedes(key(p), key(q))
  OBVIOUS
<1>4. \A p \in G : <<p, p>> \notin R
  <2> SUFFICES ASSUME NEW p \in G PROVE <<p, p>> \notin R
    OBVIOUS
  <2>1. ~Precedes(key(p), key(p))
    BY <1>2, PrecedesIsAnOrder
  <2>2. QED
    BY <1>3, <2>1
<1>5. ASSUME NEW p \in G, NEW q \in G, NEW r \in G, <<p, q>> \in R, <<q, r>> \in R
      PROVE  <<p, r>> \in R
  <2>1. Precedes(key(p), key(q)) /\ Precedes(key(q), key(r))
    BY <1>3, <1>5
  <2>2. IsKey(key(p)) /\ IsKey(key(q)) /\ IsKey(key(r))
        /\ Len(key(p)) = Len(key(q)) /\ Len(key(q)) = Len(key(r))
    BY <1>2
  <2>3. Precedes(key(p), key(r))
    BY <2>1, <2>2, PrecedesIsAnOrder
  <2>4. QED
    BY <1>3, <2>3
<1> HIDE DEF R
<1>6. PICK p \in G : \A q \in G : <<q, p>> \notin R
  BY <1>1, <1>4, <1>5, MinimalExists
<1>7. \A x \in K : \E q \in G : x = <<key(q), q>> /\ x[1] = key(q) /\ x[2] = q
  OBVIOUS
<1>8. \E x \in K : \A y \in K : ~Precedes(y[1], x[1])
  <2> DEFINE x == <<key(p), p>>
  <2>1. x \in K /\ x[1] = key(p)
    OBVIOUS
  <2>2. ASSUME NEW y \in K PROVE ~Precedes(y[1], x[1])
    <3>1. PICK q \in G : y[1] = key(q)
      BY <1>7
    <3>2. ~Precedes(key(q), key(p))
      BY <1>3, <1>6
    <3>3. QED
      BY <2>1, <3>1, <3>2
  <2> HIDE DEF x, K
  <2>3. QED
    BY <2>1, <2>2
<1> DEFINE c == CHOOSE x \in K : \A y \in K : ~Precedes(y[1], x[1])
<1>9. c \in K /\ \A y \in K : ~Precedes(y[1], c[1])
  <2> HIDE DEF K
  <2>1. QED
    BY <1>8
<1>10. Preferred(G) = c[2]
  BY DEF Preferred, key
<1>11. \A q \in G : \E y \in K : y[1] = key(q)
  <2> SUFFICES ASSUME NEW q \in G PROVE \E y \in K : y[1] = key(q)
    OBVIOUS
  <2>1. <<key(q), q>> \in K /\ <<key(q), q>>[1] = key(q)
    OBVIOUS
  <2> HIDE DEF K
  <2>2. QED
    BY <2>1
<1> HIDE DEF c, K
<1>12. PICK g \in G : c[1] = key(g) /\ c[2] = g
  BY <1>7, <1>9
<1>13. Preferred(G) = g
  BY <1>10, <1>12
<1>14. \A q \in G : ~Precedes(key(q), key(g))
  BY <1>9, <1>11, <1>12
<1>15. QED
  BY <1>13, <1>14 DEF key

LEMMA GreatestOf ==
  ASSUME NEW S, IsFiniteSet(S), S # {}, S \subseteq Int
  PROVE  Max(S) \in S /\ \A x \in S : x <= Max(S)
<1> DEFINE R == {t \in S \X S : t[2] < t[1]}
<1>1. \A x \in S : x \in Int
  OBVIOUS
<1>2. \A x \in S : \A y \in S : <<x, y>> \in R <=> y < x
  OBVIOUS
<1> HIDE DEF R
<1>3. \A x \in S : <<x, x>> \notin R
  BY <1>1, <1>2
<1>4. \A x \in S : \A y \in S : \A z \in S : <<x, y>> \in R /\ <<y, z>> \in R => <<x, z>> \in R
  BY <1>1, <1>2
<1>5. PICK x \in S : \A y \in S : <<y, x>> \notin R
  BY <1>3, <1>4, MinimalExists
<1>6. ASSUME NEW y \in S PROVE x >= y
  <2>1. <<y, x>> \notin R
    BY <1>5
  <2>2. ~(x < y)
    BY <1>2, <2>1
  <2>3. QED
    BY <1>1, <2>2
<1>7. Max(S) \in S /\ \A y \in S : Max(S) >= y
  BY <1>6 DEF Max
<1>8. QED
  BY <1>1, <1>7

LEMMA LeastOf ==
  ASSUME NEW S \in SUBSET Nat, S # {}
  PROVE  Min(S) \in S /\ \A x \in S : Min(S) <= x
<1>1. \E x \in S : \A y \in S : x <= y
  BY LeastNatural
<1>2. Min(S) \in S /\ \A y \in S : Min(S) <= y
  BY <1>1 DEF Min
<1>3. QED
  BY <1>2

(* The first team that fits in a node is within one node, and plans of one
   team and code are ranked by the nodes they cross, then by their copies. *)
LEMMA FewerNodesPrecede ==
  ASSUME HostMatches, NEW p \in Candidates, NEW q \in Candidates,
         q.code = p.code, Team(q) = Team(p),
         Len(q.launch.groups) = 1, Len(p.launch.groups) \in Nat, Len(p.launch.groups) > 1
  PROVE  Precedes(Preference(q), Preference(p))
<1> DEFINE i == CodeParts + 1
           a == Preference(q)
           b == Preference(p)
<1>1. /\ IsKey(a) /\ Len(a) = CodeParts + 3 + Team(p) /\ CodeParts \in {4, 7} /\ Team(p) \in Nat \ {0}
      /\ \A j \in 1..CodeParts : a[j] = CodeKey(p.code)[j]
      /\ a[i] = 0
  <2>1. /\ IsKey(a) /\ Len(a) = CodeParts + 3 + Team(q) /\ CodeParts \in {4, 7} /\ Team(q) \in Nat \ {0}
        /\ \A j \in 1..CodeParts : a[j] = CodeKey(q.code)[j]
        /\ a[i] = IF Len(q.launch.groups) > 1 THEN 1 ELSE 0
    BY PreferenceIsKey
  <2> HIDE DEF a
  <2>2. QED
    BY <2>1
<1>2. (\A j \in 1..CodeParts : b[j] = CodeKey(p.code)[j]) /\ b[i] = 1
  BY PreferenceIsKey
<1>3. i \in DOMAIN a /\ i - 1 = CodeParts
  BY <1>1 DEF IsKey
<1>4. a[i] < b[i] /\ \A j \in 1..i - 1 : a[j] = b[j]
  BY <1>1, <1>2, <1>3
<1>5. QED
  BY <1>3, <1>4 DEF Precedes

LEMMA MoreCopiesPrecede ==
  ASSUME HostMatches, NEW p \in Candidates, NEW q \in Candidates,
         q.code = p.code, q.launch = p.launch, Len(q.memory.owners) > Len(p.memory.owners)
  PROVE  Precedes(Preference(q), Preference(p))
<1> DEFINE i == CodeParts + 2
           a == Preference(q)
           b == Preference(p)
           m == Len(q.memory.owners)
           n == Len(p.memory.owners)
<1>1. /\ IsKey(a) /\ Len(a) = CodeParts + 3 + Team(q) /\ CodeParts \in {4, 7} /\ Team(q) \in Nat \ {0}
      /\ \A j \in 1..CodeParts : a[j] = CodeKey(p.code)[j]
      /\ a[CodeParts + 1] = IF Len(p.launch.groups) > 1 THEN 1 ELSE 0
      /\ a[i] = -m
  BY PreferenceIsKey
<1>2. /\ \A j \in 1..CodeParts : b[j] = CodeKey(p.code)[j]
      /\ b[CodeParts + 1] = IF Len(p.launch.groups) > 1 THEN 1 ELSE 0
      /\ b[i] = -n
  BY PreferenceIsKey
<1>3. m \in Nat /\ n \in Nat
  BY CandidatesArePlans, TotalType DEF HostMatches
<1>4. i \in DOMAIN a /\ \A j \in 1..i - 1 : j \in 1..CodeParts \/ j = CodeParts + 1
  BY <1>1 DEF IsKey
<1>5. \A j \in 1..i - 1 : a[j] = b[j]
  BY <1>1, <1>2, <1>4
<1> HIDE DEF a, b
<1>6. a[i] < b[i]
  <2>1. m > n
    OBVIOUS
  <2> HIDE DEF m, n, i
  <2>2. -m < -n
    BY <1>3, <2>1
  <2>3. QED
    BY <1>1, <1>2, <2>2
<1>7. QED
  BY <1>4, <1>5, <1>6 DEF Precedes, a, b

LEMMA TeamsAreSizes ==
  ASSUME HostMatches, NEW k \in CodePlans, NEW l \in LaunchPlans(k)
  PROVE  /\ Len(l.cpus) \in Sizes(Smaller(MaximumParallelism(k), Cardinality(PhysicalCpus)))
         /\ Len(l.cpus) \in Nat \ {0} /\ Admits(k, Len(l.cpus))
         /\ l.cpus \in CandidateCpus(k) /\ l = [cpus |-> l.cpus, groups |-> Groups(l.cpus)]
<1> DEFINE limit == Smaller(MaximumParallelism(k), Cardinality(PhysicalCpus))
<1>1. PICK cpus \in CandidateCpus(k) : cpus # <<>> /\ Admits(k, Len(cpus))
                                       /\ l = [cpus |-> cpus, groups |-> Groups(cpus)]
  BY DEF LaunchPlans
<1>2. HostIsReal /\ LegalCall(call) /\ LegalCode(k) /\ k.kind = call.kind
  BY CodePlansAreLegal DEF HostMatches, IsCode
<1>3. limit \in Int /\ limit <= Cardinality(PhysicalCpus) /\ Cardinality(PhysicalCpus) \in Nat
  BY <1>2, ParallelismType, CoresDiffer DEF Smaller
<1>4. \/ \E n \in Nodes : \E w \in Sizes(limit) \cap 1..Len(NodeCpus(n)) :
           cpus = SubSeq(NodeCpus(n), 1, w)
      \/ \E w \in Sizes(limit) \ {1} : cpus = SubSeq(Balanced, 1, w)
  BY DEF CandidateCpus
<1> HIDE DEF limit
<1>5. Len(cpus) \in Sizes(limit)
  <2>1. ASSUME NEW n \in Nodes, NEW w \in Sizes(limit) \cap 1..Len(NodeCpus(n)),
               cpus = SubSeq(NodeCpus(n), 1, w)
        PROVE  Len(cpus) \in Sizes(limit)
    <3>1. NodeCpus(n) \in Seq(OnNode(n)) /\ Len(NodeCpus(n)) \in Nat
      BY <1>2, NodeLists, ListLength
    <3>2. Len(cpus) = w
      BY <1>1, <2>1, <3>1, FirstPart
    <3>3. QED
      BY <3>2
  <2>2. ASSUME NEW w \in Sizes(limit) \ {1}, cpus = SubSeq(Balanced, 1, w)
        PROVE  Len(cpus) \in Sizes(limit)
    <3>1. w \in Int /\ w <= limit
      BY <1>2, <1>3, SizesType
    <3>2. Balanced \in Seq(PhysicalCpus) /\ Len(Balanced) = Cardinality(PhysicalCpus)
      BY <1>2, BalancedLists, ListLength
    <3>3. w <= Len(Balanced)
      BY <1>3, <3>1, <3>2
    <3>4. Len(cpus) = w
      BY <1>1, <2>2, <3>1, <3>2, <3>3, FirstPart
    <3>5. QED
      BY <3>4
  <2>3. QED
    BY <1>4, <2>1, <2>2
<1>6. IsTeam(cpus)
  BY <1>1, <1>2, CandidatesAreTeams
<1>7. Len(cpus) \in Nat \ {0}
  BY <1>6 DEF IsTeam
<1>8. l.cpus = cpus
  BY <1>1
<1>9. QED
  BY <1>1, <1>5, <1>7, <1>8 DEF limit

(* A code plan runs with a team of any size within a node that has the cores. *)
LEMMA TeamWithinNode ==
  ASSUME HostMatches, NEW k \in CodePlans, NEW n \in Nodes, NEW w \in Nat \ {0},
         w \in Sizes(Smaller(MaximumParallelism(k), Cardinality(PhysicalCpus))),
         w <= Len(NodeCpus(n)), Admits(k, w)
  PROVE  \E q \in Candidates : q.code = k /\ Team(q) = w /\ Len(q.launch.groups) = 1
<1> DEFINE limit == Smaller(MaximumParallelism(k), Cardinality(PhysicalCpus))
           cpus == SubSeq(NodeCpus(n), 1, w)
           l == [cpus |-> cpus, groups |-> Groups(cpus)]
<1>2. w \in Sizes(limit)
  OBVIOUS
<1>3. HostIsReal /\ LegalCall(call) /\ LegalCode(k) /\ k.kind = call.kind
  BY CodePlansAreLegal DEF HostMatches, IsCode
<1> HIDE DEF limit
<1>4. NodeCpus(n) \in Seq(OnNode(n)) /\ Len(NodeCpus(n)) \in Nat
  BY <1>3, NodeLists, ListLength
<1>5. w \in Sizes(limit) \cap 1..Len(NodeCpus(n))
  BY <1>2, <1>4
<1>6. cpus \in CandidateCpus(k)
  BY <1>5 DEF CandidateCpus, limit
<1>7. cpus # <<>> /\ Len(cpus) = w /\ cpus = [i \in 1..w |-> NodeCpus(n)[i]]
  <2> DEFINE s == NodeCpus(n)
  <2>1. s \in Seq(OnNode(n)) /\ w \in 1..Len(s)
    BY <1>4, <1>5
  <2> HIDE DEF s
  <2>2. SubSeq(s, 1, w) = [i \in 1..w |-> s[i]] /\ Len(SubSeq(s, 1, w)) = w
    BY <1>2, <2>1
  <2>3. SubSeq(s, 1, w) # <<>>
    BY <1>2, <2>2
  <2>4. QED
    BY <2>2, <2>3 DEF s
<1>8. l \in LaunchPlans(k)
  <2> HIDE DEF cpus
  <2>1. cpus \in {c \in CandidateCpus(k) : c # <<>> /\ Admits(k, Len(c))}
    BY <1>2, <1>6, <1>7
  <2>2. QED
    BY <2>1 DEF LaunchPlans
<1>9. Len(l.groups) = 1
  <2>1. NodesOf(cpus) = {n}
    <3>1. DOMAIN cpus = 1..w
      BY <1>7
    <3>2. ASSUME NEW i \in 1..w PROVE Node(cpus[i]) = n
      <4>1. cpus[i] = NodeCpus(n)[i]
        BY <1>7
      <4>2. i \in DOMAIN NodeCpus(n)
        BY <1>2, <1>4, <1>5
      <4>3. NodeCpus(n)[i] \in OnNode(n)
        BY <1>4, <4>2
      <4>4. QED
        BY <4>1, <4>3 DEF OnNode
    <3>3. 1 \in 1..w
      BY <1>2
    <3> HIDE DEF cpus
    <3>4. QED
      BY <3>1, <3>2, <3>3 DEF NodesOf
  <2> HIDE DEF cpus
  <2>2. Cardinality(NodesOf(cpus)) = 1
    BY <2>1, FS_Singleton
  <2> DEFINE N == InOrder(NodesOf(cpus), <)
  <2>3. DOMAIN N = 1..1
    BY <2>2 DEF InOrder
  <2> HIDE DEF N
  <2>4. DOMAIN Groups(cpus) = 1..1
    BY <2>3 DEF Groups, N
  <2>5. IsTeam(cpus)
    BY <1>3, <1>6, <1>7, CandidatesAreTeams
  <2>6. SharesOut(l)
    BY <1>3, <2>5, GroupsShareOut
  <2>7. Len(l.groups) \in Nat \ {0} /\ DOMAIN l.groups = 1..Len(l.groups)
    BY <2>6 DEF SharesOut
  <2>8. l.groups = Groups(cpus)
    OBVIOUS
  <2> HIDE DEF l
  <2>9. 1..Len(l.groups) = 1..1
    BY <2>4, <2>7, <2>8
  <2>10. Len(l.groups) \in 1..Len(l.groups)
    BY <2>7
  <2>11. Len(l.groups) \in 1..1
    BY <2>9, <2>10, Zenon
  <2>12. QED
    BY <2>11
<1>10. \E m : m \in MemoryPlans(k, l)
  <2> DEFINE S == IF k.packs THEN PackedOwners(l.groups) ELSE {<<>>}
             f(owners) == [owners |-> owners, regions |-> Regions(k, l, owners),
                           total |-> PrivateOffset(k, l, owners) + Len(l.cpus) * WorkerStride(k, call)]
  <2>1. MemoryPlans(k, l) = {f(owners) : owners \in S}
    BY DEF MemoryPlans
  <2>2. \E owners : owners \in S
    <3>1. CASE k.packs
      <4>1. l.cpus = cpus /\ l.groups = Groups(cpus)
        OBVIOUS
      <4>2. SharesOut(l)
        BY <1>3, <1>6, <1>7, CandidatesAreTeams, GroupsShareOut
      <4> HIDE DEF l
      <4>3. 1 \in DOMAIN l.groups
        BY <4>2 DEF SharesOut
      <4>4. <<1>> \in PackedOwners(l.groups)
        BY <4>3 DEF PackedOwners
      <4>5. QED
        BY <3>1, <4>4
    <3>2. CASE ~k.packs
      BY <3>2
    <3>3. QED
      BY <3>1, <3>2
  <2> HIDE DEF S, f
  <2>3. QED
    BY <2>1, <2>2
<1>11. PICK m : m \in MemoryPlans(k, l)
  BY <1>10
<1> DEFINE q == [code |-> k, launch |-> l, memory |-> m]
<1>12. q.code = k /\ q.launch = l /\ l.cpus = cpus
  OBVIOUS
<1>13. q \in Candidates
  <2> HIDE DEF l
  <2>1. QED
    BY <1>8, <1>11, PlansAreCandidates
<1>14. Team(q) = w
  BY <1>7, <1>12 DEF Team
<1> HIDE DEF q, l
<1>15. QED
  BY <1>9, <1>12, <1>13, <1>14

LEMMA TeamOfOneNode ==
  ASSUME HostMatches, NEW p \in Candidates, NEW n \in Nodes, Team(p) <= Len(NodeCpus(n))
  PROVE  \E q \in Candidates : q.code = p.code /\ Team(q) = Team(p) /\ Len(q.launch.groups) = 1
<1>1. p.code \in CodePlans /\ p.launch \in LaunchPlans(p.code)
  BY CandidatesArePlans
<1>2. /\ Team(p) \in Sizes(Smaller(MaximumParallelism(p.code), Cardinality(PhysicalCpus)))
      /\ Team(p) \in Nat \ {0} /\ Admits(p.code, Team(p))
  BY <1>1, TeamsAreSizes DEF Team
<1>3. QED
  BY <1>1, <1>2, TeamWithinNode

LEMMA CopiesEverywhere ==
  ASSUME HostMatches, NEW p \in Candidates, p.code.packs
  PROVE  \E q \in Candidates : q.code = p.code /\ q.launch = p.launch
                               /\ Len(q.memory.owners) = Len(p.launch.groups)
<1> DEFINE k == p.code
           l == p.launch
           n == Len(l.groups)
<1>1. k \in CodePlans /\ l \in LaunchPlans(k) /\ SharesOut(l)
  BY CandidatesArePlans DEF IsPlan
<1>2. n \in Nat \ {0} /\ DOMAIN l.groups = 1..n
  BY <1>1 DEF SharesOut
<1> HIDE DEF l, k
<1>3. PICK owners \in PackedOwners(l.groups) : Len(owners) = n
  <2>1. CASE n > 1
    <3> DEFINE o == [g \in DOMAIN l.groups |-> g]
    <3>1. o \in PackedOwners(l.groups)
      BY <2>1 DEF PackedOwners
    <3>2. o \in [1..n -> 1..n]
      BY <1>2
    <3> HIDE DEF o, n
    <3>3. o \in Seq(1..n) /\ DOMAIN o = 1..n
      BY <1>2, <3>2
    <3>4. Len(o) = n
      BY <1>2, <3>3
    <3>5. QED
      BY <3>1, <3>4
  <2>2. CASE n = 1
    <3>1. 1 \in DOMAIN l.groups
      BY <1>2
    <3>2. <<1>> \in PackedOwners(l.groups)
      BY <3>1 DEF PackedOwners
    <3>3. Len(<<1>>) = 1
      OBVIOUS
    <3>4. QED
      BY <2>2, <3>2, <3>3
  <2> HIDE DEF n
  <2>3. n > 1 \/ n = 1
    BY <1>2
  <2>4. QED
    BY <2>1, <2>2, <2>3
<1> DEFINE m == [owners |-> owners, regions |-> Regions(k, l, owners),
                 total |-> PrivateOffset(k, l, owners) + Len(l.cpus) * WorkerStride(k, call)]
           q == [code |-> k, launch |-> l, memory |-> m]
<1>4. m \in MemoryPlans(k, l)
  BY DEF MemoryPlans, k
<1>5. m.owners = owners
  OBVIOUS
<1> HIDE DEF m
<1>6. q \in Candidates
  BY <1>1, <1>4, PlansAreCandidates
<1>7. q.code = k /\ q.launch = l /\ q.memory.owners = owners
  BY <1>5
<1> HIDE DEF q
<1>8. QED
  BY <1>3, <1>6, <1>7 DEF k, l

(* What the best plan of a team and a packing is like. *)
BestOfItsTeam(p) ==
  \A q \in Candidates : Team(q) = Team(p) /\ q.code.packs = p.code.packs =>
    ~Precedes(Preference(q), Preference(p))

NearMemory(p) ==
  /\ \A n \in Nodes : Team(p) <= Len(NodeCpus(n)) => Len(p.launch.groups) = 1
  /\ p.code.packs => Len(p.memory.owners) = Len(p.launch.groups)

LEMMA BestIsNearMemory ==
  ASSUME HostMatches, NEW p \in Candidates, BestOfItsTeam(p)
  PROVE  NearMemory(p)
<1>1. SharesOut(p.launch) /\ OwnersAre(p.code, p.launch, p.memory.owners)
  BY CandidatesArePlans DEF IsPlan
<1>2. Len(p.launch.groups) \in Nat \ {0} /\ DOMAIN p.launch.groups = 1..Len(p.launch.groups)
  BY <1>1 DEF SharesOut
<1>3. ASSUME NEW n \in Nodes, Team(p) <= Len(NodeCpus(n)), Len(p.launch.groups) # 1 PROVE FALSE
  <2>1. PICK q \in Candidates : q.code = p.code /\ Team(q) = Team(p) /\ Len(q.launch.groups) = 1
    BY <1>3, TeamOfOneNode
  <2>2. Len(p.launch.groups) > 1
    <3> DEFINE g == Len(p.launch.groups)
    <3>1. g \in Nat \ {0} /\ g # 1
      BY <1>2, <1>3
    <3> HIDE DEF g
    <3>2. g > 1
      BY <3>1
    <3>3. QED
      BY <3>2 DEF g
  <2>3. Precedes(Preference(q), Preference(p))
    BY <1>2, <2>1, <2>2, FewerNodesPrecede
  <2>4. QED
    BY <2>1, <2>3 DEF BestOfItsTeam
<1>4. ASSUME p.code.packs PROVE Len(p.memory.owners) = Len(p.launch.groups)
  <2> DEFINE g == Len(p.launch.groups)
             o == Len(p.memory.owners)
  <2>1. PICK q \in Candidates : q.code = p.code /\ q.launch = p.launch /\ Len(q.memory.owners) = g
    BY <1>4, CopiesEverywhere
  <2>2. o \in Nat \ {0} /\ o <= g
    <3>1. p.memory.owners \in PackedOwners(p.launch.groups)
      <4>1. p.memory \in MemoryPlans(p.code, p.launch)
        BY CandidatesArePlans
      <4>2. QED
        BY <1>4, <4>1 DEF MemoryPlans
    <3> DEFINE G == p.launch.groups
    <3> HIDE DEF G
    <3>2. \/ \E i \in DOMAIN G : p.memory.owners = <<i>>
          \/ p.memory.owners = [i \in DOMAIN G |-> i]
      BY <3>1 DEF PackedOwners, G
    <3>3. Len(G) \in Nat \ {0} /\ DOMAIN G = 1..Len(G)
      BY <1>2 DEF G
    <3>4. CASE \E i \in DOMAIN G : p.memory.owners = <<i>>
      <4>1. o = 1
        BY <3>4
      <4>2. QED
        BY <3>3, <4>1 DEF G
    <3>5. CASE p.memory.owners = [i \in DOMAIN G |-> i]
      <4> DEFINE f == [i \in 1..Len(G) |-> i]
                 n == Len(G)
      <4>1. n \in Nat /\ f \in [1..n -> 1..n]
        BY <3>3
      <4>2. p.memory.owners = f
        BY <3>3, <3>5
      <4> HIDE DEF f, n
      <4>3. Len(f) = n
        BY <4>1
      <4>4. o = n
        BY <4>2, <4>3
      <4>5. QED
        BY <3>3, <4>4 DEF n, G
    <3>6. QED
      BY <3>2, <3>4, <3>5
  <2>3. CASE o < g
    <3>1. Len(q.memory.owners) > o
      BY <1>2, <2>1, <2>2, <2>3
    <3>2. Precedes(Preference(q), Preference(p))
      BY <2>1, <3>1, MoreCopiesPrecede
    <3>3. Team(q) = Team(p)
      BY <2>1 DEF Team
    <3>4. QED
      BY <2>1, <3>2, <3>3 DEF BestOfItsTeam
  <2>4. QED
    BY <1>2, <2>2, <2>3
<1>5. QED
  BY <1>3, <1>4 DEF NearMemory

LEMMA DescendingLists ==
  ASSUME NEW S, IsFiniteSet(S), S \subseteq Int
  PROVE  Enumerates(Descending(S), S)
<1> DEFINE B == {t \in S \X S : t[1] > t[2]}
           s == Descending(S)
<1>1. \A x \in S : \A y \in S : <<x, y>> \in B <=> x > y
  OBVIOUS
<1>2. StrictOrder(B, S)
  <2> HIDE DEF B
  <2>1. \A x \in S : x \in Int
    OBVIOUS
  <2>2. QED
    BY <1>1, <2>1 DEF StrictOrder
<1>3. \A x \in S : {y \in S : y > x} = Below(B, S, x)
  BY <1>1 DEF Below
<1>4. s = [i \in 1..Cardinality(S) |-> CHOOSE x \in S : Cardinality({y \in S : y > x}) = i - 1]
  BY DEF Descending, InOrder
<1>5. s = [i \in 1..Cardinality(S) |-> CHOOSE x \in S : Cardinality(Below(B, S, x)) = i - 1]
  BY <1>3, <1>4
<1> HIDE DEF B, s
<1>6. Lists(s, S, B)
  BY <1>2, <1>5, InOrderLists
<1>7. QED
  BY <1>6 DEF Lists, Enumerates, s

(* The teams that fill the machine or a node. *)
TopologyTeams(legal) == legal \cap Topology(legal)

AnchorLaws(legal, W) ==
         /\ \E n \in Nat : DOMAIN W = 1..n
         /\ \A i \in DOMAIN W : W[i] \in legal
         /\ \A i \in DOMAIN W : \A j \in DOMAIN W : W[i] = W[j] => i = j
         /\ Cardinality(legal) <= Maxnum =>
              DOMAIN W = 1..Cardinality(legal) /\ \A w \in legal : \E i \in DOMAIN W : W[i] = w
         /\ Cardinality(legal) > Maxnum /\ Cardinality(TopologyTeams(legal)) <= Maxnum =>
              \A w \in TopologyTeams(legal) :
                \E i \in DOMAIN W : i <= Cardinality(TopologyTeams(legal)) /\ W[i] = w

LEMMA AnchorsAre ==
  ASSUME NEW legal, IsFiniteSet(legal), legal \subseteq Int, NEW W, W = WorkerAnchors(legal)
  PROVE  AnchorLaws(legal, W)
<1> DEFINE n == Cardinality(legal)
           first == TopologyTeams(legal)
           second == {w \in legal \ first : IsPowerOfTwo(w)}
           rest == legal \ (first \cup second)
           s == Descending(first) \o Descending(second) \o Descending(rest)
<1>1. n \in Nat /\ Maxnum \in Nat
  BY FS_CardinalityType, SearchAssumption
<1>2. CASE n <= Maxnum
  <2>1. Enumerates(Descending(legal), legal)
    BY DescendingLists
  <2>2. W = Descending(legal)
    BY <1>2 DEF WorkerAnchors
  <2>3. Enumerates(W, legal)
    BY <2>1, <2>2
  <2>4. DOMAIN W = 1..n
    BY <2>3 DEF Enumerates
  <2>5. ~(n > Maxnum)
    BY <1>1, <1>2
  <2> HIDE DEF n
  <2>6. (\A i \in DOMAIN W : W[i] \in legal) /\ \A w \in legal : \E i \in DOMAIN W : W[i] = w
    BY <2>3 DEF Enumerates
  <2>7. \A i \in DOMAIN W : \A j \in DOMAIN W : W[i] = W[j] => i = j
    BY <2>3 DEF Enumerates
  <2>8. QED
    BY <1>1, <2>4, <2>5, <2>6, <2>7 DEF n, AnchorLaws
<1>3. CASE ~(n <= Maxnum)
  <2>1. W = SubSeq(s, 1, Maxnum)
    BY <1>3 DEF WorkerAnchors, TopologyTeams
  <2>2. first \in SUBSET legal /\ second \in SUBSET legal /\ rest \in SUBSET legal
        /\ first \cap second = {} /\ (first \cup second) \cap rest = {}
        /\ (first \cup second) \cup rest = legal
    BY DEF TopologyTeams
  <2> HIDE DEF first, second, rest
  <2>3. IsFiniteSet(first) /\ IsFiniteSet(second) /\ IsFiniteSet(rest)
    BY <2>2, FS_Subset
  <2>4. Enumerates(Descending(first), first) /\ Enumerates(Descending(second), second)
        /\ Enumerates(Descending(rest), rest)
    BY <2>2, <2>3, DescendingLists
  <2> DEFINE a == Descending(first)
             c == Descending(second)
             d == Descending(rest)
             b == a \o c
  <2>5. Enumerates(b, first \cup second) /\ \A i \in DOMAIN a : b[i] = a[i]
    <3>1. IsFiniteSet(first) /\ IsFiniteSet(second) /\ (\A x \in first : x \notin second)
          /\ Enumerates(a, first) /\ Enumerates(c, second)
      BY <2>2, <2>3, <2>4
    <3>2. b = a \o c
      OBVIOUS
    <3> HIDE DEF a, b, c
    <3>3. Enumerates(b, first \cup second)
      BY <3>1, <3>2, EnumerationsJoin
    <3>4. \A i \in DOMAIN a : b[i] = a[i]
      BY <3>1, <3>2, FirstPartKept
    <3>5. QED
      BY <3>3, <3>4
  <2>6. IsFiniteSet(first \cup second)
    BY <2>3, FS_Union
  <2>7. s = b \o d
    OBVIOUS
  <2> HIDE DEF s, b, a
  <2>8. Enumerates(s, legal) /\ \A i \in DOMAIN b : s[i] = b[i]
    <3> DEFINE F == first \cup second
    <3>1. IsFiniteSet(F) /\ IsFiniteSet(rest) /\ (\A x \in F : x \notin rest)
          /\ Enumerates(b, F) /\ Enumerates(d, rest)
      BY <2>2, <2>3, <2>4, <2>5, <2>6
    <3>2. F \cup rest = legal
      BY <2>2
    <3> HIDE DEF F, d
    <3>3. Enumerates(s, F \cup rest)
      BY <2>7, <3>1, EnumerationsJoin
    <3>4. \A i \in DOMAIN b : s[i] = b[i]
      BY <2>7, <3>1, FirstPartKept
    <3>5. QED
      BY <3>2, <3>3, <3>4
  <2>9. DOMAIN s = 1..n /\ s \in [1..n -> legal]
    BY <2>8 DEF Enumerates
  <2>10. DOMAIN W = 1..Maxnum /\ \A i \in 1..Maxnum : W[i] = s[i]
    <3> HIDE DEF n
    <3>1. s \in Seq(legal) /\ Len(s) = n
      BY <1>1, <2>9
    <3>2. Maxnum <= n /\ 1 \in Int
      BY <1>1, <1>3
    <3>3. SubSeq(s, 1, Maxnum) = [i \in 1..Maxnum |-> s[i]]
      BY <1>1, <3>1, <3>2
    <3>4. QED
      BY <2>1, <3>3
  <2>11. \A i \in 1..Maxnum : i \in 1..n
    <3> HIDE DEF n
    <3>1. QED
      BY <1>1, <1>3
  <2>12. \A i \in DOMAIN W : W[i] \in legal
    BY <2>9, <2>10, <2>11
  <2>13. ASSUME NEW i \in DOMAIN W, NEW j \in DOMAIN W, W[i] = W[j] PROVE i = j
    <3>1. i \in DOMAIN s /\ j \in DOMAIN s /\ s[i] = s[j]
      BY <2>9, <2>10, <2>11, <2>13
    <3>2. QED
      BY <2>8, <3>1 DEF Enumerates
  <2>14. ASSUME Cardinality(first) <= Maxnum, NEW w \in first
         PROVE  \E i \in DOMAIN W : i <= Cardinality(first) /\ W[i] = w
    <3>1. PICK i \in DOMAIN a : a[i] = w
      BY <2>4 DEF Enumerates, a
    <3>2. DOMAIN a = 1..Cardinality(first) /\ Cardinality(first) \in Nat
      BY <2>4 DEF Enumerates, a
    <3>3. i \in 1..Maxnum
      BY <1>1, <2>14, <3>2
    <3>4. DOMAIN b = 1..Cardinality(first \cup second) /\ Cardinality(first) <= Cardinality(first \cup second)
          /\ Cardinality(first \cup second) \in Nat
      <4>1. first \subseteq first \cup second
        OBVIOUS
      <4>2. Cardinality(first) <= Cardinality(first \cup second)
        BY <2>6, <4>1, FS_Subset
      <4>3. QED
        BY <2>5, <4>2 DEF Enumerates
    <3>5. i \in DOMAIN b
      BY <3>2, <3>4
    <3>6. W[i] = w
      BY <2>5, <2>8, <2>10, <3>1, <3>3, <3>5
    <3>7. i \in DOMAIN W /\ i <= Cardinality(first)
      BY <2>10, <3>2, <3>3
    <3>8. QED
      BY <3>6, <3>7
  <2>15. QED
    <3> HIDE DEF n
    <3>1. ~(n <= Maxnum)
      BY <1>3
    <3>2. \E m \in Nat : DOMAIN W = 1..m
      BY <1>1, <2>10
    <3>3. QED
      BY <2>12, <2>13, <2>14, <3>1, <3>2 DEF n, first, AnchorLaws
<1>4. QED
  BY <1>2, <1>3

-----------------------------------------------------------------------------
(* The representatives of the teams and packings. *)
IsSlot(s) == s[1] \in Int /\ s[2] \in BOOLEAN /\ s = <<s[1], s[2]>>

SlotBefore(s, t) == s[1] < t[1] \/ (s[1] = t[1] /\ ~s[2] /\ t[2])

SlotOrder(F) == {u \in F \X F : SlotBefore(u[1], u[2])}

LEMMA SlotsAreOrdered ==
  ASSUME NEW F, \A s \in F : IsSlot(s)
  PROVE  StrictOrder(SlotOrder(F), F)
<1>1. \A s \in F : \A t \in F : <<s, t>> \in SlotOrder(F) <=> SlotBefore(s, t)
  BY DEF SlotOrder
<1>2. \A s \in F : ~SlotBefore(s, s)
  <2> SUFFICES ASSUME NEW s \in F, SlotBefore(s, s) PROVE FALSE
    OBVIOUS
  <2>1. s[1] \in Int /\ ~(s[1] < s[1])
    BY DEF IsSlot
  <2>2. QED
    BY <2>1, Zenon DEF SlotBefore
<1>3. ASSUME NEW s \in F, NEW t \in F, s # t PROVE SlotBefore(s, t) \/ SlotBefore(t, s)
  <2>1. IsSlot(s) /\ IsSlot(t)
    OBVIOUS
  <2>2. s[1] \in Int /\ t[1] \in Int /\ s[2] \in BOOLEAN /\ t[2] \in BOOLEAN
    BY <2>1 DEF IsSlot
  <2>3. s[1] < t[1] \/ t[1] < s[1] \/ s[1] = t[1]
    BY <2>2
  <2>4. CASE s[1] = t[1]
    <3>1. s[2] # t[2]
      BY <1>3, <2>1, <2>4, Zenon DEF IsSlot
    <3>2. \A a \in BOOLEAN, b \in BOOLEAN : a # b => (~a /\ b) \/ (~b /\ a)
      OBVIOUS
    <3>3. (~s[2] /\ t[2]) \/ (~t[2] /\ s[2])
      BY <2>2, <3>1, <3>2, Zenon
    <3>4. QED
      BY <2>4, <3>3, Zenon DEF SlotBefore
  <2>5. QED
    BY <2>3, <2>4, Zenon DEF SlotBefore
<1>4. ASSUME NEW s \in F, NEW t \in F, NEW u \in F, SlotBefore(s, t), SlotBefore(t, u)
      PROVE  SlotBefore(s, u)
  <2>1. s[1] \in Int /\ t[1] \in Int /\ u[1] \in Int
    BY DEF IsSlot
  <2>2. /\ s[1] < t[1] \/ (s[1] = t[1] /\ ~s[2] /\ t[2])
        /\ t[1] < u[1] \/ (t[1] = u[1] /\ ~t[2] /\ u[2])
    BY <1>4, Zenon DEF SlotBefore
  <2>3. CASE s[1] < t[1] /\ t[1] < u[1]
    <3>1. s[1] < u[1]
      BY <2>1, <2>3
    <3>2. QED
      BY <3>1, Zenon DEF SlotBefore
  <2>4. CASE s[1] < t[1] /\ t[1] = u[1]
    <3>1. s[1] < u[1]
      BY <2>1, <2>4
    <3>2. QED
      BY <3>1, Zenon DEF SlotBefore
  <2>5. CASE s[1] = t[1] /\ t[1] < u[1]
    <3>1. s[1] < u[1]
      BY <2>1, <2>5
    <3>2. QED
      BY <3>1, Zenon DEF SlotBefore
  <2>6. QED
    BY <2>2, <2>3, <2>4, <2>5, Zenon
<1>5. QED
  BY <1>1, <1>2, <1>3, <1>4 DEF StrictOrder

StandForSlots(C, W, r) ==
  \E order : /\ Lists(order, Filled(C, W), SlotOrder(Filled(C, W)))
             /\ r = [i \in DOMAIN order |-> Preferred(GroupOf(C, W, order[i]))]
             /\ \A s \in Filled(C, W) : IsSlot(s) /\ s[1] \in DOMAIN W
             /\ IsFiniteSet(Filled(C, W))

LEMMA RepresentativesAre ==
  ASSUME NEW C, IsFiniteSet(C), \A p \in C : Team(p) \in Int /\ p.code.packs \in BOOLEAN,
         NEW W, W = WorkerAnchors({Team(p) : p \in C}), NEW r, r = RepresentativesOf(C)
  PROVE  StandForSlots(C, W, r)
<1> DEFINE legal == {Team(p) : p \in C}
           F == Filled(C, W)
           order == InOrder(F, LAMBDA s, t : s[1] < t[1] \/ (s[1] = t[1] /\ ~s[2] /\ t[2]))
<1>1. IsFiniteSet(legal) /\ legal \subseteq Int
  <2> DEFINE f == [p \in C |-> Team(p)]
  <2>1. legal = {f[p] : p \in C} /\ DOMAIN f = C
    OBVIOUS
  <2>2. legal \subseteq Int
    OBVIOUS
  <2> HIDE DEF f, legal
  <2>3. QED
    BY <2>1, <2>2, ImageFinite
<1>2. PICK n \in Nat : DOMAIN W = 1..n
  <2> HIDE DEF legal
  <2>1. W = WorkerAnchors(legal)
    BY DEF legal
  <2>2. QED
    BY <1>1, <2>1, AnchorsAre DEF AnchorLaws
<1>3. IsFiniteSet(F)
  <2> DEFINE D == DOMAIN W
             Bool == BOOLEAN
  <2>1. F \in SUBSET (D \X Bool)
    BY DEF Filled
  <2>2. IsFiniteSet(D)
    <3>1. 1 \in Int /\ n \in Int
      OBVIOUS
    <3>2. IsFiniteSet(1..n)
      BY <3>1, FS_Interval
    <3>3. QED
      BY <1>2, <3>2
  <2>3. IsFiniteSet(Bool)
    BY BooleansFinite
  <2> HIDE DEF D, Bool, F
  <2>4. IsFiniteSet(D \X Bool)
    BY <2>2, <2>3, FS_Product
  <2>5. QED
    BY <2>1, <2>4, FS_Subset
<1>4. ASSUME NEW s \in F PROVE IsSlot(s) /\ s[1] \in DOMAIN W
  <2> DEFINE D == DOMAIN W
  <2>1. s \in D \X BOOLEAN
    BY DEF Filled
  <2>2. s[1] \in D /\ s[2] \in BOOLEAN /\ s = <<s[1], s[2]>>
    <3> HIDE DEF D
    <3>1. QED
      BY <2>1
  <2>3. s[1] \in Int
    BY <1>2, <2>2
  <2>4. QED
    BY <2>2, <2>3 DEF IsSlot
<1>5. StrictOrder(SlotOrder(F), F)
  <2> HIDE DEF F
  <2>1. QED
    BY <1>4, SlotsAreOrdered
<1>6. order = [i \in 1..Cardinality(F) |-> CHOOSE x \in F : Cardinality(Below(SlotOrder(F), F, x)) = i - 1]
  <2> DEFINE Before(x) == {y \in F : SlotBefore(y, x)}
  <2>1. order = [i \in 1..Cardinality(F) |-> CHOOSE x \in F : Cardinality(Before(x)) = i - 1]
    <3> HIDE DEF F
    <3>1. QED
      BY DEF InOrder, SlotBefore
  <2>2. \A x \in F : Before(x) = Below(SlotOrder(F), F, x)
    <3> HIDE DEF F
    <3>1. QED
      BY DEF Below, SlotOrder
  <2> HIDE DEF F, order, Before
  <2>3. QED
    BY <2>1, <2>2
<1>7. r = [i \in DOMAIN order |-> Preferred(GroupOf(C, W, order[i]))]
  BY DEF RepresentativesOf
<1> HIDE DEF F, order
<1>8. Lists(order, F, SlotOrder(F))
  BY <1>3, <1>5, <1>6, InOrderLists
<1>9. QED
  BY <1>3, <1>4, <1>7, <1>8 DEF F, StandForSlots

LEMMA SlotsInFront ==
  ASSUME NEW F, NEW order, Lists(order, F, SlotOrder(F)), NEW P, IsFiniteSet(P),
         \A t \in F : IsSlot(t) /\ t[1] \in Nat \ {0} /\ t[2] \in P,
         NEW c \in Nat, NEW i \in DOMAIN order, order[i][1] <= c
  PROVE  i <= c * Cardinality(P)
<1> DEFINE T == (1..c) \X P
           g == [j \in 1..i |-> order[j]]
<1>1. Cardinality(F) \in Nat /\ DOMAIN order = 1..Cardinality(F)
      /\ \A j \in DOMAIN order : order[j] \in F
  BY DEF Lists
<1>2. i \in Nat /\ i \in 1..Cardinality(F) /\ \A j \in 1..i : j \in DOMAIN order /\ j \in Nat
  BY <1>1
<1>3. ASSUME NEW j \in 1..i PROVE order[j] \in T
  <2>1. order[j] \in F /\ order[i] \in F
    BY <1>1, <1>2
  <2>2. IsSlot(order[j]) /\ order[j][1] \in Nat \ {0} /\ order[j][2] \in P /\ order[i][1] \in Nat
    BY <2>1
  <2>3. order[j][1] <= order[i][1]
    <3>1. CASE j = i
      BY <2>2, <3>1
    <3>2. CASE j # i
      <4>1. j < i
        BY <1>2, <3>2
      <4>2. <<order[j], order[i]>> \in SlotOrder(F)
        BY <1>2, <4>1 DEF Lists
      <4>3. SlotBefore(order[j], order[i])
        BY <4>2 DEF SlotOrder
      <4>4. order[j][1] < order[i][1] \/ order[j][1] = order[i][1]
        BY <4>3, Zenon DEF SlotBefore
      <4>5. QED
        BY <2>2, <4>4
    <3>3. QED
      BY <3>1, <3>2
  <2>4. order[j][1] \in 1..c
    BY <2>2, <2>3
  <2> DEFINE a == order[j][1]
             b == order[j][2]
  <2>5. order[j] = <<a, b>> /\ a \in 1..c /\ b \in P
    BY <2>2, <2>4 DEF IsSlot
  <2> HIDE DEF a, b
  <2>6. QED
    BY <2>5
<1>4. g \in [1..i -> T]
  <2> HIDE DEF T
  <2>1. QED
    BY <1>3
<1>5. ASSUME NEW j \in 1..i, NEW k \in 1..i, g[j] = g[k] PROVE j = k
  BY <1>2, <1>5 DEF Lists
<1>6. IsFiniteSet(1..c) /\ Cardinality(1..c) = c /\ IsFiniteSet(1..i) /\ Cardinality(1..i) = i
  <2>1. 1 \in Int /\ c \in Int /\ i \in Int
    BY <1>2
  <2>2. IsFiniteSet(1..c) /\ Cardinality(1..c) = IF 1 > c THEN 0 ELSE c - 1 + 1
    BY <2>1, FS_Interval
  <2>3. IsFiniteSet(1..i) /\ Cardinality(1..i) = IF 1 > i THEN 0 ELSE i - 1 + 1
    BY <2>1, FS_Interval
  <2>4. QED
    BY <1>2, <2>2, <2>3
<1>7. IsFiniteSet(T) /\ Cardinality(T) = c * Cardinality(P)
  <2> DEFINE I == 1..c
  <2>1. IsFiniteSet(I) /\ Cardinality(I) = c
    BY <1>6
  <2> HIDE DEF I
  <2>2. IsFiniteSet(I \X P) /\ Cardinality(I \X P) = Cardinality(I) * Cardinality(P)
    BY <2>1, FS_Product
  <2>3. QED
    BY <2>1, <2>2 DEF I
<1> HIDE DEF T, g
<1>8. g \in Injection(1..i, T)
  BY <1>4, <1>5 DEF Injection, IsInjective
<1>9. Cardinality(1..i) <= Cardinality(T)
  BY <1>6, <1>7, <1>8, FS_Injection
<1>10. QED
  BY <1>6, <1>7, <1>9

(* The condition under which the teams of the topology are all measured. *)
BudgetHolds(legal, packings) ==
  LET teams == TopologyTeams(legal)
  IN  /\ Cardinality(teams) * Cardinality(packings) <= Maxnum
      /\ \/ Cardinality(legal) > Maxnum
         \/ Cardinality(legal) * Cardinality(packings) <= Maxnum

LEMMA AnchorOfTeam ==
  ASSUME NEW legal, IsFiniteSet(legal), legal \subseteq Int, NEW W, W = WorkerAnchors(legal),
         NEW P, IsFiniteSet(P), P # {}, BudgetHolds(legal, P), NEW w \in TopologyTeams(legal)
  PROVE  \E c \in Nat : c * Cardinality(P) <= Maxnum /\ \E i \in DOMAIN W : i <= c /\ W[i] = w
<1> DEFINE n == Cardinality(legal)
           t == Cardinality(TopologyTeams(legal))
           k == Cardinality(P)
<1>1. n \in Nat /\ t \in Nat /\ k \in Nat \ {0} /\ Maxnum \in Nat
  <2>1. IsFiniteSet(TopologyTeams(legal))
    BY FS_Subset DEF TopologyTeams
  <2>2. n \in Nat /\ t \in Nat /\ k \in Nat
    BY <2>1, FS_CardinalityType
  <2>3. k # 0
    BY FS_EmptySet
  <2>4. QED
    BY <2>2, <2>3, SearchAssumption
<1>2. t * k <= Maxnum /\ (n > Maxnum \/ n * k <= Maxnum)
  BY DEF BudgetHolds
<1>0. AnchorLaws(legal, W)
  BY AnchorsAre
<1>3. CASE n <= Maxnum
  <2>1. n * k <= Maxnum
    <3> HIDE DEF n, t, k
    <3>1. ~(n > Maxnum)
      BY <1>1, <1>3
    <3>2. QED
      BY <1>2, <3>1
  <2>2. PICK i \in DOMAIN W : W[i] = w
    <3>1. w \in legal
      BY DEF TopologyTeams
    <3> HIDE DEF n
    <3>2. QED
      BY <1>0, <1>3, <3>1 DEF n, AnchorLaws
  <2>3. DOMAIN W = 1..n
    BY <1>0, <1>3 DEF AnchorLaws
  <2> HIDE DEF n, k
  <2>4. i <= n
    BY <1>1, <2>3
  <2>5. QED
    BY <1>1, <2>1, <2>2, <2>4 DEF k
<1>4. CASE n > Maxnum
  <2>1. t <= Maxnum
    <3> HIDE DEF n, t, k
    <3>1. t * 1 <= t * k
      BY <1>1, ProductsGrow
    <3>2. t * k \in Nat
      BY <1>1
    <3>3. QED
      BY <1>1, <1>2, <3>1, <3>2
  <2>2. PICK i \in DOMAIN W : i <= t /\ W[i] = w
    BY <1>0, <1>4, <2>1 DEF AnchorLaws
  <2>3. QED
    BY <1>1, <1>2, <2>2
<1>5. QED
  BY <1>1, <1>3, <1>4

(* What choose_next goes through, for the plans of a call: one plan of every
   anchor and packing, the best of its kind, and within the budget those of
   the topology's teams. *)
Teams(C) == {Team(p) : p \in C}

Packings(C) == {p.code.packs : p \in C}

RepresentativeOf(r, p) ==
  \E i \in DOMAIN r : i <= Maxnum /\ Team(r[i]) = Team(p) /\ r[i].code.packs = p.code.packs

RepresentativeLaws(r) ==
  /\ \E n \in Nat : DOMAIN r = 1..n
  /\ \A i \in DOMAIN r : r[i] \in Candidates /\ BestOfItsTeam(r[i])
  /\ \A i \in DOMAIN r : \A j \in DOMAIN r : r[i] = r[j] => i = j
  /\ BudgetHolds(Teams(Candidates), Packings(Candidates)) =>
       \A p \in Candidates : Team(p) \in TopologyTeams(Teams(Candidates)) => RepresentativeOf(r, p)

LEMMA TeamsAndPackings ==
  ASSUME HostMatches
  PROVE  /\ \A p \in Candidates : Team(p) \in Int /\ p.code.packs \in BOOLEAN
         /\ IsFiniteSet(Teams(Candidates)) /\ Teams(Candidates) \subseteq Int
         /\ IsFiniteSet(Packings(Candidates))
<1> DEFINE C == Candidates
           f == [p \in C |-> Team(p)]
           g == [p \in C |-> p.code.packs]
<1>1. IsFiniteSet(C)
  BY CandidatesFinite
<1>2. ASSUME NEW p \in C PROVE Team(p) \in Int /\ p.code.packs \in BOOLEAN
  <2>1. IsPlan(p.code, p.launch, p.memory)
    BY CandidatesArePlans
  <2>2. LegalCode(p.code) /\ Len(p.launch.cpus) \in Nat \ {0}
    BY <2>1 DEF IsPlan, SharesOut, IsTeam
  <2>3. QED
    BY <2>2 DEF LegalCode, Team
<1> HIDE DEF C
<1>3. Teams(C) = {f[p] : p \in C} /\ DOMAIN f = C
  BY DEF Teams
<1>4. Packings(C) = {g[p] : p \in C} /\ DOMAIN g = C
  BY DEF Packings
<1>5. Teams(C) \subseteq Int
  BY <1>2 DEF Teams
<1> HIDE DEF f, g
<1>6. IsFiniteSet(Teams(C))
  BY <1>1, <1>3, ImageFinite
<1>7. IsFiniteSet(Packings(C))
  BY <1>1, <1>4, ImageFinite
<1>8. QED
  BY <1>2, <1>5, <1>6, <1>7 DEF C

LEMMA RepresentativesLaws ==
  ASSUME HostMatches, NEW r, r = RepresentativesOf(Candidates)
  PROVE  RepresentativeLaws(r)
<1> DEFINE C == Candidates
           W == WorkerAnchors(Teams(C))
           F == Filled(C, W)
<1>1. /\ \A p \in C : Team(p) \in Int /\ p.code.packs \in BOOLEAN
      /\ IsFiniteSet(Teams(C)) /\ Teams(C) \subseteq Int
      /\ IsFiniteSet(Packings(C)) /\ IsFiniteSet(C)
  BY TeamsAndPackings, CandidatesFinite
<1> HIDE DEF C
<1>2. PICK order : /\ Lists(order, F, SlotOrder(F))
                   /\ r = [i \in DOMAIN order |-> Preferred(GroupOf(C, W, order[i]))]
                   /\ \A s \in F : IsSlot(s) /\ s[1] \in DOMAIN W
                   /\ IsFiniteSet(F)
  <2>1. W = WorkerAnchors({Team(p) : p \in C})
    BY DEF Teams
  <2>2. r = RepresentativesOf(C)
    BY DEF C
  <2> HIDE DEF W, F
  <2>3. StandForSlots(C, W, r)
    BY <1>1, <2>1, <2>2, RepresentativesAre
  <2>4. QED
    BY <2>3 DEF StandForSlots, F
<1>3. AnchorLaws(Teams(C), W)
  BY <1>1, AnchorsAre
<1> HIDE DEF W
<1>4. /\ Cardinality(F) \in Nat /\ DOMAIN order = 1..Cardinality(F) /\ DOMAIN r = DOMAIN order
      /\ \A i \in DOMAIN order : order[i] \in F
  BY <1>2 DEF Lists
<1>5. ASSUME NEW i \in DOMAIN order
      PROVE  /\ r[i] \in C /\ Team(r[i]) = W[order[i][1]] /\ r[i].code.packs = order[i][2]
             /\ order[i] \in F /\ order[i][1] \in DOMAIN W
             /\ \A q \in GroupOf(C, W, order[i]) : ~Precedes(Preference(q), Preference(r[i]))
  <2> DEFINE s == order[i]
             G == GroupOf(C, W, s)
  <2>1. s \in F /\ s[1] \in DOMAIN W
    BY <1>2, <1>4
  <2>2. G \subseteq Candidates /\ G # {} /\ \A p \in G : Team(p) = W[s[1]] /\ p.code.packs = s[2]
    BY <2>1 DEF GroupOf, Filled, C
  <2>3. r[i] = Preferred(G)
    BY <1>2
  <2> HIDE DEF G, s
  <2>4. Preferred(G) \in G /\ \A q \in G : ~Precedes(Preference(q), Preference(Preferred(G)))
    BY <2>2, PreferredIsBest
  <2>5. QED
    BY <2>1, <2>2, <2>3, <2>4 DEF G, s, C
<1>6. ASSUME NEW i \in DOMAIN r PROVE r[i] \in Candidates /\ BestOfItsTeam(r[i])
  <2>1. i \in DOMAIN order
    BY <1>4
  <2>2. ASSUME NEW q \in Candidates, Team(q) = Team(r[i]), q.code.packs = r[i].code.packs
        PROVE  ~Precedes(Preference(q), Preference(r[i]))
    <3>1. q \in GroupOf(C, W, order[i])
      BY <1>5, <2>1, <2>2 DEF GroupOf, C
    <3>2. QED
      BY <1>5, <2>1, <3>1
  <2>3. QED
    BY <1>5, <2>1, <2>2 DEF BestOfItsTeam, C
<1>7. ASSUME NEW i \in DOMAIN r, NEW j \in DOMAIN r, r[i] = r[j] PROVE i = j
  <2>1. i \in DOMAIN order /\ j \in DOMAIN order
    BY <1>4
  <2>2. W[order[i][1]] = W[order[j][1]] /\ order[i][2] = order[j][2]
    BY <1>5, <1>7, <2>1
  <2>3. order[i][1] = order[j][1]
    BY <1>3, <1>5, <2>1, <2>2 DEF AnchorLaws
  <2>4. IsSlot(order[i]) /\ IsSlot(order[j])
    BY <1>2, <1>4, <2>1
  <2>5. order[i] = order[j]
    BY <2>2, <2>3, <2>4, Zenon DEF IsSlot
  <2>6. QED
    BY <1>2, <2>1, <2>5 DEF Lists
<1>8. ASSUME BudgetHolds(Teams(C), Packings(C)), NEW p \in C, Team(p) \in TopologyTeams(Teams(C))
      PROVE  RepresentativeOf(r, p)
  <2> DEFINE P == Packings(C)
             w == Team(p)
             b == p.code.packs
  <2>1. P # {} /\ b \in P /\ b \in BOOLEAN
    BY <1>1 DEF Packings
  <2>2. PICK c \in Nat : c * Cardinality(P) <= Maxnum /\ \E i \in DOMAIN W : i <= c /\ W[i] = w
    <3> HIDE DEF P, w
    <3>1. BudgetHolds(Teams(C), P) /\ w \in TopologyTeams(Teams(C)) /\ IsFiniteSet(P)
      BY <1>1, <1>8 DEF P, w
    <3>2. W = WorkerAnchors(Teams(C))
      BY DEF W
    <3>3. QED
      BY <1>1, <2>1, <3>1, <3>2, AnchorOfTeam
  <2>3. PICK a \in DOMAIN W : a <= c /\ W[a] = w
    BY <2>2
  <2> DEFINE s == <<a, b>>
  <2>4. s[1] = a /\ s[2] = b
    OBVIOUS
  <2>5. s \in F
    <3>1. p \in GroupOf(C, W, s)
      BY <2>3, <2>4 DEF GroupOf
    <3>2. s \in (DOMAIN W) \X BOOLEAN
      BY <2>1, <2>3
    <3> HIDE DEF s
    <3>3. QED
      BY <3>1, <3>2 DEF Filled
  <2> HIDE DEF s
  <2>6. PICK i \in DOMAIN order : order[i] = s
    BY <1>2, <2>5 DEF Lists
  <2>7. ASSUME NEW t \in F PROVE IsSlot(t) /\ t[1] \in Nat \ {0} /\ t[2] \in P
    <3>1. IsSlot(t) /\ t[1] \in DOMAIN W
      BY <1>2
    <3>2. t[1] \in Nat \ {0}
      BY <1>3, <3>1 DEF AnchorLaws
    <3>3. \E q \in C : q.code.packs = t[2]
      BY DEF Filled, GroupOf
    <3>4. QED
      BY <3>1, <3>2, <3>3 DEF Packings
  <2>8. i <= c * Cardinality(P)
    <3>1. IsFiniteSet(P) /\ order[i][1] <= c /\ Lists(order, F, SlotOrder(F))
      BY <1>1, <1>2, <2>3, <2>4, <2>6
    <3> HIDE DEF P, F
    <3>2. QED
      BY <2>7, <3>1, SlotsInFront
  <2>9. Cardinality(P) \in Nat /\ Maxnum \in Nat
    BY <1>1, FS_CardinalityType, SearchAssumption
  <2> HIDE DEF P
  <2>10. c * Cardinality(P) \in Nat
    BY <2>9
  <2>11. i <= Maxnum
    <3>1. i \in Nat
      BY <1>4
    <3>2. QED
      BY <2>2, <2>8, <2>9, <2>10, <3>1
  <2>12. Team(r[i]) = w /\ r[i].code.packs = b
    BY <1>5, <2>3, <2>4, <2>6
  <2>13. QED
    BY <1>4, <2>11, <2>12 DEF RepresentativeOf
<1>9. QED
  BY <1>4, <1>6, <1>7, <1>8 DEF RepresentativeLaws, C

-----------------------------------------------------------------------------
(* The estimates of the single-core search are numbers. *)
IsWork(x) ==
  /\ x.flops \in Int /\ x.bytes \in Int /\ x.packed \in Int /\ x.visits \in Int
  /\ x.workingSet \in Int /\ x.chains \in Int /\ x.registers \in Int /\ x.horizontal \in Int

LEMMA RoundUpType ==
  ASSUME NEW a \in Nat \ {0}, NEW b \in Nat \ {0}
  PROVE  RoundUp(a, b) \in Int /\ Ceiling(a, b) \in Int
<1>1. Ceiling(a, b) \in Nat
  BY CeilingType
<1>2. QED
  BY <1>1 DEF RoundUp

LEMMA WorkIsNumbers ==
  ASSUME HostMatches, NEW p \in Candidates
  PROVE  IsWork(Work(p))
<1> DEFINE k == p.code
<1>1. k \in CodePlans /\ IsPlan(k, p.launch, p.memory)
  BY CandidatesArePlans
<1>2. IsCode(k)
  BY <1>1, CodePlansAreLegal
<1>3. /\ k.tileQ \in Nat \ {0} /\ k.tileK \in Nat \ {0} /\ k.tileDV \in Nat \ {0}
      /\ k.vectors \in Nat \ {0} /\ k.packs \in BOOLEAN /\ k.kind = call.kind
  BY <1>2 DEF IsCode, LegalCode
<1>4. /\ call.heads \in Nat \ {0} /\ call.d \in Nat \ {0} /\ call.dv \in Nat \ {0}
      /\ PlannedSkv \in Nat \ {0} /\ Lanes \in Nat \ {0} /\ p.memory.total \in Int
  <2>1. Lanes \in {16, 8, 4}
    BY LanesAre
  <2>2. LegalCall(call)
    BY DEF HostMatches
  <2>3. p.memory.total \in Int
    BY <1>1, <2>2, TotalType
  <2>4. PlannedSkv \in Nat \ {0}
    BY <2>2, PlannedLength
  <2>5. QED
    BY <2>1, <2>2, <2>3, <2>4 DEF LegalCall
<1>5. CASE call.kind = "parallel"
  <2>1. call.queries \in Nat \ {0} /\ call.kvHeads \in Nat \ {0}
    BY <1>5 DEF HostMatches, LegalCall
  <2> DEFINE length == PlannedSkv
             pairs == call.heads * call.queries
             rows == call.heads * Ceiling(call.queries, k.tileQ)
             columns == call.d + call.dv
             executed == IF k.packs THEN RoundUp(length, k.tileK) ELSE length
             packed == IF k.packs THEN call.kvHeads * length * call.d ELSE 0
             rd == RoundUp(call.d, Lanes)
             rdv == RoundUp(call.dv, Lanes)
             tiles == Ceiling(length, k.tileK)
             half == Scale \div 2
  <2>2. /\ pairs \in Int /\ columns \in Int /\ executed \in Int /\ length \in Int
        /\ rd \in Int /\ rdv \in Int /\ tiles \in Int /\ half \in Int
    BY <1>3, <1>4, <2>1, RoundUpType DEF Scale
  <2>3. rows \in Int
    BY <1>3, <1>4, <2>1, RoundUpType
  <2>4. packed \in Int
    <3>1. call.kvHeads * length \in Int
      BY <1>4, <2>1
    <3>2. call.kvHeads * length * call.d \in Int
      BY <1>4, <3>1
    <3>3. QED
      BY <3>2
  <2>5. Work(p) = [flops |-> 2 * pairs * (executed * rd + length * rdv),
                   bytes |-> FloatBytes * (pairs * columns + call.kvHeads * length * columns
                                 + rows * length * columns + 2 * packed),
                   packed |-> packed,
                   visits |-> rows * tiles,
                   workingSet |-> FloatBytes * (k.tileQ * call.d + k.tileK * columns + k.tileQ * call.dv),
                   chains |-> IF k.packs THEN k.tileQ * k.vectors ELSE 1,
                   registers |-> IF k.packs THEN k.tileQ * k.vectors + k.tileQ + 3 ELSE 5,
                   horizontal |-> IF k.packs THEN 0 ELSE pairs * executed * half]
    BY <1>5 DEF Work, ParallelWork
  <2> HIDE DEF length, pairs, rows, columns, executed, packed, rd, rdv, tiles, half, k
  <2>6. 2 * pairs * (executed * rd + length * rdv) \in Int
    BY <2>2
  <2>7. FloatBytes * (pairs * columns + call.kvHeads * length * columns
                        + rows * length * columns + 2 * packed) \in Int
    BY <2>1, <2>2, <2>3, <2>4 DEF FloatBytes
  <2>8. rows * tiles \in Int /\ pairs * executed * half \in Int /\ k.tileQ * k.vectors \in Int
    BY <1>3, <2>2, <2>3
  <2>9. FloatBytes * (k.tileQ * call.d + k.tileK * columns + k.tileQ * call.dv) \in Int
    BY <1>3, <1>4, <2>2 DEF FloatBytes
  <2>10. /\ (IF k.packs THEN k.tileQ * k.vectors ELSE 1) \in Int
         /\ (IF k.packs THEN k.tileQ * k.vectors + k.tileQ + 3 ELSE 5) \in Int
         /\ (IF k.packs THEN 0 ELSE pairs * executed * half) \in Int
    BY <1>3, <2>8
  <2>11. QED
    BY <2>4, <2>5, <2>6, <2>7, <2>8, <2>9, <2>10 DEF IsWork
<1>6. CASE call.kind # "parallel"
  <2>1. call.tokens \in Nat \ {0}
    BY <1>6 DEF HostMatches, LegalCall
  <2> DEFINE state == call.d * call.dv
             block == IF k.lowering \in Blocks THEN k.tileQ ELSE 1
             rounded == RoundUp(call.tokens, block)
             tokens == call.heads * rounded
             inputs == tokens * 2 * (call.d + call.dv)
             factor == IF k.lowering = "linear_2d" THEN DvBlocks(k) ELSE 1
             blocks == Ceiling(call.tokens, block)
             vectors == Ceiling(call.dv, Lanes)
  <2>2. block \in Nat \ {0}
    BY <1>3
  <2>3. state \in Int /\ rounded \in Int /\ blocks \in Int /\ vectors \in Int /\ factor \in Int
    <3>1. rounded \in Int /\ blocks \in Int
      <4> HIDE DEF block
      <4>1. QED
        BY <2>1, <2>2, RoundUpType
    <3>2. vectors \in Int /\ DvBlocks(k) \in Int
      BY <1>3, <1>4, RoundUpType DEF DvBlocks
    <3>3. state \in Int /\ factor \in Int
      BY <1>4, <3>2
    <3>4. QED
      BY <3>1, <3>2, <3>3
  <2>4. tokens \in Int
    <3> HIDE DEF rounded
    <3>1. QED
      BY <1>4, <2>3
  <2>5. inputs \in Int
    <3> HIDE DEF tokens
    <3>1. QED
      BY <1>4, <2>4
  <2>6. Work(p) = [flops |-> 4 * tokens * state + IF block > 1 THEN tokens * block * (call.d + call.dv) ELSE 0,
                   bytes |-> FloatBytes * (call.heads * state + inputs * factor),
                   packed |-> 0,
                   visits |-> call.heads * blocks,
                   workingSet |-> FloatBytes * (state + p.memory.total),
                   chains |-> vectors,
                   registers |-> block + 4,
                   horizontal |-> 0]
    BY <1>6 DEF Work, LinearWork
  <2> HIDE DEF state, block, rounded, tokens, inputs, factor, blocks, vectors, k
  <2>7. /\ 4 * tokens * state \in Int /\ tokens * block * (call.d + call.dv) \in Int
        /\ call.heads * blocks \in Int /\ block + 4 \in Int
    BY <1>4, <2>2, <2>3, <2>4
  <2>8. /\ FloatBytes * (call.heads * state + inputs * factor) \in Int
        /\ FloatBytes * (state + p.memory.total) \in Int
    BY <1>4, <2>3, <2>5 DEF FloatBytes
  <2>9. 4 * tokens * state + (IF block > 1 THEN tokens * block * (call.d + call.dv) ELSE 0) \in Int
    BY <2>7
  <2>10. QED
    BY <2>3, <2>6, <2>7, <2>8, <2>9 DEF IsWork
<1>7. QED
  BY <1>5, <1>6

LEMMA BandwidthType ==
  ASSUME HostMatches, NEW cpu, NEW bytes
  PROVE  Bandwidth(cpu, bytes) \in Nat \ {0}
<1> DEFINE levels == {x.level : x \in {y \in host.caches :
                        cpu \in y.shared /\ y.kind \in {"data", "unified"} /\ bytes <= y.size}}
           level == IF levels = {} THEN 4 ELSE Min(levels)
           factor == CASE level = 1 -> 8 [] level = 2 -> 4 [] level = 3 -> 2 [] OTHER -> 1
           n == (VectorBytes * factor) \div 4
<1>1. Bandwidth(cpu, bytes) = Max({8, n})
  BY DEF Bandwidth
<1> HIDE DEF level
<1>2. factor \in {8, 4, 2, 1}
  BY Zenon
<1> HIDE DEF factor
<1>3. VectorBytes \in {64, 32, 16}
  BY LanesAre
<1>4. n \in Int
  BY <1>2, <1>3
<1> HIDE DEF n
<1>5. IsFiniteSet({8, n})
  BY PairFinite
<1>6. {8, n} # {} /\ {8, n} \subseteq Int /\ 8 \in {8, n}
  BY <1>4
<1>7. Max({8, n}) \in {8, n} /\ 8 <= Max({8, n})
  BY <1>5, <1>6, GreatestOf
<1>8. QED
  BY <1>1, <1>4, <1>7

LEMMA EstimateType ==
  ASSUME HostMatches, NEW p \in Candidates, NEW cpu
  PROVE  Estimate(p, cpu) \in Int
<1> DEFINE work == Work(p)
           pipes == IF host.features \cap {"fma", "asimd", "sve"} # {} THEN 2 ELSE 1
           quarters == IF work.chains > 1 THEN Smaller(4, work.chains) ELSE 4
           cost == (4 * Scale) \div (2 * Lanes * pipes * quarters)
           moved == Scale \div Bandwidth(cpu, work.workingSet)
           copied == Scale \div Bandwidth(cpu, Max({1, work.packed * FloatBytes}))
           filled == Scale \div Lanes
           registers == IF host.architecture = "aarch64" \/ Lanes >= 16 THEN 32 ELSE 16
           spare == work.registers - (registers - 6)
           spills == Max({0, spare})
           compute == work.flops * cost + work.horizontal
           data == work.bytes * moved
           slower == Max({compute, data})
           packing == work.packed * filled + 2 * (work.packed * FloatBytes) * copied
<1>1. IsWork(work)
  BY WorkIsNumbers
<1>2. Lanes \in {16, 8, 4}
  BY LanesAre
<1>3. Estimate(p, cpu) = slower + packing + work.visits * (4 + spills) * Scale
  BY DEF Estimate
<1> HIDE DEF work
<1>4. /\ work.flops \in Int /\ work.bytes \in Int /\ work.packed \in Int /\ work.visits \in Int
      /\ work.chains \in Int /\ work.registers \in Int /\ work.horizontal \in Int
  BY <1>1 DEF IsWork
<1>5. quarters \in {2, 3, 4} /\ pipes \in {1, 2}
  BY <1>4 DEF Smaller
<1>6. /\ Bandwidth(cpu, work.workingSet) \in Nat \ {0}
      /\ Bandwidth(cpu, Max({1, work.packed * FloatBytes})) \in Nat \ {0}
  BY BandwidthType
<1>7. ASSUME NEW b \in Nat \ {0} PROVE Scale \div b \in Int
  <2>1. Scale \in Nat
    BY DEF Scale
  <2> HIDE DEF Scale
  <2>2. QED
    BY <2>1, DivideLeaves
<1>8. moved \in Int /\ copied \in Int /\ filled \in Int
  <2>1. Lanes \in Nat \ {0}
    BY <1>2
  <2>2. QED
    BY <1>6, <1>7, <2>1
<1>9. cost \in Int
  <2> HIDE DEF pipes, quarters
  <2>1. 2 * Lanes * pipes * quarters \in Nat \ {0}
    BY <1>2, <1>5
  <2>2. 4 * Scale \in Nat
    BY DEF Scale
  <2> HIDE DEF cost
  <2>3. (4 * Scale) \div (2 * Lanes * pipes * quarters) \in Nat
    BY <2>1, <2>2, DivideLeaves
  <2>4. QED
    BY <2>3 DEF cost
<1> HIDE DEF pipes, quarters, moved, copied, filled, cost
<1>10. spare \in Int
  BY <1>4
<1>11. ASSUME NEW a \in Int, NEW b \in Int PROVE Max({a, b}) \in Int
  <2>1. IsFiniteSet({a, b})
    BY PairFinite
  <2>2. {a, b} # {} /\ {a, b} \subseteq Int
    OBVIOUS
  <2>3. Max({a, b}) \in {a, b}
    BY <2>1, <2>2, GreatestOf
  <2>4. QED
    BY <2>3
<1>12. spills \in Int
  <2> HIDE DEF spare
  <2>1. QED
    BY <1>10, <1>11
<1>13. compute \in Int /\ data \in Int
  BY <1>4, <1>8, <1>9
<1>14. slower \in Int
  <2> HIDE DEF compute, data
  <2>1. QED
    BY <1>11, <1>13
<1>15. packing \in Int
  BY <1>4, <1>8 DEF FloatBytes
<1> HIDE DEF spills, slower, packing
<1>16. work.visits * (4 + spills) * Scale \in Int
  BY <1>4, <1>12 DEF Scale
<1>17. QED
  BY <1>3, <1>14, <1>15, <1>16

(* The ranking of a set of estimates by their cycles. *)
CheapestOf(s, E) == CHOOSE e \in E \ ToSet(s) : \A f \in E \ ToSet(s) : e.cycles <= f.cycles

AfterRanking(g, E, m) ==
  g = [n \in 0..m |-> IF n = 0 THEN <<>> ELSE Append(g[n - 1], CheapestOf(g[n - 1], E))]

LEMMA RankingExists ==
  ASSUME NEW E, NEW k \in Nat
  PROVE  \E g : AfterRanking(g, E, k)
<1> DEFINE T == {m \in Nat : \E h : AfterRanking(h, E, m)}
           Extended(s) == Append(s, CheapestOf(s, E))
           Upto(h, m) == h = [n \in 0..m |-> IF n = 0 THEN <<>> ELSE Extended(h[n - 1])]
<1>0. \A h, m : AfterRanking(h, E, m) <=> Upto(h, m)
  BY DEF AfterRanking
<1> HIDE DEF Extended
<1>1. 0 \in T
  <2> DEFINE h == [n \in 0..0 |-> <<>>]
  <2>1. Upto(h, 0)
    OBVIOUS
  <2> HIDE DEF h, Upto
  <2>2. QED
    BY <1>0, <2>1
<1>2. ASSUME NEW m \in T, m \in Nat PROVE m + 1 \in T
  <2>1. PICK h : Upto(h, m)
    BY <1>0
  <2> DEFINE next == [n \in 0..m + 1 |-> IF n = m + 1 THEN Extended(h[m]) ELSE h[n]]
  <2>2. ASSUME NEW n \in 0..m + 1 PROVE next[n] = IF n = 0 THEN <<>> ELSE Extended(next[n - 1])
    <3>1. CASE n = m + 1
      <4>1. n # 0 /\ n - 1 = m /\ next[n - 1] = h[m] /\ next[n] = Extended(h[m])
        BY <3>1
      <4>2. QED
        BY <4>1
    <3>2. CASE n \in 0..m /\ n # 0
      <4>1. n - 1 \in 0..m /\ n - 1 # m + 1 /\ n # m + 1
        BY <3>2
      <4>2. next[n] = h[n] /\ next[n - 1] = h[n - 1]
        BY <3>2, <4>1
      <4>3. h[n] = Extended(h[n - 1])
        BY <2>1, <3>2
      <4>4. QED
        BY <3>2, <4>2, <4>3
    <3>3. CASE n = 0
      BY <2>1, <3>3
    <3>4. QED
      BY <3>1, <3>2, <3>3
  <2>3. next = [n \in 0..m + 1 |-> next[n]]
    OBVIOUS
  <2> HIDE DEF next
  <2>4. Upto(next, m + 1)
    BY <2>2, <2>3
  <2>5. AfterRanking(next, E, m + 1)
    <3> HIDE DEF Upto
    <3>1. QED
      BY <1>0, <2>4
  <2>6. QED
    BY <2>5
<1>3. Nat \subseteq T
  <2> HIDE DEF T
  <2>1. QED
    BY <1>1, <1>2, Induction
<1>4. QED
  BY <1>3

(* n different estimates. *)
IsRanking(s, E, n) ==
  /\ Len(s) = n /\ s \in Seq(E)
  /\ \A i \in 1..n : \A j \in 1..n : s[i] = s[j] => i = j

LEMMA NextIsCheapest ==
  ASSUME NEW E, IsFiniteSet(E), \A e \in E : e.cycles \in Int, NEW n \in Nat, n < Cardinality(E),
         NEW s, IsRanking(s, E, n)
  PROVE  CheapestOf(s, E) \in E \ ToSet(s)
<1> DEFINE left == E \ ToSet(s)
           B == {t \in left \X left : t[1].cycles < t[2].cycles}
<1>1. Len(s) = n /\ s \in Seq(E) /\ DOMAIN s = 1..n
  BY DEF IsRanking
<1>2. IsFiniteSet(1..n) /\ Cardinality(1..n) = n
  <2>1. 1 \in Int /\ n \in Int
    OBVIOUS
  <2>2. IsFiniteSet(1..n) /\ Cardinality(1..n) = IF 1 > n THEN 0 ELSE n - 1 + 1
    BY <2>1, FS_Interval
  <2>3. QED
    BY <2>2
<1>3. left # {}
  <2> SUFFICES ASSUME left = {} PROVE FALSE
    OBVIOUS
  <2> DEFINE D == DOMAIN s
             I == {s[i] : i \in D}
  <2>1. E \subseteq I
    BY DEF ToSet
  <2>2. IsFiniteSet(D) /\ Cardinality(D) = n
    BY <1>1, <1>2
  <2> HIDE DEF D
  <2>3. DOMAIN s = D
    BY DEF D
  <2>4. IsFiniteSet(I) /\ Cardinality(I) <= Cardinality(D)
    BY <2>2, <2>3, ImageFinite
  <2> HIDE DEF I
  <2>5. Cardinality(E) <= Cardinality(I)
    BY <2>1, <2>4, FS_Subset
  <2>6. Cardinality(E) \in Nat /\ Cardinality(I) \in Nat
    BY <2>4, FS_CardinalityType
  <2>7. QED
    BY <2>2, <2>4, <2>5, <2>6
<1>4. IsFiniteSet(left)
  BY FS_Subset
<1> HIDE DEF left
<1>5. left \subseteq E
  BY DEF left
<1>6. \A e \in left : \A f \in left : <<e, f>> \in B <=> e.cycles < f.cycles
  OBVIOUS
<1>7. \A e \in left : e.cycles \in Int
  BY <1>5
<1>8. \E e \in left : \A f \in left : <<f, e>> \notin B
  <2>1. \A e \in left : <<e, e>> \notin B
    BY <1>6, <1>7
  <2>2. \A e \in left : \A f \in left : \A h \in left :
          <<e, f>> \in B /\ <<f, h>> \in B => <<e, h>> \in B
    <3> HIDE DEF B
    <3>1. QED
      BY <1>6, <1>7
  <2> HIDE DEF B
  <2>3. QED
    BY <1>3, <1>4, <2>1, <2>2, MinimalExists
<1>9. \E e \in left : \A f \in left : e.cycles <= f.cycles
  <2>1. PICK e \in left : \A f \in left : <<f, e>> \notin B
    BY <1>8
  <2>2. ASSUME NEW f \in left PROVE e.cycles <= f.cycles
    <3>1. ~(f.cycles < e.cycles)
      BY <1>6, <2>1
    <3>2. e.cycles \in Int /\ f.cycles \in Int
      BY <1>7
    <3>3. QED
      BY <3>1, <3>2
  <2>3. QED
    BY <2>2
<1>10. (CHOOSE e \in left : \A f \in left : e.cycles <= f.cycles) \in left
  BY <1>9
<1>11. QED
  BY <1>10 DEF CheapestOf, left

LEMMA RankingLaws ==
  ASSUME NEW E, IsFiniteSet(E), \A e \in E : e.cycles \in Int, NEW N, N = Cardinality(E),
         NEW g, AfterRanking(g, E, N)
  PROVE  IsRanking(g[N], E, N)
<1> DEFINE T == {n \in Nat : n <= N => IsRanking(g[n], E, n)}
<1>1. N \in Nat
  BY FS_CardinalityType
<1>2. 0 \in T
  <2>1. g[0] = <<>>
    BY <1>1 DEF AfterRanking
  <2>2. IsRanking(<<>>, E, 0)
    BY DEF IsRanking
  <2>3. QED
    BY <2>1, <2>2
<1>3. ASSUME NEW n \in T, n \in Nat PROVE n + 1 \in T
  <2> SUFFICES ASSUME n + 1 <= N PROVE IsRanking(g[n + 1], E, n + 1)
    OBVIOUS
  <2> DEFINE s == g[n]
             e == CheapestOf(s, E)
             r == g[n + 1]
  <2>1. IsRanking(s, E, n) /\ n < Cardinality(E)
    BY <1>1
  <2>2. e \in E \ ToSet(s)
    <3> HIDE DEF s
    <3>1. QED
      BY <2>1, NextIsCheapest
  <2>3. r = Append(s, e)
    <3>1. n + 1 \in 0..N /\ n + 1 # 0 /\ (n + 1) - 1 = n
      BY <1>1
    <3>2. QED
      BY <3>1 DEF AfterRanking
  <2> HIDE DEF s, e, r
  <2>4. Len(s) = n /\ s \in Seq(E) /\ DOMAIN s = 1..n
    BY <2>1 DEF IsRanking
  <2>5. r \in Seq(E) /\ Len(r) = n + 1 /\ r[n + 1] = e /\ \A i \in 1..n : r[i] = s[i]
    BY <2>2, <2>3, <2>4
  <2>6. \A i \in 1..n : s[i] # e
    BY <2>2, <2>4 DEF ToSet
  <2>7. \A i \in 1..n : \A j \in 1..n : s[i] = s[j] => i = j
    BY <2>1 DEF IsRanking
  <2>8. \A i \in 1..n + 1 : i \in 1..n \/ i = n + 1
    OBVIOUS
  <2>9. \A i \in 1..n + 1 : \A j \in 1..n + 1 : r[i] = r[j] => i = j
    BY <2>5, <2>6, <2>7, <2>8
  <2>10. QED
    BY <2>5, <2>9 DEF IsRanking, r
<1>4. Nat \subseteq T
  <2> HIDE DEF T
  <2>1. QED
    BY <1>2, <1>3, Induction
<1>5. QED
  BY <1>1, <1>4

LEMMA OneWorkerExists ==
  ASSUME HostMatches
  PROVE  \E p \in Candidates : Team(p) = 1
<1>1. HostIsReal /\ LegalCall(call)
  BY DEF HostMatches
<1>2. PICK c : c \in PhysicalCpus
  <2>1. Cpus # {} /\ Cpus \in SUBSET Nat
    BY <1>1, HostFacts
  <2>2. PICK c \in Cpus : \A d \in Cpus : c <= d
    BY <2>1, LeastNatural
  <2>3. \A d \in Cpus : ~(d < c)
    BY <2>1, <2>2
  <2>4. c \in PhysicalCpus
    BY <2>3 DEF PhysicalCpus
  <2>5. QED
    BY <2>4
<1> DEFINE n == Node(c)
<1>3. n \in Nodes
  BY <1>2 DEF Nodes, PhysicalCpus
<1>4. 1 <= Len(NodeCpus(n))
  <2>1. c \in OnNode(n)
    BY <1>2 DEF OnNode
  <2>2. NodeCpus(n) \in Seq(OnNode(n)) /\ Len(NodeCpus(n)) = Cardinality(OnNode(n))
        /\ Cardinality(OnNode(n)) \in Nat /\ \E i \in DOMAIN NodeCpus(n) : NodeCpus(n)[i] = c
    <3>1. Lists(NodeCpus(n), OnNode(n), Less(OnNode(n)))
      BY <1>1, NodeLists
    <3>2. NodeCpus(n) \in Seq(OnNode(n)) /\ Len(NodeCpus(n)) = Cardinality(OnNode(n))
      BY <3>1, ListLength
    <3>3. QED
      BY <2>1, <3>1, <3>2 DEF Lists
  <2> HIDE DEF n
  <2>3. QED
    BY <2>2
<1>5. \E k \in CodePlans : k.lowering \in {"parallel_blocked", "linear_scan"}
  <2>1. CASE call.kind = "parallel"
    <3>1. PICK m : m \in Microkernels
      BY DEF Microkernels
    <3> DEFINE F(a, x, y, packs, dynamic) ==
                 ParallelPlan("parallel_blocked", a[1], a[2], a[2] * Lanes * x, Lanes * y, packs, dynamic)
               A == {F(a, x, y, packs, dynamic) :
                       a \in Microkernels, x \in 1..2, y \in 1..2, packs \in BOOLEAN, dynamic \in BOOLEAN}
               B == {ParallelPlan(lowering, 1, 2, x * Lanes, Lanes, packs, FALSE) :
                       lowering \in Split, x \in {2, 4}, packs \in BOOLEAN}
    <3>2. A \subseteq ParallelPlans
      <4>1. ParallelPlans = A \cup (IF call.merges THEN B ELSE {})
        BY DEF ParallelPlans
      <4> HIDE DEF A, B
      <4>2. QED
        BY <4>1
    <3>6. PICK b : b \in BOOLEAN
      <4>1. TRUE \in BOOLEAN
        OBVIOUS
      <4>2. QED
        BY <4>1, Zenon
    <3> DEFINE k == F(m, 1, 1, b, b)
    <3>3. k.lowering = "parallel_blocked"
      BY DEF ParallelPlan
    <3> HIDE DEF F
    <3>7. k \in A
      BY <3>1, <3>6
    <3> HIDE DEF A, k
    <3>4. k \in ParallelPlans
      BY <3>2, <3>7
    <3>5. QED
      BY <2>1, <3>3, <3>4 DEF CodePlans
  <2>2. CASE call.kind # "parallel"
    <3> DEFINE k == LinearPlan("linear_scan", 1, 1 * Lanes, 1 * Lanes)
    <3>1. k \in {LinearPlan("linear_scan", 1, x[1] * Lanes, x[2] * Lanes) : x \in {<<1, 1>>, <<2, 1>>, <<1, 2>>}}
      <4> DEFINE x == <<1, 1>>
      <4>1. x \in {<<1, 1>>, <<2, 1>>, <<1, 2>>} /\ x[1] = 1 /\ x[2] = 1
        OBVIOUS
      <4> HIDE DEF x
      <4>2. k = LinearPlan("linear_scan", 1, x[1] * Lanes, x[2] * Lanes)
        BY <4>1
      <4>3. QED
        BY <4>1, <4>2
    <3>2. k.lowering = "linear_scan"
      BY DEF LinearPlan
    <3> HIDE DEF k
    <3>3. k \in LinearPlans
      BY <3>1 DEF LinearPlans
    <3>4. QED
      BY <2>2, <3>2, <3>3 DEF CodePlans
  <2>3. QED
    BY <2>1, <2>2
<1>6. PICK k \in CodePlans : k.lowering \in {"parallel_blocked", "linear_scan"}
  BY <1>5
<1>7. Admits(k, 1)
  BY <1>6 DEF Admits
<1>8. 1 \in Sizes(Smaller(MaximumParallelism(k), Cardinality(PhysicalCpus)))
  BY DEF Sizes
<1> HIDE DEF n
<1>9. QED
  BY <1>3, <1>4, <1>6, <1>7, <1>8, TeamWithinNode

EstimatesOf(plans) ==
  {[plan |-> p, cycles |-> Estimate(p, FixedCpu(OneWorkerPlans(plans)))] : p \in FixedCpuPlans(plans)}

LEMMA PredictionsAre ==
  ASSUME NEW plans, IsFiniteSet(EstimatesOf(plans)), NEW E, E = EstimatesOf(plans), NEW N, N = Cardinality(E)
  PROVE  \E g : AfterRanking(g, E, N) /\ Predictions(plans) = [i \in 1..N |-> g[N][i].plan]
<1> DEFINE g == CHOOSE g : AfterRanking(g, E, N)
<1>1. N \in Nat
  BY FS_CardinalityType
<1>2. AfterRanking(g, E, N)
  BY <1>1, RankingExists
<1>3. Predictions(plans) = [i \in 1..N |-> g[N][i].plan]
  BY DEF Predictions, AfterRanking, CheapestOf, EstimatesOf
<1>4. QED
  BY <1>2, <1>3

PredictionLaws(r) ==
  /\ \E n \in Nat \ {0} : DOMAIN r = 1..n
  /\ \A i \in DOMAIN r : r[i] \in Candidates
  /\ \A i \in DOMAIN r : \A j \in DOMAIN r : r[i] = r[j] => i = j
  /\ \A i \in DOMAIN r : \A j \in DOMAIN r : Team(r[i]) = 1 /\ r[i].launch.cpus = r[j].launch.cpus

LEMMA FixedCpuHasPlans ==
  ASSUME HostMatches
  PROVE  FixedCpuPlans(Candidates) # {}
<1> DEFINE O == OneWorkerPlans(Candidates)
           S == {c \in Cpus : \E p \in O : p.launch.cpus = <<c>>}
<1>1. PICK p \in Candidates : Team(p) = 1
  BY OneWorkerExists
<1>2. p \in O
  BY <1>1 DEF OneWorkerPlans, Team
<1>3. \E c \in Cpus : p.launch.cpus = <<c>>
  <2> DEFINE cpus == p.launch.cpus
  <2>1. IsPlan(p.code, p.launch, p.memory)
    BY CandidatesArePlans
  <2>2. IsTeam(cpus)
    BY <2>1 DEF IsPlan, SharesOut
  <2>3. Len(cpus) = 1 /\ cpus \in [1..Len(cpus) -> PhysicalCpus]
    BY <1>1, <2>2 DEF IsTeam, Team
  <2> HIDE DEF cpus
  <2>7. cpus \in [1..1 -> PhysicalCpus]
    BY <2>3
  <2>8. DOMAIN cpus = 1..1 /\ cpus[1] \in PhysicalCpus /\ cpus = [i \in 1..1 |-> cpus[i]]
    BY <2>7
  <2>4. cpus = <<cpus[1]>>
    <3> DEFINE c == cpus[1]
    <3>1. cpus = [i \in 1..1 |-> c]
      BY <2>8
    <3> HIDE DEF c
    <3>2. QED
      BY <3>1 DEF c
  <2>5. cpus[1] \in Cpus
    BY <2>8 DEF PhysicalCpus
  <2>6. QED
    BY <2>4, <2>5 DEF cpus
<1>4. S \in SUBSET Nat /\ S # {}
  <2>1. HostIsReal
    BY DEF HostMatches
  <2>2. \A c \in Cpus : c \in Nat
    BY <2>1, HostFacts
  <2>3. QED
    BY <1>2, <1>3, <2>2
<1> HIDE DEF O
<1>5. Min(S) \in S
  <2> HIDE DEF S
  <2>1. QED
    BY <1>4, LeastOf
<1>6. FixedCpu(O) = Min(S)
  BY DEF FixedCpu
<1>7. PICK q \in O : q.launch.cpus = <<FixedCpu(O)>>
  BY <1>5, <1>6
<1>8. QED
  BY <1>7 DEF FixedCpuPlans, O

LEMMA PredictionsLaws ==
  ASSUME HostMatches, NEW r, r = Predictions(Candidates)
  PROVE  PredictionLaws(r)
<1> DEFINE S == FixedCpuPlans(Candidates)
           cpu == FixedCpu(OneWorkerPlans(Candidates))
           F(p) == [plan |-> p, cycles |-> Estimate(p, cpu)]
           f == [p \in S |-> F(p)]
           E == {f[p] : p \in S}
           N == Cardinality(E)
<1>1. S \subseteq Candidates /\ \A p \in S : Team(p) = 1 /\ p.launch.cpus = <<cpu>>
  BY DEF FixedCpuPlans, OneWorkerPlans, Team
<1>2. S # {}
  BY FixedCpuHasPlans
<1>3. E = EstimatesOf(Candidates)
  BY DEF EstimatesOf
<1>4. \A p \in S : F(p).plan = p /\ F(p).cycles \in Int
  BY <1>1, EstimateType
<1>5. \A p \in S : f[p] = F(p)
  OBVIOUS
<1> HIDE DEF F, cpu
<1>6. IsFiniteSet(S)
  BY <1>1, CandidatesFinite, FS_Subset
<1> HIDE DEF S
<1>7. DOMAIN f = S
  OBVIOUS
<1> HIDE DEF f
<1>8. IsFiniteSet(E)
  BY <1>6, <1>7, ImageFinite
<1>9. \A e \in E : e.plan \in S /\ e = F(e.plan) /\ e.cycles \in Int
  BY <1>4, <1>5
<1>10. E # {}
  BY <1>2
<1> HIDE DEF E
<1>11. N \in Nat /\ N # 0
  BY <1>8, <1>10, FS_EmptySet, FS_CardinalityType
<1> HIDE DEF N
<1>12. N = Cardinality(E) /\ IsFiniteSet(EstimatesOf(Candidates))
  BY <1>3, <1>8 DEF N
<1>13. PICK g : AfterRanking(g, E, N) /\ Predictions(Candidates) = [i \in 1..N |-> g[N][i].plan]
  BY <1>3, <1>12, PredictionsAre
<1> DEFINE s == g[N]
<1>14. IsRanking(s, E, N)
  <2> HIDE DEF s
  <2>1. QED
    BY <1>8, <1>9, <1>12, <1>13, RankingLaws DEF s
<1>15. DOMAIN r = 1..N /\ \A i \in 1..N : r[i] = s[i].plan
  BY <1>13
<1> HIDE DEF s
<1>16. \A i \in 1..N : s[i] \in E
  BY <1>11, <1>14 DEF IsRanking
<1>17. \A i \in 1..N : r[i] \in S /\ s[i] = F(r[i])
  BY <1>9, <1>15, <1>16
<1>18. ASSUME NEW i \in 1..N, NEW j \in 1..N, r[i] = r[j] PROVE i = j
  <2>1. s[i] = s[j]
    BY <1>17, <1>18
  <2>2. QED
    BY <1>14, <2>1 DEF IsRanking
<1>19. ASSUME NEW i \in 1..N, NEW j \in 1..N
       PROVE  r[i] \in Candidates /\ Team(r[i]) = 1 /\ r[i].launch.cpus = r[j].launch.cpus
  BY <1>1, <1>17
<1>20. QED
  BY <1>11, <1>15, <1>18, <1>19 DEF PredictionLaws

-----------------------------------------------------------------------------
(* The invariant of the search: what it goes through are different plans of
   the call, well placed and enough of them, and what it has measured is the
   first of them. *)
OfferedTeams == {o[1] : o \in offered}

OfferedPackings == {o[2] : o \in offered}

PlansInvited ==
  /\ \E n \in Nat : DOMAIN representatives = 1..n
  /\ \A i \in DOMAIN representatives :
       IsPlan(representatives[i].code, representatives[i].launch, representatives[i].memory)
  /\ \A i \in DOMAIN representatives : \A j \in DOMAIN representatives :
       representatives[i] = representatives[j] => i = j
  /\ offered = {} => representatives = <<>>

(* Of WorkerCountTuner. *)
TeamsInvited ==
  tuner = "worker_count" =>
    /\ \A i \in DOMAIN representatives : NearMemory(representatives[i])
    /\ BudgetHolds(OfferedTeams, OfferedPackings) =>
         \A o \in offered : o[1] \in TopologyTeams(OfferedTeams) =>
           \E i \in DOMAIN representatives :
             i <= Maxnum /\ Team(representatives[i]) = o[1] /\ representatives[i].code.packs = o[2]

(* Of SingleCoreTuner. *)
OneCpuInvited ==
  tuner = "single_core" =>
    /\ offered # {} => representatives # <<>>
    /\ \A i \in DOMAIN representatives : \A j \in DOMAIN representatives :
         Team(representatives[i]) = 1 /\ representatives[i].launch.cpus = representatives[j].launch.cpus

FirstMeasured ==
  /\ history \in Seq(ToSet(representatives)) /\ Len(history) <= Maxnum
  /\ \A i \in DOMAIN history : i \in DOMAIN representatives /\ history[i] = representatives[i]
  /\ settled /\ ByKnownTuner => history # <<>> /\ (Len(history) = Maxnum \/ Unmeasured = {})

SearchInv == PlanInv /\ PlansInvited /\ TeamsInvited /\ OneCpuInvited /\ FirstMeasured

(* What does not change with the machine, the host and the call. *)
LEMMA PlacesStay ==
  ASSUME UNCHANGED problem
  PROVE  /\ \A p : NearMemory(p)' = NearMemory(p)
         /\ \A S : TopologyTeams(S)' = TopologyTeams(S)
<1>1. host' = host /\ call' = call
  BY DEF problem
<1>2. \A p : NearMemory(p)' = NearMemory(p)
  BY <1>1 DEF NearMemory, Nodes, Node, NodeCpus, PhysicalCpus, Cpus, InOrder, Team
<1>3. \A S : TopologyTeams(S)' = TopologyTeams(S)
  BY <1>1 DEF TopologyTeams, Topology, Nodes, Node, NodeCpus, PhysicalCpus, Cpus, InOrder
<1>4. QED
  BY <1>2, <1>3

LEMMA BudgetStays ==
  ASSUME UNCHANGED problem
  PROVE  \A S, P : BudgetHolds(S, P)' = BudgetHolds(S, P)
<1>1. \A S : TopologyTeams(S)' = TopologyTeams(S)
  BY PlacesStay
<1>2. QED
  BY <1>1 DEF BudgetHolds

(* Whatever leaves the candidates alone leaves what is said of them. *)
LEMMA InvitationsStay ==
  ASSUME PlansInvited, TeamsInvited, OneCpuInvited,
         UNCHANGED <<problem, offered, representatives>>
  PROVE  PlansInvited' /\ TeamsInvited' /\ OneCpuInvited'
<1>1. UNCHANGED problem /\ offered' = offered /\ representatives' = representatives /\ tuner' = tuner
  BY DEF problem
<1>2. \A k, l, m : IsPlan(k, l, m) => IsPlan(k, l, m)'
  BY <1>1, PlansStay
<1>3. (\A p : NearMemory(p)' = NearMemory(p)) /\ (\A S : TopologyTeams(S)' = TopologyTeams(S))
  BY <1>1, PlacesStay
<1>4. \A S, P : BudgetHolds(S, P)' = BudgetHolds(S, P)
  BY <1>1, BudgetStays
<1>5. PlansInvited'
  BY <1>1, <1>2 DEF PlansInvited
<1>6. TeamsInvited'
  <2>1. OfferedTeams' = OfferedTeams /\ OfferedPackings' = OfferedPackings
    BY <1>1 DEF OfferedTeams, OfferedPackings
  <2>2. QED
    BY <1>1, <1>3, <1>4, <2>1 DEF TeamsInvited, Team
<1>7. OneCpuInvited'
  BY <1>1 DEF OneCpuInvited, Team
<1>8. QED
  BY <1>5, <1>6, <1>7

LEMMA BuildStep ==
  ASSUME SearchInv, Build
  PROVE  SearchInv'
<1> DEFINE C == Candidates
           o(p) == <<Team(p), p.code.packs, p.code.dynamic>>
<1>1. /\ UNCHANGED vars /\ history' = history /\ settled' = settled /\ ByKnownTuner /\ offered = {}
      /\ offered' = {o(p) : p \in C}
      /\ representatives' = IF tuner = "single_core" THEN Predictions(C) ELSE RepresentativesOf(C)
  BY DEF Build
<1>2. UNCHANGED problem /\ tuner' = tuner
  BY <1>1 DEF vars, problem
<1>3. HostMatches
  BY DEF SearchInv, PlanInv
<1>4. PlanInv'
  BY <1>1, PlanStutters DEF SearchInv
<1>5. representatives = <<>> /\ history = <<>>
  <2>1. representatives = <<>>
    BY <1>1 DEF SearchInv, PlansInvited
  <2>2. DOMAIN representatives = {}
    BY <2>1
  <2>3. history \in Seq(ToSet(representatives)) /\ DOMAIN history = {}
    BY <2>2 DEF SearchInv, FirstMeasured
  <2>4. QED
    BY <2>1, <2>3
<1>6. \A p \in C : o(p)[1] = Team(p) /\ o(p)[2] = p.code.packs
  OBVIOUS
<1> HIDE DEF o
<1>7. OfferedTeams' = Teams(C) /\ OfferedPackings' = Packings(C) /\ (offered' = {} => C = {})
  <2>1. OfferedTeams' = {x[1] : x \in offered'} /\ OfferedPackings' = {x[2] : x \in offered'}
    BY DEF OfferedTeams, OfferedPackings
  <2> HIDE DEF C
  <2>2. QED
    BY <1>1, <1>6, <2>1 DEF Teams, Packings
<1>8. \A p \in C : IsPlan(p.code, p.launch, p.memory)
  BY <1>3, CandidatesArePlans
<1>9. \A k, l, m : IsPlan(k, l, m) => IsPlan(k, l, m)'
  BY <1>2, PlansStay
<1>10. (\A p : NearMemory(p)' = NearMemory(p)) /\ (\A S : TopologyTeams(S)' = TopologyTeams(S))
       /\ \A S, P : BudgetHolds(S, P)' = BudgetHolds(S, P)
  BY <1>2, PlacesStay, BudgetStays
<1>11. tuner = "single_core" => PredictionLaws(representatives')
  <2>1. \A r : r = Predictions(C) => PredictionLaws(r)
    BY <1>3, PredictionsLaws
  <2>2. QED
    BY <1>1, <2>1
<1>12. tuner # "single_core" => RepresentativeLaws(representatives')
  <2>1. \A r : r = RepresentativesOf(C) => RepresentativeLaws(r)
    BY <1>3, RepresentativesLaws
  <2>2. QED
    BY <1>1, <2>1
<1> DEFINE r == representatives'
<1>13. /\ \E n \in Nat : DOMAIN r = 1..n
       /\ \A i \in DOMAIN r : r[i] \in C
       /\ \A i \in DOMAIN r : \A j \in DOMAIN r : r[i] = r[j] => i = j
  <2>1. CASE tuner = "single_core"
    BY <1>11, <2>1 DEF PredictionLaws
  <2>2. CASE tuner # "single_core"
    BY <1>12, <2>2 DEF RepresentativeLaws
  <2>3. QED
    BY <2>1, <2>2
<1>14. PlansInvited'
  <2>1. \A i \in DOMAIN r : \A k, l, m :
          k = r[i].code /\ l = r[i].launch /\ m = r[i].memory => IsPlan(k, l, m)'
    BY <1>8, <1>9, <1>13
  <2>2. offered' = {} => r = <<>>
    <3>1. offered' = {} => DOMAIN r = {}
      BY <1>7, <1>13
    <3>2. tuner = "single_core" => DOMAIN r # {}
      BY <1>11 DEF PredictionLaws
    <3>3. tuner # "single_core" /\ DOMAIN r = {} => r = <<>>
      BY <1>1
    <3>4. QED
      BY <3>1, <3>2, <3>3
  <2>3. QED
    BY <1>13, <2>1, <2>2 DEF PlansInvited
<1>15. TeamsInvited'
  <2> SUFFICES ASSUME tuner = "worker_count"
               PROVE  /\ \A i \in DOMAIN r : NearMemory(r[i])
                      /\ BudgetHolds(Teams(C), Packings(C)) =>
                           \A x \in offered' : x[1] \in TopologyTeams(Teams(C)) =>
                             \E i \in DOMAIN r : i <= Maxnum /\ Team(r[i]) = x[1] /\ r[i].code.packs = x[2]
    BY <1>2, <1>7, <1>10 DEF TeamsInvited
  <2>1. RepresentativeLaws(r)
    BY <1>12
  <2>2. \A i \in DOMAIN r : NearMemory(r[i])
    <3>1. \A i \in DOMAIN r : r[i] \in Candidates /\ BestOfItsTeam(r[i])
      BY <2>1 DEF RepresentativeLaws
    <3>2. QED
      BY <1>3, <3>1, BestIsNearMemory
  <2>3. ASSUME BudgetHolds(Teams(C), Packings(C)), NEW x \in offered', x[1] \in TopologyTeams(Teams(C))
        PROVE  \E i \in DOMAIN r : i <= Maxnum /\ Team(r[i]) = x[1] /\ r[i].code.packs = x[2]
    <3>1. PICK p \in C : x = o(p)
      BY <1>1
    <3>2. x[1] = Team(p) /\ x[2] = p.code.packs
      BY <1>6, <3>1
    <3>3. RepresentativeOf(r, p)
      BY <2>1, <2>3, <3>2 DEF RepresentativeLaws
    <3>4. QED
      BY <3>2, <3>3 DEF RepresentativeOf
  <2>4. QED
    BY <2>2, <2>3
<1>16. OneCpuInvited'
  <2> SUFFICES ASSUME tuner = "single_core"
               PROVE  /\ r # <<>>
                      /\ \A i \in DOMAIN r : \A j \in DOMAIN r :
                           Team(r[i]) = 1 /\ r[i].launch.cpus = r[j].launch.cpus
    BY <1>2 DEF OneCpuInvited, Team
  <2>1. PredictionLaws(r)
    BY <1>11
  <2>2. DOMAIN r # {}
    BY <2>1 DEF PredictionLaws
  <2>3. QED
    BY <2>1, <2>2 DEF PredictionLaws
<1>17. FirstMeasured'
  <2>1. history' = <<>> /\ Len(history') = 0 /\ DOMAIN history' = {}
    BY <1>1, <1>5
  <2>2. history' \in Seq(ToSet(representatives)')
    BY <2>1
  <2>3. Len(history') <= Maxnum
    BY <2>1, SearchAssumption
  <2>4. ~settled
    BY <1>1, <1>5 DEF SearchInv, FirstMeasured
  <2>5. QED
    BY <1>1, <2>1, <2>2, <2>3, <2>4 DEF FirstMeasured
<1>18. QED
  BY <1>4, <1>14, <1>15, <1>16, <1>17 DEF SearchInv

(* The first plan that is not measured is the one behind those that are. *)
LEMMA NextIsBehind ==
  ASSUME PlansInvited, FirstMeasured, Unmeasured # {}, NEW i, i = Min(Unmeasured)
  PROVE  i \in DOMAIN representatives /\ i = Len(history) + 1
<1>1. PICK n \in Nat : DOMAIN representatives = 1..n
  BY DEF PlansInvited
<1>2. /\ history \in Seq(ToSet(representatives)) /\ DOMAIN history = 1..Len(history) /\ Len(history) \in Nat
      /\ \A j \in DOMAIN history : j \in DOMAIN representatives /\ history[j] = representatives[j]
  BY DEF FirstMeasured
<1> DEFINE U == Unmeasured
           h == Len(history)
<1>3. U \in SUBSET Nat
  BY <1>1 DEF Unmeasured
<1>4. Min(U) \in U /\ \A j \in U : Min(U) <= j
  <2> HIDE DEF U
  <2>1. U # {}
    BY DEF U
  <2>2. QED
    BY <1>3, <2>1, LeastOf
<1>5. i \in DOMAIN representatives /\ representatives[i] \notin ToSet(history)
      /\ \A j \in DOMAIN representatives : representatives[j] \notin ToSet(history) => i <= j
  BY <1>4 DEF Unmeasured
<1> HIDE DEF U, h
<1>6. h \in Nat /\ DOMAIN history = 1..h
  BY <1>2 DEF h
<1>7. \A j \in 1..h : j \in DOMAIN representatives /\ representatives[j] \in ToSet(history)
  BY <1>2, <1>6 DEF ToSet
<1>8. i \in 1..n /\ i \notin 1..h
  BY <1>1, <1>5, <1>7
<1>9. h + 1 \in 1..n
  BY <1>6, <1>8
<1>10. representatives[h + 1] \notin ToSet(history)
  <2> SUFFICES ASSUME NEW j \in 1..h, representatives[h + 1] = history[j] PROVE FALSE
    BY <1>6 DEF ToSet
  <2>1. representatives[h + 1] = representatives[j] /\ j \in DOMAIN representatives
    BY <1>2, <1>6
  <2>2. h + 1 = j
    BY <1>1, <1>9, <2>1 DEF PlansInvited
  <2>3. QED
    BY <1>6, <2>2
<1>11. i <= h + 1
  BY <1>1, <1>5, <1>9, <1>10
<1>12. QED
  BY <1>5, <1>6, <1>8, <1>11 DEF h

LEMMA LegalIsPlanned ==
  ASSUME NEW k, LegalCode(k)
  PROVE  k # Unplanned
<1>1. k.lowering # "none"
  BY DEF LegalCode, Split, Blocks
<1>2. Unplanned.lowering = "none"
  BY DEF Unplanned
<1>3. QED
  BY <1>1, <1>2

LEMMA MeasureStep ==
  ASSUME SearchInv, Measure
  PROVE  SearchInv'
<1> DEFINE i == Min(Unmeasured)
           p == representatives[i]
<1>1. /\ ~settled /\ Len(history) < Maxnum /\ Unmeasured # {}
      /\ code' = p.code /\ launch' = p.launch /\ memory' = p.memory
      /\ history' = Append(history, p)
      /\ status' = KernelStatus(p.code, p.launch, p.memory, call, PlannedSkv)
      /\ served' = call /\ skv' = PlannedSkv /\ UNCHANGED problem
      /\ offered' = offered /\ representatives' = representatives /\ settled' = settled
  BY DEF Measure, TakePlan
<1>2. i \in DOMAIN representatives /\ i = Len(history) + 1
  <2> HIDE DEF i
  <2>1. i = Min(Unmeasured) /\ PlansInvited /\ FirstMeasured
    BY DEF i, SearchInv
  <2>2. QED
    BY <1>1, <2>1, NextIsBehind
<1> HIDE DEF i
<1>3. IsPlan(p.code, p.launch, p.memory)
  BY <1>2 DEF SearchInv, PlansInvited
<1> HIDE DEF p
<1>4. HostMatches /\ LegalCall(call)
  BY DEF SearchInv, PlanInv, HostMatches
<1>5. PlanMatches'
  <2>1. \A k, l, m : IsPlan(k, l, m) => IsPlan(k, l, m)'
    BY <1>1, PlansStay
  <2>2. \A k, l, m : k = code' /\ l = launch' /\ m = memory' => IsPlan(k, l, m)'
    BY <1>1, <1>3, <2>1
  <2>3. QED
    BY <2>2 DEF PlanMatches
<1>6. AnswerMatches'
  <2>1. PlannedSkv \in 1..PlannedSkv
    BY <1>4, PlannedLength
  <2>2. \A s : s = KernelStatus(p.code, p.launch, p.memory, call, PlannedSkv) =>
          s \in {0, -3} /\ (s = -3 => Refused(p.code, p.launch, PlannedSkv))
    BY <1>3, <1>4, <2>1, KernelAnswers DEF NoLarger
  <2>3. status' \in {0, -3} /\ (status' = -3 => Refused(code', launch', skv'))
    BY <1>1, <2>2
  <2>4. code' # Unplanned
    <3>1. LegalCode(p.code)
      BY <1>3 DEF IsPlan
    <3>2. p.code # Unplanned
      BY <3>1, LegalIsPlanned
    <3>3. QED
      BY <1>1, <3>2
  <2>5. Planned'
    BY <2>4 DEF Planned
  <2>6. \A k, l, n : k = code' /\ l = launch' /\ n = skv' /\ status' = -3 => Refused(k, l, n)
    BY <2>3
  <2>7. status' \in {0, -2, -3, NotRun} /\ status' # -2
    BY <2>3
  <2>8. QED
    BY <2>5, <2>6, <2>7 DEF AnswerMatches
<1>7. PlanInv'
  BY <1>1, <1>4, <1>5, <1>6, HostStays DEF PlanInv
<1>8. PlansInvited' /\ TeamsInvited' /\ OneCpuInvited'
  BY <1>1, InvitationsStay DEF SearchInv
<1>9. FirstMeasured'
  <2> DEFINE S == ToSet(representatives)
             h == Len(history)
  <2>1. history \in Seq(S) /\ \A j \in DOMAIN history :
          j \in DOMAIN representatives /\ history[j] = representatives[j]
    BY DEF SearchInv, FirstMeasured
  <2>2. p \in S
    BY <1>2 DEF ToSet, p
  <2>3. p = representatives[h + 1] /\ h + 1 \in DOMAIN representatives
    BY <1>2 DEF p
  <2> HIDE DEF S
  <2>4. /\ history' \in Seq(S) /\ Len(history') = h + 1 /\ DOMAIN history' = 1..h + 1 /\ h \in Nat
        /\ history'[h + 1] = p /\ DOMAIN history = 1..h
        /\ \A j \in 1..h : history'[j] = history[j]
    BY <1>1, <2>1, <2>2
  <2>5. h + 1 <= Maxnum
    BY <1>1, <2>4, SearchAssumption
  <2> HIDE DEF h
  <2>6. \A j \in 1..h + 1 : j \in DOMAIN representatives /\ history'[j] = representatives[j]
    <3>1. \A j \in 1..h + 1 : j \in 1..h \/ j = h + 1
      BY <2>4
    <3>2. QED
      BY <2>1, <2>3, <2>4, <3>1
  <2>7. ToSet(representatives)' = S
    BY <1>1 DEF S
  <2>8. history' \in Seq(ToSet(representatives)') /\ Len(history') <= Maxnum
    BY <2>4, <2>5, <2>7
  <2>9. \A j \in DOMAIN history' : j \in DOMAIN representatives' /\ history'[j] = representatives'[j]
    BY <1>1, <2>4, <2>6
  <2>10. QED
    BY <1>1, <2>8, <2>9 DEF FirstMeasured
<1>10. QED
  BY <1>7, <1>8, <1>9 DEF SearchInv

LEMMA SettleStep ==
  ASSUME SearchInv, Settle
  PROVE  SearchInv'
<1>1. /\ ~settled /\ history # <<>> /\ NoneRefused
      /\ Len(history) = Maxnum \/ Unmeasured = {}
      /\ UNCHANGED problem /\ served' = served /\ skv' = skv /\ status' = status /\ offered' = offered
      /\ representatives' = representatives /\ history' = history
  BY DEF Settle
<1>2. PICK p \in ToSet(history) : code' = p.code /\ launch' = p.launch /\ memory' = p.memory
  BY DEF Settle, TakePlan
<1>3. IsPlan(p.code, p.launch, p.memory)
  <2>1. PICK i \in DOMAIN history : p = history[i]
    BY <1>2 DEF ToSet
  <2>2. i \in DOMAIN representatives /\ p = representatives[i]
    BY <2>1 DEF SearchInv, FirstMeasured
  <2>3. QED
    BY <2>2 DEF SearchInv, PlansInvited
<1>4. HostMatches
  BY DEF SearchInv, PlanInv
<1>5. PlanMatches'
  <2>1. \A k, l, m : IsPlan(k, l, m) => IsPlan(k, l, m)'
    BY <1>1, PlansStay
  <2>2. \A k, l, m : k = code' /\ l = launch' /\ m = memory' => IsPlan(k, l, m)'
    BY <1>2, <1>3, <2>1
  <2>3. QED
    BY <2>2 DEF PlanMatches
<1>6. AnswerMatches'
  <2>1. status' \in {0, NotRun}
    BY <1>1 DEF NoneRefused
  <2>2. code' # Unplanned
    BY <1>2, <1>3, LegalIsPlanned DEF IsPlan
  <2>3. Planned'
    BY <2>2 DEF Planned
  <2>4. QED
    BY <2>1, <2>3 DEF AnswerMatches, NotRun
<1>7. PlanInv'
  BY <1>1, <1>4, <1>5, <1>6, HostStays DEF PlanInv
<1>8. PlansInvited' /\ TeamsInvited' /\ OneCpuInvited'
  BY <1>1, InvitationsStay DEF SearchInv
<1>9. FirstMeasured'
  <2>1. Unmeasured' = Unmeasured
    BY <1>1 DEF Unmeasured
  <2>2. QED
    BY <1>1, <2>1 DEF SearchInv, FirstMeasured
<1>10. QED
  BY <1>7, <1>8, <1>9 DEF SearchInv

(* A step of LaunchPlanning that leaves the search as it is. *)
LEMMA SearchKept ==
  ASSUME SearchInv, PlanInv', UNCHANGED <<problem, offered, representatives, history>>,
         settled' = settled \/ ~ByKnownTuner
  PROVE  SearchInv'
<1>1. PlansInvited' /\ TeamsInvited' /\ OneCpuInvited'
  BY InvitationsStay DEF SearchInv
<1>2. Unmeasured' = Unmeasured /\ ByKnownTuner' = ByKnownTuner
  BY DEF Unmeasured, ByKnownTuner, problem
<1>3. FirstMeasured'
  BY <1>2 DEF SearchInv, FirstMeasured
<1>4. QED
  BY <1>1, <1>3 DEF SearchInv

LEMMA SearchInvHolds ==
  SearchSpec => []SearchInv
<1>1. SearchInit => SearchInv
  <2> SUFFICES ASSUME SearchInit PROVE SearchInv
    OBVIOUS
  <2>1. offered = {} /\ representatives = <<>> /\ history = <<>> /\ settled = FALSE
    BY DEF SearchInit
  <2>2. PlanInv
    BY PlanInvStarts DEF SearchInit
  <2>3. DOMAIN representatives = 1..0 /\ DOMAIN representatives = {} /\ DOMAIN history = {} /\ Len(history) = 0
    BY <2>1
  <2>4. PlansInvited
    BY <2>1, <2>3 DEF PlansInvited
  <2>5. TeamsInvited /\ OneCpuInvited
    BY <2>1, <2>3 DEF TeamsInvited, OneCpuInvited
  <2>6. FirstMeasured
    BY <2>1, <2>3, SearchAssumption DEF FirstMeasured
  <2>7. QED
    BY <2>2, <2>4, <2>5, <2>6 DEF SearchInv
<1>2. SearchInv /\ [SearchNext]_searchVars => SearchInv'
  <2> SUFFICES ASSUME SearchInv, [SearchNext]_searchVars PROVE SearchInv'
    OBVIOUS
  <2>1. CASE Build
    BY <2>1, BuildStep
  <2>2. CASE Measure
    BY <2>2, MeasureStep
  <2>3. CASE Settle
    BY <2>3, SettleStep
  <2>4. CASE SettleAnyhow
    <3>1. PlanInv'
      BY <2>4, PlanStep DEF SettleAnyhow, SearchInv
    <3>2. QED
      BY <2>4, <3>1, SearchKept DEF SettleAnyhow, Plan
  <2>5. CASE Serve
    <3>1. PlanInv'
      BY <2>5, RunStep DEF Serve, SearchInv
    <3>2. QED
      BY <2>5, <3>1, SearchKept DEF Serve, Run
  <2>6. CASE UNCHANGED searchVars
    <3>1. PlanInv'
      BY <2>6, PlanStutters DEF searchVars, SearchInv
    <3>2. QED
      BY <2>6, <3>1, SearchKept DEF searchVars, vars
  <2>7. QED
    BY <2>1, <2>2, <2>3, <2>4, <2>5, <2>6 DEF SearchNext
<1>3. QED
  BY <1>1, <1>2, PTL DEF SearchSpec

LEMMA PlanInvHolds ==
  Spec => []PlanInv
<1>1. Init => PlanInv
  BY PlanInvStarts
<1>2. PlanInv /\ [Next]_vars => PlanInv'
  <2> SUFFICES ASSUME PlanInv, [Next]_vars PROVE PlanInv'
    OBVIOUS
  <2>1. CASE Plan
    BY <2>1, PlanStep
  <2>2. CASE Run
    BY <2>2, RunStep
  <2>3. CASE UNCHANGED vars
    BY <2>3, PlanStutters
  <2>4. QED
    BY <2>1, <2>2, <2>3 DEF Next
<1>3. QED
  BY <1>1, <1>2, PTL DEF Spec

LEMMA PlansAlways ==
  (Spec => []PlanInv) /\ (SearchSpec => []PlanInv)
<1>1. SearchInv => PlanInv
  BY DEF SearchInv
<1>2. QED
  BY <1>1, PlanInvHolds, SearchInvHolds, PTL

-----------------------------------------------------------------------------
(* The properties of the plans. *)

(* Whatever the sizes, the pages and the bucket: the workspace that is planned
   for the first call of a bucket, at its edge, holds the layout the kernel
   computes for any call that replays the plan, at each length of the bucket,
   unless that call has more query rows, wider values or more K. *)
THEOREM WorkspaceSuffices ==
  (Spec => []MemorySuffices) /\ (SearchSpec => []MemorySuffices)
<1>1. PlanInv => MemorySuffices
  BY DEF PlanInv, AnswerMatches, MemorySuffices, NotRun
<1>2. QED
  BY <1>1, PlansAlways, PTL

(* No plan lacks an argument, and the one team a kernel refuses is an odd one
   of nine workers or more, more than the square of the key tiles of the call:
   HasNontrivialFactorization, which admits a team, does not look at them. *)
THEOREM OnlyOddTeamsRefused ==
  (Spec => []AcceptedByKernel) /\ (SearchSpec => []AcceptedByKernel)
<1>1. PlanInv => AcceptedByKernel
  <2> SUFFICES ASSUME PlanInv PROVE AcceptedByKernel
    OBVIOUS
  <2>1. status \in {0, -2, -3, NotRun}
    BY DEF PlanInv, AnswerMatches
  <2>2. status = -3 => Refused(code, launch, skv)
    BY DEF PlanInv, AnswerMatches, NotRun
  <2>3. status # -1
    BY <2>1 DEF NotRun
  <2>4. QED
    BY <2>2, <2>3, Zenon DEF AcceptedByKernel, Refused
<1>2. QED
  BY <1>1, PlansAlways, PTL

(* The buffers that a linear kernel lays out in a worker's part of the
   workspace end inside it: each lowering's extents add up to the scratch that
   _linear_scratch_terms counts. *)
THEOREM LinearBuffersFit ==
  (Spec => []BuffersFitTheStride) /\ (SearchSpec => []BuffersFitTheStride)
<1>1. PlanInv => BuffersFitTheStride
  <2> SUFFICES ASSUME PlanInv, Planned, call.kind = "linear"
               PROVE  SumOver(LinearBuffers(code), DOMAIN LinearBuffers(code)) <= WorkerStride(code, call)
    BY DEF BuffersFitTheStride
  <2>1. LegalCall(call) /\ LegalCode(code) /\ code.kind = call.kind
    BY DEF PlanInv, HostMatches, PlanMatches, IsPlan
  <2>2. SumOver(LinearBuffers(code), DOMAIN LinearBuffers(code)) = LinearScratch(code, call)
    BY <2>1, BuffersFillTheScratch
  <2>3. WorkerFloats(code, call) <= WorkerStride(code, call)
    BY <2>1, StrideLaws
  <2>4. WorkerFloats(code, call) = LinearScratch(code, call)
    BY <2>1 DEF WorkerFloats, LegalCode, Blocks, Split
  <2>5. QED
    BY <2>2, <2>3, <2>4
<1>2. QED
  BY <1>1, PlansAlways, PTL

LEMMA CoresOfTheMachineDiffer ==
  ASSUME HostIsReal, NEW a \in PhysicalCpus, NEW b \in PhysicalCpus, a # b,
         {a, b} \subseteq machine.readable
  PROVE  <<machine.cpus[a].socket, machine.cpus[a].core>>
           # <<machine.cpus[b].socket, machine.cpus[b].core>>
<1>1. <<host.cpus[a].socket, host.cpus[a].core>> # <<host.cpus[b].socket, host.cpus[b].core>>
  BY CoresDiffer
<1>2. \A c \in {a, b} : host.cpus[c] = LogicalCpu(machine, c) /\ c \in machine.readable
  BY CoresDiffer, HostFacts
<1>3. \A c \in {a, b} : host.cpus[c] = [core |-> machine.cpus[c].core,
                                         socket |-> machine.cpus[c].socket,
                                         node |-> machine.cpus[c].node]
  BY <1>2 DEF LogicalCpu
<1>4. QED
  BY <1>1, <1>3

LEMMA NodeOfTheMachine ==
  ASSUME HostIsReal, NEW c \in Cpus \cap machine.readable
  PROVE  Node(c) = machine.cpus[c].node
<1>1. host.cpus[c] = LogicalCpu(machine, c)
  BY HostFacts
<1>2. LogicalCpu(machine, c).node = machine.cpus[c].node
  BY DEF LogicalCpu
<1>3. QED
  BY <1>1, <1>2 DEF Node

(* On any machine, however its CPUs are numbered and whatever of it can be
   read: no two workers of a plan share a core, and each is in one group, that
   of its node. *)
THEOREM WorkersOnTheirOwnCores ==
  (Spec => []OneWorkerPerCore) /\ (SearchSpec => []OneWorkerPerCore)
<1>1. PlanInv => OneWorkerPerCore
  <2> SUFFICES ASSUME PlanInv, Planned PROVE OneWorkerPerCore
    BY DEF OneWorkerPerCore
  <2>1. HostIsReal /\ SharesOut(launch)
    BY DEF PlanInv, HostMatches, PlanMatches, IsPlan
  <2> DEFINE cpus == launch.cpus
             groups == launch.groups
  <2>2. /\ DOMAIN cpus = 1..Len(cpus) /\ \A w \in DOMAIN cpus : cpus[w] \in PhysicalCpus
        /\ \A v \in DOMAIN cpus : \A w \in DOMAIN cpus : cpus[v] = cpus[w] => v = w
    BY <2>1 DEF SharesOut, IsTeam
  <2>3. \A v, w \in DOMAIN cpus : v # w /\ {cpus[v], cpus[w]} \subseteq machine.readable =>
          <<machine.cpus[cpus[v]].socket, machine.cpus[cpus[v]].core>>
            # <<machine.cpus[cpus[w]].socket, machine.cpus[cpus[w]].core>>
    BY <2>1, <2>2, CoresOfTheMachineDiffer
  <2>4. /\ \A g \in DOMAIN groups : \A i \in DOMAIN groups[g].cpus :
             /\ \E w \in DOMAIN cpus : cpus[w] = groups[g].cpus[i]
             /\ Node(groups[g].cpus[i]) = groups[g].node
        /\ \A g \in DOMAIN groups : \A h \in DOMAIN groups : groups[g].node = groups[h].node => g = h
        /\ \A w \in DOMAIN cpus : \E g \in DOMAIN groups :
             \E i \in DOMAIN groups[g].cpus : groups[g].cpus[i] = cpus[w]
    BY <2>1 DEF SharesOut
  <2> HIDE DEF cpus, groups
  <2>5. ASSUME NEW w \in DOMAIN cpus
        PROVE  Cardinality({g \in DOMAIN groups : cpus[w] \in ToSet(groups[g].cpus)}) = 1
    <3>1. PICK g \in DOMAIN groups : \E i \in DOMAIN groups[g].cpus : groups[g].cpus[i] = cpus[w]
      BY <2>4
    <3>2. \A h \in DOMAIN groups : cpus[w] \in ToSet(groups[h].cpus) => h = g
      <4> SUFFICES ASSUME NEW h \in DOMAIN groups, cpus[w] \in ToSet(groups[h].cpus) PROVE h = g
        OBVIOUS
      <4>1. PICK j \in DOMAIN groups[h].cpus : groups[h].cpus[j] = cpus[w]
        BY DEF ToSet
      <4>2. Node(cpus[w]) = groups[h].node /\ Node(cpus[w]) = groups[g].node
        BY <2>4, <3>1, <4>1
      <4>3. QED
        BY <2>4, <4>2
    <3>3. cpus[w] \in ToSet(groups[g].cpus)
      BY <3>1 DEF ToSet
    <3>4. {h \in DOMAIN groups : cpus[w] \in ToSet(groups[h].cpus)} = {g}
      BY <3>2, <3>3
    <3>5. QED
      BY <3>4, FS_Singleton
  <2>6. ASSUME NEW g \in DOMAIN groups, NEW c \in ToSet(groups[g].cpus) \cap machine.readable
        PROVE  groups[g].node = machine.cpus[c].node
    <3>1. PICK i \in DOMAIN groups[g].cpus : groups[g].cpus[i] = c
      BY DEF ToSet
    <3>2. c \in Cpus /\ Node(c) = groups[g].node
      BY <2>1, <2>2, <2>4, <3>1, CoresDiffer
    <3>3. QED
      BY <2>1, <3>2, NodeOfTheMachine
  <2>7. QED
    BY <2>3, <2>5, <2>6 DEF OneWorkerPerCore, cpus, groups
<1>2. QED
  BY <1>1, PlansAlways, PTL

LEMMA BuiltCode ==
  ASSUME NEW k, LegalCode(k)
  PROVE  ValidCode(k)
<1>1. \A n \in {k.tileQ, k.tileK, k.tileDV} : n > 0
  BY DEF LegalCode
<1>2. k.packs \in BOOLEAN /\ (k.kind = "linear" => ~k.packs)
        /\ (k.dynamic => k.lowering = "parallel_blocked")
  BY DEF LegalCode
<1> DEFINE second == IF k.lowering \in Split THEN "partials" ELSE "scratch"
<1>3. k.packs => RegionNames(k) = <<"packed_k", second>>
  <2>1. k.packs => RegionNames(k) = <<"packed_k">> \o <<second>>
    BY DEF RegionNames
  <2> HIDE DEF second
  <2>2. QED
    BY <2>1, Pair
<1>4. ~k.packs => RegionNames(k) = <<second>>
  BY DEF RegionNames
<1>5. second # "packed_k"
  OBVIOUS
<1> HIDE DEF second
<1>6. k.packs => "packed_k" \in ToSet(RegionNames(k))
  <2> SUFFICES ASSUME k.packs PROVE "packed_k" \in ToSet(<<"packed_k", second>>)
    BY <1>3
  <2>1. 1 \in DOMAIN <<"packed_k", second>> /\ <<"packed_k", second>>[1] = "packed_k"
    OBVIOUS
  <2>2. QED
    BY <2>1 DEF ToSet
<1>7. ~k.packs => "packed_k" \notin ToSet(RegionNames(k))
  <2> SUFFICES ASSUME ~k.packs PROVE "packed_k" \notin ToSet(<<second>>)
    BY <1>4
  <2>1. \A i \in DOMAIN <<second>> : <<second>>[i] # "packed_k"
    BY <1>5
  <2>2. QED
    BY <2>1 DEF ToSet
<1>8. QED
  BY <1>1, <1>2, <1>6, <1>7 DEF ValidCode

LEMMA BuiltLaunch ==
  ASSUME HostIsReal, NEW l, SharesOut(l)
  PROVE  ValidLaunch(l)
<1> DEFINE cpus == l.cpus
           groups == l.groups
           places == UNION {{g} \X DOMAIN groups[g].cpus : g \in DOMAIN groups}
           grouped == [p \in places |-> groups[p[1]].cpus[p[2]]]
<1>1. /\ Len(cpus) # 0 /\ DOMAIN cpus = 1..Len(cpus)
      /\ \A v \in DOMAIN cpus : \A w \in DOMAIN cpus : cpus[v] = cpus[w] => v = w
  BY DEF SharesOut, IsTeam
<1>2. \A g \in DOMAIN groups :
        /\ groups[g].node \in Nat /\ groups[g].cpus # <<>> /\ IsInjective(groups[g].cpus)
        /\ \A i \in DOMAIN groups[g].cpus :
             /\ \E w \in DOMAIN cpus : cpus[w] = groups[g].cpus[i]
             /\ Node(groups[g].cpus[i]) = groups[g].node
  BY DEF SharesOut
<1>3. \A g \in DOMAIN groups : \A h \in DOMAIN groups : groups[g].node = groups[h].node => g = h
  BY DEF SharesOut
<1>4. \A w \in DOMAIN cpus : \E g \in DOMAIN groups :
        \E i \in DOMAIN groups[g].cpus : groups[g].cpus[i] = cpus[w]
  BY DEF SharesOut
<1>5. ASSUME NEW p \in places
      PROVE  /\ p[1] \in DOMAIN groups /\ p[2] \in DOMAIN groups[p[1]].cpus
             /\ p = <<p[1], p[2]>> /\ grouped[p] = groups[p[1]].cpus[p[2]]
  <2>1. PICK g \in DOMAIN groups : p \in {g} \X DOMAIN groups[g].cpus
    OBVIOUS
  <2> HIDE DEF groups
  <2>2. p[1] = g /\ p[2] \in DOMAIN groups[g].cpus /\ p = <<p[1], p[2]>>
    BY <2>1
  <2>3. grouped[p] = groups[p[1]].cpus[p[2]]
    OBVIOUS
  <2>4. QED
    BY <2>2, <2>3
<1>6. ASSUME NEW g \in DOMAIN groups, NEW i \in DOMAIN groups[g].cpus
      PROVE  <<g, i>> \in places /\ grouped[<<g, i>>] = groups[g].cpus[i]
  <2> HIDE DEF groups
  <2>1. <<g, i>> \in {g} \X DOMAIN groups[g].cpus
    OBVIOUS
  <2>2. <<g, i>> \in places
    BY <2>1
  <2>3. grouped[<<g, i>>] = groups[<<g, i>>[1]].cpus[<<g, i>>[2]]
    BY <2>2
  <2>4. QED
    BY <2>2, <2>3
<1>7. DOMAIN grouped = places
  OBVIOUS
<1> HIDE DEF cpus, groups, places, grouped
<1>8. IsInjective(grouped)
  <2> SUFFICES ASSUME NEW p \in places, NEW q \in places, grouped[p] = grouped[q] PROVE p = q
    BY <1>7 DEF IsInjective
  <2> DEFINE c == groups[p[1]].cpus
  <2>1. /\ p[1] \in DOMAIN groups /\ p[2] \in DOMAIN c /\ p = <<p[1], p[2]>> /\ grouped[p] = c[p[2]]
        /\ q[1] \in DOMAIN groups /\ q[2] \in DOMAIN groups[q[1]].cpus /\ q = <<q[1], q[2]>>
        /\ grouped[q] = groups[q[1]].cpus[q[2]]
    BY <1>5
  <2>2. Node(grouped[p]) = groups[p[1]].node /\ Node(grouped[q]) = groups[q[1]].node
    BY <1>2, <2>1
  <2>3. p[1] = q[1]
    BY <1>3, <2>1, <2>2
  <2>4. IsInjective(c) /\ q[2] \in DOMAIN c /\ c[p[2]] = c[q[2]]
    BY <1>2, <2>1, <2>3
  <2> HIDE DEF c
  <2>5. p[2] = q[2]
    BY <2>1, <2>4 DEF IsInjective
  <2>6. QED
    BY <2>1, <2>3, <2>5
<1>9. ToSet(grouped) = ToSet(cpus)
  <2>1. ASSUME NEW p \in places PROVE \E w \in DOMAIN cpus : cpus[w] = grouped[p]
    BY <1>2, <1>5
  <2>2. ASSUME NEW w \in DOMAIN cpus PROVE \E p \in places : grouped[p] = cpus[w]
    <3>1. PICK g \in DOMAIN groups : \E i \in DOMAIN groups[g].cpus : groups[g].cpus[i] = cpus[w]
      BY <1>4
    <3>2. PICK i \in DOMAIN groups[g].cpus : groups[g].cpus[i] = cpus[w]
      BY <3>1
    <3>3. QED
      BY <1>6, <3>2
  <2>3. QED
    BY <1>7, <2>1, <2>2 DEF ToSet
<1>10. cpus # <<>> /\ IsInjective(cpus)
  BY <1>1 DEF IsInjective
<1>11. \A g \in DOMAIN groups :
         groups[g].node >= 0 /\ groups[g].cpus # <<>> /\ IsInjective(groups[g].cpus)
  BY <1>2
<1>12. QED
  BY <1>8, <1>9, <1>10, <1>11 DEF ValidLaunch, cpus, groups, places, grouped

LEMMA TwoRegions ==
  ASSUME NEW r1, NEW r2, NEW m, m.regions = <<r1, r2>>, ValidRegion(r1), ValidRegion(r2),
         r1.name # r2.name, r1.offset \in Nat, r2.offset \in Nat, r1.size \in Nat, r2.size \in Nat,
         r1.offset + r1.size <= r2.offset, m.total = r2.offset + r2.size
  PROVE  ValidMemory(m)
<1> DEFINE r == m.regions
           begin == [i \in DOMAIN r |-> r[i].offset]
           end == [i \in DOMAIN r |-> r[i].offset + r[i].size]
           name == [i \in DOMAIN r |-> r[i].name]
<1>1. DOMAIN r = {1, 2} /\ r[1] = r1 /\ r[2] = r2
  OBVIOUS
<1> HIDE DEF r
<1>2. /\ begin[1] = r1.offset /\ begin[2] = r2.offset
      /\ end[1] = r1.offset + r1.size /\ end[2] = r2.offset + r2.size
      /\ name[1] = r1.name /\ name[2] = r2.name /\ DOMAIN name = {1, 2}
  BY <1>1
<1> HIDE DEF begin, end, name
<1>3. end[1] <= begin[2] /\ end[1] <= end[2] /\ end[2] <= end[2] /\ end[2] = m.total
  BY <1>2
<1>4. IsInjective(name)
  BY <1>2 DEF IsInjective
<1>5. \A i \in DOMAIN r : ValidRegion(r[i])
  BY <1>1
<1>6. \A i, j \in DOMAIN r : i # j => end[i] <= begin[j] \/ end[j] <= begin[i]
  BY <1>1, <1>3
<1>7. \E i \in DOMAIN r : end[i] = m.total /\ \A j \in DOMAIN r : end[j] <= end[i]
  <2>1. 2 \in DOMAIN r /\ \A j \in DOMAIN r : end[j] <= end[2]
    BY <1>1, <1>3
  <2>2. QED
    BY <1>3, <2>1
<1>8. QED
  BY <1>4, <1>5, <1>6, <1>7 DEF ValidMemory, r, begin, end, name

LEMMA OneRegion ==
  ASSUME NEW r1, NEW m, m.regions = <<r1>>, ValidRegion(r1),
         r1.offset \in Nat, r1.size \in Nat, m.total = r1.offset + r1.size
  PROVE  ValidMemory(m)
<1> DEFINE r == m.regions
           begin == [i \in DOMAIN r |-> r[i].offset]
           end == [i \in DOMAIN r |-> r[i].offset + r[i].size]
           name == [i \in DOMAIN r |-> r[i].name]
<1>1. DOMAIN r = {1} /\ r[1] = r1
  OBVIOUS
<1> HIDE DEF r
<1>2. end[1] = r1.offset + r1.size /\ DOMAIN name = {1}
  BY <1>1
<1> HIDE DEF begin, end, name
<1>3. end[1] <= end[1] /\ end[1] = m.total
  BY <1>2
<1>4. IsInjective(name)
  BY <1>2 DEF IsInjective
<1>5. \A i \in DOMAIN r : ValidRegion(r[i])
  BY <1>1
<1>6. \A i, j \in DOMAIN r : i # j => end[i] <= begin[j] \/ end[j] <= begin[i]
  BY <1>1
<1>7. \E i \in DOMAIN r : end[i] = m.total /\ \A j \in DOMAIN r : end[j] <= end[i]
  BY <1>1, <1>3
<1>8. QED
  BY <1>4, <1>5, <1>6, <1>7 DEF ValidMemory, r, begin, end, name

LEMMA BuiltMemory ==
  ASSUME LegalCall(call), NEW k, NEW l, NEW m, IsPlan(k, l, m)
  PROVE  ValidMemory(m) /\ ValidateMemory(k, l, m)
<1> DEFINE owners == m.owners
           o == Len(owners)
           P == PackedCopy(k, call, PlannedSkv)
           size == Len(l.cpus) * WorkerStride(k, call)
           all == [g \in DOMAIN l.groups |-> g]
           name == IF k.lowering \in Split THEN "partials" ELSE "scratch"
           r1 == Region("packed_k", 0, o * P, "numa_local", owners)
           r2 == Region(name, o * P, size, "worker_local", all)
<1>1. /\ LegalCode(k) /\ k.kind = call.kind /\ SharesOut(l) /\ OwnersAre(k, l, owners)
      /\ m.regions = (IF owners = <<>> THEN <<>> ELSE <<r1>>) \o <<r2>>
      /\ m.total = o * P + size
  BY DEF IsPlan, Regions, PrivateOffset
<1>2. P \in Nat /\ (\E q \in Nat : P = Page * q) /\ (k.packs => P # 0)
  BY <1>1, PlannedLength, CopyLaws
<1>3. size \in Nat \ {0}
  <2>1. Len(l.cpus) \in Nat \ {0} /\ WorkerStride(k, call) \in Nat \ {0}
    BY <1>1, StrideLaws DEF SharesOut, IsTeam
  <2>2. QED
    BY <2>1, ProductIsPositive
<1>4. /\ DOMAIN all = DOMAIN l.groups /\ all # <<>> /\ IsInjective(all)
      /\ ToSet(all) \subseteq DOMAIN l.groups
  <2>1. DOMAIN l.groups # {}
    <3>1. Len(l.groups) \in Nat \ {0} /\ DOMAIN l.groups = 1..Len(l.groups)
      BY <1>1 DEF SharesOut
    <3>2. 1 \in 1..Len(l.groups)
      BY <3>1
    <3>3. QED
      BY <3>1, <3>2
  <2>2. DOMAIN all = DOMAIN l.groups /\ \A g \in DOMAIN all : all[g] = g
    OBVIOUS
  <2> HIDE DEF all
  <2>3. all # <<>>
    BY <2>1, <2>2
  <2>4. IsInjective(all)
    BY <2>2 DEF IsInjective
  <2>5. ToSet(all) \subseteq DOMAIN l.groups
    BY <2>2 DEF ToSet
  <2>6. QED
    BY <2>2, <2>3, <2>4, <2>5
<1>5. Page \in Nat \ {0}
  BY SizesAssumption
<1>6. name # "packed_k"
  OBVIOUS
<1> HIDE DEF P, size, all, name
<1>7. /\ r1.name = "packed_k" /\ r1.offset = 0 /\ r1.size = o * P
      /\ r1.placement = "numa_local" /\ r1.owners = owners
  BY DEF Region
<1>8. /\ r2.name = name /\ r2.offset = o * P /\ r2.size = size
      /\ r2.placement = "worker_local" /\ r2.owners = all
  BY DEF Region
<1> HIDE DEF r1, r2
<1>9. CASE k.packs
  <2>1. /\ o \in Nat \ {0} /\ IsInjective(owners)
        /\ \A i \in DOMAIN owners : owners[i] \in DOMAIN l.groups
    BY <1>1, <1>9 DEF OwnersAre
  <2>2. owners # <<>>
    BY <2>1
  <2> HIDE DEF owners, o
  <2>3. o * P \in Nat \ {0}
    BY <1>2, <1>9, <2>1, ProductIsPositive
  <2>4. (o * P) % o = 0
    <3>1. 0 \in 0..o - 1
      BY <2>1
    <3>2. (o * P + 0) % o = 0
      BY <1>2, <2>1, <3>1, DivideUnique
    <3>3. QED
      BY <2>3, <3>2
  <2>5. (o * P) % Page = 0
    <3>1. PICK q \in Nat : P = Page * q
      BY <1>2
    <3>2. o * q \in Nat /\ 0 \in 0..Page - 1
      BY <1>5, <2>1, <3>1, TimesGrows
    <3>3. (Page * (o * q) + 0) % Page = 0
      BY <1>5, <3>2, DivideUnique
    <3>4. Page * (o * q) = o * P
      BY <1>5, <2>1, <3>1
    <3>5. QED
      BY <2>3, <3>3, <3>4
  <2>6. 0 % Page = 0
    <3>1. 0 \in Nat /\ 0 \in 0..Page - 1
      BY <1>5
    <3>2. (Page * 0 + 0) % Page = 0
      BY <1>5, <3>1, DivideUnique
    <3>3. Page * 0 + 0 = 0
      BY <1>5
    <3>4. QED
      BY <3>2, <3>3
  <2> DEFINE x == o * P
  <2>7. /\ x \in Nat \ {0} /\ x % Page = 0 /\ (o = Len(owners) => x % Len(owners) = 0)
        /\ r1.size = x /\ r2.offset = x /\ m.total = x + size
    BY <1>1, <1>7, <1>8, <2>3, <2>4, <2>5 DEF o
  <2> HIDE DEF x
  <2>8. o = Len(owners)
    BY DEF o
  <2>9. ValidRegion(r1)
    BY <1>7, <2>1, <2>2, <2>6, <2>7, <2>8 DEF ValidRegion
  <2>10. ValidRegion(r2)
    BY <1>3, <1>4, <1>8, <2>7 DEF ValidRegion
  <2>11. m.regions = <<r1, r2>>
    BY <1>1, <2>2, Pair
  <2>12. ValidMemory(m)
    <3>1. /\ r1.name # r2.name /\ r1.offset \in Nat /\ r2.offset \in Nat /\ r1.size \in Nat
          /\ r2.size \in Nat /\ r1.offset + r1.size <= r2.offset /\ m.total = r2.offset + r2.size
      BY <1>3, <1>6, <1>7, <1>8, <2>7
    <3>2. QED
      BY <2>9, <2>10, <2>11, <3>1, TwoRegions
  <2>13. ValidateMemory(k, l, m)
    <3> DEFINE f == [i \in DOMAIN m.regions |-> m.regions[i].name]
    <3>1. f = <<"packed_k", name>>
      BY <1>7, <1>8, <2>11
    <3>2. RegionNames(k) = <<"packed_k", name>>
      <4>1. RegionNames(k) = <<"packed_k">> \o <<name>>
        BY <1>9 DEF RegionNames, name
      <4>2. QED
        BY <4>1, Pair
    <3>3. ToSet(owners) \subseteq DOMAIN l.groups
      BY <2>1 DEF ToSet
    <3>4. \A i \in DOMAIN m.regions : ToSet(m.regions[i].owners) \subseteq DOMAIN l.groups
      <4>1. DOMAIN m.regions = {1, 2} /\ m.regions[1] = r1 /\ m.regions[2] = r2
        BY <2>11
      <4>2. QED
        BY <1>4, <1>7, <1>8, <3>3, <4>1
    <3>5. QED
      BY <3>1, <3>2, <3>4 DEF ValidateMemory
  <2>14. QED
    BY <2>12, <2>13
<1>10. CASE ~k.packs
  <2>1. owners = <<>>
    BY <1>1, <1>10 DEF OwnersAre
  <2>2. o = 0
    BY <2>1
  <2> HIDE DEF owners, o
  <2>3. o * P = 0
    BY <1>2, <2>2
  <2>4. 0 % Page = 0
    <3>1. 0 \in Nat /\ 0 \in 0..Page - 1
      BY <1>5
    <3>2. (Page * 0 + 0) % Page = 0
      BY <1>5, <3>1, DivideUnique
    <3>3. Page * 0 + 0 = 0
      BY <1>5
    <3>4. QED
      BY <3>2, <3>3
  <2>5. r2.offset = 0 /\ m.total = 0 + size
    BY <1>1, <1>8, <2>3
  <2>6. ValidRegion(r2)
    BY <1>3, <1>4, <1>8, <2>4, <2>5 DEF ValidRegion
  <2>7. m.regions = <<r2>>
    <3>1. m.regions = <<>> \o <<r2>>
      BY <1>1, <2>1
    <3>2. QED
      BY <3>1
  <2>8. ValidMemory(m)
    <3>1. r2.offset \in Nat /\ r2.size \in Nat /\ m.total = r2.offset + r2.size
      BY <1>3, <1>8, <2>5
    <3>2. QED
      BY <2>6, <2>7, <3>1, OneRegion
  <2>9. ValidateMemory(k, l, m)
    <3> DEFINE f == [i \in DOMAIN m.regions |-> m.regions[i].name]
    <3>1. f = <<name>>
      BY <1>8, <2>7
    <3>2. RegionNames(k) = <<name>>
      BY <1>10 DEF RegionNames, name
    <3>3. \A i \in DOMAIN m.regions : ToSet(m.regions[i].owners) \subseteq DOMAIN l.groups
      <4>1. DOMAIN m.regions = {1} /\ m.regions[1] = r2
        BY <2>7
      <4>2. QED
        BY <1>4, <1>8, <4>1
    <3>4. QED
      BY <3>1, <3>2, <3>3 DEF ValidateMemory
  <2>10. QED
    BY <2>8, <2>9
<1>11. QED
  BY <1>1, <1>9, <1>10 DEF LegalCode

(* No constructor refuses what the planner builds, on any machine and for any
   sizes: one refusal is an exception that would leave the call without a
   plan. *)
THEOREM PlansAreAccepted ==
  (Spec => []BuiltPlansAreAccepted) /\ (SearchSpec => []BuiltPlansAreAccepted)
<1>1. PlanInv => BuiltPlansAreAccepted
  <2> SUFFICES ASSUME PlanInv, Planned PROVE BuiltPlansAreAccepted
    BY DEF BuiltPlansAreAccepted
  <2>1. HostIsReal /\ LegalCall(call) /\ IsPlan(code, launch, memory)
    BY DEF PlanInv, HostMatches, PlanMatches
  <2>2. LegalCode(code) /\ SharesOut(launch)
    BY <2>1 DEF IsPlan
  <2>3. ValidCode(code)
    BY <2>2, BuiltCode
  <2>4. ValidLaunch(launch)
    BY <2>1, <2>2, BuiltLaunch
  <2>5. ValidMemory(memory) /\ ValidateMemory(code, launch, memory)
    BY <2>1, BuiltMemory
  <2>6. QED
    BY <2>3, <2>4, <2>5 DEF BuiltPlansAreAccepted
<1>2. QED
  BY <1>1, PlansAlways, PTL

(* Whatever the process may run on, /proc/cpuinfo lists and the CPUs have:
   code is generated for the widest backend that all allowed CPUs execute, and
   if the list lacks one of them, for one that all listed CPUs execute. *)
THEOREM ExecutedEverywhere ==
  (Spec => []BackendRunsEverywhere) /\ (SearchSpec => []BackendRunsEverywhere)
<1>1. PlanInv => BackendRunsEverywhere
  <2> SUFFICES ASSUME PlanInv PROVE BackendRunsEverywhere
    OBVIOUS
  <2>1. MachineIsReal(machine) /\ host = DetectHost(machine) /\ CompatibleBackends(host) # {}
    BY DEF PlanInv, HostMatches, HostIsReal
  <2>2. PICK i \in DOMAIN BACKENDS :
           /\ SelectBackend(host) = BACKENDS[i] /\ Supports(BACKENDS[i], host)
           /\ \A j \in 1..i - 1 : j \in DOMAIN BACKENDS /\ ~Supports(BACKENDS[j], host)
    BY <2>1, FirstCompatible
  <2>3. \A j \in DOMAIN BACKENDS : IsBackend(BACKENDS[j])
    BY BackendsAre
  <2>4. CASE machine.allowed \subseteq machine.listed
    <3>1. \A j \in DOMAIN BACKENDS :
            Supports(BACKENDS[j], host) <=> RunsOn(BACKENDS[j], machine, machine.allowed)
      BY <2>1, <2>3, <2>4, SupportedRunsOnAllowed
    <3>2. /\ RunsOn(BACKENDS[i], machine, machine.allowed)
          /\ \A j \in 1..i - 1 : ~RunsOn(BACKENDS[j], machine, machine.allowed)
      BY <2>2, <3>1
    <3>3. QED
      BY <2>2, <2>4, <3>2 DEF BackendRunsEverywhere, RunsOn
  <2>5. CASE ~(machine.allowed \subseteq machine.listed)
    <3>1. RunsOn(SelectBackend(host), machine, machine.listed)
      BY <2>1, <2>2, <2>3, <2>5, SupportedRunsOnListed
    <3>2. QED
      BY <2>5, <3>1 DEF BackendRunsEverywhere, RunsOn
  <2>6. QED
    BY <2>4, <2>5
<1>2. QED
  BY <1>1, PlansAlways, PTL

-----------------------------------------------------------------------------
(* The properties of the search. *)
LEMMA NodeSizes ==
  ASSUME HostMatches
  PROVE  \E n \in Nodes : Max({Len(NodeCpus(m)) : m \in Nodes}) = Len(NodeCpus(n))
<1> DEFINE f == [m \in Nodes |-> Len(NodeCpus(m))]
           S == {f[m] : m \in Nodes}
           g == [c \in Cpus |-> Node(c)]
<1>1. HostIsReal
  BY DEF HostMatches
<1>2. IsFiniteSet(Cpus) /\ Cpus # {}
  BY <1>1, HostFacts
<1>3. IsFiniteSet(Nodes)
  <2>1. DOMAIN g = Cpus /\ Nodes = {g[c] : c \in Cpus}
    BY DEF Nodes
  <2> HIDE DEF g
  <2>2. QED
    BY <1>2, <2>1, ImageFinite
<1>4. ASSUME NEW m \in Nodes PROVE f[m] \in Int
  <2>1. Lists(NodeCpus(m), OnNode(m), Less(OnNode(m)))
    BY <1>1, NodeLists
  <2>2. Len(NodeCpus(m)) = Cardinality(OnNode(m)) /\ Cardinality(OnNode(m)) \in Nat
    BY <2>1, ListLength DEF Lists
  <2>3. QED
    BY <2>2
<1>5. Nodes # {}
  BY <1>2 DEF Nodes
<1>6. {Len(NodeCpus(m)) : m \in Nodes} = S /\ DOMAIN f = Nodes /\ \A n \in Nodes : f[n] = Len(NodeCpus(n))
  OBVIOUS
<1> HIDE DEF f
<1>7. IsFiniteSet(S)
  BY <1>3, <1>6, ImageFinite
<1>8. S # {} /\ S \subseteq Int
  BY <1>4, <1>5
<1>9. Max(S) \in S
  <2> HIDE DEF S
  <2>1. QED
    BY <1>7, <1>8, GreatestOf
<1>10. QED
  BY <1>6, <1>9

LEMMA MeasuredAreInvited ==
  ASSUME SearchInv, NEW p \in ToSet(history)
  PROVE  \E i \in DOMAIN representatives : p = representatives[i]
<1>1. PICK i \in DOMAIN history : p = history[i]
  BY DEF ToSet
<1>2. QED
  BY <1>1 DEF SearchInv, FirstMeasured

(* WorkerCountTuner measures, of all plans of a team, one that stays within a
   node if the team fits in one, and one with a copy of packed K on each of its
   nodes: the order of the preferences puts the node and the copies in front of
   the memory, and whatever the topology such a plan is among the candidates. *)
THEOREM TeamsStayNearMemory ==
  SearchSpec => []MeasuredNearMemory
<1>1. SearchInv => MeasuredNearMemory
  <2> SUFFICES ASSUME SearchInv, tuner = "worker_count", NEW p \in ToSet(history)
               PROVE  /\ Team(p) <= Max({Len(NodeCpus(n)) : n \in Nodes}) => Len(p.launch.groups) = 1
                      /\ p.code.packs => Len(p.memory.owners) = Len(p.launch.groups)
    BY DEF MeasuredNearMemory
  <2>1. NearMemory(p)
    BY MeasuredAreInvited DEF SearchInv, TeamsInvited
  <2>2. PICK n \in Nodes : Max({Len(NodeCpus(m)) : m \in Nodes}) = Len(NodeCpus(n))
    BY NodeSizes DEF SearchInv, PlanInv
  <2>3. QED
    BY <2>1, <2>2 DEF NearMemory
<1>2. QED
  BY <1>1, SearchInvHolds, PTL

(* The single-core search has a plan on every machine, measures none twice, and
   all of them on one CPU. *)
THEOREM OneCpuCompared ==
  SearchSpec => []ComparedOnOneCpu
<1>1. SearchInv => ComparedOnOneCpu
  <2> SUFFICES ASSUME SearchInv, tuner = "single_core" PROVE
                 /\ offered # {} => representatives # <<>>
                 /\ IsInjective(history)
                 /\ \A p, q \in ToSet(history) : Team(p) = 1 /\ p.launch.cpus = q.launch.cpus
    BY DEF ComparedOnOneCpu
  <2>1. OneCpuInvited /\ FirstMeasured /\ PlansInvited
    BY DEF SearchInv
  <2>2. offered # {} => representatives # <<>>
    BY <2>1 DEF OneCpuInvited
  <2>3. IsInjective(history)
    <3> SUFFICES ASSUME NEW i \in DOMAIN history, NEW j \in DOMAIN history, history[i] = history[j]
                 PROVE  i = j
      BY DEF IsInjective
    <3>1. representatives[i] = representatives[j]
          /\ i \in DOMAIN representatives /\ j \in DOMAIN representatives
      BY <2>1 DEF FirstMeasured
    <3>2. QED
      BY <2>1, <3>1 DEF PlansInvited
  <2>4. ASSUME NEW p \in ToSet(history), NEW q \in ToSet(history)
        PROVE  Team(p) = 1 /\ p.launch.cpus = q.launch.cpus
    <3>1. PICK i \in DOMAIN representatives : p = representatives[i]
      BY MeasuredAreInvited
    <3>2. PICK j \in DOMAIN representatives : q = representatives[j]
      BY MeasuredAreInvited
    <3>3. QED
      BY <2>1, <3>1, <3>2 DEF OneCpuInvited
  <2>5. QED
    BY <2>2, <2>3, <2>4
<1>2. QED
  BY <1>1, SearchInvHolds, PTL

(* When the search is over, the teams that fill the machine or a node have all
   been measured, packed and unpacked, if the budget can hold them. *)
THEOREM TopologyIsMeasured ==
  SearchSpec => []TopologyTeamsMeasured
<1>1. SearchInv => TopologyTeamsMeasured
  <2> SUFFICES ASSUME SearchInv, settled, tuner = "worker_count",
                      BudgetHolds(OfferedTeams, OfferedPackings), NEW o \in offered,
                      o[1] \in TopologyTeams(OfferedTeams)
               PROVE  Measured(o[1], o[2])
    BY DEF TopologyTeamsMeasured, OfferedTeams, OfferedPackings, BudgetHolds, TopologyTeams
  <2>1. PICK i \in DOMAIN representatives :
          i <= Maxnum /\ Team(representatives[i]) = o[1] /\ representatives[i].code.packs = o[2]
    BY DEF SearchInv, TeamsInvited
  <2>2. FirstMeasured /\ ByKnownTuner /\ PlansInvited
    BY DEF SearchInv, ByKnownTuner
  <2>3. Len(history) = Maxnum \/ Unmeasured = {}
    BY <2>2 DEF FirstMeasured
  <2>4. representatives[i] \in ToSet(history)
    <3>1. CASE Unmeasured = {}
      BY <3>1 DEF Unmeasured
    <3>2. CASE Len(history) = Maxnum
      <4>1. i \in Nat \ {0}
        BY <2>2 DEF PlansInvited
      <4>2. DOMAIN history = 1..Maxnum
        BY <2>2, <3>2 DEF FirstMeasured
      <4>3. i \in DOMAIN history
        BY <2>1, <4>1, <4>2, SearchAssumption
      <4>4. history[i] = representatives[i]
        BY <2>2, <4>3 DEF FirstMeasured
      <4>5. QED
        BY <4>3, <4>4 DEF ToSet
    <3>3. QED
      BY <2>3, <3>1, <3>2
  <2>5. QED
    BY <2>1, <2>4 DEF Measured
<1>2. QED
  BY <1>1, SearchInvHolds, PTL

=============================================================================
