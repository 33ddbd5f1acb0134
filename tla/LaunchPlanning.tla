--------------------------- MODULE LaunchPlanning ---------------------------
(***************************************************************************)
(* PlanBuilder (schedule/planning.py) and the kernels that receive its     *)
(* plans.                                                                  *)
(*                                                                         *)
(* A call is planned once, a decode call at the edge of its bucket: code,  *)
(* CPUs and workspace are fixed.  The plan is then run for every call that *)
(* _tune_call takes for the planned one: at every key length of the bucket *)
(* and, since a bucket is known by operator and edge alone, whatever its   *)
(* other dimensions.  The kernel recomputes from those of the present call *)
(* how it lays the workspace out and whether it can run at all.            *)
(*                                                                         *)
(* Sizes are in floats.  The host is what detect_host makes of a machine.  *)
(***************************************************************************)
EXTENDS HostDiscovery, KernelShapes, KvShapes, Sums, SequencesExt

CONSTANTS
  Problems,  \* [machine, call, tuner]: a "parallel" or "linear" call to be
             \* planned on a machine, and the tuner that picks the plan
  OtherCalls,  \* parallel calls that may follow it, of other dimensions
  Codes,     \* the code plans a backend enumerates
  Page,      \* floats in a page
  Unit       \* _KV_BUCKET_UNIT

ASSUME SizesAssumption == Page \in Nat \ {0} /\ Unit \in Nat \ {0}

VARIABLES
  machine, host, call, tuner,  \* chosen once; call is the first of its bucket
  code, launch, memory,    \* the plan, or Unplanned
  served, skv,             \* the dimensions and the key length of the last run
  status                   \* what the kernel returned for it, or NotRun

problem == <<machine, host, call, tuner>>
vars == <<problem, code, launch, memory, served, skv, status>>

Unplanned == [lowering |-> "none"]
NotRun == 9

Split == {"parallel_split_k", "parallel_2d"}
Blocks == {"linear_chunked", "linear_delta"}

(* What the enumeration of a backend makes (native/backends). *)
LegalCode(k) ==
  /\ k.tileQ \in Nat \ {0} /\ k.tileK \in Nat \ {0} /\ k.tileDV \in Nat \ {0}
  /\ k.packs \in BOOLEAN
  /\ \/ k.kind = "parallel" /\ k.lowering \in {"parallel_blocked"} \cup Split
     \/ k.kind = "linear" /\ k.lowering \in {"linear_scan", "linear_2d"} \cup Blocks /\ ~k.packs
  /\ k.dynamic => k.lowering = "parallel_blocked"

ASSUME CodesAssumption == \A k \in Codes : LegalCode(k)

(* What validation lets through: no extent of a tensor is zero, and the queries
   of a decode call are the last of its keys. *)
LegalCall(c) ==
  /\ c.heads \in Nat \ {0} /\ c.d \in Nat \ {0} /\ c.dv \in Nat \ {0} /\ c.skv \in Nat \ {0}
  /\ \/ c.kind = "linear" /\ c.tokens \in Nat \ {0}
     \/ /\ c.kind = "parallel" /\ c.cached \in BOOLEAN
        /\ c.queries \in Nat \ {0} /\ c.kvHeads \in Nat \ {0} /\ c.states \in Nat
        /\ c.cached => c.queries <= c.skv

ASSUME ProblemsAssumption ==
  /\ \A p \in Problems : MachineIsReal(p.machine) /\ LegalCall(p.call)
  /\ \A c \in OtherCalls : LegalCall(c) /\ c.kind = "parallel"

-----------------------------------------------------------------------------
(* The topology of the host. *)

Cpus == DOMAIN host.cpus
Node(c) == host.cpus[c].node
Nodes == {Node(c) : c \in Cpus}

(* Mutant: hardware threads of one core count as cores. *)
EveryCpu == Cpus

(* The first CPU of every core. *)
PhysicalCpus ==
  {c \in Cpus : \A d \in Cpus : d < c =>
     <<host.cpus[d].socket, host.cpus[d].core>> # <<host.cpus[c].socket, host.cpus[c].core>>}

(* The elements of a set, each behind those that come before it. *)
InOrder(S, Before(_, _)) ==
  [i \in 1..Cardinality(S) |->
    CHOOSE x \in S : Cardinality({y \in S : Before(y, x)}) = i - 1]

NodeCpus(n) == InOrder({c \in PhysicalCpus : Node(c) = n}, <)

(* Round-robin over the nodes: the first CPU of each, then the second... *)
Balanced ==
  LET cores == PhysicalCpus
      offset == [c \in cores |-> Cardinality({d \in cores : Node(d) = Node(c) /\ d < c})]
  IN  InOrder(cores,
        LAMBDA c, d : offset[c] < offset[d] \/ (offset[c] = offset[d] /\ Node(c) < Node(d)))

(* _launch: a group for every node, with its CPUs of the launch. *)
NodesOf(cpus) == {Node(cpus[w]) : w \in DOMAIN cpus}
Groups(cpus) ==
  LET nodes == InOrder(NodesOf(cpus), <)
      of == [g \in DOMAIN nodes |-> InOrder({w \in DOMAIN cpus : Node(cpus[w]) = nodes[g]}, <)]
  IN  [g \in DOMAIN nodes |-> [node |-> nodes[g], cpus |-> [i \in DOMAIN of[g] |-> cpus[of[g][i]]]]]

-----------------------------------------------------------------------------
(* How many workers the call can feed. *)

(* A decode call without an argument over the keys is planned by its bucket. *)
Bucketed(c) == c.kind = "parallel" /\ c.cached

(* Mutant: a decode call is planned at the length it was first made with. *)
PlannedAtFirstCall == call.skv

PlannedSkv == IF Bucketed(call) THEN KvBucket(call.skv, Unit) ELSE call.skv

(* _tune_call: what stands for a call of n keys when it is planned.  Whatever the
   dimensions of a decode call, it is the first call of the operator (here known
   by the states of its norm) in the bucket, at the edge. *)
TuneCall(c, n) ==
  IF /\ Bucketed(c) /\ Bucketed(call) /\ c.states = call.states
     /\ KvBucket(n, Unit) = KvBucket(call.skv, Unit)
  THEN <<call, PlannedSkv>> ELSE <<c, n>>

Ceiling(a, b) == (a + b - 1) \div b

RowBlocks(k) == call.heads * Ceiling(call.queries, k.tileQ)
Tiles(k) == KeyTiles(PlannedSkv, k.tileK)
DvBlocks(k) == Ceiling(call.dv, k.tileDV)

MaximumParallelism(k) ==
  CASE k.lowering = "parallel_blocked" -> RowBlocks(k)
    [] k.lowering = "parallel_split_k" -> Tiles(k)
    [] k.lowering = "parallel_2d" -> RowBlocks(k) * Tiles(k)
    [] k.lowering = "linear_2d" -> call.heads * DvBlocks(k)
    [] OTHER -> call.heads

Sizes(limit) ==
  {1, limit} \cup {2^e : e \in {f \in 1..limit : 2^f <= limit}}
             \cup {Smaller(limit, Len(NodeCpus(n))) : n \in Nodes}

CandidateCpus(k) ==
  LET limit == Smaller(MaximumParallelism(k), Cardinality(PhysicalCpus))
      balanced == Balanced
  IN  (UNION {{SubSeq(NodeCpus(n), 1, w) : w \in Sizes(limit) \cap 1..Len(NodeCpus(n))} : n \in Nodes})
        \cup {SubSeq(balanced, 1, w) : w \in Sizes(limit) \ {1}}

HasNontrivialFactorization(value) == \E d \in 2..value \div 2 : value % d = 0

(* Mutant: any four workers or more are split in two dimensions. *)
AdmitsAnyTeam(k, workers) ==
  CASE k.lowering = "parallel_split_k" -> workers > 1
    [] k.lowering = "parallel_2d" -> workers >= 4 /\ RowBlocks(k) >= 2 /\ Tiles(k) >= 2
    [] OTHER -> TRUE

Admits(k, workers) ==
  CASE k.lowering = "parallel_split_k" -> workers > 1
    [] k.lowering = "parallel_2d" ->
         /\ workers >= 4
         /\ HasNontrivialFactorization(workers)
         /\ RowBlocks(k) >= 2
         /\ Tiles(k) >= 2
    [] k.lowering = "linear_2d" ->
         workers > 1 /\ DvBlocks(k) > 1 /\ MaximumParallelism(k) > call.heads
    [] OTHER -> TRUE

LaunchPlans(k) ==
  {[cpus |-> cpus, groups |-> Groups(cpus)] :
     cpus \in {c \in CandidateCpus(k) : c # <<>> /\ Admits(k, Len(c))}}

-----------------------------------------------------------------------------
(* The workspace, as the planner sizes it for one call and the kernel lays it out
   for another. *)

(* Mutant: the delta lowering is given the chunked lowering's scratch. *)
ScratchOfChunks(k, c) ==
  LET b == k.tileQ
  IN  IF k.lowering \in Blocks
      THEN 2 * b * c.d + 2 * b * c.dv + b * b + 3 * b
      ELSE IF k.lowering = "linear_scan" THEN 5 * c.d + 2 * c.dv
      ELSE 2 * c.d + 2 * c.dv

(* _linear_scratch_terms, which the kernels render as well. *)
LinearScratch(k, c) ==
  LET b == k.tileQ
  IN  CASE k.lowering = "linear_scan" -> 5 * c.d + 2 * c.dv
        [] k.lowering = "linear_chunked" -> 2 * b * c.d + 2 * b * c.dv + b * b + 3 * b
        [] k.lowering = "linear_delta" -> 2 * b * c.d + 3 * b * c.dv + b * b + 5 * b
        [] OTHER -> 2 * c.d + 2 * c.dv

(* One worker's floats: tiles, or a partial of every row. *)
WorkerFloats(k, c) ==
  CASE k.lowering = "parallel_blocked" -> 2 * k.tileQ * k.tileK + k.tileQ * c.dv
    [] k.lowering \in Split -> c.heads * c.queries * (c.dv + c.states)
    [] OTHER -> LinearScratch(k, c)

WorkerStride(k, c) == Align(WorkerFloats(k, c), Page)

PackedCopy(k, c, length) ==
  IF k.packs THEN Align(c.kvHeads * c.d * PackedSkv(length, k.tileK), Page) ELSE 0

(* A replica for one group, or one for each when the launch crosses nodes. *)
PackedOwners(groups) ==
  {<<g>> : g \in DOMAIN groups}
    \cup (IF Len(groups) > 1 THEN {[g \in DOMAIN groups |-> g]} ELSE {})

Region(name, offset, size, placement, owners) ==
  [name |-> name, offset |-> offset, size |-> size, placement |-> placement, owners |-> owners]

(* Mutant: the worker's region starts behind one copy, however many there are. *)
BehindOneCopy(k, l, owners) == PackedCopy(k, call, PlannedSkv)

(* Where the workers' region starts: behind all copies of packed K. *)
PrivateOffset(k, l, owners) == Len(owners) * PackedCopy(k, call, PlannedSkv)

Regions(k, l, owners) ==
  LET packed == Len(owners) * PackedCopy(k, call, PlannedSkv)
      name == IF k.lowering \in Split THEN "partials" ELSE "scratch"
  IN  (IF owners = <<>> THEN <<>> ELSE <<Region("packed_k", 0, packed, "numa_local", owners)>>)
        \o <<Region(name, PrivateOffset(k, l, owners), Len(l.cpus) * WorkerStride(k, call), "worker_local",
                    [g \in DOMAIN l.groups |-> g])>>

MemoryPlans(k, l) ==
  {[owners |-> owners, regions |-> Regions(k, l, owners),
    total |-> PrivateOffset(k, l, owners) + Len(l.cpus) * WorkerStride(k, call)] :
     owners \in IF k.packs THEN PackedOwners(l.groups) ELSE {<<>>}}

-----------------------------------------------------------------------------
(* What the plan objects refuse to be constructed from (schedule/plan.py): one
   refusal is an exception of build_all, and the call has no plan at all. *)

RegionNames(k) ==
  (IF k.packs THEN <<"packed_k">> ELSE <<>>)
    \o <<IF k.lowering \in Split THEN "partials" ELSE "scratch">>

ValidCode(k) ==
  /\ \A n \in {k.tileQ, k.tileK, k.tileDV} : n > 0
  /\ k.kind = "linear" => ~k.packs
  /\ k.dynamic => k.lowering = "parallel_blocked"
  /\ k.packs <=> "packed_k" \in ToSet(RegionNames(k))

(* Every CPU of the launch is in exactly one group, which is of its node. *)
ValidLaunch(l) ==
  /\ l.cpus # <<>> /\ IsInjective(l.cpus)
  /\ \A g \in DOMAIN l.groups :
       l.groups[g].node >= 0 /\ l.groups[g].cpus # <<>> /\ IsInjective(l.groups[g].cpus)
  /\ LET places == UNION {{g} \X DOMAIN l.groups[g].cpus : g \in DOMAIN l.groups}
         grouped == [p \in places |-> l.groups[p[1]].cpus[p[2]]]
     IN  IsInjective(grouped) /\ ToSet(grouped) = ToSet(l.cpus)

ValidRegion(r) ==
  /\ r.offset >= 0 /\ r.size > 0
  /\ r.offset % Page = 0
  /\ r.owners # <<>> /\ IsInjective(r.owners)
  /\ r.placement = "numa_local" => r.size % Len(r.owners) = 0

(* No region begins before one that starts ahead of it has ended, and the last
   of them ends the plan. *)
ValidMemory(m) ==
  /\ \A i \in DOMAIN m.regions : ValidRegion(m.regions[i])
  /\ IsInjective([i \in DOMAIN m.regions |-> m.regions[i].name])
  /\ LET begin == [i \in DOMAIN m.regions |-> m.regions[i].offset]
         end == [i \in DOMAIN m.regions |-> m.regions[i].offset + m.regions[i].size]
     IN  /\ \A i, j \in DOMAIN m.regions : i # j => end[i] <= begin[j] \/ end[j] <= begin[i]
         /\ \E i \in DOMAIN m.regions : end[i] = m.total /\ \A j \in DOMAIN m.regions : end[j] <= end[i]

(* _validate_memory *)
ValidateMemory(k, l, m) ==
  /\ [i \in DOMAIN m.regions |-> m.regions[i].name] = RegionNames(k)
  /\ \A i \in DOMAIN m.regions : ToSet(m.regions[i].owners) \subseteq DOMAIN l.groups

-----------------------------------------------------------------------------
(* The kernels' own view of the plan, for a call of n keys. *)

WorkspaceNeeded(k, l, m, c, n) ==
  Len(m.owners) * PackedCopy(k, c, n) + Len(l.cpus) * WorkerStride(k, c)

MissingArguments(k, l, m) ==
  \/ k.lowering = "parallel_split_k" /\ Len(l.cpus) <= 1
  \/ k.lowering = "parallel_2d" /\ Len(l.cpus) < 4
  \/ k.packs /\ m.owners = <<>>

KernelStatus(k, l, m, c, n) ==
  IF MissingArguments(k, l, m) THEN -1
  ELSE IF k.lowering = "parallel_2d" /\ Divisors(Len(l.cpus), n, k.tileK) = {} THEN -3
  ELSE IF m.total < WorkspaceNeeded(k, l, m, c, n) THEN -2 ELSE 0

(* The floats the buffers of one linear worker extend over. *)
LinearBuffers(k) ==
  LET b == k.tileQ
  IN  CASE k.lowering = "linear_scan" -> <<call.d, call.d, call.dv, call.dv, call.d, call.d, call.d>>
        [] k.lowering = "linear_2d" -> <<call.d, call.d, call.dv, call.dv>>
        [] k.lowering = "linear_chunked" ->
             <<b * call.d, b * call.d, b * call.dv, b * call.dv, b * b, b, b, b>>
        [] k.lowering = "linear_delta" ->
             <<b * call.d, b * call.d, b * call.dv, b * call.dv, b * call.dv, b * b, b, b, b, b, b>>

-----------------------------------------------------------------------------
(* The Runtime of a process on the machine; without a backend it has none. *)
Init ==
  /\ \E p \in Problems :
       machine = p.machine /\ host = DetectHost(p.machine) /\ call = p.call /\ tuner = p.tuner
  /\ CompatibleBackends(host) # {}
  /\ code = Unplanned /\ launch = Unplanned /\ memory = Unplanned
  /\ served = call /\ skv = 0 /\ status = NotRun

(* The tuner settles on one of the plans. *)
Plan ==
  /\ code = Unplanned
  /\ code' \in {k \in Codes : k.kind = call.kind}
  /\ launch' \in LaunchPlans(code')
  /\ memory' \in MemoryPlans(code', launch')
  /\ UNCHANGED <<problem, served, skv, status>>

(* A valid call that is planned as the first one was replays its plan. *)
Run ==
  /\ code # Unplanned
  /\ \E c \in {call} \cup OtherCalls,
        n \in IF Bucketed(call) THEN 1..KvBucket(call.skv, Unit) ELSE {call.skv} :
       /\ Bucketed(c) => c.queries <= n
       /\ TuneCall(c, n) = <<call, PlannedSkv>>
       /\ served' = c /\ skv' = n
       /\ status' = KernelStatus(code, launch, memory, c, n)
  /\ UNCHANGED <<problem, code, launch, memory>>

Next == Plan \/ Run

Spec == Init /\ [][Next]_vars

-----------------------------------------------------------------------------
Planned == code # Unplanned

(* No more query rows, no wider values and no larger K than the planned call. *)
NoLarger(c) ==
  \/ c = call
  \/ /\ c.heads * c.queries <= call.heads * call.queries
     /\ c.dv <= call.dv
     /\ c.kvHeads * c.d <= call.kvHeads * call.d

(* The workspace, planned once for the first call of a bucket at its edge, holds
   what the kernel lays out for any call that is no larger, at every length of
   the bucket.  The kernel refuses, for want of workspace, larger ones only: a
   plan is replayed for those as well. *)
MemorySuffices == status = -2 => ~NoLarger(served)

(* No kernel lacks an argument, and only parallel_2d ever refuses a team: an odd
   one of nine workers or more that has too few key tiles for all its divisors,
   fewer than the root of its size. *)
AcceptedByKernel ==
  /\ status # -1
  /\ status = -3 =>
       LET workers == Len(launch.cpus)
           tiles == KeyTiles(skv, code.tileK)
       IN  workers % 2 = 1 /\ workers >= 9 /\ tiles * tiles < workers

(* No two workers of a launch share a physical core of the machine, as far as
   its topology can be read, and every worker belongs to exactly one group,
   that of its node. *)
OneWorkerPerCore ==
  Planned =>
    /\ \A v, w \in DOMAIN launch.cpus :
         LET a == launch.cpus[v]
             b == launch.cpus[w]
         IN  v # w /\ {a, b} \subseteq machine.readable =>
               <<machine.cpus[a].socket, machine.cpus[a].core>>
                 # <<machine.cpus[b].socket, machine.cpus[b].core>>
    /\ \A w \in DOMAIN launch.cpus :
         LET c == launch.cpus[w]
         IN  Cardinality({g \in DOMAIN launch.groups : c \in ToSet(launch.groups[g].cpus)}) = 1
    /\ \A g \in DOMAIN launch.groups : \A c \in ToSet(launch.groups[g].cpus) \cap machine.readable :
         launch.groups[g].node = machine.cpus[c].node

(* Code is generated for the widest backend that every CPU the process may run
   on can execute, unless /proc/cpuinfo leaves one of them out: then it is one
   that every listed CPU can execute. *)
BackendRunsEverywhere ==
  LET Runs(b, cpus) ==
        /\ b.architecture = Architecture(machine) /\ b.sve \in {0, machine.sve}
        /\ \A c \in cpus : b.features \subseteq machine.cpus[c].features
      IsWidest(i, cpus) ==
        Runs(BACKENDS[i], cpus) /\ \A j \in 1..i - 1 : ~Runs(BACKENDS[j], cpus)
  IN  IF machine.allowed \subseteq machine.listed
      THEN \E i \in DOMAIN BACKENDS :
             SelectBackend(host) = BACKENDS[i] /\ IsWidest(i, machine.allowed)
      ELSE Runs(SelectBackend(host), machine.listed)

(* Nothing the planner builds is refused by a constructor: copies of packed K
   divide among their owners, regions follow each other without overlap, and
   groups share out the CPUs.  One plan refused would leave the call without
   any. *)
BuiltPlansAreAccepted ==
  Planned =>
    /\ ValidCode(code) /\ ValidLaunch(launch) /\ ValidMemory(memory)
    /\ ValidateMemory(code, launch, memory)

(* The buffers a linear worker walks end inside its own stride. *)
BuffersFitTheStride ==
  (Planned /\ call.kind = "linear") =>
    SumOver(LinearBuffers(code), DOMAIN LinearBuffers(code)) <= WorkerStride(code, call)
=============================================================================
