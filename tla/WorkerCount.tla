---------------------------- MODULE WorkerCount -----------------------------
(***************************************************************************)
(* The search of the tuners over the plan space of LaunchPlanning: the     *)
(* code plans a backend enumerates, one representative of every team size  *)
(* and packing (WorkerCountTuner) or the ranking of SingleCore, the plans  *)
(* that are measured, and the plan the search settles on, which then       *)
(* serves every call of its bucket.                                        *)
(***************************************************************************)
EXTENDS SingleCore

CONSTANTS
  Maxnum     \* Tuner.maxnum; None is a number beyond all plans

ASSUME SearchAssumption == Maxnum \in Nat \ {0}

VARIABLES
  offered,          \* <<team, packed, dynamic>> of every candidate
  representatives,  \* the order choose_next computes from the candidates every time
  history,          \* the plans measured so far
  settled           \* whether a winner has been picked

searchVars == <<vars, offered, representatives, history, settled>>

-----------------------------------------------------------------------------
(* Backend.enumerate_code_plans. *)

(* <<query rows, vectors of keys>> of a microkernel. *)
Microkernels ==
  IF Lanes >= 16 THEN {<<8, 1>>, <<6, 2>>, <<4, 4>>, <<8, 2>>}
  ELSE {<<6, 1>>, <<4, 2>>, <<2, 4>>}

ParallelPlan(lowering, q, vectors, k, dv, packs, dynamic) ==
  [kind |-> "parallel", lowering |-> lowering, tileQ |-> q, tileK |-> k, tileD |-> call.d,
   tileDV |-> dv, vectors |-> vectors, packs |-> packs, dynamic |-> dynamic]

LinearPlan(lowering, block, d, dv) ==
  [kind |-> "linear", lowering |-> lowering, tileQ |-> block, tileK |-> block, tileD |-> d,
   tileDV |-> dv, vectors |-> 1, packs |-> FALSE, dynamic |-> FALSE]

ParallelPlans ==
  {ParallelPlan("parallel_blocked", m[1], m[2], m[2] * Lanes * x, Lanes * y, packs, dynamic) :
     m \in Microkernels, x \in 1..2, y \in 1..2, packs \in BOOLEAN, dynamic \in BOOLEAN}
  \cup IF call.merges
       THEN {ParallelPlan(lowering, 1, 2, x * Lanes, Lanes, packs, FALSE) :
               lowering \in Split, x \in {2, 4}, packs \in BOOLEAN}
       ELSE {}

LinearPlans ==
  {LinearPlan("linear_scan", 1, x[1] * Lanes, x[2] * Lanes) : x \in {<<1, 1>>, <<2, 1>>, <<1, 2>>}}
  \cup {LinearPlan("linear_2d", 1, Lanes, Lanes)}
  \cup {LinearPlan("linear_chunked", b, Lanes, Lanes) :
          b \in IF call.form # "block" THEN {} ELSE IF Lanes >= 8 THEN {2, 4, 6} ELSE {2, 4}}
  \cup {LinearPlan("linear_delta", b, Lanes, Lanes) :
          b \in IF call.form # "delta" THEN {} ELSE IF Lanes >= 8 THEN {4, 8, 16} ELSE {2, 4}}

CodePlans == IF call.kind = "parallel" THEN ParallelPlans ELSE LinearPlans

(* PlanBuilder.build_all *)
Candidates ==
  UNION {UNION {{[code |-> k, launch |-> l, memory |-> m] : m \in MemoryPlans(k, l)} :
                  l \in LaunchPlans(k)} : k \in CodePlans}

Team(p) == Len(p.launch.cpus)

-----------------------------------------------------------------------------
(* Which of them stand for the others. *)

Distance(a, b) == IF a < b THEN b - a ELSE a - b
Unlike(a, b) == IF a = b THEN 0 ELSE 1

QueryReuse == call.queries * (call.heads \div call.kvHeads)
PrefersPacked == call.cached /\ QueryReuse >= 32
PrefersDynamic == call.queries >= 256

LoweringOrder ==
  [parallel_blocked |-> 0, parallel_2d |-> 1, parallel_split_k |-> 2,
   linear_chunked |-> 0, linear_delta |-> 0, linear_scan |-> 1, linear_2d |-> 2]

ParallelKey(k) ==
  <<LoweringOrder[k.lowering],
    Unlike(k.dynamic, PrefersDynamic),
    Unlike(k.packs, PrefersPacked),
    Distance(k.tileQ, IF Lanes >= 16 THEN 8 ELSE 4),
    Distance(k.vectors, 2),
    Distance(k.tileK, (IF Lanes >= 16 THEN 4 ELSE 2) * Lanes),
    Distance(k.tileDV, (IF Lanes >= 16 THEN 2 ELSE 1) * Lanes)>>

LinearKey(k) ==
  <<LoweringOrder[k.lowering],
    IF k.lowering = "linear_delta" THEN -k.tileQ
    ELSE Distance(k.tileQ, Smaller(4, call.tokens)),
    Distance(k.tileD, Lanes),
    Distance(k.tileDV, 2 * Lanes)>>

(* Mutant: where the workers run does not count. *)
MoreReplicas(p) == <<-Len(p.memory.owners), p.memory.total>> \o p.launch.cpus

(* Within one node first, then more replicas of packed K, then less memory. *)
PlacementKey(p) ==
  <<IF Len(p.launch.groups) > 1 THEN 1 ELSE 0, -Len(p.memory.owners), p.memory.total>>
    \o p.launch.cpus

Preference(p) ==
  (IF p.code.kind = "parallel" THEN ParallelKey(p.code) ELSE LinearKey(p.code))
    \o PlacementKey(p)

(* The least key, compared part by part; the keys of one team are of one
   length.  What is left is equal but for its identity. *)
Precedes(a, b) == \E i \in DOMAIN a : a[i] < b[i] /\ \A j \in 1..i - 1 : a[j] = b[j]

Preferred(plans) ==
  LET keyed == {<<Preference(p), p>> : p \in plans}
  IN  (CHOOSE x \in keyed : \A y \in keyed : ~Precedes(y[1], x[1]))[2]

Descending(S) == InOrder(S, >)
IsPowerOfTwo(n) == \E e \in 0..n : 2^e = n

Topology(legal) == {Max(legal)} \cup {Len(NodeCpus(n)) : n \in Nodes}

(* Mutant: the largest teams, whatever the topology. *)
LargestTeams(legal) == SubSeq(Descending(legal), 1, Smaller(Maxnum, Cardinality(legal)))

(* Every legal team size when they are few; else those of the topology, then
   the powers of two, then the rest. *)
WorkerAnchors(legal) ==
  IF Cardinality(legal) <= Maxnum THEN Descending(legal)
  ELSE LET first == legal \cap Topology(legal)
           second == {w \in legal \ first : IsPowerOfTwo(w)}
       IN  SubSeq(Descending(first) \o Descending(second) \o Descending(legal \ (first \cup second)),
                  1, Maxnum)

(* The plans of an anchor and a packing. *)
GroupOf(plans, anchors, s) == {p \in plans : Team(p) = anchors[s[1]] /\ p.code.packs = s[2]}
Filled(plans, anchors) ==
  {s \in (DOMAIN anchors) \X BOOLEAN : GroupOf(plans, anchors, s) # {}}

(* One representative of each anchor and packing, the unpacked one first. *)
RepresentativesOf(plans) ==
  LET anchors == WorkerAnchors({Team(p) : p \in plans})
      order == InOrder(Filled(plans, anchors),
                 LAMBDA s, t : s[1] < t[1] \/ (s[1] = t[1] /\ ~s[2] /\ t[2]))
  IN  [i \in DOMAIN order |-> Preferred(GroupOf(plans, anchors, order[i]))]

(* choose_next: the first of them that is not measured. *)
Unmeasured == {i \in DOMAIN representatives : representatives[i] \notin ToSet(history)}

-----------------------------------------------------------------------------
SearchInit ==
  Init /\ offered = {} /\ representatives = <<>> /\ history = <<>> /\ settled = FALSE

(* Any other tuner may settle on any plan. *)
ByKnownTuner == tuner \in {"worker_count", "single_core"}

Build ==
  /\ ByKnownTuner /\ offered = {}
  /\ \E plans \in {Candidates} :
       /\ offered' = {<<Team(p), p.code.packs, p.code.dynamic>> : p \in plans}
       /\ representatives' = IF tuner = "single_core" THEN Predictions(plans)
                             ELSE RepresentativesOf(plans)
  /\ UNCHANGED <<vars, history, settled>>

TakePlan(p) == code' = p.code /\ launch' = p.launch /\ memory' = p.memory

(* A kernel that refuses a plan raises, and the search ends without a winner. *)
NoneRefused == status \in {0, NotRun}

(* A new plan is run, a decode call's at the edge of its bucket. *)
Measure ==
  /\ ~settled /\ Len(history) < Maxnum /\ NoneRefused
  /\ Unmeasured # {}
  /\ LET p == representatives[Min(Unmeasured)]
     IN  /\ TakePlan(p) /\ history' = Append(history, p)
         /\ status' = KernelStatus(p.code, p.launch, p.memory, call, PlannedSkv)
  /\ served' = call /\ skv' = PlannedSkv
  /\ UNCHANGED <<problem, offered, representatives, settled>>

(* Times decide: any measured plan can win. *)
Settle ==
  /\ ~settled /\ history # <<>> /\ NoneRefused
  /\ Len(history) = Maxnum \/ Unmeasured = {}
  /\ \E p \in ToSet(history) : TakePlan(p)
  /\ settled' = TRUE
  /\ UNCHANGED <<problem, served, skv, status, offered, representatives, history>>

(* Another tuner settles on any legal plan. *)
SettleAnyhow ==
  /\ ~ByKnownTuner
  /\ Plan
  /\ settled' = TRUE
  /\ UNCHANGED <<offered, representatives, history>>

(* The winner serves the calls of its bucket. *)
Serve == settled /\ Run /\ UNCHANGED <<offered, representatives, history, settled>>

SearchNext == Build \/ Measure \/ Settle \/ SettleAnyhow \/ Serve

SearchSpec == SearchInit /\ [][SearchNext]_searchVars

-----------------------------------------------------------------------------
Measured(w, packs) == \E p \in ToSet(history) : Team(p) = w /\ p.code.packs = packs

(* The whole machine and the teams that fill one node are measured, packed and
   unpacked, when the budget holds them; unless there are so few sizes that all
   are tried in order of size, and more of them than the budget holds. *)
TopologyTeamsMeasured ==
  (settled /\ tuner = "worker_count") =>
    LET legal == {o[1] : o \in offered}
        packings == {o[2] : o \in offered}
        teams == legal \cap Topology(legal)
    IN  (/\ Cardinality(teams) * Cardinality(packings) <= Maxnum
         /\ \/ Cardinality(legal) > Maxnum
            \/ Cardinality(legal) * Cardinality(packings) <= Maxnum)
        => \A o \in offered : o[1] \in teams => Measured(o[1], o[2])

(* Of the plans for a team, one near its memory is measured: a team that fits
   in one node within one node, and a team of several nodes that packs K with
   a copy on each. *)
MeasuredNearMemory ==
  tuner = "worker_count" => \A p \in ToSet(history) :
    /\ Team(p) <= Max({Len(NodeCpus(n)) : n \in Nodes}) => Len(p.launch.groups) = 1
    /\ p.code.packs => Len(p.memory.owners) = Len(p.launch.groups)

(* The single-core search always has a plan to measure, never measures one
   twice, and compares times of one worker on one and the same CPU. *)
ComparedOnOneCpu ==
  tuner = "single_core" =>
    /\ offered # {} => representatives # <<>>
    /\ IsInjective(history)
    /\ \A p, q \in ToSet(history) : Team(p) = 1 /\ p.launch.cpus = q.launch.cpus
=============================================================================
