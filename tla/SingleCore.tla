----------------------------- MODULE SingleCore -----------------------------
(***************************************************************************)
(* SingleCoreTuner (tuning/single_core.py): the one-worker plans of one    *)
(* CPU, ordered by a roofline estimate of their cycles.                    *)
(*                                                                         *)
(* Cycles are rational numbers in the code's formulas; they are counted in *)
(* parts of one Scale-th of a cycle, which all the divisors divide.        *)
(***************************************************************************)
EXTENDS LaunchPlanning

Scale == 384
FloatBytes == 4

VectorBytes == SelectBackend(host).vectorBytes
Lanes == VectorBytes \div FloatBytes

RoundUp(value, multiple) == Ceiling(value, multiple) * multiple

-----------------------------------------------------------------------------
(* _Work: what a plan computes and moves. *)

ParallelWork(p) ==
  LET k == p.code
      length == PlannedSkv
      pairs == call.heads * call.queries
      rows == call.heads * Ceiling(call.queries, k.tileQ)
      columns == call.d + call.dv
      executed == IF k.packs THEN RoundUp(length, k.tileK) ELSE length
      packed == IF k.packs THEN call.kvHeads * length * call.d ELSE 0
  IN  [flops |-> 2 * pairs * (executed * RoundUp(call.d, Lanes) + length * RoundUp(call.dv, Lanes)),
       bytes |-> FloatBytes * (pairs * columns + call.kvHeads * length * columns
                                 + rows * length * columns + 2 * packed),
       packed |-> packed,
       visits |-> rows * Ceiling(length, k.tileK),
       workingSet |-> FloatBytes * (k.tileQ * call.d + k.tileK * columns + k.tileQ * call.dv),
       chains |-> IF k.packs THEN k.tileQ * k.vectors ELSE 1,
       registers |-> IF k.packs THEN k.tileQ * k.vectors + k.tileQ + 3 ELSE 5,
       horizontal |-> IF k.packs THEN 0 ELSE pairs * executed * (Scale \div 2)]

LinearWork(p) ==
  LET k == p.code
      state == call.d * call.dv
      block == IF k.lowering \in Blocks THEN k.tileQ ELSE 1
      tokens == call.heads * RoundUp(call.tokens, block)
      inputs == tokens * 2 * (call.d + call.dv)
  IN  [flops |-> 4 * tokens * state + IF block > 1 THEN tokens * block * (call.d + call.dv) ELSE 0,
       bytes |-> FloatBytes * (call.heads * state
                   + inputs * IF k.lowering = "linear_2d" THEN DvBlocks(k) ELSE 1),
       packed |-> 0,
       visits |-> call.heads * Ceiling(call.tokens, block),
       workingSet |-> FloatBytes * (state + p.memory.total),
       chains |-> Ceiling(call.dv, Lanes),
       registers |-> block + 4,
       horizontal |-> 0]

Work(p) == IF call.kind = "parallel" THEN ParallelWork(p) ELSE LinearWork(p)

(* _bandwidth: bytes a cycle from the first cache of the CPU that holds them. *)
Bandwidth(cpu, bytes) ==
  LET levels == {x.level : x \in {y \in host.caches :
                   cpu \in y.shared /\ y.kind \in {"data", "unified"} /\ bytes <= y.size}}
      level == IF levels = {} THEN 4 ELSE Min(levels)
      factor == CASE level = 1 -> 8 [] level = 2 -> 4 [] level = 3 -> 2 [] OTHER -> 1
  IN  Max({8, (VectorBytes * factor) \div 4})

(* _estimate: predicted cycles. *)
Estimate(p, cpu) ==
  LET work == Work(p)
      pipes == IF host.features \cap {"fma", "asimd", "sve"} # {} THEN 2 ELSE 1
      quarters == IF work.chains > 1 THEN Smaller(4, work.chains) ELSE 4
      compute == work.flops * ((4 * Scale) \div (2 * Lanes * pipes * quarters)) + work.horizontal
      data == work.bytes * (Scale \div Bandwidth(cpu, work.workingSet))
      packedBytes == work.packed * FloatBytes
      packing == work.packed * (Scale \div Lanes)
                   + 2 * packedBytes * (Scale \div Bandwidth(cpu, Max({1, packedBytes})))
      registers == IF host.architecture = "aarch64" \/ Lanes >= 16 THEN 32 ELSE 16
      spills == Max({0, work.registers - (registers - 6)})
  IN  Max({compute, data}) + packing + work.visits * (4 + spills) * Scale

-----------------------------------------------------------------------------
OneWorkerPlans(plans) == {p \in plans : Len(p.launch.cpus) = 1}

(* The first CPU the process may use among those plans run on. *)
FixedCpu(plans) ==
  Min({c \in Cpus : \E p \in plans : p.launch.cpus = <<c>>})

(* Mutant: every CPU's plans are compared. *)
OnAnyCpu(plans) == OneWorkerPlans(plans)

FixedCpuPlans(plans) ==
  LET ones == OneWorkerPlans(plans) IN {p \in ones : p.launch.cpus = <<FixedCpu(ones)>>}

(* predictions: the cheapest first; of equal ones either may be. *)
Predictions(plans) ==
  LET cpu == FixedCpu(OneWorkerPlans(plans))
      estimates == {[plan |-> p, cycles |-> Estimate(p, cpu)] : p \in FixedCpuPlans(plans)}
      ranking[n \in 0..Cardinality(estimates)] ==
        IF n = 0 THEN <<>>
        ELSE LET cheaper == ranking[n - 1]
                 left == estimates \ ToSet(cheaper)
             IN  Append(cheaper, CHOOSE e \in left : \A f \in left : e.cycles <= f.cycles)
  IN  [i \in 1..Cardinality(estimates) |-> ranking[Cardinality(estimates)][i].plan]
=============================================================================
