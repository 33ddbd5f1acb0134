------------------------------- MODULE Tuner --------------------------------
(***************************************************************************)
(* Tuner.select: the loop that samples the plans its subclass chooses, the *)
(* confirmation of the two best, and the choice of the winner.  One step   *)
(* is one call of measure() or one decision between two of them.           *)
(*                                                                         *)
(* A plan's time is its own latency, plus a disturbance while the machine  *)
(* is busy with something else: one burst of at most BurstLength           *)
(* consecutive measurements, wherever it falls.                            *)
(***************************************************************************)
EXTENDS Integers, Sequences, FiniteSets, SequencesExt

CONSTANTS
  Candidates,       \* legal plans, numbered in the order of their identities
  Foreign,          \* plans that are not candidates
  NoPlan,           \* Python's None
  Representatives,  \* _representatives: the order WorkerCountTuner measures in
  Maxnum,           \* Tuner.maxnum, or NoLimit for None
  NoLimit,
  Repeat,           \* Tuner.repeat
  Latencies,        \* what plans may take
  BurstLength,      \* bound: measurements a disturbance lasts
  Slow,             \* what the disturbance adds
  MaxSamples        \* bound: samples of one plan before confirmation

ASSUME CandidatesAssumption == Candidates \subseteq Nat /\ Candidates \cap Foreign = {}
ASSUME RepresentativesAssumption == Representatives \in Seq(Candidates)
ASSUME ConfigAssumption == Repeat \in Nat \ {0} /\ Maxnum \in (Nat \ {0}) \cup {NoLimit}
ASSUME TimesAssumption == Latencies \subseteq Nat /\ Slow \in Nat /\ BurstLength \in Nat

CONFIRM_FINALISTS == 2
CONFIRM_ROUNDS == 2

VARIABLES
  custom,    \* is choose_next a subclass's, which may return anything
  latency,   \* each plan's own time
  phase,     \* where select() stands
  order,     \* measured_order
  samples,   \* samples_by_id
  todo,      \* the measurements the loop has committed to
  winner,    \* TuningResult.winner
  burst      \* measurements the disturbance still covers; -1 before it

selectVars == <<custom, latency, phase, order, samples, todo, winner, burst>>
settingVars == <<custom, latency>>

Measured == ToSet(order)

(* Mutant: the worst sample stands for the plan. *)
WorstSample(s) == CHOOSE v \in ToSet(s) : \A w \in ToSet(s) : w <= v

(* The sample in the lower middle when they are sorted. *)
MedianSample(s) ==
  LET middle == (Len(s) + 1) \div 2
  IN  CHOOSE v \in ToSet(s) :
        /\ Cardinality({i \in DOMAIN s : s[i] < v}) < middle
        /\ middle <= Cardinality({i \in DOMAIN s : s[i] <= v})

(* By (median, identity). *)
Faster(p, q) ==
  LET mp == MedianSample(samples[p])
      mq == MedianSample(samples[q])
  IN  mp < mq \/ (mp = mq /\ p < q)

Fastest == CHOOSE p \in Measured : \A q \in Measured : ~Faster(q, p)

(* The measured plans, the fastest first. *)
Ranked ==
  [i \in 1..Cardinality(Measured) |->
    CHOOSE p \in Measured : Cardinality({q \in Measured : Faster(q, p)}) = i - 1]

(* Mutant: the first representative, measured or not. *)
FirstRepresentative == IF Representatives = <<>> THEN NoPlan ELSE Head(Representatives)

(* WorkerCountTuner.choose_next: the first representative without samples. *)
NextRepresentative ==
  LET left == {i \in DOMAIN Representatives : Representatives[i] \notin Measured}
  IN  IF left = {} THEN NoPlan
      ELSE Representatives[CHOOSE i \in left : \A j \in left : i <= j]

Offered == IF custom THEN Candidates \cup Foreign \cup {NoPlan} ELSE {NextRepresentative}

(* Mutant: one plan too many. *)
WithinBudgetPlusOne == Maxnum = NoLimit \/ Len(order) <= Maxnum

WithinBudget == Maxnum = NoLimit \/ Len(order) < Maxnum

Sampling(p, n) == [i \in 1..n |-> [plan |-> p, kept |-> TRUE]]
WarmUp(p) == <<[plan |-> p, kept |-> FALSE]>>

(* Mutant: only the leader is measured again. *)
ConfirmLeader ==
  IF Cardinality(Measured) < CONFIRM_FINALISTS THEN <<>>
  ELSE Sampling(Ranked[1], CONFIRM_ROUNDS)

(* Rounds over the finalists, interleaved. *)
Confirmation ==
  IF Cardinality(Measured) < CONFIRM_FINALISTS THEN <<>>
  ELSE LET ranked == Ranked
       IN  [i \in 1..CONFIRM_ROUNDS * CONFIRM_FINALISTS |->
              [plan |-> ranked[((i - 1) % CONFIRM_FINALISTS) + 1], kept |-> TRUE]]

-----------------------------------------------------------------------------
(* choose_next ends the search, or names a new plan beyond the budget. *)
StopChoosing(p) ==
  /\ phase = "choose"
  /\ p \in Offered
  /\ p = NoPlan \/ (p \in Candidates \ Measured /\ ~WithinBudget)
  /\ phase' = "confirm"
  /\ todo' = Confirmation
  /\ UNCHANGED <<settingVars, order, samples, winner, burst>>

(* A plan outside the candidates is refused. *)
RefuseForeign(p) ==
  /\ phase = "choose"
  /\ p \in Offered \cap Foreign
  /\ phase' = "raised"
  /\ UNCHANGED <<settingVars, order, samples, todo, winner, burst>>

(* A new plan is run once outside its samples; then Repeat samples follow. *)
ChooseNew(p) ==
  /\ phase = "choose"
  /\ p \in Offered \cap (Candidates \ Measured)
  /\ WithinBudget
  /\ order' = Append(order, p)
  /\ samples' = [samples EXCEPT ![p] = <<>>]
  /\ todo' = WarmUp(p) \o Sampling(p, Repeat)
  /\ phase' = "measure"
  /\ UNCHANGED <<settingVars, winner, burst>>

(* A plan chosen again gets another Repeat samples, whatever the budget. *)
ChooseAgain(p) ==
  /\ phase = "choose"
  /\ p \in Offered \cap Measured
  /\ Len(samples[p]) + Repeat <= MaxSamples
  /\ todo' = Sampling(p, Repeat)
  /\ phase' = "measure"
  /\ UNCHANGED <<settingVars, order, samples, winner, burst>>

(* The disturbance has not come, goes on, or is over. *)
Disturbed == burst > 0
NextBurst == IF burst > 0 THEN {burst - 1} ELSE {burst}

BurstBegins ==
  /\ burst = -1
  /\ phase \in {"measure", "confirm"}
  /\ \E n \in 1..BurstLength : burst' = n
  /\ UNCHANGED <<settingVars, phase, order, samples, todo, winner>>

(* One measure(): a sample is kept, a warm-up run is not. *)
Measure ==
  /\ phase \in {"measure", "confirm"}
  /\ todo # <<>>
  /\ LET m == Head(todo)
         taken == latency[m.plan] + IF Disturbed THEN Slow ELSE 0
     IN  samples' = IF m.kept
                    THEN [samples EXCEPT ![m.plan] = Append(@, taken)]
                    ELSE samples
  /\ todo' = Tail(todo)
  /\ burst' \in NextBurst
  /\ UNCHANGED <<settingVars, phase, order, winner>>

(* The native run, the compiler or the launch raises inside measure(). *)
MeasureRaises ==
  /\ phase \in {"measure", "confirm"}
  /\ todo # <<>>
  /\ phase' = "raised"
  /\ UNCHANGED <<settingVars, order, samples, todo, winner, burst>>

BackToChoosing ==
  /\ phase = "measure"
  /\ todo = <<>>
  /\ phase' = "choose"
  /\ UNCHANGED <<settingVars, order, samples, todo, winner, burst>>

(* The least (median, identity) of every measured plan. *)
PickWinner ==
  /\ phase = "confirm"
  /\ todo = <<>>
  /\ order # <<>>
  /\ winner' = Fastest
  /\ phase' = "done"
  /\ UNCHANGED <<settingVars, order, samples, todo, burst>>

NothingMeasured ==
  /\ phase = "confirm"
  /\ order = <<>>
  /\ phase' = "raised"
  /\ UNCHANGED <<settingVars, order, samples, todo, winner, burst>>

-----------------------------------------------------------------------------
SelectInit ==
  /\ custom \in BOOLEAN
  /\ latency \in [Candidates -> Latencies]
  /\ phase = "choose"
  /\ order = <<>>
  /\ samples = [p \in Candidates |-> <<>>]
  /\ todo = <<>>
  /\ winner = NoPlan
  /\ burst = -1

SelectStep ==
  \/ \E p \in Candidates \cup Foreign \cup {NoPlan} :
       StopChoosing(p) \/ RefuseForeign(p) \/ ChooseNew(p) \/ ChooseAgain(p)
  \/ Measure \/ MeasureRaises \/ BackToChoosing \/ PickWinner \/ NothingMeasured

SelectNext == SelectStep \/ BurstBegins

(* select() is a loop that runs until it returns or raises. *)
SelectSpec == SelectInit /\ [][SelectNext]_selectVars /\ WF_selectVars(SelectStep)

-----------------------------------------------------------------------------
(* The budget counts plans, not samples: however a subclass mixes new plans
   with plans it has seen, no more than maxnum are ever measured. *)
BudgetRespected == Maxnum # NoLimit => Len(order) <= Maxnum

(* Between choices every measured plan has whole rounds of samples, and in
   the end the two finalists, and only they, have the confirming ones. *)
EvenFooting ==
  (phase = "done" /\ Repeat > CONFIRM_ROUNDS) =>
    LET confirmed == {p \in Measured : Len(samples[p]) % Repeat # 0}
    IN  /\ Cardinality(confirmed) = IF Len(order) < CONFIRM_FINALISTS THEN 0
                                    ELSE CONFIRM_FINALISTS
        /\ \A p \in confirmed : Len(samples[p]) % Repeat = CONFIRM_ROUNDS

(* The winner is the measured plan that is fastest when nothing disturbs
   it, whenever a disturbance takes no longer than BurstLength. *)
FastestMeasuredWins ==
  phase = "done" =>
    \A p \in Measured : latency[winner] <= latency[p]

(* select() comes to an end under WorkerCountTuner. *)
SelectEnds == <>(custom \/ phase \in {"done", "raised"})
=============================================================================
