--------------------------- MODULE MCWorkerCount ----------------------------
(***************************************************************************)
(* The small problems of MCLaunchPlanning, where any plan may be settled   *)
(* on, and larger ones for the search of the two tuners among the code     *)
(* plans of backends with four, eight and sixteen lanes.                   *)
(***************************************************************************)
EXTENDS WorkerCount, MCLaunchPlanning

(* Few team sizes; more than the budget, with a small node among them. *)
SearchHosts ==
  {X86(places) : places \in {Flat(1), Flat(3), TwoNodes(2, 2), TwoNodes(2, 3), TwoNodes(3, 9)}}
OtherVectors ==
  {Machine("x86_64", TwoNodes(2, 3), AVX512, 0), Machine("aarch64", TwoNodes(2, 3), {"asimd"}, 0)}

SearchParallel(heads, kvHeads, queries, length, cached, merges) ==
  [kind |-> "parallel", heads |-> heads, kvHeads |-> kvHeads, queries |-> queries,
   d |-> 16, dv |-> 16, states |-> 2, skv |-> length, cached |-> cached, merges |-> merges]
SearchLinear(heads, dv, tokens, form) ==
  [kind |-> "linear", heads |-> heads, d |-> 16, dv |-> dv, skv |-> 1, tokens |-> tokens,
   form |-> form, cached |-> FALSE]

(* Decoding one token, a short and a long query, and a norm without a merge. *)
SearchCalls ==
  {SearchParallel(8, 2, 1, 10, TRUE, TRUE), SearchParallel(2, 1, 20, 20, TRUE, TRUE),
   SearchParallel(2, 1, 256, 256, FALSE, TRUE), SearchParallel(1, 1, 16, 64, FALSE, FALSE),
   SearchLinear(1, 64, 1, "plain"), SearchLinear(12, 16, 5, "block"),
   SearchLinear(4, 16, 9, "delta")}

MCProblems ==
  SmallProblems
    \cup [machine : SearchHosts \cup OtherVectors, call : SearchCalls, tuner : {"worker_count"}]
    \cup [machine : {X86(Flat(3)), X86(TwoNodes(2, 3))} \cup OtherVectors, call : SearchCalls,
          tuner : {"single_core"}]
=============================================================================
