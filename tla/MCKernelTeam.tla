---------------------------- MODULE MCKernelTeam ----------------------------
(***************************************************************************)
(* Teams for TLC: one and two worker groups, one replica or one per group, *)
(* full and partial packing, a short team.                                 *)
(***************************************************************************)
EXTENDS KernelTeam

MCKernels == {"blocked", "dynamic", "split_k", "2d"}

Launch(kernel, team, groups, owners, rows, skv, prefix) ==
  [kernel |-> kernel, workers |-> Len(groups), team |-> team, groups |-> groups,
   owners |-> owners, heads |-> 1, depth |-> 3, rows |-> rows, skv |-> skv,
   prefix |-> prefix, tileK |-> 2]

OneGroup == <<0, 0, 0>>
TwoGroups == <<0, 0, 1>>

(* Every kernel that three workers run, each packing choice and prefix. *)
MCThreeWorkers ==
  {Launch(kernel, team, groups, owners, 2, skv, prefix) :
     kernel \in {"blocked", "dynamic", "split_k"}, team \in {2, 3},
     groups \in {OneGroup, TwoGroups}, owners \in {<<>>, <<0>>},
     skv \in {2, 5}, prefix \in {0, 1, 2}}
  \cup {Launch(kernel, 3, TwoGroups, owners, 2, 5, 1) :
          kernel \in {"blocked", "split_k"}, owners \in {<<1>>, <<0, 1>>}}

MCFourWorkers ==
  {Launch("2d", 4, groups, owners, rows, skv, 1) :
     groups \in {<<0, 0, 0, 0>>, <<0, 1, 0, 1>>, <<0, 0, 1, 1>>},
     owners \in {<<>>, <<0>>}, rows \in {2, 3}, skv \in {2, 3}}

MCLaunches == MCThreeWorkers \cup MCFourWorkers
=============================================================================
