-------------------------- MODULE MCLaunchPlanning --------------------------
(***************************************************************************)
(* Machines, calls and code plans for TLC.                                 *)
(***************************************************************************)
EXTENDS LaunchPlanning

Cpu(socket, core, node) == [socket |-> socket, core |-> core, node |-> node]

(* One node of n cores. *)
Flat(n) == [i \in 1..n |-> Cpu(0, i, 0)]
(* Two sockets of a and b cores; the core numbers repeat on both. *)
TwoNodes(a, b) ==
  [i \in 1..a + b |-> IF i <= a THEN Cpu(0, i, 0) ELSE Cpu(1, i - a, 1)]
(* Two hardware threads a core, numbered after all the cores, nodes 1 and 3. *)
Threaded(n) ==
  [i \in 1..2 * n |-> LET c == IF i <= n THEN i ELSE i - n
                      IN  Cpu(0, c, IF c <= n \div 2 THEN 1 ELSE 3)]

AVX2 == {"avx2", "fma"}
AVX512 == AVX2 \cup {"avx512f"}

(* Every CPU has the features, is allowed, listed and readable; the first
   levels of cache are its own, the last is everybody's. *)
Machine(arch, places, features, sve) ==
  LET all == DOMAIN places IN
  [machine |-> arch, trailer |-> FALSE, sve |-> sve,
   cpus |-> [c \in all |-> [socket |-> places[c].socket, core |-> places[c].core,
                            node |-> places[c].node, features |-> features]],
   allowed |-> all, listed |-> all, readable |-> all,
   caches |-> {[level |-> 1, kind |-> "data", size |-> 512, shared |-> {c}] : c \in all}
                \cup {[level |-> 1, kind |-> "instruction", size |-> 8192, shared |-> {c}] : c \in all}
                \cup {[level |-> 2, kind |-> "unified", size |-> 2048, shared |-> {c}] : c \in all}
                \cup {[level |-> 3, kind |-> "unified", size |-> 8192, shared |-> all]}]

X86(places) == Machine("x86_64", places, AVX2, 0)

SmallHosts ==
  {X86(Flat(n)) : n \in {1, 4, 5, 6, 7, 8, 9}}
    \cup {X86(places) : places \in {TwoNodes(3, 3), TwoNodes(2, 5), Threaded(4)}}

(* Wide and narrow cores together, of which the process may use those given. *)
Hybrid(allowed) ==
  LET m == X86(Flat(4))
  IN  [m EXCEPT !.allowed = allowed,
                !.cpus = [c \in DOMAIN m.cpus |-> [m.cpus[c] EXCEPT !.features =
                            IF c <= 2 THEN AVX512 ELSE AVX2]]]

OddHosts ==
  {Hybrid({1, 2}), Hybrid({2, 3, 4}), Hybrid({4}),
   [Hybrid({2, 3}) EXCEPT !.listed = {1, 2}], [Hybrid({1, 2}) EXCEPT !.listed = {2, 3, 4}],
   [Hybrid({1, 2}) EXCEPT !.listed = {}], [Hybrid({1, 2}) EXCEPT !.trailer = TRUE],
   [X86(Threaded(2)) EXCEPT !.readable = {}], [X86(Threaded(3)) EXCEPT !.readable = {1, 2, 4, 6}],
   [X86(Threaded(3)) EXCEPT !.allowed = {2, 3, 5, 6}],
   Machine("amd64", Flat(2), {"fma"}, 0), Machine("riscv64", Flat(1), {}, 0),
   Machine("aarch64", TwoNodes(1, 1), {"asimd", "sve"}, 32),
   Machine("arm64", Flat(4), {"asimd", "sve"}, 64),
   [Machine("aarch64", Flat(2), {"asimd"}, 0) EXCEPT !.trailer = TRUE, !.listed = {1}]}

Parallel(heads, kvHeads, queries, length, cached) ==
  [kind |-> "parallel", heads |-> heads, kvHeads |-> kvHeads, queries |-> queries,
   d |-> 2, dv |-> 3, states |-> 2, skv |-> length, cached |-> cached]
Linear(heads, d, dv) == [kind |-> "linear", heads |-> heads, d |-> d, dv |-> dv, skv |-> 1, tokens |-> 1]

SmallCalls ==
  {Parallel(heads, 1, queries, length, cached) :
     heads \in {1, 4}, queries \in {1, 3}, length \in {3, 4, 5, 9}, cached \in BOOLEAN}
  \cup {Linear(heads, d, dv) : heads \in {1, 3}, d \in {1, 4}, dv \in {2, 5}}

(* Ten rows of narrow heads, no larger than twelve rows of the calls above and
   larger than the others; and a call with more K than any of the decode calls. *)
MCOtherCalls ==
  {[Parallel(2, 2, 5, 5, TRUE) EXCEPT !.d = 1], [Parallel(16, 4, 2, 2, TRUE) EXCEPT !.d = 16, !.dv = 16]}

ParallelCode(lowering, q, k, packs, dynamic) ==
  [kind |-> "parallel", lowering |-> lowering, tileQ |-> q, tileK |-> k,
   tileDV |-> 2, packs |-> packs, dynamic |-> dynamic]
LinearCode(lowering, block) ==
  [kind |-> "linear", lowering |-> lowering, tileQ |-> block, tileK |-> block,
   tileDV |-> 2, packs |-> FALSE, dynamic |-> FALSE]

SmallProblems ==
  [machine : SmallHosts, call : SmallCalls, tuner : {"any"}]
    \cup [machine : OddHosts, call : {Parallel(4, 1, 3, 5, TRUE), Linear(3, 4, 5)}, tuner : {"any"}]

MCCodes ==
  {ParallelCode("parallel_blocked", 1, 2, packs, FALSE) : packs \in BOOLEAN}
  \cup {ParallelCode("parallel_blocked", 2, 2, packs, TRUE) : packs \in BOOLEAN}
  \cup {ParallelCode(lowering, 1, k, packs, FALSE) :
          lowering \in {"parallel_split_k", "parallel_2d"}, k \in {2, 3}, packs \in BOOLEAN}
  \cup {LinearCode("linear_scan", 1), LinearCode("linear_2d", 1)}
  \cup {LinearCode(lowering, block) :
          lowering \in {"linear_chunked", "linear_delta"}, block \in {2, 4}}
=============================================================================
