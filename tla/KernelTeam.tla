----------------------------- MODULE KernelTeam -----------------------------
(***************************************************************************)
(* The OpenMP team of one native Parallel call: parallel.c.j2,             *)
(* parallel_split_k.c.j2, parallel_2d.c.j2 and the packing they share.     *)
(*                                                                         *)
(* Workers copy K into one packed replica per owning group, meet at a      *)
(* barrier, and attend.  The blocked kernel shares whole rows out and      *)
(* writes the output; the split kernels attend to a range of keys each,    *)
(* leave a partial per row, meet again, and merge every row's partials,    *)
(* first inside a worker group, then across groups.                        *)
(*                                                                         *)
(* Scores, weights and masks are abstracted: a row's accumulator is the    *)
(* number of times it holds each key, read from a packed row that is       *)
(* current.  The arithmetic of scores and row norms is not modelled.       *)
(***************************************************************************)
EXTENDS KernelShapes, Sums, Sequences, FiniteSets

CONSTANTS
  Launches,  \* the calls a team may be opened for (see LaunchAssumption)
  Kernels    \* "blocked" | "dynamic" | "split_k" | "2d"

ASSUME KernelAssumption == Kernels \subseteq {"blocked", "dynamic", "split_k", "2d"}

(* workers were asked for and team threads came; groups and owners are
   worker_groups and packed_owner_groups (empty: the code does not pack);
   heads panels of depth columns are packed, and rows rows share the heads. *)
ASSUME LaunchAssumption ==
  \A l \in Launches :
    /\ l.kernel \in Kernels
    /\ l.workers \in Nat \ {0} /\ l.team \in 1..l.workers
    /\ Len(l.groups) = l.workers
    /\ l.rows \in Nat \ {0} /\ l.heads \in Nat \ {0} /\ l.depth \in Nat \ {0}
    /\ l.skv \in Nat \ {0} /\ l.prefix \in 0..l.skv /\ l.tileK \in Nat \ {0}

(* packed_owner_groups names groups that have workers, none twice. *)
ASSUME PackingAssumption ==
  \A l \in Launches :
    /\ l.groups \in Seq(Nat) /\ l.owners \in Seq(Nat)
    /\ \A s, u \in DOMAIN l.owners : l.owners[s] = l.owners[u] => s = u
    /\ \A s \in DOMAIN l.owners : \E i \in DOMAIN l.groups : l.groups[i] = l.owners[s]

(* parallel_2d returns before it opens a team that it cannot split. *)
ASSUME SplitAssumption ==
  \A l \in Launches : l.kernel = "2d" => Divisors(l.workers, l.skv, l.tileK) # {}

VARIABLES
  launch,   \* the call: chosen once
  packed,   \* replica -> panel -> how many of its leading rows are current K
  partial,  \* worker -> row -> accumulator in the worker's workspace region
  output,   \* row -> accumulator
  todo,     \* worker -> panels, then rows, it still has in this phase
  shared,   \* rows no thread has taken yet (dynamic schedule)
  pc,       \* thread -> phase
  failed    \* affinity_error

vars == <<launch, packed, partial, output, todo, shared, pc, failed>>

Workers == 0..launch.workers - 1
Threads == 0..launch.team - 1
Rows == 0..launch.rows - 1
Keys == 1..launch.skv
Panels == 0..launch.heads * launch.depth - 1
Replicas == 1..Len(launch.owners)

Group(w) == launch.groups[w + 1]
Packs == launch.owners # <<>>
Splits == launch.kernel \in {"split_k", "2d"}

Nothing == [k \in Keys |-> 0]
Unwritten == [k \in Keys |-> -1]   \* what an earlier call left in the workspace
Exact == [k \in Keys |-> 1]

-----------------------------------------------------------------------------
(* Who packs what (common/threading.h, common/packing.h). *)

GroupMembers(g) == {w \in Workers : Group(w) = g}
GroupRank(w) == Cardinality({v \in GroupMembers(Group(w)) : v < w})

OwnerSlots(g) == {s \in Replicas : launch.owners[s] = g}

(* cpuattn_local_packed_slot: a group without a replica reads the first. *)
LocalSlot(w) ==
  IF OwnerSlots(Group(w)) = {} THEN 1 ELSE CHOOSE s \in OwnerSlots(Group(w)) : TRUE

PanelsOf(w) ==
  IF OwnerSlots(Group(w)) = {} THEN {}
  ELSE StaticRange(launch.heads * launch.depth, GroupRank(w),
                   Cardinality(GroupMembers(Group(w))))

-----------------------------------------------------------------------------
(* Who attends to what. *)

Split2D == KeyParts(launch.workers, launch.rows, launch.skv, launch.tileK)
QueryParts == launch.workers \div Split2D

Parts == IF launch.kernel = "2d" THEN Split2D ELSE launch.workers
PartOf(w) == IF launch.kernel = "2d" THEN w % Split2D ELSE w

KeyRange(w) ==
  {k \in Keys : (launch.skv * PartOf(w)) \div Parts < k
                  /\ k <= (launch.skv * (PartOf(w) + 1)) \div Parts}

RowsOf(w) ==
  CASE launch.kernel = "2d" -> {r \in Rows : r % QueryParts = w \div Split2D}
    [] launch.kernel = "split_k" -> Rows
    [] launch.kernel = "blocked" -> {r \in Rows : r % launch.team = w}  \* static, 1
    [] launch.kernel = "dynamic" -> {}

(* The workers that left a partial for the row. *)
Contributors(r) ==
  IF launch.kernel = "2d" THEN {w \in Workers : w \div Split2D = r % QueryParts}
  ELSE Workers

(* schedule(static) of the merge loop: one contiguous chunk per thread. *)
Chunk == (launch.rows + launch.team - 1) \div launch.team
MergeRows(t) == {r \in Rows : r \div Chunk = t}

HeadOf(r) == (r * launch.heads) \div launch.rows
PanelsRead(r) == {p \in Panels : p \div launch.depth = HeadOf(r)}

(* What attending to a key range adds to a row's accumulator: a key counts
   when every panel of the row's head holds it. *)
Attended(w, r, keys) ==
  [k \in Keys |->
    IF k \in keys /\ (Packs => \A p \in PanelsRead(r) : k <= packed[LocalSlot(w)][p])
    THEN 1 ELSE 0]

-----------------------------------------------------------------------------
(* Mutant: threads that copy nothing do not wait for those that do. *)
PackBarrierForPackers(t) ==
  OwnerSlots(Group(t)) # {} => \A u \in Threads : pc[u] # "pack"

(* The barrier is skipped when no row is to be copied. *)
PackBarrier(t) == launch.prefix < launch.skv => \A u \in Threads : pc[u] # "pack"

(* Mutant: the barrier counts the workers that were asked for. *)
MergeBarrierOfWorkers ==
  \A w \in Workers : w \in Threads /\ pc[w] \in {"attended", "merge", "done"}

MergeBarrier == \A u \in Threads : pc[u] \in {"attended", "merge", "done"}

Enter(t, phase, work) ==
  /\ pc' = [pc EXCEPT ![t] = phase]
  /\ todo' = [todo EXCEPT ![t] = work]

PackedTo == launch.skv

PackPanel(t) ==
  /\ pc[t] = "pack"
  /\ \E p \in todo[t] :
       /\ \A q \in todo[t] : p <= q
       /\ packed' = [packed EXCEPT ![LocalSlot(t)][p] = PackedTo]
       /\ todo' = [todo EXCEPT ![t] = @ \ {p}]
  /\ UNCHANGED <<launch, partial, output, shared, pc, failed>>

ReachBarrier(t) ==
  /\ pc[t] = "pack" /\ todo[t] = {}
  /\ Enter(t, "packed", {})
  /\ UNCHANGED <<launch, packed, partial, output, shared, failed>>

StartAttending(t) ==
  /\ pc[t] = "packed"
  /\ Packs => PackBarrier(t)
  /\ Enter(t, "attend", RowsOf(t))
  /\ UNCHANGED <<launch, packed, partial, output, shared, failed>>

(* One row of the thread's own share. *)
AttendRow(t) ==
  /\ pc[t] = "attend"
  /\ \E r \in todo[t] :
       /\ \A s \in todo[t] : r <= s
       /\ IF Splits
          THEN /\ partial' = [partial EXCEPT ![t][r] = Attended(t, r, KeyRange(t))]
               /\ UNCHANGED output
          ELSE /\ output' = [output EXCEPT ![r] = Attended(t, r, Keys)]
               /\ UNCHANGED partial
       /\ todo' = [todo EXCEPT ![t] = @ \ {r}]
  /\ UNCHANGED <<launch, packed, shared, pc, failed>>

(* schedule(dynamic, 1): the next row nobody has taken. *)
TakeRow(t) ==
  /\ pc[t] = "attend" /\ launch.kernel = "dynamic"
  /\ \E r \in shared :
       /\ \A s \in shared : r <= s
       /\ output' = [output EXCEPT ![r] = Attended(t, r, Keys)]
       /\ shared' = shared \ {r}
  /\ UNCHANGED <<launch, packed, partial, todo, pc, failed>>

EndAttending(t) ==
  /\ pc[t] = "attend" /\ todo[t] = {}
  /\ launch.kernel = "dynamic" => shared = {}
  /\ Enter(t, IF Splits THEN "attended" ELSE "done", {})
  /\ UNCHANGED <<launch, packed, partial, output, shared, failed>>

StartMerging(t) ==
  /\ pc[t] = "attended"
  /\ MergeBarrier
  /\ Enter(t, "merge", MergeRows(t))
  /\ UNCHANGED <<launch, packed, partial, output, shared, failed>>

-----------------------------------------------------------------------------
Plus(a, b) == [k \in Keys |-> IF a[k] < 0 \/ b[k] < 0 THEN -1 ELSE a[k] + b[k]]

(* Adding accumulators; what an earlier call left spoils the sum. *)
Total(ws, r) ==
  [k \in Keys |->
    IF \E w \in ws : partial[w][r][k] < 0 THEN -1
    ELSE SumOver([w \in ws |-> partial[w][r][k]], ws)]

GroupRoot(r, g) ==
  CHOOSE w \in Contributors(r) : Group(w) = g
    /\ \A v \in Contributors(r) : Group(v) = g => w <= v

GroupsOf(r) == {Group(w) : w \in Contributors(r)}
InGroup(r, g) == {w \in Contributors(r) : Group(w) = g}

MergedGroup(r, g) == Total(InGroup(r, g), r)

(* The first group's accumulator, and every other group's added to it. *)
MergedRow(r) ==
  [k \in Keys |->
    IF \E g \in GroupsOf(r) : MergedGroup(r, g)[k] < 0 THEN -1
    ELSE SumOver([g \in GroupsOf(r) |-> MergedGroup(r, g)[k]], GroupsOf(r))]

MergeRow(t) ==
  /\ pc[t] = "merge"
  /\ \E r \in todo[t] :
       /\ \A s \in todo[t] : r <= s
       /\ partial' = [w \in Workers |->
                       IF w \in Contributors(r) /\ w = GroupRoot(r, Group(w))
                       THEN [partial[w] EXCEPT ![r] = MergedGroup(r, Group(w))]
                       ELSE partial[w]]
       /\ output' = [output EXCEPT ![r] = MergedRow(r)]
       /\ todo' = [todo EXCEPT ![t] = @ \ {r}]
  /\ UNCHANGED <<launch, packed, shared, pc, failed>>

EndMerging(t) ==
  /\ pc[t] = "merge" /\ todo[t] = {}
  /\ Enter(t, "done", {})
  /\ UNCHANGED <<launch, packed, partial, output, shared, failed>>

-----------------------------------------------------------------------------
(* omp_get_num_threads() != workers. *)
Short(l) == l.team # l.workers

(* The state a thread starts a call in: the arena holds the rows of the prefix
   and whatever earlier calls left above them. *)
Init ==
  /\ launch \in Launches
  /\ packed = [s \in Replicas |-> [p \in Panels |-> launch.prefix]]
  /\ partial = [w \in Workers |-> [r \in Rows |-> Unwritten]]
  /\ output = [r \in Rows |-> Unwritten]
  /\ todo = [t \in Threads |-> IF Packs THEN PanelsOf(t) ELSE {}]
  /\ shared = IF launch.kernel = "dynamic" THEN Rows ELSE {}
  /\ pc = [t \in Threads |-> "pack"]
  /\ failed = Short(launch)

Step(t) ==
  \/ PackPanel(t) \/ ReachBarrier(t) \/ StartAttending(t)
  \/ AttendRow(t) \/ TakeRow(t) \/ EndAttending(t)
  \/ StartMerging(t) \/ MergeRow(t) \/ EndMerging(t)

Next == \E t \in Threads : Step(t)

Spec == Init /\ [][Next]_vars /\ \A t \in 0..7 : WF_vars(t \in Threads /\ Step(t))

-----------------------------------------------------------------------------
Closed == \A t \in Threads : pc[t] = "done"

(* A call that returns status 0 has attended, in every row, to every key
   exactly once, and to K as it is now: no range lost or counted twice by the
   split, no panel read before it was packed, no partial merged before it was
   written, no row merged twice. *)
AnswersAreExact ==
  (Closed /\ ~failed) => \A r \in Rows : output[r] = Exact

(* While a thread reads a replica, no other still has a panel of it to copy
   that would change what is read. *)
NoReadWhilePacking ==
  \A t, u \in Threads :
    (Packs /\ pc[t] = "attend" /\ pc[u] = "pack" /\ LocalSlot(t) = LocalSlot(u))
      => \A p \in todo[u] : packed[LocalSlot(u)][p] = launch.skv

(* Every team passes its barriers and closes. *)
TeamEnds == <>Closed
=============================================================================
