---------------------------- MODULE DecodeStream ----------------------------
(***************************************************************************)
(* Packed-K reuse between the calls of one Runtime.                        *)
(*                                                                         *)
(* A plan whose code packs K transposed copies K into the executor's       *)
(* workspace arena.  When consecutive kv_cache calls grow the same K       *)
(* buffer, only the grown suffix is packed again; whether the rows already *)
(* in the arena may be trusted is decided from a single remembered slot    *)
(* (_kv_packed) and a counter of native runs (_arena_seq).                 *)
(*                                                                         *)
(* Every call runs under Runtime._execution_lock, so one native run with   *)
(* its bookkeeping is one step.  Between runs the caller writes to its     *)
(* buffers, drops them and lets their addresses be handed out again.       *)
(***************************************************************************)
EXTENDS Naturals, KvShapes

CONSTANTS
  Addrs,          \* data pointers the allocator may hand out for K
  Shapes,         \* the (b, hkv, d) views a call may take of a buffer
  Artifacts,      \* compiled kernels: one artifact key per operator and code
  Plans,          \* execution-plan identities
  PackingPlans,   \* the plans whose code has packing k_transposed
  TileK,          \* plan -> key tile
  BucketUnit,     \* _KV_BUCKET_UNIT
  MaxLen,         \* bound: longest K
  MaxSeq,         \* bound: native runs of one behaviour that are counted
  MaxRaises,      \* bound: native runs of one behaviour that raise
  Vals,           \* what a K row may hold
  Blank,          \* what a packed row holds that no call's K was copied to
  NoPlan, NoState, NoStream,   \* Python's None
  Failures        \* the ways Executor.run may raise (see RunRaises)

ASSUME PlansAssumption == PackingPlans \subseteq Plans /\ NoPlan \notin Plans
ASSUME TileAssumption == TileK \in [Plans -> Nat \ {0}] /\ BucketUnit \in Nat \ {0}
ASSUME BoundAssumption == MaxLen \in Nat /\ MaxSeq \in Nat /\ MaxRaises \in Nat
ASSUME BlankAssumption == Blank \notin Vals
ASSUME FailureAssumption == Failures \subseteq {"arena", "before_pack", "after_pack"}

Rows == 1..MaxLen
Cells == Vals \cup {Blank}
Streams == Plans \X Addrs \X Shapes

States == [stream : Streams, skv : Rows, seq : Nat]

ASSUME SentinelAssumption == NoStream \notin Streams /\ NoState \notin States

VARIABLES
  mem,         \* caller: address -> K rows
  owned,       \* caller: the addresses it still references
  covered,     \* caller: rows of the buffer its last kv_cache call covered
  dirty,       \* caller: has a covered row been edited since
  arenaKey,    \* Executor._arena_key
  arena,       \* the packed_k region: layout it was written in, and its rows
  templates,   \* Executor._packed: the prebuilt pointer arrays
  arenaSeq,    \* Runtime._arena_seq
  kvPacked,    \* Runtime._kv_packed
  lastNative,  \* history: the last native run attempted
  suspect,     \* history: has a run raised since the last counted full pack
  raises,      \* history: native runs that raised
  served       \* history: rows the last answered call read, and was given

callerVars == <<mem, owned, covered, dirty>>
executorVars == <<arenaKey, arena, templates>>
runtimeVars == <<arenaSeq, kvPacked>>
historyVars == <<lastNative, suspect, raises, served>>
vars == <<callerVars, executorVars, runtimeVars, historyVars>>

Layouts == Shapes \X Nat
NoLayout == <<>>
FreshArena == [layout |-> NoLayout, rows |-> [r \in Rows |-> Blank]]
NotAStream == [stream |-> NoStream, len |-> 0, prefix |-> 0]
NoRows == [r \in Rows |-> Blank]

(* The first n rows of a buffer, as the kernel is given them. *)
Given(rows, n) == [r \in Rows |-> IF r <= n THEN rows[r] ELSE Blank]

(* Mutant: the remembered state holds no reference to the K buffer. *)
PinnedByNobody(a) == FALSE

(***************************************************************************)
(* The state remembered for a stream pins the K view it names, so the      *)
(* allocator cannot hand out that address while the state is held.         *)
(***************************************************************************)
Pinned(a) == kvPacked # NoState /\ kvPacked.stream[2] = a

(* Mutant: the native runs since the state was remembered are not counted. *)
PackedPrefixUncounted(plan, a, shape, n) ==
  IF /\ plan \in PackingPlans
     /\ kvPacked # NoState
     /\ kvPacked.stream = <<plan, a, shape>>
     /\ kvPacked.skv < n
     /\ PackedSkv(kvPacked.skv, TileK[plan]) = PackedSkv(n, TileK[plan])
  THEN kvPacked.skv
  ELSE 0

(* Mutant: a call of the same length reuses the packed rows too. *)
PackedPrefixSameLength(plan, a, shape, n) ==
  IF /\ plan \in PackingPlans
     /\ kvPacked # NoState
     /\ kvPacked.stream = <<plan, a, shape>>
     /\ kvPacked.seq = arenaSeq
     /\ kvPacked.skv <= n
     /\ PackedSkv(kvPacked.skv, TileK[plan]) = PackedSkv(n, TileK[plan])
  THEN kvPacked.skv
  ELSE 0

(***************************************************************************)
(* Runtime._packed_prefix: how many rows of packed K to trust.             *)
(***************************************************************************)
PackedPrefix(plan, a, shape, n) ==
  IF /\ plan \in PackingPlans
     /\ kvPacked # NoState
     /\ kvPacked.stream = <<plan, a, shape>>
     /\ kvPacked.seq = arenaSeq
     /\ kvPacked.skv < n
     /\ PackedSkv(kvPacked.skv, TileK[plan]) = PackedSkv(n, TileK[plan])
  THEN kvPacked.skv
  ELSE 0

(***************************************************************************)
(* Executor._packed_template and _workspace_for.  A template hit uses the  *)
(* pointers it holds; a miss asks for the plan's arena, and asking for     *)
(* another plan's closes the mapping, drops every template built for it    *)
(* and maps a new one.                                                     *)
(***************************************************************************)
NeedsArena(artifact, plan) == <<artifact, plan>> \notin templates /\ plan # arenaKey

(* Mutant: close() unmaps the arena and keeps the templates. *)
KeepTemplates == templates

CloseTemplates == {}

ArenaFor(artifact, plan) == IF NeedsArena(artifact, plan) THEN FreshArena ELSE arena

TakeTemplate(artifact, plan) ==
  /\ arenaKey' = IF NeedsArena(artifact, plan) THEN plan ELSE arenaKey
  /\ templates' = (IF NeedsArena(artifact, plan) THEN CloseTemplates ELSE templates)
                    \cup {<<artifact, plan>>}

(* Mutant: packing starts one row above the prefix. *)
RepackedOneShort(region, layout, rows, prefix, n) ==
  [layout |-> layout,
   rows |-> [r \in Rows |->
              IF r <= prefix + 1
              THEN IF region.layout = layout THEN region.rows[r] ELSE Blank
              ELSE IF r <= n THEN rows[r] ELSE Blank]]

(***************************************************************************)
(* cpuattn_pack_k_for_owner: rows above the prefix are copied, the rest of *)
(* the padded stride is zeroed, and earlier rows stay as the region holds  *)
(* them.  Rows kept from a region written in another layout are garbage.   *)
(***************************************************************************)
Repacked(region, layout, rows, prefix, n) ==
  [layout |-> layout,
   rows |-> [r \in Rows |->
              IF r <= prefix
              THEN IF region.layout = layout THEN region.rows[r] ELSE Blank
              ELSE IF r <= n THEN rows[r] ELSE Blank]]

LayoutOf(plan, shape, n) == <<shape, PackedSkv(n, TileK[plan])>>

(* The arena after the plan's kernel ran, and the K rows the kernel used. *)
ArenaAfter(artifact, plan, shape, rows, prefix, n) ==
  IF plan \in PackingPlans
  THEN Repacked(ArenaFor(artifact, plan), LayoutOf(plan, shape, n), rows, prefix, n)
  ELSE ArenaFor(artifact, plan)

RowsUsed(artifact, plan, shape, rows, prefix, n) ==
  IF plan \in PackingPlans
  THEN Given(Repacked(ArenaFor(artifact, plan), LayoutOf(plan, shape, n),
                      rows, prefix, n).rows, n)
  ELSE Given(rows, n)

-----------------------------------------------------------------------------
(* The caller. *)

(* A row of a held buffer is written: beyond the covered rows this is how a
   decode stream grows, below them it is an edit in place. *)
WriteRow(a, r, v) ==
  /\ a \in owned
  /\ mem' = [mem EXCEPT ![a][r] = v]
  /\ dirty' = [dirty EXCEPT ![a] = @ \/ r <= covered[a]]
  /\ UNCHANGED <<owned, covered, executorVars, runtimeVars, historyVars>>

(* The last reference goes: what the buffer held is nobody's from here on,
   even while the remembered state still pins its address. *)
Drop(a) ==
  /\ a \in owned
  /\ owned' = owned \ {a}
  /\ mem' = [mem EXCEPT ![a] = NoRows]
  /\ covered' = [covered EXCEPT ![a] = 0]
  /\ dirty' = [dirty EXCEPT ![a] = FALSE]
  /\ UNCHANGED <<executorVars, runtimeVars, historyVars>>

(* A new buffer at an address nothing references, with any contents. *)
Allocate(a, rows) ==
  /\ a \notin owned
  /\ ~Pinned(a)
  /\ owned' = owned \cup {a}
  /\ mem' = [mem EXCEPT ![a] = rows]
  /\ UNCHANGED <<covered, dirty, executorVars, runtimeVars, historyVars>>

(* The documented contract: rows a stream has covered are not edited in
   place while its length later grows. *)
AppendOnly(a, n) == dirty[a] => n <= covered[a]

-----------------------------------------------------------------------------
(* The runtime: one native run per step. *)

(* Mutant: the padded stride is remembered in place of the length. *)
RememberablePadded(plan, a, shape, n) ==
  IF plan \in PackingPlans
  THEN [stream |-> <<plan, a, shape>>, skv |-> PackedSkv(n, TileK[plan]),
        seq |-> arenaSeq + 1]
  ELSE kvPacked

Rememberable(plan, a, shape, n) ==
  IF plan \in PackingPlans
  THEN [stream |-> <<plan, a, shape>>, skv |-> n, seq |-> arenaSeq + 1]
  ELSE kvPacked

(* A kv_cache call of a Parallel operator: Runtime._run_cached. *)
RunStream(artifact, plan, a, shape, n) ==
  LET prefix == PackedPrefix(plan, a, shape, n)
  IN  /\ arenaSeq < MaxSeq
      /\ a \in owned
      /\ AppendOnly(a, n)
      /\ TakeTemplate(artifact, plan)
      /\ arena' = ArenaAfter(artifact, plan, shape, mem[a], prefix, n)
      /\ arenaSeq' = arenaSeq + 1
      /\ kvPacked' = Rememberable(plan, a, shape, n)
      /\ lastNative' = [stream |-> <<plan, a, shape>>, len |-> n, prefix |-> prefix]
      /\ suspect' = (suspect /\ prefix # 0)
      /\ served' = [used |-> RowsUsed(artifact, plan, shape, mem[a], prefix, n),
                    given |-> Given(mem[a], n), suspect |-> suspect']
      /\ covered' = [covered EXCEPT ![a] = n]
      /\ dirty' = [dirty EXCEPT ![a] = FALSE]
      /\ UNCHANGED <<mem, owned, raises>>

(* Any other call through _run_cached: it packs from row 0, or not at all,
   and leaves the remembered state in place. *)
RunPlain(artifact, plan, a, shape, n) ==
  /\ arenaSeq < MaxSeq
  /\ a \in owned
  /\ TakeTemplate(artifact, plan)
  /\ arena' = ArenaAfter(artifact, plan, shape, mem[a], 0, n)
  /\ arenaSeq' = arenaSeq + 1
  /\ lastNative' = NotAStream
  /\ suspect' = FALSE
  /\ served' = [used |-> RowsUsed(artifact, plan, shape, mem[a], 0, n),
                given |-> Given(mem[a], n), suspect |-> FALSE]
  /\ UNCHANGED <<callerVars, kvPacked, raises>>

(* Runtime._run_plan, a tuning sample.  Growing-KV calls are sampled on the
   zero tensors of their bucket, other calls on their own K; a steady-state
   sample claims every row is packed already.  Nothing is returned. *)
SampleLength(onBucket, n) == IF onBucket THEN KvBucket(n, BucketUnit) ELSE n

RunPlan(artifact, plan, a, shape, n, onBucket, steady) ==
  LET rows == IF onBucket THEN NoRows ELSE mem[a]
      length == SampleLength(onBucket, n)
      prefix == IF steady THEN length ELSE 0
  IN  /\ arenaSeq < MaxSeq
      /\ a \in owned
      /\ steady => plan \in PackingPlans
      /\ TakeTemplate(artifact, plan)
      /\ arena' = ArenaAfter(artifact, plan, shape, rows, prefix, length)
      /\ arenaSeq' = arenaSeq + 1
      /\ lastNative' = NotAStream
      /\ suspect' = FALSE
      /\ UNCHANGED <<callerVars, kvPacked, raises, served>>

(***************************************************************************)
(* Executor.run raises: mapping the new arena fails after the old one was  *)
(* closed, the kernel rejects the call before it writes (status < 0), or   *)
(* it reports an affinity error after packing and computing (status 1).    *)
(***************************************************************************)
RunRaises(kind, artifact, plan, shape, rows, prefix, n) ==
  LET lost == kind = "arena"
  IN  /\ lost => NeedsArena(artifact, plan)
      /\ IF lost
         THEN arenaKey' = NoPlan /\ templates' = CloseTemplates
         ELSE TakeTemplate(artifact, plan)
      /\ arena' = IF kind = "after_pack"
                  THEN ArenaAfter(artifact, plan, shape, rows, prefix, n)
                  ELSE ArenaFor(artifact, plan)
      /\ raises < MaxRaises
      /\ raises' = raises + 1
      /\ suspect' = TRUE

(* The exception passes the lines that count the run and remember the stream. *)
FailedStream(kind, artifact, plan, a, shape, n) ==
  LET prefix == PackedPrefix(plan, a, shape, n)
  IN  /\ a \in owned
      /\ AppendOnly(a, n)
      /\ RunRaises(kind, artifact, plan, shape, mem[a], prefix, n)
      /\ lastNative' = [stream |-> <<plan, a, shape>>, len |-> n, prefix |-> prefix]
      /\ UNCHANGED <<callerVars, runtimeVars, served>>

(* A plain call (on its own K) or a tuning sample (on zeros) that raises. *)
FailedPlain(kind, artifact, plan, a, shape, n, rows) ==
  /\ a \in owned
  /\ RunRaises(kind, artifact, plan, shape, rows, 0, n)
  /\ lastNative' = NotAStream
  /\ UNCHANGED <<callerVars, runtimeVars, served>>

-----------------------------------------------------------------------------
Init ==
  /\ mem = [a \in Addrs |-> NoRows]
  /\ owned = {}
  /\ covered = [a \in Addrs |-> 0]
  /\ dirty = [a \in Addrs |-> FALSE]
  /\ arenaKey = NoPlan
  /\ arena = FreshArena
  /\ templates = {}
  /\ arenaSeq = 0
  /\ kvPacked = NoState
  /\ lastNative = NotAStream
  /\ suspect = FALSE
  /\ raises = 0
  /\ served = [used |-> NoRows, given |-> NoRows, suspect |-> FALSE]

Caller ==
  \E a \in Addrs :
    \/ \E r \in Rows, v \in Vals : WriteRow(a, r, v)
    \/ Drop(a)
    \/ \E rows \in [Rows -> Vals] : Allocate(a, rows)

Native ==
  \E artifact \in Artifacts, plan \in Plans, a \in Addrs, shape \in Shapes, n \in Rows :
    \/ RunStream(artifact, plan, a, shape, n)
    \/ RunPlain(artifact, plan, a, shape, n)
    \/ \E onBucket, steady \in BOOLEAN :
         RunPlan(artifact, plan, a, shape, n, onBucket, steady)
    \/ \E kind \in Failures :
         \/ FailedStream(kind, artifact, plan, a, shape, n)
         \/ \E rows \in {mem[a], NoRows} :
              FailedPlain(kind, artifact, plan, a, shape, n, rows)

Next == Caller \/ Native

Spec == Init /\ [][Next]_vars

-----------------------------------------------------------------------------
(* Every variable stays in its range: the types of the Runtime and Executor
   fields this module names. *)
TypeOK ==
  /\ mem \in [Addrs -> [Rows -> Cells]]
  /\ owned \subseteq Addrs
  /\ covered \in [Addrs -> Nat]
  /\ dirty \in [Addrs -> BOOLEAN]
  /\ arenaKey \in Plans \cup {NoPlan}
  /\ arena.rows \in [Rows -> Cells]
  /\ DOMAIN arena = {"layout", "rows"}
  /\ templates \subseteq Artifacts \X Plans
  /\ arenaSeq \in Nat
  /\ kvPacked \in States \cup {NoState}
  /\ lastNative \in [stream : Streams \cup {NoStream}, len : Nat, prefix : Nat]
  /\ suspect \in BOOLEAN
  /\ raises \in Nat
  /\ served \in [used : [Rows -> Cells], given : [Rows -> Cells], suspect : BOOLEAN]

(* A call that answers has attended to the K it was given: no row read from
   the arena is a row of another stream, another layout, a tuning sample or
   an earlier state of the buffer (Runtime._packed_prefix, Executor.run).
   Excepted is a call that reuses a prefix after a run that raised, with no
   full pack in between that was counted. *)
ServedCurrentK == served.suspect \/ served.used = served.given

(* The prebuilt pointer arrays never outlive the mapping they point into:
   all of them belong to the plan whose arena is open (Executor.close). *)
TemplatesLive == \A t \in templates : t[2] = arenaKey

(* While the remembered state passes the sequence gate, the open arena holds
   its stream's rows in its layout, except rows the caller edited since.  A
   run that raised breaks this, the next full pack that counts restores it. *)
TrustedStateIsPacked ==
  (~suspect /\ kvPacked # NoState /\ kvPacked.seq = arenaSeq) =>
    LET plan == kvPacked.stream[1]
        a == kvPacked.stream[2]
    IN  /\ arenaKey = plan
        /\ arena.layout = LayoutOf(plan, kvPacked.stream[3], kvPacked.skv)
        /\ a \in owned => covered[a] = kvPacked.skv
        /\ (a \in owned /\ ~dirty[a]) => \A r \in 1..kvPacked.skv : arena.rows[r] = mem[a][r]

(* Reuse happens exactly when the previous native run was on the same stream,
   was shorter, and left the packed stride as it is: a changed buffer, a
   length that does not grow, or any intervening run that was counted packs
   in full. *)
Continues ==
  /\ lastNative'.stream = lastNative.stream
  /\ lastNative'.stream[1] \in PackingPlans
  /\ lastNative.len < lastNative'.len
  /\ LET tile == TileK[lastNative'.stream[1]]
     IN  PackedSkv(lastNative.len, tile) = PackedSkv(lastNative'.len, tile)

StreamRun == arenaSeq' # arenaSeq /\ lastNative'.stream # NoStream

ReuseOnlyContinuedStreams ==
  [][(StreamRun /\ ~suspect) =>
       lastNative'.prefix = IF Continues THEN lastNative.len ELSE 0]_vars

(* Seen by its caller, the runtime answers from the buffer it is given: the
   arena, the packed copies and their bookkeeping implement AttendedK, but
   for the calls a raised run has made suspect. *)
Attended == INSTANCE AttendedK
  WITH answer <- IF served.suspect THEN served.given ELSE served.used

ImplementsAttendedK == Attended!Spec

(* No answer is built on rows another run left: even when a call of another
   stream raised in between, the next call of this stream packs in full. *)
InterveningRunFallsBack ==
  [][(StreamRun /\ lastNative.stream # lastNative'.stream)
       => lastNative'.prefix = 0]_vars
=============================================================================
