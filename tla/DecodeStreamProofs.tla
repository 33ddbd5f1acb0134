------------------------- MODULE DecodeStreamProofs -------------------------
(***************************************************************************)
(* Proofs about DecodeStream, for every set of buffers, plans, tiles and   *)
(* lengths, and with runs that raise.                                      *)
(***************************************************************************)
EXTENDS DecodeStream, TLAPS

(* A remembered state is never newer than the run counter. *)
SeqBounded == kvPacked # NoState => kvPacked.seq <= arenaSeq

(* The remembered state passes the sequence gate exactly while the last
   native run was a kv_cache call of a packing plan, and then names it. *)
GateNamesLastRun ==
  ~suspect =>
    ((kvPacked # NoState /\ kvPacked.seq = arenaSeq) <=>
       (lastNative.stream # NoStream /\ lastNative.stream[1] \in PackingPlans))

HistoryMatches ==
  (~suspect /\ kvPacked # NoState /\ kvPacked.seq = arenaSeq) =>
    /\ lastNative.stream = kvPacked.stream
    /\ lastNative.len = kvPacked.skv

(* The inductive invariant: what the code maintains between two calls. *)
IInv ==
  /\ TypeOK
  /\ SeqBounded
  /\ TemplatesLive
  /\ TrustedStateIsPacked
  /\ GateNamesLastRun
  /\ HistoryMatches
  /\ ServedCurrentK

-----------------------------------------------------------------------------
(* The kernel leaves a well-formed region behind. *)
LEMMA ArenaAfterType ==
  ASSUME NEW artifact, NEW plan \in Plans, NEW shape, NEW n,
         NEW rows \in [Rows -> Cells], NEW prefix,
         arena.rows \in [Rows -> Cells], DOMAIN arena = {"layout", "rows"}
  PROVE  /\ ArenaAfter(artifact, plan, shape, rows, prefix, n).rows \in [Rows -> Cells]
         /\ DOMAIN ArenaAfter(artifact, plan, shape, rows, prefix, n) = {"layout", "rows"}
         /\ RowsUsed(artifact, plan, shape, rows, prefix, n) \in [Rows -> Cells]
<1>1. /\ ArenaFor(artifact, plan).rows \in [Rows -> Cells]
      /\ DOMAIN ArenaFor(artifact, plan) = {"layout", "rows"}
  BY DEF ArenaFor, FreshArena, Cells
<1> DEFINE R == Repacked(ArenaFor(artifact, plan), LayoutOf(plan, shape, n), rows, prefix, n)
<1>2. R.rows \in [Rows -> Cells] /\ DOMAIN R = {"layout", "rows"}
  BY <1>1 DEF Repacked, Cells
<1> HIDE DEF R
<1>3. Given(rows, n) \in [Rows -> Cells] /\ Given(R.rows, n) \in [Rows -> Cells]
  BY <1>2 DEF Given, Cells
<1>4. QED
  BY <1>1, <1>2, <1>3 DEF ArenaAfter, RowsUsed, R

(* A call that trusts no row of the arena reads exactly what it was given. *)
LEMMA FullPackIsCurrent ==
  ASSUME NEW artifact, NEW plan, NEW shape, NEW rows, NEW n \in Nat
  PROVE  RowsUsed(artifact, plan, shape, rows, 0, n) = Given(rows, n)
<1> DEFINE R == Repacked(ArenaFor(artifact, plan), LayoutOf(plan, shape, n), rows, 0, n)
<1>1. \A r \in Rows : r <= n => R.rows[r] = rows[r]
  BY DEF Repacked, Rows
<1>2. Given(R.rows, n) = Given(rows, n)
  BY <1>1, Zenon DEF Given
<1>3. QED
  BY <1>2 DEF RowsUsed

(* Rows kept from a region of the same layout are read back unchanged, and
   the suffix is packed from the buffer. *)
LEMMA SuffixPackIsCurrent ==
  ASSUME NEW artifact, NEW plan \in PackingPlans, NEW shape,
         NEW rows \in [Rows -> Cells], NEW n \in Nat, NEW prefix \in Nat,
         ~NeedsArena(artifact, plan),
         arena.layout = LayoutOf(plan, shape, n),
         \A r \in 1..prefix : arena.rows[r] = rows[r],
         prefix \leq n
  PROVE  /\ RowsUsed(artifact, plan, shape, rows, prefix, n) = Given(rows, n)
         /\ \A r \in Rows : r <= n =>
              ArenaAfter(artifact, plan, shape, rows, prefix, n).rows[r] = rows[r]
<1> DEFINE R == Repacked(ArenaFor(artifact, plan), LayoutOf(plan, shape, n), rows, prefix, n)
<1>1. ArenaFor(artifact, plan) = arena
  BY DEF ArenaFor
<1>2. ASSUME NEW r \in Rows, r <= n PROVE R.rows[r] = rows[r]
  <2>1. CASE r <= prefix
    <3>1. r \in 1..prefix
      BY <2>1 DEF Rows
    <3>2. R.rows[r] = arena.rows[r]
      BY <1>1, <2>1 DEF Repacked
    <3>3. QED
      BY <3>1, <3>2
  <2>2. CASE ~(r <= prefix)
    BY <1>2, <2>2 DEF Repacked
  <2>3. QED
    BY <2>1, <2>2
<1> HIDE DEF R
<1>3. Given(R.rows, n) = Given(rows, n)
  BY <1>2, Zenon DEF Given
<1>4. QED
  BY <1>2, <1>3 DEF RowsUsed, ArenaAfter, R

-----------------------------------------------------------------------------
(* The template step keeps every template on the open arena's plan. *)
LEMMA TakeTemplateLive ==
  ASSUME TemplatesLive, NEW artifact \in Artifacts, NEW plan \in Plans,
         arenaKey \in Plans \cup {NoPlan}, templates \subseteq Artifacts \X Plans,
         TakeTemplate(artifact, plan)
  PROVE  /\ arenaKey' = plan
         /\ templates' \subseteq Artifacts \X Plans
         /\ TemplatesLive'
<1>1. CASE NeedsArena(artifact, plan)
  BY <1>1 DEF TakeTemplate, CloseTemplates, TemplatesLive
<1>2. CASE ~NeedsArena(artifact, plan)
  <2>1. arenaKey = plan
    BY <1>2 DEF NeedsArena, TemplatesLive
  <2>2. QED
    BY <1>2, <2>1 DEF TakeTemplate, TemplatesLive
<1>3. QED
  BY <1>1, <1>2

(* While the arena belongs to a plan, a call of that plan keeps it. *)
LEMMA OpenArenaStays ==
  ASSUME NEW artifact, NEW plan, arenaKey = plan
  PROVE  ~NeedsArena(artifact, plan)
BY DEF NeedsArena

(* A trusted prefix is a prefix of the arena that equals the buffer. *)
LEMMA TrustedPrefix ==
  ASSUME IInv, ~suspect, NEW plan \in Plans, NEW a \in owned, NEW shape \in Shapes,
         NEW n \in Rows, AppendOnly(a, n), PackedPrefix(plan, a, shape, n) # 0
  PROVE  /\ plan \in PackingPlans
         /\ arenaKey = plan
         /\ arena.layout = LayoutOf(plan, shape, n)
         /\ PackedPrefix(plan, a, shape, n) \in Nat
         /\ PackedPrefix(plan, a, shape, n) <= n
         /\ \A r \in 1..PackedPrefix(plan, a, shape, n) : arena.rows[r] = mem[a][r]
<1> DEFINE prefix == PackedPrefix(plan, a, shape, n)
<1>1. /\ plan \in PackingPlans
      /\ kvPacked # NoState
      /\ kvPacked.stream = <<plan, a, shape>>
      /\ kvPacked.seq = arenaSeq
      /\ kvPacked.skv < n
      /\ PackedSkv(kvPacked.skv, TileK[plan]) = PackedSkv(n, TileK[plan])
      /\ prefix = kvPacked.skv
  BY DEF PackedPrefix
<1>2. kvPacked \in States
  BY <1>1 DEF IInv, TypeOK
<1>3. kvPacked.skv \in Nat
  BY <1>2 DEF States, Rows
<1>4. /\ kvPacked.stream[1] = plan
      /\ kvPacked.stream[2] = a
      /\ kvPacked.stream[3] = shape
  BY <1>1
<1>5. /\ arenaKey = plan
      /\ arena.layout = LayoutOf(plan, shape, kvPacked.skv)
      /\ covered[a] = kvPacked.skv
      /\ ~dirty[a] => \A r \in 1..kvPacked.skv : arena.rows[r] = mem[a][r]
  BY <1>1, <1>4 DEF IInv, TrustedStateIsPacked
<1>6. ~dirty[a]
  BY <1>1, <1>3, <1>5 DEF AppendOnly, Rows
<1>7. LayoutOf(plan, shape, kvPacked.skv) = LayoutOf(plan, shape, n)
  BY <1>1 DEF LayoutOf
<1>8. prefix \in Nat /\ prefix <= n
  BY <1>1, <1>3 DEF Rows
<1>9. QED
  BY <1>1, <1>5, <1>6, <1>7, <1>8

(* The step that matters: a kv_cache call keeps the invariant, whether it
   reuses the packed prefix or packs in full. *)
LEMMA RunStreamStep ==
  ASSUME IInv, NEW artifact \in Artifacts, NEW plan \in Plans, NEW a \in Addrs,
         NEW shape \in Shapes, NEW n \in Rows,
         RunStream(artifact, plan, a, shape, n)
  PROVE  IInv'
<1> DEFINE prefix == PackedPrefix(plan, a, shape, n)
<1> DEFINE s == <<plan, a, shape>>
<1> USE PlansAssumption, TileAssumption, SentinelAssumption
<1>1. TypeOK
  BY DEF IInv
<1>2. /\ n \in Nat
      /\ mem[a] \in [Rows -> Cells]
      /\ arena.rows \in [Rows -> Cells]
      /\ DOMAIN arena = {"layout", "rows"}
      /\ arenaSeq \in Nat
      /\ kvPacked # NoState => kvPacked \in States
      /\ s \in Streams
  BY <1>1 DEF TypeOK, Rows, Cells, Streams
<1>3. /\ AppendOnly(a, n)
      /\ TakeTemplate(artifact, plan)
      /\ arena' = ArenaAfter(artifact, plan, shape, mem[a], prefix, n)
      /\ arenaSeq' = arenaSeq + 1
      /\ kvPacked' = Rememberable(plan, a, shape, n)
      /\ lastNative' = [stream |-> s, len |-> n, prefix |-> prefix]
      /\ suspect' = (suspect /\ prefix # 0) /\ raises' = raises
      /\ served' = [used |-> RowsUsed(artifact, plan, shape, mem[a], prefix, n),
                    given |-> Given(mem[a], n), suspect |-> suspect']
      /\ covered' = [covered EXCEPT ![a] = n]
      /\ dirty' = [dirty EXCEPT ![a] = FALSE]
      /\ mem' = mem /\ owned' = owned
      /\ a \in owned
  BY DEF RunStream
<1>4. prefix \in Nat
  BY <1>2 DEF PackedPrefix, States, Rows
<1>5. arenaKey' = plan /\ templates' \subseteq Artifacts \X Plans /\ TemplatesLive'
  BY <1>1, <1>3, TakeTemplateLive DEF IInv, TypeOK
<1>6. ASSUME ~suspect'
      PROVE  /\ RowsUsed(artifact, plan, shape, mem[a], prefix, n) = Given(mem[a], n)
             /\ plan \in PackingPlans => \A r \in Rows : r <= n => arena'.rows[r] = mem[a][r]
  <2>1. CASE prefix = 0
    <3>1. RowsUsed(artifact, plan, shape, mem[a], prefix, n) = Given(mem[a], n)
      BY <1>2, <2>1, FullPackIsCurrent
    <3>2. ASSUME plan \in PackingPlans, NEW r \in Rows, r <= n
          PROVE  arena'.rows[r] = mem[a][r]
      <4>1. ~(r <= 0)
        BY DEF Rows
      <4>2. QED
        BY <1>3, <2>1, <3>2, <4>1 DEF ArenaAfter, Repacked
    <3>3. QED
      BY <3>1, <3>2
  <2>2. CASE prefix # 0
    <3>1. ~suspect
      BY <1>3, <1>6, <2>2
    <3>2. /\ plan \in PackingPlans
          /\ arenaKey = plan
          /\ arena.layout = LayoutOf(plan, shape, n)
          /\ prefix <= n
          /\ \A r \in 1..prefix : arena.rows[r] = mem[a][r]
      BY <1>3, <2>2, <3>1, TrustedPrefix
    <3>3. ~NeedsArena(artifact, plan)
      BY <3>2 DEF NeedsArena
    <3>4. QED
      BY <1>2, <1>3, <1>4, <3>2, <3>3, SuffixPackIsCurrent
  <2>3. QED
    BY <2>1, <2>2
<1> HIDE DEF prefix
<1>7. TypeOK'
  <2>1. /\ arena'.rows \in [Rows -> Cells]
        /\ DOMAIN arena' = {"layout", "rows"}
        /\ RowsUsed(artifact, plan, shape, mem[a], prefix, n) \in [Rows -> Cells]
    <3>1. /\ ArenaAfter(artifact, plan, shape, mem[a], prefix, n).rows \in [Rows -> Cells]
          /\ DOMAIN ArenaAfter(artifact, plan, shape, mem[a], prefix, n) = {"layout", "rows"}
          /\ RowsUsed(artifact, plan, shape, mem[a], prefix, n) \in [Rows -> Cells]
      BY <1>2, ArenaAfterType
    <3>2. QED
      BY <1>3, <3>1
  <2>2. kvPacked' \in States \cup {NoState}
    BY <1>1, <1>2, <1>3 DEF Rememberable, States, TypeOK
  <2>3. served' \in [used : [Rows -> Cells], given : [Rows -> Cells], suspect : BOOLEAN]
    <3>1. Given(mem[a], n) \in [Rows -> Cells]
      BY <1>2 DEF Given, Cells
    <3>2. suspect' \in BOOLEAN
      BY <1>1, <1>3 DEF TypeOK
    <3>3. QED
      BY <1>3, <2>1, <3>1, <3>2
  <2>4. lastNative' \in [stream : Streams \cup {NoStream}, len : Nat, prefix : Nat]
    BY <1>2, <1>3, <1>4
  <2>5. covered' \in [Addrs -> Nat] /\ dirty' \in [Addrs -> BOOLEAN]
    BY <1>1, <1>2, <1>3 DEF TypeOK
  <2>6. QED
    BY <1>1, <1>2, <1>3, <1>5, <2>1, <2>2, <2>3, <2>4, <2>5 DEF TypeOK
<1>8. SeqBounded'
  <2>1. kvPacked # NoState => kvPacked.seq \in Nat
    BY <1>2 DEF States
  <2>2. CASE plan \in PackingPlans
    BY <1>2, <1>3, <2>2 DEF Rememberable, SeqBounded
  <2>3. CASE plan \notin PackingPlans
    <3>1. kvPacked' = kvPacked
      BY <1>3, <2>3 DEF Rememberable
    <3>2. QED
      BY <1>2, <1>3, <2>1, <3>1 DEF IInv, SeqBounded
  <2>4. QED
    BY <2>2, <2>3
<1>9. CASE suspect'
  BY <1>3, <1>5, <1>7, <1>8, <1>9
     DEF IInv, TrustedStateIsPacked, GateNamesLastRun, HistoryMatches, ServedCurrentK
<1>10. CASE ~suspect' /\ plan \in PackingPlans
  <2>1. kvPacked' = [stream |-> s, skv |-> n, seq |-> arenaSeq + 1]
    BY <1>3, <1>10 DEF Rememberable
  <2>2. kvPacked' # NoState
    BY <1>2, <2>1 DEF States
  <2>3. arena'.layout = LayoutOf(plan, shape, n)
    BY <1>3, <1>10 DEF ArenaAfter, Repacked
  <2>4. covered'[a] = n /\ \A r \in 1..n : arena'.rows[r] = mem'[a][r]
    <3>1. covered'[a] = n
      BY <1>1, <1>3 DEF TypeOK
    <3>2. ASSUME NEW r \in 1..n PROVE r \in Rows /\ r <= n
      BY <1>2, BoundAssumption DEF Rows
    <3>3. QED
      BY <1>3, <1>6, <1>10, <3>1, <3>2
  <2>5. TrustedStateIsPacked'
    BY <1>5, <2>1, <2>3, <2>4 DEF TrustedStateIsPacked, LayoutOf
  <2>6. GateNamesLastRun' /\ HistoryMatches'
    <3>1. s # NoStream /\ s[1] \in PackingPlans
      BY <1>2, <1>10
    <3>2. QED
      BY <1>3, <2>1, <2>2, <3>1 DEF GateNamesLastRun, HistoryMatches
  <2>7. QED
    BY <1>3, <1>5, <1>6, <1>7, <1>8, <1>10, <2>5, <2>6 DEF IInv, ServedCurrentK
<1>11. CASE ~suspect' /\ plan \notin PackingPlans
  <2>1. kvPacked' = kvPacked
    BY <1>3, <1>11 DEF Rememberable
  <2>2. kvPacked' # NoState => kvPacked'.seq \in Nat /\ kvPacked'.seq < arenaSeq'
    BY <1>2, <1>3, <2>1 DEF IInv, SeqBounded, States
  <2>3. ~(kvPacked' # NoState /\ kvPacked'.seq = arenaSeq')
    BY <1>2, <1>3, <2>2
  <2>4. ~(lastNative'.stream[1] \in PackingPlans)
    BY <1>3, <1>11
  <2>5. QED
    BY <1>3, <1>5, <1>6, <1>7, <1>8, <1>11, <2>3, <2>4
       DEF IInv, TrustedStateIsPacked, GateNamesLastRun, HistoryMatches, ServedCurrentK
<1>12. QED
  BY <1>9, <1>10, <1>11

(* A run that counts itself and leaves the remembered state alone closes the
   gate: this covers plain calls and tuning samples. *)
LEMMA CountedRunStep ==
  ASSUME IInv, NEW artifact \in Artifacts, NEW plan \in Plans, NEW shape \in Shapes,
         NEW n, NEW rows \in [Rows -> Cells], NEW prefix,
         TakeTemplate(artifact, plan),
         arena' = ArenaAfter(artifact, plan, shape, rows, prefix, n),
         arenaSeq' = arenaSeq + 1,
         lastNative' = NotAStream,
         suspect' = FALSE,
         served' \in [used : [Rows -> Cells], given : [Rows -> Cells], suspect : BOOLEAN],
         ServedCurrentK',
         UNCHANGED <<callerVars, kvPacked, raises>>
  PROVE  IInv'
<1>1. TypeOK
  BY DEF IInv
<1>2. /\ arena.rows \in [Rows -> Cells]
      /\ DOMAIN arena = {"layout", "rows"}
      /\ arenaSeq \in Nat
      /\ kvPacked # NoState => kvPacked.seq \in Nat
  BY <1>1 DEF TypeOK, States
<1>3. arenaKey' = plan /\ templates' \subseteq Artifacts \X Plans /\ TemplatesLive'
  BY <1>1, TakeTemplateLive DEF IInv, TypeOK
<1>4. arena'.rows \in [Rows -> Cells] /\ DOMAIN arena' = {"layout", "rows"}
  <2>1. /\ ArenaAfter(artifact, plan, shape, rows, prefix, n).rows \in [Rows -> Cells]
        /\ DOMAIN ArenaAfter(artifact, plan, shape, rows, prefix, n) = {"layout", "rows"}
        /\ RowsUsed(artifact, plan, shape, rows, prefix, n) \in [Rows -> Cells]
    BY <1>2, ArenaAfterType
  <2>2. QED
    BY <2>1
<1>5. /\ lastNative'.stream = NoStream
      /\ lastNative' \in [stream : Streams \cup {NoStream}, len : Nat, prefix : Nat]
  BY DEF NotAStream
<1>6. TypeOK'
  <2>1. /\ mem' = mem /\ owned' = owned /\ covered' = covered /\ dirty' = dirty
        /\ kvPacked' = kvPacked /\ raises' = raises
    BY DEF callerVars
  <2>2. arenaKey' \in Plans \cup {NoPlan}
    BY <1>3
  <2>3. arenaSeq' \in Nat
    BY <1>2
  <2>4. suspect' \in BOOLEAN
    BY Zenon
  <2>5. QED
    BY <1>1, <1>3, <1>4, <1>5, <2>1, <2>2, <2>3, <2>4 DEF TypeOK
<1>7. ~(kvPacked' # NoState /\ kvPacked'.seq = arenaSeq') /\ SeqBounded'
  BY <1>2 DEF IInv, SeqBounded
<1>8. QED
  BY <1>3, <1>5, <1>6, <1>7
     DEF IInv, TrustedStateIsPacked, GateNamesLastRun, HistoryMatches

LEMMA RunPlainStep ==
  ASSUME IInv, NEW artifact \in Artifacts, NEW plan \in Plans, NEW a \in Addrs,
         NEW shape \in Shapes, NEW n \in Rows,
         RunPlain(artifact, plan, a, shape, n)
  PROVE  IInv'
<1>1. /\ n \in Nat
      /\ mem[a] \in [Rows -> Cells]
      /\ arena.rows \in [Rows -> Cells]
      /\ DOMAIN arena = {"layout", "rows"}
  BY DEF IInv, TypeOK, Rows, Cells
<1>2. /\ RowsUsed(artifact, plan, shape, mem[a], 0, n) = Given(mem[a], n)
      /\ RowsUsed(artifact, plan, shape, mem[a], 0, n) \in [Rows -> Cells]
  BY <1>1, FullPackIsCurrent, ArenaAfterType
<1>3. /\ served' \in [used : [Rows -> Cells], given : [Rows -> Cells], suspect : BOOLEAN]
      /\ ServedCurrentK'
  BY <1>2 DEF RunPlain, ServedCurrentK
<1>4. QED
  BY <1>1, <1>3, CountedRunStep DEF RunPlain

LEMMA RunPlanStep ==
  ASSUME IInv, NEW artifact \in Artifacts, NEW plan \in Plans, NEW a \in Addrs,
         NEW shape \in Shapes, NEW n \in Rows,
         NEW onBucket \in BOOLEAN, NEW steady \in BOOLEAN,
         RunPlan(artifact, plan, a, shape, n, onBucket, steady)
  PROVE  IInv'
<1> DEFINE rows == IF onBucket THEN NoRows ELSE mem[a]
<1> DEFINE length == SampleLength(onBucket, n)
<1> DEFINE prefix == IF steady THEN length ELSE 0
<1>1. rows \in [Rows -> Cells]
  BY DEF IInv, TypeOK, NoRows, Cells
<1>2. /\ TakeTemplate(artifact, plan)
      /\ arena' = ArenaAfter(artifact, plan, shape, rows, prefix, length)
      /\ arenaSeq' = arenaSeq + 1
      /\ lastNative' = NotAStream
      /\ suspect' = FALSE
      /\ UNCHANGED <<callerVars, kvPacked, raises, served>>
  BY DEF RunPlan
<1>3. /\ served' \in [used : [Rows -> Cells], given : [Rows -> Cells], suspect : BOOLEAN]
      /\ ServedCurrentK'
      /\ UNCHANGED <<callerVars, kvPacked, raises>>
  BY <1>2 DEF IInv, TypeOK, ServedCurrentK
<1> HIDE DEF rows, prefix
<1>4. QED
  BY <1>1, <1>2, <1>3, CountedRunStep

(* A run that raises leaves well-formed state and no stale template behind;
   what the arena holds is under suspicion from here on. *)
LEMMA RaisingStep ==
  ASSUME IInv, NEW kind, NEW artifact \in Artifacts, NEW plan \in Plans,
         NEW shape \in Shapes, NEW rows \in [Rows -> Cells], NEW prefix, NEW n,
         RunRaises(kind, artifact, plan, shape, rows, prefix, n),
         lastNative' \in [stream : Streams \cup {NoStream}, len : Nat, prefix : Nat],
         UNCHANGED <<callerVars, runtimeVars, served>>
  PROVE  IInv'
<1>1. TypeOK
  BY DEF IInv
<1>2. arena.rows \in [Rows -> Cells] /\ DOMAIN arena = {"layout", "rows"}
  BY <1>1 DEF TypeOK
<1>3. /\ arenaKey' \in Plans \cup {NoPlan}
      /\ templates' \subseteq Artifacts \X Plans
      /\ TemplatesLive'
  <2>1. CASE kind = "arena"
    BY <2>1 DEF RunRaises, CloseTemplates, TemplatesLive
  <2>2. CASE kind # "arena"
    <3>1. TakeTemplate(artifact, plan)
      BY <2>2 DEF RunRaises
    <3>2. QED
      BY <1>1, <3>1, TakeTemplateLive DEF IInv, TypeOK
  <2>3. QED
    BY <2>1, <2>2
<1>4. arena'.rows \in [Rows -> Cells] /\ DOMAIN arena' = {"layout", "rows"}
  <2>1. /\ ArenaAfter(artifact, plan, shape, rows, prefix, n).rows \in [Rows -> Cells]
        /\ DOMAIN ArenaAfter(artifact, plan, shape, rows, prefix, n) = {"layout", "rows"}
        /\ RowsUsed(artifact, plan, shape, rows, prefix, n) \in [Rows -> Cells]
    BY <1>2, ArenaAfterType
  <2>2. /\ ArenaFor(artifact, plan).rows \in [Rows -> Cells]
        /\ DOMAIN ArenaFor(artifact, plan) = {"layout", "rows"}
    BY <1>2 DEF ArenaFor, FreshArena, Cells
  <2>3. QED
    BY <2>1, <2>2 DEF RunRaises
<1>5. suspect' = TRUE /\ raises' \in Nat
  BY <1>1 DEF RunRaises, TypeOK
<1>6. TypeOK'
  BY <1>1, <1>3, <1>4, <1>5 DEF TypeOK, callerVars, runtimeVars
<1>7. QED
  BY <1>3, <1>5, <1>6 DEF IInv, SeqBounded, TrustedStateIsPacked, GateNamesLastRun,
                          HistoryMatches, ServedCurrentK, runtimeVars

LEMMA FailedStreamStep ==
  ASSUME IInv, NEW kind, NEW artifact \in Artifacts, NEW plan \in Plans, NEW a \in Addrs,
         NEW shape \in Shapes, NEW n \in Rows,
         FailedStream(kind, artifact, plan, a, shape, n)
  PROVE  IInv'
<1> DEFINE prefix == PackedPrefix(plan, a, shape, n)
<1>1. mem[a] \in [Rows -> Cells] /\ n \in Nat /\ <<plan, a, shape>> \in Streams
  BY DEF IInv, TypeOK, Rows, Streams
<1>2. prefix \in Nat
  BY DEF IInv, TypeOK, PackedPrefix, States, Rows
<1>3. /\ RunRaises(kind, artifact, plan, shape, mem[a], prefix, n)
      /\ lastNative' = [stream |-> <<plan, a, shape>>, len |-> n, prefix |-> prefix]
      /\ UNCHANGED <<callerVars, runtimeVars, served>>
  BY DEF FailedStream
<1> HIDE DEF prefix
<1>4. lastNative' \in [stream : Streams \cup {NoStream}, len : Nat, prefix : Nat]
  BY <1>1, <1>2, <1>3
<1>5. QED
  BY <1>1, <1>3, <1>4, RaisingStep

LEMMA FailedPlainStep ==
  ASSUME IInv, NEW kind, NEW artifact \in Artifacts, NEW plan \in Plans, NEW a \in Addrs,
         NEW shape \in Shapes, NEW n \in Rows, NEW rows \in {mem[a], NoRows},
         FailedPlain(kind, artifact, plan, a, shape, n, rows)
  PROVE  IInv'
<1>1. rows \in [Rows -> Cells]
  BY DEF IInv, TypeOK, NoRows, Cells
<1>2. lastNative' \in [stream : Streams \cup {NoStream}, len : Nat, prefix : Nat]
  BY DEF FailedPlain, NotAStream
<1>3. QED
  BY <1>1, <1>2, RaisingStep DEF FailedPlain

-----------------------------------------------------------------------------
(* A write into the buffer a trusted state names marks it dirty as soon as
   it touches a packed row. *)
LEMMA WriteRowStep ==
  ASSUME IInv, NEW a \in Addrs, NEW r \in Rows, NEW v \in Vals, WriteRow(a, r, v)
  PROVE  IInv'
<1> USE DEF WriteRow, executorVars, runtimeVars, historyVars
<1>1. TypeOK'
  BY DEF IInv, TypeOK, Cells
<1>2. TrustedStateIsPacked'
  <2> SUFFICES ASSUME ~suspect, kvPacked # NoState, kvPacked.seq = arenaSeq
               PROVE  LET plan == kvPacked.stream[1]
                          b == kvPacked.stream[2]
                      IN  /\ arenaKey = plan
                          /\ arena.layout = LayoutOf(plan, kvPacked.stream[3], kvPacked.skv)
                          /\ b \in owned => covered[b] = kvPacked.skv
                          /\ (b \in owned /\ ~dirty'[b]) =>
                               \A i \in 1..kvPacked.skv : arena.rows[i] = mem'[b][i]
    BY DEF TrustedStateIsPacked
  <2> DEFINE b == kvPacked.stream[2]
  <2>1. /\ arenaKey = kvPacked.stream[1]
        /\ arena.layout = LayoutOf(kvPacked.stream[1], kvPacked.stream[3], kvPacked.skv)
        /\ b \in owned => covered[b] = kvPacked.skv
        /\ (b \in owned /\ ~dirty[b]) => \A i \in 1..kvPacked.skv : arena.rows[i] = mem[b][i]
    BY DEF IInv, TrustedStateIsPacked
  <2>2. b \in Addrs /\ kvPacked.skv \in Nat /\ r \in Nat
    BY DEF IInv, TypeOK, States, Streams, Rows
  <2>3. CASE b # a \/ kvPacked.skv < r
    <3>1. dirty[b] => dirty'[b]
      BY <2>2 DEF IInv, TypeOK
    <3>2. \A i \in 1..kvPacked.skv : mem'[b][i] = mem[b][i]
      BY <2>2, <2>3 DEF IInv, TypeOK, Rows
    <3>3. QED
      BY <2>1, <3>1, <3>2
  <2>4. CASE b = a /\ r <= kvPacked.skv
    BY <2>1, <2>2, <2>4 DEF IInv, TypeOK
  <2>5. QED
    BY <2>2, <2>3, <2>4
<1>3. QED
  BY <1>1, <1>2 DEF IInv, SeqBounded, TemplatesLive, GateNamesLastRun,
                    HistoryMatches, ServedCurrentK

(* What is remembered of a dropped buffer claims nothing about its rows. *)
LEMMA DropStep ==
  ASSUME IInv, NEW a \in Addrs, Drop(a)
  PROVE  IInv'
<1> USE DEF Drop, executorVars, runtimeVars, historyVars
<1>1. TypeOK'
  BY DEF IInv, TypeOK, NoRows, Cells
<1>2. a \notin owned'
  OBVIOUS
<1>3. \A b \in owned' : covered'[b] = covered[b] /\ dirty'[b] = dirty[b] /\ mem'[b] = mem[b]
  BY DEF IInv, TypeOK
<1>4. TrustedStateIsPacked'
  BY <1>2, <1>3 DEF IInv, TrustedStateIsPacked
<1>5. QED
  BY <1>1, <1>4 DEF IInv, SeqBounded, TemplatesLive, GateNamesLastRun,
                    HistoryMatches, ServedCurrentK

(* A new buffer never lands on the address the remembered state pins. *)
LEMMA AllocateStep ==
  ASSUME IInv, NEW a \in Addrs, NEW rows \in [Rows -> Vals], Allocate(a, rows)
  PROVE  IInv'
<1> USE DEF Allocate, executorVars, runtimeVars, historyVars
<1>1. TypeOK'
  BY DEF IInv, TypeOK, Cells
<1>2. kvPacked # NoState => kvPacked.stream[2] # a
  BY DEF Pinned
<1>3. kvPacked # NoState =>
        /\ kvPacked.stream[2] \in owned' => kvPacked.stream[2] \in owned
        /\ covered'[kvPacked.stream[2]] = covered[kvPacked.stream[2]]
        /\ dirty'[kvPacked.stream[2]] = dirty[kvPacked.stream[2]]
        /\ mem'[kvPacked.stream[2]] = mem[kvPacked.stream[2]]
  BY <1>2 DEF IInv, TypeOK, States, Streams
<1>4. TrustedStateIsPacked'
  BY <1>3 DEF IInv, TrustedStateIsPacked
<1>5. QED
  BY <1>1, <1>4 DEF IInv, SeqBounded, TemplatesLive, GateNamesLastRun,
                    HistoryMatches, ServedCurrentK

-----------------------------------------------------------------------------
LEMMA InitIInv == Init => IInv
<1> SUFFICES ASSUME Init PROVE IInv
  OBVIOUS
<1>1. TypeOK
  BY DEF Init, TypeOK, FreshArena, Cells, NoRows, NotAStream
<1>2. QED
  BY <1>1 DEF Init, IInv, SeqBounded, TemplatesLive, TrustedStateIsPacked,
              GateNamesLastRun, HistoryMatches, ServedCurrentK, NotAStream

LEMMA NextIInv ==
  ASSUME IInv, [Next]_vars
  PROVE  IInv'
<1>1. CASE Caller
  <2>1. PICK a \in Addrs :
          \/ \E r \in Rows, v \in Vals : WriteRow(a, r, v)
          \/ Drop(a)
          \/ \E rows \in [Rows -> Vals] : Allocate(a, rows)
    BY <1>1 DEF Caller
  <2>2. QED
    BY <2>1, WriteRowStep, DropStep, AllocateStep
<1>2. CASE Native
  <2>1. PICK artifact \in Artifacts, plan \in Plans, a \in Addrs, shape \in Shapes, n \in Rows :
          \/ RunStream(artifact, plan, a, shape, n)
          \/ RunPlain(artifact, plan, a, shape, n)
          \/ \E onBucket, steady \in BOOLEAN :
               RunPlan(artifact, plan, a, shape, n, onBucket, steady)
          \/ \E kind \in Failures :
               \/ FailedStream(kind, artifact, plan, a, shape, n)
               \/ \E rows \in {mem[a], NoRows} :
                    FailedPlain(kind, artifact, plan, a, shape, n, rows)
    BY <1>2, Zenon DEF Native
  <2>2. CASE RunStream(artifact, plan, a, shape, n)
    BY <2>2, RunStreamStep
  <2>3. CASE RunPlain(artifact, plan, a, shape, n)
    BY <2>3, RunPlainStep
  <2>4. CASE \E onBucket, steady \in BOOLEAN :
               RunPlan(artifact, plan, a, shape, n, onBucket, steady)
    BY <2>4, RunPlanStep
  <2>5. CASE \E kind \in Failures : FailedStream(kind, artifact, plan, a, shape, n)
    BY <2>5, FailedStreamStep
  <2>6. CASE \E kind \in Failures : \E rows \in {mem[a], NoRows} :
               FailedPlain(kind, artifact, plan, a, shape, n, rows)
    BY <2>6, FailedPlainStep
  <2>7. QED
    BY <2>1, <2>2, <2>3, <2>4, <2>5, <2>6
<1>3. CASE UNCHANGED vars
  BY <1>3 DEF vars, callerVars, executorVars, runtimeVars, historyVars, IInv, TypeOK, SeqBounded,
              TemplatesLive, TrustedStateIsPacked, GateNamesLastRun, HistoryMatches,
              ServedCurrentK
<1>4. QED
  BY <1>1, <1>2, <1>3 DEF Next

(* The invariant of the runtime's packed-K bookkeeping holds in every
   behaviour, whatever runs raise in it. *)
THEOREM StreamInvariant ==
  Spec => []IInv
<1>1. IInv /\ [Next]_vars => IInv'
  BY NextIInv
<1>2. QED
  BY <1>1, InitIInv, PTL DEF Spec

(* Type correctness of the Runtime and Executor state. *)
THEOREM TypeCorrect ==
  Spec => []TypeOK
<1>1. IInv => TypeOK
  BY DEF IInv
<1>2. QED
  BY <1>1, StreamInvariant, PTL

(* Every answered call attended to the K rows it was given, whatever other
   streams, plans and tuning samples ran before it; of the calls behind a run
   that raised, those that packed in full or came after one that did. *)
THEOREM AnswersAreCurrent ==
  Spec => []ServedCurrentK
<1>1. IInv => ServedCurrentK
  BY DEF IInv
<1>2. QED
  BY <1>1, StreamInvariant, PTL

(* No template outlives the arena it points into: closing an arena takes the
   templates made in it along. *)
THEOREM TemplatesStayLive ==
  Spec => []TemplatesLive
<1>1. IInv => TemplatesLive
  BY DEF IInv
<1>2. QED
  BY <1>1, StreamInvariant, PTL

(* A state that would pass the sequence gate describes what the live arena
   holds, unless a run has raised since the last counted full pack. *)
THEOREM TrustIsEarned ==
  Spec => []TrustedStateIsPacked
<1>1. IInv => TrustedStateIsPacked
  BY DEF IInv
<1>2. QED
  BY <1>1, StreamInvariant, PTL

-----------------------------------------------------------------------------
(* _packed_prefix trusts rows exactly when the history says it should. *)
LEMMA PrefixFollowsHistory ==
  ASSUME IInv, NEW artifact \in Artifacts, NEW plan \in Plans, NEW a \in Addrs,
         NEW shape \in Shapes, NEW n \in Rows,
         RunStream(artifact, plan, a, shape, n)
  PROVE  ~suspect => lastNative'.prefix = IF Continues THEN lastNative.len ELSE 0
<1> SUFFICES ASSUME ~suspect
             PROVE  lastNative'.prefix = IF Continues THEN lastNative.len ELSE 0
  OBVIOUS
<1> DEFINE s == <<plan, a, shape>>
<1>1. /\ lastNative'.stream = s
      /\ lastNative'.stream[1] = plan
      /\ lastNative'.len = n
      /\ lastNative'.prefix = PackedPrefix(plan, a, shape, n)
  BY DEF RunStream
<1>2. s # NoStream
  BY SentinelAssumption DEF Streams
<1>3. CASE kvPacked # NoState /\ kvPacked.seq = arenaSeq
  <2>1. lastNative.stream = kvPacked.stream /\ lastNative.len = kvPacked.skv
    BY <1>3 DEF IInv, HistoryMatches
  <2>2. QED
    BY <1>1, <1>3, <2>1 DEF PackedPrefix, Continues
<1>4. CASE ~(kvPacked # NoState /\ kvPacked.seq = arenaSeq)
  <2>1. ~(lastNative.stream # NoStream /\ lastNative.stream[1] \in PackingPlans)
    BY <1>4 DEF IInv, GateNamesLastRun
  <2>2. ~Continues
    BY <1>1, <1>2, <2>1 DEF Continues
  <2>3. PackedPrefix(plan, a, shape, n) = 0
    BY <1>4 DEF PackedPrefix
  <2>4. QED
    BY <1>1, <2>2, <2>3
<1>5. QED
  BY <1>3, <1>4

(* A prefix is reused exactly when the previous native run was a shorter
   call on the same stream within the same padded stride. *)
THEOREM ReuseIsContinuation ==
  Spec => ReuseOnlyContinuedStreams
<1>1. ASSUME IInv, [Next]_vars
      PROVE  [(StreamRun /\ ~suspect) =>
                lastNative'.prefix = IF Continues THEN lastNative.len ELSE 0]_vars
  <2>1. SUFFICES ASSUME Next, StreamRun, ~suspect
                 PROVE  lastNative'.prefix = IF Continues THEN lastNative.len ELSE 0
    BY <1>1
  <2>2. arenaSeq' # arenaSeq /\ lastNative'.stream # NoStream
    BY <2>1 DEF StreamRun
  <2>3. ~Caller
    BY <2>2 DEF Caller, WriteRow, Drop, Allocate, runtimeVars
  <2>4. PICK artifact \in Artifacts, plan \in Plans, a \in Addrs, shape \in Shapes, n \in Rows :
          \/ RunStream(artifact, plan, a, shape, n)
          \/ RunPlain(artifact, plan, a, shape, n)
          \/ \E onBucket, steady \in BOOLEAN :
               RunPlan(artifact, plan, a, shape, n, onBucket, steady)
          \/ \E kind \in Failures :
               \/ FailedStream(kind, artifact, plan, a, shape, n)
               \/ \E rows \in {mem[a], NoRows} :
                    FailedPlain(kind, artifact, plan, a, shape, n, rows)
    BY <2>1, <2>3, Zenon DEF Next, Native
  <2>5. CASE RunStream(artifact, plan, a, shape, n)
    BY <1>1, <2>1, <2>5, PrefixFollowsHistory
  <2>6. CASE RunPlain(artifact, plan, a, shape, n)
    BY <2>2, <2>6 DEF RunPlain, NotAStream
  <2>7. CASE \E onBucket, steady \in BOOLEAN :
               RunPlan(artifact, plan, a, shape, n, onBucket, steady)
    BY <2>2, <2>7 DEF RunPlan, NotAStream
  <2>8. CASE \E kind \in Failures :
               \/ FailedStream(kind, artifact, plan, a, shape, n)
               \/ \E rows \in {mem[a], NoRows} :
                    FailedPlain(kind, artifact, plan, a, shape, n, rows)
    BY <2>2, <2>8 DEF FailedStream, FailedPlain, runtimeVars
  <2>9. QED
    BY <2>4, <2>5, <2>6, <2>7, <2>8
<1>2. QED
  BY <1>1, StreamInvariant, PTL DEF Spec, ReuseOnlyContinuedStreams

-----------------------------------------------------------------------------
LEMMA StepAttends ==
  ASSUME IInv, IInv', Next
  PROVE  [Attended!Next]_(Attended!vars)
<1> USE DEF Attended!Rows, Rows
<1>1. CASE Caller
  <2>1. PICK a \in Addrs :
          \/ \E r \in Rows, v \in Vals : WriteRow(a, r, v)
          \/ Drop(a)
          \/ \E rows \in [Rows -> Vals] : Allocate(a, rows)
    BY <1>1 DEF Caller
  <2>2. ASSUME NEW r \in Rows, NEW v \in Vals, WriteRow(a, r, v)
        PROVE  Attended!WriteRow(a, r, v)
    BY <2>2 DEF WriteRow, historyVars, Attended!WriteRow
  <2>3. ASSUME Drop(a) PROVE Attended!Drop(a)
    BY <2>3 DEF Drop, NoRows, historyVars, Attended!Drop
  <2>4. ASSUME NEW rows \in [Rows -> Vals], Allocate(a, rows)
        PROVE  Attended!Allocate(a, rows)
    BY <2>4 DEF Allocate, historyVars, Attended!Allocate
  <2>5. QED
    BY <2>1, <2>2, <2>3, <2>4 DEF Attended!Next
<1>2. CASE Native
  <2>1. PICK artifact \in Artifacts, plan \in Plans, a \in Addrs, shape \in Shapes, n \in Rows :
          \/ RunStream(artifact, plan, a, shape, n)
          \/ RunPlain(artifact, plan, a, shape, n)
          \/ \E onBucket, steady \in BOOLEAN :
               RunPlan(artifact, plan, a, shape, n, onBucket, steady)
          \/ \E kind \in Failures :
               \/ FailedStream(kind, artifact, plan, a, shape, n)
               \/ \E rows \in {mem[a], NoRows} :
                    FailedPlain(kind, artifact, plan, a, shape, n, rows)
    BY <1>2, Zenon DEF Native
  <2>2. ASSUME a \in owned, served'.given = Given(mem[a], n), UNCHANGED <<mem, owned>>
        PROVE  Attended!Answer(a, n)
    BY <2>2 DEF IInv, ServedCurrentK, Given, Attended!Answer
  <2>3. CASE RunStream(artifact, plan, a, shape, n)
    <3>1. a \in owned /\ served'.given = Given(mem[a], n) /\ UNCHANGED <<mem, owned>>
      BY <2>3 DEF RunStream
    <3>2. QED
      BY <2>2, <3>1 DEF Attended!Next
  <2>4. CASE RunPlain(artifact, plan, a, shape, n)
    <3>1. a \in owned /\ served'.given = Given(mem[a], n) /\ UNCHANGED <<mem, owned>>
      BY <2>4 DEF RunPlain, callerVars
    <3>2. QED
      BY <2>2, <3>1 DEF Attended!Next
  <2>5. CASE \E onBucket, steady \in BOOLEAN :
               RunPlan(artifact, plan, a, shape, n, onBucket, steady)
    BY <2>5 DEF RunPlan, callerVars, Attended!vars
  <2>6. CASE \E kind \in Failures :
               \/ FailedStream(kind, artifact, plan, a, shape, n)
               \/ \E rows \in {mem[a], NoRows} :
                    FailedPlain(kind, artifact, plan, a, shape, n, rows)
    BY <2>6 DEF FailedStream, FailedPlain, callerVars, Attended!vars
  <2>7. QED
    BY <2>1, <2>3, <2>4, <2>5, <2>6
<1>3. QED
  BY <1>1, <1>2 DEF Next

(* The runtime with its arena, its packed copies and its remembered slot
   implements the abstract decode stream: answers come from the buffers. *)
THEOREM StreamsImplementAttendedK ==
  Spec => ImplementsAttendedK
<1>1. Init => Attended!Init
  BY DEF Init, NoRows, Rows, Attended!Init, Attended!Rows
<1>2. ASSUME IInv, IInv', [Next]_vars
      PROVE  [Attended!Next]_(Attended!vars)
  <2>1. CASE Next
    BY <1>2, <2>1, StepAttends
  <2>2. CASE UNCHANGED vars
    BY <2>2 DEF vars, callerVars, historyVars, Attended!vars
  <2>3. QED
    BY <1>2, <2>1, <2>2
<1>3. QED
  BY <1>1, <1>2, StreamInvariant, PTL DEF Spec, ImplementsAttendedK, Attended!Spec
=============================================================================
