# CPUAttn in TLA+

A verification development for CPUAttn, an inference-only CPU attention
framework: Python code that plans, generates, compiles, tunes and replays
OpenMP kernels. The modules model the control of the runtime, of the planner and
of the generated kernels; TLC checks them on small instances, and for each of
the ten passing runs TLAPS proves all its safety properties for every value of the
constants (two of the theorems under one further condition, stated in section 5),
three action properties and two refinements among them.
Paths below are relative to
`src/src/cpuattn/` unless they start with `src/`.

## 1. Inventory

| component | state it keeps | operations | talks to |
|---|---|---|---|
| Runtime (`runtime.py`) | plan cache, selection-key memo, `_bucket_calls`, `_kv_packed`, `_arena_seq`, `last_selection`, execution lock | `run`, `_tune_call`, `_select`, `_run_cached`, `_run_plan`, `_packed_prefix`, `explain` | everything below; the caller's K/V buffers |
| Executor (`native/executor.py`) | one workspace arena, its key, prebuilt argument templates | `_workspace_for`, `_packed_template`, `run`, `close` | kernels, through raw pointers |
| Compiler (`native/compiler.py`) | memo of compiled requests and loaded libraries; a directory per artifact with `.lock`, library, manifest | `compile`, `load` | gcc, other processes through the directory |
| Selection cache (`tuning/cache.py`) | memory map; a JSON file and a lock per key | `get`, `publish` | other processes through the directory |
| Tuners (`tuning/*.py`) | none between calls; samples during `select` | `select`, `choose_next`, roofline estimates | Runtime's `measure` callback |
| Host (`hardware/host.py`) | what was detected, once a process | `detect_host` from cpuinfo, the affinity mask, `/sys` | backends, planner |
| Planner (`schedule/*.py`) | host topology | `build_all`, `launch_plans`, `_memory_plans`; the checks of plan objects | Executor and kernels, which receive its numbers |
| Backends, lowering (`native/`) | none | select a backend, enumerate code plans, recognise recurrences | planner, templates |
| Operators, expressions, tensors (`core/*.py`) | none | build typed trees, validate definitions and calls, evaluate | emitters, Runtime |
| Emitters (`native/emit/*.py`) | none | render an expression in each place of a template, as scalar and as vector code | templates |
| Parallel kernels (`kernels/parallel*.c.j2`, `common/packing.h`) | packed K, partials, output, during a call | pack, attend, merge, with barriers and work sharing | worker placement |
| Linear kernels (`kernels/linear*.c.j2`, `simd/linear.h`) | a state matrix per head | scan, column scan, chunked, delta | Executor (returned state) |
| Row norms (`core/rownorm.py`) | running reductions of a row | update, rescale, merge, finish | parallel kernels |
| Worker placement (`kernels/common/threading.h`) | per library and thread: original mask and target | prepare, pin, restore | the operating system's affinity masks |
| Diagnostics, logging, benchmarks, scripts | none of interest | - | - |

What is hard to test here, with the line where it bites, is listed in
`PROJECT.json` under `hazards`. The themes:

- **Trust across calls.** Packed K rows of an earlier call are reused on the
  evidence of a remembered slot and a counter, while callers edit, drop and
  reallocate buffers, tuning runs use the same arena, and runs raise halfway.
- **Processes over one directory.** Builders and tuners die between any two
  file operations.
- **A team of threads.** Barriers, `nowait` work sharing, private partials
  merged by another thread, teams smaller than asked for.
- **Two computations of one size.** Planner and kernels derive workspace
  layouts and divisions of work independently, one in Python for the first call
  of a length bucket and at its edge, the other in C for the call at hand.
- **Algebra that must not change the answer.** Online softmax in tiles, parts
  and groups; recurrences computed in blocks.
- **Two meanings of one text.** An expression is accepted and evaluated in
  Python, and emitted as scalar and as vector code in places that differ in the
  variables, loop indices and addresses they have.

What makes each component correct, as it is stated in the modules:

- Runtime and Executor: an answer is computed from the K the caller holds now;
  reuse is an optimisation that cannot be observed; no template points into a
  closed arena.
- Compiler: one builder at a time; a manifest only beside a whole library; no
  partial library is ever loaded; a finished artifact is not built again.
- Selection cache: a plan is replayed for the call it was tuned for, by the
  tuner in place; only winners that ran are published; runs end.
- Tuners: the budget bounds plans, finalists are compared on equal samples,
  the fastest measured plan wins, topology-sized teams are measured; times of
  one worker are compared on one CPU.
- Host and backends: the code runs on every CPU the process may use.
- Planner: a core for each worker, a workspace that suffices at every length
  it serves and for every call no larger than the planned one, no plan that its
  own constructors or, odd teams and larger calls apart, its kernel refuse.
- Expressions: what validation accepts means something wherever it is emitted,
  and computes there what `evaluate` does, from the elements of the views the
  caller passed.
- Kernels: every key of every row exactly once and current, however the work is
  shared; block lowerings equal the scan; the row is that of its reference.
- Placement: every worker on its CPU, and the caller's mask given back.

## 2. Modules

| module | models | from |
|---|---|---|
| `KvShapes` | `_packed_skv`, `_kv_bucket` | `runtime.py` |
| `AttendedK` | *abstract*: a call attends to the K it is given | what the runtime promises |
| `DecodeStream` | packed-K reuse: Runtime, Executor and packing, composed with the caller | `runtime.py`, `native/executor.py`, `packing.h` |
| `DecodeStreamProofs` | theorems about it | |
| `ArtifactStore` | *abstract*: an artifact is absent or finished | what the cache promises |
| `ArtifactCache` | `Compiler.compile`, `load`, crashes, faults | `native/compiler.py` |
| `SelectionCache` | `run`, `_tune_call`, `_select`, `get`, `publish`, `explain` | `runtime.py`, `tuning/cache.py` |
| `Tuner` | `Tuner.select` with its measurements | `tuning/tuner.py` |
| `HostDiscovery` | `detect_host` of a machine, and the backend selected for it | `hardware/host.py`, `native/backends/` |
| `KernelShapes` | divisions of work that kernels and planner share | `threading.h`, `parallel_2d.c.j2` |
| `LaunchPlanning` | `PlanBuilder`, the checks of plan objects, and the layout and checks of the kernels that receive its plans | `schedule/planning.py`, `schedule/plan.py`, kernels |
| `SingleCore` | the roofline estimates of `SingleCoreTuner` and their order | `tuning/single_core.py` |
| `WorkerCount` | code-plan enumeration, and both tuners' searches over `LaunchPlanning` | `native/backends/base.py`, `tuning/worker_count.py` |
| `KernelTeam` | the OpenMP team of the three parallel kernels | `parallel*.c.j2`, `packing.h` |
| `RowNorm` | the arithmetic of a row: tiles, parts, merges | `rownorm.py`, `simd/parallel.h`, `parallel*.c.j2` |
| `LinearScan` | the four linear lowerings and their recognition | `linear*.c.j2`, `simd/linear.h`, `native/lowering.py` |
| `Expressions` | typed trees, `evaluate`, and what scalar and vector code computes | `core/expr.py`, `native/emit/expression.py`, `simd/x86/avx2.h` |
| `Views` | strided arrays and the validation of a call | `core/tensor.py`, `core/validate.py` |
| `Mods` | an operator from the composition of its expression to a run of the code emitted for it | `core/operator.py`, `core/validate.py`, `native/emit/` |
| `WorkerAffinity` | pinning and restoring threads | `threading.h`, `executor.h` |
| `Sums` | the sum and product of a function's values | `simd/linear.h` |
| `ArtifactCacheProofs`, `ModsProofs` | theorems about the module each is named for | |
| `TeamProofs` | theorems about `KernelTeam` and `WorkerAffinity`, the threads of a launch | |
| `ArithmeticProofs` | theorems about `LinearScan` and `RowNorm`, the kernels that cut their sums up | |
| `SelectionProofs` | theorems about `SelectionCache` and about `Tuner`, the tuning step inside it | |
| `PlanSearchProofs` | theorems about `HostDiscovery`, `LaunchPlanning`, `SingleCore` and `WorkerCount`, which compose one specification | |
| `CommonTheorems` | division and the shares of `StaticRange`, induction over naturals and finite sets, laws of sums and products, sets listed in an order | |

`DecodeStream` composes Runtime, Executor, packing and caller, because no part
of the reuse decision is meaningful alone. The search for a plan is composed in
layers: `WorkerCount` EXTENDS `SingleCore`, which EXTENDS `LaunchPlanning`, which
EXTENDS `HostDiscovery` and `KernelShapes`; one behaviour goes from a machine
through its backend and plan space to the plans a tuner measures and the status
their kernels return. `Mods` EXTENDS `Expressions`, `Views` and `KernelShapes`,
and relates an expression to a call. `KernelTeam`, `LaunchPlanning`, `Mods` and
`RowNorm` share the divisions of `KernelShapes`; `DecodeStream`,
`SelectionCache` and `LaunchPlanning` the roundings of `KvShapes`. The tuner's
rounds are one step of `SelectionCache`. A proof module may EXTEND two models,
whose names are then disjoint: `SelectInit` and `SelectSpec` are those of `Tuner`,
`PlacementInit` and `PlacementSpec` those of `WorkerAffinity`, `RowInit` and
`RowSpec` those of `RowNorm`. The packing of a whole kernel is one
step of `DecodeStream`, opened up in `KernelTeam`. The MC modules hold only the
values of constants.

How state and actions correspond to the code:

- **DecodeStream.** `kvPacked`, `arenaSeq` are `_kv_packed`, `_arena_seq`;
  `arenaKey`, `templates` are the Executor's; `arena` is the packed region with
  the layout it was written in. `RunStream`, `RunPlain`, `RunPlan` are whole
  native runs with their bookkeeping, since they hold the execution lock;
  `RunRaises` cuts them off at the three places where `Executor.run` can raise.
  `WriteRow`, `Drop`, `Allocate` are the caller, who may edit any row; the
  append-only contract of `src/README.md:95-97` is the guard `AppendOnly` of the
  stream call that follows, and of nothing else. History variables record the
  last run, the last answer, and `suspect`: a run has raised and no full pack
  has been counted since. The code has no such flag, which is the point of the
  run `decode_stream_failures`; the other properties except the calls behind it.
- **ArtifactCache.** One action per file operation of `compile`; `Crash` at
  any point frees the `flock`, as the kernel does.
- **SelectionCache.** The labels of `pc` are the places of `run` between which
  another process can look; files may be damaged by others.
- **Tuner.** One step is one `measure()` or one decision between two; `custom`,
  fixed at the start, tells the default `choose_next` from any other. A median is
defined by how many samples are below it and how many are not above it.
- **KernelTeam.** One step is one panel packed or one row attended or merged by
  one thread; the barriers are guards over all `pc`. An accumulator counts how
  often it holds each key, so a key lost, doubled or stale shows.
- **HostDiscovery.** A machine says, CPU by CPU, what is there, what the process
  is allowed, what `/proc/cpuinfo` lists and what `/sys` lets it read; the host
  is what `detect_host` makes of that.
- **LaunchPlanning / WorkerCount.** `Plan` picks any legal plan, `Build` and
  `Measure` follow `choose_next` of either tuner, `SettleAnyhow` takes any plan
  another tuner may name. `Run` and `Serve` replay one for every call that
  `_tune_call` (`TuneCall`) takes for the planned one: any length of its bucket,
  and any other call of the operator in it, with its own heads, rows and widths
  (`OtherCalls`; a batch counts in the heads); the kernel's view is recomputed
  from the dimensions of that call (`served`, `skv`). Estimates of `SingleCore` are
  rationals in the code, here integers in parts of a cycle that all its divisors
  divide.
- **RowNorm, LinearScan.** A step is a tile of one part, or a block of one
  head. `RowNorm` works on fixed-point numbers with `2^x` for `e^x` and
  underflow below a reach; `LinearScan` on integers.
- **Mods.** `Compose` applies an operator of `expr.py` or raises its type error;
  `Define` is the construction and validation of the operator; `Run` validates a
  call and picks a lowering. A run is then compared, at every point of its
  iteration space, with `evaluate` on the elements NumPy would find: vectors
  start where the loops of the templates start them, what is left of a row goes
  through scalar code, and addresses are computed from dimensions and pitches as
  in the templates. A float is an integer or `Undef` (NaN, infinity, a fraction);
  the elementary functions are arbitrary ones that differ from each other.
- **WorkerAffinity.** One step is one thread's passage through
  `cpuattn_pin_worker` or `cpuattn_restore_worker`; what a library remembers is
  per library and per thread. The history `stray` names the records that
  another library or a failed call has made out of date.

## 3. Runs

Passing runs, with what they show and why the bounds are enough:

| run | shows | bounds |
|---|---|---|
| `decode_stream` | answers are current; packed reuse is an invisible optimisation (refines `AttendedK`); no template outlives its arena | a buffer that is dropped and allocated again, two views of it, two packing plans with tiles 3 and 1 (one whose stride the lengths cross, one within it) and a plain one; three counted runs (pack, intervene, resume) and one that raises in any of three ways |
| `artifact_cache` | a manifest only beside a whole library, no partial library loaded, no finished artifact rebuilt, termination; refines `ArtifactStore` | two processes, three requests of which two share an artifact, a crash and a fault |
| `selection_cache` | published winners ran; plans fit tuner and workload; a Runtime replays its winner; every `run()` ends | two Runtimes on one bucket, one of which changes between two tuners, two plans, one crash, damage or failed write |
| `tuner` | budget, equal footing, fastest wins, the default search ends | four plans, every assignment of two latencies, a budget of three, so that one measured plan is no finalist and one plan is left out, a burst of one measurement; the default and any `choose_next`, up to six samples a plan before confirmation |
| `plan_search` | the backend runs on every allowed CPU; no constructor refuses a plan, and no kernel but for the odd teams described below; workspaces suffice for every call no larger than the planned one, a core per worker; what the default tuner measures covers the topology, stays local, replicates; the single-core search compares on one CPU | nine hosts of one to eight cores with SMT and uneven nodes and every length of a bucket, any plan settled on and replayed for two further calls of other dimensions (one no larger than some of the planned calls and larger than others, one larger than all); fifteen odd machines (wide and narrow cores, CPUs not allowed, not listed or not readable, a trailing cpuinfo record, other architectures, SVE of two lengths); seven machines of up to twelve cores searched by `WorkerCountTuner` and four by `SingleCoreTuner`, with the code plans of AVX2, AVX-512 and NEON and the real budget of six |
| `kernel_team` | every key once and current; merges after writes; the team ends | three workers (four for the 2D kernel, the fewest it takes), one and two groups, full, suffix and no packing, short teams |
| `row_norm` | rows are their reference | every row of four scores from four or five values, with underflow outside the built-in softmax, tiles of 1 to 3, six group layouts |
| `linear_scan` | every lowering computes the ordered recurrence | sequences of four tokens, blocks of two, three and four (whole and partly filled), every cut into calls, states of 2 x 3, integer values that tell terms apart |
| `mods` | what passes validation has a meaning wherever it is emitted; vector and scalar code compute the reference; no visible key behind the causal stop; views are read where they lie | every expression of one operation of any kind and of a second logical one or selection, in each of ten places of an operator, with an argument over each of five or six choices of axes; prefix views, shared heads, cached queries, views that are refused; two lanes and tiles of two, so that rows of one, two and three keys or columns are a tail, a vector, and a vector with a tail |
| `worker_affinity` | workers on their CPUs; the caller's mask returned | two threads, three CPUs, one or two libraries, calls that fail or not |

`TypeOK` of `DecodeStream` is checked, and proved; the type invariants of
the other modules are parts of the inductive invariants in their proof modules. Each property is paired
with a mutant of a definition that models code (`mutants` in `PROJECT.json`):
a plausible slip in that code, under which the same run must fail.

In `decode_stream` one address is enough for the allocator to hand a dead
buffer's address out again, which is what a second buffer could be confused by;
two buffers that live side by side are in `decode_stream_failures` and, for any
number of them, in the theorems.

In `mods` two operations are enough for what can go wrong between two nodes of a
tree (a comparison under a selection, a negation over a mask, a causal form
under an `or`); what a place lacks shows with one leaf. The second of them is
always logical or a `where`: arithmetic on arithmetic is left to the theorems.
All arrays of a call share one memory, in which only addresses differ, so a
kernel that read one tensor at its own right address for another would not show.

Symmetry is used only over model values that no property or fairness
condition distinguishes (buffers, K values, CPUs, libraries), and never in
a run with a liveness property. Deadlock checking is off where a behaviour may
end: a bound on runs or faults is used up, a search is done, a call has
returned.

### Disagreements with the code

Each is a run that TLC must find violated (`findings` in `PROJECT.json`):

| run | what the code does |
|---|---|
| `row_norm_far` | the parallel kernels skip the output rescale when the scale is 0; if it underflowed to 0 (a later score more than about 100 above), the output of earlier tiles stays in the result unscaled |
| `decode_stream_failures` | a native run that raised after packing is not counted, and the next call of the stream trusts the rows it replaced |

Met while modelling, not stated as runs. Where a property would be broken by one
of these, it excepts it by a named condition:

- An odd composite team, of nine workers or more, is planned for the 2D kernel
  (`schedule/planning.py:329` asks for a divisor of the team and does not look
  at the key tiles). The kernel takes the least divisor there are tiles for and
  returns -3 if there is none (`parallel_2d.c.j2:58`): nine workers and two
  tiles. A plan made at the edge of a bucket may have tiles enough there and too
  few at a shorter length. `AcceptedByKernel` says exactly which teams may be
  refused, those larger than the square of the tiles of the call; the theorem
  `OnlyOddTeamsRefused` that there are no others.
- `linear_2d.c.j2:87-95` counts `dw` in the loop around its v mod, while an
  argument over `Axis.DV` is indexed by `dv` (`native/emit/expression.py:152`):
  the generated C does not compile. `AcceptedIsEmitted` excepts this place.
- A `BOOL` argument is a float array. As a vector mask AVX2 takes its sign bit,
  scalar code and `evaluate` whether it is zero; the other ISAs have mask types
  and do not compile it, nor a `where` between two masks. `TakesFloatForTruth`
  names the case in `EmittedIsReference`, and only AVX2 masks are modelled.
- `require_panel` refuses a C-contiguous K or V whose axis of one element has
  stride 0, against its docstring (`core/tensor.py:104-112`); and it compares the
  pitch, which counts elements, with the rows of a head, so overlapping heads
  pass. Both are read where they lie, which is what `ReadsWhatIsViewed` says.
- `hardware/host.py:152-154` says that the features assumed cannot include one
  "absent from an allowed CPU": they can when cpuinfo leaves that CPU out.
  `BackendRunsEverywhere` then speaks of the listed CPUs.
- `np.maximum` propagates NaN, `fmaxf` and the vector maximum do not; the model
  has `Undef` for NaN and compares nothing there.
- The pitch of K rows is not part of a stream's identity (`runtime.py:416`): two
  views of one buffer with different pitches would be one stream.
- Tuning tensors are kept per operator and bucket edge (`runtime.py:221-223`), so
  a call of another batch, head count, query count or width is tuned and keyed
  as the first one seen, and runs that one's plan in a workspace sized for it;
  `src/README.md:200` says "Selection keys include the exact workload". Every
  kernel computes the layout again from the present call and returns -2 if it
  does not fit (`parallel.c.j2:53`, `parallel_split_k.c.j2:57`,
  `parallel_2d.c.j2:73`): after a decode step of one token, a call of eight
  tokens in the same bucket can fail. The model reaches this; `MemorySuffices`
  says which calls may be refused (`NoLarger`), the theorem `WorkspaceSuffices`
  that there are no others. `SelectionFitsCall` speaks of the workload a call is
  tuned as.
- `explain()` assembles its record without the run lock: after a run that
  raised it pairs that workload with an older selection (`runtime.py:141`), and
  it names the tuner now installed, not the one that selected
  (`runtime.py:172-175`).
- Placement records are per shared library, the threads are not: a kernel may
  believe a worker in place that another kernel has moved
  (`threading.h:13`); and after a failed move the old target stays on record
  although the thread is unpinned (`threading.h:23`). `WorkersOnAssignedCpus`
  excepts exactly these, by `stray`. A restore that fails is reported, but also
  forgets the mask it could not restore, and the next call saves the pinned one
  as the caller's (`threading.h:42-45`); `CallerKeepsItsMask` compares within one
  call and does not cover this.
- A selection that cannot be published is lost together with the result that had
  been computed (`runtime.py:400`). `RunEnds` counts the raise as an end and
  forbids no loss.
- Two confirmation rounds cannot outvote three slow samples
  (`tuning/tuner.py:169`): a burst that covers a plan's first samples decides.
  `FastestMeasuredWins` is claimed for bursts of one measurement.
- Static and dynamic plans share one representative
  (`tuning/worker_count.py:37`), against `src/README.md:203-205`.
- The causal stop exists in `parallel.c.j2` only: `parallel_split_k.c.j2` tests
  `CAUSAL_BLOCK_LIMIT`, which it does not define, so it visits masked keys;
  results do not change.
- `WorkerCountTuner` limits team *sizes* to six while the budget counts
  *plans*: with two packings and four to six legal sizes, all are tried in
  descending order and a small node-sized team may go unmeasured.
  `TopologyTeamsMeasured` says exactly when the topology is covered.

## 4. Fairness

- `ArtifactCache`: weak fairness of a process's own steps and strong fairness
  of `Acquire`, which stands for a blocking `flock`: the lock is free
  infinitely often because holders finish or die, and the kernel grants it.
- `SelectionCache`: weak fairness of each Runtime's next step; its lock is held
  for finitely many steps by construction of `publish`.
- `Tuner`: weak fairness of the loop itself; `SelectEnds` is claimed for the
  default `choose_next` only, since an arbitrary one may never stop.
- `KernelTeam`: weak fairness per thread: OpenMP threads are kernel threads.
- No fairness elsewhere: `DecodeStream`, `LaunchPlanning`, `WorkerCount`,
  `RowNorm`, `LinearScan`, `Mods` and `WorkerAffinity` state safety only.

Crashes, faults and callers' actions are never fair.

## 5. Proofs

Seven modules of theorems about the models, each for all values of the constants
of the module it is about, under the named assumptions of that module only (two
theorems, `FastestWins` and `RowsAreReduced`, state a further condition), and one
of theorems about data. Each is laid out in the same way: lemmas about the
operators, one `...Step` lemma per action, the inductive invariant, and the
theorems that follow from it. TLC agrees to every property on its instance
before it is stated as a theorem.

| module | theorem | statement |
|---|---|---|
| `DecodeStreamProofs` | `StreamInvariant` | `Spec => []IInv` |
| | `TypeCorrect`, `AnswersAreCurrent` | `[]TypeOK`, `[]ServedCurrentK` |
| | `TemplatesStayLive`, `TrustIsEarned` | `[]TemplatesLive`, `[]TrustedStateIsPacked` |
| | `ReuseIsContinuation` | the action property `ReuseOnlyContinuedStreams` |
| | `StreamsImplementAttendedK` | `DecodeStream` implements `AttendedK` |
| `ArtifactCacheProofs` | `CacheInvariant` | `Spec => []IInv` |
| | `ManifestsAreTrue`, `LoadsAreWhole` | `[]ManifestMeansLibrary`, `[]LoadedIsComplete` |
| | `BuiltOnce` | `[](FinishedIsNotRebuilt /\ OneBuilder)` |
| | `CacheImplementsStore` | `ArtifactCache` implements `ArtifactStore` |
| `SelectionProofs` | `SelectionInvariant` | `Spec => []IInv` |
| | `PublishedWinnersAreProven`, `SelectionsFit` | `[]PublishedWinnersRan`, `[]SelectionFitsCall` |
| | `WinnersAreKept` | the action property `ReplaysItsWinner` |
| | `BudgetKept`, `FootingKept` | `SelectSpec => []BudgetRespected`, `[]EvenFooting` |
| | `WinnerIsMeasured` | `select()` returns a candidate that it has measured |
| | `FastestWins` | `[]FastestMeasuredWins`, if a burst is at most half the repeats |
| `TeamProofs` | `TeamInvariant` | `Spec => []IInv` |
| | `PackingIsNotRead` | `[]NoReadWhilePacking` |
| | `AnswersExact` | `[]AnswersAreExact`, for all four kernels |
| | `PlacementInvariant` | `PlacementSpec => []PlacementIInv` |
| | `BodiesRunWhereAssigned` | `[]WorkersOnAssignedCpus` |
| | `CallerGetsItsMaskBack` | the action property `CallerKeepsItsMask` |
| `ArithmeticProofs` | `StatesAreOrdered`, `AnswersAreOrdered` | `[]StateIsOrdered`, `[]OutputsAreOrdered` |
| | `RowsAreReduced` | `RowSpec => []RowIsReference`, if the scores are `Representable` |
| `ModsProofs` | `IInvHolds` | `Spec => []IInv` |
| | `LanesAgree` | vector code computes what `evaluate` does, for any expression |
| | `CausalIsFalse` | a mask recognised as causal is false behind the query |
| | `EmittedWhereAccepted`, `PanelsAreViewed` | `[]AcceptedIsEmitted`, `[]ReadsWhatIsViewed` |
| | `NothingHiddenIsSeen` | `[]HiddenBeyondTheStop` |
| | `KernelsComputeTheDefinition` | `[]EmittedIsReference` |
| `PlanSearchProofs` | `WorkspaceSuffices`, `LinearBuffersFit` | `[]MemorySuffices` (calls no larger than the planned one), `[]BuffersFitTheStride` |
| | `WorkersOnTheirOwnCores` | `[]OneWorkerPerCore` |
| | `PlansAreAccepted`, `OnlyOddTeamsRefused` | `[]BuiltPlansAreAccepted`, `[]AcceptedByKernel` |
| | `ExecutedEverywhere` | `[]BackendRunsEverywhere` |
| | `TeamsStayNearMemory`, `TopologyIsMeasured` | `[]MeasuredNearMemory`, `[]TopologyTeamsMeasured` |
| | `OneCpuCompared` | `[]ComparedOnOneCpu` |
| `CommonTheorems` | `SumLaws`, `ProductLaws` | `FoldFunctionOnSet` adds and multiplies, in whatever order it chooses |

**DecodeStream.** Assumed: the packing plans are plans, tiles
are positive, and the sentinels are none of the values they stand apart from.
`ServedCurrentK` is not inductive: it speaks of the last answer
and says nothing of the slot the next call will trust. `TrustedStateIsPacked`
supplies that: a remembered state that passes the sequence gate has its rows in
the live arena, in the layout of the next call, equal to the caller's rows
unless the contract is void. To keep it across other runs one needs
`SeqBounded` (the remembered count is never ahead of the counter, so counting a
run closes the gate for good) and, for the action property, `GateNamesLastRun`
and `HistoryMatches`, which tie the slot to the last native run. Each of these
is claimed of behaviours that are not `suspect`: a raised run replaces rows
without being counted, so it breaks them, and the next full pack that counts
restores them (`RaisingStep`, `RunStreamStep`, `CountedRunStep`). `TemplatesLive`
and `SeqBounded` hold through raises as well. `TemplatesLive`
is needed because a cached template skips the arena check. The lemmas follow the
code: `FullPackIsCurrent` and `SuffixPackIsCurrent` for the two ways of packing,
`TrustedPrefix` for what `_packed_prefix` returns. The refinement maps
the served answer to the abstract one; every other action is a stutter.

**ArtifactCache.** Assumed: every request has a key, `Nobody` is no process and
no request. That a manifest is true says nothing of the builder about to write
one: `Progress` says what each of its steps has achieved (no manifest while it
builds, a whole temporary before the rename, a whole library before the
manifest), `Serving` that it holds the lock of its artifact, so that nobody else
undoes it (`LockExcludes`), and `Whole` that memory and directory hold no partial
library. A crash frees the lock and leaves all of these true of the others. The
refinement maps the finished artifacts to those published, and what a process
has compiled to what it holds; only `WriteManifest` publishes.

**SelectionCache.** Assumed: calls have positive lengths, and an absent or
unreadable file and a missing selection are no selections. The invariant
follows one run from its key to its publication: what it has chosen is for its
key (`Chosen`), has completed a run before it publishes (`WinnerRan`), and it
tunes and publishes only for a key it remembers nothing of (`NotRemembered`),
from which `ReplaysItsWinner` follows, since both places that write to memory
are behind that check. What others publish or damage touches the files only.

**Tuner.** Assumed: candidates are numbered, a plan is sampled at least once,
times are naturals. None of the properties is inductive: they speak of the end
of `select()`, and what decides it are the measurements the loop has committed
to and not yet made. `Footing` therefore counts for each plan its samples and
those still due: they are whole rounds while plans are chosen, and from the
confirmation on there is a set of finalists, two of them or none, who have the
confirming rounds on top (`FootingIsEven`). `Entered` says that no plan is
measured twice or before it is chosen. `Disturbances` says that no sample is
shorter than its plan's latency, and that those which are longer, with what is
left of the burst, are no more than `BurstLength`: a plan with more than twice as
many samples has its latency as median (`MedianOfMost`), and one with just twice
as many too, because the median is the lower of the two in the middle. Hence the
condition of `FastestWins`, which the run's instance meets; a longer burst may
cost the fastest plan its place among the finalists. That the code's sorts
have a first element is here that a median exists and is the only one
(`MedianExists`, `MedianUnique`), so that `Faster` orders the measured plans
(`FasterOrders`) and `Ranked` lists them (`RankedLists`). `WinnerIsMeasured`
discharges what the step `Tuned` of `SelectionCache` supposes of a tuner.

**KernelTeam.** Assumed (`PackingAssumption`): the owners of replicas are
distinct worker groups with a worker each, which `ValidRegion` and
`ValidateMemory` check in the code. `NoReadWhilePacking` needs `BarrierHolds`:
nobody is past the barrier while another still packs. That the replica is then
current needs `PanelsDone` and the arithmetic of work sharing: `ItemHasOwner`
(static ranges, integer divisions each, share every item out), `RanksAreTaken`
(the workers of a group have the ranks 0, 1, ... without a gap) and from both
`GroupPacks`: every panel of a replica is in somebody's share. `RowsDone`
carries exactness from row to row, to rows of a thread's own and to those
anybody may take. In the kernels that split keys a row is a sum: `PartialsDone`
says that nobody merges while another attends, that until a row is merged each
part of it that has been attended to holds every key of its worker's range once
and no other, and that a merged row is exact. The ranges of the workers that
share a row divide the keys among them (`SplitAssumption`: the 2D kernel has a
division of its team, or it returns before it opens one), so that the sum of the
parts is one for each key, first within a worker group and then over the groups;
rows are dealt in chunks, so that each is merged by one thread, which overwrites
parts of that row only.

**WorkerAffinity.** Assumed: a team has a thread, and the sentinels are no CPU
and no call. `BodiesOnTarget` says what is on record of a worker in its body,
`RecordsAreTrue` that a record which is not `stray` is where the thread is, and
`PinnedAreRemembered`, `CallerForgotten` and `EntryIsKept` where the caller's
mask is at each place of a call.

**LinearScan.** Assumed: sizes and blocks are positive, tokens and states are of
integers (`LinearAssumption`), a program is a nonempty sequence of steps of the
kinds `core/transition.py` has (`ProgramAssumption`). `ScanInv` says of each work
item, by its columns, how far it has come: the state there is that of the
ordered scan behind its last token, the outputs up to it are what that scan
reads and the rest are unwritten (`Scanned`). What a block contributes
is algebra: the state behind a block is the state before it times the product of
the decays, plus a sum over the block's tokens of what each adds times the
product of the decays behind it, by induction over the tokens of the block
(`Runs`, `Adds`). For the delta form the residuals of the triangular solve are
those the ordered scan has at each token (`ResidualsOf`), so that the corrected
values are values of a chunk. What earlier calls left in the block buffer lies
behind the tokens that count, and no sum reaches it.

**RowNorm.** Assumed: tiles and layouts are not empty and scores are numbers, none
below the one for minus infinity (`RowAssumption`). The hypothesis of the theorem
is `Representable`, about the numbers of the model: `Times` rounds down, so the
scores must be such that a difference which underflows does so in one of any two
steps (`ScoresCluster`: near each other in groups that are far apart), or rounding
would depend on the cut; for `l1` nothing is asked. For the built-in softmax no
difference of scores may underflow at all (`ScoresNear`). That condition is the
code's, not the model's: its tiles leave out a scaling by zero, and without it the
statement is false, as `row_norm_far` shows. The constants of `row_norm` meet
both. The answer says nothing while parts are at work, so `RowIInv` says what each
part holds: the reference of the keys it is done with. A weight under one maximum,
rescaled, is that under a later one (`WeightRescaled`), hence so are their sums
(`Rescaled`); keys without a weight, masked or at minus infinity, drop out on both
sides (`DeadWeights`, `DeadOutput`). From this a tile of either form takes its keys
(`SoftmaxTileIs`; `GenericTileIs`, where the suffix products are those of the
maxima along the tile, `SuffixesAre`), a merge joins two disjoint sets of keys
(`MergeJoins`), and merging in order, within groups and over them, joins all
(`MergedInOrderIs`). Static ranges share every key out once (`KeysShared`), and
behind a causal limit all keys are hidden.

**Mods.** Assumed: leaves are constants and variables, calls pass strided arrays,
arguments are declared over sequences of names, a tile is a multiple of the lanes.
An expression is a list of nodes, each of which looks back to earlier ones, and
`evaluate`, the emitted code and the recognition of causal masks are functions
over that list; a value exists and is the only one (`SolutionExists`, `ValueIs`), so
what holds of a node follows from its operands. `IsTree` says that every node is
well typed and that what it refers to lies before it. `ResultsAgree` goes through the
kinds of operations once, and `LanesAgree` is its induction over a tree; where the
reference is no number (`Undef`) nothing is claimed. The rest is addresses.
Emitted code steps through dense rows (`HornerIsAddress`) while a view has strides:
that what validation lets pass is dense (`RowMajorIsView`, `PanelIsView`,
`ArgumentIsView`), that the lanes of a vector are neighbours along the one axis an
argument is vectorised over (`LanesAreApart`, `LaneBeforeIs`), and that shared heads
and cached prefixes index the same rows on both sides (`HeadsShare`, `OffsetIs`)
makes the two read the same element. The invariant adds only that what runs was
accepted and validated; it is the four properties that carry the argument.

**LaunchPlanning and the searches.** Assumed: pages and bucket units are
positive (`SizesAssumption`), a code plan is one its constructor accepts
(`CodesAssumption`), a machine has an allowed CPU, a call has tensors without a
zero extent, and the queries of a decode call are the last of its keys
(`ProblemsAssumption`, of the calls planned and of those that replay), a budget is at least one plan
(`SearchAssumption`). `PlanInv` says that the host is what `detect_host` made of
the machine and has a backend (`HostMatches`), that a plan comes from the plan
space (`PlanMatches`, `IsPlan`: a team, the groups that share it out, the regions
in order, an owner for each replica), and what a kernel answered
(`AnswerMatches`). None of the properties is inductive, because they compare a
plan with a run of it for another call: `IsPlan` carries what the comparison
needs. `MemorySuffices` is monotony: rounding to pages, tiles and buckets only
grows with the length, the part of a worker with the rows and the width of the
values (`StrideFits`), a copy of K with the floats of a key (`CopyFits`), and
planner and kernel lay out the same regions in the same order. For the calls that
replay a plan it is needed that they are calls of the same operator (`Alike`);
how large they are is the condition `NoLarger` of the property.
`OneWorkerPerCore` is about listing sets: a node's cores and the round-robin
order over nodes each list every core once, and so does a leading
part of either. `AcceptedByKernel` is about divisors: a team that has a divisor
at all has one of at most its square root.

`SearchInv` adds, for `WorkerCount`, what is still to be measured. Every plan
that is offered is one of the plan space and they are different
(`PlansInvited`); what has been measured is a leading part of it (`FirstMeasured`).
The candidates are finitely many and their keys are of one length, so a group of
them has a least plan, although the code's choice between equal ones is left
open (`MinimalExists`). Of `WorkerCountTuner` (`TeamsInvited`), that plan is
within one node and has a copy on each of its nodes: the plan that runs the same
code on a node, or with one more copy, is a candidate too and comes before it in
the order (`BestOfItsTeam`, `NearMemory`). `WorkerAnchors` puts the sizes of the
topology in front (`AnchorLaws`), so that if they fit in the budget
(`BudgetHolds`) their representatives are among the first `Maxnum`. Of
`SingleCoreTuner` (`OneCpuInvited`), the ranking is of plans of one worker each on
one CPU, the best of each kind and then the rest, no plan twice (`IsRanking`);
it is not empty because there is a code plan that runs with one worker, whatever
the backend and the call (`OneWorkerExists`). The six theorems about plans hold of `Spec` and of
`SearchSpec`, in which the tuner decides.

**CommonTheorems.** The prover cannot instantiate induction theorems that take a
predicate. Where the predicate is a set (the numbers, or the subsets of a finite
set, for which something holds) `Induction` and `SubsetInduction` do the same.
From them follow that `FoldFunctionOnSet` has a value and only one, for addition
and multiplication, and the laws of sums that the kernels' proofs use:
exchanging two sums, taking out a factor or the last summand, adding only what
is not zero.

Only model-checked:

- All liveness (`CompileEnds`, `RunEnds`, `SelectEnds`, `TeamEnds`), since the
  prover handles no ENABLED and hence no fairness.
- The two runs that TLC must find violated.

## 6. Not modelled

- Floating-point rounding, and the SIMD headers beyond what `Expressions`,
  `RowNorm` and `LinearScan` take from them: arithmetic without state.
  `LinearScan` uses integers, `RowNorm` fixed point with underflow. Masks are
  those of AVX2.
- Row norms and transitions written by users in several expressions: `RowNorm`
  and `LinearScan` take the built-in ones and their near misses, `Mods` one
  expression at a time, the other slots at their defaults.
- The text of templates around an expression; in `Mods` one part of the keys is
  modelled and a dot product is one of its products.
- Parsing of `/proc` and `/sys` files, fingerprints, canonical JSON, compiler
  probing and flags: data.
- Power loss and unsynced files: nothing is synced before the rename, and
  temporary names hold only the process id (`native/compiler.py:252`), so two
  threads of one process with a Compiler each would share one. The file system of
  `ArtifactCache` is sequentially consistent.
- `explain()` beyond the fields it reads; the pitch of K as part of a stream.
- Diagnostics, logging, benchmarks, scripts, tests.

## 7. Plan

Modelled in the order of importance: decode streams with `AttendedK`; the
artifact cache with `ArtifactStore`; selection cache and `run`; kernel teams;
planner against kernels; tuners and their searches; placement; linear lowerings;
row norms; host and backends; expressions from definition to code. What a
continuation would take up:

1. *Models.* The mask types of the other ISAs in `Expressions`; user-written
   transitions through all their slots at once; a larger host for `plan_search`,
   with teams that are odd and composite; the regression gate of `src/scripts`.
2. *Proofs.* `RowIsReference` with a rounding error in place of `Representable`; type
   correctness of `LaunchPlanning` and `LinearScan` as theorems of their own.
