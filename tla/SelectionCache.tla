--------------------------- MODULE SelectionCache ---------------------------
(***************************************************************************)
(* How a Runtime finds, tunes, runs and persists the plan of a call        *)
(* (Runtime.run, _tune_call, _select; SelectionCache.get and publish).     *)
(* Several Runtimes, each in a process of its own, share the selections    *)
(* directory: one file per selection key, read without a lock and replaced *)
(* under one.  Inside a Runtime the execution lock serializes runs, but    *)
(* explain() reads its two fields at any time.                             *)
(*                                                                         *)
(* The tuner's rounds and the native run are single steps here; Tuner and  *)
(* DecodeStream open them up.                                              *)
(***************************************************************************)
EXTENDS Naturals, FiniteSets, KvShapes

CONSTANTS
  Runtimes,
  Calls,       \* [shape, len, stream]: stream is a growing kv_cache call
  Tuners,
  TunersOf,    \* runtime -> the tuners its program installs
  Plans,       \* the legal plans of every workload
  BucketUnit,
  Nobody, NoShape, NoTuner, NoSelection, NoFile,
  Unreadable,  \* a file that is not the JSON object publish() writes
  MaxFaults    \* bound: deaths, publish errors and damaged files of one behaviour

ASSUME CallsAssumption ==
  /\ \A c \in Calls : DOMAIN c = {"shape", "len", "stream"} /\ c.stream \in BOOLEAN
  /\ \A c \in Calls : c.len \in Nat \ {0}
ASSUME TunersAssumption == TunersOf \in [Runtimes -> SUBSET Tuners]
ASSUME FaultBoundAssumption == MaxFaults \in Nat /\ BucketUnit \in Nat \ {0}

Shapes == {c.shape : c \in Calls}
Edges == {KvBucket(c.len, BucketUnit) : c \in Calls}
Streams == {c \in Calls : c.stream}
Workloads == [shape : Shapes, len : {KvBucket(c.len, BucketUnit) : c \in Streams}, stream : {TRUE}]
               \cup (Calls \ Streams)
Keys == Workloads \X Tuners

(* A tuned selection, and what its file holds: the records name the measured
   plans. *)
Selections == [key : Keys, winner : Plans, records : SUBSET Plans]

ASSUME SentinelsAssumption == {NoSelection, NoFile, Unreadable} \cap Selections = {}

VARIABLES
  file,          \* key -> contents of <key>.json
  fileLock,      \* key -> holder of <key>.lock
  memory,        \* runtime -> key -> SelectionCache._memory
  buckets,       \* runtime -> bucket edge -> shape of the tensors in _bucket_calls
  tunerJson,     \* runtime -> the tuner whose identity is memoized
  lastEntry,     \* runtime -> workload of _last_entry
  lastSelection, \* runtime -> last_selection
  pc, request,   \* runtime -> where its run stands, and what it serves
  ran,           \* history: <<key, plan>> that completed on a call's own tensors
  faults

diskVars == <<file, fileLock>>
fieldVars == <<memory, buckets, tunerJson>>
shownVars == <<lastEntry, lastSelection>>
vars == <<diskVars, fieldVars, shownVars, pc, request, ran, faults>>

NoRequest == [tuner |-> NoTuner, key |-> NoFile, sel |-> NoSelection]
EmptyMemory == [k \in Keys |-> NoSelection]
EmptyBuckets == [e \in Edges |-> NoShape]

Key(r) == request[r].key
Goto(r, label) == pc' = [pc EXCEPT ![r] = label]

-----------------------------------------------------------------------------
(* What a call is tuned as. *)

(* _tune_call: a stream is tuned at the edge of its length bucket, on tensors
   kept per (operator, edge). *)
Edge(call) == KvBucket(call.len, BucketUnit)

BucketShape(r, call) ==
  IF buckets[r][Edge(call)] = NoShape THEN call.shape ELSE buckets[r][Edge(call)]

TuneWorkload(r, call) ==
  IF call.stream
  THEN [shape |-> BucketShape(r, call), len |-> Edge(call), stream |-> TRUE]
  ELSE call

(* Mutant: the identity of the first tuner is kept when it is replaced. *)
FirstTuner(r, tuner) == IF tunerJson[r] = NoTuner THEN tuner ELSE tunerJson[r]

(* The tuner part of the key: recomputed when runtime.tuner is another object. *)
TunerIdentity(r, tuner) == tuner

(* Runtime.run takes the execution lock: plans are looked up, and published to
   explain(), before anything is selected. *)
Begin(r, call, tuner) ==
  LET workload == TuneWorkload(r, call)
  IN  /\ pc[r] = "idle"
      /\ buckets' = [buckets EXCEPT ![r] =
                       IF call.stream THEN [@ EXCEPT ![Edge(call)] = BucketShape(r, call)]
                       ELSE @]
      /\ tunerJson' = [tunerJson EXCEPT ![r] = TunerIdentity(r, tuner)]
      /\ lastEntry' = [lastEntry EXCEPT ![r] = workload]
      /\ request' = [request EXCEPT ![r] =
                       [tuner |-> tuner, sel |-> NoSelection,
                        key |-> <<workload, TunerIdentity(r, tuner)>>]]
      /\ Goto(r, "get")
      /\ UNCHANGED <<diskVars, memory, lastSelection, ran, faults>>

-----------------------------------------------------------------------------
(* SelectionCache.get. *)

(* _read: the file is whole, was written for this key, and its winner is one
   of the plans it records. *)
Usable(k) ==
  /\ file[k] \notin {NoFile, Unreadable}
  /\ file[k].key = k
  /\ file[k].winner \in file[k].records

Choose(r, sel) == request' = [request EXCEPT ![r].sel = sel]

FoundInMemory(r) ==
  /\ pc[r] = "get"
  /\ memory[r][Key(r)] # NoSelection
  /\ Choose(r, memory[r][Key(r)])
  /\ Goto(r, "replay")
  /\ UNCHANGED <<diskVars, fieldVars, shownVars, ran, faults>>

(* Mutant: the file is read again although the key is in memory. *)
ReadOnDisk(r) ==
  /\ pc[r] = "get"
  /\ Usable(Key(r))
  /\ Choose(r, file[Key(r)])
  /\ memory' = [memory EXCEPT ![r][Key(r)] = file[Key(r)]]
  /\ Goto(r, "replay")
  /\ UNCHANGED <<diskVars, buckets, tunerJson, shownVars, ran, faults>>

FoundOnDisk(r) ==
  /\ pc[r] = "get"
  /\ memory[r][Key(r)] = NoSelection
  /\ Usable(Key(r))
  /\ Choose(r, file[Key(r)])
  /\ memory' = [memory EXCEPT ![r][Key(r)] = file[Key(r)]]
  /\ Goto(r, "replay")
  /\ UNCHANGED <<diskVars, buckets, tunerJson, shownVars, ran, faults>>

(* Mutant: a file that does not parse is taken for one being written, and
   read again. *)
NotFoundUnlessTorn(r) ==
  /\ pc[r] = "get"
  /\ memory[r][Key(r)] = NoSelection
  /\ ~Usable(Key(r))
  /\ IF file[Key(r)] = Unreadable THEN UNCHANGED pc ELSE Goto(r, "tune")
  /\ UNCHANGED <<diskVars, fieldVars, shownVars, request, ran, faults>>

NotFound(r) ==
  /\ pc[r] = "get"
  /\ memory[r][Key(r)] = NoSelection
  /\ ~Usable(Key(r))
  /\ Goto(r, "tune")
  /\ UNCHANGED <<diskVars, fieldVars, shownVars, request, ran, faults>>

-----------------------------------------------------------------------------
(* Mutant: the selection is published before the winner ran on the call. *)
TunedThenPublished(r) ==
  /\ pc[r] = "tune"
  /\ \E records \in SUBSET Plans : \E winner \in records :
       Choose(r, [key |-> Key(r), winner |-> winner, records |-> records])
  /\ Goto(r, "lock")
  /\ UNCHANGED <<diskVars, fieldVars, shownVars, ran, faults>>

(* The tuner measured some plans and picked one of them. *)
Tuned(r) ==
  /\ pc[r] = "tune"
  /\ \E records \in SUBSET Plans : \E winner \in records :
       Choose(r, [key |-> Key(r), winner |-> winner, records |-> records])
  /\ Goto(r, "execute")
  /\ UNCHANGED <<diskVars, fieldVars, shownVars, ran, faults>>

Completed(r) == ran' = ran \cup {<<Key(r), request[r].sel.winner>>}

Show(r) == lastSelection' = [lastSelection EXCEPT ![r] = request[r].sel]

Done(r) == Goto(r, "idle") /\ request' = [request EXCEPT ![r] = NoRequest]

(* A cached winner runs on the call's tensors, and the call returns. *)
Replay(r) ==
  /\ pc[r] = "replay"
  /\ Completed(r)
  /\ Show(r)
  /\ Done(r)
  /\ UNCHANGED <<diskVars, fieldVars, lastEntry, faults>>

(* A tuned winner, measured at the tuning shape, runs on the call's tensors. *)
Execute(r) ==
  /\ pc[r] = "execute"
  /\ Completed(r)
  /\ Goto(r, "lock")
  /\ UNCHANGED <<diskVars, fieldVars, shownVars, request, faults>>

(* A compile, a measurement or a run raises, and run() passes it on. *)
RunRaises(r) ==
  /\ pc[r] \in {"tune", "replay", "execute"}
  /\ Done(r)
  /\ UNCHANGED <<diskVars, fieldVars, shownVars, ran, faults>>

-----------------------------------------------------------------------------
(* SelectionCache.publish. *)

Lock(r) ==
  /\ pc[r] = "lock"
  /\ fileLock[Key(r)] = Nobody
  /\ fileLock' = [fileLock EXCEPT ![Key(r)] = r]
  /\ Goto(r, "write")
  /\ UNCHANGED <<file, fieldVars, shownVars, request, ran, faults>>

(* The payload goes to a temporary name, which no reader opens. *)
Write(r) ==
  /\ pc[r] = "write"
  /\ Goto(r, "replace")
  /\ UNCHANGED <<diskVars, fieldVars, shownVars, request, ran, faults>>

(* os.replace, the lock is closed, the key enters memory and run() returns. *)
Replace(r) ==
  /\ pc[r] = "replace"
  /\ file' = [file EXCEPT ![Key(r)] = request[r].sel]
  /\ fileLock' = [fileLock EXCEPT ![Key(r)] = Nobody]
  /\ memory' = [memory EXCEPT ![r][Key(r)] = request[r].sel]
  /\ Show(r)
  /\ Done(r)
  /\ UNCHANGED <<buckets, tunerJson, lastEntry, ran, faults>>

Fault == faults < MaxFaults /\ faults' = faults + 1

Released(r) == [k \in Keys |-> IF fileLock[k] = r THEN Nobody ELSE fileLock[k]]

(* The directory cannot be written: the computed result is lost with it. *)
PublishFails(r) ==
  /\ Fault
  /\ pc[r] \in {"lock", "write", "replace"}
  /\ fileLock' = Released(r)
  /\ Done(r)
  /\ UNCHANGED <<file, fieldVars, shownVars, ran>>

-----------------------------------------------------------------------------
(* The process dies; a new Runtime starts with nothing in memory. *)
Crash(r) ==
  /\ Fault
  /\ fileLock' = Released(r)
  /\ memory' = [memory EXCEPT ![r] = EmptyMemory]
  /\ buckets' = [buckets EXCEPT ![r] = EmptyBuckets]
  /\ tunerJson' = [tunerJson EXCEPT ![r] = NoTuner]
  /\ lastEntry' = [lastEntry EXCEPT ![r] = NoShape]
  /\ lastSelection' = [lastSelection EXCEPT ![r] = NoSelection]
  /\ Done(r)
  /\ UNCHANGED <<file, ran>>

(* Somebody else breaks a file: it is unreadable, it is another key's file, or
   its winner is missing from its records. *)
Damage(k) ==
  /\ Fault
  /\ \E content \in {Unreadable}
          \cup {s \in Selections : s.key # k /\ s.winner \in s.records}
          \cup {s \in Selections : s.key = k /\ s.records = Plans \ {s.winner}} :
       file' = [file EXCEPT ![k] = content]
  /\ UNCHANGED <<fileLock, fieldVars, shownVars, pc, request, ran>>

-----------------------------------------------------------------------------
Init ==
  /\ file = [k \in Keys |-> NoFile]
  /\ fileLock = [k \in Keys |-> Nobody]
  /\ memory = [r \in Runtimes |-> EmptyMemory]
  /\ buckets = [r \in Runtimes |-> EmptyBuckets]
  /\ tunerJson = [r \in Runtimes |-> NoTuner]
  /\ lastEntry = [r \in Runtimes |-> NoShape]
  /\ lastSelection = [r \in Runtimes |-> NoSelection]
  /\ pc = [r \in Runtimes |-> "idle"]
  /\ request = [r \in Runtimes |-> NoRequest]
  /\ ran = {}
  /\ faults = 0

Step(r) ==
  \/ FoundInMemory(r) \/ FoundOnDisk(r) \/ NotFound(r)
  \/ Tuned(r) \/ Replay(r) \/ Execute(r) \/ RunRaises(r)
  \/ Lock(r) \/ Write(r) \/ Replace(r)

Next ==
  \/ \E r \in Runtimes :
       \/ \E call \in Calls, tuner \in TunersOf[r] : Begin(r, call, tuner)
       \/ Step(r)
       \/ PublishFails(r)
       \/ Crash(r)
  \/ \E k \in Keys : Damage(k)

Fairness == \A r \in Runtimes : WF_vars(Step(r))

Spec == Init /\ [][Next]_vars /\ Fairness

-----------------------------------------------------------------------------
(* The plan a call is about to run was tuned for the workload the call is
   tuned as, by the tuner in place, whichever Runtime tuned it and whatever
   the file it came from was turned into. *)
SelectionFitsCall ==
  \A r \in Runtimes : request[r].sel # NoSelection =>
    /\ request[r].sel.key[1] = lastEntry[r]
    /\ request[r].sel.key[2] = request[r].tuner
    /\ request[r].sel.winner \in request[r].sel.records

(* A winner that another process may replay has completed a run on a real
   call's tensors: a plan whose run raises is never persisted. *)
PublishedWinnersRan ==
  \A k \in Keys : Usable(k) => <<k, file[k].winner>> \in ran

(* Within one Runtime a key keeps the plan it was first given, whatever other
   processes publish for it, until the process ends. *)
ReplaysItsWinner ==
  [][\A r \in Runtimes, k \in Keys :
       memory[r][k] # NoSelection /\ memory'[r][k] # memory[r][k]
         => memory'[r] = EmptyMemory /\ faults' # faults]_vars

(* Every run returns or raises. *)
RunEnds == \A r \in Runtimes : pc[r] # "idle" ~> pc[r] = "idle"
=============================================================================
