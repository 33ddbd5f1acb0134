-------------------------- MODULE SelectionProofs --------------------------
(***************************************************************************)
(* Proofs about the choice of a plan: about SelectionCache, for any        *)
(* Runtimes, calls, tuners and plans and any number of deaths, publish     *)
(* errors and damaged files; and about Tuner, which opens up what is its   *)
(* step Tuned, for any candidates, any choose_next, repeats, budget and    *)
(* latencies and any disturbance of bounded length.                        *)
(***************************************************************************)
EXTENDS SelectionCache, Tuner, CommonTheorems

Requests == [tuner : Tuners \cup {NoTuner}, key : Keys \cup {NoFile},
             sel : Selections \cup {NoSelection}]

TypeOK ==
  /\ file \in [Keys -> Selections \cup {NoFile, Unreadable}]
  /\ fileLock \in [Keys -> Runtimes \cup {Nobody}]
  /\ memory \in [Runtimes -> [Keys -> Selections \cup {NoSelection}]]
  /\ buckets \in [Runtimes -> [Edges -> Shapes \cup {NoShape}]]
  /\ tunerJson \in [Runtimes -> Tuners \cup {NoTuner}]
  /\ lastEntry \in [Runtimes -> Workloads \cup {NoShape}]
  /\ lastSelection \in [Runtimes -> Selections \cup {NoSelection}]
  /\ pc \in [Runtimes -> {"idle", "get", "tune", "replay", "execute", "lock", "write", "replace"}]
  /\ request \in [Runtimes -> Requests]
  /\ faults \in Nat

Publishing == {"lock", "write", "replace"}

(* A run is for the key of its call. *)
Serving(r) ==
  pc[r] # "idle" => /\ Key(r) \in Keys
                    /\ Key(r)[1] = lastEntry[r]
                    /\ Key(r)[2] = request[r].tuner

(* What a run has chosen is for its key and records its winner. *)
Chosen(r) ==
  /\ request[r].sel # NoSelection =>
       /\ pc[r] # "idle"
       /\ request[r].sel.key = Key(r)
       /\ request[r].sel.winner \in request[r].sel.records
  /\ pc[r] \in {"replay", "execute"} \cup Publishing => request[r].sel # NoSelection

(* What a run publishes has run on the tensors of its call. *)
WinnerRan(r) == pc[r] \in Publishing => <<Key(r), request[r].sel.winner>> \in ran

(* What a Runtime remembers of a key is for that key. *)
Remembered(r) ==
  \A k \in Keys : memory[r][k] # NoSelection =>
    memory[r][k].key = k /\ memory[r][k].winner \in memory[r][k].records

(* A Runtime tunes only for a key it remembers nothing of. *)
NotRemembered(r) ==
  pc[r] \in {"tune", "execute"} \cup Publishing => memory[r][Key(r)] = NoSelection

Local(r) == Serving(r) /\ Chosen(r) /\ WinnerRan(r) /\ Remembered(r) /\ NotRemembered(r)

(* The inductive invariant. *)
IInv == TypeOK /\ PublishedWinnersRan /\ \A r \in Runtimes : Local(r)

-----------------------------------------------------------------------------
LEMMA KeyTypes ==
  /\ \A k \in Keys : k[1] \in Workloads /\ k[2] \in Tuners
  /\ \A s \in Selections : s.key \in Keys /\ s.winner \in Plans
  /\ NoSelection \notin Selections /\ NoFile \notin Selections /\ Unreadable \notin Selections
  BY SentinelsAssumption DEF Keys, Selections

(* The program of a Runtime is tuned for a workload. *)
LEMMA WorkloadOfCall ==
  ASSUME TypeOK, NEW r \in Runtimes, NEW call \in Calls
  PROVE  /\ TuneWorkload(r, call) \in Workloads
         /\ call.stream => Edge(call) \in Edges /\ BucketShape(r, call) \in Shapes
<1>1. CASE call.stream
  <2>1. Edge(call) \in Edges /\ Edge(call) \in {KvBucket(c.len, BucketUnit) : c \in Streams}
    BY <1>1 DEF Edge, Edges, Streams
  <2>2. BucketShape(r, call) \in Shapes
    <3>1. buckets[r][Edge(call)] \in Shapes \cup {NoShape}
      BY <2>1 DEF TypeOK
    <3>2. call.shape \in Shapes
      BY DEF Shapes
    <3>3. QED
      BY <3>1, <3>2 DEF BucketShape
  <2>3. TuneWorkload(r, call) \in Workloads
    BY <1>1, <2>1, <2>2 DEF TuneWorkload, Workloads
  <2>4. QED
    BY <2>1, <2>2, <2>3
<1>2. CASE ~call.stream
  BY <1>2 DEF TuneWorkload, Workloads, Streams
<1>3. QED
  BY <1>1, <1>2

(* A step of one Runtime leaves the others as they are. *)
StepOf(r) ==
  /\ \A q \in Runtimes \ {r} :
       /\ memory'[q] = memory[q] /\ lastEntry'[q] = lastEntry[q]
       /\ pc'[q] = pc[q] /\ request'[q] = request[q]
  /\ ran \subseteq ran'

(* What such a step owes the invariant is about its own Runtime. *)
LEMMA StepKeeps ==
  ASSUME IInv, NEW r \in Runtimes, StepOf(r), TypeOK', PublishedWinnersRan', Local(r)'
  PROVE  IInv'
<1> SUFFICES ASSUME NEW q \in Runtimes, q # r PROVE Local(q)'
  BY DEF IInv
<1>1. /\ memory'[q] = memory[q] /\ lastEntry'[q] = lastEntry[q]
      /\ pc'[q] = pc[q] /\ request'[q] = request[q] /\ ran \subseteq ran'
  BY DEF StepOf
<1>2. Serving(q)' /\ Chosen(q)' /\ Remembered(q)' /\ NotRemembered(q)'
  BY <1>1 DEF IInv, Local, Serving, Chosen, Remembered, NotRemembered, Key
<1>3. WinnerRan(q)'
  BY <1>1 DEF IInv, Local, WinnerRan, Key
<1>4. QED
  BY <1>2, <1>3 DEF Local

(* A step that only moves along the run of r, without a new file. *)
LEMMA QuietStepKeeps ==
  ASSUME IInv, NEW r \in Runtimes, StepOf(r), TypeOK', Local(r)', UNCHANGED file
  PROVE  IInv'
<1>1. PublishedWinnersRan'
  BY DEF IInv, PublishedWinnersRan, Usable, StepOf
<1>2. QED
  BY <1>1, StepKeeps

-----------------------------------------------------------------------------
LEMMA InitIInv == Init => IInv
<1> SUFFICES ASSUME Init PROVE IInv
  OBVIOUS
<1>1. TypeOK
  BY DEF Init, TypeOK, EmptyMemory, EmptyBuckets, Requests, NoRequest
<1>2. PublishedWinnersRan
  BY DEF Init, PublishedWinnersRan, Usable
<1>3. ASSUME NEW r \in Runtimes PROVE Local(r)
  BY DEF Init, Local, Serving, Chosen, WinnerRan, Remembered, NotRemembered, NoRequest,
     EmptyMemory, Publishing
<1>4. QED
  BY <1>1, <1>2, <1>3 DEF IInv

LEMMA BeginStep ==
  ASSUME IInv, NEW r \in Runtimes, NEW call \in Calls, NEW tuner \in TunersOf[r],
         Begin(r, call, tuner)
  PROVE  IInv'
<1> DEFINE workload == TuneWorkload(r, call)
<1>1. tuner \in Tuners
  BY TunersAssumption
<1>2. /\ workload \in Workloads
      /\ call.stream => Edge(call) \in Edges /\ BucketShape(r, call) \in Shapes
  BY WorkloadOfCall DEF IInv
<1> HIDE DEF workload
<1>3. /\ request' = [request EXCEPT ![r] = [tuner |-> tuner, sel |-> NoSelection,
                                           key |-> <<workload, tuner>>]]
      /\ lastEntry' = [lastEntry EXCEPT ![r] = workload]
      /\ tunerJson' = [tunerJson EXCEPT ![r] = tuner]
      /\ pc' = [pc EXCEPT ![r] = "get"]
      /\ UNCHANGED <<diskVars, memory, lastSelection, ran, faults>>
  BY DEF Begin, TunerIdentity, Goto, workload
<1>4. <<workload, tuner>> \in Keys
  BY <1>1, <1>2 DEF Keys
<1>5. buckets' \in [Runtimes -> [Edges -> Shapes \cup {NoShape}]]
  BY <1>2 DEF IInv, TypeOK, Begin
<1>6. request' \in [Runtimes -> Requests]
  BY <1>1, <1>3, <1>4 DEF IInv, TypeOK, Requests
<1>7. TypeOK'
  BY <1>1, <1>2, <1>3, <1>5, <1>6 DEF IInv, TypeOK, diskVars
<1>8. StepOf(r)
  BY <1>3 DEF StepOf, IInv, TypeOK
<1>9. /\ request'[r] = [tuner |-> tuner, sel |-> NoSelection, key |-> <<workload, tuner>>]
      /\ lastEntry'[r] = workload /\ pc'[r] = "get" /\ memory'[r] = memory[r]
  BY <1>3 DEF IInv, TypeOK
<1>10. Local(r)'
  <2>1. Remembered(r)'
    BY <1>9 DEF IInv, Local, Remembered
  <2>2. Serving(r)' /\ Chosen(r)' /\ WinnerRan(r)' /\ NotRemembered(r)'
    BY <1>4, <1>9 DEF Serving, Chosen, WinnerRan, NotRemembered, Key, Publishing
  <2>3. QED
    BY <2>1, <2>2 DEF Local
<1>11. QED
  BY <1>3, <1>7, <1>8, <1>10, QuietStepKeeps DEF diskVars

(* A run that has begun has a key; what memory holds of it is of that key. *)
LEMMA KeyOfRun ==
  ASSUME IInv, NEW r \in Runtimes, pc[r] # "idle"
  PROVE  /\ Key(r) \in Keys
         /\ request[r] \in Requests
         /\ request[r].sel # NoSelection => request[r].sel \in Selections
  BY DEF IInv, Local, Serving, TypeOK, Requests

(* A run chooses a selection of its key. *)
LEMMA ChooseKeepsType ==
  ASSUME IInv, NEW r \in Runtimes, pc[r] # "idle", NEW sel \in Selections, Choose(r, sel)
  PROVE  /\ request' \in [Runtimes -> Requests]
         /\ \A q \in Runtimes \ {r} : request'[q] = request[q]
         /\ request'[r].key = Key(r) /\ request'[r].tuner = request[r].tuner
         /\ request'[r].sel = sel
<1>1. request[r] \in Requests /\ request' = [request EXCEPT ![r] = [request[r] EXCEPT !.sel = sel]]
  BY DEF IInv, TypeOK, Choose
<1>2. [request[r] EXCEPT !.sel = sel] \in Requests
  BY <1>1 DEF Requests
<1>3. /\ [request[r] EXCEPT !.sel = sel].key = request[r].key
      /\ [request[r] EXCEPT !.sel = sel].tuner = request[r].tuner
      /\ [request[r] EXCEPT !.sel = sel].sel = sel
  BY <1>1 DEF Requests
<1>4. request'[r] = [request[r] EXCEPT !.sel = sel]
  BY <1>1 DEF IInv, TypeOK
<1>5. QED
  BY <1>1, <1>2, <1>3, <1>4 DEF IInv, TypeOK, Key

LEMMA FoundInMemoryStep ==
  ASSUME IInv, NEW r \in Runtimes, FoundInMemory(r)
  PROVE  IInv'
<1> DEFINE k == Key(r)
           sel == memory[r][k]
<1>1. /\ pc[r] = "get" /\ sel # NoSelection /\ Choose(r, sel)
      /\ pc' = [pc EXCEPT ![r] = "replay"]
      /\ UNCHANGED <<diskVars, fieldVars, shownVars, ran, faults>>
  BY DEF FoundInMemory, Goto
<1>2. k \in Keys /\ k[1] = lastEntry[r] /\ k[2] = request[r].tuner
  BY <1>1 DEF IInv, Local, Serving
<1>3. sel \in Selections /\ sel.key = k /\ sel.winner \in sel.records /\ sel # NoSelection
  BY <1>1, <1>2 DEF IInv, TypeOK, Local, Remembered
<1>4. /\ request' \in [Runtimes -> Requests]
      /\ \A q \in Runtimes \ {r} : request'[q] = request[q]
      /\ request'[r].key = k /\ request'[r].tuner = request[r].tuner
      /\ request'[r].sel = sel
  BY <1>1, <1>3, ChooseKeepsType
<1> HIDE DEF k, sel
<1>5. TypeOK'
  BY <1>1, <1>4 DEF IInv, TypeOK, diskVars, fieldVars, shownVars
<1>6. StepOf(r) /\ pc'[r] = "replay" /\ memory'[r] = memory[r] /\ lastEntry'[r] = lastEntry[r]
  BY <1>1, <1>4 DEF StepOf, IInv, TypeOK, fieldVars, shownVars
<1>7. Local(r)'
  <2>1. Remembered(r)'
    BY <1>6 DEF IInv, Local, Remembered
  <2>2. Serving(r)' /\ Chosen(r)' /\ WinnerRan(r)' /\ NotRemembered(r)'
    BY <1>2, <1>3, <1>4, <1>6 DEF Serving, Chosen, WinnerRan, NotRemembered, Key, Publishing
  <2>3. QED
    BY <2>1, <2>2 DEF Local
<1>8. QED
  BY <1>1, <1>5, <1>6, <1>7, QuietStepKeeps DEF diskVars

(* What a Runtime may remember: a selection of that key. *)
LEMMA RememberKeeps ==
  ASSUME IInv, NEW r \in Runtimes, NEW k \in Keys, NEW sel \in Selections,
         sel.key = k, sel.winner \in sel.records,
         memory' = [memory EXCEPT ![r][k] = sel]
  PROVE  /\ memory' \in [Runtimes -> [Keys -> Selections \cup {NoSelection}]]
         /\ \A q \in Runtimes \ {r} : memory'[q] = memory[q]
         /\ Remembered(r)'
<1>1. /\ memory' \in [Runtimes -> [Keys -> Selections \cup {NoSelection}]]
      /\ \A q \in Runtimes \ {r} : memory'[q] = memory[q]
      /\ memory'[r][k] = sel
      /\ \A j \in Keys \ {k} : memory'[r][j] = memory[r][j]
  BY DEF IInv, TypeOK
<1>2. Remembered(r)'
  BY <1>1 DEF IInv, Local, Remembered
<1>3. QED
  BY <1>1, <1>2

LEMMA FoundOnDiskStep ==
  ASSUME IInv, NEW r \in Runtimes, FoundOnDisk(r)
  PROVE  IInv'
<1> DEFINE k == Key(r)
           sel == file[k]
<1>1. /\ pc[r] = "get" /\ Usable(k) /\ Choose(r, sel)
      /\ memory' = [memory EXCEPT ![r][k] = sel]
      /\ pc' = [pc EXCEPT ![r] = "replay"]
      /\ UNCHANGED <<diskVars, buckets, tunerJson, shownVars, ran, faults>>
  BY DEF FoundOnDisk, Goto
<1>2. k \in Keys /\ k[1] = lastEntry[r] /\ k[2] = request[r].tuner
  BY <1>1 DEF IInv, Local, Serving
<1>3. sel \in Selections /\ sel.key = k /\ sel.winner \in sel.records /\ sel # NoSelection
  BY <1>1, <1>2, KeyTypes DEF IInv, TypeOK, Usable
<1>4. /\ request' \in [Runtimes -> Requests]
      /\ \A q \in Runtimes \ {r} : request'[q] = request[q]
      /\ request'[r].key = k /\ request'[r].tuner = request[r].tuner
      /\ request'[r].sel = sel
  BY <1>1, <1>3, ChooseKeepsType
<1>5. /\ memory' \in [Runtimes -> [Keys -> Selections \cup {NoSelection}]]
      /\ \A q \in Runtimes \ {r} : memory'[q] = memory[q]
      /\ Remembered(r)'
  BY <1>1, <1>2, <1>3, RememberKeeps
<1> HIDE DEF k, sel
<1>6. TypeOK'
  BY <1>1, <1>4, <1>5 DEF IInv, TypeOK, diskVars, shownVars
<1>7. StepOf(r) /\ pc'[r] = "replay" /\ lastEntry'[r] = lastEntry[r]
  BY <1>1, <1>4, <1>5 DEF StepOf, IInv, TypeOK, shownVars
<1>8. Local(r)'
  BY <1>2, <1>3, <1>4, <1>5, <1>7 DEF Local, Serving, Chosen, WinnerRan, NotRemembered, Key,
     Publishing
<1>9. QED
  BY <1>1, <1>6, <1>7, <1>8, QuietStepKeeps DEF diskVars

-----------------------------------------------------------------------------
(* A step along the run of r that chooses nothing. *)
MovesOn(r, label) ==
  /\ Goto(r, label)
  /\ UNCHANGED <<file, fieldVars, shownVars, request>>

LEMMA MoveKeeps ==
  ASSUME IInv, NEW r \in Runtimes, pc[r] # "idle",
         NEW label \in {"tune", "lock", "write", "replace"}, MovesOn(r, label),
         fileLock' \in [Keys -> Runtimes \cup {Nobody}], ran \subseteq ran', UNCHANGED faults,
         label \in Publishing => pc[r] \in Publishing \cup {"execute"},
         label \in Publishing => <<Key(r), request[r].sel.winner>> \in ran',
         label = "tune" => memory[r][Key(r)] = NoSelection
  PROVE  IInv'
<1>1. pc' = [pc EXCEPT ![r] = label] /\ UNCHANGED <<file, fieldVars, shownVars, request>>
  BY DEF MovesOn, Goto
<1>2. TypeOK'
  BY <1>1 DEF IInv, TypeOK, fieldVars, shownVars
<1>3. StepOf(r) /\ pc'[r] = label
  BY <1>1 DEF StepOf, IInv, TypeOK, fieldVars, shownVars
<1>4. UNCHANGED <<memory, lastEntry, request, file>>
  BY <1>1 DEF fieldVars, shownVars
<1>5. Local(r)
  BY DEF IInv
<1>6. Remembered(r)'
  BY <1>4, <1>5 DEF Local, Remembered
<1>7. Serving(r)' /\ Chosen(r)' /\ WinnerRan(r)' /\ NotRemembered(r)'
  BY <1>3, <1>4, <1>5 DEF Local, Serving, Chosen, WinnerRan, NotRemembered, Key, Publishing
<1>8. QED
  BY <1>2, <1>3, <1>4, <1>6, <1>7, QuietStepKeeps DEF Local

LEMMA NotFoundStep ==
  ASSUME IInv, NEW r \in Runtimes, NotFound(r)
  PROVE  IInv'
<1>1. /\ pc[r] = "get" /\ memory[r][Key(r)] = NoSelection /\ MovesOn(r, "tune")
      /\ UNCHANGED <<fileLock, ran, faults>>
  BY DEF NotFound, MovesOn, diskVars
<1>2. fileLock' \in [Keys -> Runtimes \cup {Nobody}]
  BY <1>1 DEF IInv, TypeOK
<1>3. "tune" \notin Publishing
  BY DEF Publishing
<1>4. QED
  BY <1>1, <1>2, <1>3, MoveKeeps

LEMMA ExecuteStep ==
  ASSUME IInv, NEW r \in Runtimes, Execute(r)
  PROVE  IInv'
<1>1. /\ pc[r] = "execute" /\ MovesOn(r, "lock") /\ UNCHANGED <<fileLock, faults>>
      /\ ran' = ran \cup {<<Key(r), request[r].sel.winner>>}
  BY DEF Execute, MovesOn, diskVars, Completed
<1>2. fileLock' \in [Keys -> Runtimes \cup {Nobody}]
  BY <1>1 DEF IInv, TypeOK
<1>3. QED
  BY <1>1, <1>2, MoveKeeps

(* In publish() the winner has run. *)
LEMMA PublishedHasRun ==
  ASSUME IInv, NEW r \in Runtimes, pc[r] \in Publishing
  PROVE  <<Key(r), request[r].sel.winner>> \in ran
  BY DEF IInv, Local, WinnerRan

LEMMA LockStep ==
  ASSUME IInv, NEW r \in Runtimes, Lock(r)
  PROVE  IInv'
<1>1. /\ pc[r] = "lock" /\ MovesOn(r, "write") /\ UNCHANGED <<ran, faults>>
      /\ fileLock' = [fileLock EXCEPT ![Key(r)] = r]
  BY DEF Lock, MovesOn
<1>2. fileLock' \in [Keys -> Runtimes \cup {Nobody}]
  BY <1>1 DEF IInv, TypeOK
<1>3. pc[r] \in Publishing
  BY <1>1 DEF Publishing
<1>4. QED
  BY <1>1, <1>2, <1>3, PublishedHasRun, MoveKeeps

LEMMA WriteStep ==
  ASSUME IInv, NEW r \in Runtimes, Write(r)
  PROVE  IInv'
<1>1. pc[r] = "write" /\ MovesOn(r, "replace") /\ UNCHANGED <<fileLock, ran, faults>>
  BY DEF Write, MovesOn, diskVars
<1>2. fileLock' \in [Keys -> Runtimes \cup {Nobody}]
  BY <1>1 DEF IInv, TypeOK
<1>3. pc[r] \in Publishing
  BY <1>1 DEF Publishing
<1>4. QED
  BY <1>1, <1>2, <1>3, PublishedHasRun, MoveKeeps

LEMMA TunedStep ==
  ASSUME IInv, NEW r \in Runtimes, Tuned(r)
  PROVE  IInv'
<1> DEFINE k == Key(r)
<1>1. /\ pc[r] = "tune" /\ pc' = [pc EXCEPT ![r] = "execute"]
      /\ UNCHANGED <<diskVars, fieldVars, shownVars, ran, faults>>
  BY DEF Tuned, Goto
<1>2. PICK records \in SUBSET Plans : \E best \in records :
        Choose(r, [key |-> k, winner |-> best, records |-> records])
  BY DEF Tuned
<1>3. PICK best \in records : Choose(r, [key |-> k, winner |-> best, records |-> records])
  BY <1>2
<1> DEFINE sel == [key |-> k, winner |-> best, records |-> records]
<1>4. k \in Keys /\ k[1] = lastEntry[r] /\ k[2] = request[r].tuner /\ memory[r][k] = NoSelection
  BY <1>1 DEF IInv, Local, Serving, NotRemembered
<1>5. sel \in Selections /\ sel.key = k /\ sel.winner \in sel.records
  BY <1>4 DEF Selections
<1>6. /\ request' \in [Runtimes -> Requests]
      /\ \A q \in Runtimes \ {r} : request'[q] = request[q]
      /\ request'[r].key = k /\ request'[r].tuner = request[r].tuner
      /\ request'[r].sel = sel
  BY <1>1, <1>3, <1>5, ChooseKeepsType
<1> HIDE DEF k, sel
<1>7. TypeOK'
  BY <1>1, <1>6 DEF IInv, TypeOK, diskVars, fieldVars, shownVars
<1>8. StepOf(r) /\ pc'[r] = "execute" /\ UNCHANGED <<memory, lastEntry>>
  BY <1>1, <1>6 DEF StepOf, IInv, TypeOK, fieldVars, shownVars
<1>9. Remembered(r)'
  BY <1>8 DEF IInv, Local, Remembered
<1>10. sel # NoSelection
  BY <1>5, KeyTypes
<1>11. Serving(r)' /\ Chosen(r)' /\ WinnerRan(r)' /\ NotRemembered(r)'
  BY <1>4, <1>5, <1>6, <1>8, <1>10 DEF Serving, Chosen, WinnerRan, NotRemembered, Key, Publishing
<1>12. QED
  BY <1>1, <1>7, <1>8, <1>9, <1>11, QuietStepKeeps DEF diskVars, Local

-----------------------------------------------------------------------------
(* The run of r ends. *)
LEMMA DoneKeeps ==
  ASSUME IInv, NEW r \in Runtimes, Done(r),
         \A q \in Runtimes \ {r} : memory'[q] = memory[q] /\ lastEntry'[q] = lastEntry[q],
         ran \subseteq ran', Remembered(r)'
  PROVE  /\ pc' \in [Runtimes -> {"idle", "get", "tune", "replay", "execute", "lock", "write",
                                  "replace"}]
         /\ request' \in [Runtimes -> Requests]
         /\ StepOf(r) /\ Local(r)'
<1>1. pc' = [pc EXCEPT ![r] = "idle"] /\ request' = [request EXCEPT ![r] = NoRequest]
  BY DEF Done, Goto
<1>2. NoRequest \in Requests /\ NoRequest.sel = NoSelection
  BY DEF NoRequest, Requests
<1>3. /\ pc'[r] = "idle" /\ request'[r] = NoRequest
      /\ \A q \in Runtimes \ {r} : pc'[q] = pc[q] /\ request'[q] = request[q]
  BY <1>1 DEF IInv, TypeOK
<1>4. Serving(r)' /\ Chosen(r)' /\ WinnerRan(r)' /\ NotRemembered(r)'
  BY <1>2, <1>3 DEF Serving, Chosen, WinnerRan, NotRemembered, Publishing
<1>5. /\ pc' \in [Runtimes -> {"idle", "get", "tune", "replay", "execute", "lock", "write",
                               "replace"}]
      /\ request' \in [Runtimes -> Requests]
  BY <1>1, <1>2 DEF IInv, TypeOK
<1>6. QED
  BY <1>3, <1>4, <1>5 DEF StepOf, Local

LEMMA RememberedStays ==
  ASSUME IInv, NEW r \in Runtimes, UNCHANGED memory
  PROVE  Remembered(r)'
  BY DEF IInv, Local, Remembered

LEMMA ReplayStep ==
  ASSUME IInv, NEW r \in Runtimes, Replay(r)
  PROVE  IInv'
<1>1. /\ Done(r) /\ UNCHANGED <<diskVars, fieldVars, lastEntry, faults>> /\ ran \subseteq ran'
      /\ lastSelection' = [lastSelection EXCEPT ![r] = request[r].sel]
      /\ pc[r] = "replay"
  BY DEF Replay, Completed, Show
<1>2. Remembered(r)'
  BY <1>1, RememberedStays DEF fieldVars
<1>3. /\ pc' \in [Runtimes -> {"idle", "get", "tune", "replay", "execute", "lock", "write",
                               "replace"}]
      /\ request' \in [Runtimes -> Requests]
      /\ StepOf(r) /\ Local(r)'
  BY <1>1, <1>2, DoneKeeps DEF fieldVars
<1>4. request[r].sel \in Selections \cup {NoSelection}
  BY DEF IInv, TypeOK, Requests
<1>5. TypeOK'
  BY <1>1, <1>3, <1>4 DEF IInv, TypeOK, diskVars, fieldVars
<1>6. QED
  BY <1>1, <1>3, <1>5, QuietStepKeeps DEF diskVars

LEMMA RunRaisesStep ==
  ASSUME IInv, NEW r \in Runtimes, RunRaises(r)
  PROVE  IInv'
<1>1. Done(r) /\ UNCHANGED <<diskVars, fieldVars, shownVars, ran, faults>>
  BY DEF RunRaises
<1>2. Remembered(r)'
  BY <1>1, RememberedStays DEF fieldVars
<1>3. /\ pc' \in [Runtimes -> {"idle", "get", "tune", "replay", "execute", "lock", "write",
                               "replace"}]
      /\ request' \in [Runtimes -> Requests]
      /\ StepOf(r) /\ Local(r)'
  BY <1>1, <1>2, DoneKeeps DEF fieldVars, shownVars
<1>4. TypeOK'
  BY <1>1, <1>3 DEF IInv, TypeOK, diskVars, fieldVars, shownVars
<1>5. QED
  BY <1>1, <1>3, <1>4, QuietStepKeeps DEF diskVars

LEMMA ReleasedType ==
  ASSUME TypeOK, NEW r \in Runtimes
  PROVE  Released(r) \in [Keys -> Runtimes \cup {Nobody}]
  BY DEF TypeOK, Released

LEMMA PublishFailsStep ==
  ASSUME IInv, NEW r \in Runtimes, PublishFails(r)
  PROVE  IInv'
<1>1. /\ Done(r) /\ fileLock' = Released(r) /\ faults' = faults + 1
      /\ UNCHANGED <<file, fieldVars, shownVars, ran>>
  BY DEF PublishFails, Fault
<1>2. Remembered(r)'
  BY <1>1, RememberedStays DEF fieldVars
<1>3. /\ pc' \in [Runtimes -> {"idle", "get", "tune", "replay", "execute", "lock", "write",
                               "replace"}]
      /\ request' \in [Runtimes -> Requests]
      /\ StepOf(r) /\ Local(r)'
  BY <1>1, <1>2, DoneKeeps DEF fieldVars, shownVars
<1>4. fileLock' \in [Keys -> Runtimes \cup {Nobody}]
  BY <1>1, ReleasedType DEF IInv
<1>5. TypeOK'
  BY <1>1, <1>3, <1>4 DEF IInv, TypeOK, fieldVars, shownVars
<1>6. QED
  BY <1>1, <1>3, <1>5, QuietStepKeeps

LEMMA CrashStep ==
  ASSUME IInv, NEW r \in Runtimes, Crash(r)
  PROVE  IInv'
<1>1. /\ Done(r) /\ fileLock' = Released(r) /\ faults' = faults + 1
      /\ memory' = [memory EXCEPT ![r] = EmptyMemory]
      /\ buckets' = [buckets EXCEPT ![r] = EmptyBuckets]
      /\ tunerJson' = [tunerJson EXCEPT ![r] = NoTuner]
      /\ lastEntry' = [lastEntry EXCEPT ![r] = NoShape]
      /\ lastSelection' = [lastSelection EXCEPT ![r] = NoSelection]
      /\ UNCHANGED <<file, ran>>
  BY DEF Crash, Fault
<1>2. /\ memory' \in [Runtimes -> [Keys -> Selections \cup {NoSelection}]]
      /\ buckets' \in [Runtimes -> [Edges -> Shapes \cup {NoShape}]]
      /\ memory'[r] = EmptyMemory
      /\ \A q \in Runtimes \ {r} : memory'[q] = memory[q] /\ lastEntry'[q] = lastEntry[q]
  BY <1>1 DEF IInv, TypeOK, EmptyMemory, EmptyBuckets
<1>3. Remembered(r)'
  BY <1>2 DEF Remembered, EmptyMemory
<1>4. /\ pc' \in [Runtimes -> {"idle", "get", "tune", "replay", "execute", "lock", "write",
                               "replace"}]
      /\ request' \in [Runtimes -> Requests]
      /\ StepOf(r) /\ Local(r)'
  BY <1>1, <1>2, <1>3, DoneKeeps
<1>5. fileLock' \in [Keys -> Runtimes \cup {Nobody}]
  BY <1>1, ReleasedType DEF IInv
<1>6. TypeOK'
  BY <1>1, <1>2, <1>4, <1>5 DEF IInv, TypeOK
<1>7. QED
  BY <1>1, <1>4, <1>6, QuietStepKeeps

(* What is damaged does not read as a selection of its key. *)
LEMMA DamageStep ==
  ASSUME IInv, NEW k \in Keys, Damage(k)
  PROVE  IInv'
<1>1. PICK content \in {Unreadable}
               \cup {s \in Selections : s.key # k /\ s.winner \in s.records}
               \cup {s \in Selections : s.key = k /\ s.records = Plans \ {s.winner}} :
        file' = [file EXCEPT ![k] = content]
  BY DEF Damage
<1>2. /\ UNCHANGED <<fileLock, fieldVars, shownVars, pc, request, ran>> /\ faults' = faults + 1
  BY DEF Damage, Fault
<1>3. file' \in [Keys -> Selections \cup {NoFile, Unreadable}]
  BY <1>1 DEF IInv, TypeOK
<1>4. TypeOK'
  BY <1>2, <1>3 DEF IInv, TypeOK, fieldVars, shownVars
<1>5. /\ file'[k] = content /\ \A j \in Keys \ {k} : file'[j] = file[j]
  BY <1>1 DEF IInv, TypeOK
<1>6. ~Usable(k)'
  <2>1. content = Unreadable \/ content.key # k \/ content.winner \notin content.records
    BY <1>1
  <2>2. QED
    BY <1>5, <2>1 DEF Usable
<1>7. PublishedWinnersRan'
  <2> SUFFICES ASSUME NEW j \in Keys, Usable(j)' PROVE <<j, file'[j].winner>> \in ran'
    BY DEF PublishedWinnersRan
  <2>1. j # k /\ file'[j] = file[j] /\ ran' = ran
    BY <1>2, <1>5, <1>6
  <2>2. QED
    BY <2>1 DEF IInv, PublishedWinnersRan, Usable
<1>8. ASSUME NEW r \in Runtimes PROVE Local(r)'
  BY <1>2 DEF IInv, Local, Serving, Chosen, WinnerRan, Remembered, NotRemembered, Key, fieldVars,
     shownVars
<1>9. QED
  BY <1>4, <1>7, <1>8 DEF IInv

(* What replaces a file is for its key and has run. *)
LEMMA ReplaceStep ==
  ASSUME IInv, NEW r \in Runtimes, Replace(r)
  PROVE  IInv'
<1> DEFINE k == Key(r)
           sel == request[r].sel
<1>1. /\ pc[r] = "replace" /\ Done(r)
      /\ file' = [file EXCEPT ![k] = sel]
      /\ fileLock' = [fileLock EXCEPT ![k] = Nobody]
      /\ memory' = [memory EXCEPT ![r][k] = sel]
      /\ lastSelection' = [lastSelection EXCEPT ![r] = sel]
      /\ UNCHANGED <<buckets, tunerJson, lastEntry, ran, faults>>
  BY DEF Replace, Show
<1>2. /\ k \in Keys /\ sel \in Selections /\ sel.key = k /\ sel.winner \in sel.records
      /\ <<k, sel.winner>> \in ran
  BY <1>1, KeyOfRun, PublishedHasRun DEF IInv, Local, Chosen, Publishing
<1>3. /\ memory' \in [Runtimes -> [Keys -> Selections \cup {NoSelection}]]
      /\ \A q \in Runtimes \ {r} : memory'[q] = memory[q]
      /\ Remembered(r)'
  BY <1>1, <1>2, RememberKeeps
<1>4. /\ pc' \in [Runtimes -> {"idle", "get", "tune", "replay", "execute", "lock", "write",
                               "replace"}]
      /\ request' \in [Runtimes -> Requests]
      /\ StepOf(r) /\ Local(r)'
  BY <1>1, <1>3, DoneKeeps
<1> HIDE DEF k, sel
<1>5. TypeOK'
  BY <1>1, <1>2, <1>3, <1>4 DEF IInv, TypeOK
<1>6. PublishedWinnersRan'
  <2> SUFFICES ASSUME NEW j \in Keys, Usable(j)' PROVE <<j, file'[j].winner>> \in ran'
    BY DEF PublishedWinnersRan
  <2>1. CASE j = k
    BY <1>1, <1>2, <2>1 DEF IInv, TypeOK
  <2>2. CASE j # k
    <3>1. file'[j] = file[j]
      BY <1>1, <2>2 DEF IInv, TypeOK
    <3>2. QED
      BY <1>1, <3>1 DEF IInv, PublishedWinnersRan, Usable
  <2>3. QED
    BY <2>1, <2>2
<1>7. QED
  BY <1>4, <1>5, <1>6, StepKeeps

-----------------------------------------------------------------------------
LEMMA NextIInv ==
  IInv /\ [Next]_vars => IInv'
<1> SUFFICES ASSUME IInv, [Next]_vars PROVE IInv'
  OBVIOUS
<1>1. ASSUME NEW r \in Runtimes, NEW call \in Calls, NEW tuner \in TunersOf[r],
             Begin(r, call, tuner)
      PROVE  IInv'
  BY <1>1, BeginStep
<1>2. ASSUME NEW r \in Runtimes, Step(r) PROVE IInv'
  BY <1>2, FoundInMemoryStep, FoundOnDiskStep, NotFoundStep, TunedStep, ReplayStep, ExecuteStep,
     RunRaisesStep, LockStep, WriteStep, ReplaceStep DEF Step
<1>3. ASSUME NEW r \in Runtimes, PublishFails(r) \/ Crash(r) PROVE IInv'
  BY <1>3, PublishFailsStep, CrashStep
<1>4. ASSUME NEW k \in Keys, Damage(k) PROVE IInv'
  BY <1>4, DamageStep
<1>5. CASE UNCHANGED vars
  BY <1>5 DEF vars, diskVars, fieldVars, shownVars, IInv, TypeOK, PublishedWinnersRan, Usable,
     Local, Serving, Chosen, WinnerRan, Remembered, NotRemembered, Key
<1>6. QED
  BY <1>1, <1>2, <1>3, <1>4, <1>5 DEF Next

(* The invariant of run() and the selection files holds in every behaviour. *)
THEOREM SelectionInvariant == Spec => []IInv
  BY InitIInv, NextIInv, PTL DEF Spec

(* _read and publish: a file that another process may replay names a winner
   that has completed a run on a real call's tensors. *)
THEOREM PublishedWinnersAreProven == Spec => []PublishedWinnersRan
  BY SelectionInvariant, PTL DEF IInv

(* _select: the plan a call is about to run is for the workload it is tuned
   as and for the tuner in place. *)
THEOREM SelectionsFit == Spec => []SelectionFitsCall
<1>1. IInv => SelectionFitsCall
  BY DEF IInv, Local, Serving, Chosen, SelectionFitsCall
<1>2. QED
  BY <1>1, SelectionInvariant, PTL

(* get() and publish(): while a process lives, what it remembers of a key
   does not change. *)
THEOREM WinnersAreKept == Spec => ReplaysItsWinner
<1> DEFINE Kept == \A r \in Runtimes, k \in Keys :
              memory[r][k] # NoSelection /\ memory'[r][k] # memory[r][k]
                => memory'[r] = EmptyMemory /\ faults' # faults
<1>1. IInv /\ [Next]_vars => [Kept]_vars
  <2> SUFFICES ASSUME IInv, Next,
                      NEW r \in Runtimes, NEW k \in Keys,
                      memory[r][k] # NoSelection, memory'[r][k] # memory[r][k]
               PROVE  memory'[r] = EmptyMemory /\ faults' # faults
    BY DEF vars
  <2>1. ASSUME NEW q \in Runtimes, FoundOnDisk(q) PROVE FALSE
    <3>1. Key(q) \in Keys /\ memory[q][Key(q)] = NoSelection
      BY <2>1, KeyOfRun DEF FoundOnDisk
    <3>2. memory' = [memory EXCEPT ![q][Key(q)] = file[Key(q)]]
      BY <2>1 DEF FoundOnDisk
    <3>3. QED
      BY <3>1, <3>2 DEF IInv, TypeOK
  <2>2. ASSUME NEW q \in Runtimes, Replace(q) PROVE FALSE
    <3>1. Key(q) \in Keys /\ memory[q][Key(q)] = NoSelection
      BY <2>2, KeyOfRun DEF Replace, IInv, Local, NotRemembered, Publishing
    <3>2. memory' = [memory EXCEPT ![q][Key(q)] = request[q].sel]
      BY <2>2 DEF Replace
    <3>3. QED
      BY <3>1, <3>2 DEF IInv, TypeOK
  <2>3. ASSUME NEW q \in Runtimes, Crash(q)
        PROVE  memory'[r] = EmptyMemory /\ faults' # faults
    <3>1. memory' = [memory EXCEPT ![q] = EmptyMemory] /\ faults' = faults + 1
      BY <2>3 DEF Crash, Fault
    <3>2. r = q
      BY <3>1 DEF IInv, TypeOK
    <3>3. QED
      BY <3>1, <3>2 DEF IInv, TypeOK
  <2>4. ASSUME UNCHANGED memory PROVE FALSE
    BY <2>4
  <2>5. QED
    BY <2>1, <2>2, <2>3, <2>4 DEF Next, Step, Begin, FoundInMemory, NotFound, Tuned, Replay,
       Execute, RunRaises, Lock, Write, PublishFails, Damage, fieldVars
<1>2. QED
  BY <1>1, SelectionInvariant, PTL DEF Spec, ReplaysItsWinner

-----------------------------------------------------------------------------
(* How many elements of a sequence are in a set. *)
CountIn(s, T) == Cardinality({i \in DOMAIN s : s[i] \in T})

LEMMA IndicesSize ==
  ASSUME NEW n \in Nat
  PROVE  IsFiniteSet(1..n) /\ Cardinality(1..n) = n
BY FS_Interval

LEMMA CountType ==
  ASSUME NEW S, NEW s \in Seq(S), NEW T
  PROVE  /\ IsFiniteSet({i \in DOMAIN s : s[i] \in T})
         /\ CountIn(s, T) \in Nat /\ CountIn(s, T) <= Len(s)
<1> DEFINE n == Len(s)
           a == {i \in DOMAIN s : s[i] \in T}
<1>1. n \in Nat /\ a \subseteq 1..n
  OBVIOUS
<1>2. CountIn(s, T) = Cardinality(a)
  BY DEF CountIn
<1> HIDE DEF n, a
<1>3. IsFiniteSet(1..n) /\ Cardinality(1..n) = n
  BY <1>1, IndicesSize
<1>4. IsFiniteSet(a) /\ Cardinality(a) <= n
  BY <1>1, <1>3, FS_Subset
<1>5. QED
  BY <1>2, <1>4, FS_CardinalityType DEF a, n

LEMMA CountGrows ==
  ASSUME NEW S, NEW s \in Seq(S), NEW T, NEW U, \A x \in S : x \in T => x \in U
  PROVE  CountIn(s, T) <= CountIn(s, U)
<1>1. {i \in DOMAIN s : s[i] \in T} \subseteq {i \in DOMAIN s : s[i] \in U}
  OBVIOUS
<1>2. QED
  BY <1>1, CountType, FS_Subset DEF CountIn

LEMMA CountRest ==
  ASSUME NEW S, NEW s \in Seq(S), NEW T, NEW U, \A x \in S : x \in U <=> x \notin T
  PROVE  CountIn(s, T) + CountIn(s, U) = Len(s)
<1> DEFINE a == {i \in DOMAIN s : s[i] \in T}
           b == {i \in DOMAIN s : s[i] \in U}
<1>1. a \cup b = 1..Len(s) /\ a \cap b = {} /\ Len(s) \in Nat
  OBVIOUS
<1>2. IsFiniteSet(a) /\ IsFiniteSet(b)
  BY CountType
<1>3. Cardinality(a \cup b) = Cardinality(a) + Cardinality(b) - Cardinality(a \cap b)
  BY <1>2, FS_Union
<1>4. Cardinality(1..Len(s)) = Len(s) /\ Cardinality({}) = 0
  BY <1>1, IndicesSize, FS_EmptySet
<1>5. Cardinality(a) = CountIn(s, T) /\ Cardinality(b) = CountIn(s, U)
  BY DEF CountIn
<1> HIDE DEF a, b
<1>6. CountIn(s, T) \in Nat /\ CountIn(s, U) \in Nat
  BY CountType
<1>7. Len(s) = Cardinality(a) + Cardinality(b) - 0
  BY <1>1, <1>3, <1>4
<1>8. QED
  BY <1>1, <1>5, <1>6, <1>7

LEMMA CountEmpty ==
  ASSUME NEW T
  PROVE  CountIn(<<>>, T) = 0
<1>1. {i \in DOMAIN <<>> : <<>>[i] \in T} = {}
  OBVIOUS
<1>2. QED
  BY <1>1, FS_EmptySet DEF CountIn

LEMMA CountAppend ==
  ASSUME NEW S, NEW s \in Seq(S), NEW x \in S, NEW T
  PROVE  CountIn(Append(s, x), T) = CountIn(s, T) + (IF x \in T THEN 1 ELSE 0)
<1> DEFINE n == Len(s)
           t == Append(s, x)
           a == {i \in DOMAIN s : s[i] \in T}
           b == {i \in DOMAIN t : t[i] \in T}
<1>1. n \in Nat /\ DOMAIN s = 1..n /\ DOMAIN t = 1..n + 1
      /\ t[n + 1] = x /\ \A i \in 1..n : t[i] = s[i]
  OBVIOUS
<1>2. IsFiniteSet(a) /\ n + 1 \notin a
  <2>1. IsFiniteSet(a)
    BY CountType
  <2>2. n + 1 \notin 1..n
    BY <1>1
  <2>3. QED
    BY <1>1, <2>1, <2>2
<1>3. b = IF x \in T THEN a \cup {n + 1} ELSE a
  <2>1. \A i \in 1..n + 1 : i \in 1..n \/ i = n + 1
    BY <1>1
  <2>2. QED
    BY <1>1, <2>1
<1>4. Cardinality(a \cup {n + 1}) = Cardinality(a) + 1
  BY <1>2, FS_AddElement
<1>5. CountIn(s, T) = Cardinality(a) /\ CountIn(t, T) = Cardinality(b) /\ CountIn(s, T) \in Nat
  BY CountType DEF CountIn
<1> HIDE DEF a, b, t, n
<1>6. CASE x \in T
  BY <1>3, <1>4, <1>5, <1>6 DEF t
<1>7. CASE x \notin T
  BY <1>3, <1>5, <1>7 DEF t
<1>8. QED
  BY <1>6, <1>7

LEMMA CountTail ==
  ASSUME NEW S, NEW s \in Seq(S), s # <<>>, NEW T
  PROVE  CountIn(s, T) = CountIn(Tail(s), T) + (IF Head(s) \in T THEN 1 ELSE 0)
<1> DEFINE n == Len(s)
           t == Tail(s)
           a == {i \in DOMAIN s : s[i] \in T}
           b == {i \in DOMAIN t : t[i] \in T}
           c == {i \in DOMAIN s : i # 1 /\ s[i] \in T}
           f == [i \in b |-> i + 1]
<1>1. n \in Nat \ {0} /\ DOMAIN s = 1..n /\ DOMAIN t = 1..n - 1 /\ t \in Seq(S)
      /\ Head(s) = s[1] /\ \A i \in 1..n - 1 : t[i] = s[i + 1]
  OBVIOUS
<1>2. IsFiniteSet(a) /\ IsFiniteSet(b)
  BY <1>1, CountType
<1>3. Cardinality(b) = Cardinality(c)
  <2>1. f \in [b -> c]
    BY <1>1
  <2>2. \A i \in b : \A j \in b : f[i] = f[j] => i = j
    BY <1>1
  <2>3. \A j \in c : \E i \in b : f[i] = j
    <3> SUFFICES ASSUME NEW j \in c PROVE \E i \in b : f[i] = j
      OBVIOUS
    <3>1. j - 1 \in b
      BY <1>1
    <3>2. f[j - 1] = j
      BY <1>1, <3>1
    <3>3. QED
      BY <3>1, <3>2
  <2> HIDE DEF b, c, f
  <2>4. f \in Bijection(b, c)
    BY <2>1, <2>2, <2>3 DEF Bijection, Injection, Surjection, IsInjective
  <2>5. QED
    BY <1>2, <2>4, FS_Bijection DEF ExistsBijection
<1>4. a = IF Head(s) \in T THEN c \cup {1} ELSE c
  <2>1. 1 \in 1..n
    BY <1>1
  <2>2. QED
    BY <1>1, <2>1
<1>5. IsFiniteSet(c) /\ 1 \notin c
  <2>1. c \subseteq a
    OBVIOUS
  <2>2. QED
    BY <1>2, <2>1, FS_Subset
<1>6. Cardinality(c \cup {1}) = Cardinality(c) + 1 /\ Cardinality(c) \in Nat
  BY <1>5, FS_AddElement, FS_CardinalityType
<1>7. CountIn(s, T) = Cardinality(a) /\ CountIn(t, T) = Cardinality(b)
  BY DEF CountIn
<1> HIDE DEF a, b, c, t, n
<1>8. CASE Head(s) \in T
  BY <1>3, <1>4, <1>6, <1>7, <1>8 DEF t
<1>9. CASE Head(s) \notin T
  BY <1>3, <1>4, <1>6, <1>7, <1>9 DEF t
<1>10. QED
  BY <1>8, <1>9
-----------------------------------------------------------------------------
(* The median of a plan's samples. *)
Under(v) == {x \in Nat : x < v}
UpTo(v) == {x \in Nat : x <= v}
Middle(s) == (Len(s) + 1) \div 2

IsMedian(s, v) ==
  v \in ToSet(s) /\ CountIn(s, Under(v)) < Middle(s) /\ Middle(s) <= CountIn(s, UpTo(v))

LEMMA MiddleType ==
  ASSUME NEW s \in Seq(Nat), s # <<>>
  PROVE  /\ Len(s) \in Nat \ {0} /\ Middle(s) \in 1..Len(s)
         /\ Len(s) <= 2 * Middle(s) /\ 2 * Middle(s) <= Len(s) + 1
<1> DEFINE n == Len(s)
<1>1. n \in Nat \ {0}
  OBVIOUS
<1> HIDE DEF n
<1>2. /\ (n + 1) \div 2 \in Nat /\ 2 * ((n + 1) \div 2) <= n + 1
      /\ n + 1 < 2 * ((n + 1) \div 2) + 2
  BY <1>1, DivideLeaves
<1>3. QED
  BY <1>1, <1>2 DEF Middle, n

LEMMA MedianUnique ==
  ASSUME NEW s \in Seq(Nat), NEW v \in Nat, NEW w \in Nat, IsMedian(s, v), IsMedian(s, w)
  PROVE  v = w
<1>1. ASSUME NEW x \in Nat, NEW y \in Nat, IsMedian(s, x), IsMedian(s, y), x < y
      PROVE  FALSE
  <2>1. \A z \in Nat : z \in UpTo(x) => z \in Under(y)
    BY <1>1 DEF UpTo, Under
  <2>2. CountIn(s, UpTo(x)) <= CountIn(s, Under(y))
    BY <2>1, CountGrows
  <2>3. CountIn(s, UpTo(x)) \in Nat /\ CountIn(s, Under(y)) \in Nat
    BY CountType
  <2>4. Middle(s) \in Int
    BY DEF Middle
  <2>5. QED
    BY <1>1, <2>2, <2>3, <2>4 DEF IsMedian
<1>2. v < w \/ w < v \/ v = w
  OBVIOUS
<1>3. QED
  BY <1>1, <1>2

LEMMA MedianSampleIs ==
  ASSUME NEW s \in Seq(Nat), NEW v \in Nat, IsMedian(s, v)
  PROVE  MedianSample(s) = v
<1>1. \A w \in ToSet(s) : w \in Nat
  BY DEF ToSet
<1>2. ASSUME NEW w \in ToSet(s)
      PROVE  IsMedian(s, w) <=>
               /\ Cardinality({i \in DOMAIN s : s[i] < w}) < Middle(s)
               /\ Middle(s) <= Cardinality({i \in DOMAIN s : s[i] <= w})
  <2>1. \A i \in DOMAIN s : s[i] \in Nat
    OBVIOUS
  <2>2. /\ {i \in DOMAIN s : s[i] < w} = {i \in DOMAIN s : s[i] \in Under(w)}
        /\ {i \in DOMAIN s : s[i] <= w} = {i \in DOMAIN s : s[i] \in UpTo(w)}
    BY <2>1 DEF Under, UpTo
  <2>3. QED
    BY <2>2, Zenon DEF IsMedian, CountIn
<1>3. v \in ToSet(s) /\ \A w \in ToSet(s) : IsMedian(s, w) => w = v
  BY <1>1, MedianUnique DEF IsMedian
<1>4. MedianSample(s) = CHOOSE w \in ToSet(s) :
        /\ Cardinality({i \in DOMAIN s : s[i] < w}) < Middle(s)
        /\ Middle(s) <= Cardinality({i \in DOMAIN s : s[i] <= w})
  BY Zenon DEF MedianSample, Middle
<1>5. QED
  BY <1>2, <1>3, <1>4, Zenon

LEMMA SamplesBounded ==
  ASSUME NEW s \in Seq(Nat)
  PROVE  \E b \in Nat : \A i \in DOMAIN s : s[i] <= b
<1> DEFINE n == Len(s)
           T == {m \in Nat : m <= n => \E b \in Nat : \A i \in 1..m : s[i] <= b}
<1>1. n \in Nat /\ DOMAIN s = 1..n /\ \A i \in 1..n : s[i] \in Nat
  OBVIOUS
<1> HIDE DEF n
<1>2. 0 \in T
  OBVIOUS
<1>3. ASSUME NEW m \in T, m \in Nat
      PROVE  m + 1 \in T
  <2> SUFFICES ASSUME m + 1 <= n
               PROVE  \E b \in Nat : \A i \in 1..m + 1 : s[i] <= b
    BY <1>3
  <2>1. PICK b \in Nat : \A i \in 1..m : s[i] <= b
    BY <1>1, <1>3
  <2>2. s[m + 1] \in Nat
    BY <1>1, <1>3
  <2> DEFINE c == b + s[m + 1]
  <2>3. c \in Nat
    BY <2>1, <2>2
  <2>4. ASSUME NEW i \in 1..m + 1
        PROVE  s[i] <= c
    <3>1. i \in 1..m \/ i = m + 1
      BY <1>3
    <3>2. CASE i \in 1..m
      <4>1. s[i] <= b /\ s[i] \in Nat
        BY <1>1, <1>3, <2>1, <3>2
      <4>2. QED
        BY <2>2, <4>1
    <3>3. CASE i = m + 1
      BY <2>2, <3>3
    <3>4. QED
      BY <3>1, <3>2, <3>3
  <2>5. QED
    BY <2>3, <2>4
<1> HIDE DEF T
<1>4. Nat \subseteq T
  BY <1>2, <1>3, Induction
<1>5. n \in T
  BY <1>1, <1>4
<1>6. QED
  BY <1>1, <1>5 DEF T

LEMMA MedianExists ==
  ASSUME NEW s \in Seq(Nat), s # <<>>
  PROVE  \E v \in Nat : IsMedian(s, v)
<1> DEFINE T == {v \in Nat : Middle(s) <= CountIn(s, UpTo(v))}
<1>1. \A U : CountIn(s, U) \in Nat
  BY CountType
<1>2. Middle(s) \in Nat \ {0} /\ Middle(s) <= Len(s) /\ Len(s) \in Nat
  BY MiddleType
<1>3. T # {}
  <2>1. PICK b \in Nat : \A i \in DOMAIN s : s[i] <= b
    BY SamplesBounded
  <2>2. {i \in DOMAIN s : s[i] \in UpTo(b)} = 1..Len(s)
    BY <2>1 DEF UpTo
  <2>3. Cardinality(1..Len(s)) = Len(s)
    <3>1. Len(s) \in Nat
      BY <1>2
    <3>2. QED
      BY <3>1, IndicesSize
  <2>4. CountIn(s, UpTo(b)) = Len(s)
    BY <2>2, <2>3 DEF CountIn
  <2>5. QED
    BY <1>2, <2>4
<1>4. PICK v \in T : \A w \in T : v <= w
  BY <1>3, LeastNatural
<1>5. v \in Nat /\ Middle(s) <= CountIn(s, UpTo(v))
  OBVIOUS
<1>6. CountIn(s, Under(v)) < Middle(s)
  <2>1. CASE v = 0
    <3>1. {i \in DOMAIN s : s[i] \in Under(v)} = {}
      BY <2>1 DEF Under
    <3>2. CountIn(s, Under(v)) = 0
      BY <3>1, FS_EmptySet DEF CountIn
    <3>3. QED
      BY <1>2, <3>2
  <2>2. CASE v # 0
    <3>1. v - 1 \in Nat /\ v - 1 \notin T
      BY <1>4, <1>5, <2>2
    <3>2. ~(Middle(s) <= CountIn(s, UpTo(v - 1)))
      BY <3>1
    <3>3. \A x \in Nat : x \in Under(v) => x \in UpTo(v - 1)
      BY <1>5 DEF Under, UpTo
    <3>4. CountIn(s, Under(v)) <= CountIn(s, UpTo(v - 1))
      BY <3>3, CountGrows
    <3>5. QED
      BY <1>1, <1>2, <3>2, <3>4
  <2>3. QED
    BY <2>1, <2>2
<1>7. v \in ToSet(s)
  <2> SUFFICES ASSUME v \notin ToSet(s) PROVE FALSE
    OBVIOUS
  <2>1. \A i \in DOMAIN s : s[i] \in Nat /\ s[i] # v
    BY DEF ToSet
  <2>2. {i \in DOMAIN s : s[i] \in UpTo(v)} = {i \in DOMAIN s : s[i] \in Under(v)}
    BY <1>5, <2>1 DEF UpTo, Under
  <2>3. CountIn(s, UpTo(v)) = CountIn(s, Under(v))
    BY <2>2 DEF CountIn
  <2>4. QED
    BY <1>1, <1>2, <1>5, <1>6, <2>3
<1>8. QED
  BY <1>5, <1>6, <1>7 DEF IsMedian

LEMMA MedianType ==
  ASSUME NEW s \in Seq(Nat), s # <<>>
  PROVE  MedianSample(s) \in Nat
BY MedianExists, MedianSampleIs

(* When no sample is below v and at least half of them are v, v stands for them. *)
LEMMA MedianOfMost ==
  ASSUME NEW s \in Seq(Nat), s # <<>>, NEW v \in Nat, \A i \in DOMAIN s : v <= s[i],
         2 * CountIn(s, Nat \ {v}) <= Len(s)
  PROVE  MedianSample(s) = v
<1>1. \A U : CountIn(s, U) \in Nat
  BY CountType
<1>2. /\ Middle(s) \in Nat \ {0} /\ Len(s) \in Nat \ {0}
      /\ 2 * Middle(s) <= Len(s) + 1
  BY MiddleType
<1>3. CountIn(s, {v}) + CountIn(s, Nat \ {v}) = Len(s)
  <2>1. \A x \in Nat : x \in Nat \ {v} <=> x \notin {v}
    OBVIOUS
  <2>2. QED
    BY <2>1, CountRest
<1>4. CountIn(s, {v}) <= CountIn(s, UpTo(v))
  <2>1. \A x \in Nat : x \in {v} => x \in UpTo(v)
    BY DEF UpTo
  <2>2. QED
    BY <2>1, CountGrows
<1>5. CountIn(s, Under(v)) = 0
  <2>1. {i \in DOMAIN s : s[i] \in Under(v)} = {}
    BY DEF Under
  <2>2. QED
    BY <2>1, FS_EmptySet DEF CountIn
<1>6. v \in ToSet(s)
  <2> SUFFICES ASSUME v \notin ToSet(s) PROVE FALSE
    OBVIOUS
  <2>1. {i \in DOMAIN s : s[i] \in {v}} = {}
    BY DEF ToSet
  <2>2. CountIn(s, {v}) = 0
    BY <2>1, FS_EmptySet DEF CountIn
  <2>3. QED
    BY <1>1, <1>2, <1>3, <2>2
<1> DEFINE a == CountIn(s, {v})
           b == CountIn(s, Nat \ {v})
           c == CountIn(s, UpTo(v))
<1>7. a \in Nat /\ b \in Nat /\ c \in Nat /\ a + b = Len(s) /\ a <= c /\ 2 * b <= Len(s)
  BY <1>1, <1>3, <1>4
<1> HIDE DEF a, b, c
<1>8. Middle(s) <= c
  BY <1>2, <1>7
<1>9. IsMedian(s, v)
  BY <1>2, <1>5, <1>6, <1>8 DEF IsMedian, c
<1>10. QED
  BY <1>9, MedianSampleIs
-----------------------------------------------------------------------------
(* The invariant of select(). *)
Entries == [plan : Candidates, kept : BOOLEAN]
Wanted(p) == [plan |-> p, kept |-> TRUE]

SelectTypeOK ==
  /\ latency \in [Candidates -> Nat]
  /\ phase \in {"choose", "measure", "confirm", "done", "raised"}
  /\ order \in Seq(Candidates)
  /\ samples \in [Candidates -> Seq(Nat)]
  /\ todo \in Seq(Entries)
  /\ burst \in Nat \cup {-1}

(* Every plan is entered once; only entered plans are run. *)
Entered ==
  /\ \A i \in DOMAIN order : \A j \in DOMAIN order : order[i] = order[j] => i = j
  /\ \A i \in DOMAIN todo : todo[i].plan \in Measured
  /\ \A p \in Candidates \ Measured : samples[p] = <<>>
  /\ phase \in {"choose", "done"} => todo = <<>>

(* The samples of p once the loop has done what it has committed to. *)
Expected(p) == Len(samples[p]) + CountIn(todo, {Wanted(p)})

(* That is whole rounds, and the confirming rounds of a finalist. *)
Whole(p, extra) == \E k \in Nat \ {0} : Expected(p) = Repeat * k + extra

FinalistsOf(final) ==
  /\ final \subseteq Measured
  /\ Cardinality(final) = IF Len(order) < CONFIRM_FINALISTS THEN 0 ELSE CONFIRM_FINALISTS

Confirmed(final) == \A p \in Measured : Whole(p, IF p \in final THEN CONFIRM_ROUNDS ELSE 0)

Footing ==
  /\ phase \in {"choose", "measure"} => \A p \in Measured : Whole(p, 0)
  /\ phase \in {"confirm", "done"} => \E final : FinalistsOf(final) /\ Confirmed(final)

(* A disturbed sample is longer, and the burst has room for those it made. *)
Disturbances ==
  \A p \in Candidates :
    /\ \A i \in DOMAIN samples[p] : latency[p] <= samples[p][i]
    /\ burst = -1 => CountIn(samples[p], Nat \ {latency[p]}) = 0
    /\ burst # -1 => CountIn(samples[p], Nat \ {latency[p]}) + burst <= BurstLength

Won ==
  phase = "done" =>
    /\ winner \in Measured
    /\ 2 * BurstLength <= Repeat => \A p \in Measured : latency[winner] <= latency[p]

SelectInv ==
  SelectTypeOK /\ Entered /\ Footing /\ Disturbances /\ Won /\ BudgetRespected

-----------------------------------------------------------------------------
(* The measured plans and their ranking. *)
LEMMA MeasuredLaws ==
  ASSUME order \in Seq(Candidates),
         \A i \in DOMAIN order : \A j \in DOMAIN order : order[i] = order[j] => i = j
  PROVE  /\ Measured \subseteq Candidates /\ IsFiniteSet(Measured)
         /\ Cardinality(Measured) = Len(order) /\ Len(order) \in Nat
         /\ Measured = {} <=> order = <<>>
<1> DEFINE n == Len(order)
<1>1. n \in Nat /\ DOMAIN order = 1..n /\ order \in [1..n -> Candidates]
  OBVIOUS
<1>2. Measured = {order[i] : i \in 1..n}
  BY <1>1 DEF Measured, ToSet
<1>3. Measured \subseteq Candidates
  BY <1>1, <1>2
<1>4. order \in Bijection(1..n, Measured)
  <2>1. order \in [1..n -> Measured] /\ \A y \in Measured : \E i \in 1..n : order[i] = y
    BY <1>1, <1>2
  <2>2. \A i \in 1..n : \A j \in 1..n : order[i] = order[j] => i = j
    BY <1>1
  <2>3. QED
    BY <2>1, <2>2 DEF Bijection, Injection, Surjection, IsInjective
<1>5. IsFiniteSet(1..n) /\ Cardinality(1..n) = n
  BY <1>1, IndicesSize
<1>6. IsFiniteSet(Measured) /\ Cardinality(Measured) = n
  BY <1>4, <1>5, FS_Bijection DEF ExistsBijection
<1>7. Measured = {} <=> order = <<>>
  <2>1. n = 0 <=> order = <<>>
    BY <1>1
  <2>2. n # 0 => order[1] \in Measured
    BY <1>1, <1>2
  <2>3. n = 0 => Measured = {}
    BY <1>1, <1>2
  <2>4. QED
    BY <2>1, <2>2, <2>3
<1>8. QED
  BY <1>1, <1>3, <1>6, <1>7

(* What a decision about the ranking finds: samples of every measured plan. *)
Sampled == \A p \in Measured : samples[p] \in Seq(Nat) /\ samples[p] # <<>> /\ p \in Nat

Order == {t \in Measured \X Measured : Faster(t[1], t[2])}

LEMMA FasterOrders ==
  ASSUME Sampled
  PROVE  StrictOrder(Order, Measured)
<1> DEFINE m(p) == MedianSample(samples[p])
<1>1. \A p \in Measured : m(p) \in Nat /\ p \in Nat
  BY MedianType DEF Sampled
<1>2. \A p \in Measured : \A q \in Measured :
        <<p, q>> \in Order <=> (m(p) < m(q) \/ (m(p) = m(q) /\ p < q))
  <2> SUFFICES ASSUME NEW p \in Measured, NEW q \in Measured
               PROVE  <<p, q>> \in Order <=> (m(p) < m(q) \/ (m(p) = m(q) /\ p < q))
    OBVIOUS
  <2>1. <<p, q>> \in Order <=> Faster(p, q)
    BY DEF Order
  <2>2. QED
    BY <2>1 DEF Faster
<1> HIDE DEF m
<1>3. \A p \in Measured : <<p, p>> \notin Order
  BY <1>1, <1>2
<1>4. \A p \in Measured : \A q \in Measured : p # q => <<p, q>> \in Order \/ <<q, p>> \in Order
  BY <1>1, <1>2
<1>5. ASSUME NEW p \in Measured, NEW q \in Measured, NEW r \in Measured,
             <<p, q>> \in Order, <<q, r>> \in Order
      PROVE  <<p, r>> \in Order
  <2>1. /\ m(p) < m(q) \/ (m(p) = m(q) /\ p < q)
        /\ m(q) < m(r) \/ (m(q) = m(r) /\ q < r)
    BY <1>2, <1>5
  <2>2. m(p) < m(r) \/ (m(p) = m(r) /\ p < r)
    BY <1>1, <2>1
  <2>3. QED
    BY <1>2, <2>2
<1>6. QED
  BY <1>3, <1>4, <1>5 DEF StrictOrder

LEMMA RankedLists ==
  ASSUME Sampled, IsFiniteSet(Measured)
  PROVE  Lists(Ranked, Measured, Order)
<1>1. ASSUME NEW p \in Measured
      PROVE  {q \in Measured : Faster(q, p)} = Below(Order, Measured, p)
  BY DEF Below, Order
<1>2. Ranked = [i \in 1..Cardinality(Measured) |->
                 CHOOSE p \in Measured : Cardinality(Below(Order, Measured, p)) = i - 1]
  <2> DEFINE r(i) == CHOOSE p \in Measured : Cardinality({q \in Measured : Faster(q, p)}) = i - 1
             s(i) == CHOOSE p \in Measured : Cardinality(Below(Order, Measured, p)) = i - 1
  <2>1. ASSUME NEW i PROVE r(i) = s(i)
    <3>1. \A p \in Measured : Cardinality({q \in Measured : Faster(q, p)})
                                = Cardinality(Below(Order, Measured, p))
      BY <1>1
    <3>2. QED
      BY <3>1, Zenon
  <2>2. Ranked = [i \in 1..Cardinality(Measured) |-> r(i)]
    BY Zenon DEF Ranked
  <2> HIDE DEF r, s
  <2>3. Ranked = [i \in 1..Cardinality(Measured) |-> s(i)]
    BY <2>1, <2>2
  <2>4. QED
    BY <2>3, Zenon DEF s
<1>3. QED
  BY <1>2, FasterOrders, InOrderLists

LEMMA FastestIsLeast ==
  ASSUME Sampled, IsFiniteSet(Measured), Measured # {}
  PROVE  Fastest \in Measured /\ \A q \in Measured : ~Faster(q, Fastest)
<1>1. StrictOrder(Order, Measured)
  BY FasterOrders
<1>2. \E p \in Measured : \A q \in Measured : <<q, p>> \notin Order
  BY <1>1, MinimalExists, Zenon DEF StrictOrder
<1>3. \E p \in Measured : \A q \in Measured : ~Faster(q, p)
  BY <1>2 DEF Order
<1>4. QED
  BY <1>3, Zenon DEF Fastest
-----------------------------------------------------------------------------
(* What the loop commits to. *)
Asks(s, p, n) == CountIn(s, {Wanted(p)}) = n

LEMMA WantedLaws ==
  /\ \A p \in Candidates : Wanted(p) \in Entries
  /\ \A p, q : Wanted(p) = Wanted(q) => p = q
  /\ \A p : Wanted(p).plan = p /\ Wanted(p).kept
<1>1. \A p : Wanted(p).plan = p /\ Wanted(p).kept
  BY DEF Wanted
<1>2. \A p, q : Wanted(p) = Wanted(q) => p = q
  BY <1>1
<1>3. QED
  BY <1>1, <1>2 DEF Wanted, Entries

LEMMA SamplingAsks ==
  ASSUME NEW p \in Candidates, NEW n \in Nat
  PROVE  /\ Sampling(p, n) \in Seq(Entries)
         /\ \A i \in DOMAIN Sampling(p, n) : Sampling(p, n)[i].plan = p
         /\ \A q : Asks(Sampling(p, n), q, IF q = p THEN n ELSE 0)
<1> DEFINE s == Sampling(p, n)
<1>1. s = [i \in 1..n |-> Wanted(p)]
  BY DEF Sampling, Wanted
<1>2. DOMAIN s = 1..n /\ \A i \in 1..n : s[i] = Wanted(p)
  BY <1>1
<1>3. s \in Seq(Entries)
  BY <1>1, WantedLaws
<1>4. ASSUME NEW q
      PROVE  Asks(s, q, IF q = p THEN n ELSE 0)
  <2>1. CASE q = p
    <3>1. {i \in DOMAIN s : s[i] \in {Wanted(q)}} = 1..n
      BY <1>2, <2>1
    <3>2. Cardinality(1..n) = n
      BY IndicesSize
    <3>3. QED
      BY <2>1, <3>1, <3>2 DEF Asks, CountIn
  <2>2. CASE q # p
    <3>1. {i \in DOMAIN s : s[i] \in {Wanted(q)}} = {}
      BY <1>2, <2>2, WantedLaws
    <3>2. QED
      BY <2>2, <3>1, FS_EmptySet DEF Asks, CountIn
  <2>3. QED
    BY <2>1, <2>2
<1>5. \A i \in DOMAIN s : s[i].plan = p
  BY <1>2, WantedLaws
<1> HIDE DEF s
<1>6. QED
  BY <1>3, <1>4, <1>5 DEF s

(* A warm-up run before the samples asks for no sample. *)
WarmedUp(p, s, t) ==
  /\ t \in Seq(Entries)
  /\ (\A i \in DOMAIN s : s[i].plan = p) => \A i \in DOMAIN t : t[i].plan = p
  /\ \A q \in Candidates : CountIn(t, {Wanted(q)}) = CountIn(s, {Wanted(q)})

LEMMA WarmUpAsks ==
  ASSUME NEW p \in Candidates, NEW s \in Seq(Entries), NEW t, t = WarmUp(p) \o s
  PROVE  WarmedUp(p, s, t)
<1> DEFINE w == [plan |-> p, kept |-> FALSE]
<1>1. w \in Entries /\ w.plan = p /\ w.kept = FALSE /\ WarmUp(p) = <<w>>
  BY DEF Entries, WarmUp
<1> HIDE DEF w
<1>2. <<w>> \in Seq(Entries) /\ Len(<<w>>) = 1 /\ <<w>>[1] = w
  BY <1>1
<1>3. t \in Seq(Entries) /\ Len(t) = Len(s) + 1 /\ Len(s) \in Nat
      /\ t[1] = w /\ \A i \in 1..Len(s) : t[i + 1] = s[i]
  BY <1>1, <1>2
<1>4. t # <<>> /\ Head(t) = w /\ Tail(t) = s
  <2>1. t # <<>> /\ Tail(t) \in Seq(Entries) /\ Len(Tail(t)) = Len(s)
        /\ Head(t) = w /\ \A i \in 1..Len(s) : Tail(t)[i] = s[i]
    BY <1>3
  <2> DEFINE u == Tail(t)
  <2>2. u = [i \in 1..Len(u) |-> u[i]]
    BY <2>1, SequenceIsFunction
  <2>3. s = [i \in 1..Len(s) |-> s[i]]
    OBVIOUS
  <2>4. Len(u) = Len(s) /\ \A i \in 1..Len(s) : u[i] = s[i]
    BY <2>1
  <2> HIDE DEF u
  <2>5. u = s
    BY <2>2, <2>3, <2>4
  <2>6. QED
    BY <2>1, <2>5 DEF u
<1>5. ASSUME NEW q \in Candidates
      PROVE  CountIn(t, {Wanted(q)}) = CountIn(s, {Wanted(q)})
  <2>1. w # Wanted(q)
    BY <1>1, WantedLaws
  <2>2. CountIn(t, {Wanted(q)})
          = CountIn(Tail(t), {Wanted(q)}) + (IF Head(t) \in {Wanted(q)} THEN 1 ELSE 0)
    BY <1>3, <1>4, CountTail
  <2>3. CountIn(s, {Wanted(q)}) \in Nat
    BY CountType
  <2>4. (IF Head(t) \in {Wanted(q)} THEN 1 ELSE 0) = 0
    BY <1>4, <2>1
  <2>5. CountIn(Tail(t), {Wanted(q)}) = CountIn(s, {Wanted(q)})
    BY <1>4
  <2> DEFINE a == CountIn(t, {Wanted(q)})
             b == CountIn(Tail(t), {Wanted(q)})
             c == CountIn(s, {Wanted(q)})
             d == IF Head(t) \in {Wanted(q)} THEN 1 ELSE 0
  <2>6. a = b + d /\ c \in Nat /\ d = 0 /\ b = c
    BY <2>2, <2>3, <2>4, <2>5, Zenon
  <2> HIDE DEF a, b, c, d
  <2>7. a = c
    BY <2>6
  <2>8. QED
    BY <2>7 DEF a, c
<1>6. ASSUME \A i \in DOMAIN s : s[i].plan = p, NEW i \in DOMAIN t
      PROVE  t[i].plan = p
  <2>1. i \in 1..Len(s) + 1
    BY <1>3
  <2>2. CASE i = 1
    BY <1>1, <1>3, <2>2
  <2>3. CASE i # 1
    <3>1. i - 1 \in 1..Len(s) /\ t[(i - 1) + 1] = s[i - 1] /\ (i - 1) + 1 = i
      BY <1>3, <2>1, <2>3
    <3>2. i - 1 \in DOMAIN s
      BY <3>1
    <3>3. QED
      BY <1>6, <3>1, <3>2
  <2>4. QED
    BY <2>2, <2>3
<1>7. QED
  BY <1>3, <1>5, <1>6 DEF WarmedUp

LEMMA PairSize ==
  ASSUME NEW a, NEW b, a # b
  PROVE  Cardinality({a, b}) = 2
<1>1. Cardinality({a}) = 1 /\ IsFiniteSet({a})
  BY FS_Singleton
<1>2. b \notin {a}
  OBVIOUS
<1>3. Cardinality({a} \cup {b}) = Cardinality({a}) + 1
  BY <1>1, <1>2, FS_AddElement
<1>4. {a} \cup {b} = {a, b}
  OBVIOUS
<1>5. QED
  BY <1>1, <1>3, <1>4

LEMMA ConfirmationAsks ==
  ASSUME Sampled, IsFiniteSet(Measured), Measured \subseteq Candidates,
         Cardinality(Measured) = Len(order), Len(order) \in Nat
  PROVE  /\ Confirmation \in Seq(Entries)
         /\ \A i \in DOMAIN Confirmation : Confirmation[i].plan \in Measured
         /\ \E final : /\ FinalistsOf(final)
                       /\ \A p \in Measured :
                            Asks(Confirmation, p, IF p \in final THEN CONFIRM_ROUNDS ELSE 0)
<1> DEFINE c == Confirmation
<1>1. CASE Len(order) < CONFIRM_FINALISTS
  <2>1. c = <<>>
    BY <1>1 DEF Confirmation
  <2>2. FinalistsOf({})
    BY <1>1, FS_EmptySet DEF FinalistsOf
  <2>3. \A p : Asks(c, p, 0)
    BY <2>1, CountEmpty DEF Asks
  <2>4. c \in Seq(Entries) /\ \A i \in DOMAIN c : FALSE
    BY <2>1
  <2> HIDE DEF c
  <2>5. QED
    BY <2>2, <2>3, <2>4 DEF c
<1>2. CASE ~(Len(order) < CONFIRM_FINALISTS)
  <2> DEFINE n == Len(order)
             a == Ranked[1]
             b == Ranked[2]
             final == {a, b}
  <2>1. n \in Nat /\ 2 <= n
    BY <1>2 DEF CONFIRM_FINALISTS
  <2>2. /\ DOMAIN Ranked = 1..n /\ \A i \in 1..n : Ranked[i] \in Measured
        /\ \A i \in 1..n : \A j \in 1..n : Ranked[i] = Ranked[j] => i = j
    BY RankedLists DEF Lists
  <2> HIDE DEF n
  <2>3. a \in Measured /\ b \in Measured /\ a # b
    BY <2>1, <2>2
  <2>4. c = [i \in 1..4 |-> Wanted(Ranked[((i - 1) % 2) + 1])]
    <3>1. c = [i \in 1..CONFIRM_ROUNDS * CONFIRM_FINALISTS |->
               [plan |-> Ranked[((i - 1) % CONFIRM_FINALISTS) + 1], kept |-> TRUE]]
      BY <1>2 DEF Confirmation
    <3>2. CONFIRM_ROUNDS * CONFIRM_FINALISTS = 4
      BY DEF CONFIRM_ROUNDS, CONFIRM_FINALISTS
    <3>3. QED
      BY <3>1, <3>2 DEF Wanted, CONFIRM_FINALISTS
  <2>5. DOMAIN c = 1..4 /\ c[1] = Wanted(a) /\ c[2] = Wanted(b) /\ c[3] = Wanted(a)
        /\ c[4] = Wanted(b)
    BY <2>4
  <2> HIDE DEF a, b, c
  <2>6. \A i \in 1..4 : i = 1 \/ i = 2 \/ i = 3 \/ i = 4
    OBVIOUS
  <2>7. \A i \in 1..4 : c[i] = Wanted(a) \/ c[i] = Wanted(b)
    BY <2>5, <2>6
  <2>8. c \in Seq(Entries) /\ \A i \in DOMAIN c : c[i].plan \in Measured
    <3>1. Wanted(a) \in Entries /\ Wanted(b) \in Entries
      BY <2>3, WantedLaws
    <3>2. c = [i \in 1..4 |-> c[i]]
      BY <2>4 DEF c
    <3>3. c \in Seq(Entries)
      BY <2>7, <3>1, <3>2
    <3>4. QED
      BY <2>3, <2>5, <2>7, <3>3, WantedLaws
  <2>9. FinalistsOf(final)
    <3>1. Cardinality(final) = 2
      BY <2>3, PairSize
    <3>2. QED
      BY <1>2, <2>3, <3>1 DEF FinalistsOf, CONFIRM_FINALISTS
  <2>10. ASSUME NEW p \in Measured
         PROVE  Asks(c, p, IF p \in final THEN CONFIRM_ROUNDS ELSE 0)
    <3> DEFINE d == {i \in DOMAIN c : c[i] \in {Wanted(p)}}
    <3>1. d = {i \in 1..4 : c[i] = Wanted(p)}
      BY <2>5
    <3>2. p = a => d = {1, 3}
      BY <2>3, <2>5, <2>6, <3>1, WantedLaws
    <3>3. p = b => d = {2, 4}
      BY <2>3, <2>5, <2>6, <3>1, WantedLaws
    <3>4. p # a /\ p # b => d = {}
      BY <2>7, <3>1, WantedLaws
    <3>5. Cardinality({1, 3}) = 2 /\ Cardinality({2, 4}) = 2 /\ Cardinality({}) = 0
      <4>1. 1 # 3 /\ 2 # 4
        OBVIOUS
      <4>2. QED
        BY <4>1, PairSize, FS_EmptySet
    <3>6. CountIn(c, {Wanted(p)}) = Cardinality(d)
      BY DEF CountIn
    <3> HIDE DEF d
    <3>7. QED
      BY <3>2, <3>3, <3>4, <3>5, <3>6 DEF Asks, CONFIRM_ROUNDS
  <2> HIDE DEF final
  <2>11. QED
    BY <2>8, <2>9, <2>10 DEF c
<1>3. QED
  BY <1>1, <1>2
-----------------------------------------------------------------------------
(* What a step of select() leaves of the invariant. *)
LEMMA SelectLaws ==
  ASSUME SelectInv
  PROVE  /\ Measured \subseteq Candidates /\ IsFiniteSet(Measured)
         /\ Cardinality(Measured) = Len(order) /\ Len(order) \in Nat
         /\ Measured = {} <=> order = <<>>
         /\ \A p \in Candidates : /\ Len(samples[p]) \in Nat
                                  /\ CountIn(todo, {Wanted(p)}) \in Nat
                                  /\ CountIn(samples[p], Nat \ {latency[p]}) \in Nat
<1>1. SelectTypeOK /\ Entered
  BY DEF SelectInv
<1>2. /\ Measured \subseteq Candidates /\ IsFiniteSet(Measured)
      /\ Cardinality(Measured) = Len(order) /\ Len(order) \in Nat
      /\ Measured = {} <=> order = <<>>
  BY <1>1, MeasuredLaws DEF SelectTypeOK, Entered
<1>3. ASSUME NEW p \in Candidates
      PROVE  /\ Len(samples[p]) \in Nat
             /\ CountIn(todo, {Wanted(p)}) \in Nat
             /\ CountIn(samples[p], Nat \ {latency[p]}) \in Nat
  <2>1. samples[p] \in Seq(Nat) /\ todo \in Seq(Entries)
    BY <1>1 DEF SelectTypeOK
  <2>2. CountIn(todo, {Wanted(p)}) \in Nat
    BY <2>1, CountType
  <2>3. CountIn(samples[p], Nat \ {latency[p]}) \in Nat
    BY <2>1, CountType
  <2>4. QED
    BY <2>1, <2>2, <2>3
<1>4. QED
  BY <1>2, <1>3

(* With nothing left to do, every measured plan has its samples. *)
LEMMA NothingDue ==
  ASSUME SelectInv, todo = <<>>
  PROVE  \A p \in Candidates : Expected(p) = Len(samples[p])
<1> SUFFICES ASSUME NEW p \in Candidates
             PROVE  Expected(p) = Len(samples[p])
  OBVIOUS
<1>1. CountIn(todo, {Wanted(p)}) = 0
  BY CountEmpty
<1>2. QED
  BY <1>1, SelectLaws DEF Expected

LEMMA WholeIsRepeat ==
  ASSUME NEW p, NEW extra \in Nat, Whole(p, extra)
  PROVE  Expected(p) \in Nat /\ Repeat + extra <= Expected(p)
<1>1. PICK k \in Nat \ {0} : Expected(p) = Repeat * k + extra
  BY DEF Whole
<1>2. Repeat \in Nat \ {0}
  BY ConfigAssumption
<1>3. Repeat * k \in Nat /\ Repeat * 1 <= Repeat * k
  BY <1>2, TimesGrows
<1>4. QED
  BY <1>1, <1>2, <1>3

LEMMA SettledIsSampled ==
  ASSUME SelectInv, phase \in {"choose", "confirm", "done"}, todo = <<>>
  PROVE  Sampled /\ \A p \in Measured : Repeat <= Len(samples[p])
<1> SUFFICES ASSUME NEW p \in Measured
             PROVE  /\ samples[p] \in Seq(Nat) /\ samples[p] # <<>> /\ p \in Nat
                    /\ Repeat <= Len(samples[p])
  BY DEF Sampled
<1>1. p \in Candidates /\ p \in Nat /\ samples[p] \in Seq(Nat)
  BY SelectLaws, CandidatesAssumption DEF SelectInv, SelectTypeOK
<1>2. \E extra \in Nat : Whole(p, extra)
  BY DEF SelectInv, Footing, Confirmed, CONFIRM_ROUNDS
<1>3. PICK extra \in Nat : Whole(p, extra)
  BY <1>2
<1>4. Repeat \in Nat \ {0} /\ Repeat <= Expected(p)
  BY <1>3, WholeIsRepeat, ConfigAssumption
<1>5. Repeat <= Len(samples[p])
  BY <1>1, <1>4, NothingDue
<1>6. Len(samples[p]) # 0
  BY <1>1, <1>4, <1>5
<1>7. QED
  BY <1>1, <1>5, <1>6

LEMMA SelectStarts ==
  SelectInit => SelectInv
<1> SUFFICES ASSUME SelectInit PROVE SelectInv
  OBVIOUS
<1>1. \A p \in Candidates : samples[p] = <<>>
  BY DEF SelectInit
<1>2. SelectTypeOK
  <2>1. latency \in [Candidates -> Nat]
    BY TimesAssumption DEF SelectInit
  <2>2. samples \in [Candidates -> Seq(Nat)]
    BY DEF SelectInit
  <2>3. order \in Seq(Candidates) /\ todo \in Seq(Entries)
    BY DEF SelectInit
  <2>4. phase = "choose" /\ burst = -1
    BY DEF SelectInit
  <2>5. QED
    BY <2>1, <2>2, <2>3, <2>4 DEF SelectTypeOK
<1>3. Measured = {}
  BY DEF SelectInit, Measured, ToSet
<1>4. Entered
  BY <1>1 DEF SelectInit, Entered
<1>5. Footing
  BY <1>3 DEF SelectInit, Footing
<1>6. Disturbances
  <2>1. \A p \in Candidates : CountIn(samples[p], Nat \ {latency[p]}) = 0
    BY <1>1, CountEmpty
  <2>2. QED
    BY <1>1, <2>1 DEF SelectInit, Disturbances
<1>7. Won
  BY DEF SelectInit, Won
<1>8. BudgetRespected
  BY ConfigAssumption DEF SelectInit, BudgetRespected
<1>9. QED
  BY <1>2, <1>4, <1>5, <1>6, <1>7, <1>8 DEF SelectInv

LEMMA Raised ==
  ASSUME SelectInv, phase' = "raised",
         UNCHANGED <<settingVars, order, samples, todo, winner, burst>>
  PROVE  SelectInv'
<1>1. latency' = latency /\ order' = order /\ samples' = samples /\ todo' = todo /\ burst' = burst
      /\ Measured' = Measured
  BY DEF settingVars, Measured
<1>2. SelectTypeOK'
  BY <1>1 DEF SelectInv, SelectTypeOK
<1>3. Entered'
  BY <1>1 DEF SelectInv, Entered
<1>4. Footing' /\ Won'
  BY DEF Footing, Won
<1>5. Disturbances'
  BY <1>1 DEF SelectInv, Disturbances
<1>6. BudgetRespected'
  BY <1>1 DEF SelectInv, BudgetRespected
<1>7. QED
  BY <1>2, <1>3, <1>4, <1>5, <1>6 DEF SelectInv

LEMMA SelectStutters ==
  ASSUME SelectInv, UNCHANGED selectVars
  PROVE  SelectInv'
<1>1. latency' = latency /\ order' = order /\ samples' = samples /\ todo' = todo /\ burst' = burst
      /\ phase' = phase /\ winner' = winner /\ Measured' = Measured
  BY DEF selectVars, Measured
<1>2. \A p, extra : Whole(p, extra)' <=> Whole(p, extra)
  BY <1>1 DEF Whole, Expected
<1>3. \A final : FinalistsOf(final)' <=> FinalistsOf(final)
  BY <1>1 DEF FinalistsOf
<1>4. Footing'
  BY <1>1, <1>2, <1>3 DEF SelectInv, Footing, Confirmed
<1>5. SelectTypeOK'
  BY <1>1 DEF SelectInv, SelectTypeOK
<1>6. Entered'
  BY <1>1 DEF SelectInv, Entered
<1>7. Won'
  BY <1>1 DEF SelectInv, Won
<1>8. Disturbances'
  BY <1>1 DEF SelectInv, Disturbances
<1>9. BudgetRespected'
  BY <1>1 DEF SelectInv, BudgetRespected
<1>10. QED
  BY <1>4, <1>5, <1>6, <1>7, <1>8, <1>9 DEF SelectInv
LEMMA StopChoosingKeeps ==
  ASSUME SelectInv, NEW p, StopChoosing(p)
  PROVE  SelectInv'
<1>1. /\ phase = "choose" /\ phase' = "confirm" /\ todo' = Confirmation /\ latency' = latency
      /\ order' = order /\ samples' = samples /\ burst' = burst /\ Measured' = Measured
  BY DEF StopChoosing, settingVars, Measured
<1>2. todo = <<>> /\ SelectTypeOK /\ Entered
  BY <1>1 DEF SelectInv, Entered
<1>3. Sampled
  BY <1>1, <1>2, SettledIsSampled
<1>4. /\ Confirmation \in Seq(Entries)
      /\ \A i \in DOMAIN Confirmation : Confirmation[i].plan \in Measured
      /\ \E final : /\ FinalistsOf(final)
                    /\ \A q \in Measured :
                         Asks(Confirmation, q, IF q \in final THEN CONFIRM_ROUNDS ELSE 0)
  BY <1>3, SelectLaws, ConfirmationAsks
<1>5. SelectTypeOK'
  BY <1>1, <1>2, <1>4 DEF SelectTypeOK
<1>6. Entered'
  BY <1>1, <1>2, <1>4 DEF Entered
<1>7. Footing'
  <2>1. PICK final : /\ FinalistsOf(final)
                     /\ \A q \in Measured :
                          Asks(Confirmation, q, IF q \in final THEN CONFIRM_ROUNDS ELSE 0)
    BY <1>4
  <2>2. FinalistsOf(final)'
    BY <1>1, <2>1 DEF FinalistsOf
  <2>3. ASSUME NEW q \in Measured
        PROVE  Whole(q, IF q \in final THEN CONFIRM_ROUNDS ELSE 0)'
    <3>1. q \in Candidates /\ Len(samples[q]) \in Nat
      BY SelectLaws
    <3>2. PICK k \in Nat \ {0} : Len(samples[q]) = Repeat * k + 0
      BY <1>1, <1>2, <3>1, NothingDue DEF SelectInv, Footing, Whole
    <3>3. Expected(q)' = Len(samples[q]) + (IF q \in final THEN CONFIRM_ROUNDS ELSE 0)
      BY <1>1, <2>1 DEF Expected, Asks
    <3>4. Repeat * k \in Nat
      BY ConfigAssumption
    <3>5. Expected(q)' = Repeat * k + (IF q \in final THEN CONFIRM_ROUNDS ELSE 0)
      BY <3>2, <3>3, <3>4
    <3>6. QED
      BY <3>5 DEF Whole
  <2>4. Confirmed(final)'
    BY <1>1, <2>3 DEF Confirmed
  <2>5. QED
    BY <1>1, <2>2, <2>4 DEF Footing
<1>8. Disturbances'
  BY <1>1 DEF SelectInv, Disturbances
<1>9. Won' /\ BudgetRespected'
  BY <1>1 DEF SelectInv, Won, BudgetRespected
<1>10. QED
  BY <1>5, <1>6, <1>7, <1>8, <1>9 DEF SelectInv

LEMMA ChooseNewKeeps ==
  ASSUME SelectInv, NEW p, ChooseNew(p)
  PROVE  SelectInv'
<1>1. /\ phase = "choose" /\ phase' = "measure" /\ latency' = latency /\ burst' = burst
      /\ order' = Append(order, p) /\ samples' = [samples EXCEPT ![p] = <<>>]
      /\ todo' = WarmUp(p) \o Sampling(p, Repeat) /\ p \in Candidates /\ p \notin Measured
  BY DEF ChooseNew, settingVars
<1>2. todo = <<>> /\ SelectTypeOK /\ Entered
  BY <1>1 DEF SelectInv, Entered
<1>3. samples[p] = <<>> /\ samples' = samples
  <2>1. samples[p] = <<>> /\ samples \in [Candidates -> Seq(Nat)]
    BY <1>1, <1>2 DEF SelectTypeOK, Entered
  <2>2. QED
    BY <1>1, <2>1
<1>4. Repeat \in Nat \ {0}
  BY ConfigAssumption
<1>5. /\ todo' \in Seq(Entries) /\ \A i \in DOMAIN todo' : todo'[i].plan = p
      /\ \A q \in Candidates : CountIn(todo', {Wanted(q)}) = IF q = p THEN Repeat ELSE 0
  <2> DEFINE s == Sampling(p, Repeat)
  <2>1. /\ s \in Seq(Entries) /\ \A i \in DOMAIN s : s[i].plan = p
        /\ \A q : CountIn(s, {Wanted(q)}) = IF q = p THEN Repeat ELSE 0
    BY <1>1, <1>4, SamplingAsks DEF Asks
  <2> DEFINE t == WarmUp(p) \o s
  <2>2. todo' = t
    BY <1>1
  <2> HIDE DEF s
  <2>3. WarmedUp(p, s, t)
    BY <1>1, <2>1, WarmUpAsks
  <2> HIDE DEF t
  <2>4. /\ t \in Seq(Entries) /\ \A i \in DOMAIN t : t[i].plan = p
        /\ \A q \in Candidates : CountIn(t, {Wanted(q)}) = IF q = p THEN Repeat ELSE 0
    BY <2>1, <2>3 DEF WarmedUp
  <2>5. QED
    BY <2>2, <2>4
<1>6. Measured' = Measured \cup {p} /\ order' \in Seq(Candidates)
      /\ \A i \in DOMAIN order' : \A j \in DOMAIN order' : order'[i] = order'[j] => i = j
      /\ Len(order') = Len(order) + 1
  <2> DEFINE n == Len(order)
             o == Append(order, p)
  <2>1. /\ n \in Nat /\ DOMAIN order = 1..n /\ DOMAIN o = 1..n + 1 /\ o[n + 1] = p
        /\ Len(o) = n + 1 /\ o \in Seq(Candidates) /\ \A i \in 1..n : o[i] = order[i]
    BY <1>1, <1>2 DEF SelectTypeOK
  <2>2. \A i \in 1..n : order[i] # p
    BY <1>1, <2>1 DEF Measured, ToSet
  <2>3. Measured = {order[i] : i \in 1..n} /\ order' = o
    BY <1>1, <2>1 DEF Measured, ToSet
  <2>4. Measured' = {order'[i] : i \in DOMAIN order'}
    BY DEF Measured, ToSet
  <2>5. \A i \in 1..n : \A j \in 1..n : order[i] = order[j] => i = j
    BY <1>2, <2>1 DEF Entered
  <2> HIDE DEF n, o
  <2>6. \A i \in 1..n + 1 : i \in 1..n \/ i = n + 1
    BY <2>1
  <2>7. Measured' = Measured \cup {p}
    <3>1. \A x : x \in Measured' <=> \E i \in 1..n + 1 : x = o[i]
      BY <2>1, <2>3, <2>4
    <3>2. \A x : (\E i \in 1..n + 1 : x = o[i]) <=> (x = p \/ \E i \in 1..n : x = order[i])
      BY <2>1, <2>6
    <3>3. \A x : x \in Measured <=> \E i \in 1..n : x = order[i]
      BY <2>3
    <3>4. QED
      BY <3>1, <3>2, <3>3
  <2>8. \A i \in 1..n + 1 : \A j \in 1..n + 1 : o[i] = o[j] => i = j
    BY <2>1, <2>2, <2>5, <2>6
  <2>9. QED
    BY <2>1, <2>3, <2>7, <2>8 DEF n
<1>7. SelectTypeOK'
  BY <1>1, <1>2, <1>3, <1>5, <1>6 DEF SelectTypeOK
<1>8. Entered'
  BY <1>1, <1>2, <1>3, <1>5, <1>6 DEF Entered
<1>9. ASSUME NEW q \in Measured'
      PROVE  Whole(q, 0)'
  <2>1. q \in Candidates /\ Len(samples[q]) \in Nat
    BY <1>1, <1>6, SelectLaws
  <2>2. Expected(q)' = Len(samples[q]) + IF q = p THEN Repeat ELSE 0
    BY <1>3, <1>5, <2>1 DEF Expected
  <2>3. CASE q = p
    <3>1. Expected(q)' = Repeat * 1 + 0
      BY <1>3, <1>4, <2>2, <2>3
    <3>2. QED
      BY <3>1 DEF Whole
  <2>4. CASE q # p
    <3>1. PICK k \in Nat \ {0} : Len(samples[q]) = Repeat * k + 0
      BY <1>1, <1>2, <1>6, <2>1, <2>4, NothingDue DEF SelectInv, Footing, Whole
    <3>2. Expected(q)' = Repeat * k + 0
      BY <2>1, <2>2, <2>4, <3>1
    <3>3. QED
      BY <3>2 DEF Whole
  <2>5. QED
    BY <2>3, <2>4
<1>10. Footing'
  BY <1>1, <1>9 DEF Footing
<1>11. Disturbances'
  BY <1>1, <1>3 DEF SelectInv, Disturbances
<1>12. Won'
  BY <1>1 DEF Won
<1>13. BudgetRespected'
  <2>1. Maxnum = NoLimit \/ Len(order) < Maxnum
    BY DEF ChooseNew, WithinBudget
  <2>2. Len(order) \in Nat
    BY SelectLaws
  <2>3. QED
    BY <1>6, <2>1, <2>2, ConfigAssumption DEF BudgetRespected
<1>14. QED
  BY <1>7, <1>8, <1>10, <1>11, <1>12, <1>13 DEF SelectInv

LEMMA ChooseAgainKeeps ==
  ASSUME SelectInv, NEW p, ChooseAgain(p)
  PROVE  SelectInv'
<1>1. /\ phase = "choose" /\ phase' = "measure" /\ latency' = latency /\ burst' = burst
      /\ order' = order /\ samples' = samples /\ todo' = Sampling(p, Repeat) /\ p \in Measured
      /\ Measured' = Measured
  BY DEF ChooseAgain, settingVars, Measured
<1>2. todo = <<>> /\ SelectTypeOK /\ Entered /\ p \in Candidates
  BY <1>1, SelectLaws DEF SelectInv, Entered
<1>3. Repeat \in Nat \ {0}
  BY ConfigAssumption
<1>4. /\ todo' \in Seq(Entries) /\ \A i \in DOMAIN todo' : todo'[i].plan = p
      /\ \A q : CountIn(todo', {Wanted(q)}) = IF q = p THEN Repeat ELSE 0
  <2> DEFINE s == Sampling(p, Repeat)
  <2>1. /\ s \in Seq(Entries) /\ \A i \in DOMAIN s : s[i].plan = p
        /\ \A q : CountIn(s, {Wanted(q)}) = IF q = p THEN Repeat ELSE 0
    BY <1>2, <1>3, SamplingAsks DEF Asks
  <2>2. todo' = s
    BY <1>1
  <2> HIDE DEF s
  <2>3. QED
    BY <2>1, <2>2
<1>5. SelectTypeOK'
  BY <1>1, <1>2, <1>4 DEF SelectTypeOK
<1>6. Entered'
  BY <1>1, <1>2, <1>4 DEF Entered
<1>7. ASSUME NEW q \in Measured
      PROVE  Whole(q, 0)'
  <2>1. q \in Candidates /\ Len(samples[q]) \in Nat
    BY SelectLaws
  <2>2. Expected(q)' = Len(samples[q]) + IF q = p THEN Repeat ELSE 0
    BY <1>1, <1>4 DEF Expected
  <2>3. PICK k \in Nat \ {0} : Len(samples[q]) = Repeat * k + 0
    BY <1>1, <1>2, <2>1, NothingDue DEF SelectInv, Footing, Whole
  <2>4. CASE q = p
    <3>1. Repeat * (k + 1) = Repeat * k + Repeat /\ Repeat * k \in Nat /\ k + 1 \in Nat \ {0}
      BY <1>3
    <3>2. Expected(q)' = Repeat * (k + 1) + 0
      BY <1>3, <2>2, <2>3, <2>4, <3>1
    <3>3. QED
      BY <3>1, <3>2 DEF Whole
  <2>5. CASE q # p
    <3>1. Expected(q)' = Repeat * k + 0
      BY <2>1, <2>2, <2>3, <2>5
    <3>2. QED
      BY <3>1 DEF Whole
  <2>6. QED
    BY <2>4, <2>5
<1>8. Footing'
  BY <1>1, <1>7 DEF Footing
<1>9. Disturbances'
  BY <1>1 DEF SelectInv, Disturbances
<1>10. Won' /\ BudgetRespected'
  BY <1>1 DEF SelectInv, Won, BudgetRespected
<1>11. QED
  BY <1>5, <1>6, <1>8, <1>9, <1>10 DEF SelectInv
LEMMA BurstBeginsKeeps ==
  ASSUME SelectInv, BurstBegins
  PROVE  SelectInv'
<1>1. /\ burst = -1 /\ latency' = latency /\ order' = order /\ samples' = samples /\ todo' = todo
      /\ phase' = phase /\ winner' = winner /\ Measured' = Measured /\ burst' \in 1..BurstLength
  BY DEF BurstBegins, settingVars, Measured
<1>2. \A p, extra : Whole(p, extra)' <=> Whole(p, extra)
  BY <1>1 DEF Whole, Expected
<1>3. \A final : FinalistsOf(final)' <=> FinalistsOf(final)
  BY <1>1 DEF FinalistsOf
<1>4. Footing'
  BY <1>1, <1>2, <1>3 DEF SelectInv, Footing, Confirmed
<1>5. SelectTypeOK'
  BY <1>1, TimesAssumption DEF SelectInv, SelectTypeOK
<1>6. Entered'
  BY <1>1 DEF SelectInv, Entered
<1>7. Won'
  BY <1>1 DEF SelectInv, Won
<1>8. Disturbances'
  <2>1. burst' # -1 /\ 0 + burst' <= BurstLength
    <3>1. BurstLength \in Nat
      BY TimesAssumption
    <3>2. burst' \in Nat /\ 1 <= burst' /\ burst' <= BurstLength
      BY <1>1, <3>1
    <3>3. QED
      BY <3>2
  <2>2. \A p \in Candidates : CountIn(samples[p], Nat \ {latency[p]}) = 0
    BY <1>1 DEF SelectInv, Disturbances
  <2>3. QED
    BY <1>1, <2>1, <2>2 DEF SelectInv, Disturbances
<1>9. BudgetRespected'
  BY <1>1 DEF SelectInv, BudgetRespected
<1>10. QED
  BY <1>4, <1>5, <1>6, <1>7, <1>8, <1>9 DEF SelectInv

LEMMA MeasureKeeps ==
  ASSUME SelectInv, Measure
  PROVE  SelectInv'
<1> DEFINE m == Head(todo)
           p == m.plan
           taken == latency[p] + IF Disturbed THEN Slow ELSE 0
<1>1. /\ phase \in {"measure", "confirm"} /\ todo # <<>> /\ todo' = Tail(todo)
      /\ samples' = (IF m.kept THEN [samples EXCEPT ![p] = Append(@, taken)] ELSE samples)
      /\ burst' \in NextBurst /\ latency' = latency /\ phase' = phase /\ order' = order
      /\ winner' = winner /\ Measured' = Measured
  BY DEF Measure, settingVars, Measured
<1>2. SelectTypeOK /\ Entered /\ Footing /\ Disturbances
  BY DEF SelectInv
<1>3. m \in Entries /\ todo' \in Seq(Entries) /\ p \in Measured
      /\ \A i \in DOMAIN todo' : todo'[i].plan \in Measured
  <2> DEFINE n == Len(todo)
             t == Tail(todo)
  <2>1. todo \in Seq(Entries)
    BY <1>2 DEF SelectTypeOK
  <2>2. n \in Nat \ {0} /\ DOMAIN todo = 1..n /\ DOMAIN t = 1..n - 1 /\ t \in Seq(Entries)
        /\ m = todo[1] /\ m \in Entries /\ \A i \in 1..n - 1 : t[i] = todo[i + 1]
    BY <1>1, <2>1
  <2>3. \A i \in 1..n : todo[i].plan \in Measured
    BY <1>2, <2>2 DEF Entered
  <2>4. todo' = t
    BY <1>1
  <2> HIDE DEF n, t
  <2>5. 1 \in 1..n /\ \A i \in 1..n - 1 : i + 1 \in 1..n
    BY <2>2
  <2>6. QED
    BY <2>2, <2>3, <2>4, <2>5
<1>4. p \in Candidates /\ m.kept \in BOOLEAN /\ \A q : m = Wanted(q) <=> (m.kept /\ q = p)
  <2>1. p \in Candidates /\ m.kept \in BOOLEAN
    BY <1>3 DEF Entries
  <2>2. m = [plan |-> p, kept |-> m.kept]
    BY <1>3 DEF Entries
  <2>3. ASSUME NEW q
        PROVE  m = Wanted(q) <=> (m.kept /\ q = p)
    <3>1. m = Wanted(q) => m.kept /\ q = p
      BY WantedLaws
    <3>2. m.kept /\ q = p => m = Wanted(q)
      BY <2>1, <2>2 DEF Wanted
    <3>3. QED
      BY <3>1, <3>2
  <2>4. QED
    BY <2>1, <2>3
<1>5. /\ taken \in Nat /\ latency[p] <= taken /\ (burst <= 0 => taken = latency[p])
      /\ samples[p] \in Seq(Nat) /\ samples \in [Candidates -> Seq(Nat)]
      /\ latency \in [Candidates -> Nat]
  <2>1. latency[p] \in Nat /\ Slow \in Nat /\ burst \in Int
    BY <1>2, <1>4, TimesAssumption DEF SelectTypeOK
  <2>2. QED
    BY <1>2, <1>4, <2>1 DEF SelectTypeOK, Disturbed
<1> HIDE DEF m, taken
<1> DEFINE here(q) == m.kept /\ q = p
<1>6. ASSUME NEW q \in Candidates
      PROVE  samples'[q] = IF here(q) THEN Append(samples[q], taken) ELSE samples[q]
  BY <1>1, <1>4, <1>5
<1>7. ASSUME NEW q \in Candidates
      PROVE  /\ CountIn(todo', {Wanted(q)}) \in Nat
             /\ CountIn(todo, {Wanted(q)})
                  = CountIn(todo', {Wanted(q)}) + (IF here(q) THEN 1 ELSE 0)
  <2>1. todo \in Seq(Entries) /\ todo # <<>> /\ Head(todo) = m
    BY <1>1, <1>2 DEF SelectTypeOK, m
  <2>2. CountIn(todo, {Wanted(q)})
          = CountIn(Tail(todo), {Wanted(q)}) + (IF Head(todo) \in {Wanted(q)} THEN 1 ELSE 0)
    BY <2>1, CountTail
  <2>3. Head(todo) \in {Wanted(q)} <=> here(q)
    BY <1>4, <2>1
  <2>4. CountIn(todo', {Wanted(q)}) \in Nat
    BY <1>3, CountType
  <2>5. todo' = Tail(todo)
    BY <1>1
  <2>6. QED
    BY <2>2, <2>3, <2>4, <2>5
<1>8. ASSUME NEW q \in Candidates
      PROVE  Expected(q)' = Expected(q)
  <2> DEFINE a == Len(samples[q])
             b == CountIn(todo, {Wanted(q)})
             c == CountIn(todo', {Wanted(q)})
             d == Len(samples'[q])
  <2>1. a \in Nat /\ b \in Nat /\ c \in Nat
    BY <1>7, SelectLaws
  <2>2. d = a + (IF here(q) THEN 1 ELSE 0)
    <3>1. samples[q] \in Seq(Nat) /\ taken \in Nat
      BY <1>5
    <3>2. Len(Append(samples[q], taken)) = a + 1
      BY <3>1
    <3>3. CASE here(q)
      BY <1>6, <3>2, <3>3
    <3>4. CASE ~here(q)
      <4>1. samples'[q] = samples[q]
        BY <1>6, <3>4
      <4>2. d = a
        BY <4>1
      <4> HIDE DEF a, d, here
      <4>3. QED
        BY <2>1, <3>4, <4>2
    <3>5. QED
      BY <3>3, <3>4
  <2>3. b = c + (IF here(q) THEN 1 ELSE 0)
    BY <1>7
  <2>4. Expected(q) = a + b /\ Expected(q)' = d + c
    BY DEF Expected
  <2> HIDE DEF a, b, c, d, here
  <2>5. QED
    BY <2>1, <2>2, <2>3, <2>4
<1>9. SelectTypeOK'
  <2>1. samples' \in [Candidates -> Seq(Nat)]
    <3>1. Append(samples[p], taken) \in Seq(Nat)
      BY <1>5
    <3>2. QED
      BY <1>1, <1>4, <1>5, <3>1
  <2>2. burst' \in Nat \cup {-1}
    BY <1>1, <1>2 DEF SelectTypeOK, NextBurst
  <2>3. QED
    BY <1>1, <1>2, <1>3, <2>1, <2>2 DEF SelectTypeOK
<1>10. Entered'
  <2>1. \A q \in Candidates \ Measured : samples'[q] = <<>>
    BY <1>2, <1>3, <1>6 DEF Entered
  <2>2. QED
    BY <1>1, <1>2, <1>3, <2>1 DEF Entered
<1>11. Footing'
  <2>1. \A q \in Measured : \A extra : Whole(q, extra) => Whole(q, extra)'
    BY <1>8, SelectLaws DEF Whole
  <2>2. \A final : FinalistsOf(final) => FinalistsOf(final)'
    BY <1>1 DEF FinalistsOf
  <2>3. \A final : Confirmed(final) => Confirmed(final)'
    BY <1>1, <2>1 DEF Confirmed
  <2>4. QED
    BY <1>1, <1>2, <2>1, <2>2, <2>3 DEF Footing
<1>12. Disturbances'
  <2> SUFFICES ASSUME NEW q \in Candidates
               PROVE  /\ \A i \in DOMAIN samples'[q] : latency[q] <= samples'[q][i]
                      /\ burst' = -1 => CountIn(samples'[q], Nat \ {latency[q]}) = 0
                      /\ burst' # -1 => CountIn(samples'[q], Nat \ {latency[q]}) + burst' <= BurstLength
    BY <1>1 DEF Disturbances
  <2> DEFINE s == samples[q]
             l == latency[q]
             a == CountIn(s, Nat \ {l})
             b == CountIn(samples'[q], Nat \ {l})
  <2>1. /\ \A i \in DOMAIN s : l <= s[i]
        /\ burst = -1 => a = 0
        /\ burst # -1 => a + burst <= BurstLength
        /\ a \in Nat /\ s \in Seq(Nat) /\ l \in Nat
    BY <1>2, <1>5, SelectLaws DEF Disturbances
  <2>2. /\ burst \in Nat \cup {-1} /\ BurstLength \in Nat
        /\ burst > 0 => burst' = burst - 1
        /\ ~(burst > 0) => burst' = burst
    BY <1>1, <1>2, TimesAssumption DEF SelectTypeOK, NextBurst
  <2>3. CASE here(q)
    <3>1. q = p /\ samples'[q] = Append(s, taken) /\ l = latency[p]
      BY <1>6, <2>3
    <3>2. \A i \in DOMAIN samples'[q] : l <= samples'[q][i]
      <4> DEFINE t == Append(s, taken)
                 n == Len(s)
      <4>1. /\ n \in Nat /\ DOMAIN s = 1..n /\ DOMAIN t = 1..n + 1 /\ t[n + 1] = taken
            /\ \A i \in 1..n : t[i] = s[i]
        BY <1>5, <2>1
      <4> HIDE DEF t, n
      <4>2. \A i \in 1..n + 1 : i \in 1..n \/ i = n + 1
        BY <4>1
      <4>3. \A i \in DOMAIN t : l <= t[i]
        BY <1>5, <2>1, <3>1, <4>1, <4>2
      <4>4. QED
        BY <3>1, <4>3 DEF t
    <3>3. b = a + (IF taken \in Nat \ {l} THEN 1 ELSE 0)
      <4>1. s \in Seq(Nat) /\ taken \in Nat
        BY <1>5, <2>1
      <4>2. CountIn(Append(s, taken), Nat \ {l})
              = CountIn(s, Nat \ {l}) + (IF taken \in Nat \ {l} THEN 1 ELSE 0)
        BY <4>1, CountAppend
      <4>3. QED
        BY <3>1, <4>2, Zenon
    <3>4. burst <= 0 => taken = l
      BY <1>5, <3>1
    <3>5. burst <= 0 => b = a
      BY <2>1, <3>3, <3>4
    <3>6. b <= a + 1 /\ b \in Nat
      BY <2>1, <3>3
    <3> HIDE DEF a, b, s, l
    <3>7. (burst' = -1 => b = 0) /\ (burst' # -1 => b + burst' <= BurstLength)
      BY <2>1, <2>2, <3>5, <3>6
    <3>8. QED
      BY <3>2, <3>7 DEF b, l
  <2>4. CASE ~here(q)
    <3>1. samples'[q] = s
      BY <1>6, <2>4
    <3>2. b = a
      BY <3>1
    <3> HIDE DEF a, b
    <3>3. (burst' = -1 => b = 0) /\ (burst' # -1 => b + burst' <= BurstLength)
      BY <2>1, <2>2, <3>2
    <3>4. QED
      BY <2>1, <3>1, <3>3 DEF b
  <2>5. QED
    BY <2>3, <2>4
<1>13. Won'
  BY <1>1 DEF Won
<1>14. BudgetRespected'
  BY <1>1 DEF SelectInv, BudgetRespected
<1>15. QED
  BY <1>9, <1>10, <1>11, <1>12, <1>13, <1>14 DEF SelectInv

LEMMA BackToChoosingKeeps ==
  ASSUME SelectInv, BackToChoosing
  PROVE  SelectInv'
<1>1. /\ phase = "measure" /\ phase' = "choose" /\ todo = <<>> /\ latency' = latency
      /\ order' = order /\ samples' = samples /\ todo' = todo /\ burst' = burst
      /\ Measured' = Measured
  BY DEF BackToChoosing, settingVars, Measured
<1>2. \A p, extra : Whole(p, extra)' <=> Whole(p, extra)
  BY <1>1 DEF Whole, Expected
<1>3. Footing'
  BY <1>1, <1>2 DEF SelectInv, Footing
<1>4. SelectTypeOK'
  BY <1>1 DEF SelectInv, SelectTypeOK
<1>5. Entered'
  BY <1>1 DEF SelectInv, Entered
<1>6. Won'
  BY <1>1 DEF Won
<1>7. Disturbances'
  BY <1>1 DEF SelectInv, Disturbances
<1>8. BudgetRespected'
  BY <1>1 DEF SelectInv, BudgetRespected
<1>9. QED
  BY <1>3, <1>4, <1>5, <1>6, <1>7, <1>8 DEF SelectInv

LEMMA PickWinnerKeeps ==
  ASSUME SelectInv, PickWinner
  PROVE  SelectInv'
<1>1. /\ phase = "confirm" /\ phase' = "done" /\ todo = <<>> /\ order # <<>>
      /\ winner' = Fastest /\ latency' = latency /\ order' = order /\ samples' = samples
      /\ todo' = todo /\ burst' = burst /\ Measured' = Measured
  BY DEF PickWinner, settingVars, Measured
<1>2. SelectTypeOK /\ Disturbances /\ Measured \subseteq Candidates /\ Measured # {}
      /\ IsFiniteSet(Measured)
  BY <1>1, SelectLaws DEF SelectInv
<1>3. Sampled /\ \A p \in Measured : Repeat <= Len(samples[p])
  BY <1>1, SettledIsSampled
<1>4. Fastest \in Measured /\ \A q \in Measured : ~Faster(q, Fastest)
  BY <1>2, <1>3, FastestIsLeast
<1>5. ASSUME 2 * BurstLength <= Repeat
      PROVE  \A p \in Measured : MedianSample(samples[p]) = latency[p] /\ latency[p] \in Nat
  <2> SUFFICES ASSUME NEW p \in Measured
               PROVE  MedianSample(samples[p]) = latency[p] /\ latency[p] \in Nat
    OBVIOUS
  <2> DEFINE s == samples[p]
             a == CountIn(s, Nat \ {latency[p]})
             n == Len(s)
  <2>1. /\ p \in Candidates /\ s \in Seq(Nat) /\ s # <<>> /\ latency[p] \in Nat
        /\ \A i \in DOMAIN s : latency[p] <= s[i]
    BY <1>2, <1>3 DEF SelectTypeOK, Sampled, Disturbances
  <2>2. a \in Nat /\ n \in Nat /\ BurstLength \in Nat /\ Repeat \in Nat /\ Repeat <= n
    BY <1>3, <2>1, SelectLaws, TimesAssumption, ConfigAssumption
  <2>3. a <= BurstLength
    <3>1. burst \in Nat \cup {-1}
      BY <1>2 DEF SelectTypeOK
    <3>2. (burst = -1 => a = 0) /\ (burst # -1 => a + burst <= BurstLength)
      BY <1>2, <2>1 DEF Disturbances
    <3> HIDE DEF a
    <3>3. QED
      BY <2>2, <3>1, <3>2
  <2> HIDE DEF a, n
  <2>4. 2 * a <= n
    BY <1>5, <2>2, <2>3
  <2>5. QED
    BY <2>1, <2>4, MedianOfMost DEF a, n
<1>6. Won'
  <2>1. ASSUME 2 * BurstLength <= Repeat, NEW p \in Measured
        PROVE  latency[Fastest] <= latency[p]
    <3>1. ~(MedianSample(samples[p]) < MedianSample(samples[Fastest]))
      BY <1>4, Zenon DEF Faster
    <3>2. ~(latency[p] < latency[Fastest]) /\ latency[p] \in Nat /\ latency[Fastest] \in Nat
      BY <1>4, <1>5, <2>1, <3>1
    <3>3. QED
      BY <3>2
  <2>2. QED
    BY <1>1, <1>4, <2>1 DEF Won
<1>7. \A p, extra : Whole(p, extra)' <=> Whole(p, extra)
  BY <1>1 DEF Whole, Expected
<1>8. \A final : FinalistsOf(final)' <=> FinalistsOf(final)
  BY <1>1 DEF FinalistsOf
<1>9. Footing'
  BY <1>1, <1>7, <1>8 DEF SelectInv, Footing, Confirmed
<1>10. SelectTypeOK'
  BY <1>1 DEF SelectInv, SelectTypeOK
<1>11. Entered'
  BY <1>1 DEF SelectInv, Entered
<1>12. Disturbances'
  BY <1>1 DEF SelectInv, Disturbances
<1>13. BudgetRespected'
  BY <1>1 DEF SelectInv, BudgetRespected
<1>14. QED
  BY <1>6, <1>9, <1>10, <1>11, <1>12, <1>13 DEF SelectInv

LEMMA SelectKeeps ==
  SelectInv /\ [SelectNext]_selectVars => SelectInv'
<1> SUFFICES ASSUME SelectInv, [SelectNext]_selectVars PROVE SelectInv'
  OBVIOUS
<1>1. ASSUME NEW p, StopChoosing(p) \/ RefuseForeign(p) \/ ChooseNew(p) \/ ChooseAgain(p)
      PROVE  SelectInv'
  <2>1. CASE StopChoosing(p)
    BY <2>1, StopChoosingKeeps
  <2>2. CASE RefuseForeign(p)
    BY <2>2, Raised DEF RefuseForeign
  <2>3. CASE ChooseNew(p)
    BY <2>3, ChooseNewKeeps
  <2>4. CASE ChooseAgain(p)
    BY <2>4, ChooseAgainKeeps
  <2>5. QED
    BY <1>1, <2>1, <2>2, <2>3, <2>4
<1>2. CASE Measure
  BY <1>2, MeasureKeeps
<1>3. CASE MeasureRaises
  BY <1>3, Raised DEF MeasureRaises
<1>4. CASE BackToChoosing
  BY <1>4, BackToChoosingKeeps
<1>5. CASE PickWinner
  BY <1>5, PickWinnerKeeps
<1>6. CASE NothingMeasured
  BY <1>6, Raised DEF NothingMeasured
<1>7. CASE BurstBegins
  BY <1>7, BurstBeginsKeeps
<1>8. CASE UNCHANGED selectVars
  BY <1>8, SelectStutters
<1>9. QED
  BY <1>1, <1>2, <1>3, <1>4, <1>5, <1>6, <1>7, <1>8 DEF SelectNext, SelectStep

LEMMA SelectInvariant ==
  SelectSpec => []SelectInv
<1>1. QED
  BY SelectStarts, SelectKeeps, PTL DEF SelectSpec

LEMMA FootingIsEven ==
  SelectInv => EvenFooting
<1> SUFFICES ASSUME SelectInv, phase = "done", Repeat > CONFIRM_ROUNDS,
                    NEW confirmed, confirmed = {p \in Measured : Len(samples[p]) % Repeat # 0}
             PROVE  /\ Cardinality(confirmed) = IF Len(order) < CONFIRM_FINALISTS THEN 0
                                                ELSE CONFIRM_FINALISTS
                    /\ \A p \in confirmed : Len(samples[p]) % Repeat = CONFIRM_ROUNDS
  BY DEF EvenFooting
<1>1. PICK final : FinalistsOf(final) /\ Confirmed(final)
  BY DEF SelectInv, Footing
<1>2. ASSUME NEW p \in Measured
      PROVE  Len(samples[p]) % Repeat = IF p \in final THEN CONFIRM_ROUNDS ELSE 0
  <2> DEFINE extra == IF p \in final THEN CONFIRM_ROUNDS ELSE 0
  <2>1. Repeat \in Nat \ {0} /\ extra \in 0..Repeat - 1
    BY ConfigAssumption DEF CONFIRM_ROUNDS
  <2>2. PICK k \in Nat \ {0} : Expected(p) = Repeat * k + extra
    BY <1>1 DEF Confirmed, Whole
  <2>3. Len(samples[p]) = Repeat * k + extra
    BY <2>2, SelectLaws, NothingDue DEF SelectInv, Entered
  <2> HIDE DEF extra
  <2>4. (Repeat * k + extra) % Repeat = extra
    BY <2>1, <2>2, DivideUnique
  <2>5. QED
    BY <2>3, <2>4 DEF extra
<1>3. confirmed = final
  BY <1>1, <1>2 DEF FinalistsOf, CONFIRM_ROUNDS
<1>4. QED
  BY <1>1, <1>2, <1>3 DEF FinalistsOf

-----------------------------------------------------------------------------
(* Whatever choose_next returns, no more than maxnum plans are measured. *)
THEOREM BudgetKept ==
  SelectSpec => []BudgetRespected
<1>1. SelectInv => BudgetRespected
  BY DEF SelectInv
<1>2. QED
  BY <1>1, SelectInvariant, PTL

(* In the end every measured plan has whole rounds of samples, and exactly the
   two finalists have the confirming rounds on top. *)
THEOREM FootingKept ==
  SelectSpec => []EvenFooting
<1>1. QED
  BY FootingIsEven, SelectInvariant, PTL

(* What select() returns is a choice that Tuned of SelectionCache may take: some
   candidates were measured and the winner is one of them. *)
THEOREM WinnerIsMeasured ==
  SelectSpec => [](phase = "done" => Measured \in SUBSET Candidates /\ winner \in Measured)
<1>1. SelectInv => (phase = "done" => Measured \in SUBSET Candidates /\ winner \in Measured)
  BY SelectLaws DEF SelectInv, Won
<1>2. QED
  BY <1>1, SelectInvariant, PTL

(* A disturbance of no more than half the repeats of a plan, wherever it falls,
   does not cost the fastest measured plan its win. *)
THEOREM FastestWins ==
  ASSUME 2 * BurstLength <= Repeat
  PROVE  SelectSpec => []FastestMeasuredWins
<1>1. SelectInv => FastestMeasuredWins
  BY DEF SelectInv, Won, FastestMeasuredWins
<1>2. QED
  BY <1>1, SelectInvariant, PTL
=============================================================================
