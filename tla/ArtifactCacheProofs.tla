------------------------ MODULE ArtifactCacheProofs -------------------------
(***************************************************************************)
(* Proofs about ArtifactCache, for every set of processes, requests and    *)
(* artifacts and any number of crashes and faults.                         *)
(***************************************************************************)
EXTENDS ArtifactCache, TLAPS

TypeOK ==
  /\ pc \in [Procs -> {"idle", "waiting"} \cup Holding]
  /\ request \in [Procs -> Requests \cup {Nobody}]
  /\ compiled \in [Procs -> SUBSET Requests]
  /\ loaded \in [Procs -> [Keys -> Objects]]
  /\ flock \in [Keys -> Procs \cup {Nobody}]
  /\ library \in [Keys -> Objects]
  /\ manifest \in [Keys -> BOOLEAN]
  /\ temporary \in [Procs -> Objects]

(* A process in compile() serves a request, and holds the lock it needs. *)
Serving ==
  \A p \in Procs :
    /\ pc[p] # "idle" => request[p] \in Requests
    /\ pc[p] \in Holding => flock[Key(p)] = p

(* What the steps of a build have achieved where it stands. *)
Progress ==
  \A p \in Procs :
    /\ pc[p] \in Building => ~manifest[Key(p)]
    /\ pc[p] = "replace" => temporary[p] = "complete"
    /\ pc[p] = "manifest" => library[Key(p)] = "complete"
    /\ pc[p] = "release" => Finished(Key(p))

(* Only whole libraries are put in place, and only finished artifacts are
   remembered by a process. *)
Whole ==
  /\ \A k \in Keys : library[k] # "partial"
  /\ \A p \in Procs : \A r \in compiled[p] : Finished(KeyOf[r])
  /\ \A p \in Procs, k \in Keys : loaded[p][k] # "partial"

(* The inductive invariant. *)
IInv == TypeOK /\ Serving /\ Progress /\ Whole /\ ManifestMeansLibrary

(* A process in compile() has a key. *)
LEMMA KeyType ==
  ASSUME IInv, NEW p \in Procs, pc[p] # "idle"
  PROVE  Key(p) \in Keys /\ request[p] \in Requests /\ request[p] # Nobody
  BY KeyOfAssumption, NobodyAssumption DEF IInv, Serving, Key

(* The flock excludes a second builder: two processes that hold the lock of
   one artifact are the same. *)
LEMMA LockExcludes ==
  ASSUME IInv
  PROVE  OneBuilder
  BY DEF IInv, Serving, OneBuilder

-----------------------------------------------------------------------------
LEMMA InitIInv == Init => IInv
  BY DEF Init, IInv, TypeOK, Serving, Progress, Whole, ManifestMeansLibrary, Finished, Holding,
         Building, Objects

LEMMA BeginStep ==
  ASSUME IInv, NEW p \in Procs, NEW r \in Requests, Begin(p, r)
  PROVE  IInv'
<1>1. TypeOK'
  BY DEF IInv, TypeOK, Begin, diskVars
<1>2. \A q \in Procs : q # p => pc'[q] = pc[q] /\ Key(q)' = Key(q) /\ request'[q] = request[q]
  BY DEF IInv, TypeOK, Begin, Key
<1>3. pc'[p] = "waiting" /\ request'[p] = r
  BY DEF IInv, TypeOK, Begin
<1>4. Serving'
  BY <1>2, <1>3 DEF IInv, Serving, Begin, Holding, Building
<1>5. Progress' /\ Whole' /\ ManifestMeansLibrary'
  BY <1>2, <1>3 DEF IInv, Progress, Whole, ManifestMeansLibrary, Finished, Begin, diskVars, Building
<1>6. QED
  BY <1>1, <1>4, <1>5 DEF IInv

LEMMA AcquireStep ==
  ASSUME IInv, NEW p \in Procs, Acquire(p)
  PROVE  IInv'
<1>1. Key(p) \in Keys /\ \A q \in Procs : Key(q)' = Key(q)
  BY KeyType DEF Acquire, Key
<1>2. TypeOK'
  BY <1>1 DEF IInv, TypeOK, Acquire, diskVars, Holding, Building
<1>3. \A q \in Procs : q # p => pc'[q] = pc[q]
  BY DEF IInv, TypeOK, Acquire
<1>4. \A q \in Procs : pc[q] \in Holding => Key(q) # Key(p)
  BY NobodyAssumption DEF IInv, Serving, Acquire
<1>5. flock'[Key(p)] = p /\ \A k \in Keys : k # Key(p) => flock'[k] = flock[k]
  BY <1>1 DEF IInv, TypeOK, Acquire
<1>6. Serving'
  <2>1. ASSUME NEW q \in Procs, pc'[q] \in Holding
        PROVE  flock'[Key(q)'] = q
    <3>1. CASE q = p
      BY <1>1, <1>5, <3>1
    <3>2. CASE q # p
      <4>1. pc[q] \in Holding /\ pc[q] # "idle"
        BY <1>3, <2>1, <3>2 DEF Holding, Building
      <4>2. QED
        BY <1>1, <1>4, <1>5, <4>1, KeyType DEF IInv, Serving
    <3>3. QED
      BY <3>1, <3>2
  <2>2. QED
    BY <1>3, <2>1 DEF IInv, Serving, Acquire
<1>7. pc'[p] = IF Missing(Key(p)) THEN "source" ELSE "release"
  BY DEF IInv, TypeOK, Acquire
<1>8. Missing(Key(p)) => ~manifest[Key(p)]
  BY <1>1 DEF IInv, ManifestMeansLibrary, Missing
<1>9. ~Missing(Key(p)) => Finished(Key(p))
  BY <1>1 DEF IInv, TypeOK, Whole, Missing, Finished, Objects
<1>10. Progress'
  BY <1>1, <1>3, <1>7, <1>8, <1>9 DEF IInv, Progress, Acquire, diskVars, Finished, Building
<1>11. Whole' /\ ManifestMeansLibrary'
  BY DEF IInv, Whole, ManifestMeansLibrary, Finished, Acquire, diskVars
<1>12. QED
  BY <1>2, <1>6, <1>10, <1>11 DEF IInv

(* A step of a builder within its build: the lock stays, and the artifacts of
   all other holders are other artifacts. *)
LEMMA OthersHoldOthers ==
  ASSUME IInv, NEW p \in Procs, pc[p] \in Holding
  PROVE  \A q \in Procs : q # p /\ pc[q] \in Holding => Key(q) # Key(p)
  BY DEF IInv, Serving

LEMMA WriteSourceStep ==
  ASSUME IInv, NEW p \in Procs, WriteSource(p)
  PROVE  IInv'
<1>1. TypeOK'
  BY DEF IInv, TypeOK, WriteSource, Holding, Building, Objects
<1>2. /\ \A q \in Procs : Key(q)' = Key(q)
      /\ \A q \in Procs : q # p => pc'[q] = pc[q] /\ temporary'[q] = temporary[q]
      /\ pc'[p] = "gcc"
  BY DEF IInv, TypeOK, WriteSource, Key
<1>3. Serving'
  BY <1>2 DEF IInv, Serving, WriteSource, Holding, Building
<1>4. Progress'
  BY <1>2 DEF IInv, Progress, WriteSource, Finished, Building
<1>5. Whole' /\ ManifestMeansLibrary'
  BY DEF IInv, Whole, ManifestMeansLibrary, Finished, WriteSource
<1>6. QED
  BY <1>1, <1>3, <1>4, <1>5 DEF IInv

LEMMA GccSucceedsStep ==
  ASSUME IInv, NEW p \in Procs, GccSucceeds(p)
  PROVE  IInv'
<1>1. TypeOK'
  BY DEF IInv, TypeOK, GccSucceeds, Holding, Building, Objects
<1>2. /\ \A q \in Procs : Key(q)' = Key(q)
      /\ \A q \in Procs : q # p => pc'[q] = pc[q] /\ temporary'[q] = temporary[q]
      /\ pc'[p] = "replace" /\ temporary'[p] = "complete"
  BY DEF IInv, TypeOK, GccSucceeds, Key
<1>3. Serving'
  BY <1>2 DEF IInv, Serving, GccSucceeds, Holding, Building
<1>4. Progress'
  BY <1>2 DEF IInv, Progress, GccSucceeds, Finished, Building
<1>5. Whole' /\ ManifestMeansLibrary'
  BY DEF IInv, Whole, ManifestMeansLibrary, Finished, GccSucceeds
<1>6. QED
  BY <1>1, <1>3, <1>4, <1>5 DEF IInv

-----------------------------------------------------------------------------
(* A process leaves compile(): its lock is free and its request forgotten. *)
LEMMA LeavingStep ==
  ASSUME IInv, NEW p \in Procs, pc[p] \in Holding,
         pc' = [pc EXCEPT ![p] = "idle"],
         request' = [request EXCEPT ![p] = Nobody],
         flock' = [flock EXCEPT ![Key(p)] = Nobody],
         temporary' \in [Procs -> Objects],
         \A q \in Procs : q # p => temporary'[q] = temporary[q],
         compiled' \in [Procs -> SUBSET Requests],
         \A q \in Procs : \A r \in compiled'[q] : Finished(KeyOf[r]),
         UNCHANGED <<loaded, library, manifest>>
  PROVE  IInv'
<1>1. Key(p) \in Keys
  BY KeyType DEF Holding, Building
<1>2. TypeOK'
  BY <1>1 DEF IInv, TypeOK
<1>3. /\ pc'[p] = "idle"
      /\ \A q \in Procs : q # p => pc'[q] = pc[q] /\ request'[q] = request[q] /\ Key(q)' = Key(q)
  BY DEF IInv, TypeOK, Key
<1>4. \A q \in Procs : q # p /\ pc[q] \in Holding => Key(q) # Key(p) /\ Key(q) \in Keys
  BY OthersHoldOthers, KeyType DEF Holding, Building
<1>5. \A k \in Keys : k # Key(p) => flock'[k] = flock[k]
  BY DEF IInv, TypeOK
<1>6. Serving'
  BY <1>3, <1>4, <1>5 DEF IInv, Serving, Holding, Building
<1>7. Progress'
  BY <1>3 DEF IInv, Progress, Finished, Building
<1>8. Whole' /\ ManifestMeansLibrary'
  BY DEF IInv, Whole, ManifestMeansLibrary, Finished
<1>9. QED
  BY <1>2, <1>6, <1>7, <1>8 DEF IInv

LEMMA GccFailsStep ==
  ASSUME IInv, NEW p \in Procs, GccFails(p)
  PROVE  IInv'
<1>1. /\ temporary' \in [Procs -> Objects]
      /\ \A q \in Procs : q # p => temporary'[q] = temporary[q]
  BY DEF IInv, TypeOK, GccFails, Objects
<1>2. /\ compiled' \in [Procs -> SUBSET Requests]
      /\ \A q \in Procs : \A r \in compiled'[q] : Finished(KeyOf[r])
  BY DEF IInv, TypeOK, Whole, GccFails
<1>3. QED
  BY <1>1, <1>2, LeavingStep DEF GccFails, Holding, Building

LEMMA DiskErrorStep ==
  ASSUME IInv, NEW p \in Procs, DiskError(p)
  PROVE  IInv'
<1>1. /\ temporary' \in [Procs -> Objects]
      /\ \A q \in Procs : q # p => temporary'[q] = temporary[q]
  BY DEF IInv, TypeOK, DiskError, diskVars
<1>2. /\ compiled' \in [Procs -> SUBSET Requests]
      /\ \A q \in Procs : \A r \in compiled'[q] : Finished(KeyOf[r])
  BY DEF IInv, TypeOK, Whole, DiskError
<1>3. QED
  BY <1>1, <1>2, LeavingStep DEF DiskError, diskVars, Holding, Building

LEMMA FinishStep ==
  ASSUME IInv, NEW p \in Procs, Finish(p)
  PROVE  IInv'
<1>1. /\ temporary' \in [Procs -> Objects]
      /\ \A q \in Procs : q # p => temporary'[q] = temporary[q]
  BY DEF IInv, TypeOK, Finish, diskVars
<1>2. request[p] \in Requests /\ Finished(KeyOf[request[p]])
  BY KeyType DEF IInv, Progress, Finish, Key
<1>3. /\ compiled' \in [Procs -> SUBSET Requests]
      /\ \A q \in Procs : \A r \in compiled'[q] : Finished(KeyOf[r])
  BY <1>2 DEF IInv, TypeOK, Whole, Finish
<1>4. QED
  BY <1>1, <1>3, LeavingStep DEF Finish, diskVars, Holding, Building

-----------------------------------------------------------------------------
LEMMA ReplaceLibraryStep ==
  ASSUME IInv, NEW p \in Procs, ReplaceLibrary(p)
  PROVE  IInv'
<1>1. Key(p) \in Keys /\ temporary[p] = "complete"
  BY KeyType DEF IInv, Progress, ReplaceLibrary
<1>2. TypeOK'
  BY <1>1 DEF IInv, TypeOK, ReplaceLibrary, Holding, Building, Objects
<1>3. /\ \A q \in Procs : Key(q)' = Key(q)
      /\ \A q \in Procs : q # p => pc'[q] = pc[q] /\ temporary'[q] = temporary[q]
      /\ pc'[p] = "manifest"
  BY DEF IInv, TypeOK, ReplaceLibrary, Key
<1>4. library'[Key(p)] = "complete" /\ \A k \in Keys : library'[k] \in {library[k], "complete"}
  BY <1>1 DEF IInv, TypeOK, ReplaceLibrary
<1>5. \A k \in Keys : Finished(k) => Finished(k)'
  BY <1>4 DEF Finished, ReplaceLibrary
<1>6. \A q \in Procs : pc[q] # "idle" => Key(q) \in Keys
  BY KeyType
<1>7. Serving'
  BY <1>3 DEF IInv, Serving, ReplaceLibrary, Holding, Building
<1>8. Progress'
  BY <1>3, <1>4, <1>5, <1>6 DEF IInv, Progress, ReplaceLibrary, Building
<1>9. Whole' /\ ManifestMeansLibrary'
  BY <1>4, <1>5, KeyOfAssumption DEF IInv, TypeOK, Whole, ManifestMeansLibrary, ReplaceLibrary
<1>10. QED
  BY <1>2, <1>7, <1>8, <1>9 DEF IInv

LEMMA WriteManifestStep ==
  ASSUME IInv, NEW p \in Procs, WriteManifest(p)
  PROVE  IInv'
<1>1. Key(p) \in Keys /\ library[Key(p)] = "complete" /\ pc[p] \in Holding
  BY KeyType DEF IInv, Progress, WriteManifest, Holding, Building
<1>2. TypeOK'
  BY <1>1 DEF IInv, TypeOK, WriteManifest, Holding, Building
<1>3. /\ \A q \in Procs : Key(q)' = Key(q)
      /\ \A q \in Procs : q # p => pc'[q] = pc[q]
      /\ pc'[p] = "release"
  BY DEF IInv, TypeOK, WriteManifest, Key
<1>4. manifest'[Key(p)] /\ \A k \in Keys : k # Key(p) => manifest'[k] = manifest[k]
  BY <1>1 DEF IInv, TypeOK, WriteManifest
<1>5. \A k \in Keys : Finished(k) => Finished(k)'
  BY <1>4 DEF Finished, WriteManifest
<1>6. Finished(Key(p))'
  BY <1>1, <1>3, <1>4 DEF Finished, WriteManifest
<1>7. \A q \in Procs : q # p /\ pc[q] \in Building => Key(q) \in Keys /\ Key(q) # Key(p)
  BY <1>1, KeyType, OthersHoldOthers DEF Holding, Building
<1>8. \A q \in Procs : pc[q] # "idle" => Key(q) \in Keys
  BY KeyType
<1>9. Serving'
  BY <1>3 DEF IInv, Serving, WriteManifest, Holding, Building
<1>10. Progress'
  <2>1. ASSUME NEW q \in Procs, q # p
        PROVE  /\ pc'[q] \in Building => ~manifest'[Key(q)']
               /\ pc'[q] = "replace" => temporary'[q] = "complete"
               /\ pc'[q] = "manifest" => library'[Key(q)'] = "complete"
               /\ pc'[q] = "release" => Finished(Key(q))'
    BY <1>3, <1>4, <1>5, <1>7, <1>8, <2>1 DEF IInv, Progress, WriteManifest
  <2>2. QED
    BY <1>3, <1>6, <2>1 DEF Progress, Building
<1>11. Whole' /\ ManifestMeansLibrary'
  BY <1>1, <1>4, <1>5, KeyOfAssumption
  DEF IInv, TypeOK, Whole, ManifestMeansLibrary, WriteManifest
<1>12. QED
  BY <1>2, <1>9, <1>10, <1>11 DEF IInv

-----------------------------------------------------------------------------
LEMMA LoadStep ==
  ASSUME IInv, NEW p \in Procs, NEW r \in Requests, Load(p, r)
  PROVE  IInv'
<1>1. KeyOf[r] \in Keys /\ library[KeyOf[r]] = "complete"
  BY KeyOfAssumption DEF IInv, Whole, Load, Finished
<1>2. loaded' \in [Procs -> [Keys -> Objects]]
  BY <1>1 DEF IInv, TypeOK, Load, Objects
<1>3. \A q \in Procs, k \in Keys : loaded'[q][k] \in {loaded[q][k], "complete"}
  BY <1>1 DEF IInv, TypeOK, Load
<1>4. TypeOK'
  BY <1>2 DEF IInv, TypeOK, Load, diskVars
<1>5. Serving' /\ Progress' /\ Whole' /\ ManifestMeansLibrary'
  BY <1>3 DEF IInv, Serving, Progress, Whole, ManifestMeansLibrary, Finished, Key, Load, diskVars
<1>6. QED
  BY <1>4, <1>5 DEF IInv

LEMMA CrashStep ==
  ASSUME IInv, NEW p \in Procs, Crash(p)
  PROVE  IInv'
<1>1. TypeOK'
  BY DEF IInv, TypeOK, Crash, diskVars, Objects
<1>2. /\ pc'[p] = "idle"
      /\ \A q \in Procs : q # p => pc'[q] = pc[q] /\ request'[q] = request[q] /\ Key(q)' = Key(q)
  BY DEF IInv, TypeOK, Crash, Key
<1>3. \A k \in Keys : flock[k] # p => flock'[k] = flock[k]
  BY DEF Crash
<1>4. \A q \in Procs : pc[q] # "idle" => Key(q) \in Keys
  BY KeyType
<1>5. Serving'
  BY <1>2, <1>3, <1>4 DEF IInv, Serving, Holding, Building
<1>6. Progress'
  BY <1>2 DEF IInv, Progress, Finished, Crash, diskVars, Building
<1>7. /\ \A q \in Procs : compiled'[q] \subseteq compiled[q]
      /\ \A q \in Procs, k \in Keys : loaded'[q][k] \in {loaded[q][k], "absent"}
  BY DEF IInv, TypeOK, Crash
<1>8. Whole' /\ ManifestMeansLibrary'
  BY <1>7 DEF IInv, Whole, ManifestMeansLibrary, Finished, Crash, diskVars
<1>9. QED
  BY <1>1, <1>5, <1>6, <1>8 DEF IInv

LEMMA NextIInv ==
  ASSUME IInv, [Next]_vars
  PROVE  IInv'
<1>1. ASSUME Next
      PROVE  IInv'
  <2>1. PICK p \in Procs :
          \/ \E r \in Requests : Begin(p, r) \/ Load(p, r)
          \/ Acquire(p)
          \/ Work(p)
          \/ Crash(p)
    BY <1>1 DEF Next
  <2>2. CASE Work(p)
    BY <2>2, WriteSourceStep, GccSucceedsStep, GccFailsStep, ReplaceLibraryStep, WriteManifestStep,
       DiskErrorStep, FinishStep DEF Work
  <2>3. QED
    BY <2>1, <2>2, BeginStep, LoadStep, AcquireStep, CrashStep
<1>2. CASE UNCHANGED vars
  BY <1>2 DEF vars, diskVars, IInv, TypeOK, Serving, Progress, Whole, ManifestMeansLibrary,
              Finished, Key
<1>3. QED
  BY <1>1, <1>2

(* The invariant of the cache directory and of the compilers that share it
   holds in every behaviour, whatever crashes and fails in it. *)
THEOREM CacheInvariant ==
  Spec => []IInv
<1>1. IInv /\ [Next]_vars => IInv'
  BY NextIInv
<1>2. QED
  BY <1>1, InitIInv, PTL DEF Spec

(* Wherever builds die, a manifest stands only beside a whole library. *)
THEOREM ManifestsAreTrue ==
  Spec => []ManifestMeansLibrary
<1>1. IInv => ManifestMeansLibrary
  BY DEF IInv
<1>2. QED
  BY <1>1, CacheInvariant, PTL

(* No process maps a library that a build has not finished, although load
   runs outside the lock. *)
THEOREM LoadsAreWhole ==
  Spec => []LoadedIsComplete
<1>1. IInv => LoadedIsComplete
  BY KeyOfAssumption DEF IInv, Whole, LoadedIsComplete, Finished
<1>2. QED
  BY <1>1, CacheInvariant, PTL

(* No process builds an artifact that is finished, and no two build one. *)
THEOREM BuiltOnce ==
  Spec => [](FinishedIsNotRebuilt /\ OneBuilder)
<1>1. IInv => FinishedIsNotRebuilt
  BY DEF IInv, Progress, FinishedIsNotRebuilt, Finished
<1>2. IInv => OneBuilder
  BY LockExcludes
<1>3. QED
  BY <1>1, <1>2, CacheInvariant, PTL

-----------------------------------------------------------------------------
(* The refinement. *)

Published == {k \in Keys : Finished(k)}
Held == [p \in Procs |-> {KeyOf[r] : r \in compiled[p]}]

LEMMA StepOfStore ==
  ASSUME IInv, Next
  PROVE  [Store!Next]_<<Published, Held>>
<1>1. PICK p \in Procs :
        \/ \E r \in Requests : Begin(p, r) \/ Load(p, r)
        \/ Acquire(p)
        \/ Work(p)
        \/ Crash(p)
  BY DEF Next
<1>2. ASSUME UNCHANGED <<library, manifest, compiled>>
      PROVE  UNCHANGED <<Published, Held>>
  BY <1>2 DEF Published, Held, Finished
<1>3. CASE \E r \in Requests : Begin(p, r) \/ Load(p, r)
  BY <1>2, <1>3 DEF Begin, Load, diskVars
<1>4. CASE Acquire(p)
  BY <1>2, <1>4 DEF Acquire, diskVars
<1>5. CASE Work(p)
  <2>1. CASE WriteSource(p) \/ GccSucceeds(p) \/ GccFails(p) \/ DiskError(p)
    BY <1>2, <2>1 DEF WriteSource, GccSucceeds, GccFails, DiskError, diskVars
  <2>2. CASE ReplaceLibrary(p)
    <3>1. Key(p) \in Keys /\ ~manifest[Key(p)]
      BY <2>2, KeyType DEF IInv, Progress, ReplaceLibrary, Building
    <3>2. \A k \in Keys : Finished(k)' <=> Finished(k)
      BY <2>2, <3>1 DEF IInv, TypeOK, ReplaceLibrary, Finished
    <3>3. UNCHANGED <<Published, Held>>
      BY <2>2, <3>2 DEF Published, Held, ReplaceLibrary
    <3>4. QED
      BY <3>3
  <2>3. CASE WriteManifest(p)
    <3>1. Key(p) \in Keys /\ ~manifest[Key(p)] /\ library[Key(p)] = "complete"
      BY <2>3, KeyType DEF IInv, Progress, WriteManifest, Building
    <3>2. \A k \in Keys : Finished(k)' <=> (Finished(k) \/ k = Key(p))
      BY <2>3, <3>1 DEF IInv, TypeOK, WriteManifest, Finished
    <3>3. Key(p) \notin Published /\ Published' = Published \cup {Key(p)}
      BY <3>1, <3>2 DEF Published, Finished
    <3>4. UNCHANGED Held
      BY <2>3 DEF Held, WriteManifest
    <3>5. Store!Publish(Key(p))
      BY <3>3, <3>4 DEF Store!Publish, Published, Held
    <3>6. QED
      BY <3>1, <3>5 DEF Store!Next
  <2>4. CASE Finish(p)
    <3>1. Key(p) \in Keys /\ Finished(Key(p)) /\ request[p] \in Requests
      BY <2>4, KeyType DEF IInv, Progress, Finish
    <3>2. PICK k \in Keys : k = Key(p)
      BY <3>1
    <3>3. UNCHANGED Published /\ k \in Published
      BY <2>4, <3>1, <3>2 DEF Published, Finished, Finish, diskVars
    <3>4. Held' = [Held EXCEPT ![p] = @ \cup {Key(p)}]
      <4>1. /\ compiled' = [compiled EXCEPT ![p] = @ \cup {request[p]}]
            /\ compiled \in [Procs -> SUBSET Requests] /\ Key(p) = KeyOf[request[p]]
        BY <2>4 DEF IInv, TypeOK, Finish, Key
      <4>2. \A q \in Procs : Held'[q] = IF q = p THEN Held[q] \cup {Key(p)} ELSE Held[q]
        BY <4>1 DEF Held
      <4>3. Held' = [q \in Procs |-> Held'[q]] /\ Held = [q \in Procs |-> Held[q]]
        BY DEF Held
      <4> HIDE DEF Held
      <4>4. QED
        BY <4>2, <4>3
    <3>5. Store!Obtain(p, k)
      BY <3>2, <3>3, <3>4 DEF Store!Obtain, Published, Held
    <3>6. QED
      BY <3>5 DEF Store!Next
  <2>5. QED
    BY <1>5, <2>1, <2>2, <2>3, <2>4 DEF Work
<1>6. CASE Crash(p)
  <2>1. UNCHANGED Published
    BY <1>6 DEF Published, Finished, Crash, diskVars
  <2>2. Held' = [Held EXCEPT ![p] = {}]
    BY <1>6 DEF IInv, TypeOK, Held, Crash
  <2>3. Store!Forget(p)
    BY <2>1, <2>2 DEF Store!Forget, Published, Held
  <2>4. QED
    BY <2>3 DEF Store!Next
<1>7. QED
  BY <1>1, <1>3, <1>4, <1>5, <1>6

(* The shared directory with its locks, crashes and failures implements the
   store in which artifacts are published once and for good. *)
THEOREM CacheImplementsStore ==
  Spec => ImplementsArtifactStore
<1>1. Init => Store!Init
  BY DEF Init, Store!Init, Finished
<1>2. IInv /\ [Next]_vars => [Store!Next]_<<Published, Held>>
  <2>1. UNCHANGED vars => UNCHANGED <<Published, Held>>
    BY DEF vars, diskVars, Published, Held, Finished
  <2>2. QED
    BY <2>1, StepOfStore
<1>3. QED
  BY <1>1, <1>2, CacheInvariant, PTL DEF Spec, ImplementsArtifactStore, Store!Spec, Published, Held
=============================================================================
