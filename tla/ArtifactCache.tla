--------------------------- MODULE ArtifactCache ----------------------------
(***************************************************************************)
(* Compiler.compile and Compiler.load over a cache directory shared by     *)
(* several processes.  Each artifact key has a directory with a flock'ed   *)
(* .lock, a shared object and a manifest; a request that finds either file *)
(* missing builds the artifact under the lock.  Processes die at any point *)
(* and the kernel then drops their lock; the files stay as they are.       *)
(***************************************************************************)
EXTENDS Naturals, FiniteSets

CONSTANTS
  Procs,       \* processes, each with one Compiler
  Requests,    \* request keys: operator, workload, code, backend, toolchain
  Keys,        \* artifact keys
  KeyOf,       \* request -> artifact key: the workload is not part of the key
  Nobody,      \* no lock owner, no request
  MaxCrashes,  \* bound: process deaths of one behaviour
  MaxFaults    \* bound: gcc failures and file-system errors of one behaviour

ASSUME KeyOfAssumption == KeyOf \in [Requests -> Keys]
ASSUME NobodyAssumption == Nobody \notin Procs /\ Nobody \notin Requests
ASSUME FaultBoundAssumption == MaxCrashes \in Nat /\ MaxFaults \in Nat

VARIABLES
  pc,        \* process -> where it stands in compile()
  request,   \* process -> the request it serves
  compiled,  \* process -> Compiler._compiled, the requests it memoized
  loaded,    \* process -> Compiler._loaded: artifact key -> object mapped
  flock,     \* artifact key -> holder of .lock
  library,   \* artifact key -> kernel.so
  manifest,  \* artifact key -> is manifest.json there
  temporary, \* process -> the kernel.<pid>.so it is building
  crashes, faults

diskVars == <<library, manifest, temporary>>
vars == <<pc, request, compiled, loaded, flock, diskVars, crashes, faults>>

Objects == {"absent", "partial", "complete"}

Key(p) == KeyOf[request[p]]

(* The condition under which a request builds. *)
Missing(k) == library[k] = "absent" \/ ~manifest[k]

Finished(k) == library[k] = "complete" /\ manifest[k]

Building == {"source", "gcc", "replace", "manifest"}
Holding == Building \cup {"release"}

-----------------------------------------------------------------------------
(* A request in the process's own memo is answered from memory; any other
   opens the artifact's directory and waits for its lock. *)
Begin(p, r) ==
  /\ pc[p] = "idle"
  /\ r \notin compiled[p]
  /\ pc' = [pc EXCEPT ![p] = "waiting"]
  /\ request' = [request EXCEPT ![p] = r]
  /\ UNCHANGED <<compiled, loaded, flock, diskVars, crashes, faults>>

(* Mutant: the files are looked at before the lock is taken, as a process
   whose artifact was missing when it began would do. *)
AcquireUnchecked(p) ==
  /\ pc[p] = "waiting"
  /\ flock[Key(p)] = Nobody
  /\ flock' = [flock EXCEPT ![Key(p)] = p]
  /\ pc' = [pc EXCEPT ![p] = "source"]
  /\ UNCHANGED <<request, compiled, loaded, diskVars, crashes, faults>>

(* flock(LOCK_EX) returns, and the holder looks at the two files. *)
Acquire(p) ==
  /\ pc[p] = "waiting"
  /\ flock[Key(p)] = Nobody
  /\ flock' = [flock EXCEPT ![Key(p)] = p]
  /\ pc' = [pc EXCEPT ![p] = IF Missing(Key(p)) THEN "source" ELSE "release"]
  /\ UNCHANGED <<request, compiled, loaded, diskVars, crashes, faults>>

(* Mutant: the manifest is written with the source, before the library. *)
WriteSourceAndManifest(p) ==
  /\ pc[p] = "source"
  /\ temporary' = [temporary EXCEPT ![p] = "partial"]
  /\ manifest' = [manifest EXCEPT ![Key(p)] = TRUE]
  /\ pc' = [pc EXCEPT ![p] = "gcc"]
  /\ UNCHANGED <<request, compiled, loaded, flock, library, crashes, faults>>

(* kernel.c is in place and gcc is started on the process's own output. *)
WriteSource(p) ==
  /\ pc[p] = "source"
  /\ temporary' = [temporary EXCEPT ![p] = "partial"]
  /\ pc' = [pc EXCEPT ![p] = "gcc"]
  /\ UNCHANGED <<request, compiled, loaded, flock, library, manifest, crashes, faults>>

GccSucceeds(p) ==
  /\ pc[p] = "gcc"
  /\ temporary' = [temporary EXCEPT ![p] = "complete"]
  /\ pc' = [pc EXCEPT ![p] = "replace"]
  /\ UNCHANGED <<request, compiled, loaded, flock, library, manifest, crashes, faults>>

(* Mutant: the return code of gcc is not looked at. *)
GccFailureIgnored(p) ==
  /\ pc[p] = "gcc"
  /\ faults < MaxFaults
  /\ faults' = faults + 1
  /\ pc' = [pc EXCEPT ![p] = "replace"]
  /\ UNCHANGED <<request, compiled, loaded, flock, diskVars, crashes>>

(* Mutant: the request is memoized before its build has succeeded. *)
GccFailureMemoized(p) ==
  /\ pc[p] = "gcc"
  /\ faults < MaxFaults
  /\ faults' = faults + 1
  /\ temporary' = [temporary EXCEPT ![p] = "absent"]
  /\ compiled' = [compiled EXCEPT ![p] = @ \cup {request[p]}]
  /\ pc' = [pc EXCEPT ![p] = "idle"]
  /\ request' = [request EXCEPT ![p] = Nobody]
  /\ flock' = [flock EXCEPT ![Key(p)] = Nobody]
  /\ UNCHANGED <<loaded, library, manifest, crashes>>

(* A nonzero return code unlinks the output and raises; leaving the with
   block closes the lock file. *)
GccFails(p) ==
  /\ pc[p] = "gcc"
  /\ faults < MaxFaults
  /\ faults' = faults + 1
  /\ temporary' = [temporary EXCEPT ![p] = "absent"]
  /\ pc' = [pc EXCEPT ![p] = "idle"]
  /\ request' = [request EXCEPT ![p] = Nobody]
  /\ flock' = [flock EXCEPT ![Key(p)] = Nobody]
  /\ UNCHANGED <<compiled, loaded, library, manifest, crashes>>

ReplaceLibrary(p) ==
  /\ pc[p] = "replace"
  /\ library' = [library EXCEPT ![Key(p)] = temporary[p]]
  /\ temporary' = [temporary EXCEPT ![p] = "absent"]
  /\ pc' = [pc EXCEPT ![p] = "manifest"]
  /\ UNCHANGED <<request, compiled, loaded, flock, manifest, crashes, faults>>

WriteManifest(p) ==
  /\ pc[p] = "manifest"
  /\ manifest' = [manifest EXCEPT ![Key(p)] = TRUE]
  /\ pc' = [pc EXCEPT ![p] = "release"]
  /\ UNCHANGED <<request, compiled, loaded, flock, library, temporary, crashes, faults>>

(* Mutant: an exception leaves the lock file open. *)
DiskErrorKeepsLock(p) ==
  /\ pc[p] \in {"source", "replace", "manifest"}
  /\ faults < MaxFaults
  /\ faults' = faults + 1
  /\ pc' = [pc EXCEPT ![p] = "idle"]
  /\ request' = [request EXCEPT ![p] = Nobody]
  /\ UNCHANGED <<compiled, loaded, flock, diskVars, crashes>>

(* Any file-system step of the build may raise instead. *)
DiskError(p) ==
  /\ pc[p] \in {"source", "replace", "manifest"}
  /\ faults < MaxFaults
  /\ faults' = faults + 1
  /\ pc' = [pc EXCEPT ![p] = "idle"]
  /\ request' = [request EXCEPT ![p] = Nobody]
  /\ flock' = [flock EXCEPT ![Key(p)] = Nobody]
  /\ UNCHANGED <<compiled, loaded, diskVars, crashes>>

(* The lock is released and the compiled plan memoized. *)
Finish(p) ==
  /\ pc[p] = "release"
  /\ flock' = [flock EXCEPT ![Key(p)] = Nobody]
  /\ compiled' = [compiled EXCEPT ![p] = @ \cup {request[p]}]
  /\ pc' = [pc EXCEPT ![p] = "idle"]
  /\ request' = [request EXCEPT ![p] = Nobody]
  /\ UNCHANGED <<loaded, diskVars, crashes, faults>>

(* Compiler.load: dlopen of a compiled plan's library, outside the lock. *)
Load(p, r) ==
  /\ pc[p] = "idle"
  /\ r \in compiled[p]
  /\ loaded[p][KeyOf[r]] = "absent"
  /\ loaded' = [loaded EXCEPT ![p][KeyOf[r]] = library[KeyOf[r]]]
  /\ UNCHANGED <<pc, request, compiled, flock, diskVars, crashes, faults>>

(* The process is killed; a new one may start with an empty Compiler. *)
Crash(p) ==
  /\ crashes < MaxCrashes
  /\ crashes' = crashes + 1
  /\ pc' = [pc EXCEPT ![p] = "idle"]
  /\ request' = [request EXCEPT ![p] = Nobody]
  /\ compiled' = [compiled EXCEPT ![p] = {}]
  /\ loaded' = [loaded EXCEPT ![p] = [k \in Keys |-> "absent"]]
  /\ flock' = [k \in Keys |-> IF flock[k] = p THEN Nobody ELSE flock[k]]
  /\ UNCHANGED <<diskVars, faults>>

-----------------------------------------------------------------------------
Init ==
  /\ pc = [p \in Procs |-> "idle"]
  /\ request = [p \in Procs |-> Nobody]
  /\ compiled = [p \in Procs |-> {}]
  /\ loaded = [p \in Procs |-> [k \in Keys |-> "absent"]]
  /\ flock = [k \in Keys |-> Nobody]
  /\ library = [k \in Keys |-> "absent"]
  /\ manifest = [k \in Keys |-> FALSE]
  /\ temporary = [p \in Procs |-> "absent"]
  /\ crashes = 0 /\ faults = 0

(* The steps of a compile() call that the process takes by itself. *)
Work(p) ==
  \/ WriteSource(p) \/ GccSucceeds(p) \/ GccFails(p)
  \/ ReplaceLibrary(p) \/ WriteManifest(p) \/ DiskError(p) \/ Finish(p)

Next ==
  \E p \in Procs :
    \/ \E r \in Requests : Begin(p, r) \/ Load(p, r)
    \/ Acquire(p)
    \/ Work(p)
    \/ Crash(p)

(* A started build goes on and gcc terminates; a waiter on a lock that is
   free again and again gets it, as the kernel queues flock requests. *)
Fairness == \A p \in Procs : WF_vars(Work(p)) /\ SF_vars(Acquire(p))

Spec == Init /\ [][Next]_vars /\ Fairness

-----------------------------------------------------------------------------
(* At most one process builds an artifact: two gcc runs and their renames
   never interleave on one directory (the flock around compile()). *)
OneBuilder ==
  \A p, q \in Procs :
    (pc[p] \in Holding /\ pc[q] \in Holding /\ Key(p) = Key(q)) => p = q

(* The manifest is the last file written: wherever a build dies, an artifact
   whose manifest is there has its whole library. *)
ManifestMeansLibrary == \A k \in Keys : manifest[k] => library[k] = "complete"

(* No process ever maps a library that a build has not finished, though load
   runs outside the lock. *)
LoadedIsComplete ==
  \A p \in Procs, r \in Requests :
    /\ r \in compiled[p] => library[KeyOf[r]] = "complete"
    /\ loaded[p][KeyOf[r]] # "partial"

(* A finished artifact is never built again, by any process: its library is
   not replaced under the processes that map it. *)
FinishedIsNotRebuilt == \A p \in Procs : pc[p] \in Building => ~Finished(Key(p))

(* The cache implements the abstract store. *)
Store == INSTANCE ArtifactStore
  WITH published <- {k \in Keys : Finished(k)},
       held <- [p \in Procs |-> {KeyOf[r] : r \in compiled[p]}]

ImplementsArtifactStore == Store!Spec

(* Every compile() call ends, with an artifact or an error: a failed or dead
   builder never leaves the others waiting on its lock. *)
CompileEnds == \A p \in Procs : pc[p] # "idle" ~> pc[p] = "idle"
=============================================================================
