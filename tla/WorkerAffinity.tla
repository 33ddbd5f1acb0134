--------------------------- MODULE WorkerAffinity ---------------------------
(***************************************************************************)
(* The CPU placement of the OpenMP team (common/threading.h).  The threads *)
(* belong to the process and are shared by every loaded kernel; what a     *)
(* thread remembers about its placement is in static thread-local          *)
(* variables, of which each kernel library has its own copy.  Calls of a   *)
(* Runtime are serialized, so one team call is open at a time; the steps   *)
(* of its threads interleave.                                              *)
(***************************************************************************)
EXTENDS Naturals, Sequences, FiniteSets

CONSTANTS
  Team,        \* largest team: threads 0..Team-1, thread 0 the caller's own
  Libraries,   \* kernel libraries that may be loaded
  Cpus,
  NoCpu,       \* cpuattn_tls_target = -1
  NoCall

ASSUME TeamAssumption == Team \in Nat \ {0} /\ NoCpu \notin Cpus

TeamThreads == 0..Team - 1
Masks == (SUBSET Cpus) \ {{}}
NoMask == {}   \* cpuattn_tls_has_original = 0

(* cpu_ids of a launch: one CPU per worker, no CPU twice. *)
Placements ==
  {ids \in UNION {[1..w -> Cpus] : w \in 1..Team} :
     \A i, j \in DOMAIN ids : ids[i] = ids[j] => i = j}

Calls == [lib : Libraries, cpus : Placements, pinned : BOOLEAN, entry : Masks]

ASSUME CallAssumption == NoCall \notin Calls

VARIABLES
  mask,      \* thread -> its affinity mask in the kernel
  target,    \* library -> thread -> cpuattn_tls_target
  original,  \* library -> thread -> cpuattn_tls_original
  call,      \* the team call that is open, and (history) the caller's mask at entry
  stage,     \* thread -> where it stands in it
  affinityError,  \* affinity_error of the call
  stray,     \* history: the <<library, thread>> whose record is out of date
  loaded,    \* the libraries this process calls
  mayFail    \* may sched_setaffinity fail (a CPU left the cpuset)

worldVars == <<loaded, mayFail>>
placementVars == <<mask, target, original, call, stage, affinityError, stray, worldVars>>

CallWorkers == IF call = NoCall THEN {} ELSE 0..Len(call.cpus) - 1
Assigned(t) == call.cpus[t + 1]

-----------------------------------------------------------------------------
(* Foreign code moves the calling thread between calls. *)
CallerMoves(m) ==
  /\ call = NoCall
  /\ mask' = [mask EXCEPT ![0] = m]
  /\ UNCHANGED <<target, original, call, stage, affinityError, stray, worldVars>>

(* cpuattn_prepare_launch or a kernel's run opens a team; a run on a single
   worker leaves the calling thread where it is. *)
Open(lib, cpus, prepare) ==
  /\ call = NoCall
  /\ call' = [lib |-> lib, cpus |-> cpus, pinned |-> prepare \/ Len(cpus) > 1,
              entry |-> mask[0]]
  /\ stage' = [t \in TeamThreads |-> IF t < Len(cpus) THEN "pin" ELSE "out"]
  /\ affinityError' = FALSE
  /\ UNCHANGED <<mask, target, original, stray, worldVars>>

EnterBody(t) == stage' = [stage EXCEPT ![t] = "body"]

StayUnpinned(t) ==
  /\ stage[t] = "pin"
  /\ ~call.pinned
  /\ EnterBody(t)
  /\ UNCHANGED <<mask, target, original, call, affinityError, stray, worldVars>>

(* Mutant: a thread pinned once stays where it is. *)
OnSomeTarget(t) == target[call.lib][t] # NoCpu

OnTarget(t) == target[call.lib][t] = Assigned(t)

(* cpuattn_pin_worker, already on target. *)
PinKept(t) ==
  /\ stage[t] = "pin" /\ call.pinned
  /\ OnTarget(t)
  /\ EnterBody(t)
  /\ UNCHANGED <<mask, target, original, call, affinityError, stray, worldVars>>

(* The mask the thread has when it is about to be pinned: its remembered
   original if it has one. *)
Unpinned(lib, t) == IF original[lib][t] = NoMask THEN mask[t] ELSE original[lib][t]

(* cpuattn_pin_worker: back to the original, remember it, pin. *)
PinMoved(t) ==
  LET lib == call.lib
      base == Unpinned(lib, t)
  IN  /\ stage[t] = "pin" /\ call.pinned
      /\ ~OnTarget(t)
      /\ original' = [original EXCEPT ![lib][t] = base]
      /\ mask' = [mask EXCEPT ![t] = {Assigned(t)}]
      /\ target' = [target EXCEPT ![lib][t] = Assigned(t)]
      /\ stray' = (stray \ {<<lib, t>>}) \cup {<<l, t>> : l \in loaded \ {lib}}
      /\ EnterBody(t)
      /\ UNCHANGED <<call, affinityError, worldVars>>

(* The move back to the original fails, or the pin after it does. *)
PinFails(t) ==
  LET lib == call.lib
  IN  /\ mayFail
      /\ stage[t] = "pin" /\ call.pinned
      /\ ~OnTarget(t)
      /\ \/ /\ original[lib][t] # NoMask
            /\ UNCHANGED <<mask, original>>
         \/ /\ mask' = [mask EXCEPT ![t] = Unpinned(lib, t)]
            /\ original' = [original EXCEPT ![lib][t] = Unpinned(lib, t)]
      /\ affinityError' = TRUE
      /\ stray' = stray \cup {<<l, t>> : l \in loaded}
      /\ EnterBody(t)
      /\ UNCHANGED <<target, call,  worldVars>>

(* Mutant: a call that failed to pin returns without restoring. *)
RestoresUnlessFailed(t) ==
  t = 0 /\ call.pinned /\ ~affinityError /\ original[call.lib][t] # NoMask

(* Only the calling thread, which returns to foreign code, gets its affinity
   back. *)
Restores(t) == t = 0 /\ call.pinned /\ original[call.lib][t] # NoMask

Forget(t) ==
  /\ target' = [target EXCEPT ![call.lib][t] = NoCpu]
  /\ original' = [original EXCEPT ![call.lib][t] = NoMask]

(* The kernel body ends for this thread: cpuattn_restore_worker. *)
Leave(t) ==
  /\ stage[t] = "body"
  /\ stage' = [stage EXCEPT ![t] = "out"]
  /\ \/ /\ ~Restores(t)
        /\ UNCHANGED <<mask, target, original, stray>>
     \/ /\ Restores(t)
        /\ mask' = [mask EXCEPT ![t] = original[call.lib][t]]
        /\ Forget(t)
        /\ stray' = stray \cup {<<l, t>> : l \in loaded \ {call.lib}}
  /\ UNCHANGED <<call, affinityError, worldVars>>

(* The move back fails: the original is forgotten all the same. *)
LeaveFails(t) ==
  /\ mayFail
  /\ stage[t] = "body"
  /\ Restores(t)
  /\ stage' = [stage EXCEPT ![t] = "out"]
  /\ affinityError' = TRUE
  /\ Forget(t)
  /\ UNCHANGED <<mask, call, stray, worldVars>>

(* The region's closing barrier. *)
Close ==
  /\ call # NoCall
  /\ \A t \in CallWorkers : stage[t] = "out"
  /\ call' = NoCall
  /\ affinityError' = FALSE
  /\ UNCHANGED <<mask, target, original, stage, stray, worldVars>>

-----------------------------------------------------------------------------
PlacementInit ==
  /\ mask \in [TeamThreads -> Masks]
  /\ target = [l \in Libraries |-> [t \in TeamThreads |-> NoCpu]]
  /\ original = [l \in Libraries |-> [t \in TeamThreads |-> NoMask]]
  /\ call = NoCall
  /\ stage = [t \in TeamThreads |-> "out"]
  /\ affinityError = FALSE
  /\ stray = {}
  /\ loaded \in (SUBSET Libraries) \ {{}}
  /\ mayFail \in BOOLEAN

PlacementNext ==
  \/ \E m \in Masks : CallerMoves(m)
  \/ \E lib \in loaded, cpus \in Placements, prepare \in BOOLEAN : Open(lib, cpus, prepare)
  \/ \E t \in CallWorkers : StayUnpinned(t) \/ PinKept(t) \/ PinMoved(t) \/ PinFails(t) \/ Leave(t) \/ LeaveFails(t)
  \/ Close

PlacementSpec == PlacementInit /\ [][PlacementNext]_placementVars

-----------------------------------------------------------------------------
(* In a pinned call that reports no affinity error, every worker computes on
   the CPU its launch plan assigned to it, unless another library has moved
   it, or a move of it has failed, since this library last pinned it. *)
WorkersOnAssignedCpus ==
  \A t \in CallWorkers :
    (stage[t] = "body" /\ call.pinned /\ ~affinityError /\ <<call.lib, t>> \notin stray)
      => mask[t] = {Assigned(t)}

(* A call that reports no affinity error hands the calling thread back with
   the mask it came with, whatever failed in the calls before it. *)
CallerKeepsItsMask ==
  [][(call # NoCall /\ call' = NoCall /\ ~affinityError) => mask'[0] = call.entry]_placementVars
=============================================================================
