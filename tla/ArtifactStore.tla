--------------------------- MODULE ArtifactStore ----------------------------
(***************************************************************************)
(* What the on-disk artifact cache promises: an artifact is published once *)
(* and for good, and a process holds only published artifacts.             *)
(***************************************************************************)
CONSTANTS Procs, Keys

VARIABLES published, held

Init ==
  /\ published = {}
  /\ held = [p \in Procs |-> {}]

Publish(k) ==
  /\ k \notin published
  /\ published' = published \cup {k}
  /\ UNCHANGED held

Obtain(p, k) ==
  /\ k \in published
  /\ held' = [held EXCEPT ![p] = @ \cup {k}]
  /\ UNCHANGED published

(* The process dies, and another takes its place. *)
Forget(p) ==
  /\ held' = [held EXCEPT ![p] = {}]
  /\ UNCHANGED published

Next ==
  \/ \E k \in Keys : Publish(k)
  \/ \E p \in Procs, k \in Keys : Obtain(p, k)
  \/ \E p \in Procs : Forget(p)

Spec == Init /\ [][Next]_<<published, held>>
=============================================================================
