---------------------------- MODULE HostDiscovery ---------------------------
(***************************************************************************)
(* detect_host (hardware/host.py) and the choice of a backend for what it  *)
(* finds (native/backends).                                                *)
(*                                                                         *)
(* A machine is what there is: for every CPU its place and its features.   *)
(* A process is allowed some of the CPUs, /proc/cpuinfo lists some, and    *)
(* the topology of some can be read in /sys, as containers and CPUs that   *)
(* go offline leave it.  The host is what the process makes of that.       *)
(***************************************************************************)
EXTENDS Integers, FiniteSets

(* CPUs are numbered from 1: 0 is for what is no CPU. *)
MachineIsReal(m) ==
  /\ IsFiniteSet(m.allowed) /\ m.allowed # {} /\ m.allowed \subseteq Nat \ {0}
  /\ m.listed \subseteq Nat \ {0} /\ m.trailer \in BOOLEAN
  /\ \A c \in m.allowed \cap m.readable : m.cpus[c].node \in Nat

(* _normalize_architecture *)
Architecture(m) ==
  CASE m.machine \in {"x86_64", "amd64"} -> "x86_64"
    [] m.machine \in {"aarch64", "arm64"} -> "aarch64"
    [] OTHER -> "unsupported"

(* Records of /proc/cpuinfo: one for each CPU it lists, and at the end of some
   one that names the board, which is of no CPU and has no features. *)
CpuinfoRecords(m) ==
  {[cpu |-> c, features |-> m.cpus[c].features] : c \in m.listed}
    \cup IF m.trailer THEN {[cpu |-> 0, features |-> {}]} ELSE {}

(* Those of the allowed CPUs; if one of these is missing, all. *)
AllowedCpuinfoRecords(m) ==
  IF m.allowed \subseteq m.listed
  THEN {r \in CpuinfoRecords(m) : r.cpu \in m.allowed} ELSE CpuinfoRecords(m)

(* Mutant: any CPU's features are those of the host. *)
FeaturesOfAny(m) == UNION {r.features : r \in AllowedCpuinfoRecords(m)}

(* The features all of them have. *)
Features(m) ==
  LET records == AllowedCpuinfoRecords(m)
  IN  {f \in UNION {r.features : r \in records} : \A r \in records : f \in r.features}

(* _logical_cpu: a CPU of which nothing can be read is a core of its own. *)
LogicalCpu(m, c) ==
  IF c \in m.readable
  THEN [core |-> m.cpus[c].core, socket |-> m.cpus[c].socket, node |-> m.cpus[c].node]
  ELSE [core |-> c, socket |-> 0, node |-> 0]

(* _read_caches: caches of allowed CPUs, as far as these share them. *)
ReadCaches(m) ==
  {[level |-> x.level, kind |-> x.kind, size |-> x.size, shared |-> x.shared \cap m.allowed] :
     x \in {y \in m.caches : y.shared \cap m.allowed \cap m.readable # {}}}

(* detect_host *)
DetectHost(m) ==
  [architecture |-> Architecture(m), features |-> Features(m),
   cpus |-> [c \in m.allowed |-> LogicalCpu(m, c)], caches |-> ReadCaches(m),
   sve |-> IF "sve" \in Features(m) THEN m.sve ELSE 0]

-----------------------------------------------------------------------------
BackendOf(architecture, features, vectorBytes, sve) ==
  [architecture |-> architecture, features |-> features, vectorBytes |-> vectorBytes, sve |-> sve]

(* In order of preference; sve is the one vector length code is compiled for,
   or 0. *)
BACKENDS ==
  <<BackendOf("x86_64", {"avx512f", "fma"}, 64, 0), BackendOf("x86_64", {"avx2", "fma"}, 32, 0),
    BackendOf("aarch64", {"sve"}, 32, 32), BackendOf("aarch64", {"asimd"}, 16, 0)>>

(* Backend.supports *)
Supports(b, h) ==
  /\ h.architecture = b.architecture
  /\ b.features \subseteq h.features
  /\ b.sve \in {0, h.sve}

(* The positions in BACKENDS that the host supports. *)
CompatibleBackends(h) == {i \in DOMAIN BACKENDS : Supports(BACKENDS[i], h)}

(* select_backend: the first of them; it raises when there is none. *)
SelectBackend(h) ==
  BACKENDS[CHOOSE i \in CompatibleBackends(h) : \A j \in CompatibleBackends(h) : i <= j]
=============================================================================
