-------------------------------- MODULE Rkt --------------------------------
(***************************************************************************)
(* The rkt binary and its pod store, as rktlet meets them.  rktlet keeps   *)
(* no state of its own: everything it knows it learns by executing `rkt`,  *)
(* and the pod sandbox process it asks systemd to start lives on whatever  *)
(* happens to rktlet.  rkt's code is not part of the repository, so this   *)
(* module says only what the commands issued from rktlet/runtime rely on,  *)
(* and leaves the rest nondeterministic.                                   *)
(***************************************************************************)
EXTENDS Naturals, FiniteSets

CONSTANTS
  UUIDs,     \* rkt pod UUIDs, the CRI sandbox ids
  NoUUID,    \* the empty string where a UUID is expected
  Foreign,   \* pods somebody else started in the same data directory
  Metas,     \* values of the PodSandboxMetadata of a request
  NoMeta,    \* no reserved annotation in the pod manifest
  BadMeta,   \* a pod-uid annotation without an attempt that parses
  Paths,     \* names of temporary files
  NoPath

ASSUME RktAssumption ==
  /\ NoUUID \notin UUIDs
  /\ Foreign \subseteq UUIDs
  /\ NoMeta \notin Metas
  /\ BadMeta \notin Metas \cup {NoMeta}
  /\ NoPath \notin Paths

VARIABLES
  podState,  \* where each pod is in rkt's life cycle
  podAnno,   \* the reserved annotations of its manifest, NoMeta before it is written
  proc,      \* the command line of `rkt app sandbox`: metadata and UUID file
  tmp,       \* temporary files: which exist
  content,   \* what has been written into them
  everRan    \* history: the pods that have been running at some time

rktVars == <<podState, podAnno, proc, tmp, content, everRan>>

(***************************************************************************)
(* "spawned": systemd has started the unit, nothing is on disk yet;        *)
(* "embryo": the pod directory exists and the UUID has been saved;         *)
(* "prepared": the manifest, with its annotations, is written;             *)
(* "stopping": a stop has been accepted and the pod still runs.            *)
(***************************************************************************)
PodStates == {"unused", "spawned", "embryo", "prepared", "running",
              "stopping", "exited", "gone"}

(***************************************************************************)
(* "stale": the rktlet that made the file died before removing it;         *)
(* "leaked": a sandbox process brought the file back after its removal.    *)
(***************************************************************************)
TmpStates == {"free", "present", "removed", "stale", "leaked"}

RktTypeOK ==
  /\ podState \in [UUIDs -> PodStates]
  /\ podAnno \in [UUIDs -> Metas \cup {NoMeta, BadMeta}]
  /\ proc \in [UUIDs -> [meta : Metas \cup {NoMeta}, path : Paths \cup {NoPath}]]
  /\ tmp \in [Paths -> TmpStates]
  /\ content \in [Paths -> UUIDs \cup {NoUUID}]
  /\ everRan \in SUBSET UUIDs

RktInit ==
  /\ podState = [u \in UUIDs |-> IF u \in Foreign THEN "running" ELSE "unused"]
  /\ podAnno \in [UUIDs -> {NoMeta, BadMeta}]
  /\ \A u \in UUIDs \ Foreign : podAnno[u] = NoMeta
  /\ proc = [u \in UUIDs |-> [meta |-> NoMeta, path |-> NoPath]]
  /\ tmp = [p \in Paths |-> "free"]
  /\ content = [p \in Paths |-> NoUUID]
  /\ everRan = Foreign

(* What `rkt list` and `rkt status` can find on disk.                      *)
Exists(u) == podState[u] \notin {"unused", "spawned", "gone"}

(* The pod state string that rkt prints is "running".                      *)
ReportsRunning(u) == podState[u] \in {"running", "stopping"}

----------------------------------------------------------------------------
(* The sandbox process, a child of systemd.                                *)

(* systemd-run starts `rkt app sandbox --uuid-file-save=p`.                *)
Spawn(u, m, p) ==
  /\ podState[u] = "unused"
  /\ podState' = [podState EXCEPT ![u] = "spawned"]
  /\ proc' = [proc EXCEPT ![u] = [meta |-> m, path |-> p]]

(* The pod directory is made and the UUID saved.  If rktlet has already    *)
(* removed the file, writing the path brings it back.                      *)
NewPod(u) ==
  LET p == proc[u].path IN
  /\ podState[u] = "spawned"
  /\ podState' = [podState EXCEPT ![u] = "embryo"]
  /\ tmp' = [tmp EXCEPT ![p] = IF @ = "removed" THEN "leaked" ELSE @]
  /\ content' = [content EXCEPT ![p] = u]
  /\ UNCHANGED <<podAnno, proc, everRan>>

(* The manifest is written, carrying the --user-annotation flags.          *)
Prepare(u) ==
  /\ podState[u] = "embryo"
  /\ podState' = [podState EXCEPT ![u] = "prepared"]
  /\ podAnno' = [podAnno EXCEPT ![u] = proc[u].meta]
  /\ UNCHANGED <<proc, tmp, content, everRan>>

Run(u) ==
  /\ podState[u] = "prepared"
  /\ podState' = [podState EXCEPT ![u] = "running"]
  /\ everRan' = everRan \cup {u}
  /\ UNCHANGED <<podAnno, proc, tmp, content>>

(* The process ends: by itself, by a failure, or because it was stopped.   *)
Exit(u) ==
  /\ podState[u] \in {"spawned", "embryo", "prepared", "running", "stopping"}
  /\ podState' = [podState EXCEPT ![u] =
                    IF @ = "spawned" THEN "gone" ELSE "exited"]
  /\ UNCHANGED <<podAnno, proc, tmp, content, everRan>>

SandboxProcess(u) == NewPod(u) \/ Prepare(u) \/ Run(u) \/ Exit(u)

----------------------------------------------------------------------------
(* Commands.                                                               *)

(* `rkt stop`: what it answers, apart from unforeseen failures.            *)
StopAnswer(u) ==
  CASE podState[u] \in {"running", "stopping"}       -> "ok"
    [] podState[u] = "exited"                        -> "alreadyStopped"
    [] podState[u] \in {"unused", "spawned", "gone"} -> "notExist"
    [] OTHER                                         -> "other"

(* The signal is sent to a running pod, which ends on its own time (Exit). *)
StopEffect(u) ==
  podState' = [podState EXCEPT ![u] = IF @ = "running" THEN "stopping" ELSE @]

(* `rkt rm` refuses a pod that has not exited.                             *)
RmEffect(u) ==
  podState' = [podState EXCEPT ![u] = IF @ = "exited" THEN "gone" ELSE @]

=============================================================================
