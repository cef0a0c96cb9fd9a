----------------------------- MODULE CriSandbox -----------------------------
(***************************************************************************)
(* What the CRI promises the kubelet about pod sandboxes, with no calls,   *)
(* files or commands: a sandbox lives once, the kubelet is told of it only *)
(* while it exists, RunPodSandbox hands a sandbox out at most once and at  *)
(* a moment when it is ready, and a sandbox is removed only after it has   *)
(* stopped.                                                                *)
(***************************************************************************)
CONSTANT Sandboxes

VARIABLES
  life,     \* "absent", "created", "ready", "stopped" or "removed"
  handed,   \* sandboxes that a RunPodSandbox has returned with success
  told      \* sandboxes whose id the kubelet has

criVars == <<life, handed, told>>

CriInit ==
  /\ life = [s \in Sandboxes |-> "absent"]
  /\ handed = {}
  /\ told = {}

Move(s, from, to) ==
  /\ life[s] \in from
  /\ life' = [life EXCEPT ![s] = to]
  /\ UNCHANGED <<handed, told>>

Create(s) == Move(s, {"absent"}, "created")

BecomeReady(s) == Move(s, {"created"}, "ready")

Stopped(s) == Move(s, {"created", "ready"}, "stopped")

Removed(s) == Move(s, {"stopped"}, "removed")

(* A sandbox whose process dies before it has a directory leaves nothing.  *)
NeverCreated(s) == Move(s, {"absent"}, "removed")

RunReturns(s) ==
  /\ life[s] = "ready"
  /\ s \notin handed
  /\ handed' = handed \cup {s}
  /\ told' = told \cup {s}
  /\ UNCHANGED life

ListReturns(S) ==
  /\ \A s \in S : life[s] \in {"created", "ready", "stopped"}
  /\ told' = told \cup S
  /\ UNCHANGED <<life, handed>>

CriNext ==
  \/ \E s \in Sandboxes : \/ Create(s) \/ BecomeReady(s) \/ Stopped(s)
                          \/ Removed(s) \/ NeverCreated(s) \/ RunReturns(s)
  \/ \E S \in SUBSET Sandboxes : ListReturns(S)

CriSpec == CriInit /\ [][CriNext]_criVars

=============================================================================
