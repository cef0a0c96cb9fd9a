-------------------------- MODULE CriSandboxProofs --------------------------
(***************************************************************************)
(* The proof, for every value of the constants, that the sandbox service   *)
(* implements the CRI's contract: each step of PodSandbox is a step of     *)
(* CriSandbox or leaves its variables alone.  IInv does not suffice, as it *)
(* says nothing of sandboxes handed out by calls that are long over.       *)
(***************************************************************************)
EXTENDS PodSandboxProofs

(* A sandbox that was handed out is known to the kubelet, and its UUID     *)
(* file is not the file of any RunPodSandbox that still runs.              *)
Handed ==
  /\ started \subseteq known
  /\ \A u \in started, c \in Calls :
       call[c].op = "Run" /\ call[c].pc # "idle" => proc[u].path # call[c].path

(* Calls that go on with their file, or end, hand nothing out again.       *)
LEMMA HandedKept ==
  ASSUME IInv, Handed, NEW c \in Calls,
         \A d \in Calls : d # c => call'[d] = call[d],
         call'[c].op = "Run" /\ call'[c].pc # "idle" =>
           /\ call[c].op = "Run" /\ call[c].pc # "idle"
           /\ call'[c].path = call[c].path,
         UNCHANGED <<proc, started>>, known \subseteq known'
  PROVE  Handed'
  BY DEF Handed

LEMMA HandedRun ==
  ASSUME IInv, Handed, NEW c \in Calls, NEW m \in Metas, RunPodSandbox(c, m)
  PROVE  Handed'
<1> USE RktAssumption DEF IInv
<1> PICK p \in Paths : /\ FreshPath(p)
                       /\ Begin(c, "Run", "start", NoUUID, m, p)
  BY DEF RunPodSandbox
<1>0. UNCHANGED <<proc, started, known>>
  BY DEF RunPodSandbox
<1>1. call'[c].path = p /\ \A d \in Calls : d # c => call'[d] = call[d]
  BY DEF Begin, TypeOK
<1>2. \A u \in started : u \in UUIDs /\ tmp[proc[u].path] # "free"
  BY DEF Handed, KnownIds, ProcessesOwnFiles, TypeOK
<1>3. \A u \in started : proc[u].path # p
  BY <1>2 DEF FreshPath
<1> QED
  BY <1>0, <1>1, <1>3 DEF Handed

LEMMA HandedSpawn ==
  ASSUME IInv, Handed, NEW c \in Calls, NEW u \in UUIDs,
         call[c].op = "Run", call[c].pc = "start",
         Spawn(u, SandboxCommandMeta(c), call[c].path), Goto(c, "starting"),
         UNCHANGED <<started, known>>
  PROVE  Handed'
<1> USE DEF IInv
<1>1. u \notin started
  BY DEF Handed, KnownIds, Spawn
<1>2. \A v \in started : proc'[v] = proc[v]
  BY <1>1 DEF Spawn, Handed, TypeOK, RktTypeOK
<1>3. /\ \A d \in Calls : d # c => call'[d] = call[d]
      /\ call'[c].path = call[c].path
  BY DEF Goto, TypeOK, CallRecords
<1> QED
  BY <1>2, <1>3 DEF Handed

(* The sandbox of a RunPodSandbox that is about to return is its own.      *)
LEMMA OwnUnhanded ==
  ASSUME IInv, Handed, NEW c \in Calls,
         call[c].op = "Run", call[c].pc \in {"status", "status2"}
  PROVE  /\ call[c].id \in UUIDs \ Foreign
         /\ proc[call[c].id].path = call[c].path
         /\ call[c].path \in Paths
         /\ call[c].id \notin started
<1> USE RktAssumption DEF IInv
<1>1. call[c].id \in UUIDs /\ call[c].path \in Paths
  BY DEF Control, TypeOK, CallRecords
<1>2. proc[call[c].id].path = call[c].path
  BY <1>1 DEF RunIds, FilesHoldOwner
<1>3. call[c].id \notin Foreign
  BY <1>1, <1>2 DEF ProcessesOwnFiles
<1> QED
  BY <1>1, <1>2, <1>3 DEF Handed

LEMMA HandedGotStatus ==
  ASSUME IInv, Handed, NEW c \in Calls, NEW st,
         call[c].pc \in {"status", "status2"}, GotStatus(c, st)
  PROVE  Handed'
<1> USE DEF IInv
<1>0. UNCHANGED proc
  BY DEF GotStatus
<1>1. \A d \in Calls : d # c => call'[d] = call[d]
  BY DEF GotStatus, ReturnOk, ReturnErr, Goto, TypeOK
<1>2. call'[c].op = "Run" => call'[c].pc = "idle"
  BY DEF GotStatus, ReturnOk, ReturnErr, Goto, Ended, TypeOK, CallRecords
<1>3. CASE UNCHANGED <<started, known>>
  BY <1>0, <1>1, <1>2, <1>3, HandedKept
<1>4. CASE /\ call[c].op = "Run"
           /\ started' = started \cup {call[c].id}
           /\ known' = known \cup {call[c].id}
  <2>1. /\ proc[call[c].id].path = call[c].path
        /\ call[c].path \in Paths
    BY <1>4, OwnUnhanded
  <2>2. \A d \in Calls : d # c => call[d].path # call[c].path
    BY <2>1, RktAssumption DEF CallsOwnFiles
  <2> QED
    BY <1>0, <1>1, <1>2, <1>4, <2>1, <2>2 DEF Handed
<1> QED
  BY <1>3, <1>4 DEF GotStatus

LEMMA HandedNext == IInv /\ Handed /\ [Next]_vars => Handed'
<1> SUFFICES ASSUME IInv, Handed, [Next]_vars PROVE Handed'
  OBVIOUS
<1>1. ASSUME NEW c \in Calls, NEW m \in Metas, RunPodSandbox(c, m) PROVE Handed'
  BY <1>1, HandedRun
<1>2. ASSUME NEW c \in Calls, NEW u \in known,
             \/ PodSandboxStatus(c, u) \/ StopPodSandbox(c, u) \/ RemovePodSandbox(c, u)
      PROVE  Handed'
  <2>1. /\ UNCHANGED <<proc, started, known>>
        /\ \A d \in Calls : d # c => call'[d] = call[d]
        /\ call'[c].op # "Run"
    BY <1>2 DEF PodSandboxStatus, StopPodSandbox, RemovePodSandbox, Begin, IInv, TypeOK
  <2> QED
    BY <2>1, HandedKept
<1>3. ASSUME NEW c \in Calls, StartProcess(c) PROVE Handed'
  <2>1. CASE \E u \in UUIDs : /\ Spawn(u, SandboxCommandMeta(c), call[c].path)
                              /\ Goto(c, "starting")
                              /\ UNCHANGED <<started, known>>
    BY <1>3, <2>1, HandedSpawn DEF StartProcess
  <2>2. CASE RunFails(c) /\ UNCHANGED proc
    <3>1. /\ UNCHANGED <<proc, started, known>>
          /\ \A d \in Calls : d # c => call'[d] = call[d]
          /\ call'[c].pc = "idle"
      BY <2>2 DEF RunFails, ReturnErr, Ended, IInv, TypeOK
    <3> QED
      BY <3>1, HandedKept
  <2> QED
    BY <1>3, <2>1, <2>2 DEF StartProcess
<1>4. ASSUME NEW c \in Calls, StartProcessReturns(c) \/ ReadUUIDFile(c) PROVE Handed'
  <2>1. /\ UNCHANGED <<proc, started, known>>
        /\ \A d \in Calls : d # c => call'[d] = call[d]
        /\ call[c].op = "Run" /\ call[c].pc # "idle"
        /\ call'[c].pc # "idle" => call'[c].path = call[c].path
    BY <1>4 DEF StartProcessReturns, ReadUUIDFile, RunFails, ReturnErr, Ended, Goto,
                IInv, TypeOK, CallRecords
  <2> QED
    BY <2>1, HandedKept
<1>5. ASSUME NEW c \in Calls, StatusWaitReady(c) PROVE Handed'
  <2>1. CASE GotStatus(c, toPodSandboxStatus(call[c].id))
    BY <1>5, <2>1, HandedGotStatus DEF StatusWaitReady
  <2>2. CASE Goto(c, "status2") /\ UNCHANGED <<proc, started, known>>
    <3>1. /\ call[c].pc = "status"
          /\ \A d \in Calls : d # c => call'[d] = call[d]
          /\ call'[c].op = call[c].op /\ call'[c].path = call[c].path
      BY <1>5, <2>2 DEF StatusWaitReady, Goto, IInv, TypeOK, CallRecords
    <3> QED
      BY <2>2, <3>1, HandedKept
  <2> QED
    BY <1>5, <2>1, <2>2 DEF StatusWaitReady
<1>6. ASSUME NEW c \in Calls, StatusNoWait(c) PROVE Handed'
  BY <1>6, HandedGotStatus DEF StatusNoWait
<1>7. ASSUME NEW c \in Calls, RktStop(c) \/ RktRm(c) PROVE Handed'
  <2>1. /\ UNCHANGED <<proc, started, known>>
        /\ \A d \in Calls : d # c => call'[d] = call[d]
        /\ call'[c].op # "Run"
    BY <1>7 DEF RktStop, RktRm, StopFails, ReturnErr, Ended, Goto, IInv, TypeOK,
                CallRecords, Control
  <2> QED
    BY <2>1, HandedKept
<1>8. ASSUME NEW dead, ProcessEnds(dead) PROVE Handed'
  <2>1. /\ UNCHANGED <<proc, started, known>>
        /\ \A d \in Calls : call'[d].pc = "idle"
    BY <1>8 DEF ProcessEnds, Died, Ended
  <2> QED
    BY <2>1 DEF Handed
<1>9. CASE UNCHANGED <<proc, call, started>> /\ known \subseteq known'
  BY <1>9 DEF Handed
<1> QED
  BY <1>1, <1>2, <1>3, <1>4, <1>5, <1>6, <1>7, <1>8, <1>9
     DEF Next, Kubelet, Handler, TempFilePanics, Crash, ListPodSandbox, vars,
         SandboxProcesses, SandboxProcess, NewPod, Prepare, Run, Exit

----------------------------------------------------------------------------
(* Steps of the service as steps of the contract.                          *)

(* Only one sandbox moves, as the contract lets it, or none does.          *)
LEMMA LifeStep ==
  ASSUME NEW u \in UUIDs, u \notin Foreign,
         \A v \in UUIDs : v # u => podState'[v] = podState[v],
         \/ Life(u)' = Life(u)
         \/ Life(u) = "absent" /\ Life(u)' \in {"created", "removed"}
         \/ Life(u) = "created" /\ Life(u)' \in {"ready", "stopped"}
         \/ Life(u) = "ready" /\ Life(u)' = "stopped"
         \/ Life(u) = "stopped" /\ Life(u)' = "removed",
         UNCHANGED <<started, known>>
  PROVE  [Cri!CriNext]_(Cri!criVars)
<1> DEFINE life == [v \in UUIDs \ Foreign |-> Life(v)]
<1>1. \A v \in UUIDs \ Foreign : v # u => Life(v)' = Life(v)
  BY DEF Life
<1>2. life' = [life EXCEPT ![u] = Life(u)']
  BY <1>1
<1>3. life[u] = Life(u) /\ u \in UUIDs \ Foreign
  OBVIOUS
<1>4. CASE Life(u)' = Life(u)
  <2>1. life' = life
    BY <1>1, <1>4
  <2> QED
    BY <2>1 DEF Cri!criVars
<1>5. CASE Life(u) = "absent" /\ Life(u)' = "created"
  <2>1. Cri!Create(u)
    BY <1>2, <1>3, <1>5 DEF Cri!Create, Cri!Move
  <2> QED
    BY <1>3, <2>1 DEF Cri!CriNext
<1>6. CASE Life(u) = "absent" /\ Life(u)' = "removed"
  <2>1. Cri!NeverCreated(u)
    BY <1>2, <1>3, <1>6 DEF Cri!NeverCreated, Cri!Move
  <2> QED
    BY <1>3, <2>1 DEF Cri!CriNext
<1>7. CASE Life(u) = "created" /\ Life(u)' = "ready"
  <2>1. Cri!BecomeReady(u)
    BY <1>2, <1>3, <1>7 DEF Cri!BecomeReady, Cri!Move
  <2> QED
    BY <1>3, <2>1 DEF Cri!CriNext
<1>8. CASE Life(u) \in {"created", "ready"} /\ Life(u)' = "stopped"
  <2>1. Cri!Stopped(u)
    BY <1>2, <1>3, <1>8 DEF Cri!Stopped, Cri!Move
  <2> QED
    BY <1>3, <2>1 DEF Cri!CriNext
<1>9. CASE Life(u) = "stopped" /\ Life(u)' = "removed"
  <2>1. Cri!Removed(u)
    BY <1>2, <1>3, <1>9 DEF Cri!Removed, Cri!Move
  <2> QED
    BY <1>3, <2>1 DEF Cri!CriNext
<1> QED
  BY <1>4, <1>5, <1>6, <1>7, <1>8, <1>9

(* What the contract does not see.                                         *)
LEMMA CriStutter ==
  ASSUME \A u \in UUIDs \ Foreign : Life(u)' = Life(u), UNCHANGED <<started, known>>
  PROVE  [Cri!CriNext]_(Cri!criVars)
  BY DEF Cri!criVars

LEMMA GotStatusCri ==
  ASSUME IInv, Handed, NEW c \in Calls, NEW st,
         call[c].pc \in {"status", "status2"}, GotStatus(c, st),
         st = "READY" => podState[call[c].id] \in {"running", "stopping"}
  PROVE  [Cri!CriNext]_(Cri!criVars)
<1>0. \A u \in UUIDs \ Foreign : Life(u)' = Life(u)
  BY DEF GotStatus, Life
<1>1. CASE UNCHANGED <<started, known>>
  BY <1>0, <1>1, CriStutter
<1>2. CASE /\ call[c].op = "Run" /\ RunAccepts(st)
           /\ started' = started \cup {call[c].id}
           /\ known' = known \cup {call[c].id}
  <2> DEFINE u == call[c].id
  <2>1. u \in UUIDs \ Foreign /\ u \notin started
    BY <1>2, OwnUnhanded
  <2>2. Life(u) = "ready"
    BY <1>2 DEF RunAccepts, Life
  <2>3. [v \in UUIDs \ Foreign |-> Life(v)]' = [v \in UUIDs \ Foreign |-> Life(v)]
    BY <1>0
  <2>4. Cri!RunReturns(u)
    BY <1>2, <2>1, <2>2, <2>3 DEF Cri!RunReturns
  <2> QED
    BY <2>1, <2>4 DEF Cri!CriNext
<1> QED
  BY <1>1, <1>2 DEF GotStatus

LEMMA ListCri ==
  ASSUME IInv, NEW f \in Filters, ListPodSandbox(f)
  PROVE  [Cri!CriNext]_(Cri!criVars)
<1> DEFINE S == Listed(f)
<1>1. S \in SUBSET (UUIDs \ Foreign)
  BY DEF Listed, isKubernetesPod, IInv, Manifests, ListPodSandbox, Unconvertible,
         toPodSandboxStatus
<1>2. \A u \in S : Life(u) \in {"created", "ready", "stopped"}
  BY DEF Listed, Exists, Life, IInv, TypeOK, RktTypeOK, PodStates
<1>3. [v \in UUIDs \ Foreign |-> Life(v)]' = [v \in UUIDs \ Foreign |-> Life(v)]
  BY DEF ListPodSandbox, Life
<1>4. Cri!ListReturns(S)
  BY <1>1, <1>2, <1>3 DEF ListPodSandbox, Cri!ListReturns
<1> QED
  BY <1>1, <1>4 DEF Cri!CriNext

LEMMA ProcessCri ==
  ASSUME IInv, NEW u \in UUIDs, SandboxProcess(u), UNCHANGED <<started, known>>
  PROVE  [Cri!CriNext]_(Cri!criVars)
<1>1. \A v \in UUIDs : v # u => podState'[v] = podState[v]
  BY DEF SandboxProcess, NewPod, Prepare, Run, Exit, IInv, TypeOK, RktTypeOK
<1>2. CASE u \in Foreign
  <2>1. \A v \in UUIDs \ Foreign : Life(v)' = Life(v)
    BY <1>1, <1>2 DEF Life
  <2> QED
    BY <2>1, CriStutter
<1>3. CASE u \notin Foreign
  <2>1. \/ podState[u] = "spawned" /\ podState'[u] \in {"embryo", "gone"}
        \/ podState[u] = "embryo" /\ podState'[u] \in {"prepared", "exited"}
        \/ podState[u] = "prepared" /\ podState'[u] \in {"running", "exited"}
        \/ podState[u] \in {"running", "stopping"} /\ podState'[u] = "exited"
    BY DEF SandboxProcess, NewPod, Prepare, Run, Exit, IInv, TypeOK, RktTypeOK
  <2>2. \/ Life(u)' = Life(u)
        \/ Life(u) = "absent" /\ Life(u)' \in {"created", "removed"}
        \/ Life(u) = "created" /\ Life(u)' \in {"ready", "stopped"}
        \/ Life(u) = "ready" /\ Life(u)' = "stopped"
    BY <2>1 DEF Life
  <2> QED
    BY <1>1, <1>3, <2>2, LifeStep
<1> QED
  BY <1>2, <1>3

LEMMA RktRmCri ==
  ASSUME IInv, NEW c \in Calls, RktRm(c)
  PROVE  [Cri!CriNext]_(Cri!criVars)
<1>1. PICK u \in UUIDs : u = call[c].id /\ u \notin Foreign
  BY DEF RktRm, IInv, Control, KnownIds, TypeOK
<1>2. UNCHANGED <<started, known>>
  BY DEF RktRm
<1>3. /\ \A v \in UUIDs : v # u => podState'[v] = podState[v]
      /\ \/ podState'[u] = podState[u]
         \/ podState[u] = "exited" /\ podState'[u] = "gone"
  BY <1>1 DEF RktRm, RmEffect, IInv, TypeOK, RktTypeOK
<1>4. Life(u)' = Life(u) \/ (Life(u) = "stopped" /\ Life(u)' = "removed")
  BY <1>3 DEF Life
<1> QED
  BY <1>1, <1>2, <1>3, <1>4, LifeStep

LEMMA NextCri == IInv /\ Handed /\ [Next]_vars => [Cri!CriNext]_(Cri!criVars)
<1> SUFFICES ASSUME IInv, Handed, [Next]_vars PROVE [Cri!CriNext]_(Cri!criVars)
  OBVIOUS
<1>1. CASE UNCHANGED <<podState, started, known>>
  BY <1>1, CriStutter DEF Life
<1>2. ASSUME NEW c \in Calls, Kubelet(c) PROVE UNCHANGED <<podState, started, known>>
  BY <1>2 DEF Kubelet, RunPodSandbox, PodSandboxStatus, StopPodSandbox, RemovePodSandbox
<1>3. ASSUME NEW c \in Calls, StartProcess(c) PROVE [Cri!CriNext]_(Cri!criVars)
  <2>1. UNCHANGED <<started, known>>
    BY <1>3 DEF StartProcess, RunFails
  <2>2. \A u \in UUIDs : \/ podState'[u] = podState[u]
                         \/ podState[u] = "unused" /\ podState'[u] = "spawned"
    BY <1>3 DEF StartProcess, Spawn, IInv, TypeOK, RktTypeOK
  <2> QED
    BY <2>1, <2>2, CriStutter DEF Life
<1>4. ASSUME NEW c \in Calls, StartProcessReturns(c) \/ ReadUUIDFile(c)
      PROVE  UNCHANGED <<podState, started, known>>
  BY <1>4 DEF StartProcessReturns, ReadUUIDFile, RunFails
<1>5. ASSUME NEW c \in Calls, StatusWaitReady(c) \/ StatusNoWait(c)
      PROVE  [Cri!CriNext]_(Cri!criVars)
  <2>0. call[c].pc \in {"status", "status2"}
    BY <1>5 DEF StatusWaitReady, StatusNoWait
  <2>1. CASE GotStatus(c, toPodSandboxStatus(call[c].id))
    <3>1. toPodSandboxStatus(call[c].id) = "READY" =>
            podState[call[c].id] \in {"running", "stopping"}
      BY DEF toPodSandboxStatus, ReportsRunning
    <3> QED
      BY <2>0, <2>1, <3>1, GotStatusCri
  <2>2. CASE GotStatus(c, "error")
    BY <2>0, <2>2, GotStatusCri
  <2> QED
    BY <1>1, <1>5, <2>1, <2>2 DEF StatusWaitReady, StatusNoWait
<1>6. ASSUME NEW c \in Calls, RktStop(c) PROVE [Cri!CriNext]_(Cri!criVars)
  <2>1. UNCHANGED <<started, known>>
    BY <1>6 DEF RktStop
  <2>2. \A u \in UUIDs : \/ podState'[u] = podState[u]
                         \/ podState[u] = "running" /\ podState'[u] = "stopping"
    BY <1>6 DEF RktStop, StopEffect, IInv, TypeOK, RktTypeOK
  <2> QED
    BY <2>1, <2>2, CriStutter DEF Life
<1>7. ASSUME NEW c \in Calls, RktRm(c) PROVE [Cri!CriNext]_(Cri!criVars)
  BY <1>7, RktRmCri
<1>8. ASSUME NEW f \in Filters, ListPodSandbox(f) PROVE [Cri!CriNext]_(Cri!criVars)
  BY <1>8, ListCri
<1>9. CASE SandboxProcesses
  BY <1>9, ProcessCri DEF SandboxProcesses
<1>10. CASE Crash \/ \E c \in Calls : TempFilePanics(c)
  BY <1>1, <1>10 DEF Crash, TempFilePanics, ProcessEnds
<1> QED
  BY <1>1, <1>2, <1>3, <1>4, <1>5, <1>6, <1>7, <1>8, <1>9, <1>10 DEF Next, Handler, vars

(* The handlers of pod_sandbox.go, with their temporary files, polls,      *)
(* retries, failures and crashes, implement the life cycle of the CRI: a   *)
(* sandbox is handed out at most once and while it is ready, the kubelet   *)
(* hears only of sandboxes that exist, and none is removed unless stopped. *)
THEOREM CriImplemented == Spec => ImplementsCri
<1>1. SandboxInit => Cri!CriInit
  BY DEF SandboxInit, RktInit, Cri!CriInit, Life
<1>2. SandboxInit => Handed
  BY DEF SandboxInit, Handed
<1>3. IInv /\ Handed /\ [Next]_vars => Handed'
  BY HandedNext
<1>4. IInv /\ Handed /\ [Next]_vars => [Cri!CriNext]_(Cri!criVars)
  BY NextCri
<1> QED
  BY <1>1, <1>2, <1>3, <1>4, Invariant, PTL DEF Spec, ImplementsCri, Cri!CriSpec

=============================================================================
