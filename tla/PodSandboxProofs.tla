-------------------------- MODULE PodSandboxProofs --------------------------
(***************************************************************************)
(* Proofs, for every set of calls, sandboxes, temporary files and filters  *)
(* and every number of polls, of the safety properties of PodSandbox.      *)
(*                                                                         *)
(* None of them is inductive by itself.  What makes them so is one chain   *)
(* of ownership: a RunPodSandbox owns its temporary file, the file is on   *)
(* the command line of at most one sandbox process, only that process      *)
(* writes the file, and the process carries the metadata of the call.      *)
(***************************************************************************)
EXTENDS PodSandbox, TLAPS

(* Which program counters an operation passes through, with which locals.  *)
Control ==
  \A c \in Calls :
    /\ call[c].pc \in {"start", "starting", "poll"} => call[c].op = "Run"
    /\ call[c].pc = "stop" => call[c].op \in {"Stop", "Remove"}
    /\ call[c].pc = "rm" => call[c].op = "Remove"
    /\ call[c].pc \in {"status", "status2"} =>
         call[c].op # "none" /\ call[c].id # NoUUID
    /\ call[c].pc # "idle" => call[c].ret = "none"
    /\ call[c].op = "Run" /\ (call[c].pc # "idle" \/ call[c].ret = "ok") =>
         call[c].path # NoPath
    /\ call[c].path # NoPath => call[c].op = "Run" /\ call[c].meta # NoMeta

(* A call's temporary file exists or has existed, and is its own.          *)
CallsOwnFiles ==
  /\ \A c \in Calls : call[c].path # NoPath => tmp[call[c].path] # "free"
  /\ \A c, d \in Calls :
       c # d /\ call[c].path # NoPath => call[c].path # call[d].path

(* A sandbox process has a file on its command line, which no other has.   *)
ProcessesOwnFiles ==
  /\ \A u \in UUIDs :
       /\ podState[u] = "unused" \/ u \in Foreign => proc[u].path = NoPath
       /\ podState[u] # "unused" /\ u \notin Foreign =>
            /\ proc[u].path # NoPath
            /\ tmp[proc[u].path] # "free"
            /\ proc[u].meta # NoMeta
  /\ \A u, v \in UUIDs :
       u # v /\ proc[u].path # NoPath => proc[u].path # proc[v].path

(* The process with a call's file is the one that this call started.       *)
ProcessOfCall ==
  \A c \in Calls, u \in UUIDs :
    call[c].path # NoPath /\ proc[u].path = call[c].path =>
      /\ call[c].pc # "start"
      /\ proc[u].meta = call[c].meta

(* What is in a file was written by the process that has it.               *)
FilesHoldOwner ==
  \A p \in Paths : content[p] # NoUUID =>
    /\ proc[content[p]].path = p
    /\ podState[content[p]] \notin {"unused", "spawned"}

(* What RunPodSandbox takes for its sandbox is what its file says.         *)
RunIds ==
  \A c \in Calls : call[c].op = "Run" /\ call[c].id # NoUUID =>
    /\ call[c].path # NoPath
    /\ content[call[c].path] = call[c].id

(* The manifest gets the metadata of the command line before the pod runs. *)
Manifests ==
  \A u \in UUIDs :
    /\ podState[u] \in {"unused", "spawned", "embryo"} =>
         podAnno[u] = NoMeta /\ u \notin everRan
    /\ podState[u] \in {"running", "stopping"} => u \in everRan
    /\ u \in Foreign => podAnno[u] \in {NoMeta, BadMeta}
    /\ u \notin Foreign => podAnno[u] \in {NoMeta, proc[u].meta}
    /\ u \notin Foreign /\ (podState[u] = "prepared" \/ u \in everRan) =>
         podAnno[u] = proc[u].meta

(* Success of RunPodSandbox is said of a pod that has run.                 *)
RunOks ==
  \A c \in Calls : call[c].op = "Run" /\ call[c].ret = "ok" =>
    /\ call[c].id # NoUUID
    /\ call[c].id \in everRan

(* The kubelet knows, and asks for, sandboxes of its own that have been    *)
(* made; foreign pods are left alone.                                      *)
KnownIds ==
  /\ \A u \in known : u \notin Foreign /\ podState[u] \notin {"unused", "spawned"}
  /\ \A c \in Calls :
       /\ call[c].op \in {"Stop", "Remove", "Status"}
       /\ call[c].pc # "idle" \/ call[c].ret = "ok"
       => call[c].id \in known
  /\ \A u \in Foreign : podState[u] \in {"running", "exited"}

(* Once rkt stop has been answered the pod is on its way down.             *)
StopProgress ==
  \A c \in Calls :
    /\ call[c].op = "Stop"
    /\ call[c].pc \in {"status", "status2"} \/ call[c].ret = "ok"
    => podState[call[c].id] \in {"stopping", "exited", "gone"}

(* The inductive invariant.                                                *)
IInv ==
  /\ TypeOK
  /\ Control
  /\ CallsOwnFiles
  /\ ProcessesOwnFiles
  /\ ProcessOfCall
  /\ FilesHoldOwner
  /\ RunIds
  /\ Manifests
  /\ RunOks
  /\ KnownIds
  /\ StopProgress

----------------------------------------------------------------------------
LEMMA InitInv == SandboxInit => IInv
<1> SUFFICES ASSUME SandboxInit PROVE IInv
  OBVIOUS
<1> USE RktAssumption, PodSandboxAssumption DEF SandboxInit, RktInit, Ended
<1>1. TypeOK
  BY DEF TypeOK, RktTypeOK, PodStates, TmpStates, CallRecords, Ops, Pcs, Results
<1>2. Control /\ CallsOwnFiles /\ ProcessOfCall /\ RunIds /\ RunOks /\ StopProgress
  BY DEF Control, CallsOwnFiles, ProcessOfCall, RunIds, RunOks, StopProgress
<1>3. ProcessesOwnFiles /\ FilesHoldOwner /\ Manifests /\ KnownIds
  BY DEF ProcessesOwnFiles, FilesHoldOwner, Manifests, KnownIds
<1> QED
  BY <1>1, <1>2, <1>3 DEF IInv

LEMMA RunPodSandboxInv ==
  ASSUME IInv, NEW c \in Calls, NEW m \in Metas, RunPodSandbox(c, m)
  PROVE  IInv'
<1> USE RktAssumption DEF IInv
<1> PICK p \in Paths : /\ FreshPath(p)
                       /\ Begin(c, "Run", "start", NoUUID, m, p)
                       /\ tmp' = [tmp EXCEPT ![p] = "present"]
  BY DEF RunPodSandbox
<1>0. UNCHANGED <<podState, podAnno, proc, content, everRan, started, known>>
  BY DEF RunPodSandbox
<1>c. /\ call[c].pc = "idle"
      /\ call' = [call EXCEPT ![c] = [op |-> "Run", pc |-> "start", id |-> NoUUID,
                     meta |-> m, path |-> p, polls |-> 0, ret |-> "none"]]
  BY DEF Begin
<1>1. TypeOK'
  BY <1>0, <1>c, PodSandboxAssumption
     DEF TypeOK, RktTypeOK, TmpStates, CallRecords, Ops, Pcs, Results
<1>2. Control'
  BY <1>0, <1>c DEF Control, TypeOK
<1>3. CallsOwnFiles'
  BY <1>0, <1>c DEF CallsOwnFiles, TypeOK, RktTypeOK, FreshPath
<1>4. ProcessesOwnFiles'
  BY <1>0 DEF ProcessesOwnFiles, TypeOK, RktTypeOK
<1>5. ProcessOfCall'
  BY <1>0, <1>c DEF ProcessOfCall, ProcessesOwnFiles, TypeOK, RktTypeOK, FreshPath
<1>6. FilesHoldOwner' /\ Manifests'
  BY <1>0 DEF FilesHoldOwner, Manifests
<1>7. RunIds' /\ RunOks'
  BY <1>0, <1>c DEF RunIds, RunOks, TypeOK
<1>8. KnownIds' /\ StopProgress'
  BY <1>0, <1>c DEF KnownIds, StopProgress, TypeOK
<1> QED
  BY <1>1, <1>2, <1>3, <1>4, <1>5, <1>6, <1>7, <1>8

(* The other handlers begin with an id that the kubelet knows.             *)
LEMMA BeginInv ==
  ASSUME IInv, NEW c \in Calls, NEW u \in known,
         NEW op \in {"Stop", "Remove", "Status"}, NEW pc \in {"stop", "status"},
         pc = "status" <=> op = "Status",
         Begin(c, op, pc, u, NoMeta, NoPath),
         UNCHANGED <<podState, podAnno, proc, tmp, content, everRan, started, known>>
  PROVE  IInv'
<1> USE RktAssumption DEF IInv
<1>c. /\ call[c].pc = "idle"
      /\ call' = [call EXCEPT ![c] = [op |-> op, pc |-> pc, id |-> u,
                     meta |-> NoMeta, path |-> NoPath, polls |-> 0, ret |-> "none"]]
  BY DEF Begin
<1>1. TypeOK'
  BY <1>c, PodSandboxAssumption
     DEF TypeOK, RktTypeOK, CallRecords, Ops, Pcs, Results
<1>2. Control'
  BY <1>c DEF Control, TypeOK
<1>3. CallsOwnFiles' /\ ProcessOfCall'
  BY <1>c DEF CallsOwnFiles, ProcessOfCall, TypeOK
<1>4. ProcessesOwnFiles' /\ FilesHoldOwner' /\ Manifests'
  BY DEF ProcessesOwnFiles, FilesHoldOwner, Manifests
<1>5. RunIds' /\ RunOks'
  BY <1>c DEF RunIds, RunOks, TypeOK
<1>6. KnownIds' /\ StopProgress'
  BY <1>c DEF KnownIds, StopProgress, TypeOK
<1> QED
  BY <1>1, <1>2, <1>3, <1>4, <1>5, <1>6

(* A call goes on, without touching anything but its program counter.      *)
LEMMA GotoInv ==
  ASSUME IInv, NEW c \in Calls, NEW pc \in Pcs \ {"idle", "start"},
         call[c].pc # "idle",
         Goto(c, pc), Control', StopProgress',
         UNCHANGED <<podState, podAnno, proc, tmp, content, everRan, started, known>>
  PROVE  IInv'
<1> USE DEF IInv, Goto
<1>1. TypeOK'
  BY DEF TypeOK, RktTypeOK, CallRecords, Pcs
<1>2. CallsOwnFiles' /\ ProcessOfCall'
  BY DEF CallsOwnFiles, ProcessOfCall, TypeOK
<1>3. ProcessesOwnFiles' /\ FilesHoldOwner' /\ Manifests'
  BY DEF ProcessesOwnFiles, FilesHoldOwner, Manifests
<1>4. RunIds' /\ RunOks' /\ KnownIds'
  BY DEF RunIds, RunOks, KnownIds, TypeOK
<1> QED
  BY <1>1, <1>2, <1>3, <1>4

(* A call that ends without success forgets everything; the file may go.   *)
LEMMA FailInv ==
  ASSUME IInv, NEW c \in Calls, ReturnErr(c),
         call[c].pc # "idle",
         UNCHANGED tmp \/ RemoveUUIDFile(c),
         UNCHANGED <<podState, podAnno, proc, content, everRan, started, known>>
  PROVE  IInv'
<1> USE RktAssumption DEF IInv
<1>c. call' = [call EXCEPT ![c] = [op |-> call[c].op, pc |-> "idle", id |-> NoUUID,
                 meta |-> NoMeta, path |-> NoPath, polls |-> 0, ret |-> "err"]]
  BY DEF ReturnErr, Ended
<1>t. /\ tmp' \in [Paths -> TmpStates]
      /\ \A p \in Paths : tmp'[p] = "free" <=> tmp[p] = "free"
  BY DEF RemoveUUIDFile, TypeOK, RktTypeOK, TmpStates
<1>1. TypeOK'
  BY <1>c, <1>t, PodSandboxAssumption
     DEF TypeOK, RktTypeOK, CallRecords, Ops, Pcs, Results
<1>2. Control'
  BY <1>c DEF Control, TypeOK
<1>3. CallsOwnFiles'
  BY <1>c, <1>t DEF CallsOwnFiles, TypeOK, CallRecords
<1>4. ProcessOfCall'
  BY <1>c DEF ProcessOfCall, TypeOK
<1>5. ProcessesOwnFiles'
  BY <1>t DEF ProcessesOwnFiles, TypeOK, RktTypeOK
<1>6. FilesHoldOwner' /\ Manifests'
  BY DEF FilesHoldOwner, Manifests
<1>7. RunIds' /\ RunOks'
  BY <1>c DEF RunIds, RunOks, TypeOK
<1>8. KnownIds' /\ StopProgress'
  BY <1>c DEF KnownIds, StopProgress, TypeOK
<1> QED
  BY <1>1, <1>2, <1>3, <1>4, <1>5, <1>6, <1>7, <1>8

(* The end of the process is the end of every call; the files turn stale.  *)
LEMMA ProcessEndsInv ==
  ASSUME IInv, NEW dead \in SUBSET Calls, ProcessEnds(dead)
  PROVE  IInv'
<1> USE RktAssumption DEF IInv
<1>0. UNCHANGED <<podState, podAnno, proc, content, everRan, started, known>>
  BY DEF ProcessEnds
<1>c. /\ DOMAIN call' = Calls
      /\ \A c \in Calls :
           \/ call[c].pc = "idle" /\ call'[c] = call[c]
           \/ \E op \in Ops :
                call'[c] = [op |-> op, pc |-> "idle", id |-> NoUUID, meta |-> NoMeta,
                            path |-> NoPath, polls |-> 0, ret |-> "lost"]
  BY DEF ProcessEnds, Died, Ended, TypeOK, CallRecords, Ops
<1>f. call' = [c \in Calls |-> call'[c]]
  BY DEF ProcessEnds
<1>t. /\ tmp' \in [Paths -> TmpStates]
      /\ \A p \in Paths : tmp'[p] = "free" <=> tmp[p] = "free"
  BY DEF ProcessEnds, TypeOK, RktTypeOK, TmpStates
<1>1. TypeOK'
  <2>1. \A c \in Calls : call'[c] \in CallRecords
    BY <1>c, PodSandboxAssumption DEF TypeOK, CallRecords, Ops, Pcs, Results
  <2> QED
    BY <1>0, <1>f, <1>t, <2>1 DEF TypeOK, RktTypeOK
<1>2. Control'
  BY <1>c DEF Control, TypeOK
<1>3. CallsOwnFiles'
  BY <1>c, <1>t DEF CallsOwnFiles, TypeOK, CallRecords
<1>4. ProcessOfCall'
  BY <1>0, <1>c DEF ProcessOfCall, TypeOK
<1>5. ProcessesOwnFiles'
  BY <1>0, <1>t DEF ProcessesOwnFiles, TypeOK, RktTypeOK
<1>6. FilesHoldOwner' /\ Manifests'
  BY <1>0 DEF FilesHoldOwner, Manifests
<1>7. RunIds' /\ RunOks'
  BY <1>0, <1>c DEF RunIds, RunOks, TypeOK
<1>8. KnownIds' /\ StopProgress'
  BY <1>0, <1>c DEF KnownIds, StopProgress, TypeOK
<1> QED
  BY <1>1, <1>2, <1>3, <1>4, <1>5, <1>6, <1>7, <1>8

(* systemd starts the process of a call, which has the call's own file.    *)
LEMMA SpawnInv ==
  ASSUME IInv, NEW c \in Calls, NEW u \in UUIDs,
         call[c].op = "Run", call[c].pc = "start",
         Spawn(u, SandboxCommandMeta(c), call[c].path), Goto(c, "starting"),
         UNCHANGED <<podAnno, tmp, content, everRan, started, known>>
  PROVE  IInv'
<1> USE RktAssumption DEF IInv
<1>p. /\ podState[u] = "unused"
      /\ podState' = [podState EXCEPT ![u] = "spawned"]
      /\ proc' = [proc EXCEPT ![u] = [meta |-> call[c].meta, path |-> call[c].path]]
  BY DEF Spawn, SandboxCommandMeta
<1>c. call' = [call EXCEPT ![c].pc = "starting"]
  BY DEF Goto
<1>l. call[c].path \in Paths /\ call[c].meta \in Metas
  BY DEF Control, TypeOK, CallRecords
<1>u. u \notin Foreign /\ u \notin known
  BY <1>p DEF KnownIds
<1>1. TypeOK'
  BY <1>p, <1>c, <1>l DEF TypeOK, RktTypeOK, PodStates, CallRecords, Pcs
<1>2. Control'
  BY <1>c DEF Control, TypeOK
<1>3. CallsOwnFiles'
  BY <1>c DEF CallsOwnFiles, TypeOK
<1>4. ProcessesOwnFiles'
  <2>1. \A v \in UUIDs : proc[v].path # call[c].path
    BY <1>l DEF ProcessOfCall, Control
  <2> QED
    BY <1>p, <1>l, <1>u, <2>1 DEF ProcessesOwnFiles, CallsOwnFiles, TypeOK, RktTypeOK
<1>5. ProcessOfCall'
  BY <1>p, <1>c, <1>l DEF ProcessOfCall, CallsOwnFiles, TypeOK, RktTypeOK
<1>6. FilesHoldOwner'
  BY <1>p DEF FilesHoldOwner, TypeOK, RktTypeOK
<1>7. Manifests'
  BY <1>p, <1>l DEF Manifests, TypeOK, RktTypeOK
<1>8. RunIds' /\ RunOks'
  BY <1>c DEF RunIds, RunOks, TypeOK
<1>9. KnownIds'
  BY <1>p, <1>c, <1>u DEF KnownIds, TypeOK, RktTypeOK
<1>10. StopProgress'
  BY <1>p, <1>c DEF StopProgress, KnownIds, TypeOK, RktTypeOK
<1> QED
  BY <1>1, <1>2, <1>3, <1>4, <1>5, <1>6, <1>7, <1>8, <1>9, <1>10

LEMMA StartProcessInv ==
  ASSUME IInv, NEW c \in Calls, StartProcess(c)
  PROVE  IInv'
<1>1. CASE RunFails(c) /\ UNCHANGED <<podState, proc, podAnno, everRan>>
  BY <1>1, FailInv DEF StartProcess, RunFails
<1>2. CASE \E u \in UUIDs :
             /\ Spawn(u, SandboxCommandMeta(c), call[c].path)
             /\ Goto(c, "starting")
             /\ UNCHANGED <<podAnno, tmp, content, everRan, started, known>>
  BY <1>2, SpawnInv DEF StartProcess
<1> QED
  BY <1>1, <1>2 DEF StartProcess

LEMMA StartProcessReturnsInv ==
  ASSUME IInv, NEW c \in Calls, StartProcessReturns(c)
  PROVE  IInv'
<1>1. CASE RunFails(c)
  BY <1>1, FailInv DEF StartProcessReturns, RunFails
<1>2. CASE Goto(c, "poll") /\ UNCHANGED <<tmp, content, started, known>>
  <2>1. UNCHANGED <<podState, podAnno, proc, tmp, content, everRan, started, known>>
    BY <1>2 DEF StartProcessReturns
  <2>2. call[c].op = "Run" /\ call[c].pc = "starting"
    BY DEF StartProcessReturns
  <2>3. Control' /\ StopProgress'
    BY <1>2, <2>1, <2>2 DEF IInv, Control, StopProgress, Goto, TypeOK
  <2> QED
    BY <1>2, <2>1, <2>2, <2>3, GotoInv DEF Pcs
<1> QED
  BY <1>1, <1>2 DEF StartProcessReturns

LEMMA ReadUUIDFileInv ==
  ASSUME IInv, NEW c \in Calls, ReadUUIDFile(c)
  PROVE  IInv'
<1> USE RktAssumption DEF IInv
<1>0. /\ call[c].op = "Run" /\ call[c].pc = "poll"
      /\ UNCHANGED <<podState, podAnno, proc, everRan>>
  BY DEF ReadUUIDFile
<1>l. call[c].path \in Paths
  BY <1>0 DEF Control, TypeOK, CallRecords
<1>1. CASE RunFails(c)
  BY <1>0, <1>1, FailInv DEF RunFails
<1>2. CASE /\ content[call[c].path] # NoUUID
           /\ call' = [call EXCEPT ![c].id = content[call[c].path],
                                   ![c].pc = "status"]
           /\ UNCHANGED <<tmp, content, started, known>>
  <2>1. TypeOK'
    BY <1>0, <1>2, <1>l DEF TypeOK, RktTypeOK, CallRecords, Pcs
  <2>2. Control'
    BY <1>0, <1>2 DEF Control, TypeOK
  <2>3. CallsOwnFiles' /\ ProcessOfCall'
    BY <1>0, <1>2 DEF CallsOwnFiles, ProcessOfCall, TypeOK
  <2>4. ProcessesOwnFiles' /\ FilesHoldOwner' /\ Manifests'
    BY <1>0, <1>2 DEF ProcessesOwnFiles, FilesHoldOwner, Manifests
  <2>5. RunIds' /\ RunOks'
    BY <1>0, <1>2, <1>l DEF RunIds, RunOks, Control, TypeOK
  <2>6. KnownIds' /\ StopProgress'
    BY <1>0, <1>2 DEF KnownIds, StopProgress, TypeOK
  <2> QED
    BY <2>1, <2>2, <2>3, <2>4, <2>5, <2>6
<1>3. CASE /\ PollsLeft(c)
           /\ call' = [call EXCEPT ![c].polls = NextPoll(c)]
           /\ UNCHANGED <<tmp, content, started, known>>
  <2>1. TypeOK'
    <3>1. call[c].polls \in 0..(MaxPolls - 1)
      BY DEF TypeOK, CallRecords
    <3>2. NextPoll(c) \in 0..(MaxPolls - 1)
      BY <1>3, <3>1, PodSandboxAssumption DEF NextPoll, PollsLeft
    <3> QED
      BY <1>0, <1>3, <3>2 DEF TypeOK, RktTypeOK, CallRecords
  <2>2. Control' /\ CallsOwnFiles' /\ ProcessOfCall'
    BY <1>0, <1>3 DEF Control, CallsOwnFiles, ProcessOfCall, TypeOK
  <2>3. ProcessesOwnFiles' /\ FilesHoldOwner' /\ Manifests'
    BY <1>0, <1>3 DEF ProcessesOwnFiles, FilesHoldOwner, Manifests
  <2>4. RunIds' /\ RunOks' /\ KnownIds' /\ StopProgress'
    BY <1>0, <1>3 DEF RunIds, RunOks, KnownIds, StopProgress, TypeOK
  <2> QED
    BY <2>1, <2>2, <2>3, <2>4
<1> QED
  BY <1>1, <1>2, <1>3 DEF ReadUUIDFile

----------------------------------------------------------------------------
LEMMA ReturnOkType ==
  ASSUME call \in [Calls -> CallRecords], NEW c \in Calls, ReturnOk(c)
  PROVE  call' \in [Calls -> CallRecords]
<1> DEFINE idle == [call EXCEPT ![c].pc = "idle"]
           ok   == [idle EXCEPT ![c].ret = "ok"]
<1>1. idle \in [Calls -> CallRecords]
  BY DEF CallRecords, Pcs
<1>2. ok \in [Calls -> CallRecords]
  <2> HIDE DEF idle
  <2> QED
    BY <1>1 DEF CallRecords, Results
<1>3. [ok EXCEPT ![c].polls = 0] \in [Calls -> CallRecords]
  <2>1. 0 \in 0..(MaxPolls - 1)
    BY PodSandboxAssumption
  <2> HIDE DEF ok
  <2> QED
    BY <1>2, <2>1 DEF CallRecords
<1>4. call' = [ok EXCEPT ![c].polls = 0]
  BY DEF ReturnOk
<1> QED
  BY <1>3, <1>4

(* A call that succeeds keeps its locals.                                  *)
LEMMA SucceedInv ==
  ASSUME IInv, NEW c \in Calls, ReturnOk(c),
         call[c].pc \in {"status", "status2"},
         call[c].op \in {"Run", "Stop", "Status"},
         call[c].op = "Run" => /\ podState[call[c].id] \in {"running", "stopping"}
                               /\ RemoveUUIDFile(c)
                               /\ started' = started \cup {call[c].id}
                               /\ known' = known \cup {call[c].id},
         call[c].op # "Run" => UNCHANGED <<tmp, started, known>>,
         UNCHANGED <<podState, podAnno, proc, content, everRan>>
  PROVE  IInv'
<1> USE RktAssumption DEF IInv
<1>c. call' = [call EXCEPT ![c].pc = "idle", ![c].ret = "ok", ![c].polls = 0]
  BY DEF ReturnOk
<1>i. call[c].id \in UUIDs
  BY DEF Control, TypeOK, CallRecords
<1>t. /\ tmp' \in [Paths -> TmpStates]
      /\ \A p \in Paths : tmp'[p] = "free" <=> tmp[p] = "free"
  <2>1. CASE call[c].op = "Run"
    BY <2>1 DEF RemoveUUIDFile, TypeOK, RktTypeOK, TmpStates
  <2>2. CASE call[c].op # "Run"
    BY <2>2 DEF TypeOK, RktTypeOK
  <2> QED
    BY <2>1, <2>2
<1>k. /\ known \subseteq known' /\ known' \subseteq known \cup {call[c].id}
      /\ started' \subseteq started \cup {call[c].id}
  OBVIOUS
<1>1. TypeOK'
  <2>2. call' \in [Calls -> CallRecords]
    BY ReturnOkType DEF TypeOK
  <2>3. started' \subseteq UUIDs /\ known' \subseteq UUIDs
    BY <1>k, <1>i DEF TypeOK
  <2> QED
    BY <1>t, <2>2, <2>3 DEF TypeOK, RktTypeOK
<1>2. Control'
  BY <1>c DEF Control, TypeOK, CallRecords
<1>3. CallsOwnFiles'
  BY <1>c, <1>t DEF CallsOwnFiles, TypeOK, CallRecords
<1>4. ProcessOfCall'
  BY <1>c DEF ProcessOfCall, TypeOK, CallRecords
<1>5. ProcessesOwnFiles'
  BY <1>t DEF ProcessesOwnFiles, TypeOK, RktTypeOK
<1>6. FilesHoldOwner' /\ Manifests'
  BY DEF FilesHoldOwner, Manifests
<1>7. RunIds'
  BY <1>c DEF RunIds, TypeOK, CallRecords
<1>8. RunOks'
  BY <1>c, <1>i DEF RunOks, Manifests, Control, TypeOK, CallRecords
<1>9. KnownIds'
  <2>1. call[c].op = "Run" => call[c].id \notin Foreign
    BY <1>i DEF RunIds, FilesHoldOwner, ProcessesOwnFiles, Control, TypeOK, CallRecords
  <2>2. \A u \in known' : u \notin Foreign /\ podState'[u] \notin {"unused", "spawned"}
    BY <1>k, <2>1 DEF KnownIds
  <2>3. \A d \in Calls :
          /\ call'[d].op \in {"Stop", "Remove", "Status"}
          /\ call'[d].pc # "idle" \/ call'[d].ret = "ok"
          => call'[d].id \in known'
    BY <1>c, <1>k DEF KnownIds, TypeOK, CallRecords
  <2> QED
    BY <2>2, <2>3 DEF KnownIds
<1>10. StopProgress'
  BY <1>c DEF StopProgress, TypeOK, CallRecords
<1> QED
  BY <1>1, <1>2, <1>3, <1>4, <1>5, <1>6, <1>7, <1>8, <1>9, <1>10

(* What the callers of PodSandboxStatus do with its answer.                *)
LEMMA GotStatusInv ==
  ASSUME IInv, NEW c \in Calls, NEW st,
         call[c].pc \in {"status", "status2"}, GotStatus(c, st),
         st = "READY" => podState[call[c].id] \in {"running", "stopping"}
  PROVE  IInv'
<1>0. UNCHANGED <<podState, podAnno, proc, everRan, content>>
  BY DEF GotStatus
<1>1. CASE /\ call[c].op = "Run" /\ RunAccepts(st)
           /\ ReturnOk(c)
           /\ RemoveUUIDFile(c)
           /\ started' = started \cup {call[c].id}
           /\ known' = known \cup {call[c].id}
  BY <1>0, <1>1, SucceedInv DEF RunAccepts
<1>2. CASE ReturnErr(c) /\ RemoveUUIDFile(c) /\ UNCHANGED <<started, known>>
  BY <1>0, <1>2, FailInv
<1>3. CASE /\ call[c].op \in {"Stop", "Status"} /\ ReturnOk(c)
           /\ UNCHANGED <<tmp, started, known>>
  BY <1>0, <1>3, SucceedInv
<1>4. CASE ReturnErr(c) /\ UNCHANGED <<tmp, started, known>>
  BY <1>0, <1>4, FailInv
<1>5. CASE call[c].op = "Remove" /\ Goto(c, "rm") /\ UNCHANGED <<tmp, started, known>>
  <2>1. Control' /\ StopProgress'
    BY <1>0, <1>5 DEF IInv, Control, StopProgress, Goto, TypeOK
  <2> QED
    BY <1>0, <1>5, <2>1, GotoInv DEF Pcs
<1> QED
  BY <1>1, <1>2, <1>3, <1>4, <1>5 DEF GotStatus

LEMMA StatusInv ==
  ASSUME IInv, NEW c \in Calls, StatusWaitReady(c) \/ StatusNoWait(c)
  PROVE  IInv'
<1>0. call[c].pc \in {"status", "status2"}
  BY DEF StatusWaitReady, StatusNoWait
<1>1. CASE GotStatus(c, toPodSandboxStatus(call[c].id))
  <2>1. toPodSandboxStatus(call[c].id) = "READY" =>
          podState[call[c].id] \in {"running", "stopping"}
    BY DEF toPodSandboxStatus, ReportsRunning
  <2> QED
    BY <1>0, <1>1, <2>1, GotStatusInv
<1>2. CASE GotStatus(c, "error")
  BY <1>0, <1>2, GotStatusInv
<1>3. CASE /\ call[c].pc = "status" /\ Goto(c, "status2")
           /\ UNCHANGED <<podState, podAnno, proc, tmp, content, everRan, started, known>>
  <2>1. Control' /\ StopProgress'
    BY <1>3 DEF IInv, Control, StopProgress, Goto, TypeOK
  <2> QED
    BY <1>3, <2>1, GotoInv DEF Pcs
<1> QED
  BY <1>1, <1>2, <1>3 DEF StatusWaitReady, StatusNoWait

----------------------------------------------------------------------------
(* The signal of rkt stop reaches a sandbox of the kubelet, and the call   *)
(* goes on or ends.                                                        *)
LEMMA SignalInv ==
  ASSUME IInv, NEW c \in Calls, call[c].pc = "stop",
         \A v \in UUIDs :
           \/ podState'[v] = podState[v]
           \/ /\ v = call[c].id
              /\ podState[v] = "running" /\ podState'[v] = "stopping",
         podState' \in [UUIDs -> PodStates],
         \/ /\ Goto(c, "status")
            /\ podState'[call[c].id] \in {"stopping", "exited", "gone"}
         \/ call[c].op = "Remove" /\ Goto(c, "rm")
         \/ ReturnErr(c),
         UNCHANGED <<podAnno, proc, tmp, content, everRan, started, known>>
  PROVE  IInv'
<1> USE RktAssumption DEF IInv
<1>i. /\ call[c].op \in {"Stop", "Remove"} /\ call[c].ret = "none"
      /\ call[c].id \in known /\ call[c].id \in UUIDs \ Foreign
      /\ call[c].path = NoPath
  BY DEF Control, KnownIds, TypeOK
<1>c. /\ call' \in [Calls -> CallRecords]
      /\ \A d \in Calls : d # c => call'[d] = call[d]
      /\ call'[c].op = call[c].op /\ call'[c].path = NoPath
      /\ \/ call'[c].pc = "idle" /\ call'[c].ret = "err"
         \/ /\ call'[c].pc \in {"status", "rm"} /\ call'[c].ret = "none"
            /\ call'[c].id = call[c].id
            /\ call'[c].pc = "rm" => call[c].op = "Remove"
            /\ call'[c].pc = "status" =>
                 podState'[call[c].id] \in {"stopping", "exited", "gone"}
  <2>1. CASE /\ Goto(c, "status")
             /\ podState'[call[c].id] \in {"stopping", "exited", "gone"}
    BY <1>i, <2>1 DEF Goto, TypeOK, CallRecords, Pcs
  <2>2. CASE call[c].op = "Remove" /\ Goto(c, "rm")
    BY <1>i, <2>2 DEF Goto, TypeOK, CallRecords, Pcs
  <2>3. CASE ReturnErr(c)
    BY <1>i, <2>3, PodSandboxAssumption
       DEF ReturnErr, Ended, TypeOK, CallRecords, Pcs, Results
  <2> QED
    BY <2>1, <2>2, <2>3
<1>1. TypeOK'
  BY <1>c DEF TypeOK, RktTypeOK
<1>2. Control'
  BY <1>i, <1>c DEF Control
<1>3. CallsOwnFiles' /\ ProcessOfCall'
  BY <1>c DEF CallsOwnFiles, ProcessOfCall, TypeOK
<1>4. ProcessesOwnFiles'
  BY DEF ProcessesOwnFiles
<1>5. FilesHoldOwner'
  BY DEF FilesHoldOwner, TypeOK, RktTypeOK
<1>6. Manifests'
  BY DEF Manifests
<1>7. RunIds' /\ RunOks'
  BY <1>i, <1>c DEF RunIds, RunOks
<1>8. KnownIds'
  BY <1>i, <1>c DEF KnownIds, TypeOK
<1>9. StopProgress'
  <2> SUFFICES ASSUME NEW d \in Calls, call'[d].op = "Stop",
                      call'[d].pc \in {"status", "status2"} \/ call'[d].ret = "ok"
               PROVE  podState'[call'[d].id] \in {"stopping", "exited", "gone"}
    BY DEF StopProgress
  <2>1. CASE d = c
    BY <1>c, <2>1
  <2>2. CASE d # c
    BY <1>c, <2>2 DEF StopProgress, KnownIds, Control, TypeOK
  <2> QED
    BY <2>1, <2>2
<1> QED
  BY <1>1, <1>2, <1>3, <1>4, <1>5, <1>6, <1>7, <1>8, <1>9

LEMMA RktStopInv ==
  ASSUME IInv, NEW c \in Calls, RktStop(c)
  PROVE  IInv'
<1> DEFINE u == call[c].id
<1>0. /\ call[c].pc = "stop"
      /\ UNCHANGED <<podAnno, proc, tmp, content, everRan, started, known>>
  BY DEF RktStop
<1>i. u \in UUIDs /\ podState \in [UUIDs -> PodStates]
  BY <1>0 DEF IInv, Control, KnownIds, TypeOK, RktTypeOK
<1>s. StopEffect(u) =>
        /\ podState' \in [UUIDs -> PodStates]
        /\ \A v \in UUIDs : \/ podState'[v] = podState[v]
                            \/ /\ v = u
                               /\ podState[v] = "running"
                               /\ podState'[v] = "stopping"
  BY <1>i DEF StopEffect, PodStates
<1>f. StopFails(c) => \/ call[c].op = "Remove" /\ Goto(c, "rm")
                      \/ ReturnErr(c)
  BY DEF StopFails
<1>1. CASE /\ StopAnswer(u) = "ok" \/ Ignored(StopAnswer(u))
           /\ StopEffect(u)
           /\ Goto(c, "status")
  <2>1. podState[u] \in {"running", "stopping", "exited", "gone"}
    <3>1. podState[u] \notin {"unused", "spawned"}
      BY <1>0 DEF IInv, Control, KnownIds
    <3> QED
      BY <1>1, <1>i, <3>1 DEF StopAnswer, Ignored, PodStates
  <2>2. podState'[u] \in {"stopping", "exited", "gone"}
    BY <1>1, <1>i, <2>1 DEF StopEffect
  <2> QED
    BY <1>0, <1>1, <1>s, <2>2, SignalInv
<1>2. CASE StopFails(c) /\ UNCHANGED podState
  BY <1>0, <1>2, <1>i, <1>f, SignalInv
<1>3. CASE StopFails(c) /\ StopEffect(u)
  BY <1>0, <1>3, <1>s, <1>f, SignalInv
<1> QED
  BY <1>1, <1>2, <1>3 DEF RktStop

(* rkt rm removes a sandbox that has exited, and the call ends.            *)
LEMMA RktRmInv ==
  ASSUME IInv, NEW c \in Calls, RktRm(c)
  PROVE  IInv'
<1> USE RktAssumption DEF IInv
<1> DEFINE u == call[c].id
<1>0. /\ call[c].pc = "rm"
      /\ ReturnErr(c)
      /\ UNCHANGED <<podAnno, proc, tmp, content, everRan, started, known>>
  BY DEF RktRm
<1>1. CASE UNCHANGED podState
  BY <1>0, <1>1, FailInv
<1>2. CASE RmEffect(u)
  <2>c. call' = [call EXCEPT ![c] = [op |-> call[c].op, pc |-> "idle", id |-> NoUUID,
                   meta |-> NoMeta, path |-> NoPath, polls |-> 0, ret |-> "err"]]
    BY <1>0 DEF ReturnErr, Ended
  <2>i. u \in UUIDs \ Foreign
    BY <1>0 DEF Control, KnownIds, TypeOK
  <2>p. /\ podState' \in [UUIDs -> PodStates]
        /\ \A v \in UUIDs :
             \/ podState'[v] = podState[v]
             \/ v = u /\ podState[v] = "exited" /\ podState'[v] = "gone"
    BY <1>2, <2>i DEF RmEffect, TypeOK, RktTypeOK, PodStates
  <2>1. TypeOK'
    BY <1>0, <2>c, <2>p, PodSandboxAssumption
       DEF TypeOK, RktTypeOK, CallRecords, Ops, Pcs, Results
  <2>2. Control'
    BY <2>c DEF Control, TypeOK
  <2>3. CallsOwnFiles' /\ ProcessOfCall'
    BY <1>0, <2>c DEF CallsOwnFiles, ProcessOfCall, TypeOK
  <2>4. ProcessesOwnFiles'
    BY <1>0, <2>p DEF ProcessesOwnFiles
  <2>5. FilesHoldOwner'
    BY <1>0, <2>p DEF FilesHoldOwner, TypeOK, RktTypeOK
  <2>6. Manifests'
    BY <1>0, <2>p DEF Manifests
  <2>7. RunIds' /\ RunOks'
    BY <1>0, <2>c DEF RunIds, RunOks, TypeOK
  <2>8. KnownIds'
    BY <1>0, <2>c, <2>p, <2>i DEF KnownIds, TypeOK
  <2>9. StopProgress'
    BY <1>0, <2>c, <2>p DEF StopProgress, KnownIds, Control, TypeOK
  <2> QED
    BY <2>1, <2>2, <2>3, <2>4, <2>5, <2>6, <2>7, <2>8, <2>9
<1> QED
  BY <1>1, <1>2 DEF RktRm

(* Listing shows pods with all the reserved annotations, which no foreign  *)
(* pod has and which are written after the pod is made.                    *)
LEMMA ListPodSandboxInv ==
  ASSUME IInv, NEW f \in Filters, ListPodSandbox(f)
  PROVE  IInv'
<1> USE DEF IInv
<1>0. /\ known' = known \cup Listed(f)
      /\ UNCHANGED <<podState, podAnno, proc, tmp, content, everRan, call, started>>
  BY DEF ListPodSandbox
<1>l. Listed(f) \subseteq {u \in UUIDs \ Foreign : podState[u] \notin {"unused", "spawned"}}
  BY DEF Listed, Exists, isKubernetesPod, Manifests, ListPodSandbox, Unconvertible,
         toPodSandboxStatus
<1>1. TypeOK'
  BY <1>0, <1>l DEF TypeOK, RktTypeOK
<1>2. Control' /\ CallsOwnFiles' /\ ProcessOfCall'
  BY <1>0 DEF Control, CallsOwnFiles, ProcessOfCall
<1>3. ProcessesOwnFiles' /\ FilesHoldOwner' /\ Manifests'
  BY <1>0 DEF ProcessesOwnFiles, FilesHoldOwner, Manifests
<1>4. RunIds' /\ RunOks' /\ StopProgress'
  BY <1>0 DEF RunIds, RunOks, StopProgress
<1>5. KnownIds'
  BY <1>0, <1>l DEF KnownIds
<1> QED
  BY <1>1, <1>2, <1>3, <1>4, <1>5

----------------------------------------------------------------------------
(* The sandbox processes.                                                  *)

(* A process that makes its pod is rktlet's own and writes its own file.   *)
LEMMA NewPodInv ==
  ASSUME IInv, NEW u \in UUIDs, NewPod(u), UNCHANGED <<call, started, known>>
  PROVE  IInv'
<1> USE RktAssumption DEF IInv
<1> DEFINE p == proc[u].path
<1>0. /\ podState[u] = "spawned"
      /\ podState' = [podState EXCEPT ![u] = "embryo"]
      /\ content' = [content EXCEPT ![p] = u]
      /\ UNCHANGED <<podAnno, proc, everRan>>
  BY DEF NewPod
<1>u. u \notin Foreign /\ u \notin known
  BY <1>0 DEF KnownIds
<1>l. p \in Paths
  BY <1>0, <1>u DEF ProcessesOwnFiles, TypeOK, RktTypeOK
<1>t. /\ tmp' \in [Paths -> TmpStates]
      /\ \A q \in Paths : tmp'[q] = "free" <=> tmp[q] = "free"
  BY <1>l DEF NewPod, TypeOK, RktTypeOK, TmpStates
<1>1. TypeOK'
  BY <1>0, <1>l, <1>t DEF TypeOK, RktTypeOK, PodStates
<1>2. Control'
  BY DEF Control
<1>3. CallsOwnFiles'
  BY <1>t DEF CallsOwnFiles, TypeOK, CallRecords
<1>4. ProcessesOwnFiles'
  BY <1>0, <1>t DEF ProcessesOwnFiles, TypeOK, RktTypeOK
<1>5. ProcessOfCall'
  BY <1>0 DEF ProcessOfCall
<1>6. FilesHoldOwner'
  BY <1>0, <1>l DEF FilesHoldOwner, TypeOK, RktTypeOK
<1>7. RunIds'
  <2>1. \A c \in Calls : call[c].op = "Run" /\ call[c].id # NoUUID => call[c].path # p
    BY <1>0, <1>l DEF RunIds, FilesHoldOwner, ProcessesOwnFiles, TypeOK, CallRecords
  <2> QED
    BY <1>0, <1>l, <2>1 DEF RunIds, TypeOK, RktTypeOK, CallRecords
<1>8. Manifests' /\ RunOks'
  BY <1>0 DEF Manifests, RunOks, TypeOK, RktTypeOK
<1>9. KnownIds' /\ StopProgress'
  BY <1>0, <1>u DEF KnownIds, StopProgress, TypeOK, RktTypeOK
<1> QED
  BY <1>1, <1>2, <1>3, <1>4, <1>5, <1>6, <1>7, <1>8, <1>9

(* The manifest is written from the command line.                          *)
LEMMA PrepareInv ==
  ASSUME IInv, NEW u \in UUIDs, Prepare(u), UNCHANGED <<call, started, known>>
  PROVE  IInv'
<1> USE RktAssumption DEF IInv
<1>0. /\ podState[u] = "embryo"
      /\ podState' = [podState EXCEPT ![u] = "prepared"]
      /\ podAnno' = [podAnno EXCEPT ![u] = proc[u].meta]
      /\ UNCHANGED <<proc, tmp, content, everRan>>
  BY DEF Prepare
<1>u. u \notin Foreign
  BY <1>0 DEF KnownIds
<1>1. TypeOK'
  BY <1>0 DEF TypeOK, RktTypeOK, PodStates
<1>2. Control' /\ CallsOwnFiles' /\ ProcessOfCall'
  BY <1>0 DEF Control, CallsOwnFiles, ProcessOfCall
<1>3. ProcessesOwnFiles'
  BY <1>0 DEF ProcessesOwnFiles, TypeOK, RktTypeOK
<1>4. FilesHoldOwner'
  BY <1>0 DEF FilesHoldOwner, TypeOK, RktTypeOK
<1>5. Manifests'
  BY <1>0, <1>u DEF Manifests, TypeOK, RktTypeOK
<1>6. RunIds' /\ RunOks'
  BY <1>0 DEF RunIds, RunOks
<1>7. KnownIds' /\ StopProgress'
  BY <1>0, <1>u DEF KnownIds, StopProgress, TypeOK, RktTypeOK
<1> QED
  BY <1>1, <1>2, <1>3, <1>4, <1>5, <1>6, <1>7

LEMMA RunInv ==
  ASSUME IInv, NEW u \in UUIDs, Run(u), UNCHANGED <<call, started, known>>
  PROVE  IInv'
<1> USE RktAssumption DEF IInv
<1>0. /\ podState[u] = "prepared"
      /\ podState' = [podState EXCEPT ![u] = "running"]
      /\ everRan' = everRan \cup {u}
      /\ UNCHANGED <<podAnno, proc, tmp, content>>
  BY DEF Run
<1>u. u \notin Foreign
  BY <1>0 DEF KnownIds
<1>1. TypeOK'
  BY <1>0 DEF TypeOK, RktTypeOK, PodStates
<1>2. Control' /\ CallsOwnFiles' /\ ProcessOfCall'
  BY <1>0 DEF Control, CallsOwnFiles, ProcessOfCall
<1>3. ProcessesOwnFiles'
  BY <1>0 DEF ProcessesOwnFiles, TypeOK, RktTypeOK
<1>4. FilesHoldOwner'
  BY <1>0 DEF FilesHoldOwner, TypeOK, RktTypeOK
<1>5. Manifests'
  BY <1>0, <1>u DEF Manifests, TypeOK, RktTypeOK
<1>6. RunIds' /\ RunOks'
  BY <1>0 DEF RunIds, RunOks
<1>7. KnownIds' /\ StopProgress'
  BY <1>0, <1>u DEF KnownIds, StopProgress, TypeOK, RktTypeOK
<1> QED
  BY <1>1, <1>2, <1>3, <1>4, <1>5, <1>6, <1>7

LEMMA ExitInv ==
  ASSUME IInv, NEW u \in UUIDs, Exit(u), UNCHANGED <<call, started, known>>
  PROVE  IInv'
<1> USE RktAssumption DEF IInv
<1>0. UNCHANGED <<podAnno, proc, tmp, content, everRan>>
  BY DEF Exit
<1>p. /\ podState' \in [UUIDs -> PodStates]
      /\ \A v \in UUIDs :
           \/ podState'[v] = podState[v]
           \/ /\ v = u
              /\ podState[v] = "spawned" /\ podState'[v] = "gone"
           \/ /\ v = u
              /\ podState[v] \in {"embryo", "prepared", "running", "stopping"}
              /\ podState'[v] = "exited"
  BY DEF Exit, TypeOK, RktTypeOK, PodStates
<1>1. TypeOK'
  BY <1>0, <1>p DEF TypeOK, RktTypeOK
<1>2. Control' /\ CallsOwnFiles' /\ ProcessOfCall'
  BY <1>0 DEF Control, CallsOwnFiles, ProcessOfCall
<1>3. ProcessesOwnFiles'
  BY <1>0, <1>p DEF ProcessesOwnFiles
<1>4. FilesHoldOwner'
  BY <1>0, <1>p DEF FilesHoldOwner, TypeOK, RktTypeOK
<1>5. Manifests'
  BY <1>0, <1>p DEF Manifests
<1>6. RunIds' /\ RunOks'
  BY <1>0 DEF RunIds, RunOks
<1>7. KnownIds'
  BY <1>p DEF KnownIds, TypeOK
<1>8. StopProgress'
  BY <1>p DEF StopProgress, KnownIds, Control, TypeOK
<1> QED
  BY <1>1, <1>2, <1>3, <1>4, <1>5, <1>6, <1>7, <1>8

----------------------------------------------------------------------------
(* Every step preserves the invariant.                                     *)
LEMMA NextInv == IInv /\ [Next]_vars => IInv'
<1> SUFFICES ASSUME IInv, [Next]_vars PROVE IInv'
  OBVIOUS
<1>1. ASSUME NEW c \in Calls, Kubelet(c) PROVE IInv'
  <2>1. ASSUME NEW m \in Metas, RunPodSandbox(c, m) PROVE IInv'
    BY <2>1, RunPodSandboxInv
  <2>2. ASSUME NEW u \in known, PodSandboxStatus(c, u) PROVE IInv'
    BY <2>2, BeginInv DEF PodSandboxStatus
  <2>3. ASSUME NEW u \in known, StopPodSandbox(c, u) PROVE IInv'
    BY <2>3, BeginInv DEF StopPodSandbox
  <2>4. ASSUME NEW u \in known, RemovePodSandbox(c, u) PROVE IInv'
    BY <2>4, BeginInv DEF RemovePodSandbox
  <2> QED
    BY <1>1, <2>1, <2>2, <2>3, <2>4 DEF Kubelet
<1>2. ASSUME NEW c \in Calls, Handler(c) PROVE IInv'
  BY <1>2, StartProcessInv, StartProcessReturnsInv, ReadUUIDFileInv, StatusInv,
     RktStopInv, RktRmInv DEF Handler
<1>3. ASSUME NEW c \in Calls, TempFilePanics(c) PROVE IInv'
  BY <1>3, ProcessEndsInv DEF TempFilePanics
<1>4. ASSUME NEW f \in Filters, ListPodSandbox(f) PROVE IInv'
  BY <1>4, ListPodSandboxInv
<1>5. CASE SandboxProcesses
  BY <1>5, NewPodInv, PrepareInv, RunInv, ExitInv DEF SandboxProcesses, SandboxProcess
<1>6. CASE Crash
  BY <1>6, ProcessEndsInv DEF Crash
<1>7. CASE UNCHANGED vars
  <2> USE <1>7 DEF IInv, vars
  <2>1. TypeOK' /\ Control' /\ CallsOwnFiles' /\ ProcessesOwnFiles'
    BY DEF TypeOK, RktTypeOK, Control, CallsOwnFiles, ProcessesOwnFiles
  <2>2. ProcessOfCall' /\ FilesHoldOwner' /\ RunIds' /\ Manifests'
    BY DEF ProcessOfCall, FilesHoldOwner, RunIds, Manifests
  <2>3. RunOks' /\ KnownIds' /\ StopProgress'
    BY DEF RunOks, KnownIds, StopProgress
  <2> QED
    BY <2>1, <2>2, <2>3
<1> QED
  BY <1>1, <1>2, <1>3, <1>4, <1>5, <1>6, <1>7 DEF Next

LEMMA Invariant == Spec => []IInv
<1>1. SandboxInit => IInv
  BY InitInv
<1>2. IInv /\ [Next]_vars => IInv'
  BY NextInv
<1> QED
  BY <1>1, <1>2, PTL DEF Spec

----------------------------------------------------------------------------
(* The life of a UUID file.                                                *)

(* A call that goes on keeps its file; one that ends either had none or    *)
(* removes it.                                                             *)
LEMMA OwnerKept ==
  ASSUME IInv, UUIDFileRemoved, NEW c \in Calls,
         call[c].pc # "idle",
         \A d \in Calls : d # c => call'[d] = call[d],
         \/ /\ UNCHANGED tmp
            /\ \/ call[c].op # "Run"
               \/ /\ call'[c].op = "Run" /\ call'[c].pc # "idle"
                  /\ call'[c].path = call[c].path
         \/ call[c].op = "Run" /\ RemoveUUIDFile(c)
  PROVE  UUIDFileRemoved'
<1> USE DEF IInv
<1> SUFFICES ASSUME NEW p \in Paths, tmp'[p] = "present"
             PROVE  \E d \in Calls : /\ call'[d].op = "Run" /\ call'[d].pc # "idle"
                                     /\ call'[d].path = p
  BY DEF UUIDFileRemoved
<1>1. tmp[p] = "present"
  BY DEF RemoveUUIDFile, TypeOK, RktTypeOK
<1>2. PICK d \in Calls : call[d].op = "Run" /\ call[d].pc # "idle" /\ call[d].path = p
  BY <1>1 DEF UUIDFileRemoved
<1>3. CASE d # c
  BY <1>2, <1>3
<1>4. CASE d = c
  <2>1. ~RemoveUUIDFile(c)
    BY <1>2, <1>4 DEF RemoveUUIDFile, TypeOK, RktTypeOK
  <2> QED
    BY <1>2, <1>4, <2>1
<1> QED
  BY <1>3, <1>4

LEMMA GotStatusFile ==
  ASSUME IInv, UUIDFileRemoved, NEW c \in Calls, NEW st,
         call[c].pc \in {"status", "status2"}, GotStatus(c, st)
  PROVE  UUIDFileRemoved'
<1>1. \A d \in Calls : d # c => call'[d] = call[d]
  BY DEF GotStatus, ReturnOk, ReturnErr, Goto, IInv, TypeOK
<1>2. \/ UNCHANGED tmp /\ call[c].op # "Run"
      \/ call[c].op = "Run" /\ RemoveUUIDFile(c)
  BY DEF GotStatus
<1> QED
  BY <1>1, <1>2, OwnerKept

LEMMA UUIDFileNext == IInv /\ UUIDFileRemoved /\ [Next]_vars => UUIDFileRemoved'
<1> SUFFICES ASSUME IInv, UUIDFileRemoved, [Next]_vars PROVE UUIDFileRemoved'
  OBVIOUS
<1> USE DEF IInv
<1>1. ASSUME NEW c \in Calls, NEW m \in Metas, RunPodSandbox(c, m)
      PROVE  UUIDFileRemoved'
  <2> PICK q \in Paths : /\ Begin(c, "Run", "start", NoUUID, m, q)
                         /\ tmp' = [tmp EXCEPT ![q] = "present"]
    BY <1>1 DEF RunPodSandbox
  <2> QED
    BY DEF UUIDFileRemoved, Begin, TypeOK, RktTypeOK
<1>2. ASSUME NEW c \in Calls, NEW u \in known,
             \/ PodSandboxStatus(c, u) \/ StopPodSandbox(c, u) \/ RemovePodSandbox(c, u)
      PROVE  UUIDFileRemoved'
  <2>1. /\ call[c].pc = "idle" /\ UNCHANGED tmp
        /\ \A d \in Calls : d # c => call'[d] = call[d]
    BY <1>2 DEF PodSandboxStatus, StopPodSandbox, RemovePodSandbox, Begin, TypeOK
  <2> QED
    BY <2>1 DEF UUIDFileRemoved
<1>3. ASSUME NEW c \in Calls,
             StartProcess(c) \/ StartProcessReturns(c) \/ ReadUUIDFile(c)
      PROVE  UUIDFileRemoved'
  <2>1. call[c].op = "Run" /\ call[c].pc \in {"start", "starting", "poll"}
    BY <1>3 DEF StartProcess, StartProcessReturns, ReadUUIDFile
  <2>2. \A d \in Calls : d # c => call'[d] = call[d]
    BY <1>3 DEF StartProcess, StartProcessReturns, ReadUUIDFile, RunFails, ReturnErr,
                Goto, TypeOK
  <2>3. \/ RemoveUUIDFile(c)
        \/ /\ UNCHANGED tmp
           /\ call'[c].op = "Run" /\ call'[c].pc # "idle" /\ call'[c].path = call[c].path
    BY <1>3, <2>1 DEF StartProcess, StartProcessReturns, ReadUUIDFile, RunFails, Goto,
                      TypeOK, CallRecords
  <2> QED
    BY <2>1, <2>2, <2>3, OwnerKept
<1>4. ASSUME NEW c \in Calls, StatusWaitReady(c) PROVE UUIDFileRemoved'
  <2>1. CASE GotStatus(c, toPodSandboxStatus(call[c].id))
    BY <1>4, <2>1, GotStatusFile DEF StatusWaitReady
  <2>2. CASE Goto(c, "status2") /\ UNCHANGED tmp
    <3>1. /\ call[c].pc = "status"
          /\ \A d \in Calls : d # c => call'[d] = call[d]
          /\ call'[c].op = call[c].op /\ call'[c].pc = "status2"
          /\ call'[c].path = call[c].path
      BY <1>4, <2>2 DEF StatusWaitReady, Goto, TypeOK, CallRecords
    <3> QED
      BY <2>2, <3>1, OwnerKept
  <2> QED
    BY <1>4, <2>1, <2>2 DEF StatusWaitReady
<1>5. ASSUME NEW c \in Calls, StatusNoWait(c) PROVE UUIDFileRemoved'
  BY <1>5, GotStatusFile DEF StatusNoWait
<1>6. ASSUME NEW c \in Calls, RktStop(c) \/ RktRm(c) PROVE UUIDFileRemoved'
  <2>1. call[c].op # "Run" /\ call[c].pc # "idle" /\ UNCHANGED tmp
    BY <1>6 DEF RktStop, RktRm, Control
  <2>2. \A d \in Calls : d # c => call'[d] = call[d]
    BY <1>6 DEF RktStop, RktRm, StopFails, ReturnErr, Goto, TypeOK
  <2> QED
    BY <2>1, <2>2, OwnerKept
<1>7. ASSUME NEW dead, ProcessEnds(dead) PROVE UUIDFileRemoved'
  BY <1>7 DEF ProcessEnds, UUIDFileRemoved
<1>8. CASE UNCHANGED <<tmp, call>>
  BY <1>8 DEF UUIDFileRemoved
<1>9. CASE SandboxProcesses
  <2>1. UNCHANGED call
    BY <1>9 DEF SandboxProcesses
  <2>2. \A p \in Paths : tmp'[p] = "present" => tmp[p] = "present"
    BY <1>9 DEF SandboxProcesses, SandboxProcess, NewPod, Prepare, Run, Exit, TypeOK,
                RktTypeOK
  <2> QED
    BY <2>1, <2>2 DEF UUIDFileRemoved
<1> QED
  BY <1>1, <1>2, <1>3, <1>4, <1>5, <1>6, <1>7, <1>8, <1>9
     DEF Next, Kubelet, Handler, TempFilePanics, Crash, ListPodSandbox, vars

----------------------------------------------------------------------------
(* The theorems.                                                           *)

(* Every variable keeps its type: in particular the polls of the UUID file *)
(* never exceed their bound and a finished call is in none of the states.  *)
THEOREM TypeCorrect == Spec => []TypeOK
<1>1. IInv => TypeOK
  BY DEF IInv
<1> QED
  BY <1>1, Invariant, PTL

(* The id that RunPodSandbox returns is that of the sandbox which systemd  *)
(* started for this call, with the metadata of its request, and it has     *)
(* been running.                                                           *)
THEOREM RunReturnsOwn == Spec => []RunReturnsOwnSandbox
<1>1. IInv => RunReturnsOwnSandbox
  <2> SUFFICES ASSUME IInv, NEW c \in Calls, call[c].op = "Run", call[c].ret = "ok"
               PROVE  /\ call[c].id \in everRan \ Foreign
                      /\ proc[call[c].id] = [meta |-> call[c].meta, path |-> call[c].path]
                      /\ podAnno[call[c].id] = call[c].meta
    BY DEF RunReturnsOwnSandbox
  <2> DEFINE u == call[c].id
  <2> USE RktAssumption DEF IInv
  <2>1. u \in UUIDs /\ u \in everRan /\ call[c].path \in Paths
    BY DEF RunOks, RunIds, TypeOK, CallRecords
  <2>2. content[call[c].path] = u /\ proc[u].path = call[c].path
    BY <2>1 DEF RunIds, FilesHoldOwner
  <2>3. u \notin Foreign
    BY <2>1, <2>2 DEF ProcessesOwnFiles
  <2>4. proc[u].meta = call[c].meta
    BY <2>1, <2>2 DEF ProcessOfCall
  <2>5. proc[u] = [meta |-> call[c].meta, path |-> call[c].path]
    BY <2>1, <2>2, <2>4 DEF TypeOK, RktTypeOK
  <2>6. podAnno[u] = call[c].meta
    BY <2>1, <2>3, <2>4 DEF Manifests
  <2> QED
    BY <2>1, <2>3, <2>5, <2>6
<1> QED
  BY <1>1, Invariant, PTL

(* No two RunPodSandbox calls take the same sandbox for theirs.            *)
THEOREM SandboxesDistinct == Spec => []DistinctSandboxes
<1>1. IInv => DistinctSandboxes
  <2> SUFFICES ASSUME IInv, NEW c \in Calls, NEW d \in Calls, c # d,
                      call[c].op = "Run", call[d].op = "Run",
                      call[c].id # NoUUID, call[c].id = call[d].id
               PROVE  FALSE
    BY DEF DistinctSandboxes
  <2> USE RktAssumption DEF IInv
  <2>1. call[c].path \in Paths /\ call[d].path \in Paths
    BY DEF RunIds, TypeOK, CallRecords
  <2>2. proc[call[c].id].path = call[c].path /\ proc[call[c].id].path = call[d].path
    BY <2>1 DEF RunIds, FilesHoldOwner
  <2> QED
    BY <2>1, <2>2 DEF CallsOwnFiles
<1> QED
  BY <1>1, Invariant, PTL

(* Pods of others in the same data directory are neither stopped nor       *)
(* removed, and their ids are never given to the kubelet.                  *)
THEOREM ForeignSafe == Spec => []ForeignUntouched
<1>1. IInv => ForeignUntouched
  BY DEF IInv, KnownIds, ForeignUntouched
<1> QED
  BY <1>1, Invariant, PTL

(* After a StopPodSandbox that succeeded the sandbox is on its way down or *)
(* gone, for ever.                                                         *)
THEOREM StopEffective == Spec => []StopTakesEffect
<1>1. IInv => StopTakesEffect
  BY DEF IInv, StopProgress, StopTakesEffect
<1> QED
  BY <1>1, Invariant, PTL

(* A sandbox that has been running is listed until it is removed, whatever *)
(* became of the call that started it.                                     *)
THEOREM Recoverable == Spec => []SandboxRecoverable
<1>1. ASSUME IInv, NEW u \in everRan \ Foreign, Exists(u)
      PROVE  u \in Listed(NoFilter)
  <2>1. u \in UUIDs
    BY <1>1 DEF IInv, TypeOK, RktTypeOK
  <2>2. podAnno[u] # NoMeta
    BY <1>1, <2>1, RktAssumption DEF IInv, Manifests, ProcessesOwnFiles, Exists
  <2> QED
    BY <1>1, <2>1, <2>2 DEF Listed, isKubernetesPod, podSandboxStatusMatchesFilter, NoFilter
<1>2. ASSUME IInv PROVE Unconvertible \subseteq Foreign
  <2> SUFFICES ASSUME NEW u \in UUIDs \ Foreign, podAnno[u] # NoMeta
               PROVE  podAnno[u] # BadMeta
    BY DEF Unconvertible, isKubernetesPod, toPodSandboxStatus
  <2>1. podAnno[u] = proc[u].meta /\ proc[u].meta \in Metas \cup {NoMeta}
    BY <1>2 DEF IInv, Manifests, TypeOK, RktTypeOK
  <2> QED
    BY <2>1, RktAssumption
<1>3. IInv => SandboxRecoverable
  BY <1>1, <1>2 DEF SandboxRecoverable
<1> QED
  BY <1>3, Invariant, PTL

(* RunPodSandbox leaves no UUID file of its own behind, on any return path.*)
THEOREM UUIDFilesRemoved == Spec => []UUIDFileRemoved
<1>1. SandboxInit => UUIDFileRemoved
  BY DEF SandboxInit, RktInit, UUIDFileRemoved
<1>2. IInv /\ UUIDFileRemoved /\ [Next]_vars => UUIDFileRemoved'
  BY UUIDFileNext
<1> QED
  BY <1>1, <1>2, Invariant, PTL DEF Spec

=============================================================================
