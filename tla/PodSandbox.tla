----------------------------- MODULE PodSandbox -----------------------------
(***************************************************************************)
(* The pod sandbox half of the CRI runtime service                         *)
(* (rktlet/runtime/pod_sandbox.go).  A gRPC call runs in a goroutine of    *)
(* its own and keeps everything in local variables, so the state is one    *)
(* record per call; what the calls share is the pod store of rkt and the   *)
(* temporary directory, both in module Rkt.  Every execution of the rkt    *)
(* binary, of systemd-run and of a read of the UUID file is one step, and  *)
(* steps of different calls and of the sandbox processes interleave.       *)
(***************************************************************************)
EXTENDS Rkt

CONSTANTS
  Calls,     \* concurrent gRPC calls
  MaxPolls,  \* reads of the UUID file before giving up, 100 in the code
  Faulty,    \* commands, reads and mkdirs may fail for reasons of their own
  CanCrash,  \* rktlet may be killed and restarted
  Filters,   \* the filters of ListPodSandbox requests
  TmpFails   \* the creation of a temporary file may fail

FilterRecords ==
  [id : UUIDs \cup {NoUUID}, state : {"any", "READY", "NOTREADY"},
   label : Metas \cup {NoMeta}]

ASSUME PodSandboxAssumption ==
  /\ Filters \subseteq FilterRecords
  /\ MaxPolls \in Nat \ {0}
  /\ Faulty \in BOOLEAN
  /\ CanCrash \in BOOLEAN
  /\ TmpFails \in BOOLEAN

VARIABLES
  call,      \* per call: its operation, program counter, locals and result
  started,   \* history: the ids that RunPodSandbox has returned with success
  known      \* the ids the kubelet has learnt; a failed call's reply is dropped

vars == <<podState, podAnno, proc, tmp, content, everRan, call, started, known>>

Ops == {"none", "Run", "Stop", "Remove", "Status"}

Pcs == {"idle", "start", "starting", "poll", "stop", "status", "status2", "rm"}

Results == {"none", "ok", "err", "lost"}

CallRecords ==
  [op : Ops, pc : Pcs, id : UUIDs \cup {NoUUID}, meta : Metas \cup {NoMeta},
   path : Paths \cup {NoPath}, polls : 0..(MaxPolls - 1), ret : Results]

(* No call is running; the last one ended with result r.                   *)
Ended(op, r) == [op |-> op, pc |-> "idle", id |-> NoUUID, meta |-> NoMeta,
                 path |-> NoPath, polls |-> 0, ret |-> r]

SandboxInit ==
  /\ RktInit
  /\ call = [c \in Calls |-> Ended("none", "none")]
  /\ started = {}
  /\ known = {}

----------------------------------------------------------------------------
(* Control of a call.                                                      *)

Goto(c, pc) == call' = [call EXCEPT ![c].pc = pc]

(* The locals of a call end with it; a reply of success shows its id.      *)
ReturnOk(c) ==
  call' = [call EXCEPT ![c].pc = "idle", ![c].ret = "ok", ![c].polls = 0]

ReturnErr(c) == call' = [call EXCEPT ![c] = Ended(call[c].op, "err")]

Begin(c, op, pc, id, m, p) ==
  /\ call[c].pc = "idle"
  /\ call' = [call EXCEPT ![c] = [op |-> op, pc |-> pc, id |-> id, meta |-> m,
                                  path |-> p, polls |-> 0, ret |-> "none"]]

(* The deferred os.Remove of RunPodSandbox.                                *)
MUT_RemoveUUIDFile(c) == UNCHANGED tmp
RemoveUUIDFile(c) ==
  tmp' = [tmp EXCEPT ![call[c].path] = IF @ = "present" THEN "removed" ELSE @]

(* RunPodSandbox returns an error: the file goes, whatever was spawned     *)
(* stays, and the id, if there is one, does not reach the kubelet.         *)
RunFails(c) ==
  /\ ReturnErr(c)
  /\ RemoveUUIDFile(c)
  /\ UNCHANGED <<content, started, known>>

----------------------------------------------------------------------------
(* RunPodSandbox up to the UUID.                                           *)

(* ioutil.TempFile: O_EXCL and a random name, which is never met twice.    *)
MUT_FreshPath(p) == TRUE
FreshPath(p) == tmp[p] = "free"

RunPodSandbox(c, m) ==
  \E p \in Paths :
    /\ FreshPath(p)
    /\ Begin(c, "Run", "start", NoUUID, m, p)
    /\ tmp' = [tmp EXCEPT ![p] = "present"]
    /\ UNCHANGED <<podState, podAnno, proc, content, everRan, started, known>>

(* The process ends: every call in flight dies, no deferred call runs.     *)
Died(r) == IF r.pc = "idle" THEN r ELSE Ended(r.op, "lost")

ProcessEnds(dead) ==
  /\ call' = [c \in Calls |-> IF c \in dead THEN Ended("Run", "lost")
                             ELSE Died(call[c])]
  /\ tmp' = [p \in Paths |-> IF tmp[p] = "present" THEN "stale" ELSE tmp[p]]
  /\ UNCHANGED <<podState, podAnno, proc, content, everRan, started, known>>

(* The file cannot be created: the argument of the deferred os.Remove is   *)
(* evaluated on a nil *os.File before err is looked at, and the panic ends *)
(* the process, with every call in it.                                     *)
TempFilePanics(c) ==
  /\ TmpFails
  /\ call[c].pc = "idle"
  /\ ProcessEnds({c})

(* The metadata that generateAppSandboxCommand puts on the command line.   *)
MUT_SandboxCommandMeta(c) == NoMeta
SandboxCommandMeta(c) == call[c].meta

(* generateAppSandboxCommand and Init.StartProcess up to systemd-run: the  *)
(* log directory or the slice name may be refused, else systemd starts the *)
(* sandbox process as its own child.                                       *)
StartProcess(c) ==
  /\ call[c].op = "Run" /\ call[c].pc = "start"
  /\ UNCHANGED <<podAnno, everRan>>
  /\ \/ /\ Faulty
        /\ RunFails(c)
        /\ UNCHANGED <<podState, proc>>
     \/ \E u \in UUIDs :
          /\ Spawn(u, SandboxCommandMeta(c), call[c].path)
          /\ Goto(c, "starting")
          /\ UNCHANGED <<tmp, content, started, known>>

(* systemd-run returns.  The code does not rely on how far the sandbox has *)
(* come by then; an error may be reported for a unit that lives on.        *)
StartProcessReturns(c) ==
  /\ call[c].op = "Run" /\ call[c].pc = "starting"
  /\ UNCHANGED <<podState, podAnno, proc, everRan>>
  /\ \/ /\ Faulty
        /\ RunFails(c)
     \/ /\ Goto(c, "poll")
        /\ UNCHANGED <<tmp, content, started, known>>

(* One turn of the polling loop: an empty read costs 100 ms, the last of   *)
(* MaxPolls is the timeout.                                                *)
MUT_NextPoll(c) == call[c].polls
NextPoll(c) == call[c].polls + 1

MUT_PollsLeft(c) == NextPoll(c) <= MaxPolls
PollsLeft(c) == NextPoll(c) < MaxPolls

ReadUUIDFile(c) ==
  /\ call[c].op = "Run" /\ call[c].pc = "poll"
  /\ UNCHANGED <<podState, podAnno, proc, everRan>>
  /\ \/ /\ Faulty
        /\ RunFails(c)
     \/ /\ content[call[c].path] # NoUUID
        /\ call' = [call EXCEPT ![c].id = content[call[c].path],
                                ![c].pc = "status"]
        /\ UNCHANGED <<tmp, content, started, known>>
     \/ /\ content[call[c].path] = NoUUID
        /\ PollsLeft(c)
        /\ call' = [call EXCEPT ![c].polls = NextPoll(c)]
        /\ UNCHANGED <<tmp, content, started, known>>
     \/ /\ content[call[c].path] = NoUUID
        /\ ~PollsLeft(c)
        /\ RunFails(c)

----------------------------------------------------------------------------
(* PodSandboxStatus, called by the kubelet and by the other handlers.      *)

(* isKubernetesPod: the pod's UID is among the annotations.                *)
isKubernetesPod(u) == podAnno[u] # NoMeta

(* toPodSandboxStatus: an attempt that is missing or garbled is an error.  *)
MUT_toPodSandboxStatus(u) == IF ReportsRunning(u) THEN "READY" ELSE "NOTREADY"
toPodSandboxStatus(u) ==
  IF podAnno[u] \in {NoMeta, BadMeta} THEN "error"
  ELSE IF ReportsRunning(u) THEN "READY"
  ELSE "NOTREADY"

(* What the caller of PodSandboxStatus does with the answer.               *)
MUT_RunAccepts(st) == st # "error"
MUT_RunAcceptsAny(st) == TRUE
RunAccepts(st) == st = "READY"

GotStatus(c, st) ==
  /\ UNCHANGED <<podState, podAnno, proc, everRan, content>>
  /\ \/ /\ call[c].op = "Run" /\ RunAccepts(st)
        /\ ReturnOk(c)
        /\ RemoveUUIDFile(c)
        /\ started' = started \cup {call[c].id}
        /\ known' = known \cup {call[c].id}
     \/ /\ call[c].op = "Run" /\ ~RunAccepts(st)
        /\ ReturnErr(c)
        /\ RemoveUUIDFile(c)
        /\ UNCHANGED <<started, known>>
     \/ /\ call[c].op \in {"Stop", "Status"} /\ st # "error"
        /\ ReturnOk(c)
        /\ UNCHANGED <<tmp, started, known>>
     \/ /\ call[c].op \in {"Stop", "Status"} /\ st = "error"
        /\ ReturnErr(c)
        /\ UNCHANGED <<tmp, started, known>>
     \/ /\ call[c].op = "Remove"
        /\ Goto(c, "rm")
        /\ UNCHANGED <<tmp, started, known>>

PodSandboxStatus(c, u) ==
  /\ Begin(c, "Status", "status", u, NoMeta, NoPath)
  /\ UNCHANGED <<podState, podAnno, proc, tmp, content, everRan, started, known>>

(* rkt status --wait-ready=10s: it succeeds only for a pod that has been   *)
(* ready, and may give up on any pod.                                      *)
StatusWaitReady(c) ==
  /\ call[c].pc = "status"
  /\ \/ /\ podState[call[c].id] \in {"running", "stopping", "exited"}
        /\ GotStatus(c, toPodSandboxStatus(call[c].id))
     \/ /\ Goto(c, "status2")
        /\ UNCHANGED <<podState, podAnno, proc, tmp, content, everRan, started, known>>

(* The second rkt status, which does not wait.                             *)
StatusNoWait(c) ==
  /\ call[c].pc = "status2"
  /\ \/ /\ Exists(call[c].id)
        /\ GotStatus(c, toPodSandboxStatus(call[c].id))
     \/ /\ Faulty \/ ~Exists(call[c].id)
        /\ GotStatus(c, "error")

----------------------------------------------------------------------------
(* StopPodSandbox and RemovePodSandbox.                                    *)

StopPodSandbox(c, u) ==
  /\ Begin(c, "Stop", "stop", u, NoMeta, NoPath)
  /\ UNCHANGED <<podState, podAnno, proc, tmp, content, everRan, started, known>>

RemovePodSandbox(c, u) ==
  /\ Begin(c, "Remove", "stop", u, NoMeta, NoPath)
  /\ UNCHANGED <<podState, podAnno, proc, tmp, content, everRan, started, known>>

(* The two errors of rkt stop that are ignored for idempotency.            *)
MUT_Ignored(answer) == answer # "ok"
Ignored(answer) == answer \in {"alreadyStopped", "notExist"}

(* stopPodSandbox has an error: StopPodSandbox returns it, RemovePodSandbox *)
(* drops it and goes on to rm.                                              *)
StopFails(c) ==
  \/ /\ call[c].op = "Stop"
     /\ ReturnErr(c)
  \/ /\ call[c].op = "Remove"
     /\ Goto(c, "rm")

(* The rkt stop of stopPodSandbox.  Under Faulty it may fail before or     *)
(* after the signal is sent.                                               *)
RktStop(c) ==
  LET u == call[c].id IN
  /\ call[c].pc = "stop"
  /\ UNCHANGED <<podAnno, proc, tmp, content, everRan, started, known>>
  /\ \/ /\ StopAnswer(u) = "ok" \/ Ignored(StopAnswer(u))
        /\ StopEffect(u)
        /\ Goto(c, "status")
     \/ /\ StopAnswer(u) # "ok" /\ ~Ignored(StopAnswer(u))
        /\ StopFails(c)
        /\ UNCHANGED podState
     \/ /\ Faulty
        /\ StopFails(c)
        /\ StopEffect(u) \/ UNCHANGED podState

(* rkt rm.  The reply is an error whatever rm did: the code wraps its      *)
(* result in fmt.Errorf without looking at err.                            *)
MUT_RktRm(c) ==
  /\ call[c].pc = "rm"
  /\ ReturnErr(c)
  /\ UNCHANGED <<podState, podAnno, proc, tmp, content, everRan, started, known>>
RktRm(c) ==
  /\ call[c].pc = "rm"
  /\ \/ RmEffect(call[c].id)
     \/ Faulty /\ UNCHANGED podState
  /\ ReturnErr(c)
  /\ UNCHANGED <<podAnno, proc, tmp, content, everRan, started, known>>

----------------------------------------------------------------------------
(* ListPodSandbox: one rkt list, filtered.  A failed command, and one pod  *)
(* that cannot be converted, fail the whole listing: the kubelet learns    *)
(* nothing and nothing changes.                                            *)

NoFilter == [id |-> NoUUID, state |-> "any", label |-> NoMeta]

(* The labels of a sandbox are those of its request and stand for it.      *)
podSandboxStatusMatchesFilter(u, f) ==
  /\ f.id = NoUUID \/ f.id = u
  /\ f.state = "any" \/ f.state = toPodSandboxStatus(u)
  /\ f.label = NoMeta \/ f.label = podAnno[u]

Listed(f) ==
  {u \in UUIDs : /\ Exists(u)
                 /\ isKubernetesPod(u)
                 /\ podSandboxStatusMatchesFilter(u, f)}

Unconvertible ==
  {u \in UUIDs : Exists(u) /\ isKubernetesPod(u) /\ toPodSandboxStatus(u) = "error"}

ListPodSandbox(f) ==
  /\ Unconvertible = {}
  /\ known' = known \cup Listed(f)
  /\ UNCHANGED <<podState, podAnno, proc, tmp, content, everRan, call, started>>

----------------------------------------------------------------------------
(* rktlet is killed and started again; it keeps nothing, the sandboxes,    *)
(* children of systemd, do not notice.                                     *)
Crash ==
  /\ CanCrash
  /\ \E c \in Calls : call[c].pc # "idle"
  /\ ProcessEnds({})

----------------------------------------------------------------------------
Kubelet(c) ==
  \/ \E m \in Metas : RunPodSandbox(c, m)
  \/ \E u \in known : \/ PodSandboxStatus(c, u)
                      \/ StopPodSandbox(c, u)
                      \/ RemovePodSandbox(c, u)

Handler(c) ==
  \/ StartProcess(c) \/ StartProcessReturns(c) \/ ReadUUIDFile(c)
  \/ StatusWaitReady(c) \/ StatusNoWait(c)
  \/ RktStop(c) \/ RktRm(c)

SandboxProcesses ==
  /\ \E u \in UUIDs : SandboxProcess(u)
  /\ UNCHANGED <<call, started, known>>

Next ==
  \/ \E c \in Calls : Kubelet(c) \/ Handler(c) \/ TempFilePanics(c)
  \/ \E f \in Filters : ListPodSandbox(f)
  \/ SandboxProcesses
  \/ Crash

Spec == SandboxInit /\ [][Next]_vars

(***************************************************************************)
(* A handler that can run does run, and the commands it executes end: the  *)
(* code has no timeout of its own around them.  Nothing is assumed of the  *)
(* kubelet or of the sandbox processes.                                    *)
(***************************************************************************)
Fairness == \A c \in Calls : WF_vars(Handler(c))

LiveSpec == Spec /\ Fairness

(***************************************************************************)
(* A kubelet that keeps relisting and keeps trying to remove whatever it   *)
(* knows, and sandbox processes that get somewhere unless they are up and  *)
(* nobody stops them.  An assumption of SandboxReclaimed only.             *)
(***************************************************************************)
ReclaimFairness ==
  /\ WF_vars(ListPodSandbox(NoFilter))
  /\ \A u \in UUIDs :
       /\ SF_vars(\E c \in Calls : u \in known /\ RemovePodSandbox(c, u))
       /\ WF_vars(/\ podState[u] # "running"
                  /\ SandboxProcess(u)
                  /\ UNCHANGED <<call, started, known>>)

----------------------------------------------------------------------------
(* Properties.                                                             *)

(* The variables have their types, and RunPodSandbox reads its UUID file   *)
(* MaxPolls times at most.                                                 *)
TypeOK ==
  /\ RktTypeOK
  /\ call \in [Calls -> CallRecords]
  /\ started \subseteq UUIDs
  /\ known \subseteq UUIDs

(* A RunPodSandbox that succeeds returns the id of the sandbox that was    *)
(* spawned for this very call, carrying the metadata of its request, and   *)
(* that sandbox has been running: no answer comes from another call's UUID *)
(* file or from a pod that died on its way up.                             *)
RunReturnsOwnSandbox ==
  \A c \in Calls :
    call[c].op = "Run" /\ call[c].ret = "ok" =>
      /\ call[c].id \in everRan \ Foreign
      /\ proc[call[c].id] = [meta |-> call[c].meta, path |-> call[c].path]
      /\ podAnno[call[c].id] = call[c].meta

(* Two RunPodSandbox calls never end up with the same sandbox, however     *)
(* their temporary files and the sandbox processes interleave.             *)
DistinctSandboxes ==
  \A c, d \in Calls :
    /\ c # d
    /\ call[c].op = "Run" /\ call[d].op = "Run"
    /\ call[c].id # NoUUID
    => call[c].id # call[d].id

(* rktlet never stops or removes a pod of the same data directory that it  *)
(* did not start: its id never reaches the kubelet.                        *)
ForeignUntouched ==
  /\ \A u \in Foreign : podState[u] \in {"running", "exited"}
  /\ known \cap Foreign = {}

(* When StopPodSandbox has returned success the sandbox has stopped or is  *)
(* stopping, and nothing that happens afterwards brings it back.           *)
StopTakesEffect ==
  \A c \in Calls :
    call[c].op = "Stop" /\ call[c].ret = "ok" =>
      podState[call[c].id] \in {"stopping", "exited", "gone"}

(* A UUID file is there only while the RunPodSandbox that made it runs, on *)
(* every return path; what a dead rktlet or a late sandbox process leaves  *)
(* behind is accounted for separately ("stale", "leaked").                 *)
UUIDFileRemoved ==
  \A p \in Paths :
    tmp[p] = "present" =>
      \E c \in Calls : call[c].op = "Run" /\ call[c].pc # "idle" /\ call[c].path = p

(* A sandbox that has come up is visible to an unfiltered ListPodSandbox   *)
(* until it is removed, also when the RunPodSandbox that started it timed  *)
(* out, failed or died: that is the kubelet's only way to find it again.   *)
(* Only a garbled pod of somebody else, which fails every listing, hides   *)
(* it; rktlet's own pods are never garbled.                                *)
SandboxRecoverable ==
  /\ \A u \in everRan \ Foreign : Exists(u) => u \in Listed(NoFilter)
  /\ Unconvertible \subseteq Foreign

(* Every call returns: the wait for the UUID file is bounded, and no       *)
(* sequence of sandbox events keeps a handler in a loop.                   *)
EveryCallReturns ==
  \A c \in Calls : call[c].pc # "idle" ~> call[c].pc = "idle"

(* A sandbox that comes up, also behind the back of a RunPodSandbox that   *)
(* gave up on it, is removed in the end by a kubelet that keeps relisting  *)
(* and removing: listing, the forced stop, the refused rm of a pod that is *)
(* still stopping and the retries converge.                                *)
SandboxReclaimed ==
  ReclaimFairness =>
    \A u \in UUIDs \ Foreign :
      podState[u] = "running" ~> podState[u] = "gone"

(* The CRI's view: the abstract sandbox life cycle.                        *)
Life(u) ==
  CASE podState[u] \in {"unused", "spawned"}   -> "absent"
    [] podState[u] \in {"embryo", "prepared"}  -> "created"
    [] podState[u] \in {"running", "stopping"} -> "ready"
    [] podState[u] = "exited"                  -> "stopped"
    [] OTHER                                   -> "removed"

Cri == INSTANCE CriSandbox WITH
         Sandboxes <- UUIDs \ Foreign,
         life <- [u \in UUIDs \ Foreign |-> Life(u)],
         handed <- started,
         told <- known

(* The handlers, with their files, polls and retries, implement the        *)
(* contract: in particular a sandbox is handed out once, while it is ready.*)
ImplementsCri == Cri!CriSpec

----------------------------------------------------------------------------
(* What the CRI and the code's own comments say, and the code does not do. *)

(* StopPodSandbox of a sandbox that is gone succeeds (the CRI's "must not  *)
(* return an error if all relevant resources have already been reclaimed", *)
(* the "ignoring stop error for idempotency" of stopPodSandbox).           *)
StopOfRemovedSucceeds ==
  [][\A c \in Calls :
       /\ call[c].op = "Stop" /\ call[c].pc # "idle"
       /\ podState[call[c].id] = "gone"
       /\ call'[c].pc = "idle"
       => call'[c].ret = "ok"]_vars

(* RemovePodSandbox that leaves no sandbox behind reports success.         *)
RemovalIsReported ==
  [][\A c \in Calls :
       /\ call[c].op = "Remove" /\ call[c].pc = "rm"
       /\ call'[c].pc = "idle"
       /\ podState'[call[c].id] = "gone"
       => call'[c].ret = "ok"]_vars

(* Every call gets an answer of its own as long as nobody kills rktlet: a  *)
(* temporary file that cannot be made is an error of that call.            *)
NoCallLost == \A c \in Calls : call[c].ret # "lost"

=============================================================================
