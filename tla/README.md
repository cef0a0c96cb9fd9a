# A TLA+ model of rktlet

rktlet is the rkt implementation of the Kubernetes Container Runtime Interface
(CRI): a gRPC server that the kubelet calls to run pod sandboxes, containers and
images, and that does everything by executing the `rkt` binary and
`systemd-run`. This directory models its services, the sessions of commands run
in containers, the process itself and the conversions of requests, checks the models with TLC on
small instances and proves with TLAPS, for every instance, all the invariants and
action properties that it checks; what remains with TLC alone is liveness.

## The system

| part | source | state | operations |
|---|---|---|---|
| pod sandbox service | `rktlet/runtime/pod_sandbox.go`, `helpers.go`, `rktlet/cli/init.go`, `errors.go` | none of its own; per call the locals of the handler and a temporary file | RunPodSandbox, StopPodSandbox, RemovePodSandbox, PodSandboxStatus, ListPodSandbox |
| container service | `rktlet/runtime/rkt_runtime.go`, `helpers.go` | none; host directories of mounts | CreateContainer, StartContainer, StopContainer, RemoveContainer, ContainerStatus, ListContainers |
| image service | `rktlet/image/imagestore.go`, `rktlet/util/image.go` | none | PullImage, RemoveImage, ImageStatus, ListImages |
| rkt, systemd (external) | used through `rktlet/cli` | pods, apps and images in the data directory | the commands that rktlet executes; sandbox processes that run by themselves |
| exec and streaming | `rktlet/runtime/exec.go` | per session a process, goroutines, pipes or a pty, two channels | ExecSync, Exec |
| server | `cmd/server/main.go`, `rktlet/rktlet.go`, `rktlet/runtime/stage1.go`, `New` of `rkt_runtime.go` | socket, stream server, pending signal | start, serve, stop |
| argument construction | `helpers.go`, `caps.go`, `cli.go` | none | pure functions |

Every gRPC call runs in a goroutine and shares nothing with the others but what
lies outside the process: rkt's data directory and the temporary directory. So
the difficulties are these:

* every call is a sequence of commands, and other calls, the sandbox processes
  (children of systemd, not of rktlet) and people with a shell act in between;
* a sandbox reports its UUID through a temporary file that RunPodSandbox polls
  for 10 s; it can come up after the call has given up on it;
* rktlet can die at any time, keeps nothing, and must find its sandboxes again
  by listing;
* pods of others live in the same data directory;
* `rkt stop` is asynchronous, `rkt rm` refuses what still runs;
* lists are read item by item, and items vanish meanwhile; one pod that does not
  convert fails the listing of all;
* different container names are sanitized to the same app name, and a retried
  CreateContainer can meet its own first try;
* image names are normalised in four places;
* an exec session is a handler, a process, up to four goroutines and a client,
  all of which can block each other or end first;
* rktlet has exits that run its deferred calls and exits that do not.

What makes the parts correct: a RunPodSandbox returns its own, ready sandbox;
nothing foreign is touched; files are cleaned up; what came up can be found and
removed; a list is complete for what was there all the time; a pulled image is
found; every call returns; an exec delivers the whole output and the process's own
status and leaves no goroutine; rktlet obeys a signal and can be started again;
a request means on rkt's command line what it meant to the kubelet. `PROJECT.json` lists the hazards line by line.

## The modules

* **Rkt** is external: the life of a pod (`podState`), the annotations in its
  manifest (`podAnno`), the command line of its process (`proc`), temporary files
  (`tmp`, `content`), and what `rkt stop`, `rkt rm`, `rkt status` and `rkt list`
  say and do, as far as rktlet relies on it. Sandbox processes take their steps
  whenever they like and may end at any point. A foreign pod has no reserved
  annotation (`NoMeta`), or a pod UID next to an attempt that is no number
  (`BadMeta`), which `toPodSandboxStatus` refuses; one with all of them is a pod of
  the kubelet to everybody. Container has foreign pods of the first kind only, since
  its listing goes by the UID alone.
* **PodSandbox** extends Rkt with the sandbox handlers. `call[c]` is the record of
  one gRPC call: operation, program counter, sandbox id, metadata, temporary file,
  polls and result. Every command, and every read of the UUID file, is one action:

  | action | code |
  |---|---|
  | `RunPodSandbox` | entry and `ioutil.TempFile` |
  | `StartProcess`, `StartProcessReturns` | `generateAppSandboxCommand` and `systemd-run`, begin and end |
  | `ReadUUIDFile` | one turn of the polling loop |
  | `StatusWaitReady`, `StatusNoWait` | the two `rkt status` of PodSandboxStatus, and what its caller does with the answer |
  | `RktStop`, `RktRm` | `rkt stop` in stopPodSandbox, `rkt rm` in RemovePodSandbox |
  | `ListPodSandbox` | one `rkt list`, filtered; no reply at all while there is a pod that does not convert (`Unconvertible`) |
  | `TempFilePanics`, `Crash` | the nil dereference when TempFile fails; rktlet is killed |

  The kubelet (`Kubelet`) starts any operation on any id it knows; it learns ids
  from successful RunPodSandbox replies and from listings only, because gRPC drops
  the response of a call that returns an error.
* **CriSandbox** is the abstract contract: a sandbox lives once, is handed out at
  most once and while it is ready, and is removed only after it has stopped.
  PodSandbox implements it under the mapping `Life` (`ImplementsCri`).
* **Container** extends Rkt with apps. Start, Stop and RemoveContainer are one
  command and one step, the other two are not:

  | action | code |
  |---|---|
  | `CreateContainer` | the request, up to the loop over the mounts; the name is built or refused |
  | `maybeCreateHostPathVolume` | one turn of that loop: the host path is there, is made, or ends the call |
  | `RunAppAdd` | `rkt app add`: refused when the pod does not run or the name is taken; may fail before or after it took effect |
  | `CreateReplies` | the id is built and handed out |
  | `StartContainer`, `StopContainer`, `RemoveContainer` | `parseContainerID`, then the command |
  | `ListContainers`, `AskContainerStatus`, `ListReturns` | `rkt list`, one ContainerStatus for every app, the reply |
  | `DirRemoved`, `AppExits`, `PodExits`, `PodRemoved` | external: what others do to directories, apps and pods |

  `SanitizeACName` is a constant function, as lossy as the instance makes it; a
  container id is what `SplitN` makes of the string, and `parseContainerID` splits,
  sanitizes and refuses as the code does. Requests come with every id that was
  handed out and with ids that never were (`StrayIds`: without a colon, with a name
  of which nothing is left, or with one that is sanitized to an app's name).
  `creator[k].gone` and `.removed`, `lister[l].whole` and `.failed`, and `handed` are
  history.
* **ImageStore** models rkt's image store, a registry whose tags move, and the
  calls, which list images and read manifests one by one. A name is a record: repository,
  `docker://` prefix or not, full domain or not, tag or not. Normalisation is
  modelled by what it does to these. An image that was fetched from a file
  (`FetchFile`) has no original name, and is listed under the name that rkt prints
  (`RawName`). An image is removed at its position in the store, where each is but
  once.
* **Exec** models a session as one record: the handler's program counter, the
  process (what it will write, whether it waits for input, how it ends), the pipes
  or the terminal with room for `Cap` chunks, the copying goroutines, the resize
  goroutine with its channel and `done`, and the client.

  | action | code |
  |---|---|
  | `Exec`, `StartFails`, `Start` | ExecSync or `execShim.Exec`, and `Start`/`pty.Start` with the goroutines that follow |
  | `CopyOut`, `CopyIn` | one round of `io.Copy`: os/exec's goroutines without a terminal, those of `execWithTty` with one |
  | `SetSize`, `ResizerDone` | the two cases of the `select` |
  | `WaitReturns` | `execCmd.Wait`, the exit status, and on a terminal the deferred `close(done)` |
  | `CloseOut`, `ClosePty` | the other deferred calls, in their order |
  | `ProcWrites`, `ProcBrokenPipe`, `ProcExits`, `ProcKilled`, `Client`, `ConnCloses` | external: process, client, stream server |

* **Server** models rktlet processes that share the socket path and the stream
  server's address: `main` step by step, the stream server's goroutine, `exitCh`,
  and the three ways out: the deferred calls (`CloseSock`, `RemoveSock`, which both
  unlink the path whatever is there), `Fatalf`, and `Kill`. `sock` is the owner of
  what is at the path, or `Dead`. `-version`, which prints and exits, is left out.
* **Helpers** takes a request to a sequence of tokens (`generateAppAddCommand`,
  `generateAppSandboxCommand`, `Command`), lets rkt make an app or a pod of it
  (external), and converts that back (`toContainerStatus`, `toPodSandboxStatus`,
  `getIP`). Each property states what should have arrived without following the
  code. The loops over port mappings and networks are recursive functions of the
  number of rounds. User annotations with a reserved key are not among the requests, as what
  rkt does with a key that is given twice is not visible in this repository.
* **MCPodSandbox**, **MCContainer**, **MCImageStore**, **MCHelpers** give the constants their values.
* **PodSandboxProofs** holds the inductive invariant and the theorems about it,
  **CriSandboxProofs** the proof of the refinement. **ContainerProofs**,
  **ImageStoreProofs**, **ExecProofs**, **ServerProofs** and **HelpersProofs** hold
  the invariants and theorems about the module in their name.

Operators named `MUT_...` are plausible mistakes in the operator that follows
them. Putting one in place of its original makes TLC report the property that
`PROJECT.json` pairs it with, which shows that the property depends on that code.

## What TLC checks

Passing runs:

| run | instance | shows |
|---|---|---|
| `sandbox` | 2 calls, 2 sandboxes and a foreign pod, 2 files, 2 polls, all faults, crashes and panics | `RunReturnsOwnSandbox`, `DistinctSandboxes`, `StopTakesEffect`, `ForeignUntouched`, `UUIDFileRemoved`, `SandboxRecoverable`, `ImplementsCri` |
| `sandbox_live` | 2 calls, 1 sandbox, 3 polls, no faults | `EveryCallReturns`, `SandboxReclaimed` |
| `container` | 2 creates or a create and a listing under way, 3 requests (two with the same app name, one a later attempt), a foreign pod, an odd app, 3 stray ids, a host directory that others remove, two filters, faults | `ListComplete`, `ListSound`, `MountsReady`, `CreateReturnsOwn`, `RequestHitsHandedOut` |
| `image` | 1 call and the others' fetches and removals, 2 repositories, 2 contents of a tag, an image without a name, 2 images at a time, three kinds of names, faults | `StatusFindsPulled`, `RemovesOneRequested` |
| `exec` | 1 session after the other of every kind, 2 chunks on each stream, pipes that hold one | `OutputComplete`, `ExitStatusReported`, `SilentAfterReturn`, `WaitEnds`, `GoroutinesEnd` |
| `server` | a rktlet of systemd and one started by hand, 2 failures or kills, any number of signals | `SocketTakenOnlyByShutdown`, `SignalEnds`, `ComesBack` |
| `helpers` | every request and list of networks of its small sets, one initial state each | `StatusRoundTrip`, `PreferredIP`, `CpuLimitKept`, `SeccompAsAsked`, `CapsAsAsked`, `ArgsKept`, `PortsForwarded` |

Runs that find a disagreement between the code and a comment or the CRI:

| run | shows |
|---|---|
| `stop_removed` | StopPodSandbox of a removed sandbox is an error |
| `remove_reported` | RemovePodSandbox is an error even when it removed the sandbox |
| `tempfile_panic` | a temporary file that cannot be made ends the process |
| `image_untagged` | an image fetched by hand without a tag is not found as `busybox:latest` |
| `server_restart` | after one kill or failed start the socket left behind makes every restart fail |

What `exec` shows only with an exception is worth knowing: on a terminal the tail
of the output may be lost, as nobody waits for its copy; when the client of a
terminal leaves, nothing drains the terminal and the session lasts as long as the
process blocks on it; a closed resize channel sets empty sizes in a busy loop
until the command ends; and without a terminal a session lasts as long as the
client holds its stdin open. `helpers` has four exceptions of that kind. An empty
capability list is not passed on, so that dropping everything retains rkt's
defaults, against the CRI's list of capabilities to drop: `CapsAsAsked` says nothing
of such a request. Two port mappings that differ only in the host IP get the same
name (`helpers.go:640`), and `PortsForwarded` says that others do not. A word `---`
ends the arguments of an app. A quota is multiplied by 1000 in an int64: one that is
too large gets a wrong limit or none, and one too negative, which should mean no
limit, may get one; `CpuLimitKept` is about the others. `sandbox` has one: a pod of
somebody else with a garbled attempt fails every ListPodSandbox while it exists, and
hides all sandboxes; `SandboxRecoverable` says that no pod of rktlet's own does
that. `container` has two: a listing drops a container whose own status command
fails, without a word, which `ListComplete` exempts; and a directory that somebody
removes after CreateContainer has seen to it is missing when `rkt app add` runs,
which `MountsReady` exempts. `server` has one: a rktlet that ends unlinks the path twice, and the
second time it may hit the socket of one that was started in between.

More was met while modelling and needs no model to see: `PullImage` checks
`len(output) < 1`, which `strings.Split` never yields, so a fetch that prints nothing succeeds
with an empty image id (`imagestore.go:225`, and the same in `stage1.go`);
`docker/default` appends an empty argument to the command (`helpers.go:310`);
`CLIConfig.Merge`, which nothing uses, would set fields of a copy that cannot be set; RemoveImage of a
missing image is an error (`imagestore.go:67`; the CRI wants success), ImageStatus
refuses the name `docker://busybox:latest` that the comment at `imagestore.go:100`
gives as an example (the prefix is stripped by PullImage only), and the test of
`ParseInt`'s error at `imagestore.go:153` is inverted, so numeric users are
reported as names and names as uid 0.

**Bounds.** Interference needs two calls, two sandboxes and two files: one more of
each adds no new relation, as the sharing is pairwise (and the theorems hold for
any number). `MaxPolls` stands for the 100 polls; two or three tell apart the
first, a middle and the last one. UUIDs and files are used once, as in reality, so
a behaviour of an instance has at most two sandboxes; a kubelet that has used them
up goes on with the others' calls. Image calls share nothing but the store, so one
call next to `FetchByHand`, `RemoveByHand` and `Push`, which do to the store what
other calls do, meets all the interference that several calls would; and a pull is
one step, which needs no second call to get in between. `MaxImages` bounds the
store: two images are two of the same name, one that is asked for and one that is
not, or a listed one and its successor; the theorems are for any number. In
`container` `MaxCalls` keeps two calls under way at a time, of two creates and a
listing: two creates race for a name, and one create is all that a listing can be
surprised by in one place (start, stop, removal and the end of pods are steps of
their own). Calls, UUIDs and paths are interchangeable in `sandbox`, the two
creates in `container` (symmetry; its action property treats them alike); the runs
with liveness use no symmetry. `sandbox` has one value of metadata, so that
crashes, faults and two calls fit together; that a call gets the sandbox with its
own metadata among several is the theorem `RunReturnsOwn`. Exec sessions share
nothing but descriptor numbers, so one at a time is enough; a pipe with room for
one chunk of two already blocks. One left-over socket is enough to see its effect,
so `MaxFaults` is small. In `helpers` `Milli` is 10 and `MaxInt` 127, which scales
the code's 1000 and 2^63 - 1 down to where all quotas can be enumerated, those that
overflow included.

**Fairness.** `EveryCallReturns` assumes weak fairness of the handlers: a
goroutine that can run does run, and the commands it waits for end (the code has
no timeout around them, see the note in the hazards). Nothing is assumed of
sandboxes or kubelet there. `SandboxReclaimed` adds what a kubelet does: it
relists, and keeps asking for the removal of what it knows. It needs strong
fairness for the latter, because the call slot may be taken by another call again
and again; and sandbox processes that are not running get on. It is checked
without faults: a command that fails every time reclaims nothing.

`WaitEnds` and `GoroutinesEnd` assume that goroutines and handlers are scheduled,
that the stream server closes the connection of an exec that has returned (it
does, in a deferred call), and that a process goes on while its output is taken:
a command that computes for ever keeps its session, as ExecSync ignores the
timeout of the request. The resize goroutine needs strong fairness for `done`:
Go's `select` chooses at random among the ready cases. Nothing is assumed of the
client. `SignalEnds` and `ComesBack` assume that the steps of a process are taken,
commands end, and that systemd starts its unit again, without limit
(`StartLimitInterval=0`); nobody has to send a signal, kill, or start a rktlet by hand.

## What is proved

`PodSandboxProofs` and `CriSandboxProofs` prove, for all values of the constants that satisfy
`RktAssumption` and `PodSandboxAssumption` (only that the "no value" constants are
not values, and that `MaxPolls` is positive), with faults and crashes or without:

| theorem | property |
|---|---|
| `TypeCorrect` | `TypeOK` |
| `RunReturnsOwn` | `RunReturnsOwnSandbox` |
| `SandboxesDistinct` | `DistinctSandboxes` |
| `ForeignSafe` | `ForeignUntouched` |
| `StopEffective` | `StopTakesEffect` |
| `Recoverable` | `SandboxRecoverable` |
| `UUIDFilesRemoved` | `UUIDFileRemoved` |
| `CriImplemented` | `ImplementsCri`, the refinement of `CriSandbox` |

None of the properties is inductive: that a call gets its own sandbox depends on
who wrote the file it reads, which depends on which process has the file on its
command line, which depends on which call made the file. `IInv` states this chain:
a call owns its file (`CallsOwnFiles`); a file is on the command line of one
process at most (`ProcessesOwnFiles`), started by the call that owns it, with the
call's metadata (`ProcessOfCall`); a file holds the UUID of that process
(`FilesHoldOwner`); the id in a RunPodSandbox is what its file holds (`RunIds`);
the manifest gets the metadata of the command line before the pod runs
(`Manifests`, `RunOks`). `KnownIds` says that the kubelet's ids are of pods that
rktlet made, `StopProgress` what a stop has achieved at each program counter, and
`Control` ties program counters to operations. There is one lemma per action;
calls that merely go on, fail or succeed share `GotoInv`, `FailInv` and
`SucceedInv`. `UUIDFileRemoved` needs a second induction, relative to `IInv`
(`UUIDFileNext`). `IInv` itself was checked with TLC as an invariant of the
sandbox instances before it was proved.

For the refinement every step of PodSandbox is shown to be a step of CriSandbox or
to leave `Life`, `started` and `known` alone. That a sandbox is handed out once needs
one more invariant, `Handed`: the UUID file of a sandbox that was handed out is
not the file of any RunPodSandbox still running. It is inductive relative to
`IInv`, because `ioutil.TempFile` never gives a name twice.

`ServerProofs` proves two theorems from `ServerAssumption`, for any number of
rktlets on one socket path and any number of failures and kills: `ServerTypes`
(`ServerTypeOK`) and the action property `SocketKept` (`SocketTakenOnlyByShutdown`).
`ServerTypeOK` alone is not inductive, since a stream server that is up has the port
only if `New` never starts a second one in the same process; `NoStreamBeforeNew` adds
that there is none before `New`. `SocketKept` rests on `FatalfLeavesOthers`: an exit
without the deferred calls changes the path only for the process that exits.

The remaining modules prove the following, each from the assumption that the
component's own module states, for all values of its constants:

| module | theorem | property |
|---|---|---|
| `ContainerProofs` | `ContainerTypes` | `ContainerTypeOK` |
| | `ListingsComplete` | `ListComplete` |
| | `ListingsSound` | `ListSound` |
| | `MountsExist` | `MountsReady` |
| | `CreateOwn` | `CreateReturnsOwn` |
| | `RequestsHit` | `RequestHitsHandedOut` (action) |
| `ImageStoreProofs` | `ImageTypes` | `ImageTypeOK` |
| | `PulledIsFound` | `StatusFindsPulled` (action) |
| | `RemovesRequested` | `RemovesOneRequested` (action) |
| `ExecProofs` | `ExecTypes` | `ExecTypeOK` |
| | `OutputDelivered` | `OutputComplete` |
| | `StatusReported` | `ExitStatusReported` |
| | `SilentReturn` | `SilentAfterReturn` (action) |
| `HelpersProofs` | `StatusGivesBack` | `StatusRoundTrip` |
| | `AddressPreferred` | `PreferredIP` |
| | `CpuLimitReachesRkt` | `CpuLimitKept` |
| | `ConfinedAsAsked` | `SeccompAsAsked` |
| | `CapabilitiesAsAsked` | `CapsAsAsked` |
| | `WordsReachRkt` | `ArgsKept` |
| | `PortsReachRkt` | `PortsForwarded` |

**Containers.** That a reply is complete is about the end of a loop; the invariant
`CInv` says it of every round: a container that was there all along, that the
filter lets through and whose status command has not failed is in the answer
already or has yet to be asked (`AllCovered`). That needs `WholePresent` (what was
there all along is there now, under its label) and `AnnotationsTell` (the reserved
annotations tell the kubelet's pods from the others'). Soundness needs that what is
in the answer is never asked again (`TodoSound`), else a container could be listed
in two states. Steps outside a listing share the lemma `ListingsGoOn`.

Of a CreateContainer the invariant says (`CreatesSound`) that the host paths of its
mounts are there, were removed by others or are still to be seen to, round by round;
and that once its `rkt app add` has succeeded the app of its name is the one of its
request until it is removed, because rkt refuses a name that is taken and nothing
but a removal frees it. `HandedSound` says that an id is made of the pod and the app
it was given out for. With `ParseBuilt`, by which splitting and sanitizing lead back
to the two, `RequestsHit` follows; it rests on the assumption that `SanitizeACName`
leaves names of apps alone, which is what idempotence of the vendored function means
for names that rktlet builds. The lemma `ParseAny` covers ids written by hand.

**Images.** `ImageInv` says of a call that an image that was listed and has stayed
is still to be looked at or is in the reply under its real name (`WholeListed`), and
of the store that an image is in it once. `PulledMatches` is where the four
normalisations meet: the name of the manifest, normalised for the list, matches the
name that was pulled, normalised for the query. It follows from `CanonicalName`: a
reference that is normalised twice is normalised, and the query's normal form is
the fetch's without `docker://`. `RmRequested` carries the image that RemoveImage
found to its `rkt image rm`, together with the fact that it is in the call's own list,
so that what was fetched in between, under whatever name, is safe.

**Sessions.** `ExecInv` is a property of each session by itself: what a process
wrote is delivered, lost with a failed copy, or in the pipe, which is bounded
(`PipesBounded`); a copier ends only when the process has exited and nothing is
left, and fails only without a client (`CopiersDeliver`); `Stages` ties the
handler's program counter to the process, `StatusSettled` says what `Wait` returned
and `OutClosed` that the stream of a terminal is closed before the handler returns.

**Conversions.** The state machine needs little: `HelpersInv` says that the command
is of the request, what rkt keeps is of the command and the status of what rkt
keeps. The work is in the operators. `ConcatValues` says what is on a command line
that is put together of two, so the value of each flag can be followed through the
whole line (`AppCommandValues`, `PodCommandValues`), and `DelimitedPlaces` where
the words are on it. The loops are shown correct by induction: the library's
induction theorems have an operator parameter, but that a set of naturals has a
least element has none, and `UpToN`, induction for a set of numbers, follows from
it. `LoopStates` shows with it that a loop's recursive function exists,
`PortFlagsValues` and `getIPPrefers` what it computes, round by round.
`HelpersAssumption` types the requests, and assumes that annotations of the kubelet
do not use the reserved keys, that a network has an address, that `all` is not the
name of a capability and that the network plugin is not called `host`.

Each of these invariants was checked with TLC on the instances of the runs before
it was proved (for `HelpersInv`, without its membership in the sets of requests).
The attempt to prove `CpuLimitKept` showed that its hypothesis had no lower bound:
a quota below -(2^63)/1000 may wrap to a positive limit. The property now says so, and
the `helpers` run has quotas that wrap on both sides.

Only model-checked: the liveness properties (`EveryCallReturns`, `SandboxReclaimed`,
`WaitEnds`, `GoroutinesEnd`, `SignalEnds`, `ComesBack`), as fairness and ENABLED are
out of the prover's reach.

## What is not modelled

* How commands are put together and output is parsed, beyond what the properties
  tell apart: metadata is one value, a container's labels one value. A garbled
  answer is a failed command.
* The stubs (Version, Status, stats, Attach, PortForward), which keep no state.
* Flags that are copied from a request unchanged (environment, DNS, memory,
  groups, working directory, log paths), slice names, and the sum of the output of a
  command: stdout and stderr come mixed, and the models assume that a successful
  `rkt` prints what it was asked for.
* Descriptor numbers: the leak of the UUID file's descriptor until the next garbage
  collection, and a resize that hits a number used again.
* The tokens and URLs of the stream server, which is vendored. It asks every session
  for stdout and hands over an exec only when the streams it asked for are there
  (`serveExec`, `createHttpStreamStreams`), so a terminal always has an `out`: the
  test for nil at `exec.go:152`, and the `out.Close()` before it at `exec.go:132`,
  which would panic for a nil one, are not reached without.
* Children of an exec'd process that outlive it and hold its pipe open, which keeps
  `Wait` from returning; and a client that stays connected but stops reading, which
  only the idle timeout of the stream server ends. A write to a stream that rktlet
  has closed is a failed copy in the model; the vendored stream takes it, and the
  client drops it.
* A container id written by hand that is sanitized to the name of an app acts on
  that app; it is among the requests, and no property forbids it.
* Pods that die before they have a manifest: nobody can list them, and rktlet
  never runs `rkt gc`.

## Plan

1. *Done:* Rkt, PodSandbox with CriSandbox, Container, ImageStore, Exec, Server and
   Helpers; the proofs of their invariants and action properties, and of the
   refinement.
2. Lemmas for the liveness properties: which action leads out of each program
   counter, so that the part of `EveryCallReturns` and `WaitEnds` that is not
   about fairness (a bound that every step of a handler decreases) is proved too.
3. An abstract specification of a listing that Container implements.
