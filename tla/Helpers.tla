------------------------------- MODULE Helpers ------------------------------
(***************************************************************************)
(* The conversions around a rkt command (rktlet/runtime/helpers.go and     *)
(* caps.go, rktlet/cli/cli.go): what a CreateContainer or RunPodSandbox    *)
(* request becomes on the command line, what rkt makes of that, and what a *)
(* later status gives back to the kubelet.  A command is a sequence of     *)
(* tokens <<name, value>>: a flag, a positional argument, "--" or "---".   *)
(***************************************************************************)
EXTENDS Integers, Sequences, SequencesExt, FiniteSetsExt

CONSTANTS
  ContainerRequests,
  SandboxRequests,
  NetLists,     \* the networks a pod may get
  NetworkPlugin, \* --net of rktlet, or ""
  AllCaps,
  DefaultCaps,  \* defaultCapabilities
  RktCaps,      \* what rkt retains when it is told nothing
  Milli,        \* 1000 in the code
  MaxInt        \* the largest int64

(* The parts of the requests that matter here.  A sandbox's metadata is    *)
(* one value.                                                              *)
Annotations == Seq(STRING \X STRING)

AppRequests ==
  [kind : {"app"}, annos : Annotations, image : STRING, quota : Int, period : Nat,
   profile : STRING, ctrAnno : STRING, podAnno : STRING,
   sec : BOOLEAN, privileged : BOOLEAN, uid : BOOLEAN, username : BOOLEAN,
   hasCaps : BOOLEAN, adds : SUBSET STRING, drops : SUBSET STRING,
   command : Seq(STRING), args : Seq(STRING)]

PortMappings == [proto : STRING, cport : Nat, hport : Nat, hostIP : STRING]

PodRequests ==
  [kind : {"pod"}, annos : Annotations, meta : STRING, hostNet : BOOLEAN,
   ports : Seq(PortMappings)]

Networks == [name : STRING, ip : STRING \ {""}]

(* The keys of the annotations that rktlet adds, which the kubelet leaves  *)
(* to it.                                                                  *)
Reserved == {"image-name", "pod-uid", "pod-name", "pod-namespace", "pod-attempt"}

ASSUME HelpersAssumption ==
  /\ ContainerRequests \subseteq AppRequests
  /\ SandboxRequests \subseteq PodRequests
  /\ \A r \in ContainerRequests \cup SandboxRequests :
       \A i \in DOMAIN r.annos : r.annos[i][1] \notin Reserved
  /\ NetLists \subseteq Seq(Networks)
  /\ DefaultCaps \subseteq AllCaps /\ RktCaps \subseteq AllCaps /\ "all" \notin AllCaps
  /\ NetworkPlugin # "host"
  /\ Milli \in Nat \ {0} /\ MaxInt \in Nat

VARIABLES
  req,     \* the request
  cmd,     \* the command line; empty when the request is refused
  kept,    \* what rkt stores and enforces
  status   \* what the kubelet is told later

helperVars == <<req, cmd, kept, status>>

None == [kind |-> "none"]

HelpersInit == req = None /\ cmd = <<>> /\ kept = None /\ status = None

Flag(n, v) == << <<n, v>> >>

Flags(n, vs) == [i \in DOMAIN vs |-> <<n, vs[i]>>]

Values(c, n) == {c[i][2] : i \in {j \in DOMAIN c : c[j][1] = n}}

----------------------------------------------------------------------------
(* The parts of generateAppAddCommand.                                     *)

Wrapped(n) ==
  LET m == n % (2 * (MaxInt + 1)) IN IF m > MaxInt THEN m - 2 * (MaxInt + 1) ELSE m

(* Go rounds a quotient towards zero.                                      *)
Quotient(n, d) == IF n >= 0 THEN n \div d ELSE -((-n) \div d)

MUT_cpuQuotaToMilliCores(quota, period) ==
  IF quota = 0 \/ period = 0 THEN 0 ELSE Wrapped(Quotient(quota, period) * Milli)
cpuQuotaToMilliCores(quota, period) ==
  IF quota = 0 \/ period = 0 THEN 0 ELSE Quotient(Wrapped(quota * Milli), period)

CpuFlag(r) ==
  LET m == cpuQuotaToMilliCores(r.quota, r.period) IN
  IF m > 0 THEN Flag("cpu", m) ELSE <<>>

(* The field, or the container's annotation, or the pod's; "" where there  *)
(* is none and for a field that is empty.  An annotation may be "empty".   *)
MUT_ProfileOf(r) ==
  CASE r.profile # "" -> r.profile
    [] r.profile = "" /\ r.podAnno # "" -> r.podAnno
    [] OTHER -> r.ctrAnno
ProfileOf(r) ==
  CASE r.profile # "" -> r.profile
    [] r.profile = "" /\ r.ctrAnno # "" -> r.ctrAnno
    [] OTHER -> r.podAnno

(* docker/default is rkt's own default and yields an empty argument.       *)
generateSeccompArg(r) ==
  CASE ProfileOf(r) \in {"", "empty", "unconfined"} -> Flag("seccomp", "all")
    [] ProfileOf(r) = "docker/default" -> Flag("", "")
    [] OTHER -> <<>>

SeccompRefused(r) == r.sec /\ ~r.privileged /\ generateSeccompArg(r) = <<>>

(* docker's TweakCapabilities; a name it does not know is an error.        *)
Known(S) == S \subseteq AllCaps \cup {"all"}

MUT_tweakCapabilities(basics, adds, drops) ==
  LET base == IF "all" \in adds THEN AllCaps ELSE basics IN
  ((base \cup adds) \ drops) \ {"all"}
tweakCapabilities(basics, adds, drops) ==
  LET base == IF "all" \in adds THEN AllCaps ELSE basics IN
  ((IF "all" \in drops THEN {} ELSE base \ drops) \cup adds) \ {"all"}

CapsRefused(r) ==
  r.sec /\ ~r.privileged /\ r.hasCaps /\ ~(Known(r.adds) /\ Known(r.drops))

CapList(r) ==
  CASE r.sec /\ r.privileged -> AllCaps
    [] r.sec /\ ~r.privileged /\ r.hasCaps -> tweakCapabilities(DefaultCaps, r.adds, r.drops)
    [] OTHER -> {}

CapsFlag(r) == IF CapList(r) # {} THEN Flag("caps-retain", CapList(r)) ELSE <<>>

(* --exec for the command's first word; the rest and the arguments follow  *)
(* between "--" and "---".                                                 *)
MUT_AppArgs(r) == r.args
AppArgs(r) == (IF r.command = <<>> THEN <<>> ELSE Tail(r.command)) \o r.args

ExecTokens(r) ==
  (IF r.command = <<>> THEN <<>> ELSE Flag("exec", Head(r.command)))
    \o (IF AppArgs(r) = <<>> THEN <<>>
        ELSE Flag("--", "")
               \o [i \in DOMAIN AppArgs(r) |->
                     IF AppArgs(r)[i] = "---" THEN <<"---", "">> ELSE <<"arg", AppArgs(r)[i]>>]
               \o Flag("---", ""))

(* Without a security context there is no flag for seccomp either.         *)
SeccompFlag(r) ==
  CASE ~r.sec -> <<>>
    [] r.sec /\ r.privileged -> Flag("seccomp", "all")
    [] OTHER -> generateSeccompArg(r)

UserRefused(r) == r.sec /\ r.uid /\ r.username

(* Everything the request asks for, and the image's name in an annotation. *)
generateAppAddCommand(r) ==
  IF SeccompRefused(r) \/ CapsRefused(r) \/ UserRefused(r) THEN <<>>
  ELSE Flags("user-annotation", r.annos)
         \o Flag("user-annotation", <<"image-name", r.image>>)
         \o CpuFlag(r) \o SeccompFlag(r) \o CapsFlag(r) \o ExecTokens(r)

----------------------------------------------------------------------------
(* The parts of generateAppSandboxCommand.                                 *)

(* The name of a port, which must be unique in a pod, and the mapping.     *)
OnHost(p) == [p EXCEPT !.hostIP = IF @ = "" THEN "0.0.0.0" ELSE @]

MUT_generatePortArgs(p) == << <<p.cport, p.hport>>, OnHost(p) >>
generatePortArgs(p) == << <<p.proto, p.cport, p.hport>>, OnHost(p) >>

Mapped(p) == p.hport # 0 /\ p.cport # 0

(* The loop over the mappings, the first i of them done.                   *)
PortFlags(r) ==
  LET flags[i \in 0 .. Len(r.ports)] ==
        IF i = 0 THEN <<>>
        ELSE IF Mapped(r.ports[i])
        THEN flags[i - 1] \o Flag("port", generatePortArgs(r.ports[i]))
        ELSE flags[i - 1]
  IN  IF r.hostNet THEN <<>> ELSE flags[Len(r.ports)]

NetFlag(r) ==
  CASE r.hostNet -> Flag("net", "host")
    [] ~r.hostNet /\ NetworkPlugin # "" -> Flag("net", NetworkPlugin)
    [] OTHER -> <<>>

generateAppSandboxCommand(r) ==
  PortFlags(r) \o NetFlag(r) \o Flags("user-annotation", r.annos)
    \o Flags("user-annotation", << <<"pod-uid", r.meta>>, <<"pod-name", r.meta>>,
                                   <<"pod-namespace", r.meta>>, <<"pod-attempt", r.meta>> >>)

----------------------------------------------------------------------------
(* rkt.                                                                    *)

(* The configuration that rktlet.New gives; a field without a value yields *)
(* no flag, but a Boolean always has one.                                  *)
FlagOf(n, v) == IF v = "" THEN <<>> ELSE Flag(n, v)

globalFlags ==
  FlagOf("debug", "false") \o FlagOf("dir", "data") \o FlagOf("local-config", "")
    \o FlagOf("user-config", "") \o FlagOf("system-config", "")
    \o FlagOf("insecure-options", "image,ondisk")

(* The global flags come between the subcommand and its arguments.         *)
Command(sub, args) == Flag("path", "rkt") \o Flag("sub", sub) \o globalFlags \o args

UpTo(s, t) == SubSeq(s, 1, SelectInSeq(s, LAMBDA x : x[1] = t) - 1)

(* The app's arguments: what is between "--" and the next "---".           *)
ParsedArgs(c) ==
  LET from == SelectInSeq(c, LAMBDA x : x[1] = "--") IN
  IF from = 0 THEN <<>>
  ELSE LET a == UpTo(SubSeq(c, from + 1, Len(c)), "---") IN [i \in DOMAIN a |-> a[i][2]]

RktApp(c) ==
  [kind |-> "app", annos |-> Values(c, "user-annotation"),
   cpu |-> IF Values(c, "cpu") = {} THEN 0 ELSE CHOOSE m \in Values(c, "cpu") : TRUE,
   confined |-> Values(c, "seccomp") = {},
   caps |-> IF Values(c, "caps-retain") = {} THEN RktCaps
            ELSE UNION Values(c, "caps-retain"),
   exec |-> Values(c, "exec"), args |-> ParsedArgs(c)]

RktPod(c, nets) ==
  [kind |-> "pod", annos |-> Values(c, "user-annotation"),
   net |-> Values(c, "net"), ports |-> Values(c, "port"), nets |-> nets]

----------------------------------------------------------------------------
(* The way back.                                                           *)

(* The reserved keys are deleted from the very map they are read from, so  *)
(* whoever wants one must read it before.                                  *)
getKubernetesAnnotations(annos) == {a \in annos : a[1] \notin Reserved}

ValueOf(annos, key) == {a[2] : a \in {x \in annos : x[1] = key}}

MUT_toContainerStatus(app) ==
  LET rest == getKubernetesAnnotations(app.annos) IN
  [kind |-> "app", image |-> ValueOf(rest, "image-name"), annos |-> rest]
toContainerStatus(app) ==
  [kind |-> "app", image |-> ValueOf(app.annos, "image-name"),
   annos |-> getKubernetesAnnotations(app.annos)]

(* An address that is not IPv4 prints as "<nil>".                          *)
To4(ip) == IF ip = "v6" THEN "<nil>" ELSE ip

(* One round of the loop: found until now, or returned for good.           *)
MUT_Prefer(acc, n) ==
  CASE n.name = "rkt.kubernetes.io" -> [acc EXCEPT !.ip = To4(n.ip)]
    [] n.name # "rkt.kubernetes.io" /\ (n.name = "default" \/ acc.ip = "") ->
         [acc EXCEPT !.ip = To4(n.ip)]
    [] OTHER -> acc
Prefer(acc, n) ==
  CASE acc.returned -> acc
    [] ~acc.returned /\ n.name = "rkt.kubernetes.io" ->
         [returned |-> TRUE, ip |-> To4(n.ip)]
    [] ~acc.returned /\ n.name # "rkt.kubernetes.io"
         /\ (n.name = "default" \/ acc.ip = "") -> [acc EXCEPT !.ip = To4(n.ip)]
    [] OTHER -> acc

getIP(networks) ==
  LET found[i \in 0 .. Len(networks)] ==
        IF i = 0 THEN [returned |-> FALSE, ip |-> ""]
        ELSE Prefer(found[i - 1], networks[i])
  IN  found[Len(networks)].ip

toPodSandboxStatus(pod) ==
  [kind |-> "pod",
   meta |-> [k \in Reserved \ {"image-name"} |-> ValueOf(pod.annos, k)],
   annos |-> getKubernetesAnnotations(pod.annos), ip |-> getIP(pod.nets)]

----------------------------------------------------------------------------
CreateContainer(r) ==
  /\ req = None
  /\ req' = r
  /\ cmd' = IF generateAppAddCommand(r) = <<>> THEN <<>>
            ELSE Command("app", generateAppAddCommand(r))
  /\ UNCHANGED <<kept, status>>

RunPodSandbox(r) ==
  /\ req = None
  /\ req' = r
  /\ cmd' = Command("app", generateAppSandboxCommand(r))
  /\ UNCHANGED <<kept, status>>

RunCommand ==
  /\ cmd # <<>> /\ kept = None
  /\ IF req.kind = "app" THEN kept' = RktApp(cmd)
     ELSE \E nets \in NetLists : kept' = RktPod(cmd, nets)
  /\ UNCHANGED <<req, cmd, status>>

Status ==
  /\ kept # None /\ status = None
  /\ status' = IF kept.kind = "app" THEN toContainerStatus(kept) ELSE toPodSandboxStatus(kept)
  /\ UNCHANGED <<req, cmd, kept>>

(* The container or the pod is gone, or the request was refused.           *)
Forget ==
  /\ status # None \/ (req # None /\ cmd = <<>>)
  /\ req' = None /\ cmd' = <<>> /\ kept' = None /\ status' = None

HelpersNext ==
  \/ \E r \in ContainerRequests : CreateContainer(r)
  \/ \E r \in SandboxRequests : RunPodSandbox(r)
  \/ RunCommand
  \/ Status
  \/ Forget

HelpersSpec == HelpersInit /\ [][HelpersNext]_helperVars

----------------------------------------------------------------------------
(* Properties.                                                             *)

(* The status of a container or a sandbox gives the kubelet back the image *)
(* name, the metadata and exactly the annotations of its request, although *)
(* all of them went through one set of annotations from which the reserved *)
(* ones are deleted in place.                                              *)
StatusRoundTrip ==
  /\ status.kind # "none" => status.annos = {req.annos[i] : i \in DOMAIN req.annos}
  /\ status.kind = "app" => status.image = {req.image}
  /\ status.kind = "pod" => \A k \in DOMAIN status.meta : status.meta[k] = {req.meta}

(* getIP over any list of networks: the first rkt.kubernetes.io network,   *)
(* without one the last default network, else the first of all.            *)
PreferredIP ==
  status.kind = "pod" =>
    LET nets == kept.nets
        Named(n) == {i \in DOMAIN nets : nets[i].name = n}
    IN  status.ip =
          IF nets = <<>> THEN ""
          ELSE To4(nets[CASE Named("rkt.kubernetes.io") # {} ->
                               Min(Named("rkt.kubernetes.io"))
                          [] Named("rkt.kubernetes.io") = {} /\ Named("default") # {} ->
                               Max(Named("default"))
                          [] OTHER -> 1].ip)

(* A CPU limit that int64 can hold in thousandths reaches rkt as the       *)
(* largest whole number of millicores within quota/period; no limit, and   *)
(* one of less than a millicore, reaches it as no limit.                   *)
CpuLimitKept ==
  kept.kind = "app" /\ req.quota * Milli \in -(MaxInt + 1) .. MaxInt =>
    IF req.quota <= 0 \/ req.period = 0 THEN kept.cpu = 0
    ELSE /\ kept.cpu * req.period <= req.quota * Milli
         /\ req.quota * Milli < (kept.cpu + 1) * req.period

(* A container is unconfined only if its request says so or nothing, the   *)
(* container's own annotation counting before the pod's; a privileged one  *)
(* is unconfined whatever they say, and one without a security context is  *)
(* confined.                                                               *)
SeccompAsAsked ==
  kept.kind = "app" =>
    LET said == <<req.profile, req.ctrAnno, req.podAnno>>
        Counts(i) == said[i] # "" /\ \A j \in 1 .. (i - 1) : said[j] = ""
    IN  kept.confined <=>
          \/ ~req.sec
          \/ ~req.privileged /\ \E i \in 1 .. 3 : Counts(i) /\ said[i] = "docker/default"

(* An app runs with the capabilities its request adds and, unless all are  *)
(* dropped, the default ones (or all, if all are added) less the dropped;  *)
(* an added one stays even if it is dropped too.                           *)
(* The one exception: a request that leaves none gets no --caps-retain     *)
(* flag, so that rkt's own set applies and not the empty one; this states  *)
(* nothing about such a request.                                           *)
CapsAsAsked ==
  kept.kind = "app" /\ req.sec /\ ~req.privileged /\ req.hasCaps =>
    LET asked == {c \in AllCaps :
                    \/ c \in req.adds
                    \/ /\ c \in DefaultCaps \/ "all" \in req.adds
                       /\ c \notin req.drops /\ "all" \notin req.drops}
    IN  asked # {} => kept.caps = asked

(* rkt runs the words of command and args, in order, as long as none of    *)
(* them is "---", which ends the arguments of an app.                      *)
ArgsKept ==
  kept.kind = "app" /\ "---" \notin ToSet(req.command \o req.args) =>
    IF req.command = <<>> THEN kept.exec = {} /\ kept.args = req.args
    ELSE \E e \in kept.exec : <<e>> \o kept.args = req.command \o req.args

(* A pod with a network of its own gets every port mapping that has both   *)
(* ports, and mappings that differ in protocol or a port have names that   *)
(* differ; a pod on the host's network gets none.  (Nothing is claimed of  *)
(* the names of two that differ only in the host IP: they share one.)      *)
PortsForwarded ==
  kept.kind = "pod" =>
    /\ "host" \in kept.net <=> req.hostNet
    /\ {a[2] : a \in kept.ports} =
         {OnHost(p) : p \in {q \in ToSet(req.ports) :
                               ~req.hostNet /\ q.hport # 0 /\ q.cport # 0}}
    /\ \A a, b \in kept.ports :
         a[1] = b[1] => [a[2] EXCEPT !.hostIP = ""] = [b[2] EXCEPT !.hostIP = ""]

=============================================================================
