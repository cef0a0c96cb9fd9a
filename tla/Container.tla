----------------------------- MODULE Container ------------------------------
(***************************************************************************)
(* The container half of the CRI runtime service                           *)
(* (rktlet/runtime/rkt_runtime.go, and the naming in helpers.go).  A       *)
(* container is an app of a rkt pod.  StartContainer, StopContainer and    *)
(* RemoveContainer are one rkt command and therefore one step.             *)
(* CreateContainer makes the host directories of its mounts one by one,    *)
(* then runs a command, then replies; ListContainers is one command for    *)
(* the pods and then one for every app.  Everything else may happen        *)
(* between the steps of a call.  The sandboxes live as in module Rkt.      *)
(***************************************************************************)
EXTENDS Rkt, Sequences

CONSTANTS
  Names,      \* container names of requests
  ACNames,    \* app names as the appc specification allows them
  NoName,
  SanitizeACName,  \* actypes.SanitizeACName, NoName where it is an error
  Attempts,
  OddApps,    \* apps whose names rktlet did not build
  Internal,   \* those with the prefix "rktletinternal-"
  Strays,     \* other strings, which no app has for a name
  StrayIds,   \* container ids in requests that rktlet never gave out
  Dirs,       \* host paths
  Creators,   \* CreateContainer calls that may be under way together
  CreateRequests, \* their requests
  Listers,    \* ListContainers calls that may be under way together
  CtrFilters, \* the filters of their requests
  MaxCalls,   \* bound on the calls of either kind under way together
  CmdFaults   \* commands and mkdirs may fail for reasons of their own

Apps == (Attempts \X ACNames) \cup OddApps

Ids == UUIDs \X Apps

(* A container id as strings.SplitN(id, ":", 2) sees it: the part before   *)
(* and the part after the first colon, or one part without a colon.        *)
IdStrings == (UUIDs \X (Apps \cup Strays)) \cup {<<s>> : s \in Strays}

AppStates == {"none", "created", "running", "exited"}

AppRecords == [st : AppStates, label : Names \cup {NoName}, mounts : SUBSET Dirs]

NoApp == [st |-> "none", label |-> NoName, mounts |-> {}]

CtrFilterRecords ==
  [id : Ids \cup {NoUUID}, st : AppStates, pod : UUIDs \cup {NoUUID},
   label : Names \cup {NoName}]

NoCtrFilter == [id |-> NoUUID, st |-> "none", pod |-> NoUUID, label |-> NoName]

CreateRequestRecords ==
  [pod : UUIDs \ Foreign, attempt : Attempts, name : Names, mounts : SUBSET Dirs]

ASSUME ContainerAssumption ==
  /\ DOMAIN SanitizeACName = Names \cup Apps \cup Strays
  /\ \A n \in Names : SanitizeACName[n] \in ACNames \cup {NoName}
  /\ \A a \in Apps : SanitizeACName[a] = a
  /\ \A s \in Strays : SanitizeACName[s] \in Apps \cup {NoName}
  /\ NoName \notin Names \cup ACNames \cup Apps
  /\ StrayIds \subseteq IdStrings
  /\ CreateRequests \subseteq CreateRequestRecords
  /\ MaxCalls \in Nat
  /\ OddApps \cap (Attempts \X ACNames) = {}
  /\ NoUUID \notin Ids
  /\ Internal \subseteq OddApps
  /\ CtrFilters \subseteq CtrFilterRecords
  /\ CmdFaults \in BOOLEAN

VARIABLES
  apps,      \* per pod and app name: state, label and mounts, as rkt keeps them
  hostDirs,  \* the host directories that exist
  handed,    \* the container ids the kubelet got, each with pod and app
  creator,   \* per CreateContainer call: the request, and what is left to do
  lister     \* per ListContainers call: what is left to ask, and the answer

ctrVars == <<podState, podAnno, proc, tmp, content, everRan,
             apps, hostDirs, handed, creator, lister>>

HandedRecords == [id : Ids, pod : UUIDs, app : Apps]

KnownIds == {h.id : h \in handed}

Items == [id : Ids, pod : UUIDs, app : Apps, st : AppStates,
          label : Names \cup {NoName}]

(* gone and removed are history: the directories that others removed after *)
(* this call had seen to them, and whether its app was removed before the  *)
(* reply.                                                                  *)
CreatorRecords ==
  [pc : {"idle", "prepare", "reply"}, pod : UUIDs \cup {NoUUID},
   app : Apps \cup {NoName}, label : Names \cup {NoName},
   mounts : SUBSET Dirs, todo : SUBSET Dirs, gone : SUBSET Dirs,
   removed : {"no", "yes"}]

NoCreate == [pc |-> "idle", pod |-> NoUUID, app |-> NoName, label |-> NoName,
             mounts |-> {}, todo |-> {}, gone |-> {}, removed |-> "no"]

(* whole and failed are history: the containers there since the call       *)
(* began, and those whose status command failed on its own.                *)
ListerRecords ==
  [pc : {"idle", "ask"}, filter : CtrFilters \cup {NoCtrFilter},
   todo : SUBSET Ids, items : SUBSET Items,
   whole : SUBSET Ids, failed : SUBSET Ids]

NoList == [pc |-> "idle", filter |-> NoCtrFilter, todo |-> {}, items |-> {},
           whole |-> {}, failed |-> {}]

(* Pods that RunPodSandbox has brought up, in which apps that somebody     *)
(* added by hand have ended, and foreign pods that have ended.             *)
ContainerInit ==
  /\ podState = [u \in UUIDs |-> IF u \in Foreign THEN "exited" ELSE "running"]
  /\ podAnno \in [UUIDs -> Metas \cup {NoMeta}]
  /\ \A u \in UUIDs : podAnno[u] = NoMeta <=> u \in Foreign
  /\ proc = [u \in UUIDs |-> [meta |-> podAnno[u], path |-> NoPath]]
  /\ tmp = [p \in Paths |-> "free"]
  /\ content = [p \in Paths |-> NoUUID]
  /\ everRan = UUIDs
  /\ apps = [u \in UUIDs |-> [a \in Apps |->
               IF u \in Foreign \/ a \in OddApps
               THEN [NoApp EXCEPT !.st = "exited"] ELSE NoApp]]
  /\ hostDirs = {}
  /\ handed = {}
  /\ creator = [k \in Creators |-> NoCreate]
  /\ lister = [l \in Listers |-> NoList]

----------------------------------------------------------------------------
(* Names.                                                                  *)

buildAppName(attempt, name) == <<attempt, SanitizeACName[name]>>

MUT_buildContainerID(u, a) == <<a, u>>
buildContainerID(u, a) == <<u, a>>

(* What is after the first colon is sanitized; <<>> stands for an error.   *)
MUT_parseContainerID(id) ==
  IF Len(id) # 2 \/ id[2] \in Strays \cup OddApps THEN <<>>
  ELSE <<id[1], buildAppName(CHOOSE t \in Attempts : TRUE,
                             CHOOSE n \in Names : SanitizeACName[n] = id[2][2])>>
parseContainerID(id) ==
  IF Len(id) # 2 THEN <<>>
  ELSE IF SanitizeACName[id[2]] = NoName THEN <<>>
  ELSE <<id[1], SanitizeACName[id[2]]>>

(* "attempt-name"; an odd name has no dash or no number before it.         *)
parsesAsAppName(a) == a \in Attempts \X ACNames

----------------------------------------------------------------------------
(* rkt's apps.  When the pod is not running its apps have exited.          *)

PodUp(u) == podState[u] \in {"running", "stopping"}

AppState(u, a) ==
  IF ~Exists(u) \/ apps[u][a].st = "none" THEN "none"
  ELSE IF PodUp(u) THEN apps[u][a].st
  ELSE "exited"

Present == {id \in Ids : AppState(id[1], id[2]) # "none"}

(* The containers in S are gone: no listing saw them all along, and whoever *)
(* made one of them and has yet to say so will be late.                    *)
Vanish(S) ==
  /\ lister' = [l \in Listers |-> [lister[l] EXCEPT !.whole = @ \ S]]
  /\ creator' = [k \in Creators |->
       IF creator[k].pc = "reply" /\ <<creator[k].pod, creator[k].app>> \in S
       THEN [creator[k] EXCEPT !.removed = "yes"] ELSE creator[k]]

InFlight ==
  Cardinality({k \in Creators : creator[k].pc # "idle"})
    + Cardinality({l \in Listers : lister[l].pc # "idle"})

SetApp(u, a, r) == apps' = [apps EXCEPT ![u][a] = r]

----------------------------------------------------------------------------
(* CreateContainer.                                                        *)

(* The name is built, or refused, before anything is done.                 *)
CreateContainer(k, r) ==
  /\ creator[k].pc = "idle" /\ InFlight < MaxCalls
  /\ SanitizeACName[r.name] # NoName
  /\ creator' = [creator EXCEPT ![k] =
       [NoCreate EXCEPT !.pc = "prepare", !.pod = r.pod,
                        !.app = buildAppName(r.attempt, r.name),
                        !.label = r.name, !.mounts = r.mounts, !.todo = r.mounts]]
  /\ UNCHANGED <<rktVars, apps, hostDirs, handed, lister>>

(* One turn of the loop over the mounts: the host path is there or is      *)
(* made, or the call ends with the error and leaves the earlier ones.      *)
MUT_HostPathFails(k, d) == [creator[k] EXCEPT !.todo = @ \ {d}]
HostPathFails(k, d) == NoCreate

maybeCreateHostPathVolume(k, d) ==
  /\ creator[k].pc = "prepare" /\ d \in creator[k].todo
  /\ UNCHANGED <<rktVars, apps, handed, lister>>
  /\ \/ /\ hostDirs' = hostDirs \cup {d}
        /\ creator' = [creator EXCEPT ![k].todo = creator[k].todo \ {d}]
     \/ /\ CmdFaults
        /\ creator' = [creator EXCEPT ![k] = HostPathFails(k, d)]
        /\ UNCHANGED hostDirs

(* rkt app add: the pod must run and the name be free.  The label stands   *)
(* for the user labels and annotations of the request.                     *)
Addable(k) ==
  PodUp(creator[k].pod) /\ apps[creator[k].pod][creator[k].app].st = "none"

AppAdd(k) ==
  SetApp(creator[k].pod, creator[k].app,
         [st |-> "created", label |-> creator[k].label, mounts |-> creator[k].mounts])

MUT_AddFails(k) == [creator[k] EXCEPT !.pc = "reply"]
AddFails(k) == NoCreate

RunAppAdd(k) ==
  /\ creator[k].pc = "prepare" /\ creator[k].todo = {}
  /\ UNCHANGED <<rktVars, hostDirs, handed, lister>>
  /\ \/ /\ Addable(k)
        /\ AppAdd(k)
        /\ creator' = [creator EXCEPT ![k].pc = "reply"]
     \/ /\ CmdFaults \/ ~Addable(k)
        /\ creator' = [creator EXCEPT ![k] = AddFails(k)]
        /\ UNCHANGED apps
     \/ /\ CmdFaults /\ Addable(k)
        /\ AppAdd(k)
        /\ creator' = [creator EXCEPT ![k] = AddFails(k)]

CreateReplies(k) ==
  /\ creator[k].pc = "reply"
  /\ handed' = handed \cup
       {[id |-> buildContainerID(creator[k].pod, creator[k].app),
         pod |-> creator[k].pod, app |-> creator[k].app]}
  /\ creator' = [creator EXCEPT ![k] = NoCreate]
  /\ UNCHANGED <<rktVars, apps, hostDirs, lister>>

(* Somebody removes a directory, which no app keeps from being removed.    *)
DirRemoved(d) ==
  /\ d \in hostDirs
  /\ hostDirs' = hostDirs \ {d}
  /\ creator' = [k \in Creators |->
       IF d \in creator[k].mounts \ creator[k].todo
       THEN [creator[k] EXCEPT !.gone = creator[k].gone \cup {d}] ELSE creator[k]]
  /\ UNCHANGED <<rktVars, apps, handed, lister>>

----------------------------------------------------------------------------
(* StartContainer, StopContainer, RemoveContainer: the id is parsed, or    *)
(* refused, then one command, whose error is the reply.                    *)

Startable(u, a) == PodUp(u) /\ apps[u][a].st = "created"

StartContainer(id) ==
  LET c == parseContainerID(id) IN
  /\ c # <<>> /\ Startable(c[1], c[2])
  /\ SetApp(c[1], c[2], [apps[c[1]][c[2]] EXCEPT !.st = "running"])
  /\ UNCHANGED <<rktVars, hostDirs, handed, creator, lister>>

Stoppable(u, a) == PodUp(u) /\ apps[u][a].st \in {"created", "running"}

StopContainer(id) ==
  LET c == parseContainerID(id) IN
  /\ c # <<>> /\ Stoppable(c[1], c[2])
  /\ SetApp(c[1], c[2], [apps[c[1]][c[2]] EXCEPT !.st = "exited"])
  /\ UNCHANGED <<rktVars, hostDirs, handed, creator, lister>>

RemoveContainer(id) ==
  LET c == parseContainerID(id) IN
  /\ c # <<>> /\ AppState(c[1], c[2]) # "none"
  /\ SetApp(c[1], c[2], NoApp)
  /\ Vanish({c})
  /\ UNCHANGED <<rktVars, hostDirs, handed>>

(* The app's process ends by itself.                                       *)
AppExits(u, a) ==
  /\ PodUp(u) /\ apps[u][a].st = "running"
  /\ SetApp(u, a, [apps[u][a] EXCEPT !.st = "exited"])
  /\ UNCHANGED <<rktVars, hostDirs, handed, creator, lister>>

----------------------------------------------------------------------------
(* The pod ends, and is removed (RemovePodSandbox, or rkt gc).  Foreign    *)
(* pods stay: what a listing must not show is there all the time.          *)

PodExits(u) ==
  /\ Exit(u)
  /\ UNCHANGED <<apps, hostDirs, handed, creator, lister>>

PodRemoved(u) ==
  /\ podState[u] = "exited"
  /\ RmEffect(u)
  /\ apps' = [apps EXCEPT ![u] = [a \in Apps |-> NoApp]]
  /\ Vanish({u} \X Apps)
  /\ UNCHANGED <<podAnno, proc, tmp, content, everRan, hostDirs, handed>>

----------------------------------------------------------------------------
(* ListContainers.                                                         *)

MUT_isKubernetesPod(u) == TRUE
isKubernetesPod(u) == podAnno[u] # NoMeta

passFilter(item, f) ==
  /\ f.id = NoUUID \/ f.id = item.id
  /\ f.st = "none" \/ f.st = item.st
  /\ f.pod = NoUUID \/ f.pod = item.pod
  /\ f.label = NoName \/ f.label = item.label

(* The app names of the pods that rkt list prints, but for the internal.   *)
MUT_ToAsk == {id \in Present : /\ isKubernetesPod(id[1]) /\ id[2] \notin Internal
                              /\ AppState(id[1], id[2]) = "running"}
ToAsk == {id \in Present : isKubernetesPod(id[1]) /\ id[2] \notin Internal}

ListContainers(l, f) ==
  /\ lister[l].pc = "idle" /\ InFlight < MaxCalls
  /\ lister' = [lister EXCEPT ![l] =
       [pc |-> "ask", filter |-> f, todo |-> ToAsk, items |-> {},
        whole |-> {id \in Present : id[1] \notin Foreign}, failed |-> {}]]
  /\ UNCHANGED <<rktVars, apps, hostDirs, handed, creator>>

(* toContainerStatus.                                                      *)
toContainerStatus(u, a) ==
  [id |-> buildContainerID(u, a), pod |-> u, app |-> a,
   st |-> AppState(u, a), label |-> apps[u][a].label]

(* The ContainerStatus of one app, in any order.  An app or a pod that has *)
(* gone, a name that does not parse and a failed command are all skipped.  *)
ContainerStatus(id) ==
  LET c == parseContainerID(id) IN
  IF c # <<>> /\ AppState(c[1], c[2]) # "none" /\ parsesAsAppName(c[2])
  THEN {toContainerStatus(c[1], c[2])} ELSE {}

Answer(l, c) ==
  {item \in ContainerStatus(buildContainerID(c[1], c[2])) :
     passFilter(item, lister[l].filter)}

AskContainerStatus(l) ==
  /\ lister[l].pc = "ask"
  /\ UNCHANGED <<rktVars, apps, hostDirs, handed, creator>>
  /\ \E id \in lister[l].todo :
       \/ lister' = [lister EXCEPT ![l].todo = lister[l].todo \ {id},
                                   ![l].items = @ \cup Answer(l, id)]
       \/ /\ CmdFaults
          /\ lister' = [lister EXCEPT ![l].todo = lister[l].todo \ {id},
                                      ![l].failed = @ \cup {id}]

ListReturns(l) ==
  /\ lister[l].pc = "ask" /\ lister[l].todo = {}
  /\ lister' = [lister EXCEPT ![l] = NoList]
  /\ handed' = handed \cup
       {[id |-> i.id, pod |-> i.pod, app |-> i.app] : i \in lister[l].items}
  /\ UNCHANGED <<rktVars, apps, hostDirs, creator>>

----------------------------------------------------------------------------
ContainerNext ==
  \/ \E k \in Creators :
       \/ \E r \in CreateRequests : CreateContainer(k, r)
       \/ \E d \in Dirs : maybeCreateHostPathVolume(k, d)
       \/ RunAppAdd(k) \/ CreateReplies(k)
  \/ \E d \in Dirs : DirRemoved(d)
  \/ \E id \in KnownIds \cup StrayIds :
       StartContainer(id) \/ StopContainer(id) \/ RemoveContainer(id)
  \/ \E id \in Ids : AppExits(id[1], id[2])
  \/ \E u \in UUIDs \ Foreign : PodExits(u) \/ PodRemoved(u)
  \/ \E l \in Listers, f \in CtrFilters : ListContainers(l, f)
  \/ \E l \in Listers : AskContainerStatus(l) \/ ListReturns(l)

ContainerSpec == ContainerInit /\ [][ContainerNext]_ctrVars

----------------------------------------------------------------------------
(* Properties.                                                             *)

(* The variables have their types; every id the kubelet has got is a pod's *)
(* UUID with the name of an app.                                           *)
ContainerTypeOK ==
  /\ RktTypeOK
  /\ apps \in [UUIDs -> [Apps -> AppRecords]]
  /\ hostDirs \subseteq Dirs
  /\ handed \subseteq HandedRecords
  /\ creator \in [Creators -> CreatorRecords]
  /\ lister \in [Listers -> ListerRecords]

Answered(l) == lister[l].pc = "ask" /\ lister[l].todo = {}

(* The reply of ListContainers holds every container of a kubelet pod that *)
(* was there from the rkt list to the reply, whose status command did not  *)
(* fail and that the filter lets through, whatever else was created,       *)
(* stopped or removed while the listing went from app to app.              *)
ListComplete ==
  \A l \in Listers : Answered(l) /\ lister[l].filter.st = "none" =>
    \A id \in lister[l].whole \ lister[l].failed :
      /\ parsesAsAppName(id[2])
      /\ passFilter(toContainerStatus(id[1], id[2]), lister[l].filter)
      => \E i \in lister[l].items : i.id = id

(* It never holds a container of somebody else's pod or an app that the    *)
(* kubelet did not ask for, and each container at most once, though its    *)
(* state may change while the listing runs.                                *)
ListSound ==
  \A l \in Listers :
    /\ \A i \in lister[l].items :
         /\ i.pod \notin Foreign
         /\ i.app \notin OddApps
         /\ i.st # "none"
    /\ \A i, j \in lister[l].items : i.id = j.id => i = j

(* When rkt app add is run every host path of the request's mounts exists, *)
(* but for those that somebody removed after the call had seen to them:    *)
(* rkt does not make them, the loop that does can fail at each, and other  *)
(* calls and people make and remove the same directories meanwhile.        *)
MountsReady ==
  \A k \in Creators :
    creator[k].pc = "prepare" /\ creator[k].todo = {}
      => creator[k].mounts \subseteq hostDirs \cup creator[k].gone

(* CreateContainer answers with the id of the container that it made for   *)
(* this very request, if it is still there: a call that finds the name     *)
(* taken, by a retry that overtook it or by a request whose name is        *)
(* sanitized to the same, never hands out the other's container.           *)
CreateReturnsOwn ==
  \A k \in Creators :
    creator[k].pc = "reply" /\ creator[k].removed = "no" =>
      /\ AppState(creator[k].pod, creator[k].app) # "none"
      /\ apps[creator[k].pod][creator[k].app].label = creator[k].label
      /\ apps[creator[k].pod][creator[k].app].mounts = creator[k].mounts

(* A start, stop or remove by an id that CreateContainer or ListContainers *)
(* gave out changes no other container than the one it was given out for,  *)
(* whether the container was created, running or exited: splitting and     *)
(* sanitizing the id leads back to pod, attempt and name.  (An id written  *)
(* by hand may be sanitized to the name of any app.)                       *)
RequestHitsHandedOut ==
  [][\A u \in UUIDs, a \in Apps : apps'[u][a] # apps[u][a] =>
       \A id \in KnownIds :
         StartContainer(id) \/ StopContainer(id) \/ RemoveContainer(id)
           => [id |-> id, pod |-> u, app |-> a] \in handed]_ctrVars

=============================================================================
