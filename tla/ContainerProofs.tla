--------------------------- MODULE ContainerProofs ---------------------------
(***************************************************************************)
(* Proofs about the container service (module Container), for any number   *)
(* of pods, apps, mounts, requests and concurrent calls.                   *)
(***************************************************************************)
EXTENDS Container, TLAPS

(* A pod has the reserved annotations exactly if it is the kubelet's.      *)
AnnotationsTell == \A u \in UUIDs : podAnno[u] = NoMeta <=> u \in Foreign

(* What a listing has yet to ask is of the kubelet's pods, and what it has *)
(* in its answer it will not ask again.                                    *)
TodoSound ==
  \A l \in Listers :
    /\ \A id \in lister[l].todo : id[1] \notin Foreign
    /\ \A i \in lister[l].items : i.id \notin lister[l].todo

(* An item is of a kubelet pod, has a name that rktlet built, and an id    *)
(* that is made of the two.                                                *)
ItemSound(i) ==
  /\ i.id = <<i.pod, i.app>> /\ i.pod \notin Foreign
  /\ parsesAsAppName(i.app) /\ i.st # "none"

ItemsSound == \A l \in Listers : \A i \in lister[l].items : ItemSound(i)

(* A listing has no two items of one container.                            *)
ItemsUnique ==
  \A l \in Listers : \A i, j \in lister[l].items : i.id = j.id => i = j

(* A container seen all along is still there.                              *)
WholePresent ==
  \A l \in Listers : \A id \in lister[l].whole :
    AppState(id[1], id[2]) # "none" /\ id[1] \notin Foreign

(* The filter lets a container through, whatever its state.                *)
Wanted(l, id) ==
  /\ parsesAsAppName(id[2])
  /\ lister[l].filter.id = NoUUID \/ lister[l].filter.id = id
  /\ lister[l].filter.pod = NoUUID \/ lister[l].filter.pod = id[1]
  /\ lister[l].filter.label = NoName \/ lister[l].filter.label = apps[id[1]][id[2]].label

(* A container seen all along that the filter lets through is in the       *)
(* answer, has its status command failed, or will be asked.                *)
Covered(l) ==
  lister[l].filter.st = "none" =>
    \A id \in lister[l].whole \ lister[l].failed :
      Wanted(l, id) => id \in lister[l].todo \/ \E i \in lister[l].items : i.id = id

AllCovered == \A l \in Listers : Covered(l)

ListInv ==
  /\ AnnotationsTell
  /\ TodoSound
  /\ ItemsSound
  /\ ItemsUnique
  /\ WholePresent
  /\ AllCovered

(* The container of the call's request is there, as the request wanted it. *)
OwnThere(k) ==
  /\ AppState(creator[k].pod, creator[k].app) # "none"
  /\ apps[creator[k].pod][creator[k].app].label = creator[k].label
  /\ apps[creator[k].pod][creator[k].app].mounts = creator[k].mounts

(* A CreateContainer under way: the directories it has seen to are there,  *)
(* or have been removed since; and the app it has added is the one it was  *)
(* asked for, until it is removed.                                         *)
CreateSound(k) ==
  /\ creator[k].pc # "idle" => creator[k].pod \in UUIDs /\ creator[k].app \in Apps
  /\ creator[k].pc = "prepare" =>
       creator[k].mounts \subseteq hostDirs \cup creator[k].gone \cup creator[k].todo
  /\ creator[k].pc = "reply" /\ creator[k].removed = "no" => OwnThere(k)

CreatesSound == \A k \in Creators : CreateSound(k)

(* An id that was given out is made of the pod and the app it stands for.  *)
HandedSound == \A h \in handed : h.id = <<h.pod, h.app>>

CInv ==
  /\ ContainerTypeOK
  /\ ListInv
  /\ CreatesSound
  /\ HandedSound

----------------------------------------------------------------------------
(* Lemmas about the operators.                                             *)

(* An app of a pod has one of rkt's four states.                           *)
LEMMA AppStateType ==
  ASSUME ContainerTypeOK, NEW u \in UUIDs, NEW a \in Apps
  PROVE  AppState(u, a) \in AppStates
  BY DEF ContainerTypeOK, AppState, AppStates, AppRecords

(* A container id is a pair.                                               *)
LEMMA IdParts ==
  ASSUME NEW id \in Ids
  PROVE  id[1] \in UUIDs /\ id[2] \in Apps /\ id = <<id[1], id[2]>>
  BY DEF Ids

(* The id of an app is split and sanitized back to the pod and the app.    *)
LEMMA ParseBuilt ==
  ASSUME NEW u \in UUIDs, NEW a \in Apps
  PROVE  parseContainerID(<<u, a>>) = <<u, a>>
  <1>1. SanitizeACName[a] = a /\ a # NoName
    BY ContainerAssumption
  <1>2. Len(<<u, a>>) = 2 /\ <<u, a>>[1] = u /\ <<u, a>>[2] = a
    OBVIOUS
  <1> QED BY <1>1, <1>2 DEF parseContainerID

(* Whatever the request says, an id is refused or means some app's id.     *)
LEMMA ParseAny ==
  ASSUME NEW id \in IdStrings, parseContainerID(id) # <<>>
  PROVE  parseContainerID(id) \in Ids
  <1>1. Len(id) = 2 /\ SanitizeACName[id[2]] # NoName
    BY DEF parseContainerID
  <1>2. id \in UUIDs \X (Apps \cup Strays)
    <2>1. ASSUME NEW s \in Strays, id = <<s>> PROVE FALSE
      <3>1. Len(<<s>>) = 1
        OBVIOUS
      <3> QED BY <1>1, <2>1, <3>1
    <2> QED BY <2>1 DEF IdStrings
  <1>3. id[1] \in UUIDs /\ id[2] \in Apps \cup Strays
    BY <1>2
  <1>4. SanitizeACName[id[2]] \in Apps
    BY <1>1, <1>3, ContainerAssumption
  <1>5. parseContainerID(id) = <<id[1], SanitizeACName[id[2]]>>
    BY <1>1 DEF parseContainerID
  <1> QED BY <1>3, <1>4, <1>5 DEF Ids

(* The ids of requests, known or not, are strings that SplitN can see.     *)
LEMMA RequestIds ==
  ASSUME CInv
  PROVE  KnownIds \cup StrayIds \subseteq IdStrings
  <1>1. KnownIds \subseteq Ids
    BY DEF CInv, ContainerTypeOK, KnownIds, HandedRecords
  <1> QED BY <1>1, ContainerAssumption DEF Ids, IdStrings

(* The app name that rktlet builds from a name it could sanitize is one.   *)
LEMMA BuiltName ==
  ASSUME NEW t \in Attempts, NEW n \in Names, SanitizeACName[n] # NoName
  PROVE  buildAppName(t, n) \in Apps
  BY ContainerAssumption DEF buildAppName, Apps

(* The filter's test apart from the state.                                 *)
LEMMA PassIsWanted ==
  ASSUME NEW l \in Listers, NEW id \in Ids, lister[l].filter.st = "none"
  PROVE  /\ parsesAsAppName(id[2])
         /\ passFilter(toContainerStatus(id[1], id[2]), lister[l].filter)
         <=> Wanted(l, id)
  BY IdParts DEF passFilter, toContainerStatus, Wanted, buildContainerID

(* What ContainerStatus says of a container that it is asked for by its id. *)
LEMMA StatusIs ==
  ASSUME NEW id \in Ids
  PROVE  ContainerStatus(buildContainerID(id[1], id[2])) =
           IF AppState(id[1], id[2]) # "none" /\ parsesAsAppName(id[2])
           THEN {toContainerStatus(id[1], id[2])} ELSE {}
  <1> DEFINE c == parseContainerID(buildContainerID(id[1], id[2]))
  <1>1. c = <<id[1], id[2]>>
    BY IdParts, ParseBuilt DEF buildContainerID
  <1>2. c # <<>> /\ c[1] = id[1] /\ c[2] = id[2]
    BY <1>1
  <1> QED BY <1>2 DEF ContainerStatus

(* What one ContainerStatus adds to the answer.                            *)
LEMMA AnswerIs ==
  ASSUME ContainerTypeOK, NEW l \in Listers, NEW id \in Ids,
         NEW i \in Answer(l, id)
  PROVE  /\ i = toContainerStatus(id[1], id[2]) /\ i \in Items
         /\ i.id = id /\ i.pod = id[1] /\ i.app = id[2]
         /\ i.st # "none" /\ parsesAsAppName(i.app)
  <1>1. /\ i = toContainerStatus(id[1], id[2])
        /\ AppState(id[1], id[2]) # "none" /\ parsesAsAppName(id[2])
    <2>1. i \in ContainerStatus(buildContainerID(id[1], id[2]))
      BY DEF Answer
    <2>2. /\ AppState(id[1], id[2]) # "none" /\ parsesAsAppName(id[2])
          /\ i \in {toContainerStatus(id[1], id[2])}
      BY <2>1, StatusIs
    <2> QED BY <2>2
  <1>2. apps[id[1]][id[2]].label \in Names \cup {NoName}
    BY IdParts DEF ContainerTypeOK, AppRecords
  <1> QED
    BY <1>1, <1>2, IdParts, AppStateType DEF toContainerStatus, Items, buildContainerID

----------------------------------------------------------------------------
(* What a step that is not theirs does to the calls under way.             *)

(* A listing is not disturbed by a step that leaves it alone, but for the  *)
(* containers it can no longer have seen all along, as long as the others  *)
(* stay present under their labels.                                        *)
LEMMA ListingsGoOn ==
  ASSUME CInv, UNCHANGED podAnno,
         \A l \in Listers :
           /\ lister'[l].todo = lister[l].todo /\ lister'[l].items = lister[l].items
           /\ lister'[l].filter = lister[l].filter
           /\ lister'[l].failed = lister[l].failed
           /\ lister'[l].whole \subseteq lister[l].whole
           /\ \A id \in lister'[l].whole : AppState(id[1], id[2]) # "none" =>
                /\ AppState(id[1], id[2])' # "none"
                /\ apps'[id[1]][id[2]].label = apps[id[1]][id[2]].label
  PROVE  ListInv'
  <1>1. AnnotationsTell' /\ TodoSound' /\ ItemsUnique'
    BY DEF CInv, ListInv, AnnotationsTell, TodoSound, ItemsUnique
  <1>2. ItemsSound'
    BY DEF CInv, ListInv, ItemsSound, ItemSound, parsesAsAppName
  <1>3. WholePresent'
    BY DEF CInv, ListInv, WholePresent
  <1>4. ASSUME NEW l \in Listers, NEW id \in lister'[l].whole
        PROVE  Wanted(l, id)' <=> Wanted(l, id)
    <2>1. apps'[id[1]][id[2]].label = apps[id[1]][id[2]].label
      BY <1>4 DEF CInv, ListInv, WholePresent
    <2> QED BY <2>1 DEF Wanted, parsesAsAppName
  <1>5. AllCovered'
    BY <1>4 DEF CInv, ListInv, AllCovered, Covered
  <1> QED BY <1>1, <1>2, <1>3, <1>5 DEF ListInv

(* A CreateContainer is not disturbed by a step that leaves the            *)
(* directories alone and that keeps its app, if it has added one, or notes *)
(* that the app was removed.                                               *)
LEMMA CreatesGoOn ==
  ASSUME CInv, UNCHANGED hostDirs,
         \A k \in Creators :
           \/ /\ creator'[k] = creator[k]
              /\ creator[k].pc = "reply" /\ creator[k].removed = "no" /\ OwnThere(k)
                   => OwnThere(k)'
           \/ /\ creator[k].pc = "reply"
              /\ creator'[k] = [creator[k] EXCEPT !.removed = "yes"]
  PROVE  CreatesSound'
  <1> SUFFICES ASSUME NEW k \in Creators PROVE CreateSound(k)'
    BY DEF CreatesSound
  <1>1. CreateSound(k) /\ creator[k] \in CreatorRecords
    BY DEF CInv, CreatesSound, ContainerTypeOK
  <1>2. CASE /\ creator'[k] = creator[k]
             /\ creator[k].pc = "reply" /\ creator[k].removed = "no" /\ OwnThere(k)
                  => OwnThere(k)'
    BY <1>1, <1>2 DEF CreateSound
  <1>3. CASE /\ creator[k].pc = "reply"
             /\ creator'[k] = [creator[k] EXCEPT !.removed = "yes"]
    <2>1. /\ creator'[k].pc = "reply" /\ creator'[k].removed = "yes"
          /\ creator'[k].pod = creator[k].pod /\ creator'[k].app = creator[k].app
      BY <1>1, <1>3 DEF CreatorRecords
    <2> QED BY <1>1, <1>3, <2>1 DEF CreateSound
  <1> QED BY <1>2, <1>3

(* Neither is it by the other calls, as long as it does not lose a         *)
(* directory: only call k is to be looked at.                              *)
LEMMA OneCreate ==
  ASSUME CInv, UNCHANGED <<rktVars, apps, lister>>,
         hostDirs \subseteq hostDirs', hostDirs' \subseteq Dirs,
         handed' \subseteq HandedRecords, HandedSound',
         NEW k \in Creators, NEW r \in CreatorRecords,
         creator' = [creator EXCEPT ![k] = r], CreateSound(k)'
  PROVE  CInv'
  <1>1. /\ creator' \in [Creators -> CreatorRecords]
        /\ \A j \in Creators \ {k} : creator'[j] = creator[j]
    BY DEF CInv, ContainerTypeOK
  <1>2. \A u, a : AppState(u, a)' = AppState(u, a)
    BY DEF rktVars, AppState, PodUp, Exists
  <1>3. ContainerTypeOK'
    BY <1>1 DEF CInv, ContainerTypeOK, RktTypeOK, rktVars
  <1>4. ListInv'
    BY <1>2, ListingsGoOn DEF rktVars
  <1>5. ASSUME NEW j \in Creators \ {k} PROVE CreateSound(j)'
    <2>1. CreateSound(j) /\ creator'[j] = creator[j]
      BY <1>1, <1>5 DEF CInv, CreatesSound
    <2>2. OwnThere(j) <=> OwnThere(j)'
      BY <1>2, <2>1 DEF OwnThere
    <2> QED BY <2>1, <2>2 DEF CreateSound
  <1>6. CreatesSound'
    BY <1>5 DEF CreatesSound
  <1> QED BY <1>3, <1>4, <1>6 DEF CInv

(* The state of no call.                                                   *)
LEMMA NoCreateIs ==
  /\ NoCreate \in CreatorRecords
  /\ NoCreate.pc = "idle"
  BY DEF NoCreate, CreatorRecords

(* A call that is over has nothing left to say.                            *)
LEMMA CreateEnds ==
  ASSUME CInv, NEW k \in Creators, creator' = [creator EXCEPT ![k] = NoCreate]
  PROVE  CreateSound(k)'
  <1>1. creator'[k] = NoCreate
    BY DEF CInv, ContainerTypeOK
  <1> QED BY <1>1, NoCreateIs DEF CreateSound

(* The arrival of a request: nothing is made yet.                          *)
LEMMA CreateInv ==
  ASSUME CInv, NEW k \in Creators, NEW r \in CreateRequests, CreateContainer(k, r)
  PROVE  CInv'
  <1> DEFINE a == buildAppName(r.attempt, r.name)
             c == [NoCreate EXCEPT !.pc = "prepare", !.pod = r.pod, !.app = a,
                     !.label = r.name, !.mounts = r.mounts, !.todo = r.mounts]
  <1>1. /\ r.pod \in UUIDs /\ r.attempt \in Attempts /\ r.name \in Names
        /\ r.mounts \in SUBSET Dirs
    BY ContainerAssumption DEF CreateRequestRecords
  <1>2. a \in Apps
    BY <1>1, BuiltName DEF CreateContainer
  <1> HIDE DEF a
  <1>3. /\ c \in CreatorRecords /\ c.pc = "prepare" /\ c.pod = r.pod /\ c.app = a
        /\ c.mounts = c.todo
    BY <1>1, <1>2 DEF NoCreate, CreatorRecords
  <1>4. creator' = [creator EXCEPT ![k] = c]
        /\ UNCHANGED <<rktVars, apps, lister>> /\ UNCHANGED <<hostDirs, handed>>
    BY DEF CreateContainer, a
  <1> HIDE DEF c
  <1>5. creator'[k] = c
    BY <1>4 DEF CInv, ContainerTypeOK
  <1>6. CreateSound(k)'
    BY <1>1, <1>2, <1>3, <1>5 DEF CreateSound
  <1>7. handed' \subseteq HandedRecords /\ HandedSound' /\ hostDirs' \subseteq Dirs
    BY <1>4 DEF CInv, ContainerTypeOK, HandedSound
  <1> QED BY <1>3, <1>4, <1>6, <1>7, OneCreate

(* One directory: it is there now, or the call is over.                    *)
LEMMA HostPathInv ==
  ASSUME CInv, NEW k \in Creators, NEW d \in Dirs, maybeCreateHostPathVolume(k, d)
  PROVE  CInv'
  <1> DEFINE T == creator[k].todo \ {d}
             c == [creator[k] EXCEPT !.todo = T]
  <1>1. /\ UNCHANGED <<rktVars, apps, lister>> /\ UNCHANGED handed
        /\ creator[k].pc = "prepare" /\ d \in creator[k].todo
        /\ creator[k] \in CreatorRecords /\ CreateSound(k)
    BY DEF maybeCreateHostPathVolume, CInv, ContainerTypeOK, CreatesSound
  <1>2. handed' \subseteq HandedRecords /\ HandedSound' /\ hostDirs \subseteq Dirs
    BY <1>1 DEF CInv, ContainerTypeOK, HandedSound
  <1>3. CASE /\ hostDirs' = hostDirs \cup {d}
             /\ creator' = [creator EXCEPT ![k].todo = creator[k].todo \ {d}]
    <2>1. T \in SUBSET Dirs
      BY <1>1 DEF CreatorRecords
    <2>2. /\ c \in CreatorRecords /\ c.pc = "prepare" /\ c.todo = T
          /\ c.pod = creator[k].pod /\ c.app = creator[k].app
          /\ c.mounts = creator[k].mounts /\ c.gone = creator[k].gone
      BY <1>1, <2>1 DEF CreatorRecords
    <2>3. creator' = [creator EXCEPT ![k] = c]
      BY <1>3 DEF CInv, ContainerTypeOK
    <2> HIDE DEF c
    <2>4. creator'[k] = c
      BY <2>3 DEF CInv, ContainerTypeOK
    <2>5. CreateSound(k)'
      BY <1>1, <1>3, <2>2, <2>4 DEF CreateSound
    <2>6. hostDirs \subseteq hostDirs' /\ hostDirs' \subseteq Dirs
      BY <1>2, <1>3
    <2> QED BY <1>1, <1>2, <2>2, <2>3, <2>5, <2>6, OneCreate
  <1>4. CASE creator' = [creator EXCEPT ![k] = NoCreate] /\ UNCHANGED hostDirs
    BY <1>1, <1>2, <1>4, NoCreateIs, CreateEnds, OneCreate
  <1> QED
    BY <1>3, <1>4 DEF maybeCreateHostPathVolume, HostPathFails

(* The reply: the id is of the pod and the app of the call.                *)
LEMMA CreateRepliesInv ==
  ASSUME CInv, NEW k \in Creators, CreateReplies(k)
  PROVE  CInv'
  <1> DEFINE h == [id |-> <<creator[k].pod, creator[k].app>>,
                   pod |-> creator[k].pod, app |-> creator[k].app]
  <1>1. creator[k].pod \in UUIDs /\ creator[k].app \in Apps
    BY DEF CreateReplies, CInv, CreatesSound, CreateSound
  <1>2. h \in HandedRecords /\ h.id = <<h.pod, h.app>>
    BY <1>1 DEF HandedRecords, Ids
  <1>3. /\ handed' = handed \cup {h} /\ creator' = [creator EXCEPT ![k] = NoCreate]
        /\ UNCHANGED <<rktVars, apps, lister>> /\ UNCHANGED hostDirs
    BY DEF CreateReplies, buildContainerID
  <1> HIDE DEF h
  <1>4. handed' \subseteq HandedRecords /\ HandedSound' /\ hostDirs' \subseteq Dirs
    BY <1>2, <1>3 DEF CInv, ContainerTypeOK, HandedSound
  <1> QED BY <1>3, <1>4, NoCreateIs, CreateEnds, OneCreate

(* A directory is lost, and every call that had seen to it knows.          *)
LEMMA DirRemovedInv ==
  ASSUME CInv, NEW d \in Dirs, DirRemoved(d)
  PROVE  CInv'
  <1>1. /\ UNCHANGED <<rktVars, apps, handed, lister>>
        /\ hostDirs' = hostDirs \ {d}
        /\ creator' = [k \in Creators |->
             IF d \in creator[k].mounts \ creator[k].todo
             THEN [creator[k] EXCEPT !.gone = creator[k].gone \cup {d}] ELSE creator[k]]
    BY DEF DirRemoved
  <1>2. \A u, a : AppState(u, a)' = AppState(u, a)
    BY <1>1 DEF rktVars, AppState, PodUp, Exists
  <1>3. ASSUME NEW k \in Creators
        PROVE  creator'[k] \in CreatorRecords /\ CreateSound(k)'
    <2>1. CreateSound(k) /\ creator[k] \in CreatorRecords
      BY DEF CInv, CreatesSound, ContainerTypeOK
    <2>2. CASE d \in creator[k].mounts \ creator[k].todo
      <3> DEFINE G == creator[k].gone \cup {d}
                 c == [creator[k] EXCEPT !.gone = G]
      <3>1. G \in SUBSET Dirs
        BY <2>1 DEF CreatorRecords
      <3>2. /\ c \in CreatorRecords /\ c.gone = G /\ c.pc = creator[k].pc
            /\ c.pod = creator[k].pod /\ c.app = creator[k].app
            /\ c.label = creator[k].label /\ c.mounts = creator[k].mounts
            /\ c.todo = creator[k].todo /\ c.removed = creator[k].removed
        BY <2>1, <3>1 DEF CreatorRecords
      <3>3. creator'[k] = c
        BY <1>1, <2>2
      <3> HIDE DEF c
      <3>4. OwnThere(k)' <=> OwnThere(k)
        BY <1>1, <1>2, <3>2, <3>3 DEF OwnThere
      <3> QED BY <1>1, <2>1, <3>2, <3>3, <3>4 DEF CreateSound
    <2>3. CASE d \notin creator[k].mounts \ creator[k].todo
      <3>1. creator'[k] = creator[k]
        BY <1>1, <2>3
      <3>2. OwnThere(k)' <=> OwnThere(k)
        BY <1>1, <1>2, <3>1 DEF OwnThere
      <3> QED BY <1>1, <2>1, <2>3, <3>1, <3>2 DEF CreateSound
    <2> QED BY <2>2, <2>3
  <1>4. creator' \in [Creators -> CreatorRecords]
    <2>1. creator' = [k \in Creators |-> creator'[k]]
      BY <1>1
    <2> QED BY <1>3, <2>1
  <1>5. ContainerTypeOK' /\ HandedSound'
    BY <1>1, <1>4 DEF CInv, ContainerTypeOK, RktTypeOK, rktVars, HandedSound
  <1>6. ListInv'
    BY <1>1, <1>2, ListingsGoOn DEF rktVars
  <1> QED BY <1>3, <1>5, <1>6 DEF CInv, CreatesSound

----------------------------------------------------------------------------
(* Steps that change an app or a pod.                                      *)

(* One app is set to a record.                                             *)
LEMMA SetAppIs ==
  ASSUME CInv, NEW u \in UUIDs, NEW a \in Apps, NEW r \in AppRecords, SetApp(u, a, r)
  PROVE  /\ apps' \in [UUIDs -> [Apps -> AppRecords]]
         /\ \A v \in UUIDs, b \in Apps :
              apps'[v][b] = IF v = u /\ b = a THEN r ELSE apps[v][b]
  BY DEF CInv, ContainerTypeOK, SetApp

(* An app that is there is still there, with its label and its mounts.     *)
Kept(u, a) ==
  /\ AppState(u, a)' # "none"
  /\ apps'[u][a].label = apps[u][a].label
  /\ apps'[u][a].mounts = apps[u][a].mounts

(* A step that keeps every app and leaves the calls alone.                 *)
LEMMA AppsKept ==
  ASSUME CInv, RktTypeOK', apps' \in [UUIDs -> [Apps -> AppRecords]],
         UNCHANGED <<podAnno, hostDirs, handed, creator, lister>>,
         \A u \in UUIDs, a \in Apps : AppState(u, a) # "none" => Kept(u, a)
  PROVE  CInv'
  <1>1. ContainerTypeOK' /\ HandedSound'
    BY DEF CInv, ContainerTypeOK, HandedSound
  <1>2. ListInv'
    <2>1. ASSUME NEW l \in Listers, NEW id \in lister[l].whole,
                 AppState(id[1], id[2]) # "none"
          PROVE  /\ AppState(id[1], id[2])' # "none"
                 /\ apps'[id[1]][id[2]].label = apps[id[1]][id[2]].label
      <3>1. id \in Ids
        BY <2>1 DEF CInv, ContainerTypeOK, ListerRecords
      <3> QED BY <2>1, <3>1, IdParts DEF Kept
    <2> QED BY <2>1, ListingsGoOn
  <1>3. CreatesSound'
    <2>1. ASSUME NEW k \in Creators, creator[k].pc = "reply", OwnThere(k)
          PROVE  OwnThere(k)'
      <3>1. creator[k].pod \in UUIDs /\ creator[k].app \in Apps
        BY <2>1 DEF CInv, CreatesSound, CreateSound
      <3> QED BY <2>1, <3>1 DEF OwnThere, Kept
    <2> QED BY <2>1, CreatesGoOn
  <1> QED BY <1>1, <1>2, <1>3 DEF CInv

(* StartContainer, StopContainer and the end of a process move an app that *)
(* exists to another state and leave everything else alone.                *)
LEMMA AppMoves ==
  ASSUME CInv, NEW u \in UUIDs, NEW a \in Apps, NEW s \in AppStates \ {"none"},
         apps[u][a].st # "none", SetApp(u, a, [apps[u][a] EXCEPT !.st = s]),
         UNCHANGED <<rktVars, hostDirs, handed, creator, lister>>
  PROVE  CInv'
  <1> DEFINE r == [apps[u][a] EXCEPT !.st = s]
  <1>1. /\ r \in AppRecords /\ r.st = s
        /\ r.label = apps[u][a].label /\ r.mounts = apps[u][a].mounts
    <2>1. apps[u][a] \in AppRecords
      BY DEF CInv, ContainerTypeOK
    <2> QED BY <2>1 DEF AppRecords
  <1> HIDE DEF r
  <1>2. SetApp(u, a, r)
    BY DEF r
  <1>3. /\ apps' \in [UUIDs -> [Apps -> AppRecords]]
        /\ \A v \in UUIDs, b \in Apps :
             apps'[v][b] = IF v = u /\ b = a THEN r ELSE apps[v][b]
    BY <1>1, <1>2, SetAppIs
  <1>4. RktTypeOK'
    BY DEF CInv, ContainerTypeOK, RktTypeOK, rktVars
  <1>5. ASSUME NEW v \in UUIDs, NEW b \in Apps, AppState(v, b) # "none"
        PROVE  Kept(v, b)
    BY <1>1, <1>3, <1>5 DEF AppState, PodUp, Exists, rktVars, Kept
  <1> QED BY <1>3, <1>4, <1>5, AppsKept DEF rktVars

(* A step that only ends a pod's life keeps the types.                     *)
LEMMA PodStateType ==
  ASSUME CInv, NEW u \in UUIDs, NEW s \in PodStates,
         podState' = [podState EXCEPT ![u] = s],
         UNCHANGED <<podAnno, proc, tmp, content, everRan>>
  PROVE  /\ RktTypeOK'
         /\ \A v \in UUIDs : podState'[v] = IF v = u THEN s ELSE podState[v]
  BY DEF CInv, ContainerTypeOK, RktTypeOK

(* A pod ends: its apps are still there, as exited ones.                   *)
LEMMA PodExitsInv ==
  ASSUME CInv, NEW u \in UUIDs, PodExits(u)
  PROVE  CInv'
  <1> DEFINE s == IF podState[u] = "spawned" THEN "gone" ELSE "exited"
  <1>1. podState' = [podState EXCEPT ![u] = s] /\ s \in PodStates
    BY DEF PodExits, Exit, PodStates
  <1>2. UNCHANGED <<podAnno, proc, tmp, content, everRan>>
        /\ UNCHANGED <<apps, hostDirs, handed, creator, lister>>
    BY DEF PodExits, Exit
  <1>3. /\ RktTypeOK'
        /\ \A v \in UUIDs : podState'[v] = IF v = u THEN s ELSE podState[v]
    BY <1>1, <1>2, PodStateType
  <1>4. ASSUME NEW v \in UUIDs, NEW b \in Apps, AppState(v, b) # "none"
        PROVE  Kept(v, b)
    BY <1>2, <1>3, <1>4 DEF AppState, Exists, PodUp, Kept
  <1>5. apps' \in [UUIDs -> [Apps -> AppRecords]]
    BY <1>2 DEF CInv, ContainerTypeOK
  <1> QED BY <1>2, <1>3, <1>4, <1>5, AppsKept

(* What Vanish does to the listings and to the calls that add an app.      *)
LEMMA VanishEffect ==
  ASSUME CInv, NEW S, Vanish(S)
  PROVE  /\ lister' \in [Listers -> ListerRecords]
         /\ creator' \in [Creators -> CreatorRecords]
         /\ \A l \in Listers :
              /\ lister'[l].todo = lister[l].todo /\ lister'[l].items = lister[l].items
              /\ lister'[l].filter = lister[l].filter
              /\ lister'[l].failed = lister[l].failed
              /\ lister'[l].whole = lister[l].whole \ S
              /\ lister'[l].whole \subseteq Ids
  <1>1. \A l \in Listers : lister[l] \in ListerRecords
    BY DEF CInv, ContainerTypeOK
  <1>2. \A l \in Listers : lister'[l] = [lister[l] EXCEPT !.whole = @ \ S]
    BY DEF Vanish
  <1>3. ASSUME NEW l \in Listers
        PROVE  /\ lister'[l] \in ListerRecords
               /\ lister'[l].todo = lister[l].todo /\ lister'[l].items = lister[l].items
               /\ lister'[l].filter = lister[l].filter
               /\ lister'[l].failed = lister[l].failed
               /\ lister'[l].whole = lister[l].whole \ S
               /\ lister'[l].whole \subseteq Ids
    <2>1. lister[l] \in ListerRecords /\ lister'[l] = [lister[l] EXCEPT !.whole = @ \ S]
      BY <1>1, <1>2
    <2>2. lister[l].whole \ S \in SUBSET Ids
      BY <2>1 DEF ListerRecords
    <2>3. lister'[l] = [lister[l] EXCEPT !.whole = lister[l].whole \ S]
      BY <2>1
    <2> QED BY <2>1, <2>2, <2>3 DEF ListerRecords
  <1>4. lister' = [l \in Listers |-> lister'[l]]
    BY DEF Vanish
  <1>5. ASSUME NEW k \in Creators PROVE creator'[k] \in CreatorRecords
    <2>1. creator[k] \in CreatorRecords
      BY DEF CInv, ContainerTypeOK
    <2>2. [creator[k] EXCEPT !.removed = "yes"] \in CreatorRecords
      BY <2>1 DEF CreatorRecords
    <2> QED BY <2>1, <2>2 DEF Vanish
  <1>6. creator' = [k \in Creators |-> creator'[k]]
    BY DEF Vanish
  <1> QED BY <1>3, <1>4, <1>5, <1>6

(* A step that takes the containers in S away and keeps the others.        *)
LEMMA AppsVanish ==
  ASSUME CInv, RktTypeOK', apps' \in [UUIDs -> [Apps -> AppRecords]],
         UNCHANGED <<podAnno, hostDirs, handed>>, NEW S, Vanish(S),
         \A u \in UUIDs, a \in Apps :
           AppState(u, a) # "none" /\ <<u, a>> \notin S => Kept(u, a)
  PROVE  CInv'
  <1>1. ContainerTypeOK' /\ HandedSound'
    BY VanishEffect DEF CInv, ContainerTypeOK, HandedSound
  <1>2. ListInv'
    <2>1. ASSUME NEW l \in Listers, NEW id \in lister'[l].whole,
                 AppState(id[1], id[2]) # "none"
          PROVE  /\ AppState(id[1], id[2])' # "none"
                 /\ apps'[id[1]][id[2]].label = apps[id[1]][id[2]].label
      <3>1. id \in Ids /\ id \notin S
        BY <2>1, VanishEffect
      <3> QED BY <2>1, <3>1, IdParts DEF Kept
    <2> QED BY <2>1, VanishEffect, ListingsGoOn
  <1>3. CreatesSound'
    <2>1. ASSUME NEW k \in Creators
          PROVE  \/ /\ creator'[k] = creator[k]
                    /\ creator[k].pc = "reply" /\ creator[k].removed = "no" /\ OwnThere(k)
                         => OwnThere(k)'
                 \/ /\ creator[k].pc = "reply"
                    /\ creator'[k] = [creator[k] EXCEPT !.removed = "yes"]
      <3>1. CASE creator[k].pc = "reply" /\ <<creator[k].pod, creator[k].app>> \in S
        BY <3>1 DEF Vanish
      <3>2. CASE ~(creator[k].pc = "reply" /\ <<creator[k].pod, creator[k].app>> \in S)
        <4>1. creator'[k] = creator[k]
          BY <3>2 DEF Vanish
        <4>2. ASSUME creator[k].pc = "reply", OwnThere(k) PROVE OwnThere(k)'
          <5>1. creator[k].pod \in UUIDs /\ creator[k].app \in Apps
            BY <4>2 DEF CInv, CreatesSound, CreateSound
          <5> QED BY <3>2, <4>1, <4>2, <5>1 DEF OwnThere, Kept
        <4> QED BY <4>1, <4>2
      <3> QED BY <3>1, <3>2
    <2> QED BY <2>1, CreatesGoOn
  <1> QED BY <1>1, <1>2, <1>3 DEF CInv

(* RemoveContainer takes the app away, and no call counts on it.           *)
LEMMA RemoveContainerInv ==
  ASSUME CInv, NEW id \in IdStrings, RemoveContainer(id)
  PROVE  CInv'
  <1> DEFINE c == parseContainerID(id)
             u == c[1]
             a == c[2]
  <1>1. u \in UUIDs /\ a \in Apps /\ c = <<u, a>>
    BY ParseAny, IdParts DEF RemoveContainer
  <1>2. /\ SetApp(u, a, NoApp) /\ Vanish({<<u, a>>})
        /\ UNCHANGED <<rktVars, hostDirs, handed>>
    BY <1>1 DEF RemoveContainer
  <1> HIDE DEF c, u, a
  <1>3. NoApp \in AppRecords
    BY DEF NoApp, AppRecords, AppStates
  <1>4. /\ apps' \in [UUIDs -> [Apps -> AppRecords]]
        /\ \A v \in UUIDs, b \in Apps :
             apps'[v][b] = IF v = u /\ b = a THEN NoApp ELSE apps[v][b]
    BY <1>1, <1>2, <1>3, SetAppIs
  <1>5. RktTypeOK'
    BY <1>2 DEF CInv, ContainerTypeOK, RktTypeOK, rktVars
  <1>6. ASSUME NEW v \in UUIDs, NEW b \in Apps, AppState(v, b) # "none",
               <<v, b>> \notin {<<u, a>>}
        PROVE  Kept(v, b)
    <2>1. apps'[v][b] = apps[v][b]
      BY <1>4, <1>6
    <2> QED BY <1>2, <1>6, <2>1 DEF AppState, PodUp, Exists, rktVars, Kept
  <1> QED BY <1>2, <1>4, <1>5, <1>6, AppsVanish DEF rktVars

(* A pod is removed with all its containers.                               *)
LEMMA PodRemovedInv ==
  ASSUME CInv, NEW u \in UUIDs, PodRemoved(u)
  PROVE  CInv'
  <1>1. /\ podState' = [podState EXCEPT ![u] = "gone"]
        /\ UNCHANGED <<podAnno, proc, tmp, content, everRan>>
        /\ UNCHANGED <<hostDirs, handed>>
        /\ apps' = [apps EXCEPT ![u] = [a \in Apps |-> NoApp]]
        /\ Vanish({u} \X Apps)
    BY DEF PodRemoved, RmEffect
  <1>2. /\ RktTypeOK'
        /\ \A v \in UUIDs : podState'[v] = IF v = u THEN "gone" ELSE podState[v]
    BY <1>1, PodStateType DEF PodStates
  <1>3. NoApp \in AppRecords
    BY DEF NoApp, AppRecords, AppStates
  <1>4. /\ apps' \in [UUIDs -> [Apps -> AppRecords]]
        /\ \A v \in UUIDs \ {u} : apps'[v] = apps[v]
    BY <1>1, <1>3 DEF CInv, ContainerTypeOK
  <1>5. ASSUME NEW v \in UUIDs, NEW b \in Apps, AppState(v, b) # "none",
               <<v, b>> \notin {u} \X Apps
        PROVE  Kept(v, b)
    <2>1. v # u
      BY <1>5
    <2> QED BY <1>2, <1>4, <1>5, <2>1 DEF AppState, Exists, PodUp, Kept
  <1> QED BY <1>1, <1>2, <1>4, <1>5, AppsVanish

(* rkt app add is run: the app is there as the request wanted it, and no   *)
(* other call had added one of this name that is still there.              *)
LEMMA AppAddInv ==
  ASSUME CInv, NEW k \in Creators, creator[k].pc = "prepare", Addable(k), AppAdd(k),
         UNCHANGED <<rktVars, hostDirs, handed, lister>>,
         \/ creator' = [creator EXCEPT ![k].pc = "reply"]
         \/ creator' = [creator EXCEPT ![k] = NoCreate]
  PROVE  CInv'
  <1> DEFINE r == [st |-> "created", label |-> creator[k].label, mounts |-> creator[k].mounts]
             c == [creator[k] EXCEPT !.pc = "reply"]
  <1>1. creator[k] \in CreatorRecords /\ CreateSound(k)
    BY DEF CInv, ContainerTypeOK, CreatesSound
  <1>2. PICK u \in UUIDs, a \in Apps : u = creator[k].pod /\ a = creator[k].app
    BY <1>1 DEF CreateSound
  <1>3. /\ r \in AppRecords /\ r.st = "created" /\ r.label = creator[k].label
        /\ r.mounts = creator[k].mounts
    BY <1>1 DEF CreatorRecords, AppRecords, AppStates
  <1>4. SetApp(u, a, r) /\ apps[u][a].st = "none" /\ PodUp(u)
    BY <1>2 DEF AppAdd, Addable
  <1>5. /\ c \in CreatorRecords /\ c.pc = "reply" /\ c.pod = u /\ c.app = a
        /\ c.label = creator[k].label /\ c.mounts = creator[k].mounts
    BY <1>1, <1>2 DEF CreatorRecords
  <1>6. creator' = [creator EXCEPT ![k] = c] \/ creator' = [creator EXCEPT ![k] = NoCreate]
    BY DEF CInv, ContainerTypeOK
  <1> HIDE DEF r, c
  <1>7. /\ apps' \in [UUIDs -> [Apps -> AppRecords]]
        /\ \A v \in UUIDs, b \in Apps :
             apps'[v][b] = IF v = u /\ b = a THEN r ELSE apps[v][b]
    BY <1>2, <1>3, <1>4, SetAppIs
  <1>8. RktTypeOK'
    BY DEF CInv, ContainerTypeOK, RktTypeOK, rktVars
  <1>9. ASSUME NEW v \in UUIDs, NEW b \in Apps, AppState(v, b) # "none"
        PROVE  Kept(v, b)
    <2>1. apps'[v][b] = apps[v][b]
      BY <1>4, <1>7, <1>9 DEF AppState
    <2> QED BY <1>9, <2>1 DEF AppState, PodUp, Exists, rktVars, Kept
  <1>10. ListInv'
    <2>1. ASSUME NEW l \in Listers, NEW id \in lister[l].whole,
                 AppState(id[1], id[2]) # "none"
          PROVE  /\ AppState(id[1], id[2])' # "none"
                 /\ apps'[id[1]][id[2]].label = apps[id[1]][id[2]].label
      <3>1. id \in Ids
        BY <2>1 DEF CInv, ContainerTypeOK, ListerRecords
      <3> QED BY <1>9, <2>1, <3>1, IdParts DEF Kept
    <2> QED BY <2>1, ListingsGoOn DEF rktVars
  <1>11. /\ creator' \in [Creators -> CreatorRecords]
         /\ creator'[k] = c \/ creator'[k] = NoCreate
         /\ \A j \in Creators \ {k} : creator'[j] = creator[j]
    BY <1>5, <1>6, NoCreateIs DEF CInv, ContainerTypeOK
  <1>12. ContainerTypeOK' /\ HandedSound'
    BY <1>7, <1>8, <1>11 DEF CInv, ContainerTypeOK, HandedSound
  <1>13. CreateSound(k)'
    <2>1. CASE creator'[k] = NoCreate
      BY <2>1, NoCreateIs DEF CreateSound
    <2>2. CASE creator'[k] = c
      <3>1. apps'[u][a] = r
        BY <1>2, <1>7
      <3>2. podState' = podState
        BY DEF rktVars
      <3>3. AppState(u, a)' # "none"
        BY <1>3, <1>4, <3>1, <3>2 DEF AppState, PodUp, Exists
      <3>4. OwnThere(k)'
        BY <1>3, <1>5, <2>2, <3>1, <3>3 DEF OwnThere
      <3>5. creator'[k].pc = "reply" /\ creator'[k].pod = u /\ creator'[k].app = a
        BY <1>5, <2>2
      <3> QED BY <1>2, <3>4, <3>5 DEF CreateSound
    <2> QED BY <1>11, <2>1, <2>2
  <1>14. ASSUME NEW j \in Creators \ {k} PROVE CreateSound(j)'
    <2>1. creator'[j] = creator[j] /\ CreateSound(j)
      BY <1>11, <1>14 DEF CInv, CreatesSound
    <2>2. ASSUME creator[j].pc = "reply", OwnThere(j) PROVE OwnThere(j)'
      <3>1. creator[j].pod \in UUIDs /\ creator[j].app \in Apps
        BY <2>1, <2>2 DEF CreateSound
      <3> QED BY <1>9, <2>1, <2>2, <3>1 DEF OwnThere, Kept
    <2> QED BY <2>1, <2>2 DEF CreateSound
  <1> QED BY <1>10, <1>12, <1>13, <1>14 DEF CInv, CreatesSound

(* The command that makes the container succeeds or fails.                 *)
LEMMA RunAppAddInv ==
  ASSUME CInv, NEW k \in Creators, RunAppAdd(k)
  PROVE  CInv'
  <1>1. /\ creator[k].pc = "prepare"
        /\ UNCHANGED <<rktVars, hostDirs, handed, lister>>
    BY DEF RunAppAdd
  <1>2. CASE /\ Addable(k) /\ AppAdd(k)
             /\ \/ creator' = [creator EXCEPT ![k].pc = "reply"]
                \/ creator' = [creator EXCEPT ![k] = NoCreate]
    BY <1>1, <1>2, AppAddInv
  <1>3. CASE creator' = [creator EXCEPT ![k] = NoCreate] /\ UNCHANGED apps
    <2>1. handed' \subseteq HandedRecords /\ HandedSound' /\ hostDirs' \subseteq Dirs
      BY <1>1 DEF CInv, ContainerTypeOK, HandedSound
    <2> QED BY <1>1, <1>3, <2>1, NoCreateIs, CreateEnds, OneCreate
  <1> QED BY <1>2, <1>3 DEF RunAppAdd, AddFails

----------------------------------------------------------------------------
(* Steps of a listing.                                                     *)

(* What does not mention the listings stays as it is.                      *)
LEMMA NotListings ==
  ASSUME CInv, UNCHANGED <<rktVars, apps, hostDirs, creator>>
  PROVE  /\ RktTypeOK' /\ AnnotationsTell' /\ CreatesSound'
         /\ \A u, a : AppState(u, a)' = AppState(u, a)
  <1>1. \A u, a : AppState(u, a)' = AppState(u, a)
    BY DEF AppState, PodUp, Exists, rktVars
  <1>2. CreatesSound'
    BY <1>1, CreatesGoOn DEF OwnThere
  <1> QED
    BY <1>1, <1>2 DEF CInv, ContainerTypeOK, RktTypeOK, ListInv, AnnotationsTell, rktVars

(* The listings other than l are unchanged, so only l is to be looked at.  *)
LEMMA OneListing ==
  ASSUME CInv, UNCHANGED <<rktVars, apps, hostDirs, creator>>,
         NEW l \in Listers, NEW r \in ListerRecords,
         lister' = [lister EXCEPT ![l] = r], handed' \subseteq HandedRecords, HandedSound',
         \A id \in r.todo : id[1] \notin Foreign,
         \A i \in r.items : i.id \notin r.todo /\ ItemSound(i),
         \A i, j \in r.items : i.id = j.id => i = j,
         \A id \in r.whole : AppState(id[1], id[2]) # "none" /\ id[1] \notin Foreign,
         Covered(l)'
  PROVE  CInv'
  <1>1. lister' \in [Listers -> ListerRecords] /\ lister'[l] = r
        /\ \A k \in Listers \ {l} : lister'[k] = lister[k]
    BY DEF CInv, ContainerTypeOK
  <1>2. RktTypeOK' /\ AnnotationsTell' /\ CreatesSound'
        /\ \A u, a : AppState(u, a)' = AppState(u, a)
    BY NotListings
  <1>3. ContainerTypeOK'
    BY <1>1, <1>2 DEF CInv, ContainerTypeOK
  <1>4. TodoSound' /\ ItemsUnique'
    BY <1>1 DEF CInv, ListInv, TodoSound, ItemsUnique
  <1>5. ItemsSound'
    BY <1>1 DEF CInv, ListInv, ItemsSound, ItemSound, parsesAsAppName
  <1>6. WholePresent'
    BY <1>1, <1>2 DEF CInv, ListInv, WholePresent
  <1>7. AllCovered'
    <2> SUFFICES ASSUME NEW k \in Listers, k # l PROVE Covered(k)'
      BY DEF AllCovered
    <2> QED BY <1>1 DEF CInv, ListInv, AllCovered, Covered, Wanted, parsesAsAppName
  <1> QED BY <1>2, <1>3, <1>4, <1>5, <1>6, <1>7 DEF CInv, ListInv

(* The listing starts with the apps of the kubelet's pods; the internal    *)
(* ones, which it skips, have names that do not parse.                     *)
LEMMA ListContainersInv ==
  ASSUME CInv, NEW l \in Listers, NEW f \in CtrFilters, ListContainers(l, f)
  PROVE  CInv'
  <1> DEFINE W == {id \in Present : id[1] \notin Foreign}
             r == [pc |-> "ask", filter |-> f, todo |-> ToAsk, items |-> {},
                   whole |-> W, failed |-> {}]
  <1>1. /\ lister' = [lister EXCEPT ![l] = r]
        /\ UNCHANGED <<rktVars, apps, hostDirs, creator>> /\ UNCHANGED handed
    BY DEF ListContainers
  <1>2. ToAsk \subseteq Ids /\ W \subseteq Ids
    BY DEF ToAsk, Present
  <1>3. r \in ListerRecords
    BY <1>2 DEF ListerRecords
  <1>4. \A id \in ToAsk : id[1] \notin Foreign
    BY IdParts DEF ToAsk, Present, isKubernetesPod, CInv, ListInv, AnnotationsTell
  <1>5. \A id \in W : AppState(id[1], id[2]) # "none" /\ id[1] \notin Foreign
    BY DEF Present
  <1>6. ASSUME NEW id \in W, parsesAsAppName(id[2]) PROVE id \in ToAsk
    <2>1. id[1] \in UUIDs /\ podAnno[id[1]] # NoMeta
      BY <1>2, IdParts DEF CInv, ListInv, AnnotationsTell
    <2>2. id[2] \notin Internal
      BY <1>6, ContainerAssumption DEF parsesAsAppName
    <2> QED BY <2>1, <2>2 DEF ToAsk, isKubernetesPod
  <1>7. lister'[l] = r
    BY <1>1 DEF CInv, ContainerTypeOK
  <1>8. Covered(l)'
    BY <1>6, <1>7 DEF Covered, Wanted, parsesAsAppName
  <1>9. handed' \subseteq HandedRecords /\ HandedSound'
    BY <1>1 DEF CInv, ContainerTypeOK, HandedSound
  <1>10. /\ r.todo = ToAsk /\ r.items = {} /\ r.whole = W
    OBVIOUS
  <1> HIDE DEF r, W
  <1> QED BY <1>1, <1>3, <1>4, <1>5, <1>8, <1>9, <1>10, OneListing

(* One ContainerStatus: the app leaves todo for the items, for failed, or  *)
(* because it does not belong into the answer.                             *)
LEMMA AskInv ==
  ASSUME CInv, NEW l \in Listers, AskContainerStatus(l)
  PROVE  CInv'
  <1> DEFINE L == lister[l]
  <1>1. L \in ListerRecords /\ UNCHANGED <<rktVars, apps, hostDirs, creator>> /\ UNCHANGED handed
    BY DEF CInv, ContainerTypeOK, AskContainerStatus
  <1>2. PICK id \in L.todo :
          \/ lister' = [lister EXCEPT ![l].todo = lister[l].todo \ {id},
                                      ![l].items = @ \cup Answer(l, id)]
          \/ /\ CmdFaults
             /\ lister' = [lister EXCEPT ![l].todo = lister[l].todo \ {id},
                                         ![l].failed = @ \cup {id}]
    BY DEF AskContainerStatus
  <1>3. /\ id \in Ids /\ L.todo \in SUBSET Ids /\ L.items \in SUBSET Items
        /\ L.whole \in SUBSET Ids /\ L.failed \in SUBSET Ids
    BY <1>1, <1>2 DEF ListerRecords
  <1>4. handed' \subseteq HandedRecords /\ HandedSound'
    BY <1>1 DEF CInv, ContainerTypeOK, HandedSound
  <1>5. /\ \A d \in L.todo : d[1] \notin Foreign
        /\ \A i \in L.items : i.id \notin L.todo /\ ItemSound(i)
        /\ \A i, j \in L.items : i.id = j.id => i = j
        /\ \A d \in L.whole : AppState(d[1], d[2]) # "none" /\ d[1] \notin Foreign
        /\ Covered(l)
    BY DEF CInv, ListInv, TodoSound, ItemsSound, ItemsUnique, WholePresent, AllCovered
  <1>6. \A i \in Answer(l, id) : /\ i = toContainerStatus(id[1], id[2]) /\ i \in Items
                                 /\ i.id = id /\ i.pod = id[1] /\ i.app = id[2]
                                 /\ i.st # "none" /\ parsesAsAppName(i.app)
    BY <1>3, AnswerIs DEF CInv
  <1>7. CASE lister' = [lister EXCEPT ![l].todo = lister[l].todo \ {id},
                                      ![l].items = @ \cup Answer(l, id)]
    <2> DEFINE T == L.todo \ {id}
               I == L.items \cup Answer(l, id)
               r == [L EXCEPT !.todo = T, !.items = I]
    <2>1. T \in SUBSET Ids /\ I \in SUBSET Items
      BY <1>3, <1>6
    <2>2. lister' = [lister EXCEPT ![l] = r]
      BY <1>7 DEF CInv, ContainerTypeOK
    <2>3. /\ r \in ListerRecords /\ r.todo = T /\ r.items = I /\ r.whole = L.whole
          /\ r.failed = L.failed /\ r.filter = L.filter
      BY <1>1, <2>1 DEF ListerRecords
    <2>4. lister'[l] = r
      BY <2>2 DEF CInv, ContainerTypeOK
    <2>5. Covered(l)'
      <3> SUFFICES ASSUME L.filter.st = "none", NEW d \in L.whole \ L.failed, Wanted(l, d)'
                   PROVE  d \in T \/ \E i \in I : i.id = d
        BY <2>3, <2>4 DEF Covered
      <3>1. Wanted(l, d) /\ d \in Ids
        BY <1>1, <1>3, <2>3, <2>4 DEF Wanted, parsesAsAppName
      <3>2. d \in L.todo \/ \E i \in L.items : i.id = d
        BY <1>5, <3>1 DEF Covered
      <3>3. CASE d = id
        <4>0. ContainerStatus(buildContainerID(id[1], id[2])) = {toContainerStatus(id[1], id[2])}
          BY <1>3, <1>5, <3>1, <3>3, StatusIs DEF Wanted
        <4>1. toContainerStatus(id[1], id[2]) \in Answer(l, id)
          BY <3>1, <3>3, <4>0, PassIsWanted DEF Answer
        <4>2. toContainerStatus(id[1], id[2]) \in I /\ toContainerStatus(id[1], id[2]).id = d
          BY <1>3, <3>3, <4>1, IdParts DEF toContainerStatus, buildContainerID
        <4> QED BY <4>2
      <3>4. CASE d # id
        BY <3>2, <3>4
      <3> QED BY <3>3, <3>4
    <2>6. \A i \in I : i.id \notin T /\ ItemSound(i)
      BY <1>2, <1>3, <1>5, <1>6, IdParts DEF ItemSound
    <2>7. \A i, j \in I : i.id = j.id => i = j
      BY <1>2, <1>5, <1>6
    <2> HIDE DEF r, T, I, L
    <2>8. \A d \in T : d[1] \notin Foreign
      BY <1>5 DEF T
    <2> QED
      BY <1>1, <1>4, <1>5, <2>2, <2>3, <2>5, <2>6, <2>7, <2>8, OneListing
  <1>8. CASE lister' = [lister EXCEPT ![l].todo = lister[l].todo \ {id},
                                      ![l].failed = @ \cup {id}]
    <2> DEFINE T == L.todo \ {id}
               F == L.failed \cup {id}
               r == [L EXCEPT !.todo = T, !.failed = F]
    <2>1. T \in SUBSET Ids /\ F \in SUBSET Ids
      BY <1>3
    <2>2. lister' = [lister EXCEPT ![l] = r]
      BY <1>8 DEF CInv, ContainerTypeOK
    <2>3. /\ r \in ListerRecords /\ r.todo = T /\ r.failed = F /\ r.whole = L.whole
          /\ r.items = L.items /\ r.filter = L.filter
      BY <1>1, <2>1 DEF ListerRecords
    <2>4. lister'[l] = r
      BY <2>2 DEF CInv, ContainerTypeOK
    <2>5. Covered(l)'
      <3> SUFFICES ASSUME L.filter.st = "none", NEW d \in L.whole \ F, Wanted(l, d)'
                   PROVE  d \in T \/ \E i \in L.items : i.id = d
        BY <2>3, <2>4 DEF Covered
      <3>1. Wanted(l, d) /\ d # id
        BY <1>1, <2>3, <2>4 DEF Wanted, parsesAsAppName
      <3> QED BY <1>5, <3>1 DEF Covered
    <2> HIDE DEF r, F, L
    <2> QED
      BY <1>1, <1>4, <1>5, <2>2, <2>3, <2>5, OneListing
  <1> QED BY <1>2, <1>7, <1>8

(* The reply: every listed id is one the kubelet now knows.                *)
LEMMA ListReturnsInv ==
  ASSUME CInv, NEW l \in Listers, ListReturns(l)
  PROVE  CInv'
  <1>1. lister' = [lister EXCEPT ![l] = NoList] /\ UNCHANGED <<rktVars, apps, hostDirs, creator>>
    BY DEF ListReturns
  <1>2. /\ NoList \in ListerRecords /\ NoList.todo = {} /\ NoList.items = {}
        /\ NoList.whole = {}
    BY DEF NoList, ListerRecords
  <1>3. ASSUME NEW i \in lister[l].items
        PROVE  /\ [id |-> i.id, pod |-> i.pod, app |-> i.app] \in HandedRecords
               /\ i.id = <<i.pod, i.app>>
    <2>1. lister[l].items \in SUBSET Items
      BY DEF CInv, ContainerTypeOK, ListerRecords
    <2>2. i \in Items /\ ItemSound(i)
      BY <1>3, <2>1 DEF CInv, ListInv, ItemsSound
    <2> QED BY <2>2 DEF Items, HandedRecords, ItemSound
  <1>4. handed' \subseteq HandedRecords /\ HandedSound'
    <2> DEFINE H(i) == [id |-> i.id, pod |-> i.pod, app |-> i.app]
    <2>1. \A i \in lister[l].items : H(i) \in HandedRecords /\ H(i).id = <<H(i).pod, H(i).app>>
      BY <1>3
    <2>2. handed' = handed \cup {H(i) : i \in lister[l].items}
      BY DEF ListReturns
    <2> HIDE DEF H
    <2> QED BY <2>1, <2>2 DEF CInv, ContainerTypeOK, HandedSound
  <1>5. lister'[l] = NoList
    BY <1>1 DEF CInv, ContainerTypeOK
  <1>6. Covered(l)'
    BY <1>2, <1>5 DEF Covered
  <1> QED BY <1>1, <1>2, <1>4, <1>6, OneListing

----------------------------------------------------------------------------
(* The invariant.                                                          *)

(* Pods that run, odd apps, and no call.                                   *)
LEMMA CInvInit == ContainerInit => CInv
  <1> SUFFICES ASSUME ContainerInit PROVE CInv
    OBVIOUS
  <1>1. RktTypeOK
    BY RktAssumption DEF ContainerInit, RktTypeOK, PodStates, TmpStates
  <1>2. apps \in [UUIDs -> [Apps -> AppRecords]]
    <2>1. NoApp \in AppRecords /\ [NoApp EXCEPT !.st = "exited"] \in AppRecords
      BY DEF NoApp, AppRecords, AppStates
    <2> QED BY <2>1 DEF ContainerInit
  <1>3. /\ NoList \in ListerRecords /\ NoList.todo = {} /\ NoList.items = {}
        /\ NoList.whole = {}
    BY DEF NoList, ListerRecords
  <1>4. ContainerTypeOK /\ HandedSound
    BY <1>1, <1>2, <1>3, NoCreateIs DEF ContainerTypeOK, ContainerInit, HandedSound
  <1>5. \A l \in Listers : lister[l] = NoList
    BY DEF ContainerInit
  <1>6. TodoSound /\ ItemsSound /\ ItemsUnique /\ WholePresent /\ AllCovered
    BY <1>3, <1>5
    DEF TodoSound, ItemsSound, ItemsUnique, WholePresent, AllCovered, Covered
  <1>7. CreatesSound
    BY NoCreateIs DEF ContainerInit, CreatesSound, CreateSound
  <1>8. AnnotationsTell
    BY DEF ContainerInit, AnnotationsTell
  <1> QED BY <1>4, <1>6, <1>7, <1>8 DEF CInv, ListInv

(* Every step keeps the invariant, one case per operation.                 *)
LEMMA CInvNext == CInv /\ [ContainerNext]_ctrVars => CInv'
  <1> SUFFICES ASSUME CInv, [ContainerNext]_ctrVars PROVE CInv'
    OBVIOUS
  <1>1. ASSUME NEW k \in Creators, NEW r \in CreateRequests, CreateContainer(k, r)
        PROVE  CInv'
    BY <1>1, CreateInv
  <1>2. ASSUME NEW k \in Creators, NEW d \in Dirs, maybeCreateHostPathVolume(k, d)
        PROVE  CInv'
    BY <1>2, HostPathInv
  <1>3. ASSUME NEW k \in Creators, RunAppAdd(k) \/ CreateReplies(k) PROVE CInv'
    BY <1>3, RunAppAddInv, CreateRepliesInv
  <1>4. ASSUME NEW d \in Dirs, DirRemoved(d) PROVE CInv'
    BY <1>4, DirRemovedInv
  <1>5. ASSUME NEW id \in KnownIds \cup StrayIds, StartContainer(id) \/ StopContainer(id)
        PROVE  CInv'
    <2>1. id \in IdStrings /\ parseContainerID(id) # <<>>
      BY <1>5, RequestIds DEF StartContainer, StopContainer
    <2>2. parseContainerID(id)[1] \in UUIDs /\ parseContainerID(id)[2] \in Apps
      BY <2>1, ParseAny, IdParts
    <2>3. "running" \in AppStates \ {"none"} /\ "exited" \in AppStates \ {"none"}
      BY DEF AppStates
    <2> QED
      BY <1>5, <2>2, <2>3, AppMoves
      DEF StartContainer, StopContainer, Startable, Stoppable
  <1>6. ASSUME NEW id \in KnownIds \cup StrayIds, RemoveContainer(id) PROVE CInv'
    BY <1>6, RequestIds, RemoveContainerInv
  <1>7. ASSUME NEW id \in Ids, AppExits(id[1], id[2]) PROVE CInv'
    <2>1. id[1] \in UUIDs /\ id[2] \in Apps /\ "exited" \in AppStates \ {"none"}
      BY IdParts DEF AppStates
    <2> QED BY <1>7, <2>1, AppMoves DEF AppExits
  <1>8. ASSUME NEW u \in UUIDs, PodExits(u) \/ PodRemoved(u) PROVE CInv'
    BY <1>8, PodExitsInv, PodRemovedInv
  <1>9. ASSUME NEW l \in Listers, NEW f \in CtrFilters, ListContainers(l, f) PROVE CInv'
    BY <1>9, ListContainersInv
  <1>10. ASSUME NEW l \in Listers, AskContainerStatus(l) \/ ListReturns(l) PROVE CInv'
    BY <1>10, AskInv, ListReturnsInv
  <1>11. CASE UNCHANGED ctrVars
    <2>1. /\ UNCHANGED <<rktVars, apps, hostDirs, creator>>
          /\ UNCHANGED <<podAnno, handed, lister>>
      BY <1>11 DEF ctrVars, rktVars
    <2>2. ListInv'
      BY <2>1, NotListings, ListingsGoOn
    <2>3. ContainerTypeOK' /\ CreatesSound' /\ HandedSound'
      BY <2>1, NotListings DEF CInv, ContainerTypeOK, HandedSound
    <2> QED BY <2>2, <2>3 DEF CInv
  <1> QED
    BY <1>1, <1>2, <1>3, <1>4, <1>5, <1>6, <1>7, <1>8, <1>9, <1>10, <1>11
    DEF ContainerNext

(* The invariant holds for ever.                                           *)
LEMMA CInvAlways == ContainerSpec => []CInv
  BY CInvInit, CInvNext, PTL DEF ContainerSpec

----------------------------------------------------------------------------
(* The theorems.                                                           *)

(* The variables of the container service keep their types, and every id   *)
(* the kubelet gets from CreateContainer or ListContainers is a pod's UUID *)
(* with the name of an app.                                                *)
THEOREM ContainerTypes == ContainerSpec => []ContainerTypeOK
  <1>1. CInv => ContainerTypeOK
    BY DEF CInv
  <1> QED BY <1>1, CInvAlways, PTL

(* The reply of ListContainers is complete, for any number of listings     *)
(* next to any operations on the containers.                               *)
THEOREM ListingsComplete == ContainerSpec => []ListComplete
  <1>1. ASSUME CInv PROVE ListComplete
    <2> SUFFICES ASSUME NEW l \in Listers, Answered(l), lister[l].filter.st = "none",
                        NEW id \in lister[l].whole \ lister[l].failed,
                        parsesAsAppName(id[2]),
                        passFilter(toContainerStatus(id[1], id[2]), lister[l].filter)
                 PROVE  \E i \in lister[l].items : i.id = id
      BY DEF ListComplete
    <2>1. id \in Ids
      BY <1>1 DEF CInv, ContainerTypeOK, ListerRecords
    <2>2. Wanted(l, id)
      BY <2>1, PassIsWanted
    <2> QED BY <1>1, <2>2 DEF CInv, ListInv, AllCovered, Covered, Answered
  <1> QED BY <1>1, CInvAlways, PTL

(* A listing shows no container of somebody else's pod, none that the      *)
(* kubelet did not create, and each at most once.                          *)
THEOREM ListingsSound == ContainerSpec => []ListSound
  <1>1. CInv => ListSound
    BY ContainerAssumption
    DEF CInv, ListInv, ListSound, ItemsSound, ItemSound, ItemsUnique, parsesAsAppName
  <1> QED BY <1>1, CInvAlways, PTL

(* When CreateContainer runs rkt app add, every host path of the request's *)
(* mounts is there, but for those that somebody removed after the loop had *)
(* seen to them, whatever other calls and people do to the directories.    *)
THEOREM MountsExist == ContainerSpec => []MountsReady
  <1>1. CInv => MountsReady
    BY DEF CInv, CreatesSound, CreateSound, MountsReady
  <1> QED BY <1>1, CInvAlways, PTL

(* Of any number of CreateContainer calls, with names that are sanitized   *)
(* to the same, none answers with a container that another one made.       *)
THEOREM CreateOwn == ContainerSpec => []CreateReturnsOwn
  <1>1. CInv => CreateReturnsOwn
    BY DEF CInv, CreatesSound, CreateSound, OwnThere, CreateReturnsOwn
  <1> QED BY <1>1, CInvAlways, PTL

(* An id that was given out is split and sanitized back to the pod and the *)
(* app it was given out for, so that a start, stop or remove by it changes *)
(* no other container.                                                     *)
THEOREM RequestsHit == ContainerSpec => RequestHitsHandedOut
  <1> DEFINE Hit == \A u \in UUIDs, a \in Apps : apps'[u][a] # apps[u][a] =>
                      \A id \in KnownIds :
                        StartContainer(id) \/ StopContainer(id) \/ RemoveContainer(id)
                          => [id |-> id, pod |-> u, app |-> a] \in handed
  <1>1. ASSUME CInv PROVE Hit
    <2> SUFFICES ASSUME NEW u \in UUIDs, NEW a \in Apps, apps'[u][a] # apps[u][a],
                        NEW id \in KnownIds,
                        StartContainer(id) \/ StopContainer(id) \/ RemoveContainer(id)
                 PROVE  [id |-> id, pod |-> u, app |-> a] \in handed
      OBVIOUS
    <2>1. PICK h \in handed : h.id = id
      BY DEF KnownIds
    <2>2. /\ h.pod \in UUIDs /\ h.app \in Apps /\ id = <<h.pod, h.app>>
          /\ h = [id |-> id, pod |-> h.pod, app |-> h.app]
      BY <1>1, <2>1 DEF CInv, ContainerTypeOK, HandedRecords, HandedSound
    <2>3. parseContainerID(id)[1] = h.pod /\ parseContainerID(id)[2] = h.app
      BY <2>2, ParseBuilt
    <2>4. PICK r : SetApp(h.pod, h.app, r)
      BY <2>3 DEF StartContainer, StopContainer, RemoveContainer
    <2>5. u = h.pod /\ a = h.app
      BY <1>1, <2>2, <2>4 DEF SetApp, CInv, ContainerTypeOK
    <2> QED BY <2>1, <2>2, <2>5
  <1>2. CInv /\ [ContainerNext]_ctrVars => [Hit]_ctrVars
    BY <1>1
  <1> QED BY <1>2, CInvAlways, PTL DEF ContainerSpec, RequestHitsHandedOut

=============================================================================
