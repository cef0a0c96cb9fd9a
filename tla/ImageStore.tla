----------------------------- MODULE ImageStore -----------------------------
(***************************************************************************)
(* The CRI image service (rktlet/image/imagestore.go) and the image names  *)
(* of rktlet/util/image.go.  The images are in rkt's store, which several  *)
(* calls, the people who run rkt by hand and moving tags in the registry   *)
(* change at the same time: ListImages is one command for the list and one *)
(* for the manifest of every image, ImageStatus is a ListImages, and       *)
(* RemoveImage is an ImageStatus followed by one more command.             *)
(***************************************************************************)
EXTENDS Naturals, Sequences, SequencesExt

CONSTANTS
  Repos,      \* image repositories
  Versions,   \* contents that the tag "latest" of a repository can name
  NoImage,
  Requests,   \* image names in requests of the kubelet
  ByHand,     \* names that somebody fetches with rkt itself
  Plain,      \* contents of images that never had a name at a registry
  ImageCalls, \* concurrent gRPC calls
  MaxImages,  \* bound: images in the store
  ImgFaults   \* commands may fail for reasons of their own

(***************************************************************************)
(* A name is a reference, "docker://docker.io/library/busybox:latest" with *)
(* or without its "docker://", its domain and its tag, or the hash of an   *)
(* image.                                                                  *)
(***************************************************************************)
RefNames == [kind : {"ref"}, repo : Repos, docker : BOOLEAN, full : BOOLEAN,
             tag : {"none", "latest"}]

OrigNames == {n \in RefNames : ~n.docker}

(* The name that rkt image list prints for an image, which no request has. *)
RawName == [kind |-> "raw"]

(* rkt's image id is a hash of contents and manifest.  The name that was   *)
(* fetched is in the manifest (appc.io/docker/originalname), unless the    *)
(* image did not come from a docker registry.                              *)
ImageIds == [ver : Versions, orig : OrigNames \cup {RawName}]

HashNames == [kind : {"hash"}, id : ImageIds]

BadName == [kind |-> "error"]

ASSUME ImageAssumption ==
  /\ Requests \subseteq RefNames \cup HashNames
  /\ ByHand \subseteq OrigNames
  /\ Plain \subseteq Versions
  /\ NoImage \notin ImageIds
  /\ ImgFaults \in BOOLEAN
  /\ MaxImages \in Nat

VARIABLES
  store,     \* the images, by import time
  registry,  \* per repository, the contents that "latest" names now
  pulledAs,  \* history: per image of the store, the requests it was pulled for
  icall      \* per call: operation, program counter, locals and reply

imgVars == <<store, registry, pulledAs, icall>>

----------------------------------------------------------------------------
(* Names.                                                                  *)

(* A prefix is not part of a reference.  A reference without a tag comes   *)
(* back with its default domain as well as its default tag; one with a tag *)
(* comes back as it was.                                                   *)
MUT_ApplyDefaultImageTag(n) == n
ApplyDefaultImageTag(n) ==
  IF n.docker THEN BadName
  ELSE IF n.tag = "none" THEN [n EXCEPT !.full = TRUE, !.tag = "latest"]
  ELSE n

GetCanonicalImageName(n) ==
  IF n.kind = "hash" THEN n
  ELSE [ApplyDefaultImageTag([n EXCEPT !.docker = FALSE]) EXCEPT !.docker = TRUE]

(* What ImageStatus compares with.                                         *)
StatusName(n) == IF n.kind = "hash" THEN n ELSE ApplyDefaultImageTag(n)

getImageRealName(id) ==
  IF id.orig = RawName THEN RawName ELSE ApplyDefaultImageTag(id.orig)

----------------------------------------------------------------------------
(* rkt's store.                                                            *)

InStore(id) == id \in Range(store)

Import(id) ==
  \/ InStore(id) /\ UNCHANGED store
  \/ ~InStore(id) /\ Len(store) < MaxImages /\ store' = Append(store, id)

Matches(img, n) ==
  \/ n.kind = "hash" /\ img.id = n.id
  \/ img.tag = n

----------------------------------------------------------------------------
ImageOps == {"none", "List", "Status", "Remove"}

(* An image of a reply, under a name with a tag or the one rkt prints.     *)
ListedImages ==
  [id : ImageIds, tag : {RawName} \cup {n \in OrigNames : n.tag # "none"}]

(* whole   images of the list that have been in the store since            *)
(* failed  images whose manifest could not be read                         *)
ImageCallRecords ==
  [op : ImageOps, pc : {"idle", "list", "manifest", "rm"},
   req : Requests \cup {BadName}, todo : Seq(ImageIds),
   images : Seq(ListedImages), id : ImageIds \cup {NoImage},
   ret : {"none", "ok", "err", "absent"},
   whole : SUBSET ImageIds, failed : SUBSET ImageIds]

NoImageCall == [op |-> "none", pc |-> "idle", req |-> BadName, todo |-> <<>>,
                images |-> <<>>, id |-> NoImage, ret |-> "none",
                whole |-> {}, failed |-> {}]

ImageInit ==
  /\ store = <<>>
  /\ registry \in [Repos -> Versions]
  /\ pulledAs = [id \in ImageIds |-> {}]
  /\ icall = [c \in ImageCalls |-> NoImageCall]

(* The locals of a call end with it; of the reply only its kind matters.   *)
Answer(r) == [NoImageCall EXCEPT !.ret = r]

Reply(c, r) == icall' = [icall EXCEPT ![c] = Answer(r)]

(* The image at a position of the store, where each is but once, goes.     *)
Unstore(i) ==
  /\ store' = RemoveAt(store, i)
  /\ pulledAs' = [pulledAs EXCEPT ![store[i]] = {}]

(* An image has left the store: no call saw it there all along.            *)
WithoutWhole(id) == [c \in ImageCalls |-> [icall[c] EXCEPT !.whole = @ \ {id}]]

----------------------------------------------------------------------------
(* PullImage: one rkt image fetch, whose last line is the id.              *)

Fetched(n) == [ver |-> registry[n.repo], orig |-> [n EXCEPT !.docker = FALSE]]

PullImage(c, n) ==
  LET name == GetCanonicalImageName(n)
      id == IF name.kind = "hash" THEN name.id ELSE Fetched(name) IN
  /\ icall[c].pc = "idle"
  /\ UNCHANGED registry
  /\ \/ /\ name.kind = "hash" => InStore(id)
        /\ Import(id)
        /\ pulledAs' = [pulledAs EXCEPT ![id] = @ \cup {n}]
        /\ Reply(c, "ok")
     \/ /\ ImgFaults
        /\ name.kind = "ref" /\ Import(id)
        /\ Reply(c, "err")
        /\ UNCHANGED pulledAs
     \/ /\ ImgFaults \/ (name.kind = "hash" /\ ~InStore(id))
        /\ Reply(c, "err")
        /\ UNCHANGED <<store, pulledAs>>

----------------------------------------------------------------------------
(* ListImages, ImageStatus, RemoveImage.                                   *)

BeginImageCall(c, op, n) ==
  /\ icall[c].pc = "idle"
  /\ icall' = [icall EXCEPT ![c] =
       [NoImageCall EXCEPT !.op = op, !.pc = "list", !.req = n]]
  /\ UNCHANGED <<store, registry, pulledAs>>

(* req is the name in the filter, BadName without one.                     *)
ListImages(c, n) == BeginImageCall(c, "List", n)

ImageStatus(c, n) == BeginImageCall(c, "Status", n)

RemoveImage(c, n) == BeginImageCall(c, "Remove", n)

(* rkt image list --sort=importtime.                                       *)
RktImageList(c) ==
  /\ icall[c].pc = "list"
  /\ UNCHANGED <<store, registry, pulledAs>>
  /\ \/ icall' = [icall EXCEPT ![c].pc = "manifest", ![c].todo = store,
                               ![c].whole = Range(store)]
     \/ ImgFaults /\ Reply(c, "err")

(* rkt image cat-manifest.  Without a manifest the image is listed under   *)
(* the name that rkt prints.                                               *)
passFilter(c, img) ==
  \/ icall[c].op # "List" \/ icall[c].req = BadName
  \/ img.tag = icall[c].req

MUT_Listed(c, img) == Append(icall[c].images, [img EXCEPT !.tag = RawName])
Listed(c, img) ==
  IF passFilter(c, img) THEN Append(icall[c].images, img) ELSE icall[c].images

GetImageManifest(c) ==
  LET id == Head(icall[c].todo) IN
  /\ icall[c].pc = "manifest" /\ icall[c].todo # <<>>
  /\ UNCHANGED <<store, registry, pulledAs>>
  /\ \/ /\ InStore(id)
        /\ icall' = [icall EXCEPT ![c].todo = Tail(@),
             ![c].images = Listed(c, [id |-> id, tag |-> getImageRealName(id)])]
     \/ /\ ImgFaults \/ ~InStore(id)
        /\ icall' = [icall EXCEPT ![c].todo = Tail(@),
             ![c].failed = @ \cup {id},
             ![c].images = Listed(c, [id |-> id, tag |-> RawName])]

(* ImageStatus answers with the first image that matches.                  *)
Found(c) == {i \in DOMAIN icall[c].images :
               Matches(icall[c].images[i], StatusName(icall[c].req))}

FirstFound(c) == {i \in Found(c) : \A j \in Found(c) : i <= j}

StatusKnown(c) ==
  /\ icall[c].pc = "manifest" /\ icall[c].todo = <<>>
  /\ UNCHANGED <<store, registry, pulledAs>>
  /\ \/ /\ icall[c].op = "List"
        /\ Reply(c, "ok")
     \/ /\ icall[c].op # "List"
        /\ StatusName(icall[c].req) = BadName
        /\ Reply(c, "err")
     \/ /\ icall[c].op # "List"
        /\ StatusName(icall[c].req) # BadName
        /\ Found(c) = {}
        /\ Reply(c, IF icall[c].op = "Status" THEN "absent" ELSE "err")
     \/ /\ icall[c].op = "Status"
        /\ StatusName(icall[c].req) # BadName
        /\ Found(c) # {}
        /\ Reply(c, "ok")
     \/ /\ icall[c].op = "Remove"
        /\ StatusName(icall[c].req) # BadName
        /\ \E i \in FirstFound(c) :
             icall' = [icall EXCEPT ![c].pc = "rm", ![c].id = icall[c].images[i].id]

(* rkt image rm of the id, which somebody else may have removed by now.    *)
MUT_RmTargets(c) ==
  {i \in DOMAIN store : getImageRealName(store[i]) = getImageRealName(icall[c].id)}
RmTargets(c) == {i \in DOMAIN store : store[i] = icall[c].id}

RktImageRm(c) ==
  /\ icall[c].pc = "rm"
  /\ UNCHANGED registry
  /\ \/ \E i \in RmTargets(c) :
          /\ Unstore(i)
          /\ \E r \in {"ok"} \cup (IF ImgFaults THEN {"err"} ELSE {}) :
               icall' = [WithoutWhole(store[i]) EXCEPT ![c] = Answer(r)]
     \/ /\ ImgFaults \/ RmTargets(c) = {}
        /\ Reply(c, "err")
        /\ UNCHANGED <<store, pulledAs>>

----------------------------------------------------------------------------
(* Others: rkt fetch and rkt image rm by hand, and a push to the registry. *)
(* An image fetched from a file has no name of a registry.                 *)

FetchByHand(n) ==
  /\ Import(Fetched(n))
  /\ UNCHANGED <<registry, pulledAs, icall>>

FetchFile(v) ==
  /\ Import([ver |-> v, orig |-> RawName])
  /\ UNCHANGED <<registry, pulledAs, icall>>

RemoveByHand(i) ==
  /\ Unstore(i)
  /\ icall' = WithoutWhole(store[i])
  /\ UNCHANGED registry

Push(r, v) ==
  /\ registry' = [registry EXCEPT ![r] = v]
  /\ UNCHANGED <<store, pulledAs, icall>>

----------------------------------------------------------------------------
ImageHandler(c) ==
  \/ RktImageList(c) \/ GetImageManifest(c) \/ StatusKnown(c) \/ RktImageRm(c)

ImageNext ==
  \/ \E c \in ImageCalls :
       \/ ImageHandler(c)
       \/ \E n \in Requests \cup {BadName} : ListImages(c, n)
       \/ \E n \in Requests : PullImage(c, n) \/ ImageStatus(c, n) \/ RemoveImage(c, n)
  \/ \E n \in ByHand : FetchByHand(n)
  \/ \E v \in Plain : FetchFile(v)
  \/ \E i \in DOMAIN store : RemoveByHand(i)
  \/ \E r \in Repos, v \in Versions : Push(r, v)

ImageSpec == ImageInit /\ [][ImageNext]_imgVars

----------------------------------------------------------------------------
(* Properties.                                                             *)

(* The variables have their types; every name in a reply has a tag or is   *)
(* the one that rkt prints.                                                *)
ImageTypeOK ==
  /\ store \in Seq(ImageIds)
  /\ registry \in [Repos -> Versions]
  /\ pulledAs \in [ImageIds -> SUBSET Requests]
  /\ icall \in [ImageCalls -> ImageCallRecords]

(* Independently of how names are normalised: the image is what was asked. *)
IsOf(id, n) ==
  IF n.kind = "hash" THEN id = n.id
  ELSE id.orig # RawName /\ id.orig.repo = n.repo

(* The ids of the list that the call got from rkt.                         *)
ListedIds(c) == {img.id : img \in Range(icall[c].images)}

(* ImageStatus never says that an image is absent when PullImage got it    *)
(* under the same name, it has been in the store ever since the list began *)
(* and its manifest could be read: the name on the pull, in the manifest,  *)
(* in the list and in the query are normalised alike, and images that come *)
(* and go meanwhile do not hide it.                                        *)
StatusFindsPulled ==
  [][\A c \in ImageCalls :
       /\ icall[c].op = "Status" /\ icall[c].pc = "manifest"
       /\ icall'[c].pc = "idle" /\ icall'[c].ret = "absent"
       => \A id \in icall[c].whole \ icall[c].failed :
            icall[c].req \notin pulledAs[id]]_imgVars

(* What a RemoveImage removes is at most one image, one of the request it  *)
(* was called with, and one that its own list has shown: an image that was *)
(* pulled or fetched under the same name after the list stays, even if the *)
(* listed one is gone by the time of the rm.                               *)
RemovesOneRequested ==
  [][\A c \in ImageCalls :
       icall[c].pc = "rm" /\ icall'[c].pc = "idle" =>
         LET removed == Range(store) \ Range(store') IN
         /\ \A id, other \in removed : id = other
         /\ \A id \in removed : IsOf(id, icall[c].req) /\ id \in ListedIds(c)]_imgVars

----------------------------------------------------------------------------
(* What a comment says and the code does not do.                           *)

(* An image fetched by hand without a tag is found under the name with the *)
(* tag that the kubelet uses, says the comment in getImageRealName.        *)
UntaggedFetchFound ==
  [][\A c \in ImageCalls :
       /\ icall[c].op = "Status" /\ icall[c].pc = "manifest"
       /\ icall'[c].pc = "idle" /\ icall'[c].ret = "absent"
       => \A id \in icall[c].whole \ icall[c].failed :
            \/ id.orig = RawName \/ id.orig.tag # "none"
            \/ [id.orig EXCEPT !.tag = "latest"] # icall[c].req]_imgVars

=============================================================================
