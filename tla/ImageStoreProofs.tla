-------------------------- MODULE ImageStoreProofs --------------------------
(***************************************************************************)
(* Proofs about the image service (module ImageStore), for any number of   *)
(* repositories, contents, requests and concurrent calls.                  *)
(***************************************************************************)
EXTENDS ImageStore, SequenceTheorems, TLAPS

(* An image as the list has it when its manifest was read.                 *)
Named(id) == [id |-> id, tag |-> getImageRealName(id)]

(* rkt keeps an image once.                                                *)
StoredOnce == \A i, j \in DOMAIN store : store[i] = store[j] => i = j

(* The name that was pulled, normalised for the fetch, and the name in the *)
(* manifest, normalised for the list, meet in the query.                   *)
PulledMatches ==
  \A id \in ImageIds : \A n \in pulledAs[id] :
    StatusName(n) = BadName \/ Matches(Named(id), StatusName(n))

(* Of a call: an image of the list, in the store ever since, is still to   *)
(* be looked at or is among the images under its real name.                *)
WholeListed(r) ==
  r.pc = "manifest" /\ r.op # "List" =>
    \A id \in r.whole \ r.failed :
      id \in Range(r.todo) \/ Named(id) \in Range(r.images)

(* An image is listed under its own name or the one that rkt prints.       *)
OwnNames(r) ==
  \A img \in Range(r.images) : img.tag \in {RawName, getImageRealName(img.id)}

(* Status and Remove have a request, and the image that RemoveImage is     *)
(* about to remove is of its request and of its list.                      *)
RmRequested(r) ==
  /\ r.op \in {"Status", "Remove"} => r.req \in Requests
  /\ r.pc # "idle" => r.op # "none"
  /\ r.pc = "rm" => /\ r.op = "Remove" /\ r.id \in ImageIds /\ IsOf(r.id, r.req)
                     /\ \E img \in Range(r.images) : img.id = r.id

CallInv(r) ==
  /\ r \in ImageCallRecords
  /\ WholeListed(r)
  /\ OwnNames(r)
  /\ RmRequested(r)

StoreInv == store \in Seq(ImageIds) /\ StoredOnce

PulledInv == pulledAs \in [ImageIds -> SUBSET Requests] /\ PulledMatches

CallsInv ==
  /\ icall \in [ImageCalls -> ImageCallRecords]
  /\ \A c \in ImageCalls : CallInv(icall[c])

(* The inductive invariant.                                                *)
ImageInv ==
  /\ StoreInv
  /\ registry \in [Repos -> Versions]
  /\ PulledInv
  /\ CallsInv

----------------------------------------------------------------------------
(* Names.                                                                  *)

(* A reference without "docker://" comes out with a tag, of the same       *)
(* repository, and normalising it again changes nothing.                   *)
LEMMA DefaultTag ==
  ASSUME NEW n \in OrigNames
  PROVE  /\ ApplyDefaultImageTag(n) \in {m \in OrigNames : m.tag # "none"}
         /\ ApplyDefaultImageTag(n).repo = n.repo
         /\ ApplyDefaultImageTag(n).kind = "ref"
         /\ ApplyDefaultImageTag(ApplyDefaultImageTag(n)) = ApplyDefaultImageTag(n)
  BY DEF ApplyDefaultImageTag, OrigNames, RefNames

(* What is fetched for a reference is the reference that the query         *)
(* normalises to, unless the query is refused.                             *)
LEMMA CanonicalName ==
  ASSUME NEW n \in RefNames
  PROVE  /\ GetCanonicalImageName(n).kind = "ref"
         /\ GetCanonicalImageName(n).repo \in Repos
         /\ [GetCanonicalImageName(n) EXCEPT !.docker = FALSE] \in OrigNames
         /\ \/ StatusName(n) = BadName
            \/ /\ StatusName(n) = [GetCanonicalImageName(n) EXCEPT !.docker = FALSE]
               /\ ApplyDefaultImageTag(StatusName(n)) = StatusName(n)
  <1> DEFINE m == [n EXCEPT !.docker = FALSE]
  <1>1. m \in OrigNames /\ n.kind = "ref" /\ (~n.docker => m = n)
    BY DEF OrigNames, RefNames
  <1> HIDE DEF m
  <1> DEFINE d == ApplyDefaultImageTag(m)
  <1>2. d \in OrigNames /\ ApplyDefaultImageTag(d) = d
    BY <1>1, DefaultTag
  <1> HIDE DEF d
  <1>3. /\ [d EXCEPT !.docker = TRUE].kind = "ref"
        /\ [d EXCEPT !.docker = TRUE].repo \in Repos
        /\ [[d EXCEPT !.docker = TRUE] EXCEPT !.docker = FALSE] = d
    BY <1>2 DEF OrigNames, RefNames
  <1>4. GetCanonicalImageName(n) = [d EXCEPT !.docker = TRUE]
    BY <1>1 DEF GetCanonicalImageName, d, m
  <1>5. n.docker => StatusName(n) = BadName
    BY <1>1 DEF StatusName, ApplyDefaultImageTag
  <1>6. ~n.docker => StatusName(n) = d
    BY <1>1 DEF StatusName, d
  <1> QED BY <1>2, <1>3, <1>4, <1>5, <1>6

(* An image in the list has a listed name.                                 *)
LEMMA NamedListed ==
  ASSUME NEW id \in ImageIds
  PROVE  /\ Named(id) \in ListedImages
         /\ [id |-> id, tag |-> RawName] \in ListedImages
  <1>1. id.orig \in OrigNames \cup {RawName}
    BY DEF ImageIds
  <1>2. getImageRealName(id) \in {RawName} \cup {m \in OrigNames : m.tag # "none"}
    BY <1>1, DefaultTag DEF getImageRealName
  <1> QED BY <1>2 DEF Named, ListedImages

(* An image that the query matches is of the request: by its id, or by the *)
(* repository of its own name.                                             *)
LEMMA MatchIsRequested ==
  ASSUME NEW img \in ListedImages, NEW n \in Requests,
         img.tag \in {RawName, getImageRealName(img.id)},
         StatusName(n) # BadName, Matches(img, StatusName(n))
  PROVE  img.id \in ImageIds /\ IsOf(img.id, n)
  <1>1. img.id \in ImageIds /\ img.id.orig \in OrigNames \cup {RawName}
    BY DEF ListedImages, ImageIds
  <1>2. \/ getImageRealName(img.id) = RawName
        \/ /\ img.id.orig # RawName
           /\ getImageRealName(img.id).kind = "ref"
           /\ getImageRealName(img.id).repo = img.id.orig.repo
    BY <1>1, DefaultTag DEF getImageRealName
  <1>3. RawName.kind = "raw"
    BY DEF RawName
  <1>4. CASE n \in HashNames
    <2>1. n.kind = "hash" /\ StatusName(n) = n
      BY <1>4 DEF HashNames, StatusName
    <2>2. img.id = n.id
      BY <1>2, <1>3, <2>1 DEF Matches
    <2> QED BY <1>1, <2>1, <2>2 DEF IsOf
  <1>5. CASE n \in RefNames
    <2>1. n.kind = "ref" /\ StatusName(n) = ApplyDefaultImageTag(n)
      BY <1>5 DEF RefNames, StatusName
    <2>2. n \in OrigNames
      BY <1>5, <2>1 DEF OrigNames, RefNames, ApplyDefaultImageTag
    <2>3. StatusName(n).kind = "ref" /\ StatusName(n).repo = n.repo
      BY <2>1, <2>2, DefaultTag
    <2>4. img.tag = StatusName(n)
      BY <2>3 DEF Matches
    <2> QED BY <1>1, <1>2, <1>3, <2>1, <2>3, <2>4 DEF IsOf
  <1> QED BY <1>4, <1>5, ImageAssumption

----------------------------------------------------------------------------
(* Sequences.                                                              *)

(* The elements of an extended sequence.                                   *)
LEMMA RangeAppend ==
  ASSUME NEW S, NEW s \in Seq(S), NEW e \in S
  PROVE  Append(s, e) \in Seq(S) /\ Range(Append(s, e)) = Range(s) \cup {e}
  BY AppendProperties, LenProperties DEF Range

(* The elements of a sequence are its head and those of its tail.          *)
LEMMA RangeTail ==
  ASSUME NEW S, NEW s \in Seq(S), s # <<>>
  PROVE  /\ Head(s) \in S /\ Tail(s) \in Seq(S)
         /\ Range(s) = {Head(s)} \cup Range(Tail(s))
  <1>1. /\ Head(s) \in S /\ Tail(s) \in Seq(S) /\ Len(Tail(s)) = Len(s) - 1
        /\ \A i \in 1 .. Len(Tail(s)) : Tail(s)[i] = s[i + 1]
    BY HeadTailProperties
  <1>2. /\ Len(s) \in Nat \ {0} /\ DOMAIN s = 1 .. Len(s)
        /\ DOMAIN Tail(s) = 1 .. (Len(s) - 1)
    BY <1>1, LenProperties, EmptySeq
  <1>3. Head(s) = s[1]
    OBVIOUS
  <1>4. Range(s) \subseteq {Head(s)} \cup Range(Tail(s))
    <2>1. SUFFICES ASSUME NEW i \in DOMAIN s, i # 1
                   PROVE  s[i] \in Range(Tail(s))
      BY <1>3 DEF Range
    <2>2. i - 1 \in DOMAIN Tail(s) /\ Tail(s)[i - 1] = s[i]
      BY <1>1, <1>2, <2>1
    <2> QED BY <2>2 DEF Range
  <1>5. {Head(s)} \cup Range(Tail(s)) \subseteq Range(s)
    <2>1. \A i \in DOMAIN Tail(s) : i + 1 \in DOMAIN s /\ Tail(s)[i] = s[i + 1]
      BY <1>1, <1>2
    <2>2. 1 \in DOMAIN s
      BY <1>2
    <2> QED BY <1>3, <2>1, <2>2 DEF Range
  <1> QED BY <1>1, <1>4, <1>5

(* Without one position a sequence keeps all its other elements, in their  *)
(* order.                                                                  *)
LEMMA RemoveAtPosition ==
  ASSUME NEW S, NEW s \in Seq(S), NEW i \in DOMAIN s
  PROVE  /\ RemoveAt(s, i) \in Seq(S)
         /\ DOMAIN RemoveAt(s, i) = 1 .. (Len(s) - 1)
         /\ \A j \in 1 .. (Len(s) - 1) :
              RemoveAt(s, i)[j] = IF j < i THEN s[j] ELSE s[j + 1]
  <1> DEFINE a == SubSeq(s, 1, i - 1)
             b == SubSeq(s, i + 1, Len(s))
  <1>1. Len(s) \in Nat /\ DOMAIN s = 1 .. Len(s) /\ i \in 1 .. Len(s)
        /\ \A j \in 1 .. Len(s) : s[j] \in S
    BY LenProperties, ElementOfSeq
  <1>2. a \in Seq(S) /\ Len(a) = i - 1 /\ \A j \in 1 .. (i - 1) : a[j] = s[j]
    BY <1>1, SubSeqProperties
  <1>3. b \in Seq(S) /\ Len(b) = Len(s) - i /\ \A j \in 1 .. (Len(s) - i) : b[j] = s[i + j]
    BY <1>1, SubSeqProperties
  <1> HIDE DEF a, b
  <1>4. /\ a \o b \in Seq(S) /\ Len(a \o b) = Len(s) - 1
        /\ \A j \in 1 .. (Len(s) - 1) :
             (a \o b)[j] = IF j <= i - 1 THEN a[j] ELSE b[j - (i - 1)]
    <2>1. /\ a \o b \in Seq(S) /\ Len(a \o b) = Len(a) + Len(b)
          /\ \A j \in 1 .. Len(a) + Len(b) :
               (a \o b)[j] = IF j <= Len(a) THEN a[j] ELSE b[j - Len(a)]
      BY <1>2, <1>3, ConcatProperties
    <2>2. Len(a) = i - 1 /\ Len(a) + Len(b) = Len(s) - 1
      BY <1>1, <1>2, <1>3
    <2> QED BY <2>1, <2>2
  <1>5. DOMAIN (a \o b) = 1 .. (Len(s) - 1)
    BY <1>4, LenProperties
  <1>6. \A j \in 1 .. (Len(s) - 1) : (a \o b)[j] = IF j < i THEN s[j] ELSE s[j + 1]
    <2> SUFFICES ASSUME NEW j \in 1 .. (Len(s) - 1)
                 PROVE  (a \o b)[j] = IF j < i THEN s[j] ELSE s[j + 1]
      OBVIOUS
    <2>1. CASE j < i
      BY <1>1, <1>2, <1>4, <2>1
    <2>2. CASE ~(j < i)
      <3> DEFINE k == j - (i - 1)
      <3>1. k \in 1 .. (Len(s) - i) /\ i + k = j + 1 /\ ~(j <= i - 1)
        BY <1>1, <2>2
      <3>2. b[k] = s[i + k] /\ (a \o b)[j] = b[k]
        BY <1>3, <1>4, <3>1
      <3> QED BY <2>2, <3>1, <3>2
    <2> QED BY <2>1, <2>2
  <1> QED BY <1>4, <1>5, <1>6 DEF RemoveAt, a, b

----------------------------------------------------------------------------
(* The store.                                                              *)

(* An import adds an image that was not there.                             *)
LEMMA ImportInv ==
  ASSUME StoreInv, NEW id \in ImageIds, Import(id)
  PROVE  StoreInv'
  <1>1. CASE UNCHANGED store
    BY <1>1 DEF StoreInv, StoredOnce
  <1>2. CASE ~InStore(id) /\ store' = Append(store, id)
    <2>1. /\ Len(store) \in Nat /\ DOMAIN store = 1 .. Len(store)
          /\ store' \in Seq(ImageIds) /\ DOMAIN store' = 1 .. (Len(store) + 1)
          /\ \A i \in 1 .. Len(store) : store'[i] = store[i]
          /\ store'[Len(store) + 1] = id
      BY <1>2, LenProperties, AppendProperties DEF StoreInv
    <2>2. \A i \in 1 .. Len(store) : store[i] # id
      BY <1>2, <2>1 DEF InStore, Range
    <2>3. \A i \in 1 .. (Len(store) + 1) : i \in 1 .. Len(store) \/ i = Len(store) + 1
      BY <2>1
    <2>4. \A i, j \in 1 .. Len(store) : store[i] = store[j] => i = j
      BY <2>1 DEF StoreInv, StoredOnce
    <2>5. \A i, j \in 1 .. (Len(store) + 1) : store'[i] = store'[j] => i = j
      BY <2>1, <2>2, <2>3, <2>4
    <2> QED BY <2>1, <2>5 DEF StoreInv, StoredOnce
  <1> QED BY <1>1, <1>2 DEF Import

(* What Unstore leaves: all other images, and the names they were pulled   *)
(* under.                                                                  *)
LEMMA UnstoreInv ==
  ASSUME StoreInv, PulledInv, NEW i \in DOMAIN store, Unstore(i)
  PROVE  StoreInv' /\ PulledInv' /\ Range(store) \ Range(store') \subseteq {store[i]}
  <1>1. /\ store \in Seq(ImageIds) /\ Len(store) \in Nat /\ DOMAIN store = 1 .. Len(store)
        /\ store[i] \in ImageIds
    BY LenProperties, ElementOfSeq DEF StoreInv
  <1> DEFINE n == Len(store) - 1
  <1>2. /\ store' \in Seq(ImageIds) /\ DOMAIN store' = 1 .. n
        /\ \A j \in 1 .. n : store'[j] = IF j < i THEN store[j] ELSE store[j + 1]
    BY <1>1, RemoveAtPosition DEF Unstore
  <1>3. StoredOnce'
    <2>1. SUFFICES ASSUME NEW j \in 1 .. n, NEW k \in 1 .. n, store'[j] = store'[k]
                   PROVE  j = k
      BY <1>2 DEF StoredOnce
    <2> DEFINE u(x) == IF x < i THEN x ELSE x + 1
    <2>2. /\ u(j) \in DOMAIN store /\ u(k) \in DOMAIN store
          /\ store'[j] = store[u(j)] /\ store'[k] = store[u(k)]
          /\ (u(j) = u(k) => j = k)
      BY <1>1, <1>2
    <2> HIDE DEF u
    <2> QED BY <2>1, <2>2 DEF StoreInv, StoredOnce
  <1>4. Range(store) \ Range(store') \subseteq {store[i]}
    <2>1. SUFFICES ASSUME NEW j \in DOMAIN store, j # i
                   PROVE  store[j] \in Range(store')
      BY DEF Range
    <2>2. \E k \in 1 .. n : store'[k] = store[j]
      <3>1. CASE j < i
        BY <1>1, <1>2, <3>1
      <3>2. CASE j > i
        <4>1. j - 1 \in 1 .. n /\ ~(j - 1 < i) /\ (j - 1) + 1 = j
          BY <1>1, <3>2
        <4> QED BY <1>2, <4>1
      <3> QED BY <1>1, <2>1, <3>1, <3>2
    <2> QED BY <1>2, <2>2 DEF Range
  <1>5. PulledInv'
    <2>1. pulledAs' = [pulledAs EXCEPT ![store[i]] = {}]
      BY DEF Unstore
    <2>2. \A id \in ImageIds : pulledAs'[id] \subseteq pulledAs[id]
      BY <2>1 DEF PulledInv
    <2> QED BY <2>1, <2>2 DEF PulledInv, PulledMatches
  <1> QED BY <1>2, <1>3, <1>4, <1>5 DEF StoreInv

(* An image pulled for a request answers to it.                            *)
LEMMA PulledForInv ==
  ASSUME PulledInv, NEW id \in ImageIds, NEW n \in Requests,
         StatusName(n) = BadName \/ Matches(Named(id), StatusName(n)),
         pulledAs' = [pulledAs EXCEPT ![id] = @ \cup {n}]
  PROVE  PulledInv'
  <1>1. pulledAs' \in [ImageIds -> SUBSET Requests]
    BY DEF PulledInv
  <1>2. \A i \in ImageIds : \A m \in pulledAs'[i] : m \in pulledAs[i] \/ (i = id /\ m = n)
    BY DEF PulledInv
  <1> QED BY <1>1, <1>2 DEF PulledInv, PulledMatches

----------------------------------------------------------------------------
(* The calls.                                                              *)

(* A call whose new record is as the invariant wants it.                   *)
LEMMA CallStep ==
  ASSUME CallsInv, NEW c \in ImageCalls, NEW r, CallInv(r),
         icall' = [icall EXCEPT ![c] = r]
  PROVE  CallsInv'
  <1>1. r \in ImageCallRecords
    BY DEF CallInv
  <1>2. icall' \in [ImageCalls -> ImageCallRecords]
    BY <1>1 DEF CallsInv
  <1>3. \A d \in ImageCalls : icall'[d] = IF d = c THEN r ELSE icall[d]
    BY DEF CallsInv
  <1>4. \A d \in ImageCalls : CallInv(icall'[d])
    BY <1>3 DEF CallsInv
  <1> QED BY <1>2, <1>4 DEF CallsInv

(* The empty record's fields.                                              *)
LEMMA NoImageCallInv ==
  /\ NoImageCall \in ImageCallRecords
  /\ NoImageCall.pc = "idle" /\ NoImageCall.op = "none" /\ NoImageCall.req = BadName
  /\ NoImageCall.images = <<>> /\ Range(<<>>) = {}
  <1>1. <<>> \in Seq(ImageIds) /\ <<>> \in Seq(ListedImages)
    BY EmptySeq
  <1>2. Range(<<>>) = {}
    BY DEF Range
  <1> QED BY <1>1, <1>2 DEF NoImageCall, ImageCallRecords, ImageOps

(* The record of a call that has answered.                                 *)
LEMMA AnswerInv ==
  ASSUME NEW ret \in {"none", "ok", "err", "absent"}
  PROVE  CallInv(Answer(ret)) /\ Answer(ret).pc = "idle" /\ Answer(ret).ret = ret
  <1> DEFINE q == Answer(ret)
  <1>1. /\ q \in ImageCallRecords /\ q.ret = ret /\ q.pc = "idle" /\ q.op = "none"
        /\ q.images = <<>>
    BY NoImageCallInv DEF Answer, ImageCallRecords
  <1> HIDE DEF q
  <1>2. CallInv(q)
    BY <1>1, NoImageCallInv DEF CallInv, WholeListed, OwnNames, RmRequested
  <1> QED BY <1>1, <1>2 DEF q

(* A call that answers has no locals left.                                 *)
LEMMA ReplyInv ==
  ASSUME CallsInv, NEW c \in ImageCalls, NEW ret \in {"none", "ok", "err", "absent"},
         Reply(c, ret)
  PROVE  CallsInv'
  BY AnswerInv, CallStep DEF Reply

(* An image that leaves the store leaves no call wrong.                    *)
LEMMA WithoutWholeInv ==
  ASSUME CallsInv, NEW id
  PROVE  /\ WithoutWhole(id) \in [ImageCalls -> ImageCallRecords]
         /\ \A c \in ImageCalls : CallInv(WithoutWhole(id)[c])
  <1>1. ASSUME NEW c \in ImageCalls
        PROVE  CallInv([icall[c] EXCEPT !.whole = @ \ {id}])
    <2> DEFINE r == icall[c]
               w == r.whole \ {id}
               q == [r EXCEPT !.whole = w]
    <2>1. CallInv(r) /\ r \in ImageCallRecords
      BY DEF CallsInv
    <2> HIDE DEF r
    <2>2. w \in SUBSET ImageIds /\ w \subseteq r.whole
      BY <2>1 DEF ImageCallRecords
    <2> HIDE DEF w
    <2>3. q \in ImageCallRecords
      BY <2>1, <2>2 DEF ImageCallRecords
    <2>4. /\ q.whole = w /\ q.op = r.op /\ q.pc = r.pc /\ q.req = r.req /\ q.todo = r.todo
          /\ q.images = r.images /\ q.id = r.id /\ q.failed = r.failed
      BY <2>1 DEF ImageCallRecords
    <2> HIDE DEF q
    <2>5. CallInv(q)
      BY <2>1, <2>2, <2>3, <2>4 DEF CallInv, WholeListed, OwnNames, RmRequested
    <2> QED BY <2>5 DEF q, w, r
  <1>2. ASSUME NEW c \in ImageCalls
        PROVE  [icall[c] EXCEPT !.whole = @ \ {id}] \in ImageCallRecords
    BY <1>1 DEF CallInv
  <1>3. \A c \in ImageCalls : WithoutWhole(id)[c] = [icall[c] EXCEPT !.whole = @ \ {id}]
    BY DEF WithoutWhole
  <1>4. WithoutWhole(id) \in [ImageCalls -> ImageCallRecords]
    BY <1>2 DEF WithoutWhole
  <1> QED BY <1>1, <1>3, <1>4

----------------------------------------------------------------------------
(* The operations.                                                         *)

(* PullImage: what was fetched for a request answers to the request.       *)
LEMMA PullImageInv ==
  ASSUME ImageInv, NEW c \in ImageCalls, NEW n \in Requests, PullImage(c, n)
  PROVE  ImageInv'
  <1> DEFINE name == GetCanonicalImageName(n)
             id == IF name.kind = "hash" THEN name.id ELSE Fetched(name)
  <1>1. id \in ImageIds /\ (StatusName(n) = BadName \/ Matches(Named(id), StatusName(n)))
    <2>1. CASE n \in HashNames
      <3>1. n.kind = "hash" /\ n.id \in ImageIds /\ name = n /\ StatusName(n) = n
        BY <2>1 DEF HashNames, GetCanonicalImageName, StatusName
      <3> HIDE DEF name
      <3>2. id = n.id
        BY <3>1
      <3> HIDE DEF id
      <3> QED BY <3>1, <3>2 DEF Matches, Named
    <2>2. CASE n \in RefNames
      <3>1. /\ name.kind = "ref" /\ name.repo \in Repos
            /\ [name EXCEPT !.docker = FALSE] \in OrigNames
            /\ \/ StatusName(n) = BadName
               \/ /\ StatusName(n) = [name EXCEPT !.docker = FALSE]
                  /\ ApplyDefaultImageTag(StatusName(n)) = StatusName(n)
        BY <2>2, CanonicalName
      <3> HIDE DEF name
      <3>2. id = [ver |-> registry[name.repo], orig |-> [name EXCEPT !.docker = FALSE]]
        BY <3>1 DEF Fetched
      <3> HIDE DEF id
      <3>3. id \in ImageIds /\ id.orig = [name EXCEPT !.docker = FALSE]
        BY <3>1, <3>2 DEF ImageInv, ImageIds
      <3>4. StatusName(n) = BadName \/ getImageRealName(id) = StatusName(n)
        BY <3>1, <3>3 DEF getImageRealName
      <3> QED BY <3>3, <3>4 DEF Matches, Named
    <2> QED BY <2>1, <2>2, ImageAssumption
  <1>2. /\ UNCHANGED registry
        /\ \/ /\ Import(id)
              /\ pulledAs' = [pulledAs EXCEPT ![id] = @ \cup {n}]
              /\ Reply(c, "ok")
           \/ Import(id) /\ Reply(c, "err") /\ UNCHANGED pulledAs
           \/ Reply(c, "err") /\ UNCHANGED <<store, pulledAs>>
    BY DEF PullImage
  <1> HIDE DEF id
  <1>3. StoreInv'
    BY <1>1, <1>2, ImportInv DEF ImageInv, StoreInv, StoredOnce
  <1>4. PulledInv'
    BY <1>1, <1>2, PulledForInv DEF ImageInv, PulledInv, PulledMatches
  <1>5. CallsInv'
    BY <1>2, ReplyInv DEF ImageInv
  <1> QED BY <1>2, <1>3, <1>4, <1>5 DEF ImageInv

(* A step that changes but one call's record, for one that is right.       *)
LEMMA OneCallInv ==
  ASSUME ImageInv, NEW c \in ImageCalls, NEW r, CallInv(r),
         icall' = [icall EXCEPT ![c] = r], UNCHANGED <<store, registry, pulledAs>>
  PROVE  ImageInv'
  <1>1. CallsInv'
    BY CallStep DEF ImageInv
  <1>2. StoreInv' /\ PulledInv' /\ (registry \in [Repos -> Versions])'
    BY DEF ImageInv, StoreInv, StoredOnce, PulledInv, PulledMatches
  <1> QED BY <1>1, <1>2 DEF ImageInv

(* A reply to one call leaves the others alone.                            *)
LEMMA OneReplyInv ==
  ASSUME ImageInv, NEW c \in ImageCalls, NEW ret \in {"none", "ok", "err", "absent"},
         Reply(c, ret), UNCHANGED <<store, registry, pulledAs>>
  PROVE  ImageInv'
  BY AnswerInv, OneCallInv DEF Reply

(* ListImages, ImageStatus and RemoveImage begin.                          *)
LEMMA BeginImageCallInv ==
  ASSUME ImageInv, NEW c \in ImageCalls, NEW op \in {"List", "Status", "Remove"},
         NEW n \in Requests \cup {BadName}, op # "List" => n \in Requests,
         BeginImageCall(c, op, n)
  PROVE  ImageInv'
  <1> DEFINE q == [NoImageCall EXCEPT !.op = op, !.pc = "list", !.req = n]
  <1>1. /\ q \in ImageCallRecords /\ q.op = op /\ q.pc = "list" /\ q.req = n
        /\ q.images = <<>>
    BY NoImageCallInv DEF ImageCallRecords, ImageOps
  <1>2. icall' = [icall EXCEPT ![c] = q] /\ UNCHANGED <<store, registry, pulledAs>>
    BY DEF BeginImageCall
  <1> HIDE DEF q
  <1>3. CallInv(q)
    BY <1>1, NoImageCallInv DEF CallInv, WholeListed, OwnNames, RmRequested
  <1> QED BY <1>2, <1>3, OneCallInv

(* rkt image list: everything in the store is to be looked at.             *)
LEMMA RktImageListInv ==
  ASSUME ImageInv, NEW c \in ImageCalls, RktImageList(c)
  PROVE  ImageInv'
  <1>1. CASE Reply(c, "err")
    BY <1>1, OneReplyInv DEF RktImageList
  <1>2. CASE icall' = [icall EXCEPT ![c].pc = "manifest", ![c].todo = store,
                                    ![c].whole = Range(store)]
    <2> DEFINE r == icall[c]
               w == Range(store)
               q == [r EXCEPT !.pc = "manifest", !.todo = store, !.whole = w]
    <2>1. CallInv(r) /\ r \in ImageCallRecords /\ r.pc = "list"
      BY DEF ImageInv, CallsInv, RktImageList
    <2>2. icall' = [icall EXCEPT ![c] = q]
      BY <1>2
    <2> HIDE DEF r
    <2>3. w \in SUBSET ImageIds /\ store \in Seq(ImageIds)
      BY LenProperties DEF ImageInv, StoreInv, Range
    <2>4. w \subseteq Range(store)
      OBVIOUS
    <2> HIDE DEF w
    <2>5. q \in ImageCallRecords
      BY <2>1, <2>3 DEF ImageCallRecords
    <2>6. /\ q.pc = "manifest" /\ q.todo = store /\ q.whole = w /\ q.op = r.op
          /\ q.req = r.req /\ q.images = r.images
      BY <2>1 DEF ImageCallRecords
    <2> HIDE DEF q
    <2>7. CallInv(q)
      BY <2>1, <2>4, <2>5, <2>6 DEF CallInv, WholeListed, OwnNames, RmRequested
    <2> QED BY <2>2, <2>7, OneCallInv DEF RktImageList
  <1> QED BY <1>1, <1>2 DEF RktImageList

(* What Listed makes of the images: without a filter the image is there.   *)
LEMMA ListedImagesInv ==
  ASSUME ImageInv, NEW c \in ImageCalls, NEW img \in ListedImages
  PROVE  /\ Listed(c, img) \in Seq(ListedImages)
         /\ Range(icall[c].images) \subseteq Range(Listed(c, img))
         /\ Range(Listed(c, img)) \subseteq Range(icall[c].images) \cup {img}
         /\ icall[c].op # "List" => img \in Range(Listed(c, img))
  <1>1. icall[c].images \in Seq(ListedImages)
    BY DEF ImageInv, CallsInv, ImageCallRecords
  <1>2. /\ Append(icall[c].images, img) \in Seq(ListedImages)
        /\ Range(Append(icall[c].images, img)) = Range(icall[c].images) \cup {img}
    BY <1>1, RangeAppend
  <1>3. CASE passFilter(c, img)
    BY <1>2, <1>3 DEF Listed
  <1>4. CASE ~passFilter(c, img)
    BY <1>1, <1>4 DEF Listed, passFilter
  <1> QED BY <1>3, <1>4

(* rkt image cat-manifest of the next image.                               *)
LEMMA GetImageManifestInv ==
  ASSUME ImageInv, NEW c \in ImageCalls, GetImageManifest(c)
  PROVE  ImageInv'
  <1> DEFINE r == icall[c]
             id == Head(r.todo)
             t == Tail(r.todo)
  <1>1. CallInv(r) /\ r \in ImageCallRecords /\ r.pc = "manifest" /\ r.todo # <<>>
    BY DEF ImageInv, CallsInv, GetImageManifest
  <1>2. r.todo \in Seq(ImageIds) /\ r.failed \in SUBSET ImageIds
    BY <1>1 DEF ImageCallRecords
  <1>3. id \in ImageIds /\ t \in Seq(ImageIds) /\ Range(r.todo) = {id} \cup Range(t)
    BY <1>1, <1>2, RangeTail
  <1>4. UNCHANGED <<store, registry, pulledAs>>
    BY DEF GetImageManifest
  <1>5. CASE icall' = [icall EXCEPT ![c].todo = Tail(@), ![c].images = Listed(c, Named(id))]
    <2> DEFINE l == Listed(c, Named(id))
               q == [r EXCEPT !.todo = t, !.images = l]
    <2>1. icall' = [icall EXCEPT ![c] = q]
      BY <1>5
    <2>2. /\ l \in Seq(ListedImages) /\ Range(r.images) \subseteq Range(l)
          /\ Range(l) \subseteq Range(r.images) \cup {Named(id)}
          /\ r.op # "List" => Named(id) \in Range(l)
      <3> HIDE DEF id
      <3>1. Named(id) \in ListedImages
        BY <1>3, NamedListed
      <3> QED BY <3>1, ListedImagesInv
    <2> HIDE DEF r, l, t, id
    <2>3. q \in ImageCallRecords
      BY <1>1, <1>3, <2>2 DEF ImageCallRecords
    <2>4. /\ q.todo = t /\ q.images = l /\ q.pc = r.pc /\ q.op = r.op /\ q.req = r.req
          /\ q.whole = r.whole /\ q.failed = r.failed /\ q.id = r.id
      BY <1>1 DEF ImageCallRecords
    <2> HIDE DEF q
    <2>5. WholeListed(q)
      BY <1>1, <1>3, <2>2, <2>4 DEF CallInv, WholeListed
    <2>6. OwnNames(q)
      <3>1. Named(id).tag = getImageRealName(Named(id).id)
        BY DEF Named
      <3> QED BY <1>1, <2>2, <2>4, <3>1 DEF CallInv, OwnNames
    <2>7. RmRequested(q)
      BY <1>1, <2>4 DEF CallInv, RmRequested
    <2>8. CallInv(q)
      BY <2>3, <2>5, <2>6, <2>7 DEF CallInv
    <2> QED BY <1>4, <2>1, <2>8, OneCallInv
  <1>6. CASE icall' = [icall EXCEPT ![c].todo = Tail(@), ![c].failed = @ \cup {id},
                          ![c].images = Listed(c, [id |-> id, tag |-> RawName])]
    <2> DEFINE img == [id |-> id, tag |-> RawName]
               l == Listed(c, img)
               f == r.failed \cup {id}
               q == [r EXCEPT !.todo = t, !.failed = f, !.images = l]
    <2>1. icall' = [icall EXCEPT ![c] = q]
      BY <1>6
    <2>2. /\ l \in Seq(ListedImages) /\ Range(r.images) \subseteq Range(l)
          /\ Range(l) \subseteq Range(r.images) \cup {img}
      BY <1>3, NamedListed, ListedImagesInv
    <2>3. f \in SUBSET ImageIds /\ img.tag = RawName
      BY <1>2, <1>3
    <2>4. id \in f /\ r.failed \subseteq f
      OBVIOUS
    <2> HIDE DEF r, l, t, id, f, img
    <2>5. q \in ImageCallRecords
      BY <1>1, <1>3, <2>2, <2>3 DEF ImageCallRecords
    <2>6. /\ q.todo = t /\ q.images = l /\ q.pc = r.pc /\ q.op = r.op /\ q.req = r.req
          /\ q.whole = r.whole /\ q.failed = f /\ q.id = r.id
      BY <1>1 DEF ImageCallRecords
    <2> HIDE DEF q
    <2>7. WholeListed(q)
      BY <1>1, <1>3, <2>2, <2>4, <2>6 DEF CallInv, WholeListed
    <2>8. OwnNames(q)
      BY <1>1, <2>2, <2>3, <2>6 DEF CallInv, OwnNames
    <2>9. RmRequested(q)
      BY <1>1, <2>6 DEF CallInv, RmRequested
    <2>10. CallInv(q)
      BY <2>5, <2>7, <2>8, <2>9 DEF CallInv
    <2> QED BY <1>4, <2>1, <2>10, OneCallInv
  <1> QED BY <1>5, <1>6 DEF GetImageManifest, Named

(* All manifests are read: the search for the request, and what comes of   *)
(* it.                                                                     *)
LEMMA StatusKnownInv ==
  ASSUME ImageInv, NEW c \in ImageCalls, StatusKnown(c)
  PROVE  ImageInv'
  <1> DEFINE r == icall[c]
  <1>1. CallInv(r) /\ r \in ImageCallRecords /\ r.pc = "manifest"
    BY DEF ImageInv, CallsInv, StatusKnown
  <1>2. CASE \E ret \in {"none", "ok", "err", "absent"} : Reply(c, ret)
    BY <1>2, OneReplyInv DEF StatusKnown
  <1>3. CASE /\ r.op = "Remove" /\ StatusName(r.req) # BadName
             /\ \E i \in FirstFound(c) :
                  icall' = [icall EXCEPT ![c].pc = "rm", ![c].id = r.images[i].id]
    <2>1. PICK i \in FirstFound(c) :
            icall' = [icall EXCEPT ![c].pc = "rm", ![c].id = r.images[i].id]
      BY <1>3
    <2> DEFINE img == r.images[i]
               d == img.id
               q == [r EXCEPT !.pc = "rm", !.id = d]
    <2>2. icall' = [icall EXCEPT ![c] = q]
      BY <2>1
    <2>3. i \in DOMAIN r.images /\ Matches(img, StatusName(r.req))
      BY DEF FirstFound, Found
    <2> HIDE DEF r
    <2>4. r.images \in Seq(ListedImages) /\ r.req \in Requests
      BY <1>1, <1>3 DEF CallInv, ImageCallRecords, RmRequested
    <2>5. img \in ListedImages /\ img \in Range(r.images)
      BY <2>3, <2>4, LenProperties, ElementOfSeq DEF Range
    <2>6. img.tag \in {RawName, getImageRealName(img.id)}
      BY <1>1, <2>5 DEF CallInv, OwnNames
    <2> HIDE DEF img
    <2>7. d \in ImageIds /\ IsOf(d, r.req)
      BY <1>3, <2>3, <2>4, <2>5, <2>6, MatchIsRequested
    <2> HIDE DEF d
    <2>8. q \in ImageCallRecords
      BY <1>1, <2>7 DEF ImageCallRecords
    <2>9. /\ q.pc = "rm" /\ q.id = d /\ q.op = r.op /\ q.req = r.req /\ q.images = r.images
      BY <1>1 DEF ImageCallRecords
    <2> HIDE DEF q
    <2>10. \E m \in Range(q.images) : m.id = q.id
      BY <2>5, <2>9 DEF d
    <2>11. CallInv(q)
      BY <1>1, <1>3, <2>7, <2>8, <2>9, <2>10 DEF CallInv, WholeListed, OwnNames, RmRequested
    <2> QED BY <2>2, <2>11, OneCallInv DEF StatusKnown
  <1> QED BY <1>2, <1>3 DEF StatusKnown

(* rkt image rm.                                                           *)
LEMMA RktImageRmInv ==
  ASSUME ImageInv, NEW c \in ImageCalls, RktImageRm(c)
  PROVE  ImageInv'
  <1>1. CASE Reply(c, "err") /\ UNCHANGED <<store, pulledAs>>
    BY <1>1, OneReplyInv DEF RktImageRm
  <1>2. CASE \E i \in RmTargets(c) :
               /\ Unstore(i)
               /\ \E ret \in {"ok", "err"} :
                    icall' = [WithoutWhole(store[i]) EXCEPT ![c] = Answer(ret)]
    <2>1. PICK i \in RmTargets(c), ret \in {"ok", "err"} :
            /\ Unstore(i)
            /\ icall' = [WithoutWhole(store[i]) EXCEPT ![c] = Answer(ret)]
      BY <1>2
    <2>2. StoreInv' /\ PulledInv'
      BY <2>1, UnstoreInv DEF ImageInv, RmTargets
    <2> DEFINE w == WithoutWhole(store[i])
    <2>3. w \in [ImageCalls -> ImageCallRecords] /\ \A d \in ImageCalls : CallInv(w[d])
      BY WithoutWholeInv DEF ImageInv
    <2> HIDE DEF w
    <2>4. CallInv(Answer(ret))
      BY AnswerInv
    <2>5. icall' = [w EXCEPT ![c] = Answer(ret)]
      BY <2>1 DEF w
    <2>6. Answer(ret) \in ImageCallRecords
      BY <2>4 DEF CallInv
    <2>7. icall' \in [ImageCalls -> ImageCallRecords]
      BY <2>3, <2>5, <2>6
    <2>8. \A d \in ImageCalls : icall'[d] = IF d = c THEN Answer(ret) ELSE w[d]
      BY <2>3, <2>5
    <2>9. \A d \in ImageCalls : CallInv(icall'[d])
      BY <2>3, <2>4, <2>8
    <2>10. CallsInv'
      BY <2>7, <2>9 DEF CallsInv
    <2> QED BY <2>2, <2>10 DEF ImageInv, RktImageRm
  <1> QED BY <1>1, <1>2 DEF RktImageRm

(* Others at the store and at the registry.                                *)
LEMMA OthersInv ==
  ASSUME ImageInv,
         \/ \E n \in ByHand : FetchByHand(n)
         \/ \E v \in Plain : FetchFile(v)
         \/ \E i \in DOMAIN store : RemoveByHand(i)
         \/ \E r \in Repos, v \in Versions : Push(r, v)
  PROVE  ImageInv'
  <1>0. ASSUME NEW v \in Plain, FetchFile(v) PROVE ImageInv'
    <2>1. [ver |-> v, orig |-> RawName] \in ImageIds
      BY ImageAssumption DEF ImageIds
    <2>2. StoreInv'
      BY <1>0, <2>1, ImportInv DEF FetchFile, ImageInv
    <2>3. PulledInv' /\ CallsInv'
      BY <1>0 DEF FetchFile, ImageInv, PulledInv, PulledMatches, CallsInv
    <2> QED BY <1>0, <2>2, <2>3 DEF FetchFile, ImageInv
  <1>1. ASSUME NEW n \in ByHand, FetchByHand(n) PROVE ImageInv'
    <2>1. n \in OrigNames /\ [n EXCEPT !.docker = FALSE] \in OrigNames /\ n.repo \in Repos
      BY ImageAssumption DEF OrigNames, RefNames
    <2>2. Fetched(n) \in ImageIds
      BY <2>1 DEF Fetched, ImageIds, ImageInv
    <2>3. StoreInv'
      BY <1>1, <2>2, ImportInv DEF FetchByHand, ImageInv
    <2>4. PulledInv' /\ CallsInv'
      BY <1>1 DEF FetchByHand, ImageInv, PulledInv, PulledMatches, CallsInv
    <2> QED BY <1>1, <2>3, <2>4 DEF FetchByHand, ImageInv
  <1>2. ASSUME NEW i \in DOMAIN store, RemoveByHand(i) PROVE ImageInv'
    <2>1. StoreInv' /\ PulledInv'
      BY <1>2, UnstoreInv DEF RemoveByHand, ImageInv
    <2>2. CallsInv'
      <3>1. icall' = WithoutWhole(store[i])
        BY <1>2 DEF RemoveByHand
      <3>2. icall' \in [ImageCalls -> ImageCallRecords] /\ \A c \in ImageCalls : CallInv(icall'[c])
        BY <3>1, WithoutWholeInv DEF ImageInv
      <3> QED BY <3>2 DEF CallsInv
    <2> QED BY <1>2, <2>1, <2>2 DEF RemoveByHand, ImageInv
  <1>3. ASSUME NEW r \in Repos, NEW v \in Versions, Push(r, v) PROVE ImageInv'
    <2>1. (registry \in [Repos -> Versions])'
      BY <1>3 DEF Push, ImageInv
    <2>2. StoreInv' /\ PulledInv' /\ CallsInv'
      BY <1>3 DEF Push, ImageInv, StoreInv, StoredOnce, PulledInv, PulledMatches, CallsInv
    <2> QED BY <2>1, <2>2 DEF ImageInv
  <1> QED BY <1>0, <1>1, <1>2, <1>3

----------------------------------------------------------------------------
(* The theorems.                                                           *)

(* The store is empty and nobody calls.                                    *)
LEMMA ImageInvInit == ImageInit => ImageInv
  <1> SUFFICES ASSUME ImageInit PROVE ImageInv
    OBVIOUS
  <1>1. StoreInv
    BY EmptySeq DEF ImageInit, StoreInv, StoredOnce
  <1>2. PulledInv
    BY DEF ImageInit, PulledInv, PulledMatches
  <1>3. CallInv(NoImageCall)
    BY NoImageCallInv DEF CallInv, WholeListed, OwnNames, RmRequested
  <1>4. CallsInv
    BY <1>3, NoImageCallInv DEF ImageInit, CallsInv
  <1> QED BY <1>1, <1>2, <1>4 DEF ImageInit, ImageInv

(* Every step keeps the invariant.                                         *)
LEMMA ImageInvNext == ImageInv /\ [ImageNext]_imgVars => ImageInv'
  <1> SUFFICES ASSUME ImageInv, [ImageNext]_imgVars PROVE ImageInv'
    OBVIOUS
  <1>1. ASSUME NEW c \in ImageCalls, ImageHandler(c) PROVE ImageInv'
    BY <1>1, RktImageListInv, GetImageManifestInv, StatusKnownInv, RktImageRmInv
       DEF ImageHandler
  <1>2. ASSUME NEW c \in ImageCalls, NEW n \in Requests \cup {BadName}, ListImages(c, n)
        PROVE  ImageInv'
    BY <1>2, BeginImageCallInv DEF ListImages
  <1>3. ASSUME NEW c \in ImageCalls, NEW n \in Requests,
               PullImage(c, n) \/ ImageStatus(c, n) \/ RemoveImage(c, n)
        PROVE  ImageInv'
    BY <1>3, PullImageInv, BeginImageCallInv DEF ImageStatus, RemoveImage
  <1>4. CASE UNCHANGED imgVars
    BY <1>4 DEF imgVars, ImageInv, StoreInv, StoredOnce, PulledInv, PulledMatches, CallsInv
  <1> QED BY <1>1, <1>2, <1>3, <1>4, OthersInv DEF ImageNext

(* The invariant holds.                                                    *)
LEMMA ImageInvAlways == ImageSpec => []ImageInv
  BY ImageInvInit, ImageInvNext, PTL DEF ImageSpec

(* Type correctness of the image service: among others, every image of a   *)
(* reply has a name with a tag, or the name that rkt prints.               *)
THEOREM ImageTypes == ImageSpec => []ImageTypeOK
  <1>1. ImageInv => ImageTypeOK
    BY DEF ImageInv, StoreInv, PulledInv, CallsInv, ImageTypeOK
  <1> QED BY <1>1, ImageInvAlways, PTL

(* Only its own handler ends a call, or moves it on.                       *)
LEMMA OwnStep ==
  ASSUME ImageInv, ImageNext, NEW c \in ImageCalls,
         icall[c].pc # "idle", icall'[c].pc # icall[c].pc
  PROVE  ImageHandler(c)
  <1>1. icall \in [ImageCalls -> ImageCallRecords] /\ icall[c] \in ImageCallRecords
    BY DEF ImageInv, CallsInv
  <1>2. icall'[c] # icall[c]
    OBVIOUS
  <1>3. \A id : [icall[c] EXCEPT !.whole = @ \ {id}].pc = icall[c].pc
    BY <1>1 DEF ImageCallRecords
  <1>4. \A id : icall'[c] # WithoutWhole(id)[c]
    BY <1>3 DEF WithoutWhole
  <1>5. ASSUME NEW d \in ImageCalls, ImageHandler(d) PROVE d = c
    <2>1. SUFFICES ASSUME d # c PROVE FALSE
      OBVIOUS
    <2>2. ~RktImageList(d) /\ ~GetImageManifest(d) /\ ~StatusKnown(d)
      BY <1>1, <1>2, <2>1 DEF RktImageList, GetImageManifest, StatusKnown, Reply
    <2>3. ~RktImageRm(d)
      <3>1. \A id, a : [WithoutWhole(id) EXCEPT ![d] = a][c] = WithoutWhole(id)[c]
        BY <2>1 DEF WithoutWhole
      <3> QED BY <1>1, <1>2, <1>4, <2>1, <3>1 DEF RktImageRm, Reply
    <2> QED BY <1>5, <2>2, <2>3 DEF ImageHandler
  <1>6. ASSUME NEW d \in ImageCalls
        PROVE  /\ \A n : ~ListImages(d, n) /\ ~ImageStatus(d, n) /\ ~RemoveImage(d, n)
               /\ \A n : ~PullImage(d, n)
    <2>1. CASE d = c
      BY <2>1 DEF ListImages, ImageStatus, RemoveImage, BeginImageCall, PullImage
    <2>2. CASE d # c
      BY <1>1, <1>2, <2>2 DEF ListImages, ImageStatus, RemoveImage, BeginImageCall,
           PullImage, Reply
    <2> QED BY <2>1, <2>2
  <1>7. /\ \A n : ~FetchByHand(n) /\ ~FetchFile(n)
        /\ \A i : ~RemoveByHand(i)
        /\ \A r, v : ~Push(r, v)
    BY <1>2, <1>4 DEF FetchByHand, FetchFile, RemoveByHand, Push
  <1> QED BY <1>5, <1>6, <1>7 DEF ImageNext

(* ImageStatus never answers "absent" for an image that PullImage got      *)
(* under the same name, that has been in the store ever since the list     *)
(* began and whose manifest could be read.                                 *)
THEOREM PulledIsFound == ImageSpec => StatusFindsPulled
  <1> DEFINE Finds ==
        \A c \in ImageCalls :
          /\ icall[c].op = "Status" /\ icall[c].pc = "manifest"
          /\ icall'[c].pc = "idle" /\ icall'[c].ret = "absent"
          => \A id \in icall[c].whole \ icall[c].failed : icall[c].req \notin pulledAs[id]
  <1>1. ASSUME ImageInv, ImageNext PROVE Finds
    <2>1. SUFFICES ASSUME NEW c \in ImageCalls,
                          icall[c].op = "Status", icall[c].pc = "manifest",
                          icall'[c].pc = "idle", icall'[c].ret = "absent",
                          NEW id \in icall[c].whole \ icall[c].failed,
                          icall[c].req \in pulledAs[id]
                   PROVE  FALSE
      OBVIOUS
    <2>2. icall[c].todo = <<>> /\ StatusName(icall[c].req) # BadName /\ Found(c) = {}
      <3>1. StatusKnown(c) \/ GetImageManifest(c)
        BY <1>1, <2>1, OwnStep DEF ImageHandler, RktImageList, RktImageRm
      <3>2. ~GetImageManifest(c)
        <4>1. icall \in [ImageCalls -> ImageCallRecords] /\ icall[c] \in ImageCallRecords
          BY <1>1 DEF ImageInv, CallsInv
        <4> DEFINE r == icall[c]
                   i == Head(r.todo)
                   l1 == Listed(c, [id |-> i, tag |-> getImageRealName(i)])
                   l2 == Listed(c, [id |-> i, tag |-> RawName])
                   f == r.failed \cup {i}
                   q1 == [r EXCEPT !.todo = Tail(r.todo), !.images = l1]
                   q2 == [r EXCEPT !.todo = Tail(r.todo), !.failed = f, !.images = l2]
        <4>2. SUFFICES ASSUME GetImageManifest(c) PROVE icall'[c].pc = r.pc
          BY <2>1
        <4>3. \/ icall' = [icall EXCEPT ![c] = q1]
              \/ icall' = [icall EXCEPT ![c] = q2]
          BY <4>2 DEF GetImageManifest
        <4> HIDE DEF r, i, l1, l2, f
        <4>4. q1.pc = r.pc /\ q2.pc = r.pc
          BY <4>1 DEF ImageCallRecords, r
        <4> HIDE DEF q1, q2
        <4> QED BY <4>1, <4>3, <4>4
      <3>3. \A ret \in {"ok", "err"} : ~Reply(c, ret)
        BY <1>1, <2>1, AnswerInv DEF Reply, ImageInv, CallsInv
      <3> QED BY <2>1, <3>1, <3>2, <3>3 DEF StatusKnown
    <2>3. CallInv(icall[c]) /\ icall[c] \in ImageCallRecords
      BY <1>1 DEF ImageInv, CallsInv
    <2>4. id \in ImageIds /\ icall[c].images \in Seq(ListedImages)
      BY <2>3 DEF ImageCallRecords
    <2>5. Matches(Named(id), StatusName(icall[c].req))
      BY <1>1, <2>1, <2>2, <2>4 DEF ImageInv, PulledInv, PulledMatches
    <2>6. Named(id) \in Range(icall[c].images)
      BY <2>1, <2>2, <2>3, NoImageCallInv DEF CallInv, WholeListed
    <2>7. PICK i \in DOMAIN icall[c].images : icall[c].images[i] = Named(id)
      BY <2>6 DEF Range
    <2> QED BY <2>2, <2>5, <2>7 DEF Found
  <1>2. ImageInv /\ [ImageNext]_imgVars => [Finds]_imgVars
    BY <1>1
  <1> QED BY <1>2, ImageInvAlways, PTL DEF ImageSpec, StatusFindsPulled

(* A RemoveImage removes at most one image, one of its request, and one    *)
(* that its own list has shown.                                            *)
THEOREM RemovesRequested == ImageSpec => RemovesOneRequested
  <1> DEFINE One ==
        \A c \in ImageCalls :
          icall[c].pc = "rm" /\ icall'[c].pc = "idle" =>
            LET removed == Range(store) \ Range(store') IN
            /\ \A id, other \in removed : id = other
            /\ \A id \in removed : IsOf(id, icall[c].req) /\ id \in ListedIds(c)
  <1>1. ASSUME ImageInv, ImageNext PROVE One
    <2>1. SUFFICES ASSUME NEW c \in ImageCalls, icall[c].pc = "rm", icall'[c].pc = "idle"
                   PROVE  \A id \in Range(store) \ Range(store') :
                            /\ id = icall[c].id
                            /\ IsOf(id, icall[c].req) /\ id \in ListedIds(c)
      OBVIOUS
    <2>2. RktImageRm(c)
      BY <1>1, <2>1, OwnStep DEF ImageHandler, RktImageList, GetImageManifest, StatusKnown
    <2>3. IsOf(icall[c].id, icall[c].req) /\ icall[c].id \in ListedIds(c)
      BY <1>1, <2>1 DEF ImageInv, CallsInv, CallInv, RmRequested, ListedIds
    <2>4. \A i \in RmTargets(c) :
            Unstore(i) => Range(store) \ Range(store') \subseteq {icall[c].id}
      BY <1>1, UnstoreInv DEF ImageInv, RmTargets
    <2>5. UNCHANGED store \/ \E i \in RmTargets(c) : Unstore(i)
      BY <2>2 DEF RktImageRm
    <2> QED BY <2>3, <2>4, <2>5
  <1>2. ImageInv /\ [ImageNext]_imgVars => [One]_imgVars
    BY <1>1
  <1> QED BY <1>2, ImageInvAlways, PTL DEF ImageSpec, RemovesOneRequested

=============================================================================
