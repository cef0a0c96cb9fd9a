---------------------------- MODULE MCImageStore ----------------------------
(* Small instances of ImageStore for TLC.                                  *)
EXTENDS ImageStore

CONSTANTS busybox, alpine, v1, v2

Ref(r, docker, full, tag) ==
  [kind |-> "ref", repo |-> r, docker |-> docker, full |-> full, tag |-> tag]

(* "busybox", "docker://busybox", and the hash of what these may become.   *)
AllKinds ==
  {Ref(busybox, FALSE, FALSE, "none"), Ref(busybox, TRUE, FALSE, "none"),
   [kind |-> "hash", id |-> [ver |-> v2, orig |-> Ref(busybox, FALSE, TRUE, "latest")]]}

TaggedRequest == {Ref(busybox, FALSE, FALSE, "latest")}

UntaggedByHand == {Ref(busybox, FALSE, FALSE, "none")}

TwoByHand == UntaggedByHand \cup {Ref(alpine, FALSE, TRUE, "latest")}

=============================================================================
