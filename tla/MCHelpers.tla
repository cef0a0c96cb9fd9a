----------------------------- MODULE MCHelpers ------------------------------
(* Requests that vary one aspect at a time, and all short network lists.   *)
EXTENDS Helpers

AppBase ==
  [kind |-> "app", annos |-> << <<"k", "v">> >>, image |-> "busybox",
   quota |-> 0, period |-> 0, profile |-> "", ctrAnno |-> "", podAnno |-> "",
   sec |-> TRUE, privileged |-> FALSE, hasCaps |-> FALSE, adds |-> {}, drops |-> {},
   command |-> <<>>, args |-> <<>>, uid |-> FALSE, username |-> FALSE]

Profiles == {"", "unconfined", "docker/default", "localhost/x"}

AnnoProfiles == Profiles \cup {"empty"}

CapNames == AllCaps \cup {"all", "unknown"}

Words == SeqOf({"a", "b", "---"}, 2)

MCContainerRequests ==
  {[AppBase EXCEPT !.annos = a, !.image = i] :
     a \in {<<>>, << <<"k", "v">> >>, << <<"k", "v">>, <<"l", "v">> >>},
     i \in {"busybox", "sha512-x"}}
  \cup {[AppBase EXCEPT !.quota = q, !.period = p] : q \in -20..40, p \in {0, 1, 3, 10, 100}}
  \cup {[AppBase EXCEPT !.profile = p, !.ctrAnno = c, !.podAnno = d, !.privileged = v, !.sec = s] :
          p \in Profiles, c \in AnnoProfiles, d \in AnnoProfiles, v \in BOOLEAN, s \in BOOLEAN}
  \cup {[AppBase EXCEPT !.hasCaps = TRUE, !.adds = a, !.drops = d, !.privileged = v] :
          a \in SUBSET CapNames, d \in SUBSET CapNames, v \in BOOLEAN}
  \cup {[AppBase EXCEPT !.command = c, !.args = a] : c \in Words, a \in Words}
  \cup {[AppBase EXCEPT !.uid = u, !.username = n] : u \in BOOLEAN, n \in BOOLEAN}

Mappings ==
  [proto : {"tcp", "udp"}, cport : {0, 53}, hport : {0, 53, 54}, hostIP : {"", "127.0.0.1"}]

PodBase == [kind |-> "pod", annos |-> << <<"k", "v">> >>, meta |-> "m",
            hostNet |-> FALSE, ports |-> <<>>]

MCSandboxRequests ==
  {[PodBase EXCEPT !.ports = p] : p \in SeqOf(Mappings, 2)}
    \cup {[PodBase EXCEPT !.hostNet = TRUE, !.ports = p] : p \in SeqOf(Mappings, 1)}

Nets == [name : {"rkt.kubernetes.io", "default", "other"}, ip : {"10.0.0.1", "v6"}]

MCNetLists == SeqOf(Nets, 3)

=============================================================================
