---------------------------- MODULE MCContainer -----------------------------
(* Small instances of Container for TLC.                                   *)
EXTENDS Container, TLC

CONSTANTS ac, u1, n1, n2, mixed, bad

(* All names of requests are the same app name ("FooBar" and "foobar");    *)
(* mixed is sanitized to an app name that rktlet builds ("0-FooBar"), and  *)
(* nothing is left of bad.                                                 *)
MCSanitizeACName ==
  [s \in Names \cup Apps \cup Strays |->
     CASE s \in Names -> ac
       [] s = mixed   -> <<0, ac>>
       [] s = bad     -> NoName
       [] OTHER       -> s]

MCStrayIds == {<<bad>>, <<u1, bad>>, <<u1, mixed>>}

(* The second has the first one's app name; the third is a retry by the     *)
(* kubelet, which counts the attempt up.                                   *)
MCCreateRequests ==
  {[pod |-> u1, attempt |-> 0, name |-> n1, mounts |-> {}],
   [pod |-> u1, attempt |-> 0, name |-> n2, mounts |-> Dirs],
   [pod |-> u1, attempt |-> 1, name |-> n1, mounts |-> {}]}

CallSymmetry == Permutations(Creators)

MCCtrFilters == {NoCtrFilter, [NoCtrFilter EXCEPT !.label = n1, !.pod = u1]}

=============================================================================
