---------------------------- MODULE MCPodSandbox ----------------------------
(* Small instances of PodSandbox for TLC.                                  *)
EXTENDS PodSandbox, TLC

(* No filter, and filters on one of the three fields.                      *)
MCFilters ==
  {NoFilter}
    \cup {[NoFilter EXCEPT !.id = u] : u \in UUIDs}
    \cup {[NoFilter EXCEPT !.state = s] : s \in {"READY", "NOTREADY"}}
    \cup {[NoFilter EXCEPT !.label = m] : m \in Metas}

OnlyNoFilter == {NoFilter}

(* Calls, UUIDs of this rktlet and metadata values are interchangeable.    *)
Symm == Permutations(Calls) \cup Permutations(UUIDs \ Foreign)
          \cup Permutations(Metas) \cup Permutations(Paths)

=============================================================================
