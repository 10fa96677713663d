---------------------------- MODULE Reachability ----------------------------
(***************************************************************************)
(* Directed graphs as sets of pairs.  Reachability is stated with closed   *)
(* sets of nodes, not by recursion over paths: b is reachable from a when  *)
(* every set of nodes that contains a and is closed under the edges        *)
(* contains b.  TLC evaluates that on the small graphs of the runs and the *)
(* proofs use it directly: to show that b is unreachable, exhibit a set.   *)
(***************************************************************************)

\* S is closed under the edges E.
Closed(E, S) == \A e \in E : e[1] \in S => e[2] \in S

\* b can be reached from a along zero or more edges of E, a set of pairs of N.
Reaches(E, N, a, b) == \A S \in SUBSET N : a \in S /\ Closed(E, S) => b \in S

\* No edge of E closes a cycle.
Acyclic(E, N) == \A e \in E : ~Reaches(E, N, e[2], e[1])
=============================================================================
