----------------------------- MODULE Containers -----------------------------
(***************************************************************************)
(* The two hash tables under the lock-order graph, side by side: each call *)
(* works on one of them, under the mutex of the graph.                     *)
(***************************************************************************)
EXTENDS NodeSet, PointerMap

Init == SetInit /\ MapInit
Next == \/ SetNext /\ UNCHANGED mapVars
        \/ MapNext /\ UNCHANGED setVars
Spec == Init /\ [][Next]_<<setVars, mapVars>>
=============================================================================
