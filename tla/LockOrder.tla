----------------------------- MODULE LockOrder -----------------------------
(***************************************************************************)
(* What GraphCycles promises (the comments of graphcycles/graphcycles.h),  *)
(* with no ranks, no depth-first search and no storage of nodes:           *)
(*                                                                         *)
(*   - a lock keeps one id until it is removed, and an id, once removed,   *)
(*     never names a lock again;                                           *)
(*   - the acquired-before relation over the live ids stays acyclic: an    *)
(*     edge is refused exactly when it would close a cycle;                *)
(*   - a refused insertion changes nothing, and neither does one with an   *)
(*     expired id.                                                         *)
(***************************************************************************)
EXTENDS Reachability

CONSTANTS Lock,     \* the addresses of the monitored program's locks
          Id,       \* graph ids
          NoId      \* InvalidGraphId(), no member of Id

VARIABLES idOf,     \* the id of each lock, NoId for one not in the graph
          issued,   \* every id handed out so far
          order,    \* acquired-before: pairs of live ids
          verdict   \* what InsertEdge answered about which edge, until the next call

vars == <<idOf, issued, order, verdict>>

NoVerdict == [edge |-> <<>>, ok |-> TRUE]

Live == {idOf[l] : l \in Lock} \ {NoId}

TypeOK == /\ idOf \in [Lock -> Id \cup {NoId}]
          /\ issued \in SUBSET Id
          /\ order \in SUBSET (Id \X Id)
          /\ verdict \in {NoVerdict} \cup [edge : Id \X Id, ok : BOOLEAN]

Init == /\ idOf = [l \in Lock |-> NoId]
        /\ issued = {}
        /\ order = {}
        /\ verdict = NoVerdict

-----------------------------------------------------------------------------
\* A lock that is not in the graph gets an id nobody has seen.
GetId(l) == /\ idOf[l] = NoId
            /\ \E id \in Id \ issued : /\ idOf' = [idOf EXCEPT ![l] = id]
                                       /\ issued' = issued \cup {id}
            /\ verdict' = NoVerdict
            /\ UNCHANGED order

\* A lock leaves the graph with every edge to and from it.
RemoveNode(l) == /\ idOf[l] # NoId
                 /\ order' = {e \in order : idOf[l] \notin {e[1], e[2]}}
                 /\ idOf' = [idOf EXCEPT ![l] = NoId]
                 /\ verdict' = NoVerdict
                 /\ UNCHANGED issued

RemoveEdge(x, y) == /\ verdict' = NoVerdict
                    /\ order' = order \ {<<x, y>>}
                    /\ UNCHANGED <<idOf, issued>>

Answer(x, y, ok) == verdict' = [edge |-> <<x, y>>, ok |-> ok]

\* An id that no longer names a lock: nothing to record, nothing wrong.
InsertExpired(x, y) == /\ Answer(x, y, TRUE)
                       /\ {x, y} \subseteq issued
                       /\ ~({x, y} \subseteq Live)
                       /\ UNCHANGED <<idOf, issued, order>>

\* The edge would close a cycle.
Refuse(x, y) == /\ Answer(x, y, FALSE)
                /\ {x, y} \subseteq Live
                /\ Reaches(order, Live, y, x)
                /\ UNCHANGED <<idOf, issued, order>>

Accept(x, y) == /\ Answer(x, y, TRUE)
                /\ {x, y} \subseteq Live
                /\ ~Reaches(order, Live, y, x)
                /\ order' = order \cup {<<x, y>>}
                /\ UNCHANGED <<idOf, issued>>

Next == \/ \E l \in Lock : GetId(l) \/ RemoveNode(l)
        \/ \E x, y \in issued : \/ RemoveEdge(x, y)
                                \/ InsertExpired(x, y)
                                \/ Refuse(x, y)
                                \/ Accept(x, y)

Spec == Init /\ [][Next]_vars
=============================================================================
