----------------------------- MODULE GraphPath -----------------------------
(***************************************************************************)
(* GraphCycles::FindPath, from which a report of a potential deadlock gets *)
(* the locks of the cycle (log_helper.cpp:105).  The thread whose edge was *)
(* refused calls it before it gives up the mutex of the graph, so no other *)
(* call comes in between.  A step is one turn of its loop; the hash sets   *)
(* may yield the successors of a node in any order.                        *)
(***************************************************************************)
EXTENDS GraphCycles, SequencesExt

CONSTANT MaxPath     \* the length of the caller's array
ASSUME MaxPathAssumption == MaxPath \in Nat

VARIABLES todo,       \* FindPath's stack, the last element on top
          seen,       \* the nodes that were pushed
          path_len,   \* its result once fp is "told"
          path,       \* what the caller's array has
          fp          \* "idle", "walk" (in the loop) or "told" (after the return)

walk == <<todo, seen, path_len, path>>

Leave == -1          \* the marker on the stack for the end of a node

\* An edge was refused: FindPath(idy, idx) is called, for a path back.
Refused == pc = "idle" /\ ~verdict.ok
Source == verdict.edge[2][1]
Target == verdict.edge[1][1]

FindPath == /\ fp = "idle" /\ Refused
            /\ fp' = IF Found(verdict.edge[2]) /\ Found(verdict.edge[1]) THEN "walk" ELSE "told"
            /\ todo' = <<Source>> /\ seen' = {} /\ path_len' = 0 /\ path' = <<>>
            /\ UNCHANGED vars

\* The array once node n is on the path.
Entered(n) == IF path_len < MaxPath THEN SubSeq(path, 1, path_len) \o <<n>> ELSE path

\* Mutant of Descend: the node's end is not marked.
DescendUnmarked(rest, next) == rest \o next

\* The stack below a node is left behind when its successors are done.
Descend(rest, next) == rest \o <<Leave>> \o next

LeaveNode == /\ fp = "walk" /\ todo # <<>> /\ Last(todo) = Leave
             /\ todo' = Front(todo)
             /\ path_len' = path_len - 1
             /\ UNCHANGED <<vars, seen, path, fp>>

EnterNode == /\ fp = "walk" /\ todo # <<>> /\ Last(todo) \notin {Leave, Target}
             /\ LET new == out[Last(todo)] \ seen IN
                  /\ \E next \in SetToSeqs(new) : todo' = Descend(Front(todo), next)
                  /\ seen' = seen \cup new
             /\ path_len' = path_len + 1
             /\ path' = Entered(Last(todo))
             /\ UNCHANGED <<vars, fp>>

\* Target is reached, or there is nothing left to look at.
Return == /\ fp = "walk" /\ (todo = <<>> \/ Last(todo) = Target)
          /\ fp' = "told"
          /\ path_len' = IF todo = <<>> THEN 0 ELSE path_len + 1
          /\ path' = IF todo = <<>> THEN path ELSE Entered(Target)
          /\ UNCHANGED <<vars, todo, seen>>

\* Any other call; FindPath's stack and set are dead then.
OtherCall == /\ fp = "told" \/ (fp = "idle" /\ ~Refused)
             /\ Next
             /\ fp' = "idle" /\ todo' = <<>> /\ seen' = {} /\ path_len' = 0 /\ path' = <<>>

PathStep == LeaveNode \/ EnterNode \/ Return
PathInit == Init /\ fp = "idle" /\ todo = <<>> /\ seen = {} /\ path_len = 0 /\ path = <<>>
PathNext == FindPath \/ PathStep \/ OtherCall

\* FindPath runs to its end as well.
PathSpec == /\ PathInit /\ [][PathNext]_<<vars, walk, fp>>
            /\ WF_vars(SearchStep) /\ WF_<<vars, walk, fp>>(PathStep)

-----------------------------------------------------------------------------
\* When InsertEdge(x, y) was refused, FindPath(y, x) finds what the new edge
\* would have closed, whatever the order of the hash sets: path_len nodes of a
\* path from y to x, each once, of which the array has as many as it has room
\* for (deadlock_monitor.cpp:150, log_helper.cpp:105).
IsPath(p, x, y) == /\ p[1] = x /\ p[Len(p)] = y
                   /\ \A i \in 1 .. Len(p) - 1 : p[i + 1] \in out[p[i]]
                   /\ \A i, j \in DOMAIN p : p[i] = p[j] => i = j

ReportShowsCycle ==
  fp = "told" =>
    /\ path_len > 0 /\ Len(path) = Min({path_len, MaxPath})
    /\ \E p \in [1 .. path_len -> Node] :
         IsPath(p, Source, Target) /\ path = SubSeq(p, 1, Len(path))

\* Every InsertEdge and every FindPath returns: no search runs for ever, whatever
\* the graph (the visited marks, graphcycles.cc:608, and seen, :740).
EveryCallReturns == (pc # "idle" \/ fp = "walk") ~> (pc = "idle" /\ fp # "walk")
=============================================================================
