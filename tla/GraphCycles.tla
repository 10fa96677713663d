---------------------------- MODULE GraphCycles ----------------------------
(***************************************************************************)
(* The lock-order graph, graphcycles/graphcycles.cc: an incremental        *)
(* topological order (Pearce and Kelly).  Every node has a rank, every     *)
(* edge goes from a smaller rank to a larger one, and InsertEdge repairs   *)
(* the ranks of the affected region after a forward and a backward         *)
(* depth-first search, or finds that the edge closes a cycle.              *)
(*                                                                         *)
(* The calls are serialised by deadlock_monitor_t's m_deadlock_graph_mutex *)
(* so a call starts only when pc is "idle".  InsertEdge's searches take one *)
(* step per loop iteration; the other calls are one step.                  *)
(*                                                                         *)
(* Abstracted: the order in which the hash sets and the DFS stack yield    *)
(* nodes (any order here), the order of reuse of free nodes (any), the     *)
(* chains of PointerMap (a function here), the trace information kept with *)
(* a node (see DeadlockMonitor).  A node that is not allocated yet has the *)
(* values GetId gives a new one.  As the stack is a set, no node is on it  *)
(* twice, and the searches' test for a visited node on it has no case here *)
(* (SearchOK below states that).                                           *)
(***************************************************************************)
EXTENDS Integers, FiniteSets, Reachability

CONSTANTS Lock,        \* addresses of locks (the void* ptr of the calls)
          NoLock,      \* nullptr
          MaxNodes,    \* bound: nodes the arena can give
          MaxVersion   \* the last value of Node::version, UINT32_MAX

ASSUME NoLockAssumption == NoLock \notin Lock
ASSUME MaxNodesAssumption == MaxNodes \in Nat
ASSUME MaxVersionAssumption == MaxVersion \in Nat \ {0}

VARIABLES size,        \* nodes_.size()
          masked_ptr, version, rank, in, out, visited,   \* fields of Node
          ptrmap,      \* PointerMap: the node of a lock
          free_nodes,  \* nodes that RemoveNode gave back
          deltaf, deltab, stack,   \* Rep's temporary state
          pc,          \* where InsertEdge is
          call,        \* the nodes <<x, y>> of the InsertEdge under way
          verdict      \* InsertEdge's answer, by ids, until the next call

store == <<size, masked_ptr, version, ptrmap, free_nodes>>
search == <<visited, deltaf, deltab, stack, pc, call>>
vars == <<store, rank, in, out, search, verdict>>

Node == 0 .. MaxNodes - 1
NoNode == -1
Version == 1 .. MaxVersion
Id == Node \X Version          \* MakeId(index, version)
NoCall == <<NoNode, NoNode>>
NoVerdict == [edge |-> <<>>, ok |-> TRUE]

TypeOK == /\ size \in 0 .. MaxNodes
          /\ masked_ptr \in [Node -> Lock \cup {NoLock}]
          /\ version \in [Node -> Version]
          /\ rank \in [Node -> Node]
          /\ in \in [Node -> SUBSET Node]
          /\ out \in [Node -> SUBSET Node]
          /\ visited \in [Node -> BOOLEAN]
          /\ ptrmap \in [Lock -> Node \cup {NoNode}]
          /\ free_nodes \in SUBSET Node
          /\ deltaf \in SUBSET Node
          /\ deltab \in SUBSET Node
          /\ stack \in SUBSET Node
          /\ pc \in {"idle", "forward", "backward"}
          /\ call \in (Node \X Node) \cup {NoCall}
          /\ verdict \in {NoVerdict} \cup [edge : Id \X Id, ok : BOOLEAN]

Init == /\ size = 0
        /\ masked_ptr = [n \in Node |-> NoLock]
        /\ version = [n \in Node |-> 1]
        /\ rank = [n \in Node |-> n]
        /\ in = [n \in Node |-> {}]
        /\ out = [n \in Node |-> {}]
        /\ visited = [n \in Node |-> FALSE]
        /\ ptrmap = [l \in Lock |-> NoNode]
        /\ free_nodes = {}
        /\ deltaf = {} /\ deltab = {} /\ stack = {}
        /\ pc = "idle"
        /\ call = NoCall
        /\ verdict = NoVerdict

-----------------------------------------------------------------------------
(* Ids.  A caller holds ids GetId returned to it.                          *)

Allocated == 0 .. size - 1
MakeId(n) == <<n, version[n]>>
Found(id) == version[id[1]] = id[2]          \* FindNode(id) # nullptr
Issued == {id \in Id : /\ id[1] \in Allocated
                       /\ \/ id[2] < version[id[1]]
                          \/ id[2] = version[id[1]] /\ id[1] \notin free_nodes}

\* The last version of a node was removed: the node is not used any more.
WornOut(n) == n \in Allocated /\ masked_ptr[n] = NoLock /\ n \notin free_nodes

\* The ids a caller passes on.  before_lock drops the ids that Ptr maps to
\* nullptr, so it passes no id of a worn-out node; other expired ids are kept.
Handle == {id \in Issued : ~(WornOut(id[1]) /\ Found(id))}

-----------------------------------------------------------------------------
(* The calls that take one step.                                           *)

\* GetId when nothing is free: a new node, ranked last.
GetIdFresh(l) == /\ pc = "idle" /\ ptrmap[l] = NoNode
                 /\ free_nodes = {} /\ size < MaxNodes
                 /\ masked_ptr' = [masked_ptr EXCEPT ![size] = l]
                 /\ version' = [version EXCEPT ![size] = 1]
                 /\ rank' = [rank EXCEPT ![size] = size]
                 /\ visited' = [visited EXCEPT ![size] = FALSE]
                 /\ ptrmap' = [ptrmap EXCEPT ![l] = size]
                 /\ size' = size + 1
                 /\ UNCHANGED <<in, out, free_nodes, deltaf, deltab, stack, pc, call>>
                 /\ verdict' = NoVerdict

\* GetId from the free list: the node keeps its rank and its new version.
GetIdReuse(l) == /\ pc = "idle" /\ ptrmap[l] = NoNode
                 /\ \E n \in free_nodes :
                      /\ masked_ptr' = [masked_ptr EXCEPT ![n] = l]
                      /\ ptrmap' = [ptrmap EXCEPT ![l] = n]
                      /\ free_nodes' = free_nodes \ {n}
                 /\ UNCHANGED <<size, version, rank, in, out, search>>
                 /\ verdict' = NoVerdict

\* Mutant of Cut: the removed node keeps its own edges.
CutOthers(edges, n, others) ==
  [m \in Node |-> IF m \in others THEN edges[m] \ {n} ELSE edges[m]]

\* The edges without any at node n.
Cut(edges, n, others) ==
  [m \in Node |-> IF m = n THEN {} ELSE IF m \in others THEN edges[m] \ {n} ELSE edges[m]]

\* Mutant of NextVersion: no last version.
NextVersionAlways(n) == version[n] + 1

\* The node's version when it is given back; the last version stays.
NextVersion(n) == IF version[n] = MaxVersion THEN MaxVersion ELSE version[n] + 1

RemoveNode(l) == /\ pc = "idle" /\ ptrmap[l] # NoNode
                 /\ LET n == ptrmap[l] IN
                      /\ in' = Cut(in, n, out[n])
                      /\ out' = Cut(out, n, in[n])
                      /\ masked_ptr' = [masked_ptr EXCEPT ![n] = NoLock]
                      /\ version' = [version EXCEPT ![n] = NextVersion(n)]
                      /\ free_nodes' = IF version[n] = MaxVersion THEN free_nodes
                                                                  ELSE free_nodes \cup {n}
                 /\ ptrmap' = [ptrmap EXCEPT ![l] = NoNode]
                 /\ UNCHANGED <<size, rank, search>>
                 /\ verdict' = NoVerdict

AddEdge(x, y) == /\ out' = [out EXCEPT ![x] = @ \cup {y}]
                 /\ in' = [in EXCEPT ![y] = @ \cup {x}]

\* Mutant of EraseEdge: the predecessor set keeps the edge.
EraseOut(x, y) == out' = [out EXCEPT ![x] = @ \ {y}] /\ UNCHANGED in

EraseEdge(x, y) == /\ out' = [out EXCEPT ![x] = @ \ {y}]
                   /\ in' = [in EXCEPT ![y] = @ \ {x}]

RemoveEdge(idx, idy) == /\ pc = "idle"
                        /\ Found(idx) /\ Found(idy)
                        /\ EraseEdge(idx[1], idy[1])
                        /\ UNCHANGED <<store, rank, search>>
                        /\ verdict' = NoVerdict

-----------------------------------------------------------------------------
(* InsertEdge.                                                             *)

Answer(idx, idy, ok) == verdict' = [edge |-> <<idx, idy>>, ok |-> ok]

InsertExpired(idx, idy) == /\ pc = "idle"
                           /\ ~(Found(idx) /\ Found(idy))
                           /\ Answer(idx, idy, TRUE)
                           /\ UNCHANGED <<store, rank, in, out, search>>

InsertSelf(idx, idy) == /\ pc = "idle"
                        /\ Found(idx) /\ idx = idy
                        /\ Answer(idx, idy, FALSE)
                        /\ UNCHANGED <<store, rank, in, out, search>>

InsertExisting(idx, idy) == /\ pc = "idle"
                            /\ Found(idx) /\ Found(idy) /\ idx # idy
                            /\ idy[1] \in out[idx[1]]
                            /\ Answer(idx, idy, TRUE)
                            /\ UNCHANGED <<store, rank, in, out, search>>

\* A new edge of two nodes of the graph: where the two last cases begin.
IsNewEdge(idx, idy) == /\ pc = "idle"
                       /\ Found(idx) /\ Found(idy) /\ idx # idy
                       /\ idy[1] \notin out[idx[1]]

InsertConsistent(idx, idy) == /\ IsNewEdge(idx, idy)
                              /\ rank[idx[1]] <= rank[idy[1]]
                              /\ AddEdge(idx[1], idy[1])
                              /\ Answer(idx, idy, TRUE)
                              /\ UNCHANGED <<store, rank, search>>

\* The new edge contradicts the ranks: ForwardDFS(y, rank[x]) begins.
InsertSearch(idx, idy) == /\ IsNewEdge(idx, idy)
                          /\ rank[idx[1]] > rank[idy[1]]
                          /\ AddEdge(idx[1], idy[1])
                          /\ call' = <<idx[1], idy[1]>>
                          /\ pc' = "forward"
                          /\ deltaf' = {} /\ stack' = {idy[1]}
                          /\ UNCHANGED <<store, rank, visited, deltab, verdict>>

\* The ends of the edge being inserted.
nx == call[1]
ny == call[2]

\* The temporary lists are dead between calls: modelled empty.
Finish(ok) == /\ pc' = "idle" /\ call' = NoCall
              /\ deltaf' = {} /\ deltab' = {} /\ stack' = {}
              /\ Answer(MakeId(nx), MakeId(ny), ok)

Visit(n) == visited' = [visited EXCEPT ![n] = TRUE]
\* Mutant of Unvisit: the marks stay.
UnvisitNothing(S) == UNCHANGED visited
Unvisit(S) == visited' = [n \in Node |-> visited[n] /\ n \notin S]

\* Mutant of ForwardCycle: the refused edge stays.
ForwardCycleKeeps(n) == /\ pc = "forward" /\ n \in stack
                        /\ \E w \in out[n] : rank[w] = rank[nx]
                        /\ Unvisit(deltaf \cup {n})
                        /\ Finish(FALSE)
                        /\ UNCHANGED <<store, rank, in, out>>

\* A successor of n has the rank of nx: it is nx, so the new edge closes a
\* cycle.  InsertEdge takes the edge back and clears the marks on deltaf_.
ForwardCycle(n) == /\ pc = "forward" /\ n \in stack
                   /\ \E w \in out[n] : rank[w] = rank[nx]
                   /\ EraseEdge(nx, ny)
                   /\ Unvisit(deltaf \cup {n})
                   /\ Finish(FALSE)
                   /\ UNCHANGED <<store, rank>>

\* Mutant of Ahead: the last rank of the region is left out.
AheadShort(n) == {w \in out[n] : ~visited[w] /\ w # n /\ rank[w] < rank[nx] - 1}

\* The successors of n the forward search still has to see.
Ahead(n) == {w \in out[n] : ~visited[w] /\ w # n /\ rank[w] < rank[nx]}

\* Mutant of ForwardVisit: the node is not popped off the stack.
ForwardVisitKeeps(n) == /\ pc = "forward" /\ n \in stack
                        /\ \A w \in out[n] : rank[w] # rank[nx]
                        /\ Visit(n)
                        /\ deltaf' = deltaf \cup {n}
                        /\ stack' = stack \cup Ahead(n)
                        /\ UNCHANGED <<store, rank, in, out, deltab, pc, call, verdict>>

ForwardVisit(n) == /\ pc = "forward" /\ n \in stack
                   /\ \A w \in out[n] : rank[w] # rank[nx]
                   /\ Visit(n)
                   /\ deltaf' = deltaf \cup {n}
                   /\ stack' = (stack \ {n}) \cup Ahead(n)
                   /\ UNCHANGED <<store, rank, in, out, deltab, pc, call, verdict>>

\* ForwardDFS found no cycle: BackwardDFS(nx, rank[ny]) begins.
ForwardDone == /\ pc = "forward" /\ stack = {}
               /\ pc' = "backward"
               /\ deltab' = {} /\ stack' = {nx}
               /\ UNCHANGED <<store, rank, in, out, visited, deltaf, call, verdict>>

\* The predecessors of n the backward search still has to see.
Behind(n) == {w \in in[n] : ~visited[w] /\ w # n /\ rank[ny] < rank[w]}

BackwardVisit(n) == /\ pc = "backward" /\ n \in stack
                    /\ Visit(n)
                    /\ deltab' = deltab \cup {n}
                    /\ stack' = (stack \ {n}) \cup Behind(n)
                    /\ UNCHANGED <<store, rank, in, out, deltaf, pc, call, verdict>>

\* Reorder's list_: deltab_ by rank, then deltaf_ by rank.  Its merged_: the
\* ranks of all of them, sorted.  The k-th of the list gets the k-th rank.
Region == deltab \cup deltaf
Before(m, n) == \/ m \in deltab /\ n \in deltaf
                \/ m \in deltab /\ n \in deltab /\ rank[m] < rank[n]
                \/ m \in deltaf /\ n \in deltaf /\ rank[m] < rank[n]
Merged == {rank[n] : n \in Region}
\* Mutant of Rerank: the region is numbered from 0.
RerankFromZero == {nr \in [Region -> 0 .. Cardinality(Region) - 1] :
                     \A m, n \in Region : Before(m, n) => nr[m] < nr[n]}
Rerank == {nr \in [Region -> Merged] : \A m, n \in Region : Before(m, n) => nr[m] < nr[n]}

\* Mutant of Reorder: the source moves in front of the target, the others up.
ReorderSourceOnly == /\ pc = "backward" /\ stack = {}
                     /\ rank' = [n \in Node |-> IF n = nx THEN rank[ny]
                                 ELSE IF rank[ny] <= rank[n] /\ rank[n] < rank[nx] THEN rank[n] + 1
                                 ELSE rank[n]]
                     /\ Unvisit(Region)
                     /\ Finish(TRUE)
                     /\ UNCHANGED <<store, in, out>>

Reorder == /\ pc = "backward" /\ stack = {}
           /\ \E nr \in Rerank :
                rank' = [n \in Node |-> IF n \in Region THEN nr[n] ELSE rank[n]]
           /\ Unvisit(Region)
           /\ Finish(TRUE)
           /\ UNCHANGED <<store, in, out>>

-----------------------------------------------------------------------------
InsertEdge(idx, idy) == \/ InsertExpired(idx, idy)
                        \/ InsertSelf(idx, idy)
                        \/ InsertExisting(idx, idy)
                        \/ InsertConsistent(idx, idy)
                        \/ InsertSearch(idx, idy)

SearchStep == \/ \E n \in Node : \/ ForwardCycle(n)
                                 \/ ForwardVisit(n)
                                 \/ BackwardVisit(n)
              \/ ForwardDone
              \/ Reorder

Next == \/ \E l \in Lock : GetIdFresh(l) \/ GetIdReuse(l) \/ RemoveNode(l)
        \/ \E idx, idy \in Handle : RemoveEdge(idx, idy) \/ InsertEdge(idx, idy)
        \/ SearchStep

\* The caller holds a mutex and runs the call to its end.
Spec == Init /\ [][Next]_vars /\ WF_vars(SearchStep)

-----------------------------------------------------------------------------
(* Properties.                                                             *)

Edges == {e \in Node \X Node : e[2] \in out[e[1]]}

\* The edges of finished insertions; the one under way may be taken back.
OldEdges == Edges \ {call}

\* The node store.  The hash table finds every live node and only live ones;
\* what RemoveNode gave back is bare, and so is what was never allocated
\* (CheckInvariants, "Did not find live node in hash table").
StoreOK ==
  /\ \A l \in Lock : ptrmap[l] # NoNode => /\ ptrmap[l] \in Allocated
                                           /\ masked_ptr[ptrmap[l]] = l
  /\ \A n \in Node : masked_ptr[n] # NoLock => ptrmap[masked_ptr[n]] = n
  /\ \A n \in Node : masked_ptr[n] = NoLock => in[n] = {} /\ out[n] = {}
  /\ \A n \in free_nodes : n \in Allocated /\ masked_ptr[n] = NoLock
  /\ \A n \in Node \ Allocated : masked_ptr[n] = NoLock /\ version[n] = 1 /\ rank[n] = n

\* The two edge sets of the nodes always tell the same edges: out for the
\* forward search, in for the backward one.
EdgesMirrored == \A m, n \in Node : n \in out[m] <=> m \in in[n]

\* No two nodes share a rank (CheckInvariants, "Duplicate occurrence of rank").
RanksDistinct == \A m, n \in Node : rank[m] = rank[n] => m = n

\* The ranks in use are a permutation of 0 .. size-1, through every reuse and
\* every reorder (the comment in GetId, graphcycles.cc:463).
RanksPermute == {rank[n] : n \in Allocated} = Allocated

\* Every edge of a finished insertion goes up in rank, also while another
\* insertion searches (CheckInvariants, "bad rank assignment").
EdgesRanked == \A e \in OldEdges : rank[e[1]] < rank[e[2]]

\* Between calls no mark and no list is left over.
SearchIdle == /\ \A n \in Node : ~visited[n]
              /\ deltaf = {} /\ deltab = {} /\ stack = {}
              /\ call = NoCall

InRegion(n) == rank[ny] <= rank[n] /\ rank[n] <= rank[nx]
Pending == call \in Node \X Node /\ ny \in out[nx] /\ rank[ny] < rank[nx]

\* The forward search: all it found is reachable from ny over old edges and
\* ranked below nx, and nothing a visited node leads to is forgotten.
SearchForward ==
  /\ Pending
  /\ \A n \in Node : visited[n] <=> n \in deltaf
  /\ deltab = {} /\ stack \cap deltaf = {}
  /\ ny \in stack \cup deltaf
  /\ \A n \in stack \cup deltaf : /\ InRegion(n) /\ n # nx
                                  /\ Reaches(OldEdges, Node, ny, n)
  /\ \A n \in deltaf : \A w \in out[n] : rank[nx] < rank[w] \/ w \in stack \cup deltaf

\* The backward search: it never meets the nodes of the forward one, and
\* nothing that leads to a visited node from above ny is forgotten.
SearchBackward ==
  /\ Pending
  /\ \A n \in Node : visited[n] <=> n \in deltaf \cup deltab
  /\ stack \cap deltab = {} /\ (stack \cup deltab) \cap deltaf = {}
  /\ ny \in deltaf /\ nx \in stack \cup deltab
  /\ \A n \in stack \cup deltab : InRegion(n)
  /\ \A n \in deltaf : /\ InRegion(n)
                       /\ \A w \in out[n] : rank[nx] < rank[w] \/ w \in deltaf
  /\ \A n \in deltab : \A w \in in[n] : rank[w] <= rank[ny] \/ w \in stack \cup deltab

\* InsertEdge's searches keep what Reorder and the cycle test rely on, and
\* leave no visited mark behind (CheckInvariants, "Did not clear visited").
SearchOK == CASE pc = "idle" -> SearchIdle
              [] pc = "forward" -> SearchForward
              [] pc = "backward" -> SearchBackward

\* The invariant of the calls together.
GraphOK == StoreOK /\ EdgesMirrored /\ RanksDistinct /\ EdgesRanked /\ SearchOK

\* A new edge moves only nodes ranked between its ends: those that lead to
\* its source go down, those its target leads to go up (graphcycles.cc:580).
OnlyRegionMoves ==
  [][\A n \in Allocated : rank'[n] # rank[n] =>
       /\ InRegion(n)
       /\ \/ n \in deltab /\ rank'[n] < rank[n]
          \/ n \in deltaf /\ rank'[n] > rank[n]]_vars

\* "The version number is incremented when the GraphId is freed which
\* automatically invalidates all copies of the GraphId" (graphcycles.cc:269).
FreedIdsAreInvalid == \A id \in Issued : Found(id) => masked_ptr[id[1]] # NoLock

-----------------------------------------------------------------------------
(* Refinement.                                                             *)

\* The edges as LockOrder sees them: by ids, without the one under way.
Order == {<<MakeId(e[1]), MakeId(e[2])>> : e \in OldEdges}
IdOf == [l \in Lock |-> IF ptrmap[l] = NoNode THEN NoCall ELSE MakeId(ptrmap[l])]

Abstract == INSTANCE LockOrder WITH NoId <- NoCall, idOf <- IdOf, issued <- Issued,
                                    order <- Order

\* What LockOrder promises is what this module does, step by step: an edge is
\* refused exactly when it would close a cycle, and a refusal changes nothing.
Refines == Abstract!Init /\ [][Abstract!Next]_(Abstract!vars)
=============================================================================
