------------------------- MODULE GraphCyclesProofs -------------------------
(***************************************************************************)
(* Theorems about GraphCycles and GraphPath, for every number of locks,    *)
(* nodes and versions and every length of the caller's array.  IndInv is   *)
(* inductive; the acyclicity of the graph, the implementation of LockOrder *)
(* and, with PathInv, what FindPath answers follow from it.                *)
(***************************************************************************)
EXTENDS GraphPath, NumberFacts, FunctionTheorems, SequenceTheorems

IndInv == TypeOK /\ GraphOK

-----------------------------------------------------------------------------
(* Facts about the operators.                                              *)

LEMMA NodeFacts == /\ Node \subseteq Int /\ NoNode \notin Node /\ NoCall \notin Node \X Node
                   /\ \A n \in Node : 0 <= n /\ n < MaxNodes
                   /\ \A n \in Int : 0 <= n /\ n < MaxNodes => n \in Node
                   /\ NoCall \notin Id
BY MaxNodesAssumption DEF Node, NoNode, NoCall, Id

LEMMA RankInt == ASSUME TypeOK PROVE \A n \in Node : rank[n] \in Int
BY NodeFacts DEF TypeOK

LEMMA AllocatedNodes == ASSUME TypeOK PROVE Allocated \subseteq Node
BY MaxNodesAssumption DEF TypeOK, Allocated, Node

\* A node of the graph: what a found id of a caller stands for.
LEMMA HandleFacts ==
  ASSUME TypeOK, StoreOK, NEW id \in Handle
  PROVE  /\ id \in Issued /\ id \in Id /\ id[1] \in Node /\ id[2] \in Version
         /\ id = <<id[1], id[2]>>
         /\ Found(id) => id = MakeId(id[1]) /\ masked_ptr[id[1]] # NoLock
<1>1. id \in Issued /\ id \in Id /\ ~(WornOut(id[1]) /\ Found(id))
  BY DEF Handle, Issued
<1>2. PICK n \in Node, v \in Version : id = <<n, v>>
  BY <1>1 DEF Id
<1>3. id[1] = n /\ id[2] = v
  BY <1>2
<1>4. n \in Allocated /\ (v < version[n] \/ n \notin free_nodes)
  BY <1>1, <1>3 DEF Issued
<1>5. version[n] \in Version
  BY DEF TypeOK
<1>6. Found(id) => n \notin free_nodes
  BY <1>3, <1>4, <1>5 DEF Found, Version
<1> QED
  BY <1>1, <1>2, <1>3, <1>4, <1>6 DEF Found, MakeId, WornOut

-----------------------------------------------------------------------------
(* Init and the calls of one step.                                         *)

LEMMA InitInv == Init => IndInv
<1> SUFFICES ASSUME Init PROVE IndInv
  OBVIOUS
<1> USE NodeFacts, NoLockAssumption, MaxNodesAssumption, MaxVersionAssumption
<1>1. TypeOK
  BY DEF Init, TypeOK, Version, NoCall, NoVerdict
<1>2. StoreOK /\ EdgesMirrored /\ RanksDistinct
  BY DEF Init, StoreOK, EdgesMirrored, RanksDistinct, Allocated
<1>3. EdgesRanked
  BY DEF Init, EdgesRanked, OldEdges, Edges
<1>4. SearchOK
  BY DEF Init, SearchOK, SearchIdle
<1> QED
  BY <1>1, <1>2, <1>3, <1>4 DEF IndInv, GraphOK

LEMMA GetIdFreshInv ==
  ASSUME IndInv, NEW l \in Lock, GetIdFresh(l)
  PROVE  IndInv'
<1> USE NodeFacts, NoLockAssumption, MaxNodesAssumption, MaxVersionAssumption
<1>0. /\ TypeOK /\ StoreOK /\ EdgesMirrored /\ RanksDistinct /\ EdgesRanked /\ SearchIdle
      /\ size \in Node
  BY DEF IndInv, GraphOK, GetIdFresh, SearchOK, TypeOK
<1>1. rank' = rank /\ version' = version /\ visited' = visited
  <2>1. size \notin Allocated /\ rank[size] = size /\ version[size] = 1 /\ visited[size] = FALSE
    BY <1>0 DEF TypeOK, StoreOK, SearchIdle, Allocated
  <2>2. \A f, S : f \in [Node -> S] => [f EXCEPT ![size] = f[size]] = f
    OBVIOUS
  <2> QED
    BY <2>1, <2>2, <1>0 DEF GetIdFresh, TypeOK
<1>2. TypeOK'
  BY <1>0, <1>1 DEF TypeOK, GetIdFresh, NoVerdict
<1>3. StoreOK'
  BY <1>0, <1>1 DEF TypeOK, StoreOK, GetIdFresh, Allocated
<1>4. EdgesMirrored' /\ RanksDistinct'
  BY <1>0, <1>1 DEF EdgesMirrored, RanksDistinct, GetIdFresh
<1>5. EdgesRanked'
  BY <1>0, <1>1 DEF EdgesRanked, OldEdges, Edges, GetIdFresh
<1>6. SearchOK'
  BY <1>0, <1>1 DEF SearchOK, SearchIdle, GetIdFresh
<1> QED
  BY <1>2, <1>3, <1>4, <1>5, <1>6 DEF IndInv, GraphOK

LEMMA GetIdReuseInv ==
  ASSUME IndInv, NEW l \in Lock, GetIdReuse(l)
  PROVE  IndInv'
<1> USE NodeFacts, NoLockAssumption, MaxNodesAssumption, MaxVersionAssumption
<1>0. TypeOK /\ StoreOK /\ EdgesMirrored /\ RanksDistinct /\ EdgesRanked /\ SearchIdle
  BY DEF IndInv, GraphOK, GetIdReuse, SearchOK
<1>1. PICK n \in free_nodes : /\ masked_ptr' = [masked_ptr EXCEPT ![n] = l]
                              /\ ptrmap' = [ptrmap EXCEPT ![l] = n]
                              /\ free_nodes' = free_nodes \ {n}
  BY DEF GetIdReuse
<1>2. TypeOK'
  BY <1>0, <1>1 DEF TypeOK, GetIdReuse, NoVerdict, search
<1>3. StoreOK'
  BY <1>0, <1>1 DEF TypeOK, StoreOK, GetIdReuse, Allocated
<1>4. EdgesMirrored' /\ RanksDistinct'
  BY <1>0 DEF EdgesMirrored, RanksDistinct, GetIdReuse
<1>5. EdgesRanked'
  BY <1>0 DEF EdgesRanked, OldEdges, Edges, GetIdReuse, search
<1>6. SearchOK'
  BY <1>0 DEF SearchOK, SearchIdle, GetIdReuse, search
<1> QED
  BY <1>2, <1>3, <1>4, <1>5, <1>6 DEF IndInv, GraphOK

\* Cut takes n out of the two edge sets alike.
LEMMA CutFacts ==
  ASSUME TypeOK, EdgesMirrored, NEW n \in Node
  PROVE  /\ Cut(out, n, in[n]) \in [Node -> SUBSET Node]
         /\ Cut(in, n, out[n]) \in [Node -> SUBSET Node]
         /\ \A a, b \in Node : b \in Cut(out, n, in[n])[a] <=> b \in out[a] /\ a # n /\ b # n
         /\ \A a, b \in Node : a \in Cut(in, n, out[n])[b] <=> a \in in[b] /\ a # n /\ b # n
BY DEF TypeOK, EdgesMirrored, Cut

LEMMA RemoveNodeInv ==
  ASSUME IndInv, NEW l \in Lock, RemoveNode(l)
  PROVE  IndInv'
<1> USE NodeFacts, NoLockAssumption, MaxNodesAssumption, MaxVersionAssumption
<1> DEFINE n == ptrmap[l]
<1>0. /\ TypeOK /\ StoreOK /\ EdgesMirrored /\ RanksDistinct /\ EdgesRanked /\ SearchIdle
      /\ n \in Node /\ n \in Allocated /\ masked_ptr[n] = l
  BY DEF IndInv, GraphOK, RemoveNode, SearchOK, TypeOK, StoreOK
<1> HIDE DEF n
<1>1. /\ in' = Cut(in, n, out[n])
      /\ out' = Cut(out, n, in[n])
      /\ masked_ptr' = [masked_ptr EXCEPT ![n] = NoLock]
      /\ version' = [version EXCEPT ![n] = NextVersion(n)]
      /\ free_nodes' = IF version[n] = MaxVersion THEN free_nodes ELSE free_nodes \cup {n}
      /\ ptrmap' = [ptrmap EXCEPT ![l] = NoNode]
      /\ size' = size /\ rank' = rank /\ visited' = visited /\ deltaf' = deltaf
      /\ deltab' = deltab /\ stack' = stack /\ pc' = pc /\ call' = call /\ pc = "idle"
      /\ verdict' = NoVerdict
  BY DEF RemoveNode, search, n
<1>2. /\ out' \in [Node -> SUBSET Node] /\ in' \in [Node -> SUBSET Node]
      /\ \A a, b \in Node : b \in out'[a] <=> b \in out[a] /\ a # n /\ b # n
      /\ \A a, b \in Node : a \in in'[b] <=> a \in in[b] /\ a # n /\ b # n
  BY <1>0, <1>1, CutFacts
<1>3. TypeOK'
  <2>1. NextVersion(n) \in Version
    BY <1>0 DEF NextVersion, Version, TypeOK
  <2> QED
    BY <2>1, <1>0, <1>1, <1>2 DEF TypeOK, NoVerdict
<1>4. StoreOK'
  <2>1. \A k \in Lock : ptrmap'[k] # NoNode => /\ ptrmap'[k] \in Allocated'
                                             /\ masked_ptr'[ptrmap'[k]] = k
    BY <1>0, <1>1 DEF TypeOK, StoreOK, Allocated
  <2>2. \A m \in Node : masked_ptr'[m] # NoLock => ptrmap'[masked_ptr'[m]] = m
    BY <1>0, <1>1 DEF TypeOK, StoreOK
  <2>3. \A m \in Node : masked_ptr'[m] = NoLock => in'[m] = {} /\ out'[m] = {}
    BY <1>0, <1>1 DEF TypeOK, StoreOK, EdgesMirrored, Cut
  <2>4. \A m \in free_nodes' : m \in Allocated' /\ masked_ptr'[m] = NoLock
    BY <1>0, <1>1 DEF TypeOK, StoreOK, Allocated
  <2>5. \A m \in Node \ Allocated' : masked_ptr'[m] = NoLock /\ version'[m] = 1 /\ rank'[m] = m
    BY <1>0, <1>1 DEF TypeOK, StoreOK, Allocated
  <2> QED
    BY <2>1, <2>2, <2>3, <2>4, <2>5 DEF StoreOK
<1>5. EdgesMirrored' /\ RanksDistinct'
  BY <1>0, <1>1, <1>2 DEF EdgesMirrored, RanksDistinct
<1>6. EdgesRanked'
  BY <1>0, <1>1, <1>2 DEF EdgesRanked, OldEdges, Edges
<1>7. SearchOK'
  BY <1>0, <1>1 DEF SearchOK, SearchIdle
<1> QED
  BY <1>3, <1>4, <1>5, <1>6, <1>7 DEF IndInv, GraphOK

LEMMA RemoveEdgeInv ==
  ASSUME IndInv, NEW idx \in Handle, NEW idy \in Handle, RemoveEdge(idx, idy)
  PROVE  IndInv'
<1> USE NodeFacts
<1> DEFINE a == idx[1]
           b == idy[1]
<1>0. /\ TypeOK /\ StoreOK /\ EdgesMirrored /\ RanksDistinct /\ EdgesRanked /\ SearchIdle
      /\ a \in Node /\ b \in Node
  BY HandleFacts DEF IndInv, GraphOK, RemoveEdge, SearchOK
<1>1. EraseEdge(a, b) /\ verdict' = NoVerdict
  BY DEF RemoveEdge
<1> HIDE DEF a, b
<1>2. TypeOK'
  <2>1. out' \in [Node -> SUBSET Node] /\ in' \in [Node -> SUBSET Node]
    BY <1>0, <1>1 DEF TypeOK, EraseEdge
  <2> QED
    BY <1>0, <1>1, <2>1 DEF TypeOK, RemoveEdge, store, search
<1>3. StoreOK'
  BY <1>0, <1>1 DEF TypeOK, StoreOK, RemoveEdge, EraseEdge, Allocated, store
<1>4. EdgesMirrored' /\ RanksDistinct'
  BY <1>0, <1>1 DEF TypeOK, EdgesMirrored, RanksDistinct, RemoveEdge, EraseEdge
<1>5. EdgesRanked'
  BY <1>0, <1>1 DEF TypeOK, EdgesRanked, OldEdges, Edges, RemoveEdge, EraseEdge, search
<1>6. SearchOK'
  BY <1>0 DEF SearchOK, SearchIdle, RemoveEdge, search
<1> QED
  BY <1>2, <1>3, <1>4, <1>5, <1>6 DEF IndInv, GraphOK

\* The answer of an insertion is about two ids.
LEMMA AnswerType ==
  ASSUME NEW idx \in Id, NEW idy \in Id, NEW ok \in BOOLEAN, Answer(idx, idy, ok)
  PROVE  verdict' \in {NoVerdict} \cup [edge : Id \X Id, ok : BOOLEAN]
BY DEF Answer

\* An insertion that only answers.
LEMMA InsertAnswerInv ==
  ASSUME IndInv, NEW idx \in Handle, NEW idy \in Handle,
         InsertExpired(idx, idy) \/ InsertSelf(idx, idy) \/ InsertExisting(idx, idy)
  PROVE  IndInv'
<1>1. /\ UNCHANGED <<store, rank, in, out, search>>
      /\ \E ok \in BOOLEAN : Answer(idx, idy, ok)
  BY DEF InsertExpired, InsertSelf, InsertExisting
<1>2. TypeOK'
  <2>1. verdict' \in {NoVerdict} \cup [edge : Id \X Id, ok : BOOLEAN]
    BY <1>1, HandleFacts, AnswerType DEF IndInv, GraphOK
  <2> QED
    BY <1>1, <2>1 DEF IndInv, TypeOK, store, search
<1>3. GraphOK'
  <2>1. StoreOK' /\ EdgesMirrored' /\ RanksDistinct'
    BY <1>1 DEF IndInv, GraphOK, StoreOK, EdgesMirrored, RanksDistinct, Allocated, store
  <2>2. EdgesRanked'
    BY <1>1 DEF IndInv, GraphOK, EdgesRanked, OldEdges, Edges, search
  <2>3. pc = "idle" /\ SearchIdle
    BY DEF IndInv, GraphOK, SearchOK, InsertExpired, InsertSelf, InsertExisting
  <2>4. SearchOK'
    BY <1>1, <2>3 DEF SearchOK, SearchIdle, search
  <2> QED
    BY <2>1, <2>2, <2>4 DEF GraphOK
<1> QED
  BY <1>2, <1>3 DEF IndInv

\* Two found nodes and an edge that is not there yet.
LEMMA NewEdgeFacts ==
  ASSUME IndInv, NEW idx \in Handle, NEW idy \in Handle, IsNewEdge(idx, idy)
  PROVE  /\ TypeOK /\ StoreOK /\ EdgesMirrored /\ RanksDistinct /\ EdgesRanked /\ SearchIdle
         /\ idx[1] \in Node /\ idy[1] \in Node /\ idx[1] # idy[1]
         /\ masked_ptr[idx[1]] # NoLock /\ masked_ptr[idy[1]] # NoLock
         /\ idx \in Id /\ idy \in Id /\ OldEdges = Edges
<1>1. TypeOK /\ StoreOK /\ EdgesMirrored /\ RanksDistinct /\ EdgesRanked /\ SearchIdle
  BY DEF IndInv, GraphOK, SearchOK, IsNewEdge
<1>2. /\ idx[1] \in Node /\ idy[1] \in Node /\ idx \in Id /\ idy \in Id
      /\ masked_ptr[idx[1]] # NoLock /\ masked_ptr[idy[1]] # NoLock
      /\ idx = MakeId(idx[1]) /\ idy = MakeId(idy[1])
  BY <1>1, HandleFacts DEF IsNewEdge
<1>3. OldEdges = Edges
  BY <1>1, NodeFacts DEF OldEdges, Edges, SearchIdle
<1> QED
  BY <1>1, <1>2, <1>3 DEF IsNewEdge

LEMMA AddEdgeFacts ==
  ASSUME TypeOK, StoreOK, EdgesMirrored, NEW a \in Node, NEW b \in Node,
         masked_ptr[a] # NoLock, masked_ptr[b] # NoLock,
         AddEdge(a, b), UNCHANGED store, rank' = rank
  PROVE  /\ out' \in [Node -> SUBSET Node] /\ in' \in [Node -> SUBSET Node]
         /\ StoreOK' /\ EdgesMirrored'
         /\ Edges' = Edges \cup {<<a, b>>}
<1>1. out' \in [Node -> SUBSET Node] /\ in' \in [Node -> SUBSET Node]
  BY DEF TypeOK, AddEdge
<1>2. StoreOK'
  BY DEF TypeOK, StoreOK, AddEdge, Allocated, store
<1>3. EdgesMirrored'
  BY DEF TypeOK, EdgesMirrored, AddEdge
<1>4. Edges' = Edges \cup {<<a, b>>}
  <2>1. \A m, n \in Node : n \in out'[m] <=> n \in out[m] \/ (m = a /\ n = b)
    BY DEF TypeOK, AddEdge
  <2> QED
    BY <2>1 DEF Edges
<1> QED
  BY <1>1, <1>2, <1>3, <1>4

LEMMA InsertConsistentInv ==
  ASSUME IndInv, NEW idx \in Handle, NEW idy \in Handle, InsertConsistent(idx, idy)
  PROVE  IndInv'
<1> DEFINE a == idx[1]
           b == idy[1]
<1>0. /\ TypeOK /\ StoreOK /\ EdgesMirrored /\ RanksDistinct /\ EdgesRanked /\ SearchIdle
      /\ a \in Node /\ b \in Node /\ a # b /\ masked_ptr[a] # NoLock /\ masked_ptr[b] # NoLock
      /\ idx \in Id /\ idy \in Id /\ OldEdges = Edges
  BY NewEdgeFacts DEF InsertConsistent
<1>1. /\ AddEdge(a, b) /\ rank[a] <= rank[b]
      /\ UNCHANGED store /\ rank' = rank /\ UNCHANGED search /\ Answer(idx, idy, TRUE)
      /\ pc = "idle"
  BY DEF InsertConsistent, IsNewEdge
<1> HIDE DEF a, b
<1>2. /\ out' \in [Node -> SUBSET Node] /\ in' \in [Node -> SUBSET Node]
      /\ StoreOK' /\ EdgesMirrored' /\ Edges' = Edges \cup {<<a, b>>}
  BY <1>0, <1>1, AddEdgeFacts
<1>3. TypeOK'
  BY <1>0, <1>1, <1>2, AnswerType DEF TypeOK, store, search
<1>4. RanksDistinct'
  BY <1>0, <1>1 DEF RanksDistinct
<1>5. EdgesRanked'
  <2>1. rank[a] < rank[b]
    BY <1>0, <1>1, RankInt DEF RanksDistinct
  <2>2. OldEdges' \subseteq OldEdges \cup {<<a, b>>}
    BY <1>0, <1>2 DEF OldEdges
  <2> QED
    BY <1>0, <1>1, <2>1, <2>2 DEF EdgesRanked
<1>6. SearchOK'
  BY <1>0, <1>1 DEF SearchOK, SearchIdle, search
<1> QED
  BY <1>2, <1>3, <1>4, <1>5, <1>6 DEF IndInv, GraphOK

LEMMA InsertSearchInv ==
  ASSUME IndInv, NEW idx \in Handle, NEW idy \in Handle, InsertSearch(idx, idy)
  PROVE  IndInv'
<1> DEFINE a == idx[1]
           b == idy[1]
<1>0. /\ TypeOK /\ StoreOK /\ EdgesMirrored /\ RanksDistinct /\ EdgesRanked /\ SearchIdle
      /\ a \in Node /\ b \in Node /\ a # b /\ masked_ptr[a] # NoLock /\ masked_ptr[b] # NoLock
      /\ idx \in Id /\ idy \in Id /\ OldEdges = Edges
  BY NewEdgeFacts DEF InsertSearch
<1>1. /\ AddEdge(a, b) /\ rank[a] > rank[b] /\ b \notin out[a]
      /\ UNCHANGED store /\ rank' = rank /\ UNCHANGED <<visited, deltab, verdict>>
      /\ call' = <<a, b>> /\ pc' = "forward" /\ deltaf' = {} /\ stack' = {b}
  BY DEF InsertSearch, IsNewEdge
<1> HIDE DEF a, b
<1>2. /\ out' \in [Node -> SUBSET Node] /\ in' \in [Node -> SUBSET Node]
      /\ StoreOK' /\ EdgesMirrored' /\ Edges' = Edges \cup {<<a, b>>}
  BY <1>0, <1>1, AddEdgeFacts
<1>3. TypeOK'
  BY <1>0, <1>1, <1>2 DEF TypeOK, store
<1>4. RanksDistinct'
  BY <1>0, <1>1 DEF RanksDistinct
<1>5. EdgesRanked'
  BY <1>0, <1>1, <1>2 DEF EdgesRanked, OldEdges
<1>6. SearchOK'
  <2>1. nx' = a /\ ny' = b
    BY <1>1 DEF nx, ny
  <2>2. Pending'
    BY <1>0, <1>1, <2>1, NodeFacts DEF Pending, TypeOK, AddEdge
  <2>3. Reaches(OldEdges', Node, b, b)
    BY DEF Reaches
  <2>4. InRegion(b)' /\ b # a
    BY <1>0, <1>1, <2>1, RankInt DEF InRegion
  <2>5. /\ \A n \in Node : visited'[n] <=> n \in deltaf'
        /\ deltab' = {} /\ stack' \cap deltaf' = {}
    BY <1>0, <1>1 DEF SearchIdle
  <2>6. SearchForward'
    BY <1>1, <2>1, <2>2, <2>3, <2>4, <2>5 DEF SearchForward
  <2> QED
    BY <1>1, <2>6 DEF SearchOK
<1> QED
  BY <1>2, <1>3, <1>4, <1>5, <1>6 DEF IndInv, GraphOK

-----------------------------------------------------------------------------
(* The two searches.                                                       *)

\* One more edge along a path.
LEMMA ReachesStep ==
  ASSUME NEW E, NEW N, NEW a, NEW b, NEW c, Reaches(E, N, a, b), <<b, c>> \in E
  PROVE  Reaches(E, N, a, c)
BY DEF Reaches, Closed

\* While a search runs: its ends are nodes, and an edge that does not leave
\* nx goes up in rank.
LEMMA SearchFacts ==
  ASSUME IndInv, Pending
  PROVE  /\ nx \in Node /\ ny \in Node /\ call = <<nx, ny>> /\ rank[ny] < rank[nx]
         /\ \A m, n \in Node : m \in out[n] => n # m
         /\ \A m, n \in Node : m \in out[n] /\ n # nx =>
               <<n, m>> \in OldEdges /\ rank[n] < rank[m]
         /\ \A m, n \in Node : m \in out[n] /\ m # ny =>
               <<n, m>> \in OldEdges /\ rank[n] < rank[m]
<1>1. nx \in Node /\ ny \in Node /\ call = <<nx, ny>> /\ rank[ny] < rank[nx]
  BY DEF Pending, nx, ny
<1>2. ASSUME NEW m \in Node, NEW n \in Node, m \in out[n], n # nx \/ m # ny
      PROVE  <<n, m>> \in OldEdges /\ rank[n] < rank[m]
  <2>1. <<n, m>> \in OldEdges
    BY <1>1, <1>2 DEF OldEdges, Edges
  <2> QED
    BY <2>1 DEF EdgesRanked, IndInv, GraphOK
<1>3. \A n \in Node : rank[n] \in Int
  BY RankInt DEF IndInv
<1>4. ASSUME NEW m \in Node, NEW n \in Node, m \in out[n]
      PROVE  n # m
  <2>1. nx # ny
    BY <1>1, <1>3
  <2>2. n = m => rank[n] < rank[m]
    BY <1>2, <1>4, <2>1
  <2> QED
    BY <1>3, <2>2
<1> QED
  BY <1>1, <1>2, <1>4

\* A search step changes neither the store nor the edges nor the ranks.
LEMMA SearchStepKeeps ==
  ASSUME IndInv, UNCHANGED <<store, rank, in, out, call, verdict>>
  PROVE  StoreOK' /\ EdgesMirrored' /\ RanksDistinct' /\ EdgesRanked' /\ OldEdges' = OldEdges
<1>1. StoreOK' /\ EdgesMirrored' /\ RanksDistinct'
  BY DEF IndInv, GraphOK, StoreOK, EdgesMirrored, RanksDistinct, Allocated, store
<1>2. OldEdges' = OldEdges
  BY DEF OldEdges, Edges
<1>3. EdgesRanked'
  BY <1>2 DEF IndInv, GraphOK, EdgesRanked
<1> QED
  BY <1>1, <1>2, <1>3

LEMMA ForwardVisitInv ==
  ASSUME IndInv, NEW n \in Node, ForwardVisit(n)
  PROVE  IndInv'
<1>0. TypeOK /\ EdgesMirrored /\ RanksDistinct /\ SearchForward /\ Pending /\ n \in stack
  BY DEF IndInv, GraphOK, ForwardVisit, SearchOK, SearchForward
<1>1. /\ \A w \in out[n] : rank[w] # rank[nx]
      /\ visited' = [visited EXCEPT ![n] = TRUE]
      /\ deltaf' = deltaf \cup {n}
      /\ stack' = (stack \ {n}) \cup Ahead(n)
      /\ UNCHANGED <<store, rank, in, out, call, verdict>>
      /\ deltab' = deltab /\ pc' = pc /\ pc = "forward"
  BY DEF ForwardVisit, Visit
<1>2. /\ StoreOK' /\ EdgesMirrored' /\ RanksDistinct' /\ EdgesRanked' /\ OldEdges' = OldEdges
      /\ nx' = nx /\ ny' = ny
  BY <1>1, SearchStepKeeps DEF nx, ny
<1>3. \A m \in Node : rank[m] \in Int
  BY <1>0, RankInt
<1>4. out[n] \subseteq Node /\ Ahead(n) \subseteq Node
  BY <1>0 DEF TypeOK, Ahead
<1>5. TypeOK'
  BY <1>0, <1>1, <1>4 DEF TypeOK, store
<1>6. n # nx /\ InRegion(n) /\ Reaches(OldEdges, Node, ny, n)
  BY <1>0 DEF SearchForward
<1>7. SearchForward'
  <2>1. Pending'
    BY <1>0, <1>1, <1>2 DEF Pending
  <2>2. \A m \in Node : visited'[m] <=> m \in deltaf'
    BY <1>0, <1>1 DEF SearchForward, TypeOK
  <2>3. deltab' = {} /\ stack' \cap deltaf' = {}
    BY <1>0, <1>1, <1>4 DEF SearchForward, Ahead
  <2>4. ny \in stack' \cup deltaf'
    BY <1>0, <1>1 DEF SearchForward
  <2>5. ASSUME NEW w \in Ahead(n)
        PROVE  InRegion(w) /\ w # nx /\ Reaches(OldEdges, Node, ny, w)
    <3>1. w \in Node /\ w \in out[n] /\ rank[w] < rank[nx]
      BY <1>4 DEF Ahead
    <3>2. <<n, w>> \in OldEdges /\ rank[n] < rank[w] /\ nx \in Node /\ ny \in Node
      BY <1>0, <1>6, <3>1, SearchFacts
    <3>3. Reaches(OldEdges, Node, ny, w)
      BY <1>6, <3>2, ReachesStep
    <3> QED
      BY <1>3, <1>6, <3>1, <3>2, <3>3 DEF InRegion
  <2>6. \A m \in stack' \cup deltaf' : InRegion(m) /\ m # nx /\ Reaches(OldEdges, Node, ny, m)
    <3>1. stack' \cup deltaf' \subseteq (stack \cup deltaf) \cup Ahead(n)
      BY <1>0, <1>1
    <3>2. \A m \in stack \cup deltaf : InRegion(m) /\ m # nx /\ Reaches(OldEdges, Node, ny, m)
      BY <1>0 DEF SearchForward
    <3> QED
      BY <2>5, <3>1, <3>2
  <2>7. \A m \in deltaf' : \A w \in out'[m] : rank'[nx'] < rank'[w] \/ w \in stack' \cup deltaf'
    <3>1. ASSUME NEW w \in out[n]
          PROVE  rank[nx] < rank[w] \/ w \in stack' \cup deltaf'
      <4>1. w \in Node /\ nx \in Node /\ rank[w] # rank[nx]
        BY <1>0, <1>1, <1>4, SearchFacts
      <4>2. CASE rank[w] < rank[nx] /\ ~visited[w] /\ w # n
        BY <1>1, <4>2 DEF Ahead
      <4>3. CASE visited[w] \/ w = n
        BY <1>0, <1>1, <4>1, <4>3 DEF SearchForward
      <4> QED
        BY <1>3, <4>1, <4>2, <4>3
    <3>2. ASSUME NEW m \in deltaf, NEW w \in out[m]
          PROVE  rank[nx] < rank[w] \/ w \in stack' \cup deltaf'
      BY <1>0, <1>1 DEF SearchForward
    <3> QED
      BY <1>1, <1>2, <3>1, <3>2
  <2>8. \A m : InRegion(m)' <=> InRegion(m)
    BY <1>1, <1>2 DEF InRegion
  <2> QED
    BY <1>2, <2>1, <2>2, <2>3, <2>4, <2>6, <2>7, <2>8 DEF SearchForward
<1> QED
  BY <1>1, <1>2, <1>5, <1>7 DEF IndInv, GraphOK, SearchOK

LEMMA ForwardDoneInv ==
  ASSUME IndInv, ForwardDone
  PROVE  IndInv'
<1>0. TypeOK /\ SearchForward /\ Pending
  BY DEF IndInv, GraphOK, ForwardDone, SearchOK, SearchForward
<1>1. /\ stack = {} /\ pc' = "backward" /\ deltab' = {} /\ stack' = {nx}
      /\ UNCHANGED <<store, rank, in, out, call, verdict>>
      /\ visited' = visited /\ deltaf' = deltaf
  BY DEF ForwardDone
<1>2. /\ StoreOK' /\ EdgesMirrored' /\ RanksDistinct' /\ EdgesRanked'
      /\ nx' = nx /\ ny' = ny /\ nx \in Node /\ ny \in Node
  BY <1>0, <1>1, SearchStepKeeps, SearchFacts DEF nx, ny
<1>3. TypeOK'
  BY <1>0, <1>1, <1>2 DEF TypeOK, store
<1>4. SearchBackward'
  <2>1. Pending'
    BY <1>0, <1>1, <1>2 DEF Pending
  <2>2. InRegion(nx) /\ nx \notin deltaf
    BY <1>0, <1>2, RankInt DEF InRegion, Pending, SearchForward
  <2>3. \A m : InRegion(m)' <=> InRegion(m)
    BY <1>1, <1>2 DEF InRegion
  <2> QED
    BY <1>0, <1>1, <1>2, <2>1, <2>2, <2>3 DEF SearchForward, SearchBackward
<1> QED
  BY <1>1, <1>2, <1>3, <1>4 DEF IndInv, GraphOK, SearchOK

LEMMA BackwardVisitInv ==
  ASSUME IndInv, NEW n \in Node, BackwardVisit(n)
  PROVE  IndInv'
<1>0. TypeOK /\ EdgesMirrored /\ RanksDistinct /\ SearchBackward /\ Pending /\ n \in stack
  BY DEF IndInv, GraphOK, BackwardVisit, SearchOK, SearchBackward
<1>1. /\ visited' = [visited EXCEPT ![n] = TRUE]
      /\ deltab' = deltab \cup {n}
      /\ stack' = (stack \ {n}) \cup Behind(n)
      /\ UNCHANGED <<store, rank, in, out, call, verdict>>
      /\ deltaf' = deltaf /\ pc' = pc /\ pc = "backward"
  BY DEF BackwardVisit, Visit
<1>2. /\ StoreOK' /\ EdgesMirrored' /\ RanksDistinct' /\ EdgesRanked'
      /\ nx' = nx /\ ny' = ny /\ nx \in Node /\ ny \in Node
  BY <1>0, <1>1, SearchStepKeeps, SearchFacts DEF nx, ny
<1>3. \A m \in Node : rank[m] \in Int
  BY <1>0, RankInt
<1>4. in[n] \subseteq Node /\ Behind(n) \subseteq Node
  BY <1>0 DEF TypeOK, Behind
<1>5. TypeOK'
  BY <1>0, <1>1, <1>4 DEF TypeOK, store
<1>6. InRegion(n) /\ n \notin deltaf /\ n # ny
  BY <1>0 DEF SearchBackward
<1>7. SearchBackward'
  <2>1. Pending'
    BY <1>0, <1>1, <1>2 DEF Pending
  <2>2. \A m \in Node : visited'[m] <=> m \in deltaf' \cup deltab'
    BY <1>0, <1>1 DEF SearchBackward, TypeOK
  <2>3. stack' \cap deltab' = {}
    BY <1>0, <1>1, <1>4 DEF SearchBackward, Behind
  <2>4. ASSUME NEW w \in Behind(n)
        PROVE  InRegion(w) /\ w \notin deltaf
    <3>1. w \in Node /\ n \in out[w] /\ rank[ny] < rank[w] /\ ~visited[w]
      BY <1>0, <1>4 DEF Behind, EdgesMirrored
    <3>2. rank[w] < rank[n]
      BY <1>0, <1>6, <3>1, SearchFacts
    <3> QED
      BY <1>0, <1>2, <1>3, <1>6, <3>1, <3>2 DEF InRegion, SearchBackward
  <2>5. (stack' \cup deltab') \cap deltaf' = {}
    BY <1>0, <1>1, <1>6, <2>4 DEF SearchBackward
  <2>6. ny \in deltaf' /\ nx \in stack' \cup deltab'
    BY <1>0, <1>1 DEF SearchBackward
  <2>7. \A m : InRegion(m)' <=> InRegion(m)
    BY <1>1, <1>2 DEF InRegion
  <2>8. \A m \in stack' \cup deltab' : InRegion(m)
    BY <1>0, <1>1, <1>6, <2>4 DEF SearchBackward
  <2>9. \A m \in deltaf' : InRegion(m) /\ \A w \in out'[m] : rank'[nx] < rank'[w] \/ w \in deltaf'
    BY <1>0, <1>1 DEF SearchBackward
  <2>10. \A m \in deltab' : \A w \in in'[m] : rank'[w] <= rank'[ny] \/ w \in stack' \cup deltab'
    <3>1. ASSUME NEW w \in in[n]
          PROVE  rank[w] <= rank[ny] \/ w \in stack' \cup deltab'
      <4>1. w \in Node /\ n \in out[w] /\ w # n
        BY <1>0, <1>4, SearchFacts DEF EdgesMirrored
      <4>2. CASE rank[ny] < rank[w] /\ ~visited[w]
        BY <1>1, <4>1, <4>2 DEF Behind
      <4>3. CASE w \in deltab
        BY <1>1, <4>3
      <4>4. w \notin deltaf
        \* The forward search is closed: it would have met n.
        <5>1. SUFFICES ASSUME w \in deltaf PROVE FALSE
          OBVIOUS
        <5>2. rank[nx] < rank[n] \/ n \in deltaf
          BY <1>0, <4>1, <5>1 DEF SearchBackward
        <5> QED
          BY <1>2, <1>3, <1>6, <5>2 DEF InRegion
      <4> QED
        BY <1>0, <1>2, <1>3, <4>1, <4>2, <4>3, <4>4 DEF SearchBackward
    <3>2. ASSUME NEW m \in deltab, NEW w \in in[m]
          PROVE  rank[w] <= rank[ny] \/ w \in stack' \cup deltab'
      BY <1>0, <1>1 DEF SearchBackward
    <3> QED
      BY <1>1, <1>2, <3>1, <3>2
  <2> QED
    BY <1>2, <2>1, <2>2, <2>3, <2>5, <2>6, <2>7, <2>8, <2>9, <2>10 DEF SearchBackward
<1> QED
  BY <1>1, <1>2, <1>5, <1>7 DEF IndInv, GraphOK, SearchOK

\* The ids an answer is about.
LEMMA CallIds ==
  ASSUME TypeOK, Pending
  PROVE  MakeId(nx) \in Id /\ MakeId(ny) \in Id
BY DEF TypeOK, Pending, MakeId, Id, nx, ny

LEMMA ForwardCycleInv ==
  ASSUME IndInv, NEW n \in Node, ForwardCycle(n)
  PROVE  IndInv'
<1>0. /\ TypeOK /\ StoreOK /\ EdgesMirrored /\ RanksDistinct /\ EdgesRanked
      /\ SearchForward /\ Pending
      /\ nx \in Node /\ ny \in Node /\ call = <<nx, ny>>
  BY SearchFacts DEF IndInv, GraphOK, ForwardCycle, SearchOK, SearchForward
<1>1. /\ EraseEdge(nx, ny)
      /\ visited' = [m \in Node |-> visited[m] /\ m \notin deltaf \cup {n}]
      /\ pc' = "idle" /\ call' = NoCall
      /\ deltaf' = {} /\ deltab' = {} /\ stack' = {}
      /\ Answer(MakeId(nx), MakeId(ny), FALSE)
      /\ UNCHANGED <<store, rank>>
  BY DEF ForwardCycle, Unvisit, Finish
<1>2. out' \in [Node -> SUBSET Node] /\ in' \in [Node -> SUBSET Node]
  BY <1>0, <1>1 DEF TypeOK, EraseEdge
<1>3. TypeOK'
  <2>1. verdict' \in {NoVerdict} \cup [edge : Id \X Id, ok : BOOLEAN]
    BY <1>0, <1>1, CallIds, AnswerType
  <2>2. visited' \in [Node -> BOOLEAN]
    BY <1>0, <1>1 DEF TypeOK
  <2> QED
    BY <1>0, <1>1, <1>2, <2>1, <2>2 DEF TypeOK, store
<1>4. StoreOK'
  BY <1>0, <1>1 DEF TypeOK, StoreOK, EraseEdge, Allocated, store
<1>5. EdgesMirrored' /\ RanksDistinct'
  BY <1>0, <1>1 DEF TypeOK, EdgesMirrored, RanksDistinct, EraseEdge
<1>6. OldEdges' = OldEdges
  <2>1. \A a, b \in Node : b \in out'[a] <=> b \in out[a] /\ <<a, b>> # call
    BY <1>0, <1>1 DEF TypeOK, EraseEdge
  <2>2. Edges' = Edges \ {call}
    BY <2>1 DEF Edges
  <2> QED
    BY <1>1, <2>2, NodeFacts DEF OldEdges, Edges
<1>7. EdgesRanked'
  BY <1>0, <1>1, <1>6 DEF EdgesRanked
<1>8. SearchOK'
  BY <1>0, <1>1 DEF SearchOK, SearchIdle, SearchForward
<1> QED
  BY <1>3, <1>4, <1>5, <1>7, <1>8 DEF IndInv, GraphOK

-----------------------------------------------------------------------------
(* Reorder.                                                                *)

LEMMA NoShrink ==
  ASSUME NEW T, IsFiniteSet(T), NEW n \in T, NEW g \in [T -> T \ {n}]
  PROVE  \E a, b \in T : a # b /\ g[a] = g[b]
<1>1. /\ IsFiniteSet(T \ {n}) /\ Cardinality(T \ {n}) = Cardinality(T) - 1
      /\ Cardinality(T) \in Nat
  BY FS_RemoveElement, FS_CardinalityType
<1>2. Cardinality(T \ {n}) < Cardinality(T)
  BY <1>1
<1> QED
  BY <1>1, <1>2, FS_PigeonHole

LEMMA RegionFacts ==
  ASSUME IndInv, pc = "backward"
  PROVE  /\ TypeOK /\ SearchBackward /\ Pending
         /\ Region \subseteq Node /\ IsFiniteSet(Region) /\ deltab \cap deltaf = {}
         /\ \A n \in Node : rank[n] \in Int
         /\ \A m, n \in Region : m # n => Before(m, n) \/ Before(n, m)
<1>1. TypeOK /\ SearchBackward /\ Pending /\ RanksDistinct
  BY DEF IndInv, GraphOK, SearchOK, SearchBackward
<1>2. Region \subseteq Node
  BY <1>1 DEF Region, TypeOK
<1>3. IsFiniteSet(Region)
  <2>1. IsFiniteSet(Node)
    BY MaxNodesAssumption, FS_Interval DEF Node
  <2> QED
    BY <1>2, <2>1, FS_Subset
<1>4. deltab \cap deltaf = {}
  BY <1>1 DEF SearchBackward
<1>5. \A n \in Node : rank[n] \in Int
  BY <1>1, RankInt
<1>6. ASSUME NEW m \in Region, NEW n \in Region, m # n
      PROVE  Before(m, n) \/ Before(n, m)
  <2>1. rank[m] < rank[n] \/ rank[n] < rank[m]
    BY <1>1, <1>2, <1>5, <1>6 DEF RanksDistinct
  <2> QED
    BY <2>1 DEF Before, Region
<1> QED
  BY <1>1, <1>2, <1>3, <1>4, <1>5, <1>6

\* The new ranks are old ranks of the region, and distinct.
LEMMA RerankFacts ==
  ASSUME IndInv, pc = "backward", NEW nr \in Rerank
  PROVE  /\ \A m \in Region : \E k \in Region : nr[m] = rank[k]
         /\ \A m \in Region : nr[m] \in Node /\ nr[m] \in Int
         /\ \A m, n \in Region : Before(m, n) => nr[m] < nr[n]
         /\ \A m, n \in Region : nr[m] = nr[n] => m = n
<1>1. /\ \A m \in Region : nr[m] \in Merged
      /\ \A m, n \in Region : Before(m, n) => nr[m] < nr[n]
  BY DEF Rerank
<1>2. \A m \in Region : \E k \in Region : nr[m] = rank[k]
  BY <1>1 DEF Merged
<1>3. \A m \in Region : nr[m] \in Node /\ nr[m] \in Int
  BY <1>2, RegionFacts, NodeFacts DEF TypeOK
<1>4. \A m, n \in Region : nr[m] = nr[n] => m = n
  BY <1>1, <1>3, RegionFacts
<1> QED
  BY <1>1, <1>2, <1>3, <1>4

\* A node that leads to nx is not moved up: were it, the nodes listed from it
\* on would have to fit into the ranks of those listed after it.
LEMMA BackwardMovesDown ==
  ASSUME IndInv, pc = "backward", NEW nr \in Rerank, NEW n \in deltab
  PROVE  nr[n] <= rank[n]
<1>1. /\ n \in Region /\ n \in Node /\ rank[n] \in Int /\ nr[n] \in Int
  BY RegionFacts, RerankFacts DEF Region
<1>2. SUFFICES ASSUME rank[n] < nr[n] PROVE FALSE
  BY <1>1
<1> DEFINE T == {m \in Region : m = n \/ Before(n, m)}
           g == [m \in T |-> CHOOSE k \in Region : nr[m] = rank[k]]
<1>3. IsFiniteSet(T) /\ n \in T
  BY <1>1, RegionFacts, FS_Subset
<1>4. ASSUME NEW m \in T
      PROVE  g[m] \in T \ {n} /\ rank[g[m]] = nr[m]
  <2>1. g[m] \in Region /\ rank[g[m]] = nr[m]
    BY RerankFacts
  <2>2. nr[n] <= nr[m]
    BY <1>1, RerankFacts
  <2>3. rank[n] < rank[g[m]]
    BY <1>1, <1>2, <2>1, <2>2, RerankFacts
  <2>4. g[m] # n
    <3>1. \A k : rank[n] < rank[k] => k # n
      BY <1>1
    <3> HIDE DEF g
    <3> QED
      BY <2>3, <3>1
  <2>5. Before(n, g[m])
    BY <2>1, <2>3 DEF Before, Region
  <2> QED
    BY <2>1, <2>4, <2>5
<1>5. g \in [T -> T \ {n}]
  BY <1>4
<1>6. PICK a, b \in T : a # b /\ g[a] = g[b]
  <2> HIDE DEF T, g
  <2> QED
    BY <1>3, <1>5, NoShrink
<1>7. nr[a] = nr[b]
  BY <1>4, <1>6
<1> QED
  BY <1>6, <1>7, RerankFacts

\* Symmetrically, a node ny leads to is not moved down.
LEMMA ForwardMovesUp ==
  ASSUME IndInv, pc = "backward", NEW nr \in Rerank, NEW n \in deltaf
  PROVE  rank[n] <= nr[n]
<1>1. /\ n \in Region /\ n \in Node /\ rank[n] \in Int /\ nr[n] \in Int
  BY RegionFacts, RerankFacts DEF Region
<1>2. SUFFICES ASSUME nr[n] < rank[n] PROVE FALSE
  BY <1>1
<1> DEFINE T == {m \in Region : m = n \/ Before(m, n)}
           g == [m \in T |-> CHOOSE k \in Region : nr[m] = rank[k]]
<1>3. IsFiniteSet(T) /\ n \in T
  BY <1>1, RegionFacts, FS_Subset
<1>4. ASSUME NEW m \in T
      PROVE  g[m] \in T \ {n} /\ rank[g[m]] = nr[m]
  <2>1. g[m] \in Region /\ rank[g[m]] = nr[m]
    BY RerankFacts
  <2>2. nr[m] <= nr[n]
    BY <1>1, RerankFacts
  <2>3. rank[g[m]] < rank[n]
    BY <1>1, <1>2, <2>1, <2>2, RerankFacts
  <2>4. g[m] # n
    <3>1. \A k : rank[k] < rank[n] => k # n
      BY <1>1
    <3> HIDE DEF g
    <3> QED
      BY <2>3, <3>1
  <2>5. Before(g[m], n)
    BY <2>1, <2>3 DEF Before, Region
  <2> QED
    BY <2>1, <2>4, <2>5
<1>5. g \in [T -> T \ {n}]
  BY <1>4
<1>6. PICK a, b \in T : a # b /\ g[a] = g[b]
  <2> HIDE DEF T, g
  <2> QED
    BY <1>3, <1>5, NoShrink
<1>7. nr[a] = nr[b]
  BY <1>4, <1>6
<1> QED
  BY <1>6, <1>7, RerankFacts

LEMMA AllocatedRanks ==
  ASSUME TypeOK, StoreOK, RanksDistinct, NEW n \in Node
  PROVE  n \in Allocated <=> rank[n] \in Allocated
<1>1. \A m \in Node \ Allocated : rank[m] = m
  BY DEF StoreOK
<1>2. rank[n] \in Node
  BY DEF TypeOK
<1>3. n \in Allocated => rank[n] \in Allocated
  BY <1>1, <1>2 DEF RanksDistinct
<1> QED
  BY <1>1, <1>3

\* The affected region has live nodes only.
LEMMA RegionAllocated ==
  ASSUME IndInv, pc = "backward"
  PROVE  Region \subseteq Allocated
<1>1. TypeOK /\ StoreOK /\ RanksDistinct /\ SearchBackward /\ Pending /\ nx \in Node
  BY SearchFacts, RegionFacts DEF IndInv, GraphOK
<1>2. nx \in Allocated
  BY <1>1 DEF Pending, StoreOK
<1>3. rank[nx] \in Allocated
  BY <1>1, <1>2, AllocatedRanks
<1>4. ASSUME NEW n \in Region PROVE n \in Allocated
  <2>1. n \in Node /\ rank[n] \in Node /\ rank[n] <= rank[nx]
    BY <1>1, RegionFacts DEF Region, SearchBackward, InRegion, TypeOK
  <2>2. rank[n] \in Allocated
    <3>1. rank[n] \in Int /\ 0 <= rank[n]
      BY <2>1, NodeFacts
    <3>2. rank[nx] \in Int /\ rank[nx] <= size - 1 /\ size \in Int
      BY <1>1, <1>3 DEF Allocated, TypeOK
    <3> QED
      BY <2>1, <3>1, <3>2 DEF Allocated
  <2> QED
    BY <1>1, <2>1, <2>2, AllocatedRanks
<1> QED
  BY <1>4

\* After Reorder every edge, the new one included, goes up in rank.
LEMMA ReorderRanksEdges ==
  ASSUME IndInv, pc = "backward", stack = {}, NEW nr \in Rerank,
         NEW a \in Node, NEW b \in Node, b \in out[a]
  PROVE  (IF a \in Region THEN nr[a] ELSE rank[a]) < (IF b \in Region THEN nr[b] ELSE rank[b])
<1>1. /\ SearchBackward /\ Pending /\ EdgesMirrored /\ RanksDistinct /\ deltab \cap deltaf = {}
      /\ nx \in Node /\ ny \in Node /\ nx \in deltab /\ ny \in deltaf
      /\ a \in in[b]
  BY RegionFacts, SearchFacts DEF IndInv, GraphOK, SearchBackward, EdgesMirrored
<1>2. /\ rank[a] \in Int /\ rank[b] \in Int /\ rank[nx] \in Int /\ rank[ny] \in Int
      /\ \A n \in Region : n \in Node /\ rank[n] \in Int /\ nr[n] \in Int
                           /\ rank[ny] <= nr[n] /\ nr[n] <= rank[nx]
  <2>1. \A n \in Region : rank[ny] <= rank[n] /\ rank[n] <= rank[nx]
    BY <1>1 DEF Region, SearchBackward, InRegion
  <2> QED
    BY <1>1, <2>1, RegionFacts, RerankFacts
<1>3. a \notin deltab \/ b \notin deltaf => rank[a] < rank[b]
  BY <1>1, SearchFacts
<1>4. /\ \A n \in deltab : nr[n] <= rank[n]
      /\ \A n \in deltaf : rank[n] <= nr[n]
  BY BackwardMovesDown, ForwardMovesUp
<1>5. CASE a \in deltab
  <2>1. CASE b \in Region
    <3>1. Before(a, b)
      BY <1>1, <1>3, <1>5, <2>1 DEF Before, Region
    <3> QED
      BY <1>5, <2>1, <3>1, RerankFacts DEF Region
  <2>2. CASE b \notin Region
    BY <1>2, <1>3, <1>4, <1>5, <2>2 DEF Region
  <2> QED
    BY <2>1, <2>2
<1>6. CASE a \in deltaf
  \* Its successors are in the forward region or ranked above nx.
  <2>1. rank[nx] < rank[b] \/ b \in deltaf
    BY <1>1, <1>6 DEF SearchBackward
  <2>2. CASE b \in deltaf
    <3>1. Before(a, b)
      BY <1>1, <1>3, <1>6, <2>2 DEF Before
    <3> QED
      BY <1>6, <2>2, <3>1, RerankFacts DEF Region
  <2>3. CASE rank[nx] < rank[b]
    <3>1. b \notin Region
      BY <1>1, <1>2, <2>3 DEF SearchBackward, InRegion, Region
    <3> QED
      BY <1>2, <1>6, <2>3, <3>1 DEF Region
  <2> QED
    BY <2>1, <2>2, <2>3
<1>7. CASE a \notin Region
  <2>1. rank[a] < rank[b]
    BY <1>3, <1>7 DEF Region
  <2>2. CASE b \in deltab
    \* The backward search is closed: a is ranked below ny.
    <3>1. rank[a] <= rank[ny] /\ rank[a] # rank[ny]
      BY <1>1, <1>7, <2>2 DEF SearchBackward, Region, RanksDistinct
    <3> QED
      BY <1>2, <1>7, <2>2, <3>1 DEF Region
  <2>3. CASE b \in deltaf
    BY <1>2, <1>4, <1>7, <2>1, <2>3 DEF Region
  <2>4. CASE b \notin Region
    BY <1>7, <2>1, <2>4
  <2> QED
    BY <2>2, <2>3, <2>4 DEF Region
<1> QED
  BY <1>5, <1>6, <1>7 DEF Region

LEMMA ReorderInv ==
  ASSUME IndInv, Reorder
  PROVE  IndInv'
<1>0. /\ TypeOK /\ StoreOK /\ EdgesMirrored /\ RanksDistinct /\ EdgesRanked
      /\ SearchBackward /\ Pending /\ stack = {} /\ pc = "backward"
      /\ Region \subseteq Node /\ Region \subseteq Allocated
  BY RegionFacts, RegionAllocated DEF IndInv, GraphOK, Reorder
<1>1. PICK nr \in Rerank : rank' = [n \in Node |-> IF n \in Region THEN nr[n] ELSE rank[n]]
  BY DEF Reorder
<1>2. /\ visited' = [m \in Node |-> visited[m] /\ m \notin Region]
      /\ pc' = "idle" /\ call' = NoCall
      /\ deltaf' = {} /\ deltab' = {} /\ stack' = {}
      /\ Answer(MakeId(nx), MakeId(ny), TRUE)
      /\ UNCHANGED <<store, in, out>>
  BY DEF Reorder, Unvisit, Finish
<1>3. TypeOK'
  <2>1. verdict' \in {NoVerdict} \cup [edge : Id \X Id, ok : BOOLEAN]
    BY <1>0, <1>2, CallIds, AnswerType
  <2>2. visited' \in [Node -> BOOLEAN]
    BY <1>0, <1>2 DEF TypeOK
  <2>3. rank' \in [Node -> Node]
    BY <1>0, <1>1, RerankFacts DEF TypeOK
  <2> QED
    BY <1>0, <1>2, <2>1, <2>2, <2>3 DEF TypeOK, store
<1>4. StoreOK'
  BY <1>0, <1>1, <1>2 DEF StoreOK, Allocated, store
<1>5. EdgesMirrored'
  BY <1>0, <1>2 DEF EdgesMirrored
<1>6. RanksDistinct'
  <2>1. SUFFICES ASSUME NEW m \in Node, NEW n \in Node, rank'[m] = rank'[n] PROVE m = n
    BY DEF RanksDistinct
  <2>2. CASE m \in Region /\ n \in Region
    BY <1>0, <1>1, <2>1, <2>2, RerankFacts
  <2>3. CASE m \in Region /\ n \notin Region
    <3>1. PICK k \in Region : nr[m] = rank[k]
      BY <1>0, <2>3, RerankFacts
    <3> QED
      BY <1>0, <1>1, <2>1, <2>3, <3>1 DEF RanksDistinct
  <2>4. CASE m \notin Region /\ n \in Region
    <3>1. PICK k \in Region : nr[n] = rank[k]
      BY <1>0, <2>4, RerankFacts
    <3> QED
      BY <1>0, <1>1, <2>1, <2>4, <3>1 DEF RanksDistinct
  <2>5. CASE m \notin Region /\ n \notin Region
    BY <1>0, <1>1, <2>1, <2>5 DEF RanksDistinct
  <2> QED
    BY <2>2, <2>3, <2>4, <2>5
<1>7. EdgesRanked'
  <2>1. SUFFICES ASSUME NEW e \in Edges' PROVE rank'[e[1]] < rank'[e[2]]
    BY DEF EdgesRanked, OldEdges
  <2>2. e[1] \in Node /\ e[2] \in Node /\ e[2] \in out[e[1]]
    BY <1>2 DEF Edges
  <2> QED
    BY <1>0, <1>1, <2>2, ReorderRanksEdges
<1>8. SearchOK'
  BY <1>0, <1>2 DEF SearchOK, SearchIdle, SearchBackward, Region
<1> QED
  BY <1>3, <1>4, <1>5, <1>6, <1>7, <1>8 DEF IndInv, GraphOK

-----------------------------------------------------------------------------
(* The invariant.                                                          *)

LEMMA StutterInv == ASSUME IndInv, UNCHANGED vars PROVE IndInv'
<1>1. UNCHANGED <<store, rank, in, out, call, verdict, visited, deltaf, deltab, stack, pc>>
  BY DEF vars, search
<1>2. TypeOK'
  BY <1>1 DEF IndInv, TypeOK, store
<1>3. StoreOK' /\ EdgesMirrored' /\ RanksDistinct' /\ EdgesRanked' /\ OldEdges' = OldEdges
  BY <1>1, SearchStepKeeps
<1>4. SearchOK'
  BY <1>1, <1>3 DEF IndInv, GraphOK, SearchOK, SearchIdle, SearchForward, SearchBackward,
                   Pending, InRegion, nx, ny
<1> QED
  BY <1>2, <1>3, <1>4 DEF IndInv, GraphOK

LEMMA NextInv == IndInv /\ [Next]_vars => IndInv'
<1> SUFFICES ASSUME IndInv, [Next]_vars PROVE IndInv'
  OBVIOUS
<1>1. ASSUME NEW l \in Lock, GetIdFresh(l) \/ GetIdReuse(l) \/ RemoveNode(l) PROVE IndInv'
  BY <1>1, GetIdFreshInv, GetIdReuseInv, RemoveNodeInv
<1>2. ASSUME NEW idx \in Handle, NEW idy \in Handle, RemoveEdge(idx, idy) \/ InsertEdge(idx, idy)
      PROVE IndInv'
  BY <1>2, RemoveEdgeInv, InsertAnswerInv, InsertConsistentInv, InsertSearchInv DEF InsertEdge
<1>3. CASE SearchStep
  BY <1>3, ForwardCycleInv, ForwardVisitInv, BackwardVisitInv, ForwardDoneInv, ReorderInv
     DEF SearchStep
<1>4. CASE UNCHANGED vars
  BY <1>4, StutterInv
<1> QED
  BY <1>1, <1>2, <1>3, <1>4 DEF Next

\* The strengthened invariant holds in every state that the operations of
\* GraphCycles reach, the ones in the middle of an InsertEdge included.
THEOREM Invariance == Spec => []IndInv
<1> QED
  BY InitInv, NextInv, PTL DEF Spec

\* Every variable of the graph keeps its type.
THEOREM TypeCorrect == Spec => []TypeOK
<1>1. IndInv => TypeOK
  BY DEF IndInv
<1> QED
  BY <1>1, Invariance, PTL

\* Store, edge sets, ranks and searches agree in every reachable state: what
\* CheckInvariants tests, and what the searches rely on.
THEOREM GraphInvariant ==
  Spec => [](StoreOK /\ EdgesMirrored /\ RanksDistinct /\ EdgesRanked /\ SearchOK)
<1>1. IndInv => StoreOK /\ EdgesMirrored /\ RanksDistinct /\ EdgesRanked /\ SearchOK
  BY DEF IndInv, GraphOK
<1> QED
  BY <1>1, Invariance, PTL

\* The map, the free list and the nodes tell the same: a lock's node is the one
\* that names it, and a free node names none and has no edges.
THEOREM StoreStaysSound == Spec => []StoreOK
<1>1. IndInv => StoreOK
  BY DEF IndInv, GraphOK
<1> QED
  BY <1>1, Invariance, PTL

\* Every edge is in both edge sets or in neither, also when an insertion is
\* refused or a node is removed.
THEOREM EdgesStayMirrored == Spec => []EdgesMirrored
<1>1. IndInv => EdgesMirrored
  BY DEF IndInv, GraphOK
<1> QED
  BY <1>1, Invariance, PTL

\* All edges but the one being inserted lead to a higher rank.
THEOREM EdgesStayRanked == Spec => []EdgesRanked
<1>1. IndInv => EdgesRanked
  BY DEF IndInv, GraphOK
<1> QED
  BY <1>1, Invariance, PTL

\* What the two searches of an insertion have visited is what they have to,
\* and between two calls no node is marked.
THEOREM SearchesStaySound == Spec => []SearchOK
<1>1. IndInv => SearchOK
  BY DEF IndInv, GraphOK
<1> QED
  BY <1>1, Invariance, PTL

LEMMA RanksPermuteInv == IndInv => RanksPermute
<1> SUFFICES ASSUME IndInv PROVE RanksPermute
  OBVIOUS
<1> DEFINE f == [n \in Allocated |-> rank[n]]
<1>1. TypeOK /\ StoreOK /\ RanksDistinct /\ Allocated \subseteq Node
  BY AllocatedNodes DEF IndInv, GraphOK
<1>2. f \in Injection(Allocated, Allocated)
  BY <1>1, AllocatedRanks DEF Injection, IsInjective, RanksDistinct
<1>3. IsFiniteSet(Allocated)
  BY <1>1, FS_Interval, MaxNodesAssumption DEF Allocated, TypeOK
<1>4. f \in Surjection(Allocated, Allocated)
  <2> HIDE DEF f
  <2> QED
    BY <1>2, <1>3, FS_Injection
<1>5. \A r \in Allocated : \E n \in Allocated : rank[n] = r
  BY <1>4 DEF Surjection
<1> QED
  BY <1>1, <1>5, AllocatedRanks DEF RanksPermute

\* The ranks in use are always a permutation of 0 .. size-1.
THEOREM RanksStayAPermutation == Spec => []RanksPermute
BY Invariance, RanksPermuteInv, PTL

\* The ranks above a bound are closed under edges that go up.
LEMMA AboveClosed ==
  ASSUME IndInv, NEW r \in Int
  PROVE  Closed(OldEdges, {n \in Node : r < rank[n]})
<1>1. \A n \in Node : rank[n] \in Int
  BY RankInt DEF IndInv
<1>2. \A e \in OldEdges : e[1] \in Node /\ e[2] \in Node /\ rank[e[1]] < rank[e[2]]
  BY DEF IndInv, GraphOK, EdgesRanked, OldEdges, Edges
<1> QED
  BY <1>1, <1>2 DEF Closed

LEMMA AcyclicInv == IndInv => Acyclic(OldEdges, Node)
<1> SUFFICES ASSUME IndInv, NEW e \in OldEdges, Reaches(OldEdges, Node, e[2], e[1])
             PROVE  FALSE
  BY DEF Acyclic
<1>1. e[1] \in Node /\ e[2] \in Node /\ rank[e[1]] < rank[e[2]]
  BY DEF IndInv, GraphOK, EdgesRanked, OldEdges, Edges
<1>2. rank[e[1]] \in Int
  BY <1>1, RankInt DEF IndInv
<1> DEFINE S == {n \in Node : rank[e[1]] < rank[n]}
<1>3. Closed(OldEdges, S) /\ e[2] \in S /\ S \in SUBSET Node
  BY <1>1, <1>2, AboveClosed
<1>4. e[1] \in S
  <2> HIDE DEF S
  <2> QED
    BY <1>3 DEF Reaches
<1> QED
  BY <1>2, <1>4

\* The graph of finished insertions is acyclic: "It is also not possible to
\* introduce a cycle" (graphcycles.h:26).
THEOREM GraphStaysAcyclic == Spec => []Acyclic(OldEdges, Node)
BY Invariance, AcyclicInv, PTL

-----------------------------------------------------------------------------
(* Which ranks a step may change.                                          *)

LEMMA OnlyRegionMovesStep ==
  ASSUME IndInv, [Next]_vars, NEW n \in Allocated, rank'[n] # rank[n]
  PROVE  /\ InRegion(n)
         /\ \/ n \in deltab /\ rank'[n] < rank[n]
            \/ n \in deltaf /\ rank'[n] > rank[n]
<1>1. n \in Node
  BY AllocatedNodes DEF IndInv
<1>2. Reorder
  <2>1. ASSUME NEW l \in Lock, GetIdFresh(l) \/ GetIdReuse(l) \/ RemoveNode(l) PROVE FALSE
    <3>1. n # size /\ rank \in [Node -> Node]
      BY DEF IndInv, TypeOK, Allocated
    <3> QED
      BY <1>1, <2>1, <3>1 DEF GetIdFresh, GetIdReuse, RemoveNode
  <2>2. ASSUME NEW idx \in Handle, NEW idy \in Handle, RemoveEdge(idx, idy) \/ InsertEdge(idx, idy)
        PROVE  FALSE
    BY <2>2 DEF RemoveEdge, InsertEdge, InsertExpired, InsertSelf, InsertExisting,
                InsertConsistent, InsertSearch
  <2>3. SearchStep => Reorder
    BY DEF SearchStep, ForwardCycle, ForwardVisit, ForwardDone, BackwardVisit
  <2>4. ~UNCHANGED vars
    BY DEF vars
  <2> QED
    BY <2>1, <2>2, <2>3, <2>4 DEF Next
<1>3. pc = "backward" /\ stack = {}
  BY <1>2 DEF Reorder
<1>4. PICK nr \in Rerank : rank' = [m \in Node |-> IF m \in Region THEN nr[m] ELSE rank[m]]
  BY <1>2 DEF Reorder
<1>5. n \in Region /\ rank'[n] = nr[n] /\ nr[n] # rank[n] /\ nr[n] \in Int /\ rank[n] \in Int
  BY <1>1, <1>3, <1>4, RerankFacts, RegionFacts
<1>6. InRegion(n)
  BY <1>3, <1>5, RegionFacts DEF Region, SearchBackward
<1>7. CASE n \in deltab
  BY <1>3, <1>5, <1>6, <1>7, BackwardMovesDown
<1>8. CASE n \in deltaf
  BY <1>3, <1>5, <1>6, <1>8, ForwardMovesUp, RegionFacts
<1> QED
  BY <1>5, <1>7, <1>8 DEF Region

\* An insertion moves only nodes ranked between its ends, the ones that lead
\* to its source down and the ones its target leads to up.
THEOREM OnlyRegionMovesHolds == Spec => OnlyRegionMoves
<1>1. IndInv /\ [Next]_vars =>
        [\A n \in Allocated : rank'[n] # rank[n] =>
           /\ InRegion(n)
           /\ \/ n \in deltab /\ rank'[n] < rank[n]
              \/ n \in deltaf /\ rank'[n] > rank[n]]_vars
  BY OnlyRegionMovesStep
<1> QED
  BY <1>1, Invariance, PTL DEF Spec, OnlyRegionMoves
-----------------------------------------------------------------------------
(* GraphCycles implements LockOrder.  A call of one step is one step of    *)
(* LockOrder; of an InsertEdge that searches, the last step is: Refuse     *)
(* when the forward search meets the source, Accept when Reorder ends it.  *)

LiveNode == {n \in Node : masked_ptr[n] # NoLock}

Unchanged == UNCHANGED <<IdOf, Issued, Order>>

-----------------------------------------------------------------------------
(* Nodes and ids.                                                          *)

LEMMA MakeIdFacts ==
  ASSUME TypeOK
  PROVE  /\ \A n \in Node : MakeId(n) \in Id /\ MakeId(n) # NoCall
         /\ \A m, n : MakeId(m) = MakeId(n) => m = n
         /\ \A m, n : MakeId(n) = <<m, version[m]>> => n = m
BY NodeFacts DEF TypeOK, MakeId, Id

LEMMA LiveFacts ==
  ASSUME TypeOK, StoreOK
  PROVE  /\ Abstract!Live = {MakeId(n) : n \in LiveNode}
         /\ \A n \in LiveNode : MakeId(n) \in Issued
<1>1. ASSUME NEW l \in Lock, IdOf[l] # NoCall
      PROVE  \E n \in LiveNode : IdOf[l] = MakeId(n)
  <2>1. ptrmap[l] # NoNode /\ IdOf[l] = MakeId(ptrmap[l])
    BY <1>1 DEF IdOf
  <2>2. ptrmap[l] \in LiveNode
    BY <2>1, NoLockAssumption DEF TypeOK, StoreOK, LiveNode
  <2> QED
    BY <2>1, <2>2
<1>2. ASSUME NEW n \in LiveNode
      PROVE  \E l \in Lock : IdOf[l] = MakeId(n) /\ IdOf[l] # NoCall
  <2>1. masked_ptr[n] \in Lock /\ ptrmap[masked_ptr[n]] = n /\ n \in Node
    BY DEF TypeOK, StoreOK, LiveNode
  <2>2. IdOf[masked_ptr[n]] = MakeId(n)
    BY <2>1, NodeFacts DEF IdOf
  <2> QED
    BY <2>1, <2>2, MakeIdFacts
<1>3. ASSUME NEW n \in LiveNode PROVE MakeId(n) \in Issued
  <2>1. n \in Node /\ n \in Allocated /\ n \notin free_nodes /\ MakeId(n) \in Id
    BY MakeIdFacts DEF StoreOK, LiveNode
  <2>2. MakeId(n)[1] = n /\ MakeId(n)[2] = version[n]
    BY DEF MakeId
  <2> QED
    BY <2>1, <2>2 DEF Issued
<1>4. Abstract!Live = {MakeId(n) : n \in LiveNode}
  BY <1>1, <1>2 DEF Abstract!Live
<1> QED
  BY <1>3, <1>4

LEMMA IssuedFacts ==
  \A m \in Node, v \in Version :
    <<m, v>> \in Issued <=>
      m \in Allocated /\ (v < version[m] \/ (v = version[m] /\ m \notin free_nodes))
BY DEF Issued, Id

LEMMA IssuedNext ==
  \A m \in Node, v \in Version :
    <<m, v>> \in Issued' <=>
      m \in Allocated' /\ (v < version'[m] \/ (v = version'[m] /\ m \notin free_nodes'))
BY DEF Issued, Id

\* Order is OldEdges, told by ids.
LEMMA OrderFacts ==
  ASSUME TypeOK
  PROVE  /\ \A a, b : <<MakeId(a), MakeId(b)>> \in Order <=> <<a, b>> \in OldEdges
         /\ \A e \in Order : \E a, b \in Node : /\ e = <<MakeId(a), MakeId(b)>>
                                                /\ <<a, b>> \in OldEdges
<1>1. ASSUME NEW a, NEW b, <<MakeId(a), MakeId(b)>> \in Order PROVE <<a, b>> \in OldEdges
  <2>1. PICK e \in OldEdges : <<MakeId(a), MakeId(b)>> = <<MakeId(e[1]), MakeId(e[2])>>
    BY <1>1 DEF Order
  <2>2. a = e[1] /\ b = e[2] /\ e = <<e[1], e[2]>>
    BY <2>1, MakeIdFacts DEF OldEdges, Edges
  <2> QED
    BY <2>2
<1>2. ASSUME NEW a, NEW b, <<a, b>> \in OldEdges PROVE <<MakeId(a), MakeId(b)>> \in Order
  BY <1>2 DEF Order
<1>3. ASSUME NEW e \in Order
      PROVE  \E a, b \in Node : e = <<MakeId(a), MakeId(b)>> /\ <<a, b>> \in OldEdges
  BY DEF Order, OldEdges, Edges
<1> QED
  BY <1>1, <1>2, <1>3

\* The ends of an edge are live.
LEMMA EdgeEndsLive ==
  ASSUME TypeOK, StoreOK, EdgesMirrored, NEW a \in Node, NEW b \in Node, b \in out[a]
  PROVE  a \in LiveNode /\ b \in LiveNode
BY DEF StoreOK, EdgesMirrored, LiveNode

\* Reachability over ids is reachability over nodes.
LEMMA ReachesIds ==
  ASSUME TypeOK, StoreOK, EdgesMirrored, NEW a \in LiveNode, NEW b \in LiveNode
  PROVE  Reaches(Order, Abstract!Live, MakeId(a), MakeId(b)) <=> Reaches(OldEdges, Node, a, b)
<1>1. ASSUME Reaches(Order, Abstract!Live, MakeId(a), MakeId(b)),
             NEW S \in SUBSET Node, a \in S, Closed(OldEdges, S)
      PROVE  b \in S
  <2> DEFINE T == {MakeId(n) : n \in S \cap LiveNode}
  <2>1. T \in SUBSET Abstract!Live
    BY LiveFacts
  <2>2. MakeId(a) \in T
    BY <1>1
  <2>3. ASSUME NEW e \in Order, e[1] \in T PROVE e[2] \in T
    <3>1. PICK m, n \in Node : e = <<MakeId(m), MakeId(n)>> /\ <<m, n>> \in OldEdges
      BY OrderFacts
    <3>2. m \in S
      BY <2>3, <3>1, MakeIdFacts
    <3>3. n \in S
      BY <1>1, <3>1, <3>2 DEF Closed
    <3>4. n \in LiveNode
      BY <3>1, EdgeEndsLive DEF OldEdges, Edges
    <3> QED
      BY <3>1, <3>3, <3>4
  <2>4. MakeId(b) \in T
    <3> HIDE DEF T
    <3> QED
      BY <1>1, <2>1, <2>2, <2>3 DEF Reaches, Closed
  <2> QED
    BY <2>4, MakeIdFacts
<1>2. ASSUME Reaches(OldEdges, Node, a, b),
             NEW T \in SUBSET Abstract!Live, MakeId(a) \in T, Closed(Order, T)
      PROVE  MakeId(b) \in T
  <2> DEFINE S == {n \in Node : MakeId(n) \in T}
  <2>1. S \in SUBSET Node /\ a \in S
    BY <1>2 DEF LiveNode
  <2>2. ASSUME NEW e \in OldEdges, e[1] \in S PROVE e[2] \in S
    <3>1. <<MakeId(e[1]), MakeId(e[2])>> \in Order /\ e[2] \in Node
      BY DEF Order, OldEdges, Edges
    <3>2. MakeId(e[1]) \in T
      BY <2>2
    <3>3. MakeId(e[2]) \in T
      BY <1>2, <3>1, <3>2 DEF Closed
    <3> QED
      BY <3>1, <3>3
  <2>3. b \in S
    <3> HIDE DEF S
    <3> QED
      BY <1>2, <2>1, <2>2 DEF Reaches, Closed
  <2> QED
    BY <2>3
<1> QED
  BY <1>1, <1>2 DEF Reaches

\* Against the ranks nothing is reachable.
LEMMA NotAgainstRanks ==
  ASSUME IndInv, NEW a \in Node, NEW b \in Node, rank[a] < rank[b]
  PROVE  ~Reaches(OldEdges, Node, b, a)
<1>1. rank[a] \in Int /\ rank[b] \in Int
  BY RankInt DEF IndInv
<1> DEFINE S == {n \in Node : rank[a] < rank[n]}
<1>2. S \in SUBSET Node /\ b \in S /\ Closed(OldEdges, S)
  BY <1>1, AboveClosed
<1>3. a \notin S
  BY <1>1
<1> HIDE DEF S
<1> QED
  BY <1>2, <1>3 DEF Reaches

-----------------------------------------------------------------------------
(* The calls of one step.                                                  *)

LEMMA InitRefines == Init => Abstract!Init
<1> SUFFICES ASSUME Init PROVE Abstract!Init
  OBVIOUS
<1>1. IdOf = [l \in Lock |-> NoCall]
  BY DEF Init, IdOf
<1>2. Issued = {}
  BY DEF Init, Issued, Allocated
<1>3. Order = {}
  BY DEF Init, Order, OldEdges, Edges
<1> QED
  BY <1>1, <1>2, <1>3 DEF Abstract!Init, Init, Abstract!NoVerdict, NoVerdict

\* What a lock gets from GetId.
LEMMA GetIdRefines ==
  ASSUME IndInv, NEW l \in Lock, NEW n \in Node, ptrmap[l] = NoNode,
         ptrmap' = [ptrmap EXCEPT ![l] = n], version' = version, verdict' = NoVerdict,
         UNCHANGED <<out, call>>,
         MakeId(n) \notin Issued, Issued' = Issued \cup {MakeId(n)}
  PROVE  Abstract!GetId(l)
<1>1. TypeOK
  BY DEF IndInv
<1>2. IdOf[l] = NoCall /\ MakeId(n) \in Id \ Issued
  BY <1>1, MakeIdFacts DEF IdOf
<1>3. \A m : MakeId(m)' = MakeId(m)
  BY DEF MakeId
<1>4. IdOf' = [IdOf EXCEPT ![l] = MakeId(n)]
  BY <1>1, <1>3, NodeFacts DEF IdOf, TypeOK
<1>5. Order' = Order
  BY <1>3 DEF Order, OldEdges, Edges
<1> QED
  BY <1>2, <1>4, <1>5 DEF Abstract!GetId, Abstract!NoVerdict, NoVerdict

LEMMA GetIdFreshRefines ==
  ASSUME IndInv, NEW l \in Lock, GetIdFresh(l)
  PROVE  Abstract!GetId(l)
<1>1. /\ TypeOK /\ StoreOK /\ size \in Node /\ size \notin Allocated /\ version[size] = 1
      /\ size \in Int
  <2>1. TypeOK /\ StoreOK /\ size \in Int /\ 0 <= size /\ size < MaxNodes
    BY MaxNodesAssumption DEF IndInv, GraphOK, GetIdFresh, TypeOK
  <2>2. size \in Node /\ size \notin Allocated
    BY <2>1, MaxNodesAssumption DEF Node, Allocated
  <2> QED
    BY <2>1, <2>2 DEF StoreOK
<1>2. version' = version
  BY <1>1 DEF GetIdFresh, TypeOK
<1>3. Allocated' = Allocated \cup {size} /\ free_nodes' = free_nodes /\ free_nodes = {}
  BY <1>1 DEF GetIdFresh, Allocated, TypeOK
<1>4. MakeId(size) \notin Issued
  BY <1>1 DEF MakeId, Issued
<1>5. ASSUME NEW id \in Id
      PROVE  id \in Issued' <=> id \in Issued \cup {MakeId(size)}
  <2>1. PICK m \in Node, v \in Version : id = <<m, v>>
    BY DEF Id
  <2>2. id \in Issued' <=> m \in Allocated \cup {size} /\ v <= version[m]
    BY <1>1, <1>2, <1>3, <2>1 DEF Issued, Version, TypeOK
  <2>3. id \in Issued <=> m \in Allocated /\ v <= version[m]
    BY <1>1, <1>3, <2>1 DEF Issued, Version, TypeOK
  <2>4. v <= version[size] <=> v = version[size]
    BY <1>1 DEF Version
  <2> QED
    BY <2>1, <2>2, <2>3, <2>4 DEF MakeId
<1>6. Issued' = Issued \cup {MakeId(size)}
  BY <1>1, <1>5, MakeIdFacts DEF Issued
<1> QED
  BY <1>1, <1>2, <1>4, <1>6, GetIdRefines DEF GetIdFresh

LEMMA GetIdReuseRefines ==
  ASSUME IndInv, NEW l \in Lock, GetIdReuse(l)
  PROVE  Abstract!GetId(l)
<1>1. TypeOK /\ StoreOK
  BY DEF IndInv, GraphOK
<1>2. PICK n \in free_nodes : /\ ptrmap' = [ptrmap EXCEPT ![l] = n]
                              /\ free_nodes' = free_nodes \ {n}
  BY DEF GetIdReuse
<1>3. n \in Node /\ n \in Allocated /\ version' = version /\ Allocated' = Allocated
  BY <1>1 DEF TypeOK, StoreOK, GetIdReuse, Allocated
<1>4. version[n] \in Int
  BY <1>1, <1>3 DEF TypeOK, Version
<1>5. MakeId(n) \notin Issued
  BY <1>3, <1>4 DEF MakeId, Issued
<1>6. ASSUME NEW id \in Id
      PROVE  id \in Issued' <=> id \in Issued \cup {MakeId(n)}
  <2>1. PICK m \in Node, v \in Version : id = <<m, v>>
    BY DEF Id
  <2>2. id \in Issued' <=> m \in Allocated /\ (v < version[m] \/ (v = version[m] /\ m \notin free_nodes'))
    BY <1>3, <2>1, IssuedNext
  <2>3. id \in Issued <=> m \in Allocated /\ (v < version[m] \/ (v = version[m] /\ m \notin free_nodes))
    BY <2>1, IssuedFacts
  <2> QED
    BY <1>2, <1>3, <2>1, <2>2, <2>3 DEF MakeId
<1>7. Issued' = Issued \cup {MakeId(n)}
  BY <1>1, <1>3, <1>6, MakeIdFacts DEF Issued
<1> QED
  BY <1>2, <1>3, <1>5, <1>7, GetIdRefines DEF GetIdReuse, search

LEMMA RemoveNodeRefines ==
  ASSUME IndInv, NEW l \in Lock, RemoveNode(l)
  PROVE  Abstract!RemoveNode(l)
<1> DEFINE n == ptrmap[l]
<1>0. /\ TypeOK /\ StoreOK /\ EdgesMirrored /\ call = NoCall
      /\ n \in Node /\ n \in Allocated /\ masked_ptr[n] = l /\ n \notin free_nodes
      /\ IdOf[l] = MakeId(n) /\ IdOf[l] # NoCall
  <2>1. TypeOK /\ StoreOK /\ EdgesMirrored /\ call = NoCall
    BY DEF IndInv, GraphOK, RemoveNode, SearchOK, SearchIdle
  <2>2. n \in Node /\ n \in Allocated /\ masked_ptr[n] = l /\ IdOf[l] = MakeId(n)
    BY <2>1 DEF RemoveNode, TypeOK, StoreOK, IdOf
  <2> QED
    BY <2>1, <2>2, MakeIdFacts, NoLockAssumption DEF StoreOK
<1> HIDE DEF n
<1>1. /\ out' = Cut(out, n, in[n])
      /\ version' = [version EXCEPT ![n] = NextVersion(n)]
      /\ free_nodes' = IF version[n] = MaxVersion THEN free_nodes ELSE free_nodes \cup {n}
      /\ ptrmap' = [ptrmap EXCEPT ![l] = NoNode]
      /\ size' = size /\ call' = call /\ verdict' = NoVerdict
  BY DEF RemoveNode, search, n
<1>2. \A m \in Node : m # n => MakeId(m)' = MakeId(m)
  BY <1>0, <1>1 DEF MakeId, TypeOK
<1>3. IdOf' = [IdOf EXCEPT ![l] = NoCall]
  <2>1. \A k \in Lock : k # l /\ ptrmap[k] # NoNode => ptrmap[k] \in Node /\ ptrmap[k] # n
    BY <1>0 DEF TypeOK, StoreOK
  <2>2. \A k \in Lock : IdOf'[k] = IF k = l THEN NoCall ELSE IdOf[k]
    BY <1>0, <1>1, <1>2, <2>1 DEF IdOf, TypeOK
  <2> QED
    BY <2>2 DEF IdOf
<1>4. Issued' = Issued
  <2>1. Allocated' = Allocated
    BY <1>1 DEF Allocated
  <2>2. ASSUME NEW m \in Node, NEW v \in Version, m \in Allocated
        PROVE  (v < version'[m] \/ (v = version'[m] /\ m \notin free_nodes')) <=>
               (v < version[m] \/ (v = version[m] /\ m \notin free_nodes))
    <3>1. CASE m # n
      BY <1>0, <1>1, <3>1 DEF TypeOK
    <3>2. CASE m = n /\ version[n] = MaxVersion
      BY <1>0, <1>1, <3>2 DEF TypeOK, NextVersion
    <3>3. CASE m = n /\ version[n] # MaxVersion
      BY <1>0, <1>1, <3>3 DEF TypeOK, NextVersion, Version
    <3> QED
      BY <3>1, <3>2, <3>3
  <2>3. ASSUME NEW id \in Id PROVE id \in Issued' <=> id \in Issued
    <3>1. PICK m \in Node, v \in Version : id = <<m, v>>
      BY DEF Id
    <3> QED
      BY <2>1, <2>2, <3>1, IssuedFacts, IssuedNext
  <2> QED
    BY <2>3 DEF Issued
<1>5. Order' = {e \in Order : MakeId(n) \notin {e[1], e[2]}}
  <2>1. \A a, b \in Node : b \in out'[a] <=> b \in out[a] /\ a # n /\ b # n
    BY <1>0, <1>1, CutFacts
  <2>2. OldEdges' = {e \in OldEdges : n \notin {e[1], e[2]}}
    BY <1>0, <1>1, <2>1 DEF OldEdges, Edges
  <2>3. ASSUME NEW e \in OldEdges
        PROVE  /\ n \notin {e[1], e[2]} <=> MakeId(n) \notin {MakeId(e[1]), MakeId(e[2])}
               /\ n \notin {e[1], e[2]} =>
                    <<MakeId(e[1]), MakeId(e[2])>>' = <<MakeId(e[1]), MakeId(e[2])>>
    <3>1. e[1] \in Node /\ e[2] \in Node
      BY DEF OldEdges, Edges
    <3> QED
      BY <1>0, <1>2, <3>1, MakeIdFacts
  <2>4. Order' = {<<MakeId(e[1]), MakeId(e[2])>> : e \in {k \in OldEdges : n \notin {k[1], k[2]}}}
    BY <1>2, <2>2, <2>3 DEF Order
  <2> QED
    BY <2>3, <2>4 DEF Order
<1> QED
  BY <1>0, <1>1, <1>3, <1>4, <1>5 DEF Abstract!RemoveNode, Abstract!NoVerdict, NoVerdict

LEMMA RemoveEdgeRefines ==
  ASSUME IndInv, NEW idx \in Handle, NEW idy \in Handle, RemoveEdge(idx, idy)
  PROVE  Abstract!RemoveEdge(idx, idy)
<1>1. PICK a \in Node, b \in Node : idx = MakeId(a) /\ idy = MakeId(b) /\ a = idx[1] /\ b = idy[1]
  BY HandleFacts DEF IndInv, GraphOK, RemoveEdge
<1>2. /\ TypeOK /\ EraseEdge(a, b) /\ UNCHANGED <<store, search>> /\ verdict' = NoVerdict
  BY <1>1 DEF RemoveEdge, IndInv
<1>3. IdOf' = IdOf /\ Issued' = Issued /\ \A m : MakeId(m)' = MakeId(m)
  BY <1>2 DEF IdOf, Issued, MakeId, Allocated, store
<1>4. OldEdges' = OldEdges \ {<<a, b>>}
  <2>1. \A m, n \in Node : n \in out'[m] <=> n \in out[m] /\ ~(m = a /\ n = b)
    BY <1>2 DEF TypeOK, EraseEdge
  <2> QED
    BY <1>2, <2>1 DEF OldEdges, Edges, search
<1>5. Order' = Order \ {<<idx, idy>>}
  <2>1. \A e \in OldEdges : e = <<e[1], e[2]>>
    BY DEF OldEdges, Edges
  <2>2. \A e \in OldEdges : <<MakeId(e[1]), MakeId(e[2])>> = <<idx, idy>> <=> e = <<a, b>>
    BY <1>1, <1>2, <2>1, MakeIdFacts
  <2> QED
    BY <1>3, <1>4, <2>2 DEF Order
<1> QED
  BY <1>2, <1>3, <1>5 DEF Abstract!RemoveEdge, Abstract!NoVerdict, NoVerdict

-----------------------------------------------------------------------------
(* InsertEdge.                                                             *)

\* Nothing LockOrder sees depends on the ranks or the searches.
LEMMA StoreKept ==
  ASSUME UNCHANGED store
  PROVE  IdOf' = IdOf /\ Issued' = Issued /\ \A m : MakeId(m)' = MakeId(m)
BY DEF IdOf, Issued, MakeId, Allocated, store

LEMMA InsertExpiredRefines ==
  ASSUME IndInv, NEW idx \in Handle, NEW idy \in Handle, InsertExpired(idx, idy)
  PROVE  Abstract!InsertExpired(idx, idy)
<1>1. TypeOK /\ StoreOK /\ UNCHANGED <<store, out, call>> /\ ~(Found(idx) /\ Found(idy))
  BY DEF IndInv, GraphOK, InsertExpired, search
<1>2. IdOf' = IdOf /\ Issued' = Issued /\ Order' = Order
  BY <1>1, StoreKept DEF Order, OldEdges, Edges
<1>3. idx \in Issued /\ idy \in Issued
  BY DEF Handle
<1>4. \A id \in Abstract!Live : Found(id)
  BY <1>1, LiveFacts DEF Found, MakeId
<1> QED
  BY <1>1, <1>2, <1>3, <1>4
     DEF Abstract!InsertExpired, Abstract!Answer, InsertExpired, Answer

\* A found id of a caller is the id of a live node.
LEMMA FoundIsLive ==
  ASSUME IndInv, NEW id \in Handle, Found(id)
  PROVE  /\ id \in Abstract!Live /\ id \in Issued
         /\ id[1] \in LiveNode /\ id = MakeId(id[1])
BY HandleFacts, LiveFacts DEF IndInv, GraphOK, LiveNode

\* LockOrder's reachability is this module's.
LEMMA SameReaches ==
  \A E, N, a, b : Abstract!Reaches(E, N, a, b) <=> Reaches(E, N, a, b)
BY DEF Abstract!Reaches, Reaches, Abstract!Closed, Closed

LEMMA InsertSelfRefines ==
  ASSUME IndInv, NEW idx \in Handle, NEW idy \in Handle, InsertSelf(idx, idy)
  PROVE  Abstract!Refuse(idx, idy)
<1>1. UNCHANGED <<store, out, call>>
  BY DEF InsertSelf, search
<1>2. IdOf' = IdOf /\ Issued' = Issued /\ Order' = Order
  BY <1>1, StoreKept DEF Order, OldEdges, Edges
<1>3. idx = idy /\ idx \in Abstract!Live
  BY FoundIsLive DEF InsertSelf
<1>4. Reaches(Order, Abstract!Live, idy, idx)
  BY <1>3 DEF Reaches
<1> QED
  BY <1>2, <1>3, <1>4, SameReaches DEF Abstract!Refuse, Abstract!Answer, InsertSelf, Answer

\* An accepted edge whose ends are ranked in order, now or after Reorder.
LEMMA AcceptRefines ==
  ASSUME IndInv, NEW a \in LiveNode, NEW b \in LiveNode,
         ~Reaches(OldEdges, Node, b, a), UNCHANGED store,
         OldEdges' = OldEdges \cup {<<a, b>>}, Answer(MakeId(a), MakeId(b), TRUE)
  PROVE  Abstract!Accept(MakeId(a), MakeId(b))
<1>1. TypeOK /\ StoreOK /\ EdgesMirrored
  BY DEF IndInv, GraphOK
<1>2. ~Reaches(Order, Abstract!Live, MakeId(b), MakeId(a))
  BY <1>1, ReachesIds
<1>3. IdOf' = IdOf /\ Issued' = Issued /\ \A m : MakeId(m)' = MakeId(m)
  BY StoreKept
<1>4. Order' = Order \cup {<<MakeId(a), MakeId(b)>>}
  <2>1. Order' = {<<MakeId(e[1]), MakeId(e[2])>> : e \in OldEdges \cup {<<a, b>>}}
    BY <1>3 DEF Order
  <2>2. \A k : k \in Order' <=> k \in Order \/ k = <<MakeId(a), MakeId(b)>>
    <3> DEFINE byId(e) == <<MakeId(e[1]), MakeId(e[2])>>
    <3>1. byId(<<a, b>>) = <<MakeId(a), MakeId(b)>>
      OBVIOUS
    <3>2. Order' = {byId(e) : e \in OldEdges \cup {<<a, b>>}} /\ Order = {byId(e) : e \in OldEdges}
      BY <2>1 DEF Order
    <3> HIDE DEF byId
    <3> QED
      BY <3>1, <3>2
  <2> QED
    BY <2>2
<1>5. MakeId(a) \in Abstract!Live /\ MakeId(b) \in Abstract!Live
  BY <1>1, LiveFacts
<1> QED
  BY <1>2, <1>3, <1>4, <1>5, SameReaches DEF Abstract!Accept, Abstract!Answer, Answer

LEMMA InsertExistingRefines ==
  ASSUME IndInv, NEW idx \in Handle, NEW idy \in Handle, InsertExisting(idx, idy)
  PROVE  Abstract!Accept(idx, idy)
<1>1. PICK a \in LiveNode, b \in LiveNode : /\ idx = MakeId(a) /\ idy = MakeId(b)
                                            /\ a = idx[1] /\ b = idy[1] /\ b \in out[a]
  BY FoundIsLive DEF InsertExisting
<1>2. a \in Node /\ b \in Node /\ call = NoCall
  BY DEF LiveNode, IndInv, GraphOK, SearchOK, SearchIdle, InsertExisting
<1>3. <<a, b>> \in OldEdges
  BY <1>1, <1>2, NodeFacts DEF OldEdges, Edges
<1>4. rank[a] < rank[b]
  BY <1>3 DEF IndInv, GraphOK, EdgesRanked
<1>5. OldEdges' = OldEdges \cup {<<a, b>>}
  BY <1>3 DEF OldEdges, Edges, InsertExisting, search
<1> QED
  BY <1>1, <1>2, <1>4, <1>5, NotAgainstRanks, AcceptRefines DEF InsertExisting

LEMMA InsertConsistentRefines ==
  ASSUME IndInv, NEW idx \in Handle, NEW idy \in Handle, InsertConsistent(idx, idy)
  PROVE  Abstract!Accept(idx, idy)
<1>1. PICK a \in LiveNode, b \in LiveNode : /\ idx = MakeId(a) /\ idy = MakeId(b)
                                            /\ a = idx[1] /\ b = idy[1]
  BY FoundIsLive DEF InsertConsistent, IsNewEdge
<1>2. /\ a \in Node /\ b \in Node /\ call = NoCall /\ call' = call
      /\ TypeOK /\ StoreOK /\ EdgesMirrored
      /\ masked_ptr[a] # NoLock /\ masked_ptr[b] # NoLock
      /\ AddEdge(a, b) /\ UNCHANGED store /\ rank' = rank
  BY <1>1 DEF LiveNode, IndInv, GraphOK, SearchOK, SearchIdle, InsertConsistent, IsNewEdge, search
<1>3. rank[a] < rank[b]
  BY <1>1, <1>2, RankInt DEF InsertConsistent, IsNewEdge, IndInv, GraphOK, RanksDistinct
<1>4. OldEdges' = OldEdges \cup {<<a, b>>}
  BY <1>2, AddEdgeFacts, NodeFacts DEF OldEdges
<1> QED
  BY <1>1, <1>2, <1>3, <1>4, NotAgainstRanks, AcceptRefines DEF InsertConsistent

\* Until it answers, an insertion that searches changes nothing LockOrder sees.
LEMMA InsertSearchRefines ==
  ASSUME IndInv, NEW idx \in Handle, NEW idy \in Handle, InsertSearch(idx, idy)
  PROVE  Unchanged /\ verdict' = verdict
<1>1. /\ TypeOK /\ StoreOK /\ EdgesMirrored
      /\ idx[1] \in Node /\ idy[1] \in Node /\ OldEdges = Edges
      /\ masked_ptr[idx[1]] # NoLock /\ masked_ptr[idy[1]] # NoLock
      /\ AddEdge(idx[1], idy[1]) /\ UNCHANGED store /\ rank' = rank
      /\ call' = <<idx[1], idy[1]>> /\ idy[1] \notin out[idx[1]]
  BY NewEdgeFacts DEF InsertSearch, IsNewEdge
<1>2. Edges' = Edges \cup {<<idx[1], idy[1]>>} /\ <<idx[1], idy[1]>> \notin Edges
  BY <1>1, AddEdgeFacts DEF Edges
<1>3. OldEdges' = OldEdges
  BY <1>1, <1>2 DEF OldEdges
<1>4. IdOf' = IdOf /\ Issued' = Issued /\ \A m : MakeId(m)' = MakeId(m)
  BY <1>1, StoreKept
<1>5. Order' = Order
  BY <1>3, <1>4 DEF Order
<1> QED
  BY <1>4, <1>5 DEF Unchanged, InsertSearch

LEMMA SearchingRefines ==
  ASSUME UNCHANGED <<store, out, call, verdict>>
  PROVE  Unchanged /\ verdict' = verdict
BY StoreKept DEF Unchanged, Order, OldEdges, Edges

\* Both ends of the edge under way are live.
LEMMA CallLive ==
  ASSUME IndInv, Pending
  PROVE  nx \in LiveNode /\ ny \in LiveNode /\ call = <<nx, ny>>
BY SearchFacts, EdgeEndsLive DEF IndInv, GraphOK, Pending

\* The forward search met the source: it is reachable from the target.
LEMMA ForwardCycleRefines ==
  ASSUME IndInv, NEW n \in Node, ForwardCycle(n)
  PROVE  Abstract!Refuse(MakeId(nx), MakeId(ny))
<1>1. /\ TypeOK /\ StoreOK /\ EdgesMirrored /\ RanksDistinct /\ SearchForward /\ Pending
      /\ nx \in LiveNode /\ ny \in LiveNode /\ call = <<nx, ny>> /\ nx \in Node /\ ny \in Node
  BY CallLive, SearchFacts DEF IndInv, GraphOK, ForwardCycle, SearchOK, SearchForward
<1>2. PICK w \in out[n] : rank[w] = rank[nx]
  BY DEF ForwardCycle
<1>3. w = nx /\ n # nx /\ Reaches(OldEdges, Node, ny, n)
  BY <1>1, <1>2 DEF ForwardCycle, SearchForward, RanksDistinct, TypeOK
<1>4. <<n, nx>> \in OldEdges
  BY <1>1, <1>2, <1>3, SearchFacts
<1>5. Reaches(Order, Abstract!Live, MakeId(ny), MakeId(nx))
  BY <1>1, <1>3, <1>4, ReachesStep, ReachesIds
<1>6. OldEdges' = OldEdges
  <2>1. EraseEdge(nx, ny) /\ call' = NoCall
    BY DEF ForwardCycle, Finish
  <2>2. \A a, b \in Node : b \in out'[a] <=> b \in out[a] /\ <<a, b>> # call
    BY <1>1, <2>1 DEF TypeOK, EraseEdge
  <2>3. Edges' = Edges \ {call}
    BY <2>2 DEF Edges
  <2> QED
    BY <2>1, <2>3, NodeFacts DEF OldEdges, Edges
<1>7. IdOf' = IdOf /\ Issued' = Issued /\ Order' = Order
  BY <1>6, StoreKept DEF ForwardCycle, Order
<1>8. MakeId(nx) \in Abstract!Live /\ MakeId(ny) \in Abstract!Live
  BY <1>1, LiveFacts
<1> QED
  BY <1>5, <1>7, <1>8, SameReaches DEF Abstract!Refuse, Abstract!Answer, ForwardCycle, Finish, Answer

\* The forward search is closed and did not meet the source.
LEMMA ReorderRefines ==
  ASSUME IndInv, Reorder
  PROVE  Abstract!Accept(MakeId(nx), MakeId(ny))
<1>1. /\ TypeOK /\ SearchBackward /\ Pending /\ pc = "backward"
      /\ nx \in LiveNode /\ ny \in LiveNode /\ call = <<nx, ny>> /\ nx \in Node /\ ny \in Node
      /\ \A n \in Node : rank[n] \in Int
  BY CallLive, SearchFacts, RegionFacts DEF Reorder
<1>2. ~Reaches(OldEdges, Node, ny, nx)
  <2> DEFINE S == deltaf \cup {n \in Node : rank[nx] < rank[n]}
  <2>1. S \in SUBSET Node /\ ny \in S /\ nx \notin S
    BY <1>1 DEF TypeOK, SearchBackward, Reorder
  <2>2. ASSUME NEW e \in OldEdges, e[1] \in S PROVE e[2] \in S
    <3>1. e[1] \in Node /\ e[2] \in Node /\ e[2] \in out[e[1]]
      BY DEF OldEdges, Edges
    <3>2. CASE e[1] \in deltaf
      BY <1>1, <3>1, <3>2 DEF SearchBackward
    <3>3. CASE rank[nx] < rank[e[1]]
      BY <1>1, <3>1, <3>3, AboveClosed DEF Closed
    <3> QED
      BY <2>2, <3>2, <3>3
  <2> HIDE DEF S
  <2> QED
    BY <2>1, <2>2 DEF Reaches, Closed
<1>3. OldEdges' = OldEdges \cup {<<nx, ny>>}
  <2>1. <<nx, ny>> \in Edges
    BY <1>1 DEF Edges, Pending
  <2>2. Edges' = Edges /\ call' = NoCall
    BY DEF Reorder, Edges, Finish
  <2> QED
    BY <1>1, <2>1, <2>2, NodeFacts DEF OldEdges, Edges
<1> QED
  BY <1>1, <1>2, <1>3, AcceptRefines DEF Reorder, Finish

-----------------------------------------------------------------------------

LEMMA NextRefines ==
  ASSUME IndInv, [Next]_vars
  PROVE  [Abstract!Next]_(Abstract!vars)
<1> USE DEF Abstract!Next, Abstract!vars
<1>1. ASSUME NEW l \in Lock, GetIdFresh(l) \/ GetIdReuse(l) \/ RemoveNode(l)
      PROVE  Abstract!Next
  BY <1>1, GetIdFreshRefines, GetIdReuseRefines, RemoveNodeRefines
<1>2. ASSUME NEW idx \in Handle, NEW idy \in Handle, RemoveEdge(idx, idy) \/ InsertEdge(idx, idy)
      PROVE  Abstract!Next \/ (Unchanged /\ verdict' = verdict)
  <2>1. idx \in Issued /\ idy \in Issued
    BY DEF Handle
  <2> QED
    BY <1>2, <2>1, RemoveEdgeRefines, InsertExpiredRefines, InsertSelfRefines,
       InsertExistingRefines, InsertConsistentRefines, InsertSearchRefines DEF InsertEdge
<1>3. ASSUME (\E n \in Node : ForwardCycle(n)) \/ Reorder
      PROVE  Abstract!Next
  <2>1. Pending
    BY <1>3 DEF IndInv, GraphOK, SearchOK, SearchForward, SearchBackward, ForwardCycle, Reorder
  <2>2. MakeId(nx) \in Issued /\ MakeId(ny) \in Issued /\ nx \in Node
    BY <2>1, CallLive, LiveFacts DEF IndInv, GraphOK, LiveNode
  <2> QED
    BY <1>3, <2>2, ForwardCycleRefines, ReorderRefines
<1>4. CASE SearchStep
  BY <1>3, <1>4, SearchingRefines
     DEF SearchStep, ForwardVisit, ForwardDone, BackwardVisit, Unchanged
<1>5. CASE UNCHANGED vars
  BY <1>5, SearchingRefines DEF vars, search, Unchanged
<1> QED
  BY <1>1, <1>2, <1>4, <1>5 DEF Next, Unchanged

\* The Pearce-Kelly graph keeps the promise of graphcycles.h: it refuses an
\* edge exactly when the edge would close a cycle, a refusal changes nothing,
\* a lock keeps its id until it is removed and no id is handed out twice.
THEOREM ImplementsLockOrder == Spec => Refines
<1>1. IndInv /\ [Next]_vars => [Abstract!Next]_(Abstract!vars)
  BY NextRefines
<1> QED
  BY <1>1, InitRefines, Invariance, PTL DEF Spec, Refines

-----------------------------------------------------------------------------
(* Reorder has exactly one answer. *)

\* Reorder's list: the backward part by rank, then the forward part by rank.
Place == [n \in Region |-> IF n \in deltab THEN rank[n] ELSE rank[n] + MaxNodes]

LEMMA PlaceFacts ==
  ASSUME IndInv, pc = "backward"
  PROVE  /\ Place \in [Region -> Nat]
         /\ \A m, n \in Region : Before(m, n) <=> Place[m] < Place[n]
         /\ \A m, n \in Region : Place[m] = Place[n] => m = n
<1>1. /\ \A n \in Region : rank[n] \in Nat /\ rank[n] < MaxNodes
      /\ deltab \cap deltaf = {} /\ MaxNodes \in Nat
      /\ \A m, n \in Region : m # n => Before(m, n) \/ Before(n, m)
  BY RegionFacts, NodeFacts, MaxNodesAssumption DEF TypeOK, Node
<1>2. \A n \in Region : /\ n \in deltab => n \notin deltaf /\ Place[n] = rank[n]
                        /\ n \in deltaf => n \notin deltab /\ Place[n] = rank[n] + MaxNodes
                        /\ n \in deltab \/ n \in deltaf
                        /\ Place[n] \in Nat
  BY <1>1 DEF Place, Region
<1>3. Place \in [Region -> Nat]
  BY <1>1 DEF Place
<1>4. ASSUME NEW m \in Region, NEW n \in Region PROVE Before(m, n) <=> Place[m] < Place[n]
  BY <1>1, <1>2 DEF Before
<1>5. ASSUME NEW m \in Region, NEW n \in Region, Place[m] = Place[n] PROVE m = n
  <2>1. Place[m] \in Nat /\ ~(Place[m] < Place[n]) /\ ~(Place[n] < Place[m])
    BY <1>2, <1>5
  <2> QED BY <1>1, <1>4, <2>1
<1> QED BY <1>3, <1>4, <1>5

\* As many ranks as nodes, however the nodes are numbered.
LEMMA NumbersOfRegion ==
  ASSUME IndInv, pc = "backward", NEW f \in [Region -> Nat],
         \A m, n \in Region : f[m] = f[n] => m = n
  PROVE  LET T == {f[n] : n \in Region} IN
           T \in SUBSET Nat /\ IsFiniteSet(T) /\ Cardinality(T) = Cardinality(Region)
<1> DEFINE T == {f[n] : n \in Region}
<1>1. f \in Injection(Region, T) /\ f \in Surjection(Region, T)
  BY DEF Injection, IsInjective, Surjection
<1>2. IsFiniteSet(Region)
  BY RegionFacts
<1>3. IsFiniteSet(T) /\ Cardinality(T) = Cardinality(Region)
  <2> HIDE DEF T
  <2>1. IsFiniteSet(T)
    BY <1>1, <1>2, FS_Surjection
  <2> QED BY <1>1, <1>2, <2>1, FS_Surjection
<1>4. T \in SUBSET Nat
  OBVIOUS
<1> QED BY <1>3, <1>4

LEMMA OneRerank ==
  ASSUME IndInv, pc = "backward" PROVE \E nr \in Rerank : Rerank = {nr}
<1> DEFINE X == {Place[n] : n \in Region}
           M == Merged
<1>1. /\ Place \in [Region -> Nat]
      /\ \A m, n \in Region : Before(m, n) <=> Place[m] < Place[n]
      /\ \A m, n \in Region : Place[m] = Place[n] => m = n
  BY PlaceFacts
<1>2. X \in SUBSET Nat /\ IsFiniteSet(X) /\ Cardinality(X) = Cardinality(Region)
  BY <1>1, NumbersOfRegion
<1>3. M \in SUBSET Nat /\ IsFiniteSet(M) /\ Cardinality(M) = Cardinality(Region)
  <2> DEFINE f == [n \in Region |-> rank[n]]
  <2>1. TypeOK /\ RanksDistinct /\ Region \subseteq Node
    BY RegionFacts DEF IndInv, GraphOK
  <2>2. f \in [Region -> Nat] /\ \A m, n \in Region : f[m] = f[n] => m = n
    <3>1. \A n \in Region : n \in Node /\ rank[n] \in Nat
      BY <2>1, MaxNodesAssumption DEF TypeOK, Node
    <3> QED BY <2>1, <3>1 DEF RanksDistinct
  <2>3. M = {f[n] : n \in Region}
    BY DEF Merged
  <2> HIDE DEF f, M
  <2>4. LET T == {f[n] : n \in Region} IN
          T \in SUBSET Nat /\ IsFiniteSet(T) /\ Cardinality(T) = Cardinality(Region)
    BY <2>2, NumbersOfRegion
  <2> QED BY <2>3, <2>4
<1>4. \A n \in Region : Place[n] \in X
  OBVIOUS
<1>5. \A x \in X : \E n \in Region : Place[n] = x
  OBVIOUS
<1> HIDE DEF X, M
<1>6. PICK h \in Increasing(X, M) : Increasing(X, M) = {h}
  <2>1. Cardinality(X) = Cardinality(M)
    BY <1>2, <1>3
  <2> QED BY <1>2, <1>3, <2>1, OneIncreasing
<1>7. h \in [X -> M] /\ \A i, j \in X : i < j => h[i] < h[j]
  BY <1>6 DEF Increasing
<1> DEFINE nr == [n \in Region |-> h[Place[n]]]
<1>8. nr \in Rerank
  <2>1. nr \in [Region -> M]
    BY <1>4, <1>7
  <2>2. \A m, n \in Region : Before(m, n) => nr[m] < nr[n]
    BY <1>1, <1>4, <1>7
  <2> QED BY <2>1, <2>2 DEF Rerank, M
<1>9. ASSUME NEW g \in Rerank PROVE g = nr
  <2>1. g \in [Region -> M] /\ \A m, n \in Region : Before(m, n) => g[m] < g[n]
    BY DEF Rerank, M
  <2> DEFINE At(x) == CHOOSE n \in Region : Place[n] = x
             f == [x \in X |-> g[At(x)]]
  <2>2. \A x \in X : At(x) \in Region /\ Place[At(x)] = x
    BY <1>5
  <2>3. \A n \in Region : At(Place[n]) = n
    BY <1>1, <1>4, <2>2
  <2> HIDE DEF At
  <2>4. f \in [X -> M]
    BY <2>1, <2>2
  <2>5. ASSUME NEW i \in X, NEW j \in X, i < j PROVE f[i] < f[j]
    BY <1>1, <2>1, <2>2, <2>5
  <2>6. f \in Increasing(X, M)
    BY <2>4, <2>5 DEF Increasing
  <2>7. f = h
    BY <1>6, <2>6
  <2>8. \A n \in Region : g[n] = h[Place[n]]
    BY <1>4, <2>3, <2>7
  <2>9. g = [n \in Region |-> g[n]]
    BY <2>1
  <2> QED BY <2>8, <2>9
<1> HIDE DEF nr
<1> QED BY <1>8, <1>9

\* When the searches are done there is one way, and only one, to give the
\* ranks of the region to the list of its nodes: every insertion that meets no
\* cycle can end, and Reorder leaves nothing to choice (graphcycles.cc:651).
THEOREM ReorderHasOneAnswer ==
  Spec => [](pc = "backward" => \E nr \in Rerank : Rerank = {nr})
<1>1. IndInv => (pc = "backward" => \E nr \in Rerank : Rerank = {nr})
  BY OneRerank
<1> QED
  BY <1>1, Invariance, PTL

-----------------------------------------------------------------------------
(* FindPath.                                                               *)

\* What a refusal says: there is a path back.
PathBack == Refused => /\ Found(verdict.edge[2]) /\ Found(verdict.edge[1])
                       /\ Source \in Node /\ Target \in Node
                       /\ Reaches(Edges, Node, Source, Target)

LEMMA RefusalInv ==
  ASSUME IndInv, Next
  PROVE  PathBack'
<1>1. ASSUME NEW l \in Lock, GetIdFresh(l) \/ GetIdReuse(l) \/ RemoveNode(l) PROVE ~Refused'
  BY <1>1 DEF GetIdFresh, GetIdReuse, RemoveNode, NoVerdict, Refused
<1>2. ASSUME NEW idx \in Handle, NEW idy \in Handle,
             \/ RemoveEdge(idx, idy) \/ InsertExpired(idx, idy) \/ InsertExisting(idx, idy)
             \/ InsertConsistent(idx, idy) \/ InsertSearch(idx, idy)
      PROVE  ~Refused'
  BY <1>2 DEF RemoveEdge, InsertExpired, InsertExisting, InsertConsistent, InsertSearch, Answer,
              NoVerdict, Refused
<1>3. ASSUME NEW idx \in Handle, NEW idy \in Handle, InsertSelf(idx, idy) PROVE PathBack'
  <2>1. Found(idx) /\ idx = idy /\ verdict' = [edge |-> <<idx, idx>>, ok |-> FALSE] /\ UNCHANGED store
    BY <1>3 DEF InsertSelf, Answer
  <2>2. idx[1] \in Node
    BY HandleFacts DEF IndInv, GraphOK
  <2>3. Found(idx)' /\ verdict'.edge[1] = idx /\ verdict'.edge[2] = idx
    BY <2>1 DEF Found, store
  <2>4. \A E, N, a : Reaches(E, N, a, a)
    BY DEF Reaches
  <2> QED BY <2>2, <2>3, <2>4 DEF PathBack, Source, Target, Found
<1>4. ASSUME NEW n \in Node, ForwardCycle(n) PROVE PathBack'
  <2>1. /\ TypeOK /\ EdgesMirrored /\ RanksDistinct /\ SearchForward /\ Pending
        /\ nx \in Node /\ ny \in Node /\ call = <<nx, ny>>
    BY <1>4, SearchFacts DEF IndInv, GraphOK, ForwardCycle, SearchOK, SearchForward
  <2>2. PICK w \in out[n] : rank[w] = rank[nx]
    BY <1>4 DEF ForwardCycle
  <2>3. w = nx /\ n # nx /\ Reaches(OldEdges, Node, ny, n)
    BY <1>4, <2>1, <2>2 DEF ForwardCycle, SearchForward, RanksDistinct, TypeOK
  <2>4. <<n, nx>> \in OldEdges
    BY <2>1, <2>2, <2>3, SearchFacts
  <2>5. Reaches(OldEdges, Node, ny, nx)
    BY <2>3, <2>4, ReachesStep
  <2>6. Edges' = OldEdges
    <3>1. \A a, b \in Node : b \in out'[a] <=> b \in out[a] /\ <<a, b>> # call
      BY <1>4, <2>1 DEF TypeOK, EraseEdge, ForwardCycle
    <3> QED BY <3>1 DEF Edges, OldEdges
  <2>7. /\ verdict' = [edge |-> <<MakeId(nx), MakeId(ny)>>, ok |-> FALSE] /\ version' = version
    BY <1>4 DEF ForwardCycle, Finish, Answer, store
  <2>8. verdict'.edge[1] = MakeId(nx) /\ verdict'.edge[2] = MakeId(ny)
    BY <2>7
  <2>9. /\ MakeId(nx)[1] = nx /\ MakeId(nx)[2] = version'[nx]
        /\ MakeId(ny)[1] = ny /\ MakeId(ny)[2] = version'[ny]
    BY <2>7 DEF MakeId
  <2>10. Source' = ny /\ Target' = nx
    BY <2>8, <2>9 DEF Source, Target
  <2>11. Found(verdict.edge[2])' /\ Found(verdict.edge[1])'
    BY <2>8, <2>9 DEF Found
  <2>12. Reaches(Edges, Node, Source, Target)'
    BY <2>5, <2>6, <2>10
  <2>13. Source' \in Node /\ Target' \in Node
    BY <2>1, <2>10
  <2> QED BY <2>11, <2>12, <2>13 DEF PathBack
<1>5. ASSUME NEW n \in Node, ForwardVisit(n) \/ BackwardVisit(n) PROVE ~Refused'
  BY <1>5 DEF ForwardVisit, BackwardVisit, Refused
<1>6. ASSUME ForwardDone \/ Reorder PROVE ~Refused'
  BY <1>6 DEF ForwardDone, Reorder, Finish, Answer, Refused
<1>7. ~Refused' => PathBack'
  BY DEF PathBack
<1>8. CASE \E l \in Lock : GetIdFresh(l) \/ GetIdReuse(l) \/ RemoveNode(l)
  BY <1>1, <1>7, <1>8
<1>9. CASE \E idx, idy \in Handle : RemoveEdge(idx, idy) \/ InsertEdge(idx, idy)
  <2>1. PICK idx \in Handle, idy \in Handle : RemoveEdge(idx, idy) \/ InsertEdge(idx, idy)
    BY <1>9
  <2> QED BY <1>2, <1>3, <1>7, <2>1 DEF InsertEdge
<1>10. CASE SearchStep
  <2>1. CASE \E n \in Node : ForwardCycle(n) \/ ForwardVisit(n) \/ BackwardVisit(n)
    BY <1>4, <1>5, <1>7, <2>1
  <2>2. CASE ForwardDone \/ Reorder
    BY <1>6, <1>7, <2>2
  <2> QED BY <1>10, <2>1, <2>2 DEF SearchStep
<1> QED
  BY <1>8, <1>9, <1>10 DEF Next

\* Between the calls every edge goes up in rank.
LEMMA IdleRanked ==
  ASSUME IndInv, pc = "idle"
  PROVE  /\ \A n \in Node : out[n] \subseteq Node /\ rank[n] \in Int
         /\ \A a, b \in Node : b \in out[a] => rank[a] < rank[b]
         /\ Edges = {e \in Node \X Node : e[2] \in out[e[1]]}
<1>1. TypeOK /\ EdgesRanked /\ call = NoCall
  BY DEF IndInv, GraphOK, SearchOK, SearchIdle
<1>2. OldEdges = Edges
  BY <1>1, NodeFacts DEF OldEdges, Edges
<1>3. \A n \in Node : out[n] \subseteq Node /\ rank[n] \in Int
  BY <1>1, RankInt DEF TypeOK
<1>4. ASSUME NEW a \in Node, NEW b \in Node, b \in out[a] PROVE rank[a] < rank[b]
  <2>1. <<a, b>> \in OldEdges
    BY <1>2, <1>4 DEF Edges
  <2> QED BY <1>1, <2>1 DEF EdgesRanked
<1> QED BY <1>3, <1>4 DEF Edges

-----------------------------------------------------------------------------
(* FindPath's stack. *)

\* p are the nodes of the path and m the places of their marks on the stack t;
\* above a mark are successors of its node.
Origin(t, l, p, m, k) ==
  \/ (\A i \in 1 .. l : k < m[i]) /\ t[k] = Source
  \/ \E j \in 1 .. l : m[j] < k /\ (\A i \in 1 .. l : j < i => k < m[i]) /\ t[k] \in out[p[j]]

Trail(t, l, p, m) ==
  /\ p \in [1 .. l -> Node] /\ m \in [1 .. l -> DOMAIN t]
  /\ \A i, j \in 1 .. l : i < j => m[i] < m[j] /\ rank[p[i]] < rank[p[j]]
  /\ \A i \in 1 .. l - 1 : p[i + 1] \in out[p[i]]
  /\ l > 0 => p[1] = Source
  /\ \A k \in DOMAIN t : t[k] = Leave <=> \E i \in 1 .. l : m[i] = k
  /\ \A k \in DOMAIN t : t[k] # Leave => Origin(t, l, p, m, k)

\* The array has as much of the path as it has room for.
Holds(a, l, p) ==
  a \in Seq(Node) /\ Len(a) <= MaxPath /\ \A i \in 1 .. l : i <= MaxPath => i <= Len(a) /\ a[i] = p[i]

\* What was pushed is still on the stack or its successors were pushed, too; the
\* target is still there.
OnStack(t, n) == \E k \in DOMAIN t : t[k] = n
Explored(t, s) == /\ \A n \in s \cup {Source} : OnStack(t, n) \/ out[n] \subseteq s
                  /\ Target \in s \cup {Source} => OnStack(t, Target)

OnStackOf == Node \cup {Leave}

WalkOf(t, s, l, a) ==
  /\ Refused /\ t \in Seq(OnStackOf) /\ s \in SUBSET Node /\ l \in Nat
  /\ Explored(t, s)
  /\ \E p \in [1 .. l -> Node], m \in [1 .. l -> DOMAIN t] : Trail(t, l, p, m) /\ Holds(a, l, p)
Walking == WalkOf(todo, seen, path_len, path)

PathInv == PathBack /\ (fp = "walk" => Walking) /\ ReportShowsCycle

LEMMA LeaveFacts == Leave \notin Node /\ Node \subseteq OnStackOf /\ Leave \in OnStackOf
BY NodeFacts DEF Leave, OnStackOf

LEMMA TopFacts ==
  ASSUME NEW S, NEW t \in Seq(S), t # <<>>
  PROVE  /\ Len(t) \in Nat \ {0} /\ DOMAIN t = 1 .. Len(t) /\ Last(t) = t[Len(t)] /\ Last(t) \in S
         /\ Front(t) \in Seq(S) /\ Len(Front(t)) = Len(t) - 1 /\ DOMAIN Front(t) = 1 .. Len(t) - 1
         /\ \A k \in 1 .. Len(t) - 1 : Front(t)[k] = t[k]
<1>1. Len(t) \in Nat \ {0} /\ DOMAIN t = 1 .. Len(t)
  BY EmptySeq, LenProperties
<1>2. Last(t) = t[Len(t)] /\ Last(t) \in S
  BY <1>1, ElementOfSeq DEF Last
<1>3. \A k \in 1 .. Len(t) - 1 : t[k] \in S
  BY <1>1, ElementOfSeq
<1>4. /\ SubSeq(t, 1, Len(t) - 1) \in Seq(S)
      /\ Len(SubSeq(t, 1, Len(t) - 1)) = IF 1 <= Len(t) - 1 THEN Len(t) - 1 - 1 + 1 ELSE 0
      /\ \A k \in 1 .. Len(t) - 1 - 1 + 1 : SubSeq(t, 1, Len(t) - 1)[k] = t[1 + k - 1]
  BY <1>1, <1>3, SubSeqProperties
<1>5. Front(t) \in Seq(S) /\ Len(Front(t)) = Len(t) - 1
  BY <1>1, <1>4 DEF Front
<1>6. \A k \in 1 .. Len(t) - 1 : Front(t)[k] = t[k]
  BY <1>1, <1>4 DEF Front
<1>7. DOMAIN Front(t) = 1 .. Len(t) - 1
  BY <1>5, LenProperties
<1> QED BY <1>1, <1>2, <1>5, <1>6, <1>7

LEMMA DescendFacts ==
  ASSUME NEW r \in Seq(OnStackOf), NEW next \in Seq(Node)
  PROVE  /\ Descend(r, next) \in Seq(OnStackOf)
         /\ Len(r) \in Nat /\ Len(next) \in Nat
         /\ Len(Descend(r, next)) = Len(r) + 1 + Len(next)
         /\ DOMAIN Descend(r, next) = 1 .. Len(r) + 1 + Len(next)
         /\ \A k \in 1 .. Len(r) : Descend(r, next)[k] = r[k]
         /\ Descend(r, next)[Len(r) + 1] = Leave
         /\ \A k \in 1 .. Len(next) : Descend(r, next)[Len(r) + 1 + k] = next[k]
<1> DEFINE u == <<Leave>>
           d == r \o u
           e == d \o next
<1>1. Leave \in OnStackOf /\ next \in Seq(OnStackOf)
  BY LeaveFacts, SeqMonotonic
<1>2. u \in Seq(OnStackOf) /\ Len(u) = 1 /\ u[1] = Leave
  BY <1>1
<1> HIDE DEF u
<1>3. Len(r) \in Nat /\ Len(next) \in Nat
  BY LenProperties
<1>4. /\ d \in Seq(OnStackOf) /\ Len(d) = Len(r) + 1
      /\ \A i \in 1 .. Len(r) + 1 : d[i] = IF i <= Len(r) THEN r[i] ELSE u[i - Len(r)]
  BY <1>2, ConcatProperties
<1>5. d[Len(r) + 1] = Leave /\ \A k \in 1 .. Len(r) : d[k] = r[k]
  BY <1>2, <1>3, <1>4
<1> HIDE DEF d
<1>6. /\ e \in Seq(OnStackOf) /\ Len(e) = Len(d) + Len(next)
      /\ \A i \in 1 .. Len(d) + Len(next) : e[i] = IF i <= Len(d) THEN d[i] ELSE next[i - Len(d)]
  <2>1. d \in Seq(OnStackOf) /\ next \in Seq(OnStackOf)
    BY <1>1, <1>4
  <2> HIDE DEF e
  <2>2. /\ d \o next \in Seq(OnStackOf) /\ Len(d \o next) = Len(d) + Len(next)
        /\ \A i \in 1 .. Len(d) + Len(next) :
             (d \o next)[i] = IF i <= Len(d) THEN d[i] ELSE next[i - Len(d)]
    BY <2>1, ConcatProperties, Zenon
  <2> QED BY <2>2 DEF e
<1>7. e = Descend(r, next)
  BY DEF Descend, d, u
<1> HIDE DEF e
<1>8. DOMAIN e = 1 .. Len(r) + 1 + Len(next)
  BY <1>4, <1>6, LenProperties
<1>9. \A k \in 1 .. Len(r) : e[k] = r[k]
  BY <1>3, <1>4, <1>5, <1>6
<1>10. e[Len(r) + 1] = Leave
  BY <1>3, <1>4, <1>5, <1>6
<1>11. ASSUME NEW k \in 1 .. Len(next) PROVE e[Len(r) + 1 + k] = next[k]
  <2>1. Len(r) + 1 + k \in 1 .. Len(d) + Len(next) /\ ~(Len(r) + 1 + k <= Len(d))
    BY <1>3, <1>4
  <2>2. Len(r) + 1 + k - Len(d) = k
    BY <1>3, <1>4
  <2> QED BY <1>6, <2>1, <2>2
<1> QED BY <1>3, <1>4, <1>6, <1>7, <1>8, <1>9, <1>10, <1>11

\* An order of a set of nodes has each of them.
LEMMA OrderFactsOfSet ==
  ASSUME NEW new \in SUBSET Node, NEW next \in SetToSeqs(new)
  PROVE  next \in Seq(Node) /\ Len(next) \in Nat /\ DOMAIN next = 1 .. Len(next)
         /\ (\A k \in 1 .. Len(next) : next[k] \in new)
         /\ \A w \in new : \E k \in 1 .. Len(next) : next[k] = w
<1> DEFINE D == 1 .. Cardinality(new)
<1>1. IsFiniteSet(new)
  <2>1. 0 \in Int /\ MaxNodes - 1 \in Int
    BY MaxNodesAssumption
  <2>2. IsFiniteSet(Node)
    BY <2>1, FS_Interval DEF Node
  <2> QED BY <2>2, FS_Subset
<1>2. Cardinality(new) \in Nat
  BY <1>1, FS_CardinalityType
<1>3. next \in [D -> new] /\ \A i, j \in D : i # j => next[i] # next[j]
  BY DEF SetToSeqs
<1>4. Cardinality(D) = Cardinality(new)
  BY <1>2, FS_Interval
<1>5. next \in Injection(D, new)
  BY <1>3 DEF Injection, IsInjective
<1>6. next \in Surjection(D, new)
  BY <1>1, <1>4, <1>5, FS_Injection
<1>7. \A w \in new : \E k \in D : next[k] = w
  BY <1>6 DEF Surjection
<1>8. next \in Seq(new) /\ Len(next) = Cardinality(new)
  BY <1>2, <1>3
<1>9. next \in Seq(Node)
  BY <1>8, SeqMonotonic
<1> QED BY <1>2, <1>3, <1>7, <1>8, <1>9

\* The mark on top is the one of the last node of the path.
LEMMA TrailLeave ==
  ASSUME NEW t \in Seq(OnStackOf), t # <<>>, Last(t) = Leave, NEW l \in Nat, NEW p, NEW m,
         Trail(t, l, p, m)
  PROVE  /\ l > 0
         /\ Trail(Front(t), l - 1, [i \in 1 .. l - 1 |-> p[i]], [i \in 1 .. l - 1 |-> m[i]])
<1> DEFINE n == Len(t)
           u == Front(t)
           q == [i \in 1 .. l - 1 |-> p[i]]
           o == [i \in 1 .. l - 1 |-> m[i]]
<1>1. /\ n \in Nat \ {0} /\ DOMAIN t = 1 .. n /\ t[n] = Leave
      /\ DOMAIN u = 1 .. n - 1 /\ \A k \in 1 .. n - 1 : u[k] = t[k]
  BY TopFacts
<1> HIDE DEF n, u
<1>2. /\ p \in [1 .. l -> Node] /\ m \in [1 .. l -> 1 .. n]
      /\ \A i, j \in 1 .. l : i < j => m[i] < m[j] /\ rank[p[i]] < rank[p[j]]
      /\ \A i \in 1 .. l - 1 : p[i + 1] \in out[p[i]]
      /\ l > 0 => p[1] = Source
      /\ \A k \in 1 .. n : t[k] = Leave <=> \E i \in 1 .. l : m[i] = k
      /\ \A k \in 1 .. n : t[k] # Leave => Origin(t, l, p, m, k)
  BY <1>1 DEF Trail
<1>3. PICK i \in 1 .. l : m[i] = n
  BY <1>1, <1>2
<1>4. l > 0 /\ i = l
  <2>1. i < l => m[i] < m[l] /\ m[l] \in 1 .. n
    BY <1>2
  <2> QED BY <1>1, <1>3, <2>1
<1>5. \A j \in 1 .. l - 1 : m[j] < n /\ m[j] \in 1 .. n - 1
  <2> TAKE j \in 1 .. l - 1
  <2>1. j \in 1 .. l /\ l \in 1 .. l /\ j < l /\ m[j] \in 1 .. n
    BY <1>2, <1>4
  <2>2. m[j] < m[l]
    BY <1>2, <2>1
  <2> QED BY <1>1, <1>3, <1>4, <2>1, <2>2
<1>6. q \in [1 .. l - 1 -> Node] /\ o \in [1 .. l - 1 -> 1 .. n - 1]
  BY <1>2, <1>5
<1>7. \A j \in 1 .. l - 1 : q[j] = p[j] /\ o[j] = m[j] /\ j \in 1 .. l
  OBVIOUS
<1> HIDE DEF q, o
<1>8. \A j, k \in 1 .. l - 1 : j < k => o[j] < o[k] /\ rank[q[j]] < rank[q[k]]
  BY <1>2, <1>7
<1>9. \A j \in 1 .. (l - 1) - 1 : q[j + 1] \in out[q[j]]
  <2> TAKE j \in 1 .. (l - 1) - 1
  <2>1. j \in 1 .. l - 1 /\ j + 1 \in 1 .. l - 1
    BY <1>4
  <2> QED BY <1>2, <1>7, <2>1
<1>10. l - 1 > 0 => q[1] = Source
  BY <1>2, <1>4, <1>7
<1>11. ASSUME NEW k \in 1 .. n - 1 PROVE u[k] = Leave <=> \E j \in 1 .. l - 1 : o[j] = k
  <2>1. k \in 1 .. n /\ u[k] = t[k] /\ k # n
    BY <1>1
  <2>2. ASSUME NEW j \in 1 .. l, m[j] = k PROVE j \in 1 .. l - 1
    BY <1>3, <1>4, <2>1, <2>2
  <2> QED BY <1>2, <1>7, <2>1, <2>2
<1>12. ASSUME NEW k \in 1 .. n - 1, u[k] # Leave PROVE Origin(u, l - 1, q, o, k)
  <2>1. k \in 1 .. n /\ u[k] = t[k] /\ k < n
    BY <1>1
  <2>2. Origin(t, l, p, m, k)
    BY <1>2, <1>12, <2>1
  <2>3. CASE (\A j \in 1 .. l : k < m[j]) /\ t[k] = Source
    BY <1>7, <2>1, <2>3 DEF Origin
  <2>4. CASE \E j \in 1 .. l : m[j] < k /\ (\A x \in 1 .. l : j < x => k < m[x]) /\ t[k] \in out[p[j]]
    <3>1. PICK j \in 1 .. l : m[j] < k /\ (\A x \in 1 .. l : j < x => k < m[x]) /\ t[k] \in out[p[j]]
      BY <2>4
    <3>2. j # l
      BY <1>1, <1>3, <1>4, <2>1, <3>1
    <3>3. j \in 1 .. l - 1
      BY <3>2
    <3> QED BY <1>7, <2>1, <3>1, <3>3 DEF Origin
  <2> QED BY <2>2, <2>3, <2>4 DEF Origin
<1>13. Trail(u, l - 1, q, o)
  BY <1>1, <1>6, <1>8, <1>9, <1>10, <1>11, <1>12 DEF Trail
<1> QED BY <1>4, <1>13 DEF u, q, o

\* The node on top is where the walk begins or a successor of the last of the path.
LEMMA TopIs ==
  ASSUME NEW t \in Seq(OnStackOf), t # <<>>, Last(t) # Leave, NEW l \in Nat, NEW p, NEW m,
         Trail(t, l, p, m)
  PROVE  (l = 0 /\ Last(t) = Source) \/ (l > 0 /\ Last(t) \in out[p[l]])
<1> DEFINE n == Len(t)
<1>1. n \in Nat \ {0} /\ DOMAIN t = 1 .. n /\ Last(t) = t[n]
  BY TopFacts
<1> HIDE DEF n
<1>2. n \in 1 .. n /\ t[n] # Leave
  BY <1>1
<1>3. Origin(t, l, p, m, n) /\ m \in [1 .. l -> 1 .. n]
  BY <1>1, <1>2 DEF Trail
<1>4. CASE (\A i \in 1 .. l : n < m[i]) /\ t[n] = Source
  <2>1. l > 0 => 1 \in 1 .. l /\ m[1] \in 1 .. n /\ n < m[1]
    BY <1>3, <1>4
  <2> QED BY <1>1, <1>4, <2>1
<1>5. CASE \E j \in 1 .. l : m[j] < n /\ (\A i \in 1 .. l : j < i => n < m[i]) /\ t[n] \in out[p[j]]
  <2>1. PICK j \in 1 .. l : m[j] < n /\ (\A i \in 1 .. l : j < i => n < m[i]) /\ t[n] \in out[p[j]]
    BY <1>5
  <2>2. j < l => m[l] \in 1 .. n /\ n < m[l]
    BY <1>3, <2>1
  <2>3. j = l
    BY <1>1, <2>2
  <2> QED BY <1>1, <2>1, <2>3
<1> QED BY <1>3, <1>4, <1>5 DEF Origin

\* Node n enters the path; its mark takes its place, its successors go above.
LEMMA TrailEnter ==
  ASSUME IndInv, pc = "idle",
         NEW t \in Seq(OnStackOf), t # <<>>, Last(t) # Leave, NEW l \in Nat, NEW p, NEW m,
         Trail(t, l, p, m),
         NEW new \in SUBSET out[Last(t)], NEW next \in SetToSeqs(new)
  PROVE  Trail(Descend(Front(t), next), l + 1,
               [i \in 1 .. l + 1 |-> IF i <= l THEN p[i] ELSE Last(t)],
               [i \in 1 .. l + 1 |-> IF i <= l THEN m[i] ELSE Len(t)])
<1> DEFINE n == Len(t)
           v == Last(t)
           u == Descend(Front(t), next)
           k1 == Len(next)
           q == [i \in 1 .. l + 1 |-> IF i <= l THEN p[i] ELSE v]
           o == [i \in 1 .. l + 1 |-> IF i <= l THEN m[i] ELSE n]
<1>1. /\ n \in Nat \ {0} /\ DOMAIN t = 1 .. n /\ v = t[n] /\ v \in OnStackOf
      /\ Front(t) \in Seq(OnStackOf) /\ Len(Front(t)) = n - 1
      /\ \A k \in 1 .. n - 1 : Front(t)[k] = t[k]
  BY TopFacts
<1>2. v \in Node
  BY <1>1 DEF OnStackOf
<1>3. new \in SUBSET Node
  BY <1>2, IdleRanked
<1>4. /\ next \in Seq(Node) /\ k1 \in Nat
      /\ \A k \in 1 .. k1 : next[k] \in out[v]
  BY <1>3, OrderFactsOfSet
<1>5. /\ DOMAIN u = 1 .. n + k1
      /\ \A k \in 1 .. n - 1 : u[k] = t[k]
      /\ u[n] = Leave
      /\ \A k \in 1 .. k1 : u[n + k] = next[k]
  <2> DEFINE r == Front(t)
  <2>3. r \in Seq(OnStackOf) /\ next \in Seq(Node)
    BY <1>1, <1>4
  <2> HIDE DEF r
  <2>4. /\ DOMAIN Descend(r, next) = 1 .. Len(r) + 1 + Len(next)
        /\ \A k \in 1 .. Len(r) : Descend(r, next)[k] = r[k]
        /\ Descend(r, next)[Len(r) + 1] = Leave
        /\ \A k \in 1 .. Len(next) : Descend(r, next)[Len(r) + 1 + k] = next[k]
    BY <2>3, DescendFacts
  <2>5. Len(r) = n - 1 /\ u = Descend(r, next)
    BY <1>1 DEF r
  <2> HIDE DEF u, n
  <2>1. /\ DOMAIN u = 1 .. (n - 1) + 1 + k1
        /\ \A k \in 1 .. n - 1 : u[k] = r[k]
        /\ u[(n - 1) + 1] = Leave
        /\ \A k \in 1 .. k1 : u[(n - 1) + 1 + k] = next[k]
    BY <2>4, <2>5
  <2>2. (n - 1) + 1 = n
    BY <1>1
  <2> QED BY <1>1, <1>4, <2>1, <2>2 DEF r
<1>6. (l = 0 /\ v = Source) \/ (l > 0 /\ v \in out[p[l]])
  BY TopIs
<1>7. v # Leave /\ Leave \notin Node
  BY LeaveFacts
<1>8. \A k \in 1 .. k1 : next[k] \in Node
  BY <1>4, ElementOfSeq
<1>9. \A k \in Node : rank[k] \in Int
  BY IdleRanked
<1>10. \A a, b \in Node : b \in out[a] => rank[a] < rank[b]
  BY IdleRanked
<1> HIDE DEF n, v, u, k1
<1>11. /\ p \in [1 .. l -> Node] /\ m \in [1 .. l -> 1 .. n]
       /\ \A i, j \in 1 .. l : i < j => m[i] < m[j] /\ rank[p[i]] < rank[p[j]]
       /\ \A i \in 1 .. l - 1 : p[i + 1] \in out[p[i]]
       /\ l > 0 => p[1] = Source
       /\ \A k \in 1 .. n : t[k] = Leave <=> \E i \in 1 .. l : m[i] = k
       /\ \A k \in 1 .. n : t[k] # Leave => Origin(t, l, p, m, k)
  BY <1>1 DEF Trail
<1>12. \A i \in 1 .. l : m[i] \in 1 .. n - 1
  <2> TAKE i \in 1 .. l
  <2>1. m[i] \in 1 .. n /\ t[m[i]] = Leave
    BY <1>11
  <2> QED BY <1>1, <1>7, <2>1
<1>13. /\ \A i \in 1 .. l : q[i] = p[i] /\ o[i] = m[i]
       /\ q[l + 1] = v /\ o[l + 1] = n
  OBVIOUS
<1>14. q \in [1 .. l + 1 -> Node] /\ o \in [1 .. l + 1 -> 1 .. n + k1]
  BY <1>1, <1>2, <1>4, <1>11
<1> HIDE DEF q, o
<1>15. \A i \in 1 .. l : rank[p[i]] < rank[v]
  <2> TAKE i \in 1 .. l
  <2>1. l > 0 /\ l \in 1 .. l /\ p[l] \in Node /\ p[i] \in Node
    BY <1>11
  <2>2. rank[p[l]] < rank[v]
    BY <1>2, <1>6, <1>10, <2>1
  <2>3. i < l => rank[p[i]] < rank[p[l]]
    BY <1>11, <2>1
  <2>4. rank[p[i]] \in Int /\ rank[p[l]] \in Int /\ rank[v] \in Int
    BY <1>2, <1>9, <2>1
  <2> QED BY <2>2, <2>3, <2>4
<1>16. \A i, j \in 1 .. l + 1 : i < j => o[i] < o[j] /\ rank[q[i]] < rank[q[j]]
  <2> SUFFICES ASSUME NEW i \in 1 .. l + 1, NEW j \in 1 .. l + 1, i < j
               PROVE  o[i] < o[j] /\ rank[q[i]] < rank[q[j]]
    OBVIOUS
  <2>1. i \in 1 .. l /\ (j \in 1 .. l \/ j = l + 1)
    OBVIOUS
  <2>2. CASE j \in 1 .. l
    BY <1>11, <1>13, <2>1, <2>2
  <2>3. CASE j = l + 1
    <3>1. m[i] < n
      BY <1>1, <1>12, <2>1
    <3> QED BY <1>13, <1>15, <2>1, <2>3, <3>1
  <2> QED BY <2>1, <2>2, <2>3
<1>17. \A i \in 1 .. (l + 1) - 1 : q[i + 1] \in out[q[i]]
  <2> TAKE i \in 1 .. (l + 1) - 1
  <2>1. CASE i = l
    <3>1. l > 0 /\ i \in 1 .. l
      BY <2>1
    <3> QED BY <1>6, <1>13, <2>1, <3>1
  <2>2. CASE i # l
    <3>1. i \in 1 .. l - 1 /\ i \in 1 .. l /\ i + 1 \in 1 .. l
      BY <2>2
    <3> QED BY <1>11, <1>13, <3>1
  <2> QED BY <2>1, <2>2
<1>18. q[1] = Source
  <2>1. CASE l = 0
    BY <1>6, <1>13, <2>1
  <2>2. CASE l > 0
    BY <1>11, <1>13, <2>2
  <2> QED BY <2>1, <2>2
<1>19. ASSUME NEW k \in 1 .. n + k1 PROVE u[k] = Leave <=> \E i \in 1 .. l + 1 : o[i] = k
  <2>1. CASE k \in 1 .. n - 1
    <3>1. k \in 1 .. n /\ u[k] = t[k] /\ k # n
      BY <1>1, <1>5, <2>1
    <3>2. \A i \in 1 .. l + 1 : o[i] = k => i \in 1 .. l /\ m[i] = k
      <4> TAKE i \in 1 .. l + 1
      <4>1. i \in 1 .. l \/ i = l + 1
        OBVIOUS
      <4> QED BY <1>13, <3>1, <4>1
    <3>3. \A i \in 1 .. l : m[i] = k => i \in 1 .. l + 1 /\ o[i] = k
      BY <1>13
    <3> QED BY <1>11, <3>1, <3>2, <3>3
  <2>2. CASE k = n
    BY <1>5, <1>13, <2>2
  <2>3. CASE k > n
    <3>1. k - n \in 1 .. k1 /\ n + (k - n) = k
      BY <1>1, <1>4, <2>3
    <3>2. u[k] \in Node
      BY <1>5, <1>8, <3>1
    <3>3. ASSUME NEW i \in 1 .. l + 1 PROVE o[i] # k
      <4>1. i \in 1 .. l \/ i = l + 1
        OBVIOUS
      <4> QED BY <1>1, <1>12, <1>13, <2>3, <4>1
    <3> QED BY <1>7, <3>2, <3>3
  <2> QED BY <1>1, <2>1, <2>2, <2>3
<1>20. ASSUME NEW k \in 1 .. n + k1, u[k] # Leave PROVE Origin(u, l + 1, q, o, k)
  <2>1. CASE k \in 1 .. n - 1
    <3>1. k \in 1 .. n /\ u[k] = t[k] /\ k < n
      BY <1>1, <1>5, <2>1
    <3>2. Origin(t, l, p, m, k)
      BY <1>11, <1>20, <3>1
    <3>3. CASE (\A j \in 1 .. l : k < m[j]) /\ t[k] = Source
      <4>1. ASSUME NEW j \in 1 .. l + 1 PROVE k < o[j]
        <5>1. j \in 1 .. l \/ j = l + 1
          OBVIOUS
        <5> QED BY <1>13, <3>1, <3>3, <5>1
      <4> QED BY <3>1, <3>3, <4>1 DEF Origin
    <3>4. CASE \E j \in 1 .. l : m[j] < k /\ (\A x \in 1 .. l : j < x => k < m[x]) /\ t[k] \in out[p[j]]
      <4>1. PICK j \in 1 .. l : m[j] < k /\ (\A x \in 1 .. l : j < x => k < m[x]) /\ t[k] \in out[p[j]]
        BY <3>4
      <4>2. j \in 1 .. l + 1 /\ o[j] = m[j] /\ q[j] = p[j]
        BY <1>13
      <4>3. ASSUME NEW x \in 1 .. l + 1, j < x PROVE k < o[x]
        <5>1. x \in 1 .. l \/ x = l + 1
          OBVIOUS
        <5> QED BY <1>13, <3>1, <4>1, <4>3, <5>1
      <4> QED BY <3>1, <4>1, <4>2, <4>3 DEF Origin
    <3> QED BY <3>2, <3>3, <3>4 DEF Origin
  <2>2. CASE k > n
    <3>1. k - n \in 1 .. k1 /\ n + (k - n) = k
      BY <1>1, <1>4, <2>2
    <3>2. u[k] \in out[v]
      BY <1>4, <1>5, <3>1 DEF v
    <3>3. l + 1 \in 1 .. l + 1 /\ o[l + 1] < k /\ \A x \in 1 .. l + 1 : ~(l + 1 < x)
      BY <1>13, <2>2
    <3> QED BY <1>13, <3>2, <3>3 DEF Origin
  <2>3. k # n
    BY <1>5, <1>20
  <2> QED BY <1>1, <2>1, <2>2, <2>3
<1>21. Trail(u, l + 1, q, o)
  BY <1>5, <1>14, <1>16, <1>17, <1>18, <1>19, <1>20 DEF Trail
<1> QED BY <1>21 DEF u, q, o, n, v

\* The array after a node entered the path.
LEMMA EnteredFacts ==
  ASSUME path_len \in Nat, NEW p \in [1 .. path_len -> Node], Holds(path, path_len, p),
         NEW n \in Node
  PROVE  /\ Holds(Entered(n), path_len + 1,
                  [i \in 1 .. path_len + 1 |-> IF i <= path_len THEN p[i] ELSE n])
         /\ Len(Entered(n)) <= path_len + 1
<1> DEFINE l == path_len
           q == [i \in 1 .. l + 1 |-> IF i <= l THEN p[i] ELSE n]
<1>1. /\ path \in Seq(Node) /\ Len(path) \in Nat /\ Len(path) <= MaxPath
      /\ \A i \in 1 .. l : i <= MaxPath => i <= Len(path) /\ path[i] = p[i]
      /\ MaxPath \in Nat
  BY MaxPathAssumption, LenProperties DEF Holds
<1>2. l \in Nat /\ (\A i \in 1 .. l : q[i] = p[i]) /\ q[l + 1] = n
  OBVIOUS
<1> HIDE DEF l, q
<1>3. CASE l < MaxPath
  <2> DEFINE a == SubSeq(path, 1, l)
             b == <<n>>
             c == a \o b
  <2>1. \A i \in 1 .. l : path[i] = p[i] /\ path[i] \in Node
    <3> TAKE i \in 1 .. l
    <3>1. i <= Len(path) /\ path[i] = p[i] /\ i \in 1 .. Len(path)
      BY <1>1, <1>2, <1>3
    <3> QED BY <1>1, <3>1, ElementOfSeq
  <2>2. /\ a \in Seq(Node) /\ Len(a) = (IF 1 <= l THEN l - 1 + 1 ELSE 0)
        /\ \A i \in 1 .. l - 1 + 1 : a[i] = path[1 + i - 1]
    <3>1. 1 \in Int /\ l \in Int
      BY <1>2
    <3> QED BY <2>1, <3>1, SubSeqProperties
  <2>3. Len(a) = l /\ \A i \in 1 .. l : a[i] = p[i]
    BY <1>2, <2>1, <2>2
  <2>4. b \in Seq(Node) /\ Len(b) = 1 /\ b[1] = n
    OBVIOUS
  <2> HIDE DEF a, b
  <2>5. /\ c \in Seq(Node) /\ Len(c) = Len(a) + Len(b)
        /\ \A i \in 1 .. Len(a) + Len(b) : c[i] = IF i <= Len(a) THEN a[i] ELSE b[i - Len(a)]
    BY <2>2, <2>4, ConcatProperties
  <2> HIDE DEF c
  <2>6. Len(c) = l + 1 /\ (\A i \in 1 .. l : c[i] = p[i]) /\ c[l + 1] = n
    BY <1>2, <2>3, <2>4, <2>5
  <2>7. \A i \in 1 .. l + 1 : c[i] = q[i]
    <3> TAKE i \in 1 .. l + 1
    <3>1. i \in 1 .. l \/ i = l + 1
      BY <1>2
    <3> QED BY <1>2, <2>6, <3>1
  <2>8. Holds(c, l + 1, q)
    BY <1>1, <1>2, <1>3, <2>5, <2>6, <2>7 DEF Holds
  <2>9. Entered(n) = c
    BY <1>3 DEF Entered, l, c, b, a
  <2> QED BY <1>2, <2>6, <2>8, <2>9 DEF l, q
<1>4. CASE ~(l < MaxPath)
  <2>1. Entered(n) = path
    BY <1>4 DEF Entered, l
  <2>2. \A i \in 1 .. l + 1 : i <= MaxPath => i \in 1 .. l
    BY <1>1, <1>2, <1>4
  <2>3. Holds(path, l + 1, q)
    BY <1>1, <1>2, <2>2 DEF Holds
  <2>4. Len(path) <= l + 1
    BY <1>1, <1>2, <1>4
  <2> QED BY <2>1, <2>3, <2>4 DEF l, q
<1> QED BY <1>3, <1>4

LEMMA ExploredLeave ==
  ASSUME NEW t \in Seq(OnStackOf), t # <<>>, Last(t) = Leave, NEW s \in SUBSET Node,
         Source \in Node, Target \in Node, Explored(t, s)
  PROVE  Explored(Front(t), s)
<1>1. ASSUME NEW n \in Node, OnStack(t, n) PROVE OnStack(Front(t), n)
  <2>1. PICK k \in DOMAIN t : t[k] = n
    BY <1>1 DEF OnStack
  <2>2. /\ Len(t) \in Nat \ {0} /\ DOMAIN t = 1 .. Len(t) /\ Last(t) = t[Len(t)]
        /\ DOMAIN Front(t) = 1 .. Len(t) - 1 /\ \A j \in 1 .. Len(t) - 1 : Front(t)[j] = t[j]
    BY TopFacts
  <2>3. k # Len(t)
    BY <2>1, <2>2, LeaveFacts
  <2>4. k \in 1 .. Len(t) - 1
    BY <2>1, <2>2, <2>3
  <2> QED BY <2>1, <2>2, <2>4 DEF OnStack
<1> QED BY <1>1 DEF Explored

LEMMA ExploredEnter ==
  ASSUME NEW t \in Seq(OnStackOf), t # <<>>, Last(t) \in Node, Last(t) # Target,
         out[Last(t)] \subseteq Node, NEW s \in SUBSET Node,
         NEW next \in SetToSeqs(out[Last(t)] \ s),
         Source \in Node, Target \in Node, Explored(t, s)
  PROVE  Explored(Descend(Front(t), next), s \cup (out[Last(t)] \ s))
<1> DEFINE v == Last(t)
           new == out[v] \ s
           r == Front(t)
           u == Descend(r, next)
           x == s \cup new
<1>1. /\ Len(t) \in Nat \ {0} /\ DOMAIN t = 1 .. Len(t) /\ v = t[Len(t)]
      /\ r \in Seq(OnStackOf) /\ Len(r) = Len(t) - 1 /\ \A k \in 1 .. Len(t) - 1 : r[k] = t[k]
  BY TopFacts
<1>2. new \in SUBSET Node
  OBVIOUS
<1>3. next \in Seq(Node) /\ Len(next) \in Nat /\ \A w \in new : \E k \in 1 .. Len(next) : next[k] = w
  BY <1>2, OrderFactsOfSet
<1> HIDE DEF r
<1>4. /\ DOMAIN u = 1 .. Len(r) + 1 + Len(next)
      /\ \A k \in 1 .. Len(r) : u[k] = r[k]
      /\ \A k \in 1 .. Len(next) : u[Len(r) + 1 + k] = next[k]
  BY <1>1, <1>3, DescendFacts
<1> HIDE DEF u
<1>5. ASSUME NEW w \in new PROVE OnStack(u, w)
  <2>1. PICK k \in 1 .. Len(next) : next[k] = w
    BY <1>3
  <2>2. Len(r) + 1 + k \in 1 .. Len(r) + 1 + Len(next)
    BY <1>1, <1>3
  <2> QED BY <1>4, <2>1, <2>2 DEF OnStack
<1>6. ASSUME NEW n \in Node, OnStack(t, n), n # v PROVE OnStack(u, n)
  <2>1. PICK k \in DOMAIN t : t[k] = n
    BY <1>6 DEF OnStack
  <2>2. k \in 1 .. Len(t) - 1
    BY <1>1, <1>6, <2>1
  <2>3. k \in 1 .. Len(r) /\ k \in 1 .. Len(r) + 1 + Len(next)
    BY <1>1, <1>3, <2>2
  <2> QED BY <1>1, <1>4, <2>1, <2>2, <2>3 DEF OnStack
<1>7. ASSUME NEW n \in x \cup {Source} PROVE OnStack(u, n) \/ out[n] \subseteq x
  <2>1. CASE n \in new
    BY <1>5, <2>1
  <2>2. CASE n \in s \cup {Source}
    <3>1. n \in Node /\ (OnStack(t, n) \/ out[n] \subseteq s)
      BY <2>2 DEF Explored
    <3>2. n = v => out[n] \subseteq x
      OBVIOUS
    <3> QED BY <1>6, <3>1, <3>2
  <2> QED BY <1>7, <2>1, <2>2
<1>8. ASSUME Target \in x \cup {Source} PROVE OnStack(u, Target)
  <2>1. CASE Target \in new
    BY <1>5, <2>1
  <2>2. CASE Target \in s \cup {Source}
    BY <1>6, <2>2 DEF Explored
  <2> QED BY <1>8, <2>1, <2>2
<1>9. Explored(u, x)
  BY <1>7, <1>8 DEF Explored
<1> QED BY <1>9 DEF u, r

-----------------------------------------------------------------------------
(* FindPath's steps. *)

\* What a call of FindPath has found: Report is ReportShowsCycle's.
Report(l, a) == /\ l > 0 /\ Len(a) = Min({l, MaxPath})
                /\ \E p \in [1 .. l -> Node] :
                     IsPath(p, Source, Target) /\ a = SubSeq(p, 1, Len(a))

\* The graph does not change while FindPath runs.
LEMMA WalkKept ==
  ASSUME UNCHANGED vars, NEW t, NEW s, NEW l, NEW a, WalkOf(t, s, l, a),
         todo' = t, seen' = s, path_len' = l, path' = a
  PROVE  Walking'
<1>1. rank' = rank /\ out' = out /\ verdict' = verdict /\ pc' = pc
  BY DEF vars, search
<1>2. Source' = Source /\ Target' = Target /\ Refused' = Refused
  BY <1>1 DEF Source, Target, Refused
<1>3. Explored(todo, seen)'
  <2>1. Explored(t, s)
    BY DEF WalkOf
  <2> QED BY <1>1, <1>2, <2>1 DEF Explored, OnStack
<1>4. PICK p \in [1 .. l -> Node], m \in [1 .. l -> DOMAIN t] : Trail(t, l, p, m) /\ Holds(a, l, p)
  BY DEF WalkOf
<1>5. Trail(todo, path_len, p, m)'
  BY <1>1, <1>2, <1>4 DEF Trail, Origin
<1>6. Holds(path, path_len, p)'
  BY <1>4 DEF Holds
<1>7. /\ Refused' /\ todo' \in Seq(OnStackOf) /\ seen' \in SUBSET Node /\ path_len' \in Nat
  BY <1>2 DEF WalkOf
<1> QED BY <1>3, <1>4, <1>5, <1>6, <1>7 DEF Walking, WalkOf

LEMMA ReportKept ==
  ASSUME UNCHANGED vars, NEW l, NEW a, Report(l, a), path_len' = l, path' = a
  PROVE  ReportShowsCycle'
<1>1. out' = out /\ Source' = Source /\ Target' = Target
  BY DEF vars, search, Source, Target
<1> QED BY <1>1 DEF Report, ReportShowsCycle, IsPath

LEMMA PathBackKept == ASSUME UNCHANGED vars, PathBack PROVE PathBack'
BY DEF vars, store, search, PathBack, Refused, Source, Target, Found, Edges

LEMMA RefusalFacts ==
  ASSUME IndInv, PathBack, Refused
  PROVE  /\ pc = "idle" /\ Source \in Node /\ Target \in Node
         /\ Reaches(Edges, Node, Source, Target)
         /\ \A n \in Node : out[n] \in SUBSET Node
BY IdleRanked DEF PathBack, Refused

LEMMA FindPathInv == ASSUME IndInv, PathInv, FindPath PROVE PathInv'
<1>1. Refused /\ PathBack /\ UNCHANGED vars
  BY DEF FindPath, PathInv
<1>2. /\ fp' = "walk" /\ todo' = <<Source>> /\ seen' = {} /\ path_len' = 0 /\ path' = <<>>
  BY <1>1 DEF FindPath, PathBack
<1> DEFINE t == <<Source>>
           p == [i \in 1 .. 0 |-> Source]
           m == [i \in 1 .. 0 |-> 1]
<1>3. Source \in Node
  BY <1>1, RefusalFacts
<1>4. t \in Seq(OnStackOf) /\ DOMAIN t = {1} /\ t[1] = Source /\ Source # Leave
  BY <1>3, LeaveFacts
<1>5. p \in [1 .. 0 -> Node] /\ m \in [1 .. 0 -> DOMAIN t]
  BY <1>3
<1> HIDE DEF t, p, m
<1>6. Explored(t, {})
  BY <1>4 DEF Explored, OnStack
<1>7. Trail(t, 0, p, m)
  BY <1>4, <1>5 DEF Trail, Origin
<1>8. Holds(<<>>, 0, p)
  BY MaxPathAssumption DEF Holds
<1>9. WalkOf(t, {}, 0, <<>>)
  BY <1>1, <1>4, <1>5, <1>6, <1>7, <1>8 DEF WalkOf
<1>10. Walking'
  BY <1>1, <1>2, <1>9, WalkKept DEF t
<1> QED BY <1>1, <1>2, <1>10, PathBackKept DEF PathInv, ReportShowsCycle

LEMMA LeaveNodeInv == ASSUME IndInv, PathInv, LeaveNode PROVE PathInv'
<1>1. /\ PathBack /\ Walking /\ UNCHANGED vars /\ todo # <<>> /\ Last(todo) = Leave
      /\ todo' = Front(todo) /\ path_len' = path_len - 1 /\ seen' = seen /\ path' = path
      /\ fp' = "walk"
  BY DEF LeaveNode, PathInv
<1>2. /\ Refused /\ todo \in Seq(OnStackOf) /\ seen \in SUBSET Node /\ path_len \in Nat
      /\ Explored(todo, seen)
  BY <1>1 DEF Walking, WalkOf
<1>3. PICK p \in [1 .. path_len -> Node], m \in [1 .. path_len -> DOMAIN todo] :
        Trail(todo, path_len, p, m) /\ Holds(path, path_len, p)
  BY <1>1 DEF Walking, WalkOf
<1> DEFINE l == path_len - 1
           q == [i \in 1 .. path_len - 1 |-> p[i]]
           o == [i \in 1 .. path_len - 1 |-> m[i]]
<1>4. path_len > 0 /\ Trail(Front(todo), l, q, o)
  BY <1>1, <1>2, <1>3, TrailLeave
<1>5. l \in Nat /\ \A i \in 1 .. l : i \in 1 .. path_len /\ q[i] = p[i]
  BY <1>2, <1>4
<1>6. Front(todo) \in Seq(OnStackOf)
  BY <1>1, <1>2, TopFacts
<1>7. Explored(Front(todo), seen)
  BY <1>1, <1>2, RefusalFacts, ExploredLeave
<1> HIDE DEF l, q, o
<1>8. q \in [1 .. l -> Node] /\ o \in [1 .. l -> DOMAIN Front(todo)]
  BY <1>4 DEF Trail
<1>9. Holds(path, l, q)
  BY <1>3, <1>5 DEF Holds
<1>10. WalkOf(Front(todo), seen, l, path)
  BY <1>2, <1>4, <1>5, <1>6, <1>7, <1>8, <1>9 DEF WalkOf
<1>11. path_len' = l
  BY <1>1 DEF l
<1>12. Walking'
  BY <1>1, <1>10, <1>11, WalkKept
<1> QED BY <1>1, <1>12, PathBackKept DEF PathInv, ReportShowsCycle

LEMMA EnterNodeInv == ASSUME IndInv, PathInv, EnterNode PROVE PathInv'
<1> DEFINE v == Last(todo)
           new == out[v] \ seen
           l == path_len + 1
<1>1. /\ PathBack /\ Walking /\ UNCHANGED vars /\ todo # <<>> /\ v \notin {Leave, Target}
      /\ seen' = seen \cup new /\ path_len' = l /\ path' = Entered(v) /\ fp' = "walk"
  BY DEF EnterNode, PathInv
<1>2. PICK next \in SetToSeqs(new) : todo' = Descend(Front(todo), next)
  BY DEF EnterNode
<1>3. /\ Refused /\ todo \in Seq(OnStackOf) /\ seen \in SUBSET Node /\ path_len \in Nat
      /\ Explored(todo, seen)
  BY <1>1 DEF Walking, WalkOf
<1>4. PICK p \in [1 .. path_len -> Node], m \in [1 .. path_len -> DOMAIN todo] :
        Trail(todo, path_len, p, m) /\ Holds(path, path_len, p)
  BY <1>1 DEF Walking, WalkOf
<1>5. /\ pc = "idle" /\ Source \in Node /\ Target \in Node
      /\ \A n \in Node : out[n] \in SUBSET Node
  BY <1>1, <1>3, RefusalFacts
<1>6. v \in Node /\ Front(todo) \in Seq(OnStackOf)
  <2>1. v \in OnStackOf /\ Front(todo) \in Seq(OnStackOf)
    BY <1>1, <1>3, TopFacts
  <2> HIDE DEF v
  <2> QED BY <1>1, <2>1 DEF OnStackOf
<1>7. new \in SUBSET Node /\ new \in SUBSET out[v]
  BY <1>5, <1>6
<1> DEFINE u == Descend(Front(todo), next)
           q == [i \in 1 .. path_len + 1 |-> IF i <= path_len THEN p[i] ELSE v]
           o == [i \in 1 .. path_len + 1 |-> IF i <= path_len THEN m[i] ELSE Len(todo)]
<1>8. Trail(u, l, q, o)
  BY <1>1, <1>2, <1>3, <1>4, <1>5, <1>7, TrailEnter
<1>9. Holds(Entered(v), l, q)
  BY <1>3, <1>4, <1>6, EnteredFacts
<1>10. Explored(u, seen \cup new)
  BY <1>1, <1>2, <1>3, <1>5, <1>6, ExploredEnter
<1>11. u \in Seq(OnStackOf)
  <2>1. next \in Seq(Node)
    BY <1>2, <1>7, OrderFactsOfSet
  <2> QED BY <1>6, <2>1, DescendFacts
<1>12. l \in Nat /\ seen \cup new \in SUBSET Node
  BY <1>3, <1>7
<1>13. todo' = u
  BY <1>2
<1> HIDE DEF v, new, l, u, q, o
<1>14. q \in [1 .. l -> Node] /\ o \in [1 .. l -> DOMAIN u]
  BY <1>8 DEF Trail
<1>15. WalkOf(u, seen \cup new, l, Entered(v))
  BY <1>3, <1>8, <1>9, <1>10, <1>11, <1>12, <1>14 DEF WalkOf
<1>16. Walking'
  BY <1>1, <1>13, <1>15, WalkKept
<1> QED BY <1>1, <1>16, PathBackKept DEF PathInv, ReportShowsCycle

\* The stack is never empty: what was pushed would be closed under the edges
\* without the target, which can be reached.
LEMMA NotEmptied ==
  ASSUME IndInv, PathBack, NEW t, NEW s, NEW l, NEW a, WalkOf(t, s, l, a)
  PROVE  t # <<>>
<1> SUFFICES ASSUME t = <<>> PROVE FALSE
  OBVIOUS
<1> DEFINE S == s \cup {Source}
<1>1. Refused /\ Explored(t, s) /\ s \in SUBSET Node
  BY DEF WalkOf
<1>2. /\ Source \in Node /\ Reaches(Edges, Node, Source, Target)
  BY <1>1, RefusalFacts
<1>3. DOMAIN t = {}
  OBVIOUS
<1>4. (\A n \in S : out[n] \subseteq s) /\ Target \notin S
  BY <1>1, <1>3 DEF Explored, OnStack
<1>5. Closed(Edges, S)
  BY <1>4 DEF Closed, Edges
<1>6. S \in SUBSET Node /\ Source \in S
  BY <1>1, <1>2
<1> HIDE DEF S
<1> QED BY <1>2, <1>4, <1>5, <1>6 DEF Reaches

\* A trail whose nodes end at the target is the path of the report.
LEMMA TrailReport ==
  ASSUME IndInv, PathBack, Refused, NEW t, NEW l \in Nat \ {0}, NEW p, NEW m, NEW a,
         Trail(t, l, p, m), p[l] = Target, Holds(a, l, p), Len(a) <= l
  PROVE  Report(l, a)
<1>1. /\ p \in [1 .. l -> Node] /\ p[1] = Source
      /\ \A i, j \in 1 .. l : i < j => rank[p[i]] < rank[p[j]]
      /\ \A i \in 1 .. l - 1 : p[i + 1] \in out[p[i]]
  BY DEF Trail
<1>2. \A n \in Node : rank[n] \in Int
  BY RefusalFacts, IdleRanked
<1>3. p \in Seq(Node) /\ Len(p) = l /\ DOMAIN p = 1 .. l
  BY <1>1
<1>4. \A i, j \in 1 .. l : p[i] = p[j] => i = j
  <2> SUFFICES ASSUME NEW i \in 1 .. l, NEW j \in 1 .. l, p[i] = p[j], i # j PROVE FALSE
    OBVIOUS
  <2>1. p[i] \in Node /\ rank[p[i]] \in Int
    BY <1>1, <1>2
  <2>2. i < j \/ j < i
    OBVIOUS
  <2>3. rank[p[i]] < rank[p[i]]
    BY <1>1, <2>2
  <2> QED BY <2>1, <2>3
<1>5. IsPath(p, Source, Target)
  BY <1>1, <1>3, <1>4 DEF IsPath
<1>6. /\ a \in Seq(Node) /\ Len(a) \in Nat /\ Len(a) <= MaxPath /\ MaxPath \in Nat
      /\ \A i \in 1 .. l : i <= MaxPath => i <= Len(a) /\ a[i] = p[i]
  BY MaxPathAssumption, LenProperties DEF Holds
<1>7. Len(a) = l \/ Len(a) = MaxPath
  <2>1. CASE l <= MaxPath
    <3>1. l \in 1 .. l
      OBVIOUS
    <3> QED BY <1>6, <2>1, <3>1
  <2>2. CASE l > MaxPath /\ MaxPath # 0
    <3>1. MaxPath \in 1 .. l
      BY <1>6, <2>2
    <3> QED BY <1>6, <3>1
  <2>3. CASE MaxPath = 0
    BY <1>6, <2>3
  <2> QED BY <1>6, <2>1, <2>2, <2>3
<1>8. Len(a) = Min({l, MaxPath})
  <2> DEFINE I == {l, MaxPath}
  <2>1. I \subseteq Nat /\ I # {}
    BY <1>6
  <2>2. Min(I) \in I /\ \A j \in I : Min(I) <= j
    BY <2>1, MinFacts
  <2>3. Min(I) <= l /\ Min(I) <= MaxPath /\ (Min(I) = l \/ Min(I) = MaxPath)
    BY <2>2
  <2> HIDE DEF I
  <2>4. Len(a) = Min(I)
    BY <1>6, <1>7, <2>3
  <2> QED BY <2>4 DEF I
<1> DEFINE b == SubSeq(p, 1, Len(a))
<1>9. /\ b \in Seq(Node) /\ Len(b) = (IF 1 <= Len(a) THEN Len(a) - 1 + 1 ELSE 0)
      /\ \A i \in 1 .. Len(a) - 1 + 1 : b[i] = p[1 + i - 1]
  <2>1. 1 \in Int /\ Len(a) \in Int /\ \A i \in 1 .. Len(a) : p[i] \in Node
    BY <1>1, <1>6
  <2> QED BY <2>1, SubSeqProperties
<1> HIDE DEF b
<1>10. Len(a) = Len(b) /\ \A i \in 1 .. Len(a) : a[i] = b[i]
  <2>1. Len(b) = Len(a)
    BY <1>6, <1>9
  <2>2. ASSUME NEW i \in 1 .. Len(a) PROVE a[i] = b[i]
    <3>1. i \in 1 .. l /\ i <= MaxPath /\ i \in 1 .. Len(a) - 1 + 1 /\ 1 + i - 1 = i
      BY <1>6
    <3> QED BY <1>6, <1>9, <3>1
  <2> QED BY <2>1, <2>2
<1>11. a = b
  BY <1>6, <1>9, <1>10, SeqEqual
<1>12. a = SubSeq(p, 1, Len(a))
  BY <1>11 DEF b
<1>13. p \in [1 .. l -> Node] /\ l > 0
  BY <1>1
<1> QED BY <1>5, <1>8, <1>12, <1>13, Zenon DEF Report

LEMMA ReturnInv == ASSUME IndInv, PathInv, Return PROVE PathInv'
<1>1. PathBack /\ Walking /\ UNCHANGED vars /\ fp' = "told"
  BY DEF Return, PathInv
<1>2. todo # <<>>
  BY <1>1, NotEmptied DEF Walking
<1>3. Last(todo) = Target /\ path_len' = path_len + 1 /\ path' = Entered(Target)
  BY <1>2 DEF Return
<1>4. /\ Refused /\ todo \in Seq(OnStackOf) /\ path_len \in Nat
  BY <1>1 DEF Walking, WalkOf
<1>5. PICK p \in [1 .. path_len -> Node], m \in [1 .. path_len -> DOMAIN todo] :
        Trail(todo, path_len, p, m) /\ Holds(path, path_len, p)
  BY <1>1 DEF Walking, WalkOf
<1>6. pc = "idle" /\ Source \in Node /\ Target \in Node
  BY <1>1, <1>4, RefusalFacts
<1> DEFINE l == path_len + 1
           q == [i \in 1 .. path_len + 1 |-> IF i <= path_len THEN p[i] ELSE Last(todo)]
           o == [i \in 1 .. path_len + 1 |-> IF i <= path_len THEN m[i] ELSE Len(todo)]
           e == [i \in 1 .. 0 |-> 0]
<1>7. e \in SetToSeqs({})
  <2>1. Cardinality({}) = 0
    BY FS_EmptySet
  <2>2. e \in [1 .. 0 -> {}] /\ \A i, j \in 1 .. 0 : i # j => e[i] # e[j]
    OBVIOUS
  <2> HIDE DEF e
  <2> QED BY <2>1, <2>2 DEF SetToSeqs
<1> HIDE DEF e
<1>8. Trail(Descend(Front(todo), e), l, q, o)
  <2>1. {} \in SUBSET out[Last(todo)] /\ Last(todo) # Leave
    BY <1>3, <1>6, LeaveFacts
  <2> QED BY <1>2, <1>4, <1>5, <1>6, <1>7, <2>1, TrailEnter
<1>9. Holds(Entered(Target), l, q) /\ Len(Entered(Target)) <= l
  BY <1>3, <1>4, <1>5, <1>6, EnteredFacts
<1>10. l \in Nat \ {0} /\ q[l] = Target
  BY <1>3, <1>4
<1> HIDE DEF l, q, o
<1>11. Report(l, Entered(Target))
  BY <1>1, <1>4, <1>8, <1>9, <1>10, TrailReport
<1>12. path_len' = l
  BY <1>3 DEF l
<1>13. ReportShowsCycle'
  BY <1>1, <1>3, <1>11, <1>12, ReportKept
<1> QED BY <1>1, <1>13, PathBackKept DEF PathInv

LEMMA PathStutter == ASSUME PathInv, UNCHANGED <<vars, walk, fp>> PROVE PathInv'
<1>1. /\ PathBack /\ UNCHANGED vars /\ todo' = todo /\ seen' = seen
      /\ path_len' = path_len /\ path' = path /\ fp' = fp
  BY DEF PathInv, walk
<1>2. ASSUME fp = "walk" PROVE Walking'
  BY <1>1, <1>2, WalkKept DEF PathInv, Walking
<1>3. ASSUME fp = "told" PROVE ReportShowsCycle'
  <2>1. Report(path_len, path)
    BY <1>3 DEF PathInv, ReportShowsCycle, Report
  <2> QED BY <1>1, <2>1, ReportKept
<1> QED BY <1>1, <1>2, <1>3, PathBackKept DEF PathInv, ReportShowsCycle

\* A step of the graph with FindPath is one of the graph alone, or changes nothing.
LEMMA PathNextIs == ASSUME [PathNext]_<<vars, walk, fp>> PROVE [Next]_vars
BY DEF PathNext, FindPath, PathStep, LeaveNode, EnterNode, Return, OtherCall

LEMMA PathNextInv ==
  ASSUME IndInv, PathInv, [PathNext]_<<vars, walk, fp>> PROVE IndInv' /\ PathInv'
<1>1. IndInv'
  BY PathNextIs, NextInv
<1> SUFFICES PathInv'
  BY <1>1
<1>2. CASE OtherCall
  BY <1>2, RefusalInv DEF OtherCall, PathInv, ReportShowsCycle
<1>3. CASE UNCHANGED <<vars, walk, fp>>
  BY <1>3, PathStutter
<1>4. CASE FindPath
  BY <1>4, FindPathInv
<1>5. CASE LeaveNode \/ EnterNode \/ Return
  BY <1>5, LeaveNodeInv, EnterNodeInv, ReturnInv
<1> QED
  BY <1>2, <1>3, <1>4, <1>5 DEF PathNext, PathStep

LEMMA PathInitInv == PathInit => IndInv /\ PathInv
<1>1. PathInit => ~Refused
  BY DEF PathInit, Init, NoVerdict, Refused
<1> QED BY <1>1, InitInv DEF PathInit, PathInv, PathBack, ReportShowsCycle

\* FindPath changes nothing in the graph: what Spec has shown holds of the calls
\* with FindPath between them, too.
THEOREM PathSpecIsSpec == PathSpec => Spec
<1>1. PathInit => Init
  BY DEF PathInit
<1>2. [PathNext]_<<vars, walk, fp>> => [Next]_vars
  BY PathNextIs
<1> QED
  BY <1>1, <1>2, PTL DEF PathSpec, Spec

\* Whenever InsertEdge(x, y) is refused, FindPath(y, x) returns a path from y to
\* x of distinct nodes, whatever the order of the hash sets: a report shows the
\* cycle the new edge would have closed (graphcycles.cc:702, log_helper.cpp:105).
THEOREM ReportsShowCycles == PathSpec => []ReportShowsCycle
<1>1. PathSpec => [](IndInv /\ PathInv)
  BY PathInitInv, PathNextInv, PTL DEF PathSpec
<1>2. PathInv => ReportShowsCycle
  BY DEF PathInv
<1> QED
  BY <1>1, <1>2, PTL
=============================================================================
