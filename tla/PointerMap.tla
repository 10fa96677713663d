----------------------------- MODULE PointerMap -----------------------------
(***************************************************************************)
(* PointerMap (graphcycles.cc): the hash table from the address of a lock  *)
(* to its node.  The nodes of a bucket are chained through next_hash, a    *)
(* field of the nodes that GetId takes from and RemoveNode gives back to   *)
(* free_nodes.                                                             *)
(***************************************************************************)
EXTENDS Integers, Sequences, FiniteSetsExt

CONSTANTS Lock, NoLock,
          Nodes,     \* bound: nodes the arena can give
          Buckets    \* kHashTableSize

ASSUME NoLockAssumption == NoLock \notin Lock
ASSUME SizesAssumption == Nodes \in Nat /\ Buckets \in Nat \ {0}

VARIABLES hash,      \* the bucket of an address, which is any
          heads,     \* table_
          next_hash, masked_ptr,   \* fields of Node
          size, free_nodes         \* nodes_.size(), free_nodes_

mapVars == <<hash, heads, next_hash, masked_ptr, size, free_nodes>>

Index == 0 .. Nodes - 1
NoIndex == -1

MapInit == /\ hash \in [Lock -> 0 .. Buckets - 1]
           /\ heads = [b \in 0 .. Buckets - 1 |-> NoIndex]
           /\ next_hash = [n \in Index |-> 0]
           /\ masked_ptr = [n \in Index |-> NoLock]
           /\ size = 0 /\ free_nodes = <<>>

-----------------------------------------------------------------------------
\* The nodes of a bucket's chain from its head on, NoIndex behind the last.
Chain(b) ==
  LET at[k \in 0 .. Nodes] ==
        IF k = 0 THEN heads[b]
        ELSE IF at[k - 1] = NoIndex THEN NoIndex ELSE next_hash[at[k - 1]]
  IN  at

\* Find goes along the chain up to the lock's node or to the end.
Stop(l) == Min({k \in 0 .. Nodes : LET n == Chain(hash[l])[k] IN
                                     IF n = NoIndex THEN TRUE ELSE masked_ptr[n] = l})
Find(l) == Chain(hash[l])[Stop(l)]

\* Add, in front of the chain.
Add(l, n) == /\ next_hash' = [next_hash EXCEPT ![n] = heads[hash[l]]]
             /\ heads' = [heads EXCEPT ![hash[l]] = n]

GetIdFresh(l) ==
  /\ Find(l) = NoIndex /\ free_nodes = <<>> /\ size < Nodes
  /\ Add(l, size)
  /\ masked_ptr' = [masked_ptr EXCEPT ![size] = l]
  /\ size' = size + 1
  /\ UNCHANGED <<hash, free_nodes>>

GetIdReuse(l) ==
  /\ Find(l) = NoIndex /\ free_nodes # <<>>
  /\ LET n == free_nodes[Len(free_nodes)] IN
       /\ Add(l, n)
       /\ masked_ptr' = [masked_ptr EXCEPT ![n] = l]
  /\ free_nodes' = SubSeq(free_nodes, 1, Len(free_nodes) - 1)
  /\ UNCHANGED <<hash, size>>

\* Mutant of Unlink: the head of the chain is cut off with all behind it.
UnlinkHead(l, n) ==
  /\ heads' = [heads EXCEPT ![hash[l]] = IF @ = n THEN NoIndex ELSE @]
  /\ next_hash' = [m \in Index |-> IF m = n THEN NoIndex
                                   ELSE IF next_hash[m] = n THEN next_hash[n] ELSE next_hash[m]]

\* Remove: the slot that points at the node, the head's or the one of the node
\* in front of it, gets the node's successor.
Unlink(l, n) ==
  LET chain == Chain(hash[l])
      before == {m \in Index : \E k \in 1 .. Nodes : chain[k - 1] = m /\ chain[k] = n}
  IN  /\ heads' = [heads EXCEPT ![hash[l]] = IF @ = n THEN next_hash[n] ELSE @]
      /\ next_hash' = [m \in Index |-> IF m = n THEN NoIndex
                                       ELSE IF m \in before THEN next_hash[n] ELSE next_hash[m]]

RemoveNode(l) ==
  /\ Find(l) # NoIndex
  /\ Unlink(l, Find(l))
  /\ masked_ptr' = [masked_ptr EXCEPT ![Find(l)] = NoLock]
  /\ free_nodes' = Append(free_nodes, Find(l))
  /\ UNCHANGED <<hash, size>>

MapNext == \E l \in Lock : GetIdFresh(l) \/ GetIdReuse(l) \/ RemoveNode(l)

-----------------------------------------------------------------------------
\* The map finds the node of every lock that has one and nothing else, however
\* the hash scatters the locks and whatever nodes were given back and taken
\* again: the chains together are the nodes in use, each in one place
\* (CheckInvariants, "Did not find live node in hash table").
Users(l) == {n \in Index : masked_ptr[n] = l}
MapFindsNodes ==
  /\ \A l \in Lock : Users(l) = IF Find(l) = NoIndex THEN {} ELSE {Find(l)}
  /\ \A b \in 0 .. Buckets - 1 : LET chain == Chain(b) IN
       /\ \A j, k \in 0 .. Nodes : chain[j] = chain[k] => j = k \/ chain[j] = NoIndex
       /\ \A k \in 0 .. Nodes : LET l == masked_ptr[chain[k]] IN
            chain[k] # NoIndex => l \in Lock /\ hash[l] = b
=============================================================================
