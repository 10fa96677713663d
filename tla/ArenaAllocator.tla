--------------------------- MODULE ArenaAllocator ---------------------------
(***************************************************************************)
(* LowLevelAlloc (helper/low_level_alloc.cc): the first-fit allocator of   *)
(* the nodes, sets and paths of the lock-order graph.  The free blocks of  *)
(* an arena form a skiplist in the order of their addresses.  Addresses    *)
(* and sizes are in bytes, of a build with pointers of 8.                  *)
(***************************************************************************)
EXTENDS Integers, FiniteSets, FiniteSetsExt

CONSTANTS Request,    \* the sizes callers ask for
          Chunk,      \* pagesize * 16, what mmap is asked for at least
          Memory,     \* bound: the chunks the system can map
          MaxRandom   \* bound: the largest value of Random

Header == 32                       \* sizeof(AllocList::Header)
Links == 40                        \* offsetof(AllocList, next)
RoundUp(n, align) == ((n + align - 1) \div align) * align
MinSize == 2 * Header              \* min_size, with a round_up of Header
MaxLevel == 30                     \* kMaxLevel

ASSUME RequestAssumption == Request \subseteq Nat \ {0}
ASSUME BoundsAssumption == /\ Chunk \in Nat /\ Chunk % Header = 0 /\ Chunk >= MinSize
                           /\ Memory \in Nat /\ MaxRandom \in Nat \ {0}

VARIABLES arena,   \* the blocks and the free list of the arena
          given    \* history: the blocks callers hold, with the size they asked for

vars == <<arena, given>>

Head == 0     \* &arena->freelist
None == -1    \* nullptr

\* arena: header.size of every block and of the head; of the head and the free
\* blocks the levels and the next pointers; allocation_count.
NewArena == [size |-> [b \in {Head} |-> 0], levels |-> [b \in {Head} |-> 0],
             next |-> [b \in {Head} |-> << >>], count |-> 0]

Init == arena = NewArena /\ given = [b \in {} |-> 0]

Free == DOMAIN arena.levels \ {Head}
Without(f, b) == [x \in DOMAIN f \ {b} |-> f[x]]
With(f, b, v) == [x \in DOMAIN f \cup {b} |-> IF x = b THEN v ELSE f[x]]

-----------------------------------------------------------------------------
(* The skiplist. *)

IntLog2(size, base) ==
  LET log[i \in 0 .. size] == IF i > base THEN 1 + log[i \div 2] ELSE 0 IN log[size]

\* LLA_SkiplistLevels, random is 1 where the code passes no generator.
SkiplistLevels(size, random) ==
  Min({IntLog2(size, MinSize) + random, (size - Links) \div 8, MaxLevel - 1})

\* The head and the blocks with a pointer on level i.
OnLevel(a, i) == {p \in DOMAIN a.next : i < a.levels[p]}

\* The last block before e on level i, from p on; the search goes down the levels.
Walk(a, i, e, p) ==
  LET walk[q \in OnLevel(a, i)] ==
        LET n == a.next[q][i] IN IF n # None /\ n < e THEN walk[n] ELSE q
  IN  walk[p]
Search(a, e) ==
  LET prev[i \in 0 .. MaxLevel] ==
        IF i >= a.levels[Head] THEN Head ELSE Walk(a, i, e, prev[i + 1])
  IN  prev

\* The head's pointers above its levels are null.
LinkAt(a, p, i) == IF i < a.levels[p] THEN a.next[p][i] ELSE None

\* next[i] of block p once e is in the list, behind prev[i].
Insertion(a, prev, e, levels, p, i) ==
  IF i < levels /\ prev[i] = p THEN e ELSE LinkAt(a, p, i)

SkiplistInsert(a, e, levels) ==
  LET high == [a.levels EXCEPT ![Head] = Max({@, levels})]
      prev == Search(a, e)
  IN  [a EXCEPT
        !.levels = With(high, e, levels),
        !.next = With([p \in DOMAIN @ |-> [i \in 0 .. high[p] - 1 |-> Insertion(a, prev, e, levels, p, i)]],
                      e, [i \in 0 .. levels - 1 |-> LinkAt(a, prev[i], i)])]

\* Mutant of Used: the levels no block has any more stay.
UsedStay(a, links) == a.levels[Head]

\* The levels the head has left once its pointers are links.
Used(a, links) ==
  Max({0} \cup {i + 1 : i \in {k \in 0 .. a.levels[Head] - 1 : links[k] # None}})

SkiplistDelete(a, e) ==
  LET prev == Search(a, e)
      kept == [p \in DOMAIN a.next |-> [i \in 0 .. a.levels[p] - 1 |->
                 IF i < a.levels[e] /\ prev[i] = p /\ a.next[p][i] = e THEN a.next[e][i]
                 ELSE a.next[p][i]]]
      low == [a.levels EXCEPT ![Head] = Used(a, kept[Head])]
  IN  [a EXCEPT
        !.levels = Without(low, e),
        !.next = [p \in DOMAIN @ \ {e} |-> [i \in 0 .. low[p] - 1 |-> kept[p][i]]]]

-----------------------------------------------------------------------------
(* The blocks. *)

\* Mutant of Coalesce: the grown block stays at its levels.
CoalesceInPlace(a, b, random) ==
  LET n == LinkAt(a, b, 0) IN
    IF n # None /\ b + a.size[b] = n
    THEN LET whole == SkiplistDelete(a, n) IN
           [whole EXCEPT !.size = Without([@ EXCEPT ![b] = a.size[b] + a.size[n]], n)]
    ELSE a

Coalesce(a, b, random) ==
  LET n == LinkAt(a, b, 0) IN
    IF n # None /\ b + a.size[b] = n
    THEN LET rest == SkiplistDelete(SkiplistDelete(a, n), b)
             whole == [rest EXCEPT !.size = Without([@ EXCEPT ![b] = a.size[b] + a.size[n]], n)]
         IN  SkiplistInsert(whole, b, SkiplistLevels(whole.size[b], random))
    ELSE a

\* Mutant of AddToFreelist: a block joins its successor only.
AddForward(a, f, random) ==
  Coalesce(SkiplistInsert(a, f, SkiplistLevels(a.size[f], random[1])), f, random[2])

AddToFreelist(a, f, random) ==
  LET prev == Search(a, f)[0]
      added == SkiplistInsert(a, f, SkiplistLevels(a.size[f], random[1]))
  IN  Coalesce(Coalesce(added, f, random[2]), prev, random[3])

\* DoAllocWithArena's search, on the level every block of that size has.
FirstFit(a, size) ==
  LET i == SkiplistLevels(size, 1) - 1
      fit[p \in OnLevel(a, i)] ==
        LET n == a.next[p][i] IN IF n = None \/ a.size[n] >= size THEN n ELSE fit[n]
  IN  IF i < a.levels[Head] THEN fit[Head] ELSE None

\* The caller gets the front of the block; a rest worth a block is freed.
Take(a, s, size, random) ==
  LET taken == SkiplistDelete(a, s)
      rest == s + size
  IN  IF size + MinSize <= a.size[s]
      THEN AddToFreelist([taken EXCEPT !.size = With([@ EXCEPT ![s] = size], rest, a.size[s] - size)],
                         rest, random)
      ELSE taken

Random == [1 .. 3 -> 1 .. MaxRandom]
Given(a, s, asked) ==
  /\ arena' = [a EXCEPT !.count = @ + 1]
  /\ given' = With(given, s, asked)

AllocFound(asked) ==
  LET size == RoundUp(asked + Header, Header)
      s == FirstFit(arena, size)
  IN  /\ s # None
      /\ \E random \in Random : Given(Take(arena, s, size, random), s, asked)

\* mmap puts the new pages wherever nothing is mapped; the search starts over.
Places(a, pages) ==
  {at \in {k * Chunk : k \in 1 .. Memory} :
     /\ at + pages <= (Memory + 1) * Chunk
     /\ \A b \in DOMAIN a.size \ {Head} : b + a.size[b] <= at \/ at + pages <= b}

AllocMapped(asked) ==
  LET size == RoundUp(asked + Header, Header)
      pages == RoundUp(size, Chunk)
  IN  /\ FirstFit(arena, size) = None
      /\ \E at \in Places(arena, pages), random, again \in Random :
           LET more == AddToFreelist([arena EXCEPT !.size = With(@, at, pages)], at, random)
               s == FirstFit(more, size)
           IN  Given(Take(more, s, size, again), s, asked)

FreeBlock(b) ==
  /\ b \in DOMAIN given
  /\ \E random \in Random :
       arena' = [AddToFreelist(arena, b, random) EXCEPT !.count = @ - 1]
  /\ given' = Without(given, b)

Next == \/ \E asked \in Request : AllocFound(asked) \/ AllocMapped(asked)
        \/ \E b \in DOMAIN given : FreeBlock(b)

Spec == Init /\ [][Next]_vars

-----------------------------------------------------------------------------
Blocks == DOMAIN arena.size \ {Head}

\* The blocks lie side by side, no byte in two of them; every one a caller
\* holds has room for what was asked for, the others are free, and no two free
\* ones touch ("malformed freelist", low_level_alloc.cc:400).
BlocksAreSound ==
  /\ \A b \in Blocks : arena.size[b] >= MinSize /\ arena.size[b] % Header = 0
  /\ \A b, c \in Blocks : b < c => b + arena.size[b] <= c
  /\ \A b \in DOMAIN given : b \in Blocks /\ given[b] + Header <= arena.size[b]
  /\ Free = Blocks \ DOMAIN given
  /\ \A b, c \in Free : b + arena.size[b] # c
  /\ arena.count = Cardinality(DOMAIN given)

\* Every level of the free list links the free blocks that have it, in the order
\* of their addresses; the head has as many levels as the highest block, and a
\* block has no more than it has room for (LLA_SkiplistInsert, ...Delete).
FreeListIsSound ==
  /\ arena.levels[Head] = Max({arena.levels[b] : b \in Free} \cup {0})
  /\ \A b \in Free : arena.levels[b] >= 1 /\ Links + 8 * arena.levels[b] <= arena.size[b]
  /\ \A p \in DOMAIN arena.next, i \in 0 .. arena.levels[Head] - 1 : i < arena.levels[p] =>
       LET behind == {b \in Free : b > p /\ arena.levels[b] > i} IN
         arena.next[p][i] = IF behind = {} THEN None ELSE Min(behind)

\* First fit: the search finds the first free block that is large enough though
\* it looks at one level only; new pages are mapped only if there is none.
FirstFitFinds ==
  \A size \in {RoundUp(asked + Header, Header) : asked \in Request} :
    LET fits == {b \in Free : arena.size[b] >= size} IN
      FirstFit(arena, size) = IF fits = {} THEN None ELSE Min(fits)
=============================================================================
