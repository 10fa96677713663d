------------------------------ MODULE NodeSet ------------------------------
(***************************************************************************)
(* NodeSet (graphcycles.cc): the hash set of node indexes that keeps the   *)
(* edges of a node and the nodes FindPath has seen.  Open addressing with  *)
(* linear probing; an erased element leaves a deleted slot, which a later  *)
(* insertion may take over.                                                *)
(***************************************************************************)
EXTENDS Integers, FiniteSets, FiniteSetsExt

CONSTANTS Value,    \* the elements to look at
          Inline    \* kInline, the size of an empty set's table

ASSUME ValueAssumption == Value \subseteq Nat
ASSUME FiniteAssumption == IsFiniteSet(Value)    \* they are 32-bit numbers
ASSUME InlineAssumption == Inline \in {4, 8, 16, 32, 64, 128, 256, 512, 1024}

VARIABLES table,      \* table_, a function on 0 .. size - 1
          occupied,   \* occupied_
          elements    \* history: what was inserted and not erased

setVars == <<table, occupied, elements>>

Empty == -1
Del == -2

Size(t) == Cardinality(DOMAIN t)
Blank(n) == [i \in 0 .. n - 1 |-> Empty]

SetInit == table = Blank(Inline) /\ occupied = 0 /\ elements = {}

-----------------------------------------------------------------------------
(* FindIndex: from the hash of v on, up to v or an empty slot; if that is  *)
(* not v, back to the first deleted slot on the way.                       *)

Probe(t, v, k) == (v * 41 + k) % Size(t)
Stops(t, v) == {k \in 0 .. Size(t) - 1 : t[Probe(t, v, k)] \in {v, Empty}}
Deleted(t, v, stop) == {k \in 0 .. stop : t[Probe(t, v, k)] = Del}

\* Mutant of FindIndex: the search ends at a deleted slot.
FindIndexEarly(t, v) ==
  LET stop == Min(Stops(t, v)) IN
    Probe(t, v, Min(Deleted(t, v, stop) \cup {stop}))

FindIndex(t, v) ==
  LET stop == Min(Stops(t, v)) IN
    IF t[Probe(t, v, stop)] = v THEN Probe(t, v, stop)
    ELSE Probe(t, v, Min(Deleted(t, v, stop) \cup {stop}))

Has(v) == table[FindIndex(table, v)] = v

\* What insert makes of a table and its count, before it looks at its load.
Put(s, v) == LET i == FindIndex(s.table, v) IN
               [table |-> [s.table EXCEPT ![i] = v],
                occupied |-> IF s.table[i] = Empty THEN s.occupied + 1 ELSE s.occupied]

\* The slots that hold elements, those that Next stops at.
Filled(t) == {i \in DOMAIN t : t[i] >= 0}

\* Grow: twice the slots; the elements move over in the order of the slots.
Grown(t) ==
  LET moved[n \in 0 .. Size(t)] ==
        IF n = 0 THEN [table |-> Blank(2 * Size(t)), occupied |-> 0]
        ELSE IF n - 1 \in Filled(t) THEN Put(moved[n - 1], t[n - 1])
        ELSE moved[n - 1]
  IN  moved[Size(t)]

\* Mutant of Full: deleted slots do not count.
FullOfElements(s) == Cardinality(Filled(s.table)) >= Size(s.table) - Size(s.table) \div 4

Full(s) == s.occupied >= Size(s.table) - Size(s.table) \div 4

Insert(v) ==
  /\ LET s == Put([table |-> table, occupied |-> occupied], v)
         after == IF ~Has(v) /\ Full(s) THEN Grown(s.table) ELSE s
     IN  table' = after.table /\ occupied' = after.occupied
  /\ elements' = elements \cup {v}

Erase(v) ==
  /\ table' = IF Has(v) THEN [table EXCEPT ![FindIndex(table, v)] = Del] ELSE table
  /\ elements' = elements \ {v}
  /\ UNCHANGED occupied

Clear == table' = Blank(Inline) /\ occupied' = 0 /\ elements' = {}

SetNext == Clear \/ \E v \in Value : Insert(v) \/ Erase(v)

-----------------------------------------------------------------------------
\* The table holds the elements, each once (HASH_FOR_EACH yields a slot's
\* value), and finds each of them and no other, through erased slots and
\* growth (graphcycles.cc:198, 224).
TableIsSet ==
  /\ {table[i] : i \in Filled(table)} = elements
  /\ \A i, j \in Filled(table) : table[i] = table[j] => i = j
  /\ \A v \in Value : Has(v) <=> v \in elements

\* There is always an empty slot, at which the search for an absent element
\* ends (the loop at graphcycles.cc:231); the load counts the other slots, and
\* erasing and inserting over and over does not fill the table: it never
\* counts more slots than there are values.
ProbesEnd ==
  /\ occupied = Cardinality({i \in DOMAIN table : table[i] # Empty})
  /\ occupied < Size(table) - Size(table) \div 4
  /\ occupied <= Cardinality(Value)
=============================================================================
