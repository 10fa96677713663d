---------------------------- MODULE LockHistory ----------------------------
(***************************************************************************)
(* The locks a thread holds, SynchLocksHeld::locks[0 .. n-1], as a         *)
(* sequence of entries [mu, id, count], and the two operations of          *)
(* thread_history/thread_history_helper.cpp on it.                         *)
(***************************************************************************)
EXTENDS Integers, Sequences

Entry(mu, id, count) == [mu |-> mu, id |-> id, count |-> count]

\* An entry counted up or down.
Counted(e, by) == Entry(e.mu, e.id, e.count + by)

\* Where the searches by id and by mu end.
WithId(h, id) == {i \in DOMAIN h : h[i].id = id}
WithMu(h, mu) == {i \in DOMAIN h : h[i].mu = mu}
First(I) == CHOOSE i \in I : \A j \in I : i <= j

\* Mutant of Record: a recursive lock gets an entry of its own.
RecordAlwaysAppends(h, mu, id, max) == IF Len(h) = max THEN h ELSE Append(h, Entry(mu, id, 1))

\* update_lock_history_in_lock: count a recursive lock, append another one,
\* and drop one that finds the array of max entries full.
Record(h, mu, id, max) ==
  IF WithId(h, id) # {} THEN [h EXCEPT ![First(WithId(h, id))] = Counted(@, 1)]
  ELSE IF Len(h) = max THEN h
  ELSE Append(h, Entry(mu, id, 1))

\* Mutant of Release: the last entry is dropped and not moved.
ReleaseDropsLast(h, id) ==
  IF WithId(h, id) = {} THEN h
  ELSE IF h[First(WithId(h, id))].count = 1 THEN SubSeq(h, 1, Len(h) - 1)
  ELSE [h EXCEPT ![First(WithId(h, id))] = Counted(@, -1)]

\* Mutant of Release: an entry is never erased.
ReleaseOnlyCounts(h, id) ==
  IF WithId(h, id) = {} THEN h ELSE [h EXCEPT ![First(WithId(h, id))] = Counted(@, -1)]

\* update_lock_history_after_lock: the last release of a lock moves the last
\* entry to its place.  A lock without an entry of this id changes nothing
\* and is an error.
Release(h, id) ==
  LET i == First(WithId(h, id))
      n == Len(h)
  IN  IF WithId(h, id) = {} THEN h
      ELSE IF h[i].count = 1 THEN SubSeq([h EXCEPT ![i] = h[n]], 1, n - 1)
      ELSE [h EXCEPT ![i] = Counted(@, -1)]

ReleaseOK(h, id) == WithId(h, id) # {}
=============================================================================
