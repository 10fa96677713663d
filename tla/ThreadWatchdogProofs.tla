------------------------ MODULE ThreadWatchdogProofs ------------------------
(***************************************************************************)
(* Theorems about ThreadWatchdog, for every set of threads, objects and    *)
(* callbacks, every program, both timers and every bound.                  *)
(***************************************************************************)
EXTENDS ThreadWatchdog, TLAPS, WellFoundedInduction

-----------------------------------------------------------------------------
(* The list.                                                               *)

LEMMA Times == Limit \in Nat \ {0} /\ MaxTimers \in Nat \ {0} /\ MaxLag \in Nat
BY TimesAssumption

\* An entry has the fields of one.
LEMMA EntryAt ==
  ASSUME threads \in Seq(Entry)
  PROVE  /\ DOMAIN threads = 1 .. Len(threads)
         /\ \A i \in DOMAIN threads : /\ threads[i] \in Entry
                                     /\ threads[i].synch \in Synch /\ threads[i].id \in Thread
<1>1. DOMAIN threads = 1 .. Len(threads) /\ \A i \in DOMAIN threads : threads[i] \in Entry
  OBVIOUS
<1> QED
  BY <1>1 DEF Entry

\* The entry in place i goes, the last one takes its place.
LEMMA WithoutFacts ==
  ASSUME threads \in Seq(Entry), NEW i \in 1 .. Len(threads)
  PROVE  /\ Without(i) \in Seq(Entry)
         /\ Len(Without(i)) = Len(threads) - 1
         /\ \A j \in 1 .. Len(threads) - 1 :
              Without(i)[j] = threads[IF j = i THEN Len(threads) ELSE j]
<1>1. Len(threads) - 1 \in Nat
  OBVIOUS
<1>2. \A j \in 1 .. Len(threads) - 1 : threads[IF j = i THEN Len(threads) ELSE j] \in Entry
  OBVIOUS
<1> QED
  BY <1>1, <1>2 DEF Without

\* Without moves the other entries to the places of a shorter list, one to one.
LEMMA WithoutMoves ==
  ASSUME threads \in Seq(Entry), NEW i \in 1 .. Len(threads), threads' = Without(i)
  PROVE  \E from \in [DOMAIN threads' -> DOMAIN threads \ {i}] :
           /\ \A j \in DOMAIN threads' : threads'[j] = threads[from[j]]
           /\ \A j, k \in DOMAIN threads' : from[j] = from[k] => j = k
           /\ \A k \in DOMAIN threads \ {i} : \E j \in DOMAIN threads' : from[j] = k
<1> DEFINE n == Len(threads)
<1> DEFINE from == [j \in 1 .. n - 1 |-> IF j = i THEN n ELSE j]
<1>1. /\ i \in 1 .. n /\ n \in Nat /\ DOMAIN threads = 1 .. n /\ DOMAIN threads' = 1 .. n - 1
      /\ \A j \in 1 .. n - 1 : threads'[j] = threads[from[j]]
  BY WithoutFacts
<1> HIDE DEF n
<1>2. \A j \in 1 .. n - 1 : from[j] \in (1 .. n) \ {i}
  BY <1>1
<1>3. \A j, k \in 1 .. n - 1 : from[j] = from[k] => j = k
  BY <1>1
<1>4. ASSUME NEW k \in (1 .. n) \ {i} PROVE \E j \in 1 .. n - 1 : from[j] = k
  <2>1. CASE k = n
    BY <1>1, <2>1
  <2>2. CASE k # n
    BY <1>1, <2>2
  <2> QED BY <2>1, <2>2
<1>5. from \in [1 .. n - 1 -> (1 .. n) \ {i}]
  BY <1>2
<1> HIDE DEF from
<1>6. from \in [DOMAIN threads' -> DOMAIN threads \ {i}]
  BY <1>1, <1>5
<1>7. \A j \in DOMAIN threads' : threads'[j] = threads[from[j]]
  BY <1>1
<1>8. \A j, k \in DOMAIN threads' : from[j] = from[k] => j = k
  BY <1>1, <1>3
<1>9. \A k \in DOMAIN threads \ {i} : \E j \in DOMAIN threads' : from[j] = k
  BY <1>1, <1>4
<1> QED
  BY <1>6, <1>7, <1>8, <1>9

\* A start makes sure that a timer is pending.
LEMMA StartTimerFacts ==
  ASSUME timers \in 0 .. MaxTimers, StartTimer, platform \in {"linux", "windows"}
  PROVE  timers' \in 1 .. MaxTimers
<1>1. Slots \in 1 .. MaxTimers
  BY Times DEF Slots
<1>2. CASE platform = "linux"
  BY <1>2, Times DEF StartTimer, Slots
<1>3. CASE platform # "linux"
  BY <1>3, Times DEF StartTimer, Slots
<1> QED
  BY <1>2, <1>3

-----------------------------------------------------------------------------
(* Types.                                                                  *)

LEMMA TypeInit == Init => TypeOK
<1> SUFFICES ASSUME Init PROVE TypeOK
  OBVIOUS
<1>1. <<>> \in Seq(Entry)
  OBVIOUS
<1>2. 0 \in 0 .. MaxAge /\ 0 \in 0 .. MaxTimers /\ 0 \in 0 .. MaxLag /\ 1 \in Nat \ {0}
  BY Times DEF MaxAge
<1>3. /\ pc \in [Thread -> {"run", "add", "begin", "in", "exit"}]
      /\ synch \in [Thread -> Synch \cup {NoSynch}]
      /\ start \in [Synch -> {"off", "on", "never"}] /\ age \in [Synch -> 0 .. MaxAge]
      /\ cb \in [Callback -> {"idle", "scan", "scanning", "report", "restart"}]
      /\ found \in [Callback -> Synch \cup {NoSynch}]
  BY <1>2 DEF Init
<1> QED
  BY <1>1, <1>2, <1>3 DEF Init, TypeOK

\* What SetStart leaves is of the types.
LEMMA SetStartType ==
  ASSUME TypeOK, NEW s \in Synch, NEW what \in {"off", "on", "never"}, SetStart(s, what)
  PROVE  /\ start' \in [Synch -> {"off", "on", "never"}] /\ age' \in [Synch -> 0 .. MaxAge]
         /\ told' \in SUBSET Synch
<1>1. 0 \in 0 .. MaxAge
  BY Times DEF MaxAge
<1> QED
  BY <1>1 DEF TypeOK, SetStart

LEMMA TickType == TypeOK /\ Tick => TypeOK'
<1> SUFFICES ASSUME TypeOK, Tick PROVE TypeOK'
  OBVIOUS
<1>1. age' \in [Synch -> 0 .. MaxAge]
  <2>1. \A s \in Synch : age[s] < MaxAge => age[s] + 1 \in 0 .. MaxAge
    BY Times DEF TypeOK, MaxAge
  <2> QED
    BY <2>1 DEF TypeOK, Tick
<1>2. lag' \in 0 .. MaxLag
  BY Times DEF TypeOK, Tick
<1> QED
  BY <1>1, <1>2 DEF TypeOK, Tick, service, mutexes, option

-----------------------------------------------------------------------------
(* The invariant.                                                          *)

\* Types and list rest on what the calls are about: a call under way has an
\* object, and only with the option on is a thread added or removed.
Calls == \A t \in Thread :
           /\ pc[t] \in {"add", "begin", "in"} => synch[t] \in Synch
           /\ pc[t] = "exit" => synch[t] = NoSynch
           /\ pc[t] \in {"add", "exit"} => enabled

ListInv == TypeOK /\ Calls /\ ListMatchesThreads

LEMMA CallbackDoesNotCount ==
  ASSUME TypeOK, Calls, ListMatchesThreads, UNCHANGED <<pc, synch, enabled, threads>>
  PROVE  Calls' /\ ListMatchesThreads'
BY DEF Calls, ListMatchesThreads, Registered, Entries

\* A mark changes nothing else in the list.
LEMMA MarkFacts ==
  ASSUME threads \in Seq(Entry), NEW i \in 1 .. Len(threads), NEW value \in BOOLEAN, Mark(i, value)
  PROVE  /\ threads' \in Seq(Entry) /\ Len(threads') = Len(threads)
         /\ \A j \in 1 .. Len(threads) : /\ threads'[j].id = threads[j].id
                                         /\ threads'[j].synch = threads[j].synch
<1> DEFINE e == [threads[i] EXCEPT !.logged = value]
<1>1. threads[i] \in Entry
  OBVIOUS
<1>2. e \in Entry /\ e.id = threads[i].id /\ e.synch = threads[i].synch
  BY <1>1 DEF Entry
<1>3. threads' = [threads EXCEPT ![i] = e]
  BY DEF Mark
<1> HIDE DEF e
<1> QED
  BY <1>2, <1>3

LEMMA MarkKeepsList ==
  ASSUME TypeOK, Calls, ListMatchesThreads, UNCHANGED <<pc, synch, enabled>>,
         NEW i \in 1 .. Len(threads), NEW value \in BOOLEAN, Mark(i, value)
  PROVE  /\ threads' \in Seq(Entry) /\ Calls' /\ ListMatchesThreads'
<1>1. /\ threads' \in Seq(Entry) /\ Len(threads') = Len(threads)
      /\ \A j \in 1 .. Len(threads) : /\ threads'[j].id = threads[j].id
                                      /\ threads'[j].synch = threads[j].synch
  BY MarkFacts DEF TypeOK
<1>2. DOMAIN threads = 1 .. Len(threads) /\ DOMAIN threads' = 1 .. Len(threads)
  BY <1>1 DEF TypeOK
<1>3. \A t \in Thread : Entries(t)' = Entries(t)
  BY <1>1, <1>2 DEF Entries
<1>4. \A j \in DOMAIN threads : threads[j].id \in Thread
  BY EntryAt DEF TypeOK
<1>5. Calls'
  BY DEF Calls
<1>6. ListMatchesThreads'
  BY <1>1, <1>2, <1>3, <1>4 DEF ListMatchesThreads, Registered
<1> QED
  BY <1>1, <1>5, <1>6

LEMMA ListInit == Init => ListInv
<1> SUFFICES ASSUME Init PROVE ListInv
  OBVIOUS
<1>1. TypeOK
  BY TypeInit
<1>2. Calls
  BY DEF Init, Calls
<1>3. DOMAIN threads = {}
  BY DEF Init
<1>4. ListMatchesThreads
  BY <1>3 DEF Init, ListMatchesThreads, Registered, Entries
<1> QED
  BY <1>1, <1>2, <1>4 DEF ListInv

-----------------------------------------------------------------------------
(* The threads.                                                            *)

LEMMA FirstCallInv == ASSUME ListInv, NEW t \in Thread, FirstCall(t) PROVE ListInv'
<1>0. TypeOK /\ Calls /\ ListMatchesThreads
  BY DEF ListInv
<1>1. (CHOOSE s \in Synch \ InUse : TRUE) \in Synch
  BY DEF FirstCall
<1>2. PICK s \in Synch : synch' = [synch EXCEPT ![t] = s]
  BY <1>1 DEF FirstCall
<1>3. /\ pc[t] = "run" /\ synch[t] = NoSynch
      /\ pc' = [pc EXCEPT ![t] = IF enabled THEN "add" ELSE "begin"]
      /\ UNCHANGED <<timing, threads, service, scan, other_errors_found, list_mutex, option>>
      /\ graph_mutex' \in {graph_mutex, t}
  BY DEF FirstCall
<1>4. TypeOK'
  BY <1>0, <1>2, <1>3 DEF TypeOK, timing, service, scan, option
<1>5. Calls'
  BY <1>0, <1>2, <1>3 DEF TypeOK, Calls, option
<1>6. s # NoSynch
  BY NoSynchAssumption
<1>7. Entries(t) = {}
  BY <1>0, <1>3 DEF ListMatchesThreads, Registered
<1>8. \A u \in Thread : Entries(u)' = Entries(u)
  BY <1>3 DEF Entries
<1>9. \A i \in DOMAIN threads : threads[i].id \in Thread \ {t}
  BY <1>0, <1>7, EntryAt DEF TypeOK, Entries
<1>10. ListMatchesThreads'
  <2>1. \A u \in Thread : (enabled /\ Registered(u) <=> Entries(u) # {})'
    BY <1>0, <1>2, <1>3, <1>6, <1>7, <1>8 DEF TypeOK, ListMatchesThreads, Registered, option
  <2>2. \A i \in DOMAIN threads : LET e == threads[i] IN
          (Entries(e.id) = {i} /\ (pc[e.id] # "exit" => synch[e.id] = e.synch))'
    BY <1>0, <1>2, <1>3, <1>8, <1>9 DEF TypeOK, ListMatchesThreads
  <2> QED
    BY <1>3, <2>1, <2>2 DEF ListMatchesThreads
<1> QED
  BY <1>4, <1>5, <1>10 DEF ListInv

LEMMA AddThreadInv == ASSUME ListInv, NEW t \in Thread, AddThread(t) PROVE ListInv'
<1>0. TypeOK /\ Calls /\ ListMatchesThreads
  BY DEF ListInv
<1> DEFINE e == [synch |-> synch[t], id |-> t, logged |-> FALSE]
<1>1. /\ pc[t] = "add" /\ threads' = Append(threads, e)
      /\ pc' = [pc EXCEPT ![t] = "begin"]
      /\ UNCHANGED <<synch, timing, cb, scan, other_errors_found, mutexes, option>>
  BY DEF AddThread
<1>2. synch[t] \in Synch /\ enabled
  BY <1>0, <1>1 DEF Calls
<1>3. e \in Entry /\ e.id = t /\ e.synch = synch[t]
  BY <1>2 DEF Entry
<1> HIDE DEF e
<1>4. /\ threads' \in Seq(Entry) /\ Len(threads') = Len(threads) + 1 /\ Len(threads) \in Nat
      /\ threads'[Len(threads) + 1] = e
      /\ \A i \in 1 .. Len(threads) : threads'[i] = threads[i]
  BY <1>0, <1>1, <1>3 DEF TypeOK
<1>5. timers' \in 0 .. MaxTimers
  BY <1>0, StartTimerFacts, PlatformsAssumption DEF TypeOK, AddThread
<1>6. TypeOK'
  BY <1>0, <1>1, <1>4, <1>5 DEF TypeOK, timing, scan, mutexes, option
<1>7. Calls'
  BY <1>0, <1>1, <1>2 DEF TypeOK, Calls, option
<1>8. Entries(t) = {}
  BY <1>0, <1>1, NoSynchAssumption DEF ListMatchesThreads, Registered
<1>9. /\ DOMAIN threads = 1 .. Len(threads) /\ DOMAIN threads' = 1 .. Len(threads) + 1
      /\ \A i \in DOMAIN threads : threads[i].id \in Thread
  BY <1>0, <1>4, EntryAt DEF TypeOK
<1>10. Entries(t)' = {Len(threads) + 1}
  BY <1>3, <1>4, <1>8, <1>9 DEF Entries
<1>11. \A u \in Thread \ {t} : Entries(u)' = Entries(u)
  BY <1>3, <1>4, <1>9 DEF Entries
<1>12. ListMatchesThreads'
  <2>1. \A u \in Thread : (enabled /\ Registered(u) <=> Entries(u) # {})'
    BY <1>0, <1>1, <1>2, <1>10, <1>11 DEF TypeOK, ListMatchesThreads, Registered, option
  <2>2. ASSUME NEW i \in DOMAIN threads'
        PROVE  (Entries(threads[i].id) = {i}
                /\ (pc[threads[i].id] # "exit" => synch[threads[i].id] = threads[i].synch))'
    <3>1. CASE i = Len(threads) + 1
      BY <1>1, <1>3, <1>4, <1>10, <3>1
    <3>2. CASE i # Len(threads) + 1
      <4>1. i \in DOMAIN threads /\ threads'[i] = threads[i]
        BY <1>4, <1>9, <3>2
      <4>2. threads[i].id \in Thread /\ threads[i].id # t
        BY <1>8, <1>9, <4>1 DEF Entries
      <4> QED
        BY <1>0, <1>1, <1>11, <4>1, <4>2 DEF TypeOK, ListMatchesThreads
    <3> QED BY <3>1, <3>2
  <2> QED
    BY <2>1, <2>2 DEF ListMatchesThreads
<1> QED
  BY <1>6, <1>7, <1>12 DEF ListInv

\* A step of a thread that has an object and stays registered with it.
LEMMA StaysRegistered ==
  ASSUME TypeOK, Calls, ListMatchesThreads, NEW t \in Thread, NEW p \in {"in", "run"},
         synch[t] \in Synch, pc[t] \in {"begin", "in", "run"}, pc' = [pc EXCEPT ![t] = p],
         UNCHANGED <<synch, enabled, threads>>
  PROVE  /\ pc' \in [Thread -> {"run", "add", "begin", "in", "exit"}]
         /\ Calls' /\ ListMatchesThreads'
<1>1. Registered(t) /\ Registered(t)'
  BY NoSynchAssumption DEF Registered, TypeOK
<1>2. \A u \in Thread \ {t} : pc'[u] = pc[u] /\ Registered(u)' = Registered(u)
  BY DEF Registered, TypeOK
<1>3. \A u \in Thread : Entries(u)' = Entries(u)
  BY DEF Entries
<1>4. \A i \in DOMAIN threads : threads[i].id \in Thread
  BY EntryAt DEF TypeOK
<1>5. pc'[t] # "exit" /\ pc[t] # "exit"
  BY DEF TypeOK
<1>6. ListMatchesThreads'
  BY <1>1, <1>2, <1>3, <1>4, <1>5 DEF ListMatchesThreads
<1> QED
  BY <1>6 DEF TypeOK, Calls

LEMMA BeginInv == ASSUME ListInv, NEW t \in Thread, Begin(t) PROVE ListInv'
<1>0. TypeOK /\ Calls /\ ListMatchesThreads
  BY DEF ListInv
<1>1. synch[t] \in Synch
  BY <1>0 DEF TypeOK, Begin
<1>2. /\ start' \in [Synch -> {"off", "on", "never"}] /\ age' \in [Synch -> 0 .. MaxAge]
      /\ told' \in SUBSET Synch
  BY <1>0, <1>1, SetStartType DEF Begin
<1>3. /\ pc' \in [Thread -> {"run", "add", "begin", "in", "exit"}]
      /\ Calls' /\ ListMatchesThreads'
  BY <1>0, <1>1, StaysRegistered DEF Begin, option
<1> QED
  BY <1>0, <1>2, <1>3 DEF ListInv, TypeOK, Begin, service, scan, option

LEMMA EndInv == ASSUME ListInv, NEW t \in Thread, End(t) PROVE ListInv'
<1>0. TypeOK /\ Calls /\ ListMatchesThreads
  BY DEF ListInv
<1>1. synch[t] \in Synch
  BY <1>0 DEF Calls, End
<1>2. /\ start' \in [Synch -> {"off", "on", "never"}] /\ age' \in [Synch -> 0 .. MaxAge]
      /\ told' \in SUBSET Synch
  BY <1>0, <1>1, SetStartType DEF End
<1>3. /\ pc' \in [Thread -> {"run", "add", "begin", "in", "exit"}]
      /\ Calls' /\ ListMatchesThreads'
  BY <1>0, <1>1, StaysRegistered DEF End, option
<1> QED
  BY <1>0, <1>2, <1>3 DEF ListInv, TypeOK, End, service, scan, mutexes, option

LEMMA TryFailsInv == ASSUME ListInv, NEW t \in Thread, TryFails(t) PROVE ListInv'
<1>0. TypeOK /\ Calls /\ ListMatchesThreads
  BY DEF ListInv
<1>1. synch[t] \in Synch
  BY <1>0 DEF Calls, TryFails
<1>3. /\ pc' \in [Thread -> {"run", "add", "begin", "in", "exit"}]
      /\ Calls' /\ ListMatchesThreads'
  BY <1>0, <1>1, StaysRegistered DEF TryFails, option
<1> QED
  BY <1>0, <1>3 DEF ListInv, TypeOK, TryFails, timing, service, scan, mutexes, option

LEMMA CndWaitInv == ASSUME ListInv, NEW t \in Thread, CndWait(t) PROVE ListInv'
<1>0. TypeOK /\ Calls /\ ListMatchesThreads
  BY DEF ListInv
<1>1. synch[t] \in Synch
  BY <1>0 DEF Calls, CndWait
<1>2. /\ start' \in [Synch -> {"off", "on", "never"}] /\ age' \in [Synch -> 0 .. MaxAge]
      /\ told' \in SUBSET Synch
  BY <1>0, <1>1, SetStartType DEF CndWait
<1>3. Calls' /\ ListMatchesThreads'
  BY <1>0, CallbackDoesNotCount DEF CndWait, option
<1> QED
  BY <1>0, <1>2, <1>3 DEF ListInv, TypeOK, CndWait, service, scan, mutexes, option

LEMMA ThreadExitInv == ASSUME ListInv, NEW t \in Thread, ThreadExit(t) PROVE ListInv'
<1>0. TypeOK /\ Calls /\ ListMatchesThreads
  BY DEF ListInv
<1>1. /\ pc[t] = "run" /\ synch[t] # NoSynch /\ synch' = [synch EXCEPT ![t] = NoSynch]
      /\ pc' = [pc EXCEPT ![t] = IF enabled THEN "exit" ELSE "run"]
      /\ UNCHANGED <<threads, service, scan, other_errors_found, mutexes, option>>
  BY DEF ThreadExit
<1>2. synch[t] \in Synch
  BY <1>0, <1>1 DEF TypeOK
<1>3. /\ start' \in [Synch -> {"off", "on", "never"}] /\ age' \in [Synch -> 0 .. MaxAge]
      /\ told' \in SUBSET Synch
  <2>1. CASE Watched(t)
    BY <1>0, <2>1 DEF ThreadExit, TypeOK, timing
  <2>2. CASE ~Watched(t)
    BY <1>0, <1>2, <2>2, SetStartType DEF ThreadExit
  <2> QED
    BY <2>1, <2>2
<1>4. TypeOK'
  BY <1>0, <1>1, <1>3 DEF TypeOK, service, scan, mutexes, option
<1>5. Calls'
  BY <1>0, <1>1 DEF TypeOK, Calls, option
<1>6. \A u \in Thread : Entries(u)' = Entries(u)
  BY <1>1 DEF Entries
<1>7. \A i \in DOMAIN threads : threads[i].id \in Thread
  BY <1>0, EntryAt DEF TypeOK
<1>8. Registered(t) /\ (enabled => Registered(t)')
  BY <1>0, <1>1 DEF TypeOK, Registered
<1>9. \A u \in Thread \ {t} : pc'[u] = pc[u] /\ synch'[u] = synch[u] /\ Registered(u)' = Registered(u)
  BY <1>0, <1>1 DEF TypeOK, Registered
<1>10. ListMatchesThreads'
  <2>1. \A u \in Thread : (enabled /\ Registered(u) <=> Entries(u) # {})'
    BY <1>0, <1>1, <1>6, <1>8, <1>9 DEF ListMatchesThreads, option
  <2>2. ASSUME NEW i \in DOMAIN threads
        PROVE  (Entries(threads[i].id) = {i}
                /\ (pc[threads[i].id] # "exit" => synch[threads[i].id] = threads[i].synch))'
    <3>1. threads[i].id \in Thread /\ Entries(threads[i].id) = {i}
      BY <1>0, <1>7, <2>2 DEF ListMatchesThreads
    <3>2. CASE threads[i].id = t
      <4>1. enabled
        BY <1>0, <3>1, <3>2 DEF ListMatchesThreads
      <4> QED
        BY <1>0, <1>1, <1>6, <3>1, <3>2, <4>1 DEF TypeOK
    <3>3. CASE threads[i].id # t
      BY <1>0, <1>1, <1>6, <1>9, <3>1, <3>3 DEF ListMatchesThreads
    <3> QED BY <3>2, <3>3
  <2> QED
    BY <1>1, <2>1, <2>2 DEF ListMatchesThreads
<1> QED
  BY <1>4, <1>5, <1>10 DEF ListInv

LEMMA RemoveThreadInv == ASSUME ListInv, NEW t \in Thread, RemoveThread(t) PROVE ListInv'
<1>0. TypeOK /\ Calls /\ ListMatchesThreads
  BY DEF ListInv
<1>1. enabled /\ synch[t] = NoSynch /\ pc[t] = "exit" /\ Registered(t)
  BY <1>0 DEF RemoveThread, Calls, Registered
<1>2. PICK i \in Entries(t) : TRUE
  BY <1>0, <1>1 DEF ListMatchesThreads
<1>3. /\ i \in 1 .. Len(threads) /\ threads[i].id = t /\ threads[i].synch \in Synch
      /\ DOMAIN threads = 1 .. Len(threads) /\ Len(threads) \in Nat
      /\ \A j \in DOMAIN threads : threads[j].id \in Thread
  BY <1>0, <1>2, EntryAt DEF TypeOK, Entries
<1>4. Entries(t) = {i}
  BY <1>0, <1>3 DEF ListMatchesThreads
<1>5. FirstEntry(t) = i
  BY <1>3, <1>4 DEF FirstEntry
<1>6. /\ threads' = Without(i) /\ SetStart(threads[i].synch, "off")
      /\ pc' = [pc EXCEPT ![t] = "run"]
      /\ UNCHANGED <<synch, service, scan, other_errors_found, mutexes, option>>
  BY <1>4, <1>5 DEF RemoveThread
<1>7. threads' \in Seq(Entry) /\ Len(threads') = Len(threads) - 1
  BY <1>0, <1>3, <1>6, WithoutFacts DEF TypeOK
<1>8. DOMAIN threads' = 1 .. Len(threads) - 1
  BY <1>7
<1>9. TypeOK'
  <2>1. /\ start' \in [Synch -> {"off", "on", "never"}] /\ age' \in [Synch -> 0 .. MaxAge]
        /\ told' \in SUBSET Synch
    BY <1>0, <1>3, <1>6, SetStartType
  <2> QED
    BY <1>0, <1>6, <1>7, <2>1 DEF TypeOK, service, scan, mutexes, option
<1>10. Calls'
  BY <1>0, <1>6 DEF TypeOK, Calls, option
<1>11. \A j, k \in DOMAIN threads : threads[j].id = threads[k].id => j = k
  <2>1. ASSUME NEW j \in DOMAIN threads, NEW k \in DOMAIN threads, threads[j].id = threads[k].id
        PROVE  j = k
    <3>1. Entries(threads[j].id) = {j} /\ Entries(threads[k].id) = {k}
      BY <1>0 DEF ListMatchesThreads
    <3> QED BY <2>1, <3>1
  <2> QED BY <2>1
<1>12. PICK from \in [DOMAIN threads' -> DOMAIN threads \ {i}] :
         /\ \A j \in DOMAIN threads' : threads'[j] = threads[from[j]]
         /\ \A j, k \in DOMAIN threads' : from[j] = from[k] => j = k
         /\ \A k \in DOMAIN threads \ {i} : \E j \in DOMAIN threads' : from[j] = k
  BY <1>0, <1>3, <1>6, <1>8, WithoutMoves DEF TypeOK
<1>13. \A j \in DOMAIN threads' : threads'[j].id \in Thread \ {t}
  BY <1>3, <1>11, <1>12
<1>14. \A j \in DOMAIN threads' : (Entries(threads[j].id) = {j})'
  <2>1. \A j, k \in DOMAIN threads' : threads'[j].id = threads'[k].id => j = k
    BY <1>11, <1>12
  <2> QED
    BY <2>1 DEF Entries
<1>15. \A u \in Thread \ {t} : Entries(u)' # {} <=> Entries(u) # {}
  BY <1>3, <1>12 DEF Entries
<1>16. Entries(t)' = {}
  BY <1>13 DEF Entries
<1>17. /\ ~Registered(t)'
       /\ \A u \in Thread \ {t} : pc'[u] = pc[u] /\ Registered(u)' = Registered(u)
  BY <1>0, <1>1, <1>6 DEF TypeOK, Registered
<1>18. ListMatchesThreads'
  <2>1. \A u \in Thread : (enabled /\ Registered(u) <=> Entries(u) # {})'
    BY <1>0, <1>6, <1>15, <1>16, <1>17 DEF ListMatchesThreads, option
  <2>2. \A j \in DOMAIN threads' :
          pc'[threads'[j].id] # "exit" => synch'[threads'[j].id] = threads'[j].synch
    BY <1>0, <1>6, <1>12, <1>13, <1>17 DEF ListMatchesThreads
  <2> QED
    BY <1>14, <2>1, <2>2 DEF ListMatchesThreads
<1> QED
  BY <1>9, <1>10, <1>18 DEF ListInv

-----------------------------------------------------------------------------
(* Time and the callback.                                                  *)

LEMMA TickInv == ListInv /\ Tick => ListInv'
<1> SUFFICES ASSUME ListInv, Tick PROVE ListInv'
  OBVIOUS
<1>0. TypeOK /\ Calls /\ ListMatchesThreads
  BY DEF ListInv
<1>1. Calls' /\ ListMatchesThreads'
  BY <1>0, CallbackDoesNotCount DEF Tick, option
<1> QED
  BY <1>0, <1>1, TickType DEF ListInv

LEMMA ScanPassInv == ASSUME ListInv, NEW c \in Callback, ScanPass(c) PROVE ListInv'
<1>0. TypeOK /\ Calls /\ ListMatchesThreads
  BY DEF ListInv
<1>1. at \in 1 .. Len(threads) /\ at' = at + 1 /\ UNCHANGED <<pc, synch, enabled>>
  BY <1>0 DEF ScanPass, TypeOK, option
<1>2. threads' \in Seq(Entry) /\ Calls' /\ ListMatchesThreads'
  <2>1. CASE Mark(at, FALSE)
    BY <1>0, <1>1, <2>1, MarkKeepsList
  <2>2. CASE UNCHANGED threads
    BY <1>0, <1>1, <2>2, CallbackDoesNotCount DEF TypeOK
  <2> QED
    BY <2>1, <2>2 DEF ScanPass
<1>3. at' \in Nat \ {0}
  BY <1>1
<1> QED
  BY <1>0, <1>2, <1>3 DEF ListInv, TypeOK, ScanPass, timing, service, mutexes, option

LEMMA ScanFindInv == ASSUME ListInv, NEW c \in Callback, ScanFind(c) PROVE ListInv'
<1>0. TypeOK /\ Calls /\ ListMatchesThreads
  BY DEF ListInv
<1>1. at \in 1 .. Len(threads) /\ UNCHANGED <<pc, synch, enabled>>
  BY <1>0 DEF ScanFind, TypeOK, option
<1>2. threads' \in Seq(Entry) /\ Calls' /\ ListMatchesThreads'
  BY <1>0, <1>1, MarkKeepsList DEF ScanFind
<1>3. threads[at].synch \in Synch
  BY <1>0, <1>1, EntryAt DEF TypeOK
<1>4. /\ found' \in [Callback -> Synch \cup {NoSynch}] /\ told' \in SUBSET Synch
      /\ cb' \in [Callback -> {"idle", "scan", "scanning", "report", "restart"}]
  BY <1>0, <1>3 DEF TypeOK, ScanFind
<1>5. 0 \in 0 .. MaxLag /\ 1 \in Nat \ {0}
  BY Times
<1> QED
  BY <1>0, <1>2, <1>4, <1>5 DEF ListInv, TypeOK, ScanFind, option

\* The other steps of a callback leave threads and list alone.
LEMMA CallbackInv ==
  ASSUME ListInv, NEW c \in Callback,
         TimerExpires(c) \/ ScanStart(c) \/ ScanEnd(c) \/ Report(c) \/ Restart(c)
  PROVE  ListInv'
<1>0. TypeOK /\ Calls /\ ListMatchesThreads
  BY DEF ListInv
<1>1. UNCHANGED <<pc, synch, enabled, threads, timing, graph_mutex, platform>>
  BY DEF TimerExpires, ScanStart, ScanEnd, Report, Restart, option, mutexes
<1>2. Calls' /\ ListMatchesThreads'
  BY <1>0, <1>1, CallbackDoesNotCount
<1>3. /\ cb' \in [Callback -> {"idle", "scan", "scanning", "report", "restart"}]
      /\ found' \in [Callback -> Synch \cup {NoSynch}]
      /\ other_errors_found' \in BOOLEAN /\ list_mutex' \in Callback \cup {Free}
  BY <1>0 DEF TypeOK, TimerExpires, ScanStart, ScanEnd, Report, Restart, scan, mutexes
<1>4. at' \in Nat \ {0} /\ lag' \in 0 .. MaxLag
  BY <1>0, Times DEF TypeOK, TimerExpires, ScanStart, ScanEnd, Report, Restart, scan
<1>5. timers' \in 0 .. MaxTimers
  <2>1. CASE TimerExpires(c)
    BY <1>0, <2>1, Times DEF TypeOK, TimerExpires
  <2>2. CASE UNCHANGED timers
    BY <1>0, <2>2 DEF TypeOK
  <2>3. CASE StartTimer
    BY <1>0, <2>3, StartTimerFacts, PlatformsAssumption DEF TypeOK
  <2> QED
    BY <2>1, <2>2, <2>3 DEF ScanStart, ScanEnd, Report, Restart
<1> QED
  BY <1>0, <1>1, <1>2, <1>3, <1>4, <1>5 DEF ListInv, TypeOK, timing

LEMMA ListStep == ListInv /\ [Next]_vars => ListInv'
<1> SUFFICES ASSUME ListInv, [Next]_vars PROVE ListInv'
  OBVIOUS
<1>1. CASE Tick
  BY <1>1, TickInv
<1>2. ASSUME NEW t \in Thread, ThreadStep(t) PROVE ListInv'
  BY <1>2, FirstCallInv, AddThreadInv, BeginInv, EndInv, TryFailsInv, CndWaitInv, ThreadExitInv,
     RemoveThreadInv DEF ThreadStep
<1>3. ASSUME NEW c \in Callback, CallbackStep(c) PROVE ListInv'
  BY <1>3, ScanPassInv, ScanFindInv, CallbackInv DEF CallbackStep
<1>4. CASE UNCHANGED vars
  <2>1. TypeOK /\ Calls /\ ListMatchesThreads
    BY DEF ListInv
  <2>2. Calls' /\ ListMatchesThreads'
    BY <1>4, <2>1, CallbackDoesNotCount DEF vars, option
  <2> QED
    BY <1>4, <2>1, <2>2 DEF ListInv, TypeOK, vars, timing, service, scan, mutexes, option
<1> QED
  BY <1>1, <1>2, <1>3, <1>4 DEF Next

LEMMA ListInvariance == Spec => []ListInv
BY ListInit, ListStep, PTL DEF Spec

\* Every variable of the watchdog and of its threads keeps its type.
THEOREM WatchdogTypeCorrect == Spec => []TypeOK
<1>1. ListInv => TypeOK
  BY DEF ListInv
<1> QED
  BY <1>1, ListInvariance, PTL

\* The watchdog's list is the registered threads, each once and with its own
\* object, in whatever order threads come and go (thread_watchdog.cpp:73).
THEOREM ListStaysTrue == Spec => []ListMatchesThreads
<1>1. ListInv => ListMatchesThreads
  BY DEF ListInv
<1> QED
  BY <1>1, ListInvariance, PTL

-----------------------------------------------------------------------------
(* The timer.                                                              *)

LEMMA KeepsRunningInit == Init => WatchdogKeepsRunning
BY DEF Init, WatchdogKeepsRunning

\* A step that leaves a callback under way, or the timer pending.
LEMMA StillUnderWay ==
  ASSUME TypeOK, NEW c \in Callback, NEW p \in {"scan", "scanning", "report", "restart"},
         cb' = [cb EXCEPT ![c] = p]
  PROVE  WatchdogKeepsRunning'
<1>1. cb'[c] # "idle"
  BY DEF TypeOK
<1> QED
  BY <1>1 DEF WatchdogKeepsRunning

LEMMA StillWaiting ==
  ASSUME TypeOK, WatchdogKeepsRunning, UNCHANGED cb, timers' = timers \/ timers' > 0,
         (threads' # <<>> => threads # <<>>) \/ timers' > 0
  PROVE  WatchdogKeepsRunning'
BY DEF WatchdogKeepsRunning

LEMMA KeepsRunningStep ==
  TypeOK /\ WatchdogKeepsRunning /\ [Next]_vars => WatchdogKeepsRunning'
<1> SUFFICES ASSUME TypeOK, WatchdogKeepsRunning, [Next]_vars PROVE WatchdogKeepsRunning'
  OBVIOUS
<1>0. TypeOK
  OBVIOUS
<1>1. CASE Tick
  BY <1>0, <1>1, StillWaiting DEF Tick, service
<1>2. ASSUME NEW t \in Thread, ThreadStep(t) PROVE WatchdogKeepsRunning'
  <2>1. CASE AddThread(t)
    <3>1. CASE threads = <<>>
      <4>1. timers' \in 1 .. MaxTimers
        BY <1>0, <2>1, <3>1, StartTimerFacts, PlatformsAssumption DEF AddThread, TypeOK
      <4>2. timers' > 0
        BY <4>1
      <4> QED
        BY <1>0, <2>1, <4>2, StillWaiting DEF AddThread
    <3>2. CASE threads # <<>>
      BY <1>0, <2>1, <3>2, StillWaiting DEF AddThread
    <3> QED BY <3>1, <3>2
  <2>2. CASE RemoveThread(t)
    <3>1. CASE threads = <<>>
      <4>1. Entries(t) = {}
        BY <3>1 DEF Entries
      <4> QED
        BY <1>0, <2>2, <4>1, StillWaiting DEF RemoveThread, service
    <3>2. CASE threads # <<>>
      BY <1>0, <2>2, <3>2, StillWaiting DEF RemoveThread, service
    <3> QED BY <3>1, <3>2
  <2>3. CASE UNCHANGED <<threads, service>>
    BY <1>0, <2>3, StillWaiting DEF service
  <2> QED
    BY <1>2, <2>1, <2>2, <2>3
    DEF ThreadStep, FirstCall, Begin, End, TryFails, CndWait, ThreadExit
<1>3. ASSUME NEW c \in Callback, CallbackStep(c) PROVE WatchdogKeepsRunning'
  <2>1. CASE TimerExpires(c) \/ ScanStart(c) \/ ScanFind(c) \/ ScanEnd(c) \/ Report(c)
    BY <1>0, <2>1, StillUnderWay DEF TimerExpires, ScanStart, ScanFind, ScanEnd, Report
  <2>2. CASE ScanPass(c)
    <3>1. threads # <<>> /\ UNCHANGED <<cb, timers>>
      BY <1>0, <2>2 DEF ScanPass, TypeOK, service
    <3> QED
      BY <1>0, <3>1, StillWaiting
  <2>3. CASE Restart(c)
    <3>1. CASE threads = <<>>
      BY <2>3, <3>1 DEF Restart, WatchdogKeepsRunning
    <3>2. CASE threads # <<>>
      <4>1. timers' \in 1 .. MaxTimers
        BY <1>0, <2>3, <3>2, StartTimerFacts, PlatformsAssumption DEF Restart, TypeOK
      <4> QED
        BY <4>1 DEF WatchdogKeepsRunning
    <3> QED BY <3>1, <3>2
  <2> QED
    BY <1>3, <2>1, <2>2, <2>3 DEF CallbackStep
<1>4. CASE UNCHANGED vars
  BY <1>0, <1>4, StillWaiting DEF vars, service
<1> QED
  BY <1>1, <1>2, <1>3, <1>4 DEF Next

\* As long as there are threads to watch, a timer is pending or a callback is
\* under way: between the callback and the start of the next timer no thread
\* that comes or goes stops the watchdog (thread_watchdog.cpp:56, 134).
THEOREM WatchdogNeverStops == Spec => []WatchdogKeepsRunning
BY KeepsRunningInit, KeepsRunningStep, WatchdogTypeCorrect, PTL DEF Spec

-----------------------------------------------------------------------------
(* The reports.                                                            *)

\* Only a scan finds something.
LEMMA OnlyScansFind ==
  ASSUME TypeOK, [Next]_vars, NEW c \in Callback, NEW s \in Synch, Finds(c, s)
  PROVE  ScanFind(c) /\ s = threads[at].synch
<1>0. TypeOK /\ s # NoSynch /\ found[c] = NoSynch /\ found'[c] = s
  BY NoSynchAssumption DEF Finds
<1>1. ~UNCHANGED found
  BY <1>0
<1>2. ~Tick /\ ~UNCHANGED vars /\ \A t \in Thread : ~ThreadStep(t)
  BY <1>1 DEF Tick, vars, scan, ThreadStep, FirstCall, AddThread, Begin, End, TryFails, CndWait,
              ThreadExit, RemoveThread
<1>3. PICK d \in Callback : CallbackStep(d)
  BY <1>2 DEF Next
<1>4. ScanFind(d) \/ Restart(d)
  BY <1>1, <1>3 DEF CallbackStep, TimerExpires, ScanStart, ScanPass, ScanEnd, Report, scan
<1>5. ~Restart(d)
  BY <1>0 DEF TypeOK, Restart
<1>6. ScanFind(d) /\ found' = [found EXCEPT ![d] = threads[at].synch]
  BY <1>4, <1>5 DEF ScanFind
<1>7. c = d
  BY <1>0, <1>6 DEF TypeOK
<1> QED
  BY <1>0, <1>6, <1>7 DEF TypeOK

LEMMA FoundIsDue ==
  ASSUME TypeOK, [Next]_vars, NEW c \in Callback, NEW s \in Synch, Finds(c, s)
  PROVE  start[s] = "on" /\ age[s] >= Limit
<1>1. ~Unlocked(s) /\ Long(s)
  BY OnlyScansFind DEF ScanFind
<1>2. age[s] \in Nat /\ lag \in Nat /\ Limit \in Nat
  BY Times DEF TypeOK, MaxAge
<1> QED
  BY <1>1, <1>2 DEF Unlocked, Long

\* What is reported has lasted the maximum, also when the thread took the lock
\* after the callback read the time (thread_watchdog.cpp:104, 112).
THEOREM ReportsAreNeverEarly == Spec => ReportsAreDue
<1>1. TypeOK /\ [Next]_vars =>
        \A c \in Callback, s \in Synch : Finds(c, s) => start[s] = "on" /\ age[s] >= Limit
  BY FoundIsDue
<1> QED
  BY <1>1, WatchdogTypeCorrect, PTL DEF Spec, ReportsAreDue

\* Every thread has an object of its own, in the list as well, and a time that
\* was reported lasts, with its entry marked.
Owned ==
  /\ \A t, u \in Thread : synch[t] = synch[u] /\ synch[t] # NoSynch => t = u
  /\ \A i \in DOMAIN threads, t \in Thread : threads[i].synch = synch[t] => threads[i].id = t
  /\ \A i, j \in DOMAIN threads : threads[i].synch = threads[j].synch => i = j
Lasts(s) == start[s] = "on" /\ age[s] >= lag + Limit
Noted(s) == \E i \in DOMAIN threads : threads[i].synch = s /\ threads[i].logged
Told == \A s \in told : Lasts(s) /\ Noted(s)

ReportInv == Owned /\ Told

\* What the times rest on is less than ListInv, and does not need the option to
\* stay as it is: a call has an object, which no entry has before add_thread.
CallsHaveObjects ==
  \A t \in Thread : /\ pc[t] \in {"add", "begin", "in"} => synch[t] \in Synch
                    /\ pc[t] = "exit" => synch[t] = NoSynch
NotYetListed ==
  \A t \in Thread, i \in DOMAIN threads : pc[t] = "add" => threads[i].synch # synch[t]
Steady == TypeOK /\ CallsHaveObjects /\ NotYetListed

LEMMA ListIsSteady == ASSUME ListInv, Owned PROVE Steady
<1>0. TypeOK /\ Calls /\ ListMatchesThreads
  BY DEF ListInv
<1>1. CallsHaveObjects
  BY <1>0 DEF Calls, CallsHaveObjects
<1>2. ASSUME NEW t \in Thread, pc[t] = "add" PROVE Entries(t) = {}
  BY <1>0, <1>2, NoSynchAssumption DEF Calls, ListMatchesThreads, Registered
<1>3. NotYetListed
  BY <1>2 DEF Owned, Entries, NotYetListed
<1> QED
  BY <1>0, <1>1, <1>3 DEF Steady

\* A set of numbers has a least one.
LEMMA LessIsWellFounded == IsWellFoundedOn({ss \in Nat \X Nat : ss[1] < ss[2]}, Nat)
BY NatLessThanWellFounded, Zenon DEF OpToRel

LEMMA LeastOne ==
  ASSUME NEW I, I \subseteq Nat, I # {} PROVE \E i \in I : \A j \in I : i <= j
<1> DEFINE Less == {ss \in Nat \X Nat : ss[1] < ss[2]}
<1>1. PICK i \in I : \A j \in I : ~(<<j, i>> \in Less)
  BY LessIsWellFounded, WFMin, Zenon
<1>2. ASSUME NEW j \in I PROVE i <= j
  <2>1. i \in Nat /\ j \in Nat /\ <<j, i>> \in Nat \X Nat
    OBVIOUS
  <2>2. ~(j < i)
    BY <1>1, <2>1
  <2> QED BY <2>1, <2>2
<1> QED BY <1>2

\* remove_thread takes the thread's first entry.
LEMMA FirstEntryFacts ==
  ASSUME threads \in Seq(Entry), NEW t \in Thread, Entries(t) # {}
  PROVE  FirstEntry(t) \in 1 .. Len(threads) /\ threads[FirstEntry(t)].id = t
<1>1. Entries(t) \subseteq Nat /\ DOMAIN threads = 1 .. Len(threads)
  BY EntryAt DEF Entries
<1>2. PICK i \in Entries(t) : \A j \in Entries(t) : i <= j
  BY <1>1, LeastOne
<1>3. FirstEntry(t) = i
  BY <1>1, <1>2 DEF FirstEntry
<1> QED
  BY <1>1, <1>3 DEF Entries

LEMMA ReportInit == Init => ReportInv
<1> SUFFICES ASSUME Init PROVE ReportInv
  OBVIOUS
<1>1. DOMAIN threads = {}
  BY DEF Init
<1> QED
  BY <1>1 DEF Init, ReportInv, Owned, Told

\* A step that leaves threads and list alone, and starts at most one time anew.
LEMMA ReportSame ==
  ASSUME Steady, ReportInv, UNCHANGED <<synch, threads>>, lag' \in {lag, 0},
         \/ UNCHANGED <<start, age, told>>
         \/ \E s \in Synch : \E what : SetStart(s, what)
  PROVE  ReportInv'
<1>0. TypeOK /\ Owned /\ Told
  BY DEF Steady, ReportInv
<1>1. Owned'
  BY <1>0 DEF Owned
<1>2. told' \subseteq told /\ \A s \in told' : start'[s] = start[s] /\ age'[s] = age[s]
  BY <1>0 DEF SetStart, TypeOK
<1>3. \A s \in told : age[s] \in Nat
  BY <1>0, Times DEF TypeOK, MaxAge
<1>4. lag \in Nat /\ Limit \in Nat
  BY <1>0, Times DEF TypeOK
<1>5. \A s \in told' : Lasts(s)'
  BY <1>0, <1>2, <1>3, <1>4 DEF Told, Lasts
<1>6. \A s \in told' : Noted(s)'
  BY <1>0, <1>2 DEF Told, Noted
<1> QED
  BY <1>1, <1>5, <1>6 DEF ReportInv, Told

LEMMA TickReport == Steady /\ ReportInv /\ Tick => ReportInv'
<1> SUFFICES ASSUME Steady, ReportInv, Tick PROVE ReportInv'
  OBVIOUS
<1>0. TypeOK /\ Owned /\ Told
  BY DEF Steady, ReportInv
<1>1. Owned'
  BY <1>0 DEF Tick, Owned
<1>2. ASSUME NEW s \in told PROVE Lasts(s)' /\ Noted(s)'
  <2>1. s \in Synch /\ start[s] = "on" /\ age[s] >= lag + Limit /\ Noted(s)
    BY <1>0, <1>2 DEF Told, Lasts, TypeOK
  <2>2. /\ age[s] \in 0 .. MaxAge /\ lag \in 0 .. MaxLag /\ lag' \in {lag, lag + 1} /\ lag' <= MaxLag
        /\ Limit \in Nat /\ MaxLag \in Nat
    BY <1>0, <2>1, Times DEF TypeOK, Tick
  <2>3. age'[s] = IF age[s] < MaxAge THEN age[s] + 1 ELSE age[s]
    BY <1>0, <2>1 DEF Tick, TypeOK
  <2>4. age'[s] >= lag' + Limit
    BY <2>1, <2>2, <2>3 DEF MaxAge
  <2> QED
    BY <2>1, <2>4 DEF Tick, Lasts, Noted
<1> QED
  BY <1>1, <1>2 DEF Tick, ReportInv, Told

LEMMA FirstCallReport ==
  ASSUME Steady, ReportInv, NEW t \in Thread, FirstCall(t) PROVE ReportInv'
<1>0. TypeOK /\ Owned /\ Told
  BY DEF Steady, ReportInv
<1>1. (CHOOSE s \in Synch \ InUse : TRUE) \in Synch \ InUse
  BY DEF FirstCall
<1>2. PICK s \in Synch \ InUse : synch' = [synch EXCEPT ![t] = s]
  BY <1>1 DEF FirstCall
<1>3. /\ \A u \in Thread : synch[u] # s
      /\ \A i \in DOMAIN threads : threads[i].synch # s
  BY <1>2 DEF InUse
<1>4. Owned'
  <2>1. synch' \in [Thread -> Synch \cup {NoSynch}] /\ UNCHANGED threads
    BY <1>0, <1>2 DEF FirstCall, TypeOK
  <2>2. synch'[t] = s /\ \A u \in Thread \ {t} : synch'[u] = synch[u]
    BY <1>0, <1>2 DEF TypeOK
  <2> QED
    BY <1>0, <1>3, <2>1, <2>2 DEF Owned
<1>5. Told'
  BY <1>0 DEF FirstCall, Told, Lasts, Noted, timing, scan
<1> QED
  BY <1>4, <1>5 DEF ReportInv

LEMMA AddThreadReport ==
  ASSUME Steady, ReportInv, NEW t \in Thread, AddThread(t) PROVE ReportInv'
<1>0. TypeOK /\ CallsHaveObjects /\ NotYetListed /\ Owned /\ Told
  BY DEF Steady, ReportInv
<1> DEFINE e == [synch |-> synch[t], id |-> t, logged |-> FALSE]
<1>1. threads' = Append(threads, e) /\ UNCHANGED <<synch, timing, lag>>
  BY DEF AddThread, scan
<1>2. synch[t] \in Synch /\ synch[t] # NoSynch /\ pc[t] = "add"
  BY <1>0, NoSynchAssumption DEF AddThread, CallsHaveObjects
<1>3. e \in Entry /\ e.id = t /\ e.synch = synch[t]
  BY <1>2 DEF Entry
<1> HIDE DEF e
<1>4. /\ Len(threads) \in Nat /\ DOMAIN threads = 1 .. Len(threads)
      /\ DOMAIN threads' = 1 .. Len(threads) + 1 /\ threads'[Len(threads) + 1] = e
      /\ \A i \in DOMAIN threads : threads'[i] = threads[i]
  BY <1>0, <1>1, <1>3 DEF TypeOK
<1>5. \A i \in DOMAIN threads : threads[i].synch # synch[t]
  BY <1>0, <1>2 DEF NotYetListed
<1>6. \A i \in DOMAIN threads' : i \in DOMAIN threads \/ i = Len(threads) + 1
  BY <1>4
<1>7. Owned'
  <2>1. \A i \in DOMAIN threads', u \in Thread :
          threads'[i].synch = synch[u] => threads'[i].id = u
    BY <1>0, <1>2, <1>3, <1>4, <1>6 DEF Owned
  <2>2. \A i, j \in DOMAIN threads' : threads'[i].synch = threads'[j].synch => i = j
    BY <1>0, <1>3, <1>4, <1>5, <1>6 DEF Owned
  <2> QED
    BY <1>0, <1>1, <2>1, <2>2 DEF Owned
<1>8. Told'
  <2>1. \A i \in DOMAIN threads : i \in DOMAIN threads'
    BY <1>4
  <2> QED
    BY <1>0, <1>1, <1>4, <2>1 DEF Told, Lasts, Noted, timing
<1> QED
  BY <1>7, <1>8 DEF ReportInv

LEMMA ThreadExitReport ==
  ASSUME Steady, ReportInv, NEW t \in Thread, ThreadExit(t) PROVE ReportInv'
<1>0. TypeOK /\ Owned /\ Told
  BY DEF Steady, ReportInv
<1>1. /\ synch[t] \in Synch /\ synch' = [synch EXCEPT ![t] = NoSynch]
      /\ UNCHANGED <<threads, lag>>
  BY <1>0 DEF ThreadExit, TypeOK, scan
<1>2. \A i \in DOMAIN threads : threads[i].synch # NoSynch
  BY <1>0, EntryAt, NoSynchAssumption DEF TypeOK
<1>3. Owned'
  BY <1>0, <1>1, <1>2 DEF Owned, TypeOK
<1>4. told' \subseteq told /\ \A s \in told' : start'[s] = start[s] /\ age'[s] = age[s]
  <2>1. CASE Watched(t)
    BY <2>1 DEF ThreadExit, timing
  <2>2. CASE ~Watched(t)
    BY <1>0, <2>2 DEF ThreadExit, SetStart, TypeOK
  <2> QED BY <2>1, <2>2
<1>5. Told'
  BY <1>0, <1>1, <1>4 DEF Told, Lasts, Noted
<1> QED
  BY <1>3, <1>5 DEF ReportInv

LEMMA RemoveThreadReport ==
  ASSUME Steady, ReportInv, NEW t \in Thread, RemoveThread(t) PROVE ReportInv'
<1>0. TypeOK /\ Owned /\ Told
  BY DEF Steady, ReportInv
<1>1. UNCHANGED <<synch, lag>>
  BY DEF RemoveThread, scan
<1>2. CASE Entries(t) = {}
  BY <1>0, <1>1, <1>2, ReportSame DEF RemoveThread, timing
<1>3. CASE Entries(t) # {}
  <2>1. FirstEntry(t) \in 1 .. Len(threads)
    BY <1>0, <1>3, FirstEntryFacts DEF TypeOK
  <2>2. PICK i \in 1 .. Len(threads) : i = FirstEntry(t)
    BY <2>1
  <2>3. i \in 1 .. Len(threads) /\ threads' = Without(i) /\ SetStart(threads[i].synch, "off")
    BY <1>3, <2>2 DEF RemoveThread
  <2>4. DOMAIN threads' = 1 .. Len(threads) - 1
    BY <2>3 DEF Without
  <2>5. PICK from \in [DOMAIN threads' -> DOMAIN threads \ {i}] :
          /\ \A j \in DOMAIN threads' : threads'[j] = threads[from[j]]
          /\ \A j, k \in DOMAIN threads' : from[j] = from[k] => j = k
          /\ \A k \in DOMAIN threads \ {i} : \E j \in DOMAIN threads' : from[j] = k
    BY <1>0, <2>3, <2>4, WithoutMoves DEF TypeOK
  <2>6. Owned'
    BY <1>0, <1>1, <2>5 DEF Owned
  <2>7. /\ told' = told \ {threads[i].synch}
        /\ \A s \in told' : start'[s] = start[s] /\ age'[s] = age[s]
    BY <1>0, <2>3 DEF SetStart, TypeOK
  <2>8. ASSUME NEW s \in told' PROVE Noted(s)'
    <3>1. PICK k \in DOMAIN threads : threads[k].synch = s /\ threads[k].logged
      BY <1>0, <2>7 DEF Told, Noted
    <3>2. k # i
      BY <2>7, <3>1
    <3>3. PICK j \in DOMAIN threads' : threads'[j] = threads[k]
      BY <2>5, <3>2
    <3> QED
      BY <3>1, <3>3 DEF Noted
  <2>9. \A s \in told' : Lasts(s)'
    BY <1>0, <1>1, <2>7 DEF Told, Lasts
  <2> QED
    BY <2>6, <2>8, <2>9 DEF ReportInv, Told
<1> QED
  BY <1>2, <1>3

LEMMA ScanPassReport ==
  ASSUME Steady, ReportInv, NEW c \in Callback, ScanPass(c) PROVE ReportInv'
<1>0. TypeOK /\ Owned /\ Told
  BY DEF Steady, ReportInv
<1>1. at \in 1 .. Len(threads) /\ UNCHANGED <<synch, timing, lag>>
  BY <1>0 DEF ScanPass, TypeOK
<1>2. CASE UNCHANGED threads
  BY <1>0, <1>1, <1>2, ReportSame DEF timing
<1>3. CASE Unlocked(threads[at].synch) /\ Mark(at, FALSE)
  <2>1. /\ threads' \in Seq(Entry) /\ Len(threads') = Len(threads)
        /\ \A j \in 1 .. Len(threads) : /\ threads'[j].id = threads[j].id
                                        /\ threads'[j].synch = threads[j].synch
    BY <1>0, <1>1, <1>3, MarkFacts DEF TypeOK
  <2>2. /\ DOMAIN threads = 1 .. Len(threads) /\ DOMAIN threads' = DOMAIN threads
        /\ \A j \in DOMAIN threads \ {at} : threads'[j] = threads[j]
    BY <1>0, <1>3, <2>1 DEF TypeOK, Mark
  <2>3. Owned'
    BY <1>0, <1>1, <2>1, <2>2 DEF Owned
  <2>4. threads[at].synch \notin told
    <3>1. ASSUME threads[at].synch \in told PROVE FALSE
      <4> DEFINE s == threads[at].synch
      <4>1. s \in Synch /\ start[s] = "on" /\ age[s] >= lag + Limit /\ age[s] <= lag
        BY <1>0, <1>3, <3>1 DEF Told, Lasts, Unlocked, TypeOK
      <4>2. age[s] \in Nat /\ lag \in Nat /\ Limit \in Nat \ {0}
        BY <1>0, <4>1, Times DEF TypeOK, MaxAge
      <4> QED BY <4>1, <4>2
    <3> QED BY <3>1
  <2>5. ASSUME NEW s \in told PROVE Noted(s)'
    <3>1. PICK k \in DOMAIN threads : threads[k].synch = s /\ threads[k].logged
      BY <1>0, <2>5 DEF Told, Noted
    <3>2. k # at
      BY <2>4, <3>1
    <3> QED
      BY <2>2, <3>1, <3>2 DEF Noted
  <2> QED
    BY <1>0, <1>1, <2>3, <2>5 DEF ReportInv, Told, Lasts, timing
<1> QED
  BY <1>2, <1>3 DEF ScanPass

LEMMA ScanFindReport ==
  ASSUME Steady, ReportInv, NEW c \in Callback, ScanFind(c) PROVE ReportInv'
<1>0. TypeOK /\ Owned /\ Told
  BY DEF Steady, ReportInv
<1>1. at \in 1 .. Len(threads)
  BY <1>0 DEF ScanFind, TypeOK
<1>2. PICK s \in Synch : s = threads[at].synch
  BY <1>0, <1>1, EntryAt DEF TypeOK
<1>3. /\ at \in 1 .. Len(threads) /\ Mark(at, TRUE) /\ ~Unlocked(s) /\ Long(s)
      /\ told' = told \cup {s} /\ lag' = 0 /\ UNCHANGED <<synch, start, age>>
  BY <1>1, <1>2 DEF ScanFind
<1>4. /\ threads' \in Seq(Entry) /\ Len(threads') = Len(threads)
      /\ \A j \in 1 .. Len(threads) : /\ threads'[j].id = threads[j].id
                                      /\ threads'[j].synch = threads[j].synch
  BY <1>0, <1>3, MarkFacts DEF TypeOK
<1>5. /\ DOMAIN threads = 1 .. Len(threads) /\ DOMAIN threads' = DOMAIN threads
      /\ \A j \in DOMAIN threads \ {at} : threads'[j] = threads[j]
  BY <1>0, <1>3, <1>4 DEF TypeOK, Mark
<1>6. threads'[at].logged
  <2>1. threads[at] \in Entry
    BY <1>0, <1>3 DEF TypeOK
  <2>2. [threads[at] EXCEPT !.logged = TRUE].logged
    BY <2>1 DEF Entry
  <2> QED
    BY <1>0, <1>3, <2>2 DEF TypeOK, Mark
<1>7. Owned'
  BY <1>0, <1>3, <1>4, <1>5 DEF Owned
<1>8. \A r \in Synch : age[r] \in Nat /\ lag \in Nat /\ Limit \in Nat
  BY <1>0, Times DEF TypeOK, MaxAge
<1>9. /\ s \in told' /\ \A r \in told' : r \in told \/ r = s
      /\ start'[s] = "on" /\ age'[s] >= lag' + Limit /\ Noted(s)'
  <2>1. start[s] = "on" /\ age[s] >= lag + Limit
    BY <1>3, <1>2, <1>8 DEF Unlocked, Long
  <2>2. Noted(s)'
    BY <1>3, <1>4, <1>5, <1>6, <1>2 DEF Noted
  <2> QED
    BY <1>3, <1>2, <1>8, <2>1, <2>2
<1>10. ASSUME NEW r \in told PROVE Lasts(r)' /\ Noted(r)'
  <2>1. r \in Synch /\ Lasts(r) /\ Noted(r)
    BY <1>0, <1>10 DEF Told, TypeOK
  <2>2. Lasts(r)'
    BY <1>3, <1>8, <2>1 DEF Lasts
  <2>3. Noted(r)'
    BY <1>4, <1>5, <1>6, <2>1 DEF Noted
  <2> QED BY <2>2, <2>3
<1> QED
  BY <1>7, <1>9, <1>10 DEF ReportInv, Told, Lasts

LEMMA ReportStep == Steady /\ ReportInv /\ [Next]_vars => ReportInv'
<1> SUFFICES ASSUME Steady, ReportInv, [Next]_vars PROVE ReportInv'
  OBVIOUS
<1>0. TypeOK /\ CallsHaveObjects
  BY DEF Steady
<1>1. CASE Tick
  BY <1>1, TickReport
<1>2. ASSUME NEW t \in Thread, ThreadStep(t) PROVE ReportInv'
  <2>1. CASE Begin(t) \/ End(t) \/ CndWait(t)
    <3>1. synch[t] \in Synch
      BY <1>0, <2>1 DEF CallsHaveObjects, TypeOK, Begin, End, CndWait
    <3> QED
      BY <2>1, <3>1, ReportSame DEF Begin, End, CndWait, scan
  <2>2. CASE TryFails(t)
    BY <2>2, ReportSame DEF TryFails, timing, scan
  <2> QED
    BY <1>2, <2>1, <2>2, FirstCallReport, AddThreadReport, ThreadExitReport, RemoveThreadReport
    DEF ThreadStep
<1>3. ASSUME NEW c \in Callback, CallbackStep(c) PROVE ReportInv'
  <2>1. CASE TimerExpires(c) \/ ScanStart(c) \/ ScanEnd(c) \/ Report(c) \/ Restart(c)
    BY <2>1, ReportSame DEF TimerExpires, ScanStart, ScanEnd, Report, Restart, timing, scan
  <2> QED
    BY <1>3, <2>1, ScanPassReport, ScanFindReport DEF CallbackStep
<1>4. CASE UNCHANGED vars
  BY <1>4, ReportSame DEF vars, timing, scan
<1> QED
  BY <1>1, <1>2, <1>3, <1>4 DEF Next

LEMMA FoundOnce ==
  ASSUME TypeOK, ReportInv, [Next]_vars, NEW c \in Callback, NEW s \in Synch, Finds(c, s)
  PROVE  s \notin told
<1> SUFFICES ASSUME s \in told PROVE FALSE
  OBVIOUS
<1>1. ScanFind(c) /\ s = threads[at].synch
  BY OnlyScansFind
<1>2. at \in DOMAIN threads /\ ~threads[at].logged
  BY <1>1 DEF ScanFind, TypeOK
<1>3. PICK i \in DOMAIN threads : threads[i].synch = s /\ threads[i].logged
  BY DEF ReportInv, Told, Noted
<1>4. i = at
  BY <1>1, <1>2, <1>3 DEF ReportInv, Owned
<1> QED
  BY <1>2, <1>3, <1>4

\* A time is reported once, whatever entries move in the list between two
\* callbacks and however many run (thread_watchdog.cpp:112, m_already_logged).
THEOREM ReportsDoNotRepeat == Spec => OneReportPerTime
<1>1. ListInv /\ ReportInv /\ [Next]_vars => ReportInv'
  BY ListIsSteady, ReportStep DEF ReportInv
<1>2. Spec => []ReportInv
  BY <1>1, ReportInit, ListInvariance, PTL DEF Spec
<1>3. TypeOK /\ ReportInv /\ [Next]_vars =>
        [\A c \in Callback, s \in Synch : Finds(c, s) => s \notin told]_vars
  BY FoundOnce
<1> QED
  BY <1>2, <1>3, WatchdogTypeCorrect, PTL DEF Spec, OneReportPerTime
=============================================================================
