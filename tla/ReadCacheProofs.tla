-------------------------- MODULE ReadCacheProofs --------------------------
(***************************************************************************)
(* Safety of ReadCache for every value of its constants: the bound on how  *)
(* stale an answer from the cache can be, and what the consumer's          *)
(* invalidation guarantees.                                                *)
(***************************************************************************)
EXTENDS ReadCache, TLAPS

\* A request between two calls knows its key; one without an answer yet has
\* fetched nothing that could be out of date.
Progress ==
    \A r \in Readers :
        /\ phase[r] # "idle" => target[r] \in Entries
        /\ phase[r] # "fill" => copy[r] = Current

\* A copy in a reader's hands ran out of date within its request, one in the
\* cache within the request that stored it or since then.
Young ==
    /\ \A r \in Readers : left[r] > 0 => copy[r] + left[r] <= Deadline
    /\ \A k \in Entries : Stale(k) => age[k] + ttl[k] < TTL + Deadline

\* A reader holds a stale copy only of an excused key.
Held == \A r \in Readers :
            phase[r] = "fill" /\ copy[r] # Current => target[r] \in excused

IInv == TypeOK /\ Progress /\ Young /\ Held /\ InvalidationWorks

-----------------------------------------------------------------------------

\* The age of a copy has its type after one more unit of time, and grows by
\* at most that unit.
LEMMA OlderType ==
    ASSUME NEW a \in Current..OldAge
    PROVE  /\ Older(a) \in Current..OldAge
           /\ Older(a) <= a + 1
           /\ Older(a) = Current <=> a = Current
BY TimeAssumption DEF Older, OldAge, Current

\* At the start there is no copy anywhere.
LEMMA InitIInv == Init => IInv
<1> SUFFICES ASSUME Init PROVE IInv
  OBVIOUS
<1>1. TypeOK
  BY TimeAssumption, BoundsAssumption DEF Init, TypeOK, OldAge, Current
<1>2. Progress /\ Held
  BY DEF Init, Progress, Held
<1>3. Young
  BY TimeAssumption DEF Init, Young, Stale, Present
<1>4. InvalidationWorks
  BY DEF Init, InvalidationWorks, Stale, Present
<1> QED BY <1>1, <1>2, <1>3, <1>4 DEF IInv

-----------------------------------------------------------------------------
(* Readers. *)

\* A step that only ends a request, or moves it on without a new copy,
\* preserves the invariant.
LEMMA NoCopyStep ==
    ASSUME IInv, NEW r \in Readers,
           \/ Finish(r)
           \/ ToDatabase(r) /\ phase[r] = "lookup",
           UNCHANGED <<cacheVars, writerVars, excused>>,
           faults' \in 0..MaxFaults
    PROVE  IInv'
<1> USE DEF IInv
<1>1. TypeOK'
  BY TimeAssumption DEF TypeOK, Finish, ToDatabase, Goto, cacheVars, writerVars, OldAge, Current
<1>2. Progress'
  BY DEF TypeOK, Progress, Finish, ToDatabase, Goto
<1>3. Young'
  BY DEF TypeOK, Young, Stale, Present, Finish, ToDatabase, Goto, cacheVars
<1>4. Held'
  BY DEF TypeOK, Held, Finish, ToDatabase, Goto
<1>5. InvalidationWorks'
  BY DEF InvalidationWorks, Stale, Present, Owes, cacheVars, writerVars
<1> QED BY <1>1, <1>2, <1>3, <1>4, <1>5

\* A failure is counted within its bound.
LEMMA FaultType ==
    ASSUME TypeOK, NEW k, Fault(k)
    PROVE  faults' \in 0..MaxFaults
BY BoundsAssumption DEF TypeOK, Fault

\* So is the failure of a call under a request's context.
LEMMA CallFailsType ==
    ASSUME TypeOK, NEW r \in Readers, NEW k, CallFails(r, k)
    PROVE  faults' \in 0..MaxFaults
BY FaultType DEF CallFails, NoFault, TypeOK

\* A new request has all of its deadline and no copy.
LEMMA StartReadStep ==
    ASSUME IInv, NEW r \in Readers, NEW k \in Entries, StartRead(r, k)
    PROVE  IInv'
<1> USE DEF IInv, StartRead, Goto, NoFault
<1>1. TypeOK'
  BY TimeAssumption DEF TypeOK, cacheVars, writerVars, OldAge, Current
<1>2. Progress'
  BY DEF TypeOK, Progress
<1>3. Young'
  <2>1. copy'[r] + left'[r] <= Deadline
    BY TimeAssumption DEF TypeOK, Progress, Current
  <2> QED BY <2>1 DEF TypeOK, Young, Stale, Present, cacheVars
<1>4. Held'
  BY DEF TypeOK, Held
<1>5. InvalidationWorks'
  BY DEF InvalidationWorks, Stale, Present, Owes, cacheVars, writerVars
<1> QED BY <1>1, <1>2, <1>3, <1>4, <1>5

\* A lookup ends the request or sends it to the database.
LEMMA LookupStep ==
    ASSUME IInv, NEW r \in Readers, Lookup(r)
    PROVE  IInv'
<1>1. faults' \in 0..MaxFaults
  BY CallFailsType DEF Lookup, NoFault, IInv, TypeOK
<1>2. \/ Finish(r)
      \/ ToDatabase(r) /\ phase[r] = "lookup"
  BY DEF Lookup, IInv, Progress
<1> QED BY <1>1, <1>2, NoCopyStep DEF Lookup

\* The row a query answers is current at that moment.
LEMMA QueryStep ==
    ASSUME IInv, NEW r \in Readers, Query(r)
    PROVE  IInv'
<1>1. faults' \in 0..MaxFaults
  BY CallFailsType DEF Query, NoFault, IInv, TypeOK
<1>2. CASE Finish(r)
  BY <1>1, <1>2, NoCopyStep DEF Query
<1>3. CASE /\ phase[r] = "query" /\ phase' = [phase EXCEPT ![r] = "fill"]
           /\ copy' = [copy EXCEPT ![r] = Current]
           /\ UNCHANGED <<target, left, cacheVars, writerVars, excused>>
  <2> USE <1>3 DEF IInv
  <2>1. TypeOK'
    BY <1>1, TimeAssumption DEF TypeOK, cacheVars, writerVars, OldAge, Current
  <2>2. Progress'
    BY DEF TypeOK, Progress
  <2>3. Young'
    <3>1. copy'[r] + left'[r] <= Deadline
      BY TimeAssumption DEF TypeOK, Current
    <3> QED BY <3>1 DEF TypeOK, Young, Stale, Present, cacheVars
  <2>4. Held'
    BY DEF TypeOK, Held
  <2>5. InvalidationWorks'
    BY DEF InvalidationWorks, Stale, Present, Owes, cacheVars, writerVars
  <2> QED BY <2>1, <2>2, <2>3, <2>4, <2>5
<1> QED BY <1>2, <1>3 DEF Query, Goto

\* Storing a copy: in time, it is younger than a request's deadline; and only
\* an excused key gets a stale one.
LEMMA FillStep ==
    ASSUME IInv, NEW r \in Readers, Fill(r)
    PROVE  IInv'
<1>1. faults' \in 0..MaxFaults
  BY CallFailsType DEF Fill, NoFault, IInv, TypeOK
<1>2. CASE UNCHANGED cacheVars
  BY <1>1, <1>2, NoCopyStep DEF Fill
<1>3. CASE left[r] > 0 /\ Store(r)
  <2> DEFINE k == target[r]
  <2> USE <1>3 DEF IInv, Fill, Finish, Goto
  <2>1. /\ k \in Entries
        /\ copy[r] \in Current..OldAge
        /\ copy[r] # Current => k \in excused
        /\ copy[r] + left[r] <= Deadline
        /\ left[r] \in 1..Deadline
    BY TimeAssumption DEF Progress, Held, Young, TypeOK
  <2>2. /\ ttl' = [ttl EXCEPT ![k] = TTL]
        /\ age' = [age EXCEPT ![k] = copy[r]]
    BY DEF Store
  <2>3. TypeOK'
    BY <1>1, <2>1, <2>2, TimeAssumption DEF TypeOK, writerVars, OldAge, Current
  <2>4. Progress'
    BY DEF TypeOK, Progress
  <2>5. Young'
    <3>1. age'[k] + ttl'[k] < TTL + Deadline
      BY <2>1, <2>2, TimeAssumption DEF TypeOK, OldAge, Current
    <3>2. \A e \in Entries : Stale(e)' => age'[e] + ttl'[e] < TTL + Deadline
      BY <2>2, <3>1 DEF TypeOK, Young, Stale, Present
    <3>3. \A q \in Readers : left'[q] > 0 => copy'[q] + left'[q] <= Deadline
      BY DEF TypeOK, Young
    <3> QED BY <3>2, <3>3 DEF Young
  <2>6. Held'
    BY DEF TypeOK, Held
  <2>7. InvalidationWorks'
    BY <2>1, <2>2 DEF TypeOK, InvalidationWorks, Stale, Present, Owes, writerVars
  <2> QED BY <2>3, <2>4, <2>5, <2>6, <2>7
<1> QED BY <1>2, <1>3 DEF Fill

-----------------------------------------------------------------------------
(* Writers. *)

\* Changing the rows in S keeps copies young and marks those in readers' hands
\* as excused; a stale key that is not excused was stale before or is in S.
LEMMA ChangeEffect ==
    ASSUME IInv, NEW S \in SUBSET Entries, Change(S),
           UNCHANGED <<ttl, phase, target, left>>,
           excused' \in SUBSET Entries,
           excused \cup HeldByReader(S) \subseteq excused'
    PROVE  /\ age' \in [Entries -> Current..OldAge]
           /\ copy' \in [Readers -> Current..OldAge]
           /\ Progress' /\ Young' /\ Held'
           /\ \A k \in Entries \ S : Stale(k)' => Stale(k)
<1> USE DEF IInv
<1>1. age' \in [Entries -> Current..OldAge] /\ copy' \in [Readers -> Current..OldAge]
  BY TimeAssumption DEF Change, TypeOK, OldAge, Current
<1>2. Progress'
  BY DEF Change, Progress
<1>3. Young'
  <2>1. ASSUME NEW r \in Readers, left'[r] > 0 PROVE copy'[r] + left'[r] <= Deadline
    BY <2>1, TimeAssumption DEF Change, Young, TypeOK, Current
  <2>2. ASSUME NEW k \in Entries, Stale(k)' PROVE age'[k] + ttl'[k] < TTL + Deadline
    BY <2>2, TimeAssumption DEF Change, Young, TypeOK, Stale, Present, Current
  <2> QED BY <2>1, <2>2 DEF Young
<1>4. Held'
  <2> SUFFICES ASSUME NEW r \in Readers, phase[r] = "fill", copy'[r] # Current
               PROVE  target[r] \in excused'
    BY DEF Held
  <2>1. CASE copy[r] # Current
    BY <2>1 DEF Held
  <2>2. CASE copy[r] = Current
    BY <2>2 DEF Change, HeldByReader
  <2> QED BY <2>1, <2>2
<1>5. \A k \in Entries \ S : Stale(k)' => Stale(k)
  BY DEF Change, Stale, Present
<1> QED BY <1>1, <1>2, <1>3, <1>4, <1>5

\* A writer that changes the rows of S owes the keys of S an invalidation
\* afterwards, or excuses them, and still owes whatever it owed.
LEMMA ChangeStep ==
    ASSUME IInv, NEW S \in SUBSET Entries, Change(S),
           UNCHANGED <<ttl, phase, target, left>>,
           excused' \in SUBSET Entries,
           excused \cup HeldByReader(S) \subseteq excused',
           work' \in [Transactions -> {"new", "mark", "commit", "deleteBalance",
                                       "deleteTransaction", "ack", "done"}],
           v0Writes' \in 0..MaxV0Writes, faults' \in 0..MaxFaults,
           \A k \in S \ excused' : \E t \in Transactions : Owes(t, k)',
           \A k \in Entries, t \in Transactions : Owes(t, k) => Owes(t, k)'
    PROVE  IInv'
<1>1. /\ age' \in [Entries -> Current..OldAge]
      /\ copy' \in [Readers -> Current..OldAge]
      /\ Progress' /\ Young' /\ Held'
      /\ \A k \in Entries \ S : Stale(k)' => Stale(k)
  BY ChangeEffect
<1>2. TypeOK'
  BY <1>1 DEF IInv, TypeOK
<1>3. InvalidationWorks'
  <2> SUFFICES ASSUME NEW k \in Entries \ excused', Stale(k)'
               PROVE  \E t \in Transactions : Owes(t, k)'
    BY DEF InvalidationWorks
  <2>1. CASE k \in S
    BY <2>1
  <2>2. CASE k \notin S
    BY <2>2, <1>1 DEF IInv, InvalidationWorks
  <2> QED BY <2>1, <2>2
<1> QED BY <1>1, <1>2, <1>3 DEF IInv

\* A step that changes neither rows nor copies, nor what is owed.
LEMMA WorkStep ==
    ASSUME IInv, NEW t \in Transactions,
           NEW next \in {"mark", "commit", "deleteBalance", "deleteTransaction", "ack", "done"},
           WorkOn(t, next),
           UNCHANGED <<cacheVars, readerVars, v0Writes, excused>>, faults' \in 0..MaxFaults,
           next = "mark" \/ work[t] = "ack"
    PROVE  IInv'
<1> USE DEF IInv, WorkOn, cacheVars, readerVars
<1>1. TypeOK'
  BY DEF TypeOK
<1>2. Progress' /\ Young' /\ Held'
  BY DEF Progress, Young, Held, Stale, Present
<1>3. \A k \in Entries, s \in Transactions : Owes(s, k) => Owes(s, k)'
  BY DEF Owes, TypeOK
<1>4. InvalidationWorks'
  BY <1>3 DEF InvalidationWorks, Stale, Present
<1> QED BY <1>1, <1>2, <1>4


\* A consumer whose statement fails cleanly changes nothing but its progress.
LEMMA FailedWriteStep ==
    ASSUME IInv, NEW t \in Transactions,
           work' = work \/ work' = [work EXCEPT ![t] = "mark"],
           work[t] \in {"new", "mark", "commit", "deleteBalance", "deleteTransaction", "ack"},
           UNCHANGED <<ttl, age, copy, excused, phase, target, left, v0Writes>>,
           faults' \in 0..MaxFaults
    PROVE  IInv'
<1>1. CASE work' = [work EXCEPT ![t] = "mark"]
  BY <1>1, WorkStep DEF WorkOn, cacheVars, readerVars
<1>2. CASE work' = work
  <2> USE <1>2 DEF IInv
  <2>1. TypeOK'
    BY DEF TypeOK
  <2>2. Progress' /\ Young' /\ Held' /\ InvalidationWorks'
    BY DEF Progress, Young, Held, InvalidationWorks, Owes, Stale, Present
  <2> QED BY <2>1, <2>2
<1> QED BY <1>1, <1>2

\* The first update changes the transaction's row, whose delete is still to come.
LEMMA MarkProcessingStep ==
    ASSUME IInv, NEW t \in Transactions, MarkProcessing(t)
    PROVE  IInv'
<1>1. faults' \in 0..MaxFaults
  BY FaultType DEF MarkProcessing, NoFault, IInv, TypeOK
<1>2. CASE UNCHANGED <<age, copy, excused, work>>
  BY <1>1, <1>2, FailedWriteStep DEF MarkProcessing
<1>3. CASE Change({t}) /\ excused' = excused \cup HeldByReader({t})
           /\ (work' = work \/ WorkOn(t, "commit"))
  <2>1. work \in [Transactions -> {"new", "mark", "commit", "deleteBalance",
                                   "deleteTransaction", "ack", "done"}]
    BY DEF IInv, TypeOK
  <2>2. /\ work[t] = "mark" /\ work'[t] \in {"mark", "commit"}
        /\ work' \in [Transactions -> {"new", "mark", "commit", "deleteBalance",
                                       "deleteTransaction", "ack", "done"}]
        /\ \A s \in Transactions \ {t} : work'[s] = work[s]
    BY <1>3, <2>1 DEF MarkProcessing, WorkOn
  <2>3. \A k \in Entries, s \in Transactions : Owes(s, k) => Owes(s, k)'
    BY <2>1, <2>2 DEF Owes
  <2>4. Owes(t, t)'
    BY <2>2 DEF Owes
  <2>5. {t} \in SUBSET Entries /\ excused' \in SUBSET Entries
    BY <1>3 DEF Entries, HeldByReader, IInv, TypeOK
  <2>6. v0Writes' \in 0..MaxV0Writes /\ UNCHANGED <<ttl, phase, target, left>>
    BY DEF MarkProcessing, IInv, TypeOK
  <2>7. \A k \in {t} \ excused' : \E s \in Transactions : Owes(s, k)'
    BY <2>4
  <2> QED BY <1>1, <1>3, <2>2, <2>3, <2>5, <2>6, <2>7, ChangeStep
<1> QED BY <1>2, <1>3 DEF MarkProcessing

\* The commit changes both rows, and both deletes are still to come.
LEMMA CommitStep ==
    ASSUME IInv, NEW t \in Transactions, Commit(t)
    PROVE  IInv'
<1>1. faults' \in 0..MaxFaults
  BY FaultType DEF Commit, NoFault, IInv, TypeOK
<1>2. CASE UNCHANGED <<age, copy, excused>> /\ WorkOn(t, "mark")
  BY <1>1, <1>2, FailedWriteStep DEF Commit, WorkOn
<1>3. CASE /\ Change({t, Owner[t]})
           /\ excused' = excused \cup HeldByReader({t, Owner[t]})
           /\ WorkOn(t, "deleteBalance") \/ WorkOn(t, "mark")
  <2>1. work \in [Transactions -> {"new", "mark", "commit", "deleteBalance",
                                   "deleteTransaction", "ack", "done"}]
    BY DEF IInv, TypeOK
  <2>2. /\ work[t] = "commit" /\ work'[t] \in {"deleteBalance", "mark"}
        /\ work' \in [Transactions -> {"new", "mark", "commit", "deleteBalance",
                                       "deleteTransaction", "ack", "done"}]
        /\ \A s \in Transactions \ {t} : work'[s] = work[s]
    BY <1>3, <2>1 DEF Commit, WorkOn
  <2>3. \A k \in Entries, s \in Transactions : Owes(s, k) => Owes(s, k)'
    BY <2>1, <2>2 DEF Owes
  <2>4. Owes(t, t)' /\ Owes(t, Owner[t])'
    BY <2>2 DEF Owes
  <2>5. {t, Owner[t]} \in SUBSET Entries /\ excused' \in SUBSET Entries
    BY <1>3, OwnerAssumption DEF Entries, HeldByReader, IInv, TypeOK
  <2>6. v0Writes' \in 0..MaxV0Writes /\ UNCHANGED <<ttl, phase, target, left>>
    BY DEF Commit, IInv, TypeOK
  <2>7. \A k \in {t, Owner[t]} \ excused' : \E s \in Transactions : Owes(s, k)'
    BY <2>4
  <2> QED BY <1>1, <1>3, <2>2, <2>3, <2>5, <2>6, <2>7, ChangeStep
<1> QED BY <1>2, <1>3 DEF Commit

\* After a delete the key is gone or excused, so what the consumer owed for it
\* is settled; everything else is owed as before.
LEMMA DeleteStep ==
    ASSUME IInv, NEW k \in Entries, Delete(k),
           UNCHANGED <<readerVars, v0Writes>>,
           work' \in [Transactions -> {"new", "mark", "commit", "deleteBalance",
                                       "deleteTransaction", "ack", "done"}],
           \A e \in Entries \ {k}, s \in Transactions : Owes(s, e) => Owes(s, e)'
    PROVE  IInv'
<1> USE DEF IInv, readerVars
<1>1. /\ faults' \in 0..MaxFaults
      /\ excused' \in SUBSET Entries
      /\ excused \subseteq excused'
  BY FaultType DEF Delete, NoFault, TypeOK
<1>2. \A e \in Entries : /\ Stale(e)' => Stale(e) /\ age'[e] = age[e] /\ ttl'[e] = ttl[e]
                         /\ Stale(e)' => e # k \/ e \in excused'
  BY DEF Delete, Stale, Present, TypeOK, cacheVars
<1>3. TypeOK'
  BY <1>1, TimeAssumption DEF TypeOK, Delete, cacheVars, OldAge, Current
<1>4. Progress' /\ Held'
  BY <1>1 DEF Progress, Held
<1>5. Young'
  <2>1. ASSUME NEW e \in Entries, Stale(e)' PROVE age'[e] + ttl'[e] < TTL + Deadline
    BY <1>2, <2>1 DEF Young
  <2> QED BY <2>1 DEF Young
<1>6. InvalidationWorks'
  <2> SUFFICES ASSUME NEW e \in Entries \ excused', Stale(e)'
               PROVE  \E t \in Transactions : Owes(t, e)'
    BY DEF InvalidationWorks
  <2>1. Stale(e) /\ e # k /\ e \notin excused
    BY <1>1, <1>2
  <2> QED BY <2>1 DEF InvalidationWorks
<1> QED BY <1>3, <1>4, <1>5, <1>6

\* The first delete settles the balance's key, the transaction's is still owed.
LEMMA DeleteBalanceStep ==
    ASSUME IInv, NEW t \in Transactions, DeleteBalance(t)
    PROVE  IInv'
<1>1. work' \in [Transactions -> {"new", "mark", "commit", "deleteBalance",
                                  "deleteTransaction", "ack", "done"}]
  BY DEF DeleteBalance, WorkOn, IInv, TypeOK
<1>2. Owner[t] \in Entries
  BY OwnerAssumption DEF Entries
<1>3. \A e \in Entries \ {Owner[t]}, s \in Transactions : Owes(s, e) => Owes(s, e)'
  BY DEF DeleteBalance, WorkOn, Owes, IInv, TypeOK
<1> QED BY <1>1, <1>2, <1>3, DeleteStep DEF DeleteBalance

\* The second delete settles the transaction's key.
LEMMA DeleteTransactionStep ==
    ASSUME IInv, NEW t \in Transactions, DeleteTransaction(t)
    PROVE  IInv'
<1>1. work' \in [Transactions -> {"new", "mark", "commit", "deleteBalance",
                                  "deleteTransaction", "ack", "done"}]
  BY DEF DeleteTransaction, WorkOn, IInv, TypeOK
<1>2. \A e \in Entries \ {t}, s \in Transactions : Owes(s, e) => Owes(s, e)'
  BY DEF DeleteTransaction, WorkOn, Owes, IInv, TypeOK
<1> QED BY <1>1, <1>2, DeleteStep DEF DeleteTransaction, Entries

\* Insert, the acknowledgement and a redelivery change no row that has a copy.
LEMMA ProgressStep ==
    ASSUME IInv, NEW t \in Transactions, Insert(t) \/ Acknowledge(t) \/ Redeliver(t)
    PROVE  IInv'
<1>1. faults' \in 0..MaxFaults
  BY FaultType DEF Insert, Acknowledge, Redeliver, NoFault, IInv, TypeOK
<1> QED BY <1>1, WorkStep DEF Insert, Acknowledge, Redeliver

\* A baseline write excuses the key of the balance it changes.
LEMMA WriteV0Step ==
    ASSUME IInv, NEW u \in Users, WriteV0(u)
    PROVE  IInv'
<1>1. faults' \in 0..MaxFaults /\ v0Writes' \in 0..MaxV0Writes
  BY BoundsAssumption DEF WriteV0, NoFault, IInv, TypeOK
<1>2. {u} \in SUBSET Entries /\ excused' \in SUBSET Entries
  BY DEF WriteV0, Entries, IInv, TypeOK
<1>3. excused \cup HeldByReader({u}) \subseteq excused'
  BY DEF WriteV0, HeldByReader
<1>4. \A k \in {u} \ excused' : \E t \in Transactions : Owes(t, k)'
  BY DEF WriteV0
<1>5. \A k \in Entries, t \in Transactions : Owes(t, k) => Owes(t, k)'
  BY DEF WriteV0, Owes
<1>6. /\ work' \in [Transactions -> {"new", "mark", "commit", "deleteBalance",
                                     "deleteTransaction", "ack", "done"}]
      /\ Change({u}) /\ UNCHANGED <<ttl, phase, target, left>>
  BY DEF WriteV0, IInv, TypeOK
<1> QED BY <1>1, <1>2, <1>3, <1>4, <1>5, <1>6, ChangeStep

-----------------------------------------------------------------------------
(* Redis and time. *)

\* An eviction is a delete nobody owed.
LEMMA EvictStep ==
    ASSUME IInv, NEW k \in Entries, Evict(k)
    PROVE  IInv'
<1>1. Delete(k)
  BY DEF Evict, Delete
<1>2. work' \in [Transactions -> {"new", "mark", "commit", "deleteBalance",
                                  "deleteTransaction", "ack", "done"}]
  BY DEF Evict, writerVars, IInv, TypeOK
<1>3. \A e \in Entries \ {k}, s \in Transactions : Owes(s, e) => Owes(s, e)'
  BY DEF Evict, writerVars, Owes
<1> QED BY <1>1, <1>2, <1>3, DeleteStep DEF Evict, writerVars

\* With every unit of time a copy gets older and its key or request loses the
\* same, so their sum stays below the bound.
LEMMA TickStep ==
    ASSUME IInv, Tick
    PROVE  IInv'
<1> USE DEF IInv, Tick
<1>1. \A k \in Entries :
         /\ age'[k] \in Current..OldAge /\ ttl'[k] \in 0..TTL
         /\ Stale(k)' => /\ Stale(k)
                        /\ age'[k] <= age[k] + 1 /\ ttl'[k] = ttl[k] - 1
  <2> SUFFICES ASSUME NEW k \in Entries
               PROVE  /\ age'[k] \in Current..OldAge /\ ttl'[k] \in 0..TTL
                      /\ Stale(k)' => /\ Stale(k)
                                     /\ age'[k] <= age[k] + 1 /\ ttl'[k] = ttl[k] - 1
    OBVIOUS
  <2>1. age[k] \in Current..OldAge /\ ttl[k] \in 0..TTL
    BY DEF TypeOK
  <2>2. /\ Older(age[k]) \in Current..OldAge
        /\ Older(age[k]) <= age[k] + 1
        /\ Older(age[k]) = Current <=> age[k] = Current
    BY <2>1, OlderType
  <2>3. /\ ttl'[k] = IF ttl[k] > 0 THEN ttl[k] - 1 ELSE 0
        /\ age'[k] = IF ttl[k] > 1 THEN Older(age[k]) ELSE Current
    BY DEF Present
  <2>4. Current \in Current..OldAge
    BY TimeAssumption DEF Current, OldAge
  <2> QED BY <2>1, <2>2, <2>3, <2>4, TimeAssumption DEF Stale, Present
<1>2. \A r \in Readers :
         /\ copy'[r] \in Current..OldAge /\ left'[r] \in 0..Deadline
         /\ copy'[r] = Current <=> copy[r] = Current
         /\ left'[r] > 0 => copy'[r] + left'[r] <= copy[r] + left[r] /\ left[r] > 0
  <2> SUFFICES ASSUME NEW r \in Readers
               PROVE  /\ copy'[r] \in Current..OldAge /\ left'[r] \in 0..Deadline
                      /\ copy'[r] = Current <=> copy[r] = Current
                      /\ left'[r] > 0 => /\ copy'[r] + left'[r] <= copy[r] + left[r]
                                        /\ left[r] > 0
    OBVIOUS
  <2>1. copy[r] \in Current..OldAge /\ left[r] \in 0..Deadline
    BY DEF TypeOK
  <2>2. /\ copy'[r] = Older(copy[r])
        /\ left'[r] = IF left[r] > 0 THEN left[r] - 1 ELSE 0
    OBVIOUS
  <2>3. /\ Older(copy[r]) \in Current..OldAge
        /\ Older(copy[r]) <= copy[r] + 1
        /\ Older(copy[r]) = Current <=> copy[r] = Current
    BY <2>1, OlderType
  <2> QED BY <2>1, <2>2, <2>3, TimeAssumption DEF OldAge, Current
<1>3. TypeOK'
  BY <1>1, <1>2 DEF TypeOK, NoFault, writerVars
<1>4. Progress' /\ Held'
  BY <1>2 DEF Progress, Held
<1>5. Young'
  <2>1. ASSUME NEW k \in Entries, Stale(k)' PROVE age'[k] + ttl'[k] < TTL + Deadline
    BY <1>1, <2>1, TimeAssumption DEF Young, TypeOK, Current, OldAge
  <2>2. ASSUME NEW r \in Readers, left'[r] > 0 PROVE copy'[r] + left'[r] <= Deadline
    BY <1>2, <2>2, TimeAssumption DEF Young, TypeOK, Current, OldAge
  <2> QED BY <2>1, <2>2 DEF Young
<1>6. InvalidationWorks'
  BY <1>1 DEF InvalidationWorks, Owes, writerVars
<1> QED BY <1>3, <1>4, <1>5, <1>6

-----------------------------------------------------------------------------

\* The invariant is inductive.
LEMMA NextIInv == IInv /\ [Next]_vars => IInv'
<1> SUFFICES ASSUME IInv, [Next]_vars PROVE IInv'
  OBVIOUS
<1>1. ASSUME NEW r \in Readers, NEW k \in Entries, StartRead(r, k) PROVE IInv'
  BY <1>1, StartReadStep
<1>2. ASSUME NEW r \in Readers, Reader(r) PROVE IInv'
  BY <1>2, LookupStep, QueryStep, FillStep DEF Reader
<1>3. ASSUME NEW t \in Transactions, Insert(t) \/ Redeliver(t) PROVE IInv'
  BY <1>3, ProgressStep
<1>4. ASSUME NEW t \in Transactions, Consumer(t) PROVE IInv'
  BY <1>4, MarkProcessingStep, CommitStep, DeleteBalanceStep, DeleteTransactionStep,
     ProgressStep DEF Consumer
<1>5. ASSUME NEW u \in Users, WriteV0(u) PROVE IInv'
  BY <1>5, WriteV0Step
<1>6. ASSUME NEW k \in Entries, Evict(k) PROVE IInv'
  BY <1>6, EvictStep
<1>7. CASE Tick
  BY <1>7, TickStep
<1>8. CASE UNCHANGED vars
  BY <1>8 DEF vars, cacheVars, readerVars, writerVars, IInv, TypeOK, Progress, Young, Held,
     InvalidationWorks, Owes, Stale, Present
<1> QED BY <1>1, <1>2, <1>3, <1>4, <1>5, <1>6, <1>7, <1>8 DEF Next

\* The inductive invariant holds in every reachable state.
THEOREM Invariance == Spec => []IInv
BY InitIInv, NextIInv, PTL DEF Spec

\* Every reachable state of the cached reads has the declared types.
THEOREM TypeCorrect == Spec => []TypeOK
<1>1. IInv => TypeOK
  BY DEF IInv
<1> QED BY <1>1, Invariance, PTL

\* A hit never answers what ceased to be true a time to live plus a request's
\* deadline ago, or earlier (cache.Set under the request's context).
THEOREM StalenessIsBounded == Spec => []BoundedStaleness
<1>1. IInv => BoundedStaleness
  BY TimeAssumption DEF IInv, Young, BoundedStaleness, Stale, Present, TypeOK, Current, OldAge
<1> QED BY <1>1, Invariance, PTL

\* The consumer's two deletes leave no stale key behind but the excused ones,
\* also when messages are redelivered (processTransaction's invalidation).
THEOREM InvalidationIsSound == Spec => []InvalidationWorks
<1>1. IInv => InvalidationWorks
  BY DEF IInv
<1> QED BY <1>1, Invariance, PTL

=============================================================================
