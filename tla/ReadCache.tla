----------------------------- MODULE ReadCache -----------------------------
(***************************************************************************)
(* The cached reads GET /transactions/:id and GET /users/:id/balance, and  *)
(* the writers whose rows they copy: the consumer, which deletes the two   *)
(* cache keys of a transaction after its commit, and the baseline route    *)
(* /v0, which shares the database and deletes nothing.                     *)
(*                                                                         *)
(* What a copy says matters here only in one respect: is it still what the *)
(* row says, and if not, since when.  A copy is therefore its age, the     *)
(* time since the row moved on, or Current.  Time passes in Tick; a step   *)
(* of a handler or consumer is one call to PostgreSQL or Redis.            *)
(***************************************************************************)
EXTENDS Integers, FiniteSets

CONSTANTS
    Users,         \* users.id
    Transactions,  \* transactions.id
    Owner,         \* [Transactions -> Users]: transactions.user_id
    Readers,       \* concurrent GET requests
    NoEntry,       \* no key
    TTL,           \* cache.DefaultTTL, in ticks
    Deadline,      \* defaultTimeout of a request context, in ticks
    FaultKinds,    \* the kinds of failure the environment may inject
    MaxFaults,     \* how many failures a behaviour may contain
    MaxV0Writes    \* how many baseline writes a behaviour may contain

AllFaultKinds ==
    { "db",        \* a statement fails, with or without its effect
      "redis",     \* a Redis call fails
      "crash" }    \* a process dies and its delivery returns to the queue

\* The keys user:balance:<id> and txn:<id>.
Entries == Users \cup Transactions

ASSUME OwnerAssumption == Owner \in [Transactions -> Users]
ASSUME DisjointAssumption == Users \cap Transactions = {} /\ NoEntry \notin Entries
ASSUME TimeAssumption == TTL \in Nat \ {0} /\ Deadline \in Nat \ {0}
ASSUME BoundsAssumption ==
    MaxFaults \in Nat /\ MaxV0Writes \in Nat /\ FaultKinds \subseteq AllFaultKinds

VARIABLES
    \* Redis
    ttl,        \* time a key has left to live; 0: there is no such key
    age,        \* the copy under the key
    \* readers
    phase,      \* next call the GET handler makes
    target,     \* key the handler reads
    copy,       \* copy of the row it has fetched
    left,       \* time left of the request's deadline
    \* writers
    work,       \* progress of the transaction through its consumer
    v0Writes,   \* baseline writes so far
    \* history
    excused,    \* keys written behind the invalidation's back
    faults      \* failures so far

cacheVars  == <<ttl, age>>
readerVars == <<phase, target, copy, left>>
writerVars == <<work, v0Writes>>
vars == <<cacheVars, readerVars, writerVars, excused, faults>>

Current == -1

\* Older than this is all the same to the properties.
OldAge == TTL + Deadline

Present(k) == ttl[k] > 0

\* A row of transactions exists from its insert on.
Exists(k) == k \in Transactions => work[k] # "new"

Stale(k) == Present(k) /\ age[k] # Current

Fault(k) ==
    /\ k \in FaultKinds
    /\ faults < MaxFaults
    /\ faults' = faults + 1

NoFault == UNCHANGED faults

Init ==
    /\ ttl = [k \in Entries |-> 0]
    /\ age = [k \in Entries |-> Current]
    /\ phase = [r \in Readers |-> "idle"]
    /\ target = [r \in Readers |-> NoEntry]
    /\ copy = [r \in Readers |-> Current]
    /\ left = [r \in Readers |-> 0]
    /\ work = [t \in Transactions |-> "new"]
    /\ v0Writes = 0
    /\ excused = {}
    /\ faults = 0

-----------------------------------------------------------------------------
(* Readers: GetTransaction and GetUserBalance, which differ in the key.      *)

Goto(r, next) == phase' = [phase EXCEPT ![r] = next]

\* The request is answered and its context is gone.
Finish(r) ==
    /\ Goto(r, "idle")
    /\ target' = [target EXCEPT ![r] = NoEntry]
    /\ copy' = [copy EXCEPT ![r] = Current]
    /\ left' = [left EXCEPT ![r] = 0]

\* Mutant: the handler adds a deadline of its own to the request's.
StartReadExtended(r, k) ==
    /\ phase[r] = "idle"
    /\ Goto(r, "lookup")
    /\ target' = [target EXCEPT ![r] = k]
    /\ left' = [left EXCEPT ![r] = Deadline + Deadline]
    /\ NoFault
    /\ UNCHANGED <<cacheVars, copy, writerVars, excused>>

\* RequestContext starts the deadline, the router picks the handler.
StartRead(r, k) ==
    /\ phase[r] = "idle"
    /\ Goto(r, "lookup")
    /\ target' = [target EXCEPT ![r] = k]
    /\ left' = [left EXCEPT ![r] = Deadline]
    /\ NoFault
    /\ UNCHANGED <<cacheVars, copy, writerVars, excused>>

\* A call under the request's context fails, at once when its time is up.
CallFails(r, k) == IF left[r] > 0 THEN Fault(k) ELSE NoFault

ToDatabase(r) == Goto(r, "query") /\ UNCHANGED <<target, copy, left>>

\* Mutant: a hit renews the time to live.
LookupRenews(r) ==
    /\ phase[r] = "lookup"
    /\ left[r] > 0
    /\ IF Present(target[r])
       THEN Finish(r) /\ ttl' = [ttl EXCEPT ![target[r]] = TTL]
       ELSE ToDatabase(r) /\ UNCHANGED ttl
    /\ NoFault
    /\ UNCHANGED <<age, writerVars, excused>>

\* cache.Get: a hit is answered at once, a miss and an error go to the database.
Lookup(r) ==
    /\ phase[r] = "lookup"
    /\ \/ left[r] > 0 /\ Present(target[r]) /\ Finish(r) /\ NoFault
       \/ left[r] > 0 /\ ~Present(target[r]) /\ ToDatabase(r) /\ NoFault
       \/ CallFails(r, "redis") /\ ToDatabase(r)
    /\ UNCHANGED <<cacheVars, writerVars, excused>>

\* queryTransaction or queryUserBalance inside the circuit breaker.  A missing
\* row is a 404, an error (the expired context's and the open breaker's
\* included) a 500; neither is cached.
Query(r) ==
    /\ phase[r] = "query"
    /\ \/ /\ left[r] > 0
          /\ Exists(target[r])
          /\ Goto(r, "fill")
          /\ copy' = [copy EXCEPT ![r] = Current]
          /\ NoFault
          /\ UNCHANGED <<target, left>>
       \/ left[r] > 0 /\ ~Exists(target[r]) /\ Finish(r) /\ NoFault
       \/ CallFails(r, "db") /\ Finish(r)
    /\ UNCHANGED <<cacheVars, writerVars, excused>>

Store(r) ==
    /\ ttl' = [ttl EXCEPT ![target[r]] = TTL]
    /\ age' = [age EXCEPT ![target[r]] = copy[r]]

\* Mutant: the copy is stored with a context that does not expire.
FillWithoutDeadline(r) ==
    /\ phase[r] = "fill"
    /\ Store(r)
    /\ Finish(r)
    /\ NoFault
    /\ UNCHANGED <<writerVars, excused>>

\* cache.Set with DefaultTTL under the request's context; its error is ignored
\* and the row is answered in any case.
Fill(r) ==
    /\ phase[r] = "fill"
    /\ \/ left[r] > 0 /\ Store(r) /\ NoFault
       \/ CallFails(r, "redis") /\ UNCHANGED cacheVars
    /\ Finish(r)
    /\ UNCHANGED <<writerVars, excused>>

Reader(r) == Lookup(r) \/ Query(r) \/ Fill(r)

-----------------------------------------------------------------------------
(* Writers. *)

\* The rows in S change: every copy of them, in the cache and in the hands of
\* a reader, is out of date from now on.
Change(S) ==
    /\ age' = [k \in Entries |->
                 IF k \in S /\ Present(k) /\ age[k] = Current THEN 0 ELSE age[k]]
    /\ copy' = [r \in Readers |->
                  IF phase[r] = "fill" /\ target[r] \in S /\ copy[r] = Current
                  THEN 0 ELSE copy[r]]

HeldByReader(S) == {k \in S : \E r \in Readers : phase[r] = "fill" /\ target[r] = k}

WorkOn(t, next) == work' = [work EXCEPT ![t] = next]

\* CreateTransaction inserts the pending row and queues it.
Insert(t) ==
    /\ work[t] = "new"
    /\ WorkOn(t, "mark")
    /\ NoFault
    /\ UNCHANGED <<cacheVars, readerVars, v0Writes, excused>>

\* UPDATE ... status = 'processing': the row changes, no key is deleted yet.
MarkProcessing(t) ==
    /\ work[t] = "mark"
    /\ \/ /\ Change({t})
          /\ excused' = excused \cup HeldByReader({t})
          /\ WorkOn(t, "commit")
          /\ NoFault
       \/ /\ Fault("db")
          /\ UNCHANGED <<age, copy, excused, work>>
       \/ /\ Fault("db")
          /\ Change({t})
          /\ excused' = excused \cup HeldByReader({t})
          /\ UNCHANGED work
    /\ UNCHANGED <<ttl, phase, target, left, v0Writes>>

\* The commit that changes the transaction and its user's balance; an error
\* sends the message back to the queue and so to MarkProcessing.
Commit(t) ==
    /\ work[t] = "commit"
    /\ \/ /\ Change({t, Owner[t]})
          /\ excused' = excused \cup HeldByReader({t, Owner[t]})
          /\ WorkOn(t, "deleteBalance")
          /\ NoFault
       \/ /\ Fault("db")
          /\ WorkOn(t, "mark")
          /\ UNCHANGED <<age, copy, excused>>
       \/ /\ Fault("db")
          /\ Change({t, Owner[t]})
          /\ excused' = excused \cup HeldByReader({t, Owner[t]})
          /\ WorkOn(t, "mark")
    /\ UNCHANGED <<ttl, phase, target, left, v0Writes>>

\* cache.Delete: its error is ignored.
Delete(k) ==
    \/ /\ ttl' = [ttl EXCEPT ![k] = 0]
       /\ age' = [age EXCEPT ![k] = Current]
       /\ NoFault
       /\ UNCHANGED excused
    \/ /\ Fault("redis")
       /\ excused' = excused \cup {k}
       /\ UNCHANGED cacheVars

\* Mutant: the transaction's key is deleted in place of the balance's.
DeleteBalanceWrongKey(t) ==
    /\ work[t] = "deleteBalance"
    /\ Delete(t)
    /\ WorkOn(t, "deleteTransaction")
    /\ UNCHANGED <<readerVars, v0Writes>>

DeleteBalance(t) ==
    /\ work[t] = "deleteBalance"
    /\ Delete(Owner[t])
    /\ WorkOn(t, "deleteTransaction")
    /\ UNCHANGED <<readerVars, v0Writes>>

DeleteTransaction(t) ==
    /\ work[t] = "deleteTransaction"
    /\ Delete(t)
    /\ WorkOn(t, "ack")
    /\ UNCHANGED <<readerVars, v0Writes>>

Acknowledge(t) ==
    /\ work[t] = "ack"
    /\ WorkOn(t, "done")
    /\ NoFault
    /\ UNCHANGED <<cacheVars, readerVars, v0Writes, excused>>

\* The consumer's process dies before the acknowledgement and the broker hands
\* the message to the next one.
Redeliver(t) ==
    /\ work[t] \in {"commit", "deleteBalance", "deleteTransaction", "ack"}
    /\ Fault("crash")
    /\ WorkOn(t, "mark")
    /\ UNCHANGED <<cacheVars, readerVars, v0Writes, excused>>

Consumer(t) ==
    \/ MarkProcessing(t)
    \/ Commit(t)
    \/ DeleteBalance(t)
    \/ DeleteTransaction(t)
    \/ Acknowledge(t)

\* CreateTransactionV0 moves a balance without a look at Redis.
WriteV0(u) ==
    /\ v0Writes < MaxV0Writes
    /\ v0Writes' = v0Writes + 1
    /\ Change({u})
    /\ excused' = excused \cup {u}
    /\ NoFault
    /\ UNCHANGED <<ttl, phase, target, left, work>>

-----------------------------------------------------------------------------
(* Redis and time. *)

\* Redis evicts a key (allkeys-lru).
Evict(k) ==
    /\ Present(k)
    /\ ttl' = [ttl EXCEPT ![k] = 0]
    /\ age' = [age EXCEPT ![k] = Current]
    /\ NoFault
    /\ UNCHANGED <<readerVars, writerVars, excused>>

Older(a) == IF a = Current \/ a = OldAge THEN a ELSE a + 1

\* One unit of time: keys live, requests have and copies are so much older.
Tick ==
    /\ ttl' = [k \in Entries |-> IF Present(k) THEN ttl[k] - 1 ELSE 0]
    /\ age' = [k \in Entries |-> IF ttl[k] > 1 THEN Older(age[k]) ELSE Current]
    /\ left' = [r \in Readers |-> IF left[r] > 0 THEN left[r] - 1 ELSE 0]
    /\ copy' = [r \in Readers |-> Older(copy[r])]
    /\ NoFault
    /\ UNCHANGED <<phase, target, writerVars, excused>>

-----------------------------------------------------------------------------

Next ==
    \/ \E r \in Readers :
          \/ \E k \in Entries : StartRead(r, k)
          \/ Reader(r)
    \/ \E t \in Transactions : Insert(t) \/ Consumer(t) \/ Redeliver(t)
    \/ \E u \in Users : WriteV0(u)
    \/ \E k \in Entries : Evict(k)
    \/ Tick

Spec == Init /\ [][Next]_vars

\* Time passes, handlers and consumers run; nobody has to read or write.
Fairness ==
    /\ WF_vars(Tick)
    /\ \A r \in Readers : WF_vars(Reader(r))
    /\ \A t \in Transactions : WF_vars(Consumer(t))

FairSpec == Spec /\ Fairness

-----------------------------------------------------------------------------
(* Properties. *)

TypeOK ==
    /\ ttl \in [Entries -> 0..TTL]
    /\ age \in [Entries -> Current..OldAge]
    /\ phase \in [Readers -> {"idle", "lookup", "query", "fill"}]
    /\ target \in [Readers -> Entries \cup {NoEntry}]
    /\ copy \in [Readers -> Current..OldAge]
    /\ left \in [Readers -> 0..Deadline]
    /\ work \in [Transactions -> {"new", "mark", "commit", "deleteBalance",
                                  "deleteTransaction", "ack", "done"}]
    /\ v0Writes \in 0..MaxV0Writes
    /\ excused \in SUBSET Entries
    /\ faults \in 0..MaxFaults

\* What a hit answers was true less than the time to live plus a request's
\* deadline ago, whoever writes, whatever fails: a read can be slow, but it
\* cannot store its copy after its context has expired.
BoundedStaleness == \A k \in Entries : Stale(k) => age[k] < TTL + Deadline

\* The consumer of t has still to delete the key k.
Owes(t, k) ==
    \/ k = Owner[t] /\ work[t] \in {"mark", "commit", "deleteBalance"}
    \/ k = t /\ work[t] \in {"mark", "commit", "deleteBalance", "deleteTransaction"}

\* A stale key is one that a consumer is about to delete, also after its
\* process died and the message went to another one.  Excused are keys that
\* /v0 writes, whose deletion failed, or that a read held when the row changed.
InvalidationWorks ==
    \A k \in Entries \ excused : Stale(k) => \E t \in Transactions : Owes(t, k)

\* Once the writes are over, stale copies disappear for good.
EventuallyFresh == <>[](\A k \in Entries : ~Stale(k))

\* "Invalidate cache after the update": once the consumer is done, neither of
\* its keys holds what was there before.
InvalidatedStaysFresh ==
    \A t \in Transactions : work[t] = "done" => ~Stale(t) /\ ~Stale(Owner[t])

=============================================================================
