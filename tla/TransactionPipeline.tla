------------------------ MODULE TransactionPipeline ------------------------
(***************************************************************************)
(* The write paths of the API and everything between a client's POST and   *)
(* the user's balance: the handlers CreateTransaction (asynchronous, via   *)
(* RabbitMQ) and CreateTransactionV0 (synchronous), the idempotency keys   *)
(* in Redis, the queue, the consumer goroutine of each API replica, and    *)
(* the start, crash and shutdown of the replica processes.                 *)
(*                                                                         *)
(* An atomic step is one call to PostgreSQL, Redis or RabbitMQ together    *)
(* with the local computation around it; steps of different handlers,      *)
(* consumers and processes interleave freely.  The id of a transaction is  *)
(* a fresh uuid of the request that creates it, so requests double as      *)
(* transaction ids.                                                        *)
(*                                                                         *)
(* A replica and the broker each have their own end of the AMQP channel:   *)
(* what one end writes the other reads later or, when the connection is    *)
(* lost, never; and the two ends notice the loss at different times.       *)
(* Amounts are tenths of a cent, balances and rows of the table cents.     *)
(***************************************************************************)
EXTENDS Integers, FiniteSets

CONSTANTS
    Requests,     \* POST requests, and the transactions they create
    Users,        \* users.id
    ActiveUsers,  \* users with status 'active'
    Opening,      \* [Users -> Int]: users.balance at the start, in cents
    Keys,         \* idempotency_key values sent by clients
    NoKey,        \* the empty idempotency_key
    Body,         \* [Requests -> BodyType]: the validated JSON bodies
    Replicas,     \* API processes; each runs handlers and one consumer
    Nobody,       \* no transaction
    Nowhere,      \* no replica
    QueueMax,     \* x-max-length
    Prefetch,     \* channel.Qos
    FaultKinds,   \* the kinds of failure the environment may inject
    MaxFaults     \* how many failures a behaviour may contain

BodyType == [route : {"v1", "v0"}, user : Users, key : Keys \cup {NoKey},
             type : {"credit", "debit", "transfer"}, amount : Nat \ {0}]

AllFaultKinds ==
    { "db",        \* a statement fails and leaves no effect
      "unknown",   \* a statement takes effect but its caller sees an error
      "redis",     \* a Redis call fails, or a key is evicted or expires
      "crash",     \* a process dies
      "channel",   \* an AMQP connection breaks
      "sigterm" }  \* a process is told to stop

ASSUME BodyAssumption == Body \in [Requests -> BodyType]
ASSUME ReplicasAssumption == IsFiniteSet(Replicas)
ASSUME UsersAssumption == ActiveUsers \subseteq Users /\ Opening \in [Users -> Int]
ASSUME NobodyAssumption == Nobody \notin Requests /\ Nowhere \notin Replicas
ASSUME BoundsAssumption ==
    /\ QueueMax \in Nat \ {0} /\ Prefetch \in Nat \ {0} /\ MaxFaults \in Nat
    /\ FaultKinds \subseteq AllFaultKinds

VARIABLES
    \* handlers, one per request
    phase,      \* next call the handler makes
    host,       \* replica that serves the request, until it is answered
    reply,      \* answer sent to the client
    original,   \* id returned in an "already_processed" answer
    answeredBefore, \* history: same-key requests answered when this one arrived
    \* PostgreSQL
    status,     \* transactions.status, or "absent"
    balance,    \* users.balance, in cents
    applied,    \* history: how often the amount was added to the balance
    \* Redis
    idem,       \* idempotency:<user>:<key> -> transaction id
    \* frames a replica has written and the broker has not read
    wire,       \* published messages
    acks,       \* messages acknowledged
    nacks,      \* messages given back for requeueing
    \* RabbitMQ
    ready,      \* in transactions_queue
    unacked,    \* delivered to a replica, not acknowledged as far as it knows
    session,    \* TRUE while the broker holds a replica's channel open
    enqueued,   \* history: messages the broker has ever accepted
    suspect,    \* history: messages that may be handed out again although they
                \* were posted or will be
    \* consumer goroutine and process, one per replica
    inbox,      \* deliveries on their way and in the client library's buffer
    step,       \* next call the consumer makes
    current,    \* message the consumer works on
    process,    \* life cycle of the process
    channel,    \* TRUE while the client library holds the channel open
    faults      \* failures so far

handlerVars  == <<phase, host, reply, original, answeredBefore>>
dbVars       == <<status, balance, applied>>
frameVars    == <<wire, acks, nacks>>
brokerVars   == <<ready, unacked, session, enqueued, suspect>>
consumerVars == <<inbox, step, current>>
processVars  == <<process, channel>>
vars == <<handlerVars, dbVars, idem, frameVars, brokerVars, consumerVars, processVars,
          faults>>

-----------------------------------------------------------------------------
(* Data: what a body determines. *)

IdempotencyKey(r) == <<Body[r].user, Body[r].key>>

HasKey(r) == Body[r].key # NoKey

SameKey(r, s) ==
    /\ HasKey(r) /\ HasKey(s)
    /\ Body[r].route = "v1" /\ Body[s].route = "v1"
    /\ IdempotencyKey(r) = IdempotencyKey(s)

\* What NUMERIC(18,2) keeps of x tenths of a cent: cents, half away from zero.
Rounded(x) == IF x >= 0 THEN (x + 5) \div 10 ELSE -((5 - x) \div 10)

\* transactions.amount, in cents.
RowAmount(r) == Rounded(Body[r].amount)

\* CHECK (amount > 0) looks at the rounded amount.
Storable(r) == RowAmount(r) > 0

\* 'credit' adds, 'debit' and 'transfer' subtract.
Delta == [r \in Requests |->
            IF Body[r].type = "credit" THEN Body[r].amount ELSE -Body[r].amount]

\* A failure of kind k happens in this step.
Fault(k) ==
    /\ k \in FaultKinds
    /\ faults < MaxFaults
    /\ faults' = faults + 1

NoFault == UNCHANGED faults

Init ==
    /\ phase = [r \in Requests |-> "new"]
    /\ host = [r \in Requests |-> Nowhere]
    /\ reply = [r \in Requests |-> "none"]
    /\ original = [r \in Requests |-> Nobody]
    /\ answeredBefore = [r \in Requests |-> {}]
    /\ status = [r \in Requests |-> "absent"]
    /\ balance = Opening
    /\ applied = [r \in Requests |-> 0]
    /\ idem = [k \in Users \X Keys |-> Nobody]
    /\ wire = [p \in Replicas |-> {}]
    /\ acks = [p \in Replicas |-> {}]
    /\ nacks = [p \in Replicas |-> {}]
    /\ ready = {}
    /\ unacked = [p \in Replicas |-> {}]
    /\ session = [p \in Replicas |-> TRUE]
    /\ enqueued = {}
    /\ suspect = {}
    /\ inbox = [p \in Replicas |-> {}]
    /\ step = [p \in Replicas |-> "receive"]
    /\ current = [p \in Replicas |-> Nobody]
    /\ process = [p \in Replicas |-> "up"]
    /\ channel = [p \in Replicas |-> TRUE]
    /\ faults = 0

-----------------------------------------------------------------------------
(* Handlers. *)

Goto(r, next) ==
    /\ phase' = [phase EXCEPT ![r] = next]
    /\ UNCHANGED <<host, reply, original>>

Answer(r, what) ==
    /\ phase' = [phase EXCEPT ![r] = "done"]
    /\ host' = [host EXCEPT ![r] = Nowhere]
    /\ reply' = [reply EXCEPT ![r] = what]
    /\ UNCHANGED original

AnswerDuplicate(r) ==
    /\ phase' = [phase EXCEPT ![r] = "done"]
    /\ host' = [host EXCEPT ![r] = Nowhere]
    /\ reply' = [reply EXCEPT ![r] = "duplicate"]
    /\ original' = [original EXCEPT ![r] = idem[IdempotencyKey(r)]]

\* The router hands a valid request to a handler on a serving replica.
Receive(r, p) ==
    /\ phase[r] = "new"
    /\ process[p] = "up"
    /\ phase' = [phase EXCEPT ![r] = "user"]
    /\ host' = [host EXCEPT ![r] = p]
    /\ UNCHANGED <<reply, original>>
    /\ answeredBefore' =
         [answeredBefore EXCEPT ![r] = {s \in Requests : SameKey(r, s) /\ phase[s] = "done"}]
    /\ NoFault
    /\ UNCHANGED <<dbVars, idem, frameVars, brokerVars, consumerVars, processVars>>

\* SELECT EXISTS(... status = 'active'); a query error is answered like a
\* missing user.
ValidateUser(r) ==
    /\ phase[r] = "user"
    /\ \/ /\ Body[r].user \in ActiveUsers
          /\ Goto(r, IF Body[r].route = "v0" THEN "v0tx"
                     ELSE IF HasKey(r) THEN "key" ELSE "insert")
          /\ NoFault
       \/ /\ Body[r].user \notin ActiveUsers
          /\ Answer(r, "rejected")
          /\ NoFault
       \/ /\ Fault("db")
          /\ Answer(r, "rejected")
    /\ UNCHANGED <<answeredBefore, dbVars, idem, frameVars, brokerVars, consumerVars, processVars>>

\* Mutant: a miss reserves the key at once, before there is a row.
CheckKeyReserves(r) ==
    /\ phase[r] = "key"
    /\ \/ /\ idem[IdempotencyKey(r)] # Nobody
          /\ AnswerDuplicate(r)
          /\ UNCHANGED idem
       \/ /\ idem[IdempotencyKey(r)] = Nobody
          /\ Goto(r, "insert")
          /\ idem' = [idem EXCEPT ![IdempotencyKey(r)] = r]
    /\ NoFault
    /\ UNCHANGED <<answeredBefore, dbVars, frameVars, brokerVars, consumerVars, processVars>>

\* cache.Get on the idempotency key; its error is ignored, like a miss.
CheckKey(r) ==
    /\ phase[r] = "key"
    /\ \/ /\ idem[IdempotencyKey(r)] # Nobody
          /\ AnswerDuplicate(r)
          /\ NoFault
       \/ /\ idem[IdempotencyKey(r)] = Nobody
          /\ Goto(r, "insert")
          /\ NoFault
       \/ /\ Fault("redis")
          /\ Goto(r, "insert")
    /\ UNCHANGED <<answeredBefore, dbVars, idem, frameVars, brokerVars, consumerVars, processVars>>

\* Mutant: the key is never saved.
InsertPendingForgetsKey(r) ==
    /\ phase[r] = "insert"
    /\ status' = [status EXCEPT ![r] = "pending"]
    /\ Goto(r, "publish")
    /\ NoFault
    /\ UNCHANGED <<answeredBefore, balance, applied, idem, frameVars, brokerVars,
                   consumerVars, processVars>>

\* INSERT ... 'pending' inside the circuit breaker; the table refuses an amount
\* that rounds to nothing.
InsertPending(r) ==
    /\ phase[r] = "insert"
    /\ \/ /\ Storable(r)
          /\ status' = [status EXCEPT ![r] = "pending"]
          /\ Goto(r, IF HasKey(r) THEN "save" ELSE "publish")
          /\ NoFault
       \/ /\ IF Storable(r) THEN Fault("db") ELSE NoFault
          /\ Answer(r, "failed")
          /\ UNCHANGED status
       \/ /\ Storable(r)
          /\ Fault("unknown")
          /\ status' = [status EXCEPT ![r] = "pending"]
          /\ Answer(r, "failed")
    /\ UNCHANGED <<answeredBefore, balance, applied, idem, frameVars, brokerVars,
                   consumerVars, processVars>>

\* cache.Set of the idempotency key; its error is ignored.
SaveKey(r) ==
    /\ phase[r] = "save"
    /\ Goto(r, "publish")
    /\ \/ /\ idem' = [idem EXCEPT ![IdempotencyKey(r)] = r]
          /\ NoFault
       \/ /\ Fault("redis")
          /\ UNCHANGED idem
    /\ UNCHANGED <<answeredBefore, dbVars, frameVars, brokerVars, consumerVars, processVars>>

\* Mutant: a publish whose frame is written may still be reported as failed.
PublishGivesUp(r) ==
    LET p == host[r] IN
    /\ phase[r] = "publish"
    /\ \/ /\ channel[p]
          /\ wire' = [wire EXCEPT ![p] = IF session[p] THEN @ \cup {r} ELSE @]
          /\ \E what \in {"accepted", "warned"} : Answer(r, what)
       \/ /\ ~channel[p]
          /\ UNCHANGED wire
          /\ Answer(r, "warned")
    /\ NoFault
    /\ UNCHANGED <<answeredBefore, dbVars, idem, acks, nacks, brokerVars,
                   consumerVars, processVars>>

\* queue.Publish writes the frame and returns: the channel is not in confirm
\* mode, so success says nothing about the broker, which may have hung up.  On
\* a closed channel the client still gets 202, with a warning.
Publish(r) ==
    LET p == host[r] IN
    /\ phase[r] = "publish"
    /\ \/ /\ channel[p]
          /\ wire' = [wire EXCEPT ![p] = IF session[p] THEN @ \cup {r} ELSE @]
          /\ Answer(r, "accepted")
       \/ /\ ~channel[p]
          /\ UNCHANGED wire
          /\ Answer(r, "warned")
    /\ NoFault
    /\ UNCHANGED <<answeredBefore, dbVars, idem, acks, nacks, brokerVars,
                   consumerVars, processVars>>

\* Mutant: every type is added to the balance.
PostAsCredit(t) ==
    /\ status' = [status EXCEPT ![t] = "completed"]
    /\ balance' = [balance EXCEPT ![Body[t].user] = Rounded(10 * @ + Body[t].amount)]
    /\ applied' = [applied EXCEPT ![t] = @ + 1]

\* The serializable database transaction that moves the balance: the status
\* and the balance change together or not at all.  The amount is added as it
\* was sent and the sum is rounded, whatever the row was rounded to.
PostToBalance(t) ==
    /\ status' = [status EXCEPT ![t] = "completed"]
    /\ balance' = [balance EXCEPT ![Body[t].user] = Rounded(10 * @ + Delta[t])]
    /\ applied' = [applied EXCEPT ![t] = @ + 1]

\* Mutant: the error of the commit is not looked at.
CommitV0Unchecked(r) ==
    /\ phase[r] = "v0tx"
    /\ Answer(r, "completed")
    /\ \/ Storable(r) /\ PostToBalance(r) /\ NoFault
       \/ Fault("db") /\ UNCHANGED dbVars
    /\ UNCHANGED <<answeredBefore, idem, frameVars, brokerVars, consumerVars, processVars>>

\* CreateTransactionV0: insert, balance update and commit in one transaction.
CommitV0(r) ==
    /\ phase[r] = "v0tx"
    /\ \/ /\ Storable(r)
          /\ PostToBalance(r)
          /\ Answer(r, "completed")
          /\ NoFault
       \/ /\ IF Storable(r) THEN Fault("db") ELSE NoFault
          /\ Answer(r, "failed")
          /\ UNCHANGED dbVars
       \/ /\ Storable(r)
          /\ Fault("unknown")
          /\ PostToBalance(r)
          /\ Answer(r, "failed")
    /\ UNCHANGED <<answeredBefore, idem, frameVars, brokerVars, consumerVars, processVars>>

Handler(r) ==
    \/ \E p \in Replicas : Receive(r, p)
    \/ ValidateUser(r)
    \/ CheckKey(r)
    \/ InsertPending(r)
    \/ SaveKey(r)
    \/ Publish(r)
    \/ CommitV0(r)

-----------------------------------------------------------------------------
(* RabbitMQ, as queue.Init and StartConsumer configure it, and Redis.        *)

\* A published frame reaches the broker.  "reject-publish" on a full queue
\* drops it: the nack that would say so only exists in confirm mode.
Route(p, t) ==
    /\ t \in wire[p]
    /\ wire' = [wire EXCEPT ![p] = @ \ {t}]
    /\ IF Cardinality(ready) < QueueMax
       THEN ready' = ready \cup {t} /\ enqueued' = enqueued \cup {t}
       ELSE UNCHANGED <<ready, enqueued>>
    /\ NoFault
    /\ UNCHANGED <<handlerVars, dbVars, idem, acks, nacks, unacked, session, suspect,
                   consumerVars, processVars>>

\* The broker pushes a message to a consumer, up to the prefetch limit; what it
\* sends to a client that has lost the connection arrives nowhere.
Deliver(p, t) ==
    /\ session[p]
    /\ t \in ready
    /\ Cardinality(unacked[p]) < Prefetch
    /\ ready' = ready \ {t}
    /\ unacked' = [unacked EXCEPT ![p] = @ \cup {t}]
    /\ inbox' = [inbox EXCEPT ![p] = IF channel[p] THEN @ \cup {t} ELSE @]
    /\ NoFault
    /\ UNCHANGED <<handlerVars, dbVars, idem, frameVars, session, enqueued, suspect,
                   step, current, processVars>>

\* An acknowledgement reaches the broker: it forgets the message.
ReadAck(p, t) ==
    /\ t \in acks[p]
    /\ acks' = [acks EXCEPT ![p] = @ \ {t}]
    /\ unacked' = [unacked EXCEPT ![p] = @ \ {t}]
    /\ NoFault
    /\ UNCHANGED <<handlerVars, dbVars, idem, wire, nacks, ready, session, enqueued,
                   suspect, consumerVars, processVars>>

\* A negative one puts the message back into the queue, however full that is.
ReadNack(p, t) ==
    /\ t \in nacks[p]
    /\ nacks' = [nacks EXCEPT ![p] = @ \ {t}]
    /\ unacked' = [unacked EXCEPT ![p] = @ \ {t}]
    /\ ready' = ready \cup {t}
    /\ NoFault
    /\ UNCHANGED <<handlerVars, dbVars, idem, wire, acks, session, enqueued, suspect,
                   consumerVars, processVars>>

\* Redis expires a key after 24 hours, or evicts it before (allkeys-lru).
Evict(k) ==
    /\ Fault("redis")
    /\ idem[k] # Nobody
    /\ idem' = [idem EXCEPT ![k] = Nobody]
    /\ UNCHANGED <<handlerVars, dbVars, frameVars, brokerVars, consumerVars, processVars>>

-----------------------------------------------------------------------------
(* The consumer goroutine of replica p: StartConsumer's loop around         *)
(* processTransaction.  The cache invalidation between commit and ack       *)
(* touches no variable of this module.                                      *)

ConsumerGoto(p, next) ==
    /\ step' = [step EXCEPT ![p] = next]
    /\ UNCHANGED <<inbox, current>>

\* What the consumer of p is processing, and what it will process or processes.
Working(p) == IF step[p] \in {"mark", "commit", "ack"} THEN {current[p]} ELSE {}
InHand(p)  == inbox[p] \cup Working(p)

\* Mutant: every message is acknowledged when it is taken.
TakeAutoAck(p, t) ==
    /\ step[p] = "receive"
    /\ t \in inbox[p]
    /\ inbox' = [inbox EXCEPT ![p] = @ \ {t}]
    /\ step' = [step EXCEPT ![p] = "mark"]
    /\ current' = [current EXCEPT ![p] = t]
    /\ acks' = [acks EXCEPT ![p] = @ \cup {t}]
    /\ NoFault
    /\ UNCHANGED <<handlerVars, dbVars, idem, wire, nacks, brokerVars, processVars>>

\* for d := range msgs: the loop does not look at the channel, it takes what the
\* library hands out, in whatever state the connection is.
Take(p, t) ==
    /\ step[p] = "receive"
    /\ t \in inbox[p]
    /\ inbox' = [inbox EXCEPT ![p] = @ \ {t}]
    /\ step' = [step EXCEPT ![p] = "mark"]
    /\ current' = [current EXCEPT ![p] = t]
    /\ NoFault
    /\ UNCHANGED <<handlerVars, dbVars, idem, frameVars, brokerVars, processVars>>

\* Mutant: a failed update gives the message back and the consumer carries on.
MarkProcessingCarriesOn(p) ==
    /\ step[p] = "mark"
    /\ ConsumerGoto(p, "commit")
    /\ \/ /\ status' = [status EXCEPT ![current[p]] = "processing"]
          /\ NoFault
          /\ UNCHANGED nacks
       \/ /\ Fault("db")
          /\ nacks' = [nacks EXCEPT ![p] = @ \cup (unacked[p] \cap {current[p]})]
          /\ UNCHANGED status
    /\ UNCHANGED <<handlerVars, balance, applied, idem, wire, acks, brokerVars, processVars>>

\* UPDATE ... status = 'processing', outside the database transaction.
MarkProcessing(p) ==
    /\ step[p] = "mark"
    /\ \/ /\ status' = [status EXCEPT ![current[p]] = "processing"]
          /\ ConsumerGoto(p, "commit")
          /\ NoFault
       \/ /\ Fault("db")
          /\ ConsumerGoto(p, "nack")
          /\ UNCHANGED status
       \/ /\ Fault("unknown")
          /\ status' = [status EXCEPT ![current[p]] = "processing"]
          /\ ConsumerGoto(p, "nack")
    /\ UNCHANGED <<handlerVars, balance, applied, idem, frameVars, brokerVars, processVars>>

\* Mutant: an error after the commit (of the cache invalidation, say) is
\* returned like any other.
CommitReportsLateError(p) ==
    /\ step[p] = "commit"
    /\ PostToBalance(current[p])
    /\ \E next \in {"ack", "nack"} : ConsumerGoto(p, next)
    /\ NoFault
    /\ UNCHANGED <<handlerVars, idem, frameVars, brokerVars, processVars>>

\* Mutant: the status is set outside the transaction that moves the balance.
CommitStatusApart(p) ==
    /\ step[p] = "commit"
    /\ \/ /\ PostToBalance(current[p])
          /\ ConsumerGoto(p, "ack")
          /\ NoFault
       \/ /\ Fault("db")
          /\ ConsumerGoto(p, "nack")
          /\ status' = [status EXCEPT ![current[p]] = "completed"]
          /\ UNCHANGED <<balance, applied>>
    /\ UNCHANGED <<handlerVars, idem, frameVars, brokerVars, processVars>>

\* BeginTx ... Commit, with no look at the status the row already has.
CommitTransaction(p) ==
    /\ step[p] = "commit"
    /\ \/ /\ PostToBalance(current[p])
          /\ ConsumerGoto(p, "ack")
          /\ NoFault
          /\ UNCHANGED suspect
       \/ /\ Fault("db")
          /\ ConsumerGoto(p, "nack")
          /\ UNCHANGED <<dbVars, suspect>>
       \/ /\ Fault("unknown")
          /\ PostToBalance(current[p])
          /\ ConsumerGoto(p, "nack")
          /\ suspect' = suspect \cup {current[p]}
    /\ UNCHANGED <<handlerVars, idem, frameVars, ready, unacked, session, enqueued,
                   processVars>>

\* The frame a consumer writes about its message: nothing when its own end of
\* the channel is closed (the error is dropped), lost when the broker's end is.
Settlement(p) == IF channel[p] /\ session[p] THEN {current[p]} ELSE {}

FinishDelivery(p) ==
    /\ step' = [step EXCEPT ![p] = "receive"]
    /\ current' = [current EXCEPT ![p] = Nobody]
    /\ NoFault
    /\ UNCHANGED <<handlerVars, dbVars, idem, wire, brokerVars, inbox, processVars>>

\* d.Ack(false) writes the frame, nothing tells whether the broker reads it.
Ack(p) ==
    /\ step[p] = "ack"
    /\ acks' = [acks EXCEPT ![p] = @ \cup Settlement(p)]
    /\ FinishDelivery(p)
    /\ UNCHANGED nacks

\* Mutant: d.Nack(false, false) has the broker discard the message.
NackDiscards(p) ==
    /\ step[p] = "nack"
    /\ acks' = [acks EXCEPT ![p] = @ \cup Settlement(p)]
    /\ FinishDelivery(p)
    /\ UNCHANGED nacks

\* Mutant: the message is given back after the consumer has forgotten it.
NackForgetsFirst(p) ==
    /\ step[p] = "nack"
    /\ FinishDelivery(p)
    /\ nacks' = [nacks EXCEPT ![p] = @ \cup {current'[p]}]
    /\ UNCHANGED acks

\* d.Nack(false, true): requeue on error, unconfirmed as well.
Nack(p) ==
    /\ step[p] = "nack"
    /\ nacks' = [nacks EXCEPT ![p] = @ \cup Settlement(p)]
    /\ FinishDelivery(p)
    /\ UNCHANGED acks

Consumer(p) ==
    \/ \E t \in Requests : Take(p, t)
    \/ MarkProcessing(p)
    \/ CommitTransaction(p)
    \/ Ack(p)
    \/ Nack(p)

-----------------------------------------------------------------------------
(* The AMQP connection of replica p; nothing in the code opens another one.  *)

\* The broker's end goes: what is not acknowledged returns to the queue, with
\* the frames it has not read the acknowledgements among them are lost.
CloseSession(p) ==
    /\ session' = [session EXCEPT ![p] = FALSE]
    /\ ready' = ready \cup unacked[p]
    /\ unacked' = [unacked EXCEPT ![p] = {}]
    /\ wire' = [wire EXCEPT ![p] = {}]
    /\ acks' = [acks EXCEPT ![p] = {}]
    /\ nacks' = [nacks EXCEPT ![p] = {}]
    /\ suspect' = suspect \cup acks[p] \cup InHand(p)
    /\ UNCHANGED <<handlerVars, dbVars, idem, enqueued, consumerVars, channel>>

\* The broker loses the connection or notices that its client is gone.
BrokerDrops(p) ==
    /\ session[p]
    /\ IF channel[p] THEN Fault("channel") ELSE NoFault
    /\ CloseSession(p)
    /\ UNCHANGED process

\* The client library loses the connection or notices that its broker is gone;
\* the consumer may still be handed some of what was received.
ClientDrops(p) ==
    /\ channel[p]
    /\ IF session[p] THEN Fault("channel") ELSE NoFault
    /\ channel' = [channel EXCEPT ![p] = FALSE]
    /\ \E kept \in SUBSET inbox[p] :
          /\ inbox' = [inbox EXCEPT ![p] = kept]
          /\ suspect' = suspect \cup kept \cup Working(p)
    /\ UNCHANGED <<handlerVars, dbVars, idem, frameVars, ready, unacked, session, enqueued,
                   step, current, process>>

-----------------------------------------------------------------------------
(* The life of a process. *)

\* The process is gone: its handlers never answer, its consumer stops dead.
\* What its socket has taken may still reach the broker.
Die(p) ==
    /\ process' = [process EXCEPT ![p] = "down"]
    /\ channel' = [channel EXCEPT ![p] = FALSE]
    /\ phase' = [r \in Requests |-> IF host[r] = p THEN "gone" ELSE phase[r]]
    /\ host' = [r \in Requests |-> IF host[r] = p THEN Nowhere ELSE host[r]]
    /\ inbox' = [inbox EXCEPT ![p] = {}]
    /\ step' = [step EXCEPT ![p] = "receive"]
    /\ current' = [current EXCEPT ![p] = Nobody]
    /\ suspect' = suspect \cup (IF step[p] = "ack" THEN {current[p]} ELSE {})
    /\ UNCHANGED <<reply, original, answeredBefore, dbVars, idem, frameVars, ready,
                   unacked, session, enqueued>>

Crash(p) ==
    /\ process[p] # "down"
    /\ Fault("crash")
    /\ Die(p)

\* SIGTERM: srv.Shutdown stops new requests; the consumer is not told.
Terminate(p) ==
    /\ process[p] = "up"
    /\ Fault("sigterm")
    /\ process' = [process EXCEPT ![p] = "draining"]
    /\ UNCHANGED <<handlerVars, dbVars, idem, frameVars, brokerVars, consumerVars, channel>>

\* srv.Shutdown has returned, handlers finished or 15 s over; the deferred
\* queue.Close has the broker close the channel under the running consumer,
\* after the frames already written.  The consumer learns it with the answer.
CloseQueue(p) ==
    /\ process[p] = "draining"
    /\ process' = [process EXCEPT ![p] = "closing"]
    /\ IF channel[p] /\ session[p]
       THEN wire[p] = {} /\ acks[p] = {} /\ nacks[p] = {} /\ CloseSession(p)
       ELSE UNCHANGED <<handlerVars, dbVars, idem, frameVars, brokerVars, consumerVars, channel>>
    /\ NoFault

\* cache.Close, db.Close and the end of main.
Exit(p) ==
    /\ process[p] = "closing"
    /\ ~channel[p]
    /\ Die(p)
    /\ NoFault

\* Mutant: main comes up without StartConsumer.
RestartWithoutConsumer(p) ==
    /\ process[p] = "down"
    /\ process' = [process EXCEPT ![p] = "up"]
    /\ NoFault
    /\ UNCHANGED <<handlerVars, dbVars, idem, frameVars, brokerVars, consumerVars, channel>>

\* restart: unless-stopped, then main's Init calls and StartConsumer.  By then
\* the broker has noticed that the old process is gone.
Restart(p) ==
    /\ process[p] = "down"
    /\ ~session[p]
    /\ process' = [process EXCEPT ![p] = "up"]
    /\ channel' = [channel EXCEPT ![p] = TRUE]
    /\ session' = [session EXCEPT ![p] = TRUE]
    /\ NoFault
    /\ UNCHANGED <<handlerVars, dbVars, idem, frameVars, ready, unacked, enqueued, suspect,
                   consumerVars>>

-----------------------------------------------------------------------------

Next ==
    \/ \E r \in Requests : Handler(r)
    \/ \E p \in Replicas, t \in Requests :
          Route(p, t) \/ Deliver(p, t) \/ ReadAck(p, t) \/ ReadNack(p, t)
    \/ \E k \in Users \X Keys : Evict(k)
    \/ \E p \in Replicas :
          \/ Consumer(p)
          \/ ClientDrops(p)
          \/ BrokerDrops(p)
          \/ Crash(p)
          \/ Terminate(p)
          \/ CloseQueue(p)
          \/ Exit(p)
          \/ Restart(p)

Spec == Init /\ [][Next]_vars

\* Goroutines run, the broker reads, routes and delivers, each end of a channel
\* notices that the other is gone, a container that went down is started again.
\* Clients owe nobody a request and failures are optional.
Fairness ==
    /\ \A r \in Requests :
         WF_vars(ValidateUser(r) \/ CheckKey(r) \/ InsertPending(r) \/ SaveKey(r)
                 \/ Publish(r) \/ CommitV0(r))
    /\ \A p \in Replicas :
         /\ WF_vars(Consumer(p))
         /\ WF_vars(\E t \in Requests : Route(p, t))
         /\ WF_vars(\E t \in Requests : Deliver(p, t))
         /\ WF_vars(\E t \in Requests : ReadAck(p, t) \/ ReadNack(p, t))
         /\ WF_vars(~channel[p] /\ BrokerDrops(p))
         /\ WF_vars(~session[p] /\ ClientDrops(p))
         /\ WF_vars(CloseQueue(p) \/ Exit(p) \/ Restart(p))

FairSpec == Spec /\ Fairness

-----------------------------------------------------------------------------
(* Properties. *)

TypeOK ==
    /\ phase \in [Requests -> {"new", "user", "key", "insert", "save", "publish",
                               "v0tx", "done", "gone"}]
    /\ host \in [Requests -> Replicas \cup {Nowhere}]
    /\ reply \in [Requests -> {"none", "rejected", "duplicate", "failed", "accepted",
                               "warned", "completed"}]
    /\ original \in [Requests -> Requests \cup {Nobody}]
    /\ answeredBefore \in [Requests -> SUBSET Requests]
    /\ status \in [Requests -> {"absent", "pending", "processing", "completed"}]
    /\ balance \in [Users -> Int]
    /\ applied \in [Requests -> Nat]
    /\ idem \in [Users \X Keys -> Requests \cup {Nobody}]
    /\ wire \in [Replicas -> SUBSET Requests]
    /\ acks \in [Replicas -> SUBSET Requests]
    /\ nacks \in [Replicas -> SUBSET Requests]
    /\ ready \in SUBSET Requests
    /\ unacked \in [Replicas -> SUBSET Requests]
    /\ session \in [Replicas -> BOOLEAN]
    /\ enqueued \in SUBSET Requests
    /\ suspect \in SUBSET Requests
    /\ inbox \in [Replicas -> SUBSET Requests]
    /\ step \in [Replicas -> {"receive", "mark", "commit", "ack", "nack"}]
    /\ current \in [Replicas -> Requests \cup {Nobody}]
    /\ process \in [Replicas -> {"up", "draining", "closing", "down"}]
    /\ channel \in [Replicas -> BOOLEAN]
    /\ faults \in 0..MaxFaults

-----------------------------------------------------------------------------
(* What the broker and the manual acknowledgement guarantee, whatever fails. *)

InFlight(t) == t \in ready \/ \E p \in Replicas : t \in wire[p] \cup unacked[p]

\* A message the broker accepted is not lost: it is queued, delivered and not
\* acknowledged, or already in the balance.  StartConsumer acknowledges only
\* after processTransaction returned nil, and its commit is the last thing in
\* there that can fail.
AtLeastOnce ==
    \A t \in enqueued :
        t \in ready \/ (\E p \in Replicas : t \in unacked[p]) \/ applied[t] >= 1

\* An amount is added to a balance twice only if the outcome of its commit was
\* in doubt, or the connection was lost while the message was with a consumer
\* or its acknowledgement unread; no other interleaving of consumers, nacks,
\* restarts and redeliveries does it.
DoubleApplyOnlyIfSuspect == \A t \in Requests : applied[t] > 1 => t \in suspect

\* Two consumers work on the same transaction at the same time only after the
\* connection of one of them was lost.
SingleConsumerUnlessSuspect ==
    \A t \in Requests \ suspect, p, q \in Replicas :
        t \in Working(p) \cap Working(q) => p = q

\* Once the broker has forgotten a message, its transaction is completed and
\* in the balance exactly once, unless it was ever in doubt.
SettledExactlyOnce ==
    \A t \in enqueued \ suspect :
        ~InFlight(t) => status[t] = "completed" /\ applied[t] = 1

\* The status of a completed transaction goes back to 'processing' (the UPDATE
\* that sets it has no condition on the old status) only by a message in doubt.
StatusRegressesOnlyIfSuspect ==
    [][\A t \in Requests :
          status[t] = "completed" /\ status'[t] # "completed" => t \in suspect]_vars

\* The failures pay for the repetitions: a failed statement, process or
\* connection puts at most Prefetch amounts into the balances for another time,
\* over all transactions together, however the failures overlap.
ExtraPostingsCostFailures ==
    Cardinality(UNION {{t} \X (2..applied[t]) : t \in Requests}) <= Prefetch * faults

-----------------------------------------------------------------------------
(* What the handlers promise their clients. *)

\* The status that GET /transactions/:id shows is the truth about the money:
\* nothing was moved for a 'pending' transaction, something was for a
\* 'completed' one, and without doubt it was once the money is there.
StatusIsHonest ==
    \A t \in Requests :
        /\ status[t] \in {"absent", "pending"} => applied[t] = 0
        /\ status[t] = "completed" => applied[t] >= 1
        /\ applied[t] >= 1 /\ t \notin suspect => status[t] = "completed"

Completed(u, types) ==
    {t \in Requests : status[t] = "completed" /\ Body[t].user = u /\ Body[t].type \in types}

\* What the rows of transactions add up to, counted cent by cent.
Cents(S) == UNION {{t} \X (1..RowAmount(t)) : t \in S}

\* Half a cent: the row is rounded up, the new balance up or down.
Ties(S) == {t \in S : Body[t].amount % 10 = 5}

\* The balance of a user is what the rows the table calls completed make of the
\* opening balance, to the cent, over both routes and at any time, crashes and
\* redeliveries included, as long as none of the user's transactions is in
\* doubt; but each amount that ends in half a cent may be a cent short in the
\* balance, be it added or subtracted.
BooksDriftByTies ==
    \A u \in Users : (\A t \in suspect : Body[t].user # u) =>
        LET in    == Completed(u, {"credit"})
            out   == Completed(u, {"debit", "transfer"})
            drift == balance[u] - Opening[u] - (Cardinality(Cents(in)) - Cardinality(Cents(out)))
        IN  -Cardinality(Ties(in)) <= drift /\ drift <= Cardinality(Ties(out))

\* An answer stays true.  A rejected or duplicate request never gets a row.
\* "Queue unavailable, manual processing required": the transaction is pending
\* for ever, so who processes it by hand does not do it a second time.  After
\* "failed to create transaction" there is at most a row that nothing will ever
\* process.  What /v0 calls completed is posted once, what it calls failed once
\* or not at all.
AnswerTellsOutcome ==
    \A r \in Requests :
        /\ reply[r] \in {"rejected", "duplicate"} => status[r] = "absent"
        /\ reply[r] = "accepted" => status[r] # "absent"
        /\ reply[r] = "warned" => status[r] = "pending" /\ ~InFlight(r)
        /\ reply[r] = "failed" /\ Body[r].route = "v1" =>
              status[r] \in {"absent", "pending"} /\ ~InFlight(r)
        /\ reply[r] = "failed" /\ Body[r].route = "v0" =>
              \/ status[r] = "absent" /\ applied[r] = 0
              \/ status[r] = "completed" /\ applied[r] = 1
        /\ reply[r] = "completed" => status[r] = "completed" /\ applied[r] = 1

\* An "already_processed" answer carries the id of a transaction that has a
\* row and was created by the same user under the same key: the key reaches
\* Redis only after the row is in PostgreSQL.
DuplicateReplyNamesRecorded ==
    \A r \in Requests : reply[r] = "duplicate" =>
        /\ original[r] # r
        /\ SameKey(r, original[r])
        /\ status[original[r]] # "absent"

\* A client that retries after it got an answer with an id creates no second
\* transaction, as long as Redis keeps the key.
RetryAfterAnswerSuppressed ==
    \A r \in Requests : \A s \in answeredBefore[r] :
        SameKey(r, s) /\ reply[s] \in {"accepted", "warned", "duplicate"}
            => status[r] = "absent"

\* "Transaction accepted and queued for processing": the message is on its way
\* or has done its work.
AcceptedIsHeld ==
    \A r \in Requests : reply[r] = "accepted" => InFlight(r) \/ applied[r] >= 1

\* An idempotency key stands for one transaction.
OneTransactionPerKey ==
    \A r, s \in Requests :
        SameKey(r, s) /\ status[r] # "absent" /\ status[s] # "absent" => r = s

\* An amount reaches the balance at most once.
AppliedAtMostOnce == \A t \in Requests : applied[t] <= 1

\* A transaction reported as "already_processed" has been processed or will
\* be: its handler has still to publish it, it is in flight, or it is posted.
DuplicateReplyIsBacked ==
    \A r \in Requests : reply[r] = "duplicate" =>
        LET t == original[r] IN
        phase[t] = "publish" \/ InFlight(t) \/ applied[t] >= 1

\* Whatever the broker accepted is completed in the end, and stays so.
EnqueuedCompletes ==
    \A t \in Requests : t \in enqueued ~> [](status[t] = "completed")

-----------------------------------------------------------------------------
(* Whatever fails, the pipeline implements the ledger: its suspect messages  *)
(* are the contested transactions.                                           *)

Recorded == {t \in Requests : status[t] # "absent"}
Posted   == {t \in Requests : applied[t] >= 1}
UserOf   == [r \in Requests |-> Body[r].user]

\* What the amount makes of a balance, depending on the balance it meets: the
\* nearest cent, either one from half a cent.
Effect == [r \in Requests |->
             {c \in (Delta[r] \div 10)..(Delta[r] \div 10 + 1) : 10 * c - Delta[r] \in -5..5}]

L == INSTANCE Ledger WITH
       Transactions <- Requests,
       recorded <- Recorded, posted <- Posted, contested <- suspect

\* Every transaction is recorded before it is posted, its amount reaches one
\* balance in the step that posts it, and only one that was contested before
\* is posted again.
ImplementsLedger == L!Spec

=============================================================================
