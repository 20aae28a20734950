--------------------- MODULE TransactionPipelineProofs ---------------------
(***************************************************************************)
(* Proofs about TransactionPipeline, for any requests, users, replicas,    *)
(* queue bound, prefetch limit and any number of failures.                 *)
(***************************************************************************)
EXTENDS TransactionPipeline, FiniteSetTheorems, TLAPS

-----------------------------------------------------------------------------
(* The inductive invariant. *)

\* Only requests with an idempotency key get to the calls that use it.
Keyed == \A r \in Requests : phase[r] \in {"key", "save"} => HasKey(r)

\* A consumer has a message between two receives.
Busy == \A p \in Replicas : step[p] = "receive" <=> current[p] = Nobody

\* A message is in one place at the broker, only the broker's messages are
\* delivered, and settlements on their way are of deliveries the broker counts.
OnePlace ==
    /\ ready \subseteq enqueued
    /\ \A p \in Replicas :
          /\ unacked[p] \subseteq enqueued
          /\ unacked[p] \cap ready = {}
          /\ wire[p] \cap enqueued = {}
          /\ acks[p] \cup nacks[p] \subseteq unacked[p]
          /\ \A q \in Replicas : p # q => /\ unacked[p] \cap unacked[q] = {}
                                          /\ wire[p] \cap wire[q] = {}

\* Nothing was published or posted for a request without a final answer, and
\* nothing was posted for a message on the wire.
NotYet ==
    \A t \in Requests :
        /\ phase[t] # "done" =>
              /\ applied[t] = 0
              /\ t \notin enqueued
              /\ \A p \in Replicas : t \notin wire[p]
        /\ \A p \in Replicas : t \in wire[p] => applied[t] = 0
        /\ applied[t] = 0 => status[t] # "completed"

\* What a replica has, its buffer, its consumer and its settlements apart, was
\* delivered to it and, while both ends of its channel live, is unacknowledged;
\* it acknowledges only what is posted.
Held ==
    \A p \in Replicas :
        /\ inbox[p] \subseteq enqueued
        /\ current[p] # Nobody => current[p] \in enqueued
        /\ current[p] \notin inbox[p] \cup acks[p] \cup nacks[p]
        /\ inbox[p] \cap (acks[p] \cup nacks[p]) = {}
        /\ acks[p] \cap nacks[p] = {}
        /\ ~session[p] => unacked[p] = {}
        /\ channel[p] /\ session[p] =>
              /\ inbox[p] \subseteq unacked[p]
              /\ current[p] # Nobody => current[p] \in unacked[p]
        /\ step[p] = "ack" => applied[current[p]] >= 1
        /\ \A t \in acks[p] : applied[t] >= 1

\* p has posted t and the broker has not read that it did.
Posting(p, t) == t \in acks[p] \/ (current[p] = t /\ step[p] = "ack")

\* A transaction that was never in doubt: whoever has its message holds its
\* delivery and a channel to settle it on, and it is posted between the commit
\* and the end of the acknowledgement, never before.
Undoubted(t) ==
    /\ applied[t] <= 1
    /\ t \in ready => applied[t] = 0
    /\ \A p \in Replicas :
          /\ t \in InHand(p) => t \in unacked[p] /\ channel[p]
          /\ t \in unacked[p] /\ ~Posting(p, t) => applied[t] = 0
          /\ Posting(p, t) => applied[t] = 1 /\ status[t] = "completed"

Clean == \A t \in Requests \ suspect : Undoubted(t)

\* Rows appear with the insert, before anything is published.
Rows ==
    \A t \in Requests :
        /\ phase[t] \in {"new", "user", "key", "insert", "v0tx"} => status[t] = "absent"
        /\ phase[t] \in {"save", "publish"} => status[t] # "absent"
        /\ t \in enqueued => status[t] # "absent"
        /\ \A p \in Replicas : t \in wire[p] => status[t] # "absent"

\* A process that is down has no channel, no deliveries and no consumer at work.
Gone ==
    \A p \in Replicas :
        process[p] = "down" => current[p] = Nobody /\ inbox[p] = {} /\ ~channel[p]

\* A request is with a replica from its arrival to its answer.
Hosted == \A r \in Requests : host[r] = Nowhere <=> phase[r] \in {"new", "done", "gone"}

TInv == TypeOK /\ Keyed /\ Busy /\ Gone /\ Hosted

MInv == OnePlace /\ NotYet /\ Held /\ Clean /\ Rows /\ AtLeastOnce /\ SettledExactlyOnce

IInv == TInv /\ MInv
-----------------------------------------------------------------------------
(* Types. *)

\* What a body adds to a balance is a whole number of tenths.
LEMMA DeltaType == Delta \in [Requests -> Int]
BY BodyAssumption DEF Delta, BodyType

\* Rounding a whole number of tenths gives whole cents.
LEMMA RoundedType ==
    ASSUME NEW x \in Int
    PROVE  Rounded(x) \in Int
BY DEF Rounded

\* A request with a key has its entry in Redis.
LEMMA KeyType ==
    ASSUME NEW r \in Requests, HasKey(r)
    PROVE  IdempotencyKey(r) \in Users \X Keys
BY BodyAssumption DEF HasKey, IdempotencyKey, BodyType

\* The posting transaction keeps the types of the three columns it writes.
LEMMA PostToBalanceType ==
    ASSUME TypeOK, NEW t \in Requests, PostToBalance(t)
    PROVE  /\ status' \in [Requests -> {"absent", "pending", "processing", "completed"}]
           /\ balance' \in [Users -> Int]
           /\ applied' \in [Requests -> Nat]
<1>1. Body[t].user \in Users /\ Delta[t] \in Int
  BY BodyAssumption, DeltaType DEF BodyType
<1>2. 10 * balance[Body[t].user] + Delta[t] \in Int
  BY <1>1 DEF TypeOK
<1>3. Rounded(10 * balance[Body[t].user] + Delta[t]) \in Int
  BY <1>2, RoundedType
<1>4. balance' \in [Users -> Int]
  BY <1>1, <1>3 DEF TypeOK, PostToBalance
<1> QED BY <1>4 DEF TypeOK, PostToBalance

\* A failure is counted.
LEMMA FaultType ==
    ASSUME TypeOK, NEW k, Fault(k) \/ NoFault
    PROVE  faults' \in 0..MaxFaults
BY BoundsAssumption DEF TypeOK, Fault, NoFault

\* The initial state has the declared types.
LEMMA InitType == Init => TypeOK
BY BoundsAssumption, UsersAssumption DEF Init, TypeOK

\* Handlers keep the types.
LEMMA HandlerType ==
    ASSUME TypeOK, Keyed, NEW r \in Requests, Handler(r)
    PROVE  TypeOK'
<1> USE DEF dbVars, frameVars, brokerVars, consumerVars, processVars
<1>1. ASSUME NEW p \in Replicas, Receive(r, p) PROVE TypeOK'
  BY <1>1, BoundsAssumption DEF TypeOK, NoFault, Receive
<1>2. CASE ValidateUser(r)
  <2>1. PICK next \in {"v0tx", "key", "insert", "done"} :
           /\ phase' = [phase EXCEPT ![r] = next]
           /\ host' = host \/ host' = [host EXCEPT ![r] = Nowhere]
           /\ reply' = reply \/ reply' = [reply EXCEPT ![r] = "rejected"]
           /\ original' = original
    BY <1>2 DEF ValidateUser, Goto, Answer
  <2>2. faults' \in 0..MaxFaults
    BY <1>2, FaultType DEF ValidateUser
  <2> QED BY <1>2, <2>1, <2>2 DEF ValidateUser, TypeOK
<1>3. CASE CheckKey(r)
  <2>1. original' \in [Requests -> Requests \cup {Nobody}]
    <3>1. idem[IdempotencyKey(r)] \in Requests \cup {Nobody}
      BY <1>3, KeyType DEF CheckKey, TypeOK, Keyed
    <3> QED BY <1>3, <3>1 DEF CheckKey, Goto, AnswerDuplicate, TypeOK
  <2>2. /\ phase' = [phase EXCEPT ![r] = "done"] \/ phase' = [phase EXCEPT ![r] = "insert"]
        /\ host' = host \/ host' = [host EXCEPT ![r] = Nowhere]
        /\ reply' = reply \/ reply' = [reply EXCEPT ![r] = "duplicate"]
    BY <1>3 DEF CheckKey, Goto, AnswerDuplicate
  <2>3. faults' \in 0..MaxFaults
    BY <1>3, FaultType DEF CheckKey
  <2>4. UNCHANGED <<answeredBefore, dbVars, idem, frameVars, brokerVars, consumerVars,
                    processVars>>
    BY <1>3 DEF CheckKey
  <2> QED BY <2>1, <2>2, <2>3, <2>4 DEF TypeOK
<1>4. CASE InsertPending(r)
  <2>1. PICK next \in {"save", "publish", "done"} :
           /\ phase' = [phase EXCEPT ![r] = next]
           /\ host' = host \/ host' = [host EXCEPT ![r] = Nowhere]
           /\ reply' = reply \/ reply' = [reply EXCEPT ![r] = "failed"]
           /\ original' = original
           /\ status' = status \/ status' = [status EXCEPT ![r] = "pending"]
    BY <1>4 DEF InsertPending, Goto, Answer
  <2>2. faults' \in 0..MaxFaults
    BY <1>4, FaultType DEF InsertPending
  <2>3. UNCHANGED <<answeredBefore, balance, applied, idem, frameVars, brokerVars,
                    consumerVars, processVars>>
    BY <1>4 DEF InsertPending
  <2> QED BY <2>1, <2>2, <2>3 DEF TypeOK
<1>5. CASE SaveKey(r)
  <2>1. idem' \in [Users \X Keys -> Requests \cup {Nobody}]
    <3>1. PICK key : idem' = idem \/ idem' = [idem EXCEPT ![key] = r]
      BY <1>5 DEF SaveKey
    <3> QED BY <3>1 DEF TypeOK
  <2>2. faults' \in 0..MaxFaults
    BY <1>5, FaultType DEF SaveKey
  <2>3. /\ phase' = [phase EXCEPT ![r] = "publish"]
        /\ UNCHANGED <<host, reply, original, answeredBefore, dbVars, frameVars, brokerVars,
                       consumerVars, processVars>>
    BY <1>5 DEF SaveKey, Goto
  <2> QED BY <2>1, <2>2, <2>3 DEF TypeOK
<1>6. CASE Publish(r)
  <2>1. PICK what \in {"accepted", "warned"} :
           /\ phase' = [phase EXCEPT ![r] = "done"]
           /\ host' = [host EXCEPT ![r] = Nowhere]
           /\ reply' = [reply EXCEPT ![r] = what]
           /\ original' = original
    BY <1>6 DEF Publish, Answer
  <2>2. wire' \in [Replicas -> SUBSET Requests]
    <3>1. \/ wire' = wire
          \/ wire' = [wire EXCEPT ![host[r]] = @ \cup {r}]
          \/ wire' = [wire EXCEPT ![host[r]] = @]
      BY <1>6 DEF Publish
    <3> QED BY <3>1 DEF TypeOK
  <2> QED BY <1>6, <2>1, <2>2 DEF TypeOK, Publish, NoFault
<1>7. CASE CommitV0(r)
  <2>1. PICK what \in {"completed", "failed"} :
           /\ phase' = [phase EXCEPT ![r] = "done"]
           /\ host' = [host EXCEPT ![r] = Nowhere]
           /\ reply' = [reply EXCEPT ![r] = what]
           /\ original' = original
    BY <1>7 DEF CommitV0, Answer
  <2>2. faults' \in 0..MaxFaults
    BY <1>7, FaultType DEF CommitV0
  <2>3. UNCHANGED dbVars \/ PostToBalance(r)
    BY <1>7 DEF CommitV0
  <2>4. /\ status' \in [Requests -> {"absent", "pending", "processing", "completed"}]
        /\ balance' \in [Users -> Int]
        /\ applied' \in [Requests -> Nat]
    BY <2>3, PostToBalanceType DEF TypeOK
  <2> QED BY <1>7, <2>1, <2>2, <2>4 DEF TypeOK, CommitV0
<1> QED BY <1>1, <1>2, <1>3, <1>4, <1>5, <1>6, <1>7 DEF Handler

\* The broker and Redis keep the types.
LEMMA BrokerType ==
    ASSUME TypeOK,
           \/ \E p \in Replicas, t \in Requests :
                 Route(p, t) \/ Deliver(p, t) \/ ReadAck(p, t) \/ ReadNack(p, t)
           \/ \E k \in Users \X Keys : Evict(k)
    PROVE  TypeOK'
<1> USE DEF handlerVars, dbVars, frameVars, brokerVars, consumerVars, processVars
<1>1. ASSUME NEW p \in Replicas, NEW t \in Requests, Route(p, t) PROVE TypeOK'
  BY <1>1 DEF TypeOK, NoFault, Route
<1>2. ASSUME NEW p \in Replicas, NEW t \in Requests, Deliver(p, t) PROVE TypeOK'
  BY <1>2 DEF TypeOK, NoFault, Deliver
<1>3. ASSUME NEW p \in Replicas, NEW t \in Requests, ReadAck(p, t) PROVE TypeOK'
  BY <1>3 DEF TypeOK, NoFault, ReadAck
<1>4. ASSUME NEW p \in Replicas, NEW t \in Requests, ReadNack(p, t) PROVE TypeOK'
  BY <1>4 DEF TypeOK, NoFault, ReadNack
<1>5. ASSUME NEW k \in Users \X Keys, Evict(k) PROVE TypeOK'
  BY <1>5, FaultType DEF TypeOK, Evict
<1> QED BY <1>1, <1>2, <1>3, <1>4, <1>5

\* Consumers keep the types.
LEMMA ConsumerType ==
    ASSUME TypeOK, NEW p \in Replicas, Consumer(p),
           step[p] # "receive" => current[p] \in Requests
    PROVE  TypeOK'
<1> USE DEF handlerVars, dbVars, frameVars, brokerVars, processVars
<1>1. ASSUME NEW t \in Requests, Take(p, t) PROVE TypeOK'
  BY <1>1 DEF TypeOK, NoFault, Take
<1>2. CASE MarkProcessing(p)
  <2>1. PICK next \in {"commit", "nack"} :
           /\ step' = [step EXCEPT ![p] = next]
           /\ UNCHANGED <<inbox, current>>
           /\ status' = status \/ status' = [status EXCEPT ![current[p]] = "processing"]
    BY <1>2 DEF MarkProcessing, ConsumerGoto
  <2>2. faults' \in 0..MaxFaults
    BY <1>2, FaultType DEF MarkProcessing
  <2> QED BY <1>2, <2>1, <2>2 DEF TypeOK, MarkProcessing
<1>3. CASE CommitTransaction(p)
  <2>1. PICK next \in {"ack", "nack"} :
           /\ step' = [step EXCEPT ![p] = next]
           /\ UNCHANGED <<inbox, current>>
           /\ suspect' = suspect \/ suspect' = suspect \cup {current[p]}
    BY <1>3 DEF CommitTransaction, ConsumerGoto
  <2>2. faults' \in 0..MaxFaults
    BY <1>3, FaultType DEF CommitTransaction
  <2>3. current[p] \in Requests
    BY <1>3 DEF CommitTransaction
  <2>4. /\ status' \in [Requests -> {"absent", "pending", "processing", "completed"}]
        /\ balance' \in [Users -> Int]
        /\ applied' \in [Requests -> Nat]
    <3>1. UNCHANGED dbVars \/ PostToBalance(current[p])
      BY <1>3 DEF CommitTransaction
    <3>2. CASE UNCHANGED dbVars
      BY <3>2 DEF TypeOK
    <3> QED BY <2>3, <3>1, <3>2, PostToBalanceType
  <2> QED BY <1>3, <2>1, <2>2, <2>3, <2>4 DEF TypeOK, CommitTransaction
<1>4. CASE Ack(p) \/ Nack(p)
  <2>1. Settlement(p) \subseteq Requests
    BY <1>4 DEF Settlement, Ack, Nack
  <2>2. acks' \in [Replicas -> SUBSET Requests] /\ nacks' \in [Replicas -> SUBSET Requests]
    <3>1. acks \in [Replicas -> SUBSET Requests] /\ nacks \in [Replicas -> SUBSET Requests]
      BY DEF TypeOK
    <3>2. CASE Ack(p)
      <4>1. acks' = [acks EXCEPT ![p] = @ \cup Settlement(p)] /\ nacks' = nacks
        BY <3>2 DEF Ack
      <4> QED BY <2>1, <3>1, <4>1
    <3>3. CASE Nack(p)
      <4>1. nacks' = [nacks EXCEPT ![p] = @ \cup Settlement(p)] /\ acks' = acks
        BY <3>3 DEF Nack
      <4> QED BY <2>1, <3>1, <4>1
    <3> QED BY <1>4, <3>2, <3>3
  <2>3. FinishDelivery(p)
    BY <1>4 DEF Ack, Nack
  <2>4. /\ step' \in [Replicas -> {"receive", "mark", "commit", "ack", "nack"}]
        /\ current' \in [Replicas -> Requests \cup {Nobody}]
    BY <2>3 DEF TypeOK, FinishDelivery
  <2>5. UNCHANGED <<handlerVars, dbVars, idem, wire, brokerVars, inbox, processVars, faults>>
    BY <2>3 DEF FinishDelivery, NoFault
  <2> QED BY <2>2, <2>4, <2>5 DEF TypeOK
<1> QED BY <1>1, <1>2, <1>3, <1>4 DEF Consumer

\* What a consumer has in hand are requests.
LEMMA InHandType ==
    ASSUME TypeOK, Busy, NEW p \in Replicas
    PROVE  InHand(p) \subseteq Requests /\ Working(p) \subseteq Requests
BY DEF InHand, Working, TypeOK, Busy

\* Connections, starts, stops and failures of processes keep the types.
LEMMA ProcessType ==
    ASSUME TypeOK, Busy, NEW p \in Replicas,
           \/ ClientDrops(p) \/ BrokerDrops(p) \/ Crash(p) \/ Terminate(p)
           \/ CloseQueue(p) \/ Exit(p) \/ Restart(p)
    PROVE  TypeOK'
<1> USE DEF handlerVars, dbVars, frameVars, brokerVars, consumerVars, processVars
<1>1. faults' \in 0..MaxFaults
  BY FaultType DEF ClientDrops, BrokerDrops, Crash, Terminate, CloseQueue, Exit, Restart
<1>2. CASE CloseSession(p) /\ process' \in [Replicas -> {"up", "draining", "closing", "down"}]
  BY <1>1, <1>2, InHandType DEF TypeOK, CloseSession
<1>3. CASE BrokerDrops(p)
  BY <1>2, <1>3 DEF TypeOK, BrokerDrops
<1>4. CASE ClientDrops(p)
  BY <1>1, <1>4, InHandType DEF TypeOK, ClientDrops
<1>5. CASE Die(p)
  <2>1. suspect' \subseteq Requests
    BY <1>5 DEF TypeOK, Die, Busy
  <2>2. /\ phase' \in [Requests -> {"new", "user", "key", "insert", "save", "publish",
                                    "v0tx", "done", "gone"}]
        /\ host' \in [Requests -> Replicas \cup {Nowhere}]
    BY <1>5 DEF TypeOK, Die
  <2> QED BY <1>1, <1>5, <2>1, <2>2 DEF TypeOK, Die
<1>6. CASE Crash(p) \/ Exit(p)
  BY <1>5, <1>6 DEF Crash, Exit
<1>7. CASE Terminate(p)
  BY <1>1, <1>7 DEF TypeOK, Terminate
<1>8. CASE CloseQueue(p)
  <2>1. process' \in [Replicas -> {"up", "draining", "closing", "down"}]
    BY <1>8 DEF TypeOK, CloseQueue
  <2>2. CASE ~CloseSession(p)
    BY <1>1, <1>8, <2>1, <2>2 DEF TypeOK, CloseQueue
  <2> QED BY <1>2, <2>1, <2>2
<1>9. CASE Restart(p)
  BY <1>1, <1>9 DEF TypeOK, Restart
<1> QED BY <1>3, <1>4, <1>6, <1>7, <1>8, <1>9

\* What does not touch the handlers.
LEMMA AwayFromHandlers ==
    ASSUME [Next]_vars, \A r \in Requests : ~Handler(r), \A p \in Replicas : ~Die(p)
    PROVE  UNCHANGED handlerVars
<1>1. ASSUME NEW p \in Replicas,
             \/ Consumer(p) \/ ClientDrops(p) \/ BrokerDrops(p) \/ Terminate(p)
             \/ CloseQueue(p) \/ Restart(p)
      PROVE  UNCHANGED handlerVars
  BY <1>1 DEF Consumer, Take, MarkProcessing, CommitTransaction, Ack, Nack, FinishDelivery,
              ClientDrops, BrokerDrops, CloseSession, Terminate, CloseQueue, Restart
<1>2. ASSUME NEW p \in Replicas, NEW t \in Requests,
             Route(p, t) \/ Deliver(p, t) \/ ReadAck(p, t) \/ ReadNack(p, t)
      PROVE  UNCHANGED handlerVars
  BY <1>2 DEF Route, Deliver, ReadAck, ReadNack
<1>3. ASSUME NEW k \in Users \X Keys, Evict(k) PROVE UNCHANGED handlerVars
  BY <1>3 DEF Evict
<1>4. CASE UNCHANGED vars
  BY <1>4 DEF vars
<1> QED BY <1>1, <1>2, <1>3, <1>4 DEF Next, Crash, Exit

\* What handlers do not touch.
LEMMA AwayFromConsumers ==
    ASSUME NEW r \in Requests, Handler(r)
    PROVE  UNCHANGED <<acks, nacks, brokerVars, consumerVars, processVars>>
BY DEF Handler, Receive, ValidateUser, CheckKey, InsertPending, SaveKey, Publish, CommitV0,
       frameVars

\* Only handlers of keyed requests reach the steps that use the key.
LEMMA KeyedNext ==
    ASSUME TypeOK, Keyed, [Next]_vars
    PROVE  Keyed'
<1>1. ASSUME NEW r \in Requests, Handler(r) PROVE Keyed'
  <2>1. PICK next : /\ phase' = [phase EXCEPT ![r] = next]
                    /\ next \in {"key", "save"} => HasKey(r)
    BY <1>1 DEF Handler, Receive, ValidateUser, CheckKey, InsertPending, SaveKey, Publish,
                CommitV0, Goto, Answer, AnswerDuplicate
  <2> QED BY <2>1 DEF Keyed, TypeOK, HasKey
<1>2. ASSUME NEW p \in Replicas, Die(p) PROVE Keyed'
  BY <1>2 DEF Die, Keyed, TypeOK, HasKey
<1>3. CASE UNCHANGED handlerVars
  BY <1>3 DEF Keyed, HasKey, handlerVars
<1> QED BY <1>1, <1>2, <1>3, AwayFromHandlers

\* A consumer has a current message exactly between its deliveries.
LEMMA BusyNext ==
    ASSUME TypeOK, Busy, [Next]_vars
    PROVE  Busy'
<1>1. ASSUME NEW p \in Replicas, Consumer(p) PROVE Busy'
  <2>1. PICK next, t :
           /\ step' = [step EXCEPT ![p] = next]
           /\ current' = [current EXCEPT ![p] = t]
           /\ next = "receive" <=> t = Nobody
    <3>1. ASSUME NEW t \in Requests, Take(p, t) PROVE t # Nobody
      BY NobodyAssumption
    <3>2. ASSUME NEW t \in Requests, Take(p, t)
          PROVE  step' = [step EXCEPT ![p] = "mark"] /\ current' = [current EXCEPT ![p] = t]
      BY <3>2 DEF Take
    <3>3. CASE MarkProcessing(p) \/ CommitTransaction(p)
      <4>1. PICK next \in {"commit", "ack", "nack"} :
              step' = [step EXCEPT ![p] = next] /\ current' = current
        BY <3>3 DEF MarkProcessing, CommitTransaction, ConsumerGoto
      <4>2. current = [current EXCEPT ![p] = current[p]] /\ current[p] # Nobody
        BY <3>3 DEF MarkProcessing, CommitTransaction, TypeOK, Busy
      <4> QED BY <4>1, <4>2
    <3>4. CASE Ack(p) \/ Nack(p)
      BY <3>4 DEF Ack, Nack, FinishDelivery
    <3> QED BY <1>1, <3>1, <3>2, <3>3, <3>4 DEF Consumer
  <2> QED BY <2>1 DEF Busy, TypeOK
<1>2. ASSUME NEW p \in Replicas, Crash(p) \/ Exit(p) PROVE Busy'
  <2>1. /\ step' = [step EXCEPT ![p] = "receive"]
        /\ current' = [current EXCEPT ![p] = Nobody]
    BY <1>2 DEF Crash, Exit, Die
  <2> QED BY <2>1 DEF Busy, TypeOK
<1>3. CASE UNCHANGED <<step, current>>
  BY <1>3 DEF Busy
<1>4. ASSUME NEW p \in Replicas,
             ClientDrops(p) \/ BrokerDrops(p) \/ Terminate(p) \/ CloseQueue(p) \/ Restart(p)
      PROVE  UNCHANGED <<step, current>>
  BY <1>4 DEF ClientDrops, BrokerDrops, CloseSession, Terminate, CloseQueue, Restart, consumerVars
<1>5. ASSUME NEW p \in Replicas, NEW t \in Requests,
             Route(p, t) \/ Deliver(p, t) \/ ReadAck(p, t) \/ ReadNack(p, t)
      PROVE  UNCHANGED <<step, current>>
  BY <1>5 DEF Route, Deliver, ReadAck, ReadNack, consumerVars
<1>6. ASSUME NEW k \in Users \X Keys, Evict(k) PROVE UNCHANGED <<step, current>>
  BY <1>6 DEF Evict, consumerVars
<1>7. ASSUME NEW r \in Requests, Handler(r) PROVE UNCHANGED <<step, current>>
  BY <1>7, AwayFromConsumers DEF consumerVars
<1>8. CASE UNCHANGED vars
  BY <1>3, <1>8 DEF vars, consumerVars
<1> QED BY <1>1, <1>2, <1>3, <1>4, <1>5, <1>6, <1>7, <1>8 DEF Next

\* A process that went down has no channel and no work until its restart.
LEMMA GoneNext ==
    ASSUME TypeOK, Busy, Gone, [Next]_vars
    PROVE  Gone'
<1>1. ASSUME NEW p \in Replicas, NEW t \in Requests, Take(p, t) PROVE Gone'
  BY <1>1 DEF Take, Gone, TypeOK, processVars
<1>2. ASSUME NEW p \in Replicas,
             MarkProcessing(p) \/ CommitTransaction(p) \/ Ack(p) \/ Nack(p)
      PROVE  Gone'
  <2>1. /\ current' = current \/ current' = [current EXCEPT ![p] = Nobody]
        /\ UNCHANGED <<inbox, process, channel>>
    BY <1>2 DEF MarkProcessing, CommitTransaction, ConsumerGoto, Ack, Nack, FinishDelivery,
                processVars
  <2> QED BY <2>1 DEF Gone, TypeOK
<1>3. ASSUME NEW p \in Replicas, Crash(p) \/ Exit(p) PROVE Gone'
  BY <1>3 DEF Crash, Exit, Die, Gone, TypeOK
<1>4. ASSUME NEW p \in Replicas,
             ClientDrops(p) \/ BrokerDrops(p) \/ Terminate(p) \/ CloseQueue(p) \/ Restart(p)
      PROVE  Gone'
  <2>1. /\ current' = current
        /\ \A q \in Replicas : inbox'[q] \subseteq inbox[q]
        /\ process' = process \/ \E v \in {"up", "draining", "closing"} :
                                   process' = [process EXCEPT ![p] = v]
        /\ \/ channel' = [channel EXCEPT ![p] = FALSE]
           \/ channel' = channel
           \/ channel' = [channel EXCEPT ![p] = TRUE] /\ process' = [process EXCEPT ![p] = "up"]
    BY <1>4 DEF ClientDrops, BrokerDrops, CloseSession, Terminate, CloseQueue, Restart,
                consumerVars, processVars, TypeOK
  <2> QED BY <2>1 DEF Gone, TypeOK
<1>5. CASE UNCHANGED <<consumerVars, processVars>>
  BY <1>5 DEF Gone, consumerVars, processVars
<1>6. ASSUME NEW p \in Replicas, NEW t \in Requests, Deliver(p, t) PROVE Gone'
  BY <1>6 DEF Deliver, Gone, TypeOK, processVars
<1>7. ASSUME NEW p \in Replicas, NEW t \in Requests,
             Route(p, t) \/ ReadAck(p, t) \/ ReadNack(p, t)
      PROVE  UNCHANGED <<consumerVars, processVars>>
  BY <1>7 DEF Route, ReadAck, ReadNack
<1>8. ASSUME NEW k \in Users \X Keys, Evict(k) PROVE UNCHANGED <<consumerVars, processVars>>
  BY <1>8 DEF Evict
<1>9. ASSUME NEW r \in Requests, Handler(r) PROVE UNCHANGED <<consumerVars, processVars>>
  BY <1>9, AwayFromConsumers
<1>10. CASE UNCHANGED vars
  BY <1>5, <1>10 DEF vars
<1> QED BY <1>1, <1>2, <1>3, <1>4, <1>5, <1>6, <1>7, <1>8, <1>9, <1>10 DEF Next, Consumer

\* A request keeps its replica while its handler makes calls.
LEMMA HostedNext ==
    ASSUME TypeOK, Hosted, [Next]_vars
    PROVE  Hosted'
<1>1. ASSUME NEW r \in Requests, Handler(r) PROVE Hosted'
  <2>1. PICK next, p :
           /\ phase' = [phase EXCEPT ![r] = next]
           /\ host' = [host EXCEPT ![r] = p]
           /\ p = Nowhere <=> next \in {"new", "done", "gone"}
    <3>1. ASSUME NEW p \in Replicas, Receive(r, p)
          PROVE  /\ phase' = [phase EXCEPT ![r] = "user"]
                 /\ host' = [host EXCEPT ![r] = p]
                 /\ p # Nowhere
      BY <3>1, NobodyAssumption DEF Receive
    <3>2. ASSUME NEW what, Answer(r, what) \/ AnswerDuplicate(r)
          PROVE  /\ phase' = [phase EXCEPT ![r] = "done"]
                 /\ host' = [host EXCEPT ![r] = Nowhere]
      BY <3>2 DEF Answer, AnswerDuplicate
    <3>3. ASSUME NEW next \in {"v0tx", "key", "insert", "save", "publish"}, Goto(r, next),
                 phase[r] \in {"user", "key", "insert", "save"}
          PROVE  /\ phase' = [phase EXCEPT ![r] = next]
                 /\ host' = [host EXCEPT ![r] = host[r]]
                 /\ host[r] # Nowhere
      BY <3>3 DEF Goto, Hosted, TypeOK
    <3> QED BY <1>1, <3>1, <3>2, <3>3
            DEF Handler, ValidateUser, CheckKey, InsertPending, SaveKey, Publish, CommitV0
  <2> QED BY <2>1 DEF Hosted, TypeOK
<1>2. ASSUME NEW p \in Replicas, Die(p) PROVE Hosted'
  BY <1>2, NobodyAssumption DEF Die, Hosted, TypeOK
<1>3. CASE UNCHANGED handlerVars
  BY <1>3 DEF Hosted, handlerVars
<1> QED BY <1>1, <1>2, <1>3, AwayFromHandlers

\* The first half of the invariant holds at the start.
LEMMA TInvInit == Init => TInv
<1>1. Init => Keyed /\ Busy /\ Gone /\ Hosted
  BY DEF Init, Keyed, Busy, Gone, Hosted
<1> QED BY <1>1, InitType DEF TInv

\* The first half of the invariant is inductive by itself.
LEMMA TInvNext ==
    ASSUME TInv, [Next]_vars
    PROVE  TInv'
<1> USE DEF TInv
<1>1. TypeOK'
  <2>1. CASE UNCHANGED vars
    BY <2>1 DEF TypeOK, vars, handlerVars, dbVars, frameVars, brokerVars, consumerVars,
                processVars
  <2>2. ASSUME NEW p \in Replicas, Consumer(p) PROVE TypeOK'
    BY <2>2, ConsumerType DEF Busy, TypeOK
  <2> QED BY <2>1, <2>2, HandlerType, BrokerType, ProcessType DEF Next
<1> QED BY <1>1, KeyedNext, BusyNext, GoneNext, HostedNext

\* Every reachable state has the types the program's state has.
THEOREM TypeCorrect == Spec => []TypeOK
<1>1. Spec => []TInv
  BY TInvInit, TInvNext, PTL DEF Spec
<1> QED BY <1>1, PTL DEF TInv

-----------------------------------------------------------------------------
(* Messages: every step preserves MInv. *)

\* The second half holds at the start, with no message anywhere.
LEMMA MInvInit == Init => MInv
<1> SUFFICES ASSUME Init PROVE MInv
  OBVIOUS
<1>1. OnePlace BY DEF Init, OnePlace
<1>2. NotYet BY DEF Init, NotYet
<1>3. Held BY DEF Init, Held
<1>4. Clean BY DEF Init, Clean, Undoubted, InHand, Working, Posting
<1>5. Rows BY DEF Init, Rows
<1>6. AtLeastOnce /\ SettledExactlyOnce BY DEF Init, AtLeastOnce, SettledExactlyOnce
<1> QED BY <1>1, <1>2, <1>3, <1>4, <1>5, <1>6 DEF MInv

\* What a transaction in nobody's doubt is like, when p holds its delivery.
LEMMA HeldByOne ==
    ASSUME IInv, NEW t \in Requests \ suspect, NEW p \in Replicas, t \in unacked[p]
    PROVE  /\ t \notin ready
           /\ \A q \in Replicas : q # p => t \notin unacked[q] \cup InHand(q) /\ ~Posting(q, t)
           /\ ~Posting(p, t) => applied[t] = 0
<1>1. Undoubted(t) /\ OnePlace
  BY DEF IInv, MInv, Clean
<1>2. \A q \in Replicas : q # p => t \notin unacked[q]
  BY <1>1 DEF OnePlace
<1>3. \A q \in Replicas : Posting(q, t) => t \in unacked[q]
  BY <1>1 DEF OnePlace, Undoubted, Posting, InHand, Working
<1> QED BY <1>1, <1>2, <1>3 DEF OnePlace, Undoubted

\* A step that touches nothing the invariant speaks of.
LEMMA UnmovedStep ==
    ASSUME IInv,
           UNCHANGED <<phase, status, applied, frameVars, brokerVars, consumerVars, channel>>
    PROVE  MInv'
<1> USE DEF IInv, MInv, frameVars, brokerVars, consumerVars
<1>1. OnePlace' BY DEF OnePlace
<1>2. NotYet' BY DEF NotYet
<1>3. Held' BY DEF Held
<1>4. Clean' BY DEF Clean, Undoubted, InHand, Working, Posting
<1>5. Rows' BY DEF Rows
<1>6. AtLeastOnce' BY DEF AtLeastOnce
<1>7. SettledExactlyOnce' BY DEF SettledExactlyOnce, InFlight
<1> QED BY <1>1, <1>2, <1>3, <1>4, <1>5, <1>6, <1>7

\* A handler step that moves no message and no money.
LEMMA PhaseStep ==
    ASSUME IInv, NEW r \in Requests, NEW next,
           phase[r] # "done",
           phase' = [phase EXCEPT ![r] = next],
           UNCHANGED <<status, applied, frameVars, brokerVars, consumerVars, channel>>,
           next \in {"user", "key", "insert", "v0tx"} => status[r] = "absent",
           next \in {"save", "publish"} => status[r] # "absent",
           next # "new"
    PROVE  MInv'
<1> USE DEF IInv, TInv, MInv, frameVars, brokerVars, consumerVars
<1>1. OnePlace' BY DEF OnePlace
<1>2. NotYet' BY DEF NotYet, TypeOK
<1>3. Held' BY DEF Held
<1>4. Clean' BY DEF Clean, Undoubted, InHand, Working, Posting
<1>5. Rows' BY DEF Rows, TypeOK
<1>6. AtLeastOnce' BY DEF AtLeastOnce
<1>7. SettledExactlyOnce' BY DEF SettledExactlyOnce, InFlight
<1> QED BY <1>1, <1>2, <1>3, <1>4, <1>5, <1>6, <1>7

\* What was not published is with nobody.
LEMMA NowhereYet ==
    ASSUME IInv, NEW t \in Requests, t \notin enqueued
    PROVE  /\ t \notin ready
           /\ \A p \in Replicas :
                 /\ current[p] # t
                 /\ t \notin unacked[p] \cup acks[p] \cup nacks[p] \cup inbox[p] \cup InHand(p)
                 /\ ~Posting(p, t)
<1> USE DEF IInv, TInv, MInv
<1>1. t \notin ready /\ t # Nobody
  BY NobodyAssumption DEF OnePlace
<1>2. \A p \in Replicas : /\ t \notin unacked[p] \cup acks[p] \cup nacks[p] \cup inbox[p]
                          /\ current[p] # t
  BY <1>1 DEF OnePlace, Held
<1> QED BY <1>1, <1>2 DEF InHand, Working, Posting

\* The insert creates a row and nothing else.
LEMMA InsertStep ==
    ASSUME IInv, NEW r \in Requests, InsertPending(r)
    PROVE  MInv'
<1> USE DEF IInv, TInv, MInv
<1>1. PICK next \in {"save", "publish", "done"} :
         /\ phase' = [phase EXCEPT ![r] = next]
         /\ \/ status' = [status EXCEPT ![r] = "pending"]
            \/ status' = status /\ next = "done"
         /\ UNCHANGED <<applied, frameVars, brokerVars, consumerVars, channel>>
         /\ phase[r] = "insert"
  BY DEF InsertPending, Goto, Answer, processVars
<1>2. r \notin enqueued /\ applied[r] = 0 /\ \A p \in Replicas : r \notin wire[p]
  BY <1>1 DEF NotYet
<1>3. \A p \in Replicas : r \notin unacked[p] \cup InHand(p) /\ ~Posting(p, r)
  BY <1>2, NowhereYet
<1> USE DEF frameVars, brokerVars, consumerVars
<1>4. OnePlace' BY <1>1 DEF OnePlace
<1>5. NotYet' BY <1>1, <1>2 DEF NotYet, TypeOK
<1>6. Held' BY <1>1 DEF Held
<1>7. Clean'
  <2>1. \A t \in Requests \ {r} : status'[t] = status[t]
    BY <1>1 DEF TypeOK
  <2>2. \A p \in Replicas, t \in Requests : (t \in InHand(p))' = (t \in InHand(p))
                                            /\ Posting(p, t)' = Posting(p, t)
    BY <1>1 DEF InHand, Working, Posting
  <2>3. ASSUME NEW t \in Requests \ suspect', t # r PROVE Undoubted(t)'
    BY <1>1, <2>1, <2>2, <2>3 DEF Clean, Undoubted
  <2>4. Undoubted(r)'
    BY <1>1, <1>2, <1>3, <2>2 DEF Undoubted
  <2> QED BY <2>3, <2>4 DEF Clean
<1>8. Rows' BY <1>1, <1>2 DEF Rows, TypeOK
<1>9. AtLeastOnce' BY <1>1 DEF AtLeastOnce
<1>10. SettledExactlyOnce' BY <1>1, <1>2 DEF SettledExactlyOnce, InFlight, TypeOK
<1> QED BY <1>4, <1>5, <1>6, <1>7, <1>8, <1>9, <1>10

\* A publish puts on the wire a message that was nowhere before.
LEMMA PublishStep ==
    ASSUME IInv, NEW r \in Requests, Publish(r)
    PROVE  MInv'
<1> USE DEF IInv, TInv, MInv
<1>1. /\ phase' = [phase EXCEPT ![r] = "done"]
      /\ UNCHANGED <<status, applied, acks, nacks, brokerVars, consumerVars, channel>>
      /\ phase[r] = "publish"
  BY DEF Publish, Answer, dbVars, processVars
<1>2. /\ r \notin enqueued /\ applied[r] = 0 /\ status[r] # "absent"
      /\ \A p \in Replicas : r \notin wire[p]
  BY <1>1 DEF NotYet, Rows
<1>3. \A p \in Replicas : \/ wire'[p] = wire[p]
                          \/ wire'[p] = wire[p] \cup {r} /\ p = host[r]
  BY DEF Publish, TypeOK
<1> USE DEF brokerVars, consumerVars
<1>4. OnePlace' BY <1>1, <1>2, <1>3 DEF OnePlace
<1>5. NotYet'
  <2> SUFFICES ASSUME NEW t \in Requests
               PROVE  /\ phase'[t] # "done" =>
                            /\ applied[t] = 0
                            /\ t \notin enqueued
                            /\ \A p \in Replicas : t \notin wire'[p]
                      /\ \A p \in Replicas : t \in wire'[p] => applied[t] = 0
                      /\ applied[t] = 0 => status[t] # "completed"
    BY <1>1 DEF NotYet
  <2>1. CASE t = r
    <3>1. phase'[r] = "done" BY <1>1 DEF TypeOK
    <3>2. applied[r] = 0 => status[r] # "completed" BY DEF NotYet
    <3> QED BY <2>1, <3>1, <3>2, <1>2
  <2>2. CASE t # r
    <3>1. phase'[t] = phase[t] BY <2>2, <1>1 DEF TypeOK
    <3>2. \A p \in Replicas : t \in wire'[p] => t \in wire[p] BY <2>2, <1>3
    <3> QED BY <3>1, <3>2 DEF NotYet
  <2> QED BY <2>1, <2>2
<1>6. Held' BY <1>1 DEF Held
<1>7. Clean' BY <1>1 DEF Clean, Undoubted, InHand, Working, Posting
<1>8. Rows'
  <2>1. \A t \in Requests : phase'[t] = IF t = r THEN "done" ELSE phase[t]
    BY <1>1 DEF TypeOK
  <2>2. \A t \in Requests, p \in Replicas : t \in wire'[p] => t \in wire[p] \/ t = r
    BY <1>3
  <2> QED BY <1>1, <1>2, <2>1, <2>2 DEF Rows
<1>9. AtLeastOnce' BY <1>1 DEF AtLeastOnce
<1>10. SettledExactlyOnce'
  <2>1. \A t \in enqueued : InFlight(t)' <=> InFlight(t)
    BY <1>1, <1>2, <1>3 DEF InFlight
  <2> QED BY <1>1, <2>1 DEF SettledExactlyOnce
<1> QED BY <1>4, <1>5, <1>6, <1>7, <1>8, <1>9, <1>10

\* Posting a transaction that no consumer has and no queue holds.
LEMMA CommitV0Step ==
    ASSUME IInv, NEW r \in Requests, CommitV0(r)
    PROVE  MInv'
<1> USE DEF IInv, TInv, MInv
<1>1. /\ phase' = [phase EXCEPT ![r] = "done"]
      /\ \/ /\ status' = [status EXCEPT ![r] = "completed"]
            /\ applied' = [applied EXCEPT ![r] = @ + 1]
         \/ UNCHANGED <<status, applied>>
      /\ UNCHANGED <<frameVars, brokerVars, consumerVars, channel>>
      /\ phase[r] = "v0tx"
  BY DEF CommitV0, Answer, PostToBalance, dbVars, processVars
<1>2. r \notin enqueued /\ applied[r] = 0 /\ \A p \in Replicas : r \notin wire[p]
  BY <1>1 DEF NotYet
<1>3. /\ \A p \in Replicas : r \notin unacked[p] \cup InHand(p) /\ ~Posting(p, r)
      /\ r \notin ready
  BY <1>2, NowhereYet
<1>4. /\ \A t \in Requests \ {r} : status'[t] = status[t] /\ applied'[t] = applied[t]
      /\ applied'[r] \in {0, 1}
      /\ applied'[r] = 0 => status'[r] = status[r]
      /\ status'[r] = status[r] \/ status'[r] = "completed"
      /\ \A t \in Requests : applied[t] >= 1 => applied'[t] >= 1
  BY <1>1, <1>2 DEF TypeOK
<1> USE DEF frameVars, brokerVars, consumerVars
<1>5. OnePlace' BY <1>1 DEF OnePlace
<1>6. NotYet' BY <1>1, <1>2, <1>4 DEF NotYet, TypeOK
<1>7. Held'
  <2>1. \A p \in Replicas : /\ step[p] = "ack" => applied'[current[p]] >= 1
                            /\ \A t \in acks[p] : applied'[t] >= 1
    BY <1>4 DEF Held, Busy, TypeOK
  <2> QED BY <1>1, <2>1 DEF Held
<1>8. Clean'
  <2>1. \A p \in Replicas, t \in Requests : (t \in InHand(p))' = (t \in InHand(p))
                                            /\ Posting(p, t)' = Posting(p, t)
    BY <1>1 DEF InHand, Working, Posting
  <2>2. ASSUME NEW t \in Requests \ suspect', t # r PROVE Undoubted(t)'
    BY <1>1, <1>4, <2>1, <2>2 DEF Clean, Undoubted
  <2>3. Undoubted(r)'
    BY <1>1, <1>3, <1>4, <2>1 DEF Undoubted
  <2> QED BY <2>2, <2>3 DEF Clean
<1>9. Rows' BY <1>1, <1>2, <1>4 DEF Rows, TypeOK
<1>10. AtLeastOnce' BY <1>1, <1>2, <1>4 DEF AtLeastOnce, TypeOK
<1>11. SettledExactlyOnce' BY <1>1, <1>2, <1>4 DEF SettledExactlyOnce, InFlight, TypeOK
<1> QED BY <1>5, <1>6, <1>7, <1>8, <1>9, <1>10, <1>11

\* Handlers preserve the second half.
LEMMA HandlerStep ==
    ASSUME IInv, NEW r \in Requests, Handler(r)
    PROVE  MInv'
<1>1. ASSUME \/ \E p \in Replicas : Receive(r, p)
             \/ ValidateUser(r) \/ CheckKey(r) \/ SaveKey(r)
      PROVE  MInv'
  <2>1. PICK next :
          /\ phase[r] \in {"new", "user", "key", "save"}
          /\ phase' = [phase EXCEPT ![r] = next]
          /\ next \in {"user", "key", "insert", "v0tx"} => phase[r] \in {"new", "user", "key"}
          /\ next \in {"save", "publish"} => phase[r] = "save"
          /\ next # "new"
    BY <1>1 DEF Receive, ValidateUser, CheckKey, SaveKey, Goto, Answer, AnswerDuplicate
  <2>2. UNCHANGED <<status, applied, frameVars, brokerVars, consumerVars, channel>>
    BY <1>1 DEF Receive, ValidateUser, CheckKey, SaveKey, dbVars, processVars
  <2>3. /\ phase[r] \in {"new", "user", "key"} => status[r] = "absent"
        /\ phase[r] = "save" => status[r] # "absent"
    BY DEF IInv, MInv, Rows
  <2> QED BY <2>1, <2>2, <2>3, PhaseStep
<1> QED BY <1>1, InsertStep, PublishStep, CommitV0Step DEF Handler

\* A message that reaches the broker moves from the wire to the queue, or is dropped unaccepted.
LEMMA RouteStep ==
    ASSUME IInv, NEW p \in Replicas, NEW t \in Requests, Route(p, t)
    PROVE  MInv'
<1> USE DEF IInv, TInv, MInv
<1>1. /\ t \in wire[p]
      /\ wire' = [wire EXCEPT ![p] = @ \ {t}]
      /\ \/ ready' = ready \cup {t} /\ enqueued' = enqueued \cup {t}
         \/ UNCHANGED <<ready, enqueued>>
      /\ UNCHANGED <<phase, status, applied, acks, nacks, unacked, session, suspect, inbox,
                     step, current, channel>>
  BY DEF Route, handlerVars, dbVars, consumerVars, processVars
<1>2. /\ t \notin enqueued /\ applied[t] = 0 /\ status[t] # "absent" /\ phase[t] = "done"
      /\ \A q \in Replicas : q # p => t \notin wire[q]
  BY <1>1 DEF OnePlace, NotYet, Rows
<1>3. \A q \in Replicas : t \notin unacked[q]
  BY <1>2, NowhereYet
<1>4. \A q \in Replicas : wire'[q] = IF q = p THEN wire[q] \ {t} ELSE wire[q]
  BY <1>1 DEF TypeOK
<1>5. OnePlace'
  <2>1. ready' \subseteq enqueued' /\ enqueued' \subseteq enqueued \cup {t}
    BY <1>1 DEF OnePlace
  <2>2. ASSUME NEW q \in Replicas
        PROVE  /\ unacked'[q] \subseteq enqueued' /\ unacked'[q] \cap ready' = {}
               /\ wire'[q] \cap enqueued' = {} /\ acks'[q] \cup nacks'[q] \subseteq unacked'[q]
    <3>1. /\ unacked[q] \subseteq enqueued /\ unacked[q] \cap ready = {}
          /\ wire[q] \cap enqueued = {} /\ acks[q] \cup nacks[q] \subseteq unacked[q]
      BY DEF OnePlace
    <3>2. t \notin wire'[q] /\ wire'[q] \subseteq wire[q]
      BY <1>2, <1>4
    <3> QED BY <1>1, <1>3, <2>1, <3>1, <3>2
  <2>3. ASSUME NEW q \in Replicas, NEW o \in Replicas, q # o
        PROVE  unacked'[q] \cap unacked'[o] = {} /\ wire'[q] \cap wire'[o] = {}
    BY <1>1, <1>4, <2>3 DEF OnePlace
  <2> QED BY <2>1, <2>2, <2>3 DEF OnePlace
<1>6. NotYet' BY <1>1, <1>2, <1>4 DEF NotYet
<1>7. Held'
  <2>1. enqueued \subseteq enqueued'
    BY <1>1
  <2> QED BY <1>1, <2>1 DEF Held
<1>8. Clean' BY <1>1, <1>2 DEF Clean, Undoubted, InHand, Working, Posting
<1>9. Rows' BY <1>1, <1>2, <1>4 DEF Rows
<1>10. AtLeastOnce' BY <1>1 DEF AtLeastOnce
<1>11. SettledExactlyOnce'
  <2>1. \A s \in enqueued : InFlight(s) => InFlight(s)'
    BY <1>1, <1>2, <1>4 DEF InFlight
  <2>2. t \in enqueued' => InFlight(t)'
    BY <1>1, <1>2 DEF InFlight
  <2> QED BY <1>1, <2>1, <2>2 DEF SettledExactlyOnce
<1> QED BY <1>5, <1>6, <1>7, <1>8, <1>9, <1>10, <1>11

\* A delivery moves a message from the queue to one replica.
LEMMA DeliverStep ==
    ASSUME IInv, NEW p \in Replicas, NEW t \in Requests, Deliver(p, t)
    PROVE  MInv'
<1> USE DEF IInv, TInv, MInv
<1>1. /\ t \in ready /\ session[p]
      /\ ready' = ready \ {t}
      /\ unacked' = [unacked EXCEPT ![p] = @ \cup {t}]
      /\ inbox' = [inbox EXCEPT ![p] = IF channel[p] THEN @ \cup {t} ELSE @]
      /\ UNCHANGED <<phase, status, applied, frameVars, session, enqueued, suspect, step,
                     current, channel>>
  BY DEF Deliver, handlerVars, dbVars, processVars
<1>2. t \in enqueued /\ \A q \in Replicas : t \notin unacked[q] \cup acks[q] \cup nacks[q]
  BY <1>1 DEF OnePlace
<1>3. \A q \in Replicas : /\ unacked'[q] = IF q = p THEN unacked[q] \cup {t} ELSE unacked[q]
                          /\ inbox'[q] = IF q = p /\ channel[q] THEN inbox[q] \cup {t}
                                         ELSE inbox[q]
  BY <1>1 DEF TypeOK
<1>4. channel[p] => current[p] # t
  BY <1>1, <1>2, NobodyAssumption DEF Held
<1>5. OnePlace' BY <1>1, <1>2, <1>3 DEF OnePlace, frameVars
<1>6. NotYet' BY <1>1 DEF NotYet, frameVars
<1>7. Held'
  <2> SUFFICES ASSUME NEW q \in Replicas
               PROVE  /\ inbox'[q] \subseteq enqueued
                      /\ current[q] \notin inbox'[q]
                      /\ inbox'[q] \cap (acks[q] \cup nacks[q]) = {}
                      /\ ~session[q] => unacked'[q] = {}
                      /\ channel[q] /\ session[q] => inbox'[q] \subseteq unacked'[q]
                      /\ unacked[q] \subseteq unacked'[q]
    BY <1>1 DEF Held, frameVars
  <2>1. CASE q # p \/ ~channel[q]
    BY <1>1, <1>3, <2>1 DEF Held
  <2>2. CASE q = p /\ channel[q]
    <3>1. /\ inbox[p] \subseteq enqueued /\ current[p] \notin inbox[p]
          /\ inbox[p] \cap (acks[p] \cup nacks[p]) = {}
          /\ inbox[p] \subseteq unacked[p]
      BY <1>1, <2>2 DEF Held
    <3>2. /\ inbox'[p] = inbox[p] \cup {t} /\ unacked'[p] = unacked[p] \cup {t}
          /\ current[p] # t
      BY <1>3, <1>4, <2>2
    <3> QED BY <1>1, <1>2, <2>2, <3>1, <3>2
  <2> QED BY <2>1, <2>2
<1>8. Clean'
  <2>1. \A q \in Replicas : InHand(q)' = IF q = p /\ channel[q] THEN InHand(q) \cup {t}
                                         ELSE InHand(q)
    BY <1>1, <1>3 DEF InHand, Working
  <2>2. \A q \in Replicas, s \in Requests : Posting(q, s)' = Posting(q, s)
    BY <1>1 DEF Posting, frameVars
  <2>3. ASSUME NEW s \in Requests \ suspect', s # t PROVE Undoubted(s)'
    BY <1>1, <1>3, <2>1, <2>2, <2>3 DEF Clean, Undoubted
  <2>4. ASSUME t \notin suspect PROVE Undoubted(t)'
    <3>1. Undoubted(t) /\ applied[t] = 0
      BY <1>1, <2>4 DEF Clean, Undoubted
    <3>2. \A q \in Replicas : t \notin InHand(q) /\ ~Posting(q, t)
      BY <1>2, <3>1 DEF Undoubted, Posting, InHand, Working
    <3>3. \A q \in Replicas : t \in InHand(q)' => q = p /\ channel[q] /\ t \in unacked'[q]
      BY <1>3, <2>1, <3>2
    <3>4. \A q \in Replicas : ~Posting(q, t)'
      BY <2>2, <3>2
    <3> QED BY <1>1, <3>1, <3>3, <3>4 DEF Undoubted
  <2> QED BY <1>1, <2>3, <2>4 DEF Clean
<1>9. Rows' BY <1>1 DEF Rows, frameVars
<1>10. AtLeastOnce' BY <1>1, <1>3 DEF AtLeastOnce
<1>11. SettledExactlyOnce'
  <2>1. \A s \in enqueued : InFlight(s) => InFlight(s)'
    BY <1>1, <1>3 DEF InFlight, frameVars
  <2> QED BY <1>1, <2>1 DEF SettledExactlyOnce
<1> QED BY <1>5, <1>6, <1>7, <1>8, <1>9, <1>10, <1>11

\* The broker reads an acknowledgement: what it forgets is posted.
LEMMA ReadAckStep ==
    ASSUME IInv, NEW p \in Replicas, NEW t \in Requests, ReadAck(p, t)
    PROVE  MInv'
<1> USE DEF IInv, TInv, MInv
<1>1. /\ t \in acks[p]
      /\ acks' = [acks EXCEPT ![p] = @ \ {t}]
      /\ unacked' = [unacked EXCEPT ![p] = @ \ {t}]
      /\ UNCHANGED <<phase, status, applied, wire, nacks, ready, session, enqueued, suspect,
                     consumerVars, channel>>
  BY DEF ReadAck, handlerVars, dbVars, processVars
<1>2. \A q \in Replicas : /\ acks'[q] = IF q = p THEN acks[q] \ {t} ELSE acks[q]
                          /\ unacked'[q] = IF q = p THEN unacked[q] \ {t} ELSE unacked[q]
  BY <1>1 DEF TypeOK
<1>3. t \in unacked[p] /\ t \notin nacks[p] /\ t \notin inbox[p] /\ current[p] # t
      /\ applied[t] >= 1
  BY <1>1 DEF OnePlace, Held
<1> USE DEF consumerVars
<1>4. OnePlace'
  <2>1. ASSUME NEW q \in Replicas
        PROVE  unacked'[q] \subseteq unacked[q] /\ acks'[q] \cup nacks[q] \subseteq unacked'[q]
    <3>1. acks[q] \cup nacks[q] \subseteq unacked[q]
      BY DEF OnePlace
    <3>2. CASE q = p
      BY <1>2, <1>3, <3>1, <3>2
    <3>3. CASE q # p
      BY <1>2, <3>1, <3>3
    <3> QED BY <3>2, <3>3
  <2> QED BY <1>1, <2>1 DEF OnePlace
<1>5. NotYet' BY <1>1 DEF NotYet
<1>6. Held'
  <2> SUFFICES ASSUME NEW q \in Replicas
               PROVE  /\ acks'[q] \subseteq acks[q]
                      /\ ~session[q] => unacked'[q] = {}
                      /\ channel[q] /\ session[q] =>
                            /\ inbox[q] \subseteq unacked'[q]
                            /\ current[q] # Nobody => current[q] \in unacked'[q]
    BY <1>1 DEF Held
  <2>1. /\ ~session[q] => unacked[q] = {}
        /\ channel[q] /\ session[q] =>
              /\ inbox[q] \subseteq unacked[q]
              /\ current[q] # Nobody => current[q] \in unacked[q]
    BY DEF Held
  <2>2. CASE q = p
    BY <1>2, <1>3, <2>1, <2>2
  <2>3. CASE q # p
    BY <1>2, <2>1, <2>3
  <2> QED BY <2>2, <2>3
<1>7. Clean'
  <2>1. \A q \in Replicas, s \in Requests : (s \in InHand(q))' = (s \in InHand(q))
    BY <1>1 DEF InHand, Working
  <2>2. \A q \in Replicas, s \in Requests :
           Posting(q, s)' <=> Posting(q, s) /\ ~(q = p /\ s = t)
    BY <1>1, <1>2, <1>3 DEF Posting
  <2>3. ASSUME NEW s \in Requests \ suspect', s # t PROVE Undoubted(s)'
    <3>1. Undoubted(s)
      BY <1>1, <2>3 DEF Clean
    <3>2. \A q \in Replicas : (s \in unacked'[q] <=> s \in unacked[q])
      BY <1>2, <2>3
    <3> QED BY <1>1, <2>1, <2>2, <2>3, <3>1, <3>2 DEF Undoubted
  <2>4. ASSUME t \notin suspect PROVE Undoubted(t)'
    <3>1. Undoubted(t)
      BY <2>4 DEF Clean
    <3>2. \A q \in Replicas : q # p => t \notin unacked[q] \cup InHand(q) /\ ~Posting(q, t)
      BY <1>3, <2>4, HeldByOne
    <3>3. t \notin InHand(p)
      BY <1>3 DEF InHand, Working
    <3>4. \A q \in Replicas : t \notin unacked'[q] /\ t \notin InHand(q)' /\ ~Posting(q, t)'
      BY <1>2, <2>1, <2>2, <3>2, <3>3
    <3> QED BY <1>1, <3>1, <3>4 DEF Undoubted
  <2> QED BY <1>1, <2>3, <2>4 DEF Clean
<1>8. Rows' BY <1>1 DEF Rows
<1>9. AtLeastOnce' BY <1>1, <1>2, <1>3 DEF AtLeastOnce
<1>10. SettledExactlyOnce'
  <2>1. ASSUME NEW s \in enqueued, s # t, InFlight(s) PROVE InFlight(s)'
    BY <1>1, <1>2, <2>1 DEF InFlight
  <2>2. t \notin suspect => status[t] = "completed" /\ applied[t] = 1
    BY <1>1 DEF Clean, Undoubted, Posting
  <2> QED BY <1>1, <2>1, <2>2 DEF SettledExactlyOnce
<1> QED BY <1>4, <1>5, <1>6, <1>7, <1>8, <1>9, <1>10

\* The broker reads that a message is given back: it was not posted.
LEMMA ReadNackStep ==
    ASSUME IInv, NEW p \in Replicas, NEW t \in Requests, ReadNack(p, t)
    PROVE  MInv'
<1> USE DEF IInv, TInv, MInv
<1>1. /\ t \in nacks[p]
      /\ nacks' = [nacks EXCEPT ![p] = @ \ {t}]
      /\ unacked' = [unacked EXCEPT ![p] = @ \ {t}]
      /\ ready' = ready \cup {t}
      /\ UNCHANGED <<phase, status, applied, wire, acks, session, enqueued, suspect,
                     consumerVars, channel>>
  BY DEF ReadNack, handlerVars, dbVars, processVars
<1>2. \A q \in Replicas : /\ nacks'[q] = IF q = p THEN nacks[q] \ {t} ELSE nacks[q]
                          /\ unacked'[q] = IF q = p THEN unacked[q] \ {t} ELSE unacked[q]
  BY <1>1 DEF TypeOK
<1>3. /\ t \in unacked[p] /\ t \notin acks[p] /\ t \notin inbox[p] /\ current[p] # t
      /\ t \in enqueued
      /\ \A q \in Replicas : q # p => t \notin unacked[q]
  BY <1>1 DEF OnePlace, Held
<1> USE DEF consumerVars
<1>4. OnePlace'
  <2>1. ASSUME NEW q \in Replicas
        PROVE  /\ unacked'[q] \subseteq unacked[q] /\ acks[q] \cup nacks'[q] \subseteq unacked'[q]
               /\ unacked'[q] \cap ready' = {}
    <3>1. acks[q] \cup nacks[q] \subseteq unacked[q] /\ unacked[q] \cap ready = {}
      BY DEF OnePlace
    <3>2. CASE q = p
      BY <1>1, <1>2, <1>3, <3>1, <3>2
    <3>3. CASE q # p
      BY <1>1, <1>2, <1>3, <3>1, <3>3
    <3> QED BY <3>2, <3>3
  <2>2. ready' \subseteq enqueued
    BY <1>1, <1>3 DEF OnePlace
  <2> QED BY <1>1, <2>1, <2>2 DEF OnePlace
<1>5. NotYet' BY <1>1 DEF NotYet
<1>6. Held'
  <2> SUFFICES ASSUME NEW q \in Replicas
               PROVE  /\ nacks'[q] \subseteq nacks[q]
                      /\ ~session[q] => unacked'[q] = {}
                      /\ channel[q] /\ session[q] =>
                            /\ inbox[q] \subseteq unacked'[q]
                            /\ current[q] # Nobody => current[q] \in unacked'[q]
    BY <1>1 DEF Held
  <2>1. CASE q = p
    BY <1>2, <1>3, <2>1 DEF Held
  <2>2. CASE q # p
    BY <1>2, <2>2 DEF Held
  <2> QED BY <2>1, <2>2
<1>7. Clean'
  <2>1. \A q \in Replicas, s \in Requests : /\ (s \in InHand(q))' = (s \in InHand(q))
                                            /\ Posting(q, s)' = Posting(q, s)
    BY <1>1 DEF InHand, Working, Posting
  <2>2. ASSUME NEW s \in Requests \ suspect', s # t PROVE Undoubted(s)'
    BY <1>1, <1>2, <2>1, <2>2 DEF Clean, Undoubted
  <2>3. ASSUME t \notin suspect PROVE Undoubted(t)'
    <3>1. Undoubted(t)
      BY <2>3 DEF Clean
    <3>2. \A q \in Replicas : q # p => t \notin unacked[q] \cup InHand(q) /\ ~Posting(q, t)
      BY <1>3, <2>3, HeldByOne
    <3>3. t \notin InHand(p) /\ ~Posting(p, t)
      BY <1>3 DEF InHand, Working, Posting
    <3>4. applied[t] = 0
      BY <1>3, <3>1, <3>3 DEF Undoubted
    <3>5. \A q \in Replicas : t \notin InHand(q)' /\ ~Posting(q, t)'
      BY <2>1, <3>2, <3>3
    <3> QED BY <1>1, <3>4, <3>5 DEF Undoubted
  <2> QED BY <1>1, <2>2, <2>3 DEF Clean
<1>8. Rows' BY <1>1 DEF Rows
<1>9. AtLeastOnce' BY <1>1, <1>2 DEF AtLeastOnce
<1>10. SettledExactlyOnce'
  <2>1. ASSUME NEW s \in enqueued, InFlight(s) PROVE InFlight(s)'
    BY <1>1, <1>2, <2>1 DEF InFlight
  <2> QED BY <1>1, <2>1 DEF SettledExactlyOnce
<1> QED BY <1>4, <1>5, <1>6, <1>7, <1>8, <1>9, <1>10

\* A consumer that takes a message has it in hand as before.
LEMMA TakeStep ==
    ASSUME IInv, NEW p \in Replicas, NEW t \in Requests, Take(p, t)
    PROVE  MInv'
<1> USE DEF IInv, TInv, MInv
<1>1. /\ step[p] = "receive" /\ t \in inbox[p]
      /\ inbox' = [inbox EXCEPT ![p] = @ \ {t}]
      /\ step' = [step EXCEPT ![p] = "mark"]
      /\ current' = [current EXCEPT ![p] = t]
      /\ UNCHANGED <<phase, status, applied, frameVars, brokerVars, channel>>
  BY DEF Take, handlerVars, dbVars, processVars
<1>2. /\ t \in enqueued /\ current[p] = Nobody /\ t \notin acks[p] \cup nacks[p]
      /\ channel[p] /\ session[p] => t \in unacked[p]
  BY <1>1 DEF Held, Busy
<1>3. \A q \in Replicas : /\ step'[q] = IF q = p THEN "mark" ELSE step[q]
                          /\ current'[q] = IF q = p THEN t ELSE current[q]
                          /\ inbox'[q] = IF q = p THEN inbox[q] \ {t} ELSE inbox[q]
  BY <1>1 DEF TypeOK
<1> USE DEF frameVars, brokerVars
<1>4. OnePlace' BY <1>1 DEF OnePlace
<1>5. NotYet' BY <1>1 DEF NotYet
<1>6. Held' BY <1>1, <1>2, <1>3 DEF Held
<1>7. Clean'
  <2>1. \A q \in Replicas : InHand(q)' = InHand(q)
    BY <1>1, <1>3 DEF InHand, Working
  <2>2. \A q \in Replicas, s \in Requests : Posting(q, s)' = Posting(q, s)
    BY <1>1, <1>3 DEF Posting
  <2> QED BY <1>1, <2>1, <2>2 DEF Clean, Undoubted
<1>8. Rows' BY <1>1 DEF Rows
<1>9. AtLeastOnce' BY <1>1 DEF AtLeastOnce
<1>10. SettledExactlyOnce' BY <1>1 DEF SettledExactlyOnce, InFlight
<1> QED BY <1>4, <1>5, <1>6, <1>7, <1>8, <1>9, <1>10

\* What a consumer marks or posts, if it was never in doubt, is with nobody else
\* and not posted.
LEMMA AtWork ==
    ASSUME IInv, NEW p \in Replicas, step[p] \in {"mark", "commit"}
    PROVE  /\ current[p] \in Requests /\ current[p] \in enqueued /\ phase[current[p]] = "done"
           /\ current[p] \notin suspect =>
                 /\ current[p] \in unacked[p] /\ channel[p]
                 /\ applied[current[p]] = 0 /\ current[p] \notin ready
                 /\ \A q \in Replicas :
                       /\ ~Posting(q, current[p])
                       /\ q # p => current[p] \notin unacked[q] \cup InHand(q)
<1> USE DEF IInv, TInv, MInv
<1>1. /\ current[p] \in Requests /\ current[p] \in enqueued /\ phase[current[p]] = "done"
      /\ ~Posting(p, current[p]) /\ current[p] \in InHand(p)
  BY DEF Busy, Held, TypeOK, NotYet, Posting, InHand, Working
<1>2. current[p] \notin suspect => current[p] \in unacked[p] /\ channel[p]
  BY <1>1 DEF Clean, Undoubted
<1> QED BY <1>1, <1>2, HeldByOne

\* Setting the status posts nothing.
LEMMA MarkStep ==
    ASSUME IInv, NEW p \in Replicas, MarkProcessing(p)
    PROVE  MInv'
<1> USE DEF IInv, TInv, MInv
<1>0. PICK t : t = current[p]
  OBVIOUS
<1>1. PICK next \in {"commit", "nack"} :
         /\ step[p] = "mark"
         /\ step' = [step EXCEPT ![p] = next]
         /\ status' = status \/ status' = [status EXCEPT ![t] = "processing"]
         /\ UNCHANGED <<phase, applied, inbox, current, frameVars, brokerVars, channel>>
  BY <1>0 DEF MarkProcessing, ConsumerGoto, handlerVars, processVars
<1>2. /\ t \in Requests /\ t \in enqueued /\ phase[t] = "done"
      /\ t \notin suspect => /\ t \in unacked[p] /\ applied[t] = 0
                             /\ \A q \in Replicas : ~Posting(q, t)
  BY <1>0, <1>1, AtWork
<1>3. /\ \A q \in Replicas : step'[q] = IF q = p THEN next ELSE step[q]
      /\ \A s \in Requests : status'[s] = status[s] \/ (s = t /\ status'[s] = "processing")
  BY <1>1 DEF TypeOK
<1> USE DEF frameVars, brokerVars
<1>5. OnePlace' BY <1>1 DEF OnePlace
<1>6. NotYet' BY <1>1, <1>2, <1>3 DEF NotYet
<1>7. Held' BY <1>1, <1>3 DEF Held
<1>8. Clean'
  <2>1. \A q \in Replicas : InHand(q)' \subseteq InHand(q)
    BY <1>1, <1>3 DEF InHand, Working
  <2>2. \A q \in Replicas, s \in Requests : Posting(q, s)' = Posting(q, s)
    BY <1>1, <1>3 DEF Posting
  <2>3. ASSUME NEW s \in Requests \ suspect' PROVE Undoubted(s)'
    <3>1. Undoubted(s)
      BY <1>1, <2>3 DEF Clean
    <3>2. \A q \in Replicas : Posting(q, s) => status'[s] = status[s]
      BY <1>1, <1>2, <1>3, <2>3
    <3> QED BY <1>1, <2>1, <2>2, <3>1, <3>2 DEF Undoubted
  <2> QED BY <2>3 DEF Clean
<1>9. Rows' BY <1>1, <1>2, <1>3 DEF Rows
<1>10. AtLeastOnce' BY <1>1 DEF AtLeastOnce
<1>11. SettledExactlyOnce'
  <2>1. ASSUME NEW s \in enqueued \ suspect, ~InFlight(s) PROVE s # t
    BY <2>1, <1>2 DEF InFlight
  <2> QED BY <1>1, <1>3, <2>1 DEF SettledExactlyOnce, InFlight, TypeOK
<1> QED BY <1>5, <1>6, <1>7, <1>8, <1>9, <1>10, <1>11

\* A commit posts the message its consumer holds; undecided, it puts it in doubt.
LEMMA CommitStep ==
    ASSUME IInv, NEW p \in Replicas, CommitTransaction(p)
    PROVE  MInv'
<1> USE DEF IInv, TInv, MInv
<1>0. PICK t : t = current[p]
  OBVIOUS
<1>1. PICK next \in {"ack", "nack"} :
         /\ step[p] = "commit"
         /\ step' = [step EXCEPT ![p] = next]
         /\ \/ /\ status' = [status EXCEPT ![t] = "completed"]
               /\ applied' = [applied EXCEPT ![t] = @ + 1]
               /\ next = "ack" \/ t \in suspect'
            \/ UNCHANGED <<status, applied>> /\ next = "nack"
         /\ suspect' = suspect \/ suspect' = suspect \cup {t}
         /\ UNCHANGED <<phase, inbox, current, frameVars, ready, unacked, session, enqueued,
                        channel>>
  BY <1>0 DEF CommitTransaction, ConsumerGoto, PostToBalance, handlerVars, dbVars, processVars
<1>2. /\ t \in Requests /\ t \in enqueued /\ phase[t] = "done"
      /\ t \notin suspect => /\ t \in unacked[p] /\ channel[p]
                             /\ applied[t] = 0 /\ t \notin ready
                             /\ \A q \in Replicas :
                                   /\ ~Posting(q, t)
                                   /\ q # p => t \notin unacked[q] \cup InHand(q)
  BY <1>0, <1>1, AtWork
<1>3. /\ \A q \in Replicas : step'[q] = IF q = p THEN next ELSE step[q]
      /\ \A s \in Requests \ {t} : status'[s] = status[s] /\ applied'[s] = applied[s]
      /\ \/ status'[t] = "completed" /\ applied'[t] = applied[t] + 1
                                     /\ (next = "ack" \/ t \in suspect')
         \/ status'[t] = status[t] /\ applied'[t] = applied[t] /\ next = "nack"
      /\ applied[t] \in Nat
      /\ suspect \subseteq suspect'
      /\ \A s \in Requests : applied[s] >= 1 => applied'[s] >= 1
  <2>1. /\ step \in [Replicas -> {"receive", "mark", "commit", "ack", "nack"}]
        /\ status \in [Requests -> {"absent", "pending", "processing", "completed"}]
        /\ applied \in [Requests -> Nat]
    BY DEF TypeOK
  <2>2. t \in Requests
    BY <1>2
  <2> HIDE DEF IInv, TInv, MInv
  <2> QED BY <1>1, <2>1, <2>2
<1>4. \A q \in Replicas : t \notin wire[q]
  BY <1>2 DEF OnePlace
<1> USE DEF frameVars
<1>5. OnePlace' BY <1>1 DEF OnePlace
<1>6. NotYet' BY <1>1, <1>2, <1>3, <1>4 DEF NotYet
<1>7. Held'
  <2>1. ASSUME NEW q \in Replicas, step'[q] = "ack" PROVE applied'[current[q]] >= 1
    <3>1. CASE q = p
      BY <1>0, <1>3, <2>1, <3>1
    <3>2. CASE q # p
      <4>1. step[q] = "ack" /\ current[q] \in Requests
        BY <1>3, <2>1, <3>2 DEF Busy, TypeOK
      <4> QED BY <1>3, <4>1 DEF Held
    <3> QED BY <3>1, <3>2
  <2>2. \A q \in Replicas : \A s \in acks[q] : applied'[s] >= 1
    BY <1>3 DEF Held, TypeOK
  <2> QED BY <1>1, <2>1, <2>2 DEF Held
<1>8. Clean'
  <2>1. \A q \in Replicas : InHand(q)' \subseteq InHand(q)
    BY <1>1, <1>3 DEF InHand, Working
  <2>2. \A q \in Replicas, s \in Requests :
           Posting(q, s)' <=> Posting(q, s) \/ (q = p /\ s = t /\ next = "ack")
    BY <1>0, <1>1, <1>3 DEF Posting
  <2>3. ASSUME NEW s \in Requests \ suspect', s # t PROVE Undoubted(s)'
    <3>1. Undoubted(s) /\ s \notin suspect
      BY <2>3, <1>3 DEF Clean
    <3> QED BY <1>1, <1>3, <2>1, <2>2, <2>3, <3>1 DEF Undoubted
  <2>4. ASSUME t \notin suspect' PROVE Undoubted(t)'
    <3>1. \A q \in Replicas : q # p => t \notin unacked'[q] \cup InHand(q)' /\ ~Posting(q, t)'
      BY <1>1, <1>2, <1>3, <2>1, <2>2, <2>4
    <3>2. t \notin ready' /\ t \in unacked'[p] /\ channel'[p] /\ applied'[t] <= 1
      BY <1>1, <1>2, <1>3, <2>4
    <3>3. Posting(p, t)' => applied'[t] = 1 /\ status'[t] = "completed"
      BY <1>2, <1>3, <2>2, <2>4
    <3>4. ~Posting(p, t)' => applied'[t] = 0
      BY <1>2, <1>3, <2>2, <2>4
    <3> QED BY <3>1, <3>2, <3>3, <3>4 DEF Undoubted
  <2> QED BY <2>3, <2>4 DEF Clean
<1>9. Rows' BY <1>1, <1>2, <1>3, <1>4 DEF Rows
<1>10. AtLeastOnce' BY <1>1, <1>3 DEF AtLeastOnce, TypeOK
<1>11. SettledExactlyOnce'
  <2>1. ASSUME NEW s \in enqueued \ suspect', ~InFlight(s)
        PROVE  s # t /\ s \notin suspect /\ s \in Requests
    BY <2>1, <1>2, <1>3 DEF InFlight, TypeOK
  <2>2. \A s : InFlight(s)' <=> InFlight(s)
    BY <1>1 DEF InFlight
  <2> QED BY <1>1, <1>3, <2>1, <2>2 DEF SettledExactlyOnce
<1> QED BY <1>5, <1>6, <1>7, <1>8, <1>9, <1>10, <1>11

\* Ack and Nack: the consumer lets go of its message and may write a frame.
LEMMA FinishStep ==
    ASSUME IInv, NEW p \in Replicas, Ack(p) \/ Nack(p)
    PROVE  MInv'
<1> USE DEF IInv, TInv, MInv
<1>0. PICK t : t = current[p]
  OBVIOUS
<1>1. /\ step[p] \in {"ack", "nack"}
      /\ step' = [step EXCEPT ![p] = "receive"]
      /\ current' = [current EXCEPT ![p] = Nobody]
      /\ UNCHANGED <<phase, status, applied, wire, brokerVars, inbox, channel>>
  BY DEF Ack, Nack, FinishDelivery, handlerVars, dbVars, processVars
<1>2. /\ t \in Requests /\ t \in enqueued /\ t # Nobody
      /\ t \notin inbox[p] \cup acks[p] \cup nacks[p]
      /\ Settlement(p) \subseteq {t} /\ Settlement(p) \subseteq unacked[p]
      /\ step[p] = "ack" => applied[t] >= 1
  BY <1>0, <1>1, NobodyAssumption DEF Busy, Held, TypeOK, Settlement
<1>3. \A q \in Replicas : /\ step'[q] = IF q = p THEN "receive" ELSE step[q]
                          /\ current'[q] = IF q = p THEN Nobody ELSE current[q]
  BY <1>1 DEF TypeOK
<1>4. PICK a \in SUBSET (unacked[p] \cap {t}), n \in SUBSET (unacked[p] \cap {t}) :
         /\ acks' = [acks EXCEPT ![p] = @ \cup a]
         /\ nacks' = [nacks EXCEPT ![p] = @ \cup n]
         /\ step[p] = "ack" => a = Settlement(p) /\ n = {}
         /\ step[p] = "nack" => a = {}
  <2>1. CASE Ack(p)
    <3>1. nacks' = [nacks EXCEPT ![p] = @ \cup {}]
      BY <2>1 DEF Ack, TypeOK
    <3>2. step[p] = "ack" /\ acks' = [acks EXCEPT ![p] = @ \cup Settlement(p)]
      BY <2>1 DEF Ack
    <3>3. Settlement(p) \in SUBSET (unacked[p] \cap {t}) /\ {} \in SUBSET (unacked[p] \cap {t})
      BY <1>2
    <3> HIDE DEF IInv, TInv, MInv
    <3> QED BY <3>1, <3>2, <3>3
  <2>2. CASE Nack(p)
    <3>1. acks' = [acks EXCEPT ![p] = @ \cup {}]
      BY <2>2 DEF Nack, TypeOK
    <3> QED BY <1>2, <2>2, <3>1 DEF Nack
  <2> QED BY <2>1, <2>2
<1>5. /\ acks'[p] = acks[p] \cup a /\ nacks'[p] = nacks[p] \cup n
      /\ \A q \in Replicas : q # p => acks'[q] = acks[q] /\ nacks'[q] = nacks[q]
      /\ a \cap n = {}
      /\ Nobody \notin inbox[p] \cup acks'[p] \cup nacks'[p]
  <2>1. /\ acks'[p] = acks[p] \cup a /\ nacks'[p] = nacks[p] \cup n
        /\ \A q \in Replicas : q # p => acks'[q] = acks[q] /\ nacks'[q] = nacks[q]
    BY <1>4 DEF TypeOK
  <2> QED BY <1>1, <1>2, <1>4, <2>1, NobodyAssumption DEF TypeOK
\* A message that was never in doubt can be acknowledged.
<1>6. t \notin suspect /\ step[p] = "ack" =>
         /\ a = {t} /\ t \in unacked[p] /\ applied[t] = 1 /\ status[t] = "completed"
  <2>1. t \notin suspect /\ step[p] = "ack" =>
           /\ t \in unacked[p] /\ channel[p] /\ applied[t] = 1 /\ status[t] = "completed"
    BY <1>0, <1>2 DEF Clean, Undoubted, InHand, Working, Posting
  <2>2. t \in unacked[p] => session[p]
    BY DEF Held
  <2> QED BY <1>0, <1>4, <2>1, <2>2 DEF Settlement
<1> USE DEF brokerVars
<1>7. OnePlace'
  <2>1. ASSUME NEW q \in Replicas PROVE acks'[q] \cup nacks'[q] \subseteq unacked[q]
    <3>1. acks[q] \cup nacks[q] \subseteq unacked[q]
      BY DEF OnePlace
    <3> QED BY <1>4, <1>5, <3>1
  <2> QED BY <1>1, <2>1 DEF OnePlace
<1>8. NotYet' BY <1>1 DEF NotYet
<1>9. Held'
  <2> SUFFICES ASSUME NEW q \in Replicas
               PROVE  /\ current'[q] # Nobody => current'[q] = current[q]
                      /\ current'[q] \notin inbox[q] \cup acks'[q] \cup nacks'[q]
                      /\ inbox[q] \cap (acks'[q] \cup nacks'[q]) = {}
                      /\ acks'[q] \cap nacks'[q] = {}
                      /\ step'[q] = "ack" => step[q] = "ack" /\ current'[q] = current[q]
                      /\ \A s \in acks'[q] : applied[s] >= 1
    BY <1>1 DEF Held
  <2>1. CASE q = p
    <3>1. /\ inbox[p] \cap (acks[p] \cup nacks[p]) = {}
          /\ acks[p] \cap nacks[p] = {}
          /\ \A s \in acks[p] : applied[s] >= 1
      BY DEF Held
    <3>2. current'[p] = Nobody /\ step'[p] = "receive"
      BY <1>3
    <3>3. \A s \in a : applied[s] >= 1
      BY <1>1, <1>2, <1>4
    <3> QED BY <1>2, <1>4, <1>5, <2>1, <3>1, <3>2, <3>3
  <2>2. CASE q # p
    BY <1>3, <1>5, <2>2 DEF Held
  <2> QED BY <2>1, <2>2
<1>10. Clean'
  <2>1. \A q \in Replicas : InHand(q)' \subseteq InHand(q)
    BY <1>1, <1>3 DEF InHand, Working
  <2>2. ASSUME NEW s \in Requests \ suspect, NEW q \in Replicas
        PROVE  Posting(q, s)' <=> Posting(q, s)
    <3>1. CASE q # p
      BY <1>3, <1>5, <3>1 DEF Posting
    <3>2. CASE q = p /\ s = t /\ step[p] = "ack"
      BY <1>0, <1>5, <1>6, <2>2, <3>2 DEF Posting
    <3>3. CASE q = p /\ ~(s = t /\ step[p] = "ack")
      <4>1. s \in acks'[p] <=> s \in acks[p]
        BY <1>1, <1>4, <1>5, <3>3
      <4> QED BY <1>0, <1>3, <3>3, <4>1 DEF Posting
    <3> QED BY <3>1, <3>2, <3>3
  <2>3. ASSUME NEW s \in Requests \ suspect' PROVE Undoubted(s)'
    <3>1. Undoubted(s) /\ s \notin suspect
      BY <1>1, <2>3 DEF Clean
    <3> QED BY <1>1, <2>1, <2>2, <3>1 DEF Undoubted
  <2> QED BY <2>3 DEF Clean
<1>11. Rows' BY <1>1 DEF Rows
<1>12. AtLeastOnce' BY <1>1 DEF AtLeastOnce
<1>13. SettledExactlyOnce' BY <1>1 DEF SettledExactlyOnce, InFlight
<1> QED BY <1>7, <1>8, <1>9, <1>10, <1>11, <1>12, <1>13

\* The broker takes back what a replica has not acknowledged: it is not posted,
\* unless it is in doubt from now on.
LEMMA CloseSessionStep ==
    ASSUME IInv, NEW p \in Replicas, CloseSession(p)
    PROVE  MInv'
<1> USE DEF IInv, TInv, MInv
<1>1. /\ ready' = ready \cup unacked[p]
      /\ suspect' = suspect \cup acks[p] \cup InHand(p)
      /\ UNCHANGED <<phase, status, applied, enqueued, consumerVars, channel>>
  BY DEF CloseSession, handlerVars, dbVars
<1>2. \A q \in Replicas : /\ session'[q] = IF q = p THEN FALSE ELSE session[q]
                          /\ unacked'[q] = IF q = p THEN {} ELSE unacked[q]
                          /\ wire'[q] = IF q = p THEN {} ELSE wire[q]
                          /\ acks'[q] = IF q = p THEN {} ELSE acks[q]
                          /\ nacks'[q] = IF q = p THEN {} ELSE nacks[q]
  BY DEF CloseSession, TypeOK
<1> USE DEF consumerVars
<1>3. OnePlace'
  <2>1. ready' \subseteq enqueued
    BY <1>1 DEF OnePlace
  <2>2. ASSUME NEW q \in Replicas
        PROVE  /\ unacked'[q] \subseteq unacked[q] /\ wire'[q] \subseteq wire[q]
               /\ unacked'[q] \cap ready' = {}
               /\ acks'[q] \cup nacks'[q] \subseteq unacked'[q]
    BY <1>1, <1>2 DEF OnePlace
  <2> QED BY <1>1, <2>1, <2>2 DEF OnePlace
<1>4. NotYet'
  <2>1. \A q \in Replicas : wire'[q] \subseteq wire[q]
    BY <1>2
  <2> QED BY <1>1, <2>1 DEF NotYet
<1>5. Held'
  <2> SUFFICES ASSUME NEW q \in Replicas
               PROVE  /\ acks'[q] \subseteq acks[q] /\ nacks'[q] \subseteq nacks[q]
                      /\ ~session'[q] => unacked'[q] = {}
                      /\ session'[q] => session[q] /\ unacked'[q] = unacked[q]
    BY <1>1 DEF Held
  <2> QED BY <1>2 DEF Held
<1>6. Clean'
  <2>1. \A q \in Replicas : InHand(q)' = InHand(q)
    BY <1>1 DEF InHand, Working
  <2>2. ASSUME NEW s \in Requests \ suspect' PROVE Undoubted(s)'
    <3>1. Undoubted(s) /\ s \notin suspect /\ s \notin acks[p] /\ s \notin InHand(p)
      BY <1>1, <2>2 DEF Clean
    <3>2. ~Posting(p, s) /\ ~Posting(p, s)'
      BY <1>1, <1>2, <3>1 DEF Posting, InHand, Working
    <3>3. \A q \in Replicas : q # p => Posting(q, s)' = Posting(q, s) /\ unacked'[q] = unacked[q]
      BY <1>1, <1>2 DEF Posting
    <3>4. s \in ready' => applied[s] = 0
      BY <1>1, <3>1, <3>2 DEF Undoubted
    <3>5. s \notin unacked'[p]
      BY <1>2
    <3> QED BY <1>1, <2>1, <3>1, <3>2, <3>3, <3>4, <3>5 DEF Undoubted
  <2> QED BY <2>2 DEF Clean
<1>7. Rows'
  <2>1. \A q \in Replicas : wire'[q] \subseteq wire[q]
    BY <1>2
  <2> QED BY <1>1, <2>1 DEF Rows
<1>8. AtLeastOnce' BY <1>1, <1>2 DEF AtLeastOnce
<1>9. SettledExactlyOnce'
  <2>1. ASSUME NEW s \in enqueued, InFlight(s) PROVE InFlight(s)'
    <3>1. s \in ready \/ \E q \in Replicas : s \in unacked[q]
      BY <2>1 DEF InFlight, OnePlace
    <3> QED BY <1>1, <1>2, <3>1 DEF InFlight
  <2> QED BY <1>1, <2>1 DEF SettledExactlyOnce
<1> QED BY <1>3, <1>4, <1>5, <1>6, <1>7, <1>8, <1>9

\* A client that loses the channel puts in doubt what it goes on working on.
LEMMA ClientDropsStep ==
    ASSUME IInv, NEW p \in Replicas, ClientDrops(p)
    PROVE  MInv'
<1> USE DEF IInv, TInv, MInv
<1>1. PICK kept \in SUBSET inbox[p] :
         /\ inbox' = [inbox EXCEPT ![p] = kept]
         /\ suspect' = suspect \cup kept \cup Working(p)
  BY DEF ClientDrops
<1>2. /\ channel' = [channel EXCEPT ![p] = FALSE]
      /\ UNCHANGED <<phase, status, applied, frameVars, ready, unacked, session, enqueued, step,
                     current>>
  BY DEF ClientDrops, handlerVars, dbVars
<1>3. \A q \in Replicas : /\ inbox'[q] = IF q = p THEN kept ELSE inbox[q]
                          /\ channel'[q] = IF q = p THEN FALSE ELSE channel[q]
  BY <1>1, <1>2 DEF TypeOK
<1> USE DEF frameVars
<1>4. OnePlace' BY <1>2 DEF OnePlace
<1>5. NotYet' BY <1>2 DEF NotYet
<1>6. Held'
  <2>1. \A q \in Replicas : inbox'[q] \subseteq inbox[q] /\ (channel'[q] => channel[q])
    BY <1>3
  <2> QED BY <1>2, <2>1 DEF Held
<1>7. Clean'
  <2>1. ASSUME NEW s \in Requests \ suspect' PROVE Undoubted(s)'
    <3>1. Undoubted(s) /\ s \notin kept /\ s \notin Working(p)
      BY <1>1, <2>1 DEF Clean
    <3>2. \A q \in Replicas : s \in InHand(q)' => q # p /\ s \in InHand(q)
      BY <1>2, <1>3, <3>1 DEF InHand, Working
    <3>3. \A q \in Replicas : Posting(q, s)' = Posting(q, s)
      BY <1>2 DEF Posting
    <3> QED BY <1>2, <1>3, <3>1, <3>2, <3>3 DEF Undoubted
  <2> QED BY <2>1 DEF Clean
<1>8. Rows' BY <1>2 DEF Rows
<1>9. AtLeastOnce' BY <1>2 DEF AtLeastOnce
<1>10. SettledExactlyOnce' BY <1>1, <1>2 DEF SettledExactlyOnce, InFlight
<1> QED BY <1>4, <1>5, <1>6, <1>7, <1>8, <1>9, <1>10

\* A dying process drops what it has; only a posted message is in doubt.
LEMMA DieStep ==
    ASSUME IInv, NEW p \in Replicas, Die(p)
    PROVE  MInv'
<1> USE DEF IInv, TInv, MInv
<1>1. /\ suspect' = suspect \cup (IF step[p] = "ack" THEN {current[p]} ELSE {})
      /\ UNCHANGED <<status, applied, frameVars, ready, unacked, session, enqueued>>
  BY DEF Die, dbVars
<1>2. \A q \in Replicas : /\ inbox'[q] = IF q = p THEN {} ELSE inbox[q]
                          /\ step'[q] = IF q = p THEN "receive" ELSE step[q]
                          /\ current'[q] = IF q = p THEN Nobody ELSE current[q]
                          /\ channel'[q] = IF q = p THEN FALSE ELSE channel[q]
  BY DEF Die, TypeOK
<1>3. \A t \in Requests : phase'[t] = phase[t] \/ (phase[t] # "done" /\ phase'[t] = "gone")
  <2>1. phase' = [r \in Requests |-> IF host[r] = p THEN "gone" ELSE phase[r]]
    BY DEF Die
  <2>2. \A t \in Requests : host[t] = p => phase[t] # "done"
    BY NobodyAssumption DEF Hosted
  <2> QED BY <2>1, <2>2
<1> USE DEF frameVars
<1>4. OnePlace' BY <1>1 DEF OnePlace
<1>5. NotYet' BY <1>1, <1>3 DEF NotYet
<1>6. Held'
  <2>1. Nobody \notin inbox'[p] \cup acks[p] \cup nacks[p]
    BY <1>2, NobodyAssumption DEF TypeOK
  <2> SUFFICES ASSUME NEW q \in Replicas
               PROVE  /\ inbox'[q] \subseteq inbox[q]
                      /\ current'[q] # Nobody => current'[q] = current[q]
                      /\ current'[q] \notin inbox'[q] \cup acks[q] \cup nacks[q]
                      /\ channel'[q] => channel[q]
                      /\ step'[q] = "ack" => step[q] = "ack" /\ current'[q] = current[q]
    BY <1>1 DEF Held
  <2>2. CASE q = p
    BY <1>2, <2>1, <2>2
  <2>3. CASE q # p
    BY <1>2, <2>3 DEF Held
  <2> QED BY <2>2, <2>3
<1>7. Clean'
  <2>1. ASSUME NEW s \in Requests \ suspect' PROVE Undoubted(s)'
    <3>1. Undoubted(s) /\ ~(step[p] = "ack" /\ s = current[p]) /\ s # Nobody
      BY <1>1, <2>1, NobodyAssumption DEF Clean
    <3>2. \A q \in Replicas : s \in InHand(q)' => q # p /\ s \in InHand(q)
      BY <1>2, <3>1 DEF InHand, Working
    <3>3. \A q \in Replicas : Posting(q, s)' <=> Posting(q, s)
      BY <1>1, <1>2, <3>1 DEF Posting
    <3> QED BY <1>1, <1>2, <3>1, <3>2, <3>3 DEF Undoubted
  <2> QED BY <2>1 DEF Clean
<1>8. Rows' BY <1>1, <1>3 DEF Rows
<1>9. AtLeastOnce' BY <1>1 DEF AtLeastOnce
<1>10. SettledExactlyOnce' BY <1>1 DEF SettledExactlyOnce, InFlight
<1> QED BY <1>4, <1>5, <1>6, <1>7, <1>8, <1>9, <1>10

\* A new process starts with a new channel and nothing else.
LEMMA RestartStep ==
    ASSUME IInv, NEW p \in Replicas, Restart(p)
    PROVE  MInv'
<1> USE DEF IInv, TInv, MInv
<1>1. /\ \A q \in Replicas : /\ channel'[q] = IF q = p THEN TRUE ELSE channel[q]
                             /\ session'[q] = IF q = p THEN TRUE ELSE session[q]
      /\ UNCHANGED <<phase, status, applied, frameVars, ready, unacked, enqueued, suspect,
                     consumerVars>>
  BY DEF Restart, handlerVars, dbVars, TypeOK
<1>2. current[p] = Nobody /\ inbox[p] = {}
  BY DEF Restart, Gone
<1> USE DEF frameVars, consumerVars
<1>3. OnePlace' /\ NotYet' /\ Rows' BY <1>1 DEF OnePlace, NotYet, Rows
<1>4. Held'
  <2> SUFFICES ASSUME NEW q \in Replicas
               PROVE  /\ ~session'[q] => unacked[q] = {}
                      /\ channel'[q] /\ session'[q] =>
                            /\ inbox[q] \subseteq unacked[q]
                            /\ current[q] # Nobody => current[q] \in unacked[q]
    BY <1>1 DEF Held
  <2>1. CASE q = p
    BY <1>1, <1>2, <2>1
  <2>2. CASE q # p
    BY <1>1, <2>2 DEF Held
  <2> QED BY <2>1, <2>2
<1>5. Clean'
  <2>1. \A q \in Replicas, s \in Requests : /\ (s \in InHand(q))' = (s \in InHand(q))
                                            /\ Posting(q, s)' = Posting(q, s)
                                            /\ channel[q] => channel'[q]
    BY <1>1 DEF InHand, Working, Posting
  <2> QED BY <1>1, <2>1 DEF Clean, Undoubted
<1>6. AtLeastOnce' BY <1>1 DEF AtLeastOnce
<1>7. SettledExactlyOnce' BY <1>1 DEF SettledExactlyOnce, InFlight
<1> QED BY <1>3, <1>4, <1>5, <1>6, <1>7

\* Connections and the life of a process preserve the second half.
LEMMA ProcessStep ==
    ASSUME IInv, NEW p \in Replicas,
           \/ ClientDrops(p) \/ BrokerDrops(p) \/ Crash(p) \/ Terminate(p)
           \/ CloseQueue(p) \/ Exit(p) \/ Restart(p)
    PROVE  MInv'
<1>1. CASE Terminate(p)
  BY <1>1, UnmovedStep DEF Terminate, handlerVars, dbVars
<1>2. CASE CloseQueue(p)
  BY <1>2, CloseSessionStep, UnmovedStep DEF CloseQueue, handlerVars, dbVars
<1> QED BY <1>1, <1>2, ClientDropsStep, CloseSessionStep, DieStep, RestartStep
        DEF BrokerDrops, Crash, Exit

-----------------------------------------------------------------------------
(* Theorems. *)

\* The whole invariant is inductive.
LEMMA IInvNext ==
    ASSUME IInv, [Next]_vars
    PROVE  IInv'
<1>1. TInv'
  BY TInvNext DEF IInv
<1>2. ASSUME NEW k \in Users \X Keys, Evict(k) PROVE MInv'
  BY <1>2, UnmovedStep DEF Evict, handlerVars, dbVars, processVars
<1>3. ASSUME UNCHANGED vars PROVE MInv'
  <2>1. UNCHANGED <<phase, status, applied, frameVars, brokerVars, consumerVars, channel>>
    BY <1>3 DEF vars, handlerVars, dbVars, processVars
  <2> QED BY <2>1, UnmovedStep
<1>4. ASSUME NEW p \in Replicas, Consumer(p) PROVE MInv'
  BY <1>4, TakeStep, MarkStep, CommitStep, FinishStep DEF Consumer
<1>5. MInv'
  <2>1. ASSUME NEW r \in Requests, Handler(r) PROVE MInv'
    BY <2>1, HandlerStep
  <2>2. ASSUME NEW p \in Replicas, NEW t \in Requests,
               Route(p, t) \/ Deliver(p, t) \/ ReadAck(p, t) \/ ReadNack(p, t)
        PROVE MInv'
    BY <2>2, RouteStep, DeliverStep, ReadAckStep, ReadNackStep
  <2>3. ASSUME NEW p \in Replicas,
               \/ ClientDrops(p) \/ BrokerDrops(p) \/ Crash(p) \/ Terminate(p)
               \/ CloseQueue(p) \/ Exit(p) \/ Restart(p)
        PROVE  MInv'
    BY <2>3, ProcessStep
  <2> QED BY <1>2, <1>3, <1>4, <2>1, <2>2, <2>3 DEF Next
<1> QED BY <1>1, <1>5 DEF IInv

\* The inductive invariant holds in every reachable state of the write paths.
THEOREM Invariance == Spec => []IInv
<1>1. Init => IInv
  BY TInvInit, MInvInit DEF IInv
<1> QED BY <1>1, IInvNext, PTL DEF Spec

\* No message the broker accepted is lost, whatever fails and however often.
THEOREM NothingLost == Spec => []AtLeastOnce
<1>1. IInv => AtLeastOnce
  BY DEF IInv, MInv
<1> QED BY <1>1, Invariance, PTL

\* A settled message was applied exactly once, unless it was ever in doubt.
THEOREM ExactlyOnce == Spec => []SettledExactlyOnce
<1>1. IInv => SettledExactlyOnce
  BY DEF IInv, MInv
<1> QED BY <1>1, Invariance, PTL

\* Nothing but a doubtful delivery makes the service apply an amount twice.
THEOREM DoubleApplyNeedsDoubt == Spec => []DoubleApplyOnlyIfSuspect
<1>1. IInv => DoubleApplyOnlyIfSuspect
  BY DEF IInv, TInv, TypeOK, MInv, Clean, Undoubted, DoubleApplyOnlyIfSuspect
<1> QED BY <1>1, Invariance, PTL

\* No two consumers work on a transaction that was never in doubt.
THEOREM SingleConsumer == Spec => []SingleConsumerUnlessSuspect
<1>1. IInv => SingleConsumerUnlessSuspect
  <2> SUFFICES ASSUME IInv, NEW t \in Requests \ suspect, NEW p \in Replicas, NEW q \in Replicas,
                      t \in Working(p) \cap Working(q), p # q
               PROVE  FALSE
    BY DEF SingleConsumerUnlessSuspect
  <2>1. t \in unacked[p] /\ t \in unacked[q]
    BY DEF IInv, MInv, Clean, Undoubted, InHand
  <2> QED BY <2>1 DEF IInv, MInv, OnePlace
<1> QED BY <1>1, Invariance, PTL

\* 'completed' is final, except for a transaction in doubt.
THEOREM CompletedIsFinal == Spec => StatusRegressesOnlyIfSuspect
<1> DEFINE Keeps == \A t \in Requests :
                       status[t] = "completed" /\ status'[t] # "completed" => t \in suspect
<1>1. ASSUME IInv, [Next]_vars PROVE Keeps
  <2> SUFFICES ASSUME NEW t \in Requests \ suspect, status[t] = "completed"
               PROVE  status'[t] = "completed"
    OBVIOUS
  <2> USE <1>1 DEF IInv, TInv, MInv
  <2>1. ASSUME NEW r \in Requests, Handler(r) PROVE status'[t] = "completed"
    <3>1. CASE InsertPending(r)
      BY <3>1 DEF InsertPending, Rows, TypeOK
    <3>2. CASE CommitV0(r)
      BY <3>2 DEF CommitV0, PostToBalance, TypeOK, dbVars
    <3> QED BY <2>1, <3>1, <3>2
            DEF Handler, Receive, ValidateUser, CheckKey, SaveKey, Publish, dbVars
  <2>2. ASSUME NEW p \in Replicas, MarkProcessing(p) PROVE status'[t] = "completed"
    <3>1. step[p] = "mark"
      BY <2>2 DEF MarkProcessing
    <3>2. current[p] # t
      BY <3>1, AtWork DEF NotYet
    <3>3. status' = status \/ status' = [status EXCEPT ![current[p]] = "processing"]
      BY <2>2 DEF MarkProcessing
    <3> QED BY <3>2, <3>3 DEF TypeOK
  <2>3. ASSUME NEW p \in Replicas, CommitTransaction(p) PROVE status'[t] = "completed"
    <3>1. status' = status \/ status' = [status EXCEPT ![current[p]] = "completed"]
      BY <2>3 DEF CommitTransaction, PostToBalance, dbVars
    <3> QED BY <3>1 DEF TypeOK
  <2>4. ASSUME NEW p \in Replicas,
               \/ ClientDrops(p) \/ BrokerDrops(p) \/ Crash(p) \/ Terminate(p) \/ CloseQueue(p)
               \/ Exit(p) \/ Restart(p) \/ Ack(p) \/ Nack(p) \/ \E o \in Requests : Take(p, o)
        PROVE  status' = status
    BY <2>4 DEF ClientDrops, BrokerDrops, CloseSession, Crash, Exit, Die, Terminate, CloseQueue,
                Restart, Ack, Nack, FinishDelivery, Take, dbVars
  <2>5. ASSUME NEW p \in Replicas, NEW o \in Requests,
               Route(p, o) \/ Deliver(p, o) \/ ReadAck(p, o) \/ ReadNack(p, o)
        PROVE  status' = status
    BY <2>5 DEF Route, Deliver, ReadAck, ReadNack, dbVars
  <2>6. ASSUME NEW k \in Users \X Keys, Evict(k) PROVE status' = status
    BY <2>6 DEF Evict, dbVars
  <2>7. CASE UNCHANGED vars
    BY <2>7 DEF vars, dbVars
  <2> QED BY <2>1, <2>2, <2>3, <2>4, <2>5, <2>6, <2>7 DEF Next, Consumer
<1>2. IInv /\ [Next]_vars => [Keeps]_vars
  BY <1>1
<1> QED BY <1>2, Invariance, PTL DEF Spec, StatusRegressesOnlyIfSuspect

-----------------------------------------------------------------------------
(* Idempotency keys. *)

Keyable(r) == Body[r].route = "v1" /\ HasKey(r)

\* A key in Redis names a recorded transaction created under that key, and so
\* does every "already_processed" answer.
KeysNameRows ==
    /\ \A r \in Requests : phase[r] \in {"key", "insert", "save", "publish"} =>
          Body[r].route = "v1"
    /\ \A k \in Users \X Keys, t \in Requests : idem[k] = t =>
          Keyable(t) /\ IdempotencyKey(t) = k /\ status[t] # "absent"
    /\ \A r \in Requests : reply[r] = "duplicate" =>
          \E t \in Requests : original[r] = t /\ t # r /\ SameKey(r, t) /\ status[t] # "absent"

\* What a step outside the handlers can do to the variables of the handlers.
LEMMA OutsideHandlers ==
    ASSUME IInv, [Next]_vars, \A r \in Requests : ~Handler(r)
    PROVE  /\ UNCHANGED <<reply, original, answeredBefore>>
           /\ \A t \in Requests : phase'[t] = phase[t] \/ (phase[t] # "done" /\ phase'[t] = "gone")
           /\ \A t \in Requests : status'[t] = "absent" <=> status[t] = "absent"
           /\ \/ idem' = idem
              \/ "redis" \in FaultKinds /\ \E k : idem' = [idem EXCEPT ![k] = Nobody]
<1> USE DEF IInv, TInv, MInv, handlerVars, dbVars
<1> DEFINE Goal ==
           /\ UNCHANGED <<reply, original, answeredBefore>>
           /\ \A t \in Requests : phase'[t] = phase[t] \/ (phase[t] # "done" /\ phase'[t] = "gone")
           /\ \A t \in Requests : status'[t] = "absent" <=> status[t] = "absent"
           /\ \/ idem' = idem
              \/ "redis" \in FaultKinds /\ \E k : idem' = [idem EXCEPT ![k] = Nobody]
<1>1. ASSUME NEW p \in Replicas, Consumer(p) PROVE Goal
  <2>1. UNCHANGED <<reply, original, answeredBefore, phase, idem>>
    BY <1>1 DEF Consumer, Take, MarkProcessing, CommitTransaction, Ack, Nack, FinishDelivery
  <2>2. \/ status' = status
        \/ /\ step[p] \in {"mark", "commit"}
           /\ \E v \in {"processing", "completed"} : status' = [status EXCEPT ![current[p]] = v]
    BY <1>1 DEF Consumer, Take, MarkProcessing, CommitTransaction, Ack, Nack, FinishDelivery,
                PostToBalance
  <2>3. step[p] \in {"mark", "commit"} => current[p] \in Requests /\ status[current[p]] # "absent"
    BY AtWork DEF Rows
  <2>4. \A t \in Requests : status'[t] = "absent" <=> status[t] = "absent"
    BY <2>2, <2>3 DEF TypeOK
  <2> QED BY <2>1, <2>4
<1>2. ASSUME NEW p \in Replicas, Crash(p) \/ Exit(p) PROVE Goal
  <2>1. Die(p)
    BY <1>2 DEF Crash, Exit
  <2>2. \A t \in Requests : host[t] = p => phase[t] # "done"
    BY NobodyAssumption DEF Hosted
  <2> QED BY <2>1, <2>2 DEF Die, TypeOK
<1>3. ASSUME NEW p \in Replicas,
             ClientDrops(p) \/ BrokerDrops(p) \/ Terminate(p) \/ CloseQueue(p) \/ Restart(p)
      PROVE  Goal
  BY <1>3 DEF ClientDrops, BrokerDrops, CloseSession, Terminate, CloseQueue, Restart
<1>4. ASSUME NEW p \in Replicas, NEW t \in Requests,
             Route(p, t) \/ Deliver(p, t) \/ ReadAck(p, t) \/ ReadNack(p, t)
      PROVE  Goal
  BY <1>4 DEF Route, Deliver, ReadAck, ReadNack
<1>5. ASSUME NEW k \in Users \X Keys, Evict(k) PROVE Goal
  BY <1>5 DEF Evict, Fault
<1>6. ASSUME UNCHANGED vars PROVE Goal
  BY <1>6 DEF vars
<1> QED BY <1>1, <1>2, <1>3, <1>4, <1>5, <1>6 DEF Next

\* Keys saved in Redis and duplicates answered go on naming recorded transactions.
LEMMA KeysNameRowsNext ==
    ASSUME IInv, KeysNameRows, [Next]_vars
    PROVE  KeysNameRows'
<1> USE DEF IInv, TInv, MInv
<1> DEFINE Named(r, t) == original[r] = t /\ t # r /\ SameKey(r, t) /\ status[t] # "absent"
<1>1. \A r, t \in Requests : /\ Keyable(r)' = Keyable(r)
                             /\ IdempotencyKey(r)' = IdempotencyKey(r)
                             /\ SameKey(r, t)' = SameKey(r, t)
  BY DEF Keyable, HasKey, IdempotencyKey, SameKey
<1>2. \A r, t \in Requests : Keyable(r) /\ Keyable(t) /\ IdempotencyKey(r) = IdempotencyKey(t)
                                => SameKey(r, t)
  BY DEF Keyable, SameKey
<1>3. CASE \A r \in Requests : ~Handler(r)
  <2>1. \A r \in Requests : phase'[r] \in {"key", "insert", "save", "publish"} =>
            Body[r].route = "v1"
    BY <1>3, OutsideHandlers DEF KeysNameRows
  <2>2. \A k, t : t \in Requests /\ idem'[k] = t /\ k \in Users \X Keys => idem[k] = t
    BY <1>3, OutsideHandlers, NobodyAssumption DEF TypeOK
  <2>3. \A t \in Requests : status[t] # "absent" => status'[t] # "absent"
    BY <1>3, OutsideHandlers
  <2>4. UNCHANGED <<reply, original>>
    BY <1>3, OutsideHandlers
  <2> QED BY <1>1, <2>1, <2>2, <2>3, <2>4 DEF KeysNameRows
<1>4. ASSUME NEW r \in Requests, Handler(r) PROVE KeysNameRows'
  <2>1. \A t \in Requests : status[t] # "absent" => status'[t] # "absent"
    <3>1. \/ status' = status
          \/ \E v \in {"pending", "completed"} : status' = [status EXCEPT ![r] = v]
      BY <1>4 DEF Handler, Receive, ValidateUser, CheckKey, InsertPending, SaveKey, Publish,
                  CommitV0, PostToBalance, dbVars
    <3> QED BY <3>1 DEF TypeOK
  <2>2. \A t \in Requests : phase'[t] \in {"key", "insert", "save", "publish"} =>
            Body[t].route = "v1"
    <3>1. PICK next : /\ phase' = [phase EXCEPT ![r] = next]
                      /\ next \in {"key", "insert", "save", "publish"} =>
                            \/ phase[r] \in {"key", "insert", "save", "publish"}
                            \/ Body[r].route # "v0"
      BY <1>4 DEF Handler, Receive, ValidateUser, CheckKey, InsertPending, SaveKey, Publish,
                  CommitV0, Goto, Answer, AnswerDuplicate
    <3>2. Body[r].route \in {"v1", "v0"}
      BY BodyAssumption DEF BodyType
    <3> QED BY <3>1, <3>2 DEF KeysNameRows, TypeOK
  <2>3. ASSUME NEW k \in Users \X Keys, NEW t \in Requests, idem'[k] = t
        PROVE  Keyable(t) /\ IdempotencyKey(t) = k /\ status[t] # "absent"
    <3>1. CASE idem[k] = t
      BY <3>1 DEF KeysNameRows
    <3>2. CASE idem[k] # t
      <4>1. SaveKey(r) /\ idem' = [idem EXCEPT ![IdempotencyKey(r)] = r]
        BY <1>4, <2>3, <3>2 DEF Handler, Receive, ValidateUser, CheckKey, InsertPending, SaveKey,
                                Publish, CommitV0
      <4>2. k = IdempotencyKey(r) /\ t = r
        BY <2>3, <3>2, <4>1 DEF TypeOK
      <4>3. HasKey(r) /\ Body[r].route = "v1" /\ status[r] # "absent"
        BY <4>1 DEF SaveKey, Keyed, KeysNameRows, Rows
      <4> QED BY <4>2, <4>3 DEF Keyable
    <3> QED BY <3>1, <3>2
  <2>4. ASSUME NEW s \in Requests, reply'[s] = "duplicate"
        PROVE  \E t \in Requests : original'[s] = t /\ t # s /\ SameKey(s, t) /\ status[t] # "absent"
    <3>1. CASE CheckKey(r) /\ idem[IdempotencyKey(r)] # Nobody /\ s = r
               /\ original' = [original EXCEPT ![r] = idem[IdempotencyKey(r)]]
      <4>1. Keyable(r) /\ status[r] = "absent"
        BY <3>1 DEF CheckKey, Keyed, KeysNameRows, Keyable, Rows
      <4>2. PICK t \in Requests : t = idem[IdempotencyKey(r)]
        BY <3>1, <4>1, KeyType DEF TypeOK, Keyable
      <4>3. Keyable(t) /\ IdempotencyKey(t) = IdempotencyKey(r) /\ status[t] # "absent"
        BY <4>1, <4>2, KeyType DEF KeysNameRows, Keyable
      <4> QED BY <1>2, <3>1, <4>1, <4>2, <4>3 DEF TypeOK
    <3>2. CASE reply[s] = "duplicate" /\ original'[s] = original[s]
      BY <3>2 DEF KeysNameRows
    <3> QED
      <4>1. PICK v \in {"rejected", "failed", "accepted", "warned", "completed"} :
               \/ reply' = reply /\ original' = original
               \/ reply' = [reply EXCEPT ![r] = v] /\ original' = original
               \/ /\ CheckKey(r) /\ idem[IdempotencyKey(r)] # Nobody
                  /\ reply' = [reply EXCEPT ![r] = "duplicate"]
                  /\ original' = [original EXCEPT ![r] = idem[IdempotencyKey(r)]]
        BY <1>4 DEF Handler, Receive, ValidateUser, CheckKey, InsertPending, SaveKey, Publish,
                    CommitV0, Goto, Answer, AnswerDuplicate
      <4> QED BY <2>4, <3>1, <3>2, <4>1 DEF TypeOK
  <2> QED BY <1>1, <2>1, <2>2, <2>3, <2>4 DEF KeysNameRows
<1> QED BY <1>3, <1>4

\* An "already_processed" answer never names a transaction that has no row.
THEOREM DuplicatesAreRecorded == Spec => []DuplicateReplyNamesRecorded
<1>1. Init => KeysNameRows
  BY NobodyAssumption DEF Init, KeysNameRows
<1>2. KeysNameRows => DuplicateReplyNamesRecorded
  BY DEF KeysNameRows, DuplicateReplyNamesRecorded
<1> QED BY <1>1, <1>2, KeysNameRowsNext, Invariance, PTL DEF Spec

\* When Redis keeps its keys, a request whose answer carries an id has left
\* its key there, and whoever arrives later with that key stops at the check.
KeysStay ==
    /\ \A s \in Requests : Keyable(s) /\ phase[s] = "publish" => idem[IdempotencyKey(s)] # Nobody
    /\ \A s \in Requests : Keyable(s) /\ reply[s] \in {"accepted", "warned", "duplicate"} =>
          idem[IdempotencyKey(s)] # Nobody
    /\ \A r \in Requests : \A s \in answeredBefore[r] :
          /\ phase[s] = "done"
          /\ SameKey(r, s) /\ reply[s] \in {"accepted", "warned", "duplicate"} =>
                phase[r] \in {"user", "key", "done", "gone"} /\ status[r] = "absent"

\* If Redis forgets nothing, the key of an answered request goes on suppressing retries.
LEMMA KeysStayNext ==
    ASSUME IInv, KeysStay, "redis" \notin FaultKinds, [Next]_vars
    PROVE  KeysStay'
<1> USE DEF IInv, TInv, MInv
<1> DEFINE WithId == {"accepted", "warned", "duplicate"}
<1>1. \A r, t \in Requests : /\ Keyable(r)' = Keyable(r)
                             /\ IdempotencyKey(r)' = IdempotencyKey(r)
                             /\ SameKey(r, t)' = SameKey(r, t)
  BY DEF Keyable, HasKey, IdempotencyKey, SameKey
<1>2. \A r, t \in Requests : SameKey(r, t) => /\ Keyable(r) /\ Keyable(t)
                                              /\ IdempotencyKey(r) = IdempotencyKey(t)
  BY DEF Keyable, SameKey
<1>3. \A r \in Requests : Keyable(r) => IdempotencyKey(r) \in Users \X Keys
  BY KeyType DEF Keyable
<1>4. CASE \A r \in Requests : ~Handler(r)
  <2>1. UNCHANGED <<reply, answeredBefore, idem>>
    BY <1>4, OutsideHandlers
  <2>2. \A t \in Requests : /\ phase'[t] = phase[t] \/ (phase[t] # "done" /\ phase'[t] = "gone")
                            /\ status[t] = "absent" => status'[t] = "absent"
    BY <1>4, OutsideHandlers
  <2>3. \A r \in Requests : answeredBefore[r] \subseteq Requests
    BY DEF TypeOK
  <2> QED BY <1>1, <2>1, <2>2, <2>3 DEF KeysStay
<1>5. ASSUME NEW r \in Requests, Handler(r) PROVE KeysStay'
  \* Keys are only added.
  <2>1. \A k \in Users \X Keys : idem[k] # Nobody => idem'[k] # Nobody
    <3>1. idem' = idem \/ idem' = [idem EXCEPT ![IdempotencyKey(r)] = r]
      BY <1>5 DEF Handler, Receive, ValidateUser, CheckKey, InsertPending, SaveKey, Publish, CommitV0
    <3> QED BY <3>1, NobodyAssumption DEF TypeOK
  <2>2. PICK next : /\ phase' = [phase EXCEPT ![r] = next]
                    /\ phase[r] # "done"
                    /\ next = "publish" => ~HasKey(r) \/ phase[r] = "save"
    BY <1>5 DEF Handler, Receive, ValidateUser, CheckKey, InsertPending, SaveKey, Publish,
                CommitV0, Goto, Answer, AnswerDuplicate
  <2>3. \A s \in Requests \ {r} : phase'[s] = phase[s]
    BY <2>2 DEF TypeOK
  <2>4. \A s \in Requests \ {r} : reply'[s] = reply[s] /\ status'[s] = status[s]
    BY <1>5 DEF Handler, Receive, ValidateUser, CheckKey, InsertPending, SaveKey, Publish,
                CommitV0, Goto, Answer, AnswerDuplicate, PostToBalance, dbVars, TypeOK
  <2>5. ASSUME NEW s \in Requests, Keyable(s), phase'[s] = "publish"
        PROVE  idem'[IdempotencyKey(s)] # Nobody
    <3>1. CASE s # r
      BY <1>3, <2>1, <2>3, <2>5, <3>1 DEF KeysStay
    <3>2. CASE s = r
      <4>1. SaveKey(r) /\ idem' = [idem EXCEPT ![IdempotencyKey(r)] = r]
        BY <1>5, <2>2, <2>5, <3>2 DEF Handler, Receive, ValidateUser, CheckKey, InsertPending,
                                      SaveKey, Publish, CommitV0, Fault, Keyable, TypeOK
      <4> QED BY <1>3, <2>5, <3>2, <4>1, NobodyAssumption DEF TypeOK
    <3> QED BY <3>1, <3>2
  <2>6. ASSUME NEW s \in Requests, Keyable(s), reply'[s] \in WithId
        PROVE  idem'[IdempotencyKey(s)] # Nobody
    <3>1. CASE s # r \/ reply'[s] = reply[s]
      BY <1>3, <2>1, <2>4, <2>6, <3>1 DEF KeysStay
    <3>2. CASE s = r /\ reply'[s] # reply[s]
      <4>1. \/ Publish(r)
            \/ CheckKey(r) /\ idem[IdempotencyKey(r)] # Nobody
        BY <1>5, <2>6, <3>2 DEF Handler, Receive, ValidateUser, CheckKey, InsertPending, SaveKey,
                                Publish, CommitV0, Goto, Answer, AnswerDuplicate, TypeOK
      <4>2. idem[IdempotencyKey(r)] # Nobody
        BY <2>6, <3>2, <4>1 DEF Publish, KeysStay
      <4> QED BY <1>3, <2>1, <2>6, <3>2, <4>2
    <3> QED BY <3>1, <3>2
  <2>7. ASSUME NEW q \in Requests, NEW s \in answeredBefore'[q]
        PROVE  /\ phase'[s] = "done"
               /\ SameKey(q, s) /\ reply'[s] \in WithId =>
                     phase'[q] \in {"user", "key", "done", "gone"} /\ status'[q] = "absent"
    <3>1. CASE q = r /\ phase[r] = "new"
      <4>1. PICK p \in Replicas : Receive(r, p)
        BY <1>5, <3>1 DEF Handler, ValidateUser, CheckKey, InsertPending, SaveKey, Publish, CommitV0
      <4>2. /\ phase'[r] = "user" /\ status'[r] = "absent"
            /\ s \in Requests /\ phase[s] = "done"
        BY <2>7, <3>1, <4>1 DEF Receive, Goto, dbVars, Rows, TypeOK
      <4> QED BY <2>2, <2>3, <3>1, <4>2
    <3>2. CASE ~(q = r /\ phase[r] = "new")
      <4>1. s \in answeredBefore[q] /\ s \in Requests
        BY <1>5, <2>7, <3>2 DEF Handler, Receive, ValidateUser, CheckKey, InsertPending, SaveKey,
                                Publish, CommitV0, TypeOK
      <4>2. phase[s] = "done" /\ s # r
        BY <2>2, <4>1 DEF KeysStay
      <4>3. phase'[s] = "done" /\ reply'[s] = reply[s]
        BY <2>3, <2>4, <4>1, <4>2
      <4>4. ASSUME SameKey(q, s), reply[s] \in WithId
            PROVE  phase'[q] \in {"user", "key", "done", "gone"} /\ status'[q] = "absent"
        <5>1. phase[q] \in {"user", "key", "done", "gone"} /\ status[q] = "absent"
          BY <4>1, <4>4 DEF KeysStay
        <5>2. CASE q # r
          BY <2>3, <2>4, <5>1, <5>2
        <5>3. CASE q = r
          <6>1. Keyable(r) /\ idem[IdempotencyKey(r)] # Nobody
            BY <1>2, <4>1, <4>4, <5>3 DEF KeysStay
          <6>2. ValidateUser(r) \/ (CheckKey(r) /\ phase' = [phase EXCEPT ![r] = "done"])
            BY <1>5, <3>2, <5>1, <5>3, <6>1
               DEF Handler, Receive, ValidateUser, CheckKey, InsertPending, SaveKey, Publish,
                   CommitV0, AnswerDuplicate, Fault
          <6>3. phase'[r] \in {"key", "done"} /\ status' = status
            BY <6>1, <6>2 DEF ValidateUser, CheckKey, Goto, Answer, Keyable, dbVars, TypeOK
          <6> QED BY <5>1, <5>3, <6>3
        <5> QED BY <5>2, <5>3
      <4> QED BY <4>3, <4>4
    <3> QED BY <3>1, <3>2
  <2> QED BY <1>1, <2>5, <2>6, <2>7 DEF KeysStay, TypeOK
<1> QED BY <1>4, <1>5

\* As long as Redis neither fails nor forgets, a retry sent after an answer
\* with an id records nothing, whatever else fails.
THEOREM RetriesAreSuppressed ==
    ASSUME "redis" \notin FaultKinds
    PROVE  Spec => []RetryAfterAnswerSuppressed
<1>1. Init => KeysStay
  BY DEF Init, KeysStay
<1>2. IInv /\ KeysStay /\ [Next]_vars => KeysStay'
  BY KeysStayNext
<1>3. KeysStay => RetryAfterAnswerSuppressed
  BY DEF KeysStay, RetryAfterAnswerSuppressed
<1> QED BY <1>1, <1>2, <1>3, Invariance, PTL DEF Spec

-----------------------------------------------------------------------------
(* Refinement: whatever fails, the pipeline is a ledger.                     *)

\* Rounding moves a number by half a cent at most.
LEMMA RoundedNear ==
    ASSUME NEW x \in Int
    PROVE  10 * Rounded(x) - x \in -5..5
<1>1. CASE x >= 0
  <2>1. PICK q \in Int : q = (x + 5) \div 10
    BY <1>1
  <2>2. 10 * q <= x + 5 /\ x + 5 < 10 * q + 10
    BY <2>1
  <2> QED BY <1>1, <2>1, <2>2 DEF Rounded
<1>2. CASE ~(x >= 0)
  <2>1. PICK q \in Int : q = (5 - x) \div 10
    BY <1>2
  <2>2. 10 * q <= 5 - x /\ 5 - x < 10 * q + 10
    BY <2>1
  <2> QED BY <1>2, <2>1, <2>2 DEF Rounded
<1> QED BY <1>1, <1>2

\* What a posting makes of a balance is an effect of its amount.
LEMMA NearestCent ==
    ASSUME NEW t \in Requests, NEW b \in Int
    PROVE  LET e == Rounded(10 * b + Delta[t]) - b
           IN  e \in Effect[t] /\ b + e = Rounded(10 * b + Delta[t])
<1> DEFINE d == Delta[t]
           r == Rounded(10 * b + d)
<1>1. d \in Int
  BY DeltaType
<1>2. r \in Int /\ 10 * r - (10 * b + d) \in -5..5
  BY <1>1, RoundedType, RoundedNear
<1> HIDE DEF d, r
<1>3. PICK q \in Int : q = d \div 10
  BY <1>1
<1>4. 10 * q <= d /\ d < 10 * q + 10
  BY <1>1, <1>3
<1>5. r - b \in q..(q + 1) /\ 10 * (r - b) - d \in -5..5
  BY <1>1, <1>2, <1>3, <1>4
<1>6. r - b \in {c \in (d \div 10)..(d \div 10 + 1) : 10 * c - d \in -5..5}
  BY <1>3, <1>5
<1>7. r - b \in Effect[t]
  BY <1>6 DEF Effect, d
<1> QED BY <1>2, <1>7 DEF d, r

\* A posting adds one transaction to the posted ones, or none if it was there,
\* and its amount to one balance.
LEMMA PostingAddsOne ==
    ASSUME TypeOK, NEW t \in Requests, PostToBalance(t)
    PROVE  /\ Recorded' = Recorded \cup {t}
           /\ Posted' = Posted \cup {t}
           /\ L!Apply(t)
<1>1. /\ \A s \in Requests \ {t} : status'[s] = status[s] /\ applied'[s] = applied[s]
      /\ status'[t] = "completed" /\ applied'[t] = applied[t] + 1
      /\ applied[t] \in Nat
  BY DEF TypeOK, PostToBalance
<1>2. UserOf[t] = Body[t].user
  BY DEF UserOf
<1>3. Recorded' = Recorded \cup {t}
  BY <1>1 DEF Recorded
<1>4. Posted' = Posted \cup {t}
  BY <1>1 DEF Posted
<1>5. L!Apply(t)
  <2> DEFINE u == Body[t].user
             e == Rounded(10 * balance[u] + Delta[t]) - balance[u]
  <2>1. u \in Users /\ Delta[t] \in Int
    BY BodyAssumption, DeltaType DEF BodyType
  <2>2. balance[u] \in Int
    BY <2>1 DEF TypeOK
  <2>3. e \in Effect[t] /\ balance[u] + e = Rounded(10 * balance[u] + Delta[t])
    BY <2>1, <2>2, NearestCent
  <2>4. balance' = [balance EXCEPT ![u] = @ + e]
    <3>1. balance' = [balance EXCEPT ![u] = Rounded(10 * balance[u] + Delta[t])]
      BY DEF PostToBalance
    <3> HIDE DEF e, u
    <3> QED BY <2>3, <3>1
  <2> HIDE DEF e, u
  <2> QED BY <1>2, <2>3, <2>4 DEF L!Apply, u
<1> QED BY <1>3, <1>4, <1>5

\* A step that touches neither the database nor the doubt is no ledger step.
LEMMA Unseen ==
    ASSUME UNCHANGED <<dbVars, suspect>>
    PROVE  UNCHANGED L!ledgerVars
BY DEF L!ledgerVars, Recorded, Posted, dbVars

\* Handlers record, or record and post.
LEMMA HandlerLedgerStep ==
    ASSUME IInv, NEW r \in Requests, Handler(r)
    PROVE  [L!Next]_(L!ledgerVars)
<1> USE DEF IInv, TInv, MInv
<1>1. UNCHANGED suspect
  BY AwayFromConsumers DEF brokerVars
<1>2. CASE UNCHANGED dbVars
  BY <1>1, <1>2, Unseen
<1>3. CASE InsertPending(r) /\ ~UNCHANGED dbVars
  <2>1. status' = [status EXCEPT ![r] = "pending"]
    BY <1>3 DEF InsertPending, dbVars
  <2>2. status[r] = "absent" /\ UNCHANGED <<balance, applied>>
    BY <1>3 DEF InsertPending, Rows
  <2>3. r \notin Recorded /\ Recorded' = Recorded \cup {r} /\ Posted' = Posted
    BY <2>1, <2>2 DEF Recorded, Posted, TypeOK
  <2>4. L!Record(r)
    BY <1>1, <2>2, <2>3 DEF L!Record
  <2> QED BY <2>4 DEF L!Next
<1>4. CASE CommitV0(r) /\ ~UNCHANGED dbVars
  <2>1. PostToBalance(r)
    BY <1>4 DEF CommitV0
  <2>2. status[r] = "absent"
    BY <1>4 DEF CommitV0, Rows
  <2>3. L!RecordAndPost(r)
    BY <1>1, <2>1, <2>2, PostingAddsOne DEF L!RecordAndPost, Recorded
  <2> QED BY <2>3 DEF L!Next
<1> QED BY <1>2, <1>3, <1>4 DEF Handler, Receive, ValidateUser, CheckKey, SaveKey, Publish

\* A consumer posts what is recorded; it posts again only what is in doubt.
LEMMA CommitLedgerStep ==
    ASSUME IInv, NEW p \in Replicas, CommitTransaction(p)
    PROVE  [L!Next]_(L!ledgerVars)
<1> USE DEF IInv, TInv, MInv
<1>1. PICK t \in Requests : t = current[p]
  BY DEF CommitTransaction, Busy, TypeOK
<1>2. t \in Recorded
  BY <1>1, AtWork DEF CommitTransaction, Rows, Recorded
<1>3. \/ UNCHANGED <<dbVars, suspect>>
      \/ PostToBalance(t) /\ suspect' \in {suspect, suspect \cup {t}}
  BY <1>1 DEF CommitTransaction
<1>4. CASE UNCHANGED <<dbVars, suspect>>
  BY <1>4, Unseen
<1>5. CASE PostToBalance(t) /\ suspect' \in {suspect, suspect \cup {t}}
  <2>1. Recorded' = Recorded
    BY <1>2, <1>5, PostingAddsOne
  <2>2. CASE t \notin Posted
    <3>1. L!Post(t)
      BY <1>2, <1>5, <2>1, <2>2, PostingAddsOne DEF L!Post
    <3> QED BY <3>1 DEF L!Next
  <2>3. CASE t \in Posted
    <3>1. applied[t] # 0
      BY <2>3 DEF Posted, TypeOK
    <3>2. t \in suspect
      BY <1>1, <3>1, AtWork DEF CommitTransaction
    <3>3. Posted' = Posted /\ suspect' = suspect
      BY <1>5, <2>3, <3>2, PostingAddsOne
    <3>4. L!PostAgain(t)
      BY <1>5, <2>1, <2>3, <3>2, <3>3, PostingAddsOne DEF L!PostAgain
    <3> QED BY <3>4 DEF L!Next
  <2> QED BY <2>2, <2>3
<1> QED BY <1>3, <1>4, <1>5

\* A lost connection and a lost process contest what the replica had at hand.
LEMMA LossLedgerStep ==
    ASSUME IInv, NEW p \in Replicas,
           ClientDrops(p) \/ BrokerDrops(p) \/ CloseQueue(p) \/ Crash(p) \/ Exit(p)
    PROVE  [L!Next]_(L!ledgerVars)
<1> USE DEF IInv, TInv, MInv
<1>1. UNCHANGED dbVars
  BY DEF ClientDrops, BrokerDrops, CloseQueue, CloseSession, Crash, Exit, Die
<1>2. InHand(p) \subseteq enqueued /\ acks[p] \subseteq enqueued
  BY NobodyAssumption DEF InHand, Working, Held, Busy, OnePlace
<1>3. PICK T \in SUBSET enqueued : suspect' = suspect \cup T
  <2>1. CASE BrokerDrops(p) \/ (CloseQueue(p) /\ CloseSession(p))
    <3>1. suspect' = suspect \cup (acks[p] \cup InHand(p))
      BY <2>1 DEF BrokerDrops, CloseSession
    <3> QED BY <1>2, <3>1
  <2>2. CASE ClientDrops(p)
    <3>1. PICK kept \in SUBSET inbox[p] : suspect' = suspect \cup (kept \cup Working(p))
      BY <2>2 DEF ClientDrops
    <3> QED BY <1>2, <3>1 DEF InHand
  <2>3. CASE Die(p)
    <3>1. suspect' = suspect \cup (IF step[p] = "ack" THEN {current[p]} ELSE {})
      BY <2>3 DEF Die
    <3> QED BY <1>2, <3>1 DEF InHand, Working
  <2>4. CASE UNCHANGED suspect
    <3>1. suspect' = suspect \cup {}
      BY <2>4
    <3> QED BY <3>1
  <2> QED BY <2>1, <2>2, <2>3, <2>4 DEF Crash, Exit, CloseQueue, brokerVars
<1>4. T \in SUBSET Recorded
  BY <1>3 DEF Rows, Recorded, TypeOK
<1>5. UNCHANGED <<Recorded, Posted, balance>>
  BY <1>1 DEF Recorded, Posted, dbVars
<1>6. L!Contest(T)
  BY <1>3, <1>4, <1>5 DEF L!Contest
<1> QED BY <1>4, <1>6 DEF L!Next

\* Every step of the pipeline is a step of the ledger or none.
LEMMA LedgerStep ==
    ASSUME IInv, [Next]_vars
    PROVE  [L!Next]_(L!ledgerVars)
<1> USE DEF IInv, TInv, MInv
<1>1. ASSUME NEW p \in Replicas, MarkProcessing(p) PROVE UNCHANGED L!ledgerVars
  <2>1. current[p] \in Requests /\ status[current[p]] # "absent"
    BY <1>1, AtWork DEF MarkProcessing, Rows
  <2>2. /\ UNCHANGED <<balance, applied, suspect>>
        /\ status' = status \/ status' = [status EXCEPT ![current[p]] = "processing"]
    BY <1>1 DEF MarkProcessing, brokerVars
  <2>3. Recorded' = Recorded /\ Posted' = Posted
    BY <2>1, <2>2 DEF Recorded, Posted, TypeOK
  <2> QED BY <2>2, <2>3 DEF L!ledgerVars
<1>2. ASSUME NEW p \in Replicas,
             \/ Ack(p) \/ Nack(p) \/ Terminate(p) \/ Restart(p)
             \/ \E t \in Requests : \/ Take(p, t) \/ Route(p, t) \/ Deliver(p, t)
                                   \/ ReadAck(p, t) \/ ReadNack(p, t)
      PROVE  UNCHANGED <<dbVars, suspect>>
  BY <1>2 DEF Ack, Nack, FinishDelivery, Take, Terminate, Restart, Route, Deliver, ReadAck,
              ReadNack, brokerVars
<1>3. ASSUME NEW k \in Users \X Keys, Evict(k) PROVE UNCHANGED <<dbVars, suspect>>
  BY <1>3 DEF Evict, brokerVars
<1>4. ASSUME UNCHANGED vars PROVE UNCHANGED <<dbVars, suspect>>
  BY <1>4 DEF vars, brokerVars
<1> QED BY <1>1, <1>2, <1>3, <1>4, HandlerLedgerStep, CommitLedgerStep, LossLedgerStep, Unseen
        DEF Next, Consumer

\* Both write paths implement the ledger, whatever fails: each transaction is
\* recorded, then posted to one balance, and posted again only if its message
\* was in doubt: its commit undecided, its acknowledgement unread, or its
\* consumer cut off from the broker.
THEOREM Refinement == Spec => ImplementsLedger
<1>1. Init => L!Init
  BY DEF Init, L!Init, Recorded, Posted
<1>2. IInv /\ [Next]_vars => [L!Next]_(L!ledgerVars)
  BY LedgerStep
<1> QED BY <1>1, <1>2, Invariance, PTL DEF Spec, ImplementsLedger, L!Spec

-----------------------------------------------------------------------------
(* Without a source of doubt. *)

NoDoubt == FaultKinds \cap {"unknown", "crash", "channel", "sigterm"} = {}

Quiet ==
    /\ suspect = {}
    /\ \A p \in Replicas : process[p] = "up" /\ channel[p] /\ session[p]

\* Without those failures processes and connections stay up.
LEMMA NobodyLeaves ==
    ASSUME FaultKinds \cap {"crash", "channel", "sigterm"} = {}, NEW p \in Replicas,
           process[p] = "up" /\ channel[p] /\ session[p]
    PROVE  ~(\/ ClientDrops(p) \/ BrokerDrops(p) \/ Crash(p) \/ Terminate(p) \/ CloseQueue(p)
             \/ Exit(p) \/ Restart(p))
BY DEF ClientDrops, BrokerDrops, Crash, Terminate, CloseQueue, Exit, Restart, Fault

\* Only they, handlers aside, touch the state of processes and connections.
LEMMA AwayFromProcesses ==
    ASSUME [Next]_vars,
           \A p \in Replicas : ~(\/ ClientDrops(p) \/ BrokerDrops(p) \/ Crash(p) \/ Terminate(p)
                                 \/ CloseQueue(p) \/ Exit(p) \/ Restart(p))
    PROVE  UNCHANGED <<processVars, session>>
<1>1. ASSUME NEW p \in Replicas, Consumer(p) PROVE UNCHANGED <<processVars, session>>
  BY <1>1 DEF Consumer, Take, MarkProcessing, CommitTransaction, Ack, Nack, FinishDelivery,
              brokerVars
<1>2. ASSUME NEW p \in Replicas, NEW t \in Requests,
             Route(p, t) \/ Deliver(p, t) \/ ReadAck(p, t) \/ ReadNack(p, t)
      PROVE  UNCHANGED <<processVars, session>>
  BY <1>2 DEF Route, Deliver, ReadAck, ReadNack
<1>3. ASSUME NEW k \in Users \X Keys, Evict(k) PROVE UNCHANGED <<processVars, session>>
  BY <1>3 DEF Evict, brokerVars
<1>4. ASSUME NEW r \in Requests, Handler(r) PROVE UNCHANGED <<processVars, session>>
  BY <1>4, AwayFromConsumers DEF brokerVars
<1>5. CASE UNCHANGED vars
  BY <1>5 DEF vars, brokerVars
<1> QED BY <1>1, <1>2, <1>3, <1>4, <1>5 DEF Next

\* Without a source of doubt no message is ever suspect.
LEMMA QuietNext ==
    ASSUME NoDoubt, TypeOK, Quiet, [Next]_vars
    PROVE  Quiet'
<1>1. ASSUME NEW p \in Replicas
      PROVE  ~(\/ ClientDrops(p) \/ BrokerDrops(p) \/ Crash(p) \/ Terminate(p) \/ CloseQueue(p)
               \/ Exit(p) \/ Restart(p))
  BY NobodyLeaves DEF NoDoubt, Quiet
<1>2. ASSUME NEW p \in Replicas, Consumer(p) PROVE UNCHANGED suspect
  BY <1>2 DEF NoDoubt, Consumer, Take, MarkProcessing, CommitTransaction, Ack, Nack,
              FinishDelivery, Fault, brokerVars
<1>3. ASSUME NEW p \in Replicas, NEW t \in Requests,
             Route(p, t) \/ Deliver(p, t) \/ ReadAck(p, t) \/ ReadNack(p, t)
      PROVE  UNCHANGED suspect
  BY <1>3 DEF Route, Deliver, ReadAck, ReadNack
<1>4. ASSUME NEW k \in Users \X Keys, Evict(k) PROVE UNCHANGED suspect
  BY <1>4 DEF Evict, brokerVars
<1>5. ASSUME NEW r \in Requests, Handler(r) PROVE UNCHANGED suspect
  BY <1>5, AwayFromConsumers DEF brokerVars
<1>6. ASSUME UNCHANGED vars PROVE UNCHANGED suspect
  BY <1>6 DEF vars, brokerVars
<1>7. UNCHANGED <<processVars, session>>
  BY <1>1, AwayFromProcesses
<1>8. UNCHANGED suspect
  BY <1>1, <1>2, <1>3, <1>4, <1>5, <1>6 DEF Next
<1> QED BY <1>7, <1>8 DEF Quiet, processVars

\* When statements fail cleanly and no process or connection is lost, every
\* amount reaches its balance at most once, whatever Redis does.
THEOREM AppliedOnceWithoutDoubt ==
    ASSUME NoDoubt
    PROVE  Spec => []AppliedAtMostOnce
<1>1. Init => Quiet
  BY DEF Init, Quiet
<1>2. IInv /\ Quiet /\ [Next]_vars => Quiet'
  BY QuietNext DEF IInv, TInv
<1>3. IInv /\ Quiet => AppliedAtMostOnce
  BY DEF IInv, TInv, MInv, TypeOK, Clean, Undoubted, Quiet, AppliedAtMostOnce
<1> QED BY <1>1, <1>2, <1>3, Invariance, PTL DEF Spec

-----------------------------------------------------------------------------
(* What "accepted" is worth: losing an accepted message takes a lost process *)
(* or connection, or a full queue.                                           *)

NoLoss == FaultKinds \cap {"crash", "channel", "sigterm"} = {}

RoomForAll == IsFiniteSet(Requests) /\ Cardinality(Requests) <= QueueMax

Connected == \A p \in Replicas : process[p] = "up" /\ channel[p] /\ session[p]

\* Without those failures every process keeps its connection.
LEMMA ConnectedNext ==
    ASSUME NoLoss, Connected, [Next]_vars
    PROVE  Connected'
<1>1. UNCHANGED <<processVars, session>>
  BY NobodyLeaves, AwayFromProcesses DEF NoLoss, Connected
<1> QED BY <1>1 DEF Connected, processVars

\* A message that is not queued yet finds room in a queue for everybody.
LEMMA FindsRoom ==
    ASSUME RoomForAll, NEW S \in SUBSET Requests, NEW t \in Requests \ S
    PROVE  Cardinality(S) < QueueMax
<1>1. /\ IsFiniteSet(S) /\ Cardinality(S) <= Cardinality(Requests)
      /\ Cardinality(S) = Cardinality(Requests) => S = Requests
  BY FS_Subset DEF RoomForAll
<1>2. Cardinality(S) \in Nat /\ Cardinality(Requests) \in Nat
  BY <1>1, FS_CardinalityType DEF RoomForAll
<1>3. S # Requests
  OBVIOUS
<1> QED BY <1>1, <1>2, <1>3, BoundsAssumption DEF RoomForAll

\* Handlers only add to the wire and to the postings.
LEMMA HandlerHolds ==
    ASSUME TypeOK, NEW r \in Requests, Handler(r), NEW t \in Requests,
           InFlight(t) \/ applied[t] >= 1
    PROVE  (InFlight(t) \/ applied[t] >= 1)'
<1>1. applied'[t] >= applied[t] /\ applied[t] \in Nat /\ applied'[t] \in Nat
  <2>1. applied' = applied \/ applied' = [applied EXCEPT ![r] = @ + 1]
    BY DEF Handler, Receive, ValidateUser, CheckKey, InsertPending, SaveKey, Publish, CommitV0,
           PostToBalance, dbVars
  <2>2. applied \in [Requests -> Nat]
    BY DEF TypeOK
  <2> QED BY <2>1, <2>2
<1>2. /\ UNCHANGED <<ready, unacked>>
      /\ \A p \in Replicas : wire[p] \subseteq wire'[p]
  <2>1. UNCHANGED <<ready, unacked>>
    BY AwayFromConsumers DEF brokerVars
  <2>2. CASE Publish(r)
    BY <2>1, <2>2 DEF Publish, TypeOK
  <2>3. CASE ~Publish(r)
    BY <2>1, <2>3 DEF Handler, Receive, ValidateUser, CheckKey, InsertPending, SaveKey, CommitV0, frameVars
  <2> QED BY <2>1, <2>2, <2>3
<1> QED BY <1>1, <1>2 DEF InFlight

\* A consumer moves no message and takes no posting back.
LEMMA ConsumerHolds ==
    ASSUME IInv, NEW p \in Replicas, Consumer(p), NEW t \in Requests,
           InFlight(t) \/ applied[t] >= 1
    PROVE  (InFlight(t) \/ applied[t] >= 1)'
<1>1. applied'[t] >= applied[t] /\ applied[t] \in Nat /\ applied'[t] \in Nat
  BY DEF Consumer, Take, MarkProcessing, CommitTransaction, Ack, Nack, FinishDelivery,
         PostToBalance, dbVars, IInv, TInv, TypeOK
<1>2. UNCHANGED <<wire, ready, unacked>>
  BY DEF Consumer, Take, MarkProcessing, CommitTransaction, Ack, Nack, FinishDelivery,
         frameVars, brokerVars
<1> QED BY <1>1, <1>2 DEF InFlight

\* The broker moves a message on, has room for it and forgets only what is posted.
LEMMA BrokerHolds ==
    ASSUME RoomForAll, IInv, NEW p \in Replicas, NEW o \in Requests,
           Route(p, o) \/ Deliver(p, o) \/ ReadAck(p, o) \/ ReadNack(p, o),
           NEW t \in Requests, InFlight(t) \/ applied[t] >= 1
    PROVE  (InFlight(t) \/ applied[t] >= 1)'
<1> USE DEF IInv, TInv, MInv
<1>1. UNCHANGED applied
  BY DEF Route, Deliver, ReadAck, ReadNack, dbVars
<1>2. CASE Route(p, o)
  <2>1. Cardinality(ready) < QueueMax
    BY <1>2, FindsRoom DEF Route, OnePlace, TypeOK
  <2> QED BY <1>1, <1>2, <2>1 DEF Route, InFlight, TypeOK
<1>3. CASE Deliver(p, o)
  BY <1>1, <1>3 DEF Deliver, InFlight, frameVars, TypeOK
<1>4. CASE ReadAck(p, o)
  <2>1. applied[o] >= 1
    BY <1>4 DEF ReadAck, Held
  <2> QED BY <1>1, <1>4, <2>1 DEF ReadAck, InFlight, TypeOK
<1>5. CASE ReadNack(p, o)
  BY <1>1, <1>5 DEF ReadNack, InFlight, TypeOK
<1> QED BY <1>2, <1>3, <1>4, <1>5

\* Who is told "accepted" has just put the message on the wire.
LEMMA NewlyAccepted ==
    ASSUME TypeOK, Hosted, Connected, NEW r \in Requests, Handler(r), NEW t \in Requests,
           reply'[t] = "accepted", reply[t] # "accepted"
    PROVE  InFlight(t)'
<1>1. Publish(r) /\ t = r
  <2>1. CASE Publish(r)
    BY <2>1 DEF Publish, Answer, TypeOK
  <2>2. PICK v \in {"rejected", "duplicate", "failed", "completed"} :
           Publish(r) \/ reply' = reply \/ reply' = [reply EXCEPT ![r] = v]
    BY DEF Handler, Receive, ValidateUser, CheckKey, InsertPending, SaveKey, CommitV0, Goto, Answer,
           AnswerDuplicate
  <2> QED BY <2>1, <2>2 DEF TypeOK
<1>2. host[r] \in Replicas
  <2>1. phase[r] = "publish"
    BY <1>1 DEF Publish
  <2>2. host[r] \in Replicas \cup {Nowhere}
    BY DEF TypeOK
  <2>3. host[r] # Nowhere
    BY <2>1 DEF Hosted
  <2> QED BY <2>2, <2>3
<1> QED BY <1>1, <1>2 DEF Publish, InFlight, Connected, TypeOK

\* When no process or connection is lost and the queue has room for every
\* request, an accepted transaction is on its way or in the balance: the only
\* other ways to lose it are the queue's bound and a lost connection.
THEOREM AcceptedHeld ==
    ASSUME NoLoss, RoomForAll
    PROVE  Spec => []AcceptedIsHeld
<1>1. Init => Connected /\ AcceptedIsHeld
  BY DEF Init, Connected, AcceptedIsHeld
<1>2. Connected /\ [Next]_vars => Connected'
  BY ConnectedNext
<1>3. IInv /\ Connected /\ AcceptedIsHeld /\ [Next]_vars => AcceptedIsHeld'
  <2> SUFFICES ASSUME IInv, Connected, AcceptedIsHeld, [Next]_vars,
                      NEW t \in Requests, reply'[t] = "accepted"
               PROVE  (InFlight(t) \/ applied[t] >= 1)'
    BY DEF AcceptedIsHeld
  <2> USE DEF IInv, TInv
  <2>1. CASE reply[t] # "accepted"
    <3>1. PICK r \in Requests : Handler(r)
      BY <2>1, OutsideHandlers
    <3> QED BY <2>1, <3>1, NewlyAccepted
  <2>2. CASE reply[t] = "accepted"
    <3>1. InFlight(t) \/ applied[t] >= 1
      BY <2>2 DEF AcceptedIsHeld
    <3>2. ASSUME NEW k \in Users \X Keys, Evict(k) PROVE UNCHANGED <<frameVars, brokerVars, dbVars>>
      BY <3>2 DEF Evict
    <3>3. ASSUME UNCHANGED vars PROVE UNCHANGED <<frameVars, brokerVars, dbVars>>
      BY <3>3 DEF vars
    <3>4. ASSUME UNCHANGED <<frameVars, brokerVars, dbVars>>
          PROVE  (InFlight(t) \/ applied[t] >= 1)'
      BY <3>1, <3>4 DEF InFlight, frameVars, brokerVars, dbVars
    <3>5. \A p \in Replicas :
             ~(\/ ClientDrops(p) \/ BrokerDrops(p) \/ Crash(p) \/ Terminate(p) \/ CloseQueue(p)
               \/ Exit(p) \/ Restart(p))
      BY NobodyLeaves DEF NoLoss, Connected
    <3> QED BY <3>1, <3>2, <3>3, <3>4, <3>5, HandlerHolds, ConsumerHolds, BrokerHolds DEF Next
  <2> QED BY <2>1, <2>2
<1> QED BY <1>1, <1>2, <1>3, Invariance, PTL DEF Spec

=============================================================================
