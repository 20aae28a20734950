---------------------- MODULE TransactionAnswersProofs ----------------------
(***************************************************************************)
(* What clients are told is true and stays true: proofs about the answers  *)
(* of TransactionPipeline and the status it shows, on top of the invariant *)
(* of TransactionPipelineProofs.                                           *)
(***************************************************************************)
EXTENDS TransactionPipelineProofs

-----------------------------------------------------------------------------
(* The status. *)

\* A handler writes to the row of its own request only, and never to one that
\* is posted.
LEMMA HandlerRow ==
    ASSUME IInv, NEW r \in Requests, Handler(r)
    PROVE  /\ \A t \in Requests \ {r} : status'[t] = status[t] /\ applied'[t] = applied[t]
           /\ phase[r] # "done" /\ applied[r] = 0
           /\ \/ status'[r] = status[r] /\ applied'[r] = 0
              \/ status'[r] = "pending" /\ applied'[r] = 0
              \/ status'[r] = "completed" /\ applied'[r] = 1
           /\ suspect' = suspect
<1> USE DEF IInv, TInv, MInv
<1>1. phase[r] # "done"
  BY DEF Handler, Receive, ValidateUser, CheckKey, InsertPending, SaveKey, Publish, CommitV0
<1>2. applied[r] = 0
  BY <1>1 DEF NotYet
<1>3. suspect' = suspect
  BY AwayFromConsumers DEF brokerVars
<1>4. \/ UNCHANGED <<status, applied>>
      \/ status' = [status EXCEPT ![r] = "pending"] /\ UNCHANGED applied
      \/ /\ status' = [status EXCEPT ![r] = "completed"]
         /\ applied' = [applied EXCEPT ![r] = @ + 1]
  BY DEF Handler, Receive, ValidateUser, CheckKey, InsertPending, SaveKey, Publish, CommitV0,
         PostToBalance, dbVars
<1> QED BY <1>1, <1>2, <1>3, <1>4 DEF TypeOK

\* A consumer writes to the row of its message only: it marks one whose
\* posting is in doubt or still to come, or it posts it.
LEMMA ConsumerRow ==
    ASSUME IInv, NEW p \in Replicas, Consumer(p), NEW t \in Requests
    PROVE  \/ status'[t] = status[t] /\ applied'[t] = applied[t]
           \/ /\ t \in enqueued
              /\ \/ /\ status'[t] = "processing" /\ applied'[t] = applied[t]
                    /\ t \in suspect \/ applied[t] = 0
                 \/ status'[t] = "completed" /\ applied'[t] = applied[t] + 1
<1> USE DEF IInv, TInv, MInv
<1>1. CASE MarkProcessing(p)
  <2>1. /\ current[p] \in Requests /\ current[p] \in enqueued
        /\ current[p] \in suspect \/ applied[current[p]] = 0
    BY <1>1, AtWork DEF MarkProcessing
  <2>2. /\ applied' = applied
        /\ status' = status \/ status' = [status EXCEPT ![current[p]] = "processing"]
    BY <1>1 DEF MarkProcessing
  <2> QED BY <2>1, <2>2 DEF TypeOK
<1>2. CASE CommitTransaction(p)
  <2>1. current[p] \in Requests /\ current[p] \in enqueued
    BY <1>2, AtWork DEF CommitTransaction
  <2>2. \/ UNCHANGED <<status, applied>>
        \/ /\ status' = [status EXCEPT ![current[p]] = "completed"]
           /\ applied' = [applied EXCEPT ![current[p]] = @ + 1]
    BY <1>2 DEF CommitTransaction, PostToBalance, dbVars
  <2> QED BY <2>1, <2>2 DEF TypeOK
<1>3. CASE UNCHANGED <<status, applied>>
  BY <1>3
<1> QED BY <1>1, <1>2, <1>3 DEF Consumer, Take, Ack, Nack, FinishDelivery, dbVars

\* Nothing but handlers and consumers writes to PostgreSQL, and doubt only grows.
LEMMA OtherRows ==
    ASSUME [Next]_vars, \A r \in Requests : ~Handler(r), \A p \in Replicas : ~Consumer(p)
    PROVE  UNCHANGED dbVars /\ suspect \subseteq suspect'
<1>1. ASSUME NEW p \in Replicas,
             \/ ClientDrops(p) \/ BrokerDrops(p) \/ Crash(p) \/ Terminate(p)
             \/ CloseQueue(p) \/ Exit(p) \/ Restart(p)
      PROVE  UNCHANGED dbVars /\ suspect \subseteq suspect'
  BY <1>1 DEF ClientDrops, BrokerDrops, CloseSession, Crash, Exit, Die, Terminate, CloseQueue,
              Restart, brokerVars
<1>2. ASSUME NEW p \in Replicas, NEW t \in Requests,
             Route(p, t) \/ Deliver(p, t) \/ ReadAck(p, t) \/ ReadNack(p, t)
      PROVE  UNCHANGED <<dbVars, suspect>>
  BY <1>2 DEF Route, Deliver, ReadAck, ReadNack
<1>3. ASSUME NEW k \in Users \X Keys, Evict(k) PROVE UNCHANGED <<dbVars, suspect>>
  BY <1>3 DEF Evict, brokerVars
<1>4. ASSUME UNCHANGED vars PROVE UNCHANGED <<dbVars, suspect>>
  BY <1>4 DEF vars, brokerVars
<1> QED BY <1>1, <1>2, <1>3, <1>4 DEF Next

\* A message in doubt stays in doubt.
LEMMA DoubtStays ==
    ASSUME [Next]_vars
    PROVE  suspect \subseteq suspect'
<1>1. ASSUME NEW r \in Requests, Handler(r) PROVE suspect' = suspect
  BY <1>1, AwayFromConsumers DEF brokerVars
<1>2. ASSUME NEW p \in Replicas, Consumer(p) PROVE suspect \subseteq suspect'
  BY <1>2 DEF Consumer, Take, MarkProcessing, CommitTransaction, Ack, Nack, FinishDelivery,
              brokerVars
<1> QED BY <1>1, <1>2, OtherRows

\* Honesty is preserved by every step.
LEMMA StatusIsHonestNext ==
    ASSUME IInv, StatusIsHonest, [Next]_vars
    PROVE  StatusIsHonest'
<1> SUFFICES ASSUME NEW t \in Requests
             PROVE  /\ status'[t] \in {"absent", "pending"} => applied'[t] = 0
                    /\ status'[t] = "completed" => applied'[t] >= 1
                    /\ applied'[t] >= 1 /\ t \notin suspect' => status'[t] = "completed"
  BY DEF StatusIsHonest
<1>1. suspect \subseteq suspect' /\ applied[t] \in Nat
  BY DoubtStays DEF IInv, TInv, TypeOK
<1>2. /\ status[t] \in {"absent", "pending"} => applied[t] = 0
      /\ status[t] = "completed" => applied[t] >= 1
      /\ applied[t] >= 1 /\ t \notin suspect => status[t] = "completed"
  BY DEF StatusIsHonest
<1>3. \/ status'[t] = status[t] /\ applied'[t] = applied[t]
      \/ status'[t] = "pending" /\ applied'[t] = 0
      \/ status'[t] = "completed" /\ applied'[t] \in Nat \ {0}
      \/ /\ status'[t] = "processing" /\ applied'[t] = applied[t]
         /\ t \in suspect \/ applied[t] = 0
  <2>1. ASSUME NEW r \in Requests, Handler(r)
        PROVE  \/ status'[t] = status[t] /\ applied'[t] = applied[t]
               \/ status'[t] = "pending" /\ applied'[t] = 0
               \/ status'[t] = "completed" /\ applied'[t] \in Nat \ {0}
    BY <2>1, HandlerRow
  <2>3. ASSUME NEW p \in Replicas, Consumer(p)
        PROVE  \/ status'[t] = status[t] /\ applied'[t] = applied[t]
               \/ status'[t] = "completed" /\ applied'[t] \in Nat \ {0}
               \/ /\ status'[t] = "processing" /\ applied'[t] = applied[t]
                  /\ t \in suspect \/ applied[t] = 0
    BY <1>1, <2>3, ConsumerRow
  <2>4. CASE /\ \A r \in Requests : ~Handler(r)
             /\ \A p \in Replicas : ~Consumer(p)
    BY <2>4, OtherRows DEF dbVars
  <2> QED BY <2>1, <2>3, <2>4
<1> QED BY <1>1, <1>2, <1>3

\* Whatever fails, GET /transactions/:id never shows 'pending' once money has
\* moved nor 'completed' before it has.
THEOREM HonestStatus == Spec => []StatusIsHonest
<1>1. Init => StatusIsHonest
  BY DEF Init, StatusIsHonest
<1> QED BY <1>1, StatusIsHonestNext, Invariance, PTL DEF Spec

-----------------------------------------------------------------------------
(* The answers. *)

\* A transaction the broker has not seen and will not see.
Unsent(t) == t \notin enqueued /\ \A p \in Replicas : t \notin wire[p]

\* Answers are given by finished handlers, and all but "accepted" mean that no
\* message was sent.  A row is pending until its handler is done.
Told ==
    \A r \in Requests :
        /\ reply[r] # "none" => phase[r] = "done"
        /\ phase[r] \in {"save", "publish"} => status[r] = "pending"
        /\ phase[r] \in {"key", "insert"} => Body[r].route = "v1"
        /\ phase[r] = "v0tx" => Body[r].route = "v0"
        /\ reply[r] \notin {"none", "accepted"} => Unsent(r)

\* A transaction without a message is left alone by everybody but its handler.
LEMMA UnsentStays ==
    ASSUME IInv, [Next]_vars, NEW t \in Requests, Unsent(t), ~Handler(t)
    PROVE  Unsent(t)' /\ status'[t] = status[t] /\ applied'[t] = applied[t]
<1> USE DEF IInv, TInv, MInv
<1>1. Unsent(t)'
  <2>1. \A s \in enqueued' : s \in enqueued \/ \E p \in Replicas : s \in wire[p]
    <3>1. ASSUME NEW r \in Requests, Handler(r) PROVE enqueued' = enqueued
      BY <3>1, AwayFromConsumers DEF brokerVars
    <3>2. \/ enqueued' = enqueued
          \/ \E r \in Requests : Handler(r)
          \/ \E p \in Replicas : \E s \in wire[p] : enqueued' = enqueued \cup {s}
      BY DEF Next, Route, Deliver, ReadAck, ReadNack, Evict, Consumer, Take, MarkProcessing,
             CommitTransaction, Ack, Nack, FinishDelivery, ClientDrops, BrokerDrops, CloseSession,
             Crash, Terminate, CloseQueue, Exit, Restart, Die, vars, brokerVars
    <3> QED BY <3>1, <3>2
  <2>2. ASSUME NEW p \in Replicas PROVE t \notin wire'[p]
    <3>1. ASSUME NEW r \in Requests, Handler(r) PROVE t \notin wire'[p]
      <4>1. \/ wire' = wire
            \/ wire' = [wire EXCEPT ![host[r]] = IF session[host[r]] THEN @ \cup {r} ELSE @]
        BY <3>1 DEF Handler, Receive, ValidateUser, CheckKey, InsertPending, SaveKey, Publish,
                    CommitV0, frameVars
      <4> QED BY <3>1, <4>1 DEF Unsent, TypeOK
    <3>2. \/ wire' = wire
          \/ \E q \in Replicas : \E S : wire' = [wire EXCEPT ![q] = @ \ S]
          \/ \E q \in Replicas : wire' = [wire EXCEPT ![q] = {}]
          \/ \E r \in Requests : Handler(r)
      BY DEF Next, Route, Deliver, ReadAck, ReadNack, Evict, Consumer, Take, MarkProcessing,
             CommitTransaction, Ack, Nack, FinishDelivery, ClientDrops, BrokerDrops, CloseSession,
             Crash, Terminate, CloseQueue, Exit, Restart, Die, vars, frameVars
    <3> QED BY <3>1, <3>2 DEF Unsent, TypeOK
  <2> QED BY <2>1, <2>2 DEF Unsent
<1>2. ASSUME NEW r \in Requests, Handler(r)
      PROVE  status'[t] = status[t] /\ applied'[t] = applied[t]
  BY <1>2, HandlerRow
<1>3. ASSUME NEW p \in Replicas, Consumer(p)
      PROVE  status'[t] = status[t] /\ applied'[t] = applied[t]
  BY <1>3, ConsumerRow DEF Unsent
<1>4. CASE /\ \A r \in Requests : ~Handler(r)
           /\ \A p \in Replicas : ~Consumer(p)
  BY <1>1, <1>4, OtherRows DEF dbVars
<1> QED BY <1>1, <1>2, <1>3, <1>4

\* What a row is like that a handler leaves behind with an answer.
Outcome(what, route, row, postings) ==
    \/ what \in {"rejected", "duplicate"} /\ row = "absent"
    \/ what = "warned" /\ row = "pending"
    \/ what = "failed" /\ route = "v1" /\ row \in {"absent", "pending"}
    \/ what = "failed" /\ route = "v0" /\ row = "absent" /\ postings = 0
    \/ what = "failed" /\ route = "v0" /\ row = "completed" /\ postings = 1
    \/ what = "completed" /\ row = "completed" /\ postings = 1

\* The answers a handler can give, and what it has done by then.
LEMMA HandlerAnswer ==
    ASSUME IInv, Told, NEW r \in Requests, Handler(r)
    PROVE  /\ \A t \in Requests \ {r} : reply'[t] = reply[t] /\ phase'[t] = phase[t]
           /\ phase'[r] \in {"save", "publish"} => status'[r] = "pending"
           /\ phase'[r] \in {"key", "insert"} => Body[r].route = "v1"
           /\ phase'[r] = "v0tx" => Body[r].route = "v0"
           /\ \/ reply'[r] = "none"
              \/ phase'[r] = "done" /\ reply'[r] = "accepted" /\ status'[r] # "absent"
              \/ /\ phase'[r] = "done" /\ Unsent(r)'
                 /\ Outcome(reply'[r], Body[r].route, status'[r], applied'[r])
<1> USE DEF IInv, TInv, MInv
<1>1. phase[r] # "done" /\ reply[r] = "none" /\ applied[r] = 0 /\ Unsent(r)
  BY HandlerRow DEF Told, NotYet, Unsent
<1>2. \A t \in Requests \ {r} : reply'[t] = reply[t] /\ phase'[t] = phase[t]
  BY DEF Handler, Receive, ValidateUser, CheckKey, InsertPending, SaveKey, Publish, CommitV0,
         Goto, Answer, AnswerDuplicate, TypeOK
<1> DEFINE Step(next, what) == /\ phase' = [phase EXCEPT ![r] = next]
                               /\ reply' = [reply EXCEPT ![r] = what]
           Tells(what) == Outcome(what, Body[r].route, status'[r], applied'[r])
<1>3. \A next, what : Step(next, what) => phase'[r] = next /\ reply'[r] = what
  BY DEF TypeOK
<1>4. reply = [reply EXCEPT ![r] = "none"]
  BY <1>1 DEF TypeOK
<1>5. UNCHANGED wire => Unsent(r)'
  BY <1>1, AwayFromConsumers DEF Unsent, brokerVars
<1>6. ASSUME \/ \E p \in Replicas : Receive(r, p)
             \/ ValidateUser(r) \/ CheckKey(r)
      PROVE  /\ UNCHANGED wire
             /\ \/ \E next \in {"user", "v0tx", "key", "insert"} : Step(next, "none")
                \/ \E what \in {"rejected", "duplicate"} : Step("done", what) /\ Tells(what)
             /\ phase'[r] \in {"key", "insert"} => Body[r].route = "v1"
             /\ phase'[r] = "v0tx" => Body[r].route = "v0"
  <2>1. status'[r] = "absent" /\ UNCHANGED wire
    BY <1>6 DEF Receive, ValidateUser, CheckKey, Rows, dbVars, frameVars
  <2>2. \/ \E next \in {"user", "v0tx", "key", "insert"} : Step(next, "none")
        \/ Step("done", "rejected")
        \/ Step("done", "duplicate")
    BY <1>4, <1>6 DEF Receive, ValidateUser, CheckKey, Goto, Answer, AnswerDuplicate
  <2>3. Body[r].route \in {"v1", "v0"}
    BY BodyAssumption DEF BodyType
  <2>4. /\ phase'[r] \in {"key", "insert"} => Body[r].route = "v1"
        /\ phase'[r] = "v0tx" => Body[r].route = "v0"
    BY <1>6, <2>3 DEF Receive, ValidateUser, CheckKey, Goto, Answer, AnswerDuplicate, Told, TypeOK
  <2> QED BY <2>1, <2>2, <2>4 DEF Outcome
<1>7. ASSUME InsertPending(r)
      PROVE  /\ UNCHANGED wire
             /\ \/ \E next \in {"save", "publish"} : Step(next, "none") /\ status'[r] = "pending"
                \/ Step("done", "failed") /\ Tells("failed")
  <2>1. Body[r].route = "v1" /\ status[r] = "absent" /\ UNCHANGED wire
    BY <1>7 DEF InsertPending, Told, Rows, frameVars
  <2>2. \/ \E next \in {"save", "publish"} : Step(next, "none") /\ status'[r] = "pending"
        \/ Step("done", "failed") /\ status'[r] \in {status[r], "pending"}
    BY <1>4, <1>7 DEF InsertPending, Goto, Answer, TypeOK
  <2> QED BY <2>1, <2>2 DEF Outcome
<1>8. ASSUME SaveKey(r)
      PROVE  Step("publish", "none") /\ status'[r] = "pending"
  BY <1>4, <1>8 DEF SaveKey, Goto, Told, dbVars
<1>9. ASSUME Publish(r)
      PROVE  /\ status'[r] = "pending"
             /\ \/ Step("done", "accepted")
                \/ Step("done", "warned") /\ UNCHANGED wire /\ Tells("warned")
  BY <1>9 DEF Publish, Answer, Told, dbVars, Outcome
<1>10. ASSUME CommitV0(r)
       PROVE  \E what \in {"failed", "completed"} :
                 Step("done", what) /\ UNCHANGED wire /\ Tells(what)
  <2>1. Body[r].route = "v0" /\ status[r] = "absent" /\ UNCHANGED wire
    BY <1>10 DEF CommitV0, Told, Rows, frameVars
  <2>2. \/ /\ \E what \in {"failed", "completed"} : Step("done", what)
           /\ status'[r] = "completed" /\ applied'[r] = 1
        \/ Step("done", "failed") /\ UNCHANGED <<status, applied>>
    BY <1>1, <1>10 DEF CommitV0, Answer, PostToBalance, dbVars, TypeOK
  <2> QED BY <1>1, <2>1, <2>2 DEF Outcome
<1> HIDE DEF Step, Tells
<1>11. /\ phase'[r] \in {"save", "publish"} => status'[r] = "pending"
       /\ phase'[r] \in {"key", "insert"} => Body[r].route = "v1"
       /\ phase'[r] = "v0tx" => Body[r].route = "v0"
  BY <1>3, <1>6, <1>7, <1>8, <1>9, <1>10 DEF Handler
<1>12. \/ reply'[r] = "none"
       \/ phase'[r] = "done" /\ reply'[r] = "accepted" /\ status'[r] # "absent"
       \/ phase'[r] = "done" /\ Unsent(r)' /\ Tells(reply'[r])
  BY <1>3, <1>5, <1>6, <1>7, <1>8, <1>9, <1>10 DEF Handler
<1> QED BY <1>2, <1>11, <1>12 DEF Tells

\* The clauses of AnswerTellsOutcome for one transaction, messages aside.
Agrees(what, route, row, postings) ==
    /\ what \in {"rejected", "duplicate"} => row = "absent"
    /\ what = "accepted" => row # "absent"
    /\ what = "warned" => row = "pending"
    /\ what = "failed" /\ route = "v1" => row \in {"absent", "pending"}
    /\ what = "failed" /\ route = "v0" =>
          \/ row = "absent" /\ postings = 0
          \/ row = "completed" /\ postings = 1
    /\ what = "completed" => row = "completed" /\ postings = 1

\* Answers and what they say are preserved by every step.
LEMMA AnswerNext ==
    ASSUME IInv, Told, AnswerTellsOutcome, [Next]_vars
    PROVE  Told' /\ AnswerTellsOutcome'
<1> USE DEF IInv, TInv, MInv
<1>1. ASSUME NEW t \in Requests
      PROVE  /\ reply'[t] # "none" => phase'[t] = "done"
             /\ phase'[t] \in {"save", "publish"} => status'[t] = "pending"
             /\ phase'[t] \in {"key", "insert"} => Body[t].route = "v1"
             /\ phase'[t] = "v0tx" => Body[t].route = "v0"
             /\ reply'[t] \notin {"none", "accepted"} => Unsent(t)'
             /\ Agrees(reply'[t], Body[t].route, status'[t], applied'[t])
  <2>1. CASE Handler(t)
    BY <2>1, HandlerAnswer DEF Outcome, Agrees
  <2>2. CASE ~Handler(t)
    <3>1. /\ reply'[t] = reply[t]
          /\ phase'[t] = phase[t] \/ (phase[t] # "done" /\ phase'[t] = "gone")
          /\ status'[t] = "absent" <=> status[t] = "absent"
      BY <2>2, OutsideHandlers, HandlerAnswer, HandlerRow
    <3>2. Unsent(t) => Unsent(t)' /\ status'[t] = status[t] /\ applied'[t] = applied[t]
      BY <2>2, UnsentStays
    <3>3. phase[t] # "done" => Unsent(t)
      BY DEF NotYet, Unsent
    <3>4. Agrees(reply[t], Body[t].route, status[t], applied[t])
      BY DEF AnswerTellsOutcome, Agrees
    <3> QED BY <3>1, <3>2, <3>3, <3>4 DEF Told, Agrees
  <2> QED BY <2>1, <2>2
<1>2. Told'
  BY <1>1 DEF Told
<1>3. AnswerTellsOutcome'
  <2>1. IInv'
    BY IInvNext
  <2>2. ASSUME NEW t \in Requests, reply'[t] \in {"warned", "failed"} PROVE ~InFlight(t)'
    <3>1. Unsent(t)'
      BY <1>1, <2>2
    <3> QED BY <2>1, <3>1 DEF OnePlace, Unsent, InFlight
  <2> QED BY <1>1, <2>2 DEF AnswerTellsOutcome, Agrees
<1> QED BY <1>2, <1>3

\* What a client was told about its transaction is true and stays true: a
\* request refused or recognised leaves no row, what needs manual processing is
\* pending and nobody else will process it, nor what failed and left a row, what
\* /v0 reports completed is posted once and what it reports failed at most once.
THEOREM AnswersHold == Spec => []AnswerTellsOutcome
<1>1. Init => Told /\ AnswerTellsOutcome
  BY DEF Init, Told, AnswerTellsOutcome
<1> QED BY <1>1, AnswerNext, Invariance, PTL DEF Spec

-----------------------------------------------------------------------------
(* What "already_processed" is worth. *)

\* About to be published, or published and accepted.
Sent(t) == phase[t] = "publish" \/ reply[t] = "accepted"

\* What a key in Redis or a duplicate answer names has been sent.
KeysNameSent ==
    /\ \A k \in Users \X Keys, t \in Requests : idem[k] = t => Sent(t)
    /\ \A r \in Requests : reply[r] = "duplicate" =>
          \E t \in Requests : original[r] = t /\ Sent(t)

\* Without lost processes and connections, what was sent stays sent.
LEMMA SentStays ==
    ASSUME NoLoss, IInv, Told, Connected, [Next]_vars, NEW t \in Requests, Sent(t)
    PROVE  Sent(t)'
<1> USE DEF IInv, TInv
<1>1. CASE \A r \in Requests : ~Handler(r)
  <2>1. \A p \in Replicas : ~Die(p)
    BY ConnectedNext DEF Connected, Die, TypeOK
  <2> QED BY <1>1, <2>1, AwayFromHandlers DEF Sent, handlerVars
<1>2. ASSUME NEW r \in Requests, Handler(r) PROVE Sent(t)'
  <2>1. CASE r # t
    BY <1>2, <2>1, HandlerAnswer DEF Sent
  <2>2. CASE r = t
    <3>1. phase[t] = "publish"
      BY <1>2, <2>2, HandlerRow DEF Sent, Told
    <3>2. Publish(t) /\ host[t] \in Replicas /\ channel[host[t]]
      BY <1>2, <2>2, <3>1 DEF Handler, Receive, ValidateUser, CheckKey, InsertPending, SaveKey,
                              CommitV0, Connected, Hosted, TypeOK
    <3> QED BY <3>2 DEF Publish, Answer, Sent, TypeOK
  <2> QED BY <2>1, <2>2
<1> QED BY <1>1, <1>2

\* A key is saved by a handler that publishes next, and answered from Redis.
LEMMA KeysNameSentNext ==
    ASSUME NoLoss, IInv, Told, Connected, KeysNameSent, [Next]_vars
    PROVE  KeysNameSent'
<1> USE DEF IInv, TInv
<1>1. ASSUME NEW k \in Users \X Keys, NEW t \in Requests, idem'[k] = t PROVE Sent(t)'
  <2>1. CASE idem[k] = t
    BY <2>1, SentStays DEF KeysNameSent
  <2>2. CASE idem[k] # t
    <3>1. PICK r \in Requests : Handler(r)
      BY <1>1, <2>2, OutsideHandlers, NobodyAssumption DEF TypeOK
    <3>2. SaveKey(r) /\ idem' = [idem EXCEPT ![IdempotencyKey(r)] = r]
      BY <1>1, <2>2, <3>1 DEF Handler, Receive, ValidateUser, CheckKey, InsertPending, SaveKey,
                              Publish, CommitV0
    <3>3. t = r /\ phase'[r] = "publish"
      BY <1>1, <2>2, <3>2 DEF SaveKey, Goto, TypeOK
    <3> QED BY <3>3 DEF Sent
  <2> QED BY <2>1, <2>2
<1>2. ASSUME NEW r \in Requests, reply'[r] = "duplicate"
      PROVE  \E t \in Requests : original'[r] = t /\ Sent(t)'
  <2>1. CASE reply[r] = "duplicate" /\ original'[r] = original[r]
    BY <2>1, SentStays DEF KeysNameSent
  <2>2. CASE CheckKey(r) /\ original' = [original EXCEPT ![r] = idem[IdempotencyKey(r)]]
             /\ idem[IdempotencyKey(r)] # Nobody
    <3>1. IdempotencyKey(r) \in Users \X Keys
      BY <2>2, KeyType DEF CheckKey, Keyed
    <3>2. PICK t \in Requests : idem[IdempotencyKey(r)] = t
      BY <2>2, <3>1 DEF TypeOK
    <3>3. Sent(t)' /\ original'[r] = t
      BY <2>2, <3>1, <3>2, SentStays DEF KeysNameSent, TypeOK
    <3> QED BY <3>3
  <2>3. CASE \A s \in Requests : ~Handler(s)
    BY <1>2, <2>1, <2>3, OutsideHandlers
  <2>4. ASSUME NEW s \in Requests, Handler(s)
        PROVE  \/ reply[r] = "duplicate" /\ original'[r] = original[r]
               \/ /\ CheckKey(r) /\ original' = [original EXCEPT ![r] = idem[IdempotencyKey(r)]]
                  /\ idem[IdempotencyKey(r)] # Nobody
    BY <1>2, <2>4 DEF Handler, Receive, ValidateUser, CheckKey, InsertPending, SaveKey, Publish,
                      CommitV0, Goto, Answer, AnswerDuplicate, TypeOK
  <2> QED BY <2>1, <2>2, <2>3, <2>4
<1> QED BY <1>1, <1>2 DEF KeysNameSent

\* When no process or connection is lost and the queue has room for every
\* request, "already_processed" is never said of a transaction that is neither
\* on its way nor posted: only a crash, a lost connection or a full queue
\* between the saved key and the broker makes it untrue.
THEOREM DuplicatesBacked ==
    ASSUME NoLoss, RoomForAll
    PROVE  Spec => []DuplicateReplyIsBacked
<1>1. Init => Told /\ AnswerTellsOutcome /\ Connected /\ KeysNameSent
  BY NobodyAssumption DEF Init, Told, AnswerTellsOutcome, Connected, KeysNameSent
<1>2. Connected /\ [Next]_vars => Connected'
  BY ConnectedNext
<1>3. IInv /\ Told /\ AnswerTellsOutcome /\ [Next]_vars => Told' /\ AnswerTellsOutcome'
  BY AnswerNext
<1>4. IInv /\ Told /\ Connected /\ KeysNameSent /\ [Next]_vars => KeysNameSent'
  BY KeysNameSentNext
<1>5. AcceptedIsHeld /\ KeysNameSent => DuplicateReplyIsBacked
  BY DEF AcceptedIsHeld, KeysNameSent, Sent, DuplicateReplyIsBacked
<1> QED BY <1>1, <1>2, <1>3, <1>4, <1>5, AcceptedHeld, Invariance, PTL DEF Spec

=============================================================================
