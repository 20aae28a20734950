--------------------- MODULE TransactionPostingsProofs ---------------------
(***************************************************************************)
(* How often an amount reaches a balance, and what the amounts add up to:  *)
(* proofs about the number of postings in TransactionPipeline, by counting *)
(* the chances that are left to post a transaction and what it takes to    *)
(* get another one, and about the books of a user.                         *)
(***************************************************************************)
EXTENDS TransactionPipelineProofs

-----------------------------------------------------------------------------
(* Chances to post. *)

\* Consumer p may still post t, or give it back.
Holds(p, t) ==
    \/ t \in inbox[p] \cup nacks[p]
    \/ current[p] = t /\ step[p] \in {"mark", "commit", "nack"}

\* Who may still post t, or have it posted again: its handler, the wire, the
\* queue and the consumers.
Chances(t) ==
    {x \in {"handler", "queue", "wire", "consumer"} \X (Replicas \cup {Nowhere}) :
        \/ x = <<"handler", Nowhere>> /\ phase[t] \notin {"done", "gone"}
        \/ x = <<"queue", Nowhere>> /\ t \in ready
        \/ \E p \in Replicas :
              \/ x = <<"wire", p>> /\ t \in wire[p]
              \/ x = <<"consumer", p>> /\ Holds(p, t)}

\* How often t is in the balance if every chance is used.
Weight(t) == Cardinality(Chances(t)) + applied[t]

\* A session that is going to be closed with whatever is unacknowledged in it:
\* its client is gone, or about to close it.
Owed == {p \in Replicas : session[p] /\ (~channel[p] \/ process[p] = "draining")}

\* What is owed to failures: every time but the first that t is or may be in
\* the balance, and Prefetch more for a session that is going to be closed.
Debt ==
    (UNION {{t} \X (2..Weight(t)) : t \in Requests})
      \cup ({Nobody} \X (Owed \X (1..Prefetch)))

\* The failures so far pay for it.
Paid == IsFiniteSet(Debt) /\ Cardinality(Debt) <= Prefetch * faults

\* The broker keeps to the prefetch limit.
Limited ==
    \A p \in Replicas : IsFiniteSet(unacked[p]) /\ Cardinality(unacked[p]) <= Prefetch

\* There are finitely many chances.
LEMMA ChancesFinite ==
    ASSUME NEW t
    PROVE  IsFiniteSet(Chances(t)) /\ IsFiniteSet(Chances(t))'
<1> DEFINE All == {"handler", "queue", "wire", "consumer"} \X (Replicas \cup {Nowhere})
<1>1. IsFiniteSet({"handler", "queue", "wire", "consumer"})
  <2>1. /\ IsFiniteSet({"handler"}) /\ IsFiniteSet({"queue"}) /\ IsFiniteSet({"wire"})
        /\ IsFiniteSet({"consumer"})
    BY FS_Singleton
  <2>2. IsFiniteSet({"handler"} \cup {"queue"} \cup {"wire"} \cup {"consumer"})
    BY <2>1, FS_Union
  <2>3. {"handler"} \cup {"queue"} \cup {"wire"} \cup {"consumer"}
          = {"handler", "queue", "wire", "consumer"}
    OBVIOUS
  <2> QED BY <2>2, <2>3
<1>2. IsFiniteSet(Replicas \cup {Nowhere})
  BY ReplicasAssumption, FS_AddElement
<1>3. IsFiniteSet(All)
  BY <1>1, <1>2, FS_Product
<1>4. Chances(t) \subseteq All /\ Chances(t)' \subseteq All
  BY DEF Chances
<1> HIDE DEF All
<1> QED BY <1>3, <1>4, FS_Subset

\* What the number of elements does when at most one element comes, when one
\* goes, and when one comes in place of another.
LEMMA Counting ==
    ASSUME NEW S, IsFiniteSet(S), NEW T, IsFiniteSet(T)
    PROVE  /\ Cardinality(S) \in Nat /\ Cardinality(T) \in Nat
           /\ T \subseteq S => Cardinality(T) <= Cardinality(S)
           /\ \A y : T \subseteq S \cup {y} => Cardinality(T) <= Cardinality(S) + 1
           /\ \A x \in S : T \subseteq S \ {x} => Cardinality(T) <= Cardinality(S) - 1
           /\ \A x \in S : \A y : T \subseteq (S \ {x}) \cup {y} => Cardinality(T) <= Cardinality(S)
<1>1. Cardinality(S) \in Nat /\ Cardinality(T) \in Nat
  BY FS_CardinalityType
<1>2. ASSUME NEW U, IsFiniteSet(U), NEW y, T \subseteq U \cup {y}
      PROVE  Cardinality(T) <= Cardinality(U) + 1
  <2>1. IsFiniteSet(U \cup {y}) /\ Cardinality(U \cup {y}) \in {Cardinality(U), Cardinality(U) + 1}
    BY <1>2, FS_AddElement
  <2>2. Cardinality(T) <= Cardinality(U \cup {y})
    BY <1>2, <2>1, FS_Subset
  <2>3. Cardinality(U) \in Nat
    BY <1>2, FS_CardinalityType
  <2> QED BY <1>1, <2>1, <2>2, <2>3
<1>3. T \subseteq S => Cardinality(T) <= Cardinality(S)
  BY FS_Subset
<1>4. \A x \in S : /\ IsFiniteSet(S \ {x}) /\ Cardinality(S \ {x}) = Cardinality(S) - 1
                   /\ T \subseteq S \ {x} => Cardinality(T) <= Cardinality(S \ {x})
  BY FS_RemoveElement, FS_Subset
<1>5. ASSUME NEW x \in S, NEW y, T \subseteq (S \ {x}) \cup {y}
      PROVE  Cardinality(T) <= Cardinality(S)
  <2>1. Cardinality(T) <= Cardinality(S \ {x}) + 1
    BY <1>2, <1>4, <1>5
  <2> QED BY <1>1, <1>4, <2>1
<1> QED BY <1>1, <1>2, <1>3, <1>4, <1>5

-----------------------------------------------------------------------------
(* Steps. *)

\* A step is free for t: a chance passes from one to another, or a posting uses
\* one up.
Free(t) ==
    \/ /\ applied'[t] = applied[t]
       /\ \/ Chances(t)' \subseteq Chances(t)
          \/ \E x \in Chances(t) : \E y : Chances(t)' \subseteq (Chances(t) \ {x}) \cup {y}
    \/ /\ applied'[t] = applied[t] + 1
       /\ \E x \in Chances(t) : Chances(t)' \subseteq Chances(t) \ {x}

\* A step costs t: there is one chance more, or one posting that used none up.
Costs(t) ==
    \/ applied'[t] = applied[t] /\ \E y : Chances(t)' \subseteq Chances(t) \cup {y}
    \/ applied'[t] = applied[t] + 1 /\ Chances(t)' \subseteq Chances(t)

\* What the two kinds of steps do to the weight of t.
LEMMA WeightStep ==
    ASSUME TypeOK, TypeOK', NEW t \in Requests
    PROVE  /\ Weight(t) \in Nat /\ Weight(t)' \in Nat
           /\ applied[t] <= Weight(t)
           /\ Free(t) => Weight(t)' <= Weight(t)
           /\ Costs(t) => Weight(t)' <= Weight(t) + 1
<1> DEFINE S == Chances(t)
<1> DEFINE T == Chances(t)'
<1>1. IsFiniteSet(S) /\ IsFiniteSet(T)
  BY ChancesFinite
<1>2. /\ applied[t] \in Nat /\ applied'[t] \in Nat
      /\ Weight(t) = Cardinality(S) + applied[t] /\ Weight(t)' = Cardinality(T) + applied'[t]
  BY DEF TypeOK, Weight
<1>3. Free(t) => \/ applied'[t] = applied[t] /\ T \subseteq S
                 \/ applied'[t] = applied[t] /\ \E x \in S : \E y : T \subseteq (S \ {x}) \cup {y}
                 \/ applied'[t] = applied[t] + 1 /\ \E x \in S : T \subseteq S \ {x}
  BY DEF Free
<1>4. Costs(t) => \/ applied'[t] = applied[t] /\ \E y : T \subseteq S \cup {y}
                  \/ applied'[t] = applied[t] + 1 /\ T \subseteq S
  BY DEF Costs
<1> HIDE DEF S, T
<1>5. Cardinality(S) \in Nat /\ Cardinality(T) \in Nat
  BY <1>1, Counting
<1>6. Free(t) => \/ applied'[t] = applied[t] /\ Cardinality(T) <= Cardinality(S)
                 \/ applied'[t] = applied[t] + 1 /\ Cardinality(T) <= Cardinality(S) - 1
  BY <1>1, <1>3, Counting
<1>7. Costs(t) => \/ applied'[t] = applied[t] /\ Cardinality(T) <= Cardinality(S) + 1
                  \/ applied'[t] = applied[t] + 1 /\ Cardinality(T) <= Cardinality(S)
  BY <1>1, <1>4, Counting
<1> QED BY <1>2, <1>5, <1>6, <1>7

\* As many units as there are transactions, or places in a prefetch window.
LEMMA Sizes ==
    /\ \A S : IsFiniteSet(S) =>
          LET N == {<<o, Weight(o) + 1>> : o \in S}
          IN  IsFiniteSet(N) /\ Cardinality(N) \in Nat /\ Cardinality(N) <= Cardinality(S)
    /\ \A q : LET Q == {Nobody} \X ({q} \X (1..Prefetch))
              IN  IsFiniteSet(Q) /\ Cardinality(Q) = Prefetch
<1>1. ASSUME NEW S, IsFiniteSet(S)
      PROVE  LET N == {<<o, Weight(o) + 1>> : o \in S}
             IN  IsFiniteSet(N) /\ Cardinality(N) \in Nat /\ Cardinality(N) <= Cardinality(S)
  <2> DEFINE N == {<<o, Weight(o) + 1>> : o \in S}
             f == [o \in S |-> <<o, Weight(o) + 1>>]
  <2>1. f \in Surjection(S, N)
    BY DEF Surjection
  <2> HIDE DEF N, f
  <2>2. IsFiniteSet(N) /\ Cardinality(N) <= Cardinality(S)
    BY <1>1, <2>1, FS_Surjection
  <2> QED BY <2>2, FS_CardinalityType DEF N
<1>2. ASSUME NEW q
      PROVE  LET Q == {Nobody} \X ({q} \X (1..Prefetch))
             IN  IsFiniteSet(Q) /\ Cardinality(Q) = Prefetch
  <2>1. Prefetch \in Nat \ {0}
    BY BoundsAssumption
  <2>2. IsFiniteSet(1..Prefetch) /\ Cardinality(1..Prefetch) = Prefetch
    <3>1. /\ IsFiniteSet(1..Prefetch)
          /\ Cardinality(1..Prefetch) = IF 1 > Prefetch THEN 0 ELSE Prefetch - 1 + 1
      BY <2>1, FS_Interval
    <3> QED BY <2>1, <3>1
  <2>3. /\ IsFiniteSet({q}) /\ Cardinality({q}) = 1
        /\ IsFiniteSet({Nobody}) /\ Cardinality({Nobody}) = 1
    BY FS_Singleton
  <2>4. ASSUME NEW A, NEW B, IsFiniteSet(A), Cardinality(A) = 1,
               IsFiniteSet(B), Cardinality(B) = Prefetch
        PROVE  IsFiniteSet(A \X B) /\ Cardinality(A \X B) = Prefetch
    <3>1. IsFiniteSet(A \X B) /\ Cardinality(A \X B) = Cardinality(A) * Cardinality(B)
      BY <2>4, FS_Product
    <3>2. Cardinality(A) * Cardinality(B) = Prefetch
      <4>1. 1 * Prefetch = Prefetch
        BY <2>1
      <4> QED BY <2>4, <4>1
    <3> QED BY <3>1, <3>2
  <2>5. IsFiniteSet({q} \X (1..Prefetch)) /\ Cardinality({q} \X (1..Prefetch)) = Prefetch
    BY <2>2, <2>3, <2>4
  <2> QED BY <2>3, <2>4, <2>5
<1> QED BY <1>1, <1>2

\* A set to which another is added, with or without a third taken away.
LEMMA Adding ==
    ASSUME NEW S, IsFiniteSet(S), NEW N, IsFiniteSet(N), NEW T
    PROVE  /\ T \subseteq S \cup N =>
                 IsFiniteSet(T) /\ Cardinality(T) <= Cardinality(S) + Cardinality(N)
           /\ \A Q : Q \subseteq S /\ T \subseteq (S \ Q) \cup N =>
                 /\ IsFiniteSet(T)
                 /\ Cardinality(T) <= Cardinality(S) - Cardinality(Q) + Cardinality(N)
<1>1. ASSUME NEW U, IsFiniteSet(U), T \subseteq U \cup N
      PROVE  IsFiniteSet(T) /\ Cardinality(T) <= Cardinality(U) + Cardinality(N)
  <2>1. /\ IsFiniteSet(U \cup N)
        /\ Cardinality(U \cup N) = Cardinality(U) + Cardinality(N) - Cardinality(U \cap N)
    BY <1>1, FS_Union
  <2>2. IsFiniteSet(T) /\ Cardinality(T) <= Cardinality(U \cup N)
    BY <1>1, <2>1, FS_Subset
  <2>3. IsFiniteSet(U \cap N)
    BY <1>1, FS_Intersection
  <2>4. /\ Cardinality(U) \in Nat /\ Cardinality(N) \in Nat /\ Cardinality(U \cap N) \in Nat
        /\ Cardinality(T) \in Nat
    BY <1>1, <2>2, <2>3, FS_CardinalityType
  <2> QED BY <2>1, <2>2, <2>4
<1>2. ASSUME NEW Q, Q \subseteq S, T \subseteq (S \ Q) \cup N
      PROVE  /\ IsFiniteSet(T)
             /\ Cardinality(T) <= Cardinality(S) - Cardinality(Q) + Cardinality(N)
  <2>1. /\ IsFiniteSet(S \ Q)
        /\ Cardinality(S \ Q) = Cardinality(S) - Cardinality(S \cap Q)
    BY FS_Difference
  <2>2. S \cap Q = Q
    BY <1>2
  <2> QED BY <1>1, <1>2, <2>1, <2>2
<1> QED BY <1>1, <1>2

\* A step is paid for if it is free for every transaction, if a failure pays for
\* up to Prefetch of them or for a session to be closed, or if the session that
\* was to be closed is.
LEMMA PaidStep ==
    ASSUME TypeOK, TypeOK', Paid, faults' \in {faults, faults + 1},
           NEW S \in SUBSET Requests, IsFiniteSet(S), Cardinality(S) <= Prefetch,
           \A t \in Requests : Free(t) \/ (t \in S /\ Costs(t)),
           \/ S = {} /\ Owed' \subseteq Owed
           \/ faults' = faults + 1 /\ Owed' \subseteq Owed
           \/ /\ faults' = faults + 1 /\ S = {}
              /\ \E q \in Replicas : Owed' \subseteq Owed \cup {q}
           \/ \E q \in Owed : Owed' \subseteq Owed \ {q}
    PROVE  Paid'
<1> DEFINE N == {<<o, Weight(o) + 1>> : o \in S}
           Q(q) == {Nobody} \X ({q} \X (1..Prefetch))
           Units(w, s) == (UNION {{t} \X (2..w[t]) : t \in Requests})
                            \cup ({Nobody} \X (s \X (1..Prefetch)))
           w0 == [t \in Requests |-> Weight(t)]
           w1 == [t \in Requests |-> Weight(t)']
<1>1. /\ faults \in Nat /\ Prefetch \in Nat \ {0}
      /\ faults' = faults \/ faults' = faults + 1
  BY BoundsAssumption DEF TypeOK
<1>2. \A t \in Requests : /\ w0[t] \in Nat /\ w1[t] \in Nat
                          /\ Free(t) => w1[t] <= w0[t]
                          /\ Costs(t) => w1[t] <= w0[t] + 1
  BY WeightStep
<1>3. Debt = Units(w0, Owed) /\ Debt' = Units(w1, Owed')
  BY DEF Debt
<1>4. N = {<<o, w0[o] + 1>> : o \in S}
  OBVIOUS
<1> HIDE DEF w0, w1
<1>5. \A t \in Requests : \A n \in Int :
         n \in 2..w1[t] => n \in 2..w0[t] \/ (t \in S /\ n = w0[t] + 1)
  BY <1>2
<1>6. \A s : \A x \in Units(w1, s) : x \in Units(w0, s) \/ x \in N
  BY <1>4, <1>5
<1>7. /\ Owed' \subseteq Owed => Debt' \subseteq Debt \cup N
      /\ \A q \in Replicas : Owed' \subseteq Owed \cup {q} => Debt' \subseteq (Debt \cup N) \cup Q(q)
      /\ \A q \in Owed : Owed' \subseteq Owed \ {q} =>
            Q(q) \subseteq Debt /\ Debt' \subseteq (Debt \ Q(q)) \cup N
  <2>1. \A s : Owed' \subseteq s => Debt' \subseteq Units(w0, s) \cup N
    BY <1>3, <1>6
  <2>2. \A q : Units(w0, Owed \cup {q}) \subseteq Debt \cup Q(q)
    BY <1>3
  <2>3. \A q \in Owed : /\ Q(q) \subseteq Debt
                        /\ Units(w0, Owed \ {q}) \subseteq Debt
                        /\ Units(w0, Owed \ {q}) \cap Q(q) = {}
    BY <1>3, NobodyAssumption
  <2> HIDE DEF Units, Q, N
  <2>4. ASSUME NEW q \in Owed, Owed' \subseteq Owed \ {q}
        PROVE  Q(q) \subseteq Debt /\ Debt' \subseteq (Debt \ Q(q)) \cup N
    BY <2>1, <2>3, <2>4
  <2> QED BY <1>3, <2>1, <2>2, <2>4
<1>8. /\ IsFiniteSet(N) /\ Cardinality(N) \in Nat /\ Cardinality(N) <= Cardinality(S)
      /\ \A q : IsFiniteSet(Q(q)) /\ Cardinality(Q(q)) = Prefetch
      /\ S = {} => Cardinality(N) = 0
  <2>1. S = {} => Cardinality(S) = 0
    BY FS_EmptySet
  <2> QED BY <2>1, Sizes, FS_CardinalityType
<1> HIDE DEF N, Q, Units
<1>9. Cardinality(S) \in Nat /\ Cardinality(Debt) \in Nat
  BY FS_CardinalityType DEF Paid
<1>10. IsFiniteSet(Debt) /\ Cardinality(Debt) <= Prefetch * faults
  BY DEF Paid
<1>11. /\ Prefetch * faults \in Nat /\ Prefetch * (faults + 1) = Prefetch * faults + Prefetch
  BY <1>1
<1>12. CASE S = {} /\ Owed' \subseteq Owed
  <2>1. IsFiniteSet(Debt') /\ Cardinality(Debt') <= Cardinality(Debt) + Cardinality(N)
    BY <1>7, <1>8, <1>10, <1>12, Adding
  <2>2. Cardinality(Debt') \in Nat
    BY <2>1, FS_CardinalityType
  <2> QED BY <1>1, <1>8, <1>9, <1>10, <1>11, <1>12, <2>1, <2>2 DEF Paid
<1>13. CASE faults' = faults + 1 /\ Owed' \subseteq Owed
  <2>1. IsFiniteSet(Debt') /\ Cardinality(Debt') <= Cardinality(Debt) + Cardinality(N)
    BY <1>7, <1>8, <1>10, <1>13, Adding
  <2>2. Cardinality(Debt') \in Nat
    BY <2>1, FS_CardinalityType
  <2> QED BY <1>1, <1>8, <1>9, <1>10, <1>11, <1>13, <2>1, <2>2 DEF Paid
<1>14. CASE /\ faults' = faults + 1 /\ S = {}
            /\ \E q \in Replicas : Owed' \subseteq Owed \cup {q}
  <2>1. PICK q \in Replicas : Owed' \subseteq Owed \cup {q}
    BY <1>14
  <2>2. /\ IsFiniteSet(Debt \cup N)
        /\ Cardinality(Debt \cup N) <= Cardinality(Debt) + Cardinality(N)
    BY <1>8, <1>10, Adding
  <2>3. /\ IsFiniteSet(Debt')
        /\ Cardinality(Debt') <= Cardinality(Debt \cup N) + Cardinality(Q(q))
    BY <1>7, <1>8, <2>1, <2>2, Adding
  <2>4. Cardinality(Debt') \in Nat /\ Cardinality(Debt \cup N) \in Nat
    BY <2>2, <2>3, FS_CardinalityType
  <2> QED BY <1>1, <1>8, <1>9, <1>10, <1>11, <1>14, <2>2, <2>3, <2>4 DEF Paid
<1>15. CASE \E q \in Owed : Owed' \subseteq Owed \ {q}
  <2>1. PICK q \in Owed : Owed' \subseteq Owed \ {q}
    BY <1>15
  <2>2. /\ IsFiniteSet(Debt')
        /\ Cardinality(Debt') <= Cardinality(Debt) - Cardinality(Q(q)) + Cardinality(N)
    BY <1>7, <1>8, <1>10, <2>1, Adding
  <2>3. Cardinality(Debt') \in Nat
    BY <2>2, FS_CardinalityType
  <2>4. Cardinality(Debt') <= Prefetch * faults
    BY <1>1, <1>8, <1>9, <1>10, <1>11, <2>2, <2>3
  <2> QED BY <1>1, <1>11, <2>2, <2>3, <2>4 DEF Paid
<1> QED BY <1>12, <1>13, <1>14, <1>15

\* A step in which nobody gets a chance.
LEMMA NoNewChance ==
    ASSUME NEW t \in Requests,
           phase'[t] = phase[t] \/ phase'[t] \in {"done", "gone"} \/ phase[t] \notin {"done", "gone"},
           t \in ready' => t \in ready,
           \A p \in Replicas :
              /\ t \in wire'[p] => t \in wire[p]
              /\ Holds(p, t)' => Holds(p, t)
    PROVE  Chances(t)' \subseteq Chances(t)
BY DEF Chances

\* A handler posts or passes its chance on to the wire, or loses it.
LEMMA HandlerFree ==
    ASSUME IInv, NEW r \in Requests, Handler(r), NEW t \in Requests
    PROVE  Free(t)
<1> USE DEF IInv, TInv
<1>1. UNCHANGED <<ready, inbox, nacks, step, current>>
  BY AwayFromConsumers DEF brokerVars, consumerVars
<1>2. \A p \in Replicas : Holds(p, t)' <=> Holds(p, t)
  BY <1>1 DEF Holds
<1>3. phase[r] \notin {"done", "gone"} /\ \E next : phase' = [phase EXCEPT ![r] = next]
  BY DEF Handler, Receive, ValidateUser, CheckKey, InsertPending, SaveKey, Publish, CommitV0,
         Goto, Answer, AnswerDuplicate
<1>4. phase'[t] = phase[t] \/ phase[t] \notin {"done", "gone"}
  BY <1>3 DEF TypeOK
<1>5. ASSUME UNCHANGED wire PROVE Chances(t)' \subseteq Chances(t)
  BY <1>1, <1>2, <1>4, <1>5, NoNewChance
<1>6. CASE Publish(r)
  <2>1. UNCHANGED applied
    BY <1>6 DEF Publish, dbVars
  <2>2. CASE \A p \in Replicas : t \in wire'[p] => t \in wire[p]
    <3>1. Chances(t)' \subseteq Chances(t)
      BY <1>1, <1>2, <1>4, <2>2, NoNewChance
    <3> QED BY <2>1, <3>1 DEF Free
  <2>3. CASE \E p \in Replicas : t \in wire'[p] /\ t \notin wire[p]
    <3>1. /\ r = t /\ phase'[t] = "done"
          /\ wire' = [wire EXCEPT ![host[t]] = @ \cup {t}]
      <4>1. wire \in [Replicas -> SUBSET Requests]
        BY DEF TypeOK
      <4>2. \/ wire' = wire
            \/ wire' = [wire EXCEPT ![host[r]] = @]
            \/ wire' = [wire EXCEPT ![host[r]] = @ \cup {r}]
        BY <1>6 DEF Publish
      <4>3. wire' = [wire EXCEPT ![host[r]] = @ \cup {r}]
        BY <2>3, <4>1, <4>2
      <4>4. r = t
        BY <2>3, <4>1, <4>3
      <4>5. phase'[r] = "done"
        BY <1>6 DEF Publish, Answer, TypeOK
      <4> QED BY <4>3, <4>4, <4>5
    <3>2. <<"handler", Nowhere>> \in Chances(t)
      BY <1>3, <3>1 DEF Chances
    <3>3. Chances(t)' \subseteq (Chances(t) \ {<<"handler", Nowhere>>}) \cup {<<"wire", host[t]>>}
      BY <1>1, <1>2, <3>1 DEF Chances, TypeOK
    <3> QED BY <2>1, <3>2, <3>3 DEF Free
  <2> QED BY <2>2, <2>3
<1>7. CASE CommitV0(r)
  <2>1. UNCHANGED wire
    BY <1>7 DEF CommitV0, frameVars
  <2>2. CASE applied'[t] = applied[t]
    BY <1>5, <2>1, <2>2 DEF Free
  <2>3. CASE applied'[t] # applied[t]
    <3>1. r = t /\ applied'[t] = applied[t] + 1 /\ phase'[t] = "done"
      BY <1>7, <2>3 DEF CommitV0, Answer, PostToBalance, dbVars, TypeOK
    <3>2. <<"handler", Nowhere>> \in Chances(t)
      BY <1>3, <3>1 DEF Chances
    <3>3. <<"handler", Nowhere>> \notin Chances(t)'
      BY <3>1 DEF Chances
    <3>4. Chances(t)' \subseteq Chances(t) \ {<<"handler", Nowhere>>}
      BY <1>5, <2>1, <3>3
    <3> QED BY <3>1, <3>2, <3>4 DEF Free
  <2> QED BY <2>2, <2>3
<1>8. CASE UNCHANGED <<wire, applied>>
  BY <1>5, <1>8 DEF Free
<1> QED BY <1>6, <1>7, <1>8
        DEF Handler, Receive, ValidateUser, CheckKey, InsertPending, SaveKey, dbVars, frameVars

\* The broker passes a chance on, or drops it; what is given back is back.
LEMMA BrokerFree ==
    ASSUME IInv, NEW p \in Replicas, NEW o \in Requests,
           Route(p, o) \/ Deliver(p, o) \/ ReadAck(p, o) \/ ReadNack(p, o),
           NEW t \in Requests
    PROVE  Free(t)
<1> USE DEF IInv, TInv
<1>1. UNCHANGED <<phase, applied, step, current>>
  BY DEF Route, Deliver, ReadAck, ReadNack, handlerVars, dbVars, consumerVars
<1>2. CASE Route(p, o)
  <2>1. /\ o \in wire[p] /\ wire' = [wire EXCEPT ![p] = @ \ {o}] /\ UNCHANGED <<inbox, nacks>>
        /\ ready' = ready \/ ready' = ready \cup {o}
    BY <1>2 DEF Route, consumerVars
  <2>2. \A q \in Replicas : /\ t \in wire'[q] => t \in wire[q]
                            /\ Holds(q, t)' <=> Holds(q, t)
    BY <1>1, <2>1 DEF Holds, TypeOK
  <2>3. CASE t \notin ready' \/ t \in ready
    <3>1. Chances(t)' \subseteq Chances(t)
      BY <1>1, <2>2, <2>3, NoNewChance
    <3> QED BY <1>1, <3>1 DEF Free
  <2>4. CASE t \in ready' /\ t \notin ready
    <3>1. t = o /\ t \notin wire'[p]
      BY <2>1, <2>4 DEF TypeOK
    <3>2. <<"wire", p>> \in Chances(t)
      BY <2>1, <3>1 DEF Chances
    <3>3. Chances(t)' \subseteq (Chances(t) \ {<<"wire", p>>}) \cup {<<"queue", Nowhere>>}
      BY <1>1, <2>2, <3>1 DEF Chances
    <3> QED BY <1>1, <3>2, <3>3 DEF Free
  <2> QED BY <2>3, <2>4
<1>3. CASE Deliver(p, o)
  <2>1. /\ o \in ready /\ ready' = ready \ {o} /\ UNCHANGED <<wire, nacks>>
        /\ inbox' = [inbox EXCEPT ![p] = IF channel[p] THEN @ \cup {o} ELSE @]
    BY <1>3 DEF Deliver, frameVars
  <2>2. \A q \in Replicas : q # p \/ t # o => (Holds(q, t)' => Holds(q, t))
    BY <1>1, <2>1 DEF Holds, TypeOK
  <2>3. CASE t # o
    <3>1. Chances(t)' \subseteq Chances(t)
      BY <1>1, <2>1, <2>2, <2>3, NoNewChance
    <3> QED BY <1>1, <3>1 DEF Free
  <2>4. CASE t = o
    <3>1. <<"queue", Nowhere>> \in Chances(t)
      BY <2>1, <2>4 DEF Chances
    <3>2. Chances(t)' \subseteq (Chances(t) \ {<<"queue", Nowhere>>}) \cup {<<"consumer", p>>}
      BY <1>1, <2>1, <2>2, <2>4 DEF Chances
    <3> QED BY <1>1, <3>1, <3>2 DEF Free
  <2> QED BY <2>3, <2>4
<1>4. CASE ReadAck(p, o)
  <2>1. UNCHANGED <<ready, wire, inbox, nacks>>
    BY <1>4 DEF ReadAck, consumerVars
  <2>2. Chances(t)' \subseteq Chances(t)
    BY <1>1, <2>1, NoNewChance DEF Holds
  <2> QED BY <1>1, <2>2 DEF Free
<1>5. CASE ReadNack(p, o)
  <2>1. /\ o \in nacks[p] /\ nacks' = [nacks EXCEPT ![p] = @ \ {o}]
        /\ ready' = ready \cup {o} /\ UNCHANGED <<wire, inbox>>
    BY <1>5 DEF ReadNack, consumerVars
  <2>2. \A q \in Replicas : Holds(q, t)' => Holds(q, t)
    BY <1>1, <2>1 DEF Holds, TypeOK
  <2>3. CASE t # o
    <3>1. Chances(t)' \subseteq Chances(t)
      BY <1>1, <2>1, <2>2, <2>3, NoNewChance
    <3> QED BY <1>1, <3>1 DEF Free
  <2>4. CASE t = o
    <3>1. <<"consumer", p>> \in Chances(t)
      BY <2>1, <2>4 DEF Chances, Holds
    <3>2. ~Holds(p, t)'
      <4>1. t \notin inbox[p] /\ current[p] # t /\ t \notin nacks'[p]
        BY <2>1, <2>4 DEF MInv, Held, TypeOK
      <4> QED BY <1>1, <2>1, <4>1 DEF Holds
    <3>3. Chances(t)' \subseteq (Chances(t) \ {<<"consumer", p>>}) \cup {<<"queue", Nowhere>>}
      BY <1>1, <2>1, <2>2, <2>4, <3>2 DEF Chances
    <3> QED BY <1>1, <3>1, <3>3 DEF Free
  <2> QED BY <2>3, <2>4
<1> QED BY <1>2, <1>3, <1>4, <1>5

\* A consumer uses its chance up when its commit succeeds, loses it when it has
\* no channel to give the message back, and keeps it otherwise; a commit that is
\* reported as failed leaves it with a posting and the chance.
LEMMA ConsumerPays ==
    ASSUME IInv, NEW p \in Replicas, Consumer(p), NEW t \in Requests
    PROVE  Free(t) \/ (t = current[p] /\ Costs(t) /\ faults' = faults + 1)
<1> USE DEF IInv, TInv
<1>1. UNCHANGED <<phase, wire, ready>>
  BY DEF Consumer, Take, MarkProcessing, CommitTransaction, Ack, Nack, FinishDelivery,
         handlerVars, brokerVars, frameVars
<1>2. \A q \in Replicas : q # p => (Holds(q, t)' <=> Holds(q, t))
  BY DEF Consumer, Take, MarkProcessing, CommitTransaction, Ack, Nack, FinishDelivery,
         ConsumerGoto, frameVars, Holds, TypeOK
<1>3. ASSUME UNCHANGED applied, Holds(p, t)' => Holds(p, t)
      PROVE  Free(t)
  <2>1. Chances(t)' \subseteq Chances(t)
    BY <1>1, <1>2, <1>3, NoNewChance
  <2> QED BY <1>3, <2>1 DEF Free
<1>4. ASSUME NEW o \in Requests, Take(p, o)
      PROVE  Free(t)
  <2>1. Holds(p, t)' => Holds(p, t)
    BY <1>4 DEF Take, Holds, TypeOK, frameVars
  <2> QED BY <1>3, <1>4, <2>1 DEF Take, dbVars
<1>5. CASE MarkProcessing(p)
  <2>1. Holds(p, t)' => Holds(p, t)
    BY <1>5 DEF MarkProcessing, ConsumerGoto, Holds, TypeOK, frameVars
  <2> QED BY <1>3, <1>5, <2>1 DEF MarkProcessing
<1>6. CASE CommitTransaction(p)
  <2>1. UNCHANGED <<inbox, nacks, current>> /\ step[p] = "commit" /\ current[p] \in Requests
    BY <1>6, AtWork DEF CommitTransaction, ConsumerGoto, frameVars
  <2>2. CASE applied'[t] = applied[t]
    <3>1. Holds(p, t)' => Holds(p, t)
      BY <1>6, <2>1 DEF CommitTransaction, ConsumerGoto, Holds, TypeOK
    <3>2. Chances(t)' \subseteq Chances(t)
      BY <1>1, <1>2, <3>1, NoNewChance
    <3> QED BY <2>2, <3>2 DEF Free
  <2>3. CASE applied'[t] # applied[t]
    <3>1. current[p] = t /\ applied'[t] = applied[t] + 1
      BY <1>6, <2>1, <2>3 DEF CommitTransaction, PostToBalance, dbVars, TypeOK
    <3>2. Holds(p, t) /\ <<"consumer", p>> \in Chances(t)
      BY <2>1, <3>1 DEF Chances, Holds
    <3>3. Chances(t)' \subseteq Chances(t)
      BY <1>1, <1>2, <3>2, NoNewChance
    <3>4. CASE faults' = faults + 1
      BY <3>1, <3>3, <3>4 DEF Costs
    <3>5. CASE faults' # faults + 1
      <4>1. step'[p] = "ack"
        BY <1>6, <2>3, <3>5 DEF CommitTransaction, ConsumerGoto, Fault, TypeOK, dbVars
      <4>2. t \notin inbox[p] \cup nacks[p]
        BY <3>1 DEF MInv, Held
      <4>3. ~Holds(p, t)'
        BY <2>1, <4>1, <4>2 DEF Holds
      <4>4. <<"consumer", p>> \notin Chances(t)'
        BY <4>3 DEF Chances
      <4> QED BY <3>1, <3>2, <3>3, <4>4 DEF Free
    <3> QED BY <3>4, <3>5
  <2> QED BY <2>2, <2>3
<1>7. CASE Ack(p)
  <2>1. UNCHANGED <<applied, inbox, nacks>> /\ step'[p] = "receive"
    BY <1>7 DEF Ack, FinishDelivery, dbVars, TypeOK
  <2>2. Holds(p, t)' => Holds(p, t)
    BY <2>1 DEF Holds
  <2> QED BY <1>3, <2>1, <2>2
<1>8. CASE Nack(p)
  <2>1. /\ UNCHANGED <<applied, inbox>> /\ step[p] = "nack" /\ step'[p] = "receive"
        /\ nacks' = [nacks EXCEPT ![p] = @ \cup Settlement(p)]
    BY <1>8 DEF Nack, FinishDelivery, dbVars, TypeOK
  <2>2. nacks'[p] \subseteq nacks[p] \cup {current[p]}
    BY <2>1 DEF TypeOK, Settlement
  <2>3. Holds(p, t)' => Holds(p, t)
    BY <2>1, <2>2 DEF Holds
  <2> QED BY <1>3, <2>1, <2>3
<1> QED BY <1>4, <1>5, <1>6, <1>7, <1>8 DEF Consumer

\* When the broker closes a session, what is unacknowledged in it goes back to
\* the queue: at most one chance more for each.
LEMMA ClosingCosts ==
    ASSUME IInv, NEW p \in Replicas, CloseSession(p), NEW t \in Requests
    PROVE  Free(t) \/ (t \in unacked[p] /\ Costs(t))
<1> USE DEF IInv, TInv
<1>1. /\ UNCHANGED <<phase, applied, inbox, step, current>>
      /\ ready' = ready \cup unacked[p]
      /\ wire' = [wire EXCEPT ![p] = {}] /\ nacks' = [nacks EXCEPT ![p] = {}]
  BY DEF CloseSession, handlerVars, dbVars, consumerVars
<1>2. \A q \in Replicas : /\ t \in wire'[q] => t \in wire[q]
                          /\ Holds(q, t)' => Holds(q, t)
  BY <1>1 DEF Holds, TypeOK
<1>3. CASE t \in unacked[p]
  <2>1. Chances(t)' \subseteq Chances(t) \cup {<<"queue", Nowhere>>}
    BY <1>1, <1>2 DEF Chances
  <2> QED BY <1>1, <1>3, <2>1 DEF Costs
<1>4. CASE t \notin unacked[p]
  <2>1. Chances(t)' \subseteq Chances(t)
    BY <1>1, <1>2, <1>4, NoNewChance
  <2> QED BY <1>1, <2>1 DEF Free
<1> QED BY <1>3, <1>4

\* A client that loses its channel or its life, or starts anew, has no more
\* chances than before.
LEMMA ClientFree ==
    ASSUME IInv, NEW p \in Replicas,
           ClientDrops(p) \/ Die(p) \/ Terminate(p) \/ Restart(p),
           NEW t \in Requests
    PROVE  Free(t)
<1> USE DEF IInv, TInv
<1>1. /\ UNCHANGED <<applied, wire, nacks, ready>>
      /\ phase'[t] = phase[t] \/ phase'[t] = "gone"
  BY DEF ClientDrops, Die, Terminate, Restart, handlerVars, dbVars, frameVars, brokerVars, TypeOK
<1>2. ASSUME NEW q \in Replicas, Holds(q, t)' PROVE Holds(q, t)
  <2>1. inbox'[q] \subseteq inbox[q]
    BY DEF ClientDrops, Die, Terminate, Restart, consumerVars, TypeOK
  <2>2. \/ current'[q] = current[q] /\ step'[q] = step[q]
        \/ current'[q] = Nobody
    BY DEF ClientDrops, Die, Terminate, Restart, consumerVars, TypeOK
  <2> QED BY <1>1, <1>2, <2>1, <2>2, NobodyAssumption DEF Holds
<1>3. Chances(t)' \subseteq Chances(t)
  BY <1>1, <1>2, NoNewChance
<1> QED BY <1>1, <1>3 DEF Free

\* What is owed does not change as long as nobody opens, leaves or closes a
\* connection or is told to.
LEMMA OwedStays ==
    ASSUME UNCHANGED <<processVars, session>>
    PROVE  Owed' = Owed
BY DEF Owed, processVars

\* A session that is closed while its client is there, or not about to close it,
\* takes a failure; any other was owed.
LEMMA ClosingPays ==
    ASSUME IInv, Limited, Paid, TypeOK', NEW p \in Replicas, CloseSession(p), session[p],
           \A q \in Replicas : process'[q] = "draining" => process[q] = "draining",
           \/ faults' = faults + 1
           \/ faults' = faults /\ p \in Owed
    PROVE  Paid'
<1> USE DEF IInv, TInv
<1>1. \A t \in Requests : Free(t) \/ (t \in unacked[p] /\ Costs(t))
  BY ClosingCosts
<1>2. /\ unacked[p] \in SUBSET Requests
      /\ IsFiniteSet(unacked[p]) /\ Cardinality(unacked[p]) <= Prefetch
  BY DEF Limited, TypeOK
<1>3. Owed' \subseteq Owed \ {p}
  BY DEF Owed, CloseSession, TypeOK
<1>4. faults' \in {faults, faults + 1}
  OBVIOUS
<1>5. \/ faults' = faults + 1 /\ Owed' \subseteq Owed
      \/ \E q \in Owed : Owed' \subseteq Owed \ {q}
  BY <1>3
<1> QED BY <1>1, <1>2, <1>4, <1>5, PaidStep

\* A step without costs is paid, also if a failure makes a session owed.
LEMMA FreePays ==
    ASSUME TypeOK, TypeOK', Paid, \A t \in Requests : Free(t), faults' \in {faults, faults + 1},
           \/ Owed' \subseteq Owed
           \/ /\ faults' = faults + 1
              /\ \E q \in Replicas : Owed' \subseteq Owed \cup {q}
    PROVE  Paid'
<1>1. IsFiniteSet({}) /\ Cardinality({}) <= Prefetch /\ {} \in SUBSET Requests
  BY FS_EmptySet, BoundsAssumption
<1> QED BY <1>1, PaidStep

\* A crash, a lost connection and an order to stop pay for what the broker takes
\* back when it closes the session, then or later; all else costs nothing.
LEMMA ProcessPays ==
    ASSUME IInv, Limited, Paid, TypeOK', NEW p \in Replicas,
           \/ ClientDrops(p) \/ BrokerDrops(p) \/ Crash(p) \/ Terminate(p)
           \/ CloseQueue(p) \/ Exit(p) \/ Restart(p)
    PROVE  Paid'
<1> USE DEF IInv, TInv
<1>1. CASE ClientDrops(p)
  <2>1. /\ UNCHANGED <<process, session>> /\ channel' = [channel EXCEPT ![p] = FALSE]
        /\ faults' = faults + 1 \/ (faults' = faults /\ ~session[p])
    BY <1>1 DEF ClientDrops, Fault, NoFault
  <2>2. \/ Owed' \subseteq Owed
        \/ faults' = faults + 1 /\ Owed' \subseteq Owed \cup {p}
    BY <2>1 DEF Owed, TypeOK
  <2> QED BY <1>1, <2>1, <2>2, ClientFree, FreePays
<1>2. CASE BrokerDrops(p)
  <2>1. /\ CloseSession(p) /\ session[p] /\ UNCHANGED process
        /\ faults' = faults + 1 \/ (faults' = faults /\ ~channel[p])
    BY <1>2 DEF BrokerDrops, Fault, NoFault
  <2>2. faults' = faults => p \in Owed
    BY <2>1, BoundsAssumption DEF Owed, TypeOK
  <2> QED BY <2>1, <2>2, ClosingPays
<1>3. ASSUME Die(p) PROVE Owed' \subseteq Owed \cup {p} /\ (~channel[p] => Owed' \subseteq Owed)
  BY <1>3 DEF Die, Owed, TypeOK
<1>4. CASE Crash(p)
  <2>1. faults' = faults + 1 /\ Die(p)
    BY <1>4 DEF Crash, Fault
  <2> QED BY <1>3, <2>1, ClientFree, FreePays
<1>5. CASE Terminate(p)
  <2>1. /\ faults' = faults + 1 /\ process' = [process EXCEPT ![p] = "draining"]
        /\ UNCHANGED <<session, channel>>
    BY <1>5 DEF Terminate, Fault, brokerVars
  <2>2. Owed' \subseteq Owed \cup {p}
    BY <2>1 DEF Owed, TypeOK
  <2> QED BY <1>5, <2>1, <2>2, ClientFree, FreePays
<1>6. CASE CloseQueue(p)
  <2>1. /\ faults' = faults /\ process[p] = "draining"
        /\ process' = [process EXCEPT ![p] = "closing"]
        /\ \/ CloseSession(p) /\ session[p]
           \/ /\ ~(channel[p] /\ session[p])
              /\ UNCHANGED <<handlerVars, dbVars, frameVars, brokerVars, consumerVars, channel>>
    BY <1>6 DEF CloseQueue, NoFault
  <2>2. CASE CloseSession(p) /\ session[p]
    <3>1. p \in Owed
      BY <2>1, <2>2 DEF Owed
    <3>2. \A q \in Replicas : process'[q] = "draining" => process[q] = "draining"
      BY <2>1 DEF TypeOK
    <3> QED BY <2>1, <2>2, <3>1, <3>2, ClosingPays
  <2>3. CASE UNCHANGED <<handlerVars, dbVars, frameVars, brokerVars, consumerVars, channel>>
    <3>1. \A t \in Requests : Free(t)
      BY <2>3 DEF Free, Chances, Holds, handlerVars, dbVars, frameVars, brokerVars, consumerVars
    <3>2. Owed' \subseteq Owed
      BY <2>1, <2>3 DEF Owed, brokerVars, TypeOK
    <3> QED BY <2>1, <3>1, <3>2, FreePays
  <2> QED BY <2>1, <2>2, <2>3
<1>7. CASE Exit(p)
  <2>1. faults' = faults /\ Die(p) /\ ~channel[p]
    BY <1>7 DEF Exit, NoFault
  <2> QED BY <1>3, <2>1, ClientFree, FreePays
<1>8. CASE Restart(p)
  <2>1. faults' = faults /\ Owed' \subseteq Owed
    BY <1>8 DEF Restart, NoFault, Owed, TypeOK
  <2> QED BY <1>8, <2>1, ClientFree, FreePays
<1> QED BY <1>1, <1>2, <1>4, <1>5, <1>6, <1>7, <1>8

\* The broker delivers only into a window with room.
LEMMA LimitedNext ==
    ASSUME TypeOK, Limited, [Next]_vars
    PROVE  Limited'
<1>1. ASSUME NEW p \in Replicas, unacked'[p] \subseteq unacked[p]
      PROVE  IsFiniteSet(unacked'[p]) /\ Cardinality(unacked'[p]) <= Prefetch
  <2>1. IsFiniteSet(unacked[p]) /\ Cardinality(unacked[p]) <= Prefetch
    BY DEF Limited
  <2>2. IsFiniteSet(unacked'[p]) /\ Cardinality(unacked'[p]) <= Cardinality(unacked[p])
    BY <1>1, <2>1, FS_Subset
  <2>3. Cardinality(unacked[p]) \in Nat /\ Cardinality(unacked'[p]) \in Nat
    BY <2>1, <2>2, FS_CardinalityType
  <2> QED BY <2>1, <2>2, <2>3, BoundsAssumption
<1>2. ASSUME NEW q \in Replicas, NEW t \in Requests, Deliver(q, t) PROVE Limited'
  <2>1. /\ unacked' = [unacked EXCEPT ![q] = @ \cup {t}]
        /\ IsFiniteSet(unacked[q]) /\ Cardinality(unacked[q]) < Prefetch
    BY <1>2 DEF Deliver, Limited
  <2>2. /\ IsFiniteSet(unacked[q] \cup {t})
        /\ Cardinality(unacked[q] \cup {t}) \in {Cardinality(unacked[q]), Cardinality(unacked[q]) + 1}
    BY <2>1, FS_AddElement
  <2>3. Cardinality(unacked[q]) \in Nat
    BY <2>1, FS_CardinalityType
  <2>4. Cardinality(unacked[q] \cup {t}) <= Prefetch
    BY <2>1, <2>2, <2>3, BoundsAssumption
  <2>5. ASSUME NEW p \in Replicas
        PROVE  IsFiniteSet(unacked'[p]) /\ Cardinality(unacked'[p]) <= Prefetch
    <3>1. CASE p = q
      BY <2>1, <2>2, <2>4, <3>1 DEF TypeOK
    <3>2. CASE p # q
      BY <1>1, <2>1, <3>2 DEF TypeOK
    <3> QED BY <3>1, <3>2
  <2> QED BY <2>5 DEF Limited
<1>3. CASE \A p \in Replicas : unacked'[p] \subseteq unacked[p]
  BY <1>1, <1>3 DEF Limited
<1>4. ASSUME NEW r \in Requests, Handler(r) PROVE UNCHANGED unacked
  BY <1>4, AwayFromConsumers DEF brokerVars
<1>5. ASSUME NEW q \in Replicas, NEW t \in Requests, Route(q, t) \/ ReadAck(q, t) \/ ReadNack(q, t)
      PROVE  \A p \in Replicas : unacked'[p] \subseteq unacked[p]
  BY <1>5 DEF Route, ReadAck, ReadNack, TypeOK
<1>6. ASSUME NEW k \in Users \X Keys, Evict(k) PROVE UNCHANGED unacked
  BY <1>6 DEF Evict, brokerVars
<1>7. ASSUME NEW q \in Replicas, Consumer(q) PROVE UNCHANGED unacked
  BY <1>7 DEF Consumer, Take, MarkProcessing, CommitTransaction, Ack, Nack, FinishDelivery, brokerVars
<1>8. ASSUME NEW q \in Replicas,
             \/ ClientDrops(q) \/ BrokerDrops(q) \/ Crash(q) \/ Terminate(q)
             \/ CloseQueue(q) \/ Exit(q) \/ Restart(q)
      PROVE  \A p \in Replicas : unacked'[p] \subseteq unacked[p]
  BY <1>8 DEF ClientDrops, BrokerDrops, CloseSession, Crash, Terminate, CloseQueue, Exit, Die,
              Restart, brokerVars, TypeOK
<1>9. CASE UNCHANGED vars
  BY <1>3, <1>9 DEF vars, brokerVars
<1> QED BY <1>2, <1>3, <1>4, <1>5, <1>6, <1>7, <1>8, <1>9 DEF Next

\* Every step is paid for.
LEMMA PaidNext ==
    ASSUME IInv, Limited, Paid, TypeOK', [Next]_vars
    PROVE  Paid'
<1> USE DEF IInv, TInv
<1>1. ASSUME \A t \in Requests : Free(t), faults' \in {faults, faults + 1},
             UNCHANGED <<processVars, session>>
      PROVE  Paid'
  BY <1>1, OwedStays, FreePays
<1>2. ASSUME NEW r \in Requests, Handler(r) PROVE Paid'
  <2>1. faults' \in {faults, faults + 1}
    BY <1>2 DEF Handler, Receive, ValidateUser, CheckKey, InsertPending, SaveKey, Publish,
                CommitV0, NoFault, Fault
  <2>2. UNCHANGED <<processVars, session>>
    BY <1>2, AwayFromConsumers DEF brokerVars
  <2> QED BY <1>1, <1>2, <2>1, <2>2, HandlerFree
<1>3. ASSUME NEW p \in Replicas, NEW o \in Requests,
             Route(p, o) \/ Deliver(p, o) \/ ReadAck(p, o) \/ ReadNack(p, o)
      PROVE  Paid'
  <2>1. faults' = faults /\ UNCHANGED <<processVars, session>>
    BY <1>3 DEF Route, Deliver, ReadAck, ReadNack, NoFault
  <2> QED BY <1>1, <1>3, <2>1, BrokerFree
<1>4. ASSUME NEW p \in Replicas, Consumer(p) PROVE Paid'
  <2>1. faults' \in {faults, faults + 1} /\ UNCHANGED <<processVars, session>>
    BY <1>4 DEF Consumer, Take, MarkProcessing, CommitTransaction, Ack, Nack, FinishDelivery,
                NoFault, Fault, brokerVars
  <2>2. \A t \in Requests : Free(t) \/ (t = current[p] /\ Costs(t) /\ faults' = faults + 1)
    BY <1>4, ConsumerPays
  <2>3. CASE \A t \in Requests : Free(t)
    BY <1>1, <2>1, <2>3
  <2>4. CASE \E t \in Requests : ~Free(t)
    <3>1. PICK o \in Requests : ~Free(o)
      BY <2>4
    <3>2. faults' = faults + 1 /\ \A t \in Requests : Free(t) \/ (t \in {o} /\ Costs(t))
      BY <2>2, <3>1
    <3>3. IsFiniteSet({o}) /\ Cardinality({o}) = 1 /\ {o} \in SUBSET Requests
      BY FS_Singleton
    <3>4. Cardinality({o}) <= Prefetch
      BY <3>3, BoundsAssumption
    <3>5. Owed' \subseteq Owed
      BY <2>1, OwedStays
    <3> QED BY <2>1, <3>2, <3>3, <3>4, <3>5, PaidStep
  <2> QED BY <2>3, <2>4
<1>5. ASSUME UNCHANGED <<handlerVars, dbVars, frameVars, brokerVars, consumerVars, processVars>>,
             faults' \in {faults, faults + 1}
      PROVE  Paid'
  <2>1. \A t \in Requests : Free(t)
    BY <1>5 DEF Free, Chances, Holds, handlerVars, dbVars, frameVars, brokerVars, consumerVars
  <2> QED BY <1>1, <1>5, <2>1 DEF brokerVars
<1>6. ASSUME NEW k \in Users \X Keys, Evict(k) PROVE Paid'
  BY <1>5, <1>6 DEF Evict, Fault
<1>7. CASE UNCHANGED vars
  BY <1>5, <1>7 DEF vars
<1> QED BY <1>2, <1>3, <1>4, <1>6, <1>7, ProcessPays DEF Next

\* At first a transaction has one chance, its handler, and nothing is owed.
LEMMA PaidInit == Init => Limited /\ Paid
<1> SUFFICES ASSUME Init PROVE Limited /\ Paid
  OBVIOUS
<1>1. IsFiniteSet({}) /\ Cardinality({}) = 0
  BY FS_EmptySet
<1>2. Limited
  BY <1>1, BoundsAssumption DEF Init, Limited
<1>3. ASSUME NEW t \in Requests
      PROVE  2..Weight(t) = {}
  <2>1. Chances(t) \subseteq {<<"handler", Nowhere>>}
    BY NobodyAssumption DEF Init, Chances, Holds
  <2>2. /\ IsFiniteSet({<<"handler", Nowhere>>}) /\ Cardinality({<<"handler", Nowhere>>}) = 1
    BY FS_Singleton
  <2>3. Cardinality(Chances(t)) \in Nat /\ Cardinality(Chances(t)) <= 1
    BY <2>1, <2>2, FS_Subset, FS_CardinalityType
  <2>4. applied[t] = 0
    BY DEF Init
  <2> QED BY <2>3, <2>4 DEF Weight
<1>4. Owed = {}
  BY DEF Init, Owed
<1>5. Debt = {}
  BY <1>3, <1>4 DEF Debt
<1>6. faults = 0 /\ Prefetch * 0 = 0
  BY BoundsAssumption DEF Init
<1> QED BY <1>1, <1>2, <1>5, <1>6 DEF Paid

\* A failure makes at most Prefetch postings more, over all transactions: no
\* sequence of redeliveries, nacks, restarts and shutdowns repeats a posting for
\* free, and what one end of a connection does after the other has gone is paid
\* with the connection.
THEOREM PostingsCostFailures == Spec => []ExtraPostingsCostFailures
<1>1. Init => IInv /\ Limited /\ Paid
  BY TInvInit, MInvInit, PaidInit DEF IInv
<1>2. IInv /\ Limited /\ Paid /\ [Next]_vars => (IInv /\ Limited /\ Paid)'
  <2> SUFFICES ASSUME IInv, Limited, Paid, [Next]_vars
               PROVE  IInv' /\ Limited' /\ Paid'
    OBVIOUS
  <2>1. IInv'
    BY IInvNext
  <2>2. Limited'
    BY LimitedNext DEF IInv, TInv
  <2>3. Paid'
    BY <2>1, PaidNext DEF IInv, TInv
  <2> QED BY <2>1, <2>2, <2>3
<1>3. IInv /\ Paid => ExtraPostingsCostFailures
  <2> SUFFICES ASSUME IInv, Paid PROVE ExtraPostingsCostFailures
    OBVIOUS
  <2> DEFINE Extra == UNION {{t} \X (2..applied[t]) : t \in Requests}
  <2>1. \A t \in Requests : 2..applied[t] \subseteq 2..Weight(t)
    <3>1. \A t \in Requests :
             applied[t] \in Nat /\ Weight(t) = Cardinality(Chances(t)) + applied[t]
      BY DEF Weight, IInv, TInv, TypeOK
    <3>2. \A t \in Requests : Cardinality(Chances(t)) \in Nat
      BY ChancesFinite, FS_CardinalityType
    <3> QED BY <3>1, <3>2
  <2>2. Extra \subseteq Debt
    BY <2>1 DEF Debt
  <2> HIDE DEF Extra
  <2>3. /\ Cardinality(Extra) \in Nat /\ Cardinality(Debt) \in Nat
        /\ Cardinality(Extra) <= Cardinality(Debt) /\ Cardinality(Debt) <= Prefetch * faults
    BY <2>2, FS_Subset, FS_CardinalityType DEF Paid
  <2>4. Prefetch * faults \in Nat
    BY BoundsAssumption DEF IInv, TInv, TypeOK
  <2>5. Cardinality(Extra) <= Prefetch * faults
    BY <2>3, <2>4
  <2> QED BY <2>5 DEF ExtraPostingsCostFailures, Extra
<1> QED BY <1>1, <1>2, <1>3, PTL DEF Spec

-----------------------------------------------------------------------------
(* The books. *)

Credits(u) == Completed(u, {"credit"})
Debits(u)  == Completed(u, {"debit", "transfer"})

\* What the balance of u has that its completed rows do not explain.
Drift(u) ==
    balance[u] - Opening[u] - (Cardinality(Cents(Credits(u))) - Cardinality(Cents(Debits(u))))

\* The books of a user without doubt balance up to ties, and so far have
\* finitely many entries.
Books ==
    \A u \in Users : (\A t \in suspect : Body[t].user # u) =>
        /\ IsFiniteSet(Cents(Credits(u))) /\ IsFiniteSet(Cents(Debits(u)))
        /\ IsFiniteSet(Ties(Credits(u))) /\ IsFiniteSet(Ties(Debits(u)))
        /\ -Cardinality(Ties(Credits(u))) <= Drift(u)
        /\ Drift(u) <= Cardinality(Ties(Debits(u)))

\* A row holds a natural number of cents, the amount to the nearest one.
LEMMA RowAmountNear ==
    ASSUME NEW t \in Requests
    PROVE  /\ RowAmount(t) \in Nat /\ Body[t].amount \in Nat
           /\ 10 * RowAmount(t) - Body[t].amount \in -4..5
           /\ 10 * RowAmount(t) - Body[t].amount = 5 => Body[t].amount % 10 = 5
<1>1. Body[t].amount \in Nat
  BY BodyAssumption DEF BodyType
<1>2. RowAmount(t) = (Body[t].amount + 5) \div 10
  BY <1>1 DEF RowAmount, Rounded
<1>3. \A a \in Nat : LET n == (a + 5) \div 10
                     IN  n \in Nat /\ 10 * n - a \in -4..5 /\ (10 * n - a = 5 => a % 10 = 5)
  OBVIOUS
<1> QED BY <1>1, <1>2, <1>3

\* A posting moves a balance by what the row says; but where both are rounded up
\* from half a cent the balance ends a cent below what a row that is added
\* makes of it, or a cent above what a row that is subtracted does.
LEMMA PostedByRow ==
    ASSUME NEW t \in Requests, NEW b \in Int
    PROVE  LET moved == Rounded(10 * b + Delta[t]) - b
               tie   == IF Body[t].amount % 10 = 5 THEN 1 ELSE 0
           IN  /\ moved \in Int
               /\ Body[t].type = "credit" => moved - RowAmount(t) \in (-tie)..0
               /\ Body[t].type # "credit" => moved + RowAmount(t) \in 0..tie
<1> DEFINE a == Body[t].amount
           R == RowAmount(t)
           B == Rounded(10 * b + Delta[t])
<1>1. /\ R \in Nat /\ a \in Nat /\ 10 * R - a \in -4..5
      /\ 10 * R - a = 5 => a % 10 = 5
  BY RowAmountNear
<1>2. Delta[t] = IF Body[t].type = "credit" THEN a ELSE -a
  BY DEF Delta
<1>3. Delta[t] \in Int /\ 10 * b + Delta[t] \in Int
  BY <1>1, <1>2
<1>4. B \in Int /\ 10 * B - (10 * b + Delta[t]) \in -5..5
  BY <1>3, RoundedType, RoundedNear
<1> HIDE DEF a, R, B
<1>5. CASE Body[t].type = "credit"
  <2>1. 10 * B - 10 * b - a \in -5..5
    BY <1>1, <1>2, <1>4, <1>5
  <2>2. B - b - R \in -1..0 /\ (B - b - R = -1 => 10 * R - a = 5)
    BY <1>1, <1>4, <2>1
  <2> QED BY <1>1, <1>4, <1>5, <2>2 DEF a, R, B
<1>6. CASE Body[t].type # "credit"
  <2>1. 10 * B - 10 * b + a \in -5..5
    BY <1>1, <1>2, <1>4, <1>6
  <2>2. B - b + R \in 0..1 /\ (B - b + R = 1 => 10 * R - a = 5)
    BY <1>1, <1>4, <2>1
  <2> QED BY <1>1, <1>4, <1>6, <2>2 DEF a, R, B
<1> QED BY <1>5, <1>6

\* One more row adds its cents, and perhaps a tie.
LEMMA RowAdds ==
    ASSUME NEW S \in SUBSET Requests, IsFiniteSet(Cents(S)), IsFiniteSet(Ties(S)),
           NEW t \in Requests \ S
    PROVE  /\ IsFiniteSet(Cents(S \cup {t}))
           /\ Cardinality(Cents(S \cup {t})) = Cardinality(Cents(S)) + RowAmount(t)
           /\ IsFiniteSet(Ties(S \cup {t}))
           /\ Cardinality(Ties(S \cup {t}))
                = Cardinality(Ties(S)) + (IF Body[t].amount % 10 = 5 THEN 1 ELSE 0)
<1> DEFINE T == {t} \X (1..RowAmount(t))
<1>1. RowAmount(t) \in Nat
  BY RowAmountNear
<1>2. IsFiniteSet(T) /\ Cardinality(T) = RowAmount(t)
  <2>1. IsFiniteSet(1..RowAmount(t)) /\ Cardinality(1..RowAmount(t)) = RowAmount(t)
    <3>1. /\ IsFiniteSet(1..RowAmount(t))
          /\ Cardinality(1..RowAmount(t)) = IF 1 > RowAmount(t) THEN 0 ELSE RowAmount(t) - 1 + 1
      BY <1>1, FS_Interval
    <3> QED BY <1>1, <3>1
  <2>2. IsFiniteSet({t}) /\ Cardinality({t}) = 1
    BY FS_Singleton
  <2>3. IsFiniteSet(T) /\ Cardinality(T) = 1 * RowAmount(t)
    BY <2>1, <2>2, FS_Product
  <2> QED BY <1>1, <2>3
<1>3. Cents(S \cup {t}) = Cents(S) \cup T
  BY DEF Cents
<1>4. Cents(S) \cap T = {} /\ Cardinality({}) = 0
  BY FS_EmptySet DEF Cents
<1> HIDE DEF T
<1>5. /\ IsFiniteSet(Cents(S) \cup T)
      /\ Cardinality(Cents(S) \cup T)
           = Cardinality(Cents(S)) + Cardinality(T) - Cardinality(Cents(S) \cap T)
  BY <1>2, FS_Union
<1>6. Cardinality(Cents(S)) \in Nat /\ Cardinality(Ties(S)) \in Nat
  BY FS_CardinalityType
<1>7. Cardinality(Cents(S) \cap T) = 0
  BY <1>4
<1>8. Cardinality(Cents(S) \cup T) = Cardinality(Cents(S)) + RowAmount(t)
  BY <1>1, <1>2, <1>5, <1>6, <1>7
<1>9. CASE Body[t].amount % 10 = 5
  <2>1. Ties(S \cup {t}) = Ties(S) \cup {t} /\ t \notin Ties(S)
    BY <1>9 DEF Ties
  <2>2. /\ IsFiniteSet(Ties(S) \cup {t})
        /\ Cardinality(Ties(S) \cup {t}) = Cardinality(Ties(S)) + 1
    BY <2>1, FS_AddElement
  <2> QED BY <1>3, <1>5, <1>8, <1>9, <2>1, <2>2
<1>10. CASE Body[t].amount % 10 # 5
  <2>1. Ties(S \cup {t}) = Ties(S)
    BY <1>10 DEF Ties
  <2>2. Cardinality(Ties(S \cup {t})) = Cardinality(Ties(S)) + 0
    BY <1>6, <2>1
  <2> QED BY <1>3, <1>5, <1>8, <1>10, <2>1, <2>2
<1> QED BY <1>9, <1>10

\* Books stay in balance when no money moves and no undoubted transaction
\* becomes completed or stops being it.
LEMMA BooksStill ==
    ASSUME TypeOK, Books, suspect \subseteq suspect', UNCHANGED balance,
           \A t \in Requests : t \notin suspect' =>
              (status'[t] = "completed" <=> status[t] = "completed")
    PROVE  Books'
<1>1. ASSUME NEW u \in Users, \A t \in suspect' : Body[t].user # u
      PROVE  Credits(u)' = Credits(u) /\ Debits(u)' = Debits(u) /\ Drift(u)' = Drift(u)
  <2>1. \A t \in Requests : Body[t].user = u => (status'[t] = "completed" <=> status[t] = "completed")
    BY <1>1
  <2>2. \A types : Completed(u, types)' = Completed(u, types)
    BY <2>1 DEF Completed
  <2>3. Credits(u)' = Credits(u) /\ Debits(u)' = Debits(u)
    BY <2>2 DEF Credits, Debits
  <2>4. Cents(Credits(u))' = Cents(Credits(u)) /\ Cents(Debits(u))' = Cents(Debits(u))
    BY <2>3 DEF Cents
  <2> QED BY <2>3, <2>4 DEF Drift
<1>2. \A u \in Users : (\A t \in suspect' : Body[t].user # u) => \A t \in suspect : Body[t].user # u
  OBVIOUS
<1>3. ASSUME NEW u \in Users, \A t \in suspect' : Body[t].user # u
      PROVE  /\ Cents(Credits(u))' = Cents(Credits(u)) /\ Cents(Debits(u))' = Cents(Debits(u))
             /\ Ties(Credits(u))' = Ties(Credits(u)) /\ Ties(Debits(u))' = Ties(Debits(u))
  BY <1>1, <1>3 DEF Cents, Ties
<1> QED BY <1>1, <1>2, <1>3 DEF Books

\* A posting completes its transaction and moves the balance by its amount.
LEMMA BooksPost ==
    ASSUME TypeOK, Books, suspect \subseteq suspect', NEW t \in Requests, PostToBalance(t),
           t \notin suspect' => status[t] # "completed"
    PROVE  Books'
<1> SUFFICES ASSUME NEW u \in Users, \A x \in suspect' : Body[x].user # u
             PROVE  /\ IsFiniteSet(Cents(Credits(u))') /\ IsFiniteSet(Cents(Debits(u))')
                    /\ IsFiniteSet(Ties(Credits(u))') /\ IsFiniteSet(Ties(Debits(u))')
                    /\ -Cardinality(Ties(Credits(u))') <= Drift(u)'
                    /\ Drift(u)' <= Cardinality(Ties(Debits(u))')
  BY DEF Books
<1>1. /\ Body[t].user \in Users /\ Body[t].type \in {"credit", "debit", "transfer"}
      /\ RowAmount(t) \in Nat /\ Opening[u] \in Int
  BY BodyAssumption, UsersAssumption, RowAmountNear DEF BodyType
<1>2. /\ IsFiniteSet(Cents(Credits(u))) /\ IsFiniteSet(Cents(Debits(u)))
      /\ IsFiniteSet(Ties(Credits(u))) /\ IsFiniteSet(Ties(Debits(u)))
      /\ -Cardinality(Ties(Credits(u))) <= Drift(u)
      /\ Drift(u) <= Cardinality(Ties(Debits(u)))
  <2>1. \A x \in suspect : Body[x].user # u
    OBVIOUS
  <2> QED BY <2>1 DEF Books
<1>3. /\ Cardinality(Cents(Credits(u))) \in Nat /\ Cardinality(Cents(Debits(u))) \in Nat
      /\ Cardinality(Ties(Credits(u))) \in Nat /\ Cardinality(Ties(Debits(u))) \in Nat
  BY <1>2, FS_CardinalityType
<1>4. \A x \in Requests : status'[x] = IF x = t THEN "completed" ELSE status[x]
  BY DEF PostToBalance, TypeOK
<1>5. /\ balance[u] \in Int
      /\ balance'[u] = IF Body[t].user = u THEN Rounded(10 * balance[u] + Delta[t]) ELSE balance[u]
  BY DEF PostToBalance, TypeOK
<1>6. CASE Body[t].user # u
  <2>1. \A types : Completed(u, types)' = Completed(u, types)
    BY <1>4, <1>6 DEF Completed
  <2>2. Credits(u)' = Credits(u) /\ Debits(u)' = Debits(u)
    BY <2>1 DEF Credits, Debits
  <2>3. /\ Cents(Credits(u))' = Cents(Credits(u)) /\ Cents(Debits(u))' = Cents(Debits(u))
        /\ Ties(Credits(u))' = Ties(Credits(u)) /\ Ties(Debits(u))' = Ties(Debits(u))
    BY <2>2 DEF Cents, Ties
  <2> QED BY <1>2, <1>5, <1>6, <2>3 DEF Drift
<1>7. CASE Body[t].user = u
  <2> DEFINE tie == IF Body[t].amount % 10 = 5 THEN 1 ELSE 0
             moved == Rounded(10 * balance[u] + Delta[t]) - balance[u]
  <2>1. ASSUME NEW types
        PROVE  /\ Completed(u, types) \in SUBSET Requests /\ t \notin Completed(u, types)
               /\ Completed(u, types)' = IF Body[t].type \in types
                                         THEN Completed(u, types) \cup {t}
                                         ELSE Completed(u, types)
    BY <1>4, <1>7 DEF Completed
  <2>2. /\ moved \in Int /\ tie \in {0, 1}
        /\ Body[t].type = "credit" => moved - RowAmount(t) \in (-tie)..0
        /\ Body[t].type # "credit" => moved + RowAmount(t) \in 0..tie
    BY <1>5, PostedByRow
  <2>3. balance'[u] = balance[u] + moved
    <3>1. Rounded(10 * balance[u] + Delta[t]) \in Int
      BY <1>5, DeltaType, RoundedType
    <3> QED BY <1>5, <1>7, <3>1
  <2> HIDE DEF moved
  <2>4. /\ Credits(u) \in SUBSET Requests /\ t \notin Credits(u)
        /\ Debits(u) \in SUBSET Requests /\ t \notin Debits(u)
    BY <2>1 DEF Credits, Debits
  <2>5. CASE Body[t].type = "credit"
    <3>1. Credits(u)' = Credits(u) \cup {t} /\ Debits(u)' = Debits(u)
      BY <2>1, <2>5 DEF Credits, Debits
    <3>2. /\ Cents(Debits(u))' = Cents(Debits(u)) /\ Ties(Debits(u))' = Ties(Debits(u))
          /\ Cents(Credits(u))' = Cents(Credits(u) \cup {t})
          /\ Ties(Credits(u))' = Ties(Credits(u) \cup {t})
      BY <3>1 DEF Cents, Ties
    <3>3. /\ IsFiniteSet(Cents(Credits(u))')
          /\ Cardinality(Cents(Credits(u))') = Cardinality(Cents(Credits(u))) + RowAmount(t)
          /\ IsFiniteSet(Ties(Credits(u))')
          /\ Cardinality(Ties(Credits(u))') = Cardinality(Ties(Credits(u))) + tie
      BY <1>2, <2>4, <3>2, RowAdds
    <3> HIDE DEF tie
    <3>4. Drift(u)' = Drift(u) + (moved - RowAmount(t)) /\ Drift(u) \in Int
      BY <1>1, <1>3, <1>5, <2>2, <2>3, <3>2, <3>3 DEF Drift
    <3> QED BY <1>1, <1>2, <1>3, <2>2, <2>5, <3>2, <3>3, <3>4
  <2>6. CASE Body[t].type # "credit"
    <3>1. Debits(u)' = Debits(u) \cup {t} /\ Credits(u)' = Credits(u)
      BY <1>1, <2>1, <2>6 DEF Credits, Debits
    <3>2. /\ Cents(Credits(u))' = Cents(Credits(u)) /\ Ties(Credits(u))' = Ties(Credits(u))
          /\ Cents(Debits(u))' = Cents(Debits(u) \cup {t})
          /\ Ties(Debits(u))' = Ties(Debits(u) \cup {t})
      BY <3>1 DEF Cents, Ties
    <3>3. /\ IsFiniteSet(Cents(Debits(u))')
          /\ Cardinality(Cents(Debits(u))') = Cardinality(Cents(Debits(u))) + RowAmount(t)
          /\ IsFiniteSet(Ties(Debits(u))')
          /\ Cardinality(Ties(Debits(u))') = Cardinality(Ties(Debits(u))) + tie
      BY <1>2, <2>4, <3>2, RowAdds
    <3> HIDE DEF tie
    <3>4. Drift(u)' = Drift(u) + (moved + RowAmount(t)) /\ Drift(u) \in Int
      BY <1>1, <1>3, <1>5, <2>2, <2>3, <3>2, <3>3 DEF Drift
    <3> QED BY <1>1, <1>2, <1>3, <2>2, <2>6, <3>2, <3>3, <3>4
  <2> QED BY <2>5, <2>6
<1> QED BY <1>6, <1>7

\* Only the consumers and the handlers of the two routes write to the database,
\* and none of them completes an undoubted transaction for the second time.
LEMMA BooksNext ==
    ASSUME IInv, Books, [Next]_vars
    PROVE  Books'
<1> USE DEF IInv, TInv
<1>1. ASSUME UNCHANGED <<status, balance>>, suspect \subseteq suspect' PROVE Books'
  BY <1>1, BooksStill
<1>2. ASSUME NEW r \in Requests, Handler(r) PROVE Books'
  <2>1. UNCHANGED suspect
    BY <1>2, AwayFromConsumers DEF brokerVars
  <2>2. CASE InsertPending(r)
    <3>1. /\ status[r] = "absent" /\ UNCHANGED balance
          /\ status' = status \/ status' = [status EXCEPT ![r] = "pending"]
      BY <2>2 DEF InsertPending, MInv, Rows
    <3>2. \A t \in Requests : status'[t] = "completed" <=> status[t] = "completed"
      BY <3>1 DEF TypeOK
    <3> QED BY <2>1, <3>1, <3>2, BooksStill
  <2>3. CASE CommitV0(r)
    <3>1. status[r] # "completed" /\ (PostToBalance(r) \/ UNCHANGED dbVars)
      BY <2>3 DEF CommitV0, MInv, Rows
    <3> QED BY <1>1, <2>1, <3>1, BooksPost DEF dbVars
  <2>4. CASE UNCHANGED dbVars
    BY <1>1, <2>1, <2>4 DEF dbVars
  <2> QED BY <1>2, <2>2, <2>3, <2>4
          DEF Handler, Receive, ValidateUser, CheckKey, SaveKey, Publish, dbVars
<1>3. ASSUME NEW p \in Replicas, Consumer(p) PROVE Books'
  <2>1. ASSUME step[p] \in {"mark", "commit"}
        PROVE  /\ current[p] \in Requests
               /\ current[p] \notin suspect => status[current[p]] # "completed"
    BY <2>1, AtWork DEF MInv, NotYet
  <2>2. CASE MarkProcessing(p)
    <3>1. /\ UNCHANGED <<balance, suspect>> /\ step[p] = "mark"
          /\ status' = status \/ status' = [status EXCEPT ![current[p]] = "processing"]
      BY <2>2 DEF MarkProcessing, brokerVars
    <3>2. \A t \in Requests : t \notin suspect =>
             (status'[t] = "completed" <=> status[t] = "completed")
      BY <2>1, <3>1 DEF TypeOK
    <3> QED BY <3>1, <3>2, BooksStill
  <2>3. CASE CommitTransaction(p)
    <3>1. /\ suspect \subseteq suspect' /\ step[p] = "commit"
          /\ PostToBalance(current[p]) \/ UNCHANGED dbVars
      BY <2>3 DEF CommitTransaction
    <3> QED BY <1>1, <2>1, <3>1, BooksPost DEF dbVars
  <2>4. CASE UNCHANGED <<dbVars, suspect>>
    BY <1>1, <2>4 DEF dbVars
  <2> QED BY <1>3, <2>2, <2>3, <2>4
          DEF Consumer, Take, Ack, Nack, FinishDelivery, dbVars, brokerVars
<1>4. ASSUME NEW p \in Replicas,
             \/ ClientDrops(p) \/ BrokerDrops(p) \/ Crash(p) \/ Terminate(p)
             \/ CloseQueue(p) \/ Exit(p) \/ Restart(p)
      PROVE  Books'
  <2>1. UNCHANGED dbVars /\ suspect \subseteq suspect'
    BY <1>4 DEF ClientDrops, BrokerDrops, CloseSession, Crash, Terminate, CloseQueue, Exit,
                Restart, Die, brokerVars
  <2> QED BY <1>1, <2>1 DEF dbVars
<1>5. ASSUME NEW p \in Replicas, NEW t \in Requests,
             Route(p, t) \/ Deliver(p, t) \/ ReadAck(p, t) \/ ReadNack(p, t)
      PROVE  Books'
  BY <1>1, <1>5 DEF Route, Deliver, ReadAck, ReadNack, dbVars
<1>6. ASSUME NEW k \in Users \X Keys, Evict(k) PROVE Books'
  BY <1>1, <1>6 DEF Evict, dbVars, brokerVars
<1>7. CASE UNCHANGED vars
  BY <1>1, <1>7 DEF vars, dbVars, brokerVars
<1> QED BY <1>2, <1>3, <1>4, <1>5, <1>6, <1>7 DEF Next

\* The completed rows of a user add up to the user's balance, unless one of
\* them is in doubt, and except for a cent less for each amount that ends in
\* half a cent.
THEOREM BooksBalanceButTies == Spec => []BooksDriftByTies
<1>1. Init => IInv /\ Books
  <2> SUFFICES ASSUME Init PROVE Books
    BY TInvInit, MInvInit DEF IInv
  <2>1. IsFiniteSet({}) /\ Cardinality({}) = 0
    BY FS_EmptySet
  <2>2. \A u \in Users : /\ Cents(Credits(u)) = {} /\ Cents(Debits(u)) = {}
                         /\ Ties(Credits(u)) = {} /\ Ties(Debits(u)) = {}
                         /\ balance[u] = Opening[u]
    BY DEF Init, Credits, Debits, Cents, Ties, Completed
  <2>3. \A u \in Users : Drift(u) = 0
    BY <2>1, <2>2, UsersAssumption DEF Drift
  <2> QED BY <2>1, <2>2, <2>3 DEF Books
<1>2. IInv /\ Books /\ [Next]_vars => (IInv /\ Books)'
  BY IInvNext, BooksNext
<1>3. Books => BooksDriftByTies
  BY DEF Books, BooksDriftByTies, Credits, Debits, Drift
<1> QED BY <1>1, <1>2, <1>3, PTL DEF Spec

=============================================================================
