----------------------- MODULE MCTransactionPipeline -----------------------
(* Instances of TransactionPipeline for TLC: which clients send what.        *)
EXTENDS TransactionPipeline, TLC

CONSTANTS r1, r2, r3, r4, u1, u2, k1, p1, p2

Post(route, user, key, type, amount) ==
    [route |-> route, user |-> user, key |-> key, type |-> type, amount |-> amount]

\* Asynchronous writes without a key: all traffic is queue traffic.
OneWrite == r1 :> Post("v1", u1, NoKey, "credit", 20)
TwoWrites == r1 :> Post("v1", u1, NoKey, "credit", 20) @@ r2 :> Post("v1", u1, NoKey, "debit", 10)

\* One client sends the same request again and again under one key.
SameKeyTwice == r1 :> Post("v1", u1, k1, "credit", 25) @@ r2 :> Post("v1", u1, k1, "credit", 25)

\* Both routes with amounts that end in half a cent, a request with a key, an
\* amount too small for the table, a user that is not active.
MixedTraffic ==
    r1 :> Post("v1", u1, k1, "credit", 25)
        @@ r2 :> Post("v1", u1, NoKey, "debit", 4)
        @@ r3 :> Post("v0", u1, NoKey, "transfer", 15)
        @@ r4 :> Post("v1", u2, NoKey, "debit", 10)

\* A balance that the transfer turns negative when it comes first.
OneCent == [u \in Users |-> 1]

ReplicaSymmetry == Permutations(Replicas)

=============================================================================
