---------------------------- MODULE MCReadCache ----------------------------
(* Instances of ReadCache for TLC: who owns which transaction.               *)
EXTENDS ReadCache, TLC

CONSTANTS u1, t1, t2, g1

OneTransaction == t1 :> u1
TwoTransactions == t1 :> u1 @@ t2 :> u1

=============================================================================
