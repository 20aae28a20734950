------------------------------- MODULE Ledger -------------------------------
(***************************************************************************)
(* What the transaction service promises, with no queue, cache, process or *)
(* failure in sight: a transaction is recorded at most once, is posted to  *)
(* its user's balance only after it is recorded, and once, unless it was   *)
(* contested first: it was handed back to be posted while it may have been *)
(* posted already.                                                         *)
(*                                                                         *)
(* Both write paths are meant to implement this module: POST /transactions *)
(* records first and posts later (Record, then Post), POST                 *)
(* /v0/transactions does both in one database transaction (RecordAndPost). *)
(***************************************************************************)
EXTENDS Integers

CONSTANTS
    Transactions,   \* transaction ids
    Users,          \* rows of the users table
    UserOf,         \* [Transactions -> Users]: transactions.user_id
    Opening,        \* [Users -> Int]: users.balance at the start
    Effect          \* [Transactions -> SUBSET Int]: what posting adds to it

VARIABLES
    recorded,       \* transactions with a row
    posted,         \* transactions whose amount is in the balance
    contested,      \* transactions that may be posted again
    balance         \* [Users -> Int]: users.balance

ledgerVars == <<recorded, posted, contested, balance>>

Init ==
    /\ recorded = {}
    /\ posted = {}
    /\ contested = {}
    /\ balance = Opening

Apply(t) == \E e \in Effect[t] : balance' = [balance EXCEPT ![UserOf[t]] = @ + e]

\* The row is inserted, the balance is not touched yet.
Record(t) ==
    /\ t \notin recorded
    /\ recorded' = recorded \cup {t}
    /\ UNCHANGED <<posted, contested, balance>>

\* A recorded transaction reaches the balance; an answer that got lost may
\* leave it contested.
Post(t) ==
    /\ t \in recorded \ posted
    /\ posted' = posted \cup {t}
    /\ contested' \in {contested, contested \cup {t}}
    /\ Apply(t)
    /\ UNCHANGED recorded

\* The synchronous path does both at once.
RecordAndPost(t) ==
    /\ t \notin recorded
    /\ recorded' = recorded \cup {t}
    /\ posted' = posted \cup {t}
    /\ Apply(t)
    /\ UNCHANGED contested

\* Who has these transactions to post, or has posted them, is lost sight of.
Contest(T) ==
    /\ T \subseteq recorded
    /\ contested' = contested \cup T
    /\ UNCHANGED <<recorded, posted, balance>>

\* Only what is contested is ever posted again.
PostAgain(t) ==
    /\ t \in posted \cap contested
    /\ Apply(t)
    /\ UNCHANGED <<recorded, posted, contested>>

Next ==
    \/ \E t \in Transactions : Record(t) \/ Post(t) \/ RecordAndPost(t) \/ PostAgain(t)
    \/ \E T \in SUBSET recorded : Contest(T)

Spec == Init /\ [][Next]_ledgerVars

=============================================================================
