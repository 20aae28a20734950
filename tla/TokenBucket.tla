---------------------------- MODULE TokenBucket ----------------------------
(***************************************************************************)
(* What the rate limiter of a process promises: every address has a bucket *)
(* of Burst tokens from the beginning and for ever, a token comes back per *)
(* tick, and a request is admitted exactly when its address has a token.   *)
(* There is no table of limiters, no lazy refill and no cleanup here.      *)
(***************************************************************************)
EXTENDS Integers

CONSTANTS
    Addresses,  \* client addresses
    Requests,   \* request slots
    From,       \* [Requests -> Addresses]
    Burst,      \* size of a bucket
    MaxTime     \* bound on time

VARIABLES
    now,        \* ticks since the start
    level,      \* [Addresses -> 0..Burst]: tokens
    verdict,    \* of the request in a slot
    admitted    \* [Addresses -> Nat]: requests admitted so far

bucketVars == <<now, level, verdict, admitted>>

Init ==
    /\ now = 0
    /\ level = [a \in Addresses |-> Burst]
    /\ verdict = [r \in Requests |-> "none"]
    /\ admitted = [a \in Addresses |-> 0]

\* A request comes in.
Arrive(r) ==
    /\ verdict[r] # "waiting"
    /\ verdict' = [verdict EXCEPT ![r] = "waiting"]
    /\ UNCHANGED <<now, level, admitted>>

Admit(r) ==
    /\ verdict[r] = "waiting"
    /\ level[From[r]] > 0
    /\ level' = [level EXCEPT ![From[r]] = @ - 1]
    /\ admitted' = [admitted EXCEPT ![From[r]] = @ + 1]
    /\ verdict' = [verdict EXCEPT ![r] = "admitted"]
    /\ UNCHANGED now

Reject(r) ==
    /\ verdict[r] = "waiting"
    /\ level[From[r]] = 0
    /\ verdict' = [verdict EXCEPT ![r] = "rejected"]
    /\ UNCHANGED <<now, level, admitted>>

Tick ==
    /\ now < MaxTime
    /\ now' = now + 1
    /\ level' = [a \in Addresses |-> IF level[a] < Burst THEN level[a] + 1 ELSE Burst]
    /\ UNCHANGED <<verdict, admitted>>

Next == (\E r \in Requests : Arrive(r) \/ Admit(r) \/ Reject(r)) \/ Tick

Spec == Init /\ [][Next]_bucketVars

=============================================================================
