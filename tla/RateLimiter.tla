---------------------------- MODULE RateLimiter ----------------------------
(***************************************************************************)
(* The rate limiter of one API process: a table of token buckets by client *)
(* address under a mutex, buckets that refill lazily when they are asked,  *)
(* a request that looks its bucket up and asks it later, outside the       *)
(* mutex, and a cleanup that drops the buckets of addresses not seen for   *)
(* a while.                                                                *)
(*                                                                         *)
(* A tick is the time in which one token comes back, 1/RATE_LIMIT_RPS of a *)
(* second.  Every process counts for itself.  Allow of golang.org/x/time   *)
(* reads the clock and takes the token in one step here.                   *)
(***************************************************************************)
EXTENDS Integers, Sequences

CONSTANTS
    Addresses,  \* client addresses
    Requests,   \* request slots; each serves one request after another
    From,       \* [Requests -> Addresses]
    Burst,      \* RATE_LIMIT_BURST
    Idle,       \* 10 minutes: a bucket not seen for longer is dropped
    MaxHold,    \* bound on the time between getLimiter and Allow
    MaxTime     \* bound on time

ASSUME FromAssumption == From \in [Requests -> Addresses]

\* A goroutine does not sleep between getLimiter and Allow for minutes, and a
\* bucket is full again long before it is dropped: in docker-compose.yml 300
\* tokens at 800 a second, against 10 minutes.
ASSUME TimesAssumption ==
    /\ Burst \in Nat \ {0} /\ Idle \in Nat /\ MaxHold \in Nat /\ MaxTime \in Nat
    /\ MaxHold + Burst <= Idle

VARIABLES
    now,       \* time
    bucket,    \* sequence of the rate.Limiters created so far: [tokens, last]
    entry,     \* limiters: index of the address's bucket, 0 without one
    lastSeen,  \* its lastSeen
    holds,     \* bucket a request got from getLimiter, 0 without one
    since,     \* when it got it
    verdict,   \* outcome of the request in a slot
    admitted   \* history: requests admitted per address

tableVars   == <<entry, lastSeen>>
requestVars == <<holds, since>>
vars == <<now, bucket, tableVars, requestVars, verdict, admitted>>

Init ==
    /\ now = 0
    /\ bucket = <<>>
    /\ entry = [a \in Addresses |-> 0]
    /\ lastSeen = [a \in Addresses |-> 0]
    /\ holds = [r \in Requests |-> 0]
    /\ since = [r \in Requests |-> 0]
    /\ verdict = [r \in Requests |-> "none"]
    /\ admitted = [a \in Addresses |-> 0]

-----------------------------------------------------------------------------
(* rate.Limiter. *)

\* advance: what is in the bucket now.
Refilled(b) ==
    IF b.tokens + (now - b.last) > Burst THEN Burst ELSE b.tokens + (now - b.last)

NewLimiter == [tokens |-> Burst, last |-> now]

-----------------------------------------------------------------------------
(* RateLimit. *)

\* Mutant: a known address is not marked as seen.
GetLimiterUnseen(r) ==
    /\ holds[r] = 0
    /\ LET a == From[r] IN
       /\ \/ entry[a] # 0 /\ UNCHANGED <<bucket, entry, lastSeen>>
          \/ /\ entry[a] = 0
             /\ bucket' = Append(bucket, NewLimiter)
             /\ entry' = [entry EXCEPT ![a] = Len(bucket')]
             /\ lastSeen' = [lastSeen EXCEPT ![a] = now]
       /\ holds' = [holds EXCEPT ![r] = entry'[a]]
    /\ since' = [since EXCEPT ![r] = now]
    /\ verdict' = [verdict EXCEPT ![r] = "waiting"]
    /\ UNCHANGED <<now, admitted>>

\* getLimiter, under mu: the address's limiter, or a new one.
GetLimiter(r) ==
    /\ holds[r] = 0
    /\ LET a == From[r] IN
       /\ \/ entry[a] # 0 /\ UNCHANGED <<bucket, entry>>
          \/ /\ entry[a] = 0
             /\ bucket' = Append(bucket, NewLimiter)
             /\ entry' = [entry EXCEPT ![a] = Len(bucket')]
       /\ lastSeen' = [lastSeen EXCEPT ![a] = now]
       /\ holds' = [holds EXCEPT ![r] = entry'[a]]
    /\ since' = [since EXCEPT ![r] = now]
    /\ verdict' = [verdict EXCEPT ![r] = "waiting"]
    /\ UNCHANGED <<now, admitted>>

Decide(r, what) ==
    /\ verdict' = [verdict EXCEPT ![r] = what]
    /\ holds' = [holds EXCEPT ![r] = 0]
    /\ since' = [since EXCEPT ![r] = 0]
    /\ UNCHANGED <<now, tableVars>>

\* Mutant: Reserve in place of Allow, which borrows a token that is not there.
AllowByReserving(r) ==
    /\ holds[r] # 0
    /\ bucket' = [bucket EXCEPT ![holds[r]] =
                     [tokens |-> Refilled(bucket[holds[r]]) - 1, last |-> now]]
    /\ admitted' = [admitted EXCEPT ![From[r]] = @ + 1]
    /\ Decide(r, "admitted")

\* Mutant: the moment of the last refill is not kept.
AllowRefillsAgain(r) ==
    /\ holds[r] # 0
    /\ Refilled(bucket[holds[r]]) > 0
    /\ bucket' = [bucket EXCEPT ![holds[r]].tokens = Refilled(bucket[holds[r]]) - 1]
    /\ admitted' = [admitted EXCEPT ![From[r]] = @ + 1]
    /\ Decide(r, "admitted")

\* limiter.Allow() on the limiter in hand, whatever the table says by now.
Allow(r) ==
    /\ holds[r] # 0
    /\ LET tokens == Refilled(bucket[holds[r]]) IN
       /\ tokens > 0
       /\ bucket' = [bucket EXCEPT ![holds[r]] = [tokens |-> tokens - 1, last |-> now]]
    /\ admitted' = [admitted EXCEPT ![From[r]] = @ + 1]
    /\ Decide(r, "admitted")

\* No token: 429, and the limiter is as it was.
TooMany(r) ==
    /\ holds[r] # 0
    /\ Refilled(bucket[holds[r]]) = 0
    /\ Decide(r, "rejected")
    /\ UNCHANGED <<bucket, admitted>>

\* Mutant: the cleanup drops a bucket in the period it was last seen in.
CleanupInUse ==
    /\ entry' = [a \in Addresses |-> IF now - lastSeen[a] > 0 THEN 0 ELSE entry[a]]
    /\ UNCHANGED <<now, bucket, lastSeen, requestVars, verdict, admitted>>

\* cleanupLimiters, under mu, from its own goroutine.
Cleanup ==
    /\ entry' = [a \in Addresses |-> IF now - lastSeen[a] > Idle THEN 0 ELSE entry[a]]
    /\ UNCHANGED <<now, bucket, lastSeen, requestVars, verdict, admitted>>

Tick ==
    /\ now < MaxTime
    /\ \A r \in Requests : holds[r] # 0 => now - since[r] < MaxHold
    /\ now' = now + 1
    /\ UNCHANGED <<bucket, tableVars, requestVars, verdict, admitted>>

Next == (\E r \in Requests : GetLimiter(r) \/ Allow(r) \/ TooMany(r)) \/ Cleanup \/ Tick

Spec == Init /\ [][Next]_vars

-----------------------------------------------------------------------------
(* Properties. *)

Bucket == [tokens : 0..Burst, last : 0..MaxTime]

TypeOK ==
    /\ now \in 0..MaxTime
    /\ bucket \in Seq(Bucket)
    /\ entry \in [Addresses -> 0..Len(bucket)]
    /\ lastSeen \in [Addresses -> 0..MaxTime]
    /\ holds \in [Requests -> 0..Len(bucket)]
    /\ since \in [Requests -> 0..MaxTime]
    /\ verdict \in [Requests -> {"none", "waiting", "admitted", "rejected"}]
    /\ admitted \in [Addresses -> Nat]

\* A request never asks a bucket that the table has dropped or replaced: if it
\* did, its address would have two buckets at once.  The cleanup does not look
\* for requests that hold a limiter; only lastSeen protects them.
HeldIsCurrent == \A r \in Requests : holds[r] # 0 => holds[r] = entry[From[r]]

\* In any run of the process an address gets the burst and then no more than
\* the rate, however often its bucket is dropped and created anew.
RateIsBounded == \A a \in Addresses : admitted[a] <= Burst + now

-----------------------------------------------------------------------------
(* The table of lazily refilled limiters that come and go is a bucket per    *)
(* address.                                                                  *)

Level == [a \in Addresses |-> IF entry[a] = 0 THEN Burst ELSE Refilled(bucket[entry[a]])]

TB == INSTANCE TokenBucket WITH level <- Level

\* A request is admitted exactly when the one bucket its address has had since
\* the start of the process holds a token: dropping idle limiters is unseen.
ImplementsTokenBucket == TB!Spec

\* No step gives an address more than the time it took, neither as requests
\* admitted nor as tokens left.  So in any stretch of time, not only from the
\* start on, an address gets what its bucket held and then no more than the rate,
\* also when its limiter was dropped and created anew in between.
CreditGrowsWithTime ==
    [][\A a \in Addresses :
          (admitted'[a] + Level'[a]) - (admitted[a] + Level[a]) <= now' - now]_vars

=============================================================================
