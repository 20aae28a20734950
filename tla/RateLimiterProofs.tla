------------------------- MODULE RateLimiterProofs -------------------------
(***************************************************************************)
(* Proofs about RateLimiter, for any addresses, requests, burst and times  *)
(* that satisfy TimesAssumption.                                           *)
(***************************************************************************)
EXTENDS RateLimiter, TLAPS

-----------------------------------------------------------------------------
(* The inductive invariant. *)

\* No two addresses share a bucket.
OwnBucket == \A a, b \in Addresses : entry[a] # 0 /\ entry[a] = entry[b] => a = b

\* A request is undecided while it holds a bucket, and not for long.
Held ==
    \A r \in Requests :
        /\ holds[r] # 0 <=> verdict[r] = "waiting"
        /\ holds[r] # 0 => /\ since[r] <= lastSeen[From[r]]
                           /\ now - since[r] <= MaxHold

\* Nothing happened in the future, and a bucket in the table was last asked
\* soon after its address was last seen.
Timely ==
    /\ \A i \in 1..Len(bucket) : bucket[i].last <= now
    /\ \A a \in Addresses :
          /\ lastSeen[a] <= now
          /\ entry[a] # 0 => bucket[entry[a]].last <= lastSeen[a] + MaxHold

\* What was admitted and what is left do not exceed what was ever given.
Balanced == \A a \in Addresses : admitted[a] + Level[a] <= Burst + now

IInv == TypeOK /\ OwnBucket /\ HeldIsCurrent /\ Held /\ Timely

-----------------------------------------------------------------------------
(* Buckets. *)

\* What the table and the requests point to are buckets.
LEMMA Pointers ==
    ASSUME TypeOK
    PROVE  /\ Len(bucket) \in Nat
           /\ \A i \in 1..Len(bucket) : bucket[i] \in Bucket
           /\ \A a \in Addresses : entry[a] # 0 => entry[a] \in 1..Len(bucket)
           /\ \A r \in Requests : holds[r] # 0 => holds[r] \in 1..Len(bucket)
<1>1. bucket \in Seq(Bucket)
  BY DEF TypeOK
<1>2. Len(bucket) \in Nat /\ \A i \in 1..Len(bucket) : bucket[i] \in Bucket
  BY <1>1
<1>3. /\ \A a \in Addresses : entry[a] \in 0..Len(bucket)
      /\ \A r \in Requests : holds[r] \in 0..Len(bucket)
  BY DEF TypeOK
<1> QED BY <1>2, <1>3

\* A bucket holds numbers.
LEMMA BucketFields ==
    ASSUME NEW b \in Bucket
    PROVE  b.tokens \in Nat /\ b.last \in Nat /\ b.last \in 0..MaxTime /\ b.tokens \in 0..Burst
BY TimesAssumption DEF Bucket

\* Refilling never exceeds the burst, and fills a bucket left alone long enough.
LEMMA RefilledBounds ==
    ASSUME NEW b \in Bucket, now \in Nat, b.last <= now
    PROVE  /\ Refilled(b) \in 0..Burst
           /\ now - b.last >= Burst => Refilled(b) = Burst
BY TimesAssumption DEF Bucket, Refilled

\* The level of an address is a number of tokens.
LEMMA LevelType ==
    ASSUME IInv
    PROVE  Level \in [Addresses -> 0..Burst]
<1> SUFFICES ASSUME NEW a \in Addresses, entry[a] # 0
             PROVE  Refilled(bucket[entry[a]]) \in 0..Burst
  BY TimesAssumption DEF Level
<1>1. entry[a] \in 1..Len(bucket) /\ bucket[entry[a]] \in Bucket /\ now \in Nat
  BY Pointers DEF IInv, TypeOK
<1>2. bucket[entry[a]].last <= now
  BY <1>1 DEF IInv, Timely
<1> QED BY <1>1, <1>2, RefilledBounds

\* Tokens, admissions and time are numbers.
LEMMA CreditType ==
    ASSUME IInv
    PROVE  now \in Int /\ \A a \in Addresses : Level[a] \in Int /\ admitted[a] \in Int
BY LevelType, TimesAssumption DEF IInv, TypeOK

\* getLimiter changes no level: a known bucket stays, a new one is full.
LEMMA GetLimiterStep ==
    ASSUME IInv, NEW r \in Requests, GetLimiter(r)
    PROVE  IInv' /\ Level' = Level
<1> DEFINE a == From[r]
<1> USE DEF IInv
<1>1. a \in Addresses /\ holds[r] = 0
  BY FromAssumption DEF GetLimiter
<1>2. /\ now' = now /\ admitted' = admitted
      /\ lastSeen' = [lastSeen EXCEPT ![a] = now]
      /\ holds' = [holds EXCEPT ![r] = entry'[a]]
      /\ since' = [since EXCEPT ![r] = now]
      /\ verdict' = [verdict EXCEPT ![r] = "waiting"]
  BY DEF GetLimiter
<1>3. \/ entry[a] # 0 /\ bucket' = bucket /\ entry' = entry
      \/ /\ entry[a] = 0
         /\ bucket' = Append(bucket, NewLimiter)
         /\ entry' = [entry EXCEPT ![a] = Len(bucket) + 1]
  BY DEF GetLimiter, TypeOK
<1>4. NewLimiter \in Bucket /\ Refilled(NewLimiter) = Burst
  BY TimesAssumption DEF NewLimiter, Bucket, Refilled, TypeOK
<1>5. /\ bucket' \in Seq(Bucket) /\ Len(bucket') \in Nat /\ Len(bucket') >= Len(bucket)
      /\ \A i \in 1..Len(bucket) : bucket'[i] = bucket[i]
      /\ entry[a] = 0 => Len(bucket') = Len(bucket) + 1 /\ bucket'[Len(bucket) + 1] = NewLimiter
  <2>1. bucket \in Seq(Bucket) /\ Len(bucket) \in Nat
    BY DEF TypeOK
  <2> QED BY <1>3, <1>4, <2>1
<1>6. /\ entry' \in [Addresses -> 0..Len(bucket')]
      /\ entry'[a] # 0
      /\ \A b \in Addresses \ {a} : entry'[b] = entry[b]
      /\ entry'[a] = IF entry[a] = 0 THEN Len(bucket) + 1 ELSE entry[a]
  <2>1. entry \in [Addresses -> 0..Len(bucket)] /\ Len(bucket) \in Nat
    BY Pointers DEF TypeOK
  <2>2. CASE entry[a] # 0
    BY <1>1, <1>3, <2>1, <2>2
  <2>3. CASE entry[a] = 0
    <3>1. entry' = [entry EXCEPT ![a] = Len(bucket) + 1] /\ Len(bucket') = Len(bucket) + 1
      BY <1>3, <1>5, <2>3
    <3> QED BY <1>1, <2>1, <2>3, <3>1
  <2> QED BY <2>2, <2>3
<1>7. OwnBucket'
  <2> SUFFICES ASSUME NEW b \in Addresses, NEW d \in Addresses, entry'[b] # 0, entry'[b] = entry'[d]
               PROVE  b = d
    BY DEF OwnBucket
  <2>1. CASE entry' = entry
    BY <2>1 DEF OwnBucket
  <2>2. CASE entry' = [entry EXCEPT ![a] = Len(bucket) + 1]
    <3>1. \A e \in Addresses : entry[e] # Len(bucket) + 1
      BY DEF TypeOK
    <3> QED BY <1>1, <2>2, <3>1 DEF OwnBucket, TypeOK
  <2> QED BY <1>3, <2>1, <2>2
<1>8. HeldIsCurrent'
  <2> SUFFICES ASSUME NEW s \in Requests, holds'[s] # 0 PROVE holds'[s] = entry'[From[s]]
    BY DEF HeldIsCurrent
  <2>1. CASE s = r
    BY <1>2, <2>1 DEF TypeOK
  <2>2. CASE s # r
    <3>1. holds[s] # 0 /\ holds'[s] = holds[s] /\ holds[s] = entry[From[s]] /\ From[s] \in Addresses
      BY <1>2, <2>2, FromAssumption DEF TypeOK, HeldIsCurrent
    <3> QED BY <1>3, <3>1 DEF TypeOK
  <2> QED BY <2>1, <2>2
<1>9. Held'
  <2> SUFFICES ASSUME NEW s \in Requests
               PROVE  /\ holds'[s] # 0 <=> verdict'[s] = "waiting"
                      /\ holds'[s] # 0 => since'[s] <= lastSeen'[From[s]] /\ now' - since'[s] <= MaxHold
    BY DEF Held
  <2>1. lastSeen[From[s]] <= lastSeen'[From[s]] /\ lastSeen[From[s]] \in Nat
        /\ lastSeen'[From[s]] \in Nat /\ since[s] \in Nat /\ now \in Nat
    <3>1. /\ From[s] \in Addresses /\ now \in Nat /\ since[s] \in Nat
          /\ lastSeen[From[s]] \in Nat /\ lastSeen[From[s]] <= now
      BY FromAssumption, TimesAssumption DEF TypeOK, Timely
    <3> QED BY <1>1, <1>2, <3>1 DEF TypeOK
  <2>2. CASE s = r
    BY <1>1, <1>2, <1>6, <2>1, <2>2, TimesAssumption DEF TypeOK
  <2>3. CASE s # r
    BY <1>2, <2>1, <2>3, TimesAssumption DEF TypeOK, Held
  <2> QED BY <2>2, <2>3
<1>10. Timely'
  <2>1. \A i \in 1..Len(bucket') : bucket'[i].last <= now'
    <3>1. \A i \in 1..Len(bucket) : bucket'[i].last <= now
      BY <1>5 DEF Timely
    <3>2. NewLimiter.last = now /\ now \in Nat
      BY DEF NewLimiter, TypeOK
    <3>3. CASE entry[a] # 0
      BY <1>2, <1>3, <3>1, <3>3
    <3>4. CASE entry[a] = 0
      <4>1. \A i \in 1..Len(bucket') : i \in 1..Len(bucket) \/ i = Len(bucket) + 1
        BY <1>5, <3>4, Pointers
      <4> QED BY <1>2, <1>5, <3>1, <3>2, <3>4, <4>1
    <3> QED BY <3>3, <3>4
  <2>2. ASSUME NEW b \in Addresses
        PROVE  /\ lastSeen'[b] <= now'
               /\ entry'[b] # 0 => bucket'[entry'[b]].last <= lastSeen'[b] + MaxHold
    <3>1. lastSeen'[b] <= now' /\ lastSeen[b] <= lastSeen'[b] /\ lastSeen'[b] \in Nat /\ lastSeen[b] \in Nat
      BY <1>2, TimesAssumption DEF TypeOK, Timely
    <3>2. CASE entry'[b] = entry[b] /\ entry[b] # 0
      <4>1. entry[b] \in 1..Len(bucket) /\ bucket[entry[b]] \in Bucket
        BY <3>2, Pointers
      <4>2. bucket'[entry'[b]] = bucket[entry[b]] /\ bucket[entry[b]].last \in Nat
        BY <1>5, <3>2, <4>1, BucketFields
      <4> QED BY <3>1, <3>2, <4>2, TimesAssumption DEF Timely
    <3>3. CASE b = a /\ entry[a] = 0
      <4>1. bucket'[entry'[a]] = NewLimiter
        BY <1>5, <1>6, <3>3
      <4>2. lastSeen'[a] = now /\ now \in Nat
        BY <1>1, <1>2 DEF TypeOK
      <4> QED BY <3>1, <3>3, <4>1, <4>2, TimesAssumption DEF NewLimiter
    <3> QED BY <1>3, <1>6, <3>1, <3>2, <3>3
  <2> QED BY <2>1, <2>2 DEF Timely
<1>11. TypeOK'
  <2>1. holds' \in [Requests -> 0..Len(bucket')]
    <3>1. holds \in [Requests -> 0..Len(bucket')] /\ entry'[a] \in 0..Len(bucket')
      BY <1>1, <1>5, <1>6, Pointers DEF TypeOK
    <3> QED BY <1>2, <3>1
  <2> QED BY <1>2, <1>5, <1>6, <2>1 DEF TypeOK
<1>12. Level' = Level
  <2> SUFFICES ASSUME NEW b \in Addresses
               PROVE  (IF entry[b] = 0 THEN Burst ELSE Refilled(bucket[entry[b]]))'
                        = IF entry[b] = 0 THEN Burst ELSE Refilled(bucket[entry[b]])
    BY DEF Level
  <2>1. CASE entry'[b] = entry[b] /\ entry[b] # 0
    <3>1. bucket'[entry'[b]] = bucket[entry[b]]
      BY <1>5, <2>1, Pointers
    <3> QED BY <1>2, <2>1, <3>1 DEF Refilled
  <2>2. CASE entry'[b] = entry[b] /\ entry[b] = 0
    BY <2>2
  <2>3. CASE b = a /\ entry[a] = 0
    <3>1. bucket'[entry'[a]] = NewLimiter /\ entry'[a] # 0
      BY <1>5, <1>6, <2>3
    <3> QED BY <1>2, <1>4, <2>3, <3>1 DEF Refilled
  <2> QED BY <1>3, <1>6, <2>1, <2>2, <2>3
<1> QED BY <1>7, <1>8, <1>9, <1>10, <1>11, <1>12

\* Allow takes one token from the bucket of the request's address.
LEMMA AllowStep ==
    ASSUME IInv, NEW r \in Requests, Allow(r)
    PROVE  /\ IInv'
           /\ Level[From[r]] > 0
           /\ Level' = [Level EXCEPT ![From[r]] = @ - 1]
<1> DEFINE a == From[r]
<1> DEFINE i == holds[r]
<1> DEFINE tokens == Refilled(bucket[i])
<1> USE DEF IInv
<1>1. a \in Addresses /\ i # 0 /\ i = entry[a] /\ i \in 1..Len(bucket) /\ bucket[i] \in Bucket
      /\ now \in 0..MaxTime
  BY FromAssumption, Pointers DEF Allow, HeldIsCurrent, TypeOK
<1>2. /\ tokens \in 0..Burst /\ tokens > 0
      /\ bucket' = [bucket EXCEPT ![i] = [tokens |-> tokens - 1, last |-> now]]
  BY <1>1, RefilledBounds, TimesAssumption DEF Allow, Timely
<1>3. /\ now' = now /\ entry' = entry /\ lastSeen' = lastSeen
      /\ holds' = [holds EXCEPT ![r] = 0] /\ since' = [since EXCEPT ![r] = 0]
      /\ verdict' = [verdict EXCEPT ![r] = "admitted"]
      /\ admitted' = [admitted EXCEPT ![a] = @ + 1]
  BY DEF Allow, Decide, tableVars
<1>4. [tokens |-> tokens - 1, last |-> now] \in Bucket
  BY <1>1, <1>2, TimesAssumption DEF Bucket
<1>5. bucket' \in Seq(Bucket) /\ Len(bucket') = Len(bucket)
  BY <1>1, <1>2, <1>4 DEF TypeOK
<1>6. /\ bucket'[i] = [tokens |-> tokens - 1, last |-> now]
      /\ \A j \in 1..Len(bucket) : j # i => bucket'[j] = bucket[j]
  BY <1>1, <1>2 DEF TypeOK
<1>7. TypeOK'
  <2>1. /\ holds' \in [Requests -> 0..Len(bucket)] /\ since' \in [Requests -> 0..MaxTime]
        /\ verdict' \in [Requests -> {"none", "waiting", "admitted", "rejected"}]
        /\ admitted' \in [Addresses -> Nat]
    BY <1>1, <1>3, TimesAssumption, Pointers DEF TypeOK
  <2> QED BY <1>3, <1>5, <2>1 DEF TypeOK
<1>8. OwnBucket' /\ HeldIsCurrent'
  BY <1>3 DEF OwnBucket, HeldIsCurrent, TypeOK
<1>9. Held'
  BY <1>3 DEF Held, TypeOK
<1>10. Timely'
  <2>1. \A j \in 1..Len(bucket') : bucket'[j].last <= now'
    BY <1>1, <1>3, <1>5, <1>6 DEF Timely
  <2>2. now <= lastSeen[a] + MaxHold
    BY <1>1, TimesAssumption DEF Held, TypeOK
  <2>3. ASSUME NEW b \in Addresses, entry[b] # 0
        PROVE  bucket'[entry[b]].last <= lastSeen[b] + MaxHold
    <3>1. CASE b = a
      BY <1>1, <1>6, <2>2, <3>1
    <3>2. CASE b # a
      <4>1. entry[b] \in 1..Len(bucket) /\ entry[b] # i
        BY <1>1, <2>3, <3>2, Pointers DEF OwnBucket
      <4> QED BY <1>6, <2>3, <4>1 DEF Timely
    <3> QED BY <3>1, <3>2
  <2> QED BY <1>3, <2>1, <2>3 DEF Timely
<1>11. Level' = [Level EXCEPT ![a] = @ - 1]
  <2> DEFINE L(b) == IF entry[b] = 0 THEN Burst ELSE Refilled(bucket[entry[b]])
  <2>1. ASSUME NEW b \in Addresses \ {a} PROVE L(b)' = L(b)
    <3>1. entry[b] # 0 => entry[b] # i /\ entry[b] \in 1..Len(bucket)
      BY <1>1, Pointers DEF OwnBucket
    <3>2. entry[b] # 0 => bucket'[entry'[b]] = bucket[entry[b]]
      BY <1>3, <1>6, <3>1
    <3> QED BY <1>3, <3>2 DEF Refilled
  <2>2. L(a)' = tokens - 1
    BY <1>1, <1>2, <1>3, <1>6, TimesAssumption DEF Refilled
  <2>3. L(a) = tokens
    BY <1>1
  <2>4. Level = [b \in Addresses |-> L(b)] /\ Level' = [b \in Addresses |-> L(b)']
    BY DEF Level
  <2> HIDE DEF L
  <2> QED BY <1>1, <2>1, <2>2, <2>3, <2>4
<1>12. Level[a] > 0
  BY <1>1, <1>2 DEF Level
<1> QED BY <1>7, <1>8, <1>9, <1>10, <1>11, <1>12

\* A request is rejected only when its address has no token.
LEMMA TooManyStep ==
    ASSUME IInv, NEW r \in Requests, TooMany(r)
    PROVE  IInv' /\ Level[From[r]] = 0 /\ Level' = Level
<1> USE DEF IInv
<1>1. /\ now' = now /\ bucket' = bucket /\ entry' = entry /\ lastSeen' = lastSeen
      /\ holds' = [holds EXCEPT ![r] = 0] /\ since' = [since EXCEPT ![r] = 0]
      /\ verdict' = [verdict EXCEPT ![r] = "rejected"] /\ admitted' = admitted
  BY DEF TooMany, Decide, tableVars
<1>2. Level' = Level
  BY <1>1 DEF Level, Refilled
<1>3. Level[From[r]] = 0
  BY FromAssumption DEF TooMany, HeldIsCurrent, Level
<1>4. TypeOK' /\ OwnBucket' /\ HeldIsCurrent' /\ Held' /\ Timely'
  BY <1>1, TimesAssumption DEF TypeOK, OwnBucket, HeldIsCurrent, Held, Timely
<1> QED BY <1>2, <1>3, <1>4

\* The cleanup drops full buckets only, and none that a request holds.
LEMMA CleanupStep ==
    ASSUME IInv, Cleanup
    PROVE  IInv' /\ Level' = Level
<1> USE DEF IInv
<1>1. /\ UNCHANGED <<now, bucket, lastSeen, holds, since, verdict, admitted>>
      /\ entry' = [a \in Addresses |-> IF now - lastSeen[a] > Idle THEN 0 ELSE entry[a]]
  BY DEF Cleanup, requestVars
<1>2. TypeOK' /\ OwnBucket' /\ Held' /\ Timely'
  BY <1>1 DEF TypeOK, OwnBucket, Held, Timely
<1>3. HeldIsCurrent'
  <2> SUFFICES ASSUME NEW r \in Requests, holds[r] # 0 PROVE entry'[From[r]] = entry[From[r]]
    BY <1>1 DEF HeldIsCurrent
  <2>1. now - lastSeen[From[r]] <= MaxHold
    BY FromAssumption, TimesAssumption DEF Held, TypeOK
  <2> QED BY <1>1, <2>1, FromAssumption, TimesAssumption DEF TypeOK
<1>4. Level' = Level
  <2> DEFINE L(a) == IF entry[a] = 0 THEN Burst ELSE Refilled(bucket[entry[a]])
  <2> SUFFICES ASSUME NEW a \in Addresses PROVE L(a)' = L(a)
    BY DEF Level
  <2>1. CASE entry'[a] = entry[a]
    BY <1>1, <2>1 DEF Refilled
  <2>2. CASE entry'[a] = 0 /\ entry[a] # 0
    <3>1. now - lastSeen[a] > Idle
      BY <1>1, <2>2
    <3>2. bucket[entry[a]] \in Bucket /\ bucket[entry[a]].last <= now
          /\ bucket[entry[a]].last <= lastSeen[a] + MaxHold
      BY <2>2, Pointers DEF Timely
    <3>3. now - bucket[entry[a]].last >= Burst
      BY <3>1, <3>2, BucketFields, TimesAssumption DEF TypeOK
    <3>4. Refilled(bucket[entry[a]]) = Burst
      BY <3>2, <3>3, RefilledBounds DEF TypeOK
    <3> QED BY <2>2, <3>4
  <2> QED BY <1>1, <2>1, <2>2
<1> QED BY <1>2, <1>3, <1>4

\* A tick gives every address a token, up to the burst.
LEMMA TickStep ==
    ASSUME IInv, Tick
    PROVE  /\ IInv'
           /\ Level' = [a \in Addresses |-> IF Level[a] < Burst THEN Level[a] + 1 ELSE Burst]
<1> USE DEF IInv
<1>1. /\ UNCHANGED <<bucket, entry, lastSeen, holds, since, verdict, admitted>>
      /\ now' = now + 1 /\ now < MaxTime
      /\ \A r \in Requests : holds[r] # 0 => now - since[r] < MaxHold
  BY DEF Tick, tableVars, requestVars
<1>2. TypeOK'
  BY <1>1, TimesAssumption DEF TypeOK
<1>3. OwnBucket' /\ HeldIsCurrent'
  BY <1>1 DEF OwnBucket, HeldIsCurrent
<1>4. Held'
  BY <1>1, TimesAssumption DEF Held, TypeOK
<1>5. Timely'
  <2>1. \A i \in 1..Len(bucket) : bucket[i].last \in Nat
    BY Pointers, BucketFields
  <2> QED BY <1>1, <2>1, TimesAssumption DEF Timely, TypeOK
<1>6. Level' = [a \in Addresses |-> IF Level[a] < Burst THEN Level[a] + 1 ELSE Burst]
  <2> DEFINE L(a) == IF entry[a] = 0 THEN Burst ELSE Refilled(bucket[entry[a]])
  <2> SUFFICES ASSUME NEW a \in Addresses PROVE L(a)' = IF L(a) < Burst THEN L(a) + 1 ELSE Burst
    BY DEF Level
  <2>1. CASE entry[a] = 0
    BY <1>1, <2>1, TimesAssumption
  <2>2. CASE entry[a] # 0
    <3>1. bucket[entry[a]] \in Bucket
      BY <2>2, Pointers
    <3>2. bucket[entry[a]].tokens \in Nat /\ bucket[entry[a]].last \in Nat /\ now \in Nat
      BY <3>1, BucketFields DEF TypeOK
    <3> QED BY <1>1, <2>2, <3>2, TimesAssumption DEF Refilled
  <2> QED BY <2>1, <2>2
<1> QED BY <1>2, <1>3, <1>4, <1>5, <1>6

LEMMA IInvNext == IInv /\ [Next]_vars => IInv'
<1> SUFFICES ASSUME IInv, [Next]_vars PROVE IInv'
  OBVIOUS
<1>1. CASE UNCHANGED vars
  BY <1>1 DEF vars, tableVars, requestVars, IInv, TypeOK, OwnBucket, HeldIsCurrent, Held, Timely
<1> QED BY <1>1, GetLimiterStep, AllowStep, TooManyStep, CleanupStep, TickStep DEF Next

\* No step raises what an address was admitted and has left by more than the
\* time that passes in it.
LEMMA StepCredit ==
    ASSUME IInv, [Next]_vars, NEW a \in Addresses
    PROVE  /\ (admitted'[a] + Level'[a]) - (admitted[a] + Level[a]) <= now' - now
           /\ admitted'[a] + Level'[a] \in Int /\ now' \in Int
<1>1. Level \in [Addresses -> 0..Burst] /\ admitted \in [Addresses -> Nat] /\ now \in Nat
      /\ Burst \in Nat /\ admitted[a] \in Nat /\ Level[a] \in 0..Burst
  BY LevelType, TimesAssumption DEF IInv, TypeOK
<1>2. ASSUME NEW r \in Requests, GetLimiter(r) \/ TooMany(r)
      PROVE  Level' = Level /\ admitted' = admitted /\ now' = now
  BY <1>2, GetLimiterStep, TooManyStep DEF GetLimiter, TooMany, Decide
<1>3. ASSUME NEW r \in Requests, Allow(r)
      PROVE  admitted'[a] + Level'[a] = admitted[a] + Level[a] /\ now' = now
  <2>1. /\ Level' = [Level EXCEPT ![From[r]] = @ - 1]
        /\ admitted' = [admitted EXCEPT ![From[r]] = @ + 1]
        /\ now' = now
    BY <1>3, AllowStep DEF Allow, Decide
  <2> QED BY <1>1, <2>1
<1>4. CASE Cleanup
  BY <1>1, <1>4, CleanupStep DEF Cleanup
<1>5. CASE Tick
  <2>1. /\ Level' = [b \in Addresses |-> IF Level[b] < Burst THEN Level[b] + 1 ELSE Burst]
        /\ admitted' = admitted /\ now' = now + 1
    BY <1>5, TickStep DEF Tick
  <2>2. Level'[a] <= Level[a] + 1 /\ Level'[a] \in Nat
    BY <1>1, <2>1
  <2> QED BY <1>1, <2>1, <2>2
<1>6. CASE UNCHANGED vars
  BY <1>1, <1>6 DEF vars, tableVars, Level, Refilled
<1>7. CASE \E r \in Requests : GetLimiter(r) \/ Allow(r) \/ TooMany(r)
  <2>1. admitted'[a] + Level'[a] = admitted[a] + Level[a] /\ now' = now
    BY <1>2, <1>3, <1>7
  <2> QED BY <1>1, <2>1
<1> QED BY <1>4, <1>5, <1>6, <1>7 DEF Next

-----------------------------------------------------------------------------
(* Theorems. *)

\* The table, the buckets and the requests that hold them fit together.
THEOREM Invariance == Spec => []IInv
<1>1. Init => IInv
  BY TimesAssumption DEF Init, IInv, TypeOK, OwnBucket, HeldIsCurrent, Held, Timely
<1> QED BY <1>1, IInvNext, PTL DEF Spec

\* Every reachable state of the rate limiter has the declared types; no bucket
\* ever holds more than the burst.
THEOREM TypeCorrect == Spec => []TypeOK
<1>1. IInv => TypeOK
  BY DEF IInv
<1> QED BY <1>1, Invariance, PTL

\* A request asks the bucket that the table has for its address.
THEOREM NoOrphanedBucket == Spec => []HeldIsCurrent
<1>1. IInv => HeldIsCurrent
  BY DEF IInv
<1> QED BY <1>1, Invariance, PTL

\* The table of lazy buckets that come and go implements one eager bucket per
\* address that is always there.
THEOREM Refinement == Spec => ImplementsTokenBucket
<1>1. Init => TB!Init
  BY DEF Init, TB!Init, Level
<1>2. IInv /\ [Next]_vars => [TB!Next]_(TB!bucketVars)
  <2> SUFFICES ASSUME IInv, [Next]_vars PROVE [TB!Next]_(TB!bucketVars)
    OBVIOUS
  <2>1. ASSUME NEW r \in Requests, GetLimiter(r) PROVE TB!Arrive(r)
    <3>1. verdict[r] # "waiting"
      BY <2>1 DEF GetLimiter, IInv, Held
    <3>2. Level' = Level
      BY <2>1, GetLimiterStep
    <3> QED BY <2>1, <3>1, <3>2 DEF GetLimiter, TB!Arrive
  <2>2. ASSUME NEW r \in Requests, Allow(r) PROVE TB!Admit(r)
    <3>1. verdict[r] = "waiting"
      BY <2>2 DEF Allow, IInv, Held
    <3>2. Level[From[r]] > 0 /\ Level' = [Level EXCEPT ![From[r]] = @ - 1]
      BY <2>2, AllowStep
    <3> QED BY <2>2, <3>1, <3>2 DEF Allow, Decide, TB!Admit
  <2>3. ASSUME NEW r \in Requests, TooMany(r) PROVE TB!Reject(r)
    <3>1. verdict[r] = "waiting"
      BY <2>3 DEF TooMany, IInv, Held
    <3>2. Level[From[r]] = 0 /\ Level' = Level
      BY <2>3, TooManyStep
    <3> QED BY <2>3, <3>1, <3>2 DEF TooMany, Decide, TB!Reject
  <2>4. CASE Cleanup
    BY <2>4, CleanupStep DEF Cleanup, TB!bucketVars
  <2>5. CASE Tick
    <3>1. Level' = [a \in Addresses |-> IF Level[a] < Burst THEN Level[a] + 1 ELSE Burst]
      BY <2>5, TickStep
    <3> QED BY <2>5, <3>1 DEF Tick, TB!Tick, TB!Next
  <2>6. CASE UNCHANGED vars
    BY <2>6 DEF vars, tableVars, TB!bucketVars, Level, Refilled
  <2> QED BY <2>1, <2>2, <2>3, <2>4, <2>5, <2>6 DEF Next, TB!Next
<1> QED BY <1>1, <1>2, Invariance, PTL DEF Spec, ImplementsTokenBucket, TB!Spec

\* A process admits no more than the burst and then the rate for an address,
\* however often its limiter is dropped and created anew.
THEOREM RateBounded == Spec => []RateIsBounded
<1>1. Init => Balanced
  <2> SUFFICES ASSUME Init, NEW a \in Addresses PROVE admitted[a] + Level[a] <= Burst + now
    BY DEF Balanced
  <2>1. Level[a] = Burst /\ admitted[a] = 0 /\ now = 0
    BY DEF Init, Level
  <2> QED BY <2>1, TimesAssumption
<1>2. IInv /\ Balanced /\ [Next]_vars => Balanced'
  <2> SUFFICES ASSUME IInv, Balanced, [Next]_vars, NEW a \in Addresses
               PROVE  admitted'[a] + Level'[a] <= Burst + now'
    BY DEF Balanced
  <2>1. (admitted'[a] + Level'[a]) - (admitted[a] + Level[a]) <= now' - now
        /\ admitted'[a] + Level'[a] \in Int /\ now' \in Int
    BY StepCredit
  <2>2. Level[a] \in Int /\ admitted[a] \in Int /\ now \in Int
    BY CreditType
  <2> QED BY <2>1, <2>2, TimesAssumption DEF Balanced
<1>3. IInv /\ Balanced => RateIsBounded
  <2> SUFFICES ASSUME IInv, Balanced, NEW a \in Addresses PROVE admitted[a] <= Burst + now
    BY DEF RateIsBounded
  <2>1. Level[a] \in 0..Burst /\ admitted[a] \in Nat /\ now \in Nat
    BY LevelType DEF IInv, TypeOK
  <2> QED BY <2>1, TimesAssumption DEF Balanced
<1> QED BY <1>1, <1>2, <1>3, Invariance, PTL DEF Spec

\* In any stretch of time an address gets what its bucket held at its start and
\* then no more than the rate.
THEOREM CreditBounded == Spec => CreditGrowsWithTime
<1>1. IInv /\ [Next]_vars =>
         [\A a \in Addresses :
             (admitted'[a] + Level'[a]) - (admitted[a] + Level[a]) <= now' - now]_vars
  BY StepCredit
<1> QED BY <1>1, Invariance, PTL DEF Spec, CreditGrowsWithTime

\* From any moment s on, at which an address has been admitted n times, it is
\* admitted at most burst times more, and then once per tick: the bound holds
\* for every window of time, so no dropped limiter is ever worth a second burst.
THEOREM EveryWindow ==
    ASSUME NEW CONSTANT a \in Addresses, NEW CONSTANT s \in Nat, NEW CONSTANT n \in Nat
    PROVE  Spec => [](now = s /\ admitted[a] = n => [](admitted[a] <= n + Burst + (now - s)))
<1> DEFINE Opens == now = s /\ admitted[a] = n
<1> DEFINE Within == admitted[a] + Level[a] <= n + Burst + (now - s)
<1>1. IInv /\ Opens => Within
  BY LevelType, TimesAssumption DEF IInv, TypeOK
<1>2. IInv /\ Within /\ [Next]_vars => Within'
  <2> SUFFICES ASSUME IInv, Within, [Next]_vars PROVE Within'
    OBVIOUS
  <2>1. (admitted'[a] + Level'[a]) - (admitted[a] + Level[a]) <= now' - now
        /\ admitted'[a] + Level'[a] \in Int /\ now' \in Int
    BY StepCredit
  <2>2. Level[a] \in Int /\ admitted[a] \in Int /\ now \in Int
    BY CreditType
  <2> QED BY <2>1, <2>2, TimesAssumption
<1>3. IInv /\ Within => admitted[a] <= n + Burst + (now - s)
  BY LevelType, TimesAssumption DEF IInv, TypeOK
<1> HIDE DEF Opens, Within
<1>4. Spec => [](Opens => [](admitted[a] <= n + Burst + (now - s)))
  BY <1>1, <1>2, <1>3, Invariance, PTL DEF Spec
<1> QED BY <1>4 DEF Opens

=============================================================================
