------------------------ MODULE CircuitBreakerProofs ------------------------
(***************************************************************************)
(* Proofs about CircuitBreaker, for any finite number of concurrent calls, *)
(* any settings and any number of failures and absent rows.                *)
(***************************************************************************)
EXTENDS CircuitBreaker, FiniteSetTheorems, TLAPS

-----------------------------------------------------------------------------
(* The inductive invariant. *)

Breaker ==
    [state : {"closed", "half-open", "open"}, requests : 0..MaxRequests,
     successes : 0..(MaxRequests - 1), failures : Nat, timer : Nat, fresh : SUBSET Calls]

\* In half-open every admitted probe is under way or has succeeded.
Accounted(b) ==
    b.state = "half-open" => b.requests = Cardinality(b.fresh) + b.successes

\* A call admitted in this generation that has not reported is on its way.
FreshIsOut == \A c \in cb.fresh : phase[c] \in {"running", "found", "error", "absent"}

IInv == TypeOK /\ Accounted(cb) /\ FreshIsOut /\ GaugeNeverHidesOpen

-----------------------------------------------------------------------------
(* The breaker's operations. *)

\* The calls of a generation are finitely many.
LEMMA FreshFinite ==
    ASSUME NEW b \in Breaker
    PROVE  IsFiniteSet(b.fresh) /\ Cardinality(b.fresh) \in Nat
<1>1. b.fresh \in SUBSET Calls
  BY DEF Breaker
<1>2. IsFiniteSet(b.fresh)
  BY <1>1, CallsAssumption, FS_Subset
<1> QED BY <1>2, FS_CardinalityType

\* A new generation starts with nothing to account for.
LEMMA GenerationGood ==
    ASSUME NEW s \in {"closed", "half-open", "open"}
    PROVE  /\ Generation(s) \in Breaker
           /\ Generation(s).state = s /\ Generation(s).fresh = {}
           /\ Accounted(Generation(s))
<1>1. (CASE s = "closed" -> Interval [] s = "open" -> Timeout [] OTHER -> 0) \in Nat
  BY SettingsAssumption
<1>2. Generation(s) \in Breaker
  BY <1>1, SettingsAssumption DEF Generation, Breaker
<1>3. Cardinality({}) = 0
  BY FS_EmptySet
<1> QED BY <1>2, <1>3 DEF Generation, Accounted

\* An expired timer starts a new generation, anything else changes nothing.
LEMMA CurrentGood ==
    ASSUME cb \in Breaker, Accounted(cb)
    PROVE  /\ Current \in Breaker /\ Accounted(Current)
           /\ Current.fresh \subseteq cb.fresh
           /\ Current = cb \/ (cb.state # "half-open" /\ Current.state # "open")
<1>1. CASE Current = cb
  BY <1>1
<1>2. CASE Current = Generation("half-open") /\ cb.state = "open"
  BY <1>2, GenerationGood
<1>3. CASE Current = Generation("closed") /\ cb.state = "closed"
  BY <1>3, GenerationGood
<1> QED BY <1>1, <1>2, <1>3 DEF Current

\* Admitting a call adds one request and one call under way.
LEMMA AdmittedGood ==
    ASSUME NEW b \in Breaker, Accounted(b), ~Full(b), NEW c \in Calls \ b.fresh
    PROVE  /\ Admitted(b, c) \in Breaker /\ Accounted(Admitted(b, c))
           /\ Admitted(b, c).fresh = b.fresh \cup {c}
           /\ Admitted(b, c).state = b.state
<1>1. /\ Admitted(b, c).fresh = b.fresh \cup {c} /\ Admitted(b, c).state = b.state
      /\ Admitted(b, c).successes = b.successes
      /\ b.state = "half-open" => Admitted(b, c).requests = b.requests + 1
  BY DEF Admitted, Breaker
<1>2. Admitted(b, c) \in Breaker
  <2>1. b.state = "half-open" => b.requests + 1 \in 0..MaxRequests
    BY SettingsAssumption DEF Full, Breaker
  <2> QED BY <2>1 DEF Admitted, Breaker
<1>3. Cardinality(b.fresh \cup {c}) = Cardinality(b.fresh) + 1
  BY FreshFinite, FS_AddElement
<1>4. Cardinality(b.fresh) \in Nat
  BY FreshFinite
<1> QED BY <1>1, <1>2, <1>3, <1>4 DEF Accounted, Breaker

\* A report takes one call off the list, or starts a new generation.
LEMMA AfterGood ==
    ASSUME NEW b \in Breaker, Accounted(b), NEW c \in Calls, NEW ok \in BOOLEAN
    PROVE  /\ After(b, c, ok) \in Breaker /\ Accounted(After(b, c, ok))
           /\ After(b, c, ok).fresh \subseteq b.fresh \ {c}
<1>1. CASE c \notin b.fresh
  <2>1. After(b, c, ok) = b
    BY <1>1 DEF After
  <2>2. b.fresh \subseteq b.fresh \ {c}
    BY <1>1
  <2> QED BY <2>1, <2>2
<1>2. CASE c \in b.fresh
  <2>1. Cardinality(b.fresh \ {c}) = Cardinality(b.fresh) - 1 /\ Cardinality(b.fresh) \in Nat
    BY <1>2, FreshFinite, FS_RemoveElement
  <2>2. CASE After(b, c, ok) = Generation("closed") \/ After(b, c, ok) = Generation("open")
    <3>1. PICK s \in {"closed", "half-open", "open"} : After(b, c, ok) = Generation(s)
      BY <2>2
    <3>2. /\ Generation(s) \in Breaker /\ Accounted(Generation(s))
          /\ Generation(s).fresh = {}
      BY GenerationGood
    <3> QED BY <3>1, <3>2
  <2>3. CASE /\ b.state = "half-open" /\ b.successes + 1 < MaxRequests
             /\ After(b, c, ok) = [b EXCEPT !.successes = @ + 1, !.fresh = @ \ {c}]
    <3>1. After(b, c, ok) \in Breaker
      <4>1. b.successes + 1 \in 0..(MaxRequests - 1) /\ b.fresh \ {c} \in SUBSET Calls
        BY <2>3, SettingsAssumption DEF Breaker
      <4> QED BY <2>3, <4>1 DEF Breaker
    <3>2. /\ After(b, c, ok).fresh = b.fresh \ {c}
          /\ After(b, c, ok).successes = b.successes + 1
          /\ After(b, c, ok).requests = b.requests
      BY <2>3 DEF Breaker
    <3> QED BY <2>1, <2>3, <3>1, <3>2 DEF Accounted, Breaker
  <2>4. CASE /\ b.state # "half-open"
             /\ \/ After(b, c, ok) = [b EXCEPT !.failures = 0, !.fresh = @ \ {c}]
                \/ After(b, c, ok) = [b EXCEPT !.failures = @ + 1, !.fresh = @ \ {c}]
    <3>1. PICK n \in Nat : After(b, c, ok) = [b EXCEPT !.failures = n, !.fresh = @ \ {c}]
      <4>1. 0 \in Nat /\ b.failures + 1 \in Nat
        BY DEF Breaker
      <4>2. CASE After(b, c, ok) = [b EXCEPT !.failures = 0, !.fresh = @ \ {c}]
        BY <4>1, <4>2
      <4>3. CASE After(b, c, ok) = [b EXCEPT !.failures = @ + 1, !.fresh = @ \ {c}]
        BY <4>1, <4>3, Zenon
      <4> QED BY <2>4, <4>2, <4>3
    <3>2. After(b, c, ok) \in Breaker
      BY <3>1 DEF Breaker
    <3>3. After(b, c, ok).state = b.state /\ After(b, c, ok).fresh = b.fresh \ {c}
      BY <3>1 DEF Breaker
    <3> QED BY <2>4, <3>2, <3>3 DEF Accounted
  <2>5. CASE ok
    <3>1. After(b, c, ok) = Succeeded(b, c)
      BY <1>2, <2>5 DEF After
    <3>2. b.successes + 1 \in Nat /\ MaxRequests \in Nat
      BY SettingsAssumption DEF Breaker
    <3> QED BY <2>2, <2>3, <2>4, <3>1, <3>2 DEF Succeeded
  <2>6. CASE ~ok
    BY <1>2, <2>2, <2>4, <2>6 DEF After, Failed
  <2> QED BY <2>5, <2>6
<1> QED BY <1>1, <1>2

\* Whatever a critical section leaves, an open breaker is shown open.
LEMMA LeaveShowsOpen ==
    ASSUME NEW b \in Breaker, TypeOK, GaugeNeverHidesOpen, Leave(b)
    PROVE  gauge' \in 0..2 /\ GaugeNeverHidesOpen'
<1>1. b.state \in {"closed", "half-open", "open"}
  BY DEF Breaker
<1> QED BY <1>1 DEF Leave, Level, GaugeNeverHidesOpen, TypeOK

-----------------------------------------------------------------------------
(* Steps. *)

LEMMA InitIInv == Init => IInv
<1> SUFFICES ASSUME Init PROVE IInv
  OBVIOUS
<1>1. cb \in Breaker /\ Accounted(cb) /\ cb.fresh = {} /\ cb.state = "closed"
  BY GenerationGood DEF Init
<1>2. TypeOK
  BY <1>1, SettingsAssumption DEF Init, TypeOK, Breaker, Phases
<1> QED BY <1>1, <1>2 DEF IInv, FreshIsOut, GaugeNeverHidesOpen

\* A step of a request that enters the breaker.
LEMMA BreakerStep ==
    ASSUME IInv, NEW c \in Calls, Arrive(c) \/ Admit(c) \/ Report(c)
    PROVE  IInv'
<1> USE DEF IInv
<1>1. cb \in Breaker
  BY DEF TypeOK, Breaker
<1>2. /\ Current \in Breaker /\ Accounted(Current) /\ Current.fresh \subseteq cb.fresh
  BY <1>1, CurrentGood
<1>3. ASSUME NEW b \in Breaker, Leave(b), Accounted(b),
             \A d \in b.fresh : phase'[d] \in {"running", "found", "error", "absent"},
             phase' \in [Calls -> Phases],
             reply' \in [Calls -> {"none", "served", "failed", "unavailable"}],
             UNCHANGED envVars
      PROVE  IInv'
  <2>1. cb' = b
    BY <1>3 DEF Leave
  <2>2. gauge' \in 0..2 /\ GaugeNeverHidesOpen'
    BY <1>3, LeaveShowsOpen
  <2> QED BY <1>3, <2>1, <2>2 DEF TypeOK, Breaker, FreshIsOut, envVars
<1>4. CASE Arrive(c)
  <2>1. c \notin Current.fresh
    BY <1>2, <1>4 DEF Arrive, FreshIsOut
  <2>2. \A d \in Current.fresh : phase'[d] \in {"running", "found", "error", "absent"}
    BY <1>2, <1>4, <2>1 DEF Arrive, FreshIsOut, TypeOK
  <2>3. /\ phase' \in [Calls -> Phases]
        /\ reply' \in [Calls -> {"none", "served", "failed", "unavailable"}]
    BY <1>4 DEF Arrive, TypeOK, Phases
  <2> QED BY <1>2, <1>3, <1>4, <2>2, <2>3 DEF Arrive
<1>5. CASE Admit(c)
  <2>1. c \notin Current.fresh
    BY <1>2, <1>5 DEF Admit, FreshIsOut
  <2>2. CASE Leave(Current) /\ Answer(c, "failed")
    <3>1. /\ \A d \in Current.fresh : phase'[d] \in {"running", "found", "error", "absent"}
          /\ phase' \in [Calls -> Phases]
          /\ reply' \in [Calls -> {"none", "served", "failed", "unavailable"}]
      BY <1>2, <2>1, <2>2 DEF Answer, FreshIsOut, TypeOK, Phases
    <3> QED BY <1>2, <1>3, <1>5, <2>2, <3>1 DEF Admit
  <2>3. CASE ~Full(Current) /\ Leave(Admitted(Current, c)) /\ Goto(c, "running")
    <3>1. /\ Admitted(Current, c) \in Breaker /\ Accounted(Admitted(Current, c))
          /\ Admitted(Current, c).fresh = Current.fresh \cup {c}
      BY <1>2, <2>1, <2>3, AdmittedGood
    <3>2. \A d \in Current.fresh \cup {c} : phase'[d] \in {"running", "found", "error", "absent"}
      BY <1>2, <2>3 DEF Goto, FreshIsOut, TypeOK
    <3>3. phase' \in [Calls -> Phases] /\ reply' = reply
      BY <2>3 DEF Goto, TypeOK, Phases
    <3> QED BY <1>3, <1>5, <2>3, <3>1, <3>2, <3>3 DEF Admit, TypeOK
  <2> QED BY <1>5, <2>2, <2>3 DEF Admit
<1>6. CASE Report(c)
  <2> DEFINE b == After(Current, c, phase[c] = "found")
  <2>1. b \in Breaker /\ Accounted(b) /\ b.fresh \subseteq Current.fresh \ {c}
    <3>1. (phase[c] = "found") \in BOOLEAN
      OBVIOUS
    <3> QED BY <1>2, <3>1, AfterGood
  <2>2. \A d \in b.fresh : phase'[d] \in {"running", "found", "error", "absent"}
    BY <1>2, <1>6, <2>1 DEF Report, Answer, FreshIsOut, TypeOK
  <2>3. /\ phase' \in [Calls -> Phases]
        /\ reply' \in [Calls -> {"none", "served", "failed", "unavailable"}]
    BY <1>6 DEF Report, Answer, TypeOK, Phases
  <2> QED BY <1>3, <1>6, <2>1, <2>2, <2>3 DEF Report
<1> QED BY <1>4, <1>5, <1>6

LEMMA IInvNext == IInv /\ [Next]_vars => IInv'
<1> SUFFICES ASSUME IInv, [Next]_vars PROVE IInv'
  OBVIOUS
<1> USE DEF IInv
<1>1. ASSUME NEW c \in Calls, Refuse(c) PROVE IInv'
  BY <1>1 DEF Refuse, Answer, envVars, TypeOK, Phases, FreshIsOut, GaugeNeverHidesOpen, Accounted
<1>2. ASSUME NEW c \in Calls, Bypass(c) \/ NeedDatabase(c) PROVE IInv'
  BY <1>2 DEF Bypass, NeedDatabase, Answer, Goto, envVars, TypeOK, Phases, FreshIsOut,
              GaugeNeverHidesOpen, Accounted
<1>3. ASSUME NEW c \in Calls, Query(c) PROVE IInv'
  <2>1. /\ faults' \in 0..MaxFaults /\ missing' \in 0..MaxMissing
        /\ UNCHANGED <<cb, gauge, database, reply>>
    BY <1>3, SettingsAssumption DEF Query, Goto, TypeOK
  <2>2. \E next \in {"found", "error", "absent"} : phase' = [phase EXCEPT ![c] = next]
    BY <1>3 DEF Query, Goto
  <2>3. phase' \in [Calls -> Phases] /\ FreshIsOut'
    BY <2>1, <2>2 DEF TypeOK, Phases, FreshIsOut
  <2> QED BY <2>1, <2>3 DEF TypeOK, GaugeNeverHidesOpen, Accounted
<1>4. CASE Outage \/ Repair
  BY <1>4, SettingsAssumption
     DEF Outage, Repair, callVars, TypeOK, FreshIsOut, GaugeNeverHidesOpen, Accounted
<1>5. CASE Tick
  BY <1>5 DEF Tick, callVars, envVars, TypeOK, FreshIsOut, GaugeNeverHidesOpen, Accounted
<1>6. CASE UNCHANGED vars
  BY <1>6 DEF vars, callVars, envVars, TypeOK, FreshIsOut, GaugeNeverHidesOpen, Accounted
<1> QED BY <1>1, <1>2, <1>3, <1>4, <1>5, <1>6, BreakerStep DEF Next, Request

-----------------------------------------------------------------------------
(* Theorems. *)

\* Probes and their reports add up, in every generation of the breaker.
THEOREM Invariance == Spec => []IInv
BY InitIInv, IInvNext, PTL DEF Spec

\* Every reachable state of the breaker and its calls has the declared types;
\* in half-open no more than MaxRequests are ever let in.
THEOREM TypeCorrect == Spec => []TypeOK
<1>1. IInv => TypeOK
  BY DEF IInv
<1> QED BY <1>1, Invariance, PTL

\* No probe slot leaks: a half-open breaker that refuses has a probe out.
THEOREM NoSlotLeaks == Spec => []ProbesAreAccounted
<1>1. IInv => ProbesAreAccounted
  <2> SUFFICES ASSUME IInv, cb.state = "half-open"
               PROVE  Cardinality(cb.fresh) <= MaxRequests /\ (Full(cb) => cb.fresh # {})
    BY DEF ProbesAreAccounted, IInv, FreshIsOut
  <2>1. cb \in Breaker /\ cb.requests = Cardinality(cb.fresh) + cb.successes
    BY DEF IInv, TypeOK, Breaker, Accounted
  <2>2. Cardinality(cb.fresh) \in Nat
    BY <2>1, FreshFinite
  <2>3. cb.fresh = {} => Cardinality(cb.fresh) = 0
    BY FS_EmptySet
  <2> QED BY <2>1, <2>2, <2>3, SettingsAssumption DEF Breaker, Full
<1> QED BY <1>1, Invariance, PTL

\* An open breaker is never shown as anything else.
THEOREM OpenIsShown == Spec => []GaugeNeverHidesOpen
<1>1. IInv => GaugeNeverHidesOpen
  BY DEF IInv
<1> QED BY <1>1, Invariance, PTL

\* The breaker closes when all its probes are back, on a success.
THEOREM ClosingIsLast == Spec => ClosesOnLastProbe
<1> DEFINE Last == cb.state = "half-open" /\ cb'.state = "closed" =>
                     \E c \in Calls : cb.fresh = {c} /\ phase[c] = "found"
<1>1. ASSUME IInv, [Next]_vars PROVE Last
  <2> SUFFICES ASSUME cb.state = "half-open", cb'.state = "closed"
               PROVE  \E c \in Calls : cb.fresh = {c} /\ phase[c] = "found"
    OBVIOUS
  <2>1. cb \in Breaker /\ cb.requests = Cardinality(cb.fresh) + cb.successes
    BY <1>1 DEF IInv, TypeOK, Breaker, Accounted
  <2>2. Current = cb
    BY DEF Current
  <2>3. PICK c \in Calls : Report(c) /\ cb' = After(cb, c, phase[c] = "found")
    <3>1. ASSUME NEW c \in Calls PROVE ~Arrive(c)
      BY <2>2 DEF Arrive, Leave
    <3>2. ASSUME NEW c \in Calls PROVE ~Admit(c)
      BY <2>1, <2>2 DEF Admit, Leave, Admitted, Breaker
    <3>3. ASSUME NEW c \in Calls PROVE ~(Refuse(c) \/ Bypass(c) \/ NeedDatabase(c) \/ Query(c))
      BY DEF Refuse, Bypass, NeedDatabase, Query
    <3>4. ~Tick
      BY <2>1 DEF Tick, Breaker
    <3>5. ~(Outage \/ Repair \/ UNCHANGED vars)
      BY DEF Outage, Repair, vars
    <3>6. ASSUME NEW c \in Calls, Report(c) PROVE cb' = After(cb, c, phase[c] = "found")
      BY <2>2, <3>6 DEF Report, Leave
    <3> QED BY <1>1, <3>1, <3>2, <3>3, <3>4, <3>5, <3>6 DEF Next, Request
  <2>4. c \in cb.fresh /\ phase[c] = "found"
    <3>1. c \in cb.fresh
      BY <2>3 DEF After
    <3>2. CASE phase[c] # "found"
      <4>1. cb' = Generation("open")
        BY <2>3, <3>1, <3>2 DEF After, Failed
      <4> QED BY <4>1, GenerationGood
    <3> QED BY <3>1, <3>2
  <2>5. cb' = Succeeded(cb, c)
    BY <2>3, <2>4 DEF After
  <2>6. cb.successes + 1 >= MaxRequests
    <3>1. CASE cb.successes + 1 < MaxRequests
      <4>1. cb' = [cb EXCEPT !.successes = @ + 1, !.fresh = @ \ {c}]
        BY <2>1, <2>5, <3>1, SettingsAssumption DEF Succeeded, Breaker
      <4> QED BY <2>1, <4>1 DEF Breaker
    <3> QED BY <2>1, <3>1, SettingsAssumption DEF Breaker
  <2>7. /\ IsFiniteSet(cb.fresh) /\ Cardinality(cb.fresh) \in Nat
        /\ Cardinality(cb.fresh \ {c}) = Cardinality(cb.fresh) - 1
    BY <2>1, <2>4, FreshFinite, FS_RemoveElement
  <2>8. IsFiniteSet(cb.fresh \ {c}) /\ Cardinality(cb.fresh \ {c}) \in Nat
    BY <2>7, FS_RemoveElement, FS_CardinalityType
  <2>9. Cardinality(cb.fresh \ {c}) = 0
    BY <2>1, <2>6, <2>7, <2>8, SettingsAssumption DEF Breaker
  <2>10. cb.fresh \ {c} = {}
    BY <2>8, <2>9, FS_EmptySet
  <2> QED BY <2>4, <2>10
<1>2. IInv /\ [Next]_vars => [Last]_vars
  BY <1>1
<1> QED BY <1>2, Invariance, PTL DEF Spec, ClosesOnLastProbe

-----------------------------------------------------------------------------
(* What it takes to open the breaker. *)

Absent == {c \in Calls : phase[c] = "absent"}

\* Without a failure no call fails, and every failure the breaker has counted
\* is an absent row, other than those it has not heard of yet.
Counted ==
    faults = 0 => /\ database = "up"
                  /\ \A c \in Calls : phase[c] # "error"
                  /\ cb.failures + Cardinality(Absent) <= missing

\* Without a cause nobody is being turned away.
Calm ==
    ~Cause => /\ cb.state = "closed"
              /\ \A c \in Calls : phase[c] # "refused" /\ reply[c] \in {"none", "served"}

\* The calls with an absent row are finitely many.
LEMMA AbsentFinite ==
    /\ IsFiniteSet(Absent) /\ Cardinality(Absent) \in Nat
    /\ IsFiniteSet(Absent') /\ Cardinality(Absent') \in Nat
<1>1. Absent \subseteq Calls /\ Absent' \subseteq Calls
  BY DEF Absent
<1>2. IsFiniteSet(Absent) /\ IsFiniteSet(Absent')
  BY <1>1, CallsAssumption, FS_Subset
<1> QED BY <1>2, FS_CardinalityType

\* A new generation has counted nothing, and a closed one is replaced by a
\* closed one.
LEMMA CurrentCounts ==
    ASSUME cb \in Breaker
    PROVE  /\ Current.failures <= cb.failures
           /\ cb.state = "closed" => Current.state = "closed"
<1>1. CASE Current = cb
  BY <1>1 DEF Breaker
<1>2. CASE Current = Generation("half-open") /\ cb.state = "open"
  BY <1>2 DEF Generation, Breaker
<1>3. CASE Current = Generation("closed") /\ cb.state = "closed"
  BY <1>3 DEF Generation, Breaker
<1> QED BY <1>1, <1>2, <1>3 DEF Current

\* A report counts at most one failure, its own, and only a failure that
\* reaches the threshold opens a closed breaker.
LEMMA AfterCounts ==
    ASSUME NEW b \in Breaker, NEW c \in Calls, NEW ok \in BOOLEAN
    PROVE  /\ ok => After(b, c, ok).failures <= b.failures
           /\ After(b, c, ok).failures <= b.failures + 1
           /\ b.state = "closed" /\ After(b, c, ok).state # "closed" =>
                 ~ok /\ b.failures + 1 >= Threshold
<1> DEFINE a == After(b, c, ok)
<1> SUFFICES /\ ok => a.failures <= b.failures
             /\ a.failures <= b.failures + 1
             /\ b.state = "closed" /\ a.state # "closed" => ~ok /\ b.failures + 1 >= Threshold
  OBVIOUS
<1>1. CASE c \notin b.fresh
  <2>1. a = b /\ b.failures \in Nat
    BY <1>1 DEF After, Breaker
  <2> HIDE DEF a
  <2> QED BY <2>1
<1>2. ASSUME NEW s PROVE Generation(s).failures = 0 /\ Generation(s).state = s
  BY DEF Generation
<1>3. CASE c \in b.fresh /\ ok
  <2>1. a = Succeeded(b, c)
    BY <1>3 DEF After
  <2> HIDE DEF a
  <2>2. b.successes + 1 \in Nat /\ MaxRequests \in Nat /\ b.failures \in Nat
    BY SettingsAssumption DEF Breaker
  <2>3. CASE b.state = "half-open" /\ b.successes + 1 >= MaxRequests
    <3>1. Succeeded(b, c) = Generation("closed")
      BY <2>2, <2>3 DEF Succeeded
    <3>2. a.failures = 0 /\ a.state = "closed"
      BY <1>2, <2>1, <3>1
    <3> QED BY <1>3, <2>2, <3>2
  <2>4. CASE b.state = "half-open" /\ b.successes + 1 < MaxRequests
    <3>1. Succeeded(b, c) = [b EXCEPT !.successes = @ + 1, !.fresh = @ \ {c}]
      BY <2>2, <2>4 DEF Succeeded
    <3>2. a.failures = b.failures /\ a.state = "half-open"
      BY <2>1, <2>4, <3>1 DEF Breaker
    <3> QED BY <1>3, <2>2, <2>4, <3>2
  <2>5. CASE b.state # "half-open"
    <3>1. Succeeded(b, c) = [b EXCEPT !.failures = 0, !.fresh = @ \ {c}]
      BY <2>5 DEF Succeeded
    <3>2. a.failures = 0 /\ a.state = b.state
      BY <2>1, <3>1 DEF Breaker
    <3> QED BY <1>3, <2>2, <3>2
  <2> QED BY <2>2, <2>3, <2>4, <2>5
<1>4. CASE c \in b.fresh /\ ~ok
  <2>1. a = Failed(b, c) /\ b.failures \in Nat
    BY <1>4 DEF After, Breaker
  <2> HIDE DEF a
  <2>2. CASE b.state = "half-open" \/ b.failures + 1 >= Threshold
    BY <1>2, <1>4, <2>1, <2>2 DEF Failed
  <2>3. CASE ~(b.state = "half-open" \/ b.failures + 1 >= Threshold)
    <3>1. Failed(b, c) = [b EXCEPT !.failures = @ + 1, !.fresh = @ \ {c}]
      BY <2>3 DEF Failed
    <3>2. a.failures = b.failures + 1 /\ a.state = b.state
      BY <2>1, <3>1 DEF Breaker
    <3> QED BY <1>4, <2>1, <3>2
  <2> QED BY <2>2, <2>3
<1> QED BY <1>1, <1>3, <1>4

\* A step of the breaker that counts no more than the absent rows it answers.
LEMMA CountedStep ==
    ASSUME IInv, Counted, Calm, UNCHANGED envVars, NEW c \in Calls,
           phase[c] \notin {"absent", "error"},
           \E next \in Phases \ {"absent", "error"} : phase' = [phase EXCEPT ![c] = next],
           cb'.failures \in Nat, cb'.failures <= cb.failures,
           ~Cause => /\ cb'.state = "closed" /\ phase'[c] # "refused"
                     /\ reply'[c] \in {"none", "served"},
           \A d \in Calls : d # c => reply'[d] = reply[d]
    PROVE  Counted' /\ Calm'
<1>1. Absent' = Absent /\ \A d \in Calls : d # c => phase'[d] = phase[d]
  BY DEF Absent, IInv, TypeOK
<1>2. faults = 0 => \A d \in Calls : phase'[d] # "error"
  BY DEF Counted, IInv, TypeOK
<1>3. cb.failures \in Nat /\ missing \in Nat
  BY SettingsAssumption DEF IInv, TypeOK
<1>4. Counted'
  <2>1. Cardinality(Absent') = Cardinality(Absent) /\ Cardinality(Absent) \in Nat
    BY <1>1, AbsentFinite
  <2>2. faults' = faults /\ missing' = missing /\ database' = database
    BY DEF envVars
  <2>3. faults = 0 => cb.failures + Cardinality(Absent) <= missing
    BY DEF Counted
  <2>4. faults = 0 => cb'.failures + Cardinality(Absent') <= missing
    BY <1>3, <2>1, <2>3
  <2> QED BY <1>2, <2>2, <2>4 DEF Counted
<1>5. Calm'
  BY <1>1 DEF Calm, Cause, envVars
<1> QED BY <1>4, <1>5

\* Nothing but a cause opens the breaker or turns a call away.
LEMMA CauseNext ==
    ASSUME IInv, Counted, Calm, [Next]_vars
    PROVE  Counted' /\ Calm'
<1>1. /\ cb \in Breaker /\ Current \in Breaker
      /\ cb.failures \in Nat /\ Current.failures \in Nat
      /\ faults \in Nat /\ missing \in Nat
  <2>1. cb \in Breaker /\ Accounted(cb)
    BY DEF IInv, TypeOK, Breaker
  <2>2. Current \in Breaker
    BY <2>1, CurrentGood
  <2> QED BY <2>1, <2>2, SettingsAssumption DEF IInv, TypeOK, Breaker
<1>2. /\ Current.failures <= cb.failures
      /\ ~Cause => cb.state = "closed" /\ Current.state = "closed"
  BY <1>1, CurrentCounts DEF Calm
<1>3. ASSUME NEW c \in Calls, Arrive(c) PROVE Counted' /\ Calm'
  <2>1. /\ \E next \in {"refused", "handler"} : phase' = [phase EXCEPT ![c] = next]
        /\ cb' = Current /\ phase[c] = "idle" /\ UNCHANGED envVars
        /\ reply'[c] = "none" /\ \A d \in Calls : d # c => reply'[d] = reply[d]
        /\ ~Cause => phase'[c] # "refused"
    BY <1>2, <1>3 DEF Arrive, Leave, IInv, TypeOK
  <2>2. /\ \E next \in Phases \ {"absent", "error"} : phase' = [phase EXCEPT ![c] = next]
        /\ phase[c] \notin {"absent", "error"}
        /\ cb'.failures \in Nat /\ cb'.failures <= cb.failures
        /\ ~Cause => /\ cb'.state = "closed" /\ phase'[c] # "refused"
                     /\ reply'[c] \in {"none", "served"}
    BY <1>1, <1>2, <2>1 DEF Phases
  <2> QED BY <2>1, <2>2, CountedStep
<1>4. ASSUME NEW c \in Calls, Refuse(c) \/ Bypass(c) \/ NeedDatabase(c) PROVE Counted' /\ Calm'
  <2>1. /\ \E next \in {"idle", "ready"} : phase' = [phase EXCEPT ![c] = next]
        /\ cb' = cb /\ phase[c] \in {"refused", "handler"} /\ UNCHANGED envVars
        /\ \A d \in Calls : d # c => reply'[d] = reply[d]
        /\ ~Cause => phase'[c] # "refused" /\ reply'[c] \in {"none", "served"}
    BY <1>4 DEF Refuse, Bypass, NeedDatabase, Answer, Goto, Calm, IInv, TypeOK
  <2>2. /\ \E next \in Phases \ {"absent", "error"} : phase' = [phase EXCEPT ![c] = next]
        /\ phase[c] \notin {"absent", "error"}
    BY <2>1 DEF Phases
  <2>3. /\ cb'.failures \in Nat /\ cb'.failures <= cb.failures
        /\ ~Cause => cb'.state = "closed"
    BY <1>1, <1>2, <2>1
  <2> QED BY <2>1, <2>2, <2>3, CountedStep
<1>5. ASSUME NEW c \in Calls, Admit(c) PROVE Counted' /\ Calm'
  <2>1. CASE Leave(Current) /\ Answer(c, "failed") /\ (Current.state = "open" \/ Full(Current))
    <3>1. Cause
      BY <1>2, <2>1 DEF Full
    <3>2. /\ phase' = [phase EXCEPT ![c] = "idle"] /\ cb' = Current /\ phase[c] = "ready"
          /\ UNCHANGED envVars /\ \A d \in Calls : d # c => reply'[d] = reply[d]
      BY <1>5, <2>1 DEF Admit, Leave, Answer, IInv, TypeOK
    <3> QED BY <1>1, <1>2, <3>1, <3>2, CountedStep DEF Phases
  <2>2. CASE Leave(Admitted(Current, c)) /\ Goto(c, "running")
    <3>1. /\ Admitted(Current, c).failures = Current.failures
          /\ Admitted(Current, c).state = Current.state
      BY <1>1 DEF Admitted, Breaker
    <3>2. /\ phase' = [phase EXCEPT ![c] = "running"] /\ cb' = Admitted(Current, c)
          /\ phase[c] = "ready" /\ UNCHANGED envVars /\ UNCHANGED reply
      BY <1>5, <2>2 DEF Admit, Leave, Goto
    <3>3. ~Cause => reply'[c] \in {"none", "served"} /\ phase'[c] # "refused"
      BY <3>2 DEF Calm, IInv, TypeOK
    <3> QED BY <1>1, <1>2, <3>1, <3>2, <3>3, CountedStep DEF Phases
  <2> QED BY <1>5, <2>1, <2>2 DEF Admit
<1>6. ASSUME NEW c \in Calls, Query(c) PROVE Counted' /\ Calm'
  <2>1. UNCHANGED <<cb, database, reply>> /\ phase[c] = "running"
    BY <1>6 DEF Query, Goto
  <2>2. CASE faults' = faults /\ missing' = missing
    <3>1. /\ \E next \in {"found", "error"} : phase' = [phase EXCEPT ![c] = next]
          /\ faults = 0 => phase' = [phase EXCEPT ![c] = "found"]
      BY <1>1, <1>6, <2>2 DEF Query, Goto, Counted
    <3>2. Absent' = Absent /\ \A d \in Calls : phase'[d] # "refused" \/ phase[d] = "refused"
      BY <2>1, <3>1 DEF Absent, IInv, TypeOK
    <3> QED BY <2>1, <2>2, <3>1, <3>2 DEF Counted, Calm, Cause, IInv, TypeOK
  <2>3. CASE faults' = faults + 1
    BY <1>1, <2>3 DEF Counted, Calm, Cause
  <2>4. CASE faults' = faults /\ missing' = missing + 1
    <3>1. phase' = [phase EXCEPT ![c] = "absent"]
      BY <1>1, <1>6, <2>4 DEF Query, Goto
    <3>2. Absent' = Absent \cup {c} /\ c \notin Absent
      BY <2>1, <3>1 DEF Absent, IInv, TypeOK
    <3>3. Cardinality(Absent') = Cardinality(Absent) + 1 /\ Cardinality(Absent) \in Nat
      BY <3>2, AbsentFinite, FS_AddElement
    <3>4. Counted'
      <4>1. faults = 0 => /\ database = "up" /\ \A d \in Calls : phase'[d] # "error"
                          /\ cb.failures + Cardinality(Absent) <= missing
        BY <3>1 DEF Counted, IInv, TypeOK
      <4>2. faults = 0 => cb.failures + Cardinality(Absent') <= missing + 1
        BY <1>1, <3>3, <4>1
      <4> QED BY <2>1, <2>4, <4>1, <4>2 DEF Counted
    <3>5. Calm'
      <4>1. ~Cause' => ~Cause
        BY <1>1, <2>4, SettingsAssumption DEF Cause
      <4> QED BY <2>1, <3>1, <4>1 DEF Calm, IInv, TypeOK
    <3> QED BY <3>4, <3>5
  <2> QED BY <1>6, <2>2, <2>3, <2>4 DEF Query
<1>7. ASSUME NEW c \in Calls, Report(c) PROVE Counted' /\ Calm'
  <2> DEFINE b == After(Current, c, phase[c] = "found")
  <2>1. /\ cb' = b /\ phase' = [phase EXCEPT ![c] = "idle"] /\ UNCHANGED envVars
        /\ phase[c] \in {"found", "error", "absent"}
        /\ phase[c] # "error" => reply'[c] = "served"
        /\ \A d \in Calls : d # c => reply'[d] = reply[d]
    BY <1>7 DEF Report, Leave, Answer, IInv, TypeOK
  <2>2. /\ phase[c] = "found" => b.failures <= Current.failures
        /\ b.failures <= Current.failures + 1
        /\ Current.state = "closed" /\ b.state # "closed" =>
              phase[c] # "found" /\ Current.failures + 1 >= Threshold
    <3>1. (phase[c] = "found") \in BOOLEAN
      OBVIOUS
    <3> QED BY <1>1, <3>1, AfterCounts
  <2>3. b.failures \in Nat
    <3>1. (phase[c] = "found") \in BOOLEAN /\ Accounted(Current)
      BY <1>1, CurrentGood DEF IInv
    <3>2. b \in Breaker
      BY <1>1, <3>1, AfterGood
    <3> QED BY <3>2 DEF Breaker
  <2> HIDE DEF b
  <2>4. CASE phase[c] = "found"
    <3>1. cb'.failures \in Nat /\ cb'.failures <= cb.failures
      BY <1>1, <1>2, <2>1, <2>2, <2>3, <2>4
    <3>2. /\ \E next \in Phases \ {"absent", "error"} : phase' = [phase EXCEPT ![c] = next]
          /\ phase[c] \notin {"absent", "error"}
      BY <2>1, <2>4 DEF Phases
    <3>3. ~Cause => /\ cb'.state = "closed" /\ phase'[c] # "refused"
                    /\ reply'[c] \in {"none", "served"}
      BY <1>2, <2>1, <2>2, <2>4 DEF IInv, TypeOK
    <3> QED BY <2>1, <3>1, <3>2, <3>3, CountedStep
  <2>5. CASE phase[c] = "error"
    <3>1. faults # 0 /\ faults' # 0
      BY <2>1, <2>5 DEF Counted, envVars
    <3>2. Cause'
      BY <1>1, <2>1, <3>1 DEF Cause, envVars
    <3> QED BY <3>1, <3>2 DEF Counted, Calm
  <2>6. CASE phase[c] = "absent"
    <3>1. Absent' = Absent \ {c} /\ c \in Absent
      BY <2>1, <2>6 DEF Absent, IInv, TypeOK
    <3>2. Cardinality(Absent') = Cardinality(Absent) - 1 /\ Cardinality(Absent) \in Nat
          /\ Cardinality(Absent') \in Nat
      BY <3>1, AbsentFinite, FS_RemoveElement
    <3>3. faults = 0 => /\ database = "up" /\ \A d \in Calls : phase'[d] # "error"
                        /\ cb.failures + Cardinality(Absent) <= missing
      BY <2>1 DEF Counted, IInv, TypeOK
    <3>4. faults = 0 => b.failures + Cardinality(Absent') <= missing
      BY <1>1, <1>2, <2>2, <2>3, <3>2, <3>3
    <3>5. Counted'
      BY <2>1, <3>3, <3>4 DEF Counted, envVars
    <3>6. ~Cause => b.state = "closed"
      <4>1. ASSUME ~Cause, b.state # "closed" PROVE FALSE
        <5>1. faults = 0
          BY <1>1, <4>1 DEF Cause
        <5>2. Current.failures + 1 >= Threshold
          BY <1>2, <2>2, <4>1
        <5>3. missing > 0 /\ missing >= Threshold
          BY <1>1, <1>2, <3>2, <3>3, <5>1, <5>2, SettingsAssumption
        <5> QED BY <4>1, <5>3 DEF Cause
      <4> QED BY <4>1
    <3>7. Calm'
      BY <2>1, <2>6, <3>6 DEF Calm, Cause, envVars, IInv, TypeOK
    <3> QED BY <3>5, <3>7
  <2> QED BY <2>1, <2>4, <2>5, <2>6
<1>8. CASE Outage
  BY <1>1, <1>8 DEF Outage, Counted, Calm, Cause
<1>9. ASSUME UNCHANGED <<phase, reply, faults, missing>>, database' = database \/ database' = "up",
             cb'.failures = cb.failures, cb'.state = cb.state
      PROVE  Counted' /\ Calm'
  <2>1. Absent' = Absent
    BY <1>9 DEF Absent
  <2> QED BY <1>9, <2>1 DEF Counted, Calm, Cause
<1>10. CASE Repair \/ Tick \/ UNCHANGED vars
  <2>1. cb'.failures = cb.failures /\ cb'.state = cb.state
    BY <1>1, <1>10 DEF Repair, Tick, vars, Breaker
  <2> QED BY <1>9, <1>10, <2>1 DEF Repair, Tick, vars, callVars, envVars
<1> QED BY <1>3, <1>4, <1>5, <1>6, <1>7, <1>8, <1>10 DEF Next, Request

\* The breaker of a healthy database opens, and a request is turned away or
\* fails, only after reads of absent rows have reached the threshold.
THEOREM TrippingNeedsCause == Spec => []TripsOnlyForCause
<1>1. Init => IInv /\ Counted /\ Calm
  <2> SUFFICES ASSUME Init PROVE Counted /\ Calm
    BY InitIInv
  <2>1. Absent = {} /\ Cardinality({}) = 0
    BY FS_EmptySet DEF Init, Absent
  <2>2. cb.failures = 0 /\ cb.state = "closed"
    BY DEF Init, Generation
  <2> QED BY <2>1, <2>2 DEF Init, Counted, Calm
<1>2. IInv /\ Counted /\ Calm /\ [Next]_vars => (IInv /\ Counted /\ Calm)'
  BY IInvNext, CauseNext
<1>3. Calm => TripsOnlyForCause
  BY DEF Calm, TripsOnlyForCause
<1> QED BY <1>1, <1>2, <1>3, PTL DEF Spec

=============================================================================
