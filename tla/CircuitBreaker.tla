--------------------------- MODULE CircuitBreaker ---------------------------
(***************************************************************************)
(* The circuit breaker "database" of one API process and the requests that *)
(* go through it: the middleware in front of the optimised routes looks at *)
(* the breaker's state, the handlers run one database call inside          *)
(* ExecuteWithCB, and a Prometheus gauge mirrors the state.                *)
(*                                                                         *)
(* gobreaker keeps its state under a mutex and takes it twice per call,    *)
(* before and after the query, so calls of one generation of the breaker   *)
(* report in another.  An atomic step is one critical section of the       *)
(* breaker or one call to a backend.  Time is a timer of the breaker,      *)
(* whose expiry only the next critical section notices.                    *)
(***************************************************************************)
EXTENDS Integers, FiniteSets

CONSTANTS
    Calls,        \* concurrent requests; a slot serves one after another
    Posts,        \* slots that send POST /transactions, the others read
    MaxRequests,  \* CB_MAX_REQUESTS, 1 when it is 0 or no number
    Interval,     \* CB_INTERVAL_SECONDS, 0 for never
    Timeout,      \* CB_TIMEOUT_SECONDS, 60 s when it is 0 or no number
    Threshold,    \* CB_FAILURE_THRESHOLD
    MaxFaults,    \* bound on outages and on queries that fail on their own
    MaxMissing    \* bound on reads of a row that does not exist

ASSUME CallsAssumption == IsFiniteSet(Calls) /\ Posts \subseteq Calls
ASSUME SettingsAssumption ==
    /\ MaxRequests \in Nat \ {0} /\ Timeout \in Nat \ {0}
    /\ Interval \in Nat /\ Threshold \in Nat
    /\ MaxFaults \in Nat /\ MaxMissing \in Nat

VARIABLES
    cb,        \* the breaker
    gauge,     \* circuit_breaker_state{name="database"}
    phase,     \* next step of the request in a slot
    reply,     \* its answer: "failed" is 500, "unavailable" 503, "served"
               \* anything the handler itself decided (200, 202, 404, 422)
    database,  \* "up" or "down"
    faults,    \* failures so far
    missing    \* reads of absent rows so far

callVars == <<phase, reply>>
envVars  == <<database, faults, missing>>
vars == <<cb, gauge, callVars, envVars>>

-----------------------------------------------------------------------------
(* gobreaker. *)

\* toNewGeneration in state s: counts are cleared and the calls admitted so far
\* are forgotten; fresh holds those admitted since that have not reported.
\* A count is kept in the state that reads it: the others would only grow.
Generation(s) ==
    [state |-> s, requests |-> 0, successes |-> 0, failures |-> 0,
     timer |-> CASE s = "closed" -> Interval [] s = "open" -> Timeout [] OTHER -> 0,
     fresh |-> {}]

\* currentState: every critical section starts with it.
Current ==
    CASE cb.timer = 0 /\ cb.state = "open" -> Generation("half-open")
      [] cb.timer = 0 /\ cb.state = "closed" /\ Interval # 0 -> Generation("closed")
      [] OTHER -> cb

Full(b) == b.state = "half-open" /\ b.requests >= MaxRequests

\* beforeRequest lets c in.
Admitted(b, c) ==
    [b EXCEPT !.requests = IF b.state = "half-open" THEN @ + 1 ELSE @, !.fresh = @ \cup {c}]

\* onSuccess and onFailure, for a call of the current generation.
Succeeded(b, c) ==
    CASE b.state = "half-open" /\ b.successes + 1 >= MaxRequests -> Generation("closed")
      [] b.state = "half-open" /\ b.successes + 1 < MaxRequests ->
            [b EXCEPT !.successes = @ + 1, !.fresh = @ \ {c}]
      [] OTHER -> [b EXCEPT !.failures = 0, !.fresh = @ \ {c}]

\* Mutant: the breaker opens one failure ahead of its threshold.
FailedTripsEarly(b, c) ==
    IF b.state = "half-open" \/ b.failures + 2 >= Threshold
    THEN Generation("open")
    ELSE [b EXCEPT !.failures = @ + 1, !.fresh = @ \ {c}]

Failed(b, c) ==
    IF b.state = "half-open" \/ b.failures + 1 >= Threshold
    THEN Generation("open")
    ELSE [b EXCEPT !.failures = @ + 1, !.fresh = @ \ {c}]

\* afterRequest: the outcome of a call of an older generation is ignored.
After(b, c, ok) ==
    IF c \notin b.fresh THEN b ELSE IF ok THEN Succeeded(b, c) ELSE Failed(b, c)

Level(s) == CASE s = "closed" -> 0 [] s = "half-open" -> 1 [] s = "open" -> 2

\* Mutant: OnStateChange leaves the open state to the middleware's own write.
LeaveForgetsOpen(b) ==
    /\ cb' = b
    /\ gauge' = IF b.state \in {cb.state, "open"} THEN gauge ELSE Level(b.state)

\* A critical section leaves breaker b; OnStateChange runs inside it.
Leave(b) ==
    /\ cb' = b
    /\ gauge' = IF b.state = cb.state THEN gauge ELSE Level(b.state)

-----------------------------------------------------------------------------
(* InitCircuitBreakers. *)

Init ==
    /\ cb = Generation("closed")
    /\ gauge = 0
    /\ phase = [c \in Calls |-> "idle"]
    /\ reply = [c \in Calls |-> "none"]
    /\ database = "up"
    /\ faults = 0
    /\ missing = 0

-----------------------------------------------------------------------------
(* A request, from CircuitBreakerMiddleware to its answer. *)

Goto(c, next) == phase' = [phase EXCEPT ![c] = next] /\ UNCHANGED reply

Answer(c, what) ==
    /\ phase' = [phase EXCEPT ![c] = "idle"]
    /\ reply' = [reply EXCEPT ![c] = what]

\* Mutant: State() reads the field and leaves the expiry to Execute.
ArriveReadsField(c) ==
    /\ phase[c] = "idle"
    /\ phase' = [phase EXCEPT ![c] = IF cb.state = "open" THEN "refused" ELSE "handler"]
    /\ reply' = [reply EXCEPT ![c] = "none"]
    /\ UNCHANGED <<cb, gauge, envVars>>

\* cb.State() in the middleware.
Arrive(c) ==
    /\ phase[c] = "idle"
    /\ Leave(Current)
    /\ phase' = [phase EXCEPT ![c] = IF Current.state = "open" THEN "refused" ELSE "handler"]
    /\ reply' = [reply EXCEPT ![c] = "none"]
    /\ UNCHANGED envVars

\* Outside the mutex, the middleware sets the gauge itself and answers 503.
Refuse(c) ==
    /\ phase[c] = "refused"
    /\ gauge' = 2
    /\ Answer(c, "unavailable")
    /\ UNCHANGED <<cb, envVars>>

\* The handler answers without the breaker: a cache hit, a known idempotency
\* key, an invalid body, or a user check (which runs outside the breaker)
\* that fails with the database or finds nobody.
Bypass(c) ==
    /\ phase[c] = "handler"
    /\ Answer(c, "served")
    /\ UNCHANGED <<cb, gauge, envVars>>

\* A read that misses the cache, a post whose user exists.
NeedDatabase(c) ==
    /\ phase[c] = "handler"
    /\ c \in Posts => database = "up"
    /\ Goto(c, "ready")
    /\ UNCHANGED <<cb, gauge, envVars>>

\* Mutant: only the open state turns a call away.
AdmitWithoutLimit(c) ==
    /\ phase[c] = "ready"
    /\ IF Current.state = "open"
       THEN Leave(Current) /\ Answer(c, "failed")
       ELSE Leave(Admitted(Current, c)) /\ Goto(c, "running")
    /\ UNCHANGED envVars

\* beforeRequest; ErrOpenState and ErrTooManyRequests are answered with 500.
Admit(c) ==
    /\ phase[c] = "ready"
    /\ IF Current.state = "open" \/ Full(Current)
       THEN Leave(Current) /\ Answer(c, "failed")
       ELSE Leave(Admitted(Current, c)) /\ Goto(c, "running")
    /\ UNCHANGED envVars

\* The query or insert, with the request's context.
Query(c) ==
    /\ phase[c] = "running"
    /\ \/ database = "up" /\ Goto(c, "found") /\ UNCHANGED <<faults, missing>>
       \/ database = "down" /\ Goto(c, "error") /\ UNCHANGED <<faults, missing>>
       \/ /\ database = "up" /\ faults < MaxFaults     \* deadline, client gone
          /\ faults' = faults + 1
          /\ Goto(c, "error")
          /\ UNCHANGED missing
       \/ /\ database = "up" /\ c \notin Posts /\ missing < MaxMissing
          /\ missing' = missing + 1
          /\ Goto(c, "absent")                         \* sql.ErrNoRows
          /\ UNCHANGED faults
    /\ UNCHANGED <<cb, gauge, database>>

\* Mutant: a missing row is answered without a report to the breaker.
ReportForgetsAbsent(c) ==
    /\ phase[c] \in {"found", "error", "absent"}
    /\ Leave(IF phase[c] = "absent" THEN Current ELSE After(Current, c, phase[c] = "found"))
    /\ Answer(c, IF phase[c] = "error" THEN "failed" ELSE "served")
    /\ UNCHANGED envVars

\* Mutant: the functions the reads give to Execute keep their errors.
ReportSwallowsReadErrors(c) ==
    /\ phase[c] \in {"found", "error", "absent"}
    /\ Leave(After(Current, c, c \notin Posts \/ phase[c] = "found"))
    /\ Answer(c, IF phase[c] = "error" THEN "failed" ELSE "served")
    /\ UNCHANGED envVars

\* afterRequest: any error is a failure, sql.ErrNoRows too; then the answer.
Report(c) ==
    /\ phase[c] \in {"found", "error", "absent"}
    /\ Leave(After(Current, c, phase[c] = "found"))
    /\ Answer(c, IF phase[c] = "error" THEN "failed" ELSE "served")
    /\ UNCHANGED envVars

-----------------------------------------------------------------------------
(* The environment. *)

Outage ==
    /\ database = "up" /\ faults < MaxFaults
    /\ database' = "down"
    /\ faults' = faults + 1
    /\ UNCHANGED <<cb, gauge, callVars, missing>>

Repair ==
    /\ database = "down"
    /\ database' = "up"
    /\ UNCHANGED <<cb, gauge, callVars, faults, missing>>

Tick ==
    /\ cb.timer > 0
    /\ cb' = [cb EXCEPT !.timer = @ - 1]
    /\ UNCHANGED <<gauge, callVars, envVars>>

Request(c) ==
    \/ Arrive(c) \/ Refuse(c) \/ Bypass(c) \/ NeedDatabase(c)
    \/ Admit(c) \/ Query(c) \/ Report(c)

Next == (\E c \in Calls : Request(c)) \/ Outage \/ Repair \/ Tick

Spec == Init /\ [][Next]_vars

\* Goroutines run, time passes, an outage ends; and a load that goes on:
\* requests keep arriving, and keep needing the database.
Fairness ==
    /\ \A c \in Calls : WF_vars(Request(c)) /\ SF_vars(NeedDatabase(c))
    /\ WF_vars(Repair) /\ WF_vars(Tick)

FairSpec == Spec /\ Fairness

-----------------------------------------------------------------------------
(* Properties. *)

Phases == {"idle", "refused", "handler", "ready", "running", "found", "error", "absent"}

TypeOK ==
    /\ cb \in [state : {"closed", "half-open", "open"}, requests : 0..MaxRequests,
               successes : 0..(MaxRequests - 1), failures : Nat, timer : Nat,
               fresh : SUBSET Calls]
    /\ gauge \in 0..2
    /\ phase \in [Calls -> Phases]
    /\ reply \in [Calls -> {"none", "served", "failed", "unavailable"}]
    /\ database \in {"up", "down"}
    /\ faults \in 0..MaxFaults
    /\ missing \in 0..MaxMissing

\* A recovering database gets at most MaxRequests probes at a time, and a
\* breaker that turns everybody away in half-open has a probe under way whose
\* report will end it: no slot leaks, whatever reports late, from an older
\* generation, or never enters.
ProbesAreAccounted ==
    cb.state = "half-open" =>
        /\ Cardinality(cb.fresh) <= MaxRequests
        /\ Full(cb) =>
              \E c \in cb.fresh : phase[c] \in {"running", "found", "error", "absent"}

\* The breaker closes on the report of the last probe: none is under way that
\* could still tell that the database is down.
ClosesOnLastProbe ==
    [][cb.state = "half-open" /\ cb'.state = "closed" =>
          \E c \in Calls : cb.fresh = {c} /\ phase[c] = "found"]_vars

\* An open breaker is never shown closed: the middleware's own, unsynchronised
\* write can only err on the other side.
GaugeNeverHidesOpen == cb.state = "open" => gauge = 2

\* What may open the breaker: something failed, or a read found no row, often
\* enough for the threshold (a threshold of 0 takes one as well).
Cause == faults > 0 \/ (missing > 0 /\ missing >= Threshold)

\* Without a cause the breaker is closed and nobody was turned away: no report
\* that comes late or twice, no expiry and no other call of the same generation
\* makes up the failures that are missing to the threshold.
TripsOnlyForCause ==
    ~Cause => /\ cb.state = "closed"
              /\ \A c \in Calls : reply[c] \in {"none", "served"}

\* When outages end and requests that need the database keep coming, the
\* breaker closes for good.
Recovers == <>[](cb.state = "closed")

\* As long as nothing fails, a read is answered with 200 or 404.
HealthyReadsAnswered ==
    faults = 0 => \A c \in Calls \ Posts : reply[c] \in {"none", "served"}

=============================================================================
