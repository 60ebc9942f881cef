---- MODULE ModelGateway ----
(* ModelGateway.complete: a model request tries its route candidates in      *)
(* order.  Every candidate passes the policy checks and the provider's       *)
(* circuit breaker, waits for one of the provider's permits, and is sent by  *)
(* the adapter with retries and backoff; a partial answer is continued, an   *)
(* invalid one asked for again.  Callers are the worker's step threads.      *)
(*                                                                           *)
(* Time is counted in ticks.  Timers are stored as the time they have left,  *)
(* so the state space needs no clock bound; local code takes no time, and no *)
(* timer is passed without firing (Tick).                                    *)
EXTENDS Naturals, Sequences, FiniteSets

CONSTANTS
    Callers, Providers,
    Route,             \* Route[c]: the providers of c's candidates, in order
    Limit,             \* TEAM_AGENT_PROVIDER_MAX_CONCURRENCY
    Threshold,         \* retryable failures in a row that open a circuit
    Cooldown,          \* cooldown_seconds
    Timeout,           \* timeout_seconds of the request
    AdapterTimeout,    \* TEAM_AGENT_MODEL_TIMEOUT_SECONDS
    MaxAttempts,       \* max_attempts of the adapter
    Backoff,           \* retry_delay_seconds
    MaxContinuations,  \* max_continuations of the request
    RetryLimit         \* _INVALID_RESPONSE_RETRY_LIMIT

ASSUME GatewayAssumption ==
    /\ IsFiniteSet(Callers) /\ IsFiniteSet(Providers)
    /\ Route \in [Callers -> Seq(Providers) \ {<<>>}]
    /\ {Limit, Threshold, Cooldown, Timeout, AdapterTimeout, MaxAttempts} \subseteq Nat \ {0}
    /\ {Backoff, MaxContinuations, RetryLimit} \subseteq Nat

VARIABLES
    call,      \* call[c]: the request c is executing
    free,      \* free[p]: permits of the provider's semaphore
    fails,     \* fails[p]: consecutive_failures
    opened,    \* opened[p]: opened_at is set
    cool       \* cool[p]: the cooldown that is left

health == <<fails, opened, cool>>
vars == <<call, free, health>>

Least(a, b) == IF a < b THEN a ELSE b

\* A call's timers: route is route_deadline (several candidates only), wait the
\* deadline of _complete_single, transport the adapter's, nap the backoff, and
\* extend the deadline of the continuations.  spent is history.
Idle == [pc |-> "idle", k |-> 0, route |-> 0, wait |-> 0, transport |-> 0, nap |-> 0,
         extend |-> 0, attempt |-> 0, retry |-> 0, cont |-> 0, spent |-> 0]

\* What a request with one candidate may spend: its timeout for every try, and
\* once more for the continuations of every try.
Allowance == 2 * (RetryLimit + 1) * Timeout

\* The history variable spent stops counting just past it.
LongestCall == Allowance + 1

TypeOK ==
    /\ \A c \in Callers :
        /\ call[c].pc \in {"idle", "route", "gate", "send", "calling", "backoff"}
        /\ call[c].k \in 0 .. Len(Route[c])
        /\ {call[c].route, call[c].wait, call[c].extend} \subseteq 0 .. Timeout
        /\ call[c].transport \in 0 .. AdapterTimeout
        /\ call[c].nap \in 0 .. Backoff
        /\ call[c].attempt \in 0 .. MaxAttempts
        /\ call[c].retry \in 0 .. RetryLimit /\ call[c].cont \in 0 .. MaxContinuations
        /\ call[c].spent \in 0 .. LongestCall
    /\ free \in [Providers -> 0 .. Limit]
    /\ fails \in [Providers -> Nat] /\ opened \in [Providers -> BOOLEAN]
    /\ cool \in [Providers -> 0 .. Cooldown]

Init ==
    /\ call = [c \in Callers |-> Idle]
    /\ free = [p \in Providers |-> Limit]
    /\ fails = [p \in Providers |-> 0]
    /\ opened = [p \in Providers |-> FALSE]
    /\ cool = [p \in Providers |-> 0]

Several(c) == Len(Route[c]) > 1
Candidate(c) == Route[c][call[c].k]

\* Mutant of Budget: every candidate gets the request's whole timeout.
BudgetPerCandidate(c) == Timeout

\* The budget one candidate has: what is left of the route's deadline, or the
\* request's own timeout when there is only one candidate.
Budget(c) == IF Several(c) THEN call[c].route ELSE Timeout

Holding(p) == {c \in Callers : call[c].pc \in {"send", "calling", "backoff"} /\ Candidate(c) = p}

Set(c, r) == call' = [call EXCEPT ![c] = r]
Release(c) == free' = [free EXCEPT ![Candidate(c)] = @ + 1]

\* Mutant of NextCandidate: with a route deadline, the candidates are tried again and again.
NextCandidateCycles(c) ==
    LET k == IF call[c].k < Len(Route[c]) THEN call[c].k + 1 ELSE 1
    IN  IF Several(c)
        THEN [Idle EXCEPT !.pc = "route", !.k = k, !.route = call[c].route,
                          !.spent = call[c].spent]
        ELSE Idle

\* The loop goes on to the next candidate; after the last one it raises.
NextCandidate(c) ==
    IF call[c].k < Len(Route[c])
    THEN [Idle EXCEPT !.pc = "route", !.k = call[c].k + 1, !.route = call[c].route,
                      !.spent = call[c].spent]
    ELSE Idle

\* _complete_single starts with a wait for a permit.
AtGate(c, budget) ==
    [call[c] EXCEPT !.pc = "gate", !.wait = budget, !.transport = 0, !.nap = 0, !.attempt = 0]

----------------------------------------------------------------------------
(* ProviderHealthRegistry: each method under its lock.                       *)

RecordSuccess(p) ==
    /\ fails' = [fails EXCEPT ![p] = 0]
    /\ opened' = [opened EXCEPT ![p] = FALSE]
    /\ cool' = [cool EXCEPT ![p] = 0]

\* Failures are counted on while the circuit is open; the counter is only read
\* against the threshold.
RecordFailure(p) ==
    LET n == Least(fails[p] + 1, Threshold)
    IN  /\ fails' = [fails EXCEPT ![p] = n]
        /\ opened' = [opened EXCEPT ![p] = @ \/ n >= Threshold]
        /\ cool' = [cool EXCEPT ![p] = IF n >= Threshold /\ ~ opened[p] THEN Cooldown ELSE @]

CircuitOpen(p) == opened[p] /\ cool[p] > 0

\* Mutant of Snapshot: the reset forgets the circuit and keeps the failures.
SnapshotKeepsCount(p) ==
    /\ opened' = [opened EXCEPT ![p] = CircuitOpen(p)]
    /\ UNCHANGED <<fails, cool>>

\* snapshot forgets a circuit whose cooldown is over.
Snapshot(p) ==
    /\ opened' = [opened EXCEPT ![p] = CircuitOpen(p)]
    /\ fails' = [fails EXCEPT ![p] = IF opened[p] /\ cool[p] = 0 THEN 0 ELSE @]
    /\ cool' = cool

----------------------------------------------------------------------------
(* The candidate loop.                                                       *)

Begin(c) ==
    /\ call[c].pc = "idle"
    /\ Set(c, [Idle EXCEPT !.pc = "route", !.k = 1,
                           !.route = IF Several(c) THEN Timeout ELSE 0])
    /\ UNCHANGED <<free, health>>

\* Confirmation, mock and real-fallback rules: the registry is not asked.
RejectByPolicy(c) ==
    /\ call[c].pc = "route"
    /\ Set(c, NextCandidate(c))
    /\ UNCHANGED <<free, health>>

\* A primary that cannot be used at all ends the request, fallbacks or not.
AfterUnusable(c) == IF call[c].k = 1 THEN Idle ELSE NextCandidate(c)

\* No adapter: decided before the registry is asked.
RejectNotConfigured(c) ==
    /\ call[c].pc = "route"
    /\ Set(c, AfterUnusable(c))
    /\ UNCHANGED <<free, health>>

RejectOpenCircuit(c) ==
    /\ call[c].pc = "route"
    /\ CircuitOpen(Candidate(c))
    /\ Set(c, NextCandidate(c))
    /\ UNCHANGED <<free, health>>

\* Readiness and capabilities are looked at once the circuit is found closed,
\* which is when the registry forgets an expired one.
RejectNotReady(c) ==
    /\ call[c].pc = "route"
    /\ ~ CircuitOpen(Candidate(c))
    /\ Snapshot(Candidate(c))
    /\ Set(c, AfterUnusable(c))
    /\ UNCHANGED free

RejectIncapable(c) ==
    /\ call[c].pc = "route"
    /\ ~ CircuitOpen(Candidate(c))
    /\ Snapshot(Candidate(c))
    /\ Set(c, NextCandidate(c))
    /\ UNCHANGED free

\* An exhausted route deadline ends the loop, a usable candidate is tried.
Admit(c) ==
    /\ call[c].pc = "route"
    /\ ~ CircuitOpen(Candidate(c))
    /\ Snapshot(Candidate(c))
    /\ Set(c, IF Budget(c) = 0 THEN Idle ELSE AtGate(c, Budget(c)))
    /\ UNCHANGED free

----------------------------------------------------------------------------
(* _complete_single and the adapter.                                         *)

Acquire(c) ==
    /\ call[c].pc = "gate" /\ call[c].wait > 0
    /\ free[Candidate(c)] > 0
    /\ free' = [free EXCEPT ![Candidate(c)] = @ - 1]
    /\ Set(c, [call[c] EXCEPT !.pc = "send", !.attempt = 1, !.wait = 0,
                              !.transport = Least(AdapterTimeout, call[c].wait)])
    /\ UNCHANGED health

\* A local rejection that counts as retryable and not against the provider.
GateTimeout(c) ==
    /\ call[c].pc = "gate" /\ call[c].wait = 0
    /\ Set(c, NextCandidate(c))
    /\ UNCHANGED <<free, health>>

\* The attempt is on record before it is sent.
Send(c) ==
    /\ call[c].pc = "send" /\ call[c].transport > 0
    /\ Set(c, [call[c] EXCEPT !.pc = "calling"])
    /\ UNCHANGED <<free, health>>

\* Mutant of SendUnrecorded: the rejection does not pass the finally that releases.
SendUnrecordedLeaks(c) ==
    /\ call[c].pc = "send" /\ call[c].transport > 0
    /\ Set(c, Idle)
    /\ UNCHANGED <<free, health>>

\* The record fails: a local rejection that is not retryable.
SendUnrecorded(c) ==
    /\ call[c].pc = "send" /\ call[c].transport > 0
    /\ Release(c)
    /\ Set(c, Idle)
    /\ UNCHANGED health

\* A retryable failure counts against the provider; the next candidate follows.
Fail(c) ==
    /\ Release(c)
    /\ RecordFailure(Candidate(c))
    /\ Set(c, NextCandidate(c))

\* The error of a retryable attempt, the client's timeout included.
Transient(c) ==
    /\ call[c].pc = "calling"
    /\ IF call[c].attempt < MaxAttempts /\ call[c].transport > 0
       THEN /\ Set(c, [call[c] EXCEPT !.pc = "backoff",
                                      !.nap = Least(Backoff, call[c].transport)])
            /\ UNCHANGED <<free, health>>
       ELSE Fail(c)

Retry(c) ==
    /\ call[c].pc = "backoff" /\ call[c].nap = 0
    /\ IF call[c].transport > 0
       THEN /\ Set(c, [call[c] EXCEPT !.pc = "send", !.attempt = @ + 1])
            /\ UNCHANGED <<free, health>>
       ELSE Fail(c)

\* An error that is not retryable ends the request, fallbacks or not.
Permanent(c) ==
    /\ call[c].pc = "calling"
    /\ Release(c)
    /\ Set(c, Idle)
    /\ UNCHANGED health

Complete(c) ==
    /\ call[c].pc = "calling"
    /\ Release(c)
    /\ RecordSuccess(Candidate(c))
    /\ Set(c, Idle)

\* Invalid and incomplete answers are retryable while a candidate is left.
GiveUpAnswer(c) ==
    IF call[c].k < Len(Route[c])
    THEN RecordFailure(Candidate(c)) /\ Set(c, NextCandidate(c))
    ELSE UNCHANGED health /\ Set(c, Idle)

\* An answer stopped for another reason (a content filter) is not continued.
Incomplete(c) ==
    /\ call[c].pc = "calling"
    /\ Release(c)
    /\ GiveUpAnswer(c)

\* A truncated answer is continued within what is left for continuations.
Partial(c) ==
    /\ call[c].pc = "calling"
    /\ Release(c)
    /\ LET extend == IF call[c].cont = 0 THEN Budget(c) ELSE call[c].extend
       IN  IF call[c].cont < MaxContinuations /\ extend > 0
           THEN /\ Set(c, [AtGate(c, extend) EXCEPT !.extend = extend, !.cont = @ + 1])
                /\ UNCHANGED health
           ELSE GiveUpAnswer(c)

\* An empty or malformed answer is asked for once more on the same route.
Invalid(c) ==
    /\ call[c].pc = "calling"
    /\ Release(c)
    /\ IF call[c].retry < RetryLimit /\ Budget(c) > 0
       THEN /\ Set(c, [AtGate(c, Budget(c)) EXCEPT !.retry = @ + 1, !.cont = 0, !.extend = 0])
            /\ UNCHANGED health
       ELSE GiveUpAnswer(c)

----------------------------------------------------------------------------
(* Time                                                                      *)

\* Nobody is in the middle of local code and no timer is due.
Waiting(c) ==
    \/ call[c].pc = "idle"
    \/ call[c].pc = "gate" /\ call[c].wait > 0
    \/ call[c].pc = "calling" /\ call[c].transport > 0
    \/ call[c].pc = "backoff" /\ call[c].nap > 0

Down(n) == IF n = 0 THEN 0 ELSE n - 1

Tick ==
    /\ \A c \in Callers : Waiting(c)
    /\ call' = [c \in Callers |->
                  IF call[c].pc = "idle" THEN call[c]
                  ELSE [call[c] EXCEPT !.route = Down(@), !.wait = Down(@), !.nap = Down(@),
                                       !.transport = Down(@), !.extend = Down(@),
                                       !.spent = Least(@ + 1, LongestCall)]]
    /\ cool' = [p \in Providers |-> Down(cool[p])]
    /\ UNCHANGED <<free, fails, opened>>

Step(c) ==
    \/ RejectByPolicy(c) \/ RejectNotConfigured(c) \/ RejectOpenCircuit(c)
    \/ RejectNotReady(c) \/ RejectIncapable(c) \/ Admit(c)
    \/ Acquire(c) \/ GateTimeout(c) \/ Send(c) \/ SendUnrecorded(c) \/ Retry(c)
    \/ Transient(c) \/ Permanent(c) \/ Complete(c) \/ Partial(c) \/ Incomplete(c)
    \/ Invalid(c)

Next == Tick \/ \E c \in Callers : Begin(c) \/ Step(c)

\* Threads run and time passes, however often callers come and go; whether and
\* when a provider answers is its own affair, but the client's timeout fires.
Local(c) ==
    \/ RejectByPolicy(c) \/ RejectNotConfigured(c) \/ RejectOpenCircuit(c)
    \/ RejectNotReady(c) \/ RejectIncapable(c) \/ Admit(c)
    \/ GateTimeout(c) \/ Send(c) \/ SendUnrecorded(c) \/ Retry(c)
    \/ call[c].transport = 0 /\ Transient(c)

Spec == Init /\ [][Next]_vars /\ SF_vars(Tick) /\ \A c \in Callers : WF_vars(Local(c))

----------------------------------------------------------------------------
(* Properties                                                                *)

\* Every path out of the adapter gives its permit back: timeouts, rejections,
\* continuations and retries neither leak nor duplicate one.
PermitsBalanced ==
    \A p \in Providers : free[p] + Cardinality(Holding(p)) = Limit

\* What the code guarantees of a request's duration.  With several candidates,
\* waiting, attempts, backoff, continuations, the retry and the fallbacks share
\* route_deadline.  With one candidate there is no route_deadline: every try
\* gets the timeout anew, and its continuations once more.  The documents
\* promise more than that for one candidate: see OneDeadline.
CallBounded ==
    \A c \in Callers :
        call[c].spent <= IF Several(c) THEN Timeout ELSE Allowance

\* What backend/README.md promises of every request: continuations, the retry
\* of an invalid response and the attempts consume one deadline, the timeout of
\* the request.  A request with one candidate does not keep it.
OneDeadline == \A c \in Callers : call[c].spent <= Timeout

\* A closed circuit is below the threshold and an open one has reached it: no
\* interleaving of late failures, late successes and lazy resets leaves a
\* breaker that can no longer open, or one that opened too early.
BreakerConsistent ==
    \A p \in Providers : opened[p] <=> fails[p] >= Threshold

\* Every request returns or raises, even when the provider never answers and
\* its permits are always taken.
CallEnds ==
    \A c \in Callers : call[c].pc # "idle" ~> call[c].pc = "idle"
====
