---- MODULE ModelGatewayProofs ----
(* For any number of callers, providers, candidates, permits and retries,    *)
(* and any timeouts: the permits of a provider are balanced, its circuit     *)
(* breaker is consistent, and requests stay within their deadlines.          *)
EXTENDS ModelGateway, FiniteSetTheorems, SequenceTheorems, TLAPS

----------------------------------------------------------------------------
(* Requests                                                                  *)

Calls ==
    [pc : {"idle", "route", "gate", "send", "calling", "backoff"},
     k : Nat, route : Nat, wait : Nat, transport : Nat, nap : Nat, extend : Nat,
     attempt : Nat, retry : Nat, cont : Nat, spent : Nat]

\* A request under way is at one of its candidates.
Placed(c, r) == r \in Calls /\ (r.pc # "idle" => r.k \in 1 .. Len(Route[c]))

CallInv == call \in [Callers -> Calls] /\ \A c \in Callers : Placed(c, call[c])

HasPermit(r) == r.pc \in {"send", "calling", "backoff"}

\* What a step of a request does to the permits: nothing, it takes one of its
\* candidate's, or it gives that one back.
Keeps(c, r) ==
    /\ free' = free
    /\ HasPermit(r) <=> HasPermit(call[c])
    /\ HasPermit(r) => r.k = call[c].k
Takes(c, r) ==
    /\ free[Candidate(c)] > 0
    /\ free' = [free EXCEPT ![Candidate(c)] = @ - 1]
    /\ ~ HasPermit(call[c]) /\ HasPermit(r) /\ r.k = call[c].k
    /\ call[c].pc # "idle"
Gives(c, r) == Release(c) /\ HasPermit(call[c]) /\ ~ HasPermit(r)

Moves(c, r) == Set(c, r) /\ Placed(c, r) /\ (Keeps(c, r) \/ Takes(c, r) \/ Gives(c, r))

LEMMA Constants ==
    /\ Limit \in Nat \ {0} /\ Threshold \in Nat \ {0} /\ Cooldown \in Nat \ {0}
    /\ Timeout \in Nat \ {0} /\ AdapterTimeout \in Nat \ {0} /\ MaxAttempts \in Nat \ {0}
    /\ Backoff \in Nat /\ MaxContinuations \in Nat /\ RetryLimit \in Nat
    /\ \A c \in Callers : Route[c] \in Seq(Providers) /\ Len(Route[c]) \in Nat \ {0}
<1>1. \A c \in Callers : Route[c] \in Seq(Providers) /\ Route[c] # <<>>
  BY GatewayAssumption
<1>2. \A c \in Callers : Len(Route[c]) \in Nat \ {0}
  BY <1>1, EmptySeq, LenProperties
<1>3. QED BY <1>1, <1>2, GatewayAssumption

LEMMA IdlePlaced == ASSUME NEW c PROVE Placed(c, Idle) /\ Idle.pc = "idle"
BY DEF Placed, Calls, Idle

LEMMA CandidatePlaced ==
    ASSUME CallInv, NEW c \in Callers, call[c].pc # "idle"
    PROVE  Candidate(c) \in Providers
<1>1. Route[c] \in Seq(Providers) /\ call[c].k \in 1 .. Len(Route[c])
  BY Constants DEF CallInv, Placed
<1>2. QED BY <1>1, SMT DEF Candidate

\* The next candidate, the gate and the record a request starts from.
LEMMA NextPlaced ==
    ASSUME CallInv, NEW c \in Callers, call[c].pc # "idle"
    PROVE  Placed(c, NextCandidate(c)) /\ ~ HasPermit(NextCandidate(c))
<1>1. call[c] \in Calls /\ call[c].k \in 1 .. Len(Route[c]) /\ Len(Route[c]) \in Nat
  BY Constants DEF CallInv, Placed
<1>2. CASE call[c].k < Len(Route[c])
  <2>1. NextCandidate(c) =
          [pc |-> "route", k |-> call[c].k + 1, route |-> call[c].route, wait |-> 0,
           transport |-> 0, nap |-> 0, extend |-> 0, attempt |-> 0, retry |-> 0, cont |-> 0,
           spent |-> call[c].spent]
    BY <1>2 DEF NextCandidate, Idle
  <2>2. NextCandidate(c) \in Calls
    BY <1>1, <2>1 DEF Calls
  <2>3. NextCandidate(c).pc = "route" /\ NextCandidate(c).k = call[c].k + 1
    BY <1>1, <2>1 DEF Calls
  <2>4. QED BY <1>1, <1>2, <2>2, <2>3 DEF Placed, HasPermit
<1>3. CASE ~ call[c].k < Len(Route[c])
  BY <1>1, <1>3, IdlePlaced, SMT DEF NextCandidate, HasPermit
<1>4. QED BY <1>2, <1>3

LEMMA GatePlaced ==
    ASSUME CallInv, NEW c \in Callers, call[c].pc # "idle", NEW b \in Nat
    PROVE  /\ Placed(c, AtGate(c, b)) /\ ~ HasPermit(AtGate(c, b))
           /\ AtGate(c, b).cont = call[c].cont /\ AtGate(c, b).retry = call[c].retry
<1>1. call[c] \in Calls /\ call[c].k \in 1 .. Len(Route[c])
  BY DEF CallInv, Placed
<1>2. AtGate(c, b) \in Calls
  BY <1>1 DEF AtGate, Calls
<1>3. /\ AtGate(c, b).pc = "gate" /\ AtGate(c, b).k = call[c].k
      /\ AtGate(c, b).cont = call[c].cont /\ AtGate(c, b).retry = call[c].retry
  BY <1>1 DEF AtGate, Calls
<1>4. QED BY <1>1, <1>2, <1>3 DEF Placed, HasPermit

LEMMA BudgetNat ==
    ASSUME CallInv, NEW c \in Callers
    PROVE  Budget(c) \in Nat
<1>1. call[c] \in Calls
  BY DEF CallInv
<1>2. QED BY <1>1, Constants DEF Budget, Calls

\* Every step of a request replaces its record by one that is placed, and takes
\* or gives back a permit accordingly.
LEMMA ReleaseMoves ==
    ASSUME CallInv, NEW c \in Callers, call[c].pc \in {"calling", "backoff", "send"},
           NEW r, Placed(c, r), ~ HasPermit(r), Set(c, r), Release(c)
    PROVE  Moves(c, r)
BY DEF Moves, Gives, HasPermit

LEMMA GiveUpMoves ==
    ASSUME CallInv, NEW c \in Callers, call[c].pc = "calling", Release(c), GiveUpAnswer(c)
    PROVE  \E r : Moves(c, r)
<1>1. CASE Set(c, NextCandidate(c))
  <2>1. Moves(c, NextCandidate(c))
    BY <1>1, NextPlaced, ReleaseMoves
  <2>2. QED BY <2>1
<1>2. CASE Set(c, Idle)
  <2>1. Moves(c, Idle)
    BY <1>2, IdlePlaced, ReleaseMoves DEF HasPermit
  <2>2. QED BY <2>1
<1>3. QED BY <1>1, <1>2 DEF GiveUpAnswer

LEMMA FailMoves ==
    ASSUME CallInv, NEW c \in Callers, call[c].pc \in {"calling", "backoff"}, Fail(c)
    PROVE  \E r : Moves(c, r)
<1>1. Moves(c, NextCandidate(c))
  BY NextPlaced, ReleaseMoves DEF Fail
<1>2. QED BY <1>1

LEMMA StepMoves ==
    ASSUME CallInv, NEW c \in Callers, Step(c)
    PROVE  \E r : Moves(c, r)
<1>1. /\ call[c] \in Calls
      /\ call[c].pc # "idle" => call[c].k \in 1 .. Len(Route[c])
  BY DEF CallInv, Placed
<1>2. CASE RejectByPolicy(c) \/ RejectOpenCircuit(c) \/ RejectIncapable(c) \/ GateTimeout(c)
  <2>1. Set(c, NextCandidate(c)) /\ free' = free /\ call[c].pc \in {"route", "gate"}
    BY <1>2 DEF RejectByPolicy, RejectOpenCircuit, RejectIncapable, GateTimeout
  <2>2. Moves(c, NextCandidate(c))
    BY <2>1, NextPlaced DEF Moves, Keeps, HasPermit
  <2>3. QED BY <2>2
<1>3. CASE RejectNotConfigured(c) \/ RejectNotReady(c)
  <2>1. free' = free /\ call[c].pc = "route"
    BY <1>3 DEF RejectNotConfigured, RejectNotReady
  <2>2. CASE Set(c, NextCandidate(c))
    <3>1. Moves(c, NextCandidate(c))
      BY <2>1, <2>2, NextPlaced DEF Moves, Keeps, HasPermit
    <3>2. QED BY <3>1
  <2>3. CASE Set(c, Idle)
    <3>1. Moves(c, Idle)
      BY <2>1, <2>3, IdlePlaced DEF Moves, Keeps, HasPermit
    <3>2. QED BY <3>1
  <2>4. QED BY <1>3, <2>2, <2>3 DEF RejectNotConfigured, RejectNotReady, AfterUnusable
<1>4. CASE Admit(c)
  <2>1. free' = free /\ call[c].pc = "route"
    BY <1>4 DEF Admit
  <2>2. CASE Set(c, Idle)
    <3>1. Moves(c, Idle)
      BY <2>1, <2>2, IdlePlaced DEF Moves, Keeps, HasPermit
    <3>2. QED BY <3>1
  <2>3. CASE Set(c, AtGate(c, Budget(c)))
    <3>1. Moves(c, AtGate(c, Budget(c)))
      BY <2>1, <2>3, BudgetNat, GatePlaced DEF Moves, Keeps, HasPermit
    <3>2. QED BY <3>1
  <2>4. QED BY <1>4, <2>2, <2>3 DEF Admit
<1>5. CASE Acquire(c)
  <2> DEFINE r == [call[c] EXCEPT !.pc = "send", !.attempt = 1, !.wait = 0,
                                  !.transport = Least(AdapterTimeout, call[c].wait)]
  <2>1. Least(AdapterTimeout, call[c].wait) \in Nat
    BY <1>1, Constants DEF Least, Calls
  <2>2. r \in Calls /\ r.pc = "send" /\ r.k = call[c].k
    BY <1>1, <2>1 DEF Calls
  <2>3. Placed(c, r) /\ HasPermit(r) /\ ~ HasPermit(call[c])
    BY <1>1, <1>5, <2>2 DEF Placed, HasPermit, Acquire
  <2>4. Moves(c, r)
    BY <1>5, <2>2, <2>3 DEF Acquire, Moves, Takes
  <2>5. QED BY <2>4
<1>6. CASE Send(c)
  <2> DEFINE r == [call[c] EXCEPT !.pc = "calling"]
  <2>1. r \in Calls /\ r.pc = "calling" /\ r.k = call[c].k
    BY <1>1 DEF Calls
  <2>2. Moves(c, r)
    BY <1>1, <1>6, <2>1 DEF Send, Moves, Keeps, Placed, HasPermit
  <2>3. QED BY <2>2
<1>7. CASE SendUnrecorded(c) \/ Permanent(c) \/ Complete(c)
  <2>1. Set(c, Idle) /\ Release(c) /\ call[c].pc \in {"send", "calling"}
    BY <1>7 DEF SendUnrecorded, Permanent, Complete
  <2>2. Moves(c, Idle)
    BY <2>1, IdlePlaced, ReleaseMoves DEF HasPermit
  <2>3. QED BY <2>2
<1>8. CASE Retry(c)
  <2> DEFINE r == [call[c] EXCEPT !.pc = "send", !.attempt = @ + 1]
  <2>1. CASE Fail(c)
    BY <1>8, <2>1, FailMoves DEF Retry
  <2>2. CASE Set(c, r) /\ free' = free
    <3>1. call[c].attempt + 1 \in Nat
      BY <1>1 DEF Calls
    <3>2. r \in Calls /\ r.pc = "send" /\ r.k = call[c].k
      BY <1>1, <3>1 DEF Calls
    <3>3. Moves(c, r)
      BY <1>1, <1>8, <2>2, <3>2 DEF Retry, Moves, Keeps, Placed, HasPermit
    <3>4. QED BY <3>3
  <2>3. QED BY <1>8, <2>1, <2>2 DEF Retry
<1>9. CASE Transient(c)
  <2> DEFINE r == [call[c] EXCEPT !.pc = "backoff", !.nap = Least(Backoff, call[c].transport)]
  <2>1. CASE Fail(c)
    BY <1>9, <2>1, FailMoves DEF Transient
  <2>2. CASE Set(c, r) /\ free' = free
    <3>1. Least(Backoff, call[c].transport) \in Nat
      BY <1>1, Constants DEF Least, Calls
    <3>2. r \in Calls /\ r.pc = "backoff" /\ r.k = call[c].k
      BY <1>1, <3>1 DEF Calls
    <3>3. Moves(c, r)
      BY <1>1, <1>9, <2>2, <3>2 DEF Transient, Moves, Keeps, Placed, HasPermit
    <3>4. QED BY <3>3
  <2>3. QED BY <1>9, <2>1, <2>2 DEF Transient
<1>10. CASE Incomplete(c)
  BY <1>10, GiveUpMoves DEF Incomplete
<1>11. CASE Partial(c)
  <2> DEFINE extend == IF call[c].cont = 0 THEN Budget(c) ELSE call[c].extend
             r == [AtGate(c, extend) EXCEPT !.extend = extend, !.cont = @ + 1]
  <2>1. Release(c) /\ call[c].pc = "calling"
    BY <1>11 DEF Partial
  <2>2. CASE GiveUpAnswer(c)
    BY <2>1, <2>2, GiveUpMoves
  <2>3. CASE Set(c, r)
    <3>1. extend \in Nat
      BY <1>1, BudgetNat DEF Calls
    <3>2. Placed(c, AtGate(c, extend)) /\ ~ HasPermit(AtGate(c, extend))
      BY <2>1, <3>1, GatePlaced
    <3> DEFINE g == AtGate(c, extend)
    <3>3. g \in Calls /\ g.cont + 1 \in Nat
      BY <3>2 DEF Calls, Placed
    <3>4. r = [g EXCEPT !.extend = extend, !.cont = @ + 1]
      OBVIOUS
    <3> HIDE DEF g, r, extend
    <3>5. r \in Calls /\ r.pc = g.pc /\ r.k = g.k
      BY <3>1, <3>3, <3>4 DEF Calls
    <3> USE DEF g, r, extend
    <3>6. Placed(c, r) /\ ~ HasPermit(r)
      BY <3>2, <3>5 DEF Placed, HasPermit
    <3>7. Moves(c, r)
      BY <2>1, <2>3, <3>6, ReleaseMoves
    <3>8. QED BY <3>7
  <2>4. QED BY <1>11, <2>2, <2>3 DEF Partial
<1>12. CASE Invalid(c)
  <2> DEFINE r == [AtGate(c, Budget(c)) EXCEPT !.retry = @ + 1, !.cont = 0, !.extend = 0]
  <2>1. Release(c) /\ call[c].pc = "calling"
    BY <1>12 DEF Invalid
  <2>2. CASE GiveUpAnswer(c)
    BY <2>1, <2>2, GiveUpMoves
  <2>3. CASE Set(c, r)
    <3>1. Placed(c, AtGate(c, Budget(c))) /\ ~ HasPermit(AtGate(c, Budget(c)))
      BY <2>1, BudgetNat, GatePlaced
    <3> DEFINE g == AtGate(c, Budget(c))
    <3>2. g \in Calls /\ g.retry + 1 \in Nat
      BY <3>1 DEF Calls, Placed
    <3>3. r = [g EXCEPT !.retry = @ + 1, !.cont = 0, !.extend = 0]
      OBVIOUS
    <3> HIDE DEF g, r
    <3>4. r \in Calls /\ r.pc = g.pc /\ r.k = g.k
      BY <3>2, <3>3 DEF Calls
    <3> USE DEF g, r
    <3>5. Placed(c, r) /\ ~ HasPermit(r)
      BY <3>1, <3>4 DEF Placed, HasPermit
    <3>6. Moves(c, r)
      BY <2>1, <2>3, <3>5, ReleaseMoves
    <3>7. QED BY <3>6
  <2>4. QED BY <1>12, <2>2, <2>3 DEF Invalid
<1>13. QED
  BY <1>2, <1>3, <1>4, <1>5, <1>6, <1>7, <1>8, <1>9, <1>10, <1>11, <1>12 DEF Step

----------------------------------------------------------------------------
(* Permits                                                                   *)

PermitInv ==
    /\ CallInv
    /\ free \in [Providers -> Nat]
    /\ PermitsBalanced

\* The callers that hold a permit of p after one of them has moved.
LEMMA HoldingMoves ==
    ASSUME CallInv, NEW c \in Callers, NEW r, Set(c, r), NEW p
    PROVE  Holding(p)' = IF HasPermit(r) /\ Route[c][r.k] = p
                         THEN Holding(p) \cup {c} ELSE Holding(p) \ {c}
<1>1. \A d \in Callers : call'[d] = IF d = c THEN r ELSE call[d]
  BY DEF CallInv, Set
<1>2. QED BY <1>1 DEF Holding, HasPermit, Candidate

LEMMA MoveBalanced ==
    ASSUME PermitInv, NEW c \in Callers, NEW r, Moves(c, r)
    PROVE  PermitInv'
<1>1. CallInv /\ Set(c, r) /\ Placed(c, r)
  BY DEF PermitInv, Moves
<1>2. CallInv'
  BY <1>1 DEF CallInv, Set, Placed
<1>3. ASSUME NEW p \in Providers
      PROVE  /\ IsFiniteSet(Holding(p)) /\ Cardinality(Holding(p)) \in Nat
             /\ free[p] \in Nat /\ free[p] + Cardinality(Holding(p)) = Limit
             /\ Cardinality(Holding(p) \cup {c}) =
                    IF c \in Holding(p) THEN Cardinality(Holding(p)) ELSE Cardinality(Holding(p)) + 1
             /\ Cardinality(Holding(p) \ {c}) =
                    IF c \in Holding(p) THEN Cardinality(Holding(p)) - 1 ELSE Cardinality(Holding(p))
             /\ c \in Holding(p) <=> HasPermit(call[c]) /\ Candidate(c) = p
  <2>1. IsFiniteSet(Holding(p))
    BY GatewayAssumption, FS_Subset DEF Holding
  <2>2. QED
    BY <2>1, FS_CardinalityType, FS_AddElement, FS_RemoveElement
    DEF PermitInv, PermitsBalanced, Holding, HasPermit
<1>4. CASE Keeps(c, r)
  <2>1. ASSUME NEW p \in Providers PROVE Holding(p)' = Holding(p)
    <3>1. HasPermit(r) /\ Route[c][r.k] = p <=> c \in Holding(p)
      BY <1>3, <1>4 DEF Keeps, Candidate
    <3>2. QED BY <1>1, <3>1, HoldingMoves
  <2>2. QED BY <1>2, <1>4, <2>1 DEF PermitInv, PermitsBalanced, Keeps
<1>5. CASE Takes(c, r)
  <2>1. Candidate(c) \in Providers
    BY <1>1, <1>5, CandidatePlaced DEF Takes
  <2>2. ASSUME NEW p \in Providers
        PROVE  free'[p] \in Nat /\ free'[p] + Cardinality(Holding(p)') = Limit
    <3>1. Holding(p)' = IF Candidate(c) = p THEN Holding(p) \cup {c} ELSE Holding(p) \ {c}
      BY <1>1, <1>5, HoldingMoves DEF Takes, Candidate
    <3>2. c \notin Holding(p)
      BY <1>3, <1>5 DEF Takes
    <3>3. free'[p] = IF Candidate(c) = p THEN free[p] - 1 ELSE free[p]
      BY <1>5 DEF Takes, PermitInv
    <3>4. Candidate(c) = p => free[p] > 0
      BY <1>5 DEF Takes
    <3>5. Cardinality(Holding(p)') = IF Candidate(c) = p THEN Cardinality(Holding(p)) + 1
                                     ELSE Cardinality(Holding(p))
      BY <1>3, <3>1, <3>2
    <3> DEFINE n == Cardinality(Holding(p))
               m == Cardinality(Holding(p)')
    <3>6. n \in Nat /\ free[p] \in Nat /\ free[p] + n = Limit
      BY <1>3
    <3>7. m = IF Candidate(c) = p THEN n + 1 ELSE n
      BY <3>5
    <3> HIDE DEF n, m
    <3>8. free'[p] \in Nat /\ free'[p] + m = Limit
      BY <3>3, <3>4, <3>6, <3>7
    <3>9. QED BY <3>8 DEF m
  <2>3. free' \in [Providers -> Nat]
    BY <1>5, <2>1, <2>2 DEF Takes, PermitInv
  <2>4. QED BY <1>2, <2>2, <2>3 DEF PermitInv, PermitsBalanced
<1>6. CASE Gives(c, r)
  <2>1. Candidate(c) \in Providers
    BY <1>1, <1>6, CandidatePlaced DEF Gives, HasPermit
  <2>2. ASSUME NEW p \in Providers
        PROVE  free'[p] \in Nat /\ free'[p] + Cardinality(Holding(p)') = Limit
    <3>1. Holding(p)' = Holding(p) \ {c}
      BY <1>1, <1>6, HoldingMoves DEF Gives
    <3>2. c \in Holding(p) <=> Candidate(c) = p
      BY <1>3, <1>6 DEF Gives
    <3>3. free'[p] = IF Candidate(c) = p THEN free[p] + 1 ELSE free[p]
      BY <1>6 DEF Gives, Release, PermitInv
    <3>4. Cardinality(Holding(p)') = IF Candidate(c) = p THEN Cardinality(Holding(p)) - 1
                                     ELSE Cardinality(Holding(p))
      BY <1>3, <3>1, <3>2
    <3> DEFINE n == Cardinality(Holding(p))
               m == Cardinality(Holding(p)')
    <3>5. n \in Nat /\ free[p] \in Nat /\ free[p] + n = Limit
      BY <1>3
    <3>6. m = IF Candidate(c) = p THEN n - 1 ELSE n
      BY <3>4
    <3> HIDE DEF n, m
    <3>7. free'[p] \in Nat /\ free'[p] + m = Limit
      BY <3>3, <3>5, <3>6
    <3>8. QED BY <3>7 DEF m
  <2>3. free' \in [Providers -> Nat]
    BY <1>6, <2>1, <2>2 DEF Gives, Release, PermitInv
  <2>4. QED BY <1>2, <2>2, <2>3 DEF PermitInv, PermitsBalanced
<1>7. QED BY <1>4, <1>5, <1>6 DEF Moves

\* Time passes for every request at once and moves none.
LEMMA TickKeeps ==
    ASSUME CallInv, Tick, NEW c \in Callers
    PROVE  Placed(c, call'[c]) /\ call'[c].pc = call[c].pc /\ call'[c].k = call[c].k
<1>1. call[c] \in Calls /\ Placed(c, call[c])
  BY DEF CallInv
<1>2. call'[c] = IF call[c].pc = "idle" THEN call[c]
                 ELSE [call[c] EXCEPT !.route = Down(@), !.wait = Down(@), !.nap = Down(@),
                                      !.transport = Down(@), !.extend = Down(@),
                                      !.spent = Least(@ + 1, LongestCall)]
  BY DEF Tick
<1>3. CASE call[c].pc = "idle"
  BY <1>1, <1>2, <1>3
<1>4. CASE call[c].pc # "idle"
  <2>1. \A n \in Nat : Down(n) \in Nat
    BY DEF Down
  <2>2. LongestCall \in Nat
    BY Constants DEF LongestCall, Allowance
  <2>3. \A n \in Nat : Least(n + 1, LongestCall) \in Nat
    BY <2>2 DEF Least
  <2>4. call'[c] = [pc |-> call[c].pc, k |-> call[c].k, route |-> Down(call[c].route),
                    wait |-> Down(call[c].wait), transport |-> Down(call[c].transport),
                    nap |-> Down(call[c].nap), extend |-> Down(call[c].extend),
                    attempt |-> call[c].attempt, retry |-> call[c].retry, cont |-> call[c].cont,
                    spent |-> Least(call[c].spent + 1, LongestCall)]
    BY <1>1, <1>2, <1>4 DEF Calls
  <2>5. call'[c] \in Calls
    BY <1>1, <2>1, <2>3, <2>4 DEF Calls
  <2>6. call'[c].pc = call[c].pc /\ call'[c].k = call[c].k
    BY <2>4
  <2>7. QED BY <1>1, <2>5, <2>6 DEF Placed
<1>5. QED BY <1>3, <1>4

LEMMA TickBalanced ==
    ASSUME PermitInv, Tick
    PROVE  PermitInv'
<1>1. CallInv
  BY DEF PermitInv
<1>2. call' \in [Callers -> Calls]
  <2>1. \A c \in Callers : call'[c] \in Calls
    BY <1>1, TickKeeps DEF Placed
  <2>2. call' = [c \in Callers |-> call'[c]]
    BY DEF Tick
  <2>3. QED BY <2>1, <2>2
<1>3. CallInv'
  BY <1>1, <1>2, TickKeeps DEF CallInv
<1>4. \A p \in Providers : Holding(p)' = Holding(p)
  BY <1>1, TickKeeps DEF Holding, Candidate
<1>5. free' = free
  BY DEF Tick
<1>6. QED BY <1>3, <1>4, <1>5 DEF PermitInv, PermitsBalanced

LEMMA BeginBalanced ==
    ASSUME PermitInv, NEW c \in Callers, Begin(c)
    PROVE  PermitInv'
<1> DEFINE r == [Idle EXCEPT !.pc = "route", !.k = 1,
                             !.route = IF Several(c) THEN Timeout ELSE 0]
<1>1. r \in Calls /\ r.pc = "route" /\ r.k = 1
  BY Constants DEF Calls, Idle
<1>2. Placed(c, r) /\ ~ HasPermit(r) /\ ~ HasPermit(call[c])
  BY <1>1, Constants DEF Placed, HasPermit, Begin
<1>3. Moves(c, r)
  BY <1>2 DEF Begin, Moves, Keeps
<1>4. QED BY <1>3, MoveBalanced

LEMMA StepBalanced ==
    ASSUME PermitInv, NEW c \in Callers, Step(c)
    PROVE  PermitInv'
<1>1. PICK r : Moves(c, r)
  BY StepMoves DEF PermitInv
<1>2. QED BY <1>1, MoveBalanced

LEMMA PermitInductive == PermitInv /\ [Next]_vars => PermitInv'
<1> SUFFICES ASSUME PermitInv, [Next]_vars PROVE PermitInv'
  OBVIOUS
<1>1. CASE Tick
  BY <1>1, TickBalanced
<1>2. ASSUME NEW c \in Callers, Begin(c) PROVE PermitInv'
  BY <1>2, BeginBalanced
<1>3. ASSUME NEW c \in Callers, Step(c) PROVE PermitInv'
  BY <1>3, StepBalanced
<1>4. CASE UNCHANGED vars
  BY <1>4 DEF vars, PermitInv, CallInv, PermitsBalanced, Holding, Candidate
<1>5. QED BY <1>1, <1>2, <1>3, <1>4 DEF Next

LEMMA PermitInitial == Init => PermitInv
<1> SUFFICES ASSUME Init PROVE PermitInv
  OBVIOUS
<1>1. \A c \in Callers : call[c] = Idle
  BY DEF Init
<1>2. CallInv
  BY <1>1, IdlePlaced DEF Init, CallInv, Placed
<1>3. \A p \in Providers : Holding(p) = {}
  BY <1>1, IdlePlaced DEF Holding
<1>4. \A p \in Providers : free[p] + Cardinality(Holding(p)) = Limit
  <2>1. \A p \in Providers : free[p] = Limit
    BY DEF Init
  <2>2. \A p \in Providers : Cardinality(Holding(p)) = 0
    BY <1>3, FS_EmptySet
  <2>3. QED BY <2>1, <2>2, Constants
<1>5. free \in [Providers -> Nat]
  BY Constants DEF Init
<1>6. QED BY <1>2, <1>4, <1>5 DEF PermitInv, PermitsBalanced

\* Every permit of a provider is free or held by exactly one request, however
\* requests end: no path of ModelGateway leaks a permit or returns one twice.
THEOREM PermitsCorrect == Spec => []PermitsBalanced
<1>1. PermitInv => PermitsBalanced
  BY DEF PermitInv
<1>2. QED BY <1>1, PermitInitial, PermitInductive, PTL DEF Spec

----------------------------------------------------------------------------
(* The circuit breaker                                                       *)

\* The records of the registry: every provider has its counter, its flag and
\* its cooldown.
HealthTypes ==
    /\ fails \in [Providers -> Nat]
    /\ opened \in [Providers -> BOOLEAN]
    /\ cool \in [Providers -> Nat]

HealthInv == HealthTypes /\ BreakerConsistent

\* Every method of the registry, and the clock, preserve the invariant,
\* whichever provider they are called for.
LEMMA SuccessConsistent ==
    ASSUME HealthInv, NEW q \in Providers, RecordSuccess(q)
    PROVE  HealthInv'
<1>1. Threshold \in Nat \ {0}
  BY GatewayAssumption
<1>2. HealthTypes'
  BY SMT DEF HealthInv, HealthTypes, RecordSuccess
<1>3. ASSUME NEW p \in Providers PROVE (opened[p] <=> fails[p] >= Threshold)'
  <2>1. CASE p = q
    BY <1>1, <2>1, SMT DEF HealthInv, HealthTypes, RecordSuccess
  <2>2. CASE p # q
    BY <1>1, <2>2, SMT DEF HealthInv, HealthTypes, RecordSuccess, BreakerConsistent
  <2>3. QED BY <2>1, <2>2
<1>4. QED BY <1>2, <1>3 DEF HealthInv, BreakerConsistent

LEMMA FailureConsistent ==
    ASSUME HealthInv, NEW q \in Providers, RecordFailure(q)
    PROVE  HealthInv'
<1>1. Threshold \in Nat \ {0} /\ Cooldown \in Nat
  BY GatewayAssumption
<1>2. HealthTypes'
  BY <1>1, SMT DEF HealthInv, HealthTypes, RecordFailure, Least
<1>3. ASSUME NEW p \in Providers PROVE (opened[p] <=> fails[p] >= Threshold)'
  <2>1. CASE p = q
    <3> DEFINE n == Least(fails[p] + 1, Threshold)
    <3>1. fails[p] \in Nat /\ (opened[p] <=> fails[p] >= Threshold)
      BY DEF HealthInv, HealthTypes, BreakerConsistent
    <3>2. fails'[p] = n
      BY <2>1 DEF HealthInv, HealthTypes, RecordFailure
    <3>3. opened'[p] <=> opened[p] \/ n >= Threshold
      BY <2>1, Zenon DEF HealthInv, HealthTypes, RecordFailure
    <3>4. fails[p] >= Threshold => n >= Threshold
      BY <1>1, <3>1 DEF Least
    <3>5. QED BY <3>1, <3>2, <3>3, <3>4, Zenon
  <2>2. CASE p # q
    BY <1>1, <2>2, SMT DEF HealthInv, HealthTypes, RecordFailure, BreakerConsistent
  <2>3. QED BY <2>1, <2>2
<1>4. QED BY <1>2, <1>3 DEF HealthInv, BreakerConsistent

LEMMA SnapshotConsistent ==
    ASSUME HealthInv, NEW q \in Providers, Snapshot(q)
    PROVE  HealthInv'
<1>1. Threshold \in Nat \ {0}
  BY GatewayAssumption
<1>2. HealthTypes'
  BY SMT DEF HealthInv, HealthTypes, Snapshot, CircuitOpen
<1>3. ASSUME NEW p \in Providers PROVE (opened[p] <=> fails[p] >= Threshold)'
  <2>1. CASE p = q
    <3>1. fails[p] \in Nat /\ cool[p] \in Nat /\ (opened[p] <=> fails[p] >= Threshold)
      BY DEF HealthInv, HealthTypes, BreakerConsistent
    <3>2. opened'[p] <=> opened[p] /\ cool[p] > 0
      BY <2>1, Zenon DEF HealthInv, HealthTypes, Snapshot, CircuitOpen
    <3>3. fails'[p] = IF opened[p] /\ cool[p] = 0 THEN 0 ELSE fails[p]
      BY <2>1, Zenon DEF HealthInv, HealthTypes, Snapshot
    <3>4. CASE opened[p] /\ cool[p] = 0
      BY <1>1, <3>2, <3>3, <3>4
    <3>5. CASE ~ (opened[p] /\ cool[p] = 0)
      <4>1. fails'[p] = fails[p]
        BY <3>3, <3>5, Zenon
      <4>2. opened'[p] <=> opened[p]
        BY <3>1, <3>2, <3>5
      <4>3. QED BY <3>1, <4>1, <4>2, Zenon
    <3>6. QED BY <3>4, <3>5
  <2>2. CASE p # q
    BY <1>1, <2>2, SMT DEF HealthInv, HealthTypes, Snapshot, BreakerConsistent
  <2>3. QED BY <2>1, <2>2
<1>4. QED BY <1>2, <1>3 DEF HealthInv, BreakerConsistent

LEMMA UnchangedConsistent ==
    ASSUME HealthInv, UNCHANGED health
    PROVE  HealthInv'
BY DEF HealthInv, HealthTypes, BreakerConsistent, health

LEMMA TickConsistent ==
    ASSUME HealthInv, Tick
    PROVE  HealthInv'
<1>1. fails' = fails /\ opened' = opened /\ cool' = [p \in Providers |-> Down(cool[p])]
  BY DEF Tick
<1>2. HealthTypes'
  BY <1>1, SMT DEF HealthInv, HealthTypes, Down
<1>3. QED BY <1>1, <1>2 DEF HealthInv, BreakerConsistent

\* What a step tells the registry about its candidate, if anything.
LEMMA StepReports ==
    ASSUME NEW c, Step(c)
    PROVE  \/ UNCHANGED health
           \/ call[c].pc # "idle" /\ (\/ Snapshot(Candidate(c)) \/ RecordFailure(Candidate(c))
                                      \/ RecordSuccess(Candidate(c)))
BY DEF Step, RejectByPolicy, RejectNotConfigured, RejectOpenCircuit, RejectNotReady,
       RejectIncapable, Admit, Acquire, GateTimeout, Send, SendUnrecorded, Retry, Transient, Permanent, Complete, Partial, Incomplete, Invalid,
       GiveUpAnswer, Fail

LEMMA StepConsistent ==
    ASSUME CallInv, HealthInv, NEW c \in Callers, Step(c)
    PROVE  HealthInv'
<1>1. CASE UNCHANGED health
  BY <1>1, UnchangedConsistent
<1>2. CASE call[c].pc # "idle" /\ (\/ Snapshot(Candidate(c)) \/ RecordFailure(Candidate(c))
                                  \/ RecordSuccess(Candidate(c)))
  <2>1. PICK q \in Providers : q = Candidate(c)
    BY <1>2, CandidatePlaced
  <2>2. Snapshot(q) \/ RecordFailure(q) \/ RecordSuccess(q)
    BY <1>2, <2>1
  <2>3. QED BY <2>2, SnapshotConsistent, FailureConsistent, SuccessConsistent
<1>3. QED BY <1>1, <1>2, StepReports

\* A circuit is open exactly when its provider has reached the threshold, under
\* any interleaving of late results, lazy resets and the clock.
THEOREM BreakerCorrect == Spec => []BreakerConsistent
<1>1. Init => HealthInv
  BY Constants DEF Init, HealthInv, HealthTypes, BreakerConsistent
<1>2. PermitInv /\ HealthInv /\ [Next]_vars => HealthInv'
  <2> SUFFICES ASSUME PermitInv, HealthInv, [Next]_vars PROVE HealthInv'
    OBVIOUS
  <2>1. CASE Tick
    BY <2>1, TickConsistent
  <2>2. ASSUME NEW c \in Callers, Begin(c) PROVE HealthInv'
    BY <2>2, UnchangedConsistent DEF Begin
  <2>3. ASSUME NEW c \in Callers, Step(c) PROVE HealthInv'
    BY <2>3, StepConsistent DEF PermitInv
  <2>4. CASE UNCHANGED vars
    BY <2>4, UnchangedConsistent DEF vars
  <2>5. QED BY <2>1, <2>2, <2>3, <2>4 DEF Next
<1>3. HealthInv => BreakerConsistent
  BY DEF HealthInv
<1>4. QED BY <1>1, <1>2, <1>3, PermitInitial, PermitInductive, PTL DEF Spec
----------------------------------------------------------------------------
(* Deadlines                                                                 *)

\* What the tries up to the n-th retry, and their continuations, may take.
Quota(n) == 2 * (n + 1) * Timeout

\* Several candidates: no timer outlives the route's deadline.
SharedDeadline(r) ==
    /\ r.wait <= r.route /\ r.transport <= r.route /\ r.extend <= r.route
    /\ r.spent + r.route <= Timeout

\* One candidate: every try, and the continuations of every try, start a timer
\* of their own; the room they need is set aside.
OwnDeadlines(r) ==
    /\ r.pc = "route" => r.spent = 0 /\ r.retry = 0 /\ r.cont = 0
    /\ r.cont = 0 => r.spent + r.wait + r.transport + Timeout <= Quota(r.retry)
    /\ r.cont # 0 => /\ r.wait <= r.extend /\ r.transport <= r.extend
                     /\ r.spent + r.extend <= Quota(r.retry)

Timed(c, r) ==
    /\ r.pc = "idle" => r.spent = 0
    /\ r.pc # "idle" => /\ r.nap <= r.transport /\ r.retry <= RetryLimit
                        /\ r.pc # "backoff" => r.nap = 0
                        /\ Several(c) => SharedDeadline(r)
                        /\ ~ Several(c) => OwnDeadlines(r)

TimeInv == \A c \in Callers : Timed(c, call[c])

LEMMA QuotaFacts ==
    /\ Quota(0) = Timeout + Timeout
    /\ \A n \in Nat : Quota(n) \in Nat /\ Quota(n + 1) = Quota(n) + Timeout + Timeout
    /\ \A n \in Nat : n <= RetryLimit => Quota(n) <= Allowance
BY Constants DEF Quota, Allowance

\* The timers of a record as numbers.
LEMMA Timers ==
    ASSUME NEW r \in Calls
    PROVE  /\ r.route \in Nat /\ r.wait \in Nat /\ r.transport \in Nat /\ r.nap \in Nat
           /\ r.extend \in Nat /\ r.retry \in Nat /\ r.cont \in Nat /\ r.spent \in Nat
           /\ Timeout \in Nat /\ RetryLimit \in Nat /\ Quota(r.retry) \in Nat
BY Constants, QuotaFacts DEF Calls

LEMMA IdleTimed == ASSUME NEW c PROVE Timed(c, Idle)
BY DEF Timed, Idle

LEMMA NextTimed ==
    ASSUME CallInv, TimeInv, NEW c \in Callers, call[c].pc # "idle"
    PROVE  Timed(c, NextCandidate(c))
<1>1. call[c] \in Calls /\ call[c].k \in 1 .. Len(Route[c]) /\ Len(Route[c]) \in Nat
  BY Constants DEF CallInv, Placed
<1>2. CASE call[c].k < Len(Route[c])
  <2> DEFINE r == NextCandidate(c)
  <2>1. r = [pc |-> "route", k |-> call[c].k + 1, route |-> call[c].route, wait |-> 0,
             transport |-> 0, nap |-> 0, extend |-> 0, attempt |-> 0, retry |-> 0, cont |-> 0,
             spent |-> call[c].spent]
    BY <1>2 DEF NextCandidate, Idle
  <2>2. /\ r.pc = "route" /\ r.route = call[c].route /\ r.wait = 0 /\ r.transport = 0
        /\ r.nap = 0 /\ r.extend = 0 /\ r.retry = 0 /\ r.spent = call[c].spent
    BY <2>1
  <2>3. Several(c) /\ SharedDeadline(call[c])
    BY <1>1, <1>2 DEF Several, TimeInv, Timed
  <2>4. SharedDeadline(r)
    BY <1>1, <2>2, <2>3 DEF SharedDeadline, Calls
  <2>5. QED BY <2>2, <2>3, <2>4, Constants DEF Timed
<1>3. CASE ~ call[c].k < Len(Route[c])
  BY <1>3, IdleTimed DEF NextCandidate
<1>4. QED BY <1>2, <1>3

\* A request at the gate with b ticks to wait.
LEMMA GateFields ==
    ASSUME CallInv, NEW c \in Callers, NEW b \in Nat
    PROVE  LET r == AtGate(c, b)
           IN  /\ r \in Calls /\ r.pc = "gate" /\ r.wait = b /\ r.transport = 0 /\ r.nap = 0
               /\ r.k = call[c].k /\ r.route = call[c].route /\ r.spent = call[c].spent
               /\ r.extend = call[c].extend /\ r.retry = call[c].retry /\ r.cont = call[c].cont
<1>1. call[c] \in Calls
  BY DEF CallInv
<1>2. AtGate(c, b) \in Calls
  BY <1>1 DEF AtGate, Calls
<1>3. QED BY <1>1, <1>2 DEF AtGate, Calls

LEMMA GiveUpTimed ==
    ASSUME CallInv, TimeInv, NEW c \in Callers, call[c].pc # "idle", GiveUpAnswer(c)
    PROVE  \E r : Set(c, r) /\ Timed(c, r)
BY IdleTimed, NextTimed DEF GiveUpAnswer

\* No step of a request gives it more time than it had set aside.
LEMMA StepTimed ==
    ASSUME CallInv, TimeInv, NEW c \in Callers, Step(c)
    PROVE  \E r : Set(c, r) /\ Timed(c, r)
<1>1. call[c] \in Calls /\ Timed(c, call[c])
  BY DEF CallInv, TimeInv
<1>2. CASE RejectByPolicy(c) \/ RejectNotConfigured(c) \/ RejectOpenCircuit(c)
           \/ RejectNotReady(c) \/ RejectIncapable(c) \/ GateTimeout(c) \/ SendUnrecorded(c) \/ Permanent(c) \/ Complete(c)
  <2>1. call[c].pc # "idle" /\ (Set(c, NextCandidate(c)) \/ Set(c, Idle))
    BY <1>2 DEF RejectByPolicy, RejectNotConfigured, RejectOpenCircuit, RejectNotReady,
                RejectIncapable, AfterUnusable, GateTimeout, SendUnrecorded, Permanent, Complete
  <2>2. QED BY <2>1, NextTimed, IdleTimed
<1>3. CASE Admit(c)
  <2>1. CASE Set(c, Idle)
    BY <2>1, IdleTimed
  <2>2. CASE Set(c, AtGate(c, Budget(c)))
    <3> DEFINE r == AtGate(c, Budget(c))
    <3>1. call[c].pc = "route"
      BY <1>3 DEF Admit
    <3>2. /\ r \in Calls /\ r.pc = "gate" /\ r.wait = Budget(c) /\ r.transport = 0 /\ r.nap = 0
          /\ r.route = call[c].route /\ r.spent = call[c].spent
          /\ r.extend = call[c].extend /\ r.retry = call[c].retry /\ r.cont = call[c].cont
      BY BudgetNat, GateFields
    <3> HIDE DEF r
    <3>3. CASE Several(c)
      <4>1. SharedDeadline(call[c]) /\ Budget(c) = call[c].route
        BY <1>1, <3>1, <3>3 DEF Timed, Budget
      <4>2. SharedDeadline(r)
        <5>1. /\ call[c].route \in Nat /\ call[c].wait \in Nat /\ call[c].transport \in Nat
              /\ call[c].nap \in Nat /\ call[c].extend \in Nat /\ call[c].spent \in Nat
              /\ Timeout \in Nat
          BY <1>1, Timers
        <5>2. QED BY <3>2, <4>1, <5>1 DEF SharedDeadline
      <4>3. Timed(c, r)
        BY <1>1, <3>1, <3>2, <3>3, <4>2 DEF Timed
      <4>4. QED BY <2>2, <4>3 DEF r
    <3>4. CASE ~ Several(c)
      <4>1. OwnDeadlines(call[c]) /\ Budget(c) = Timeout
        BY <1>1, <3>1, <3>4 DEF Timed, Budget
      <4>2. call[c].spent = 0 /\ call[c].retry = 0 /\ call[c].cont = 0
        BY <3>1, <4>1 DEF OwnDeadlines
      <4>3. OwnDeadlines(r)
        BY <3>2, <4>1, <4>2, QuotaFacts, Constants DEF OwnDeadlines
      <4>4. Timed(c, r)
        BY <1>1, <3>1, <3>2, <3>4, <4>3 DEF Timed
      <4>5. QED BY <2>2, <4>4 DEF r
    <3>5. QED BY <3>3, <3>4
  <2>3. QED BY <1>3, <2>1, <2>2 DEF Admit
<1>4. CASE Acquire(c)
  <2> DEFINE t == Least(AdapterTimeout, call[c].wait)
             r == [call[c] EXCEPT !.pc = "send", !.attempt = 1, !.wait = 0, !.transport = t]
  <2>1. t \in Nat /\ t <= call[c].wait
    BY <1>1, Constants DEF Least, Calls
  <2>2. Set(c, r) /\ call[c].pc = "gate"
    BY <1>4 DEF Acquire
  <2> HIDE DEF t
  <2>3. /\ r.pc = "send" /\ r.wait = 0 /\ r.transport = t /\ r.nap = call[c].nap
        /\ r.route = call[c].route /\ r.spent = call[c].spent
        /\ r.extend = call[c].extend /\ r.retry = call[c].retry /\ r.cont = call[c].cont
    BY <1>1, <2>1 DEF Calls
  <2> HIDE DEF r
  <2>4. call[c].nap = 0 /\ call[c].retry <= RetryLimit
    BY <1>1, <2>2 DEF Timed
  <2>5. CASE Several(c)
    <3>1. SharedDeadline(call[c])
      BY <1>1, <2>2, <2>5 DEF Timed
    <3>2. SharedDeadline(r)
      BY <1>1, <2>1, <2>3, <3>1 DEF SharedDeadline, Calls
    <3>3. QED BY <2>1, <2>2, <2>3, <2>4, <2>5, <3>2 DEF Timed
  <2>6. CASE ~ Several(c)
    <3>1. OwnDeadlines(call[c])
      BY <1>1, <2>2, <2>6 DEF Timed
    <3>2. OwnDeadlines(r)
      <4>1. /\ call[c].wait \in Nat /\ call[c].transport \in Nat /\ call[c].extend \in Nat
            /\ call[c].spent \in Nat /\ Timeout \in Nat /\ Quota(call[c].retry) \in Nat
        BY <1>1, Timers
      <4>2. CASE call[c].cont = 0
        <5>1. call[c].spent + call[c].wait + call[c].transport + Timeout <= Quota(call[c].retry)
          BY <3>1, <4>2 DEF OwnDeadlines
        <5>2. r.spent + r.wait + r.transport + Timeout <= Quota(r.retry)
          BY <2>1, <2>3, <4>1, <5>1
        <5>3. QED BY <2>3, <4>2, <5>2 DEF OwnDeadlines
      <4>3. CASE call[c].cont # 0
        <5>1. call[c].wait <= call[c].extend /\ call[c].spent + call[c].extend <= Quota(call[c].retry)
          BY <3>1, <4>3 DEF OwnDeadlines
        <5>2. r.wait <= r.extend /\ r.transport <= r.extend /\ r.spent + r.extend <= Quota(r.retry)
          BY <2>1, <2>3, <4>1, <5>1
        <5>3. QED BY <2>3, <4>3, <5>2 DEF OwnDeadlines
      <4>4. QED BY <4>2, <4>3
    <3>3. QED BY <2>1, <2>2, <2>3, <2>4, <2>6, <3>2 DEF Timed
  <2>7. QED BY <2>5, <2>6
<1>5. CASE Send(c)
  <2> DEFINE r == [call[c] EXCEPT !.pc = "calling"]
  <2>1. Set(c, r) /\ call[c].pc = "send"
    BY <1>5 DEF Send
  <2>2. /\ r.pc = "calling" /\ r.wait = call[c].wait /\ r.transport = call[c].transport
        /\ r.nap = call[c].nap /\ r.route = call[c].route /\ r.spent = call[c].spent
        /\ r.extend = call[c].extend /\ r.retry = call[c].retry /\ r.cont = call[c].cont
    BY <1>1 DEF Calls
  <2> HIDE DEF r
  <2>3. Timed(c, r)
    BY <1>1, <2>1, <2>2 DEF Timed, SharedDeadline, OwnDeadlines
  <2>4. QED BY <2>1, <2>3
<1>6. CASE Retry(c)
  <2> DEFINE r == [call[c] EXCEPT !.pc = "send", !.attempt = @ + 1]
  <2>1. CASE Fail(c)
    BY <1>6, <2>1, NextTimed DEF Retry, Fail
  <2>2. CASE Set(c, r)
    <3>1. call[c].pc = "backoff" /\ call[c].nap = 0
      BY <1>6 DEF Retry
    <3>2. /\ r.pc = "send" /\ r.wait = call[c].wait /\ r.transport = call[c].transport
          /\ r.nap = call[c].nap /\ r.route = call[c].route /\ r.spent = call[c].spent
          /\ r.extend = call[c].extend /\ r.retry = call[c].retry /\ r.cont = call[c].cont
      BY <1>1 DEF Calls
    <3> HIDE DEF r
    <3>3. Timed(c, r)
      BY <1>1, <3>1, <3>2 DEF Timed, SharedDeadline, OwnDeadlines
    <3>4. QED BY <2>2, <3>3
  <2>3. QED BY <1>6, <2>1, <2>2 DEF Retry
<1>7. CASE Transient(c)
  <2> DEFINE t == Least(Backoff, call[c].transport)
             r == [call[c] EXCEPT !.pc = "backoff", !.nap = t]
  <2>1. CASE Fail(c)
    BY <1>7, <2>1, NextTimed DEF Transient, Fail
  <2>2. CASE Set(c, r)
    <3>1. call[c].pc = "calling"
      BY <1>7 DEF Transient
    <3>2. t \in Nat /\ t <= call[c].transport
      BY <1>1, Constants DEF Least, Calls
    <3> HIDE DEF t
    <3>3. /\ r.pc = "backoff" /\ r.wait = call[c].wait /\ r.transport = call[c].transport
          /\ r.nap = t /\ r.route = call[c].route /\ r.spent = call[c].spent
          /\ r.extend = call[c].extend /\ r.retry = call[c].retry /\ r.cont = call[c].cont
      BY <1>1, <3>2 DEF Calls
    <3> HIDE DEF r
    <3>4. Timed(c, r)
      BY <1>1, <3>1, <3>2, <3>3 DEF Timed, SharedDeadline, OwnDeadlines
    <3>5. QED BY <2>2, <3>4
  <2>3. QED BY <1>7, <2>1, <2>2 DEF Transient
<1>8. CASE Incomplete(c)
  BY <1>8, GiveUpTimed DEF Incomplete
<1>9. CASE Partial(c)
  <2> DEFINE b == IF call[c].cont = 0 THEN Budget(c) ELSE call[c].extend
             g == AtGate(c, b)
             r == [g EXCEPT !.extend = b, !.cont = @ + 1]
  <2>1. call[c].pc = "calling"
    BY <1>9 DEF Partial
  <2>2. CASE GiveUpAnswer(c)
    BY <2>1, <2>2, GiveUpTimed
  <2>3. CASE Set(c, r)
    <3>1. b \in Nat
      BY <1>1, BudgetNat DEF Calls
    <3>2. /\ g \in Calls /\ g.pc = "gate" /\ g.wait = b /\ g.transport = 0 /\ g.nap = 0
          /\ g.route = call[c].route /\ g.spent = call[c].spent
          /\ g.retry = call[c].retry /\ g.cont = call[c].cont
      BY <3>1, GateFields
    <3>3. b = IF call[c].cont = 0 THEN Budget(c) ELSE call[c].extend
      OBVIOUS
    <3> HIDE DEF b, g
    <3>4. g.cont + 1 \in Nat /\ g.cont + 1 # 0
      BY <3>2 DEF Calls
    <3>5. /\ r.pc = "gate" /\ r.wait = b /\ r.transport = 0 /\ r.nap = 0 /\ r.extend = b
          /\ r.route = call[c].route /\ r.spent = call[c].spent
          /\ r.retry = call[c].retry /\ r.cont = g.cont + 1
      BY <3>1, <3>2, <3>4 DEF Calls
    <3> HIDE DEF r
    <3>6. CASE Several(c)
      <4>1. SharedDeadline(call[c]) /\ Budget(c) = call[c].route
        BY <1>1, <2>1, <3>6 DEF Timed, Budget
      <4>2. b <= call[c].route
        <5>1. /\ call[c].route \in Nat /\ call[c].wait \in Nat /\ call[c].transport \in Nat
              /\ call[c].nap \in Nat /\ call[c].extend \in Nat /\ call[c].spent \in Nat
              /\ Timeout \in Nat
          BY <1>1, Timers
        <5>2. QED BY <3>3, <4>1, <5>1 DEF SharedDeadline
      <4>3. SharedDeadline(r)
        <5>1. /\ call[c].route \in Nat /\ call[c].wait \in Nat /\ call[c].transport \in Nat
              /\ call[c].nap \in Nat /\ call[c].extend \in Nat /\ call[c].spent \in Nat
              /\ Timeout \in Nat
          BY <1>1, Timers
        <5>2. QED BY <3>1, <3>5, <4>1, <4>2, <5>1 DEF SharedDeadline
      <4>4. Timed(c, r)
        BY <1>1, <2>1, <3>5, <3>6, <4>3 DEF Timed
      <4>5. QED BY <2>3, <4>4
    <3>7. CASE ~ Several(c)
      <4>1. OwnDeadlines(call[c]) /\ Budget(c) = Timeout
        BY <1>1, <2>1, <3>7 DEF Timed, Budget
      <4>2. call[c].spent + b <= Quota(call[c].retry)
        <5>1. /\ call[c].wait \in Nat /\ call[c].transport \in Nat /\ call[c].extend \in Nat
              /\ call[c].spent \in Nat /\ Timeout \in Nat /\ Quota(call[c].retry) \in Nat
          BY <1>1, Timers
        <5>2. QED BY <3>3, <4>1, <5>1 DEF OwnDeadlines
      <4>3. OwnDeadlines(r)
        BY <3>1, <3>4, <3>5, <4>2 DEF OwnDeadlines
      <4>4. Timed(c, r)
        BY <1>1, <2>1, <3>5, <3>7, <4>3 DEF Timed
      <4>5. QED BY <2>3, <4>4
    <3>8. QED BY <3>6, <3>7
  <2>4. QED BY <1>9, <2>2, <2>3 DEF Partial
<1>10. CASE Invalid(c)
  <2> DEFINE g == AtGate(c, Budget(c))
             r == [g EXCEPT !.retry = @ + 1, !.cont = 0, !.extend = 0]
  <2>1. call[c].pc = "calling"
    BY <1>10 DEF Invalid
  <2>2. CASE GiveUpAnswer(c)
    BY <2>1, <2>2, GiveUpTimed
  <2>3. CASE Set(c, r) /\ call[c].retry < RetryLimit
    <3>1. /\ g \in Calls /\ g.pc = "gate" /\ g.wait = Budget(c) /\ g.transport = 0 /\ g.nap = 0
          /\ g.route = call[c].route /\ g.spent = call[c].spent /\ g.retry = call[c].retry
      BY BudgetNat, GateFields
    <3> HIDE DEF g
    <3>2. call[c].retry + 1 \in Nat
      BY <1>1 DEF Calls
    <3>3. /\ r.pc = "gate" /\ r.wait = Budget(c) /\ r.transport = 0 /\ r.nap = 0 /\ r.extend = 0
          /\ r.route = call[c].route /\ r.spent = call[c].spent
          /\ r.retry = call[c].retry + 1 /\ r.cont = 0
      BY <3>1, <3>2 DEF Calls
    <3> HIDE DEF r
    <3>4. r.retry <= RetryLimit
      BY <1>1, <2>3, <3>3, Constants DEF Calls
    <3>5. CASE Several(c)
      <4>1. SharedDeadline(call[c]) /\ Budget(c) = call[c].route
        BY <1>1, <2>1, <3>5 DEF Timed, Budget
      <4>2. SharedDeadline(r)
        <5>1. /\ call[c].route \in Nat /\ call[c].wait \in Nat /\ call[c].transport \in Nat
              /\ call[c].nap \in Nat /\ call[c].extend \in Nat /\ call[c].spent \in Nat
              /\ Timeout \in Nat
          BY <1>1, Timers
        <5>2. QED BY <3>3, <4>1, <5>1 DEF SharedDeadline
      <4>3. Timed(c, r)
        BY <3>3, <3>4, <3>5, <4>2 DEF Timed
      <4>4. QED BY <2>3, <4>3
    <3>6. CASE ~ Several(c)
      <4>1. OwnDeadlines(call[c]) /\ Budget(c) = Timeout
        BY <1>1, <2>1, <3>6 DEF Timed, Budget
      <4>2. call[c].spent <= Quota(call[c].retry)
        <5>1. /\ call[c].wait \in Nat /\ call[c].transport \in Nat /\ call[c].extend \in Nat
              /\ call[c].spent \in Nat /\ Timeout \in Nat /\ Quota(call[c].retry) \in Nat
          BY <1>1, Timers
        <5>2. QED BY <4>1, <5>1 DEF OwnDeadlines
      <4>3. Quota(call[c].retry) \in Nat /\ Quota(r.retry) = Quota(call[c].retry) + Timeout + Timeout
        BY <1>1, <3>3, QuotaFacts DEF Calls
      <4>4. OwnDeadlines(r)
        <5>1. call[c].spent \in Nat /\ Timeout \in Nat /\ Quota(call[c].retry) \in Nat
          BY <1>1, Timers
        <5>2. QED BY <3>3, <4>1, <4>2, <4>3, <5>1 DEF OwnDeadlines
      <4>5. Timed(c, r)
        BY <3>3, <3>4, <3>6, <4>4 DEF Timed
      <4>6. QED BY <2>3, <4>5
    <3>7. QED BY <3>5, <3>6
  <2>4. QED BY <1>10, <2>2, <2>3 DEF Invalid
<1>11. QED
  BY <1>2, <1>3, <1>4, <1>5, <1>6, <1>7, <1>8, <1>9, <1>10 DEF Step

\* Time only passes while a timer runs, and takes it from what was set aside.
LEMMA TickTimed ==
    ASSUME CallInv, TimeInv, Tick, NEW c \in Callers
    PROVE  Timed(c, call'[c])
<1> DEFINE o == call[c]
           r == call'[c]
<1>1. o \in Calls /\ Timed(c, o) /\ Waiting(c)
  BY DEF CallInv, TimeInv, Tick
<1>2. CASE o.pc = "idle"
  <2>1. r = o
    BY <1>2 DEF Tick
  <2>2. QED BY <1>1, <2>1
<1>3. CASE o.pc # "idle"
  <2>1. r = [o EXCEPT !.route = Down(@), !.wait = Down(@), !.nap = Down(@),
                      !.transport = Down(@), !.extend = Down(@),
                      !.spent = Least(@ + 1, LongestCall)]
    BY <1>3 DEF Tick
  <2>2. \/ o.pc = "gate" /\ o.wait > 0
        \/ o.pc = "calling" /\ o.transport > 0
        \/ o.pc = "backoff" /\ o.nap > 0
    BY <1>1, <1>3 DEF Waiting
  <2> HIDE DEF o, r
  <2>3. r = [pc |-> o.pc, k |-> o.k, route |-> Down(o.route), wait |-> Down(o.wait),
             transport |-> Down(o.transport), nap |-> Down(o.nap), extend |-> Down(o.extend),
             attempt |-> o.attempt, retry |-> o.retry, cont |-> o.cont,
             spent |-> Least(o.spent + 1, LongestCall)]
    BY <1>1, <2>1 DEF Calls
  <2>4. /\ r.pc = o.pc /\ r.route = Down(o.route) /\ r.wait = Down(o.wait)
        /\ r.transport = Down(o.transport) /\ r.nap = Down(o.nap) /\ r.extend = Down(o.extend)
        /\ r.retry = o.retry /\ r.cont = o.cont /\ r.spent = Least(o.spent + 1, LongestCall)
    BY <2>3
  <2>5. LongestCall \in Nat
    BY Constants DEF LongestCall, Allowance
  <2>6. r.spent \in Nat /\ r.spent <= o.spent + 1
    BY <1>1, <2>4, <2>5 DEF Least, Calls
  <2>7. o.nap <= o.transport /\ o.retry <= RetryLimit /\ (o.pc # "backoff" => o.nap = 0)
    BY <1>1, <1>3 DEF Timed
  <2>8. o.pc \notin {"idle", "route"} /\ (o.wait > 0 \/ o.transport > 0)
    BY <1>1, <2>2, <2>7 DEF Calls
  <2>9. r.nap <= r.transport /\ (r.pc # "backoff" => r.nap = 0)
    BY <1>1, <2>4, <2>7 DEF Down, Calls
  <2>10. /\ o.route \in Nat /\ o.wait \in Nat /\ o.transport \in Nat /\ o.extend \in Nat
         /\ o.spent \in Nat /\ Timeout \in Nat /\ Quota(o.retry) \in Nat
    BY <1>1, Timers
  <2>11. CASE Several(c)
    <3>1. SharedDeadline(o)
      BY <1>1, <1>3, <2>11 DEF Timed
    <3>2. SharedDeadline(r)
      BY <2>4, <2>6, <2>8, <2>10, <3>1 DEF SharedDeadline, Down
    <3>3. QED BY <2>4, <2>7, <2>8, <2>9, <2>11, <3>2 DEF Timed, r
  <2>12. CASE ~ Several(c)
    <3>1. OwnDeadlines(o) /\ Quota(o.retry) \in Nat
      BY <1>1, <1>3, <2>12, QuotaFacts DEF Timed, Calls
    <3>2. OwnDeadlines(r)
      BY <2>4, <2>6, <2>8, <2>10, <3>1 DEF OwnDeadlines, Down
    <3>3. QED BY <2>4, <2>7, <2>8, <2>9, <2>12, <3>2 DEF Timed, r
  <2>13. QED BY <2>11, <2>12 DEF r
<1>4. QED BY <1>2, <1>3

LEMMA TimeInductive == PermitInv /\ TimeInv /\ [Next]_vars => TimeInv'
<1> SUFFICES ASSUME CallInv, TimeInv, [Next]_vars PROVE TimeInv'
  BY DEF PermitInv
<1>1. ASSUME NEW c \in Callers, NEW r, Set(c, r), Timed(c, r) PROVE TimeInv'
  BY <1>1 DEF TimeInv, CallInv, Set, Timed
<1>2. CASE Tick
  BY <1>2, TickTimed DEF TimeInv
<1>3. ASSUME NEW c \in Callers, Begin(c) PROVE TimeInv'
  <2> DEFINE r == [Idle EXCEPT !.pc = "route", !.k = 1,
                               !.route = IF Several(c) THEN Timeout ELSE 0]
  <2>1. Set(c, r)
    BY <1>3 DEF Begin
  <2>2. /\ r.pc = "route" /\ r.wait = 0 /\ r.transport = 0 /\ r.nap = 0 /\ r.extend = 0
        /\ r.spent = 0 /\ r.retry = 0 /\ r.cont = 0
        /\ r.route = IF Several(c) THEN Timeout ELSE 0
    BY DEF Idle
  <2> HIDE DEF r
  <2>3. Several(c) => SharedDeadline(r)
    BY <2>2, Constants DEF SharedDeadline
  <2>4. ~ Several(c) => OwnDeadlines(r)
    BY <2>2, QuotaFacts, Constants DEF OwnDeadlines
  <2>5. Timed(c, r)
    BY <2>2, <2>3, <2>4, Constants DEF Timed
  <2>6. QED BY <1>1, <2>1, <2>5
<1>4. ASSUME NEW c \in Callers, Step(c) PROVE TimeInv'
  <2>1. PICK r : Set(c, r) /\ Timed(c, r)
    BY <1>4, StepTimed
  <2>2. QED BY <1>1, <2>1
<1>5. CASE UNCHANGED vars
  BY <1>5 DEF vars, TimeInv
<1>6. QED BY <1>2, <1>3, <1>4, <1>5 DEF Next

\* Waiting, attempts, backoff, retries, continuations and fallbacks never take
\* a request past its deadline, or past its allowance when it has one candidate.
THEOREM DeadlineCorrect == Spec => []CallBounded
<1>1. Init => TimeInv
  BY IdleTimed DEF Init, TimeInv
<1>2. PermitInv /\ TimeInv => CallBounded
  <2> SUFFICES ASSUME CallInv, TimeInv, NEW c \in Callers
               PROVE  call[c].spent <= IF Several(c) THEN Timeout ELSE Allowance
    BY DEF PermitInv, CallBounded
  <2>1. call[c] \in Calls /\ Timed(c, call[c]) /\ Allowance \in Nat
    BY Constants DEF CallInv, TimeInv, Allowance
  <2>2. CASE call[c].pc = "idle"
    BY <2>1, <2>2, Constants DEF Timed
  <2>3. CASE call[c].pc # "idle" /\ Several(c)
    BY <2>1, <2>3, Constants DEF Timed, SharedDeadline, Calls
  <2>4. CASE call[c].pc # "idle" /\ ~ Several(c)
    <3>1. OwnDeadlines(call[c]) /\ call[c].retry <= RetryLimit
      BY <2>1, <2>4 DEF Timed
    <3>2. Quota(call[c].retry) \in Nat /\ Quota(call[c].retry) <= Allowance
      BY <2>1, <3>1, QuotaFacts DEF Calls
    <3>3. call[c].spent <= Quota(call[c].retry)
      <4>1. /\ call[c].wait \in Nat /\ call[c].transport \in Nat /\ call[c].extend \in Nat
            /\ call[c].spent \in Nat /\ Timeout \in Nat
        BY <2>1, Timers
      <4>2. QED BY <3>1, <3>2, <4>1 DEF OwnDeadlines
    <3>4. QED BY <2>1, <2>4, <3>2, <3>3 DEF Calls
  <2>5. QED BY <2>2, <2>3, <2>4
<1>3. QED BY <1>1, <1>2, PermitInitial, PermitInductive, TimeInductive, PTL DEF Spec
====
