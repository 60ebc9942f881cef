---- MODULE AgentLoopProofs ----
(* Proofs about AgentLoop, for any policy, any prices and candidates, any     *)
(* tools and whatever the providers answer and report.                       *)
EXTENDS AgentLoop, FiniteSetTheorems, SequenceTheorems, WellFoundedInduction, TLAPS

----------------------------------------------------------------------------
(* Arithmetic the budgets rest on.                                           *)

LEMMA TimesMonotone ==
    ASSUME NEW a \in Nat, NEW b \in Nat, NEW p \in Nat, a <= b
    PROVE  a * p <= b * p /\ a * p \in Nat /\ b * p \in Nat
  OBVIOUS

LEMMA DivisionFits ==
    ASSUME NEW x \in Nat, NEW p \in Nat, p > 0
    PROVE  x \div p \in Nat /\ (x \div p) * p <= x
  OBVIOUS

\* A non-empty set of naturals has a smallest element.
LEMMA SmallestNat ==
    ASSUME NEW T, T \subseteq Nat, T # {}
    PROVE  \E x \in T : \A y \in T : x <= y
<1>1. \E x \in T : \A y \in T : ~(<<y, x>> \in OpToRel(<, Nat))
  BY NatLessThanWellFounded, WFMin, Zenon
<1>2. \A x, y \in T : ~(<<y, x>> \in OpToRel(<, Nat)) => x <= y
  BY DEF OpToRel
<1> QED BY <1>1, <1>2

UnboundedSize(n) ==
    \E S \in SUBSET Nat : /\ IsFiniteSet(S) /\ Cardinality(S) = n
                          /\ \A b \in Nat : \E x \in S : x > b

\* A finite set of naturals has an upper bound: take the smallest one that has
\* none and remove an element.
LEMMA FiniteIsBounded ==
    ASSUME NEW S \in SUBSET Nat, IsFiniteSet(S)
    PROVE  \E b \in Nat : \A x \in S : x <= b
<1> DEFINE T == {n \in Nat : UnboundedSize(n)}
<1>1. T = {}
  <2> SUFFICES ASSUME T # {} PROVE FALSE
    OBVIOUS
  <2>1. PICK n \in T : \A m \in T : n <= m
    <3>1. T \subseteq Nat
      OBVIOUS
    <3> HIDE DEF T
    <3> QED BY <3>1, SmallestNat
  <2>2. PICK U \in SUBSET Nat : /\ IsFiniteSet(U) /\ Cardinality(U) = n
                                /\ \A b \in Nat : \E x \in U : x > b
    BY <2>1 DEF UnboundedSize
  <2>3. PICK u \in U : TRUE
    BY <2>2
  <2>4. /\ IsFiniteSet(U \ {u}) /\ Cardinality(U \ {u}) = n - 1
        /\ n \in Nat /\ n - 1 \in Nat
    <3>1. IsFiniteSet(U \ {u}) /\ Cardinality(U \ {u}) = Cardinality(U) - 1
      BY <2>2, <2>3, FS_RemoveElement
    <3>2. Cardinality(U \ {u}) \in Nat
      BY <3>1, FS_CardinalityType
    <3> QED BY <2>2, <3>1, <3>2
  <2>5. ~UnboundedSize(n - 1)
    <3>1. n - 1 \notin T
      BY <2>1, <2>4
    <3> QED BY <2>4, <3>1
  <2>6. PICK b \in Nat : \A x \in U \ {u} : ~(x > b)
    BY <2>4, <2>5 DEF UnboundedSize
  <2>7. PICK x \in U : x > Greater(b, u)
    BY <2>2 DEF Greater
  <2> QED BY <2>2, <2>3, <2>6, <2>7 DEF Greater
<1>2. Cardinality(S) \in Nat
  BY FS_CardinalityType
<1>3. ~UnboundedSize(Cardinality(S))
  BY <1>1, <1>2
<1>4. PICK b \in Nat : \A x \in S : ~(x > b)
  BY <1>3 DEF UnboundedSize
<1> QED BY <1>4

\* Largest returns the maximum of a finite, non-empty set of naturals.
LEMMA LargestIsMaximum ==
    ASSUME NEW S \in SUBSET Nat, IsFiniteSet(S), S # {}
    PROVE  Largest(S) \in S /\ \A k \in S : k <= Largest(S)
<1> DEFINE B == {b \in Nat : \A x \in S : x <= b}
<1>1. PICK b \in B : \A c \in B : b <= c
  <2>1. B \subseteq Nat /\ B # {}
    BY FiniteIsBounded
  <2> HIDE DEF B
  <2> QED BY <2>1, SmallestNat
<1>2. b \in S
  <2> SUFFICES ASSUME b \notin S PROVE FALSE
    OBVIOUS
  <2>1. \A x \in S : x <= b - 1 /\ x \in Nat
    BY <1>1
  <2>2. b - 1 \in Nat
    <3>1. PICK x \in S : TRUE
      OBVIOUS
    <3>2. b \in Nat /\ x \in Nat /\ x <= b - 1
      BY <1>1, <2>1
    <3> QED BY <3>2
  <2>3. b - 1 \in B
    BY <2>1, <2>2
  <2> QED BY <1>1, <2>3
<1> QED BY <1>1, <1>2 DEF Largest

\* The highest price of all candidates is a price no candidate exceeds.
LEMMA HighestPrice ==
    ASSUME NEW price \in [Candidates -> Nat]
    PROVE  LET top == Largest({price[c] : c \in Candidates})
           IN  top \in Nat /\ \A c \in Candidates : price[c] <= top
<1> DEFINE S == {price[c] : c \in Candidates}
<1>1. S \in SUBSET Nat /\ S # {}
  BY LoopAssumption
<1>2. IsFiniteSet(S)
  <2>1. price \in Surjection(Candidates, S)
    BY DEF Surjection
  <2> HIDE DEF S
  <2> QED BY <2>1, LoopAssumption, FS_Surjection
<1>3. \A c \in Candidates : price[c] \in S
  OBVIOUS
<1> HIDE DEF S
<1>4. Largest(S) \in S /\ \A k \in S : k <= Largest(S)
  BY <1>1, <1>2, LargestIsMaximum
<1>5. Largest(S) \in Nat /\ \A c \in Candidates : price[c] <= Largest(S)
  BY <1>1, <1>3, <1>4
<1> QED BY <1>5 DEF S

\* _cost_bounded_output_tokens: a request that keeps to its estimate and its
\* cap costs no more than what was left, whichever candidate serves it.
LEMMA CostBoundHolds ==
    ASSUME NEW cap \in Nat, NEW left \in Nat, NEW est \in Nat, NEW c \in Candidates,
           CostBounded(cap, left, est) > 0
    PROVE  /\ CostBounded(cap, left, est) \in Nat
           /\ CostBounded(cap, left, est) <= cap
           /\ left > 0
           /\ est * InputPrice[c] + CostBounded(cap, left, est) * OutputPrice[c] <= left
<1> DEFINE dearIn  == Largest({InputPrice[x] : x \in Candidates})
           dearOut == Largest({OutputPrice[x] : x \in Candidates})
           forOutput == left - dearIn * est
           bound == CostBounded(cap, left, est)
<1>1. /\ dearIn \in Nat /\ InputPrice[c] <= dearIn /\ InputPrice[c] \in Nat
      /\ dearOut \in Nat /\ OutputPrice[c] <= dearOut /\ OutputPrice[c] \in Nat
  BY LoopAssumption, HighestPrice
<1>2. bound = IF forOutput <= 0 THEN 0
              ELSE IF dearOut = 0 THEN cap ELSE Lesser(cap, forOutput \div dearOut)
  BY Zenon DEF CostBounded
<1> HIDE DEF dearIn, dearOut
<1>3. dearIn * est \in Nat /\ est * InputPrice[c] \in Nat /\ est * InputPrice[c] <= dearIn * est
  <2>1. InputPrice[c] * est <= dearIn * est /\ InputPrice[c] * est \in Nat /\ dearIn * est \in Nat
    BY <1>1, TimesMonotone
  <2>2. est * InputPrice[c] = InputPrice[c] * est
    BY <1>1
  <2> QED BY <2>1, <2>2
<1> DEFINE spent == dearIn * est
<1>4. forOutput \in Int /\ forOutput = left - spent /\ spent \in Nat
  BY <1>3
<1> HIDE DEF forOutput, spent, bound
<1>5. forOutput > 0 /\ forOutput \in Nat /\ left > 0
  BY <1>2, <1>4 DEF bound
<1>6. CASE dearOut = 0
  <2>1. bound = cap /\ OutputPrice[c] = 0
    BY <1>1, <1>2, <1>5, <1>6
  <2>2. bound * OutputPrice[c] = 0
    BY <2>1
  <2> QED BY <1>1, <1>3, <1>4, <1>5, <2>1, <2>2 DEF bound, spent
<1>7. CASE dearOut # 0
  <2>1. forOutput \div dearOut \in Nat /\ (forOutput \div dearOut) * dearOut <= forOutput
    BY <1>1, <1>5, <1>7, DivisionFits
  <2> DEFINE q == forOutput \div dearOut
  <2>2. bound = Lesser(cap, q)
    BY <1>2, <1>5, <1>7
  <2> HIDE DEF q
  <2>3. bound \in Nat /\ bound <= cap /\ bound <= q /\ q \in Nat
    BY <2>1, <2>2 DEF Lesser, q
  <2>4. bound * OutputPrice[c] <= bound * dearOut /\ bound * OutputPrice[c] \in Nat
    <3>1. OutputPrice[c] * bound <= dearOut * bound /\ OutputPrice[c] * bound \in Nat
      BY <1>1, <2>3, TimesMonotone
    <3>2. OutputPrice[c] * bound = bound * OutputPrice[c] /\ dearOut * bound = bound * dearOut
      BY <1>1, <2>3
    <3> QED BY <3>1, <3>2
  <2>5. bound * dearOut <= q * dearOut /\ bound * dearOut \in Nat /\ q * dearOut \in Nat
    BY <1>1, <2>3, TimesMonotone
  <2>6. bound * OutputPrice[c] <= forOutput
    BY <1>5, <2>1, <2>4, <2>5 DEF q
  <2>7. est * InputPrice[c] + bound * OutputPrice[c] <= left
    <3> DEFINE x == est * InputPrice[c]
               y == bound * OutputPrice[c]
    <3>1. x \in Nat /\ x <= spent /\ y \in Nat /\ y <= forOutput
      BY <1>3, <2>4, <2>6 DEF spent
    <3> HIDE DEF x, y
    <3>2. x + y <= left
      BY <1>4, <3>1
    <3> QED BY <3>2 DEF x, y
  <2> QED BY <1>5, <2>3, <2>7 DEF bound
<1> QED BY <1>6, <1>7

LEMMA CostBoundType ==
    ASSUME NEW cap \in Nat, NEW left \in Nat, NEW est \in Nat
    PROVE  CostBounded(cap, left, est) \in Nat
<1>1. CASE CostBounded(cap, left, est) > 0
  BY <1>1, CostBoundHolds, LoopAssumption
<1>2. CASE ~(CostBounded(cap, left, est) > 0)
  <2> DEFINE dearIn  == Largest({InputPrice[x] : x \in Candidates})
             dearOut == Largest({OutputPrice[x] : x \in Candidates})
             forOutput == left - dearIn * est
             bound == CostBounded(cap, left, est)
  <2>1. dearIn \in Nat /\ dearOut \in Nat
    BY LoopAssumption, HighestPrice
  <2>2. bound = IF forOutput <= 0 THEN 0
                ELSE IF dearOut = 0 THEN cap ELSE Lesser(cap, forOutput \div dearOut)
    BY Zenon DEF CostBounded
  <2> HIDE DEF dearIn, dearOut, bound
  <2>3. forOutput \in Int
    BY <2>1
  <2> HIDE DEF forOutput
  <2>4. forOutput > 0 /\ dearOut # 0 => forOutput \div dearOut \in Nat
    BY <2>1, <2>3, DivisionFits
  <2>5. bound \in Nat
    BY <2>1, <2>2, <2>3, <2>4 DEF Lesser
  <2> QED BY <2>5 DEF bound
<1> QED BY <1>1, <1>2

----------------------------------------------------------------------------
(* The inductive invariant.  Until a limit is met (reason) the counters       *)
(* bound the handlers that ran; a request in flight fits what is left of the  *)
(* token and the cost budget, at the rates of every candidate.                *)

Phases ==
    /\ outcome # "none" <=> pc = "done"
    /\ pc \in {"asking", "tools"} => step < MaxSteps

ToolInv ==
    /\ reason = "none" =>
         /\ handled <= calls /\ calls <= MaxToolCalls
         /\ \A s \in Signatures : ran[s] <= counts[s] /\ counts[s] <= MaxRepeated
    /\ ToolBudgetKept

RequestFits ==
    /\ req.left = MaxTotalTokens - tokens
    /\ req.est + req.cap <= req.left
    /\ Costed => \A c \in Candidates :
         req.est * InputPrice[c] + req.cap * OutputPrice[c] <= MaxCost - cost

LoopInv ==
    /\ TypeOK /\ Phases /\ ToolInv /\ FinishedHonest /\ SpendingKept
    /\ pc = "asking" => RequestFits

LEMMA Constants ==
    /\ MaxSteps \in Nat /\ MaxTotalTokens \in Nat /\ MaxRepeated \in Nat /\ MaxCost \in Nat
    /\ RequestMaxTokens \in Nat /\ PromptTokens \in Nat /\ MaxObservation \in Nat
    /\ MaxToolCalls \in Nat /\ ToolTokens \in Nat /\ MaxBatch \in Nat
    /\ MaxSteps > 0 /\ MaxTotalTokens > 0 /\ MaxCost > 0 /\ RequestMaxTokens > 0
    /\ InputPrice \in [Candidates -> Nat] /\ OutputPrice \in [Candidates -> Nat]
    /\ Granted \subseteq Tools
  BY LoopAssumption, ToolAssumption DEF Granted

\* The bounds computed before a request make it fit.
LEMMA RequestIsBounded ==
    ASSUME TypeOK, pc = "top", Blocked = "none"
    PROVE  /\ step < MaxSteps /\ ~late
           /\ Offered \subseteq Granted
           /\ Estimate \in Nat /\ TokensLeft \in Nat
           /\ Cap \in 0 .. RequestMaxTokens
           /\ Estimate + Cap <= TokensLeft
           /\ Costed => \A c \in Candidates :
                Estimate * InputPrice[c] + Cap * OutputPrice[c] <= MaxCost - cost
<1>1. step < MaxSteps /\ ~late /\ ~(TokensLeft <= Estimate) /\ ~(Cap <= 0)
  <2>1. step \in Nat /\ step <= MaxSteps /\ late \in BOOLEAN
    BY Constants DEF TypeOK
  <2>2. Estimate \in Nat /\ TokensLeft \in Int
    BY Constants DEF TypeOK, Estimate, TokensLeft
  <2> HIDE DEF Estimate, TokensLeft, Cap
  <2>3. step < MaxSteps
    <3> SUFFICES ASSUME step = MaxSteps PROVE FALSE
      BY <2>1, Constants
    <3> QED BY Constants DEF Blocked
  <2>4. ~late
    BY <2>3, Constants DEF Blocked
  <2>5. ~(TokensLeft <= Estimate)
    BY <2>1, <2>2, <2>3, <2>4, Constants DEF Blocked
  <2>6. ~(Cap <= 0)
    BY <2>1, <2>2, <2>3, <2>4, <2>5, Constants DEF Blocked
  <2> QED BY <2>3, <2>4, <2>5, <2>6
<1>2. Offered \subseteq Granted
  BY DEF Offered
<1>3. Estimate \in Nat /\ TokensLeft \in Int
  BY Constants DEF TypeOK, Estimate, TokensLeft
<1>4. TokensLeft \in Nat /\ TokensLeft > Estimate
  BY <1>1, <1>3
<1>5. TokenCap \in Nat /\ TokenCap <= RequestMaxTokens /\ Estimate + TokenCap <= TokensLeft
  BY <1>3, <1>4, Constants DEF TokenCap, Lesser
<1>6. CASE ~Costed
  <2>1. Cap = TokenCap
    BY <1>6 DEF Cap
  <2> QED BY <1>1, <1>2, <1>3, <1>4, <1>5, <1>6, <2>1, Constants
<1>7. CASE Costed
  <2> DEFINE left == Greater(0, MaxCost - cost)
  <2>1. Cap = CostBounded(TokenCap, left, Estimate)
    BY <1>7 DEF Cap
  <2>2. left \in Nat /\ (left > 0 => left = MaxCost - cost)
    BY Constants DEF TypeOK, Greater
  <2> HIDE DEF left
  <2>3. Cap \in Nat
    BY <1>3, <1>5, <2>1, <2>2, CostBoundType
  <2>4. Cap > 0
    BY <1>1, <2>3
  <2>5. ASSUME NEW c \in Candidates
        PROVE  Cap <= TokenCap /\ left > 0 /\ Estimate * InputPrice[c] + Cap * OutputPrice[c] <= left
    BY <1>3, <1>5, <2>1, <2>2, <2>4, CostBoundHolds
  <2>6. Cap <= TokenCap /\ left = MaxCost - cost
    BY <2>2, <2>5, LoopAssumption
  <2>7. \A c \in Candidates : Estimate * InputPrice[c] + Cap * OutputPrice[c] <= MaxCost - cost
    BY <2>5, <2>6
  <2>8. Cap \in 0 .. RequestMaxTokens /\ Estimate + Cap <= TokensLeft
    BY <1>3, <1>4, <1>5, <2>3, <2>6, Constants
  <2> QED BY <1>1, <1>2, <1>3, <1>4, <2>7, <2>8
<1> QED BY <1>6, <1>7

\* Usages have numbers, added up or not.
Numeric(u) == u.in \in Nat /\ u.out \in Nat /\ u.total \in Nat

LEMMA UsageNumeric ==
    ASSUME NEW R \in SUBSET Nat, NEW u \in Usages(R)
    PROVE  Numeric(u)
<1> DEFINE zero == {0}
           totals == {0} \cup R
<1>0. totals \subseteq Nat /\ zero \subseteq Nat
  OBVIOUS
<1> HIDE DEF zero, totals
<1>1. CASE u \in [kind : {"split"}, in : R, out : R, total : totals]
  BY <1>0, <1>1 DEF Numeric
<1>2. CASE u \in [kind : {"total"}, in : zero, out : zero, total : totals]
  BY <1>0, <1>2 DEF Numeric
<1> QED BY <1>1, <1>2, Zenon DEF Usages, zero, totals

LEMMA ContinuedNumeric ==
    ASSUME NEW more \in Continued
    PROVE  Numeric(more)
<1>1. Numeric(Alone)
  BY DEF Numeric, Alone
<1>2. ContinuedReports \in SUBSET Nat
  BY LoopAssumption
<1>3. more = Alone \/ more \in Usages(ContinuedReports)
  BY Zenon DEF Continued
<1> QED BY <1>1, <1>2, <1>3, UsageNumeric

LEMMA CombinedNumeric ==
    ASSUME NEW u, NEW more, Numeric(u), Numeric(more)
    PROVE  Numeric(Combined(u, more))
BY DEF Numeric, Combined, Unknown

\* What an answer is charged; usage that is all reported is charged as it is.
LEMMA ChargeType ==
    ASSUME TypeOK, NEW u, Numeric(u), NEW c \in Candidates
    PROVE  /\ Charge(u) \in Nat /\ ChargedCost(c, u) \in Nat
           /\ u.in + u.out > 0 /\ u.total <= u.in + u.out =>
                /\ Charge(u) = u.in + u.out
                /\ ChargedCost(c, u) = u.in * InputPrice[c] + u.out * OutputPrice[c]
<1> DEFINE Reported == u.in + u.out > 0 /\ u.total <= u.in + u.out
<1>1. u.in \in Nat /\ u.out \in Nat /\ u.total \in Nat
  BY DEF Numeric
<1>2. /\ InputPrice[c] \in Nat /\ OutputPrice[c] \in Nat /\ req.left \in Nat
      /\ Greater(InputPrice[c], OutputPrice[c]) \in Nat
  BY Constants DEF TypeOK, Greater
<1>3. Charge(u) \in Nat /\ Charge(u) >= u.in + u.out
  BY <1>1, <1>2 DEF Charge, Greater
<1>4. Reported => Charge(u) = u.in + u.out
  BY <1>1 DEF Charge, Greater
<1> DEFINE top == Greater(InputPrice[c], OutputPrice[c])
           rest == Charge(u) - (u.in + u.out)
           a == u.in * InputPrice[c]
           b == u.out * OutputPrice[c]
<1>5. rest \in Nat /\ (Reported => rest = 0)
  BY <1>1, <1>3, <1>4
<1>6. a \in Nat /\ b \in Nat
  BY <1>1, <1>2
<1>7. ChargedCost(c, u) = a + b + rest * top
  BY DEF ChargedCost
<1> HIDE DEF top, rest, a, b
<1>8. rest * top \in Nat /\ (rest = 0 => rest * top = 0)
  BY <1>2, <1>5 DEF top
<1>9. ChargedCost(c, u) \in Nat /\ (Reported => ChargedCost(c, u) = a + b)
  BY <1>5, <1>6, <1>7, <1>8
<1> QED BY <1>1, <1>3, <1>4, <1>9 DEF a, b

LEMMA Distributes ==
    ASSUME NEW x \in Nat, NEW y \in Nat, NEW p \in Nat
    PROVE  (x + y) * p = x * p + y * p /\ x * p \in Nat /\ y * p \in Nat
  OBVIOUS

\* The conforming first reply to a request that fits stays within both budgets;
\* its continuations are charged on top.
LEMMA AnswerFits ==
    ASSUME TypeOK, RequestFits, NEW u, NEW more, Numeric(u), Numeric(more),
           NEW c \in Candidates, ConformsContinued(u, more)
    PROVE  LET whole == Combined(u, more)
           IN  /\ tokens + Charge(whole) <= MaxTotalTokens + (more.in + more.out)
               /\ Costed => cost + ChargedCost(c, whole) <=
                     MaxCost + (more.in * InputPrice[c] + more.out * OutputPrice[c])
<1> DEFINE whole == Combined(u, more)
           in == u.in + more.in
           out == u.out + more.out
<1>1. /\ u.in \in Nat /\ u.out \in Nat /\ u.total \in Nat
      /\ more.in \in Nat /\ more.out \in Nat /\ more.total \in Nat
      /\ u.in <= req.est /\ u.out <= req.cap
      /\ u.in + u.out > 0 /\ u.total <= u.in + u.out
  BY DEF Numeric, ConformsContinued, Conforms
<1>2. /\ req.est \in Nat /\ req.cap \in Nat /\ tokens \in Nat /\ cost \in Nat
      /\ InputPrice[c] \in Nat /\ OutputPrice[c] \in Nat
  BY Constants DEF TypeOK
<1>3. whole.in = in /\ whole.out = out /\ whole.total <= in + out
  <2>1. CASE more = Alone
    <3>1. whole = u /\ more.in = 0 /\ more.out = 0
      BY <2>1 DEF Combined, Alone
    <3> QED BY <1>1, <3>1
  <2>2. CASE more # Alone
    <3>1. Itemised(u) /\ Itemised(more) /\ more.total <= more.in + more.out
      BY <2>2 DEF ConformsContinued
    <3>2. whole = [kind |-> "split", in |-> u.in + more.in, out |-> u.out + more.out,
                   total |-> u.total + more.total]
      BY <2>2, <3>1, Zenon DEF Combined
    <3> QED BY <1>1, <3>1, <3>2
  <2> QED BY <2>1, <2>2
<1>4. Numeric(whole)
  BY CombinedNumeric
<1> HIDE DEF whole
<1>5. in \in Nat /\ out \in Nat /\ in + out > 0
  BY <1>1
<1>6. /\ Charge(whole) = in + out
      /\ ChargedCost(c, whole) = in * InputPrice[c] + out * OutputPrice[c]
  <2>1. whole.in + whole.out > 0 /\ whole.total <= whole.in + whole.out
    BY <1>3, <1>5
  <2>2. /\ Charge(whole) = whole.in + whole.out
        /\ ChargedCost(c, whole) = whole.in * InputPrice[c] + whole.out * OutputPrice[c]
    BY <1>4, <2>1, ChargeType
  <2> QED BY <1>3, <2>2
<1>7. tokens + Charge(whole) <= MaxTotalTokens + (more.in + more.out)
  BY <1>1, <1>2, <1>6, Constants DEF RequestFits
<1>8. ASSUME Costed
      PROVE  cost + ChargedCost(c, whole) <=
               MaxCost + (more.in * InputPrice[c] + more.out * OutputPrice[c])
  <2> DEFINE a == u.in * InputPrice[c]
             b == u.out * OutputPrice[c]
             x == req.est * InputPrice[c]
             y == req.cap * OutputPrice[c]
             d == more.in * InputPrice[c]
             e == more.out * OutputPrice[c]
  <2>1. a <= x /\ b <= y /\ a \in Nat /\ b \in Nat /\ x \in Nat /\ y \in Nat
    BY <1>1, <1>2, TimesMonotone
  <2>2. x + y <= MaxCost - cost
    BY <1>8 DEF RequestFits
  <2>3. /\ in * InputPrice[c] = a + d /\ out * OutputPrice[c] = b + e
        /\ d \in Nat /\ e \in Nat
    BY <1>1, <1>2, Distributes
  <2>4. ChargedCost(c, whole) = (a + d) + (b + e)
    BY <1>6, <2>3
  <2> HIDE DEF a, b, x, y, d, e
  <2>5. cost + ChargedCost(c, whole) <= MaxCost + (d + e)
    BY <1>2, <2>1, <2>2, <2>3, <2>4, Constants
  <2> QED BY <2>5 DEF d, e
<1> QED BY <1>7, <1>8 DEF whole

----------------------------------------------------------------------------
(* Every step keeps the invariant.                                           *)

\* What a step that ends the loop establishes.
LEMMA EndType ==
    ASSUME NEW o \in StopReasons \cup {"finished", "failed"}, End(o)
    PROVE  /\ pc' = "done" /\ outcome' = o /\ batch' = <<>> /\ o # "none"
           /\ batch' \in Seq(Signatures)
           /\ req' \in [cap : 0 .. RequestMaxTokens, est : Nat, left : Nat, offered : SUBSET Granted]
<1>1. NoRequest \in [cap : 0 .. RequestMaxTokens, est : Nat, left : Nat, offered : SUBSET Granted]
  BY Constants DEF NoRequest
<1>2. <<>> \in Seq(Signatures)
  OBVIOUS
<1> QED BY <1>1, <1>2 DEF End, StopReasons

\* Steps that end the loop without touching the budgets.
LEMMA EndKeeps ==
    ASSUME LoopInv, NEW o \in StopReasons \cup {"failed"}, End(o),
           UNCHANGED <<policy, budgets, best, size, ran, handled, honest, extra>>
    PROVE  LoopInv'
<1>1. /\ pc' = "done" /\ outcome' = o /\ o \notin {"none", "finished"}
      /\ batch' \in Seq(Signatures)
      /\ req' \in [cap : 0 .. RequestMaxTokens, est : Nat, left : Nat, offered : SUBSET Granted]
  BY EndType DEF StopReasons
<1>2. UNCHANGED <<policy, late, step, force, reason, tokens, cost, calls, counts, best, size, ran,
                  handled, honest, extra>>
  BY DEF budgets
<1>3. TypeOK'
  BY <1>1, <1>2 DEF LoopInv, TypeOK
<1>4. Phases' /\ FinishedHonest'
  BY <1>1 DEF Phases, FinishedHonest
<1>5. ToolInv' /\ SpendingKept'
  BY <1>2 DEF LoopInv, ToolInv, ToolBudgetKept, SpendingKept, Costed
<1> QED BY <1>1, <1>3, <1>4, <1>5 DEF LoopInv

\* One call of a batch: its counters go up by one, its handler runs at most
\* once and only if no limit is met.
LEMMA CallKeepsBudget ==
    ASSUME LoopInv, NEW s \in Signatures, NEW here \in BOOLEAN, Counted(s, here),
           calls' = calls + 1, counts' = [counts EXCEPT ![s] = @ + 1],
           reason' = Blocks(calls + 1, counts[s] + 1), here => reason' = "none"
    PROVE  /\ ToolInv' /\ ran' \in [Signatures -> Nat] /\ handled' \in Nat
           /\ calls' \in Nat /\ counts' \in [Signatures -> Nat]
           /\ reason' \in {"none", "tool_call_budget", "repetition_budget"}
<1>1. /\ ran \in [Signatures -> Nat] /\ counts \in [Signatures -> Nat]
      /\ handled \in Nat /\ calls \in Nat
      /\ reason \in {"none", "tool_call_budget", "repetition_budget"}
  BY DEF LoopInv, TypeOK
<1>2. /\ ran' \in [Signatures -> Nat] /\ counts' \in [Signatures -> Nat]
      /\ handled' \in Nat /\ calls' \in Nat
      /\ \A x \in Signatures : x # s => ran'[x] = ran[x] /\ counts'[x] = counts[x]
      /\ ran'[s] = (IF here THEN ran[s] + 1 ELSE ran[s]) /\ counts'[s] = counts[s] + 1
      /\ handled' = (IF here THEN handled + 1 ELSE handled)
  BY <1>1 DEF Counted
<1>3. reason' \in {"none", "tool_call_budget", "repetition_budget"}
  BY <1>1 DEF Blocks
<1>4. ASSUME reason' = "none"
      PROVE  /\ reason = "none" /\ calls + 1 <= MaxToolCalls /\ counts[s] + 1 <= MaxRepeated
  BY <1>1, <1>4, Constants DEF Blocks
<1>5. ASSUME reason' = "none"
      PROVE  /\ handled' <= calls' /\ calls' <= MaxToolCalls
             /\ \A x \in Signatures : ran'[x] <= counts'[x] /\ counts'[x] <= MaxRepeated
  <2>1. /\ handled <= calls /\ ran[s] <= counts[s]
        /\ \A x \in Signatures : ran[x] <= counts[x] /\ counts[x] <= MaxRepeated
    BY <1>4, <1>5 DEF LoopInv, ToolInv
  <2>2. handled' <= calls' /\ calls' <= MaxToolCalls
    BY <1>1, <1>2, <1>4, <1>5, <2>1, Constants
  <2>3. ran[s] \in Nat /\ counts[s] \in Nat
    BY <1>1
  <2>4. ran'[s] <= counts'[s] /\ counts'[s] <= MaxRepeated
    BY <1>2, <1>4, <1>5, <2>1, <2>3, Constants
  <2> QED BY <1>2, <2>1, <2>2, <2>4
<1>6. ToolBudgetKept'
  <2>1. CASE reason' = "none"
    <3>1. handled' <= MaxToolCalls
      BY <1>2, <1>5, <2>1, Constants
    <3>2. \A x \in Signatures : ran'[x] \in Nat /\ counts'[x] \in Nat
      BY <1>2
    <3>3. \A x \in Signatures : ran'[x] <= MaxRepeated
      BY <1>5, <2>1, <3>2, Constants
    <3> QED BY <3>1, <3>3 DEF ToolBudgetKept
  <2>2. CASE reason' # "none"
    <3>1. ~here
      BY <2>2
    <3>2. handled' = handled /\ \A x \in Signatures : ran'[x] = ran[x]
      BY <1>2, <3>1
    <3> QED BY <3>2 DEF LoopInv, ToolInv, ToolBudgetKept
  <2> QED BY <2>1, <2>2
<1>7. ToolInv'
  BY <1>5, <1>6 DEF ToolInv
<1> QED BY <1>2, <1>3, <1>7

LEMMA BatchesTyped ==
    ASSUME TypeOK, NEW asked \in Batches
    PROVE  asked \in Seq(Signatures)
<1>1. PICK n \in 0 .. MaxBatch : asked \in [1 .. n -> req.offered \X Arguments]
  BY DEF Batches
<1>2. n \in Nat
  BY Constants
<1>3. req.offered \subseteq Tools
  BY Constants DEF TypeOK
<1>4. req.offered \X Arguments \subseteq Signatures
  BY <1>3 DEF Signatures
<1> HIDE DEF Signatures
<1>5. asked \in [1 .. n -> Signatures]
  BY <1>1, <1>4
<1> QED BY <1>2, <1>5, SeqDef

LEMMA AnswerKeeps ==
    ASSUME LoopInv, NEW c \in Candidates, NEW text \in BOOLEAN, NEW asked \in Batches,
           NEW u \in Usages(Reports), NEW more \in Continued, Answer(c, text, asked, u, more)
    PROVE  LoopInv'
<1> DEFINE whole == Combined(u, more)
           spent == tokens + Charge(whole)
           paid == IF policy.priced THEN cost + ChargedCost(c, whole) ELSE cost
           why == Exhausted(spent, paid)
<1>1. /\ pc = "asking" /\ outcome = "none" /\ RequestFits /\ step < MaxSteps
      /\ tokens' = spent /\ cost' = paid
      /\ UNCHANGED <<policy, late, step, force, reason, calls, counts, ran, handled>>
      /\ best' = (best \/ text) /\ honest' = (honest /\ ConformsContinued(u, more))
      /\ extra' = [tokens |-> more.in + more.out,
                    cost |-> more.in * InputPrice[c] + more.out * OutputPrice[c]]
  BY DEF Answer, LoopInv, Phases
<1>2. \/ why # "none" /\ Stopped(why, best \/ text) /\ UNCHANGED size
      \/ why = "none" /\ asked = <<>> /\ End(IF reason = "none" THEN "finished" ELSE reason)
         /\ UNCHANGED size
      \/ why = "none" /\ pc' = "tools" /\ batch' = asked /\ size' = size + 1
         /\ UNCHANGED <<req, outcome>>
  BY Zenon DEF Answer
<1>t. /\ TypeOK /\ tokens \in Nat /\ cost \in Nat /\ size \in Nat /\ batch \in Seq(Signatures)
      /\ reason \in {"none", "tool_call_budget", "repetition_budget"}
  BY DEF LoopInv, TypeOK
<1>n. Numeric(u) /\ Numeric(more) /\ Numeric(whole)
  BY LoopAssumption, UsageNumeric, ContinuedNumeric, CombinedNumeric
<1> HIDE DEF whole
<1>3. spent \in Nat /\ paid \in Nat
  <2>1. Charge(whole) \in Nat /\ ChargedCost(c, whole) \in Nat
    BY <1>t, <1>n, ChargeType
  <2> HIDE DEF Charge, ChargedCost
  <2> QED BY <1>t, <2>1
<1> HIDE DEF spent, paid
<1>4. /\ why \in {"none", "timeout_budget", "token_budget", "cost_budget"}
      /\ why = "none" => ~late /\ ~(spent >= MaxTotalTokens) /\ ~(Costed /\ paid >= MaxCost)
  BY DEF Exhausted
<1> HIDE DEF why
<1>5. \/ \E o \in StopReasons \cup {"finished", "failed"} :
           /\ End(o) /\ size' = size
           /\ o = "finished" => why = "none" /\ reason = "none"
      \/ /\ pc' = "tools" /\ batch' = asked /\ size' = size + 1 /\ req' = req /\ outcome' = "none"
  <2>1. CASE why # "none" /\ Stopped(why, best \/ text) /\ UNCHANGED size
    <3>1. End(IF best \/ text THEN why ELSE "failed")
      BY <2>1 DEF Stopped
    <3>2. why \in StopReasons /\ why # "finished"
      BY <1>4, <2>1 DEF StopReasons
    <3> QED BY <2>1, <3>1, <3>2
  <2>2. CASE why = "none" /\ asked = <<>> /\ End(IF reason = "none" THEN "finished" ELSE reason)
             /\ UNCHANGED size
    <3>1. reason # "none" => reason \in StopReasons /\ reason # "finished"
      BY <1>t DEF StopReasons
    <3> QED BY <2>2, <3>1
  <2> QED BY <1>1, <1>2, <2>1, <2>2
<1> DEFINE Answered ==
             /\ pc' \in {"tools", "done"} /\ (outcome' # "none" <=> pc' = "done")
             /\ batch' \in Seq(Signatures) /\ size' \in Nat
             /\ req' \in [cap : 0 .. RequestMaxTokens, est : Nat, left : Nat, offered : SUBSET Granted]
             /\ outcome' \in StopReasons \cup {"none", "finished", "failed"}
             /\ outcome' = "finished" => why = "none" /\ reason = "none"
<1>6. Answered
  <2>1. ASSUME NEW o \in StopReasons \cup {"finished", "failed"}, End(o), size' = size,
               o = "finished" => why = "none" /\ reason = "none"
        PROVE  Answered
    BY <1>t, <2>1, EndType
  <2>2. CASE pc' = "tools" /\ batch' = asked /\ size' = size + 1 /\ req' = req /\ outcome' = "none"
    <3>1. asked \in Seq(Signatures)
      BY <1>t, BatchesTyped
    <3>2. req' \in [cap : 0 .. RequestMaxTokens, est : Nat, left : Nat, offered : SUBSET Granted]
      BY <1>t, <2>2 DEF TypeOK
    <3> QED BY <1>t, <2>2, <3>1, <3>2
  <2> QED BY <1>5, <2>1, <2>2
<1>7. TypeOK'
  <2>1. best' \in BOOLEAN /\ honest' \in BOOLEAN
    BY <1>1
  <2>2. tokens' \in Nat /\ cost' \in Nat
    BY <1>1, <1>3
  <2>3. extra' \in [tokens : Nat, cost : Nat]
    <3>1. /\ more.in \in Nat /\ more.out \in Nat
          /\ InputPrice[c] \in Nat /\ OutputPrice[c] \in Nat
      BY <1>n, Constants DEF Numeric
    <3>2. more.in + more.out \in Nat
          /\ more.in * InputPrice[c] + more.out * OutputPrice[c] \in Nat
      BY <3>1
    <3> QED BY <1>1, <3>2
  <2> QED BY <1>1, <1>6, <2>1, <2>2, <2>3 DEF LoopInv, TypeOK
<1>8. Phases'
  BY <1>1, <1>6 DEF Phases
<1>9. ToolInv'
  BY <1>1 DEF LoopInv, ToolInv, ToolBudgetKept
<1>10. FinishedHonest'
  <2> SUFFICES ASSUME outcome' = "finished" PROVE FinishedHonest'
    BY DEF FinishedHonest
  <2>1. why = "none" /\ reason = "none"
    BY <1>6
  <2>2. ~late' /\ tokens' < MaxTotalTokens /\ (Costed' => cost' < MaxCost)
    BY <1>1, <1>3, <1>4, <2>1, Constants DEF Costed
  <2>3. calls' <= MaxToolCalls /\ \A s \in Signatures : counts'[s] <= MaxRepeated
    BY <1>1, <2>1 DEF LoopInv, ToolInv
  <2> QED BY <2>2, <2>3 DEF FinishedHonest
<1>11. SpendingKept'
  <2> SUFFICES ASSUME honest'
               PROVE  /\ tokens' <= MaxTotalTokens + extra'.tokens
                      /\ Costed' => cost' <= MaxCost + extra'.cost
    BY DEF SpendingKept
  <2>1. ConformsContinued(u, more)
    BY <1>1
  <2>2. /\ tokens + Charge(whole) <= MaxTotalTokens + (more.in + more.out)
        /\ Costed => cost + ChargedCost(c, whole) <=
             MaxCost + (more.in * InputPrice[c] + more.out * OutputPrice[c])
    BY <1>1, <1>t, <1>n, <2>1, AnswerFits DEF whole
  <2>3. Costed' <=> Costed
    BY <1>1 DEF Costed
  <2>4. Costed => paid = cost + ChargedCost(c, whole)
    BY DEF Costed, paid
  <2>5. /\ extra'.tokens = more.in + more.out
        /\ extra'.cost = more.in * InputPrice[c] + more.out * OutputPrice[c]
    BY <1>1
  <2> QED BY <1>1, <2>2, <2>3, <2>4, <2>5 DEF spent
<1> QED BY <1>6, <1>7, <1>8, <1>9, <1>10, <1>11 DEF LoopInv

LEMMA CallKeeps ==
    ASSUME LoopInv, CallTool
    PROVE  LoopInv'
<1> DEFINE s == Head(batch)
<1>0. /\ TypeOK /\ batch \in Seq(Signatures) /\ batch # <<>> /\ pc = "tools" /\ outcome = "none"
      /\ UNCHANGED <<pc, policy, late, step, tokens, cost, best, req, outcome, honest, extra>>
      /\ calls' = calls + 1 /\ counts' = [counts EXCEPT ![s] = @ + 1]
      /\ reason' = Blocks(calls + 1, counts[s] + 1) /\ batch' = Tail(batch)
      /\ force' = (force \/ Blocks(calls + 1, counts[s] + 1) # "none")
  BY DEF CallTool, LoopInv, TypeOK, Phases
<1>1. s \in Signatures /\ batch' \in Seq(Signatures)
  <2> HIDE DEF Signatures
  <2> QED BY <1>0, HeadTailProperties
<1>2. \E here \in BOOLEAN : Counted(s, here) /\ (here => reason' = "none")
  <2>1. CASE reason' # "none"
    <3>1. ran' = ran /\ handled' = handled
      BY <1>0, <2>1 DEF CallTool
    <3>2. ran \in [Signatures -> Nat]
      BY <1>0 DEF TypeOK
    <3>3. Counted(s, FALSE)
      BY <1>1, <3>1, <3>2 DEF Counted
    <3> QED BY <3>3
  <2>2. CASE reason' = "none"
    <3>1. PICK result \in Results(s[1]) : Counted(s, Runs(result))
      BY <1>0, <2>2 DEF CallTool
    <3>2. Runs(result) \in BOOLEAN
      BY DEF Runs
    <3> QED BY <2>2, <3>1, <3>2
  <2> QED BY <2>1, <2>2
<1>3. size' \in Nat
  <2>1. size' = size + 1 \/ \E length \in 1 .. MaxObservation : size' = size + length
    BY DEF CallTool
  <2>2. size \in Nat /\ MaxObservation \in Nat
    BY <1>0, Constants DEF TypeOK
  <2> QED BY <2>1, <2>2
<1> HIDE DEF s
<1>4. /\ ToolInv' /\ ran' \in [Signatures -> Nat] /\ handled' \in Nat
      /\ calls' \in Nat /\ counts' \in [Signatures -> Nat]
      /\ reason' \in {"none", "tool_call_budget", "repetition_budget"}
  BY <1>0, <1>1, <1>2, CallKeepsBudget
<1>5. TypeOK'
  <2>1. force' \in BOOLEAN
    BY <1>0
  <2> QED BY <1>0, <1>1, <1>3, <1>4, <2>1 DEF TypeOK
<1>6. Phases' /\ FinishedHonest'
  BY <1>0 DEF LoopInv, Phases, FinishedHonest
<1>7. SpendingKept'
  BY <1>0 DEF LoopInv, SpendingKept, Costed
<1> QED BY <1>0, <1>4, <1>5, <1>6, <1>7 DEF LoopInv

LEMMA ObservationKeeps ==
    ASSUME LoopInv, ObservationFails
    PROVE  LoopInv'
<1> DEFINE s == Head(batch)
<1>0. /\ TypeOK /\ batch \in Seq(Signatures) /\ batch # <<>>
      /\ UNCHANGED <<policy, late, step, force, reason, tokens, cost, best, size, honest, extra>>
      /\ calls' = calls + 1 /\ counts' = [counts EXCEPT ![s] = @ + 1]
      /\ Blocks(calls + 1, counts[s] + 1) = "none" /\ Counted(s, TRUE) /\ End("failed")
  BY DEF ObservationFails, LoopInv, TypeOK
<1>1. s \in Signatures
  <2> HIDE DEF Signatures
  <2> QED BY <1>0, HeadTailProperties
<1> HIDE DEF s
<1>2. reason' = Blocks(calls + 1, counts[s] + 1)
  BY <1>0 DEF Blocks
<1>3. /\ ToolInv' /\ ran' \in [Signatures -> Nat] /\ handled' \in Nat
      /\ calls' \in Nat /\ counts' \in [Signatures -> Nat]
  BY <1>0, <1>1, <1>2, CallKeepsBudget
<1>4. /\ pc' = "done" /\ outcome' = "failed" /\ batch' \in Seq(Signatures)
      /\ req' \in [cap : 0 .. RequestMaxTokens, est : Nat, left : Nat, offered : SUBSET Granted]
  BY <1>0, EndType
<1>5. TypeOK'
  BY <1>0, <1>3, <1>4 DEF TypeOK
<1>6. Phases' /\ FinishedHonest'
  BY <1>4 DEF Phases, FinishedHonest
<1>7. SpendingKept'
  BY <1>0 DEF LoopInv, SpendingKept, Costed
<1> QED BY <1>3, <1>4, <1>5, <1>6, <1>7 DEF LoopInv

LEMMA InitLoop == Init => LoopInv
<1> SUFFICES ASSUME Init PROVE LoopInv
  OBVIOUS
<1>1. TypeOK
  <2>1. NoRequest \in [cap : 0 .. RequestMaxTokens, est : Nat, left : Nat, offered : SUBSET Granted]
    BY Constants DEF NoRequest
  <2>2. <<>> \in Seq(Signatures)
    OBVIOUS
  <2>3. /\ policy \in [limited : BOOLEAN, priced : BOOLEAN] /\ req = NoRequest /\ batch = <<>>
        /\ late \in BOOLEAN /\ force \in BOOLEAN /\ best \in BOOLEAN /\ honest \in BOOLEAN
        /\ pc = "start" /\ reason = "none" /\ outcome = "none"
    BY Zenon DEF Init
  <2>4. /\ step \in 0 .. MaxSteps /\ tokens \in Nat /\ cost \in Nat /\ calls \in Nat
        /\ size \in Nat /\ handled \in Nat /\ extra \in [tokens : Nat, cost : Nat]
    BY Constants DEF Init
  <2>5. counts \in [Signatures -> Nat] /\ ran \in [Signatures -> Nat]
    <3> HIDE DEF Signatures
    <3> QED BY DEF Init
  <2> HIDE DEF NoRequest, Signatures
  <2> QED BY <2>1, <2>2, <2>3, <2>4, <2>5 DEF TypeOK
<1>2. Phases /\ FinishedHonest /\ pc # "asking"
  BY DEF Init, Phases, FinishedHonest
<1>3. ToolInv
  BY Constants DEF Init, ToolInv, ToolBudgetKept
<1>4. SpendingKept
  BY Constants DEF Init, SpendingKept
<1> QED BY <1>1, <1>2, <1>3, <1>4 DEF LoopInv

LEMMA LoopInductive == LoopInv /\ [Next]_vars => LoopInv'
<1> SUFFICES ASSUME LoopInv, [Next]_vars PROVE LoopInv'
  OBVIOUS
<1>0. TypeOK /\ Phases /\ ToolInv /\ FinishedHonest /\ SpendingKept
  BY DEF LoopInv
<1>1. CASE Start
  <2>1. CASE End("failed")
    BY <1>1, <2>1, EndKeeps DEF Start
  <2>2. CASE pc' = "top" /\ UNCHANGED <<outcome, batch, req>>
    <3>1. pc = "start" /\ UNCHANGED <<policy, late, step, force, reason, tokens, cost, calls, counts,
                                      best, size, ran, handled, honest, extra>>
      BY <1>1 DEF Start, budgets
    <3>2. TypeOK'
      BY <1>0, <2>2, <3>1 DEF TypeOK
    <3> QED BY <1>0, <2>2, <3>1, <3>2 DEF LoopInv, Phases, ToolInv, ToolBudgetKept, FinishedHonest,
                                          SpendingKept, Costed
  <2> QED BY <1>1, <2>1, <2>2 DEF Start
<1>2. CASE StopBeforeRequest
  <2>1. Blocked \in StopReasons \cup {"none"}
    BY DEF Blocked, StopReasons
  <2>2. PICK o \in StopReasons \cup {"failed"} : End(o)
    BY <1>2, <2>1 DEF StopBeforeRequest, Stopped
  <2> QED BY <1>2, <2>2, EndKeeps DEF StopBeforeRequest
<1>3. CASE Ask
  <2>1. /\ pc = "top" /\ Blocked = "none" /\ pc' = "asking"
        /\ req' = [cap |-> Cap, est |-> Estimate, left |-> TokensLeft, offered |-> Offered]
        /\ UNCHANGED <<policy, late, step, force, reason, tokens, cost, calls, counts,
                       best, size, batch, outcome, ran, handled, honest, extra>>
    BY <1>3 DEF Ask, budgets
  <2>2. /\ step < MaxSteps
        /\ Offered \subseteq Granted
        /\ Estimate \in Nat /\ TokensLeft \in Nat
        /\ Cap \in 0 .. RequestMaxTokens
        /\ Estimate + Cap <= TokensLeft
        /\ Costed => \A c \in Candidates :
             Estimate * InputPrice[c] + Cap * OutputPrice[c] <= MaxCost - cost
    BY <1>0, <2>1, RequestIsBounded
  <2>3. TypeOK'
    <3>1. req' \in [cap : 0 .. RequestMaxTokens, est : Nat, left : Nat, offered : SUBSET Granted]
      BY <2>1, <2>2
    <3> QED BY <1>0, <2>1, <3>1 DEF TypeOK
  <2>4. RequestFits'
    <3>1. req'.left = TokensLeft /\ req'.est = Estimate /\ req'.cap = Cap
      BY <2>1
    <3>2. TokensLeft = MaxTotalTokens - tokens' /\ (Costed' <=> Costed) /\ cost' = cost
      BY <2>1 DEF TokensLeft, Costed
    <3> QED BY <2>2, <3>1, <3>2 DEF RequestFits
  <2>5. Phases' /\ ToolInv' /\ FinishedHonest' /\ SpendingKept'
    BY <1>0, <2>1, <2>2 DEF Phases, ToolInv, ToolBudgetKept, FinishedHonest, SpendingKept, Costed
  <2> QED BY <2>3, <2>4, <2>5 DEF LoopInv
<1>4. CASE AskFails
  BY <1>4, EndKeeps DEF AskFails
<1>5. ASSUME NEW c \in Candidates, NEW text \in BOOLEAN, NEW asked \in Batches,
             NEW u \in Usages(Reports), NEW more \in Continued, Answer(c, text, asked, u, more)
      PROVE  LoopInv'
  BY <1>5, AnswerKeeps
<1>6. CASE NextStep
  <2>1. /\ pc = "tools" /\ pc' = "top" /\ step' = step + 1 /\ req' = NoRequest /\ step < MaxSteps
        /\ force' = (force \/ step >= MaxSteps - 2)
        /\ UNCHANGED <<policy, late, reason, tokens, cost, calls, counts, best, size, batch, outcome,
                       ran, handled, honest, extra>>
    BY <1>0, <1>6 DEF NextStep, Phases
  <2>2. TypeOK'
    <3>1. NoRequest \in [cap : 0 .. RequestMaxTokens, est : Nat, left : Nat, offered : SUBSET Granted]
      BY Constants DEF NoRequest
    <3>2. step' \in 0 .. MaxSteps
      BY <1>0, <2>1, Constants DEF TypeOK
    <3>3. force' \in BOOLEAN
      BY <2>1, Zenon
    <3> HIDE DEF NoRequest
    <3> QED BY <1>0, <2>1, <3>1, <3>2, <3>3 DEF TypeOK
  <2> QED BY <1>0, <2>1, <2>2 DEF LoopInv, Phases, ToolInv, ToolBudgetKept, FinishedHonest,
                                  SpendingKept, Costed
<1>7. CASE Expire
  <2>1. /\ pc # "done" /\ late' = TRUE
        /\ UNCHANGED <<pc, policy, step, force, reason, tokens, cost, calls, counts, best, size, batch,
                       req, outcome, ran, handled, honest, extra>>
    BY <1>7 DEF Expire
  <2>2. TypeOK'
    BY <1>0, <2>1 DEF TypeOK
  <2>3. pc' = "asking" => RequestFits'
    BY <2>1 DEF LoopInv, RequestFits, Costed
  <2> QED BY <1>0, <2>1, <2>2, <2>3 DEF LoopInv, Phases, ToolInv, ToolBudgetKept, FinishedHonest,
                                        SpendingKept, Costed
<1>8. CASE UNCHANGED vars
  <2>1. UNCHANGED <<pc, policy, late, step, force, reason, tokens, cost, calls, counts, best, size,
                    batch, req, outcome, ran, handled, honest, extra>>
    BY <1>8 DEF vars, budgets
  <2>2. TypeOK'
    BY <1>0, <2>1 DEF TypeOK
  <2>3. pc' = "asking" => RequestFits'
    BY <2>1 DEF LoopInv, RequestFits, Costed
  <2> QED BY <1>0, <2>1, <2>2, <2>3 DEF LoopInv, Phases, ToolInv, ToolBudgetKept, FinishedHonest,
                                        SpendingKept, Costed
<1> QED BY <1>1, <1>2, <1>3, <1>4, <1>5, <1>6, <1>7, <1>8, CallKeeps, ObservationKeeps
        DEF Next, Advance

\* execute: a loop reported as finished met none of its limits, whenever the
\* deadline passed and whatever the providers answered and reported.
THEOREM FinishedMeansNoLimit == Spec => []FinishedHonest
<1>1. LoopInv => FinishedHonest
  BY DEF LoopInv
<1> QED BY <1>1, InitLoop, LoopInductive, PTL DEF Spec

\* The tool budgets hold for every handler that runs, inside a batch too.
THEOREM ToolsStayInBudget == Spec => []ToolBudgetKept
<1>1. LoopInv => ToolBudgetKept
  BY DEF LoopInv, ToolInv
<1> QED BY <1>1, InitLoop, LoopInductive, PTL DEF Spec

\* The bounds of _cost_bounded_output_tokens and of the token budget are enough
\* for every request of the loop, for any prices and any candidate that answers,
\* as long as the providers keep to their requests and report it: only the
\* continuations the gateway adds to one answer, the last, exceed the budgets.
THEOREM SpendingStaysInBudget == Spec => []SpendingKept
<1>1. LoopInv => SpendingKept
  BY DEF LoopInv
<1> QED BY <1>1, InitLoop, LoopInductive, PTL DEF Spec
====
