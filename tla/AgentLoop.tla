---- MODULE AgentLoop ----
(* AgentLoopExecutor.execute: one agent loop of a step, with its step, tool, *)
(* repetition, token, cost and wall-clock budgets.  The model gateway and    *)
(* the tools are its environment; the deadline may pass at any moment.       *)
EXTENDS Integers, Sequences, ToolGateway

CONSTANTS
    Arguments,         \* a tool and its arguments make a call's signature
    Candidates,        \* route candidates of the request
    InputPrice, OutputPrice,       \* per candidate and token
    MaxSteps, MaxToolCalls, MaxTotalTokens, MaxRepeated, MaxCost,   \* the policy
    RequestMaxTokens,  \* max_tokens of the request
    PromptTokens, ToolTokens,      \* estimate of the prompt, of the tool schemas
    MaxObservation,    \* tokens of the longest observation, max_observation_chars
    Continuations,     \* max_continuations of the request
    Reports,           \* token counts a provider may report
    ContinuedReports,  \* token counts the continuations of an answer may add up to
    MaxBatch           \* bound: tool calls of one answer

ASSUME LoopAssumption ==
    /\ {MaxSteps, MaxTotalTokens, MaxRepeated, MaxCost, RequestMaxTokens, PromptTokens,
        MaxObservation} \subseteq Nat \ {0}
    /\ {MaxToolCalls, ToolTokens, Continuations, MaxBatch} \subseteq Nat
    /\ Reports \subseteq Nat /\ ContinuedReports \subseteq Nat
    /\ Candidates # {} /\ IsFiniteSet(Candidates)
    /\ InputPrice \in [Candidates -> Nat] /\ OutputPrice \in [Candidates -> Nat]

Signatures == Tools \X Arguments

VARIABLES
    pc,        \* "start", "top", "asking", "tools" or "done"
    policy,    \* max_cost_usd is set; every candidate has a price
    late,      \* the deadline has passed
    step,      \* loop_index
    force,     \* force_final
    reason,    \* forced_stop_reason
    tokens,    \* total_tokens
    cost,      \* estimated_cost
    calls,     \* tool_call_count
    counts,    \* signature_counts
    best,      \* best_text is not empty
    size,      \* estimate of the messages added so far
    batch,     \* tool calls of the answer that are left
    req,       \* current_request
    outcome,   \* stop_reason, or "failed"
    ran,       \* history: how often a signature's handler ran
    handled,   \* history: how often any handler ran
    honest,    \* history: every request was kept to, and every usage reported
    extra      \* history: what the continuations of the last answer used

budgets == <<late, step, force, reason, tokens, cost, calls, counts>>
vars == <<pc, policy, budgets, best, size, batch, req, outcome, ran, handled, honest, extra>>

StopReasons == {"timeout_budget", "token_budget", "cost_budget", "tool_call_budget",
                "repetition_budget", "step_budget"}

Lesser(a, b) == IF a < b THEN a ELSE b
Greater(a, b) == IF a < b THEN b ELSE a
Largest(S) == CHOOSE n \in S : \A k \in S : k <= n

NoRequest == [cap |-> 0, est |-> 0, left |-> 0, offered |-> {}]

TypeOK ==
    /\ pc \in {"start", "top", "asking", "tools", "done"}
    /\ policy \in [limited : BOOLEAN, priced : BOOLEAN]
    /\ late \in BOOLEAN /\ force \in BOOLEAN /\ best \in BOOLEAN /\ honest \in BOOLEAN
    /\ step \in 0 .. MaxSteps
    /\ reason \in {"none", "tool_call_budget", "repetition_budget"}
    /\ tokens \in Nat /\ cost \in Nat /\ calls \in Nat /\ size \in Nat /\ handled \in Nat
    /\ counts \in [Signatures -> Nat] /\ ran \in [Signatures -> Nat]
    /\ batch \in Seq(Signatures)
    /\ req \in [cap : 0 .. RequestMaxTokens, est : Nat, left : Nat, offered : SUBSET Granted]
    /\ outcome \in StopReasons \cup {"none", "finished", "failed"}
    /\ extra \in [tokens : Nat, cost : Nat]

Init ==
    /\ pc = "start"
    /\ policy \in [limited : BOOLEAN, priced : BOOLEAN]
    /\ late = FALSE /\ step = 0 /\ force = FALSE /\ reason = "none"
    /\ tokens = 0 /\ cost = 0 /\ calls = 0 /\ size = 0 /\ handled = 0
    /\ counts = [s \in Signatures |-> 0] /\ ran = [s \in Signatures |-> 0]
    /\ best = FALSE /\ batch = <<>> /\ req = NoRequest
    /\ outcome = "none" /\ honest = TRUE /\ extra = [tokens |-> 0, cost |-> 0]

----------------------------------------------------------------------------
(* Estimates and charges                                                     *)

\* Mutant of CostBounded: any candidate's rates instead of the highest.
CostBoundedByOne(cap, left, est) ==
    LET c == CHOOSE c \in Candidates : \A d \in Candidates : OutputPrice[c] <= OutputPrice[d]
        forOutput == left - InputPrice[c] * est
    IN  IF forOutput <= 0 THEN 0
        ELSE IF OutputPrice[c] = 0 THEN cap
        ELSE Lesser(cap, forOutput \div OutputPrice[c])

\* _cost_bounded_output_tokens: the highest rates of all candidates.
CostBounded(cap, left, est) ==
    LET forOutput == left - Largest({InputPrice[c] : c \in Candidates}) * est
        price == Largest({OutputPrice[c] : c \in Candidates})
    IN  IF forOutput <= 0 THEN 0
        ELSE IF price = 0 THEN cap
        ELSE Lesser(cap, forOutput \div price)

\* A reply's usage, whatever the request allowed: the tokens in and out or
\* neither, with a total of its own or (0) without.
Usages(reported) ==
    [kind : {"split"}, in : reported, out : reported, total : {0} \cup reported]
        \cup [kind : {"total"}, in : {0}, out : {0}, total : {0} \cup reported]

\* The usage of an answer's continuations, added up, if there were any: the
\* gateway sends each of them with the max_tokens of the request.
Alone == [kind |-> "none", in |-> 0, out |-> 0, total |-> 0]
Continued == IF Continuations = 0 THEN {Alone} ELSE {Alone} \cup Usages(ContinuedReports)

Unknown == [kind |-> "total", in |-> 0, out |-> 0, total |-> 0]
Itemised(u) == u.kind = "split" /\ u.total > 0

\* _sum_model_usage: a reply without one of the three counts hides them all.
Combined(u, more) ==
    IF more = Alone THEN u
    ELSE IF Itemised(u) /\ Itemised(more)
    THEN [kind |-> "split", in |-> u.in + more.in, out |-> u.out + more.out,
          total |-> u.total + more.total]
    ELSE Unknown

\* _response_tokens: usage that is not known takes all that is left.
Charge(u) ==
    IF u.total > 0 \/ u.in + u.out > 0 THEN Greater(u.total, u.in + u.out) ELSE req.left

\* _response_cost: tokens of unknown kind at the higher rate of the route.
ChargedCost(c, u) ==
    u.in * InputPrice[c] + u.out * OutputPrice[c]
        + (Charge(u) - (u.in + u.out)) * Greater(InputPrice[c], OutputPrice[c])

\* The provider kept to the request and said what it used.  Continuations are
\* requests of the gateway's own, which the loop does not bound.
Conforms(u) ==
    /\ u.kind = "split" /\ u.in + u.out > 0 /\ u.total <= u.in + u.out
    /\ u.in <= req.est /\ u.out <= req.cap

ConformsContinued(u, more) ==
    /\ Conforms(u)
    /\ more # Alone => Itemised(u) /\ Itemised(more) /\ more.total <= more.in + more.out

----------------------------------------------------------------------------
(* The loop                                                                  *)

Costed == policy.limited /\ policy.priced

End(o) == pc' = "done" /\ outcome' = o /\ batch' = <<>> /\ req' = NoRequest

\* _stopped: without a usable text the step fails.
Stopped(why, text) == End(IF text THEN why ELSE "failed")

Start ==
    /\ pc = "start"
    /\ IF Granted = {} \/ ~ SpecsAvailable \/ (policy.limited /\ ~ policy.priced)
       THEN End("failed")
       ELSE pc' = "top" /\ UNCHANGED <<outcome, batch, req>>
    /\ UNCHANGED <<policy, budgets, best, size, ran, handled, honest, extra>>

\* The next request, before the cost bound is applied.
Offered == IF ~ force /\ step < MaxSteps - 1 THEN Granted ELSE {}
Estimate == PromptTokens + size + IF Offered = {} THEN 0 ELSE ToolTokens
TokensLeft == MaxTotalTokens - tokens
TokenCap == Lesser(RequestMaxTokens, TokensLeft - Estimate)
Cap == IF Costed
       THEN CostBounded(TokenCap, Greater(0, MaxCost - cost), Estimate)
       ELSE TokenCap

\* The checks before a request, in their order.
Blocked ==
    CASE step = MaxSteps          -> "step_budget"
      [] step < MaxSteps /\ late  -> "timeout_budget"
      [] step < MaxSteps /\ ~ late /\ TokensLeft <= Estimate          -> "token_budget"
      [] step < MaxSteps /\ ~ late /\ TokensLeft > Estimate /\ Cap <= 0 -> "cost_budget"
      [] OTHER -> "none"

StopBeforeRequest ==
    /\ pc = "top" /\ Blocked # "none"
    /\ Stopped(Blocked, best)
    /\ UNCHANGED <<policy, budgets, best, size, ran, handled, honest, extra>>

Ask ==
    /\ pc = "top" /\ Blocked = "none"
    /\ pc' = "asking"
    /\ req' = [cap |-> Cap, est |-> Estimate, left |-> TokensLeft, offered |-> Offered]
    /\ UNCHANGED <<policy, budgets, best, size, batch, outcome, ran, handled, honest, extra>>

\* The request cannot be recorded, or the gateway raises.
AskFails ==
    /\ pc = "asking"
    /\ End("failed")
    /\ UNCHANGED <<policy, budgets, best, size, ran, handled, honest, extra>>

\* The gateway returns text, or calls of tools that were offered, or both.
Batches == UNION {[1 .. n -> req.offered \X Arguments] : n \in 0 .. MaxBatch}

\* Mutant of Exhausted: the deadline is not read again after the answer.
ExhaustedUntimed(spent, paid) ==
    IF spent >= MaxTotalTokens THEN "token_budget"
    ELSE IF Costed /\ paid >= MaxCost THEN "cost_budget"
    ELSE "none"

\* The checks after an answer, in their order.
Exhausted(spent, paid) ==
    IF late THEN "timeout_budget"
    ELSE IF spent >= MaxTotalTokens THEN "token_budget"
    ELSE IF Costed /\ paid >= MaxCost THEN "cost_budget"
    ELSE "none"

\* Only a reply with text is continued.
Answer(c, text, asked, u, more) ==
    /\ pc = "asking"
    /\ text \/ asked # <<>>
    /\ more # Alone => text
    /\ LET whole == Combined(u, more)
           spent == tokens + Charge(whole)
           paid == IF policy.priced THEN cost + ChargedCost(c, whole) ELSE cost
           why == Exhausted(spent, paid)
       IN  /\ tokens' = spent /\ cost' = paid
           /\ best' = (best \/ text)
           /\ honest' = (honest /\ ConformsContinued(u, more))
           /\ extra' = [tokens |-> more.in + more.out,
                         cost |-> more.in * InputPrice[c] + more.out * OutputPrice[c]]
           /\ \/ why # "none" /\ Stopped(why, best \/ text) /\ UNCHANGED size
              \/ why = "none" /\ asked = <<>>
                 /\ End(IF reason = "none" THEN "finished" ELSE reason)
                 /\ UNCHANGED size
              \/ why = "none" /\ asked # <<>>
                 /\ pc' = "tools" /\ batch' = asked /\ size' = size + 1
                 /\ UNCHANGED <<req, outcome>>
    /\ UNCHANGED <<policy, late, step, force, reason, calls, counts, ran, handled>>

\* One call of the batch.  The budgets are checked in order; a call they block
\* is answered with an error like the calls behind it, and the next request
\* offers no tools.
Blocks(n, seen) ==
    IF reason # "none" THEN reason
    ELSE IF n > MaxToolCalls THEN "tool_call_budget"
    ELSE IF seen > MaxRepeated THEN "repetition_budget"
    ELSE "none"

\* The handler of a call with signature s ran, or it did not.
Counted(s, here) ==
    /\ ran' = [ran EXCEPT ![s] = IF here THEN @ + 1 ELSE @]
    /\ handled' = IF here THEN handled + 1 ELSE handled

\* Mutant of CallTool: the handler runs before the budgets are looked at.
CallToolFirst ==
    /\ pc = "tools" /\ batch # <<>>
    /\ LET s == Head(batch)
           why == Blocks(calls + 1, counts[s] + 1)
       IN  /\ calls' = calls + 1 /\ counts' = [counts EXCEPT ![s] = @ + 1]
           /\ reason' = why /\ force' = (force \/ why # "none")
           /\ \E result \in Results(s[1]), length \in 1 .. MaxObservation :
                /\ Counted(s, Runs(result) /\ reason = "none")
                /\ size' = size + length
    /\ batch' = Tail(batch)
    /\ UNCHANGED <<pc, policy, late, step, tokens, cost, best, req, outcome, honest, extra>>

CallTool ==
    /\ pc = "tools" /\ batch # <<>>
    /\ LET s == Head(batch)
           why == Blocks(calls + 1, counts[s] + 1)
       IN  /\ calls' = calls + 1 /\ counts' = [counts EXCEPT ![s] = @ + 1]
           /\ reason' = why /\ force' = (force \/ why # "none")
           /\ \/ why # "none" /\ UNCHANGED <<ran, handled>> /\ size' = size + 1
              \/ /\ why = "none"
                 /\ \E result \in Results(s[1]), length \in 1 .. MaxObservation :
                      /\ Counted(s, Runs(result))
                      /\ size' = size + length
    /\ batch' = Tail(batch)
    /\ UNCHANGED <<pc, policy, late, step, tokens, cost, best, req, outcome, honest, extra>>

\* A tool returned what JSON cannot hold.
ObservationFails ==
    /\ pc = "tools" /\ batch # <<>>
    /\ Blocks(calls + 1, counts[Head(batch)] + 1) = "none"
    /\ Permitted(Head(batch)[1])
    /\ Counted(Head(batch), TRUE)
    /\ calls' = calls + 1
    /\ counts' = [counts EXCEPT ![Head(batch)] = @ + 1]
    /\ End("failed")
    /\ UNCHANGED <<policy, late, step, force, reason, tokens, cost, best, size, honest, extra>>

NextStep ==
    /\ pc = "tools" /\ batch = <<>>
    /\ pc' = "top"
    /\ step' = step + 1
    /\ force' = (force \/ step >= MaxSteps - 2)
    /\ req' = NoRequest
    /\ UNCHANGED <<policy, late, reason, tokens, cost, calls, counts, best, size, batch, outcome,
                   ran, handled, honest, extra>>

Expire ==
    /\ pc \in {"top", "asking", "tools"} /\ ~ late
    /\ late' = TRUE
    /\ UNCHANGED <<pc, policy, step, force, reason, tokens, cost, calls, counts, best, size, batch,
                   req, outcome, ran, handled, honest, extra>>

Advance ==
    \/ Start \/ StopBeforeRequest \/ Ask \/ AskFails
    \/ \E c \in Candidates, text \in BOOLEAN, asked \in Batches, u \in Usages(Reports),
          more \in Continued : Answer(c, text, asked, u, more)
    \/ CallTool \/ ObservationFails \/ NextStep

Next == Advance \/ Expire

\* The gateway returns or raises (ModelGateway!CallEnds), tools return.
Spec == Init /\ [][Next]_vars /\ WF_vars(Advance)

----------------------------------------------------------------------------
(* Properties                                                                *)

\* backend/README.md: "later text cannot relabel the loop as `finished`".  A
\* finished loop never met a limit, whatever the order in which the deadline,
\* the answers' usage and the refusals inside a batch came.
FinishedHonest ==
    outcome = "finished" =>
        /\ ~ late
        /\ tokens < MaxTotalTokens
        /\ Costed => cost < MaxCost
        /\ calls <= MaxToolCalls
        /\ \A s \in Signatures : counts[s] <= MaxRepeated

\* Handlers never run more often than the policy allows, also when several
\* limits are met inside one batch.
ToolBudgetKept ==
    /\ handled <= MaxToolCalls
    /\ \A s \in Signatures : ran[s] <= MaxRepeated

\* As long as providers keep to the caps they are given and report it, only the
\* continuations of one answer, the last, take the loop over its token and cost
\* budgets, whichever candidate answered.  The loop's own requests fit what is
\* left (the pre-dispatch bounds are enough), and what the gateway's
\* continuations used is taken off before the next request.
SpendingKept ==
    honest => /\ tokens <= MaxTotalTokens + extra.tokens
              /\ Costed => cost <= MaxCost + extra.cost
====
