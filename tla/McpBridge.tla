---- MODULE McpBridge ----
(* The Codex MCP adapter: one JSON-RPC request at a time, each tool call a   *)
(* sequence of HTTP exchanges with the Harness under one deadline.  What the *)
(* adapter once verified about a run is its binding, kept in an LRU; later   *)
(* replies are held against it.  Runs go on, and history is purged, between  *)
(* two exchanges of a call; a reply may be lost, late or about something     *)
(* else (another Harness behind the port).                                   *)
EXTENDS Naturals, SequencesExt

CONSTANTS
    Runs, NoRun,
    Selections,        \* team selections; the plan hash freezes the selection
    MaxRunBindings,    \* MAX_RUN_BINDINGS
    Timeout,           \* timeout_seconds of the client
    MaxWrong           \* bound: replies that do not come from the Harness

ASSUME BridgeAssumption ==
    /\ NoRun \notin Runs /\ Selections # {}
    /\ {MaxRunBindings, Timeout} \subseteq Nat \ {0} /\ MaxWrong \in Nat

VARIABLES
    run,           \* run[r]: the Harness's record of r
    initialized,   \* the MCP handshake is over
    bindings,      \* _run_bindings, least recently used first
    call,          \* the tool call that is being served
    answer,        \* history: the last answer written
    wrong          \* history: wrong replies so far

vars == <<run, initialized, bindings, call, answer, wrong>>

Reads == {"run", "team", "detail", "quality", "artifact"}
\* "catalog" stands for the tools that only pass a reply on, "propose" for
\* harness_delegate_plan with start_run=false.
Tools == Reads \cup {"start", "delegate", "propose", "catalog"}

Absent == [state |-> "absent", plan |-> CHOOSE s \in Selections : TRUE]
NoCall == [tool |-> "none"]
NoAnswer == [kind |-> "none"]

Exists(r) == run[r].state \in {"active", "completed", "failed"}
Terminal(r) == run[r].state \in {"completed", "failed"}

----------------------------------------------------------------------------
(* The LRU of bindings                                                       *)

Bound(r) == \E i \in DOMAIN bindings : bindings[i].id = r
Position(r) == CHOOSE i \in DOMAIN bindings : bindings[i].id = r
Binding(r) == bindings[Position(r)]

Others(r) == IF Bound(r) THEN RemoveAt(bindings, Position(r)) ELSE bindings

\* _get_run_binding moves a hit to the end.
Touched(r) == IF Bound(r) THEN Append(Others(r), Binding(r)) ELSE bindings

\* _store_run_binding drops the least recently used entries above the limit.
Stored(b) ==
    LET all == Append(Others(b.id), b)
    IN  IF Len(all) > MaxRunBindings THEN Tail(all) ELSE all

----------------------------------------------------------------------------
(* Replies.  The response contract of an operation says which fields a reply *)
(* has; a reply outside it is refused.                                       *)

RunReply(r, v) == [id |-> r, plan |-> v.plan, state |-> v.state]
TeamReply(r, v) == [id |-> r, plan |-> v.plan, team |-> v.team]
DetailReply(r, v) == [id |-> r, plan |-> v.plan, state |-> v.state]
\* The criteria are the plan's; a run that is not completed does not pass.
QualityReply(r, v) == [id |-> r, plan |-> v.plan, passed |-> v.state = "completed"]
ArtifactReply(r, v) == [id |-> r]

Contract(kind, r, v) ==
    CASE kind \in {"create", "run"} -> RunReply(r, v)
      [] kind = "team"              -> TeamReply(r, v)
      [] kind = "detail"            -> DetailReply(r, v)
      [] kind = "quality"           -> QualityReply(r, v)
      [] kind = "artifact"          -> ArtifactReply(r, v)

HonestReply(kind, r) ==
    Contract(kind, r, [plan |-> run[r].plan, team |-> run[r].plan, state |-> run[r].state])

\* A reply about something else that keeps the contract.
WrongReplies(kind) ==
    {Contract(kind, r, v) :
        r \in Runs,
        v \in [plan : Selections, team : Selections, state : {"active", "completed"}]}

----------------------------------------------------------------------------
(* The requests of a call: a read of a run that is not bound starts by       *)
(* rebuilding its binding from run and team, and uses those replies.         *)

Rebuild == <<"run", "team">>
StartRequests == <<"create", "team">>
ProposeRequests == <<"catalog", "validate", "task">>
DelegateRequests == <<"catalog", "validate", "task", "create", "team">>
ArtifactRequests(bound) == IF bound THEN <<"run", "artifact">> ELSE <<"run", "team", "artifact">>

Requests(tool, bound) ==
    CASE tool = "catalog"  -> <<"catalog", "catalog", "catalog", "catalog">>
      [] tool = "start"    -> StartRequests
      [] tool = "propose"  -> ProposeRequests
      [] tool = "delegate" -> DelegateRequests
      [] tool = "run"      -> IF bound THEN <<"run">> ELSE Rebuild
      [] tool = "team"     -> IF bound THEN <<"team", "run">> ELSE Rebuild
      [] tool = "artifact" -> ArtifactRequests(bound)
      [] tool \in {"detail", "quality"} ->
            IF bound THEN <<tool, "run">> ELSE <<"run", "team", tool>>

----------------------------------------------------------------------------
(* The server's side                                                         *)

RunMoves(r) ==
    /\ run[r].state = "active"
    /\ \E s \in {"completed", "failed"} : run' = [run EXCEPT ![r].state = s]

\* POST of a run: the Harness resolves the team and freezes the plan with it.
Created(r) ==
    /\ run[r].state = "absent"
    /\ run' = [run EXCEPT ![r] = [state |-> "active", plan |-> call.want]]

Purge(r) ==
    /\ Terminal(r)
    /\ run' = [run EXCEPT ![r].state = "purged"]

Harness ==
    /\ \E r \in Runs :
        /\ RunMoves(r) \/ Purge(r)
        /\ call' = IF call.tool # "none" /\ call.id = r THEN [call EXCEPT !.moved = TRUE]
                   ELSE call
    /\ UNCHANGED <<initialized, bindings, answer, wrong>>

----------------------------------------------------------------------------
(* Serving                                                                   *)

Init ==
    /\ run = [r \in Runs |-> Absent]
    /\ initialized = FALSE /\ bindings = <<>>
    /\ call = NoCall /\ answer = NoAnswer /\ wrong = 0

Initialize ==
    /\ ~ initialized
    /\ initialized' = TRUE
    /\ UNCHANGED <<run, bindings, call, answer, wrong>>

\* A tool call before the handshake, an unknown tool or bad arguments.
Refuse ==
    /\ call.tool = "none"
    /\ answer' = [kind |-> "refused"]
    /\ UNCHANGED <<run, initialized, bindings, call, wrong>>

CallTool(tool, r, want) ==
    /\ initialized /\ call.tool = "none"
    /\ r \in Runs <=> tool \in Reads
    /\ call' = [tool |-> tool, id |-> r, want |-> want,
                todo |-> Requests(tool, Bound(r)), known |-> Bound(r),
                spent |-> 0, moved |-> FALSE,
                run |-> NoAnswer, doc |-> NoAnswer]
    /\ bindings' = Touched(r)
    /\ answer' = NoAnswer
    /\ UNCHANGED <<run, initialized, wrong>>

Reply(kind) == call' = NoCall /\ answer' = kind

Problem(kind) == [kind |-> kind, tool |-> call.tool, id |-> call.id, moved |-> call.moved]

Answered(c) ==
    [kind |-> "ok", tool |-> c.tool, id |-> c.id, want |-> c.want,
     plan |-> IF c.run.kind = "none" THEN c.want ELSE c.run.plan,
     team |-> IF c.doc.kind = "team" THEN c.doc.team ELSE c.want,
     passed |-> IF c.doc.kind = "quality" THEN c.doc.passed ELSE FALSE]

\* Mutant of Believed: a rebuilt binding takes the plan of either reply.
BelievedByReceipt(kind, reply) ==
    /\ kind = "create" => ~ Bound(reply.id)
    /\ kind \in Reads => reply.id = call.id
    /\ kind \in {"run", "team"} /\ call.known => reply.plan = Binding(call.id).plan
    /\ kind = "team" /\ call.known => reply.team = Binding(call.id).team
    /\ kind = "team" /\ call.tool \in {"start", "delegate"} => reply.team = call.want

\* _validate_known_run_response and _validate_known_team_response: against the
\* binding.
KnownRun(reply) == reply.plan = Binding(call.id).plan
KnownTeam(reply) == reply.plan = Binding(call.id).plan /\ reply.team = Binding(call.id).team

\* _validate_team_receipt_binding: the receipt is for the team that was asked for.
Requested(reply) == reply.team = call.want

\* What a reply is held against: the request, and the binding or, while that is
\* being rebuilt or made, the replies before it.
Believed(kind, reply) ==
    /\ kind = "create" => ~ Bound(reply.id)
    /\ kind \in Reads => reply.id = call.id
    /\ kind = "run" /\ call.known => KnownRun(reply)
    /\ kind = "team" => /\ IF call.known THEN KnownTeam(reply) ELSE reply.plan = call.run.plan
                        /\ call.tool \in {"start", "delegate"} => Requested(reply)
    /\ kind = "quality" => reply.plan = Binding(call.id).plan

\* The call after a reply that was believed.
Absorb(kind, reply) ==
    [call EXCEPT
        !.todo = Tail(call.todo),
        !.id = IF kind = "create" THEN reply.id ELSE call.id,
        !.known = call.known \/ kind = "team",
        !.run = IF kind \in {"create", "run"}
                THEN [kind |-> "run", plan |-> reply.plan, state |-> reply.state] ELSE call.run,
        !.doc = CASE kind = "detail"  -> [kind |-> "detail", plan |-> reply.plan, state |-> reply.state]
                  [] kind = "quality" -> [kind |-> "quality", passed |-> reply.passed]
                  [] kind = "team"    -> [kind |-> "team", team |-> reply.team]
                  [] OTHER            -> call.doc]

\* Mutant of Coherent: quality replies are not compared.
CoherentDetailOnly(c) ==
    c.doc.kind = "detail" => c.doc.plan = c.run.plan /\ c.doc.state = c.run.state

\* Mutant of Coherent: every quality report needs a completed run.
CoherentQualityOfCompleted(c) ==
    /\ c.doc.kind = "detail" => c.doc.plan = c.run.plan /\ c.doc.state = c.run.state
    /\ c.doc.kind = "quality" => c.run.state = "completed"

\* What two replies of one call must agree on.
Coherent(c) ==
    /\ c.doc.kind = "detail" => c.doc.plan = c.run.plan /\ c.doc.state = c.run.state
    /\ c.doc.kind = "quality" /\ c.doc.passed => c.run.state = "completed"

\* The artifact is only asked for when the run is completed.
Available(c) ==
    c.todo # <<>> /\ Head(c.todo) = "artifact" => c.run.state = "completed"

Continue(c) ==
    IF ~ Available(c) THEN Reply(Problem("unavailable"))
    ELSE IF c.todo # <<>> THEN call' = c /\ answer' = answer
    ELSE IF Coherent(c) THEN Reply(Answered(c))
    ELSE Reply(Problem("mismatch"))

\* The binding that a rebuilt or started run leaves.
BindingAfter(kind, reply) ==
    IF kind = "team" /\ ~ call.known
    THEN Stored([id |-> call.id, plan |-> call.run.plan, team |-> reply.team])
    ELSE bindings

Take(kind, reply, d) ==
    IF Believed(kind, reply)
    THEN /\ Continue([Absorb(kind, reply) EXCEPT !.spent = @ + d])
         /\ bindings' = BindingAfter(kind, reply)
    ELSE Reply(Problem("mismatch")) /\ UNCHANGED bindings

\* What is left of the deadline for the next exchange.
Remaining == Timeout - call.spent

\* An exchange that is answered in time, honestly or not.
Exchange(d) ==
    /\ call.tool # "none" /\ call.todo # <<>> /\ d < Remaining
    /\ LET kind == Head(call.todo)
       IN  \/ /\ kind = "create"
              /\ \E r \in Runs :
                   /\ Created(r)
                   /\ Take(kind, RunReply(r, [plan |-> call.want, state |-> "active"]), d)
              /\ UNCHANGED wrong
           \/ /\ kind \in Reads
              /\ IF Exists(call.id) THEN Take(kind, HonestReply(kind, call.id), d)
                 ELSE Reply(Problem("unreachable")) /\ UNCHANGED bindings
              /\ UNCHANGED <<run, wrong>>
           \/ /\ kind \in {"catalog", "validate", "task"}
              /\ Take(kind, NoAnswer, d)
              /\ UNCHANGED <<run, wrong>>
           \/ /\ kind \in Reads \cup {"create"} /\ wrong < MaxWrong
              /\ wrong' = wrong + 1
              /\ \E reply \in WrongReplies(kind) : Take(kind, reply, d)
              /\ UNCHANGED run
    /\ UNCHANGED initialized

\* The request may have taken effect although no answer could be used.
Effect ==
    \/ UNCHANGED run
    \/ Head(call.todo) = "create" /\ \E r \in Runs : Created(r)

\* The Harness cannot be reached, refuses, or the deadline passes.
ExchangeFails ==
    /\ call.tool # "none"
    /\ Effect
    /\ Reply(Problem("unreachable"))
    /\ UNCHANGED <<initialized, bindings, wrong>>

\* The reply breaks the contract of its operation.
OutOfContract ==
    /\ call.tool # "none"
    /\ Effect
    /\ Reply(Problem("contract"))
    /\ UNCHANGED <<initialized, bindings, wrong>>

Serve == (\E d \in 0 .. Timeout : Exchange(d)) \/ ExchangeFails \/ OutOfContract

Next ==
    \/ Harness \/ Initialize \/ Refuse \/ Serve
    \/ \E tool \in Tools, r \in Runs \cup {NoRun}, want \in Selections : CallTool(tool, r, want)

\* The client's timeout fires.
Spec == Init /\ [][Next]_vars /\ WF_vars(Serve)

----------------------------------------------------------------------------
(* Properties                                                                *)

TypeOK ==
    /\ \A r \in Runs : run[r].state \in {"absent", "active", "completed", "failed", "purged"}
                       /\ run[r].plan \in Selections
    /\ initialized \in BOOLEAN
    /\ bindings \in Seq([id : Runs, plan : Selections, team : Selections])
    /\ Len(bindings) <= MaxRunBindings
    /\ call.tool \in Tools \cup {"none"}
    /\ call.tool # "none" => call.spent \in Nat /\ call.todo # <<>>
    /\ wrong \in 0 .. MaxWrong

\* One wrong reply, at any point of any call, never makes the adapter bind a
\* plan the Harness did not freeze for that run; a team is bound wrongly only by
\* a wrong reply.  Evictions and rebuilds keep the LRU within its limit and
\* leave one binding for a run.
BindingsTrue ==
    /\ Len(bindings) <= MaxRunBindings
    /\ \A i, j \in DOMAIN bindings : bindings[i].id = bindings[j].id => i = j
    /\ wrong <= 1 =>
        \A i \in DOMAIN bindings :
            /\ bindings[i].plan = run[bindings[i].id].plan
            /\ wrong = 0 => bindings[i].team = run[bindings[i].id].plan

\* What the adapter answers about a run is true of the run, across evictions,
\* rebuilds, moves of the run between two exchanges and one wrong reply at any
\* point: the plan is the frozen one, a started run has the team that was asked
\* for, and "passed" is only said of a completed run.
AnswersTrue ==
    answer.kind = "ok" /\ answer.id \in Runs /\ wrong <= 1 =>
        /\ answer.tool \in {"run", "detail", "artifact"} => answer.plan = run[answer.id].plan
        /\ answer.tool \in {"start", "delegate"} => run[answer.id].plan = answer.want
        /\ answer.tool = "quality" /\ answer.passed =>
              run[answer.id].state \in {"completed", "purged"}

\* A correct Harness is only accused of a mismatch when the run moved between
\* the two exchanges of a detail or quality call.
MismatchExplained ==
    wrong = 0 /\ answer.kind = "mismatch" =>
        answer.moved /\ answer.tool \in {"detail", "quality"}
====
