---- MODULE ExecutionPlans ----
(* Execution plans: how a Pack or a submitted DAG of steps is validated and   *)
(* frozen with its team when a run is created, and how the runner rebuilds    *)
(* its Pack from the frozen plan after the current Pack has changed.  The     *)
(* graph algorithms are those of the code and are compared with reference     *)
(* definitions on every draft.                                                *)
EXTENDS Naturals, SequencesExt, Relation

CONSTANTS
    StepNames,     \* the step ids, in the order in which steps are listed
    NoStep,
    Shapes,        \* steps without their name
    Packs,         \* the Packs a server may be started with
    Selections,    \* team selections: slot -> route
    PlanEvals,     \* sets of eval checks that a submitted plan may bring
    Types          \* artifact types

NoManifest == <<>>

\* An agent without a resolved team, and a Pack of such agents.
PlainAgent(x) ==
    /\ x = [tools |-> x.tools, prompt |-> x.prompt, route |-> x.route, manifest |-> x.manifest,
            skills |-> x.skills]
    /\ x.manifest = NoManifest

PackShape(p) ==
    /\ p = [agents |-> p.agents, steps |-> p.steps, evals |-> p.evals, final |-> p.final,
            parallel |-> p.parallel, dynamic |-> p.dynamic]
    /\ p.agents = [r \in DOMAIN p.agents |-> p.agents[r]]
    /\ \A r \in DOMAIN p.agents : PlainAgent(p.agents[r])

ASSUME PlansAssumption ==
    /\ NoStep \notin Range(StepNames)
    /\ \A p \in Packs : PackShape(p) /\ p.parallel \in Nat \ {0}
    /\ \A sel \in Selections : sel = [r \in DOMAIN sel |-> sel[r]]

VARIABLES
    pack,      \* the Pack the server runs with
    draft,     \* the steps of a Pack or plan that is being written
    run,       \* the stored run: frozen plan and the receipt that was returned
    loaded     \* history: the Pack the runner first rebuilt from the plan

vars == <<pack, draft, run, loaded>>

NoRun == [plan |-> "none"]
NoPack == [steps |-> <<>>]

Names(steps) == {steps[i].name : i \in DOMAIN steps}
Step(steps, n) == steps[CHOOSE i \in DOMAIN steps : steps[i].name = n]
RolesOf(steps) == {steps[i].role : i \in DOMAIN steps}

----------------------------------------------------------------------------
(* Dependency cycles: depth first, with the nodes of the current path        *)

SearchState(steps) ==
    [visited : SUBSET Names(steps), path : Seq(Names(steps)), cycle : Seq(Names(steps))]

\* Mutant of Visit: a node is not taken off the path.
VisitKeepsPath(steps) ==
    LET visit[n \in Names(steps), st \in SearchState(steps)] ==
            IF st.cycle # <<>> \/ n \in st.visited THEN st
            ELSE IF n \in Range(st.path)
            THEN [st EXCEPT !.cycle = Append(st.path, n)]
            ELSE FoldSet(LAMBDA d, s : visit[d, s],
                         [st EXCEPT !.path = Append(@, n)], Step(steps, n).deps)
    IN  visit

\* visit: the search below a step, from and to a state of the search.
Visit(steps) ==
    LET visit[n \in Names(steps), st \in SearchState(steps)] ==
            IF st.cycle # <<>> \/ n \in st.visited THEN st
            ELSE IF n \in Range(st.path)
            THEN [st EXCEPT !.cycle = SubSeq(st.path, CHOOSE i \in DOMAIN st.path : st.path[i] = n,
                                             Len(st.path)) \o <<n>>]
            ELSE LET inner == FoldSet(LAMBDA d, s : visit[d, s],
                                      [st EXCEPT !.path = Append(@, n)], Step(steps, n).deps)
                 IN  IF inner.cycle # <<>> THEN inner
                     ELSE [inner EXCEPT !.path = Front(@), !.visited = @ \cup {n}]
    IN  visit

DependencyCycle(steps) ==
    FoldLeft(LAMBDA st, s : Visit(steps)[s.name, st],
             [visited |-> {}, path |-> <<>>, cycle |-> <<>>], steps).cycle

----------------------------------------------------------------------------
(* What is upstream of a step: the Pack's worklist and the plan's recursion  *)

Worklist(steps) ==
    LET search[pending \in SUBSET Names(steps), upstream \in SUBSET Names(steps)] ==
            IF pending = {} THEN upstream
            ELSE LET d == CHOOSE d \in pending : TRUE
                     rest == pending \ {d}
                 IN  IF d \in upstream THEN search[rest, upstream]
                     ELSE search[rest \cup Step(steps, d).deps, upstream \cup {d}]
    IN  search

UpstreamSteps(steps, n) == Worklist(steps)[Step(steps, n).deps, {}]

UpstreamOf(steps) ==
    LET upstream[n \in Names(steps)] ==
            LET deps == Step(steps, n).deps IN deps \cup UNION {upstream[d] : d \in deps}
    IN  upstream

----------------------------------------------------------------------------
(* The order of execution                                                    *)

\* Mutant of Waves: a wave also takes what its own steps make ready.
WavesEager(steps) ==
    LET waves[remaining \in Seq(Range(steps)), completed \in SUBSET Names(steps)] ==
            LET free == SelectSeq(remaining, LAMBDA s : s.deps \subseteq completed)
                ready == SelectSeq(remaining, LAMBDA s : s.deps \subseteq completed \cup Names(free))
            IN  IF ready = <<>> THEN <<>>
                ELSE <<ready>> \o waves[SelectSeq(remaining, LAMBDA s : s \notin Range(ready)),
                                        completed \cup Names(ready)]
    IN  waves[steps, {}]

\* A wave is every remaining step whose dependencies are completed; no wave is
\* left when the dependencies cannot be resolved.
Waves(steps) ==
    LET waves[remaining \in Seq(Range(steps)), completed \in SUBSET Names(steps)] ==
            LET ready == SelectSeq(remaining, LAMBDA s : s.deps \subseteq completed)
            IN  IF ready = <<>> THEN <<>>
                ELSE <<ready>> \o waves[SelectSeq(remaining, LAMBDA s : s \notin Range(ready)),
                                        completed \cup Names(ready)]
    IN  waves[steps, {}]

OrderedSteps(steps) == FlattenSeq(Waves(steps))

\* A Pack without any dependency runs in its listed order, one at a time.
ReadyBatches(steps) ==
    IF \A i \in DOMAIN steps : steps[i].deps = {}
    THEN [i \in DOMAIN steps |-> <<steps[i]>>]
    ELSE Waves(steps)

\* _last_ordered_plan_step_name: where quality looks for the Pack's evals.
PackEvalStep(plan) == Last(OrderedSteps(plan.steps)).name

----------------------------------------------------------------------------
(* Packs and plans                                                           *)

Controlled(steps) ==
    \A i \in DOMAIN steps :
        steps[i].controller # NoStep =>
            /\ steps[i].controller \in Names(steps)
            /\ steps[i].controller \in UpstreamSteps(steps, steps[i].name)

\* Some step of a Pack produces its final artifact type (a plan needs a sink that does).
FinalProduced(p) == \E i \in DOMAIN p.steps : p.steps[i].produces = p.final

\* WorkflowPack.validate_pack.  Its checks of handoff limits, subagents without a
\* controller, resume strategies, agent loops and names of required evaluations
\* are left out: they relate fields that no property depends on.
PackValid(p) ==
    /\ p.steps # <<>> /\ RolesOf(p.steps) \subseteq DOMAIN p.agents
    /\ \A i \in DOMAIN p.steps : p.steps[i].deps \subseteq Names(p.steps) \ {p.steps[i].name}
    /\ Controlled(p.steps)
    /\ DependencyCycle(p.steps) = <<>>
    /\ FinalProduced(p)

\* ExecutionPlan.validate_plan
PlanValid(plan) ==
    /\ plan.steps # <<>>
    /\ \A i \in DOMAIN plan.steps :
        LET s == plan.steps[i]
        IN  /\ s.deps \subseteq Names(plan.steps) \ {s.name}
            /\ s.controller \in Names(plan.steps) \cup {NoStep}
            /\ plan.source # "workflow_pack" => s.runtime = "model" /\ s.criteria
    /\ \A c, d \in plan.evals : c.name = d.name => c = d
    /\ DependencyCycle(plan.steps) = <<>>
    /\ \E i \in DOMAIN plan.steps :
        /\ \A j \in DOMAIN plan.steps : plan.steps[i].name \notin plan.steps[j].deps
        /\ plan.steps[i].produces = plan.final

WithCriteria(steps) == [i \in DOMAIN steps |-> [steps[i] EXCEPT !.criteria = TRUE]]

ExecutionPlanFromPack(p) ==
    [source |-> "workflow_pack", steps |-> WithCriteria(p.steps), evals |-> p.evals,
     final |-> p.final, parallel |-> p.parallel]

Available(steps, n) == {Step(steps, d).produces : d \in UpstreamOf(steps)[n]}

\* _validate_dynamic_plan_dataflow
DataflowValid(plan) ==
    \A i \in DOMAIN plan.steps :
        plan.steps[i].needs \subseteq Available(plan.steps, plan.steps[i].name)

\* The Pack's blocker evals that apply to what a plan produces.
Gates(plan, p) ==
    {c \in p.evals : c.blocker /\ c.types # {}
                     /\ c.types \subseteq {plan.steps[i].produces : i \in DOMAIN plan.steps}}

GatesWeakened(plan, p) ==
    \E g \in Gates(plan, p), c \in plan.evals : c.name = g.name /\ c # g

\* Mutant of RestoreGates: nothing is restored.
KeepOwnEvals(plan, p) == plan

\* _preserve_dynamic_pack_blocker_evals
RestoreGates(plan, p) ==
    IF plan.source = "workflow_pack" THEN plan
    ELSE [plan EXCEPT !.evals = @ \cup Gates(plan, p)]

Uses(steps, r) == Cardinality({i \in DOMAIN steps : steps[i].role = r})

\* _validate_dynamic_role_usage
RolesAvailable(plan, p) == \A r \in RolesOf(plan.steps) : Uses(plan.steps, r) <= Uses(p.steps, r)

ToolsAllowed(steps, agents) ==
    \A i \in DOMAIN steps : /\ steps[i].role \in DOMAIN agents
                            /\ steps[i].tools \subseteq agents[steps[i].role].tools

\* Mutant of ValidAgainst: the Pack's limit holds for frozen plans too.
ValidAgainstLimits(plan, p, frozen) ==
    /\ frozen => plan.agents # <<>>
    /\ plan.source = "workflow_pack" /\ ~ frozen => plan = ExecutionPlanFromPack(p)
    /\ ToolsAllowed(plan.steps, IF frozen THEN plan.agents ELSE p.agents)
    /\ plan.source # "workflow_pack" =>
        /\ ~ frozen => p.dynamic /\ ~ GatesWeakened(plan, p) /\ RolesAvailable(plan, p)
        /\ DataflowValid(plan)
    /\ plan.parallel <= p.parallel

\* validate_execution_plan_against_pack: a new plan is held against the Pack, a
\* frozen one against its own agent snapshots, which it must have.
ValidAgainst(plan, p, frozen) ==
    /\ frozen => plan.agents # <<>>
    /\ plan.source = "workflow_pack" /\ ~ frozen => plan = ExecutionPlanFromPack(p)
    /\ ToolsAllowed(plan.steps, IF frozen THEN plan.agents ELSE p.agents)
    /\ plan.source # "workflow_pack" =>
        /\ ~ frozen => p.dynamic /\ ~ GatesWeakened(plan, p) /\ RolesAvailable(plan, p)
        /\ DataflowValid(plan)
    /\ ~ frozen => plan.parallel <= p.parallel

----------------------------------------------------------------------------
(* Teams.  A route stands for an agent's model settings, and the manifest,   *)
(* the hash of every slot's settings, for what it hashes.                    *)

Refused == <<"refused">>

Resolvable(p, sel) == DOMAIN sel = DOMAIN p.agents

ResolveTeam(p, sel) ==
    [p EXCEPT !.agents = [r \in DOMAIN p.agents |->
        [p.agents[r] EXCEPT !.route = sel[r], !.manifest = sel]]]

HasCompleteTeam(agents) == \A r \in DOMAIN agents : agents[r].manifest # NoManifest

\* Mutant of AgentSnapshots: only the roles that steps use.
SnapshotsOfSteps(plan, p) == Restrict(p.agents, RolesOf(plan.steps))

\* _agent_snapshots_for_plan
AgentSnapshots(plan, p) ==
    Restrict(p.agents, IF HasCompleteTeam(p.agents) THEN DOMAIN p.agents ELSE RolesOf(plan.steps))

\* team_selection_receipt_from_plan
ReceiptFromPlan(plan) ==
    LET marked == {r \in DOMAIN plan.agents : plan.agents[r].manifest # NoManifest}
        routes == [r \in DOMAIN plan.agents |-> plan.agents[r].route]
    IN  IF marked = {} THEN NoManifest
        ELSE IF marked = DOMAIN plan.agents
                /\ \A r \in marked : plan.agents[r].manifest = routes THEN routes
        ELSE Refused

\* Task skills are written into the prompts of the agents that take part.
WithTaskSkills(p, plan) ==
    [p EXCEPT !.agents = [r \in DOMAIN p.agents |->
        IF r \in RolesOf(plan.steps) THEN [p.agents[r] EXCEPT !.skills = TRUE] ELSE p.agents[r]]]

\* freeze_execution_plan: the plan with the restored gates is validated again.
Freezable(plan, p) ==
    PlanValid(plan) /\ ValidAgainst(plan, p, FALSE) /\ PlanValid(RestoreGates(plan, p))

Freeze(plan, p) ==
    LET kept == RestoreGates(plan, p)
    IN  [source |-> kept.source, steps |-> kept.steps, evals |-> kept.evals, final |-> kept.final,
         parallel |-> kept.parallel, agents |-> AgentSnapshots(kept, p)]

----------------------------------------------------------------------------
(* The conservative plan that stands in for a mock planner's                 *)

ConservativeMockPlan(p) ==
    LET steps == [i \in DOMAIN p.steps |->
            [p.steps[i] EXCEPT !.runtime = "model", !.criteria = TRUE,
                               !.deps = IF @ = {} /\ i > 1 THEN {p.steps[i - 1].name} ELSE @]]
    IN  [source |-> "planner", steps |-> steps, evals |-> p.evals,
         final |-> p.final, parallel |-> p.parallel]

----------------------------------------------------------------------------
(* What the runner rebuilds                                                  *)

\* workflow_pack_from_execution_plan.  (Whether dynamic plans are allowed comes
\* from the current Pack; the runner does not look at it.)
PackFromPlan(plan, p) ==
    [agents |-> IF plan.agents # <<>> THEN plan.agents ELSE p.agents, steps |-> plan.steps,
     evals |-> plan.evals, final |-> plan.final, parallel |-> plan.parallel]

Loadable(plan, p) == ValidAgainst(plan, p, TRUE) /\ PackValid(PackFromPlan(plan, p))

----------------------------------------------------------------------------
(* Steps of the service                                                      *)

Init ==
    /\ pack \in Packs
    /\ draft = <<>> /\ run = NoRun /\ loaded = NoPack

AddStep(shape) ==
    /\ run = NoRun /\ pack \in Packs /\ Len(draft) < Len(StepNames)
    /\ draft' = Append(draft, [name |-> StepNames[Len(draft) + 1]] @@ shape)
    /\ UNCHANGED <<pack, run, loaded>>

\* The server is started with a Pack of the drafted steps.
InstallPack(final) ==
    /\ run = NoRun /\ pack \in Packs
    /\ LET p == [pack EXCEPT !.steps = draft, !.final = final]
       IN  PackValid(p) /\ pack' = p
    /\ draft' = <<>>
    /\ UNCHANGED <<run, loaded>>

Store(plan, p, receipt) ==
    LET routed == WithTaskSkills(p, plan)
    IN  /\ Freezable(plan, routed)
        /\ run' = [plan |-> Freeze(plan, routed), receipt |-> receipt]

\* create_run, with the Pack's own plan or a submitted one, with or without a
\* team selection.
CreateRun(plan) ==
    /\ run = NoRun
    /\ \/ Store(plan, pack, NoManifest)
       \/ \E sel \in Selections :
            /\ Resolvable(pack, sel)
            /\ Store(plan, ResolveTeam(pack, sel), sel)
    /\ UNCHANGED <<pack, draft, loaded>>

CreateDynamicRun ==
    \E evals \in PlanEvals, final \in Types, parallel \in {1, 2} :
        CreateRun([source |-> "operator", steps |-> draft, evals |-> evals,
                   final |-> final, parallel |-> parallel])

\* generate_execution_plan of a mock planner: the plan is returned to the
\* operator, who may submit it.
Generate ==
    /\ run = NoRun /\ draft = <<>> /\ pack.dynamic
    /\ Freezable(ConservativeMockPlan(pack), pack)
    /\ draft' = ConservativeMockPlan(pack).steps
    /\ UNCHANGED <<pack, run, loaded>>

\* The server is restarted with another Pack while the run is in flight.
EditPack ==
    /\ run # NoRun
    /\ pack' \in Packs
    /\ UNCHANGED <<draft, run, loaded>>

\* _resolved_execution_plan_pack
Load ==
    /\ run # NoRun /\ loaded = NoPack
    /\ Loadable(run.plan, pack)
    /\ loaded' = PackFromPlan(run.plan, pack)
    /\ UNCHANGED <<pack, draft, run>>

Next ==
    \/ \E shape \in Shapes : AddStep(shape)
    \/ \E final \in Types : InstallPack(final)
    \/ CreateRun(ExecutionPlanFromPack(pack)) \/ CreateDynamicRun
    \/ Generate \/ EditPack \/ Load

Spec == Init /\ [][Next]_vars

----------------------------------------------------------------------------
(* Properties                                                                *)

\* Reference: what is reachable along dependencies.
Reach(steps) ==
    TransitiveClosure([x, y \in Names(steps) |-> y \in Step(steps, x).deps], Names(steps))

Known(steps) == \A i \in DOMAIN steps : steps[i].deps \subseteq Names(steps)

\* The graph algorithms, on every draft and whatever the order of its steps:
\* _dependency_cycle finds a cycle exactly when there is one and what it reports
\* is a cycle; the Pack's worklist (cycles included) and the plan's recursion
\* both compute what is reachable.
GraphSearchExact ==
    Known(draft) =>
        LET found == DependencyCycle(draft)
            R == Reach(draft)
        IN  /\ found # <<>> <=> \E n \in Names(draft) : R[n, n]
            /\ found # <<>> => /\ Len(found) > 1 /\ found[1] = Last(found)
                               /\ \A i \in 1 .. Len(found) - 1 :
                                     found[i + 1] \in Step(draft, found[i]).deps
            /\ \A n \in Names(draft) :
                LET reach == {m \in Names(draft) : R[n, m]}
                IN  /\ UpstreamSteps(draft, n) = reach
                    /\ found = <<>> => UpstreamOf(draft)[n] = reach

Position(batches, n) ==
    CHOOSE k \in DOMAIN batches : n \in Names(batches[k])

\* Every plan that is frozen can be scheduled to its end: its batches hold each
\* step once, behind its dependencies, in the order of the serial schedule, so
\* that the last step of a run that commits its batches in this order is the one
\* where quality looks for the Pack's evals; and no step of a submitted plan starves: what it
\* needs is produced in an earlier batch, by a step upstream of it.
ScheduleSound ==
    run # NoRun =>
        LET steps == run.plan.steps
            batches == ReadyBatches(steps)
            R == Reach(steps)
        IN  /\ FlattenSeq(batches) = OrderedSteps(steps)
            /\ Len(OrderedSteps(steps)) = Len(steps)
            /\ Names(OrderedSteps(steps)) = Names(steps)
            /\ \A n \in Names(steps) : \A d \in Step(steps, n).deps :
                  Position(batches, d) < Position(batches, n)
            /\ PackEvalStep(run.plan) = Last(Last(batches)).name
            /\ run.plan.source # "workflow_pack" =>
                  \A n \in Names(steps) : \A t \in Step(steps, n).needs :
                      \E d \in Names(steps) :
                          /\ R[n, d] /\ Step(steps, d).produces = t
                          /\ Position(batches, d) < Position(batches, n)

\* backend/README.md: "Blocker Pack evals whose required artifacts are produced
\* by the dynamic plan are restored by the Harness, and a same-name weakened gate
\* is rejected".
GatesKept ==
    [][run = NoRun /\ run' # NoRun =>
        \A g \in Gates(run'.plan, pack) :
            /\ g \in run'.plan.evals
            /\ \A c \in run'.plan.evals : c.name = g.name => c = g]_vars

\* backend/README.md: "later Pack edits cannot silently change an in-flight run".
\* What was rebuilt once is rebuilt the same under every later Pack.
RecoveryStable ==
    loaded # NoPack =>
        Loadable(run.plan, pack) /\ PackFromPlan(run.plan, pack) = loaded

\* The receipt that is read from the stored plan is the one that was resolved:
\* every slot, also the ones no step of the plan uses.
ReceiptStable ==
    run # NoRun => ReceiptFromPlan(run.plan) = run.receipt
====
