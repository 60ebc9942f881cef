------------------------- MODULE ExecutionPlansProofs -------------------------
(***************************************************************************)
(* What a frozen plan keeps, for every Pack, submitted plan and team: the  *)
(* Pack's blocker gates, the receipt of the team, and what the runner      *)
(* rebuilds from it.                                                       *)
(***************************************************************************)
EXTENDS ExecutionPlans, TLAPS

----------------------------------------------------------------------------
(* The shape of the Pack.                                                  *)

LEMMA ShapeNext == PackShape(pack) /\ [Next]_vars => PackShape(pack')
<1> SUFFICES ASSUME PackShape(pack), [Next]_vars PROVE PackShape(pack')
  OBVIOUS
<1>1. CASE UNCHANGED pack
  BY <1>1
<1>2. ASSUME NEW final \in Types, InstallPack(final) PROVE PackShape(pack')
  <2>1. pack' = [pack EXCEPT !.steps = draft, !.final = final]
    BY <1>2 DEF InstallPack
  <2>2. pack' = [agents |-> pack.agents, steps |-> draft, evals |-> pack.evals,
                 final |-> final, parallel |-> pack.parallel, dynamic |-> pack.dynamic]
    BY <2>1 DEF PackShape
  <2> QED BY <2>2 DEF PackShape
<1>3. CASE EditPack
  BY <1>3, PlansAssumption DEF EditPack
<1>4. CASE UNCHANGED vars
  BY <1>1, <1>4 DEF vars
<1>5. ASSUME NEW shape \in Shapes, AddStep(shape) PROVE PackShape(pack')
  BY <1>1, <1>5 DEF AddStep
<1>6. CASE CreateRun(ExecutionPlanFromPack(pack)) \/ CreateDynamicRun \/ Generate \/ Load
  BY <1>1, <1>6 DEF CreateRun, CreateDynamicRun, Generate, Load
<1> QED BY <1>2, <1>3, <1>4, <1>5, <1>6 DEF Next

----------------------------------------------------------------------------
(* How a run comes to be.                                                  *)

PlanShape(plan) ==
    plan = [source |-> plan.source, steps |-> plan.steps, evals |-> plan.evals,
            final |-> plan.final, parallel |-> plan.parallel]

\* The Pack that create_run freezes a plan with: the current one, or the current
\* one with a resolved team.
Resolved(p, receipt) ==
    \/ p = pack /\ receipt = NoManifest
    \/ receipt \in Selections /\ Resolvable(pack, receipt) /\ p = ResolveTeam(pack, receipt)

LEMMA RunStored ==
    ASSUME PackShape(pack), [Next]_vars, run' # run
    PROVE  /\ run = NoRun /\ UNCHANGED <<pack, draft, loaded>>
           /\ \E plan, p, receipt : PlanShape(plan) /\ Resolved(p, receipt) /\ Store(plan, p, receipt)
<1>1. ASSUME NEW plan, PlanShape(plan), CreateRun(plan)
      PROVE  /\ run = NoRun /\ UNCHANGED <<pack, draft, loaded>>
             /\ \E x, p, receipt : PlanShape(x) /\ Resolved(p, receipt) /\ Store(x, p, receipt)
  BY <1>1 DEF CreateRun, Resolved
<1>2. CASE CreateRun(ExecutionPlanFromPack(pack))
  <2>1. PlanShape(ExecutionPlanFromPack(pack))
    BY DEF PlanShape, ExecutionPlanFromPack
  <2> QED BY <1>1, <1>2, <2>1
<1>3. CASE CreateDynamicRun
  <2>1. PICK evals \in PlanEvals, final \in Types, parallel \in {1, 2} :
           CreateRun([source |-> "operator", steps |-> draft, evals |-> evals,
                      final |-> final, parallel |-> parallel])
    BY <1>3 DEF CreateDynamicRun
  <2>2. PlanShape([source |-> "operator", steps |-> draft, evals |-> evals,
                   final |-> final, parallel |-> parallel])
    BY DEF PlanShape
  <2> QED BY <1>1, <2>1, <2>2
<1>4. ASSUME NEW shape, AddStep(shape) PROVE FALSE
  BY <1>4 DEF AddStep
<1>5. ASSUME NEW final, InstallPack(final) PROVE FALSE
  BY <1>5 DEF InstallPack
<1>6. ~Generate /\ ~EditPack /\ ~Load /\ ~UNCHANGED vars
  BY DEF Generate, EditPack, Load, vars
<1> QED BY <1>2, <1>3, <1>4, <1>5, <1>6 DEF Next

AgentFields == {"tools", "prompt", "route", "manifest", "skills"}

\* What giving an agent a route and a manifest, or task skills, does to it.
LEMMA AgentRouted ==
    ASSUME NEW x, NEW route, NEW manifest, DOMAIN x = AgentFields
    PROVE  LET y == [x EXCEPT !.route = route, !.manifest = manifest]
           IN  y.route = route /\ y.manifest = manifest /\ DOMAIN y = AgentFields
BY DEF AgentFields

LEMMA AgentSkilled ==
    ASSUME NEW x, DOMAIN x = AgentFields
    PROVE  LET y == [x EXCEPT !.skills = TRUE]
           IN  y.route = x.route /\ y.manifest = x.manifest
BY DEF AgentFields

LEMMA PlainFields ==
    ASSUME NEW x, PlainAgent(x)
    PROVE  DOMAIN x = AgentFields /\ x.manifest = NoManifest
BY DEF PlainAgent, AgentFields

\* Resolving a team and adding task skills change the agents alone.
LEMMA RoutedPack ==
    ASSUME PackShape(pack), NEW plan, NEW p, NEW receipt, Resolved(p, receipt)
    PROVE  LET q == WithTaskSkills(p, plan)
           IN  /\ q.evals = pack.evals
               /\ DOMAIN q.agents = DOMAIN pack.agents
               /\ \A r \in DOMAIN pack.agents : q.agents[r].manifest = receipt
               /\ receipt # NoManifest => /\ receipt \in Selections
                                          /\ DOMAIN receipt = DOMAIN pack.agents
                                          /\ \A r \in DOMAIN pack.agents :
                                                q.agents[r].route = receipt[r]
<1> DEFINE R == DOMAIN pack.agents
           A(ag) == [r \in R |-> IF r \in RolesOf(plan.steps) THEN [ag[r] EXCEPT !.skills = TRUE]
                                 ELSE ag[r]]
           q == WithTaskSkills(p, plan)
<1>a. pack = [agents |-> pack.agents, steps |-> pack.steps, evals |-> pack.evals,
              final |-> pack.final, parallel |-> pack.parallel, dynamic |-> pack.dynamic]
  BY DEF PackShape
<1>b. \A r \in R : DOMAIN pack.agents[r] = AgentFields /\ pack.agents[r].manifest = NoManifest
  BY PlainFields DEF PackShape
<1>1. CASE p = pack /\ receipt = NoManifest
  <2>1. q = [pack EXCEPT !.agents = A(pack.agents)]
    BY <1>1 DEF WithTaskSkills
  <2>2. q.evals = pack.evals /\ q.agents = A(pack.agents)
    BY <1>a, <2>1
  <2>3. \A r \in R : A(pack.agents)[r].manifest = NoManifest
    <3>1. \A r \in R : [pack.agents[r] EXCEPT !.skills = TRUE].manifest = NoManifest
      <4> SUFFICES ASSUME NEW r \in R
                   PROVE  [pack.agents[r] EXCEPT !.skills = TRUE].manifest = NoManifest
        OBVIOUS
      <4> DEFINE x == pack.agents[r]
      <4>1. DOMAIN x = AgentFields /\ x.manifest = NoManifest
        BY <1>b
      <4> HIDE DEF x
      <4>2. [x EXCEPT !.skills = TRUE].manifest = x.manifest
        BY <4>1, AgentSkilled
      <4> QED BY <4>1, <4>2 DEF x
    <3> QED BY <1>b, <3>1
  <2> QED BY <1>1, <2>2, <2>3
<1>2. CASE receipt \in Selections /\ Resolvable(pack, receipt) /\ p = ResolveTeam(pack, receipt)
  <2> DEFINE B == [r \in R |-> [pack.agents[r] EXCEPT !.route = receipt[r], !.manifest = receipt]]
  <2>1. p = [pack EXCEPT !.agents = B]
    BY <1>2 DEF ResolveTeam
  <2>2. p = [agents |-> B, steps |-> pack.steps, evals |-> pack.evals,
             final |-> pack.final, parallel |-> pack.parallel, dynamic |-> pack.dynamic]
    BY <1>a, <2>1
  <2>3. DOMAIN B = R
    OBVIOUS
  <2>4. \A r \in R : B[r].route = receipt[r] /\ B[r].manifest = receipt /\ DOMAIN B[r] = AgentFields
    <3> SUFFICES ASSUME NEW r \in R
                 PROVE  /\ B[r].route = receipt[r] /\ B[r].manifest = receipt
                        /\ DOMAIN B[r] = AgentFields
      OBVIOUS
    <3> DEFINE x == pack.agents[r]  y == receipt[r]
    <3>1. DOMAIN x = AgentFields
      BY <1>b
    <3>2. B[r] = [x EXCEPT !.route = y, !.manifest = receipt]
      OBVIOUS
    <3> HIDE DEF x, y, B
    <3>3. B[r].route = y /\ B[r].manifest = receipt /\ DOMAIN B[r] = AgentFields
      BY <3>1, <3>2, AgentRouted
    <3> QED BY <3>3 DEF y
  <2> HIDE DEF B
  <2>5. q = [p EXCEPT !.agents = A(B)]
    BY <2>2, <2>3 DEF WithTaskSkills
  <2>6. q.evals = pack.evals /\ q.agents = A(B)
    BY <2>2, <2>5
  <2>7. \A r \in R : A(B)[r].manifest = receipt /\ A(B)[r].route = receipt[r]
    <3>1. \A r \in R : /\ [B[r] EXCEPT !.skills = TRUE].manifest = receipt
                       /\ [B[r] EXCEPT !.skills = TRUE].route = receipt[r]
      BY <2>4, AgentSkilled
    <3> QED BY <2>4, <3>1
  <2>8. DOMAIN receipt = R
    BY <1>2 DEF Resolvable
  <2> QED BY <1>2, <2>6, <2>7, <2>8
<1> QED BY <1>1, <1>2 DEF Resolved

----------------------------------------------------------------------------
(* Gates.                                                                  *)

LEMMA StoredGates ==
    ASSUME PackShape(pack), NEW plan, NEW p, NEW receipt,
           PlanShape(plan), Resolved(p, receipt), Store(plan, p, receipt)
    PROVE  \A g \in Gates(run'.plan, pack) :
               /\ g \in run'.plan.evals
               /\ \A c \in run'.plan.evals : c.name = g.name => c = g
<1> DEFINE q == WithTaskSkills(p, plan)
           kept == RestoreGates(plan, q)
<1>1. q.evals = pack.evals
  BY RoutedPack
<1>2. PlanValid(kept) /\ ValidAgainst(plan, q, FALSE)
  BY DEF Store, Freezable
<1>3. run'.plan.evals = kept.evals /\ run'.plan.steps = kept.steps
  BY DEF Store, Freeze
<1> HIDE DEF q
<1>4. \A c, d \in kept.evals : c.name = d.name => c = d
  BY <1>2 DEF PlanValid
<1>5. kept.steps = plan.steps /\ Gates(plan, q) \subseteq kept.evals
  <2>1. CASE plan.source = "workflow_pack"
    <3>1. kept = plan /\ plan = ExecutionPlanFromPack(q)
      BY <1>2, <2>1 DEF RestoreGates, ValidAgainst
    <3>2. plan.evals = q.evals
      BY <3>1 DEF ExecutionPlanFromPack
    <3> QED BY <3>1, <3>2 DEF Gates
  <2>2. CASE plan.source # "workflow_pack"
    <3>1. kept = [plan EXCEPT !.evals = @ \cup Gates(plan, q)]
      BY <2>2 DEF RestoreGates
    <3> HIDE DEF kept
    <3> QED BY <3>1 DEF PlanShape
  <2> QED BY <2>1, <2>2
<1>6. Gates(run'.plan, pack) = Gates(plan, q)
  BY <1>1, <1>3, <1>5 DEF Gates
<1> QED BY <1>3, <1>4, <1>5, <1>6

\* However a plan leaves out or weakens a blocker gate of the Pack that applies to
\* what it produces, the frozen plan has it, and nothing else by that name, or
\* the run is not created.
THEOREM GatesAreKept == Spec => GatesKept
<1> DEFINE A == run = NoRun /\ run' # NoRun =>
                   \A g \in Gates(run'.plan, pack) :
                       /\ g \in run'.plan.evals
                       /\ \A c \in run'.plan.evals : c.name = g.name => c = g
           I == PackShape(pack)
<1>1. Init => I
  BY PlansAssumption DEF Init
<1>2. I /\ [Next]_vars => I'
  BY ShapeNext
<1>3. I /\ [Next]_vars => [A]_vars
  BY RunStored, StoredGates
<1>4. Spec => [][A]_vars
  <2> HIDE DEF I, A
  <2> QED BY <1>1, <1>2, <1>3, PTL DEF Spec
<1> QED BY <1>4 DEF GatesKept

----------------------------------------------------------------------------
(* The receipt of the team.                                                *)

LEMMA StoredReceipt ==
    ASSUME PackShape(pack), NEW plan, NEW p, NEW receipt,
           PlanShape(plan), Resolved(p, receipt), Store(plan, p, receipt)
    PROVE  ReceiptFromPlan(run'.plan) = run'.receipt
<1> DEFINE q == WithTaskSkills(p, plan)
           kept == RestoreGates(plan, q)
           ag == AgentSnapshots(kept, q)
<1>1. run'.plan.agents = ag /\ run'.receipt = receipt
  BY DEF Store, Freeze
<1>2. /\ DOMAIN q.agents = DOMAIN pack.agents
      /\ \A r \in DOMAIN q.agents : q.agents[r].manifest = receipt
      /\ receipt # NoManifest => /\ receipt \in Selections
                                 /\ DOMAIN receipt = DOMAIN q.agents
                                 /\ \A r \in DOMAIN q.agents : q.agents[r].route = receipt[r]
  BY RoutedPack
<1>3. RolesOf(kept.steps) \subseteq DOMAIN q.agents
  <2>1. kept.steps = plan.steps
    BY DEF RestoreGates, PlanShape
  <2>2. ToolsAllowed(plan.steps, q.agents)
    BY DEF Store, Freezable, ValidAgainst
  <2> QED BY <2>1, <2>2 DEF ToolsAllowed, RolesOf
<1> HIDE DEF q, kept
<1>4. CASE receipt = NoManifest
  <2>1. DOMAIN ag \subseteq DOMAIN q.agents /\ \A r \in DOMAIN ag : ag[r] = q.agents[r]
    BY <1>3 DEF AgentSnapshots, Restrict
  <2> HIDE DEF ag
  <2>2. {r \in DOMAIN ag : ag[r].manifest # NoManifest} = {}
    BY <1>2, <1>4, <2>1
  <2> QED BY <1>1, <1>4, <2>2 DEF ReceiptFromPlan
<1>5. CASE receipt # NoManifest
  <2>1. HasCompleteTeam(q.agents)
    BY <1>2, <1>5 DEF HasCompleteTeam
  <2>2. ag = [r \in DOMAIN q.agents |-> q.agents[r]]
    BY <2>1 DEF AgentSnapshots, Restrict
  <2> HIDE DEF ag
  <2>3. receipt = [r \in DOMAIN receipt |-> receipt[r]]
    BY <1>2, <1>5, PlansAssumption
  <2>4. [r \in DOMAIN ag |-> ag[r].route] = receipt
    BY <1>2, <1>5, <2>2, <2>3
  <2>5. {r \in DOMAIN ag : ag[r].manifest # NoManifest} = DOMAIN ag
        /\ \A r \in DOMAIN ag : ag[r].manifest = receipt
    BY <1>2, <1>5, <2>2
  <2>6. DOMAIN ag # {}
    <3>1. SUFFICES ASSUME DOMAIN ag = {} PROVE receipt = <<>>
      BY <1>5 DEF NoManifest
    <3>2. receipt = [r \in {} |-> receipt[r]]
      BY <1>2, <1>5, <2>2, <2>3, <3>1
    <3> QED BY <3>2
  <2> QED BY <1>1, <2>4, <2>5, <2>6 DEF ReceiptFromPlan
<1> QED BY <1>4, <1>5

\* The receipt read from the stored plan is the one that was resolved when the
\* run was created, for every Pack, plan and team: also for the slots no step of
\* the plan uses.
THEOREM ReceiptIsStable == Spec => []ReceiptStable
<1> DEFINE I == PackShape(pack)
<1>1. Init => I /\ ReceiptStable
  BY PlansAssumption DEF Init, ReceiptStable
<1>2. I /\ ReceiptStable /\ [Next]_vars => I' /\ ReceiptStable'
  <2> SUFFICES ASSUME I, ReceiptStable, [Next]_vars PROVE I' /\ ReceiptStable'
    OBVIOUS
  <2>1. I'
    BY ShapeNext
  <2>2. CASE run' = run
    BY <2>1, <2>2 DEF ReceiptStable
  <2>3. CASE run' # run
    BY <2>1, <2>3, RunStored, StoredReceipt DEF ReceiptStable
  <2> QED BY <2>2, <2>3
<1> QED
  <2> HIDE DEF I
  <2> QED BY <1>1, <1>2, PTL DEF Spec

----------------------------------------------------------------------------
(* Recovery.                                                               *)

\* What a frozen plan is held against, and what is rebuilt from it, does not
\* depend on the Pack.
LEMMA LoadableAnywhere ==
    ASSUME NEW plan, NEW p, NEW q, Loadable(plan, p)
    PROVE  Loadable(plan, q) /\ PackFromPlan(plan, q) = PackFromPlan(plan, p)
<1>1. plan.agents # <<>>
  BY DEF Loadable, ValidAgainst
<1>2. PackFromPlan(plan, q) = PackFromPlan(plan, p)
  BY <1>1 DEF PackFromPlan
<1>3. ValidAgainst(plan, q, TRUE)
  BY DEF Loadable, ValidAgainst
<1> QED BY <1>2, <1>3 DEF Loadable

RecoveryInv == RecoveryStable /\ (run = NoRun => loaded = NoPack)

\* What the runner rebuilt once it rebuilds again, and identically, under every
\* later edition of the Pack.
THEOREM RecoveryIsStable == Spec => []RecoveryStable
<1>1. Init => RecoveryInv
  BY DEF Init, RecoveryInv, RecoveryStable
<1>2. RecoveryInv /\ [Next]_vars => RecoveryInv'
  <2> SUFFICES ASSUME RecoveryInv, [Next]_vars PROVE RecoveryInv'
    OBVIOUS
  <2>1. CASE loaded' = loaded /\ run' = run
    <3>1. loaded # NoPack => Loadable(run.plan, pack')
                             /\ PackFromPlan(run.plan, pack') = PackFromPlan(run.plan, pack)
      BY LoadableAnywhere DEF RecoveryInv, RecoveryStable
    <3> QED BY <2>1, <3>1 DEF RecoveryInv, RecoveryStable
  <2>2. CASE Load
    BY <2>2 DEF Load, RecoveryInv, RecoveryStable
  <2>3. ASSUME NEW plan, CreateRun(plan) PROVE RecoveryInv'
    BY <2>3 DEF CreateRun, RecoveryInv, RecoveryStable, Store, NoRun
  <2>4. CASE CreateDynamicRun
    BY <2>3, <2>4 DEF CreateDynamicRun
  <2>5. CASE Generate \/ EditPack \/ UNCHANGED vars
    BY <2>1, <2>5 DEF Generate, EditPack, vars
  <2>6. ASSUME NEW shape, AddStep(shape) PROVE RecoveryInv'
    BY <2>1, <2>6 DEF AddStep
  <2>7. ASSUME NEW final, InstallPack(final) PROVE RecoveryInv'
    BY <2>1, <2>7 DEF InstallPack
  <2> QED BY <2>2, <2>3, <2>4, <2>5, <2>6, <2>7 DEF Next
<1>3. RecoveryInv => RecoveryStable
  BY DEF RecoveryInv
<1> QED BY <1>1, <1>2, <1>3, PTL DEF Spec
=============================================================================
