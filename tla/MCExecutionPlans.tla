---- MODULE MCExecutionPlans ----
(* Drafts of up to three steps with every dependency relation, a Pack with a  *)
(* blocker gate, and later editions of it.                                    *)
EXTENDS ExecutionPlans

CONSTANTS a, b, c, writer, tester, doc, patch

MCNames == <<a, b, c>>
MCTypes == {doc, patch}

Shape(deps, role, produces, needs, controller, runtime) ==
    [deps |-> deps, role |-> role, produces |-> produces, needs |-> needs,
     tools |-> IF role = tester THEN {"run"} ELSE {}, controller |-> controller, runtime |-> runtime, criteria |-> TRUE]

MCShapes ==
    {Shape(deps, k[1], k[2], k[3], k[4], k[5]) :
        deps \in SUBSET {a, b, c},
        k \in {<<writer, doc, {}, NoStep, "model">>, <<writer, patch, {doc}, NoStep, "session">>,
               <<tester, patch, {doc}, a, "model">>}}

Agent(tools, prompt) ==
    [tools |-> tools, prompt |-> prompt, route |-> "mock", manifest |-> NoManifest, skills |-> FALSE]

Static == <<[name |-> a] @@ Shape({}, writer, doc, {}, NoStep, "model"),
            [name |-> b] @@ Shape({a}, writer, patch, {doc}, NoStep, "model"),
            [name |-> c] @@ Shape({a, b}, tester, patch, {doc}, NoStep, "model")>>

Gate == [name |-> "gate", types |-> {doc, patch}, blocker |-> TRUE]

Edition(agents, evals, parallel, dynamic) ==
    [agents |-> agents, steps |-> Static, evals |-> evals, final |-> patch,
     parallel |-> parallel, dynamic |-> dynamic]

Agents(prompt, roles) == [r \in roles |-> Agent(IF r = tester /\ prompt = "old" THEN {"run"} ELSE {}, prompt)]

MCPacks == {Edition(Agents("old", {writer, tester}), {Gate}, 2, TRUE),
            Edition(Agents("new", {writer, tester}), {}, 1, TRUE)}

MCSelections == {[r \in {writer, tester} |-> "gpt"], [r \in {writer} |-> "gpt"],
                 (writer :> "gpt" @@ tester :> "deepseek")}

MCPlanEvals == {{}, {[Gate EXCEPT !.blocker = FALSE]}}
====
