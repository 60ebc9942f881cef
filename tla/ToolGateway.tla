---- MODULE ToolGateway ----
(* ToolGateway.call_tool: what a step's agent may call, and what a call      *)
(* returns.  A call is checked against the frozen step, the agent, the       *)
(* persisted side-effect approvals and, for a tool that would use the real   *)
(* web, the run's confirmed tool routes.                                     *)
EXTENDS Naturals, FiniteSets

CONSTANTS
    Tools,             \* names a model may ask for
    Registered,        \* ToolGateway._tools
    AllowedTools,      \* allowed_tools of the step
    ToolPermissions,   \* tool_permissions of the agent
    SideEffects,       \* tools whose side_effect is not "none"
    ApprovedEffects,   \* approved_side_effect_tools of the run
    RealWeb,           \* tools whose real_web_call_enabled() is true
    ConfirmedWeb       \* tools confirmed for their present provider

ASSUME ToolAssumption ==
    /\ IsFiniteSet(Tools)
    /\ {Registered, AllowedTools, ToolPermissions, SideEffects, ApprovedEffects,
        RealWeb, ConfirmedWeb} \subseteq SUBSET Tools

Granted == AllowedTools \cap ToolPermissions

\* model_tool_specs raises for a name that is not registered.
SpecsAvailable == Granted \subseteq Registered

Permitted(t) ==
    /\ t \in Registered
    /\ t \in AllowedTools
    /\ t \in ToolPermissions
    /\ t \in SideEffects => t \in ApprovedEffects
    /\ t \in RealWeb => t \in ConfirmedWeb

\* What a call comes to: it is refused, its payload does not fit the schema,
\* its handler fails, or it returns a result.  Only the last two run it.
Results(t) ==
    IF Permitted(t) THEN {"invalid", "failed", "returned"} ELSE {"refused"}

Runs(result) == result \in {"failed", "returned"}
====
