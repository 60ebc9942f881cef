---- MODULE MCAgentLoop ----
(* Two granted tools: one writes with approval, one would use a web route    *)
(* that was not confirmed.  A cheap and a dear candidate.                    *)
EXTENDS AgentLoop, TLC

CONSTANTS write, fetch, x, cheap, dear

MCInput == cheap :> 1 @@ dear :> 0
MCOutput == cheap :> 1 @@ dear :> 4
====
