---------------------------- MODULE MCAgentLoop ----------------------------
(***************************************************************************)
(* Small instances of AgentLoop: a writing command, a high risk command and *)
(* a search tool; plans of one or two steps.                                *)
(***************************************************************************)
EXTENDS AgentLoop

CONSTANTS write, delete, search, p1, rewritten

PlanStep(c, t) == [cap |-> c, type |-> t, params |-> p1]

MCPlans ==
  { <<PlanStep(write, "command")>>,
    <<PlanStep(search, "mcp_tool"), PlanStep(write, "command")>>,
    <<PlanStep(write, "command"), PlanStep(delete, "command")>> }

MCCaps == {write, delete, search}
MCCommandTools == {write, delete}
MCMcpTools == {search}
MCHighRisk == {delete}
MCParams == {p1, rewritten}
MCTargets == {write}
=============================================================================
