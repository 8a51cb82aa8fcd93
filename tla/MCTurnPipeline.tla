---------------------------- MODULE MCTurnPipeline ---------------------------
(***************************************************************************)
(* The instance of TurnPipeline that TLC checks.  The drafts are the        *)
(* default graph, the default graph with one edge removed or one put in     *)
(* front of the others, and a few drawn by hand.                            *)
(***************************************************************************)
EXTENDS TurnPipeline

CONSTANTS show, grade, search, bogus

Without(e) == [DefaultGraph EXCEPT !.edges = SelectSeq(@, LAMBDA f : f # e)]
With(s, t, c) == [DefaultGraph EXCEPT !.edges = <<Edge(s, t, c)>> \o @]
Chain(order) ==
  [on |-> ToSet(order), edges |-> [i \in 1..Len(order) - 1 |-> Edge(order[i], order[i + 1], "always")]]

\* Only the required nodes; the policy behind the tasks; a ring; the check of
\* the tasks reached only without tasks; the history summarised at the end.
Compact == Chain(SelectSeq(NodeOrder, LAMBDA n : n \in Required))
LatePolicy == Chain(<<"normalize_input", "append_user_message", "route", "extract", "plan", "plan_tasks",
                      "execution_policy", "validate_tasks", "persist">>)
Ring == [Compact EXCEPT !.on = @ \cup {"summary_history"},
           !.edges = @ \o <<Edge("summary_history", "normalize_input", "always"),
                            Edge("plan_tasks", "append_user_message", "always")>>]
Gated == [Compact EXCEPT !.edges[7].condition = "no_auto_tasks"]
Summarised == Chain(Append(SelectSeq(NodeOrder, LAMBDA n : n \in Required), "summary_history"))
ByScene == [Compact EXCEPT !.edges = <<Edge("route", "plan", "scene_task"),
                                       [Edge("route", "persist", "always") EXCEPT !.scene = "knowledge"]>> \o @]

\* A second plan_tasks, written by hand: the reload takes the first of these
\* graphs and refuses the other.
MCTypeOf == [n \in NodeTypes \cup {"plan_early"} |-> IF n = "plan_early" THEN "plan_tasks" ELSE n]
PlannedTwice(tail) ==
  Chain(<<"normalize_input", "append_user_message", "route", "extract", "plan", "plan_early",
          "execution_policy">> \o tail)
Planned == {PlannedTwice(<<"plan_tasks", "validate_tasks", "persist">>),
            PlannedTwice(<<"validate_tasks", "plan_tasks", "persist">>)}

Steps == {"route", "plan", "execution_policy", "plan_tasks"}
MCDrafts ==
  {DefaultGraph, Compact, LatePolicy, Ring, Gated, Summarised, ByScene}
  \cup Planned
  \cup {Without(e) : e \in ToSet(DefaultGraph.edges)}
  \cup {With(s, t, "always") : s, t \in Steps}

Route(intent, command, rag, confirm, sources, realtime) ==
  [intent |-> intent, command |-> command, rag |-> rag, confirm |-> confirm, sources |-> sources,
   realtime |-> realtime, unavailable |-> FALSE]
MCRoutes ==
  {Route("violation", FALSE, FALSE, FALSE, {}, FALSE), Route("chat", FALSE, FALSE, FALSE, {}, FALSE),
   Route("knowledge", FALSE, TRUE, FALSE, {"local"}, FALSE), Route("command", TRUE, FALSE, FALSE, {"external"}, FALSE),
   Route("command", TRUE, FALSE, TRUE, {}, FALSE), Route("complex_task", FALSE, FALSE, FALSE, {}, TRUE)}

AgentPlan(risk, command, execute, ask, names, tools) ==
  [risk |-> risk, command |-> command, rag |-> FALSE, execute |-> execute, ask |-> ask,
   names |-> names, tools |-> tools, unavailable |-> FALSE]
MCPlans ==
  {AgentPlan("low", TRUE, TRUE, FALSE, {show, bogus}, {}), AgentPlan("high", TRUE, TRUE, FALSE, {show}, {}),
   AgentPlan("low", TRUE, FALSE, FALSE, {show}, {}), AgentPlan("low", TRUE, TRUE, FALSE, {grade}, {}),
   AgentPlan("low", FALSE, TRUE, TRUE, {}, {search}), AgentPlan("low", FALSE, TRUE, FALSE, {}, {search}),
   [AgentPlan("low", FALSE, FALSE, FALSE, {}, {}) EXCEPT !.unavailable = TRUE]}
MCTaskNames == {{}, {show}, {grade, search}, {show, bogus}}
=============================================================================
