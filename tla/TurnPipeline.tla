---------------------------- MODULE TurnPipeline ----------------------------
(***************************************************************************)
(* One turn of the agent, from the message to the plan it hands over       *)
(* (core/agent/runtime/pipeline.py, coordination/nodes.py), run as the     *)
(* graph of nodes that langgraph_runtime.py walks.  The graph is a         *)
(* document: the management interface validates a draft of it and writes   *)
(* the configuration file, a hand may edit that file, and the store        *)
(* (orchestration_config.py) reloads it when its modification time         *)
(* changes.  A turn keeps the graph it started with.                       *)
(*                                                                         *)
(* A draft is [on |-> enabled nodes, edges |-> sequence of edges].  The id *)
(* of a node is only a name, by default that of its type: a file may hold  *)
(* several nodes of a type, while two of one id are refused like a cycle.  *)
(* What a model, the MCP server or the user may answer is a member of the  *)
(* sets Routes, Plans and TaskNames; prompts, progress messages, trace     *)
(* events and the choice of the language model are left out.               *)
(***************************************************************************)
EXTENDS Naturals, Sequences, FiniteSets, SequencesExt

CONSTANTS
  TypeOf,        \* the type of a node, by its id
  Drafts,        \* graphs that somebody may draw or write into the file
  Routes,        \* what the router may say of the message
  Plans,         \* what the planner may answer
  TaskNames,     \* the sets of names a task list may hold
  Helpers,       \* commands the user may see
  CommandTools,  \* those of them the agent may call
  McpTools,      \* tools the MCP servers may offer, all of them realtime
  MaxEdits       \* bound on the changes of the configuration file

VARIABLES
  file,          \* the configuration file, with its modification time
  snapshot,      \* the store's graph and the time of the file it came from
  turn,          \* the state of the turn
  history        \* what this turn has added to the session's messages
vars == <<file, snapshot, turn, history>>

-----------------------------------------------------------------------------
(* The graph and its validation                                            *)

NodeOrder == <<"summary_history", "normalize_input", "append_user_message",
  "route", "local_rag", "direct_vision_reply", "extract", "plan",
  "execution_policy", "external_rag", "plan_tasks", "validate_tasks", "persist">>
NodeTypes == ToSet(NodeOrder)
Nodes == DOMAIN TypeOf
Optional == {"summary_history", "local_rag", "direct_vision_reply", "external_rag"}
Required == NodeTypes \ Optional

Edge(s, t, c) == [source |-> s, target |-> t, condition |-> c, scene |-> "any"]

DefaultGraph == [on |-> NodeTypes, edges |-> <<
  Edge("summary_history", "normalize_input", "always"),
  Edge("normalize_input", "append_user_message", "always"),
  Edge("append_user_message", "route", "always"),
  Edge("route", "persist", "has_auto_tasks"),
  Edge("route", "local_rag", "needs_local_knowledge"),
  Edge("route", "direct_vision_reply", "direct_vision_reply"),
  Edge("route", "extract", "always"),
  Edge("local_rag", "direct_vision_reply", "direct_vision_reply"),
  Edge("local_rag", "extract", "always"),
  Edge("direct_vision_reply", "persist", "has_auto_tasks"),
  Edge("direct_vision_reply", "extract", "always"),
  Edge("extract", "plan", "always"),
  Edge("plan", "execution_policy", "always"),
  Edge("execution_policy", "persist", "has_auto_tasks"),
  Edge("execution_policy", "external_rag", "needs_external_rag"),
  Edge("execution_policy", "plan_tasks", "always"),
  Edge("external_rag", "plan_tasks", "always"),
  Edge("plan_tasks", "validate_tasks", "always"),
  Edge("validate_tasks", "persist", "always")>>]

ASSUME TypeAssumption ==
  /\ TypeOf \in [Nodes -> NodeTypes] /\ NodeTypes \subseteq Nodes /\ \A n \in NodeTypes : TypeOf[n] = n
  /\ {"idle", "ended", "failed"} \cap Nodes = {}

\* An edge counts between nodes that are enabled.
Active(g, e) == {e.source, e.target} \subseteq g.on
Arcs(g) == {<<e.source, e.target>> : e \in {f \in ToSet(g.edges) : Active(g, f)}}
Entries(g) == {n \in g.on : \A a \in Arcs(g) : a[2] # n}
Terminals(g) == {n \in g.on : \A a \in Arcs(g) : a[1] # n}

Reachable(g, n) ==
  LET within[k \in Nat] ==
        IF k = 0 THEN {n}
        ELSE LET w == within[k - 1] IN w \cup {a[2] : a \in {b \in Arcs(g) : b[1] \in w}}
  IN within[Cardinality(g.on)]

First(I) == CHOOSE i \in I : \A j \in I : i <= j

Types(g) == {TypeOf[n] : n \in g.on}
UniqueTypes(g) == \A m, n \in g.on : TypeOf[m] = TypeOf[n] => m = n

Latest(I) == IF I = {} THEN 0 ELSE CHOOSE i \in I : \A j \in I : j <= i
Lowest(S, f) == {x \in S : \A y \in S : f[x] <= f[y]}

Ready(g, sorted) ==
  LET left == g.on \ ToSet(sorted) IN {n \in left : \A m \in left : <<m, n>> \notin Arcs(g)}

\* The nodes whose predecessors are all sorted wait in a list that is sorted by
\* type whenever one joins it.  Of one type, those come first whose last
\* predecessor was sorted first, then whose edge from it stands first.  What
\* lies on or behind a cycle is never sorted.
Foremost(g, sorted) ==
  LET ready == Ready(g, sorted)
      rank == [n \in ready |-> First({i \in DOMAIN NodeOrder : NodeOrder[i] = TypeOf[n]})]
      after == [n \in ready |-> Latest({i \in DOMAIN sorted : <<sorted[i], n>> \in Arcs(g)})]
      edge == [n \in ready |-> Latest({i \in DOMAIN g.edges :
                 g.edges[i].target = n /\ Active(g, g.edges[i]) /\ g.edges[i].source = sorted[after[n]]})]
  IN Lowest(Lowest(Lowest(ready, rank), after), edge)

SortNext(g, sorted) ==
  IF Ready(g, sorted) = {} THEN sorted ELSE Append(sorted, CHOOSE n \in Foremost(g, sorted) : TRUE)
TopologicalOrder(g) ==
  LET after[k \in 0 .. Cardinality(g.on)] == IF k = 0 THEN <<>> ELSE SortNext(g, after[k - 1])
  IN after[Cardinality(g.on)]

RequiredOrder == {
  <<"normalize_input", "append_user_message">>, <<"append_user_message", "route">>,
  <<"route", "local_rag">>, <<"route", "direct_vision_reply">>, <<"route", "extract">>,
  <<"local_rag", "extract">>, <<"direct_vision_reply", "extract">>, <<"extract", "plan">>,
  <<"plan", "execution_policy">>, <<"execution_policy", "external_rag">>,
  <<"execution_policy", "plan_tasks">>, <<"external_rag", "plan_tasks">>,
  <<"plan_tasks", "validate_tasks">>, <<"validate_tasks", "persist">>}

\* Mutant of InRequiredOrder: only the presence of the nodes is looked at.
InRequiredOrder_Present(order) ==
  \A p \in RequiredOrder : Required \cap {p[1], p[2]} \subseteq {TypeOf[n] : n \in ToSet(order)}

\* Of several nodes of a type the last one is looked at.
InRequiredOrder(order) ==
  LET position(type) == Latest({i \in DOMAIN order : TypeOf[order[i]] = type})
  IN \A p \in RequiredOrder : position(p[2]) = 0 \/ position(p[1]) < position(p[2])

\* validate_runtime_graph: the order is asked of one linearisation only.
Accepted(g) ==
  LET order == TopologicalOrder(g) IN
  /\ Required \subseteq Types(g)
  /\ Arcs(g) # {}
  /\ Cardinality(Entries(g)) = 1 /\ Cardinality(Terminals(g)) = 1
  /\ \A n \in Entries(g) : Reachable(g, n) = g.on
  /\ Len(order) = Cardinality(g.on)
  /\ InRequiredOrder(order)

\* normalize_runtime_edges keeps the first of the edges between two nodes; here
\* a later one becomes a copy of the first, which no turn gets as far as.
FirstBetween(edges, ends) == edges[First({i \in DOMAIN edges : <<edges[i].source, edges[i].target>> = ends})]
Normalized(draft) ==
  [draft EXCEPT !.edges = [i \in DOMAIN @ |-> FirstBetween(@, <<@[i].source, @[i].target>>)]]
SelfLoop(g) == \E e \in ToSet(g.edges) : e.source = e.target

\* A node of another type than these is refused before the graph is looked at.
ASSUME DraftsAssumption ==
  \A g \in Drafts : /\ DOMAIN g = {"on", "edges"}
                    /\ g.on \subseteq Nodes /\ IsFiniteSet(g.on)
                    /\ g.edges \in Seq(ToSet(g.edges))

-----------------------------------------------------------------------------
(* The configuration file and the store                                    *)

\* build_graph_config_from_designer: the drafts the management may apply.  Only
\* here a second node of a type is refused, and an edge from a node to itself.
Valid == {g \in Drafts \cup {Normalized(d) : d \in Drafts} : Accepted(g)}
Applicable == {g \in Drafts : UniqueTypes(g) /\ ~SelfLoop(g) /\ Normalized(g) \in Valid}

NoGraph == [on |-> {}, edges |-> <<>>]     \* a file that cannot be read
Files == {[is |-> "graph", graph |-> g] : g \in Drafts}
           \cup {[is |-> i, graph |-> NoGraph] : i \in {"absent", "garbage"}}

\* Mutant of Load: a file that can be read is run as it is.
Load_Unchecked(f) == IF f.is = "graph" THEN f.graph ELSE DefaultGraph

\* RuntimeOrchestrationStore.reload: anything invalid falls back.
Load(f) ==
  IF f.is = "graph" /\ f.graph \in Valid THEN f.graph ELSE DefaultGraph

Reloaded(f) == [graph |-> Load(f), mtime |-> f.mtime]

\* get_snapshot: the store reads the file again when its time has changed.
Snapshot == IF snapshot.mtime # file.mtime THEN Reloaded(file) ELSE snapshot

\* save_designer_payload with apply_to_runtime; a refused draft changes nothing.
ApplyDraft(g) ==
  /\ file.mtime < MaxEdits
  /\ g \in Applicable
  /\ file' = [is |-> "graph", graph |-> Normalized(g), mtime |-> file.mtime + 1]
  /\ snapshot' = Reloaded(file')
  /\ UNCHANGED <<turn, history>>

\* The file is written by hand or removed; nobody is told.
EditFile(f) ==
  /\ file.mtime < MaxEdits
  /\ file' = [is |-> f.is, graph |-> f.graph, mtime |-> file.mtime + 1]
  /\ UNCHANGED <<snapshot, turn, history>>

-----------------------------------------------------------------------------
(* The state of a turn                                                     *)

NoRoute == [intent |-> "none"]
NoPlan == [risk |-> "none"]
NoTasks == [names |-> "none"]
Tasks(names, confirm) == [names |-> names, confirm |-> confirm, violation |-> FALSE]

\* at: the type of the node, or what the turn does without one; image: the message shows
\* a picture or brings a file; context: something was extracted of it; ran: the
\* types of the nodes that have been visited.
Idle == [at |-> "idle", node |-> "idle", graph |-> DefaultGraph, image |-> FALSE, mcp |-> {}, scene |-> "chat",
         route |-> NoRoute, plan |-> NoPlan, context |-> FALSE, tasks |-> NoTasks, ran |-> {}]

Running(t) == t.at \in NodeTypes
Answered(t) == t.tasks # NoTasks
Realtime(t) == t.route # NoRoute /\ t.route.realtime
WantsRag(t) == \/ t.route # NoRoute /\ (t.route.rag \/ "external" \in t.route.sources)
               \/ t.plan # NoPlan /\ t.plan.rag
WantsLocal(t) == t.route # NoRoute /\ "local" \in t.route.sources

DirectVision(t) ==
  /\ t.route # NoRoute /\ ~t.route.command /\ ~t.route.rag /\ ~t.route.confirm
  /\ t.route.intent \in {"chat", "vision_file"} /\ t.image

DirectChat(t) ==
  \/ t.route.unavailable
  \/ /\ t.route.intent = "chat" /\ ~t.route.command /\ ~t.route.rag /\ ~t.route.confirm
     /\ ~t.image /\ t.route.sources = {} /\ ~t.route.realtime

Scene(t) ==
  IF t.scene # "chat" THEN t.scene
  ELSE IF Answered(t) /\ t.tasks.violation THEN "violation"
  ELSE IF t.route = NoRoute THEN "chat"
  ELSE LET intent == t.route.intent IN
       IF intent = "violation" THEN "violation"
       ELSE IF intent = "vision_file" \/ t.image THEN "vision"
       ELSE IF intent = "complex_task" THEN "task"
       ELSE IF t.route.command \/ intent = "command" THEN "command"
       ELSE IF t.route.rag \/ intent = "knowledge" THEN "knowledge" ELSE "chat"

SceneCondition == [chat |-> "scene_chat", command |-> "scene_command", knowledge |-> "scene_knowledge",
                   vision |-> "scene_vision", task |-> "scene_task", violation |-> "scene_violation"]

\* LangGraphEdgeRouter.matches
Matches(e, t) ==
  /\ e.scene \in {"any", Scene(t)}
  /\ e.condition \in
       {"always", SceneCondition[Scene(t)]}
       \cup (IF Answered(t) THEN {"has_auto_tasks"} ELSE
              {"no_auto_tasks"}
              \cup (IF WantsLocal(t) THEN {"needs_local_knowledge"} ELSE {})
              \cup (IF t.context /\ WantsRag(t) THEN {"needs_external_rag"} ELSE {})
              \cup (IF DirectVision(t) THEN {"direct_vision_reply"} ELSE {}))

\* select_next: the first edge that matches; without one the turn ends here.
NextNode(t) ==
  LET edges == t.graph.edges
      out == {i \in DOMAIN edges : edges[i].source = t.node /\ Active(t.graph, edges[i]) /\ Matches(edges[i], t)}
  IN IF out = {} THEN "ended" ELSE edges[First(out)].target

\* A node has done its work on the turn; the edge out of it is chosen.
Leave(t) ==
  \E next \in {NextNode(t)} :
    turn' = [t EXCEPT !.ran = @ \cup {t.at}, !.node = next, !.at = IF next = "ended" THEN next ELSE TypeOf[next]]

\* process reads the snapshot once; the MCP catalogue, too, is loaded at most
\* once in a turn and is empty when the servers do not answer.
StartTurn(tools) ==
  /\ turn.at = "idle"
  /\ snapshot' = Snapshot
  /\ LET entry == CHOOSE n \in Entries(snapshot'.graph) : TRUE
     IN turn' = [Idle EXCEPT !.graph = snapshot'.graph, !.mcp = tools, !.node = entry, !.at = TypeOf[entry]]
  /\ UNCHANGED <<file, history>>

\* A long history is replaced by its summary, with what the turn has added.
SummaryHistory ==
  /\ turn.at = "summary_history"
  /\ history' \in {history, <<>>}
  /\ Leave(turn)

NormalizeInput(image) ==
  /\ turn.at = "normalize_input"
  /\ Leave([turn EXCEPT !.image = image])
  /\ UNCHANGED history

AppendUserMessage ==
  /\ turn.at = "append_user_message"
  /\ history' = Append(history, "user")
  /\ Leave(turn)

\* A router's answer that needs a realtime source while there is none is
\* turned into a chat that says so.
Available(r, t) ==
  IF r.realtime /\ t.mcp = {}
  THEN [r EXCEPT !.intent = "chat", !.command = FALSE, !.rag = FALSE, !.unavailable = TRUE]
  ELSE r

\* An answer that cannot be parsed becomes a complex task.
UnparsedRoute == [intent |-> "complex_task", command |-> TRUE, rag |-> FALSE, confirm |-> FALSE,
                  sources |-> {}, realtime |-> FALSE, unavailable |-> FALSE]

IntentRoute(r) ==
  /\ turn.at = "route" /\ ~Answered(turn)
  /\ LET t == [turn EXCEPT !.route = Available(r, turn)]
         s == [t EXCEPT !.scene = Scene(t)]
     IN Leave(IF t.route.intent = "violation"
              THEN [s EXCEPT !.scene = "violation", !.tasks = [Tasks({}, FALSE) EXCEPT !.violation = TRUE]]
              ELSE IF DirectChat(t) THEN [s EXCEPT !.tasks = Tasks({}, t.route.confirm)] ELSE s)
  /\ UNCHANGED history

\* What the retriever finds only goes into prompts; its errors are swallowed.
RetrieveLocalKnowledge ==
  /\ turn.at = "local_rag"
  /\ Leave(turn)
  /\ UNCHANGED history

DirectVisionReply ==
  /\ turn.at = "direct_vision_reply"
  /\ Leave(IF ~Answered(turn) /\ DirectVision(turn)
           THEN [turn EXCEPT !.scene = "vision", !.tasks = Tasks({}, FALSE)] ELSE turn)
  /\ UNCHANGED history

ExtractContext ==
  /\ turn.at = "extract"
  /\ Leave(IF Answered(turn) THEN turn ELSE [turn EXCEPT !.context = TRUE])
  /\ UNCHANGED history

-----------------------------------------------------------------------------
(* Planning and its guards                                                 *)

\* normalize_plan_payload and ensure_realtime_mcp_plan_defaults
RealtimeDefaults(p, t) ==
  LET tools == IF p.tools \cap t.mcp # {} THEN p.tools \cap t.mcp ELSE t.mcp
      own == [p EXCEPT !.tools = tools]
  IN IF ~Realtime(t) THEN p
     ELSE IF tools = {} THEN own
     ELSE [own EXCEPT !.command = FALSE, !.rag = FALSE, !.execute = @ \/ ~p.ask]

\* The plan that stands in for an answer that cannot be parsed.
UnparsedPlan(t) ==
  LET bare == [risk |-> "low", command |-> FALSE, rag |-> FALSE, execute |-> FALSE, ask |-> FALSE,
               names |-> {}, tools |-> {}, unavailable |-> FALSE]
  IN IF Realtime(t) /\ t.mcp # {} THEN [bare EXCEPT !.execute = TRUE, !.tools = t.mcp]
     ELSE IF t.route = NoRoute THEN bare
     ELSE [bare EXCEPT !.command = t.route.command, !.rag = t.route.rag]

Plan(p) ==
  /\ turn.at = "plan" /\ ~Answered(turn) /\ turn.context
  /\ Leave([turn EXCEPT !.plan = p, !.tasks = IF p.ask THEN Tasks({}, TRUE) ELSE @])
  /\ UNCHANGED history

Planner == \E p \in {RealtimeDefaults(q, turn) : q \in Plans} \cup {UnparsedPlan(turn)} : Plan(p)

AllowedCommands(t) == IF t.plan = NoPlan THEN {} ELSE t.plan.names \cap CommandTools
AllowedTools(t) == IF t.plan = NoPlan THEN {} ELSE t.plan.tools \cap t.mcp

\* The policy asks the user, in the order of its checks only the wording differs.
MustAsk(t) ==
  \/ t.plan.command /\ (t.plan.risk = "high" \/ ~t.plan.execute \/ AllowedCommands(t) = {})
  \/ Realtime(t) /\ t.plan.tools = {}
  \/ t.plan.tools # {} /\ AllowedTools(t) = {}

ExecutionPolicy ==
  /\ turn.at = "execution_policy"
  /\ Leave(IF Answered(turn) \/ turn.plan = NoPlan \/ ~(turn.plan.unavailable \/ MustAsk(turn))
           THEN turn
           ELSE [turn EXCEPT !.tasks = Tasks({}, ~turn.plan.unavailable)])
  /\ UNCHANGED history

\* What the knowledge base answers only goes into prompts, as above.
RetrieveKnowledge ==
  /\ turn.at = "external_rag"
  /\ Leave(turn)
  /\ UNCHANGED history

\* should_force_realtime_mcp_task: without tasks a realtime plan gets one call.
Forced(t) ==
  /\ Realtime(t) /\ t.plan # NoPlan /\ ~t.plan.unavailable
  /\ t.plan.execute /\ ~t.plan.ask /\ AllowedTools(t) # {}

\* Mutant of PlanTasks: an empty answer leaves the turn without a task list.
PlanTasks_None(names, confirm) ==
  /\ turn.at = "plan_tasks" /\ ~Answered(turn) /\ turn.context
  /\ Leave([turn EXCEPT !.tasks = IF names = {} THEN NoTasks ELSE Tasks(names, confirm)])
  /\ UNCHANGED history

\* An error of the task model, too, leaves an empty task list.
PlanTasks(names, confirm) ==
  /\ turn.at = "plan_tasks" /\ ~Answered(turn) /\ turn.context
  /\ IF names = {} /\ Forced(turn)
     THEN \E tool \in AllowedTools(turn) : Leave([turn EXCEPT !.tasks = Tasks({tool}, FALSE)])
     ELSE Leave([turn EXCEPT !.tasks = Tasks(names, confirm)])
  /\ UNCHANGED history

ValidTask(n, t) ==
  IF n \in McpTools
  THEN n \in t.mcp /\ (AllowedTools(t) = {} \/ n \in AllowedTools(t))
  ELSE n \in Helpers /\ (AllowedCommands(t) = {} \/ n \in AllowedCommands(t))

ValidateAutoTasks ==
  /\ turn.at = "validate_tasks"
  /\ LET names == turn.tasks.names
         valid == {n \in names : ValidTask(n, turn)}
         promised == turn.plan # NoPlan /\ turn.plan.execute /\ turn.plan.tools # {}
     IN Leave(IF Answered(turn)
              THEN [turn EXCEPT !.tasks.names = valid,
                                !.tasks.confirm = @ \/ (names = {} /\ promised) \/ (names # {} /\ valid = {})]
              ELSE turn)
  /\ UNCHANGED history

PersistAssistantReply ==
  /\ turn.at = "persist"
  /\ history' = IF Answered(turn) THEN Append(history, "assistant") ELSE history
  /\ Leave(turn)

\* Nodes that find the turn answered, or their input missing, do nothing.
NothingToDo ==
  /\ turn.at \in {"route", "plan", "plan_tasks"}
  /\ Answered(turn) \/ (turn.at # "route" /\ ~turn.context)
  /\ Leave(turn)
  /\ UNCHANGED history

\* The error of a model call, or a context that cannot be parsed, ends the turn;
\* the task model's errors are caught in PlanTasks.
CallFails ==
  /\ \/ turn.at = "summary_history"
     \/ turn.at \in {"route", "extract"} /\ ~Answered(turn)
     \/ turn.at = "plan" /\ ~Answered(turn) /\ turn.context
     \/ turn.at = "direct_vision_reply" /\ ~Answered(turn) /\ DirectVision(turn)
  /\ turn' = [turn EXCEPT !.at = "failed"]
  /\ UNCHANGED history

\* The result, or the error, is handed to the session; its next turn may begin.
EndTurn ==
  /\ turn.at \in {"ended", "failed"}
  /\ turn' = Idle /\ history' = <<>>
  /\ UNCHANGED <<file, snapshot>>

\* WorkflowApprovalBuilder: what the turn hands over waits for the user.
NeedsApproval(t) ==
  \/ t.plan # NoPlan /\ t.plan.ask
  \/ t.route # NoRoute /\ t.route.confirm
  \/ Answered(t) /\ t.tasks.confirm
Executes(t) == t.at = "ended" /\ Answered(t) /\ t.tasks.names # {} /\ ~NeedsApproval(t)

-----------------------------------------------------------------------------
Init ==
  /\ file = [is |-> "absent", graph |-> NoGraph, mtime |-> 0]
  /\ snapshot = [graph |-> DefaultGraph, mtime |-> 0]
  /\ turn = Idle
  /\ history = <<>>

RunNode ==
  /\ \/ SummaryHistory
     \/ \E image \in BOOLEAN : NormalizeInput(image)
     \/ AppendUserMessage
     \/ \E r \in Routes \cup {UnparsedRoute} : IntentRoute(r)
     \/ RetrieveLocalKnowledge
     \/ DirectVisionReply
     \/ ExtractContext
     \/ Planner
     \/ ExecutionPolicy
     \/ RetrieveKnowledge
     \/ \E names \in TaskNames \cup {{}}, confirm \in BOOLEAN : PlanTasks(names, confirm)
     \/ ValidateAutoTasks
     \/ PersistAssistantReply
     \/ NothingToDo
     \/ CallFails
  /\ UNCHANGED <<file, snapshot>>

Next ==
  \/ RunNode
  \/ EndTurn
  \/ \E tools \in SUBSET McpTools : StartTurn(tools)
  \/ \E g \in Drafts : ApplyDraft(g)
  \/ \E f \in Files : EditFile(f)

\* Every call of a node ends: the gateway gives the model calls a timeout, and
\* the others are caught.
Spec == Init /\ [][Next]_vars /\ WF_vars(RunNode)

-----------------------------------------------------------------------------
(* Properties                                                              *)

\* Whatever is drawn, written into the file or reloaded while a turn runs, the
\* turn comes to its end: the store never runs a graph with a cycle.
TurnEnds == Running(turn) ~> ~Running(turn)

\* In every graph the store may run that has one node of each type, a guard that
\* was visited binds: after execution_policy no command of a high-risk,
\* unfinished or unknown plan is carried out unasked, and after validate_tasks
\* only visible commands and offered tools, and none outside the plan's
\* candidates.  The graph's order is validated on one linearisation; that it
\* holds on every path is the point.  The reload of a file written by hand does
\* not refuse a second node of a type (orchestration_config.py:347, against 392),
\* and there the guards do not bind: a plan_tasks before the policy answers the
\* turn, the policy leaves it alone, and the last plan_tasks satisfies the order.
GuardsBind ==
  Executes(turn) /\ UniqueTypes(turn.graph) =>
    /\ "execution_policy" \in turn.ran /\ turn.plan # NoPlan /\ turn.plan.command =>
         turn.plan.risk # "high" /\ turn.plan.execute /\ AllowedCommands(turn) # {}
    /\ "validate_tasks" \in turn.ran => \A n \in turn.tasks.names : ValidTask(n, turn)

\* A turn of the default graph that does not fail leaves one question and one
\* answer in the session, whichever way it took and whatever happened to the
\* configuration meanwhile, so that the next turn reads a whole conversation.
QuestionAndAnswer ==
  turn.at = "ended" /\ turn.graph = DefaultGraph => history = <<"user", "assistant">>

=============================================================================
