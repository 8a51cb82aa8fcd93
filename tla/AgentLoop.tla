------------------------------ MODULE AgentLoop ------------------------------
(***************************************************************************)
(* The observation driven execution of one agent workflow:                  *)
(* CognitiveAgentLoop.execute and what it calls (core/agent/runtime/        *)
(* loop.py), together with the two things a user may answer when the loop   *)
(* stops to ask: "confirm" (clone_workflow_for_execution, then a second     *)
(* execution) and "cancel".                                                 *)
(*                                                                         *)
(* A step is a call of a capability (a project command or an MCP tool).     *)
(* While steps are pending the loop calls them in order; once none is left  *)
(* it may ask the model for a follow-up action.  A budget bounds the        *)
(* number of calls, of calls of one action, and of checks of one target.    *)
(* The texts of replies, the event time line and the live trace are left    *)
(* out; the live trace has a module of its own.                             *)
(***************************************************************************)
EXTENDS Integers, Sequences, FiniteSets

CONSTANTS
  Caps,              \* names of capabilities
  CommandTools,      \* those in the catalogue of project commands
  McpTools,          \* those in the catalogue of MCP tools
  HighRisk,          \* commands the catalogue marks as high risk
  Params,            \* abstract argument lists
  Rewritten,         \* the arguments a rewritten search query yields
  Targets,           \* what the model may name as verify_target
  None,              \* no capability, no target
  Plans,             \* the plans a workflow may be built from
  MaxSteps,          \* AgentLoopConfig.max_steps
  MaxRepeatActions,  \* AgentLoopConfig.max_repeat_actions
  MaxVerifyAttempts, \* AgentLoopConfig.max_verify_attempts
  MaxResumes         \* bound: how often the user confirms

\* The only types WorkflowStepBuilder gives a step.
StepTypes == {"command", "mcp_tool"}

\* "finish" stands for "respond" too, "skill" for "schedule": the code treats
\* them alike.
ActionTypes ==
  {"command", "mcp_tool", "verify", "skill", "confirm", "stop", "finish"}

ASSUME CapabilityAssumption ==
  /\ CommandTools \subseteq Caps
  /\ McpTools \subseteq Caps
  /\ HighRisk \subseteq CommandTools
  /\ Targets \subseteq Caps
  /\ Rewritten \in Params
  /\ None \notin Caps

\* with_safe_defaults replaces every non-positive limit by a positive one.
ASSUME LimitAssumption ==
  /\ MaxSteps \in Nat \ {0}
  /\ MaxRepeatActions \in Nat \ {0}
  /\ MaxVerifyAttempts \in Nat \ {0}
  /\ MaxResumes \in Nat

\* A plan is never empty: the entry point runs a workflow only if it has steps.
PlannedStep == [cap : Caps, type : StepTypes, params : Params]

ASSUME PlanAssumption == \A p \in Plans : p \in Seq(PlannedStep) /\ p # <<>>

VARIABLES
  steps,      \* workflow.steps
  status,     \* workflow.status
  need,       \* workflow.need_confirm
  pending,    \* pending_steps, as indexes into steps
  pc,         \* where the execution is
  cur,        \* the call under way, as a record of sent
  fact,       \* what the last interpreted observation says
  used,       \* LoopBudget.steps_used
  repeats,    \* LoopBudget.repeat_actions
  verifies,   \* LoopBudget.verify_attempts
  overtime,   \* elapsed_seconds() > max_runtime_seconds
  sent,       \* history: the calls made by this execution, in order
  planned,    \* history: how many steps this execution started with
  resumes     \* history: how often the user confirmed

budget == <<used, repeats, verifies, overtime>>
vars == <<steps, status, need, pending, pc, cur, fact, budget, sent, planned,
          resumes>>

Statuses == {"planned", "running", "completed", "failed", "needs_confirm",
             "cancelled"}
StepStatuses == {"pending", "running", "completed", "failed"}
Approvals == {"not_required", "pending", "approved", "rejected"}
Facts == {"none", "failure", "verified", "changed", "absent", "plain"}

Step == [cap : Caps, type : StepTypes, params : Params, high : BOOLEAN,
         status : StepStatuses, approval : Approvals]
ActionKeys == ActionTypes \X (Caps \cup {None}) \X Params
Call == [step : Nat \ {0}, action : ActionTypes, cap : Caps, params : Params,
         target : Targets \cup {None}]
NoCall == [step |-> 0]

-----------------------------------------------------------------------------
(* Decisions.                                                              *)

Decision == [action : ActionTypes, cap : Caps \cup {None}, params : Params,
             target : Targets \cup {None}]

\* AgentLoopDecision.from_step
FromStep(s) ==
  [action |-> s.type, cap |-> s.cap, params |-> s.params, target |-> None]

FinishDecision == [action |-> "finish", cap |-> None, params |-> Rewritten,
                   target |-> None]
StopDecision == [FinishDecision EXCEPT !.action = "stop"]

HasCommand(cap) == cap \in CommandTools
HasMcpTool(cap) == cap \in McpTools
InCatalogue(d) ==
  /\ d.action \in {"command", "verify"} => HasCommand(d.cap)
  /\ d.action = "mcp_tool" => HasMcpTool(d.cap)

\* What decide_with_llm can return.  A failed model call or an answer that
\* cannot be parsed is a "finish", a capability outside the catalogue a "stop".
ModelDecisions ==
  {d \in Decision : InCatalogue(d)} \cup {StopDecision, FinishDecision}

\* should_ask_model_for_followup
AskModel == fact \in {"changed", "absent"} /\ CommandTools # {}

Decides(d) ==
  IF pending # <<>> THEN d = FromStep(steps[Head(pending)])
  ELSE IF AskModel THEN d \in ModelDecisions
  ELSE d = FinishDecision

-----------------------------------------------------------------------------
(* The budget.                                                             *)

ActionKey(d) == <<d.action, d.cap, d.params>>

\* verify_target_key
VerifyTarget(d) ==
  IF d.target # None THEN d.target
  ELSE IF d.action = "verify" THEN d.cap
  ELSE None

\* Mutant of OverBudget: one check of a target too many.
OverBudget_VerifyOffByOne(d) ==
  \/ overtime
  \/ used >= MaxSteps
  \/ VerifyTarget(d) # None /\ verifies[VerifyTarget(d)] > MaxVerifyAttempts
  \/ repeats[ActionKey(d)] >= MaxRepeatActions

\* LoopBudget.check returns a reason to stop
OverBudget(d) ==
  \/ overtime
  \/ used >= MaxSteps
  \/ /\ VerifyTarget(d) # None
     /\ verifies[VerifyTarget(d)] >= MaxVerifyAttempts
  \/ repeats[ActionKey(d)] >= MaxRepeatActions

Consume(d) ==
  /\ used' = used + 1
  /\ repeats' = [repeats EXCEPT ![ActionKey(d)] = @ + 1]
  /\ verifies' = IF VerifyTarget(d) = None THEN verifies
                 ELSE [verifies EXCEPT ![VerifyTarget(d)] = @ + 1]

FreshBudget ==
  /\ used' = 0
  /\ repeats' = [k \in ActionKeys |-> 0]
  /\ verifies' = [t \in Caps |-> 0]
  /\ overtime' = FALSE

-----------------------------------------------------------------------------
(* From a decision to a step.                                              *)

\* The head of the pending steps is taken when it is the one decided upon.
TakesHead(d) == pending # <<>> /\ steps[Head(pending)].cap = d.cap

\* Otherwise the loop makes a step of its own, if the capability is known.
Resolvable(d) == TakesHead(d) \/ (d.cap # None /\ InCatalogue(d))

NewStep(d) ==
  [cap |-> d.cap, type |-> IF d.action = "mcp_tool" THEN "mcp_tool" ELSE "command",
   params |-> d.params, high |-> d.action # "mcp_tool" /\ d.cap \in HighRisk,
   status |-> "pending", approval |-> "not_required"]

StepsWith(d) == IF TakesHead(d) THEN steps ELSE Append(steps, NewStep(d))
StepIndex(d) == IF TakesHead(d) THEN Head(pending) ELSE Len(steps) + 1
\* Mutant of PendingAfter: the step taken is not removed.
PendingAfter_NoPop(d) == pending

PendingAfter(d) == IF TakesHead(d) THEN Tail(pending) ELSE pending

\* Mutant of RequiresConfirmation: the risk of the step is not looked at.
RequiresConfirmation_NoRisk(s, d) == d.action = "confirm"

RequiresConfirmation(s, d) == s.high \/ d.action = "confirm"

WithStatus(s, i, x) == [s EXCEPT ![i].status = x]
Asking(s, i) == [s EXCEPT ![i].status = "pending", ![i].approval = "pending"]

Supported(s, d) ==
  \/ s.type = "mcp_tool" /\ d.action = "mcp_tool"
  \/ s.type = "command" /\ d.action \in {"command", "verify"}

-----------------------------------------------------------------------------
(* The workflow as WorkflowBuilder hands it over: without approval, or      *)
(* waiting for one.  The high risk steps are marked unless the approval is  *)
(* about missing information.  When the task list asked, the entry point    *)
(* stores the workflow unexecuted; when the plan asked, it calls execute;   *)
(* when only the route or missing information asked, the status stays       *)
(* "planned".                                                               *)

BuildSteps(p, approval) ==
  [i \in 1..Len(p) |->
     [cap |-> p[i].cap, type |-> p[i].type, params |-> p[i].params,
      high |-> p[i].type = "command" /\ p[i].cap \in HighRisk,
      status |-> "pending",
      approval |-> IF p[i].type = "command" /\ p[i].cap \in HighRisk
                   THEN approval ELSE "not_required"]]

Init ==
  /\ \E p \in Plans :
       \/ /\ steps = BuildSteps(p, "not_required")
          /\ need = FALSE /\ status = "planned" /\ pc = "idle"
       \/ /\ \E approval \in {"pending", "not_required"} :
               steps = BuildSteps(p, approval)
          /\ need = TRUE
          /\ \/ status = "needs_confirm" /\ pc \in {"idle", "returned"}
             \/ status = "planned" /\ pc = "idle"
  /\ pending = <<>> /\ cur = NoCall /\ fact = "none" /\ sent = <<>>
  /\ planned = 0 /\ resumes = 0
  /\ used = 0 /\ repeats = [k \in ActionKeys |-> 0]
  /\ verifies = [t \in Caps |-> 0] /\ overtime = FALSE

\* execute, first lines: a workflow that waits for confirmation is not run.
RefuseUnconfirmed ==
  /\ pc = "idle"
  /\ need \/ status = "needs_confirm"
  /\ pc' = "returned"
  /\ UNCHANGED <<steps, status, need, pending, cur, fact, budget, sent,
                 planned, resumes>>

StartLoop ==
  /\ pc = "idle"
  /\ ~need /\ status # "needs_confirm"
  /\ pc' = "deciding"
  /\ status' = "running"
  /\ pending' = [i \in 1..Len(steps) |-> i]
  /\ planned' = Len(steps)
  /\ fact' = "none" /\ sent' = <<>> /\ cur' = NoCall
  /\ FreshBudget
  /\ UNCHANGED <<steps, need, resumes>>

-----------------------------------------------------------------------------
(* One iteration of the loop: decide, then one of the branches below.      *)

Leave(newStatus) ==
  /\ pc' = "returned"
  /\ status' = newStatus
  /\ UNCHANGED <<cur, fact, sent, planned, resumes, overtime>>

NoNewStep == UNCHANGED <<steps, pending, used, repeats, verifies>>

\* Mutant of Finish: the break is missing.
Finish_NoBreak ==
  /\ pc = "deciding"
  /\ \E d \in Decision : Decides(d) /\ d.action = "finish"
  /\ status' = "completed" /\ NoNewStep
  /\ UNCHANGED <<pc, need, cur, fact, sent, planned, resumes, overtime>>

Finish ==
  /\ pc = "deciding"
  /\ \E d \in Decision : Decides(d) /\ d.action = "finish"
  /\ Leave("completed") /\ NoNewStep /\ UNCHANGED need

StopOnDecision ==
  /\ pc = "deciding"
  /\ \E d \in Decision : Decides(d) /\ d.action = "stop"
  /\ Leave("failed") /\ NoNewStep /\ UNCHANGED need

\* apply_decision_confirmation_stop
AskUser ==
  /\ pc = "deciding"
  /\ \E d \in Decision : Decides(d) /\ d.action = "confirm"
  /\ Leave("needs_confirm") /\ need' = TRUE /\ NoNewStep

IsCall(d) == Decides(d) /\ d.action \notin {"finish", "stop", "confirm"}

BudgetStop ==
  /\ pc = "deciding"
  /\ \E d \in Decision : IsCall(d) /\ OverBudget(d)
  /\ Leave("failed") /\ NoNewStep /\ UNCHANGED need

\* apply_invalid_decision_stop: the budget is consumed first.
InvalidDecision ==
  /\ pc = "deciding"
  /\ \E d \in Decision :
       IsCall(d) /\ ~OverBudget(d) /\ ~Resolvable(d) /\ Consume(d)
  /\ Leave("failed") /\ UNCHANGED <<steps, pending, need>>

Resolves(d) ==
  /\ IsCall(d) /\ ~OverBudget(d) /\ Resolvable(d)
  /\ Consume(d)
  /\ pending' = PendingAfter(d)

\* Mutant of ConfirmStep: need_confirm is not set.
ConfirmStep_NeedNotSet ==
  /\ pc = "deciding"
  /\ \E d \in Decision :
       /\ Resolves(d)
       /\ RequiresConfirmation(StepsWith(d)[StepIndex(d)], d)
       /\ steps' = [StepsWith(d) EXCEPT ![StepIndex(d)].approval = "pending"]
  /\ Leave("needs_confirm") /\ UNCHANGED need

\* apply_confirmation_stop
ConfirmStep ==
  /\ pc = "deciding"
  /\ \E d \in Decision :
       /\ Resolves(d)
       /\ RequiresConfirmation(StepsWith(d)[StepIndex(d)], d)
       /\ steps' = Asking(StepsWith(d), StepIndex(d))
  /\ Leave("needs_confirm") /\ need' = TRUE

\* apply_unsupported_step_stop
UnsupportedStep ==
  /\ pc = "deciding"
  /\ \E d \in Decision :
       /\ Resolves(d)
       /\ ~RequiresConfirmation(StepsWith(d)[StepIndex(d)], d)
       /\ ~Supported(StepsWith(d)[StepIndex(d)], d)
       /\ steps' = WithStatus(StepsWith(d), StepIndex(d), "failed")
  /\ Leave("failed") /\ UNCHANGED need

\* execute_command_step and execute_mcp_step up to the await.
CallTool ==
  /\ pc = "deciding"
  /\ \E d \in Decision :
       LET call == [step |-> StepIndex(d), action |-> d.action, cap |-> d.cap,
                    params |-> d.params, target |-> d.target]
       IN /\ Resolves(d)
          /\ ~RequiresConfirmation(StepsWith(d)[StepIndex(d)], d)
          /\ Supported(StepsWith(d)[StepIndex(d)], d)
          /\ steps' = WithStatus(StepsWith(d), StepIndex(d), "running")
          /\ cur' = call
          /\ sent' = Append(sent, call)
  /\ pc' = "calling"
  /\ UNCHANGED <<status, need, fact, overtime, planned, resumes>>

-----------------------------------------------------------------------------
(* The answer of the tool: after the await.                                *)

Answered ==
  /\ pc = "calling"
  /\ cur' = NoCall
  /\ UNCHANGED <<need, budget, sent, planned, resumes>>

ToolSucceeds ==
  /\ Answered
  /\ fact' \in Facts \ {"none", "failure"}
  /\ steps' = WithStatus(steps, cur.step, "completed")
  /\ pc' = "deciding"
  /\ UNCHANGED <<status, pending>>

\* Mutant of SearchMisses: the retry is added to the workflow, not scheduled.
SearchMisses_NotScheduled ==
  /\ Answered
  /\ steps[cur.step].type = "mcp_tool" /\ cur.params # Rewritten
  /\ fact' \in Facts \ {"none", "failure"}
  /\ steps' = Append(WithStatus(steps, cur.step, "completed"),
                     [steps[cur.step] EXCEPT !.status = "pending",
                                             !.params = Rewritten])
  /\ pc' = "deciding"
  /\ UNCHANGED <<status, pending>>

\* enqueue_low_relevance_retry: a search that missed is tried once more, with
\* a rewritten query; a query that was rewritten is not rewritten again.
SearchMisses ==
  /\ Answered
  /\ steps[cur.step].type = "mcp_tool" /\ cur.params # Rewritten
  /\ fact' \in Facts \ {"none", "failure"}
  /\ steps' = Append(WithStatus(steps, cur.step, "completed"),
                     [steps[cur.step] EXCEPT !.status = "pending",
                                             !.approval = "not_required",
                                             !.params = Rewritten])
  /\ pending' = <<Len(steps) + 1>> \o pending
  /\ pc' = "deciding"
  /\ UNCHANGED status

\* Mutant of ToolFails: the loop goes on after a failed observation.
ToolFails_GoesOn ==
  /\ Answered
  /\ fact' = "failure"
  /\ steps' = WithStatus(steps, cur.step, "failed")
  /\ pc' = "deciding"
  /\ UNCHANGED <<status, pending>>

\* has_failed_observation
ToolFails ==
  /\ Answered
  /\ fact' = "failure"
  /\ steps' = WithStatus(steps, cur.step, "failed")
  /\ status' = "failed"
  /\ pc' = "returned"
  /\ UNCHANGED pending

\* A command handler that raises is not caught: the exception leaves execute.
\* MCPClient.call_tool answers every error with a result and never raises.
ToolRaises ==
  /\ Answered
  /\ steps[cur.step].type = "command"
  /\ pc' = "raised"
  /\ UNCHANGED <<steps, status, pending, fact>>

TimePasses ==
  /\ pc \in {"deciding", "calling"}
  /\ ~overtime
  /\ overtime' = TRUE
  /\ UNCHANGED <<steps, status, need, pending, pc, cur, fact, used, repeats,
                 verifies, sent, planned, resumes>>

-----------------------------------------------------------------------------
(* The user's answer to a workflow that waits.                             *)

\* workflow_requires_confirmation and the status record_workflow looks for.
Awaiting == pc = "returned" /\ status = "needs_confirm" /\ need /\ steps # <<>>

Settle(approval) ==
  [i \in DOMAIN steps |->
     [steps[i] EXCEPT !.approval = IF @ = "not_required" THEN @ ELSE approval]]

\* clone_workflow_for_execution: every step is pending again.
Confirm ==
  /\ Awaiting
  /\ resumes < MaxResumes
  /\ resumes' = resumes + 1
  /\ steps' = [i \in DOMAIN steps |->
                 [Settle("approved")[i] EXCEPT !.status = "pending"]]
  /\ status' = "planned" /\ need' = FALSE /\ pc' = "idle"
  /\ UNCHANGED <<pending, cur, fact, budget, sent, planned>>

Cancel ==
  /\ Awaiting
  /\ steps' = Settle("rejected")
  /\ status' = "cancelled"
  /\ UNCHANGED <<need, pending, pc, cur, fact, budget, sent, planned, resumes>>

-----------------------------------------------------------------------------
Execute ==
  \/ RefuseUnconfirmed \/ StartLoop
  \/ Finish \/ StopOnDecision \/ AskUser \/ BudgetStop \/ InvalidDecision
  \/ ConfirmStep \/ UnsupportedStep \/ CallTool

Tool == ToolSucceeds \/ SearchMisses \/ ToolFails \/ ToolRaises

User == Confirm \/ Cancel

Next == Execute \/ Tool \/ TimePasses \/ User

Spec == Init /\ [][Next]_vars

\* The event loop runs a ready coroutine, and a tool call ends: MCP calls have
\* a timeout, service handlers are assumed to return.  The user owes nothing.
FairSpec == Spec /\ WF_vars(Execute) /\ WF_vars(Tool)

-----------------------------------------------------------------------------
(* Properties.                                                             *)

TypeOK ==
  /\ steps \in Seq(Step)
  /\ status \in Statuses /\ need \in BOOLEAN
  /\ pending \in Seq(1..Len(steps))
  /\ pc \in {"idle", "deciding", "calling", "returned", "raised"}
  /\ cur \in Call \cup {NoCall}
  /\ fact \in Facts
  /\ used \in Nat /\ repeats \in [ActionKeys -> Nat]
  /\ verifies \in [Caps -> Nat] /\ overtime \in BOOLEAN
  /\ sent \in Seq(Call)
  /\ planned \in Nat /\ resumes \in Nat

CallsOf(k) == {i \in DOMAIN sent : ActionKey(sent[i]) = k}
ChecksOf(t) == {i \in DOMAIN sent : VerifyTarget(sent[i]) = t}

\* Whatever the model answers and however often searches are retried, one
\* execution makes at most max_steps calls, at most max_repeat_actions of them
\* the same action, and checks no target more than max_verify_attempts times
\* (AgentLoopConfig and LoopBudget promise this of execute).
CallsWithinBudget ==
  /\ Len(sent) <= MaxSteps
  /\ \A k \in ActionKeys : Cardinality(CallsOf(k)) <= MaxRepeatActions
  /\ \A t \in Caps : Cardinality(ChecksOf(t)) <= MaxVerifyAttempts

\* The steps the execution started with are called in their order and each at
\* most once, also when retries and follow-up steps are put between them.
PlanOrder ==
  \A i, j \in DOMAIN sent :
    i < j /\ sent[i].step <= planned /\ sent[j].step <= planned
      => sent[i].step < sent[j].step

\* A workflow reported as completed has no step left undone: neither a planned
\* one nor a retry or a follow-up the loop added itself.
CompletedMeansAllDone ==
  status = "completed" => \A i \in DOMAIN steps : steps[i].status = "completed"

\* The first failing step ends the execution: no tool is called and no decision
\* is taken while some step of the workflow has failed.
FailureStops ==
  (\E i \in DOMAIN steps : steps[i].status = "failed")
    => pc = "returned" /\ status = "failed"

\* A high risk command is never called before the user approved that step.
HighRiskApproved ==
  pc = "calling" =>
    (steps[cur.step].high => steps[cur.step].approval = "approved")

\* A workflow shown to the user as awaiting an answer is one that the answer can
\* resume or cancel, and a workflow that ran to its end awaits nothing: the two
\* fields that record_workflow and the checkpoint look at never disagree after
\* an execution, unless the user cancelled.  (What the builder hands over may
\* disagree: see Init.)
AskedIsResumable ==
  pc = "returned" /\ planned > 0 /\ status # "cancelled" =>
    (status = "needs_confirm" <=> need)

\* Every execution ends: whatever the model decides, the loop returns, or a
\* command handler raised.
LoopReturns == (status = "running" /\ pc = "deciding") ~> (pc \in {"returned", "raised"})

\* A step the user approved is not put up for approval again.
ApprovalHonoured ==
  [][\A i \in DOMAIN steps :
       steps[i].approval = "approved" => steps'[i].approval # "pending"]_vars
=============================================================================
