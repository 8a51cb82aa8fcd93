----------------------------- MODULE ChatSession -----------------------------
(***************************************************************************)
(* The turns of one user: the AutoGPT entry point (plugins/application/     *)
(* active/autogpt), the ChatSession it talks to (core/agent/runtime/        *)
(* util.py), the session registry, and the two stores behind it (core/agent/*)
(* runtime/persistence): the user's one workflow checkpoint and the history *)
(* of runs.                                                                 *)
(*                                                                         *)
(* Every message is handled by a coroutine of its own; the coroutines of    *)
(* one process interleave only where they await.  An action is the code     *)
(* between two awaits.  The execution of a workflow is abstracted to its    *)
(* result (see AgentLoop for how it comes about), the pipeline that plans a *)
(* turn to the kinds of workflow it may build.  Message texts, prompts and  *)
(* the contents of the conversation are left out, and so is the final reply *)
(* that follows the last save: it changes nothing described here.           *)
(***************************************************************************)
EXTENDS Integers

CONSTANTS
  MaxTurns,     \* bound: messages the user sends
  MaxCrashes,   \* bound: crashes of the process
  MaxFailures,  \* bound: database operations that fail
  UserWaits     \* does the user send a message only when no turn is under way?

ASSUME BoundAssumption ==
  /\ MaxTurns \in Nat /\ MaxCrashes \in Nat /\ MaxFailures \in Nat
  /\ UserWaits \in BOOLEAN

\* A turn is numbered in the order of arrival; its number is its trace id, and
\* names the session that was created for it.  0 stands for no turn.
Turns == 1..MaxTurns
NoTurn == 0
TurnOrNone == Turns \cup {NoTurn}

Messages == {"request", "confirm", "cancel", "clear"}

VARIABLES
  turn,       \* the coroutine of each turn: where it awaits, and its locals
  live,       \* chat_session_manager.sessions[user_id]
  session,    \* the ChatSession objects
  checkpoint, \* the row of AgentWorkflowCheckpoint
  runs,       \* status of the rows of AgentWorkflowRun, by trace id
  ran,        \* history: executions of the workflow asked about in a turn
  clean,      \* history: no operation failed, no two saves overlapped, and
              \* no session was cleared while another turn was under way
  crashes, failures

vars == <<turn, live, session, checkpoint, runs, ran, clean, crashes, failures>>

Statuses == {"planned", "running", "needs_confirm", "completed", "failed",
             "cancelled"}
Workflow == [trace : Turns, source : TurnOrNone, status : Statuses,
             need : BOOLEAN, steps : BOOLEAN]
NoWorkflow == [trace |-> NoTurn]
WorkflowOrNone == Workflow \cup {NoWorkflow}

Labels == {"absent", "fetched", "entered", "loading", "planning",
           "savingAnswer", "savingCancel", "savingAsked", "savingResult",
           "replying", "calling", "clearing", "done", "lost"}

\* byTasks is auto_tasks.need_confirm of the turn's result; loaded is the
\* checkpoint it has read and not yet used.
Turn == [pc : Labels, msg : Messages, ses : TurnOrNone, wf : WorkflowOrNone,
         byTasks : BOOLEAN, loaded : WorkflowOrNone]
Session == [lock : BOOLEAN, pending : WorkflowOrNone, lastTrace : TurnOrNone]

\* A turn outside its handler keeps no locals.
Outside(label) ==
  [pc |-> label, msg |-> "request", ses |-> NoTurn, wf |-> NoWorkflow,
   byTasks |-> FALSE, loaded |-> NoWorkflow]
FreshSession == [lock |-> FALSE, pending |-> NoWorkflow, lastTrace |-> NoTurn]

InFlight(t) == turn[t].pc \notin {"absent", "done", "lost"}
Saving(t) ==
  turn[t].pc \in {"savingAnswer", "savingCancel", "savingAsked", "savingResult"}
\* The turn is inside send_message, past its check of the lock.
Inside(t) ==
  turn[t].pc \in {"entered", "loading", "planning", "savingAnswer", "savingCancel"}

Init ==
  /\ turn = [t \in Turns |-> Outside("absent")]
  /\ live = NoTurn
  /\ session = [s \in Turns |-> FreshSession]
  /\ checkpoint = NoWorkflow
  /\ runs = [t \in Turns |-> "absent"]
  /\ ran = [t \in Turns |-> 0]
  /\ clean = TRUE /\ crashes = 0 /\ failures = 0

End(t) == turn' = [turn EXCEPT ![t] = Outside("done")]

\* record_workflow is called: its save is awaited from now on.
StartsSave == clean' = (clean /\ \A u \in Turns : ~Saving(u))

OperationFails ==
  /\ failures < MaxFailures
  /\ failures' = failures + 1
  /\ clean' = FALSE

-----------------------------------------------------------------------------
(* A message arrives: get_chat_session drops sessions unused for an hour,   *)
(* and creates one if none is left.  No turn is assumed to last an hour, so *)
(* a session is dropped only while no turn holds it.                        *)

Arrive(t, m) ==
  /\ turn[t].pc = "absent"
  /\ \A u \in Turns : u < t => turn[u].pc # "absent"
  /\ UserWaits => \A u \in Turns : ~InFlight(u)
  /\ \E expired \in BOOLEAN :
       /\ expired => \A u \in Turns : InFlight(u) => turn[u].ses # live
       /\ live' = IF live = NoTurn \/ expired THEN t ELSE live
  /\ turn' = [turn EXCEPT ![t].pc = "fetched", ![t].msg = m, ![t].ses = live']
  /\ UNCHANGED <<session, checkpoint, runs, ran, clean, crashes, failures>>

-----------------------------------------------------------------------------
(* send_message up to its first await.  The entry point looks at the lock   *)
(* first, without an await between its check and the one of send_message.   *)

\* Mutant of Enter: the lock is not looked at.
Enter_IgnoresLock(t) ==
  /\ turn[t].pc = "fetched" /\ turn[t].msg # "clear"
  /\ session' = [session EXCEPT ![turn[t].ses].lock = TRUE,
                                ![turn[t].ses].lastTrace = t]
  /\ turn' = [turn EXCEPT ![t].pc = "entered"]
  /\ UNCHANGED <<live, checkpoint, runs, ran, clean, crashes, failures>>

Enter(t) ==
  /\ turn[t].pc = "fetched" /\ turn[t].msg # "clear"
  /\ ~session[turn[t].ses].lock
  /\ session' = [session EXCEPT ![turn[t].ses].lock = TRUE,
                                ![turn[t].ses].lastTrace = t]
  /\ turn' = [turn EXCEPT ![t].pc = "entered"]
  /\ UNCHANGED <<live, checkpoint, runs, ran, clean, crashes, failures>>

Refuse(t) ==
  /\ turn[t].pc = "fetched" /\ turn[t].msg # "clear"
  /\ session[turn[t].ses].lock
  /\ End(t)
  /\ UNCHANGED <<live, session, checkpoint, runs, ran, clean, crashes, failures>>

-----------------------------------------------------------------------------
(* The pending workflow and the user's answer to it.                        *)

\* clone_workflow_for_execution
Clone(w, t) ==
  [w EXCEPT !.source = w.trace, !.trace = t, !.status = "planned", !.need = FALSE]

Cancelled(w) == [w EXCEPT !.status = "cancelled"]

\* workflow_requires_confirmation, with the status record_workflow asks for.
AwaitsAnswer(w) ==
  w # NoWorkflow /\ w.need /\ w.steps /\ w.status = "needs_confirm"

\* Mutant of PendingAfter: a workflow that asks nothing clears nothing.
PendingAfter_NeverClears(old, w) == IF AwaitsAnswer(w) THEN w ELSE old

\* record_workflow up to its first await: what becomes of pending_workflow.
PendingAfter(old, w) ==
  IF AwaitsAnswer(w) THEN w
  ELSE IF w.status \in {"completed", "failed", "cancelled"} \/ ~w.need
    THEN NoWorkflow
    ELSE old

NoAnswer(t, p) ==
  /\ p = NoWorkflow \/ turn[t].msg = "request"
  /\ session' = [session EXCEPT ![turn[t].ses].pending = p]
  /\ turn' = [turn EXCEPT ![t].pc = "planning", ![t].loaded = NoWorkflow]
  /\ UNCHANGED clean

\* Mutant of Answer: the workflow stays pending while it is executed.
Answer_KeepsPending(t, p) ==
  /\ p # NoWorkflow
  /\ \/ /\ turn[t].msg = "confirm"
        /\ turn' = [turn EXCEPT ![t].pc = "savingAnswer", ![t].wf = Clone(p, t),
                                ![t].loaded = NoWorkflow]
     \/ /\ turn[t].msg = "cancel"
        /\ turn' = [turn EXCEPT ![t].pc = "savingCancel", ![t].wf = Cancelled(p),
                                ![t].loaded = NoWorkflow]
  /\ session' = [session EXCEPT ![turn[t].ses].pending = p]
  /\ StartsSave

\* resolve_pending_workflow_action, when p is the pending workflow.
Answer(t, p) ==
  /\ p # NoWorkflow
  /\ \/ /\ turn[t].msg = "confirm"
        /\ turn' = [turn EXCEPT ![t].pc = "savingAnswer", ![t].wf = Clone(p, t),
                                ![t].loaded = NoWorkflow]
     \/ /\ turn[t].msg = "cancel"
        /\ turn' = [turn EXCEPT ![t].pc = "savingCancel", ![t].wf = Cancelled(p),
                                ![t].loaded = NoWorkflow]
  /\ session' = [session EXCEPT ![turn[t].ses].pending = NoWorkflow]
  /\ StartsSave

Resolve(t, p) ==
  /\ NoAnswer(t, p) \/ Answer(t, p)
  /\ UNCHANGED <<live, checkpoint, runs, ran, crashes, failures>>

\* restore_pending_workflow, after backfill_recent_history was awaited.
RestoreFromMemory(t) ==
  /\ turn[t].pc = "entered"
  /\ session[turn[t].ses].pending # NoWorkflow
  /\ Resolve(t, session[turn[t].ses].pending)

Restorable(w) == w # NoWorkflow /\ w.status = "needs_confirm" /\ w.need

\* load_pending_workflow; a read that fails counts as no checkpoint.
ReadCheckpoint(t) ==
  /\ turn[t].pc = "entered"
  /\ session[turn[t].ses].pending = NoWorkflow
  /\ \/ /\ turn' = [turn EXCEPT ![t].pc = "loading",
             ![t].loaded = IF Restorable(checkpoint) THEN checkpoint ELSE NoWorkflow]
        /\ UNCHANGED <<clean, failures>>
     \/ /\ turn' = [turn EXCEPT ![t].pc = "loading"]
        /\ OperationFails
  /\ UNCHANGED <<live, session, checkpoint, runs, ran, crashes>>

\* What was read replaces what is pending by now, if anything was read.
RestoreFromCheckpoint(t) ==
  /\ turn[t].pc = "loading"
  /\ Resolve(t, IF turn[t].loaded # NoWorkflow THEN turn[t].loaded
                ELSE session[turn[t].ses].pending)

-----------------------------------------------------------------------------
(* What the pipeline builds for a turn.                                     *)

Built(t, status, need, steps) ==
  [trace |-> t, source |-> NoTurn, status |-> status, need |-> need,
   steps |-> steps]

\* The task list asks: the entry point records the workflow, with or without
\* steps.  The lock is free again before that save is awaited.
PlanAsks(t) ==
  /\ turn[t].pc = "planning"
  /\ \E steps \in BOOLEAN :
       LET w == Built(t, "needs_confirm", TRUE, steps)
       IN /\ turn' = [turn EXCEPT ![t].pc = "savingAsked", ![t].wf = w,
                                  ![t].byTasks = TRUE]
          /\ session' = [session EXCEPT
               ![turn[t].ses].pending = PendingAfter(@, w),
               ![turn[t].ses].lock = FALSE]
  /\ StartsSave
  /\ UNCHANGED <<live, checkpoint, runs, ran, crashes, failures>>

\* Otherwise: a plain reply, steps to run, steps the plan asks about, or steps
\* only the route asks about.
PlanEnds(t) ==
  /\ turn[t].pc = "planning"
  /\ \E w \in {Built(t, "planned", FALSE, FALSE), Built(t, "planned", FALSE, TRUE),
               Built(t, "needs_confirm", TRUE, TRUE), Built(t, "planned", TRUE, TRUE)} :
       turn' = [turn EXCEPT ![t].pc = "replying", ![t].wf = w]
  /\ session' = [session EXCEPT ![turn[t].ses].lock = FALSE]
  /\ UNCHANGED <<live, checkpoint, runs, ran, clean, crashes, failures>>

\* Mutant of PlanRaises: no finally clause releases the lock.
PlanRaises_KeepsLock(t) ==
  /\ turn[t].pc = "planning"
  /\ End(t)
  /\ UNCHANGED <<live, session, checkpoint, runs, ran, clean, crashes, failures>>

PlanRaises(t) ==
  /\ turn[t].pc = "planning"
  /\ End(t)
  /\ session' = [session EXCEPT ![turn[t].ses].lock = FALSE]
  /\ UNCHANGED <<live, checkpoint, runs, ran, clean, crashes, failures>>

-----------------------------------------------------------------------------
(* save_workflow and save_run.  An error of the database is logged and      *)
(* swallowed.  Turns that are inside send_message leave it.                 *)

RunAfter(w) == [runs EXCEPT ![w.trace] = w.status]

AfterSave(t) ==
  /\ IF turn[t].pc = "savingResult" THEN End(t)
     ELSE turn' = [turn EXCEPT ![t].pc = "replying"]
  /\ session' = IF Inside(t) THEN [session EXCEPT ![turn[t].ses].lock = FALSE]
                ELSE session
  /\ UNCHANGED <<live, ran, crashes>>

\* Mutant of Save: the checkpoint is written only for a workflow that asks.
Save_OnlyQuestions(t) ==
  /\ Saving(t)
  /\ checkpoint' = IF AwaitsAnswer(turn[t].wf) THEN turn[t].wf ELSE checkpoint
  /\ runs' = RunAfter(turn[t].wf)
  /\ AfterSave(t)
  /\ UNCHANGED <<clean, failures>>

Save(t) ==
  /\ Saving(t)
  /\ \/ /\ checkpoint' = turn[t].wf /\ runs' = RunAfter(turn[t].wf)
        /\ UNCHANGED <<clean, failures>>
     \/ checkpoint' = turn[t].wf /\ UNCHANGED runs /\ OperationFails
     \/ UNCHANGED checkpoint /\ runs' = RunAfter(turn[t].wf) /\ OperationFails
  /\ AfterSave(t)

-----------------------------------------------------------------------------
(* The first reply, then the execution.                                     *)

\* The steps of a confirmed or self-contained workflow; a turn that asked
\* through its task list, or cancelled, is over with its reply.
HasWork(t) ==
  /\ turn[t].pc = "replying"
  /\ turn[t].wf.steps /\ ~turn[t].byTasks /\ turn[t].wf.status # "cancelled"

\* Nothing to execute, or a reply the platform refuses (matcher.finish).
ReplyEndsTurn(t) ==
  /\ turn[t].pc = "replying"
  /\ End(t)
  /\ UNCHANGED <<live, session, checkpoint, runs, ran, clean, crashes, failures>>

\* execute refuses a workflow that still waits; record_workflow follows.
RefuseExecution(t) ==
  /\ HasWork(t)
  /\ turn[t].wf.need
  /\ session' = [session EXCEPT ![turn[t].ses].pending = PendingAfter(@, turn[t].wf)]
  /\ turn' = [turn EXCEPT ![t].pc = "savingResult"]
  /\ StartsSave
  /\ UNCHANGED <<live, checkpoint, runs, ran, crashes, failures>>

StartExecution(t) ==
  /\ HasWork(t)
  /\ ~turn[t].wf.need
  /\ turn' = [turn EXCEPT ![t].pc = "calling", ![t].wf.status = "running"]
  /\ ran' = IF turn[t].wf.source = NoTurn THEN ran
            ELSE [ran EXCEPT ![turn[t].wf.source] = @ + 1]
  /\ UNCHANGED <<live, session, checkpoint, runs, clean, crashes, failures>>

\* The loop returns, and record_workflow takes its result.
EndExecution(t) ==
  /\ turn[t].pc = "calling"
  /\ \E status \in {"completed", "failed", "needs_confirm"} :
       LET w == [turn[t].wf EXCEPT !.status = status,
                                   !.need = (status = "needs_confirm")]
       IN /\ turn' = [turn EXCEPT ![t].pc = "savingResult", ![t].wf = w]
          /\ session' = [session EXCEPT ![turn[t].ses].pending = PendingAfter(@, w)]
  /\ StartsSave
  /\ UNCHANGED <<live, checkpoint, runs, ran, crashes, failures>>

\* A command handler raised: nothing is recorded.
ExecutionRaises(t) ==
  /\ turn[t].pc = "calling"
  /\ End(t)
  /\ UNCHANGED <<live, session, checkpoint, runs, ran, clean, crashes, failures>>

-----------------------------------------------------------------------------
(* ChatSession.clear: it does not look at the lock, and pops whichever      *)
(* session is registered.                                                   *)

\* Mutant of ClearCheckpoint: only the session is cleared.
ClearCheckpoint_Skipped(t) ==
  /\ turn[t].pc = "fetched" /\ turn[t].msg = "clear"
  /\ turn' = [turn EXCEPT ![t].pc = "clearing"]
  /\ UNCHANGED <<live, session, checkpoint, runs, ran, clean, crashes, failures>>

ClearCheckpoint(t) ==
  /\ turn[t].pc = "fetched" /\ turn[t].msg = "clear"
  /\ \/ checkpoint' = NoWorkflow /\ UNCHANGED <<clean, failures>>
     \/ UNCHANGED checkpoint /\ OperationFails
  /\ turn' = [turn EXCEPT ![t].pc = "clearing"]
  /\ UNCHANGED <<live, session, runs, ran, crashes>>

\* Turns under way go on with the session object they hold, while the next
\* message gets a new one with a lock of its own.
DropSession(t) ==
  /\ turn[t].pc = "clearing"
  /\ session' = [session EXCEPT ![turn[t].ses].pending = NoWorkflow]
  /\ live' = NoTurn
  /\ clean' = (clean /\ \A u \in Turns \ {t} : ~InFlight(u))
  /\ End(t)
  /\ UNCHANGED <<checkpoint, runs, ran, crashes, failures>>

\* The process dies and is started again: the stores are all that is left.
Crash ==
  /\ crashes < MaxCrashes
  /\ crashes' = crashes + 1
  /\ turn' = [t \in Turns |-> IF InFlight(t) THEN Outside("lost") ELSE turn[t]]
  /\ live' = NoTurn
  /\ session' = [s \in Turns |-> FreshSession]
  /\ UNCHANGED <<checkpoint, runs, ran, clean, failures>>

-----------------------------------------------------------------------------
SendMessage(t) ==
  \/ Enter(t) \/ Refuse(t)
  \/ RestoreFromMemory(t) \/ ReadCheckpoint(t) \/ RestoreFromCheckpoint(t)
  \/ PlanAsks(t) \/ PlanEnds(t) \/ PlanRaises(t)

Execution(t) ==
  \/ RefuseExecution(t) \/ StartExecution(t) \/ EndExecution(t)
  \/ ExecutionRaises(t)

Continue(t) ==
  \/ SendMessage(t) \/ Save(t) \/ ReplyEndsTurn(t) \/ Execution(t)
  \/ ClearCheckpoint(t) \/ DropSession(t)

Next ==
  \/ \E t \in Turns : (\E m \in Messages : Arrive(t, m)) \/ Continue(t)
  \/ Crash

Spec == Init /\ [][Next]_vars

\* What a coroutine awaits (database, model, platform, the bounded loop)
\* answers or fails in the end.  Users owe nothing; the process need not crash.
FairSpec == Spec /\ \A t \in Turns : WF_vars(Continue(t))

-----------------------------------------------------------------------------
(* Properties.                                                              *)

TypeOK ==
  /\ turn \in [Turns -> Turn]
  /\ live \in TurnOrNone
  /\ session \in [Turns -> Session]
  /\ checkpoint \in WorkflowOrNone
  /\ runs \in [Turns -> Statuses \cup {"absent"}]
  /\ ran \in [Turns -> Nat]
  /\ clean \in BOOLEAN /\ crashes \in Nat /\ failures \in Nat

\* The lock of a session is held exactly while one turn is inside send_message
\* on it, also when the pipeline raises, the session is cleared under the turn
\* or the process restarts; two turns are never inside at once.
SessionLock ==
  /\ \A s \in Turns :
       session[s].lock <=> \E t \in Turns : Inside(t) /\ turn[t].ses = s
  /\ \A t, u \in Turns :
       Inside(t) /\ Inside(u) /\ turn[t].ses = turn[u].ses => t = u

\* A question the user confirmed is acted upon once: neither the copy left in
\* the session nor the one left in the checkpoint, before or after a restart,
\* an expired or a cleared session, lets it run again.  (Not claimed once a
\* database operation failed, the writes of two turns of the user overlapped,
\* or the conversation was cleared while another turn was under way: a turn
\* that keeps the dropped session and one that has the new one may then both
\* take the question, one from memory, one from the checkpoint.)
OneExecutionPerQuestion == clean => \A t \in Turns : ran[t] <= 1

\* What the run history shows as cancelled was not executed and will not be
\* (with the same reservations).
CancelledNeverRuns ==
  clean => \A t \in Turns : runs[t] = "cancelled" => ran[t] = 0

Quiet == \A t \in Turns : ~InFlight(t)

\* When turns do not overlap, a question that is pending in the session is the
\* one a restart would restore, unless the checkpoint holds a later workflow
\* that asks without being pending (it has no steps, or only the route asked).
QuestionSurvivesRestart ==
  (clean /\ UserWaits /\ live # NoTurn /\ Quiet) =>
    \/ session[live].pending \in {NoWorkflow, checkpoint}
    \/ checkpoint # NoWorkflow /\ checkpoint.need /\ ~AwaitsAnswer(checkpoint)

\* When turns do not overlap, nothing that was asked before the user cleared
\* the conversation can be confirmed after it.
ClearForgets ==
  (clean /\ UserWaits /\ live = NoTurn /\ crashes = 0 /\ Quiet) =>
    checkpoint = NoWorkflow

\* The lock of a session is given back: no way through send_message, raised
\* errors included, leaves the user locked out.
LockReleased == \A s \in Turns : session[s].lock ~> ~session[s].lock
=============================================================================
