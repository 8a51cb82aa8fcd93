--------------------------- MODULE ChatSession_proofs ---------------------------
(***************************************************************************)
(* What ChatSession keeps true for any number of turns, crashes and         *)
(* failures.                                                               *)
(***************************************************************************)
EXTENDS ChatSession, TLAPS

-----------------------------------------------------------------------------
(* Type correctness.  A turn under way holds a session that exists, and     *)
(* from the save of its workflow on it holds a workflow.                    *)

HoldsSession == \A t \in Turns : InFlight(t) => turn[t].ses \in Turns

HasPlan(t) == Saving(t) \/ turn[t].pc \in {"replying", "calling"}
HoldsWorkflow == \A t \in Turns : HasPlan(t) => turn[t].wf \in Workflow

TypeInv == TypeOK /\ HoldsSession /\ HoldsWorkflow

\* A workflow that is not missing is one.
LEMMA ProperWorkflow ==
  ASSUME NEW w \in WorkflowOrNone, w # NoWorkflow
  PROVE  w \in Workflow
BY DEF WorkflowOrNone

LEMMA TypeInit == Init => TypeInv
<1> SUFFICES ASSUME Init PROVE TypeInv
  OBVIOUS
<1>1. Outside("absent") \in Turn /\ Outside("absent").pc = "absent"
  BY DEF Outside, Turn, Labels, Messages, TurnOrNone, WorkflowOrNone
<1>2. FreshSession \in Session
  BY DEF FreshSession, Session, WorkflowOrNone, TurnOrNone
<1>3. TypeOK
  BY <1>1, <1>2 DEF Init, TypeOK, TurnOrNone, WorkflowOrNone
<1>4. \A t \in Turns : turn[t].pc = "absent"
  BY <1>1 DEF Init
<1> QED
  BY <1>3, <1>4 DEF TypeInv, HoldsSession, HoldsWorkflow, HasPlan, InFlight, Saving

\* A turn that is over or lost.
LEMMA OutsideType ==
  ASSUME NEW label \in {"done", "lost"}
  PROVE  /\ Outside(label) \in Turn /\ Outside(label).pc = label
BY DEF Outside, Turn, Labels, Messages, TurnOrNone, WorkflowOrNone

\* What record_workflow makes of the pending workflow is a workflow or none.
LEMMA PendingType ==
  ASSUME NEW old \in WorkflowOrNone, NEW w \in Workflow
  PROVE  PendingAfter(old, w) \in WorkflowOrNone
BY DEF PendingAfter, WorkflowOrNone

\* The workflow a user confirmed or cancelled is one.
LEMMA AnsweredType ==
  ASSUME NEW w \in Workflow, NEW t \in Turns
  PROVE  Clone(w, t) \in Workflow /\ Cancelled(w) \in Workflow
BY DEF Clone, Cancelled, Workflow, Statuses, TurnOrNone

\* One turn goes on: the others keep their session and workflow.
LEMMA OneTurn ==
  ASSUME TypeInv, NEW t \in Turns, NEW e \in Turn,
         turn' = [turn EXCEPT ![t] = e],
         e.pc \notin {"absent", "done", "lost"} => e.ses \in Turns,
         e.pc \in {"savingAnswer", "savingCancel", "savingAsked", "savingResult",
                   "replying", "calling"} => e.wf \in Workflow
  PROVE  /\ turn' \in [Turns -> Turn]
         /\ HoldsSession' /\ HoldsWorkflow'
<1>1. turn \in [Turns -> Turn]
  BY DEF TypeInv, TypeOK
<1>2. turn' \in [Turns -> Turn] /\ turn'[t] = e
      /\ \A u \in Turns : u # t => turn'[u] = turn[u]
  BY <1>1
<1>3. HoldsSession'
  BY <1>2 DEF TypeInv, HoldsSession, InFlight
<1>4. HoldsWorkflow'
  BY <1>2 DEF TypeInv, HoldsWorkflow, HasPlan, Saving
<1> QED
  BY <1>2, <1>3, <1>4

\* A session gets another pending workflow, or its lock changes, or both.
LEMMA PendingSet ==
  ASSUME session \in [Turns -> Session], NEW s \in Turns, NEW p \in WorkflowOrNone
  PROVE  [session EXCEPT ![s].pending = p] \in [Turns -> Session]
<1>1. [session[s] EXCEPT !.pending = p] \in Session
  BY DEF Session
<1> QED
  BY <1>1

LEMMA LockSet ==
  ASSUME session \in [Turns -> Session], NEW s \in Turns, NEW b \in BOOLEAN
  PROVE  [session EXCEPT ![s].lock = b] \in [Turns -> Session]
<1>1. [session[s] EXCEPT !.lock = b] \in Session
  BY DEF Session
<1> QED
  BY <1>1

\* Under the type invariant a turn that is under way has these.
LEMMA InTurn ==
  ASSUME TypeInv, NEW t \in Turns
  PROVE  /\ turn[t] \in Turn /\ turn[t].pc \in Labels
         /\ turn[t].wf \in WorkflowOrNone /\ turn[t].loaded \in WorkflowOrNone
         /\ InFlight(t) => /\ turn[t].ses \in Turns
                           /\ session[turn[t].ses] \in Session
                           /\ session[turn[t].ses].pending \in WorkflowOrNone
         /\ HasPlan(t) => turn[t].wf \in Workflow
<1>1. turn[t] \in Turn
  BY DEF TypeInv, TypeOK
<1>2. InFlight(t) => turn[t].ses \in Turns
  BY DEF TypeInv, HoldsSession
<1>3. \A s \in Turns : session[s] \in Session /\ session[s].pending \in WorkflowOrNone
  BY DEF TypeInv, TypeOK, Session
<1>4. HasPlan(t) => turn[t].wf \in Workflow
  BY DEF TypeInv, HoldsWorkflow
<1> QED
  BY <1>1, <1>2, <1>3, <1>4 DEF Turn

\* The part of the invariant about the stores.
StoresOK ==
  /\ live \in TurnOrNone /\ session \in [Turns -> Session]
  /\ checkpoint \in WorkflowOrNone
  /\ runs \in [Turns -> Statuses \cup {"absent"}] /\ ran \in [Turns -> Nat]
  /\ clean \in BOOLEAN /\ crashes \in Nat /\ failures \in Nat

LEMMA TypeParts ==
  /\ TypeInv <=> /\ turn \in [Turns -> Turn] /\ StoresOK
                 /\ HoldsSession /\ HoldsWorkflow
  /\ TypeInv' <=> /\ (turn \in [Turns -> Turn])' /\ StoresOK'
                  /\ HoldsSession' /\ HoldsWorkflow'
BY DEF TypeInv, TypeOK, StoresOK

LEMMA ArriveType ==
  ASSUME TypeInv, NEW t \in Turns, NEW m \in Messages, Arrive(t, m)
  PROVE  TypeInv'
<1> DEFINE e == [turn[t] EXCEPT !.pc = "fetched", !.msg = m, !.ses = live']
<1>1. turn[t] \in Turn /\ live \in TurnOrNone
  BY InTurn DEF TypeInv, TypeOK
<1>2. live' \in Turns
  BY <1>1 DEF Arrive, TurnOrNone
<1>3. e \in Turn /\ e.pc = "fetched" /\ e.ses \in Turns
  BY <1>1, <1>2 DEF Turn, Labels, TurnOrNone
<1>4. turn' = [turn EXCEPT ![t] = e]
  BY <1>1 DEF Arrive
<1>5. turn' \in [Turns -> Turn] /\ HoldsSession' /\ HoldsWorkflow'
  BY <1>3, <1>4, OneTurn
<1>6. StoresOK'
  BY <1>2 DEF Arrive, TypeInv, TypeOK, StoresOK, TurnOrNone
<1> QED
  BY <1>5, <1>6, TypeParts

\* A turn that ends.
LEMMA EndType ==
  ASSUME TypeInv, NEW t \in Turns, End(t)
  PROVE  turn' \in [Turns -> Turn] /\ HoldsSession' /\ HoldsWorkflow'
<1>1. Outside("done") \in Turn /\ Outside("done").pc = "done"
  BY OutsideType
<1>2. turn' = [turn EXCEPT ![t] = Outside("done")]
  BY DEF End
<1> QED
  BY <1>1, <1>2, OneTurn

\* A turn that goes on with another label, and nothing else.
LEMMA MoveType ==
  ASSUME TypeInv, NEW t \in Turns, InFlight(t), NEW label \in Labels,
         turn' = [turn EXCEPT ![t].pc = label],
         HasPlan(t) \/ label \in {"entered", "loading", "clearing", "planning"}
  PROVE  turn' \in [Turns -> Turn] /\ HoldsSession' /\ HoldsWorkflow'
<1> DEFINE e == [turn[t] EXCEPT !.pc = label]
<1>1. turn[t] \in Turn /\ turn[t].ses \in Turns /\ (HasPlan(t) => turn[t].wf \in Workflow)
  BY InTurn
<1>2. e \in Turn /\ e.pc = label /\ e.ses = turn[t].ses /\ e.wf = turn[t].wf
  BY <1>1 DEF Turn
<1>3. turn' = [turn EXCEPT ![t] = e]
  BY <1>1
<1> HIDE DEF e
<1> QED
  BY <1>1, <1>2, <1>3, OneTurn

LEMMA EnterType ==
  ASSUME TypeInv, NEW t \in Turns, Enter(t) \/ Refuse(t)
  PROVE  TypeInv'
<1>1. InFlight(t) /\ turn[t].ses \in Turns
  BY InTurn DEF Enter, Refuse, InFlight
<1>2. CASE Enter(t)
  <2>1. turn' \in [Turns -> Turn] /\ HoldsSession' /\ HoldsWorkflow'
    BY <1>1, <1>2, MoveType DEF Enter, Labels
  <2>2. session \in [Turns -> Session] /\ t \in TurnOrNone
    BY DEF TypeInv, TypeOK, TurnOrNone
  <2>3. session' \in [Turns -> Session]
    <3> DEFINE e == [session[turn[t].ses] EXCEPT !.lock = TRUE, !.lastTrace = t]
    <3>1. session[turn[t].ses] \in Session
      BY <1>1, <2>2
    <3>2. e \in Session
      BY <2>2, <3>1 DEF Session
    <3>3. session' = [session EXCEPT ![turn[t].ses] = e]
      BY <1>2, <3>1 DEF Enter
    <3> HIDE DEF e
    <3> QED
      BY <1>1, <2>2, <3>2, <3>3
  <2>4. StoresOK'
    BY <1>2, <2>3 DEF Enter, TypeInv, TypeOK, StoresOK
  <2> QED
    BY <2>1, <2>4, TypeParts
<1>3. CASE Refuse(t)
  <2>1. turn' \in [Turns -> Turn] /\ HoldsSession' /\ HoldsWorkflow'
    BY <1>3, EndType DEF Refuse
  <2>2. StoresOK'
    BY <1>3 DEF Refuse, TypeInv, TypeOK, StoresOK
  <2> QED
    BY <2>1, <2>2, TypeParts
<1> QED
  BY <1>2, <1>3

\* The answer to the pending workflow p, or the lack of one.
LEMMA ResolveType ==
  ASSUME TypeInv, NEW t \in Turns, InFlight(t), NEW p \in WorkflowOrNone,
         Resolve(t, p)
  PROVE  TypeInv'
<1> DEFINE asked == [turn[t] EXCEPT !.pc = "planning", !.loaded = NoWorkflow]
           confirmed == [turn[t] EXCEPT !.pc = "savingAnswer", !.wf = Clone(p, t),
                                        !.loaded = NoWorkflow]
           cancelled == [turn[t] EXCEPT !.pc = "savingCancel", !.wf = Cancelled(p),
                                        !.loaded = NoWorkflow]
<1>1. turn[t] \in Turn /\ turn[t].ses \in Turns /\ turn \in [Turns -> Turn]
  BY InTurn DEF TypeInv, TypeOK
<1>2. NoWorkflow \in WorkflowOrNone /\ session \in [Turns -> Session]
  BY DEF WorkflowOrNone, TypeInv, TypeOK
<1>3. CASE NoAnswer(t, p)
  <2>1. asked \in Turn /\ asked.pc = "planning" /\ asked.ses \in Turns
    BY <1>1, <1>2 DEF Turn, Labels
  <2>2. turn' = [turn EXCEPT ![t] = asked]
    BY <1>1, <1>3 DEF NoAnswer
  <2>3. turn' \in [Turns -> Turn] /\ HoldsSession' /\ HoldsWorkflow'
    BY <2>1, <2>2, OneTurn
  <2>4. session' \in [Turns -> Session]
    <3>1. [session EXCEPT ![turn[t].ses].pending = p] \in [Turns -> Session]
      BY <1>1, <1>2, PendingSet
    <3> QED
      BY <1>3, <3>1 DEF NoAnswer
  <2>5. StoresOK'
    BY <1>3, <2>4 DEF Resolve, NoAnswer, TypeInv, TypeOK, StoresOK
  <2> QED
    BY <2>3, <2>5, TypeParts
<1>4. CASE Answer(t, p)
  <2>1. p \in Workflow
    BY <1>4, ProperWorkflow DEF Answer
  <2>2. Clone(p, t) \in Workflow /\ Cancelled(p) \in Workflow
    BY <2>1, AnsweredType
  <2>3. /\ confirmed \in Turn /\ confirmed.wf \in Workflow /\ confirmed.ses \in Turns
        /\ cancelled \in Turn /\ cancelled.wf \in Workflow /\ cancelled.ses \in Turns
    BY <1>1, <1>2, <2>2 DEF Turn, Labels, WorkflowOrNone
  <2>4. \/ turn' = [turn EXCEPT ![t] = confirmed]
        \/ turn' = [turn EXCEPT ![t] = cancelled]
    BY <1>1, <1>4 DEF Answer
  <2>5. turn' \in [Turns -> Turn] /\ HoldsSession' /\ HoldsWorkflow'
    <3> HIDE DEF confirmed, cancelled
    <3> QED
      BY <2>3, <2>4, OneTurn
  <2>6. session' \in [Turns -> Session]
    <3>1. [session EXCEPT ![turn[t].ses].pending = NoWorkflow] \in [Turns -> Session]
      BY <1>1, <1>2, PendingSet
    <3> QED
      BY <1>4, <3>1 DEF Answer
  <2>7. StoresOK'
    BY <1>4, <2>6 DEF Resolve, Answer, StartsSave, TypeInv, TypeOK, StoresOK
  <2> QED
    BY <2>5, <2>7, TypeParts
<1> QED
  BY <1>3, <1>4 DEF Resolve

\* An operation that fails is counted.
LEMMA CountersType ==
  ASSUME TypeInv, OperationFails \/ UNCHANGED <<clean, failures>>
  PROVE  clean' \in BOOLEAN /\ failures' \in Nat
<1>1. clean \in BOOLEAN /\ failures \in Nat
  BY DEF TypeInv, TypeOK
<1>2. CASE OperationFails
  <2>1. clean' = FALSE /\ failures' = failures + 1
    BY <1>2 DEF OperationFails
  <2>2. clean' \in BOOLEAN
    BY <2>1
  <2>3. failures' \in Nat
    BY <1>1, <2>1
  <2> QED
    BY <2>2, <2>3
<1>3. CASE UNCHANGED <<clean, failures>>
  BY <1>1, <1>3
<1> QED
  BY <1>2, <1>3

LEMMA RestoreType ==
  ASSUME TypeInv, NEW t \in Turns,
         RestoreFromMemory(t) \/ ReadCheckpoint(t) \/ RestoreFromCheckpoint(t)
  PROVE  TypeInv'
<1>1. /\ InFlight(t) /\ turn[t] \in Turn /\ turn[t].ses \in Turns
      /\ turn[t].loaded \in WorkflowOrNone
      /\ session[turn[t].ses].pending \in WorkflowOrNone
      /\ checkpoint \in WorkflowOrNone /\ NoWorkflow \in WorkflowOrNone
  BY InTurn DEF RestoreFromMemory, ReadCheckpoint, RestoreFromCheckpoint, InFlight,
     TypeInv, TypeOK, WorkflowOrNone
<1>2. CASE RestoreFromMemory(t)
  BY <1>1, <1>2, ResolveType DEF RestoreFromMemory
<1>3. CASE RestoreFromCheckpoint(t)
  <2>1. PICK p \in WorkflowOrNone : Resolve(t, p)
    BY <1>1, <1>3 DEF RestoreFromCheckpoint
  <2> QED
    BY <1>1, <2>1, ResolveType
<1>4. CASE ReadCheckpoint(t)
  <2>1. PICK l \in WorkflowOrNone :
          turn' = [turn EXCEPT ![t].pc = "loading", ![t].loaded = l]
    <3>1. turn[t] = [turn[t] EXCEPT !.loaded = turn[t].loaded]
      BY <1>1 DEF Turn
    <3>2. CASE turn' = [turn EXCEPT ![t].pc = "loading"]
      <4>1. turn \in [Turns -> Turn]
        BY DEF TypeInv, TypeOK
      <4>2. turn' = [turn EXCEPT ![t].pc = "loading", ![t].loaded = turn[t].loaded]
        BY <1>1, <3>2, <4>1 DEF Turn
      <4> QED
        BY <1>1, <4>2
    <3> QED
      BY <1>1, <1>4, <3>2 DEF ReadCheckpoint
  <2> DEFINE e == [turn[t] EXCEPT !.pc = "loading", !.loaded = l]
  <2>2. e \in Turn /\ e.pc = "loading" /\ e.ses \in Turns
    BY <1>1 DEF Turn, Labels
  <2>3. turn' = [turn EXCEPT ![t] = e]
    BY <1>1, <2>1
  <2>4. turn' \in [Turns -> Turn] /\ HoldsSession' /\ HoldsWorkflow'
    BY <2>2, <2>3, OneTurn
  <2>5. clean' \in BOOLEAN /\ failures' \in Nat
    BY <1>4, CountersType DEF ReadCheckpoint
  <2>6. StoresOK'
    BY <1>4, <2>5 DEF ReadCheckpoint, TypeInv, TypeOK, StoresOK
  <2> QED
    BY <2>4, <2>6, TypeParts
<1> QED
  BY <1>2, <1>3, <1>4

\* What the pipeline builds is a workflow.
LEMMA BuiltType ==
  ASSUME NEW t \in Turns, NEW x \in Statuses, NEW n \in BOOLEAN, NEW b \in BOOLEAN
  PROVE  Built(t, x, n, b) \in Workflow
BY DEF Built, Workflow, TurnOrNone

LEMMA PlanType ==
  ASSUME TypeInv, NEW t \in Turns, PlanAsks(t) \/ PlanEnds(t) \/ PlanRaises(t)
  PROVE  TypeInv'
<1>1. /\ InFlight(t) /\ turn[t] \in Turn /\ turn[t].ses \in Turns
      /\ session[turn[t].ses] \in Session
      /\ session[turn[t].ses].pending \in WorkflowOrNone
  BY InTurn DEF PlanAsks, PlanEnds, PlanRaises, InFlight
<1>2. session \in [Turns -> Session]
  BY DEF TypeInv, TypeOK
<1>3. CASE PlanAsks(t)
  <2>1. PICK b \in BOOLEAN :
          LET w == Built(t, "needs_confirm", TRUE, b)
          IN /\ turn' = [turn EXCEPT ![t].pc = "savingAsked", ![t].wf = w,
                                     ![t].byTasks = TRUE]
             /\ session' = [session EXCEPT
                  ![turn[t].ses].pending = PendingAfter(@, w),
                  ![turn[t].ses].lock = FALSE]
    BY <1>3 DEF PlanAsks
  <2> DEFINE w == Built(t, "needs_confirm", TRUE, b)
             e == [turn[t] EXCEPT !.pc = "savingAsked", !.wf = w, !.byTasks = TRUE]
             c == [session[turn[t].ses] EXCEPT
                     !.pending = PendingAfter(session[turn[t].ses].pending, w),
                     !.lock = FALSE]
  <2>2. w \in Workflow
    BY BuiltType DEF Statuses
  <2> HIDE DEF w
  <2>3. e \in Turn /\ e.wf \in Workflow /\ e.ses \in Turns
    BY <1>1, <2>2 DEF Turn, Labels, WorkflowOrNone
  <2>4. turn' = [turn EXCEPT ![t] = e]
    BY <1>1, <2>1 DEF w
  <2>5. turn' \in [Turns -> Turn] /\ HoldsSession' /\ HoldsWorkflow'
    <3> HIDE DEF e
    <3> QED
      BY <2>3, <2>4, OneTurn
  <2>6. c \in Session
    BY <1>1, <2>2, PendingType DEF Session
  <2>7. session' = [session EXCEPT ![turn[t].ses] = c]
    BY <1>1, <2>1 DEF w
  <2>8. session' \in [Turns -> Session]
    <3> HIDE DEF c
    <3> QED
      BY <1>1, <1>2, <2>6, <2>7
  <2>9. StoresOK'
    BY <1>3, <2>8 DEF PlanAsks, StartsSave, TypeInv, TypeOK, StoresOK
  <2> QED
    BY <2>5, <2>9, TypeParts
<1>4. CASE PlanEnds(t)
  <2>1. PICK w \in Workflow : turn' = [turn EXCEPT ![t].pc = "replying", ![t].wf = w]
    BY <1>4, BuiltType DEF PlanEnds, Statuses
  <2> DEFINE e == [turn[t] EXCEPT !.pc = "replying", !.wf = w]
  <2>2. e \in Turn /\ e.wf \in Workflow /\ e.ses \in Turns
    BY <1>1 DEF Turn, Labels, WorkflowOrNone
  <2>3. turn' = [turn EXCEPT ![t] = e]
    BY <1>1, <2>1
  <2>4. turn' \in [Turns -> Turn] /\ HoldsSession' /\ HoldsWorkflow'
    <3> HIDE DEF e
    <3> QED
      BY <2>2, <2>3, OneTurn
  <2>5. [session EXCEPT ![turn[t].ses].lock = FALSE] \in [Turns -> Session]
    BY <1>1, <1>2, LockSet
  <2>6. StoresOK'
    BY <1>4, <2>5 DEF PlanEnds, TypeInv, TypeOK, StoresOK
  <2> QED
    BY <2>4, <2>6, TypeParts
<1>5. CASE PlanRaises(t)
  <2>1. turn' \in [Turns -> Turn] /\ HoldsSession' /\ HoldsWorkflow'
    BY <1>5, EndType DEF PlanRaises
  <2>2. [session EXCEPT ![turn[t].ses].lock = FALSE] \in [Turns -> Session]
    BY <1>1, <1>2, LockSet
  <2>3. StoresOK'
    BY <1>5, <2>2 DEF PlanRaises, TypeInv, TypeOK, StoresOK
  <2> QED
    BY <2>1, <2>3, TypeParts
<1> QED
  BY <1>3, <1>4, <1>5

LEMMA SaveType ==
  ASSUME TypeInv, NEW t \in Turns, Save(t)
  PROVE  TypeInv'
<1>1. /\ InFlight(t) /\ HasPlan(t)
      /\ turn[t].ses \in Turns /\ turn[t].wf \in Workflow
  BY InTurn DEF Save, Saving, InFlight, HasPlan
<1>2. session \in [Turns -> Session] /\ runs \in [Turns -> Statuses \cup {"absent"}]
  BY DEF TypeInv, TypeOK
<1>3. turn' \in [Turns -> Turn] /\ HoldsSession' /\ HoldsWorkflow'
  <2>1. CASE End(t)
    BY <2>1, EndType
  <2>2. CASE turn' = [turn EXCEPT ![t].pc = "replying"]
    BY <1>1, <2>2, MoveType DEF Labels
  <2> QED
    BY <2>1, <2>2 DEF Save, AfterSave
<1>4. session' \in [Turns -> Session]
  <2>1. [session EXCEPT ![turn[t].ses].lock = FALSE] \in [Turns -> Session]
    BY <1>1, <1>2, LockSet
  <2> QED
    BY <1>2, <2>1 DEF Save, AfterSave
<1>5. RunAfter(turn[t].wf) \in [Turns -> Statuses \cup {"absent"}]
  <2>1. turn[t].wf.status \in Statuses
    BY <1>1 DEF Workflow
  <2> QED
    BY <1>2, <2>1 DEF RunAfter
<1>6. checkpoint' \in WorkflowOrNone /\ runs' \in [Turns -> Statuses \cup {"absent"}]
  BY <1>1, <1>2, <1>5 DEF Save, WorkflowOrNone, TypeInv, TypeOK
<1>7. clean' \in BOOLEAN /\ failures' \in Nat
  BY CountersType DEF Save
<1>8. StoresOK'
  BY <1>4, <1>6, <1>7 DEF Save, AfterSave, TypeInv, TypeOK, StoresOK
<1> QED
  BY <1>3, <1>8, TypeParts

LEMMA ExecutionType ==
  ASSUME TypeInv, NEW t \in Turns, Execution(t)
  PROVE  TypeInv'
<1>1. /\ InFlight(t) /\ HasPlan(t) /\ turn[t] \in Turn /\ turn[t].ses \in Turns
      /\ turn[t].wf \in Workflow /\ session[turn[t].ses] \in Session
      /\ session[turn[t].ses].pending \in WorkflowOrNone
  BY InTurn DEF Execution, RefuseExecution, StartExecution, EndExecution,
     ExecutionRaises, HasWork, InFlight, HasPlan
<1>2. session \in [Turns -> Session] /\ ran \in [Turns -> Nat]
  BY DEF TypeInv, TypeOK
<1>3. CASE RefuseExecution(t)
  <2>1. turn' \in [Turns -> Turn] /\ HoldsSession' /\ HoldsWorkflow'
    BY <1>1, <1>3, MoveType DEF RefuseExecution, Labels
  <2>2. PICK q \in WorkflowOrNone :
          session' = [session EXCEPT ![turn[t].ses].pending = q]
    BY <1>1, <1>3, PendingType DEF RefuseExecution
  <2>3. [session EXCEPT ![turn[t].ses].pending = q] \in [Turns -> Session]
    BY <1>1, <1>2, PendingSet
  <2>4. StoresOK'
    BY <1>3, <2>2, <2>3 DEF RefuseExecution, StartsSave, TypeInv, TypeOK, StoresOK
  <2> QED
    BY <2>1, <2>4, TypeParts
<1>4. CASE StartExecution(t)
  <2> DEFINE w == [turn[t].wf EXCEPT !.status = "running"]
             e == [turn[t] EXCEPT !.pc = "calling", !.wf = w]
  <2>1. w \in Workflow
    BY <1>1 DEF Workflow, Statuses
  <2>2. e \in Turn /\ e.wf \in Workflow /\ e.ses \in Turns
    <3> HIDE DEF w
    <3> QED
      BY <1>1, <2>1 DEF Turn, Labels, WorkflowOrNone
  <2>3. turn' = [turn EXCEPT ![t] = e]
    BY <1>1, <1>4 DEF StartExecution
  <2>4. turn' \in [Turns -> Turn] /\ HoldsSession' /\ HoldsWorkflow'
    <3> HIDE DEF e
    <3> QED
      BY <2>2, <2>3, OneTurn
  <2>5. ran' \in [Turns -> Nat]
    <3>1. CASE turn[t].wf.source = NoTurn
      BY <1>2, <1>4, <3>1 DEF StartExecution
    <3>2. CASE turn[t].wf.source # NoTurn
      <4>1. turn[t].wf.source \in Turns
        BY <1>1, <3>2 DEF Workflow, TurnOrNone
      <4>2. PICK s \in Turns : ran' = [ran EXCEPT ![s] = ran[s] + 1]
        BY <1>4, <3>2, <4>1 DEF StartExecution
      <4>3. ran[s] + 1 \in Nat
        BY <1>2
      <4> QED
        BY <1>2, <4>2, <4>3
    <3> QED
      BY <3>1, <3>2
  <2>6. StoresOK'
    BY <1>4, <2>5 DEF StartExecution, TypeInv, TypeOK, StoresOK
  <2> QED
    BY <2>4, <2>6, TypeParts
<1>5. CASE EndExecution(t)
  <2>1. PICK x \in {"completed", "failed", "needs_confirm"} :
          LET w == [turn[t].wf EXCEPT !.status = x, !.need = (x = "needs_confirm")]
          IN /\ turn' = [turn EXCEPT ![t].pc = "savingResult", ![t].wf = w]
             /\ session' = [session EXCEPT ![turn[t].ses].pending = PendingAfter(@, w)]
    BY <1>5 DEF EndExecution
  <2> DEFINE w == [turn[t].wf EXCEPT !.status = x, !.need = (x = "needs_confirm")]
             e == [turn[t] EXCEPT !.pc = "savingResult", !.wf = w]
  <2>2. w \in Workflow
    <3>1. (x = "needs_confirm") \in BOOLEAN
      OBVIOUS
    <3> QED
      BY <1>1, <3>1 DEF Workflow, Statuses
  <2>3. turn' = [turn EXCEPT ![t] = e]
    BY <1>1, <2>1
  <2>4. session' = [session EXCEPT
          ![turn[t].ses].pending = PendingAfter(session[turn[t].ses].pending, w)]
    BY <2>1
  <2> HIDE DEF w
  <2>5. e \in Turn /\ e.wf \in Workflow /\ e.ses \in Turns
    BY <1>1, <2>2 DEF Turn, Labels, WorkflowOrNone
  <2>6. turn' \in [Turns -> Turn] /\ HoldsSession' /\ HoldsWorkflow'
    <3> HIDE DEF e
    <3> QED
      BY <2>3, <2>5, OneTurn
  <2>7. session' \in [Turns -> Session]
    <3>1. PendingAfter(session[turn[t].ses].pending, w) \in WorkflowOrNone
      BY <1>1, <2>2, PendingType
    <3>2. [session EXCEPT ![turn[t].ses].pending =
             PendingAfter(session[turn[t].ses].pending, w)] \in [Turns -> Session]
      BY <1>1, <1>2, <3>1, PendingSet
    <3> QED
      BY <2>4, <3>2
  <2>8. StoresOK'
    BY <1>5, <2>7 DEF EndExecution, StartsSave, TypeInv, TypeOK, StoresOK
  <2> QED
    BY <2>6, <2>8, TypeParts
<1>6. CASE ExecutionRaises(t)
  <2>1. turn' \in [Turns -> Turn] /\ HoldsSession' /\ HoldsWorkflow'
    BY <1>6, EndType DEF ExecutionRaises
  <2>2. StoresOK'
    BY <1>6 DEF ExecutionRaises, TypeInv, TypeOK, StoresOK
  <2> QED
    BY <2>1, <2>2, TypeParts
<1> QED
  BY <1>3, <1>4, <1>5, <1>6 DEF Execution

LEMMA OthersType ==
  ASSUME TypeInv, NEW t \in Turns,
         ReplyEndsTurn(t) \/ ClearCheckpoint(t) \/ DropSession(t)
  PROVE  TypeInv'
<1>1. InFlight(t) /\ turn[t].ses \in Turns /\ NoWorkflow \in WorkflowOrNone
  BY InTurn DEF ReplyEndsTurn, ClearCheckpoint, DropSession, InFlight, WorkflowOrNone
<1>2. CASE ReplyEndsTurn(t)
  <2>1. turn' \in [Turns -> Turn] /\ HoldsSession' /\ HoldsWorkflow'
    BY <1>2, EndType DEF ReplyEndsTurn
  <2>2. StoresOK'
    BY <1>2 DEF ReplyEndsTurn, TypeInv, TypeOK, StoresOK
  <2> QED
    BY <2>1, <2>2, TypeParts
<1>3. CASE ClearCheckpoint(t)
  <2>1. turn' \in [Turns -> Turn] /\ HoldsSession' /\ HoldsWorkflow'
    BY <1>1, <1>3, MoveType DEF ClearCheckpoint, Labels
  <2>2. clean' \in BOOLEAN /\ failures' \in Nat
    BY <1>3, CountersType DEF ClearCheckpoint
  <2>3. StoresOK'
    BY <1>1, <1>3, <2>2 DEF ClearCheckpoint, TypeInv, TypeOK, StoresOK
  <2> QED
    BY <2>1, <2>3, TypeParts
<1>4. CASE DropSession(t)
  <2>1. turn' \in [Turns -> Turn] /\ HoldsSession' /\ HoldsWorkflow'
    BY <1>4, EndType DEF DropSession
  <2>2. session \in [Turns -> Session]
    BY DEF TypeInv, TypeOK
  <2>3. [session EXCEPT ![turn[t].ses].pending = NoWorkflow] \in [Turns -> Session]
    BY <1>1, <2>2, PendingSet
  <2>4. StoresOK'
    BY <1>4, <2>3 DEF DropSession, TypeInv, TypeOK, StoresOK, TurnOrNone
  <2> QED
    BY <2>1, <2>4, TypeParts
<1> QED
  BY <1>2, <1>3, <1>4

LEMMA CrashType ==
  ASSUME TypeInv, Crash
  PROVE  TypeInv'
<1>1. turn' = [t \in Turns |-> IF InFlight(t) THEN Outside("lost") ELSE turn[t]]
  BY DEF Crash
<1>2. turn \in [Turns -> Turn]
  BY DEF TypeInv, TypeOK
<1>3. Outside("lost") \in Turn /\ Outside("lost").pc = "lost"
  BY OutsideType
<1>4. turn' \in [Turns -> Turn]
  BY <1>1, <1>2, <1>3
<1>5. ASSUME NEW t \in Turns PROVE turn'[t].pc \in {"absent", "done", "lost"}
  BY <1>1, <1>3 DEF InFlight
<1>6. HoldsSession' /\ HoldsWorkflow'
  BY <1>5 DEF HoldsSession, HoldsWorkflow, InFlight, HasPlan, Saving
<1>7. FreshSession \in Session
  BY DEF FreshSession, Session, WorkflowOrNone, TurnOrNone
<1>8. StoresOK'
  BY <1>7 DEF Crash, TypeInv, TypeOK, StoresOK, TurnOrNone
<1> QED
  BY <1>4, <1>6, <1>8, TypeParts

LEMMA TypeNext == TypeInv /\ [Next]_vars => TypeInv'
<1> SUFFICES ASSUME TypeInv, [Next]_vars PROVE TypeInv'
  OBVIOUS
<1>1. CASE \E t \in Turns : \E m \in Messages : Arrive(t, m)
  BY <1>1, ArriveType
<1>2. CASE \E t \in Turns : Continue(t)
  <2>1. PICK t \in Turns : Continue(t)
    BY <1>2
  <2>2. CASE SendMessage(t)
    BY <2>2, EnterType, RestoreType, PlanType DEF SendMessage
  <2> QED
    BY <2>1, <2>2, SaveType, ExecutionType, OthersType DEF Continue
<1>3. CASE Crash
  BY <1>3, CrashType
<1>4. CASE UNCHANGED vars
  BY <1>4 DEF vars, TypeInv, TypeOK, HoldsSession, HoldsWorkflow, HasPlan, InFlight, Saving
<1> QED
  BY <1>1, <1>2, <1>3, <1>4 DEF Next

\* The variables keep their types; every turn under way holds a session, and every
\* one that saves, replies or executes holds a workflow.
THEOREM TypeCorrect == Spec => []TypeInv
<1>1. Init => TypeInv
  BY TypeInit
<1>2. TypeInv /\ [Next]_vars => TypeInv'
  BY TypeNext
<1> QED
  BY <1>1, <1>2, PTL DEF Spec

THEOREM TypeSafe == Spec => []TypeOK
<1>1. TypeInv => TypeOK
  BY DEF TypeInv
<1> QED
  BY <1>1, TypeCorrect, PTL

-----------------------------------------------------------------------------
(* The lock of a session.  SessionLock is inductive, given the types: a     *)
(* step takes the lock, gives it back, or changes neither a lock nor who is *)
(* inside.                                                                 *)

\* What the labels in pc say about being inside send_message.
InsideLabels == {"entered", "loading", "planning", "savingAnswer", "savingCancel"}

\* Only turn t moves.
OnlyMoves(t) == \A u \in Turns : u # t => turn'[u] = turn[u]
\* Only the lock of session s may change.
OnlyLocks(s) == \A r \in Turns : r # s => session'[r].lock = session[r].lock

LEMMA LockTaken ==
  ASSUME TypeInv, SessionLock, NEW t \in Turns, OnlyMoves(t), turn[t].ses \in Turns,
         ~session[turn[t].ses].lock, turn'[t].pc \in InsideLabels,
         turn'[t].ses = turn[t].ses, OnlyLocks(turn[t].ses),
         session'[turn[t].ses].lock = TRUE
  PROVE  SessionLock'
<1>1. \A u \in Turns : u # t /\ Inside(u)' => Inside(u) /\ turn'[u].ses = turn[u].ses
  BY DEF OnlyMoves, Inside
<1>2. \A u \in Turns : u # t /\ Inside(u) => Inside(u)'
  BY DEF OnlyMoves, Inside
<1>3. \A u \in Turns : Inside(u) => turn[u].ses # turn[t].ses
  BY DEF SessionLock
<1>4. Inside(t)' /\ ~Inside(t)
  BY <1>3 DEF Inside, InsideLabels
<1>5. ASSUME NEW r \in Turns
      PROVE  session'[r].lock <=> \E u \in Turns : Inside(u)' /\ turn'[u].ses = r
  <2>1. CASE r = turn[t].ses
    BY <1>4, <2>1
  <2>2. CASE r # turn[t].ses
    <3>1. session'[r].lock <=> \E u \in Turns : Inside(u) /\ turn[u].ses = r
      BY <2>2 DEF OnlyLocks, SessionLock
    <3> QED
      BY <1>1, <1>2, <1>4, <2>2, <3>1 DEF OnlyMoves
  <2> QED
    BY <2>1, <2>2
<1>6. ASSUME NEW u \in Turns, NEW v \in Turns, Inside(u)', Inside(v)',
             turn'[u].ses = turn'[v].ses
      PROVE  u = v
  BY <1>1, <1>3, <1>6 DEF SessionLock
<1> QED
  BY <1>5, <1>6 DEF SessionLock

LEMMA LockGivenBack ==
  ASSUME TypeInv, SessionLock, NEW t \in Turns, OnlyMoves(t), turn[t].ses \in Turns,
         Inside(t), turn'[t].pc \notin InsideLabels, OnlyLocks(turn[t].ses),
         session'[turn[t].ses].lock = FALSE
  PROVE  SessionLock'
<1>1. \A u \in Turns : u # t => (Inside(u)' <=> Inside(u)) /\ turn'[u].ses = turn[u].ses
  BY DEF OnlyMoves, Inside
<1>2. ~Inside(t)'
  BY DEF Inside, InsideLabels
<1>3. \A u \in Turns : Inside(u) /\ turn[u].ses = turn[t].ses => u = t
  BY DEF SessionLock
<1>4. ASSUME NEW r \in Turns
      PROVE  session'[r].lock <=> \E u \in Turns : Inside(u)' /\ turn'[u].ses = r
  <2>1. CASE r = turn[t].ses
    BY <1>1, <1>2, <1>3, <2>1
  <2>2. CASE r # turn[t].ses
    <3>1. session'[r].lock <=> \E u \in Turns : Inside(u) /\ turn[u].ses = r
      BY <2>2 DEF OnlyLocks, SessionLock
    <3> QED
      BY <1>1, <1>2, <2>2, <3>1
  <2> QED
    BY <2>1, <2>2
<1>5. ASSUME NEW u \in Turns, NEW v \in Turns, Inside(u)', Inside(v)',
             turn'[u].ses = turn'[v].ses
      PROVE  u = v
  BY <1>1, <1>2, <1>5 DEF SessionLock
<1> QED
  BY <1>4, <1>5 DEF SessionLock

LEMMA LockUntouched ==
  ASSUME TypeInv, SessionLock, NEW t \in Turns, OnlyMoves(t),
         turn'[t].pc \in InsideLabels <=> turn[t].pc \in InsideLabels,
         Inside(t) => turn'[t].ses = turn[t].ses,
         \A r \in Turns : session'[r].lock = session[r].lock
  PROVE  SessionLock'
<1>1. \A u \in Turns : Inside(u)' <=> Inside(u)
  BY DEF OnlyMoves, Inside, InsideLabels
<1>2. \A u \in Turns : Inside(u) => turn'[u].ses = turn[u].ses
  BY DEF OnlyMoves
<1>3. ASSUME NEW r \in Turns
      PROVE  session'[r].lock <=> \E u \in Turns : Inside(u)' /\ turn'[u].ses = r
  <2>1. session'[r].lock <=> \E u \in Turns : Inside(u) /\ turn[u].ses = r
    BY DEF SessionLock
  <2> QED
    BY <1>1, <1>2, <2>1
<1>4. ASSUME NEW u \in Turns, NEW v \in Turns, Inside(u)', Inside(v)',
             turn'[u].ses = turn'[v].ses
      PROVE  u = v
  BY <1>1, <1>2, <1>4 DEF SessionLock
<1> QED
  BY <1>3, <1>4 DEF SessionLock

\* A change of the pending workflow leaves the locks alone.
LEMMA PendingKeepsLock ==
  ASSUME session \in [Turns -> Session], NEW s \in Turns, NEW p
  PROVE  \A r \in Turns :
           [session EXCEPT ![s].pending = p][r].lock = session[r].lock
<1>1. session[s] \in Session
  OBVIOUS
<1>2. [session[s] EXCEPT !.pending = p].lock = session[s].lock
  BY <1>1 DEF Session
<1> QED
  BY <1>2

\* A change of one lock leaves the others alone.
LEMMA LockSetOnly ==
  ASSUME session \in [Turns -> Session], NEW s \in Turns, NEW b
  PROVE  /\ [session EXCEPT ![s].lock = b][s].lock = b
         /\ \A r \in Turns : r # s =>
              [session EXCEPT ![s].lock = b][r].lock = session[r].lock
<1>1. session[s] \in Session
  OBVIOUS
<1> QED
  BY <1>1 DEF Session

\* The steps of send_message.
LEMMA SendMessageLock ==
  ASSUME TypeInv, SessionLock, NEW t \in Turns, SendMessage(t)
  PROVE  SessionLock'
<1>0. turn \in [Turns -> Turn] /\ session \in [Turns -> Session]
  BY DEF TypeInv, TypeOK
<1>1. turn[t] \in Turn /\ turn[t].ses \in Turns
  BY InTurn DEF SendMessage, Enter, Refuse, RestoreFromMemory, ReadCheckpoint,
     RestoreFromCheckpoint, PlanAsks, PlanEnds, PlanRaises, InFlight
<1>a. session[turn[t].ses] \in Session
  BY <1>0, <1>1
<1>2. CASE Enter(t)
  <2>1. OnlyMoves(t) /\ turn'[t].pc = "entered" /\ turn'[t].ses = turn[t].ses
    BY <1>0, <1>1, <1>2 DEF Enter, OnlyMoves, Turn
  <2>2. OnlyLocks(turn[t].ses) /\ session'[turn[t].ses].lock = TRUE
    BY <1>0, <1>1, <1>2, <1>a DEF Enter, OnlyLocks, Session
  <2>3. ~session[turn[t].ses].lock
    BY <1>2 DEF Enter
  <2>4. turn'[t].pc \in InsideLabels
    BY <2>1 DEF InsideLabels
  <2> QED
    BY <1>1, <2>1, <2>2, <2>3, <2>4, LockTaken
<1>3. CASE Refuse(t)
  <2>1. OnlyMoves(t) /\ turn'[t].pc = "done" /\ turn[t].pc = "fetched"
    BY <1>0, <1>3, OutsideType DEF Refuse, End, OnlyMoves
  <2>2. /\ turn'[t].pc \in InsideLabels <=> turn[t].pc \in InsideLabels
        /\ ~Inside(t)
    BY <2>1 DEF InsideLabels, Inside
  <2> QED
    BY <1>3, <2>1, <2>2, LockUntouched DEF Refuse
<1>4. CASE RestoreFromMemory(t) \/ RestoreFromCheckpoint(t)
  <2>1. PICK p : Resolve(t, p)
    BY <1>4 DEF RestoreFromMemory, RestoreFromCheckpoint
  <2>2. /\ OnlyMoves(t) /\ turn'[t].ses = turn[t].ses
        /\ turn'[t].pc \in {"planning", "savingAnswer", "savingCancel"}
    BY <1>0, <1>1, <2>1 DEF Resolve, NoAnswer, Answer, OnlyMoves, Turn
  <2>3. PICK q : session' = [session EXCEPT ![turn[t].ses].pending = q]
    BY <2>1 DEF Resolve, NoAnswer, Answer
  <2>4. \A r \in Turns : session'[r].lock = session[r].lock
    BY <1>0, <1>1, <2>3, PendingKeepsLock
  <2>5. turn[t].pc \in {"entered", "loading"}
    BY <1>4 DEF RestoreFromMemory, RestoreFromCheckpoint
  <2>6. turn'[t].pc \in InsideLabels <=> turn[t].pc \in InsideLabels
    BY <2>2, <2>5 DEF InsideLabels
  <2> QED
    BY <2>2, <2>4, <2>6, LockUntouched
<1>5. CASE ReadCheckpoint(t)
  <2>1. /\ OnlyMoves(t) /\ turn'[t].ses = turn[t].ses /\ turn'[t].pc = "loading"
        /\ turn[t].pc = "entered" /\ session' = session
    BY <1>0, <1>1, <1>5 DEF ReadCheckpoint, OnlyMoves, Turn
  <2>2. turn'[t].pc \in InsideLabels <=> turn[t].pc \in InsideLabels
    BY <2>1 DEF InsideLabels
  <2> QED
    BY <2>1, <2>2, LockUntouched
<1>6. CASE PlanAsks(t) \/ PlanEnds(t) \/ PlanRaises(t)
  <2>1. OnlyMoves(t) /\ turn'[t].pc \in {"savingAsked", "replying", "done"}
    <3>1. CASE PlanAsks(t)
      BY <1>0, <1>1, <3>1 DEF PlanAsks, OnlyMoves, Turn
    <3>2. CASE PlanEnds(t)
      <4>1. PICK w : turn' = [turn EXCEPT ![t].pc = "replying", ![t].wf = w]
        BY <3>2 DEF PlanEnds
      <4> QED
        BY <1>0, <1>1, <4>1 DEF OnlyMoves, Turn
    <3>3. CASE PlanRaises(t)
      BY <1>0, <1>1, <3>3, OutsideType DEF PlanRaises, End, OnlyMoves
    <3> QED
      BY <1>6, <3>1, <3>2, <3>3
  <2>2. OnlyLocks(turn[t].ses) /\ session'[turn[t].ses].lock = FALSE
    <3>1. CASE PlanAsks(t)
      BY <1>0, <1>1, <1>a, <3>1 DEF PlanAsks, OnlyLocks, Session
    <3>2. CASE PlanEnds(t) \/ PlanRaises(t)
      <4>1. session' = [session EXCEPT ![turn[t].ses].lock = FALSE]
        BY <3>2 DEF PlanEnds, PlanRaises
      <4> QED
        BY <1>0, <1>1, <1>a, <4>1 DEF OnlyLocks, Session
    <3> QED
      BY <1>6, <3>1, <3>2
  <2>3. Inside(t) /\ turn'[t].pc \notin InsideLabels
    BY <1>6, <2>1 DEF PlanAsks, PlanEnds, PlanRaises, Inside, InsideLabels
  <2> QED
    BY <1>1, <2>1, <2>2, <2>3, LockGivenBack
<1> QED
  BY <1>2, <1>3, <1>4, <1>5, <1>6 DEF SendMessage

\* The steps outside it; a save may end it.
LEMMA OtherStepsLock ==
  ASSUME TypeInv, SessionLock, NEW t \in Turns,
         Save(t) \/ ReplyEndsTurn(t) \/ Execution(t) \/ ClearCheckpoint(t) \/ DropSession(t)
  PROVE  SessionLock'
<1>0. turn \in [Turns -> Turn] /\ session \in [Turns -> Session]
  BY DEF TypeInv, TypeOK
<1>1. turn[t] \in Turn /\ turn[t].ses \in Turns
  BY InTurn DEF Save, Saving, ReplyEndsTurn, ClearCheckpoint, DropSession, InFlight,
     Execution, RefuseExecution, StartExecution, EndExecution, ExecutionRaises, HasWork
<1>2. CASE Save(t)
  <2>1. /\ OnlyMoves(t) /\ turn'[t].pc \in {"replying", "done"}
        /\ turn'[t].pc \notin InsideLabels
    BY <1>0, <1>1, <1>2, OutsideType DEF Save, AfterSave, End, OnlyMoves, Turn, InsideLabels
  <2>2. CASE Inside(t)
    <3>1. OnlyLocks(turn[t].ses) /\ session'[turn[t].ses].lock = FALSE
      BY <1>0, <1>1, <1>2, <2>2, LockSetOnly DEF Save, AfterSave, OnlyLocks
    <3> QED
      BY <1>1, <2>1, <2>2, <3>1, LockGivenBack
  <2>3. CASE ~Inside(t)
    <3>1. session' = session
      BY <1>2, <2>3 DEF Save, AfterSave
    <3>2. turn[t].pc \notin InsideLabels
      BY <2>3 DEF Inside, InsideLabels
    <3> QED
      BY <2>1, <2>3, <3>1, <3>2, LockUntouched
  <2> QED
    BY <2>2, <2>3
<1>3. CASE ReplyEndsTurn(t) \/ Execution(t) \/ ClearCheckpoint(t) \/ DropSession(t)
  <2>1. /\ OnlyMoves(t)
        /\ turn'[t].pc \in {"savingResult", "calling", "clearing", "done"}
    BY <1>0, <1>1, <1>3, OutsideType DEF ReplyEndsTurn, Execution, RefuseExecution,
       StartExecution, EndExecution, ExecutionRaises, ClearCheckpoint, DropSession,
       End, OnlyMoves, Turn
  <2>2. turn[t].pc \in {"replying", "calling", "fetched", "clearing"}
    BY <1>3 DEF ReplyEndsTurn, Execution, RefuseExecution, StartExecution,
       EndExecution, ExecutionRaises, ClearCheckpoint, DropSession, HasWork
  <2>3. \/ session' = session
        \/ \E q : session' = [session EXCEPT ![turn[t].ses].pending = q]
    BY <1>3 DEF ReplyEndsTurn, Execution, RefuseExecution, StartExecution,
       EndExecution, ExecutionRaises, ClearCheckpoint, DropSession
  <2>4. \A r \in Turns : session'[r].lock = session[r].lock
    <3>1. CASE session' = session
      BY <3>1
    <3>2. CASE \E q : session' = [session EXCEPT ![turn[t].ses].pending = q]
      <4>1. PICK q : session' = [session EXCEPT ![turn[t].ses].pending = q]
        BY <3>2
      <4> QED
        BY <1>0, <1>1, <4>1, PendingKeepsLock
    <3> QED
      BY <2>3, <3>1, <3>2
  <2>5. /\ turn'[t].pc \in InsideLabels <=> turn[t].pc \in InsideLabels
        /\ ~Inside(t)
    BY <2>1, <2>2 DEF InsideLabels, Inside
  <2> QED
    BY <2>1, <2>4, <2>5, LockUntouched
<1> QED
  BY <1>2, <1>3

LEMMA LockInit == Init => SessionLock
<1> SUFFICES ASSUME Init PROVE SessionLock
  OBVIOUS
<1>1. \A t \in Turns : turn[t].pc = "absent"
  BY DEF Init, Outside
<1>2. \A s \in Turns : ~session[s].lock
  BY DEF Init, FreshSession
<1> QED
  BY <1>1, <1>2 DEF SessionLock, Inside

LEMMA LockNext == TypeInv /\ SessionLock /\ [Next]_vars => SessionLock'
<1> SUFFICES ASSUME TypeInv, SessionLock, [Next]_vars PROVE SessionLock'
  OBVIOUS
<1>0. turn \in [Turns -> Turn]
  BY DEF TypeInv, TypeOK
<1>1. CASE \E t \in Turns : \E m \in Messages : Arrive(t, m)
  <2>1. PICK t \in Turns, m \in Messages : Arrive(t, m)
    BY <1>1
  <2>2. turn[t] \in Turn
    BY <1>0
  <2>3. /\ OnlyMoves(t) /\ turn[t].pc = "absent" /\ turn'[t].pc = "fetched"
        /\ session' = session
    BY <1>0, <2>1, <2>2 DEF Arrive, OnlyMoves, Turn
  <2>4. /\ turn'[t].pc \in InsideLabels <=> turn[t].pc \in InsideLabels
        /\ ~Inside(t)
    BY <2>3 DEF InsideLabels, Inside
  <2> QED
    BY <2>3, <2>4, LockUntouched
<1>2. CASE \E t \in Turns : Continue(t)
  BY <1>2, SendMessageLock, OtherStepsLock DEF Continue
<1>3. CASE Crash
  <2>1. ASSUME NEW t \in Turns PROVE ~Inside(t)'
    <3>1. turn'[t] = IF InFlight(t) THEN Outside("lost") ELSE turn[t]
      BY <1>3 DEF Crash
    <3>2. turn'[t].pc \in {"absent", "done", "lost"}
      BY <3>1, OutsideType DEF InFlight
    <3> QED
      BY <3>2 DEF Inside
  <2>2. \A s \in Turns : ~session'[s].lock
    BY <1>3 DEF Crash, FreshSession
  <2> QED
    BY <2>1, <2>2 DEF SessionLock
<1>4. CASE UNCHANGED vars
  BY <1>4 DEF vars, SessionLock, Inside
<1> QED
  BY <1>1, <1>2, <1>3, <1>4 DEF Next

\* The lock of a session is held exactly while one turn is inside send_message on it,
\* for any number of turns, crashes, failures and sessions dropped under a turn.
THEOREM SessionLockHeld == Spec => []SessionLock
<1>1. Init => SessionLock
  BY LockInit
<1>2. TypeInv /\ SessionLock /\ [Next]_vars => SessionLock'
  BY LockNext
<1> QED
  BY <1>1, <1>2, TypeCorrect, PTL DEF Spec

-----------------------------------------------------------------------------
(* One execution per question.  A question is the workflow a turn q asks    *)
(* about.  Copies of it can be answered (it is held) or have been (it is    *)
(* answered), never both, as long as the history is clean.                  *)

\* What the coroutine e of a turn does with question q: it will run it, has
\* taken it to cancel it, has read it from the checkpoint, saves it.
RunsIt(e, q) == /\ e.pc \in {"savingAnswer", "replying"}
                /\ e.wf.source = q /\ e.wf.status = "planned"
CancelsIt(e, q) == e.pc = "savingCancel" /\ e.wf.trace = q
LoadsIt(e, q) == e.pc = "loading" /\ e.loaded.trace = q
Asking(w, q) == w.trace = q /\ w.status = "needs_confirm" /\ w.need
AsksIt(e, q) == e.pc \in {"savingAsked", "savingResult"} /\ Asking(e.wf, q)

\* It has taken the question, and nobody else may.
Takes(e, q) == RunsIt(e, q) \/ CancelsIt(e, q)

\* The save under way will replace the copy in the checkpoint.
Replaces(e, q) == (e.pc = "savingAnswer" /\ RunsIt(e, q)) \/ CancelsIt(e, q)

\* The question that is pending in the registered session.
PendingTrace == IF live = NoTurn THEN NoTurn ELSE session[live].pending.trace

Held(q) ==
  \/ PendingTrace = q
  \/ \E u \in Turns : LoadsIt(turn[u], q)
  \/ Asking(checkpoint, q) /\ \A u \in Turns : ~Replaces(turn[u], q)
  \/ AsksIt(turn[q], q)

Answered(q) ==
  \/ ran[q] > 0 \/ runs[q] = "cancelled"
  \/ \E u \in Turns : Takes(turn[u], q)

\* Turn q has not asked yet.
NotAsked(e) ==
  \/ e.pc \in {"absent", "fetched", "entered", "loading", "planning",
               "savingAnswer", "savingCancel", "calling"}
  \/ e.pc = "replying" /\ ~e.byTasks

Once(q) ==
  /\ Answered(q) => ~Held(q)
  /\ NotAsked(turn[q]) => ~Answered(q) /\ ~Held(q)
  /\ \A u, v \in Turns : Takes(turn[u], q) /\ Takes(turn[v], q) => u = v
  /\ \A u \in Turns : Takes(turn[u], q) => ran[q] = 0 /\ runs[q] # "cancelled"
  /\ ran[q] <= 1
  /\ runs[q] = "cancelled" => ran[q] = 0

\* Turns under way share the registered session; a session nobody has used
\* is as it was created.
OneLive ==
  /\ \A u \in Turns : InFlight(u) => turn[u].ses = live
  /\ live # NoTurn => turn[live].pc # "absent"
  /\ \A s \in Turns : turn[s].pc = "absent" => session[s] = FreshSession

\* The workflow a turn holds, at each await.
WorkflowShape(e, t) ==
  /\ e.pc = "savingAnswer" => e.wf.trace = t /\ e.wf.status = "planned" /\ ~e.wf.need
  /\ e.pc = "savingCancel" => e.wf.status = "cancelled"
  /\ e.pc \in {"savingAsked", "savingResult", "calling"} =>
       e.wf.trace = t /\ e.wf.status # "cancelled"
  /\ e.pc = "savingAsked" => e.wf.source = NoTurn /\ e.byTasks
  /\ e.pc = "replying" =>
       /\ e.wf.status # "cancelled" => e.wf.trace = t
       /\ e.wf.source # NoTurn => e.wf.status \in {"planned", "cancelled"}
Shape == \A t \in Turns : WorkflowShape(turn[t], t)

OnceInv == clean => OneLive /\ \A q \in Turns : Once(q)
IInv == TypeInv /\ SessionLock /\ Shape /\ OnceInv

-----------------------------------------------------------------------------
\* What one turn does to one question, when it neither takes nor asks it.
LEMMA NeutralStep ==
  ASSUME NEW t \in Turns, NEW q \in Turns, Once(q), OnlyMoves(t),
         Takes(turn'[t], q) => Takes(turn[t], q),
         PendingTrace' = q => Held(q),
         LoadsIt(turn'[t], q) => Held(q),
         t = q => ~AsksIt(turn'[t], q),
         t = q /\ NotAsked(turn'[t]) => NotAsked(turn[t]),
         Asking(checkpoint', q) =>
           AsksIt(turn[q], q) \/ (Asking(checkpoint, q) /\ ~Replaces(turn[t], q)),
         ran'[q] = ran[q], runs'[q] = "cancelled" => runs[q] = "cancelled"
  PROVE  Once(q)'
<1>1. \A u \in Turns : Takes(turn'[u], q) => Takes(turn[u], q)
  BY DEF OnlyMoves
<1>2. Held(q)' => Held(q)
  <2>1. CASE PendingTrace' = q
    BY <2>1
  <2>2. ASSUME NEW u \in Turns, LoadsIt(turn'[u], q) PROVE Held(q)
    BY <2>2 DEF OnlyMoves, Held
  <2>3. ASSUME Asking(checkpoint', q), \A u \in Turns : ~Replaces(turn'[u], q)
        PROVE  Held(q)
    <3>1. \A u \in Turns : u # t => ~Replaces(turn[u], q)
      BY <2>3 DEF OnlyMoves
    <3> QED
      BY <2>3, <3>1 DEF Held
  <2>4. CASE AsksIt(turn'[q], q)
    BY <2>4 DEF OnlyMoves, Held
  <2> QED
    BY <2>1, <2>2, <2>3, <2>4 DEF Held
<1>3. NotAsked(turn'[q]) => NotAsked(turn[q])
  BY DEF OnlyMoves
<1>4. Answered(q)' => Answered(q)
  BY <1>1 DEF Answered
<1> QED
  BY <1>1, <1>2, <1>3, <1>4 DEF Once

\* A turn that has not asked yet asks.
LEMMA AskingStep ==
  ASSUME NEW t \in Turns, Once(t), NotAsked(turn[t]), OnlyMoves(t),
         \A q \in Turns : ~Takes(turn'[t], q), ~NotAsked(turn'[t]),
         ran'[t] = ran[t], runs'[t] = runs[t]
  PROVE  Once(t)'
<1>1. ~Answered(t)
  BY DEF Once
<1>2. \A u \in Turns : ~Takes(turn'[u], t)
  BY <1>1 DEF OnlyMoves, Answered
<1>3. ~Answered(t)'
  BY <1>1, <1>2 DEF Answered
<1> QED
  BY <1>1, <1>2, <1>3 DEF Once, Answered

-----------------------------------------------------------------------------
(* Each action, in a clean history.                                         *)

LEMMA Context ==
  ASSUME IInv, clean
  PROVE  /\ turn \in [Turns -> Turn] /\ session \in [Turns -> Session]
         /\ live \in TurnOrNone
         /\ \A q \in Turns : Once(q)
         /\ \A u \in Turns : InFlight(u) => turn[u].ses = live /\ live \in Turns
BY DEF IInv, TypeInv, TypeOK, HoldsSession, OnceInv, OneLive

\* One turn is inside send_message at a time: all share the one session.
LEMMA AloneInside ==
  ASSUME IInv, clean, NEW t \in Turns, NEW u \in Turns, Inside(t), Inside(u)
  PROVE  t = u
BY Context DEF IInv, SessionLock, Inside, InFlight

\* A turn inside send_message is the only one that reads or replaces a question.
LEMMA AloneInsideTakes ==
  ASSUME IInv, clean, NEW t \in Turns, NEW u \in Turns, NEW q \in Turns,
         Inside(t), u # t
  PROVE  ~LoadsIt(turn[u], q) /\ ~Replaces(turn[u], q)
BY AloneInside DEF Inside, LoadsIt, Replaces, RunsIt, CancelsIt

\* A session that is created has nothing pending.
LEMMA ArriveOnce ==
  ASSUME IInv, clean, NEW t \in Turns, NEW m \in Messages, Arrive(t, m)
  PROVE  \A q \in Turns : Once(q)'
<1>1. turn \in [Turns -> Turn] /\ turn[t] \in Turn /\ session \in [Turns -> Session]
  BY Context
<1>2. /\ OnlyMoves(t) /\ turn[t].pc = "absent" /\ turn'[t].pc = "fetched"
      /\ live' \in {live, t} /\ live' # NoTurn
      /\ session' = session /\ checkpoint' = checkpoint /\ ran' = ran /\ runs' = runs
  BY <1>1 DEF Arrive, OnlyMoves, Turn, Turns, NoTurn
<1>3. session[t].pending = NoWorkflow
  BY <1>2 DEF IInv, OnceInv, OneLive, FreshSession
<1>4. PendingTrace' \in {PendingTrace, NoTurn}
  BY <1>2, <1>3 DEF PendingTrace, NoWorkflow
<1>5. ASSUME NEW q \in Turns PROVE Once(q)'
  <2>1. q # NoTurn /\ Once(q)
    BY Context DEF Turns, NoTurn
  <2>2. PendingTrace' = q => Held(q)
    BY <1>4, <2>1 DEF Held
  <2>3. /\ ~Takes(turn'[t], q) /\ ~LoadsIt(turn'[t], q) /\ ~AsksIt(turn'[t], q)
        /\ ~Replaces(turn[t], q)
    BY <1>2 DEF Takes, RunsIt, CancelsIt, LoadsIt, AsksIt, Replaces
  <2>4. NotAsked(turn[t])
    BY <1>2 DEF NotAsked
  <2> QED
    BY <1>2, <2>1, <2>2, <2>3, <2>4, NeutralStep
<1> QED
  BY <1>5

\* Steps that leave every question alone: the turn is not saving, and comes to
\* a label that says nothing about a question.
LEMMA IdleOnce ==
  ASSUME IInv, clean, NEW t \in Turns, OnlyMoves(t),
         turn[t].pc \in {"fetched", "entered", "planning", "replying", "calling", "clearing"},
         \/ turn'[t].pc \in {"entered", "clearing", "done", "planning"}
         \/ turn'[t].pc = "replying" /\ \A q \in Turns : ~Takes(turn'[t], q),
         NotAsked(turn'[t]) => NotAsked(turn[t]),
         PendingTrace' \in {PendingTrace, NoTurn},
         checkpoint' \in {checkpoint, NoWorkflow}, ran' = ran, runs' = runs
  PROVE  \A q \in Turns : Once(q)'
<1>1. ASSUME NEW q \in Turns PROVE Once(q)'
  <2>1. q # NoTurn /\ Once(q)
    BY Context DEF Turns, NoTurn
  <2>2. PendingTrace' = q => Held(q)
    BY <2>1 DEF Held
  <2>3. /\ ~Takes(turn'[t], q) /\ ~LoadsIt(turn'[t], q) /\ ~AsksIt(turn'[t], q)
        /\ ~Replaces(turn[t], q)
    BY DEF Takes, RunsIt, CancelsIt, LoadsIt, AsksIt, Replaces
  <2>4. Asking(checkpoint', q) => Asking(checkpoint, q)
    BY <2>1 DEF Asking, NoWorkflow
  <2> QED
    BY <2>1, <2>2, <2>3, <2>4, NeutralStep
<1> QED
  BY <1>1

\* What is pending when only this part of a session changes.
LEMMA PendingTraceSet ==
  ASSUME session \in [Turns -> Session], live \in Turns, NEW p,
         live' = live, session' = [session EXCEPT ![live].pending = p]
  PROVE  PendingTrace' = p.trace
<1>1. session[live] \in Session
  OBVIOUS
<1>2. session'[live].pending = p
  BY <1>1 DEF Session
<1> QED
  BY <1>2 DEF PendingTrace, Turns, NoTurn

\* A lock leaves what is pending alone.
LEMMA LockKeepsPending ==
  ASSUME session \in [Turns -> Session], NEW s \in Turns, NEW b,
         session' = [session EXCEPT ![s].lock = b]
  PROVE  \A r \in Turns : session'[r].pending = session[r].pending
<1>1. session[s] \in Session
  OBVIOUS
<1>2. [session[s] EXCEPT !.lock = b].pending = session[s].pending
  BY <1>1 DEF Session
<1> QED
  BY <1>2

LEMMA PendingTraceKept ==
  ASSUME live \in TurnOrNone, live' = live,
         \A r \in Turns : session'[r].pending = session[r].pending
  PROVE  PendingTrace' = PendingTrace
BY DEF PendingTrace, TurnOrNone

LEMMA EnterOnce ==
  ASSUME IInv, clean, NEW t \in Turns, Enter(t) \/ Refuse(t)
  PROVE  \A q \in Turns : Once(q)'
<1>1. /\ turn \in [Turns -> Turn] /\ turn[t] \in Turn /\ session \in [Turns -> Session]
      /\ live \in TurnOrNone
  BY Context
<1>2. turn[t].pc = "fetched" /\ turn[t].ses \in Turns
  BY Context DEF Enter, Refuse, InFlight
<1>3. OnlyMoves(t) /\ turn'[t].pc \in {"entered", "done"}
  <2>1. CASE Enter(t)
    BY <1>1, <2>1 DEF Enter, OnlyMoves, Turn
  <2>2. CASE Refuse(t)
    BY <1>1, <2>2, OutsideType DEF Refuse, End, OnlyMoves
  <2> QED
    BY <2>1, <2>2
<1>4. \A r \in Turns : session'[r].pending = session[r].pending
  <2>1. session[turn[t].ses] \in Session
    BY <1>1, <1>2
  <2>2. CASE Enter(t)
    BY <1>1, <1>2, <2>1, <2>2 DEF Enter, Session
  <2>3. CASE Refuse(t)
    BY <2>3 DEF Refuse
  <2> QED
    BY <2>2, <2>3
<1>5. live' = live /\ checkpoint' = checkpoint /\ ran' = ran /\ runs' = runs
  BY DEF Enter, Refuse
<1>6. PendingTrace' = PendingTrace
  BY <1>1, <1>4, <1>5, PendingTraceKept
<1>7. NotAsked(turn[t])
  BY <1>2 DEF NotAsked
<1> QED
  BY <1>2, <1>3, <1>5, <1>6, <1>7, IdleOnce

\* The question that is answered is held, and nobody else has taken it.  No save
\* is under way, and no other turn can have read it.
LEMMA AnswerOnce ==
  ASSUME IInv, clean, clean', NEW t \in Turns, Inside(t), ~Saving(t),
         NEW p \in Workflow, Held(p.trace),
         Answer(t, p), live' = live, checkpoint' = checkpoint, ran' = ran, runs' = runs
  PROVE  \A q \in Turns : Once(q)'
<1> DEFINE a == p.trace
<1>1. /\ turn \in [Turns -> Turn] /\ turn[t] \in Turn /\ session \in [Turns -> Session]
      /\ turn[t].ses = live /\ live \in Turns /\ a \in Turns
  BY Context DEF Inside, InFlight, Workflow
<1>2. /\ OnlyMoves(t)
      /\ \/ turn'[t].pc = "savingAnswer" /\ turn'[t].wf = Clone(p, t)
         \/ turn'[t].pc = "savingCancel" /\ turn'[t].wf = Cancelled(p)
  BY <1>1 DEF Answer, OnlyMoves, Turn
<1>3. /\ Clone(p, t).source = a /\ Clone(p, t).status = "planned"
      /\ Cancelled(p).trace = a
  BY DEF Clone, Cancelled, Workflow
<1>4. PendingTrace' = NoTurn
  <2>1. session' = [session EXCEPT ![live].pending = NoWorkflow]
    BY <1>1 DEF Answer
  <2>2. PendingTrace' = NoWorkflow.trace
    BY <1>1, <2>1, PendingTraceSet
  <2> QED
    BY <2>2 DEF NoWorkflow
<1>5. \A u \in Turns : ~Saving(u)
  BY DEF Answer, StartsSave
<1>6. turn[t].pc \in {"entered", "loading", "planning"}
  BY DEF Inside, Saving
<1>7. ~NotAsked(turn[a]) /\ ~Answered(a)
  BY <1>1, Context DEF Once
<1>8. a # t
  BY <1>6, <1>7 DEF NotAsked
<1>9. ASSUME NEW q \in Turns, q # a PROVE Once(q)'
  <2>1. Once(q) /\ q # NoTurn
    BY Context DEF Turns, NoTurn
  <2>2. ~Takes(turn'[t], q)
    BY <1>2, <1>3, <1>9 DEF Takes, RunsIt, CancelsIt
  <2>3. ~LoadsIt(turn'[t], q) /\ ~AsksIt(turn'[t], q)
    BY <1>2 DEF LoadsIt, AsksIt
  <2>4. NotAsked(turn[t])
    BY <1>6 DEF NotAsked
  <2>5. ~Replaces(turn[t], q)
    BY <1>6 DEF Replaces, RunsIt, CancelsIt
  <2> QED
    BY <1>2, <1>4, <2>1, <2>2, <2>3, <2>4, <2>5, NeutralStep
<1>10. Once(a)'
  <2>1. Takes(turn'[t], a) /\ Replaces(turn'[t], a)
    BY <1>2, <1>3 DEF Takes, Replaces, RunsIt, CancelsIt
  <2>2. \A u \in Turns : u # t => ~Takes(turn'[u], a)
    BY <1>2, <1>7 DEF OnlyMoves, Answered
  <2>3. ran[a] = 0 /\ runs[a] # "cancelled"
    BY <1>1, <1>7 DEF Answered, IInv, TypeInv, TypeOK
  <2>4. ~Held(a)'
    <3>1. \A u \in Turns : u # t => ~LoadsIt(turn'[u], a)
      BY <1>1, <1>2, AloneInsideTakes DEF OnlyMoves
    <3>2. ~LoadsIt(turn'[t], a)
      BY <1>2 DEF LoadsIt
    <3>4. ~AsksIt(turn'[a], a)
      BY <1>1, <1>2, <1>5, <1>8 DEF OnlyMoves, AsksIt, Saving
    <3>3. PendingTrace' # a
      BY <1>1, <1>4 DEF Turns, NoTurn
    <3> QED
      BY <2>1, <3>1, <3>2, <3>3, <3>4 DEF Held
  <2>5. ~NotAsked(turn'[a])
    BY <1>1, <1>2, <1>7, <1>8 DEF OnlyMoves
  <2> QED
    BY <2>1, <2>2, <2>3, <2>4, <2>5 DEF Once
<1> QED
  BY <1>9, <1>10

\* Without an answer the question stays where it was, or moves into the session.
LEMMA NoAnswerOnce ==
  ASSUME IInv, clean, NEW t \in Turns, turn[t].pc \in {"entered", "loading"},
         NEW p \in WorkflowOrNone, p # NoWorkflow => Held(p.trace),
         NoAnswer(t, p), live' = live, checkpoint' = checkpoint, ran' = ran, runs' = runs
  PROVE  \A q \in Turns : Once(q)'
<1>1. /\ turn \in [Turns -> Turn] /\ turn[t] \in Turn /\ session \in [Turns -> Session]
      /\ turn[t].ses = live /\ live \in Turns
  BY Context DEF InFlight
<1>2. OnlyMoves(t) /\ turn'[t].pc = "planning"
  BY <1>1 DEF NoAnswer, OnlyMoves, Turn
<1>3. PendingTrace' = p.trace
  <2>1. session' = [session EXCEPT ![live].pending = p]
    BY <1>1 DEF NoAnswer
  <2> QED
    BY <1>1, <2>1, PendingTraceSet
<1>4. ASSUME NEW q \in Turns PROVE Once(q)'
  <2>1. Once(q) /\ q # NoTurn
    BY Context DEF Turns, NoTurn
  <2>2. PendingTrace' = q => Held(q)
    <3>1. NoWorkflow.trace = NoTurn
      BY DEF NoWorkflow
    <3> QED
      BY <1>3, <2>1, <3>1
  <2>3. ~Takes(turn'[t], q) /\ ~LoadsIt(turn'[t], q) /\ ~AsksIt(turn'[t], q)
    BY <1>2 DEF Takes, RunsIt, CancelsIt, LoadsIt, AsksIt
  <2>4. NotAsked(turn[t]) /\ ~Replaces(turn[t], q)
    BY DEF NotAsked, Replaces, RunsIt, CancelsIt
  <2> QED
    BY <1>2, <2>1, <2>2, <2>3, <2>4, NeutralStep
<1> QED
  BY <1>4

LEMMA RestoreOnce ==
  ASSUME IInv, clean, clean', NEW t \in Turns,
         RestoreFromMemory(t) \/ RestoreFromCheckpoint(t)
  PROVE  \A q \in Turns : Once(q)'
<1>1. turn[t].pc \in {"entered", "loading"}
  BY DEF RestoreFromMemory, RestoreFromCheckpoint
<1>2. Inside(t) /\ ~Saving(t) /\ InFlight(t)
  BY <1>1 DEF Inside, Saving, InFlight
<1>3. /\ turn[t].ses = live /\ live \in Turns
      /\ session[live].pending \in WorkflowOrNone /\ turn[t].loaded \in WorkflowOrNone
  BY <1>2, Context, InTurn DEF IInv
<1>4. session[live].pending # NoWorkflow => Held(session[live].pending.trace)
  BY <1>3 DEF Held, PendingTrace, Turns, NoTurn
<1>5. turn[t].pc = "loading" /\ turn[t].loaded # NoWorkflow => Held(turn[t].loaded.trace)
  BY <1>3 DEF Held, LoadsIt
<1>6. PICK p \in WorkflowOrNone : Resolve(t, p) /\ (p # NoWorkflow => Held(p.trace))
  <2>1. CASE RestoreFromMemory(t)
    BY <1>3, <1>4, <2>1 DEF RestoreFromMemory
  <2>2. CASE RestoreFromCheckpoint(t)
    BY <1>3, <1>4, <1>5, <2>2 DEF RestoreFromCheckpoint
  <2> QED
    BY <2>1, <2>2
<1>7. live' = live /\ checkpoint' = checkpoint /\ ran' = ran /\ runs' = runs
  BY <1>6 DEF Resolve
<1>8. CASE NoAnswer(t, p)
  BY <1>1, <1>6, <1>7, <1>8, NoAnswerOnce
<1>9. CASE Answer(t, p)
  <2>1. p \in Workflow /\ Held(p.trace)
    BY <1>6, <1>9, ProperWorkflow DEF Answer
  <2> QED
    BY <1>2, <1>7, <1>9, <2>1, AnswerOnce
<1> QED
  BY <1>6, <1>8, <1>9 DEF Resolve

\* While a question is being answered nobody reads the checkpoint.
LEMMA ReadOnce ==
  ASSUME IInv, clean, clean', NEW t \in Turns, ReadCheckpoint(t)
  PROVE  \A q \in Turns : Once(q)'
<1>1. /\ turn \in [Turns -> Turn] /\ turn[t] \in Turn /\ turn[t].pc = "entered"
      /\ Inside(t)
  BY Context DEF ReadCheckpoint, Inside
<1>2. turn' = [turn EXCEPT ![t].pc = "loading",
        ![t].loaded = IF Restorable(checkpoint) THEN checkpoint ELSE NoWorkflow]
  BY DEF ReadCheckpoint, OperationFails
<1>3. /\ OnlyMoves(t) /\ turn'[t].pc = "loading"
      /\ turn'[t].loaded = IF Restorable(checkpoint) THEN checkpoint ELSE NoWorkflow
  BY <1>1, <1>2 DEF OnlyMoves, Turn
<1>4. /\ live' = live /\ session' = session /\ checkpoint' = checkpoint
      /\ ran' = ran /\ runs' = runs
  BY DEF ReadCheckpoint
<1>5. PendingTrace' = PendingTrace
  BY <1>4 DEF PendingTrace
<1>6. ASSUME NEW q \in Turns PROVE Once(q)'
  <2>1. Once(q) /\ q # NoTurn
    BY Context DEF Turns, NoTurn
  <2>2. \A u \in Turns : ~Replaces(turn[u], q)
    BY <1>1, AloneInsideTakes DEF Replaces, RunsIt, CancelsIt
  <2>3. LoadsIt(turn'[t], q) => Held(q)
    BY <1>3, <2>1, <2>2 DEF LoadsIt, Held, Asking, Restorable, NoWorkflow
  <2>4. ~Takes(turn'[t], q) /\ ~AsksIt(turn'[t], q)
    BY <1>3 DEF Takes, RunsIt, CancelsIt, AsksIt
  <2>5. NotAsked(turn[t])
    BY <1>1 DEF NotAsked
  <2>6. PendingTrace' = q => Held(q)
    BY <1>5 DEF Held
  <2> QED
    BY <1>3, <1>4, <2>1, <2>2, <2>3, <2>4, <2>5, <2>6, NeutralStep
<1> QED
  BY <1>6

\* A new question, of a turn that had not asked.
LEMMA AskOnce ==
  ASSUME IInv, clean, NEW t \in Turns, NotAsked(turn[t]), OnlyMoves(t),
         turn[t].pc \in {"planning", "replying", "calling"},
         turn'[t].pc \in {"savingAsked", "savingResult"},
         PendingTrace' \in {PendingTrace, NoTurn, t},
         checkpoint' = checkpoint, ran' = ran, runs' = runs
  PROVE  \A q \in Turns : Once(q)'
<1>1. \A q \in Turns : ~Takes(turn'[t], q) /\ ~LoadsIt(turn'[t], q) /\ ~Replaces(turn[t], q)
  BY DEF Takes, RunsIt, CancelsIt, LoadsIt, Replaces
<1>2. ~NotAsked(turn'[t])
  BY DEF NotAsked
<1>3. ASSUME NEW q \in Turns, q # t PROVE Once(q)'
  <2>1. Once(q) /\ q # NoTurn
    BY Context DEF Turns, NoTurn
  <2>2. PendingTrace' = q => Held(q)
    BY <1>3, <2>1 DEF Held
  <2> QED
    BY <1>1, <1>3, <2>1, <2>2, NeutralStep
<1>4. Once(t)'
  BY <1>1, <1>2, Context, AskingStep
<1> QED
  BY <1>3, <1>4

\* What record_workflow leaves pending.
LEMMA PendingTraceAfter ==
  ASSUME NEW t \in Turns, NEW w, w.trace = t, live \in Turns, live' = live,
         session'[live].pending = PendingAfter(session[live].pending, w)
  PROVE  PendingTrace' \in {PendingTrace, NoTurn, t}
BY DEF PendingTrace, PendingAfter, NoWorkflow, Turns, NoTurn

LEMMA PlanOnce ==
  ASSUME IInv, clean, NEW t \in Turns, PlanAsks(t) \/ PlanEnds(t) \/ PlanRaises(t)
  PROVE  \A q \in Turns : Once(q)'
<1>1. turn[t].pc = "planning"
  BY DEF PlanAsks, PlanEnds, PlanRaises
<1>2. /\ turn \in [Turns -> Turn] /\ turn[t] \in Turn /\ session \in [Turns -> Session]
      /\ turn[t].ses = live /\ live \in Turns /\ live \in TurnOrNone
      /\ session[live] \in Session
  BY <1>1, Context DEF InFlight
<1>3. NotAsked(turn[t])
  BY <1>1 DEF NotAsked
<1>4. live' = live /\ checkpoint' = checkpoint /\ ran' = ran /\ runs' = runs
  BY DEF PlanAsks, PlanEnds, PlanRaises
<1>5. CASE PlanAsks(t)
  <2>1. PICK b \in BOOLEAN :
          /\ turn' = [turn EXCEPT ![t].pc = "savingAsked",
                        ![t].wf = Built(t, "needs_confirm", TRUE, b), ![t].byTasks = TRUE]
          /\ session' = [session EXCEPT
               ![turn[t].ses].pending = PendingAfter(@, Built(t, "needs_confirm", TRUE, b)),
               ![turn[t].ses].lock = FALSE]
    BY <1>5 DEF PlanAsks
  <2> DEFINE w == Built(t, "needs_confirm", TRUE, b)
  <2>2. w.trace = t
    BY DEF Built
  <2> HIDE DEF w
  <2>3. OnlyMoves(t) /\ turn'[t].pc = "savingAsked"
    BY <1>2, <2>1 DEF OnlyMoves, Turn
  <2>4. session'[live].pending = PendingAfter(session[live].pending, w)
    BY <1>2, <2>1 DEF Session, w
  <2>5. PendingTrace' \in {PendingTrace, NoTurn, t}
    BY <1>2, <1>4, <2>2, <2>4, PendingTraceAfter
  <2> QED
    BY <1>1, <1>3, <1>4, <2>3, <2>5, AskOnce
<1>6. CASE PlanEnds(t) \/ PlanRaises(t)
  <2>1. session' = [session EXCEPT ![live].lock = FALSE]
    BY <1>2, <1>6 DEF PlanEnds, PlanRaises
  <2>2. PendingTrace' = PendingTrace
    BY <1>2, <1>4, <2>1, LockKeepsPending, PendingTraceKept
  <2>3. CASE PlanEnds(t)
    <3>1. PICK x \in Statuses, n \in BOOLEAN, b \in BOOLEAN :
            turn' = [turn EXCEPT ![t].pc = "replying", ![t].wf = Built(t, x, n, b)]
      BY <2>3 DEF PlanEnds, Statuses
    <3>2. OnlyMoves(t) /\ turn'[t].pc = "replying" /\ turn'[t].wf = Built(t, x, n, b)
      BY <1>2, <3>1 DEF OnlyMoves, Turn
    <3>3. turn'[t].wf.source = NoTurn
      BY <3>2 DEF Built
    <3>4. \A q \in Turns : ~Takes(turn'[t], q)
      BY <3>2, <3>3 DEF Takes, RunsIt, CancelsIt, Turns, NoTurn
    <3> QED
      BY <1>1, <1>3, <1>4, <2>2, <3>2, <3>4, IdleOnce
  <2>4. CASE PlanRaises(t)
    <3>1. OnlyMoves(t) /\ turn'[t].pc = "done"
      BY <1>2, <2>4, OutsideType DEF PlanRaises, End, OnlyMoves
    <3> QED
      BY <1>1, <1>3, <1>4, <2>2, <3>1, IdleOnce
  <2> QED
    BY <1>6, <2>3, <2>4
<1> QED
  BY <1>5, <1>6

\* A save makes an answer last, or a question.
LEMMA SaveOnce ==
  ASSUME IInv, clean, clean', NEW t \in Turns, Save(t)
  PROVE  \A q \in Turns : Once(q)'
<1> DEFINE w == turn[t].wf
<1>1. /\ turn \in [Turns -> Turn] /\ turn[t] \in Turn /\ session \in [Turns -> Session]
      /\ turn[t].ses = live /\ live \in Turns /\ live \in TurnOrNone
      /\ runs \in [Turns -> Statuses \cup {"absent"}]
  BY Context DEF Save, Saving, InFlight, IInv, TypeInv, TypeOK
<1>2. w \in Workflow
  BY InTurn DEF Save, HasPlan, IInv
<1>3. checkpoint' = w /\ runs' = RunAfter(w) /\ live' = live /\ ran' = ran
  BY DEF Save, AfterSave, OperationFails
<1>4. PendingTrace' = PendingTrace
  <2>1. \A r \in Turns : session'[r].pending = session[r].pending
    BY <1>1, LockKeepsPending DEF Save, AfterSave
  <2> QED
    BY <1>1, <1>3, <2>1, PendingTraceKept
<1>5. /\ OnlyMoves(t)
      /\ \/ turn[t].pc = "savingResult" /\ turn'[t].pc = "done"
         \/ /\ turn[t].pc # "savingResult" /\ turn'[t].pc = "replying"
            /\ turn'[t].wf = w /\ turn'[t].byTasks = turn[t].byTasks
  BY <1>1, OutsideType DEF Save, AfterSave, End, OnlyMoves, Turn
<1>6. WorkflowShape(turn[t], t) /\ Saving(t)
  BY DEF IInv, Shape, Save
<1>7. \A q \in Turns : runs'[q] = IF q = w.trace THEN w.status ELSE runs[q]
  BY <1>1, <1>2, <1>3 DEF RunAfter, Workflow
<1>8. ASSUME NEW q \in Turns, ~CancelsIt(turn[t], q) PROVE Once(q)'
  <2>1. Once(q) /\ q # NoTurn
    BY Context DEF Turns, NoTurn
  <2>2. PendingTrace' = q => Held(q)
    BY <1>4 DEF Held
  <2>3. Takes(turn'[t], q) => Takes(turn[t], q)
    BY <1>5, <1>6, <2>1 DEF Takes, RunsIt, CancelsIt, WorkflowShape, Saving
  <2>4. ~LoadsIt(turn'[t], q) /\ ~AsksIt(turn'[t], q)
    BY <1>5 DEF LoadsIt, AsksIt
  <2>5. t = q /\ NotAsked(turn'[t]) => NotAsked(turn[t])
    BY <1>5, <1>6 DEF NotAsked, Saving, WorkflowShape
  <2>6. Asking(checkpoint', q) => AsksIt(turn[q], q)
    BY <1>3, <1>6 DEF Asking, AsksIt, WorkflowShape, Saving
  <2>7. runs'[q] = "cancelled" => runs[q] = "cancelled"
    BY <1>6, <1>7, <1>8 DEF WorkflowShape, Saving, CancelsIt
  <2> QED
    BY <1>3, <1>5, <2>1, <2>2, <2>3, <2>4, <2>5, <2>6, <2>7, NeutralStep
<1>9. ASSUME NEW q \in Turns, CancelsIt(turn[t], q) PROVE Once(q)'
  <2>1. Once(q) /\ q # NoTurn /\ Takes(turn[t], q)
    BY <1>9, Context DEF Turns, NoTurn, Takes
  <2>2. ~Held(q) /\ ~NotAsked(turn[q]) /\ ran[q] = 0
    BY <2>1 DEF Once, Answered
  <2>3. turn[t].pc = "savingCancel" /\ w.trace = q /\ w.status = "cancelled"
    BY <1>6, <1>9 DEF CancelsIt, WorkflowShape
  <2>4. ~Takes(turn'[t], q)
    BY <1>5, <2>3 DEF Takes, RunsIt, CancelsIt
  <2>5. \A u \in Turns : ~Takes(turn'[u], q)
    BY <1>5, <2>1, <2>4 DEF Once, OnlyMoves
  <2>6. ~Held(q)'
    <3>1. \A u \in Turns : ~LoadsIt(turn'[u], q)
      BY <1>5, <2>2 DEF Held, OnlyMoves, LoadsIt
    <3>2. ~AsksIt(turn'[q], q)
      BY <1>5, <2>2 DEF Held, OnlyMoves, AsksIt
    <3>3. ~Asking(checkpoint', q) /\ PendingTrace' # q
      BY <1>3, <1>4, <2>2, <2>3 DEF Asking, Held
    <3> QED
      BY <3>1, <3>2, <3>3 DEF Held
  <2>7. ~NotAsked(turn'[q])
    BY <1>5, <2>2, <2>3 DEF OnlyMoves, NotAsked
  <2> QED
    BY <1>3, <2>2, <2>5, <2>6, <2>7 DEF Once
<1> QED
  BY <1>8, <1>9

\* The only step that executes a question, and it executes the one taken.
LEMMA StartOnce ==
  ASSUME IInv, clean, NEW t \in Turns, StartExecution(t)
  PROVE  \A q \in Turns : Once(q)'
<1>1. /\ turn \in [Turns -> Turn] /\ turn[t] \in Turn /\ ran \in [Turns -> Nat]
      /\ turn[t].wf \in Workflow /\ turn[t].pc = "replying"
      /\ turn[t].wf.status # "cancelled" /\ ~turn[t].byTasks
  BY InTurn, Context DEF StartExecution, HasWork, HasPlan, IInv, TypeInv, TypeOK
<1>2. OnlyMoves(t) /\ turn'[t].pc = "calling"
  BY <1>1 DEF StartExecution, OnlyMoves, Turn
<1>3. /\ live' = live /\ session' = session /\ checkpoint' = checkpoint /\ runs' = runs
      /\ \A q \in Turns : ran'[q] = IF q = turn[t].wf.source THEN ran[q] + 1 ELSE ran[q]
  BY <1>1 DEF StartExecution, NoTurn, Turns
<1>4. PendingTrace' = PendingTrace
  BY <1>3 DEF PendingTrace
<1>5. \A q \in Turns : /\ ~Takes(turn'[t], q) /\ ~LoadsIt(turn'[t], q)
                       /\ ~AsksIt(turn'[t], q) /\ ~Replaces(turn[t], q)
  BY <1>1, <1>2 DEF Takes, RunsIt, CancelsIt, LoadsIt, AsksIt, Replaces
<1>6. NotAsked(turn[t])
  BY <1>1 DEF NotAsked
<1>7. ASSUME NEW q \in Turns, q # turn[t].wf.source PROVE Once(q)'
  <2>1. Once(q)
    BY Context
  <2>2. PendingTrace' = q => Held(q)
    BY <1>4 DEF Held
  <2> QED
    BY <1>2, <1>3, <1>5, <1>6, <1>7, <2>1, <2>2, NeutralStep
<1>8. ASSUME NEW s \in Turns, s = turn[t].wf.source PROVE Once(s)'
  <2>1. Takes(turn[t], s) /\ Once(s)
    BY <1>1, <1>8, Context DEF Takes, RunsIt, IInv, Shape, WorkflowShape, Turns, NoTurn
  <2>2. ~Held(s) /\ ~NotAsked(turn[s]) /\ ran[s] = 0 /\ runs[s] # "cancelled"
    BY <1>8, <2>1 DEF Once, Answered
  <2>3. \A u \in Turns : ~Takes(turn'[u], s)
    BY <1>2, <1>5, <1>8, <2>1 DEF Once, OnlyMoves
  <2>4. ~Held(s)'
    <3>1. \A u \in Turns : ~LoadsIt(turn'[u], s)
      BY <1>2, <1>5, <1>8, <2>2 DEF Held, OnlyMoves
    <3>2. ~AsksIt(turn'[s], s) /\ PendingTrace' # s
      BY <1>2, <1>4, <1>5, <1>8, <2>2 DEF Held, OnlyMoves
    <3>3. ASSUME Asking(checkpoint', s) PROVE \E u \in Turns : Replaces(turn'[u], s)
      <4>1. PICK u \in Turns : Replaces(turn[u], s)
        BY <1>3, <2>2, <3>3 DEF Held
      <4>2. u # t
        BY <1>5, <1>8, <4>1
      <4> QED
        BY <1>2, <4>1, <4>2 DEF OnlyMoves
    <3> QED
      BY <3>1, <3>2, <3>3 DEF Held
  <2>5. s # t
    BY <1>6, <2>2
  <2>6. ~NotAsked(turn'[s])
    BY <1>2, <1>8, <2>2, <2>5 DEF OnlyMoves
  <2>7. ran'[s] = 1 /\ runs'[s] # "cancelled"
    BY <1>3, <1>8, <2>2
  <2> QED
    BY <2>3, <2>4, <2>6, <2>7 DEF Once
<1> QED
  BY <1>7, <1>8

LEMMA ExecutionOnce ==
  ASSUME IInv, clean, NEW t \in Turns, Execution(t) \/ ReplyEndsTurn(t)
  PROVE  \A q \in Turns : Once(q)'
<1>1. /\ turn \in [Turns -> Turn] /\ turn[t] \in Turn /\ session \in [Turns -> Session]
      /\ turn[t].pc \in {"replying", "calling"}
  BY Context DEF Execution, RefuseExecution, StartExecution, EndExecution,
     ExecutionRaises, HasWork, ReplyEndsTurn
<1>2. /\ turn[t].ses = live /\ live \in Turns /\ session[live] \in Session
      /\ turn[t].wf \in Workflow /\ WorkflowShape(turn[t], t)
  BY <1>1, Context, InTurn DEF InFlight, HasPlan, IInv, Shape
<1>3. CASE StartExecution(t)
  BY <1>3, StartOnce
<1>4. CASE RefuseExecution(t) \/ EndExecution(t)
  <2>1. PICK w \in Workflow :
          /\ w.trace = t
          /\ session' = [session EXCEPT ![live].pending = PendingAfter(@, w)]
    <3>1. CASE RefuseExecution(t)
      <4>1. turn[t].wf.trace = t
        BY <1>2, <3>1 DEF RefuseExecution, HasWork, WorkflowShape
      <4> QED
        BY <1>2, <3>1, <4>1 DEF RefuseExecution
    <3>2. CASE EndExecution(t)
      <4>1. PICK status \in {"completed", "failed", "needs_confirm"} :
              LET w == [turn[t].wf EXCEPT !.status = status,
                                          !.need = (status = "needs_confirm")]
              IN session' = [session EXCEPT ![turn[t].ses].pending = PendingAfter(@, w)]
        BY <3>2 DEF EndExecution
      <4> DEFINE w == [turn[t].wf EXCEPT !.status = status,
                                         !.need = (status = "needs_confirm")]
      <4>2. w \in Workflow /\ w.trace = t
        BY <1>2, <3>2 DEF EndExecution, WorkflowShape, Workflow, Statuses
      <4> QED
        BY <1>2, <4>1, <4>2
    <3> QED
      BY <1>4, <3>1, <3>2
  <2>2. session'[live].pending = PendingAfter(session[live].pending, w)
    BY <1>1, <1>2, <2>1 DEF Session
  <2>3. OnlyMoves(t) /\ turn'[t].pc = "savingResult"
    BY <1>1, <1>4 DEF RefuseExecution, EndExecution, OnlyMoves, Turn
  <2>4. NotAsked(turn[t])
    BY <1>4 DEF RefuseExecution, EndExecution, HasWork, NotAsked
  <2>5. live' = live /\ checkpoint' = checkpoint /\ ran' = ran /\ runs' = runs
    BY <1>4 DEF RefuseExecution, EndExecution
  <2>6. PendingTrace' \in {PendingTrace, NoTurn, t}
    BY <1>2, <2>1, <2>2, <2>5, PendingTraceAfter
  <2> QED
    BY <1>1, <2>3, <2>4, <2>5, <2>6, AskOnce
<1>5. CASE ReplyEndsTurn(t) \/ ExecutionRaises(t)
  <2>1. OnlyMoves(t) /\ turn'[t].pc = "done"
    BY <1>1, <1>5, OutsideType DEF ReplyEndsTurn, ExecutionRaises, End, OnlyMoves
  <2>2. /\ live' = live /\ session' = session /\ checkpoint' = checkpoint
        /\ ran' = ran /\ runs' = runs
    BY <1>5 DEF ReplyEndsTurn, ExecutionRaises
  <2>3. PendingTrace' = PendingTrace
    BY <2>2 DEF PendingTrace
  <2>4. ~NotAsked(turn'[t])
    BY <2>1 DEF NotAsked
  <2> QED
    BY <1>1, <2>1, <2>2, <2>3, <2>4, IdleOnce
<1> QED
  BY <1>3, <1>4, <1>5 DEF Execution

LEMMA ClearOnce ==
  ASSUME IInv, clean, clean', NEW t \in Turns, ClearCheckpoint(t) \/ DropSession(t)
  PROVE  \A q \in Turns : Once(q)'
<1>1. /\ turn \in [Turns -> Turn] /\ turn[t] \in Turn
      /\ turn[t].pc \in {"fetched", "clearing"}
  BY Context DEF ClearCheckpoint, DropSession
<1>2. OnlyMoves(t) /\ turn'[t].pc \in {"clearing", "done"}
  <2>1. CASE ClearCheckpoint(t)
    BY <1>1, <2>1 DEF ClearCheckpoint, OnlyMoves, Turn
  <2>2. CASE DropSession(t)
    BY <1>1, <2>2, OutsideType DEF DropSession, End, OnlyMoves
  <2> QED
    BY <2>1, <2>2
<1>3. checkpoint' \in {checkpoint, NoWorkflow} /\ ran' = ran /\ runs' = runs
  BY DEF ClearCheckpoint, DropSession
<1>4. PendingTrace' \in {PendingTrace, NoTurn}
  BY DEF ClearCheckpoint, DropSession, PendingTrace
<1>5. ~NotAsked(turn'[t])
  BY <1>2 DEF NotAsked
<1> QED
  BY <1>1, <1>2, <1>3, <1>4, <1>5, IdleOnce

\* A crash ends every answer that was not executed; the question is in the
\* checkpoint still if the answer was not saved.
LEMMA CrashOnce ==
  ASSUME IInv, clean, Crash
  PROVE  \A q \in Turns : Once(q)'
<1>1. \A u \in Turns : \/ turn'[u].pc = "lost"
                       \/ turn'[u] = turn[u] /\ turn[u].pc \in {"absent", "done", "lost"}
  BY OutsideType DEF Crash, InFlight
<1>2. \A u, q \in Turns : ~Takes(turn'[u], q) /\ ~LoadsIt(turn'[u], q) /\ ~AsksIt(turn'[u], q)
  BY <1>1 DEF Takes, RunsIt, CancelsIt, LoadsIt, AsksIt
<1>3. live' = NoTurn /\ checkpoint' = checkpoint /\ ran' = ran /\ runs' = runs
  BY DEF Crash
<1>4. ASSUME NEW q \in Turns PROVE Once(q)'
  <2>1. Once(q)
    BY Context
  <2>2. PendingTrace' # q
    BY <1>3 DEF PendingTrace, Turns, NoTurn
  <2>3. Held(q)' <=> Asking(checkpoint, q)
    BY <1>2, <1>3, <2>2 DEF Held, Replaces, Takes
  <2>4. Answered(q)' <=> ran[q] > 0 \/ runs[q] = "cancelled"
    BY <1>2, <1>3 DEF Answered
  <2>5. Answered(q)' => ~Held(q)'
    <3>1. CASE \E u \in Turns : Takes(turn[u], q)
      BY <2>1, <2>4, <3>1 DEF Once
    <3>2. CASE ~\E u \in Turns : Takes(turn[u], q)
      BY <2>1, <2>3, <2>4, <3>2 DEF Once, Answered, Held, Replaces, Takes
    <3> QED
      BY <3>1, <3>2
  <2>6. NotAsked(turn'[q]) => ~Answered(q)' /\ ~Held(q)'
    <3>1. NotAsked(turn'[q]) => turn[q].pc = "absent"
      BY <1>1 DEF NotAsked
    <3>2. turn[q].pc = "absent" => ~Answered(q) /\ ~Held(q)
      BY <2>1 DEF Once, NotAsked
    <3>3. ~Answered(q) /\ ~Held(q) => ~Asking(checkpoint, q)
      BY DEF Answered, Held, Replaces, Takes
    <3> QED
      BY <2>3, <2>4, <3>1, <3>2, <3>3 DEF Answered
  <2> QED
    BY <1>2, <1>3, <2>1, <2>5, <2>6 DEF Once
<1> QED
  BY <1>4

-----------------------------------------------------------------------------
\* A turn that goes on keeps its session, and touches no other.
KeepsSession(t) ==
  /\ OnlyMoves(t) /\ turn'[t].pc # "absent"
  /\ turn'[t].pc = "done" \/ turn'[t].ses = turn[t].ses
  /\ \A r \in Turns : r # turn[t].ses => session'[r] = session[r]

LEMMA ContinueKeepsSession ==
  ASSUME TypeInv, NEW t \in Turns, Continue(t)
  PROVE  /\ InFlight(t) /\ KeepsSession(t)
         /\ live' = live \/ DropSession(t)
<1>1. turn \in [Turns -> Turn] /\ turn[t] \in Turn /\ session \in [Turns -> Session]
  BY DEF TypeInv, TypeOK
<1>2. CASE Enter(t) \/ Refuse(t) \/ ReadCheckpoint(t)
  <2>1. CASE Enter(t)
    BY <1>1, <2>1 DEF Enter, KeepsSession, OnlyMoves, InFlight, Turn
  <2>2. CASE Refuse(t)
    BY <1>1, <2>2, OutsideType DEF Refuse, End, KeepsSession, OnlyMoves, InFlight
  <2>3. CASE ReadCheckpoint(t)
    BY <1>1, <2>3 DEF ReadCheckpoint, KeepsSession, OnlyMoves, InFlight, Turn
  <2> QED
    BY <1>2, <2>1, <2>2, <2>3 DEF Enter, Refuse, ReadCheckpoint
<1>3. CASE RestoreFromMemory(t) \/ RestoreFromCheckpoint(t)
  <2>1. PICK p : Resolve(t, p)
    BY <1>3 DEF RestoreFromMemory, RestoreFromCheckpoint
  <2>2. InFlight(t)
    BY <1>3 DEF RestoreFromMemory, RestoreFromCheckpoint, InFlight
  <2>3. CASE NoAnswer(t, p)
    BY <1>1, <2>1, <2>2, <2>3 DEF Resolve, NoAnswer, KeepsSession, OnlyMoves, Turn
  <2>4. CASE Answer(t, p)
    BY <1>1, <2>1, <2>2, <2>4 DEF Resolve, Answer, KeepsSession, OnlyMoves, Turn
  <2> QED
    BY <2>1, <2>3, <2>4 DEF Resolve
<1>4. CASE PlanAsks(t)
  <2>1. PICK w : turn' = [turn EXCEPT ![t].pc = "savingAsked", ![t].wf = w, ![t].byTasks = TRUE]
    BY <1>4 DEF PlanAsks
  <2>2. \A r \in Turns : r # turn[t].ses => session'[r] = session[r]
    BY <1>1, <1>4 DEF PlanAsks
  <2> QED
    BY <1>1, <1>4, <2>1, <2>2 DEF PlanAsks, KeepsSession, OnlyMoves, InFlight, Turn
<1>5. CASE PlanEnds(t)
  <2>1. PICK w : turn' = [turn EXCEPT ![t].pc = "replying", ![t].wf = w]
    BY <1>5 DEF PlanEnds
  <2> QED
    BY <1>1, <1>5, <2>1 DEF PlanEnds, KeepsSession, OnlyMoves, InFlight, Turn
<1>6. CASE PlanRaises(t) \/ ReplyEndsTurn(t) \/ ExecutionRaises(t) \/ DropSession(t)
  <2>1. End(t) /\ InFlight(t)
    BY <1>6 DEF PlanRaises, ReplyEndsTurn, ExecutionRaises, DropSession, InFlight
  <2>2. OnlyMoves(t) /\ turn'[t].pc = "done"
    BY <1>1, <2>1, OutsideType DEF End, OnlyMoves
  <2>3. \A r \in Turns : r # turn[t].ses => session'[r] = session[r]
    BY <1>1, <1>6 DEF PlanRaises, ReplyEndsTurn, ExecutionRaises, DropSession
  <2> QED
    BY <1>6, <2>1, <2>2, <2>3
       DEF PlanRaises, ReplyEndsTurn, ExecutionRaises, KeepsSession
<1>7. CASE Save(t)
  <2>1. InFlight(t)
    BY <1>7 DEF Save, Saving, InFlight
  <2>2. \A r \in Turns : r # turn[t].ses => session'[r] = session[r]
    BY <1>1, <1>7 DEF Save, AfterSave
  <2>3. CASE turn[t].pc = "savingResult"
    BY <1>1, <1>7, <2>1, <2>2, <2>3, OutsideType DEF Save, AfterSave, End, KeepsSession, OnlyMoves
  <2>4. CASE turn[t].pc # "savingResult"
    BY <1>1, <1>7, <2>1, <2>2, <2>4 DEF Save, AfterSave, KeepsSession, OnlyMoves, Turn
  <2> QED
    BY <2>3, <2>4
<1>8. CASE RefuseExecution(t) \/ StartExecution(t) \/ ClearCheckpoint(t)
  <2>1. CASE RefuseExecution(t)
    BY <1>1, <2>1 DEF RefuseExecution, HasWork, KeepsSession, OnlyMoves, InFlight, Turn
  <2>2. CASE StartExecution(t)
    BY <1>1, <2>2 DEF StartExecution, HasWork, KeepsSession, OnlyMoves, InFlight, Turn
  <2>3. CASE ClearCheckpoint(t)
    BY <1>1, <2>3 DEF ClearCheckpoint, KeepsSession, OnlyMoves, InFlight, Turn
  <2> QED
    BY <1>8, <2>1, <2>2, <2>3 DEF RefuseExecution, StartExecution, ClearCheckpoint
<1>9. CASE EndExecution(t)
  <2>1. PICK w : turn' = [turn EXCEPT ![t].pc = "savingResult", ![t].wf = w]
    BY <1>9 DEF EndExecution
  <2>2. \A r \in Turns : r # turn[t].ses => session'[r] = session[r]
    BY <1>1, <1>9 DEF EndExecution
  <2> QED
    BY <1>1, <1>9, <2>1, <2>2 DEF EndExecution, KeepsSession, OnlyMoves, InFlight, Turn
<1> QED
  BY <1>2, <1>3, <1>4, <1>5, <1>6, <1>7, <1>8, <1>9
     DEF Continue, SendMessage, Execution

LEMMA OneLiveNext ==
  ASSUME IInv, clean, clean', [Next]_vars
  PROVE  OneLive'
<1>0. OneLive /\ turn \in [Turns -> Turn] /\ session \in [Turns -> Session] /\ TypeInv
  BY Context DEF IInv, OnceInv
<1>1. ASSUME NEW t \in Turns, NEW m \in Messages, Arrive(t, m) PROVE OneLive'
  <2>1. turn[t] \in Turn
    BY <1>0
  <2>a. /\ OnlyMoves(t) /\ turn[t].pc = "absent" /\ turn'[t].pc = "fetched"
        /\ turn'[t].ses = live' /\ session' = session
    BY <1>0, <1>1, <2>1 DEF Arrive, OnlyMoves, Turn
  <2>b. PICK expired \in BOOLEAN :
          /\ expired => \A u \in Turns : InFlight(u) => turn[u].ses # live
          /\ live' = IF live = NoTurn \/ expired THEN t ELSE live
    BY <1>1 DEF Arrive
  <2>c. live = NoTurn => \A u \in Turns : ~InFlight(u)
    BY Context DEF Turns, NoTurn
  <2>2. /\ OnlyMoves(t) /\ turn[t].pc = "absent" /\ turn'[t].pc = "fetched"
        /\ turn'[t].ses = live' /\ session' = session
        /\ \/ live' = live
           \/ live' = t /\ \A u \in Turns : InFlight(u) => turn[u].ses # live
    BY <2>a, <2>b, <2>c
  <2>3. ASSUME NEW u \in Turns, InFlight(u)' PROVE turn'[u].ses = live'
    BY <1>0, <2>2, <2>3 DEF OnlyMoves, InFlight, OneLive
  <2>4. live' # NoTurn => turn'[live'].pc # "absent"
    BY <1>0, <2>2 DEF OnlyMoves, OneLive, IInv, TypeInv, TypeOK, TurnOrNone
  <2>5. \A s \in Turns : turn'[s].pc = "absent" => session'[s] = FreshSession
    BY <1>0, <2>2 DEF OnlyMoves, OneLive
  <2> QED
    BY <2>3, <2>4, <2>5 DEF OneLive
<1>2. ASSUME NEW t \in Turns, Continue(t) PROVE OneLive'
  <2>1. InFlight(t) /\ KeepsSession(t) /\ (live' = live \/ DropSession(t))
    BY <1>0, <1>2, ContinueKeepsSession
  <2>2. turn[t].ses = live /\ live \in Turns /\ turn[live].pc # "absent"
        /\ turn[t].pc # "absent"
    BY <1>0, <2>1, Context DEF OneLive, InFlight, Turns, NoTurn
  <2>3. \A s \in Turns : turn'[s].pc = "absent" => session'[s] = FreshSession
    BY <1>0, <2>1, <2>2 DEF KeepsSession, OnlyMoves, OneLive
  <2>4. CASE live' = live
    BY <1>0, <2>1, <2>2, <2>3, <2>4 DEF KeepsSession, OnlyMoves, OneLive, InFlight
  <2>5. CASE DropSession(t)
    <3>1. live' = NoTurn /\ \A u \in Turns \ {t} : ~InFlight(u)
      BY <2>5 DEF DropSession
    <3>2. ~InFlight(t)'
      BY <1>0, <2>5, OutsideType DEF DropSession, End, InFlight
    <3>3. \A u \in Turns : ~InFlight(u)'
      BY <2>1, <3>1, <3>2 DEF KeepsSession, OnlyMoves, InFlight
    <3> QED
      BY <2>3, <3>1, <3>3 DEF OneLive
  <2> QED
    BY <2>1, <2>4, <2>5
<1>3. CASE Crash
  <2>1. \A u \in Turns : ~InFlight(u)'
    BY <1>3, OutsideType DEF Crash, InFlight
  <2> QED
    BY <1>3, <2>1 DEF Crash, OneLive
<1>4. CASE UNCHANGED vars
  BY <1>0, <1>4 DEF vars, OneLive, InFlight
<1> QED
  BY <1>1, <1>2, <1>3, <1>4 DEF Next

LEMMA ShapeOfStep ==
  ASSUME Shape, NEW t \in Turns, OnlyMoves(t), WorkflowShape(turn'[t], t)
  PROVE  Shape'
BY DEF Shape, OnlyMoves

\* Between the answer and the plan, and before and after a turn, nothing is asked
\* of the workflow.
LEMMA NoShape ==
  ASSUME NEW e, NEW t, e.pc \in {"fetched", "entered", "loading", "planning",
                                 "clearing", "done", "lost", "absent"}
  PROVE  WorkflowShape(e, t)
BY DEF WorkflowShape

LEMMA ContinueShape ==
  ASSUME TypeInv, Shape, NEW t \in Turns, Continue(t)
  PROVE  WorkflowShape(turn'[t], t)
<1>1. turn \in [Turns -> Turn] /\ turn[t] \in Turn /\ WorkflowShape(turn[t], t)
  BY DEF TypeInv, TypeOK, Shape
<1>2. CASE Enter(t) \/ ReadCheckpoint(t) \/ ClearCheckpoint(t)
  <2>1. turn'[t].pc \in {"entered", "loading", "clearing"}
    BY <1>1, <1>2 DEF Enter, ReadCheckpoint, ClearCheckpoint, Turn
  <2> QED
    BY <2>1, NoShape
<1>3. CASE Refuse(t) \/ PlanRaises(t) \/ ReplyEndsTurn(t) \/ ExecutionRaises(t) \/ DropSession(t)
  <2>1. turn'[t].pc = "done"
    BY <1>1, <1>3, OutsideType
       DEF Refuse, PlanRaises, ReplyEndsTurn, ExecutionRaises, DropSession, End
  <2> QED
    BY <2>1, NoShape
<1>4. CASE RestoreFromMemory(t) \/ RestoreFromCheckpoint(t)
  <2>1. PICK p \in WorkflowOrNone : Resolve(t, p)
    BY <1>1, <1>4, InTurn DEF RestoreFromMemory, RestoreFromCheckpoint, InFlight
  <2>2. CASE NoAnswer(t, p)
    <3>1. turn'[t].pc = "planning"
      BY <1>1, <2>2 DEF NoAnswer, Turn
    <3> QED
      BY <3>1, NoShape
  <2>3. CASE Answer(t, p)
    <3>1. p \in Workflow
      BY <2>3, ProperWorkflow DEF Answer
    <3>2. \/ turn'[t].pc = "savingAnswer" /\ turn'[t].wf = Clone(p, t)
          \/ turn'[t].pc = "savingCancel" /\ turn'[t].wf = Cancelled(p)
      BY <1>1, <2>3 DEF Answer, Turn
    <3>3. /\ Clone(p, t).trace = t /\ Clone(p, t).status = "planned" /\ ~Clone(p, t).need
          /\ Cancelled(p).status = "cancelled"
      BY <3>1 DEF Clone, Cancelled, Workflow
    <3> QED
      BY <3>2, <3>3 DEF WorkflowShape
  <2> QED
    BY <2>1, <2>2, <2>3 DEF Resolve
<1>5. CASE PlanAsks(t)
  <2>1. PICK b : turn' = [turn EXCEPT ![t].pc = "savingAsked",
                   ![t].wf = Built(t, "needs_confirm", TRUE, b), ![t].byTasks = TRUE]
    BY <1>5 DEF PlanAsks
  <2>2. /\ turn'[t].pc = "savingAsked" /\ turn'[t].byTasks
        /\ turn'[t].wf = Built(t, "needs_confirm", TRUE, b)
    BY <1>1, <2>1 DEF Turn
  <2> QED
    BY <2>2 DEF WorkflowShape, Built
<1>6. CASE PlanEnds(t)
  <2>1. PICK x \in Statuses, n \in BOOLEAN, b \in BOOLEAN :
          turn' = [turn EXCEPT ![t].pc = "replying", ![t].wf = Built(t, x, n, b)]
    BY <1>6 DEF PlanEnds, Statuses
  <2>2. turn'[t].pc = "replying" /\ turn'[t].wf = Built(t, x, n, b)
    BY <1>1, <2>1 DEF Turn
  <2> QED
    BY <2>2 DEF WorkflowShape, Built
<1>7. CASE Save(t)
  <2>1. CASE turn[t].pc = "savingResult"
    <3>1. turn'[t].pc = "done"
      BY <1>1, <1>7, <2>1, OutsideType DEF Save, AfterSave, End
    <3> QED
      BY <3>1, NoShape
  <2>2. CASE turn[t].pc # "savingResult"
    <3>1. turn'[t].pc = "replying" /\ turn'[t].wf = turn[t].wf
      BY <1>1, <1>7, <2>2 DEF Save, AfterSave, Turn
    <3>2. turn[t].pc \in {"savingAnswer", "savingCancel", "savingAsked"}
      BY <1>7, <2>2 DEF Save, Saving
    <3> QED
      BY <1>1, <3>1, <3>2 DEF WorkflowShape
  <2> QED
    BY <2>1, <2>2
<1>8. CASE RefuseExecution(t)
  <2>1. /\ turn'[t].pc = "savingResult" /\ turn'[t].wf = turn[t].wf
        /\ turn[t].pc = "replying" /\ turn[t].wf.status # "cancelled"
    BY <1>1, <1>8 DEF RefuseExecution, HasWork, Turn
  <2> QED
    BY <1>1, <2>1 DEF WorkflowShape
<1>9. CASE StartExecution(t)
  <2>1. turn[t].wf \in Workflow /\ turn[t].pc = "replying" /\ turn[t].wf.status # "cancelled"
    BY <1>9, InTurn DEF StartExecution, HasWork, HasPlan
  <2>2. turn'[t].pc = "calling" /\ turn'[t].wf = [turn[t].wf EXCEPT !.status = "running"]
    BY <1>1, <1>9 DEF StartExecution, Turn
  <2> QED
    BY <1>1, <2>1, <2>2 DEF WorkflowShape, Workflow
<1>10. CASE EndExecution(t)
  <2>1. turn[t].wf \in Workflow /\ turn[t].pc = "calling"
    BY <1>10, InTurn DEF EndExecution, HasPlan
  <2>2. PICK x \in {"completed", "failed", "needs_confirm"} :
          turn' = [turn EXCEPT ![t].pc = "savingResult",
            ![t].wf = [turn[t].wf EXCEPT !.status = x, !.need = (x = "needs_confirm")]]
    BY <1>10 DEF EndExecution
  <2>3. /\ turn'[t].pc = "savingResult"
        /\ turn'[t].wf = [turn[t].wf EXCEPT !.status = x, !.need = (x = "needs_confirm")]
    BY <1>1, <2>2 DEF Turn
  <2> QED
    BY <1>1, <2>1, <2>3 DEF WorkflowShape, Workflow
<1> QED
  BY <1>2, <1>3, <1>4, <1>5, <1>6, <1>7, <1>8, <1>9, <1>10
     DEF Continue, SendMessage, Execution

LEMMA ShapeNext == TypeInv /\ Shape /\ [Next]_vars => Shape'
<1> SUFFICES ASSUME TypeInv, Shape, [Next]_vars PROVE Shape'
  OBVIOUS
<1>1. ASSUME NEW t \in Turns, NEW m \in Messages, Arrive(t, m) PROVE Shape'
  <2>1. turn \in [Turns -> Turn] /\ turn[t] \in Turn
    BY DEF TypeInv, TypeOK
  <2>2. OnlyMoves(t) /\ turn'[t].pc = "fetched"
    BY <1>1, <2>1 DEF Arrive, OnlyMoves, Turn
  <2> QED
    BY <2>2, NoShape, ShapeOfStep
<1>2. ASSUME NEW t \in Turns, Continue(t) PROVE Shape'
  BY <1>2, ContinueKeepsSession, ContinueShape, ShapeOfStep DEF KeepsSession
<1>3. CASE Crash
  <2>1. ASSUME NEW t \in Turns PROVE WorkflowShape(turn'[t], t)
    <3>1. turn'[t].pc = "lost" \/ turn'[t].pc \in {"absent", "done", "lost"}
      BY <1>3, OutsideType DEF Crash, InFlight
    <3> QED
      BY <3>1, NoShape
  <2> QED
    BY <2>1 DEF Shape
<1>4. CASE UNCHANGED vars
  BY <1>4 DEF vars, Shape
<1> QED
  BY <1>1, <1>2, <1>3, <1>4 DEF Next

-----------------------------------------------------------------------------
LEMMA OnceInit == Init => Shape /\ OnceInv
<1> SUFFICES ASSUME Init PROVE Shape /\ OnceInv
  OBVIOUS
<1>1. /\ live = NoTurn /\ checkpoint = NoWorkflow
      /\ \A t \in Turns : /\ turn[t].pc = "absent" /\ session[t] = FreshSession
                          /\ runs[t] = "absent" /\ ran[t] = 0
  BY DEF Init, Outside
<1>2. Shape
  BY <1>1, NoShape DEF Shape
<1>3. OneLive
  BY <1>1 DEF OneLive, InFlight
<1>4. ASSUME NEW q \in Turns PROVE Once(q)
  <2>1. \A u \in Turns : ~Takes(turn[u], q) /\ ~LoadsIt(turn[u], q) /\ ~AsksIt(turn[u], q)
    BY <1>1 DEF Takes, RunsIt, CancelsIt, LoadsIt, AsksIt
  <2>2. ~Asking(checkpoint, q) /\ PendingTrace # q
    BY <1>1 DEF Asking, PendingTrace, NoWorkflow, Turns, NoTurn
  <2>3. ~Held(q) /\ ~Answered(q)
    BY <1>1, <2>1, <2>2 DEF Held, Answered
  <2> QED
    BY <1>1, <2>1, <2>3 DEF Once
<1> QED
  BY <1>2, <1>3, <1>4 DEF OnceInv

\* A history that is clean after a step was clean before it.
LEMMA CleanBefore ==
  ASSUME TypeInv, [Next]_vars, clean'
  PROVE  clean
<1>1. ASSUME NEW t \in Turns, Continue(t) PROVE clean
  BY <1>1 DEF Continue, SendMessage, Execution, Enter, Refuse, RestoreFromMemory,
     ReadCheckpoint, RestoreFromCheckpoint, Resolve, NoAnswer, Answer, StartsSave,
     OperationFails, PlanAsks, PlanEnds, PlanRaises, Save, ReplyEndsTurn,
     RefuseExecution, StartExecution, EndExecution, ExecutionRaises, ClearCheckpoint,
     DropSession
<1>2. ASSUME NEW t \in Turns, NEW m \in Messages, Arrive(t, m) PROVE clean
  BY <1>2 DEF Arrive
<1> QED
  BY <1>1, <1>2 DEF Next, Crash, vars

LEMMA OnceNext ==
  ASSUME IInv, clean, clean', [Next]_vars
  PROVE  \A q \in Turns : Once(q)'
<1>1. ASSUME NEW t \in Turns, NEW m \in Messages, Arrive(t, m)
      PROVE  \A q \in Turns : Once(q)'
  BY <1>1, ArriveOnce
<1>2. ASSUME NEW t \in Turns, Continue(t) PROVE \A q \in Turns : Once(q)'
  BY <1>2, EnterOnce, RestoreOnce, ReadOnce, PlanOnce, SaveOnce, ExecutionOnce, ClearOnce
     DEF Continue, SendMessage
<1>3. CASE Crash
  BY <1>3, CrashOnce
<1>4. CASE UNCHANGED vars
  BY <1>4, Context DEF vars, Once, Held, Answered, PendingTrace
<1> QED
  BY <1>1, <1>2, <1>3, <1>4 DEF Next

LEMMA OnceInductive == Spec => []IInv
<1>1. TypeInv /\ SessionLock /\ Init => IInv
  BY OnceInit DEF IInv
<1>2. IInv /\ TypeInv' /\ SessionLock' /\ [Next]_vars => IInv'
  <2> SUFFICES ASSUME IInv, TypeInv', SessionLock', [Next]_vars PROVE IInv'
    OBVIOUS
  <2>1. Shape'
    BY ShapeNext DEF IInv
  <2>2. ASSUME clean' PROVE OneLive' /\ \A q \in Turns : Once(q)'
    BY <2>2, CleanBefore, OneLiveNext, OnceNext DEF IInv
  <2>3. OnceInv'
    BY <2>2 DEF OnceInv
  <2> QED
    BY <2>1, <2>3 DEF IInv
<1> QED
  BY <1>1, <1>2, TypeCorrect, SessionLockHeld, PTL DEF Spec

\* A question is executed at most once, whatever turns overlap it, however often
\* the process crashes and sessions expire, as long as the history is clean.
THEOREM QuestionsRunOnce == Spec => []OneExecutionPerQuestion
<1>1. IInv => OneExecutionPerQuestion
  BY DEF IInv, OnceInv, Once, OneExecutionPerQuestion
<1> QED
  BY <1>1, OnceInductive, PTL

\* What the run history shows as cancelled has not run, and does not run later.
THEOREM CancelledStaysCancelled == Spec => []CancelledNeverRuns
<1>1. IInv => CancelledNeverRuns
  BY DEF IInv, OnceInv, Once, CancelledNeverRuns
<1> QED
  BY <1>1, OnceInductive, PTL

-----------------------------------------------------------------------------
(* A user who waits for each turn.  The question in the session and the one *)
(* in the checkpoint go together, but for the time of a save.               *)

\* The pending workflow p goes with the stored workflow c.
Agrees(p, c) ==
  \/ p \in {NoWorkflow, c}
  \/ c # NoWorkflow /\ c.need /\ ~AwaitsAnswer(c)

\* The stores are being brought to agree.
Between(t) == Saving(t) \/ turn[t].pc = "clearing"

Together ==
  /\ \A t, u \in Turns : InFlight(t) /\ InFlight(u) => t = u
  /\ live # NoTurn /\ (\A t \in Turns : ~Between(t)) =>
       Agrees(session[live].pending, checkpoint)
  /\ \A t \in Turns : Saving(t) => Agrees(session[live].pending, turn[t].wf)
  /\ \A t \in Turns : turn[t].pc = "loading" => turn[t].loaded \in {NoWorkflow, checkpoint}
  /\ \A t \in Turns : turn[t].pc = "clearing" => checkpoint = NoWorkflow
  /\ crashes = 0 /\ live = NoTurn => checkpoint = NoWorkflow

WaitsInv == clean /\ UserWaits => Together

\* What record_workflow leaves pending goes with what it saves.
LEMMA PendingAgrees ==
  ASSUME NEW old, NEW w \in Workflow
  PROVE  Agrees(PendingAfter(old, w), w)
<1>1. w # NoWorkflow
  BY DEF Workflow, NoWorkflow
<1> QED
  BY <1>1 DEF Agrees, PendingAfter

\* The one turn under way goes on.
LEMMA TogetherStep ==
  ASSUME IInv, clean, Together, NEW t \in Turns, InFlight(t), OnlyMoves(t),
         live' = live,
         Saving(t)' => Agrees(session'[live].pending, turn'[t].wf),
         ~Between(t)' => Agrees(session'[live].pending, checkpoint'),
         turn'[t].pc = "loading" => turn'[t].loaded \in {NoWorkflow, checkpoint'},
         turn'[t].pc = "clearing" => checkpoint' = NoWorkflow
  PROVE  Together'
<1>1. live \in Turns /\ live # NoTurn
  BY Context DEF Turns, NoTurn
<1>2. \A u \in Turns : u # t => ~InFlight(u) /\ turn'[u] = turn[u]
  BY DEF Together, OnlyMoves
<1>3. \A u \in Turns : u # t => /\ ~InFlight(u)' /\ ~Saving(u)'
                                /\ turn'[u].pc \notin {"loading", "clearing"}
  BY <1>2 DEF InFlight, Saving
<1> QED
  BY <1>1, <1>3 DEF Together

\* What is pending, and the checkpoint, stay as they are.
LEMMA StoresKept ==
  ASSUME IInv, clean, Together, NEW t \in Turns, InFlight(t), OnlyMoves(t), ~Between(t),
         turn'[t].pc \in {"entered", "planning", "replying", "calling", "done"},
         live' = live, \A r \in Turns : session'[r].pending = session[r].pending,
         checkpoint' = checkpoint
  PROVE  Together'
<1>1. live \in Turns /\ live # NoTurn
  BY Context DEF Turns, NoTurn
<1>2. \A u \in Turns : ~Between(u)
  BY DEF Together, Between, Saving, InFlight
<1>3. Agrees(session'[live].pending, checkpoint')
  BY <1>1, <1>2 DEF Together
<1>4. ~Saving(t)'
  BY DEF Saving
<1> QED
  BY <1>3, <1>4, TogetherStep

LEMMA EnterTogether ==
  ASSUME IInv, clean, Together, NEW t \in Turns,
         Enter(t) \/ Refuse(t) \/ PlanEnds(t) \/ PlanRaises(t) \/ ReplyEndsTurn(t)
         \/ StartExecution(t) \/ ExecutionRaises(t)
  PROVE  Together'
<1>1. /\ turn \in [Turns -> Turn] /\ turn[t] \in Turn /\ session \in [Turns -> Session]
  BY Context
<1>2. InFlight(t) /\ ~Between(t)
  BY DEF Enter, Refuse, PlanEnds, PlanRaises, ReplyEndsTurn, StartExecution,
     ExecutionRaises, HasWork, InFlight, Between, Saving
<1>3. turn[t].ses \in Turns /\ session[turn[t].ses] \in Session
  BY <1>1, <1>2, Context
<1>4. live' = live /\ checkpoint' = checkpoint
  BY DEF Enter, Refuse, PlanEnds, PlanRaises, ReplyEndsTurn, StartExecution, ExecutionRaises
<1>5. \A r \in Turns : session'[r].pending = session[r].pending
  <2>1. CASE Enter(t)
    BY <1>1, <1>3, <2>1 DEF Enter, Session
  <2>2. CASE PlanEnds(t) \/ PlanRaises(t)
    <3>1. session' = [session EXCEPT ![turn[t].ses].lock = FALSE]
      BY <2>2 DEF PlanEnds, PlanRaises
    <3> QED
      BY <1>1, <1>3, <3>1, LockKeepsPending
  <2>3. CASE Refuse(t) \/ ReplyEndsTurn(t) \/ StartExecution(t) \/ ExecutionRaises(t)
    BY <2>3 DEF Refuse, ReplyEndsTurn, StartExecution, ExecutionRaises
  <2> QED
    BY <2>1, <2>2, <2>3
<1>6. OnlyMoves(t) /\ turn'[t].pc \in {"entered", "planning", "replying", "calling", "done"}
  <2>1. CASE Enter(t)
    BY <1>1, <2>1 DEF Enter, OnlyMoves, Turn
  <2>2. CASE PlanEnds(t)
    <3>1. PICK w : turn' = [turn EXCEPT ![t].pc = "replying", ![t].wf = w]
      BY <2>2 DEF PlanEnds
    <3> QED
      BY <1>1, <3>1 DEF OnlyMoves, Turn
  <2>3. CASE Refuse(t) \/ PlanRaises(t) \/ ReplyEndsTurn(t) \/ ExecutionRaises(t)
    BY <1>1, <2>3, OutsideType
       DEF Refuse, PlanRaises, ReplyEndsTurn, ExecutionRaises, End, OnlyMoves
  <2>4. CASE StartExecution(t)
    BY <1>1, <2>4 DEF StartExecution, OnlyMoves, Turn
  <2> QED
    BY <2>1, <2>2, <2>3, <2>4
<1> QED
  BY <1>2, <1>4, <1>5, <1>6, StoresKept

\* What is restored is what is stored.
LEMMA RestoreTogether ==
  ASSUME IInv, clean, clean', Together, NEW t \in Turns,
         RestoreFromMemory(t) \/ ReadCheckpoint(t) \/ RestoreFromCheckpoint(t)
  PROVE  Together'
<1>1. turn[t].pc \in {"entered", "loading"} /\ InFlight(t)
  BY DEF RestoreFromMemory, ReadCheckpoint, RestoreFromCheckpoint, InFlight
<1>2. /\ turn \in [Turns -> Turn] /\ turn[t] \in Turn /\ session \in [Turns -> Session]
      /\ turn[t].ses = live /\ live \in Turns /\ session[live] \in Session /\ live # NoTurn
  BY <1>1, Context DEF Turns, NoTurn
<1>3. \A u \in Turns : ~Between(u)
  BY <1>1 DEF Together, Between, Saving, InFlight
<1>4. Agrees(session[live].pending, checkpoint)
  BY <1>2, <1>3 DEF Together
<1>5. CASE ReadCheckpoint(t)
  <2>1. turn' = [turn EXCEPT ![t].pc = "loading",
          ![t].loaded = IF Restorable(checkpoint) THEN checkpoint ELSE NoWorkflow]
    BY <1>5 DEF ReadCheckpoint, OperationFails
  <2>2. /\ OnlyMoves(t) /\ turn'[t].pc = "loading"
        /\ turn'[t].loaded \in {NoWorkflow, checkpoint}
    BY <1>2, <2>1 DEF OnlyMoves, Turn
  <2>3. live' = live /\ session' = session /\ checkpoint' = checkpoint
    BY <1>5 DEF ReadCheckpoint
  <2>4. ~Saving(t)'
    BY <2>2 DEF Saving
  <2> QED
    BY <1>1, <1>4, <2>2, <2>3, <2>4, TogetherStep
<1>6. CASE RestoreFromMemory(t) \/ RestoreFromCheckpoint(t)
  <2>1. PICK p : Resolve(t, p) /\ p \in {session[live].pending, NoWorkflow, checkpoint}
    BY <1>2, <1>6 DEF RestoreFromMemory, RestoreFromCheckpoint, Together
  <2>2. live' = live /\ checkpoint' = checkpoint
    BY <2>1 DEF Resolve
  <2>3. CASE NoAnswer(t, p)
    <3>1. OnlyMoves(t) /\ turn'[t].pc = "planning"
      BY <1>2, <2>3 DEF NoAnswer, OnlyMoves, Turn
    <3>2. session'[live].pending = p
      BY <1>2, <2>3 DEF NoAnswer, Session
    <3>3. Agrees(p, checkpoint)
      BY <1>4, <2>1 DEF Agrees
    <3>4. ~Saving(t)'
      BY <3>1 DEF Saving
    <3> QED
      BY <1>1, <2>2, <3>1, <3>2, <3>3, <3>4, TogetherStep
  <2>4. CASE Answer(t, p)
    <3>1. OnlyMoves(t) /\ turn'[t].pc \in {"savingAnswer", "savingCancel"}
      BY <1>2, <2>4 DEF Answer, OnlyMoves, Turn
    <3>2. session'[live].pending = NoWorkflow
      BY <1>2, <2>4 DEF Answer, Session
    <3>3. Agrees(NoWorkflow, turn'[t].wf) /\ Between(t)'
      BY <3>1 DEF Agrees, Between, Saving
    <3> QED
      BY <1>1, <2>2, <3>1, <3>2, <3>3, TogetherStep
  <2> QED
    BY <2>1, <2>3, <2>4 DEF Resolve
<1> QED
  BY <1>5, <1>6

\* A turn that asks.
LEMMA AskTogether ==
  ASSUME IInv, clean, Together, NEW t \in Turns,
         PlanAsks(t) \/ RefuseExecution(t) \/ EndExecution(t)
  PROVE  Together'
<1>1. InFlight(t)
  BY DEF PlanAsks, RefuseExecution, EndExecution, HasWork, InFlight
<1>2. /\ turn \in [Turns -> Turn] /\ turn[t] \in Turn /\ session \in [Turns -> Session]
      /\ turn[t].ses = live /\ live \in Turns /\ session[live] \in Session
      /\ HasPlan(t) => turn[t].wf \in Workflow
  BY <1>1, Context, InTurn DEF IInv
<1>3. PICK w \in Workflow :
        /\ OnlyMoves(t) /\ turn'[t].pc \in {"savingAsked", "savingResult"}
        /\ turn'[t].wf = w
        /\ session'[live].pending = PendingAfter(session[live].pending, w)
  <2>1. CASE PlanAsks(t)
    <3>1. PICK b \in BOOLEAN :
            /\ turn' = [turn EXCEPT ![t].pc = "savingAsked",
                          ![t].wf = Built(t, "needs_confirm", TRUE, b), ![t].byTasks = TRUE]
            /\ session' = [session EXCEPT
                 ![turn[t].ses].pending = PendingAfter(@, Built(t, "needs_confirm", TRUE, b)),
                 ![turn[t].ses].lock = FALSE]
      BY <2>1 DEF PlanAsks
    <3> DEFINE w == Built(t, "needs_confirm", TRUE, b)
    <3>2. w \in Workflow
      BY BuiltType DEF Statuses
    <3> HIDE DEF w
    <3>3. OnlyMoves(t) /\ turn'[t].pc = "savingAsked" /\ turn'[t].wf = w
      BY <1>2, <3>1 DEF OnlyMoves, Turn, w
    <3>4. session'[live].pending = PendingAfter(session[live].pending, w)
      BY <1>2, <3>1 DEF Session, w
    <3> QED
      BY <3>2, <3>3, <3>4
  <2>2. CASE RefuseExecution(t)
    <3>1. turn[t].wf \in Workflow
      BY <1>2, <2>2 DEF RefuseExecution, HasWork, HasPlan
    <3>2. OnlyMoves(t) /\ turn'[t].pc = "savingResult" /\ turn'[t].wf = turn[t].wf
      BY <1>2, <2>2 DEF RefuseExecution, OnlyMoves, Turn
    <3>3. session'[live].pending = PendingAfter(session[live].pending, turn[t].wf)
      BY <1>2, <2>2 DEF RefuseExecution, Session
    <3> QED
      BY <3>1, <3>2, <3>3
  <2>3. CASE EndExecution(t)
    <3>1. PICK x \in {"completed", "failed", "needs_confirm"} :
            LET w == [turn[t].wf EXCEPT !.status = x, !.need = (x = "needs_confirm")]
            IN /\ turn' = [turn EXCEPT ![t].pc = "savingResult", ![t].wf = w]
               /\ session' = [session EXCEPT ![turn[t].ses].pending = PendingAfter(@, w)]
      BY <2>3 DEF EndExecution
    <3> DEFINE w == [turn[t].wf EXCEPT !.status = x, !.need = (x = "needs_confirm")]
    <3>2. w \in Workflow
      BY <1>2, <2>3 DEF EndExecution, HasPlan, Workflow, Statuses
    <3> HIDE DEF w
    <3>3. OnlyMoves(t) /\ turn'[t].pc = "savingResult" /\ turn'[t].wf = w
      BY <1>2, <3>1 DEF OnlyMoves, Turn, w
    <3>4. session'[live].pending = PendingAfter(session[live].pending, w)
      BY <1>2, <3>1 DEF Session, w
    <3> QED
      BY <3>2, <3>3, <3>4
  <2> QED
    BY <2>1, <2>2, <2>3
<1>4. live' = live /\ Between(t)'
  BY <1>3 DEF PlanAsks, RefuseExecution, EndExecution, Between, Saving
<1>5. Agrees(session'[live].pending, turn'[t].wf)
  BY <1>3, PendingAgrees
<1> QED
  BY <1>1, <1>3, <1>4, <1>5, TogetherStep

LEMMA SaveTogether ==
  ASSUME IInv, clean, clean', Together, NEW t \in Turns, Save(t)
  PROVE  Together'
<1>1. InFlight(t)
  BY DEF Save, Saving, InFlight
<1>2. /\ turn \in [Turns -> Turn] /\ turn[t] \in Turn /\ session \in [Turns -> Session]
      /\ turn[t].ses \in Turns /\ live \in Turns
  BY <1>1, Context
<1>3. OnlyMoves(t) /\ turn'[t].pc \in {"done", "replying"}
  <2>1. CASE turn[t].pc = "savingResult"
    BY <1>2, <2>1, OutsideType DEF Save, AfterSave, End, OnlyMoves
  <2>2. CASE turn[t].pc # "savingResult"
    BY <1>2, <2>2 DEF Save, AfterSave, OnlyMoves, Turn
  <2> QED
    BY <2>1, <2>2
<1>4. live' = live /\ checkpoint' = turn[t].wf
  BY DEF Save, AfterSave, OperationFails
<1>5. \A r \in Turns : session'[r].pending = session[r].pending
  BY <1>2, LockKeepsPending DEF Save, AfterSave
<1>6. Agrees(session'[live].pending, checkpoint')
  BY <1>2, <1>4, <1>5 DEF Save, Together
<1>7. ~Saving(t)'
  BY <1>3 DEF Saving
<1> QED
  BY <1>1, <1>3, <1>4, <1>6, <1>7, TogetherStep

LEMMA ClearTogether ==
  ASSUME IInv, clean, clean', Together, NEW t \in Turns, ClearCheckpoint(t) \/ DropSession(t)
  PROVE  Together'
<1>1. turn \in [Turns -> Turn] /\ turn[t] \in Turn /\ InFlight(t)
  BY Context DEF ClearCheckpoint, DropSession, InFlight
<1>2. CASE ClearCheckpoint(t)
  <2>1. OnlyMoves(t) /\ turn'[t].pc = "clearing"
    BY <1>1, <1>2 DEF ClearCheckpoint, OnlyMoves, Turn
  <2>2. live' = live /\ checkpoint' = NoWorkflow
    BY <1>2 DEF ClearCheckpoint, OperationFails
  <2>3. ~Saving(t)' /\ Between(t)'
    BY <2>1 DEF Saving, Between
  <2> QED
    BY <1>1, <2>1, <2>2, <2>3, TogetherStep
<1>3. CASE DropSession(t)
  <2>1. \A u \in Turns : ~InFlight(u)'
    <3>1. ~InFlight(t)'
      BY <1>1, <1>3, OutsideType DEF DropSession, End, InFlight
    <3>2. \A u \in Turns : u # t => ~InFlight(u) /\ turn'[u] = turn[u]
      BY <1>1, <1>3 DEF DropSession, End, Together
    <3> QED
      BY <3>1, <3>2 DEF InFlight
  <2>2. live' = NoTurn /\ checkpoint' = NoWorkflow
    BY <1>3 DEF DropSession, Together
  <2>3. \A u \in Turns : ~Saving(u)' /\ turn'[u].pc \notin {"loading", "clearing"}
    BY <2>1 DEF Saving, InFlight
  <2> QED
    BY <2>1, <2>2, <2>3 DEF Together
<1> QED
  BY <1>2, <1>3

\* A new message comes when no turn is under way; a new session has nothing pending.
LEMMA ArriveTogether ==
  ASSUME IInv, clean, UserWaits, Together, NEW t \in Turns, NEW m \in Messages, Arrive(t, m)
  PROVE  Together'
<1>1. /\ turn \in [Turns -> Turn] /\ turn[t] \in Turn /\ \A u \in Turns : ~InFlight(u)
  BY Context DEF Arrive
<1>2. /\ OnlyMoves(t) /\ turn[t].pc = "absent" /\ turn'[t].pc = "fetched"
      /\ session' = session /\ checkpoint' = checkpoint
  BY <1>1 DEF Arrive, OnlyMoves, Turn
<1>3. live' # NoTurn /\ live' \in {live, t}
  BY DEF Arrive, Turns, NoTurn
<1>4. \A u \in Turns : ~Between(u)
  BY <1>1 DEF Between, Saving, InFlight
<1>5. Agrees(session'[live'].pending, checkpoint')
  <2>1. CASE live' = live
    BY <1>2, <1>3, <1>4, <2>1 DEF Together
  <2>2. CASE live' = t
    BY <1>2, <2>2 DEF IInv, OnceInv, OneLive, FreshSession, Agrees
  <2> QED
    BY <1>3, <2>1, <2>2
<1>6. \A u \in Turns : u # t => ~InFlight(u)'
  BY <1>1, <1>2 DEF OnlyMoves, InFlight
<1>7. \A u \in Turns : ~Saving(u)' /\ turn'[u].pc \notin {"loading", "clearing"}
  BY <1>2, <1>6 DEF Saving, InFlight
<1> QED
  BY <1>3, <1>5, <1>6, <1>7 DEF Together

LEMMA CrashTogether ==
  ASSUME IInv, clean, Together, Crash
  PROVE  Together'
<1>1. \A u \in Turns : ~InFlight(u)'
  BY OutsideType DEF Crash, InFlight
<1>2. \A u \in Turns : ~Saving(u)' /\ turn'[u].pc \notin {"loading", "clearing"}
  BY <1>1 DEF Saving, InFlight
<1>3. live' = NoTurn /\ crashes' # 0
  BY DEF Crash, IInv, TypeInv, TypeOK
<1> QED
  BY <1>1, <1>2, <1>3 DEF Together

LEMMA WaitsNext == IInv /\ WaitsInv /\ [Next]_vars => WaitsInv'
<1> SUFFICES ASSUME IInv, WaitsInv, [Next]_vars, clean', UserWaits PROVE Together'
  BY DEF WaitsInv
<1>1. clean /\ Together
  BY CleanBefore DEF WaitsInv, IInv
<1>2. ASSUME NEW t \in Turns, NEW m \in Messages, Arrive(t, m) PROVE Together'
  BY <1>1, <1>2, ArriveTogether
<1>3. ASSUME NEW t \in Turns, Continue(t) PROVE Together'
  BY <1>1, <1>3, EnterTogether, RestoreTogether, AskTogether, SaveTogether, ClearTogether
     DEF Continue, SendMessage, Execution
<1>4. CASE Crash
  BY <1>1, <1>4, CrashTogether
<1>5. CASE UNCHANGED vars
  BY <1>1, <1>5 DEF vars, Together, InFlight, Between, Saving
<1> QED
  BY <1>2, <1>3, <1>4, <1>5 DEF Next

LEMMA WaitsInit == Init => WaitsInv
<1> SUFFICES ASSUME Init PROVE Together
  BY DEF WaitsInv
<1>1. live = NoTurn /\ checkpoint = NoWorkflow /\ \A t \in Turns : turn[t].pc = "absent"
  BY DEF Init, Outside
<1> QED
  BY <1>1 DEF Together, InFlight, Saving, Between

LEMMA WaitsInductive == Spec => [](IInv /\ WaitsInv)
BY WaitsInit, WaitsNext, OnceInductive, PTL DEF Spec

\* For a user who waits: what is pending between turns is what a restart restores.
THEOREM QuestionsSurvive == Spec => []QuestionSurvivesRestart
<1>1. IInv /\ WaitsInv => QuestionSurvivesRestart
  <2> SUFFICES ASSUME IInv, WaitsInv, clean, UserWaits, live # NoTurn, Quiet
               PROVE  Agrees(session[live].pending, checkpoint)
    BY DEF QuestionSurvivesRestart, Agrees
  <2>1. \A t \in Turns : ~Between(t)
    BY DEF Quiet, Between, Saving, InFlight
  <2> QED
    BY <2>1 DEF WaitsInv, Together
<1> QED
  BY <1>1, WaitsInductive, PTL

\* For a user who waits: after the conversation was cleared nothing is stored.
THEOREM ClearingForgets == Spec => []ClearForgets
<1>1. IInv /\ WaitsInv => ClearForgets
  BY DEF WaitsInv, Together, ClearForgets
<1> QED
  BY <1>1, WaitsInductive, PTL
=============================================================================
