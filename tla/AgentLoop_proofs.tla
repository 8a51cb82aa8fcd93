---------------------------- MODULE AgentLoop_proofs ----------------------------
(***************************************************************************)
(* What AgentLoop keeps true for every set of capabilities, every plan and  *)
(* every limit.                                                            *)
(***************************************************************************)
EXTENDS AgentLoop, FiniteSetTheorems, TLAPS

-----------------------------------------------------------------------------
(* Lemmas about the operators of the model.                                *)

\* A field of one step of a list may be given another value of its type: the
\* list keeps its length, and its other steps and fields.
LEMMA StatusSet ==
  ASSUME NEW s \in Seq(Step), NEW i \in 1..Len(s), NEW x \in StepStatuses
  PROVE  /\ WithStatus(s, i, x) \in Seq(Step) /\ Len(WithStatus(s, i, x)) = Len(s)
         /\ WithStatus(s, i, x)[i] = [s[i] EXCEPT !.status = x]
         /\ WithStatus(s, i, x)[i].status = x
         /\ \A j \in 1..Len(s) : j # i => WithStatus(s, i, x)[j] = s[j]
<1> DEFINE r == WithStatus(s, i, x)
<1>1. s[i] \in Step
  OBVIOUS
<1>2. [s[i] EXCEPT !.status = x] \in Step
  BY <1>1 DEF Step
<1>3. r \in Seq(Step) /\ Len(r) = Len(s)
  BY <1>2 DEF WithStatus
<1>4. r[i].status = x
  BY <1>1, <1>3 DEF Step, WithStatus
<1> QED
  BY <1>2, <1>3, <1>4 DEF WithStatus

\* The same for the two fields that are set when the loop asks for approval.
LEMMA ApprovalSet ==
  ASSUME NEW s \in Seq(Step), NEW i \in 1..Len(s)
  PROVE  /\ Asking(s, i) \in Seq(Step) /\ Len(Asking(s, i)) = Len(s)
         /\ Asking(s, i)[i].status = "pending"
         /\ \A j \in 1..Len(s) : j # i => Asking(s, i)[j] = s[j]
<1> DEFINE e == [s[i] EXCEPT !.status = "pending", !.approval = "pending"]
           r == Asking(s, i)
<1>1. s[i] \in Step
  OBVIOUS
<1>2. e \in Step /\ e.status = "pending"
  BY <1>1 DEF Step, StepStatuses, Approvals
<1>3. r = [s EXCEPT ![i] = e]
  BY <1>1 DEF Asking
<1>4. r \in Seq(Step) /\ Len(r) = Len(s)
  BY <1>2, <1>3
<1> QED
  BY <1>2, <1>3, <1>4

\* A decision that leads to a call, in a state where steps are pending, is to
\* take the first of them.
LEMMA PendingFirst ==
  ASSUME NEW d \in Decision, IsCall(d), pending # <<>>
  PROVE  TakesHead(d)
BY DEF IsCall, Decides, TakesHead, FromStep

\* The step a decision makes when it takes none from the plan.
LEMMA NewStepType ==
  ASSUME NEW d \in Decision, d.cap # None
  PROVE  NewStep(d) \in Step /\ NewStep(d).status = "pending"
BY DEF NewStep, Decision, Step, StepTypes, StepStatuses, Approvals

\* What becomes of the steps when a decision is resolved to one of them: the
\* list keeps its steps, and has the step decided upon.
LEMMA ResolvedSteps ==
  ASSUME steps \in Seq(Step), pending \in Seq(1..Len(steps)),
         NEW d \in Decision, IsCall(d), Resolvable(d)
  PROVE  /\ StepsWith(d) \in Seq(Step)
         /\ Len(steps) <= Len(StepsWith(d))
         /\ \A i \in 1..Len(steps) : StepsWith(d)[i] = steps[i]
         /\ StepIndex(d) \in 1..Len(StepsWith(d))
         /\ PendingAfter(d) \in Seq(1..Len(StepsWith(d)))
         /\ \/ /\ pending # <<>> /\ StepsWith(d) = steps
               /\ StepIndex(d) = Head(pending) /\ PendingAfter(d) = Tail(pending)
            \/ /\ pending = <<>> /\ PendingAfter(d) = <<>>
               /\ StepIndex(d) = Len(steps) + 1
               /\ Len(StepsWith(d)) = Len(steps) + 1
               /\ StepsWith(d)[StepIndex(d)].status = "pending"
<1>1. CASE pending # <<>>
  <2>1. TakesHead(d)
    BY <1>1, PendingFirst
  <2>2. Head(pending) \in 1..Len(steps) /\ Tail(pending) \in Seq(1..Len(steps))
    BY <1>1
  <2> QED
    BY <1>1, <2>1, <2>2 DEF StepsWith, StepIndex, PendingAfter
<1>2. CASE pending = <<>>
  <2>1. ~TakesHead(d) /\ d.cap # None
    BY <1>2 DEF TakesHead, Resolvable
  <2>2. NewStep(d) \in Step /\ NewStep(d).status = "pending"
    BY <2>1, NewStepType
  <2>3. StepsWith(d) = Append(steps, NewStep(d))
    BY <2>1 DEF StepsWith
  <2> QED
    BY <1>2, <2>1, <2>2, <2>3 DEF StepIndex, PendingAfter
<1> QED
  BY <1>1, <1>2

\* The steps after the step decided upon got another status: no other step is
\* disturbed.
LEMMA ResolvedStatus ==
  ASSUME steps \in Seq(Step), pending \in Seq(1..Len(steps)),
         NEW d \in Decision, IsCall(d), Resolvable(d), NEW x \in StepStatuses,
         steps' = WithStatus(StepsWith(d), StepIndex(d), x)
  PROVE  /\ steps' \in Seq(Step) /\ Len(steps') = Len(StepsWith(d))
         /\ StepIndex(d) \in 1..Len(steps') /\ steps'[StepIndex(d)].status = x
         /\ steps'[StepIndex(d)] = [StepsWith(d)[StepIndex(d)] EXCEPT !.status = x]
         /\ \A i \in 1..Len(steps') :
              i # StepIndex(d) => i \in 1..Len(steps) /\ steps'[i] = steps[i]
<1>1. /\ StepsWith(d) \in Seq(Step) /\ StepIndex(d) \in 1..Len(StepsWith(d))
      /\ \A i \in 1..Len(steps) : StepsWith(d)[i] = steps[i]
      /\ \A i \in 1..Len(StepsWith(d)) : i # StepIndex(d) => i \in 1..Len(steps)
  BY ResolvedSteps
<1>2. /\ steps' \in Seq(Step) /\ Len(steps') = Len(StepsWith(d))
      /\ steps'[StepIndex(d)] = [StepsWith(d)[StepIndex(d)] EXCEPT !.status = x]
      /\ \A j \in 1..Len(StepsWith(d)) : j # StepIndex(d) => steps'[j] = StepsWith(d)[j]
  BY <1>1, StatusSet
<1> QED
  BY <1>1, <1>2

\* The same when the user is asked for its approval.
LEMMA ResolvedAsk ==
  ASSUME steps \in Seq(Step), pending \in Seq(1..Len(steps)),
         NEW d \in Decision, IsCall(d), Resolvable(d),
         steps' = Asking(StepsWith(d), StepIndex(d))
  PROVE  /\ steps' \in Seq(Step) /\ Len(steps') = Len(StepsWith(d))
         /\ steps'[StepIndex(d)].status = "pending"
         /\ \A i \in 1..Len(steps') :
              i # StepIndex(d) => i \in 1..Len(steps) /\ steps'[i] = steps[i]
<1>1. /\ StepsWith(d) \in Seq(Step) /\ StepIndex(d) \in 1..Len(StepsWith(d))
      /\ \A i \in 1..Len(steps) : StepsWith(d)[i] = steps[i]
      /\ \A i \in 1..Len(StepsWith(d)) : i # StepIndex(d) => i \in 1..Len(steps)
  BY ResolvedSteps
<1>2. /\ steps' \in Seq(Step) /\ Len(steps') = Len(StepsWith(d))
      /\ steps'[StepIndex(d)].status = "pending"
      /\ \A j \in 1..Len(StepsWith(d)) : j # StepIndex(d) => steps'[j] = StepsWith(d)[j]
  BY <1>1, ApprovalSet
<1> QED
  BY <1>1, <1>2

\* It is a step of a capability that exists.
LEMMA ResolvedCap ==
  ASSUME steps \in Seq(Step), pending \in Seq(1..Len(steps)),
         NEW d \in Decision, Resolvable(d)
  PROVE  d.cap \in Caps
<1>1. CASE TakesHead(d)
  <2>1. Head(pending) \in 1..Len(steps)
    BY <1>1 DEF TakesHead
  <2>2. steps[Head(pending)] \in Step
    BY <2>1
  <2> QED
    BY <1>1, <2>2 DEF TakesHead, Step
<1>2. CASE ~TakesHead(d)
  BY <1>2 DEF Resolvable, Decision
<1> QED
  BY <1>1, <1>2

\* The answer of the user changes the approval of steps only.
LEMMA SettledSteps ==
  ASSUME steps \in Seq(Step), NEW a \in Approvals
  PROVE  /\ Settle(a) \in Seq(Step) /\ Len(Settle(a)) = Len(steps)
         /\ \A i \in 1..Len(steps) : Settle(a)[i].status = steps[i].status
<1> DEFINE e(i) == [steps[i] EXCEPT !.approval = IF @ = "not_required" THEN @ ELSE a]
<1>1. ASSUME NEW i \in 1..Len(steps)
      PROVE  e(i) \in Step /\ e(i).status = steps[i].status
  <2>1. steps[i] \in Step
    OBVIOUS
  <2> QED
    BY <2>1 DEF Step
<1>2. Settle(a) = [i \in 1..Len(steps) |-> e(i)]
  BY DEF Settle
<1> HIDE DEF e
<1> QED
  BY <1>1, <1>2

\* Before a workflow is resumed, all of its steps are pending again.
LEMMA ResumedSteps ==
  ASSUME steps \in Seq(Step),
         NEW r, r = [i \in DOMAIN steps |->
                       [Settle("approved")[i] EXCEPT !.status = "pending"]]
  PROVE  /\ r \in Seq(Step) /\ Len(r) = Len(steps)
         /\ \A i \in 1..Len(steps) : r[i].status = "pending"
<1> DEFINE e(i) == [Settle("approved")[i] EXCEPT !.status = "pending"]
<1>1. ASSUME NEW i \in 1..Len(steps)
      PROVE  e(i) \in Step /\ e(i).status = "pending"
  <2>1. Settle("approved")[i] \in Step
    BY SettledSteps DEF Approvals
  <2> QED
    BY <2>1 DEF Step, StepStatuses
<1>2. r = [i \in 1..Len(steps) |-> e(i)]
  OBVIOUS
<1> HIDE DEF e
<1> QED
  BY <1>1, <1>2

\* The budget knows every decision and every target it is asked about.
LEMMA BudgetKeys ==
  ASSUME NEW d \in Decision
  PROVE  /\ ActionKey(d) \in ActionKeys
         /\ VerifyTarget(d) \in Caps \cup {None}
BY CapabilityAssumption DEF Decision, ActionKey, ActionKeys, VerifyTarget

\* Counting up one entry of a table of counters.
LEMMA Counted ==
  ASSUME NEW S, NEW f \in [S -> Nat], NEW k \in S
  PROVE  [f EXCEPT ![k] = @ + 1] \in [S -> Nat]
<1>1. f[k] + 1 \in Nat
  OBVIOUS
<1> QED
  BY <1>1

\* Consuming budget keeps the type of its counters.
LEMMA ConsumeType ==
  ASSUME used \in Nat, repeats \in [ActionKeys -> Nat], verifies \in [Caps -> Nat],
         NEW d \in Decision, Consume(d)
  PROVE  /\ used' \in Nat /\ repeats' \in [ActionKeys -> Nat]
         /\ verifies' \in [Caps -> Nat]
<1>1. used' \in Nat
  BY DEF Consume
<1>2. repeats' \in [ActionKeys -> Nat]
  <2>1. [repeats EXCEPT ![ActionKey(d)] = @ + 1] \in [ActionKeys -> Nat]
    BY Counted, BudgetKeys
  <2> QED
    BY <2>1 DEF Consume
<1>3. verifies' \in [Caps -> Nat]
  <2>1. CASE VerifyTarget(d) = None
    BY <2>1 DEF Consume
  <2>2. CASE VerifyTarget(d) # None
    <3>1. [verifies EXCEPT ![VerifyTarget(d)] = @ + 1] \in [Caps -> Nat]
      BY <2>2, Counted, BudgetKeys
    <3> QED
      BY <2>2, <3>1 DEF Consume
  <2> QED
    BY <2>1, <2>2
<1> QED
  BY <1>1, <1>2, <1>3

-----------------------------------------------------------------------------
(* Type correctness.  The loop writes the answer of a tool to the step of   *)
(* the call under way, so that step has to exist.                           *)

CallInv == pc = "calling" => cur \in Call /\ cur.step \in 1..Len(steps)

TypeInv == TypeOK /\ CallInv

LEMMA TypeInit == Init => TypeInv
<1> SUFFICES ASSUME Init PROVE TypeInv
  OBVIOUS
<1>1. PICK p \in Plans, a \in Approvals : steps = BuildSteps(p, a)
  BY DEF Init, Approvals
<1>2. p \in Seq(PlannedStep)
  BY PlanAssumption
<1>3. \A i \in 1..Len(p) : /\ p[i].cap \in Caps /\ p[i].type \in StepTypes
                          /\ p[i].params \in Params
  <2> TAKE i \in 1..Len(p)
  <2>1. p[i] \in PlannedStep
    BY <1>2
  <2> QED
    BY <2>1 DEF PlannedStep
<1>4. steps \in Seq(Step)
  BY <1>1, <1>2, <1>3 DEF BuildSteps, Step, StepStatuses, Approvals
<1>5. status \in Statuses /\ need \in BOOLEAN /\ pc \in {"idle", "returned"}
  BY DEF Init, Statuses
<1>6. pending \in Seq(1..Len(steps)) /\ sent \in Seq(Call)
  BY DEF Init
<1>7. used \in Nat /\ repeats \in [ActionKeys -> Nat] /\ verifies \in [Caps -> Nat]
  BY DEF Init
<1>8. cur = NoCall /\ fact \in Facts /\ overtime \in BOOLEAN /\ planned \in Nat
      /\ resumes \in Nat
  BY DEF Init, Facts
<1> QED
  BY <1>4, <1>5, <1>6, <1>7, <1>8 DEF TypeInv, TypeOK, CallInv

LEMMA TypeNext == TypeInv /\ [Next]_vars => TypeInv'
<1> SUFFICES ASSUME TypeInv, [Next]_vars PROVE TypeInv'
  OBVIOUS
<1> USE DEF TypeInv, TypeOK, CallInv
<1>1. CASE RefuseUnconfirmed
  BY <1>1 DEF RefuseUnconfirmed, budget
<1>2. CASE StartLoop
  <2>1. pending' \in Seq(1..Len(steps))
    BY <1>2 DEF StartLoop
  <2>2. used' \in Nat /\ repeats' \in [ActionKeys -> Nat]
        /\ verifies' \in [Caps -> Nat] /\ overtime' \in BOOLEAN
    BY <1>2 DEF StartLoop, FreshBudget
  <2> QED
    BY <1>2, <2>1, <2>2 DEF StartLoop, Statuses, Facts
<1>3. CASE Finish \/ StopOnDecision \/ AskUser \/ BudgetStop
  BY <1>3 DEF Finish, StopOnDecision, AskUser, BudgetStop, Leave, NoNewStep, Statuses
<1>4. CASE InvalidDecision
  <2>1. used' \in Nat /\ repeats' \in [ActionKeys -> Nat] /\ verifies' \in [Caps -> Nat]
    BY <1>4, ConsumeType DEF InvalidDecision
  <2> QED
    BY <1>4, <2>1 DEF InvalidDecision, Leave, Statuses
<1>5. CASE ConfirmStep
  <2>1. PICK d \in Decision :
          /\ Resolves(d)
          /\ steps' = Asking(StepsWith(d), StepIndex(d))
    BY <1>5 DEF ConfirmStep
  <2>2. /\ steps' \in Seq(Step) /\ pending' \in Seq(1..Len(steps'))
        /\ used' \in Nat /\ repeats' \in [ActionKeys -> Nat] /\ verifies' \in [Caps -> Nat]
    BY <2>1, ResolvedSteps, ResolvedAsk, ConsumeType DEF Resolves
  <2> QED
    BY <1>5, <2>2 DEF ConfirmStep, Leave, Statuses
<1>6. CASE UnsupportedStep
  <2>1. PICK d \in Decision :
          /\ Resolves(d)
          /\ steps' = WithStatus(StepsWith(d), StepIndex(d), "failed")
    BY <1>6 DEF UnsupportedStep
  <2>2. steps' \in Seq(Step) /\ Len(steps') = Len(StepsWith(d))
    BY <2>1, ResolvedStatus DEF Resolves, StepStatuses
  <2>3. /\ pending' \in Seq(1..Len(steps'))
        /\ used' \in Nat /\ repeats' \in [ActionKeys -> Nat] /\ verifies' \in [Caps -> Nat]
    BY <2>1, <2>2, ResolvedSteps, ConsumeType DEF Resolves
  <2> QED
    BY <1>6, <2>2, <2>3 DEF UnsupportedStep, Leave, Statuses
<1>7. CASE CallTool
  <2>1. PICK d \in Decision :
          /\ Resolves(d)
          /\ steps' = WithStatus(StepsWith(d), StepIndex(d), "running")
          /\ cur' = [step |-> StepIndex(d), action |-> d.action, cap |-> d.cap,
                     params |-> d.params, target |-> d.target]
          /\ sent' = Append(sent, cur')
    BY <1>7 DEF CallTool
  <2>2. steps' \in Seq(Step) /\ Len(steps') = Len(StepsWith(d))
    BY <2>1, ResolvedStatus DEF Resolves, StepStatuses
  <2>3. /\ pending' \in Seq(1..Len(steps')) /\ StepIndex(d) \in 1..Len(steps')
        /\ used' \in Nat /\ repeats' \in [ActionKeys -> Nat] /\ verifies' \in [Caps -> Nat]
    BY <2>1, <2>2, ResolvedSteps, ConsumeType DEF Resolves
  <2>4. d.cap \in Caps
    BY <2>1, ResolvedCap DEF Resolves
  <2>5. cur' \in Call /\ cur'.step \in 1..Len(steps')
    BY <2>1, <2>2, <2>3, <2>4 DEF Call, Decision
  <2> QED
    BY <1>7, <2>1, <2>2, <2>3, <2>5 DEF CallTool
<1>8. CASE ToolSucceeds \/ ToolFails
  <2>1. cur.step \in 1..Len(steps)
    BY <1>8 DEF ToolSucceeds, ToolFails, Answered
  <2>2. PICK x \in StepStatuses : steps' = WithStatus(steps, cur.step, x)
    BY <1>8 DEF ToolSucceeds, ToolFails, StepStatuses
  <2>3. steps' \in Seq(Step) /\ Len(steps') = Len(steps)
    BY <2>1, <2>2, StatusSet
  <2> QED
    BY <1>8, <2>3 DEF ToolSucceeds, ToolFails, Answered, budget, Facts, Statuses, NoCall
<1>9. CASE SearchMisses
  <2> DEFINE done == WithStatus(steps, cur.step, "completed")
             retry == [steps[cur.step] EXCEPT !.status = "pending",
                         !.approval = "not_required", !.params = Rewritten]
  <2>1. cur.step \in 1..Len(steps)
    BY <1>9 DEF SearchMisses, Answered
  <2>2. done \in Seq(Step) /\ Len(done) = Len(steps)
    BY <2>1, StatusSet DEF StepStatuses
  <2>3. retry \in Step
    <3>1. steps[cur.step] \in Step
      BY <2>1
    <3> QED
      BY <3>1, CapabilityAssumption DEF Step, StepStatuses, Approvals
  <2>4. steps' = Append(done, retry) /\ pending' = <<Len(steps) + 1>> \o pending
    BY <1>9 DEF SearchMisses
  <2> HIDE DEF done, retry
  <2>5. steps' \in Seq(Step) /\ Len(steps') = Len(steps) + 1
    BY <2>2, <2>3, <2>4
  <2>6. pending' \in Seq(1..Len(steps'))
    BY <2>4, <2>5
  <2> QED
    BY <1>9, <2>5, <2>6 DEF SearchMisses, Answered, budget, Facts, NoCall
<1>10. CASE ToolRaises \/ TimePasses
  BY <1>10 DEF ToolRaises, TimePasses, Answered, budget
<1>11. CASE Confirm \/ Cancel
  <2>1. steps' \in Seq(Step) /\ Len(steps') = Len(steps)
    BY <1>11, SettledSteps, ResumedSteps DEF Confirm, Cancel, Approvals
  <2>2. pending' \in Seq(1..Len(steps'))
    BY <1>11, <2>1 DEF Confirm, Cancel
  <2>3. status' \in Statuses /\ resumes' \in Nat /\ pc' \in {"idle", "returned"}
    BY <1>11 DEF Confirm, Cancel, Statuses, Awaiting
  <2>4. need' \in BOOLEAN
    BY <1>11 DEF Confirm, Cancel
  <2>5. UNCHANGED <<cur, fact, used, repeats, verifies, overtime, sent, planned>>
    BY <1>11 DEF Confirm, Cancel, budget
  <2> QED
    BY <2>1, <2>2, <2>3, <2>4, <2>5
<1>12. CASE UNCHANGED vars
  BY <1>12 DEF vars, budget
<1> QED
  BY <1>1, <1>2, <1>3, <1>4, <1>5, <1>6, <1>7, <1>8, <1>9, <1>10, <1>11, <1>12
     DEF Next, Execute, Tool, User

\* The variables keep their types, and the call under way is one of a step that
\* exists.
THEOREM TypeCorrect == Spec => []TypeInv
<1>1. Init => TypeInv
  BY TypeInit
<1>2. TypeInv /\ [Next]_vars => TypeInv'
  BY TypeNext
<1> QED
  BY <1>1, <1>2, PTL DEF Spec

THEOREM TypeSafe == Spec => []TypeOK
<1>1. TypeInv => TypeOK
  BY DEF TypeInv
<1> QED
  BY <1>1, TypeCorrect, PTL

-----------------------------------------------------------------------------
(* The first failing step ends the execution.  FailureStops is inductive,   *)
(* given the types: a step is only ever marked as failed by an action that  *)
(* also leaves the loop, and a workflow that is resumed starts afresh.      *)

LEMMA FailureInit == Init => FailureStops
<1> SUFFICES ASSUME Init PROVE FailureStops
  OBVIOUS
<1>1. PICK p \in Plans, a \in Approvals : steps = BuildSteps(p, a)
  BY DEF Init, Approvals
<1>2. \A i \in DOMAIN steps : steps[i].status = "pending"
  BY <1>1 DEF BuildSteps
<1> QED
  BY <1>2 DEF FailureStops

LEMMA FailureNext == TypeInv /\ FailureStops /\ [Next]_vars => FailureStops'
<1> SUFFICES ASSUME TypeInv, FailureStops, [Next]_vars PROVE FailureStops'
  OBVIOUS
<1> DEFINE NoneFailed == \A i \in 1..Len(steps) : steps[i].status # "failed"
<1>0. /\ steps \in Seq(Step) /\ pending \in Seq(1..Len(steps))
      /\ DOMAIN steps = 1..Len(steps)
  BY DEF TypeInv, TypeOK
<1>a. pc = "calling" => cur.step \in 1..Len(steps)
  BY DEF TypeInv, CallInv
<1>1. CASE ~(pc = "returned" /\ status = "failed")
  <2>1. NoneFailed
    BY <1>0, <1>1 DEF FailureStops
  <2>2. CASE \/ RefuseUnconfirmed \/ StartLoop \/ Finish \/ StopOnDecision
             \/ AskUser \/ BudgetStop \/ InvalidDecision \/ ToolRaises \/ TimePasses
             \/ UNCHANGED vars
    <3>1. steps' = steps
      BY <2>2 DEF RefuseUnconfirmed, StartLoop, Finish, StopOnDecision, AskUser,
                  BudgetStop, InvalidDecision, ToolRaises, TimePasses, NoNewStep, vars
    <3> QED
      BY <1>0, <2>1, <3>1 DEF FailureStops
  <2>3. CASE ConfirmStep
    <3>1. PICK d \in Decision :
            Resolves(d) /\ steps' = Asking(StepsWith(d), StepIndex(d))
      BY <2>3 DEF ConfirmStep
    <3>2. \A i \in 1..Len(steps') : steps'[i].status # "failed"
      BY <1>0, <2>1, <3>1, ResolvedAsk DEF Resolves
    <3>3. DOMAIN steps' = 1..Len(steps')
      BY <1>0, <3>1, ResolvedAsk DEF Resolves
    <3> QED
      BY <3>2, <3>3 DEF FailureStops
  <2>4. CASE UnsupportedStep \/ ToolFails
    BY <2>4 DEF UnsupportedStep, Leave, ToolFails, FailureStops
  <2>5. CASE CallTool
    <3>1. PICK d \in Decision :
            Resolves(d) /\ steps' = WithStatus(StepsWith(d), StepIndex(d), "running")
      BY <2>5 DEF CallTool
    <3>2. /\ steps' \in Seq(Step)
          /\ StepIndex(d) \in 1..Len(steps') /\ steps'[StepIndex(d)].status = "running"
          /\ \A i \in 1..Len(steps') :
               i # StepIndex(d) => i \in 1..Len(steps) /\ steps'[i] = steps[i]
      BY <1>0, <3>1, ResolvedStatus DEF Resolves, StepStatuses
    <3> QED
      BY <2>1, <3>2 DEF FailureStops
  <2>6. CASE ToolSucceeds
    <3>1. PICK c \in 1..Len(steps) : steps' = WithStatus(steps, c, "completed")
      BY <1>a, <2>6 DEF ToolSucceeds, Answered
    <3> DEFINE done == WithStatus(steps, c, "completed")
    <3>2. /\ done \in Seq(Step) /\ Len(done) = Len(steps)
          /\ done[c].status = "completed"
          /\ \A i \in 1..Len(steps) : i # c => done[i] = steps[i]
      BY <1>0, StatusSet DEF StepStatuses
    <3> HIDE DEF done
    <3>3. steps' = done
      BY <3>1 DEF done
    <3> QED
      BY <2>1, <3>2, <3>3 DEF FailureStops
  <2>7. CASE SearchMisses
    <3>0. PICK c \in 1..Len(steps) : c = cur.step
      BY <1>a, <2>7 DEF SearchMisses, Answered
    <3> DEFINE done == WithStatus(steps, c, "completed")
               retry == [steps[c] EXCEPT !.status = "pending",
                           !.approval = "not_required", !.params = Rewritten]
    <3>1. steps' = Append(done, retry)
      BY <2>7, <3>0 DEF SearchMisses
    <3>2. /\ done \in Seq(Step) /\ Len(done) = Len(steps)
          /\ done[c].status = "completed"
          /\ \A i \in 1..Len(steps) : i # c => done[i] = steps[i]
      BY <1>0, StatusSet DEF StepStatuses
    <3>3. retry.status = "pending"
      BY <1>0, <3>1 DEF Step
    <3> HIDE DEF done, retry
    <3> QED
      BY <2>1, <3>1, <3>2, <3>3 DEF FailureStops
  <2>8. CASE Confirm
    <3>1. /\ DOMAIN steps' = 1..Len(steps)
          /\ \A i \in 1..Len(steps) : steps'[i].status = "pending"
      BY <1>0, <2>8, ResumedSteps DEF Confirm
    <3> QED
      BY <3>1 DEF FailureStops
  <2>9. CASE Cancel
    <3>1. /\ DOMAIN steps' = 1..Len(steps)
          /\ \A i \in 1..Len(steps) : steps'[i].status = steps[i].status
      BY <1>0, <2>9, SettledSteps DEF Cancel, Approvals
    <3> QED
      BY <2>1, <3>1 DEF FailureStops
  <2> QED
    BY <2>2, <2>3, <2>4, <2>5, <2>6, <2>7, <2>8, <2>9 DEF Next, Execute, Tool, User
<1>2. CASE pc = "returned" /\ status = "failed"
  <2>1. UNCHANGED vars
    BY <1>2 DEF Next, Execute, Tool, User, RefuseUnconfirmed, StartLoop, Finish,
      StopOnDecision, AskUser, BudgetStop, InvalidDecision, ConfirmStep, UnsupportedStep,
      CallTool, ToolSucceeds, SearchMisses, ToolFails, ToolRaises, Answered, TimePasses,
      Confirm, Cancel, Awaiting
  <2> QED
    BY <1>2, <2>1 DEF FailureStops, vars
<1> QED
  BY <1>1, <1>2

\* The first failing step ends the execution, for every plan, every catalogue and
\* every budget: no tool is called after it and the workflow is reported as failed.
THEOREM FailureStopsAlways == Spec => []FailureStops
<1>1. Init => FailureStops
  BY FailureInit
<1>2. TypeInv /\ FailureStops /\ [Next]_vars => FailureStops'
  BY FailureNext
<1> QED
  BY <1>1, <1>2, TypeCorrect, PTL DEF Spec

-----------------------------------------------------------------------------
(* The budget.  The counters bound the calls recorded in sent, and are      *)
(* bounded by the limits; they may run ahead of the calls, for a decision   *)
(* that is consumed need not lead to a call.                                *)

Positions(s, M) == {i \in 1..Len(s) : s[i] \in M}

WithKey(k) == {c \in Call : ActionKey(c) = k}
Checking(t) == {c \in Call : VerifyTarget(c) = t}

BudgetInv ==
  /\ Len(sent) <= used /\ used <= MaxSteps
  /\ \A k \in ActionKeys : /\ Cardinality(Positions(sent, WithKey(k))) <= repeats[k]
                           /\ repeats[k] <= MaxRepeatActions
  /\ \A t \in Caps : /\ Cardinality(Positions(sent, Checking(t))) <= verifies[t]
                     /\ verifies[t] <= MaxVerifyAttempts

\* There are finitely many positions to count.
LEMMA PositionsFinite ==
  ASSUME NEW s \in Seq(Call), NEW M
  PROVE  IsFiniteSet(Positions(s, M)) /\ Cardinality(Positions(s, M)) \in Nat
<1>1. IsFiniteSet(1..Len(s))
  BY FS_Interval
<1>2. Positions(s, M) \in SUBSET (1..Len(s))
  BY DEF Positions
<1>3. IsFiniteSet(Positions(s, M))
  BY <1>1, <1>2, FS_Subset
<1> QED
  BY <1>3, FS_CardinalityType

\* One more element of a sequence is at most one more of those in M.
LEMMA PositionsAppend ==
  ASSUME NEW s \in Seq(Call), NEW c \in Call, NEW M
  PROVE  /\ Cardinality(Positions(s, M)) \in Nat
         /\ Cardinality(Positions(Append(s, c), M)) =
              Cardinality(Positions(s, M)) + IF c \in M THEN 1 ELSE 0
<1>1. IsFiniteSet(Positions(s, M))
  BY PositionsFinite
<1>2. Cardinality(Positions(s, M)) \in Nat
  BY PositionsFinite
<1>3. CASE c \in M
  <2>1. Positions(Append(s, c), M) = Positions(s, M) \cup {Len(s) + 1}
    BY <1>3 DEF Positions
  <2>2. Len(s) + 1 \notin Positions(s, M)
    BY DEF Positions
  <2> QED
    BY <1>1, <1>2, <1>3, <2>1, <2>2, FS_AddElement
<1>4. CASE c \notin M
  <2>1. Positions(Append(s, c), M) = Positions(s, M)
    BY <1>4 DEF Positions
  <2> QED
    BY <1>2, <1>4, <2>1
<1> QED
  BY <1>3, <1>4

\* Nothing was called yet.
LEMMA PositionsEmpty ==
  ASSUME NEW M
  PROVE  Cardinality(Positions(<<>>, M)) = 0
<1>1. Positions(<<>>, M) = {}
  BY DEF Positions
<1> QED
  BY <1>1, FS_EmptySet

\* The sets counted are those the property counts.
LEMMA CountedCalls ==
  ASSUME sent \in Seq(Call)
  PROVE  /\ \A k : CallsOf(k) = Positions(sent, WithKey(k))
         /\ \A t : ChecksOf(t) = Positions(sent, Checking(t))
<1>1. \A i \in 1..Len(sent) : sent[i] \in Call
  OBVIOUS
<1>2. DOMAIN sent = 1..Len(sent)
  OBVIOUS
<1> QED
  BY <1>1, <1>2 DEF CallsOf, ChecksOf, Positions, WithKey, Checking

\* What a consumed decision does to the counters, if it was within the budget.
LEMMA ConsumeWithin ==
  ASSUME TypeOK, BudgetInv, NEW d \in Decision, ~OverBudget(d), Consume(d)
  PROVE  /\ used' = used + 1 /\ used' <= MaxSteps
         /\ \A k \in ActionKeys :
              /\ repeats'[k] = repeats[k] + IF k = ActionKey(d) THEN 1 ELSE 0
              /\ repeats'[k] <= MaxRepeatActions
         /\ \A t \in Caps :
              /\ verifies'[t] = verifies[t] + IF t = VerifyTarget(d) THEN 1 ELSE 0
              /\ verifies'[t] <= MaxVerifyAttempts
<1>1. used' = used + 1 /\ used' <= MaxSteps
  BY LimitAssumption DEF Consume, OverBudget, TypeOK, BudgetInv
<1>2. ASSUME NEW k \in ActionKeys
      PROVE  /\ repeats'[k] = repeats[k] + IF k = ActionKey(d) THEN 1 ELSE 0
             /\ repeats'[k] <= MaxRepeatActions
  <2>1. repeats[k] \in Nat /\ repeats \in [ActionKeys -> Nat]
    BY DEF TypeOK
  <2>2. repeats' = [repeats EXCEPT ![ActionKey(d)] = @ + 1]
    BY DEF Consume
  <2>3. repeats[ActionKey(d)] < MaxRepeatActions
    BY BudgetKeys, LimitAssumption DEF OverBudget, TypeOK
  <2>4. repeats[k] <= MaxRepeatActions
    BY DEF BudgetInv
  <2> QED
    BY <2>1, <2>2, <2>3, <2>4, LimitAssumption
<1>3. ASSUME NEW t \in Caps
      PROVE  /\ verifies'[t] = verifies[t] + IF t = VerifyTarget(d) THEN 1 ELSE 0
             /\ verifies'[t] <= MaxVerifyAttempts
  <2>1. verifies[t] \in Nat /\ verifies \in [Caps -> Nat] /\ t # None
    BY CapabilityAssumption DEF TypeOK
  <2>2. verifies[t] <= MaxVerifyAttempts
    BY DEF BudgetInv
  <2>3. CASE VerifyTarget(d) = None
    BY <2>1, <2>2, <2>3 DEF Consume
  <2>4. CASE VerifyTarget(d) # None
    <3>1. verifies' = [verifies EXCEPT ![VerifyTarget(d)] = @ + 1]
      BY <2>4 DEF Consume
    <3>2. verifies[VerifyTarget(d)] < MaxVerifyAttempts
      BY <2>4, BudgetKeys, LimitAssumption DEF OverBudget, TypeOK
    <3> QED
      BY <2>1, <2>2, <3>1, <3>2, LimitAssumption
  <2> QED
    BY <2>3, <2>4
<1> QED
  BY <1>1, <1>2, <1>3

LEMMA BudgetInit == Init => BudgetInv
<1> SUFFICES ASSUME Init PROVE BudgetInv
  OBVIOUS
<1>1. /\ sent = <<>> /\ used = 0 /\ \A k \in ActionKeys : repeats[k] = 0
      /\ \A t \in Caps : verifies[t] = 0
  BY DEF Init
<1> QED
  BY <1>1, PositionsEmpty, LimitAssumption DEF BudgetInv

LEMMA BudgetNext == TypeInv /\ TypeInv' /\ BudgetInv /\ [Next]_vars => BudgetInv'
<1> SUFFICES ASSUME TypeInv, TypeInv', BudgetInv, [Next]_vars PROVE BudgetInv'
  OBVIOUS
<1>0. TypeOK /\ sent \in Seq(Call)
  BY DEF TypeInv, TypeOK
<1>1. CASE StartLoop
  <2>1. /\ sent' = <<>> /\ used' = 0 /\ \A k \in ActionKeys : repeats'[k] = 0
        /\ \A t \in Caps : verifies'[t] = 0
    BY <1>1 DEF StartLoop, FreshBudget
  <2> QED
    BY <2>1, PositionsEmpty, LimitAssumption DEF BudgetInv
<1>2. CASE InvalidDecision \/ ConfirmStep \/ UnsupportedStep
  <2>1. PICK d \in Decision : ~OverBudget(d) /\ Consume(d)
    BY <1>2 DEF InvalidDecision, ConfirmStep, UnsupportedStep, Resolves
  <2>2. sent' = sent
    BY <1>2 DEF InvalidDecision, ConfirmStep, UnsupportedStep, Leave
  <2>3. /\ used \in Nat /\ \A k \in ActionKeys : repeats[k] \in Nat
        /\ \A t \in Caps : verifies[t] \in Nat
    BY <1>0 DEF TypeOK
  <2>4. /\ Len(sent) \in Nat
        /\ \A k \in ActionKeys : Cardinality(Positions(sent, WithKey(k))) \in Nat
        /\ \A t \in Caps : Cardinality(Positions(sent, Checking(t))) \in Nat
    BY <1>0, PositionsFinite
  <2> QED
    BY <1>0, <2>1, <2>2, <2>3, <2>4, ConsumeWithin, LimitAssumption DEF BudgetInv
<1>3. CASE CallTool
  <2>1. PICK d \in Decision :
          /\ ~OverBudget(d) /\ Consume(d)
          /\ cur' = [step |-> StepIndex(d), action |-> d.action, cap |-> d.cap,
                     params |-> d.params, target |-> d.target]
          /\ sent' = Append(sent, cur')
    BY <1>3 DEF CallTool, Resolves
  <2>2. cur' \in Call
    BY <1>3 DEF CallTool, TypeInv, CallInv
  <2>3. ActionKey(cur') = ActionKey(d) /\ VerifyTarget(cur') = VerifyTarget(d)
    BY <2>1 DEF ActionKey, VerifyTarget
  <2>4. /\ used' = used + 1 /\ used' <= MaxSteps
        /\ \A k \in ActionKeys :
             /\ repeats'[k] = repeats[k] + IF k = ActionKey(d) THEN 1 ELSE 0
             /\ repeats'[k] <= MaxRepeatActions
        /\ \A t \in Caps :
             /\ verifies'[t] = verifies[t] + IF t = VerifyTarget(d) THEN 1 ELSE 0
             /\ verifies'[t] <= MaxVerifyAttempts
    BY <1>0, <2>1, ConsumeWithin
  <2>5. Len(sent') <= used'
    BY <1>0, <2>1, <2>2, <2>4 DEF BudgetInv, TypeOK
  <2>6. ASSUME NEW k \in ActionKeys
        PROVE  Cardinality(Positions(sent', WithKey(k))) <= repeats'[k]
    <3>1. cur' \in WithKey(k) <=> k = ActionKey(d)
      BY <2>2, <2>3 DEF WithKey
    <3>2. /\ Cardinality(Positions(sent, WithKey(k))) \in Nat
          /\ Cardinality(Positions(sent', WithKey(k))) =
               Cardinality(Positions(sent, WithKey(k)))
                 + IF cur' \in WithKey(k) THEN 1 ELSE 0
      BY <1>0, <2>1, <2>2, PositionsAppend
    <3>3. Cardinality(Positions(sent, WithKey(k))) <= repeats[k] /\ repeats[k] \in Nat
      BY <1>0 DEF BudgetInv, TypeOK
    <3> QED
      BY <2>4, <3>1, <3>2, <3>3
  <2>7. ASSUME NEW t \in Caps
        PROVE  Cardinality(Positions(sent', Checking(t))) <= verifies'[t]
    <3>1. cur' \in Checking(t) <=> t = VerifyTarget(d)
      BY <2>2, <2>3 DEF Checking
    <3>2. /\ Cardinality(Positions(sent, Checking(t))) \in Nat
          /\ Cardinality(Positions(sent', Checking(t))) =
               Cardinality(Positions(sent, Checking(t)))
                 + IF cur' \in Checking(t) THEN 1 ELSE 0
      BY <1>0, <2>1, <2>2, PositionsAppend
    <3>3. Cardinality(Positions(sent, Checking(t))) <= verifies[t] /\ verifies[t] \in Nat
      BY <1>0 DEF BudgetInv, TypeOK
    <3> QED
      BY <2>4, <3>1, <3>2, <3>3
  <2> QED
    BY <2>4, <2>5, <2>6, <2>7 DEF BudgetInv
<1>4. CASE \/ RefuseUnconfirmed \/ Finish \/ StopOnDecision \/ AskUser \/ BudgetStop
           \/ Tool \/ TimePasses \/ User \/ UNCHANGED vars
  <2>1. UNCHANGED <<sent, used, repeats, verifies>>
    BY <1>4 DEF RefuseUnconfirmed, Finish, StopOnDecision, AskUser, BudgetStop, Leave,
       NoNewStep, Tool, ToolSucceeds, SearchMisses, ToolFails, ToolRaises, Answered,
       TimePasses, User, Confirm, Cancel, vars, budget
  <2> QED
    BY <2>1 DEF BudgetInv
<1> QED
  BY <1>1, <1>2, <1>3, <1>4 DEF Next, Execute

\* Whatever the model decides, however the tools answer and however often searches
\* are retried, an execution stays within the three limits of its budget.
THEOREM BudgetKept == Spec => []CallsWithinBudget
<1>1. Init => BudgetInv
  BY BudgetInit
<1>2. TypeInv /\ TypeInv' /\ BudgetInv /\ [Next]_vars => BudgetInv'
  BY BudgetNext
<1>3. TypeInv /\ BudgetInv => CallsWithinBudget
  <2> SUFFICES ASSUME TypeInv, BudgetInv PROVE CallsWithinBudget
    OBVIOUS
  <2>1. sent \in Seq(Call) /\ used \in Nat /\ repeats \in [ActionKeys -> Nat]
        /\ verifies \in [Caps -> Nat]
    BY DEF TypeInv, TypeOK
  <2>2. /\ \A k \in ActionKeys : Cardinality(Positions(sent, WithKey(k))) \in Nat
        /\ \A t \in Caps : Cardinality(Positions(sent, Checking(t))) \in Nat
    BY <2>1, PositionsFinite
  <2> QED
    BY <2>1, <2>2, CountedCalls, LimitAssumption DEF BudgetInv, CallsWithinBudget
<1> QED
  BY <1>1, <1>2, <1>3, TypeCorrect, PTL DEF Spec

-----------------------------------------------------------------------------
(* High risk commands.  The loop asks for every step that is marked, so the *)
(* step under way never is.                                                 *)

NeverHigh == pc = "calling" => ~steps[cur.step].high

LEMMA NeverHighNext == TypeInv /\ NeverHigh /\ [Next]_vars => NeverHigh'
<1> SUFFICES ASSUME TypeInv, NeverHigh, [Next]_vars, pc' = "calling"
             PROVE  ~steps'[cur'.step].high
  BY DEF NeverHigh
<1>1. CASE CallTool
  <2>1. PICK d \in Decision :
          /\ Resolves(d)
          /\ ~RequiresConfirmation(StepsWith(d)[StepIndex(d)], d)
          /\ steps' = WithStatus(StepsWith(d), StepIndex(d), "running")
          /\ cur'.step = StepIndex(d)
    BY <1>1 DEF CallTool
  <2>2. /\ StepsWith(d) \in Seq(Step) /\ StepIndex(d) \in 1..Len(StepsWith(d))
    BY <2>1, ResolvedSteps DEF Resolves, TypeInv, TypeOK
  <2>3. StepsWith(d)[StepIndex(d)] \in Step /\ ~StepsWith(d)[StepIndex(d)].high
    BY <2>1, <2>2 DEF RequiresConfirmation
  <2>4. steps'[StepIndex(d)] = [StepsWith(d)[StepIndex(d)] EXCEPT !.status = "running"]
    BY <2>1, <2>2, StatusSet DEF StepStatuses
  <2> QED
    BY <2>1, <2>3, <2>4 DEF Step
<1>2. CASE TimePasses \/ UNCHANGED vars
  BY <1>2 DEF TimePasses, vars, NeverHigh
<1> QED
  BY <1>1, <1>2 DEF Next, Execute, Tool, User, RefuseUnconfirmed, StartLoop, Finish,
     StopOnDecision, AskUser, BudgetStop, InvalidDecision, ConfirmStep, UnsupportedStep,
     ToolSucceeds, SearchMisses, ToolFails, ToolRaises, Leave, Confirm, Cancel, Awaiting

\* No high risk command is called without the approval of its step, whatever plan
\* and catalogue (the code asks even where it has been approved).
THEOREM HighRiskGuarded == Spec => []HighRiskApproved
<1>1. Init => NeverHigh
  BY DEF Init, NeverHigh
<1>2. TypeInv /\ NeverHigh /\ [Next]_vars => NeverHigh'
  BY NeverHighNext
<1>3. NeverHigh => HighRiskApproved
  BY DEF NeverHigh, HighRiskApproved
<1> QED
  BY <1>1, <1>2, <1>3, TypeCorrect, PTL DEF Spec

-----------------------------------------------------------------------------
(* What a workflow says when its execution is over.  While the loop runs,   *)
(* a workflow is running and asks for nothing; the two fields are set       *)
(* together by every branch that leaves the loop.                           *)

Active == pc \in {"deciding", "calling"}

AskInv ==
  /\ Active => status = "running" /\ ~need
  /\ pc = "idle" /\ planned > 0 => status = "planned" /\ ~need
  /\ AskedIsResumable

LEMMA AskNext == AskInv /\ [Next]_vars => AskInv'
<1> SUFFICES ASSUME AskInv, [Next]_vars PROVE AskInv'
  OBVIOUS
<1> USE DEF AskInv, Active, AskedIsResumable
<1>1. CASE RefuseUnconfirmed
  BY <1>1 DEF RefuseUnconfirmed
<1>2. CASE StartLoop
  BY <1>2 DEF StartLoop
<1>3. CASE \/ Finish \/ StopOnDecision \/ AskUser \/ BudgetStop \/ InvalidDecision
           \/ ConfirmStep \/ UnsupportedStep
  BY <1>3 DEF Finish, StopOnDecision, AskUser, BudgetStop, InvalidDecision, ConfirmStep,
     UnsupportedStep, Leave
<1>4. CASE CallTool
  BY <1>4 DEF CallTool
<1>5. CASE Tool
  BY <1>5 DEF Tool, ToolSucceeds, SearchMisses, ToolFails, ToolRaises, Answered
<1>6. CASE TimePasses
  BY <1>6 DEF TimePasses
<1>7. CASE User
  BY <1>7 DEF User, Confirm, Cancel, Awaiting
<1>8. CASE UNCHANGED vars
  BY <1>8 DEF vars
<1> QED
  BY <1>1, <1>2, <1>3, <1>4, <1>5, <1>6, <1>7, <1>8 DEF Next, Execute

\* For every plan and every answer of the model: after an execution, a workflow
\* shown as awaiting an answer can be resumed, and no other one can.
THEOREM AskedCanBeAnswered == Spec => []AskedIsResumable
<1>1. Init => AskInv
  BY DEF Init, AskInv, Active, AskedIsResumable
<1>2. AskInv /\ [Next]_vars => AskInv'
  BY AskNext
<1>3. AskInv => AskedIsResumable
  BY DEF AskInv
<1> QED
  BY <1>1, <1>2, <1>3, PTL DEF Spec

-----------------------------------------------------------------------------
(* Nothing is forgotten.  While the loop runs, a step that is not completed *)
(* is still to be called or is being called; the loop only finishes when    *)
(* nothing is to be called.                                                 *)

Scheduled(i) == \E j \in 1..Len(pending) : pending[j] = i

Accounted(i) ==
  \/ steps[i].status = "completed"
  \/ Scheduled(i)
  \/ pc = "calling" /\ i = cur.step

WorkInv ==
  /\ Active => \A i \in 1..Len(steps) : Accounted(i)
  /\ status = "completed" =>
       pc = "returned" /\ \A i \in 1..Len(steps) : steps[i].status = "completed"

\* A step that waits is the first to wait or stays when the first is taken.
LEMMA TakenOrScheduled ==
  ASSUME NEW S, NEW s \in Seq(S), s # <<>>, NEW j \in 1..Len(s), s[j] # Head(s)
  PROVE  \E k \in 1..Len(Tail(s)) : Tail(s)[k] = s[j]
<1>1. j # 1 /\ j - 1 \in 1..Len(Tail(s))
  OBVIOUS
<1>2. Tail(s)[j - 1] = s[j]
  BY <1>1
<1> QED
  BY <1>1, <1>2

\* With a step pending the loop takes it: it never finishes early.
LEMMA FinishIsLast ==
  ASSUME TypeOK, pc = "deciding", NEW d \in Decision, Decides(d), d.action = "finish"
  PROVE  pending = <<>>
<1> SUFFICES ASSUME pending # <<>> PROVE FALSE
  OBVIOUS
<1>1. Head(pending) \in 1..Len(steps) /\ steps \in Seq(Step)
  BY DEF TypeOK
<1>2. steps[Head(pending)] \in Step
  BY <1>1
<1>3. d.action = steps[Head(pending)].type
  BY DEF Decides, FromStep
<1> QED
  BY <1>2, <1>3 DEF Step, StepTypes

\* A step that is completed: the list keeps its other steps.
LEMMA StepCompleted ==
  ASSUME NEW s \in Seq(Step), NEW i \in 1..Len(s),
         NEW r, r = WithStatus(s, i, "completed")
  PROVE  /\ r \in Seq(Step) /\ Len(r) = Len(s) /\ r[i].status = "completed"
         /\ \A j \in 1..Len(s) : j # i => r[j] = s[j]
<1> DEFINE e == [s[i] EXCEPT !.status = "completed"]
<1>1. s[i] \in Step
  OBVIOUS
<1>2. e \in Step /\ e.status = "completed"
  BY <1>1 DEF Step, StepStatuses
<1>3. r = [s EXCEPT ![i] = e]
  BY DEF WithStatus
<1> HIDE DEF e
<1> QED
  BY <1>2, <1>3

LEMMA WorkNext == TypeInv /\ AskInv /\ WorkInv /\ [Next]_vars => WorkInv'
<1> SUFFICES ASSUME TypeInv, AskInv, WorkInv, [Next]_vars PROVE WorkInv'
  OBVIOUS
<1>0. /\ TypeOK /\ steps \in Seq(Step) /\ pending \in Seq(1..Len(steps))
      /\ pc = "calling" => cur \in Call /\ cur.step \in 1..Len(steps)
  BY DEF TypeInv, TypeOK, CallInv
<1>a. steps \in Seq(Step) /\ "completed" \in StepStatuses
  BY <1>0 DEF StepStatuses
<1>1. CASE RefuseUnconfirmed
  BY <1>1 DEF RefuseUnconfirmed, WorkInv, Active
<1>2. CASE StartLoop
  <2>1. /\ pc' = "deciding" /\ status' = "running" /\ Len(steps') = Len(steps)
        /\ pending' = [i \in 1..Len(steps) |-> i]
    BY <1>2 DEF StartLoop
  <2>2. ASSUME NEW i \in 1..Len(steps') PROVE Scheduled(i)'
    <3>1. i \in 1..Len(pending') /\ pending'[i] = i
      BY <1>0, <2>1
    <3> QED
      BY <3>1 DEF Scheduled
  <2> QED
    BY <2>1, <2>2 DEF WorkInv, Accounted
<1>3. CASE Finish
  <2>1. PICK d \in Decision : Decides(d) /\ d.action = "finish"
    BY <1>3 DEF Finish
  <2>2. pc = "deciding" /\ pc' = "returned" /\ steps' = steps
    BY <1>3 DEF Finish, Leave, NoNewStep
  <2>3. pending = <<>>
    BY <1>0, <2>1, <2>2, FinishIsLast
  <2>4. \A i \in 1..Len(steps) : steps[i].status = "completed"
    BY <2>2, <2>3 DEF WorkInv, Active, Accounted, Scheduled
  <2> QED
    BY <2>2, <2>4 DEF WorkInv, Active
<1>4. CASE \/ StopOnDecision \/ AskUser \/ BudgetStop \/ InvalidDecision
           \/ ConfirmStep \/ UnsupportedStep
  BY <1>4 DEF StopOnDecision, AskUser, BudgetStop, InvalidDecision, ConfirmStep,
     UnsupportedStep, Leave, WorkInv, Active
<1>5. CASE CallTool
  <2>1. PICK d \in Decision :
          /\ Resolves(d)
          /\ steps' = WithStatus(StepsWith(d), StepIndex(d), "running")
          /\ cur'.step = StepIndex(d)
    BY <1>5 DEF CallTool
  <2>2. /\ pc = "deciding" /\ pc' = "calling" /\ status' = status
        /\ IsCall(d) /\ Resolvable(d) /\ pending' = PendingAfter(d)
    BY <1>5, <2>1 DEF CallTool, Resolves
  <2>3. \A i \in 1..Len(steps') :
          i # StepIndex(d) => i \in 1..Len(steps) /\ steps'[i] = steps[i]
    BY <1>0, <2>1, <2>2, ResolvedStatus DEF StepStatuses
  <2>4. \/ /\ pending # <<>>
           /\ StepIndex(d) = Head(pending) /\ PendingAfter(d) = Tail(pending)
        \/ pending = <<>>
    BY <1>0, <2>2, ResolvedSteps
  <2>5. ASSUME NEW i \in 1..Len(steps') PROVE Accounted(i)'
    <3>1. CASE i = StepIndex(d)
      BY <2>1, <2>2, <3>1 DEF Accounted
    <3>2. CASE i # StepIndex(d)
      <4>1. i \in 1..Len(steps) /\ steps'[i] = steps[i]
        BY <2>3, <3>2
      <4>2. steps[i].status = "completed" \/ Scheduled(i)
        BY <2>2, <4>1 DEF WorkInv, Active, Accounted
      <4>3. CASE Scheduled(i)
        <5>1. PICK j \in 1..Len(pending) : pending[j] = i
          BY <4>3 DEF Scheduled
        <5>2. /\ pending # <<>> /\ StepIndex(d) = Head(pending)
              /\ pending' = Tail(pending)
          BY <2>2, <2>4, <5>1
        <5>3. \E k \in 1..Len(Tail(pending)) : Tail(pending)[k] = pending[j]
          BY <1>0, <3>2, <5>1, <5>2, TakenOrScheduled
        <5> QED
          BY <5>1, <5>2, <5>3 DEF Accounted, Scheduled
      <4> QED
        BY <4>1, <4>2, <4>3 DEF Accounted
    <3> QED
      BY <3>1, <3>2
  <2>6. status' # "completed"
    BY <2>2 DEF WorkInv
  <2> QED
    BY <2>5, <2>6 DEF WorkInv
<1>6. CASE ToolSucceeds
  <2>1. PICK c \in 1..Len(steps) : c = cur.step
    BY <1>0, <1>6 DEF ToolSucceeds, Answered
  <2>2. /\ pc = "calling" /\ pc' = "deciding" /\ status' = status /\ pending' = pending
        /\ steps' = WithStatus(steps, c, "completed")
    BY <1>6, <2>1 DEF ToolSucceeds, Answered
  <2>3. /\ Len(steps') = Len(steps) /\ steps'[c].status = "completed"
        /\ \A i \in 1..Len(steps) : i # c => steps'[i] = steps[i]
    BY <1>a, <2>1, <2>2, StepCompleted
  <2>4. \A i \in 1..Len(steps) : Accounted(i)
    BY <2>2 DEF WorkInv, Active
  <2>5. ASSUME NEW i \in 1..Len(steps') PROVE Accounted(i)'
    BY <2>1, <2>2, <2>3, <2>4 DEF Accounted, Scheduled
  <2> QED
    BY <2>2, <2>5 DEF WorkInv
<1>7. CASE SearchMisses
  <2>1. PICK c \in 1..Len(steps) : c = cur.step
    BY <1>0, <1>7 DEF SearchMisses, Answered
  <2> DEFINE done == WithStatus(steps, c, "completed")
             retry == [steps[c] EXCEPT !.status = "pending",
                         !.approval = "not_required", !.params = Rewritten]
  <2>2. /\ pc = "calling" /\ pc' = "deciding" /\ status' = status
        /\ pending' = <<Len(steps) + 1>> \o pending
        /\ steps' = Append(done, retry)
    BY <1>7, <2>1 DEF SearchMisses, Answered
  <2>3. /\ done \in Seq(Step) /\ Len(done) = Len(steps) /\ done[c].status = "completed"
        /\ \A i \in 1..Len(steps) : i # c => done[i] = steps[i]
    BY <1>a, <2>1, StepCompleted
  <2>8. retry \in Step
    <3>1. steps[c] \in Step
      BY <1>a, <2>1
    <3> QED
      BY <3>1, CapabilityAssumption DEF Step, StepStatuses, Approvals
  <2> HIDE DEF done, retry
  <2>4. \A i \in 1..Len(steps) : Accounted(i)
    BY <2>2 DEF WorkInv, Active
  <2>5. /\ Len(pending') = Len(pending) + 1 /\ pending'[1] = Len(steps) + 1
        /\ \A j \in 1..Len(pending) : pending'[j + 1] = pending[j]
    BY <1>0, <2>2
  <2>7. /\ Len(steps') = Len(steps) + 1
        /\ \A i \in 1..Len(steps) : steps'[i] = done[i]
    <3>1. /\ Len(Append(done, retry)) = Len(done) + 1
          /\ \A i \in 1..Len(done) : Append(done, retry)[i] = done[i]
      BY <2>3, <2>8
    <3> QED
      BY <2>2, <2>3, <3>1
  <2>6. ASSUME NEW i \in 1..Len(steps') PROVE Accounted(i)'
    <3>1. CASE i = Len(steps) + 1
      <4>1. 1 \in 1..Len(pending') /\ pending'[1] = i
        BY <1>0, <2>5, <3>1
      <4> QED
        BY <4>1 DEF Accounted, Scheduled
    <3>2. CASE i = c
      BY <2>2, <2>3, <3>2 DEF Accounted
    <3>3. CASE i # c /\ i # Len(steps) + 1
      <4>1. i \in 1..Len(steps) /\ steps'[i] = steps[i]
        BY <2>2, <2>3, <3>3, <2>7
      <4>2. steps[i].status = "completed" \/ Scheduled(i)
        BY <2>1, <2>4, <3>3, <4>1 DEF Accounted
      <4>3. CASE Scheduled(i)
        <5>1. PICK j \in 1..Len(pending) : pending[j] = i
          BY <4>3 DEF Scheduled
        <5>2. j + 1 \in 1..Len(pending') /\ pending'[j + 1] = i
          BY <1>0, <2>5, <5>1
        <5> QED
          BY <5>2 DEF Accounted, Scheduled
      <4> QED
        BY <4>1, <4>2, <4>3 DEF Accounted
    <3> QED
      BY <3>1, <3>2, <3>3
  <2> QED
    BY <2>2, <2>6 DEF WorkInv
<1>8. CASE ToolFails
  BY <1>8 DEF ToolFails, WorkInv, Active
<1>9. CASE ToolRaises
  <2>1. status' = status /\ status = "running" /\ pc' = "raised"
    BY <1>9 DEF ToolRaises, Answered, AskInv, Active
  <2> QED
    BY <2>1 DEF WorkInv, Active
<1>10. CASE TimePasses
  BY <1>10 DEF TimePasses, WorkInv, Active, Accounted, Scheduled
<1>11. CASE User
  BY <1>11 DEF User, Confirm, Cancel, Awaiting, WorkInv, Active
<1>12. CASE UNCHANGED vars
  BY <1>12 DEF vars, WorkInv, Active, Accounted, Scheduled
<1> QED
  BY <1>1, <1>2, <1>3, <1>4, <1>5, <1>6, <1>7, <1>8, <1>9, <1>10, <1>11, <1>12
     DEF Next, Execute, Tool

\* For every plan, also when retries and follow-up steps are added: a workflow
\* reported as completed has every step completed.
THEOREM CompletedIsDone == Spec => []CompletedMeansAllDone
<1>1. Init => AskInv /\ WorkInv
  BY DEF Init, AskInv, WorkInv, Active, AskedIsResumable
<1>2. AskInv /\ [Next]_vars => AskInv'
  BY AskNext
<1>3. TypeInv /\ AskInv /\ WorkInv /\ [Next]_vars => WorkInv'
  BY WorkNext
<1>4. TypeInv /\ WorkInv => CompletedMeansAllDone
  <2> SUFFICES ASSUME TypeInv, WorkInv PROVE CompletedMeansAllDone
    OBVIOUS
  <2>1. DOMAIN steps = 1..Len(steps)
    BY DEF TypeInv, TypeOK
  <2> QED
    BY <2>1 DEF WorkInv, CompletedMeansAllDone
<1> QED
  BY <1>1, <1>2, <1>3, <1>4, TypeCorrect, PTL DEF Spec

-----------------------------------------------------------------------------
(* The order of the plan.  The steps of the plan that still wait do so in   *)
(* their order, and behind every step of the plan that was called; a retry  *)
(* or a follow-up has an index beyond the plan.                             *)

OrderInv ==
  /\ PlanOrder
  /\ Active =>
       /\ planned <= Len(steps)
       /\ \A i, j \in 1..Len(pending) :
            i < j /\ pending[i] <= planned /\ pending[j] <= planned
              => pending[i] < pending[j]
       /\ \A i \in 1..Len(sent), j \in 1..Len(pending) :
            sent[i].step <= planned /\ pending[j] <= planned
              => sent[i].step < pending[j]

\* The call of the first step that waits, or of one that was not planned.
LEMMA OrderCall ==
  ASSUME TypeOK, OrderInv, pc = "deciding", pc' = "calling", planned' = planned,
         cur' \in Call, sent' = Append(sent, cur'), Len(steps) <= Len(steps'),
         \/ /\ pending # <<>> /\ cur'.step = Head(pending) /\ pending' = Tail(pending)
         \/ /\ pending = <<>> /\ cur'.step = Len(steps) + 1 /\ pending' = <<>>,
         Len(steps') \in Nat
  PROVE  OrderInv'
<1>0. /\ sent \in Seq(Call) /\ pending \in Seq(1..Len(steps)) /\ planned \in Nat
      /\ Len(steps) \in Nat
  BY DEF TypeOK
<1>1. /\ planned <= Len(steps)
      /\ \A i, j \in 1..Len(pending) :
           i < j /\ pending[i] <= planned /\ pending[j] <= planned
             => pending[i] < pending[j]
      /\ \A i \in 1..Len(sent), j \in 1..Len(pending) :
           sent[i].step <= planned /\ pending[j] <= planned
             => sent[i].step < pending[j]
  BY DEF OrderInv, Active
<1>2. \A i, j \in 1..Len(sent) :
        i < j /\ sent[i].step <= planned /\ sent[j].step <= planned
          => sent[i].step < sent[j].step
  BY <1>0 DEF OrderInv, PlanOrder
<1>3. /\ Len(sent') = Len(sent) + 1 /\ sent'[Len(sent) + 1] = cur'
      /\ \A i \in 1..Len(sent) : sent'[i] = sent[i]
      /\ DOMAIN sent' = 1..Len(sent')
  BY <1>0
<1>4. ASSUME NEW i \in 1..Len(sent), sent[i].step <= planned, cur'.step <= planned
      PROVE  sent[i].step < cur'.step
  <2>1. CASE pending = <<>>
    BY <1>0, <1>1, <1>4, <2>1
  <2>2. CASE pending # <<>>
    <3>1. 1 \in 1..Len(pending) /\ cur'.step = pending[1]
      BY <1>0, <2>2
    <3> QED
      BY <1>1, <1>4, <3>1
  <2> QED
    BY <2>1, <2>2
<1>5. PlanOrder'
  <2> SUFFICES ASSUME NEW i \in 1..Len(sent'), NEW j \in 1..Len(sent'), i < j,
                      sent'[i].step <= planned, sent'[j].step <= planned
               PROVE  sent'[i].step < sent'[j].step
    BY <1>3 DEF PlanOrder
  <2>1. i \in 1..Len(sent)
    BY <1>0, <1>3
  <2>2. CASE j \in 1..Len(sent)
    BY <1>2, <1>3, <2>1, <2>2
  <2>3. CASE j = Len(sent) + 1
    BY <1>3, <1>4, <2>1, <2>3
  <2> QED
    BY <1>0, <1>3, <2>2, <2>3
<1>6. planned' <= Len(steps')
  BY <1>0, <1>1
<1>7. ASSUME PlanOrder', planned' <= Len(steps'),
             \A i, j \in 1..Len(pending') :
               i < j /\ pending'[i] <= planned /\ pending'[j] <= planned
                 => pending'[i] < pending'[j],
             \A i \in 1..Len(sent'), j \in 1..Len(pending') :
               sent'[i].step <= planned /\ pending'[j] <= planned
                 => sent'[i].step < pending'[j]
      PROVE  OrderInv'
  BY <1>7 DEF OrderInv
<1>8. CASE pending = <<>>
  <2>1. pending' = <<>> /\ 1..Len(pending') = {}
    BY <1>8
  <2> QED
    BY <1>5, <1>6, <1>7, <2>1
<1>9. CASE pending # <<>>
  <2>0. cur'.step = Head(pending) /\ pending' = Tail(pending)
    BY <1>9
  <2>a. /\ Head(pending) = pending[1] /\ 1 \in 1..Len(pending)
        /\ Len(Tail(pending)) = Len(pending) - 1
        /\ \A j \in 1..Len(Tail(pending)) : Tail(pending)[j] = pending[j + 1]
    BY <1>0, <1>9
  <2>b. \A j \in 1..Len(Tail(pending)) : j + 1 \in 1..Len(pending)
    BY <1>0, <2>a
  <2>1. /\ cur'.step = pending[1] /\ 1 \in 1..Len(pending)
        /\ \A j \in 1..Len(pending') :
             j + 1 \in 1..Len(pending) /\ pending'[j] = pending[j + 1]
    BY <2>0, <2>a, <2>b
  <2>2. ASSUME NEW i \in 1..Len(pending'), NEW j \in 1..Len(pending'), i < j,
               pending'[i] <= planned, pending'[j] <= planned
        PROVE  pending'[i] < pending'[j]
    <3>1. /\ i + 1 < j + 1 /\ i + 1 \in 1..Len(pending) /\ j + 1 \in 1..Len(pending)
          /\ pending'[i] = pending[i + 1] /\ pending'[j] = pending[j + 1]
      BY <2>1, <2>2
    <3> QED
      BY <1>1, <2>2, <3>1
  <2>3. ASSUME NEW i \in 1..Len(sent'), NEW j \in 1..Len(pending'),
               sent'[i].step <= planned, pending'[j] <= planned
        PROVE  sent'[i].step < pending'[j]
    <3>1. CASE i \in 1..Len(sent)
      BY <1>1, <1>3, <2>1, <2>3, <3>1
    <3>2. CASE i = Len(sent) + 1
      <4>1. sent'[i].step = pending[1] /\ 1 < j + 1
        BY <1>3, <2>1, <3>2
      <4> QED
        BY <1>1, <2>1, <2>3, <4>1
    <3> QED
      BY <1>0, <1>3, <3>1, <3>2
  <2> QED
    BY <1>5, <1>6, <2>2, <2>3, <1>7
<1> QED
  BY <1>8, <1>9

LEMMA OrderNext == TypeInv /\ TypeInv' /\ OrderInv /\ [Next]_vars => OrderInv'
<1> SUFFICES ASSUME TypeInv, TypeInv', OrderInv, [Next]_vars PROVE OrderInv'
  OBVIOUS
<1>0. /\ TypeOK /\ steps \in Seq(Step) /\ pending \in Seq(1..Len(steps))
      /\ sent \in Seq(Call) /\ planned \in Nat /\ Len(steps) \in Nat /\ Len(steps') \in Nat
  BY DEF TypeInv, TypeOK
<1>1. CASE StartLoop
  <2>1. /\ sent' = <<>> /\ steps' = steps /\ planned' = Len(steps)
        /\ pending' = [i \in 1..Len(steps) |-> i]
    BY <1>1 DEF StartLoop
  <2>2. Len(pending') = Len(steps) /\ \A i \in 1..Len(steps) : pending'[i] = i
    BY <1>0, <2>1
  <2>3. PlanOrder'
    BY <2>1 DEF PlanOrder
  <2> QED
    BY <1>0, <2>1, <2>2, <2>3 DEF OrderInv, Active
<1>2. CASE \/ RefuseUnconfirmed \/ Finish \/ StopOnDecision \/ AskUser \/ BudgetStop
           \/ InvalidDecision \/ ConfirmStep \/ UnsupportedStep \/ ToolFails
           \/ ToolRaises \/ User
  <2>1. UNCHANGED <<sent, planned>>
    BY <1>2 DEF RefuseUnconfirmed, Finish, StopOnDecision, AskUser, BudgetStop,
       InvalidDecision, ConfirmStep, UnsupportedStep, Leave, ToolFails, ToolRaises,
       Answered, User, Confirm, Cancel
  <2>2. ~Active'
    BY <1>2 DEF RefuseUnconfirmed, Finish, StopOnDecision, AskUser, BudgetStop,
       InvalidDecision, ConfirmStep, UnsupportedStep, Leave, ToolFails, ToolRaises,
       User, Confirm, Cancel, Awaiting, Active
  <2> QED
    BY <2>1, <2>2 DEF OrderInv, PlanOrder
<1>3. CASE CallTool
  <2>1. PICK d \in Decision :
          /\ Resolves(d)
          /\ steps' = WithStatus(StepsWith(d), StepIndex(d), "running")
          /\ cur'.step = StepIndex(d) /\ sent' = Append(sent, cur')
    BY <1>3 DEF CallTool
  <2>2. /\ pc = "deciding" /\ pc' = "calling" /\ planned' = planned
        /\ IsCall(d) /\ Resolvable(d) /\ pending' = PendingAfter(d)
    BY <1>3, <2>1 DEF CallTool, Resolves
  <2>3. Len(steps') = Len(StepsWith(d))
    BY <1>0, <2>1, <2>2, ResolvedStatus DEF StepStatuses
  <2>4. /\ Len(steps) <= Len(StepsWith(d))
        /\ \/ /\ pending # <<>>
              /\ StepIndex(d) = Head(pending) /\ PendingAfter(d) = Tail(pending)
           \/ /\ pending = <<>> /\ PendingAfter(d) = <<>>
              /\ StepIndex(d) = Len(steps) + 1
    BY <1>0, <2>2, ResolvedSteps
  <2>5. cur' \in Call
    BY <2>2 DEF TypeInv, CallInv
  <2> QED
    BY <1>0, <2>1, <2>2, <2>3, <2>4, <2>5, OrderCall
<1>4. CASE ToolSucceeds
  <2>1. PICK c \in 1..Len(steps) : c = cur.step
    BY <1>4 DEF ToolSucceeds, Answered, TypeInv, CallInv
  <2>2. /\ pc = "calling" /\ UNCHANGED <<pending, sent, planned>>
        /\ steps' = WithStatus(steps, c, "completed")
    BY <1>4, <2>1 DEF ToolSucceeds, Answered
  <2>3. Len(steps') = Len(steps)
    BY <1>0, <2>1, <2>2, StepCompleted
  <2> QED
    BY <2>2, <2>3 DEF OrderInv, Active, PlanOrder
<1>5. CASE SearchMisses
  <2>1. PICK c \in 1..Len(steps) : c = cur.step
    BY <1>5 DEF SearchMisses, Answered, TypeInv, CallInv
  <2>2. /\ pc = "calling" /\ UNCHANGED <<sent, planned>>
        /\ pending' = <<Len(steps) + 1>> \o pending
    BY <1>5 DEF SearchMisses, Answered
  <2>3. PICK e : steps' = Append(WithStatus(steps, c, "completed"), e)
    BY <1>5, <2>1 DEF SearchMisses
  <2>4. Len(steps') = Len(steps) + 1
    BY <1>0, <2>1, <2>3, StepCompleted
  <2>5. /\ Len(pending') = Len(pending) + 1 /\ pending'[1] = Len(steps) + 1
        /\ \A j \in 2..Len(pending') :
             j - 1 \in 1..Len(pending) /\ pending'[j] = pending[j - 1]
    BY <1>0, <2>2
  <2>6. planned <= Len(steps)
    BY <2>2 DEF OrderInv, Active
  <2>7. \A j \in 1..Len(pending') :
          pending'[j] <= planned' =>
            j - 1 \in 1..Len(pending) /\ pending'[j] = pending[j - 1]
    BY <1>0, <2>2, <2>5, <2>6
  <2>8. PlanOrder'
    BY <2>2 DEF OrderInv, PlanOrder
  <2>9. ASSUME NEW i \in 1..Len(pending'), NEW j \in 1..Len(pending'), i < j,
               pending'[i] <= planned', pending'[j] <= planned'
        PROVE  pending'[i] < pending'[j]
    <3>1. /\ i - 1 < j - 1 /\ i - 1 \in 1..Len(pending) /\ j - 1 \in 1..Len(pending)
          /\ pending'[i] = pending[i - 1] /\ pending'[j] = pending[j - 1]
      BY <2>7, <2>9
    <3> QED
      BY <2>2, <2>9, <3>1 DEF OrderInv, Active
  <2>10. ASSUME NEW i \in 1..Len(sent'), NEW j \in 1..Len(pending'),
                sent'[i].step <= planned', pending'[j] <= planned'
         PROVE  sent'[i].step < pending'[j]
    BY <2>2, <2>7, <2>10 DEF OrderInv, Active
  <2> QED
    BY <1>0, <2>2, <2>4, <2>6, <2>8, <2>9, <2>10 DEF OrderInv
<1>6. CASE TimePasses \/ UNCHANGED vars
  BY <1>6 DEF TimePasses, vars, OrderInv, Active, PlanOrder
<1> QED
  BY <1>1, <1>2, <1>3, <1>4, <1>5, <1>6 DEF Next, Execute, Tool

\* For every plan: its steps are called in their order and each at most once, also
\* when retries and follow-up steps are put between them.
THEOREM PlanIsFollowed == Spec => []PlanOrder
<1>1. Init => OrderInv
  BY DEF Init, OrderInv, PlanOrder, Active
<1>2. TypeInv /\ TypeInv' /\ OrderInv /\ [Next]_vars => OrderInv'
  BY OrderNext
<1>3. OrderInv => PlanOrder
  BY DEF OrderInv
<1> QED
  BY <1>1, <1>2, <1>3, TypeCorrect, PTL DEF Spec

=============================================================================
