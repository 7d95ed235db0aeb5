--------------------------- MODULE ApprovalSafety ---------------------------
(***************************************************************************)
(* The safety invariants of Approval.  None is inductive alone: the        *)
(* workflow follows the decision because the worker that resumes it still  *)
(* holds the claim under which it read the verdict, which it holds because *)
(* its Lambda dies before the lease does, which is a fact about ages.      *)
(* IInv below joins what the properties need of one another.               *)
(***************************************************************************)
EXTENDS ApprovalProofs

-----------------------------------------------------------------------------
(* The inductive invariant.                                                *)

\* The columns of a row agree with its status.
RowShape ==
    \A w \in Workflows :
        /\ ~ Decided(row[w]) => /\ row[w].decision = "none" /\ row[w].claim = NoWorker
                                /\ ~ row[w].delivered
        /\ Decided(row[w]) => row[w].decision \in Verdicts
        /\ row[w].decision = "modified" <=> row[w].modified # NoAction
        /\ row[w].delivered => row[w].claim = NoWorker
        /\ row[w].status \in {"execution_succeeded", "execution_failed"}
              => row[w].delivered /\ row[w].decision \in {"approved", "modified"}
        /\ row[w].error # "none" <=> row[w].status = "execution_failed"

\* The creation Lambda starts after the review and commits once.
CreationOrder ==
    \A w \in Workflows :
        /\ wf[w] = "ReviewerAgent" => creation[w] = "off"
        /\ creation[w] \in {"off", "running"} => row[w].status = "absent"

\* A run that holds a claim took it after it began, with the verdict on record.
HolderIsFresh ==
    \A r \in Workers : Holding(r) =>
        /\ OwnsClaim(r, run[r].held)
        /\ row[run[r].held].claimAge <= run[r].age
        /\ run[r].verdict = row[run[r].held].decision
        /\ run[r].pc = "sent" => wf[run[r].held] \in ResumedStates

\* The task polls only while the state machine waits for it.
TaskOrder == \A w \in Workflows : ex[w]["task"].pc = "poll" => wf[w] = "ExecuteApprovedAction"

IInv ==
    /\ TypeOK /\ HeldOK
    /\ RowShape /\ CreationOrder /\ HolderIsFresh /\ TaskOrder
    /\ WorkflowFollowsDecision /\ DeliveryFollowsResume
    /\ ReviewIsAuthorised /\ AuditMatchesRow /\ ExecutedMeansReviewed

-----------------------------------------------------------------------------
(* What a step may do to one approval.                                     *)

\* Nothing but the claim changes, and that only while a callback is due.
KeepsApproval(w) ==
    /\ row'[w].status = row[w].status /\ row'[w].decision = row[w].decision
    /\ row'[w].modified = row[w].modified /\ row'[w].rank = row[w].rank
    /\ row'[w].delivered = row[w].delivered /\ row'[w].error = row[w].error
    /\ row'[w].claim = row[w].claim \/ (row[w].status = "decided" /\ ~ row[w].delivered)
    /\ audit'[w] = audit[w] /\ review'[w] = review[w]

\* The row is written together with its audit event.
Rewrites(w, new) == row'[w] = new /\ audit'[w] = audit[w] \cup AuditEvents(row[w], new)

Creates(w) == /\ creation[w] = "running" /\ creation'[w] = "committed"
              /\ Rewrites(w, [AbsentRow EXCEPT !.status = "pending"])
              /\ review'[w] = review[w]

Decides(w) == /\ CanDecide(w)
              /\ \E d \in Verdicts, a \in Action \cup {NoAction}, n \in Nat :
                    /\ (d = "modified") <=> (a # NoAction)
                    /\ Rewrites(w, [row[w] EXCEPT !.status = "decided", !.decision = d,
                                                  !.modified = a, !.rank = n])
              /\ review'[w] = review[w]

Delivers(w) == /\ \E r \in Workers : run[r].pc = "sent" /\ run[r].held = w /\ OwnsClaim(r, w)
               /\ Rewrites(w, [Unclaimed(row[w]) EXCEPT !.delivered = TRUE])
               /\ review'[w] = review[w]

Executes(w) == /\ row[w].status = "decided" /\ row[w].delivered
               /\ Disposition(w) = "succeeded"
               /\ Rewrites(w, [row[w] EXCEPT !.status = "execution_succeeded"])
               /\ review'[w] = Project(w, row[w])

Fails(w) == /\ row[w].status = "decided" /\ row[w].delivered
            /\ Disposition(w) = "failed"
            /\ Rewrites(w, [row[w] EXCEPT !.status = "execution_failed",
                                          !.error = ValidationError(w, Project(w, row[w]))])
            /\ review'[w] = review[w]

ApprovalStep(w) == KeepsApproval(w) \/ Creates(w) \/ Decides(w) \/ Delivers(w)
                   \/ Executes(w) \/ Fails(w)

\* A write to the row of v leaves every other row alone.
LEMMA WriteRowAt ==
  ASSUME TypeOK, NEW v \in Workflows, NEW new, WriteRow(v, new), NEW w \in Workflows
  PROVE  IF w = v THEN Rewrites(w, new) ELSE row'[w] = row[w] /\ audit'[w] = audit[w]
BY DEF TypeOK, WriteRow, Rewrites

\* A step that leaves the three tables alone at w keeps the approval.
LEMMA UnchangedKeeps ==
  ASSUME NEW w \in Workflows, row'[w] = row[w], audit'[w] = audit[w], review'[w] = review[w]
  PROVE  KeepsApproval(w)
BY DEF KeepsApproval

\* Taking or giving back a claim changes nothing else.
LEMMA ClaimKeeps ==
  ASSUME TypeOK, NEW v \in Workflows, NEW w \in Workflows, NEW c, NEW t,
         row[v].status = "decided", ~ row[v].delivered,
         WriteRow(v, [row[v] EXCEPT !.claim = c, !.claimAge = t]), UNCHANGED review
  PROVE  KeepsApproval(w)
<1> DEFINE new == [row[v] EXCEPT !.claim = c, !.claimAge = t]
<1>1. row[v] \in Row
  BY DEF TypeOK
<1>2. /\ new.status = row[v].status /\ new.decision = row[v].decision
      /\ new.modified = row[v].modified /\ new.rank = row[v].rank
      /\ new.delivered = row[v].delivered /\ new.error = row[v].error
  BY <1>1 DEF Row
<1>3. AuditEvents(row[v], new) = {}
  BY <1>2 DEF AuditEvents
<1>4. CASE w = v
  <2>1. Rewrites(w, new)
    BY <1>4, WriteRowAt
  <2>2. row'[w] = new /\ audit'[w] = audit[w]
    BY <1>3, <1>4, <2>1 DEF Rewrites
  <2> HIDE DEF new
  <2> QED
    BY <1>2, <1>4, <2>2 DEF KeepsApproval
<1>5. CASE w # v
  BY <1>5, WriteRowAt, UnchangedKeeps
<1> QED
  BY <1>4, <1>5

\* Every step does one of six things to an approval.
LEMMA StepOfApproval ==
  ASSUME TypeOK, HeldOK, [Next]_vars, NEW w \in Workflows
  PROVE  ApprovalStep(w)
<1>0. CASE UNCHANGED <<row, audit, review>>
  BY <1>0, UnchangedKeeps DEF ApprovalStep
<1>1. ASSUME NEW v \in Workflows, CreatePending(v)
      PROVE  ApprovalStep(w)
  <2>1. CASE w = v
    BY <1>1, <2>1, WriteRowAt DEF CreatePending, Creates, ApprovalStep, TypeOK
  <2>2. CASE w # v
    BY <1>1, <2>2, WriteRowAt, UnchangedKeeps DEF CreatePending, ApprovalStep
  <2> QED
    BY <2>1, <2>2
<1>2. ASSUME NEW m \in Managers, DecidePending(m)
      PROVE  ApprovalStep(w)
  <2> DEFINE v == mgr[m]
  <2>0. v \in Workflows /\ UNCHANGED review
    BY <1>2 DEF DecidePending, TypeOK
  <2>1. CASE ~ CanDecide(v)
    BY <1>2, <2>0, <2>1, <1>0 DEF DecidePending
  <2>2. CASE CanDecide(v)
    <3>1. PICK d \in Verdicts, a \in Replacements \cup {NoAction} :
            /\ (d = "modified") <=> (a # NoAction)
            /\ WriteRow(v, [row[v] EXCEPT !.status = "decided", !.decision = d,
                                          !.modified = a, !.rank = NextRank])
      BY <1>2, <2>2 DEF DecidePending
    <3>2. CASE w = v
      <4>1. Rewrites(w, [row[w] EXCEPT !.status = "decided", !.decision = d,
                                       !.modified = a, !.rank = NextRank])
        BY <2>0, <3>1, <3>2, WriteRowAt
      <4>2. a \in Action \cup {NoAction} /\ NextRank \in Nat
        BY ActionAssumption, NextRankType
      <4> QED
        BY <2>0, <2>2, <3>1, <3>2, <4>1, <4>2 DEF Decides, ApprovalStep
    <3>3. CASE w # v
      BY <2>0, <3>1, <3>3, WriteRowAt, UnchangedKeeps DEF ApprovalStep
    <3> QED
      BY <3>2, <3>3
  <2> QED
    BY <2>1, <2>2
<1>3. ASSUME NEW r \in Workers, NEW v \in Workflows,
             ClaimDecidedCallback(r, v) \/ ClaimFails(r, v)
      PROVE  ApprovalStep(w)
  <2>1. CASE UNCHANGED <<row, audit>>
    BY <1>3, <2>1, <1>0 DEF ClaimDecidedCallback, ClaimFails
  <2>2. CASE Recoverable(v, run[r].age) /\ WriteRow(v, Claimed(r, v))
    BY <1>3, <2>2, ClaimKeeps
    DEF ClaimDecidedCallback, ClaimFails, Recoverable, Claimed, ApprovalStep
  <2> QED
    BY <1>3, <2>1, <2>2 DEF ClaimDecidedCallback, ClaimFails
<1>4. ASSUME NEW r \in Workers, ReleaseCallbackClaim(r)
      PROVE  ApprovalStep(w)
  <2> DEFINE v == run[r].held
  <2>1. v \in Workflows
    BY <1>4 DEF HeldOK, Holding, ReleaseCallbackClaim
  <2>2. CASE OwnsClaim(r, v)
    BY <1>4, <2>1, <2>2, ClaimKeeps DEF ReleaseCallbackClaim, OwnsClaim, Unclaimed, ApprovalStep
  <2>3. CASE ~ OwnsClaim(r, v)
    BY <1>4, <2>3, <1>0 DEF ReleaseCallbackClaim
  <2> QED
    BY <2>2, <2>3
<1>5. ASSUME NEW r \in Workers, MarkCallbackDelivered(r)
      PROVE  ApprovalStep(w)
  <2> DEFINE v == run[r].held
  <2>1. v \in Workflows /\ UNCHANGED review
    BY <1>5 DEF HeldOK, Holding, MarkCallbackDelivered
  <2>2. CASE OwnsClaim(r, v)
    <3>1. WriteRow(v, [Unclaimed(row[v]) EXCEPT !.delivered = TRUE])
      BY <1>5, <2>2 DEF MarkCallbackDelivered
    <3>2. CASE w = v
      BY <1>5, <2>1, <2>2, <3>1, <3>2, WriteRowAt DEF MarkCallbackDelivered, Delivers, ApprovalStep
    <3>3. CASE w # v
      BY <2>1, <3>1, <3>3, WriteRowAt, UnchangedKeeps DEF ApprovalStep
    <3> QED
      BY <3>2, <3>3
  <2>3. CASE ~ OwnsClaim(r, v)
    BY <1>5, <2>3, <1>0 DEF MarkCallbackDelivered
  <2> QED
    BY <2>2, <2>3
<1>6. ASSUME NEW v \in Workflows, NEW k \in Invocations, Ready(v, k), ExecutionTx(v)
      PROVE  ApprovalStep(w)
  <2> DEFINE action == Project(v, row[v])
  <2>1. CASE UNCHANGED <<row, review, audit>>
    BY <1>0, <2>1
  <2>2. CASE /\ row[v].status = "decided" /\ Disposition(v) = "failed"
             /\ WriteRow(v, [row[v] EXCEPT !.status = "execution_failed",
                                           !.error = ValidationError(v, action)])
             /\ UNCHANGED review
    <3>1. CASE w = v
      BY <1>6, <2>2, <3>1, WriteRowAt DEF Ready, Fails, ApprovalStep
    <3>2. CASE w # v
      BY <2>2, <3>2, WriteRowAt, UnchangedKeeps DEF ApprovalStep
    <3> QED
      BY <3>1, <3>2
  <2>3. CASE /\ row[v].status = "decided" /\ Disposition(v) = "succeeded"
             /\ WriteRow(v, [row[v] EXCEPT !.status = "execution_succeeded"])
             /\ review' = [review EXCEPT ![v] = action]
    <3>1. CASE w = v
      BY <1>6, <2>3, <3>1, WriteRowAt DEF Ready, Executes, ApprovalStep, TypeOK
    <3>2. CASE w # v
      BY <2>3, <3>2, WriteRowAt, UnchangedKeeps DEF ApprovalStep, TypeOK
    <3> QED
      BY <3>1, <3>2
  <2> QED
    BY <1>6, <2>1, <2>2, <2>3 DEF ExecutionTx
<1>7. CASE Tick
  <2>1. row[w] \in Row
    BY DEF TypeOK
  <2>2. KeepsApproval(w)
    BY <1>7, <2>1 DEF Tick, KeepsApproval, Row
  <2> QED
    BY <2>2 DEF ApprovalStep
<1>8. ASSUME NEW v \in Workflows, NEW k \in Invocations,
             ExecutorStep(v, k) \/ ExecutionFails(v, k)
      PROVE  ApprovalStep(w)
  <2>1. CASE UNCHANGED <<row, review, audit>>
    BY <1>0, <2>1
  <2>2. CASE Ready(v, k) /\ ExecutionTx(v)
    BY <1>6, <2>2
  <2> QED
    BY <1>8, <2>1, <2>2
    DEF ExecutorStep, FindsNoDecision, PollsUndelivered, ExecuteForWorkflow, ExecutionFails
<1>9. CASE UNCHANGED vars
  BY <1>0, <1>9 DEF vars
<1>10. ASSUME NEW r \in Workers,
              StartRun(r) \/ ListRecoverable(r) \/ SendDecision(r) \/ FinishRun(r)
              \/ SendFails(r) \/ BookkeepingFails(r) \/ RunDies(r)
       PROVE  UNCHANGED <<row, audit, review>>
  BY <1>10 DEF StartRun, ListRecoverable, SendDecision, FinishRun, SendFails, BookkeepingFails,
               RunDies
<1>11. ASSUME NEW v \in Workflows,
              \/ ReviewerDecision(v) \/ CreationReturns(v) \/ CreationFails(v)
              \/ WorkflowTimesOut(v) \/ (\E m \in Managers : ReadPending(m, v))
              \/ (\E k \in Invocations : Replay(v, k))
       PROVE  UNCHANGED <<row, audit, review>>
  BY <1>11 DEF ReviewerDecision, CreationReturns, CreationFails, WorkflowTimesOut, ReadPending,
               Replay
<1> QED
  BY <1>0, <1>1, <1>2, <1>3, <1>4, <1>5, <1>7, <1>8, <1>9, <1>10, <1>11
  DEF Next, WorkflowStep, WorkerStep, FaultStep

-----------------------------------------------------------------------------
(* What a step may do to one workflow.                                     *)

\* The state machine stays, and so does its task.
KeepsState(w) == wf'[w] = wf[w] /\ ex'[w]["task"].pc = ex[w]["task"].pc

Reviews(w) == /\ wf[w] = "ReviewerAgent"
              /\ wf'[w] \in {"WaitForManagerApproval", "ReviewerFailed", "AgentExecutionFailed"}
              /\ ex' = ex

GivesUp(w) == /\ TokenLive(w)
              /\ wf'[w] \in {"ApprovalWaitFailed", "TimedOut"}
              /\ ex' = ex

Resumes(w) == /\ TokenLive(w)
              /\ \E r \in Workers :
                    /\ run[r].pc = "claimed" /\ run[r].held = w
                    /\ IF run[r].verdict = "rejected"
                       THEN wf'[w] = "WorkflowRejected" /\ ex' = ex
                       ELSE wf'[w] = "ExecuteApprovedAction"

EndsTask(w) == /\ ex[w]["task"].pc = "poll"
               /\ ex'[w]["task"].pc = "done"
               /\ wf'[w] \in {"WorkflowExecuted", "ApprovedActionExecutionFailed"}
               /\ wf'[w] = "WorkflowExecuted" =>
                    Ready(w, "task") /\ ExecutionTx(w) /\ Disposition(w) # "failed"

StateStep(w) == KeepsState(w) \/ Reviews(w) \/ GivesUp(w) \/ Resumes(w) \/ EndsTask(w)

\* The end of an invocation ends its workflow's task or touches no workflow.
LEMMA EndsAt ==
  ASSUME TypeOK, NEW v \in Workflows, NEW k \in Invocations, NEW ok \in BOOLEAN,
         Ends(v, k, ok), ex[v][k].pc = "poll", NEW w \in Workflows
  PROVE  \/ KeepsState(w)
         \/ /\ w = v /\ k = "task" /\ ex'[w]["task"].pc = "done"
            /\ wf'[w] = IF ok THEN "WorkflowExecuted" ELSE "ApprovedActionExecutionFailed"
<1>1. "task" \in Invocations /\ ex[v] \in [Invocations -> Invocation] /\ ex[v][k] \in Invocation
  BY DEF TypeOK, Invocations
<1>2. ex' = [ex EXCEPT ![v] = [ex[v] EXCEPT ![k] = [ex[v][k] EXCEPT !.pc = "done"]]]
  BY DEF Ends, SetInvocation
<1>3. CASE w # v
  BY <1>2, <1>3 DEF Ends, TypeOK, KeepsState
<1>4. CASE w = v /\ k # "task"
  <2>1. ex'[w]["task"] = ex[w]["task"]
    BY <1>1, <1>2, <1>4 DEF TypeOK
  <2>2. wf'[w] = wf[w]
    BY <1>4 DEF Ends, TypeOK
  <2> QED
    BY <2>1, <2>2 DEF KeepsState
<1>5. CASE w = v /\ k = "task"
  <2>1. ex'[w]["task"] = [ex[w]["task"] EXCEPT !.pc = "done"]
    BY <1>1, <1>2, <1>5 DEF TypeOK
  <2>2. ex'[w]["task"].pc = "done"
    BY <1>1, <1>5, <2>1 DEF Invocation
  <2>3. wf'[w] = IF ok THEN "WorkflowExecuted" ELSE "ApprovedActionExecutionFailed"
    BY <1>5 DEF Ends, TypeOK
  <2> QED
    BY <1>5, <2>2, <2>3
<1> QED
  BY <1>3, <1>4, <1>5

\* Every step does one of five things to a workflow.
LEMMA StepOfWorkflow ==
  ASSUME TypeOK, HeldOK, [Next]_vars, NEW w \in Workflows
  PROVE  StateStep(w)
<1>0. CASE UNCHANGED <<wf, ex>>
  BY <1>0 DEF KeepsState, StateStep
<1>1. ASSUME NEW v \in Workflows, ReviewerDecision(v)
      PROVE  StateStep(w)
  <2>1. CASE w = v
    BY <1>1, <2>1 DEF ReviewerDecision, Reviews, StateStep, TypeOK
  <2>2. CASE w # v
    BY <1>1, <2>2 DEF ReviewerDecision, KeepsState, StateStep, TypeOK
  <2> QED
    BY <2>1, <2>2
<1>2. ASSUME NEW v \in Workflows, CreationFails(v) \/ WorkflowTimesOut(v)
      PROVE  StateStep(w)
  <2>1. CASE w = v /\ TokenLive(v)
    BY <1>2, <2>1 DEF CreationFails, WorkflowTimesOut, GivesUp, StateStep, TypeOK
  <2>2. CASE ~ (w = v /\ TokenLive(v))
    BY <1>2, <2>2 DEF CreationFails, WorkflowTimesOut, KeepsState, StateStep, TypeOK
  <2> QED
    BY <2>1, <2>2
<1>3. ASSUME NEW r \in Workers, SendDecision(r) \/ SendFails(r)
      PROVE  StateStep(w)
  <2> DEFINE v == run[r].held
  <2>1. v \in Workflows /\ run[r].pc = "claimed"
    BY <1>3 DEF HeldOK, Holding, SendDecision, SendFails
  <2>2. CASE TokenLive(v) /\ Resume(v, run[r].verdict)
    <3>1. CASE w = v
      BY <2>1, <2>2, <3>1 DEF Resume, Resumes, StateStep, TypeOK
    <3>2. CASE w # v
      BY <2>1, <2>2, <3>2 DEF Resume, SetInvocation, KeepsState, StateStep, TypeOK
    <3> QED
      BY <3>1, <3>2
  <2> QED
    BY <1>0, <1>3, <2>2 DEF SendDecision, SendFails
<1>4. ASSUME NEW v \in Workflows, NEW k \in Invocations, Replay(v, k)
      PROVE  StateStep(w)
  <2>1. ex'[w]["task"] = ex[w]["task"] /\ wf' = wf
    BY <1>4 DEF Replay, SetInvocation, TypeOK, Invocations
  <2> QED
    BY <2>1 DEF KeepsState, StateStep
<1>5. ASSUME NEW v \in Workflows, NEW k \in Invocations, FindsNoDecision(v, k)
      PROVE  StateStep(w)
  BY <1>5, EndsAt DEF FindsNoDecision, EndsTask, StateStep
<1>6. ASSUME NEW v \in Workflows, NEW k \in Invocations, PollsUndelivered(v, k)
      PROVE  StateStep(w)
  <2>1. CASE PollsAgain(ex[v][k])
    <3>1. ex[v][k] \in Invocation /\ ex[v] \in [Invocations -> Invocation]
      BY DEF TypeOK
    <3>2. [ex[v][k] EXCEPT !.polls = @ + 1].pc = ex[v][k].pc
      BY <3>1 DEF Invocation
    <3>3. wf' = wf
      BY <1>6, <2>1 DEF PollsUndelivered
    <3>4. PICK i : ex' = [ex EXCEPT ![v] = [ex[v] EXCEPT ![k] = i]] /\ i.pc = ex[v][k].pc
      BY <1>6, <2>1, <3>2 DEF PollsUndelivered, SetInvocation
    <3>5. ex'[w]["task"].pc = ex[w]["task"].pc
      BY <3>1, <3>4 DEF TypeOK, Invocations
    <3> QED
      BY <3>3, <3>5 DEF KeepsState, StateStep
  <2>2. CASE ~ PollsAgain(ex[v][k])
    BY <1>6, <2>2, EndsAt DEF PollsUndelivered, EndsTask, StateStep
  <2> QED
    BY <2>1, <2>2
<1>7. ASSUME NEW v \in Workflows, NEW k \in Invocations,
             ExecuteForWorkflow(v, k) \/ ExecutionFails(v, k)
      PROVE  StateStep(w)
  <2>1. CASE ExecutionFails(v, k)
    BY <2>1, EndsAt DEF ExecutionFails, EndsTask, StateStep
  <2>2. CASE ExecuteForWorkflow(v, k)
    <3>1. HandlerReturns(Disposition(v)) \in BOOLEAN /\ ex[v][k].pc = "poll"
      BY <2>2 DEF HandlerReturns, ExecuteForWorkflow, Ready
    <3>2. Ends(v, k, HandlerReturns(Disposition(v))) /\ Ready(v, k) /\ ExecutionTx(v)
      BY <2>2 DEF ExecuteForWorkflow
    <3>3. \/ KeepsState(w)
          \/ /\ w = v /\ k = "task" /\ ex'[w]["task"].pc = "done"
             /\ wf'[w] = IF HandlerReturns(Disposition(v))
                         THEN "WorkflowExecuted" ELSE "ApprovedActionExecutionFailed"
      BY <3>1, <3>2, EndsAt
    <3> QED
      BY <3>1, <3>2, <3>3 DEF HandlerReturns, EndsTask, StateStep
  <2> QED
    BY <1>7, <2>1, <2>2
<1>8. ASSUME NEW v \in Workflows,
             CreatePending(v) \/ CreationReturns(v) \/ (\E m \in Managers : ReadPending(m, v))
      PROVE  UNCHANGED <<wf, ex>>
  BY <1>8 DEF CreatePending, CreationReturns, ReadPending
<1>9. ASSUME NEW m \in Managers, DecidePending(m)
      PROVE  UNCHANGED <<wf, ex>>
  BY <1>9 DEF DecidePending
<1>10. ASSUME NEW r \in Workers,
              \/ StartRun(r) \/ ListRecoverable(r) \/ ReleaseCallbackClaim(r)
              \/ MarkCallbackDelivered(r) \/ FinishRun(r) \/ BookkeepingFails(r) \/ RunDies(r)
              \/ (\E v \in Workflows : ClaimDecidedCallback(r, v) \/ ClaimFails(r, v))
       PROVE  UNCHANGED <<wf, ex>>
  BY <1>10 DEF StartRun, ListRecoverable, ReleaseCallbackClaim, MarkCallbackDelivered, FinishRun,
               BookkeepingFails, RunDies, ClaimDecidedCallback, ClaimFails
<1>11. CASE Tick \/ UNCHANGED vars
  BY <1>0, <1>11 DEF Tick, vars
<1> QED
  BY <1>0, <1>1, <1>2, <1>3, <1>4, <1>5, <1>6, <1>7, <1>8, <1>9, <1>10, <1>11
  DEF Next, WorkflowStep, WorkerStep, ExecutorStep, FaultStep

-----------------------------------------------------------------------------
(* The invariant is inductive.                                             *)

\* What the executor would perform, when it would succeed or fail.
LEMMA DispositionFacts ==
  ASSUME IInv, NEW w \in Workflows, row[w].status = "decided", row[w].delivered
  PROVE  /\ Disposition(w) \in {"succeeded", "failed"}
              => row[w].decision \in {"approved", "modified"}
         /\ Disposition(w) = "failed" => ValidationError(w, Project(w, row[w])) # "none"
         /\ Disposition(w) = "succeeded" =>
              /\ Project(w, row[w]) = EffectiveAction(w, row[w])
              /\ Project(w, row[w]) # NoAction
              /\ Allowed(w, Project(w, row[w]))
         /\ Disposition(w) = "skipped" => row[w].decision = "rejected"
<1>1. row[w] \in Row /\ Decided(row[w]) /\ row[w].decision \in Verdicts
  BY DEF IInv, TypeOK, RowShape, Decided
<1>2. row[w].decision = "modified" => row[w].modified # NoAction
  BY DEF IInv, RowShape
<1>3. ProposedAction(w) # NoAction
  <2>1. ProposedAction(w) \in Action
    BY DEF ProposedAction, Action
  <2> QED
    BY <2>1, NullAssumption
<1>4. row[w].decision = "rejected" => Disposition(w) = "skipped"
  BY <1>1 DEF Disposition, Project
<1>5. row[w].decision # "rejected" =>
        Project(w, row[w]) = EffectiveAction(w, row[w]) /\ Project(w, row[w]) # NoAction
  BY <1>1, <1>2, <1>3 DEF Project, EffectiveAction, Verdicts
<1>6. Disposition(w) = "succeeded" => ValidationError(w, Project(w, row[w])) = "none"
  BY DEF Disposition
<1>7. Disposition(w) = "failed" => ValidationError(w, Project(w, row[w])) # "none"
  BY <1>1 DEF Disposition
<1>8. ValidationError(w, Project(w, row[w])) = "none" /\ Project(w, row[w]) # NoAction
        => Allowed(w, Project(w, row[w]))
  BY DEF ValidationError, Allowed
<1>9. Disposition(w) = "skipped" => Project(w, row[w]) = NoAction
  BY DEF Disposition
<1> QED
  BY <1>1, <1>4, <1>5, <1>6, <1>7, <1>8, <1>9 DEF Verdicts

\* The row, the review and the audit trail of one approval stay in step.
LEMMA ApprovalInvariants ==
  ASSUME IInv, [Next]_vars
  PROVE  RowShape' /\ ReviewIsAuthorised' /\ AuditMatchesRow'
<1> DEFINE Shape(rw) ==
        /\ ~ Decided(rw) => rw.decision = "none" /\ rw.claim = NoWorker /\ ~ rw.delivered
        /\ Decided(rw) => rw.decision \in Verdicts
        /\ rw.decision = "modified" <=> rw.modified # NoAction
        /\ rw.delivered => rw.claim = NoWorker
        /\ rw.status \in {"execution_succeeded", "execution_failed"}
              => rw.delivered /\ rw.decision \in {"approved", "modified"}
        /\ rw.error # "none" <=> rw.status = "execution_failed"
    Authorised(w, rv, rw) ==
        /\ rv # NoAction <=> rw.status = "execution_succeeded"
        /\ rv # NoAction => /\ rw.delivered
                           /\ rw.decision \in {"approved", "modified"}
                           /\ rv = EffectiveAction(w, rw)
                           /\ Allowed(w, rv)
    Trail(rw) ==
           {e \in {"approval_created"} : rw.status # "absent"}
      \cup {e \in {"approval_decided"} : rw.decision # "none"}
      \cup {e \in {"callback_delivered"} : rw.delivered}
      \cup ({rw.status} \cap {"execution_succeeded", "execution_failed"})
<1> SUFFICES ASSUME NEW w \in Workflows
             PROVE  Shape(row'[w]) /\ Authorised(w, review'[w], row'[w]) /\ audit'[w] = Trail(row'[w])
  BY DEF RowShape, ReviewIsAuthorised, AuditMatchesRow
<1>1. row[w] \in Row /\ Shape(row[w]) /\ Authorised(w, review[w], row[w]) /\ audit[w] = Trail(row[w])
  BY DEF IInv, TypeOK, RowShape, ReviewIsAuthorised, AuditMatchesRow
<1>2. ApprovalStep(w)
  BY StepOfApproval DEF IInv
<1>3. CASE KeepsApproval(w)
  <2>1. row[w].status = "decided" => Decided(row[w])
    BY DEF Decided
  <2>2. Shape(row'[w])
    BY <1>1, <1>3, <2>1 DEF KeepsApproval, Decided
  <2>3. Authorised(w, review'[w], row'[w])
    BY <1>1, <1>3 DEF KeepsApproval, EffectiveAction
  <2>4. audit'[w] = Trail(row'[w])
    BY <1>1, <1>3 DEF KeepsApproval
  <2> QED
    BY <2>2, <2>3, <2>4
<1>4. CASE Creates(w)
  <2>1. row[w].status = "absent"
    BY <1>4 DEF Creates, IInv, CreationOrder
  <2>2. /\ row'[w] = [AbsentRow EXCEPT !.status = "pending"]
        /\ audit'[w] = audit[w] \cup AuditEvents(row[w], row'[w])
        /\ review'[w] = review[w]
    BY <1>4 DEF Creates, Rewrites
  <2>3. /\ row'[w].status = "pending" /\ row'[w].decision = "none" /\ row'[w].claim = NoWorker
        /\ row'[w].delivered = FALSE /\ row'[w].error = "none" /\ row'[w].modified = NoAction
    BY <2>2 DEF AbsentRow
  <2>4. row[w].decision = "none" /\ ~ row[w].delivered
    BY <1>1, <2>1 DEF Decided
  <2>5. Shape(row'[w]) /\ Authorised(w, review'[w], row'[w])
    BY <1>1, <2>1, <2>2, <2>3 DEF Decided
  <2>6. audit'[w] = Trail(row'[w])
    BY <1>1, <2>1, <2>2, <2>3, <2>4 DEF AuditEvents
  <2> QED
    BY <2>5, <2>6
<1>5. CASE Decides(w)
  <2>1. PICK d \in Verdicts, a \in Action \cup {NoAction}, n \in Nat :
          /\ (d = "modified") <=> (a # NoAction)
          /\ row'[w] = [row[w] EXCEPT !.status = "decided", !.decision = d,
                                      !.modified = a, !.rank = n]
          /\ audit'[w] = audit[w] \cup AuditEvents(row[w], row'[w])
    BY <1>5 DEF Decides, Rewrites
  <2>2. /\ row'[w].status = "decided" /\ row'[w].decision = d /\ row'[w].modified = a
        /\ row'[w].claim = row[w].claim /\ row'[w].delivered = row[w].delivered
        /\ row'[w].error = row[w].error
    BY <1>1, <2>1 DEF Row
  <2>3. /\ row[w].status = "pending" /\ row[w].decision = "none" /\ review'[w] = review[w]
        /\ row[w].claim = NoWorker /\ ~ row[w].delivered /\ row[w].error = "none"
    BY <1>1, <1>5 DEF Decides, CanDecide, Decided
  <2>4. Shape(row'[w]) /\ Authorised(w, review'[w], row'[w])
    BY <1>1, <2>1, <2>2, <2>3 DEF Decided
  <2>5. audit'[w] = Trail(row'[w])
    BY <1>1, <2>1, <2>2, <2>3 DEF AuditEvents, Verdicts
  <2> QED
    BY <2>4, <2>5
<1>6. CASE Delivers(w)
  <2>1. /\ row'[w] = [Unclaimed(row[w]) EXCEPT !.delivered = TRUE]
        /\ audit'[w] = audit[w] \cup AuditEvents(row[w], row'[w])
        /\ review'[w] = review[w] /\ row[w].status = "decided" /\ ~ row[w].delivered
    BY <1>6 DEF Delivers, Rewrites, OwnsClaim
  <2>2. /\ row'[w].status = row[w].status /\ row'[w].decision = row[w].decision
        /\ row'[w].modified = row[w].modified /\ row'[w].claim = NoWorker
        /\ row'[w].delivered = TRUE /\ row'[w].error = row[w].error
    BY <1>1, <2>1 DEF Row, Unclaimed
  <2>3. Shape(row'[w]) /\ Authorised(w, review'[w], row'[w])
    BY <1>1, <2>1, <2>2 DEF Decided
  <2>4. audit'[w] = Trail(row'[w])
    BY <1>1, <2>1, <2>2 DEF AuditEvents
  <2> QED
    BY <2>3, <2>4
<1>7. CASE Executes(w)
  <2>1. /\ row'[w] = [row[w] EXCEPT !.status = "execution_succeeded"]
        /\ audit'[w] = audit[w] \cup AuditEvents(row[w], row'[w])
        /\ review'[w] = Project(w, row[w]) /\ row[w].status = "decided" /\ row[w].delivered
        /\ Disposition(w) = "succeeded"
    BY <1>7 DEF Executes, Rewrites
  <2>2. /\ row'[w].status = "execution_succeeded" /\ row'[w].decision = row[w].decision
        /\ row'[w].modified = row[w].modified /\ row'[w].claim = row[w].claim
        /\ row'[w].delivered = row[w].delivered /\ row'[w].error = row[w].error
    BY <1>1, <2>1 DEF Row
  <2>3. /\ row[w].decision \in {"approved", "modified"}
        /\ Project(w, row[w]) = EffectiveAction(w, row[w])
        /\ Project(w, row[w]) # NoAction
        /\ Allowed(w, Project(w, row[w]))
    BY <2>1, DispositionFacts
  <2>4. EffectiveAction(w, row'[w]) = EffectiveAction(w, row[w])
    BY <2>2 DEF EffectiveAction
  <2>5. Shape(row'[w]) /\ Authorised(w, review'[w], row'[w])
    BY <1>1, <2>1, <2>2, <2>3, <2>4 DEF Decided
  <2>6. audit'[w] = Trail(row'[w])
    BY <1>1, <2>1, <2>2 DEF AuditEvents
  <2> QED
    BY <2>5, <2>6
<1>8. CASE Fails(w)
  <2> DEFINE err == ValidationError(w, Project(w, row[w]))
  <2>1. /\ row'[w] = [row[w] EXCEPT !.status = "execution_failed", !.error = err]
        /\ audit'[w] = audit[w] \cup AuditEvents(row[w], row'[w])
        /\ review'[w] = review[w] /\ row[w].status = "decided" /\ row[w].delivered
        /\ Disposition(w) = "failed"
    BY <1>8 DEF Fails, Rewrites
  <2>2. /\ row'[w].status = "execution_failed" /\ row'[w].decision = row[w].decision
        /\ row'[w].modified = row[w].modified /\ row'[w].claim = row[w].claim
        /\ row'[w].delivered = row[w].delivered /\ row'[w].error = err
    BY <1>1, <2>1 DEF Row
  <2>3. row[w].decision \in {"approved", "modified"} /\ err # "none"
    BY <2>1, DispositionFacts
  <2> HIDE DEF err
  <2>4. Shape(row'[w]) /\ Authorised(w, review'[w], row'[w])
    BY <1>1, <2>1, <2>2, <2>3 DEF Decided
  <2>5. audit'[w] = Trail(row'[w])
    BY <1>1, <2>1, <2>2 DEF AuditEvents
  <2> QED
    BY <2>4, <2>5
<1> QED
  BY <1>2, <1>3, <1>4, <1>5, <1>6, <1>7, <1>8 DEF ApprovalStep

\* The creation Lambda of one workflow.
LEMMA CreationInvariant ==
  ASSUME IInv, [Next]_vars
  PROVE  CreationOrder'
<1> SUFFICES ASSUME NEW w \in Workflows
             PROVE  /\ wf'[w] = "ReviewerAgent" => creation'[w] = "off"
                    /\ creation'[w] \in {"off", "running"} => row'[w].status = "absent"
  BY DEF CreationOrder
<1>1. /\ wf[w] = "ReviewerAgent" => creation[w] = "off"
      /\ creation[w] \in {"off", "running"} => row[w].status = "absent"
  BY DEF IInv, CreationOrder
<1>2. \/ creation'[w] = creation[w]
      \/ wf[w] = "ReviewerAgent" /\ wf'[w] # "ReviewerAgent"
      \/ creation[w] \in {"running", "committed"} /\ creation'[w] \in {"committed", "done"}
  <2>0. TypeOK
    BY DEF IInv
  <2>1. ASSUME NEW v \in Workflows, ReviewerDecision(v)
        PROVE  \/ creation'[w] = creation[w]
               \/ wf[w] = "ReviewerAgent" /\ wf'[w] # "ReviewerAgent"
    BY <2>0, <2>1 DEF ReviewerDecision, TypeOK
  <2>2. ASSUME NEW v \in Workflows, CreatePending(v) \/ CreationReturns(v) \/ CreationFails(v)
        PROVE  \/ creation'[w] = creation[w]
               \/ creation[w] \in {"running", "committed"} /\ creation'[w] \in {"committed", "done"}
    BY <2>0, <2>2 DEF CreatePending, CreationReturns, CreationFails, TypeOK
  <2>3. ASSUME NEW v \in Workflows,
               \/ WorkflowTimesOut(v) \/ (\E m \in Managers : ReadPending(m, v))
               \/ (\E k \in Invocations : Replay(v, k) \/ ExecutorStep(v, k) \/ ExecutionFails(v, k))
        PROVE  UNCHANGED creation
    BY <2>3 DEF WorkflowTimesOut, ReadPending, Replay, ExecutorStep, FindsNoDecision,
                PollsUndelivered, ExecuteForWorkflow, ExecutionFails
  <2>4. ASSUME NEW r \in Workers,
               \/ StartRun(r) \/ WorkerStep(r) \/ SendFails(r) \/ BookkeepingFails(r) \/ RunDies(r)
               \/ (\E v \in Workflows : ClaimFails(r, v))
        PROVE  UNCHANGED creation
    BY <2>4 DEF StartRun, WorkerStep, ListRecoverable, ClaimDecidedCallback, SendDecision,
                ReleaseCallbackClaim, MarkCallbackDelivered, FinishRun, SendFails,
                BookkeepingFails, RunDies, ClaimFails
  <2>5. ASSUME NEW m \in Managers, DecidePending(m)
        PROVE  UNCHANGED creation
    BY <2>5 DEF DecidePending
  <2>6. CASE Tick \/ UNCHANGED vars
    BY <2>6 DEF Tick, vars
  <2> QED
    BY <2>1, <2>2, <2>3, <2>4, <2>5, <2>6 DEF Next, WorkflowStep, FaultStep
<1>3. creation'[w] \in {"off", "running"} => row'[w].status = "absent"
  <2>1. CASE creation'[w] \in {"off", "running"}
    <3>1. row[w].status = "absent"
      BY <1>1, <1>2, <2>1
    <3>2. ApprovalStep(w)
      BY StepOfApproval DEF IInv
    <3>3. KeepsApproval(w)
      BY <2>1, <3>1, <3>2
      DEF ApprovalStep, Creates, Decides, CanDecide, Delivers, OwnsClaim, Executes, Fails
    <3> QED
      BY <3>1, <3>3 DEF KeepsApproval
  <2> QED
    BY <2>1
<1>4. wf'[w] = "ReviewerAgent" => creation'[w] = "off"
  <2>1. wf'[w] = "ReviewerAgent" => wf[w] = "ReviewerAgent"
    BY StepOfWorkflow DEF IInv, StateStep, KeepsState, Reviews, GivesUp, Resumes, EndsTask
  <2> QED
    BY <1>1, <1>2, <2>1
<1> QED
  BY <1>3, <1>4

\* The decision on record never changes once there is one.
LEMMA DecisionStays ==
  ASSUME IInv, [Next]_vars, NEW w \in Workflows, row[w].decision # "none"
  PROVE  /\ row'[w].decision = row[w].decision /\ row'[w].modified = row[w].modified
         /\ row[w].delivered => row'[w].delivered
<1>1. row[w] \in Row /\ Decided(row[w])
  BY DEF IInv, TypeOK, RowShape
<1>2. ApprovalStep(w)
  BY StepOfApproval DEF IInv
<1>3. ~ Creates(w) /\ ~ Decides(w)
  BY <1>1 DEF IInv, CreationOrder, Creates, Decides, CanDecide, Decided
<1>4. CASE KeepsApproval(w)
  BY <1>4 DEF KeepsApproval
<1>5. CASE Delivers(w) \/ Executes(w) \/ Fails(w)
  BY <1>1, <1>5 DEF Delivers, Executes, Fails, Rewrites, Unclaimed, Row
<1> QED
  BY <1>2, <1>3, <1>4, <1>5 DEF ApprovalStep

\* A resumed workflow stays resumed, on the branch its verdict took.
LEMMA WorkflowInvariants ==
  ASSUME IInv, [Next]_vars
  PROVE  WorkflowFollowsDecision' /\ TaskOrder' /\ ExecutedMeansReviewed' /\ DeliveryFollowsResume'
<1> SUFFICES ASSUME NEW w \in Workflows
             PROVE  /\ wf'[w] = "WorkflowRejected" => row'[w].decision = "rejected"
                    /\ wf'[w] \in ResumedStates \ {"WorkflowRejected"}
                         => row'[w].decision \in {"approved", "modified"}
                    /\ ex'[w]["task"].pc = "poll" => wf'[w] = "ExecuteApprovedAction"
                    /\ wf'[w] = "WorkflowExecuted" => review'[w] # NoAction
                    /\ row'[w].delivered => wf'[w] \in ResumedStates
  BY DEF WorkflowFollowsDecision, TaskOrder, ExecutedMeansReviewed, DeliveryFollowsResume
<1>1. /\ row[w] \in Row
      /\ wf[w] = "WorkflowRejected" => row[w].decision = "rejected"
      /\ wf[w] \in ResumedStates \ {"WorkflowRejected"} => row[w].decision \in {"approved", "modified"}
      /\ ex[w]["task"].pc = "poll" => wf[w] = "ExecuteApprovedAction"
      /\ wf[w] = "WorkflowExecuted" => review[w] # NoAction
      /\ row[w].delivered => wf[w] \in ResumedStates
      /\ review[w] # NoAction <=> row[w].status = "execution_succeeded"
  BY DEF IInv, TypeOK, WorkflowFollowsDecision, TaskOrder, ExecutedMeansReviewed,
         DeliveryFollowsResume, ReviewIsAuthorised
<1>2. StateStep(w) /\ ApprovalStep(w)
  BY StepOfWorkflow, StepOfApproval DEF IInv
<1>3. row[w].decision # "none" => row'[w].decision = row[w].decision
  BY DecisionStays
<1>4. review[w] # NoAction => review'[w] = review[w]
  BY <1>1, <1>2 DEF IInv, CreationOrder, ApprovalStep, KeepsApproval, Creates, Decides, CanDecide,
                    Delivers, Executes, Fails
<1>5. row'[w].delivered => wf[w] \in ResumedStates
  <2>1. CASE Delivers(w)
    BY <2>1 DEF Delivers, IInv, HolderIsFresh, Holding
  <2>2. CASE ~ Delivers(w)
    <3>1. row'[w].delivered => row[w].delivered
      BY <1>1, <1>2, <2>2 DEF ApprovalStep, KeepsApproval, Creates, Decides, Executes, Fails,
                              Rewrites, AbsentRow, Row
    <3> QED
      BY <1>1, <3>1
  <2> QED
    BY <2>1, <2>2
<1>6. CASE KeepsState(w)
  BY <1>1, <1>3, <1>4, <1>5, <1>6 DEF KeepsState, ResumedStates
<1>7. CASE Reviews(w) \/ GivesUp(w)
  BY <1>1, <1>5, <1>7 DEF Reviews, GivesUp, TokenLive, ResumedStates
<1>8. CASE Resumes(w)
  <2>1. PICK r \in Workers : /\ run[r].pc = "claimed" /\ run[r].held = w
                             /\ IF run[r].verdict = "rejected"
                                THEN wf'[w] = "WorkflowRejected" /\ ex' = ex
                                ELSE wf'[w] = "ExecuteApprovedAction"
    BY <1>8 DEF Resumes
  <2>2. run[r].verdict = row[w].decision /\ row[w].status = "decided"
    BY <2>1 DEF IInv, HolderIsFresh, Holding, OwnsClaim
  <2>3. row[w].decision \in Verdicts
    BY <2>2 DEF IInv, RowShape, Decided
  <2>4. row'[w].decision = row[w].decision
    BY <1>3, <2>3 DEF Verdicts
  <2> QED
    BY <1>1, <1>8, <2>1, <2>2, <2>3, <2>4 DEF Resumes, TokenLive, ResumedStates, Verdicts
<1>9. CASE EndsTask(w)
  <2>1. wf[w] = "ExecuteApprovedAction" /\ row[w].decision \in {"approved", "modified"}
    BY <1>1, <1>9 DEF EndsTask, ResumedStates
  <2>2. ASSUME wf'[w] = "WorkflowExecuted"
        PROVE  review'[w] # NoAction
    <3>1. Ready(w, "task") /\ ExecutionTx(w) /\ Disposition(w) # "failed"
      BY <1>9, <2>2 DEF EndsTask
    <3>2. CASE row[w].status = "execution_succeeded"
      BY <1>1, <1>4, <3>2
    <3>3. CASE row[w].status = "decided"
      <4>1. Disposition(w) = "succeeded"
        BY <2>1, <3>1, <3>3, DispositionFacts DEF Ready, Disposition
      <4>2. Project(w, row[w]) # NoAction
        BY <3>1, <3>3, <4>1, DispositionFacts DEF Ready
      <4>3. review' = [review EXCEPT ![w] = Project(w, row[w])]
        BY <3>1, <3>3, <4>1 DEF ExecutionTx
      <4> QED
        BY <4>2, <4>3 DEF IInv, TypeOK
    <3>4. CASE row[w].status = "execution_failed"
      BY <3>1, <3>4 DEF Disposition
    <3> QED
      BY <1>1, <3>1, <3>2, <3>3, <3>4 DEF Ready, Decided, Row
  <2> QED
    BY <1>1, <1>3, <1>5, <1>9, <2>1, <2>2 DEF EndsTask, ResumedStates
<1> QED
  BY <1>2, <1>6, <1>7, <1>8, <1>9 DEF StateStep

\* Only its own bookkeeping or the clock touches the row a run holds: a second
\* run finds the claim younger than the lease, the executor finds it undelivered.
LEMMA HeldRowStays ==
  ASSUME IInv, [Next]_vars, ~ Tick, NEW r \in Workers, Holding(r),
         ~ ReleaseCallbackClaim(r), ~ MarkCallbackDelivered(r)
  PROVE  row'[run[r].held] = row[run[r].held]
<1> DEFINE w == run[r].held
<1>1. /\ w \in Workflows /\ row[w] \in Row /\ run[r] \in Run
      /\ OwnsClaim(r, w) /\ row[w].claimAge <= run[r].age /\ r # NoWorker
  BY NullAssumption DEF IInv, TypeOK, HeldOK, HolderIsFresh
<1> HIDE DEF w
<1>2. ASSUME NEW q \in Workers
      PROVE  ~ Recoverable(w, run[q].age)
  <2>1. run[q].age \in Nat /\ run[r].age \in 0 .. RunLimit /\ row[w].claimAge \in Nat
    BY <1>1, BoundAssumption DEF IInv, TypeOK, Run, Row, MaxAge
  <2>2. row[w].claimAge <= run[q].age + Lease
    BY <1>1, <2>1, BoundAssumption, LeaseAssumption
  <2> QED
    BY <1>1, <2>1, <2>2, BoundAssumption DEF Recoverable, Stale, OwnsClaim
<1>3. ASSUME NEW v \in Workflows, NEW new, v # w, WriteRow(v, new)
      PROVE  row'[w] = row[w]
  BY <1>1, <1>3, WriteRowAt DEF IInv
<1>4. ASSUME NEW v \in Workflows, CreatePending(v)
      PROVE  row'[w] = row[w]
  <2>1. v # w
    BY <1>1, <1>4 DEF IInv, CreationOrder, CreatePending, OwnsClaim
  <2> QED
    BY <1>3, <1>4, <2>1 DEF CreatePending
<1>5. ASSUME NEW m \in Managers, DecidePending(m)
      PROVE  row'[w] = row[w]
  <2>1. mgr[m] \in Workflows
    BY <1>5 DEF IInv, TypeOK, DecidePending
  <2>2. CASE CanDecide(mgr[m])
    <3>1. mgr[m] # w
      BY <1>1, <2>2 DEF CanDecide, OwnsClaim
    <3> QED
      BY <1>3, <1>5, <2>1, <2>2, <3>1 DEF DecidePending
  <2> QED
    BY <1>5, <2>2 DEF DecidePending
<1>6. ASSUME NEW q \in Workers, NEW v \in Workflows, ClaimDecidedCallback(q, v) \/ ClaimFails(q, v)
      PROVE  row'[w] = row[w]
  <2>1. UNCHANGED row \/ (Recoverable(v, run[q].age) /\ WriteRow(v, Claimed(q, v)))
    BY <1>6 DEF ClaimDecidedCallback, ClaimFails
  <2> QED
    BY <1>2, <1>3, <2>1
<1>7. ASSUME NEW q \in Workers, ReleaseCallbackClaim(q) \/ MarkCallbackDelivered(q)
      PROVE  row'[w] = row[w]
  <2> DEFINE v == run[q].held
  <2>1. v \in Workflows /\ q # r
    BY <1>7 DEF IInv, HeldOK, Holding, ReleaseCallbackClaim, MarkCallbackDelivered
  <2>2. CASE OwnsClaim(q, v)
    <3>1. v # w
      BY <1>1, <2>1, <2>2 DEF OwnsClaim
    <3> QED
      BY <1>3, <1>7, <2>1, <2>2, <3>1 DEF ReleaseCallbackClaim, MarkCallbackDelivered
  <2> QED
    BY <1>7, <2>2 DEF ReleaseCallbackClaim, MarkCallbackDelivered
<1>8. ASSUME NEW v \in Workflows, NEW k \in Invocations,
             ExecutorStep(v, k) \/ ExecutionFails(v, k)
      PROVE  row'[w] = row[w]
  <2>1. UNCHANGED row \/ (Ready(v, k) /\ ExecutionTx(v))
    BY <1>8 DEF ExecutorStep, FindsNoDecision, PollsUndelivered, ExecuteForWorkflow, ExecutionFails
  <2>2. CASE Ready(v, k) /\ ExecutionTx(v)
    <3>1. v # w
      BY <1>1, <2>2 DEF Ready, OwnsClaim
    <3> QED
      BY <1>3, <2>2, <3>1 DEF ExecutionTx
  <2> QED
    BY <2>1, <2>2
<1>9. ASSUME NEW q \in Workers,
             StartRun(q) \/ ListRecoverable(q) \/ SendDecision(q) \/ FinishRun(q)
             \/ SendFails(q) \/ BookkeepingFails(q) \/ RunDies(q)
      PROVE  UNCHANGED row
  BY <1>9 DEF StartRun, ListRecoverable, SendDecision, FinishRun, SendFails, BookkeepingFails,
              RunDies
<1>10. ASSUME NEW v \in Workflows,
              \/ ReviewerDecision(v) \/ CreationReturns(v) \/ CreationFails(v)
              \/ WorkflowTimesOut(v) \/ (\E m \in Managers : ReadPending(m, v))
              \/ (\E k \in Invocations : Replay(v, k))
       PROVE  UNCHANGED row
  BY <1>10 DEF ReviewerDecision, CreationReturns, CreationFails, WorkflowTimesOut, ReadPending,
               Replay
<1>11. row'[w] = row[w]
  BY <1>4, <1>5, <1>6, <1>7, <1>8, <1>9, <1>10
  DEF Next, WorkflowStep, WorkerStep, FaultStep, vars
<1> QED
  BY <1>11 DEF w

\* What a step other than the clock does to one run.
LEMMA StepOfRun ==
  ASSUME TypeOK, [Next]_vars, ~ Tick, NEW r \in Workers
  PROVE  \/ run'[r] = run[r]
         \/ run'[r].pc \in {"idle", "list", "loop"}
         \/ SendDecision(r) \/ SendFails(r)
         \/ \E v \in Workflows : ClaimDecidedCallback(r, v) /\ Recoverable(v, run[r].age)
<1>0. \A q \in Workers : run[q] \in Run
  BY DEF TypeOK
<1>1. ASSUME NEW q \in Workers,
             \/ StartRun(q) \/ ListRecoverable(q) \/ ReleaseCallbackClaim(q)
             \/ MarkCallbackDelivered(q) \/ FinishRun(q) \/ BookkeepingFails(q) \/ RunDies(q)
      PROVE  run'[r] = run[r] \/ run'[r].pc \in {"idle", "list", "loop"}
  <2>1. CASE q = r
    <3>1. CASE StartRun(q) \/ FinishRun(q) \/ RunDies(q)
      BY <2>1, <3>1 DEF StartRun, FinishRun, RunDies, IdleRun, TypeOK
    <3>2. CASE ListRecoverable(q)
      BY <1>0, <2>1, <3>2 DEF ListRecoverable, TypeOK, Run
    <3>3. CASE LetGo(q)
      BY <1>0, <2>1, <3>3 DEF LetGo, TypeOK, Run
    <3> QED
      BY <1>1, <3>1, <3>2, <3>3 DEF ReleaseCallbackClaim, MarkCallbackDelivered, BookkeepingFails
  <2>2. CASE q # r
    BY <1>1, <2>2
    DEF StartRun, ListRecoverable, ReleaseCallbackClaim, MarkCallbackDelivered, FinishRun,
        BookkeepingFails, RunDies, LetGo, TypeOK
  <2> QED
    BY <2>1, <2>2
<1>2. ASSUME NEW q \in Workers, NEW v \in Workflows, ClaimFails(q, v) \/ ClaimDecidedCallback(q, v)
      PROVE  \/ run'[r] = run[r] \/ run'[r].pc \in {"idle", "list", "loop"}
             \/ q = r /\ ClaimDecidedCallback(r, v) /\ Recoverable(v, run[r].age)
  <2>1. CASE q # r
    BY <1>2, <2>1 DEF ClaimFails, ClaimDecidedCallback, Skip, TypeOK
  <2>2. CASE q = r
    BY <1>0, <1>2, <2>2 DEF ClaimFails, ClaimDecidedCallback, Skip, IsNext, TypeOK, Run
  <2> QED
    BY <2>1, <2>2
<1>3. ASSUME NEW q \in Workers, q # r, SendDecision(q) \/ SendFails(q)
      PROVE  run'[r] = run[r]
  BY <1>3 DEF SendDecision, SendFails, TypeOK
<1>4. ASSUME NEW v \in Workflows,
             \/ WorkflowStep(v) \/ CreationFails(v) \/ WorkflowTimesOut(v)
             \/ (\E m \in Managers : ReadPending(m, v))
             \/ (\E k \in Invocations : Replay(v, k) \/ ExecutorStep(v, k) \/ ExecutionFails(v, k))
      PROVE  UNCHANGED run
  BY <1>4 DEF WorkflowStep, ReviewerDecision, CreatePending, CreationReturns, CreationFails,
              WorkflowTimesOut, ReadPending, Replay, ExecutorStep, FindsNoDecision,
              PollsUndelivered, ExecuteForWorkflow, ExecutionFails
<1>5. ASSUME NEW m \in Managers, DecidePending(m)
      PROVE  UNCHANGED run
  BY <1>5 DEF DecidePending
<1> QED
  BY <1>1, <1>2, <1>3, <1>4, <1>5 DEF Next, WorkerStep, FaultStep, vars

\* A run that holds a claim still owns it, with the verdict it read.
LEMMA HolderInvariant ==
  ASSUME IInv, [Next]_vars
  PROVE  HolderIsFresh'
<1> SUFFICES ASSUME NEW r \in Workers, Holding(r)'
             PROVE  /\ OwnsClaim(r, run[r].held)'
                    /\ row'[run'[r].held].claimAge <= run'[r].age
                    /\ run'[r].verdict = row'[run'[r].held].decision
                    /\ run'[r].pc = "sent" => wf'[run'[r].held] \in ResumedStates
  BY DEF HolderIsFresh
<1>0. /\ TypeOK /\ HeldOK /\ run[r] \in Run
      /\ \A w \in Workflows : row[w] \in Row
      /\ Holding(r) => /\ run[r].held \in Workflows
                       /\ OwnsClaim(r, run[r].held)
                       /\ row[run[r].held].claimAge <= run[r].age
                       /\ run[r].verdict = row[run[r].held].decision
                       /\ run[r].pc = "sent" => wf[run[r].held] \in ResumedStates
  BY DEF IInv, TypeOK, HeldOK, HolderIsFresh
<1>1. ASSUME NEW w \in Workflows, wf[w] \in ResumedStates
      PROVE  wf'[w] \in ResumedStates
  <2>1. StateStep(w)
    BY <1>0, StepOfWorkflow
  <2> QED
    BY <1>1, <2>1 DEF StateStep, KeepsState, Reviews, GivesUp, Resumes, EndsTask, TokenLive,
                      ResumedStates
<1>2. CASE Tick
  <2>1. /\ run'[r].pc = run[r].pc /\ run'[r].held = run[r].held
        /\ run'[r].verdict = run[r].verdict /\ run'[r].age = run[r].age + 1
    BY <1>0, <1>2 DEF Tick, Holding, Run
  <2>2. Holding(r) /\ run[r].held \in Workflows
    BY <1>0, <2>1 DEF Holding
  <2> DEFINE w == run[r].held
  <2>3. /\ row'[w].claimAge \in {row[w].claimAge, row[w].claimAge + 1}
        /\ row'[w].decision = row[w].decision
        /\ OwnsClaim(r, w) => /\ row'[w].status = "decided" /\ ~ row'[w].delivered
                              /\ row'[w].claim = r
    BY <1>0, <1>2, <2>2 DEF Tick, OwnsClaim, Row
  <2>4. UNCHANGED wf
    BY <1>2 DEF Tick
  <2>5. row'[w].claimAge <= run'[r].age
    BY <1>0, <2>1, <2>2, <2>3, BoundAssumption DEF Run, Row, MaxAge
  <2> QED
    BY <1>0, <2>1, <2>2, <2>3, <2>4, <2>5 DEF OwnsClaim
<1>3. CASE ~ Tick /\ run'[r] = run[r]
  <2>1. Holding(r) /\ run[r].held \in Workflows
    BY <1>0, <1>3 DEF Holding
  <2>2. ~ ReleaseCallbackClaim(r) /\ ~ MarkCallbackDelivered(r)
    <3>1. ASSUME LetGo(r)
          PROVE  FALSE
      <4>1. run'[r].pc = "loop"
        BY <1>0, <3>1 DEF LetGo, TypeOK, Run
      <4> QED
        BY <1>3, <2>1, <4>1 DEF Holding
    <3> QED
      BY <3>1 DEF ReleaseCallbackClaim, MarkCallbackDelivered
  <2>3. row'[run[r].held] = row[run[r].held]
    BY <1>3, <2>1, <2>2, HeldRowStays
  <2> QED
    BY <1>0, <1>1, <1>3, <2>1, <2>3 DEF OwnsClaim
<1>4. CASE SendDecision(r) \/ SendFails(r)
  <2> DEFINE w == run[r].held
  <2>1. Holding(r) /\ w \in Workflows /\ run[r].pc = "claimed"
    BY <1>0, <1>4 DEF Holding, SendDecision, SendFails
  <2>2. row' = row
    BY <1>4 DEF SendDecision, SendFails
  <2>3. /\ run'[r].held = w /\ run'[r].verdict = run[r].verdict /\ run'[r].age = run[r].age
    BY <1>0, <1>4 DEF SendDecision, SendFails, TypeOK, Run
  <2>4. run'[r].pc = "sent" => wf'[w] \in ResumedStates
    BY <1>0, <1>4, <2>1 DEF SendDecision, SendFails, Resume, ResumedStates, TypeOK, Run
  <2> QED
    BY <1>0, <2>1, <2>2, <2>3, <2>4 DEF OwnsClaim
<1>5. ASSUME NEW v \in Workflows, ClaimDecidedCallback(r, v), Recoverable(v, run[r].age)
      PROVE  /\ OwnsClaim(r, run[r].held)'
             /\ row'[run'[r].held].claimAge <= run'[r].age
             /\ run'[r].verdict = row'[run'[r].held].decision
             /\ run'[r].pc # "sent"
  <2>1. /\ run'[r].held = v /\ run'[r].verdict = row[v].decision /\ run'[r].age = run[r].age
        /\ run'[r].pc = "claimed"
    <3>1. run'[r] = [run[r] EXCEPT !.todo = run[r].todo \ {v}, !.pc = "claimed",
                                   !.held = v, !.verdict = row[v].decision]
      BY <1>0, <1>5 DEF ClaimDecidedCallback, TypeOK
    <3> QED
      BY <1>0, <3>1 DEF Run
  <2>2. row'[v] = [row[v] EXCEPT !.claim = r, !.claimAge = 0]
    BY <1>0, <1>5, WriteRowAt DEF ClaimDecidedCallback, Claimed, Rewrites
  <2>3. /\ row'[v].claim = r /\ row'[v].claimAge = 0 /\ row'[v].decision = row[v].decision
        /\ row'[v].status = row[v].status /\ row'[v].delivered = row[v].delivered
    BY <1>0, <2>2 DEF Row
  <2>4. 0 <= run[r].age
    BY <1>0, BoundAssumption DEF Run
  <2> QED
    BY <1>5, <2>1, <2>3, <2>4 DEF OwnsClaim, Recoverable
<1> QED
  BY <1>0, <1>2, <1>3, <1>4, <1>5, StepOfRun DEF Holding

-----------------------------------------------------------------------------
(* The theorems.                                                           *)

\* The initial states satisfy the inductive invariant.
LEMMA InitInv ==
  ASSUME Init
  PROVE  IInv
<1>1. TypeOK /\ HeldOK
  BY InitTypes
<1>2. \A w \in Workflows :
        /\ row[w] = AbsentRow /\ review[w] = NoAction /\ audit[w] = {} /\ creation[w] = "off"
        /\ wf[w] = "ReviewerAgent" /\ ex[w]["task"] = Idle
  BY DEF Init, Invocations
<1>3. \A r \in Workers : ~ Holding(r)
  BY DEF Init, Holding, IdleRun
<1>4. RowShape /\ AuditMatchesRow /\ ReviewIsAuthorised
  BY <1>2 DEF RowShape, AuditMatchesRow, ReviewIsAuthorised, AbsentRow, Decided
<1>5. /\ CreationOrder /\ HolderIsFresh /\ TaskOrder /\ WorkflowFollowsDecision
      /\ DeliveryFollowsResume /\ ExecutedMeansReviewed
  BY <1>2, <1>3 DEF CreationOrder, HolderIsFresh, TaskOrder, WorkflowFollowsDecision,
                    DeliveryFollowsResume, ExecutedMeansReviewed, AbsentRow, Idle, ResumedStates
<1> QED
  BY <1>1, <1>4, <1>5 DEF IInv

\* Every step keeps it.
LEMMA NextKeepsInv ==
  ASSUME IInv, [Next]_vars
  PROVE  IInv'
<1>1. TypeOK' /\ HeldOK'
  BY NextKeepsTypes DEF IInv
<1> QED
  BY <1>1, ApprovalInvariants, CreationInvariant, WorkflowInvariants, HolderInvariant DEF IInv

\* The inductive invariant holds in every reachable state.
THEOREM Inductive == Spec => []IInv
<1>1. Init => IInv
  BY InitInv
<1>2. IInv /\ [Next]_vars => IInv'
  BY NextKeepsInv
<1> QED
  BY <1>1, <1>2, PTL DEF Spec

\* The state machine is where the decision on record sends it.
THEOREM FollowsDecision == Spec => []WorkflowFollowsDecision
BY Inductive, PTL DEF IInv

\* Delivery is recorded only of a callback that was accepted.
THEOREM DeliveryIsTrue == Spec => []DeliveryFollowsResume
BY Inductive, PTL DEF IInv

\* A run between its claim and its bookkeeping owns the claim.
THEOREM LeaseProtectsHolder == Spec => []HolderKeepsClaim
<1>1. IInv => HolderKeepsClaim
  BY DEF IInv, HolderIsFresh, HolderKeepsClaim
<1> QED
  BY <1>1, Inductive, PTL

\* A security review is the allowlisted action a delivered decision authorised.
THEOREM ReviewsAreAuthorised == Spec => []ReviewIsAuthorised
BY Inductive, PTL DEF IInv

\* The audit trail names exactly the transitions the approval has made.
THEOREM AuditIsComplete == Spec => []AuditMatchesRow
BY Inductive, PTL DEF IInv

\* A workflow that reports its action executed has the review on record.
THEOREM SuccessIsTrue == Spec => []ExecutedMeansReviewed
BY Inductive, PTL DEF IInv

\* A step from an inductive state passes the triggers of the database.
LEMMA StepPassesTriggers ==
  ASSUME IInv, [Next]_vars
  PROVE  TriggersAccept
<1> SUFFICES ASSUME NEW w \in Workflows
             PROVE  /\ Columns(row'[w]) # Columns(row[w])
                         => GuardAccepts(w, row[w], row'[w], review'[w])
                    /\ review'[w] # review[w] =>
                         review[w] = NoAction /\ ReviewGuardAccepts(w, row[w], review'[w])
  BY DEF TriggersAccept
<1>0. /\ row[w] \in Row /\ row'[w] \in Row
      /\ ~ Decided(row[w]) => row[w].decision = "none" /\ row[w].claim = NoWorker /\ ~ row[w].delivered
      /\ row[w].error # "none" <=> row[w].status = "execution_failed"
      /\ review[w] # NoAction <=> row[w].status = "execution_succeeded"
      /\ ChecksAccept(row'[w])
  <2>1. /\ row[w] \in Row /\ row'[w] \in Row
        /\ ~ Decided(row[w]) => row[w].decision = "none" /\ row[w].claim = NoWorker /\ ~ row[w].delivered
        /\ row[w].error # "none" <=> row[w].status = "execution_failed"
        /\ review[w] # NoAction <=> row[w].status = "execution_succeeded"
    BY NextKeepsTypes DEF IInv, TypeOK, RowShape, ReviewIsAuthorised
  <2>2. IInv'
    BY NextKeepsInv
  <2>3. ChecksAccept(row'[w])
    BY <2>2 DEF IInv, RowShape, ChecksAccept, Decided
  <2> QED
    BY <2>1, <2>3
<1>1. CASE KeepsApproval(w)
  <2>1. CASE row'[w].claim = row[w].claim
    <3>1. Columns(row'[w]) = Columns(row[w])
      BY <1>0, <1>1, <2>1 DEF KeepsApproval, Columns, Row
    <3> QED
      BY <1>1, <3>1 DEF KeepsApproval
  <2>2. CASE row[w].status = "decided" /\ ~ row[w].delivered
    BY <1>0, <1>1, <2>2
    DEF KeepsApproval, GuardAccepts, MutationGuardAccepts, ExecutionGuardAccepts
  <2> QED
    BY <1>1, <2>1, <2>2 DEF KeepsApproval
<1>2. CASE Creates(w)
  <2>1. row[w].status = "absent"
    BY <1>2 DEF Creates, IInv, CreationOrder
  <2>2. row'[w].status = "pending"
    BY <1>2 DEF Creates, Rewrites, AbsentRow
  <2> QED
    BY <1>0, <1>2, <2>1, <2>2 DEF Creates, GuardAccepts
<1>3. CASE Decides(w)
  <2>1. row[w].status = "pending" /\ row[w].decision = "none" /\ ~ Decided(row[w])
    BY <1>3 DEF Decides, CanDecide, Decided
  <2>2. /\ row'[w].status = "decided" /\ row'[w].decision \in Verdicts
        /\ row'[w].claim = row[w].claim /\ row'[w].delivered = row[w].delivered
        /\ row'[w].error = row[w].error
    BY <1>0, <1>3 DEF Decides, Rewrites, Row
  <2> QED
    BY <1>0, <1>3, <2>1, <2>2
    DEF Decides, GuardAccepts, MutationGuardAccepts, ExecutionGuardAccepts, Verdicts
<1>4. CASE Delivers(w)
  <2>1. row[w].status = "decided" /\ ~ row[w].delivered
    BY <1>4 DEF Delivers, OwnsClaim
  <2>2. /\ row'[w].status = "decided" /\ row'[w].decision = row[w].decision
        /\ row'[w].modified = row[w].modified /\ row'[w].rank = row[w].rank
        /\ row'[w].error = row[w].error
    BY <1>0, <1>4, <2>1 DEF Delivers, Rewrites, Unclaimed, Row
  <2> QED
    BY <1>0, <1>4, <2>1, <2>2
    DEF Delivers, GuardAccepts, MutationGuardAccepts, ExecutionGuardAccepts
<1>5. CASE Executes(w)
  <2>1. /\ row[w].status = "decided" /\ row[w].delivered
        /\ row[w].decision \in {"approved", "modified"}
        /\ review'[w] = EffectiveAction(w, row[w]) /\ Allowed(w, review'[w])
    BY <1>5, DispositionFacts DEF Executes
  <2>2. /\ row'[w].status = "execution_succeeded" /\ row'[w].decision = row[w].decision
        /\ row'[w].modified = row[w].modified /\ row'[w].rank = row[w].rank
        /\ row'[w].error = row[w].error /\ row'[w].delivered
    BY <1>0, <1>5 DEF Executes, Rewrites, Row
  <2>3. EffectiveAction(w, row'[w]) = EffectiveAction(w, row[w])
    BY <2>2 DEF EffectiveAction
  <2> QED
    BY <1>0, <2>1, <2>2, <2>3
    DEF GuardAccepts, MutationGuardAccepts, ExecutionGuardAccepts, ReviewGuardAccepts
<1>6. CASE Fails(w)
  <2>1. /\ row[w].status = "decided" /\ row[w].delivered
        /\ row[w].decision \in {"approved", "modified"}
        /\ ValidationError(w, Project(w, row[w])) # "none"
    BY <1>6, DispositionFacts DEF Fails
  <2>2. /\ row'[w].status = "execution_failed" /\ row'[w].decision = row[w].decision
        /\ row'[w].modified = row[w].modified /\ row'[w].rank = row[w].rank
        /\ row'[w].error = ValidationError(w, Project(w, row[w])) /\ row'[w].delivered
    BY <1>0, <1>6 DEF Fails, Rewrites, Row
  <2> QED
    BY <1>0, <1>6, <2>1, <2>2
    DEF Fails, GuardAccepts, MutationGuardAccepts, ExecutionGuardAccepts
<1>7. ApprovalStep(w)
  BY StepOfApproval DEF IInv
<1> QED
  BY <1>1, <1>2, <1>3, <1>4, <1>5, <1>6, <1>7 DEF ApprovalStep

\* No transaction of the services is refused by a trigger.
THEOREM TriggersPass == Spec => TriggersNeverRefuse
<1>1. IInv /\ [Next]_vars => [TriggersAccept]_vars
  BY StepPassesTriggers
<1> QED
  BY <1>1, Inductive, PTL DEF Spec, TriggersNeverRefuse
=============================================================================
