--------------------------- MODULE ApprovalProofs ---------------------------
(***************************************************************************)
(* The types of Approval and what its runs hold, for any number of         *)
(* workflows, recovery runs, managers, executor invocations and faults.    *)
(***************************************************************************)
EXTENDS Approval, FiniteSetTheorems, TLAPS

-----------------------------------------------------------------------------
(* Type correctness.                                                       *)

\* The rank a decision gets is a natural number: there are finitely many
\* workflows.
LEMMA NextRankType == NextRank \in Nat
<1> DEFINE S == {w \in Workflows : row[w].decision # "none"}
<1>1. IsFiniteSet(S)
  BY FiniteAssumption, FS_Subset
<1>2. Cardinality(S) \in Nat
  BY <1>1, FS_CardinalityType
<1> QED
  BY <1>2 DEF NextRank

\* Writing a row keeps the types of the table and of the audit trail.
LEMMA WriteRowType ==
  ASSUME TypeOK, NEW w \in Workflows, NEW rw \in Row, WriteRow(w, rw)
  PROVE  row' \in [Workflows -> Row] /\ audit' \in [Workflows -> SUBSET AuditEvent]
<1>1. row' \in [Workflows -> Row]
  BY DEF TypeOK, WriteRow
<1>2. AuditEvents(row[w], rw) \subseteq AuditEvent
  BY DEF AuditEvents, AuditEvent
<1> QED
  BY <1>1, <1>2 DEF TypeOK, WriteRow

\* The rows the worker's operations write are rows.
LEMMA RowTypes ==
  ASSUME TypeOK, NEW w \in Workflows, NEW r \in Workers
  PROVE  /\ Claimed(r, w) \in Row
         /\ Unclaimed(row[w]) \in Row
         /\ [Unclaimed(row[w]) EXCEPT !.delivered = TRUE] \in Row
<1>1. row[w] \in Row /\ 0 \in 0 .. MaxAge
  BY BoundAssumption DEF TypeOK, MaxAge
<1> QED
  BY <1>1 DEF Row, Claimed, Unclaimed

\* A run keeps its type when it begins, ends, skips a candidate or lets go.
LEMMA RunTypes ==
  ASSUME TypeOK, NEW r \in Workers
  PROVE  /\ IdleRun \in Run
         /\ [IdleRun EXCEPT !.pc = "list"] \in Run
         /\ LetGo(r) => run' \in [Workers -> Run]
         /\ \A w \in Workflows : Skip(r, w) => run' \in [Workers -> Run]
<1>1. 0 \in 0 .. RunLimit
  BY BoundAssumption
<1>2. IdleRun \in Run /\ [IdleRun EXCEPT !.pc = "list"] \in Run
  BY <1>1 DEF IdleRun, Run
<1>3. [run[r] EXCEPT !.pc = "loop", !.held = NoWorkflow, !.verdict = "none"] \in Run
  BY DEF TypeOK, Run
<1>4. \A w \in Workflows : [run[r] EXCEPT !.todo = run[r].todo \ {w}] \in Run
  BY DEF TypeOK, Run
<1>5. LetGo(r) => run' \in [Workers -> Run]
  BY <1>3 DEF LetGo, TypeOK
<1>6. ASSUME NEW w \in Workflows, Skip(r, w)
      PROVE  run' \in [Workers -> Run]
  <2>1. PICK n \in Run : run' = [run EXCEPT ![r] = n]
    BY <1>4, <1>6 DEF Skip
  <2> QED
    BY <2>1 DEF TypeOK
<1> QED
  BY <1>2, <1>5, <1>6

\* An invocation keeps its type whatever a step makes of it.
LEMMA InvocationType ==
  ASSUME TypeOK, NEW w \in Workflows, NEW k \in Invocations, NEW i \in Invocation,
         SetInvocation(w, k, i)
  PROVE  ex' \in [Workflows -> [Invocations -> Invocation]]
<1>1. [ex[w] EXCEPT ![k] = i] \in [Invocations -> Invocation]
  BY DEF TypeOK
<1> QED
  BY <1>1 DEF TypeOK, SetInvocation

\* An invocation that ends keeps the types of the executor and the workflow.
LEMMA EndsType ==
  ASSUME TypeOK, NEW w \in Workflows, NEW k \in Invocations, NEW ok \in BOOLEAN,
         Ends(w, k, ok)
  PROVE  wf' \in [Workflows -> WorkflowStates] /\ ex' \in [Workflows -> [Invocations -> Invocation]]
<1>1. wf' \in [Workflows -> WorkflowStates]
  <2>1. /\ wf[w] \in WorkflowStates
        /\ "WorkflowExecuted" \in WorkflowStates
        /\ "ApprovedActionExecutionFailed" \in WorkflowStates
    BY DEF TypeOK, WorkflowStates, ResumedStates
  <2>2. PICK s \in WorkflowStates : wf' = [wf EXCEPT ![w] = s]
    BY <2>1 DEF Ends
  <2> QED
    BY <2>2 DEF TypeOK
<1>2. [ex[w][k] EXCEPT !.pc = "done"] \in Invocation
  <2>1. ex[w][k] \in Invocation
    BY DEF TypeOK
  <2> QED
    BY <2>1 DEF Invocation
<1> QED
  BY <1>1, <1>2, InvocationType DEF Ends

\* The callback keeps the types of the executor and the workflow.
LEMMA ResumeType ==
  ASSUME TypeOK, NEW w \in Workflows, NEW v, Resume(w, v)
  PROVE  wf' \in [Workflows -> WorkflowStates] /\ ex' \in [Workflows -> [Invocations -> Invocation]]
<1>1. [pc |-> "poll", polls |-> 0] \in Invocation /\ "task" \in Invocations
  BY BoundAssumption DEF Invocation, Invocations
<1>2. wf' \in [Workflows -> WorkflowStates]
  BY DEF TypeOK, Resume, WorkflowStates, ResumedStates
<1>3. ex' \in [Workflows -> [Invocations -> Invocation]]
  <2>1. CASE v = "rejected"
    BY <2>1 DEF Resume, TypeOK
  <2>2. CASE v # "rejected"
    BY <2>2, <1>1, InvocationType DEF Resume
  <2> QED
    BY <2>1, <2>2
<1> QED
  BY <1>2, <1>3

\* A fault keeps the count within its bound.
LEMMA FaultType ==
  ASSUME TypeOK, Fault
  PROVE  faults' \in 0 .. MaxFaults
BY BoundAssumption DEF TypeOK, Fault

\* A run between a claim and its bookkeeping holds a workflow.
HeldOK == \A r \in Workers : Holding(r) => run[r].held \in Workflows

\* A run between its claim and its bookkeeping holds some workflow.
LEMMA HeldInvariant ==
  ASSUME TypeOK, HeldOK, [Next]_vars
  PROVE  HeldOK'
<1> SUFFICES ASSUME NEW q \in Workers, Holding(q)'
             PROVE  run'[q].held \in Workflows
  BY DEF HeldOK
<1>1. CASE run'[q] = run[q]
  BY <1>1 DEF HeldOK, Holding
<1>2. ASSUME NEW r \in Workers, NEW n, run' = [run EXCEPT ![r] = n],
             n.pc \in {"claimed", "sent", "refused"} => n.held \in Workflows
      PROVE  run'[q].held \in Workflows
  BY <1>2 DEF HeldOK, Holding, TypeOK
<1>3. CASE UNCHANGED run
  BY <1>1, <1>3
<1>4. ASSUME NEW r \in Workers, StartRun(r) \/ FinishRun(r) \/ RunDies(r)
      PROVE  run'[q].held \in Workflows
  BY <1>2, <1>4 DEF StartRun, FinishRun, RunDies, IdleRun
<1>5. ASSUME NEW r \in Workers, ListRecoverable(r)
      PROVE  run'[q].held \in Workflows
  <2>1. run[r] \in Run
    BY DEF TypeOK
  <2> QED
    BY <1>2, <1>5, <2>1 DEF ListRecoverable, Run
<1>6. ASSUME NEW r \in Workers, NEW w \in Workflows,
             ClaimDecidedCallback(r, w) \/ ClaimFails(r, w)
      PROVE  run'[q].held \in Workflows
  <2>1. run[r] \in Run /\ run[r].pc = "loop"
    BY <1>6 DEF TypeOK, ClaimDecidedCallback, ClaimFails, IsNext
  <2> QED
    BY <1>2, <1>6, <2>1 DEF ClaimDecidedCallback, ClaimFails, Skip, Run
<1>7. ASSUME NEW r \in Workers, SendDecision(r) \/ SendFails(r)
      PROVE  run'[q].held \in Workflows
  <2>1. run[r] \in Run /\ run[r].held \in Workflows
    BY <1>7 DEF TypeOK, HeldOK, Holding, SendDecision, SendFails
  <2> QED
    BY <1>2, <1>7, <2>1 DEF SendDecision, SendFails, Run
<1>8. ASSUME NEW r \in Workers,
             ReleaseCallbackClaim(r) \/ MarkCallbackDelivered(r) \/ BookkeepingFails(r)
      PROVE  run'[q].held \in Workflows
  <2>1. run[r] \in Run
    BY DEF TypeOK
  <2> QED
    BY <1>2, <1>8, <2>1 DEF ReleaseCallbackClaim, MarkCallbackDelivered, BookkeepingFails, LetGo, Run
<1>9. CASE Tick
  <2>1. run'[q].pc = run[q].pc /\ run'[q].held = run[q].held
    BY <1>9 DEF Tick, TypeOK, Run
  <2> QED
    BY <2>1 DEF HeldOK, Holding
<1>10. ASSUME NEW w \in Workflows, NEW k \in Invocations,
              Replay(w, k) \/ ExecutorStep(w, k) \/ ExecutionFails(w, k)
       PROVE  UNCHANGED run
  BY <1>10 DEF Replay, ExecutorStep, FindsNoDecision, PollsUndelivered, ExecuteForWorkflow,
               ExecutionFails
<1>11. ASSUME NEW w \in Workflows, WorkflowStep(w) \/ CreationFails(w) \/ WorkflowTimesOut(w)
       PROVE  UNCHANGED run
  BY <1>11 DEF WorkflowStep, ReviewerDecision, CreatePending, CreationReturns, CreationFails,
               WorkflowTimesOut
<1>12. ASSUME NEW m \in Managers, DecidePending(m) \/ \E w \in Workflows : ReadPending(m, w)
       PROVE  UNCHANGED run
  BY <1>12 DEF DecidePending, ReadPending
<1>13. CASE UNCHANGED vars
  BY <1>3, <1>13 DEF vars
<1> QED
  BY <1>3, <1>4, <1>5, <1>6, <1>7, <1>8, <1>9, <1>10, <1>11, <1>12, <1>13
  DEF Next, WorkerStep, FaultStep

\* Each kind of process keeps the types.
LEMMA WorkflowKeepsTypes ==
  ASSUME TypeOK, NEW w \in Workflows,
         WorkflowStep(w) \/ CreationFails(w) \/ WorkflowTimesOut(w)
  PROVE  TypeOK'
<1>1. CASE ReviewerDecision(w)
  BY <1>1 DEF ReviewerDecision, TypeOK, WorkflowStates
<1>2. CASE CreatePending(w)
  <2>1. [AbsentRow EXCEPT !.status = "pending"] \in Row
    <3>1. 0 \in 0 .. MaxAge
      BY BoundAssumption DEF MaxAge
    <3> QED
      BY <3>1 DEF AbsentRow, Row
  <2>2. row' \in [Workflows -> Row] /\ audit' \in [Workflows -> SUBSET AuditEvent]
    BY <1>2, <2>1, WriteRowType DEF CreatePending
  <2> QED
    BY <1>2, <2>2 DEF CreatePending, TypeOK
<1>3. CASE CreationReturns(w)
  BY <1>3 DEF CreationReturns, TypeOK
<1>4. CASE CreationFails(w)
  <2>1. faults' \in 0 .. MaxFaults
    BY <1>4, FaultType DEF CreationFails
  <2> QED
    BY <1>4, <2>1 DEF CreationFails, TypeOK, WorkflowStates
<1>5. CASE WorkflowTimesOut(w)
  <2>1. faults' \in 0 .. MaxFaults
    BY <1>5, FaultType DEF WorkflowTimesOut
  <2> QED
    BY <1>5, <2>1 DEF WorkflowTimesOut, TypeOK, WorkflowStates
<1> QED
  BY <1>1, <1>2, <1>3, <1>4, <1>5 DEF WorkflowStep

\* A manager's read and its compare-and-set keep the types.
LEMMA ManagerKeepsTypes ==
  ASSUME TypeOK, NEW m \in Managers,
         DecidePending(m) \/ \E w \in Workflows : ReadPending(m, w)
  PROVE  TypeOK'
<1>1. CASE DecidePending(m)
  <2> DEFINE w == mgr[m]
  <2>1. w \in Workflows
    BY <1>1 DEF DecidePending, TypeOK
  <2>2. row' \in [Workflows -> Row] /\ audit' \in [Workflows -> SUBSET AuditEvent]
    <3>1. CASE CanDecide(w)
      <4>1. PICK d \in Verdicts, a \in Replacements \cup {NoAction} :
              WriteRow(w, [row[w] EXCEPT !.status = "decided", !.decision = d,
                                         !.modified = a, !.rank = NextRank])
        BY <1>1, <3>1 DEF DecidePending
      <4>2. [row[w] EXCEPT !.status = "decided", !.decision = d,
                           !.modified = a, !.rank = NextRank] \in Row
        <5>1. row[w] \in Row
          BY <2>1 DEF TypeOK
        <5>2. a \in Action \cup {NoAction}
          BY ActionAssumption
        <5> QED
          BY <5>1, <5>2, NextRankType DEF Row
      <4> QED
        BY <2>1, <4>1, <4>2, WriteRowType
    <3>2. CASE ~ CanDecide(w)
      BY <1>1, <3>2 DEF DecidePending, TypeOK
    <3> QED
      BY <3>1, <3>2
  <2> QED
    BY <1>1, <2>2 DEF DecidePending, TypeOK
<1>2. ASSUME NEW w \in Workflows, ReadPending(m, w)
      PROVE  TypeOK'
  BY <1>2 DEF ReadPending, TypeOK
<1> QED
  BY <1>1, <1>2

\* The steps and the failures of the recovery worker keep the types.
LEMMA WorkerKeepsTypes ==
  ASSUME TypeOK, HeldOK, NEW r \in Workers,
         StartRun(r) \/ WorkerStep(r) \/ SendFails(r) \/ BookkeepingFails(r) \/ RunDies(r)
         \/ \E w \in Workflows : ClaimFails(r, w)
  PROVE  TypeOK'
<1> DEFINE w == run[r].held
<1>0. run[r] \in Run
  BY DEF TypeOK
<1>1. ASSUME NEW n \in Run, run' = [run EXCEPT ![r] = n]
      PROVE  run' \in [Workers -> Run]
  BY <1>1 DEF TypeOK
<1>2. CASE StartRun(r)
  BY <1>2, RunTypes DEF StartRun, TypeOK
<1>3. CASE ListRecoverable(r)
  <2>1. [run[r] EXCEPT !.pc = "loop", !.todo = Batch(run[r].age)] \in Run
    BY <1>0 DEF Run, Batch
  <2>2. run' \in [Workers -> Run]
    BY <1>1, <1>3, <2>1 DEF ListRecoverable
  <2> QED
    BY <1>3, <2>2 DEF ListRecoverable, TypeOK
<1>4. ASSUME NEW c \in Workflows, ClaimDecidedCallback(r, c)
      PROVE  TypeOK'
  <2>1. CASE Recoverable(c, run[r].age)
    <3>1. [run[r] EXCEPT !.todo = run[r].todo \ {c}, !.pc = "claimed",
                         !.held = c, !.verdict = row[c].decision] \in Run
      BY <1>0 DEF Run, TypeOK, Row
    <3>2. run' \in [Workers -> Run]
      BY <1>1, <1>4, <2>1, <3>1 DEF ClaimDecidedCallback
    <3>3. row' \in [Workflows -> Row] /\ audit' \in [Workflows -> SUBSET AuditEvent]
      BY <1>4, <2>1, RowTypes, WriteRowType DEF ClaimDecidedCallback
    <3> QED
      BY <1>4, <2>1, <3>2, <3>3 DEF ClaimDecidedCallback, TypeOK
  <2>2. CASE ~ Recoverable(c, run[r].age)
    BY <1>4, <2>2, RunTypes DEF ClaimDecidedCallback, TypeOK
  <2> QED
    BY <2>1, <2>2
<1>5. ASSUME NEW c \in Workflows, ClaimFails(r, c)
      PROVE  TypeOK'
  <2>1. run' \in [Workers -> Run]
    BY <1>5, RunTypes DEF ClaimFails
  <2>2. faults' \in 0 .. MaxFaults
    BY <1>5, FaultType DEF ClaimFails
  <2>3. row' \in [Workflows -> Row] /\ audit' \in [Workflows -> SUBSET AuditEvent]
    BY <1>5, RowTypes, WriteRowType DEF ClaimFails, TypeOK
  <2> QED
    BY <1>5, <2>1, <2>2, <2>3 DEF ClaimFails, TypeOK
<1>6. ASSUME SendDecision(r) \/ SendFails(r)
      PROVE  TypeOK'
  <2>1. [run[r] EXCEPT !.pc = "sent"] \in Run /\ [run[r] EXCEPT !.pc = "refused"] \in Run
    BY <1>0 DEF Run
  <2>2. run' \in [Workers -> Run]
    BY <1>1, <1>6, <2>1 DEF SendDecision, SendFails
  <2>3. faults' \in 0 .. MaxFaults
    BY <1>6, FaultType DEF SendDecision, SendFails, TypeOK
  <2>4. CASE UNCHANGED <<wf, ex>>
    BY <1>6, <2>2, <2>3, <2>4 DEF SendDecision, SendFails, TypeOK
  <2>5. CASE TokenLive(w) /\ Resume(w, run[r].verdict)
    <3>1. w \in Workflows
      BY <1>6 DEF HeldOK, Holding, SendDecision, SendFails
    <3>2. /\ wf' \in [Workflows -> WorkflowStates]
          /\ ex' \in [Workflows -> [Invocations -> Invocation]]
      BY <2>5, <3>1, ResumeType
    <3> QED
      BY <1>6, <2>2, <2>3, <3>2 DEF SendDecision, SendFails, TypeOK
  <2> QED
    BY <1>6, <2>4, <2>5 DEF SendDecision, SendFails
<1>7. ASSUME ReleaseCallbackClaim(r) \/ MarkCallbackDelivered(r)
      PROVE  TypeOK'
  <2>1. run' \in [Workers -> Run]
    BY <1>7, RunTypes DEF ReleaseCallbackClaim, MarkCallbackDelivered
  <2>2. CASE UNCHANGED <<row, audit>>
    BY <1>7, <2>1, <2>2 DEF ReleaseCallbackClaim, MarkCallbackDelivered, TypeOK
  <2>3. w \in Workflows
    BY <1>7 DEF HeldOK, Holding, ReleaseCallbackClaim, MarkCallbackDelivered
  <2>4. CASE \/ WriteRow(w, Unclaimed(row[w]))
             \/ WriteRow(w, [Unclaimed(row[w]) EXCEPT !.delivered = TRUE])
    <3>1. row' \in [Workflows -> Row] /\ audit' \in [Workflows -> SUBSET AuditEvent]
      BY <2>3, <2>4, RowTypes, WriteRowType
    <3> QED
      BY <1>7, <2>1, <3>1 DEF ReleaseCallbackClaim, MarkCallbackDelivered, TypeOK
  <2> QED
    BY <1>7, <2>2, <2>4 DEF ReleaseCallbackClaim, MarkCallbackDelivered
<1>8. CASE BookkeepingFails(r)
  <2>1. run' \in [Workers -> Run] /\ faults' \in 0 .. MaxFaults
    BY <1>8, RunTypes, FaultType DEF BookkeepingFails
  <2> QED
    BY <1>8, <2>1 DEF BookkeepingFails, TypeOK
<1>9. CASE FinishRun(r)
  BY <1>9, RunTypes DEF FinishRun, TypeOK
<1>10. CASE RunDies(r)
  <2>1. run' \in [Workers -> Run] /\ faults' \in 0 .. MaxFaults
    BY <1>10, RunTypes, FaultType DEF RunDies, TypeOK
  <2> QED
    BY <1>10, <2>1 DEF RunDies, TypeOK
<1> QED
  BY <1>2, <1>3, <1>4, <1>5, <1>6, <1>7, <1>8, <1>9, <1>10 DEF WorkerStep

\* The steps and the failures of the executor keep the types.
LEMMA ExecutorKeepsTypes ==
  ASSUME TypeOK, NEW w \in Workflows, NEW k \in Invocations,
         Replay(w, k) \/ ExecutorStep(w, k) \/ ExecutionFails(w, k)
  PROVE  TypeOK'
<1>0. row[w] \in Row /\ ex[w][k] \in Invocation
  BY DEF TypeOK
<1>1. CASE Replay(w, k)
  <2>1. [ex[w][k] EXCEPT !.pc = "poll"] \in Invocation
    BY <1>0 DEF Invocation
  <2>2. ex' \in [Workflows -> [Invocations -> Invocation]]
    BY <1>1, <2>1, InvocationType DEF Replay
  <2> QED
    BY <1>1, <2>2 DEF Replay, TypeOK
<1>2. CASE FindsNoDecision(w, k)
  BY <1>2, EndsType DEF FindsNoDecision, TypeOK
<1>3. CASE PollsUndelivered(w, k)
  <2>1. CASE PollsAgain(ex[w][k])
    <3>1. [ex[w][k] EXCEPT !.polls = @ + 1] \in Invocation
      BY <1>0, <2>1, BoundAssumption DEF Invocation, PollsAgain
    <3>2. ex' \in [Workflows -> [Invocations -> Invocation]]
      BY <1>3, <2>1, <3>1, InvocationType DEF PollsUndelivered
    <3> QED
      BY <1>3, <2>1, <3>2 DEF PollsUndelivered, TypeOK
  <2>2. CASE ~ PollsAgain(ex[w][k])
    BY <1>3, <2>2, EndsType DEF PollsUndelivered, TypeOK
  <2> QED
    BY <2>1, <2>2
<1>4. ASSUME ExecutionTx(w)
      PROVE  /\ row' \in [Workflows -> Row] /\ audit' \in [Workflows -> SUBSET AuditEvent]
             /\ review' \in [Workflows -> Action \cup {NoAction}]
  <2>1. Project(w, row[w]) \in Action \cup {NoAction}
    BY <1>0 DEF Project, ProposedAction, Action, Row
  <2>2. ValidationError(w, Project(w, row[w])) \in {"none", "action_not_allowed", "resource_mismatch"}
    BY DEF ValidationError
  <2>3. /\ [row[w] EXCEPT !.status = "execution_succeeded"] \in Row
        /\ [row[w] EXCEPT !.status = "execution_failed",
                          !.error = ValidationError(w, Project(w, row[w]))] \in Row
    BY <1>0, <2>2 DEF Row
  <2>4. \/ UNCHANGED <<row, audit>>
        \/ WriteRow(w, [row[w] EXCEPT !.status = "execution_succeeded"])
        \/ WriteRow(w, [row[w] EXCEPT !.status = "execution_failed",
                                      !.error = ValidationError(w, Project(w, row[w]))])
    BY <1>4 DEF ExecutionTx
  <2>5. row' \in [Workflows -> Row] /\ audit' \in [Workflows -> SUBSET AuditEvent]
    BY <2>3, <2>4, WriteRowType DEF TypeOK
  <2>6. review' \in [Workflows -> Action \cup {NoAction}]
    BY <1>4, <2>1 DEF ExecutionTx, TypeOK
  <2> QED
    BY <2>5, <2>6
<1>5. CASE ExecuteForWorkflow(w, k)
  <2>1. HandlerReturns(Disposition(w)) \in BOOLEAN
    BY DEF HandlerReturns
  <2> QED
    BY <1>4, <1>5, <2>1, EndsType DEF ExecuteForWorkflow, TypeOK
<1>6. CASE ExecutionFails(w, k)
  <2>1. faults' \in 0 .. MaxFaults
    BY <1>6, FaultType DEF ExecutionFails
  <2>2. wf' \in [Workflows -> WorkflowStates] /\ ex' \in [Workflows -> [Invocations -> Invocation]]
    BY <1>6, EndsType DEF ExecutionFails
  <2> QED
    BY <1>4, <1>6, <2>1, <2>2 DEF ExecutionFails, TypeOK
<1> QED
  BY <1>1, <1>2, <1>3, <1>5, <1>6 DEF ExecutorStep

\* No claim and no run outgrows the bound on its age.
LEMMA TickKeepsTypes ==
  ASSUME TypeOK, Tick
  PROVE  TypeOK'
<1>1. run' \in [Workers -> Run]
  <2>1. ASSUME NEW r \in Workers
        PROVE  (IF run[r].pc = "idle" THEN run[r] ELSE [run[r] EXCEPT !.age = @ + 1]) \in Run
    <3>1. run[r] \in Run /\ (run[r].pc # "idle" => run[r].age < RunLimit)
      BY DEF Tick, TypeOK
    <3> QED
      BY <3>1, BoundAssumption DEF Run
  <2> QED
    BY <2>1 DEF Tick
<1>2. row' \in [Workflows -> Row]
  <2>1. ASSUME NEW w \in Workflows
        PROVE  (IF row[w].claim # NoWorker /\ row[w].claimAge < MaxAge
                THEN [row[w] EXCEPT !.claimAge = @ + 1] ELSE row[w]) \in Row
    <3>1. row[w] \in Row
      BY DEF TypeOK
    <3>2. MaxAge \in Nat
      BY BoundAssumption DEF MaxAge
    <3> QED
      BY <3>1, <3>2 DEF Row
  <2> QED
    BY <2>1 DEF Tick
<1> QED
  BY <1>1, <1>2 DEF Tick, TypeOK

\* The initial state has the types.
LEMMA InitTypes == Init => TypeOK /\ HeldOK
<1> SUFFICES ASSUME Init PROVE TypeOK /\ HeldOK
  OBVIOUS
<1>1. 0 \in 0 .. MaxAge /\ 0 \in 0 .. RunLimit /\ 0 \in 0 .. MaxPolls - 1 /\ 0 \in 0 .. MaxFaults
  BY BoundAssumption DEF MaxAge
<1>2. AbsentRow \in Row
  BY <1>1 DEF AbsentRow, Row
<1>3. IdleRun \in Run /\ IdleRun.pc = "idle"
  BY <1>1 DEF IdleRun, Run
<1>4. Idle \in Invocation
  BY <1>1 DEF Idle, Invocation
<1>5. TypeOK
  BY <1>1, <1>2, <1>3, <1>4 DEF Init, TypeOK, WorkflowStates
<1>6. HeldOK
  BY <1>3 DEF Init, HeldOK, Holding
<1> QED
  BY <1>5, <1>6

\* Every step keeps the types.
LEMMA NextKeepsTypes ==
  ASSUME TypeOK, HeldOK, [Next]_vars
  PROVE  TypeOK' /\ HeldOK'
<1>1. HeldOK'
  BY HeldInvariant
<1>2. TypeOK'
  <2>1. CASE UNCHANGED vars
    BY <2>1 DEF TypeOK, vars
  <2> QED
    BY <2>1, WorkflowKeepsTypes, ManagerKeepsTypes, WorkerKeepsTypes, ExecutorKeepsTypes,
       TickKeepsTypes
    DEF Next, FaultStep
<1> QED
  BY <1>1, <1>2

\* The state of the approval subsystem is always well formed, and a run of the
\* recovery worker never sends or records anything without a claimed approval.
THEOREM TypeCorrect == Spec => [](TypeOK /\ HeldOK)
<1>1. Init => TypeOK /\ HeldOK
  BY InitTypes
<1>2. (TypeOK /\ HeldOK) /\ [Next]_vars => (TypeOK /\ HeldOK)'
  BY NextKeepsTypes
<1> QED
  BY <1>1, <1>2, PTL DEF Spec
=============================================================================
