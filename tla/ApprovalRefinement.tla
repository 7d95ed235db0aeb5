-------------------------- MODULE ApprovalRefinement --------------------------
(***************************************************************************)
(* Approval implements HumanGate: every step of the detailed system is one *)
(* step of the gate, for one workflow, or changes nothing the gate shows.  *)
(***************************************************************************)
EXTENDS ApprovalSafety, ApprovalGate

\* What the gate shows of one workflow stays as it is.
Same(w) == /\ VerdictOf(row'[w]) = VerdictOf(row[w])
           /\ wf'[w] = wf[w]
           /\ review'[w] = review[w]

\* A write that leaves every other row alone shows in one workflow at most.
LEMMA WriteShowsAtOne ==
  ASSUME TypeOK, NEW v \in Workflows, NEW new, WriteRow(v, new), UNCHANGED <<wf, review>>
  PROVE  \A w \in Workflows \ {v} : Same(w)
BY WriteRowAt DEF Same

\* The end of an invocation moves one workflow at most.
LEMMA EndShowsAtOne ==
  ASSUME TypeOK, NEW v \in Workflows, NEW k, NEW ok, Ends(v, k, ok)
  PROVE  \A w \in Workflows \ {v} : wf'[w] = wf[w]
BY DEF Ends, TypeOK

\* No step shows in two workflows.
LEMMA OneAtATime ==
  ASSUME TypeOK, HeldOK, [Next]_vars
  PROVE  \/ \A w \in Workflows : Same(w)
         \/ \E v \in Workflows : \A w \in Workflows \ {v} : Same(w)
<1> DEFINE One == \E v \in Workflows : \A w \in Workflows \ {v} : Same(w)
<1>0. CASE UNCHANGED <<row, wf, review>>
  BY <1>0 DEF Same
<1>1. ASSUME NEW v \in Workflows,
             WorkflowStep(v) \/ CreationFails(v) \/ WorkflowTimesOut(v)
      PROVE  One
  <2>1. CASE CreatePending(v)
    BY <2>1, WriteShowsAtOne DEF CreatePending
  <2>2. CASE ReviewerDecision(v) \/ CreationReturns(v) \/ CreationFails(v) \/ WorkflowTimesOut(v)
    <3>1. UNCHANGED <<row, review>> /\ \A w \in Workflows \ {v} : wf'[w] = wf[w]
      BY <2>2 DEF ReviewerDecision, CreationReturns, CreationFails, WorkflowTimesOut, TypeOK
    <3> QED
      BY <3>1 DEF Same
  <2> QED
    BY <1>1, <2>1, <2>2 DEF WorkflowStep
<1>2. ASSUME NEW m \in Managers, DecidePending(m)
      PROVE  UNCHANGED <<row, wf, review>> \/ One
  <2>1. mgr[m] \in Workflows
    BY <1>2 DEF DecidePending, TypeOK
  <2>2. UNCHANGED <<wf, review>> /\ (UNCHANGED row \/ \E new : WriteRow(mgr[m], new))
    BY <1>2 DEF DecidePending
  <2> QED
    BY <2>1, <2>2, WriteShowsAtOne
<1>3. ASSUME NEW r \in Workers, NEW v \in Workflows, ClaimDecidedCallback(r, v) \/ ClaimFails(r, v)
      PROVE  UNCHANGED <<row, wf, review>> \/ One
  <2>1. UNCHANGED <<wf, review>> /\ (UNCHANGED row \/ WriteRow(v, Claimed(r, v)))
    BY <1>3 DEF ClaimDecidedCallback, ClaimFails
  <2> QED
    BY <2>1, WriteShowsAtOne
<1>4. ASSUME NEW r \in Workers, ReleaseCallbackClaim(r) \/ MarkCallbackDelivered(r)
      PROVE  UNCHANGED <<row, wf, review>> \/ One
  <2>1. run[r].held \in Workflows
    BY <1>4 DEF HeldOK, Holding, ReleaseCallbackClaim, MarkCallbackDelivered
  <2>2. UNCHANGED <<wf, review>> /\ (UNCHANGED row \/ \E new : WriteRow(run[r].held, new))
    BY <1>4 DEF ReleaseCallbackClaim, MarkCallbackDelivered
  <2> QED
    BY <2>1, <2>2, WriteShowsAtOne
<1>5. ASSUME NEW r \in Workers, SendDecision(r) \/ SendFails(r)
      PROVE  One
  <2>1. run[r].held \in Workflows /\ UNCHANGED <<row, review>>
    BY <1>5 DEF HeldOK, Holding, SendDecision, SendFails
  <2>2. \A w \in Workflows \ {run[r].held} : wf'[w] = wf[w]
    BY <1>5, <2>1 DEF SendDecision, SendFails, Resume, TypeOK
  <2> QED
    BY <2>1, <2>2 DEF Same
<1>6. ASSUME NEW v \in Workflows, NEW k \in Invocations, ExecutorStep(v, k) \/ ExecutionFails(v, k)
      PROVE  One
  <2>1. \A w \in Workflows \ {v} : wf'[w] = wf[w]
    BY <1>6, EndShowsAtOne
    DEF ExecutorStep, FindsNoDecision, PollsUndelivered, ExecuteForWorkflow, ExecutionFails
  <2>2. UNCHANGED <<row, review>> \/ ExecutionTx(v)
    BY <1>6
    DEF ExecutorStep, FindsNoDecision, PollsUndelivered, ExecuteForWorkflow, ExecutionFails
  <2>3. ASSUME ExecutionTx(v), NEW w \in Workflows \ {v}
        PROVE  row'[w] = row[w] /\ review'[w] = review[w]
    BY <2>3, WriteRowAt DEF ExecutionTx, TypeOK
  <2> QED
    BY <2>1, <2>2, <2>3 DEF Same
<1>7. CASE Tick
  <2>1. \A w \in Workflows : row[w] \in Row
    BY DEF TypeOK
  <2>2. \A w \in Workflows : Same(w)
    BY <1>7, <2>1 DEF Tick, Same, VerdictOf, Row
  <2> QED
    BY <2>2
<1>8. ASSUME NEW r \in Workers,
             StartRun(r) \/ ListRecoverable(r) \/ FinishRun(r) \/ BookkeepingFails(r) \/ RunDies(r)
      PROVE  UNCHANGED <<row, wf, review>>
  BY <1>8 DEF StartRun, ListRecoverable, FinishRun, BookkeepingFails, RunDies
<1>9. ASSUME NEW v \in Workflows,
             (\E m \in Managers : ReadPending(m, v)) \/ (\E k \in Invocations : Replay(v, k))
      PROVE  UNCHANGED <<row, wf, review>>
  BY <1>9 DEF ReadPending, Replay
<1>10. CASE UNCHANGED vars
  BY <1>0, <1>10 DEF vars
<1> QED
  BY <1>0, <1>1, <1>2, <1>3, <1>4, <1>5, <1>6, <1>7, <1>8, <1>9, <1>10
  DEF Next, WorkerStep, FaultStep

-----------------------------------------------------------------------------
(* The step of the gate.                                                   *)


\* The four things a step may show at one workflow.
Resumed(w) == wf[w] \in ResumedStates

NothingAt(w) == /\ VerdictOf(row'[w]) = VerdictOf(row[w])
                /\ Resumed(w)' <=> Resumed(w)
                /\ review'[w] = review[w]

DecidesAt(w) == /\ VerdictOf(row[w]) = VerdictOf(AbsentRow)
                /\ VerdictOf(row'[w]) \in Verdict
                /\ Resumed(w)' <=> Resumed(w)
                /\ review'[w] = review[w]

ResumesAt(w) == /\ VerdictOf(row[w]) # VerdictOf(AbsentRow)
                /\ ~ Resumed(w) /\ Resumed(w)'
                /\ VerdictOf(row'[w]) = VerdictOf(row[w])
                /\ review'[w] = review[w]

PerformsAt(w) == /\ Resumed(w) /\ Resumed(w)'
                 /\ review[w] = NoAction
                 /\ AuthorisedAction(w, VerdictOf(row[w])) # NoAction
                 /\ review'[w] = AuthorisedAction(w, VerdictOf(row[w]))
                 /\ VerdictOf(row'[w]) = VerdictOf(row[w])

\* From an inductive state no step shows two of the four at once: the execution
\* finds the delivery recorded, hence the wait over, and the resume finds the
\* decision recorded under the claim.
LEMMA GateStep ==
  ASSUME IInv, [Next]_vars, NEW w \in Workflows
  PROVE  NothingAt(w) \/ DecidesAt(w) \/ ResumesAt(w) \/ PerformsAt(w)
<1>0. /\ TypeOK /\ HeldOK /\ row[w] \in Row /\ row'[w] \in Row
      /\ row[w].delivered => Resumed(w)
      /\ Resumed(w) => row[w].decision \in {"approved", "modified", "rejected"}
      /\ row[w].decision # "none" => Decided(row[w])
      /\ row[w].decision = "modified" <=> row[w].modified # NoAction
      /\ row[w].status = "decided" => review[w] = NoAction
      /\ ex[w]["task"].pc = "poll" => wf[w] = "ExecuteApprovedAction"
  BY NextKeepsTypes
  DEF IInv, TypeOK, RowShape, DeliveryFollowsResume, WorkflowFollowsDecision, ReviewIsAuthorised,
      TaskOrder, Resumed, ResumedStates
<1>1. ApprovalStep(w) /\ StateStep(w)
  BY <1>0, StepOfApproval, StepOfWorkflow
<1>2. CASE KeepsApproval(w)
  <2>1. VerdictOf(row'[w]) = VerdictOf(row[w]) /\ review'[w] = review[w]
    BY <1>2 DEF KeepsApproval, VerdictOf
  <2>2. CASE KeepsState(w) \/ Reviews(w) \/ GivesUp(w) \/ EndsTask(w)
    <3>1. Resumed(w)' <=> Resumed(w)
      BY <1>0, <2>2 DEF KeepsState, Reviews, GivesUp, EndsTask, TokenLive, Resumed, ResumedStates
    <3> QED
      BY <2>1, <3>1 DEF NothingAt
  <2>3. CASE Resumes(w)
    <3>1. ~ Resumed(w) /\ Resumed(w)'
      BY <2>3 DEF Resumes, TokenLive, Resumed, ResumedStates
    <3>2. row[w].status = "decided"
      BY <2>3 DEF Resumes, IInv, HolderIsFresh, Holding, OwnsClaim
    <3>3. row[w].decision \in Verdicts
      BY <3>2 DEF IInv, RowShape, Decided
    <3>4. VerdictOf(row[w]) # VerdictOf(AbsentRow)
      BY <3>3 DEF VerdictOf, AbsentRow, Verdicts
    <3> QED
      BY <2>1, <3>1, <3>4 DEF ResumesAt
  <2> QED
    BY <1>1, <2>2, <2>3 DEF StateStep
<1>3. ASSUME row[w].status # "decided" \/ row[w].delivered
      PROVE  Resumed(w)' <=> Resumed(w)
  <2>1. ~ Resumes(w)
    BY <1>0, <1>3
    DEF Resumes, TokenLive, Resumed, ResumedStates, IInv, HolderIsFresh, Holding, OwnsClaim
  <2> QED
    BY <1>0, <1>1, <2>1 DEF StateStep, KeepsState, Reviews, GivesUp, EndsTask, TokenLive, Resumed,
                            ResumedStates
<1>4. CASE Creates(w)
  <2>1. row[w].status = "absent" /\ row[w].decision = "none" /\ row[w].modified = NoAction
    BY <1>0, <1>4 DEF Creates, IInv, CreationOrder, RowShape, Decided
  <2>2. VerdictOf(row'[w]) = VerdictOf(row[w])
    BY <1>4, <2>1 DEF Creates, Rewrites, VerdictOf, AbsentRow
  <2> QED
    BY <1>3, <1>4, <2>1, <2>2 DEF Creates, NothingAt
<1>5. CASE Decides(w)
  <2>1. VerdictOf(row[w]) = VerdictOf(AbsentRow) /\ row[w].status = "pending"
    BY <1>0, <1>5 DEF Decides, CanDecide, VerdictOf, AbsentRow
  <2>2. VerdictOf(row'[w]) \in Verdict
    BY <1>0 DEF VerdictOf, Verdict, Row
  <2> QED
    BY <1>3, <1>5, <2>1, <2>2 DEF Decides, DecidesAt
<1>6. CASE Delivers(w)
  <2>1. VerdictOf(row'[w]) = VerdictOf(row[w])
    BY <1>0, <1>6 DEF Delivers, Rewrites, Unclaimed, VerdictOf, Row
  <2>2. ~ Resumes(w)
    BY <1>6 DEF Delivers, Resumes, TokenLive, IInv, HolderIsFresh, Holding, ResumedStates
  <2>3. Resumed(w)' <=> Resumed(w)
    BY <1>0, <1>1, <2>2 DEF StateStep, KeepsState, Reviews, GivesUp, EndsTask, TokenLive, Resumed,
                            ResumedStates
  <2> QED
    BY <1>6, <2>1, <2>3 DEF Delivers, NothingAt
<1>7. CASE Executes(w)
  <2>1. /\ row[w].decision \in {"approved", "modified"}
        /\ review'[w] = EffectiveAction(w, row[w]) /\ review'[w] # NoAction
        /\ Allowed(w, review'[w])
    BY <1>7, DispositionFacts DEF Executes
  <2>2. VerdictOf(row'[w]) = VerdictOf(row[w])
    BY <1>0, <1>7 DEF Executes, Rewrites, VerdictOf, Row
  <2>3. review'[w] = AuthorisedAction(w, VerdictOf(row[w]))
    BY <2>1 DEF AuthorisedAction, VerdictOf, EffectiveAction
  <2> QED
    BY <1>0, <1>3, <1>7, <2>1, <2>2, <2>3 DEF Executes, PerformsAt
<1>8. CASE Fails(w)
  <2>1. VerdictOf(row'[w]) = VerdictOf(row[w])
    BY <1>0, <1>8 DEF Fails, Rewrites, VerdictOf, Row
  <2> QED
    BY <1>3, <1>8, <2>1 DEF Fails, NothingAt
<1> QED
  BY <1>1, <1>2, <1>4, <1>5, <1>6, <1>7, <1>8 DEF ApprovalStep

\* The initial states of Approval are initial states of the gate.
LEMMA GateInit == Init => Gate!Init
BY DEF Init, Gate!Init, VerdictOf, AbsentRow, ResumedStates

\* A step of Approval is a step of the gate or changes nothing it shows.
LEMMA GateNext ==
  ASSUME IInv, [Next]_vars
  PROVE  [Gate!Next]_Gate!vars
<1> DEFINE V == [w \in Workflows |-> VerdictOf(row[w])]
           R == {w \in Workflows : wf[w] \in ResumedStates}
<1>0. TypeOK /\ HeldOK /\ TypeOK'
  BY NextKeepsTypes DEF IInv
<1>1. CASE \A w \in Workflows : NothingAt(w)
  <2>1. V' = V /\ R' = R
    BY <1>1 DEF NothingAt, Resumed
  <2>2. review' = review
    BY <1>0, <1>1 DEF NothingAt, TypeOK
  <2> QED
    BY <2>1, <2>2 DEF Gate!vars
<1>2. ASSUME NEW v \in Workflows, \A w \in Workflows \ {v} : Same(w), ~ NothingAt(v)
      PROVE  Gate!Next
  <2>0. \A w \in Workflows \ {v} :
          VerdictOf(row'[w]) = VerdictOf(row[w]) /\ wf'[w] = wf[w] /\ review'[w] = review[w]
    BY <1>2 DEF Same
  <2>1. CASE DecidesAt(v)
    <3>1. /\ V' = [V EXCEPT ![v] = VerdictOf(row'[v])] /\ R' = R
          /\ V[v] = VerdictOf(AbsentRow) /\ VerdictOf(row'[v]) \in Verdict
      BY <2>0, <2>1 DEF DecidesAt, Resumed
    <3>2. review' = review
      BY <1>0, <2>0, <2>1 DEF DecidesAt, TypeOK
    <3>3. Gate!Decide(v, VerdictOf(row'[v]))
      BY <3>1, <3>2 DEF Gate!Decide
    <3> QED
      BY <3>1, <3>3 DEF Gate!Next
  <2>2. CASE ResumesAt(v)
    <3>1. /\ V' = V /\ R' = R \cup {v}
          /\ V[v] # VerdictOf(AbsentRow) /\ v \notin R
      BY <2>0, <2>2 DEF ResumesAt, Resumed
    <3>2. review' = review
      BY <1>0, <2>0, <2>2 DEF ResumesAt, TypeOK
    <3>3. Gate!Resume(v)
      BY <3>1, <3>2 DEF Gate!Resume
    <3> QED
      BY <3>3 DEF Gate!Next
  <2>3. CASE PerformsAt(v)
    <3>1. V' = V /\ R' = R /\ v \in R /\ V[v] = VerdictOf(row[v])
      BY <2>0, <2>3 DEF PerformsAt, Resumed
    <3>2. /\ review' = [review EXCEPT ![v] = AuthorisedAction(v, V[v])]
          /\ review[v] = NoAction /\ AuthorisedAction(v, V[v]) # NoAction
      BY <1>0, <2>0, <2>3, <3>1 DEF PerformsAt, TypeOK
    <3>3. V[v] \in Verdict
      BY <1>0, <3>1 DEF TypeOK, Row, Verdict, VerdictOf
    <3>4. Gate!Perform(v)
      BY <3>1, <3>2, <3>3 DEF Gate!Perform
    <3> QED
      BY <3>4 DEF Gate!Next
  <2> QED
    BY <1>2, <2>1, <2>2, <2>3, GateStep
<1>3. \/ \A w \in Workflows : NothingAt(w)
      \/ \E v \in Workflows : (\A w \in Workflows \ {v} : Same(w)) /\ ~ NothingAt(v)
  <2>1. \A w \in Workflows : Same(w) => NothingAt(w)
    BY DEF Same, NothingAt, Resumed
  <2> QED
    BY <1>0, <2>1, OneAtATime
<1> QED
  BY <1>1, <1>2, <1>3

\* The detailed system implements the abstract one, for any number of
\* workflows, managers, workers and invocations, any lease and any faults.
THEOREM Implements == Spec => ImplementsHumanGate
<1>1. Init => Gate!Init
  BY GateInit
<1>2. IInv /\ [Next]_vars => [Gate!Next]_Gate!vars
  BY GateNext
<1> QED
  BY <1>1, <1>2, Inductive, PTL DEF Spec, ImplementsHumanGate, Gate!Spec
=============================================================================
