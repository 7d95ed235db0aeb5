------------------------------ MODULE Approval ------------------------------
(***************************************************************************)
(* The human approval of a workflow, from the reviewer's PASS to the       *)
(* security review it authorises.  Five kinds of process meet in one row   *)
(* of the approvals table: the Step Functions execution, the Lambda that   *)
(* creates the pending approval, the managers at the HTTP API, the         *)
(* scheduled recovery worker that resumes decided workflows under a lease, *)
(* and the Lambda that executes the approved action.  PostgreSQL and Step  *)
(* Functions share no transaction: every step below is one transaction or  *)
(* one remote call, and the steps of all processes interleave.             *)
(***************************************************************************)
EXTENDS Naturals, FiniteSets

CONSTANTS
    Workflows,      \* workflow executions of one organization, one approval each
    Workers,        \* invocations of the recovery Lambda that may overlap
    Managers,       \* HTTP requests that decide approvals
    Replays,        \* further invocations of the executor Lambda
    Replacements,   \* replacement actions a manager may submit
    Elsewhere,      \* a resource that is no workflow execution
    NoAction, NoWorker, NoWorkflow,
    Lease,          \* LEASE_SECONDS, in ticks
    RunLimit,       \* timeout of the recovery Lambda, in ticks
    BatchSize,      \* APPROVAL_BATCH_SIZE
    MaxPolls,       \* readiness attempts of the executor
    MaxFaults       \* bound on lost, failed or timed-out calls

Verdicts == {"approved", "modified", "rejected"}

Action == [type     : {"create_security_review", "other"},
           resource : Workflows \cup {Elsewhere},
           summary  : {"proposed", "edited"}]

ASSUME FiniteAssumption == IsFiniteSet(Workflows)
ASSUME NullAssumption == /\ NoAction \notin Action
                         /\ NoWorker \notin Workers
                         /\ NoWorkflow \notin Workflows
ASSUME ActionAssumption == Replacements \subseteq Action
ASSUME TaskAssumption == "task" \notin Replays
ASSUME BoundAssumption == /\ Lease \in Nat /\ RunLimit \in Nat
                          /\ BatchSize \in Nat \ {0} /\ MaxPolls \in Nat \ {0}
                          /\ MaxFaults \in Nat
\* The recovery Lambda is killed (2 minutes) before a claim it took can
\* become stale (300 seconds).
ASSUME LeaseAssumption == RunLimit <= Lease

VARIABLES
    wf,         \* state of each Step Functions execution
    creation,   \* the approval-creation Lambda of each workflow
    row,        \* the approvals table
    review,     \* the security_reviews table: the action on record
    audit,      \* the approval_audit_events table: event types per approval
    mgr,        \* managers' requests
    run,        \* recovery worker invocations
    ex,         \* executor invocations
    faults

vars == <<wf, creation, row, review, audit, mgr, run, ex, faults>>

Invocations == {"task"} \cup Replays

Invocation == [pc : {"off", "poll", "done"}, polls : 0 .. MaxPolls - 1]

\* Ages above this bound are all equally stale.
MaxAge == Lease + RunLimit + 1

ResumedStates == {"ExecuteApprovedAction", "WorkflowExecuted", "WorkflowRejected",
                  "ApprovedActionExecutionFailed"}
WorkflowStates == {"ReviewerAgent", "AgentExecutionFailed", "ReviewerFailed",
                   "WaitForManagerApproval", "ApprovalWaitFailed", "TimedOut"}
                  \cup ResumedStates

Row == [status    : {"absent", "pending", "decided", "execution_succeeded", "execution_failed"},
        decision  : {"none"} \cup Verdicts,
        modified  : Action \cup {NoAction},
        rank      : Nat,
        claim     : Workers \cup {NoWorker},
        claimAge  : 0 .. MaxAge,
        delivered : BOOLEAN,
        error     : {"none", "action_not_allowed", "resource_mismatch"}]

AuditEvent == {"approval_created", "approval_decided", "callback_delivered",
               "execution_succeeded", "execution_failed"}

AbsentRow == [status |-> "absent", decision |-> "none", modified |-> NoAction, rank |-> 0,
              claim |-> NoWorker, claimAge |-> 0, delivered |-> FALSE, error |-> "none"]

Run == [pc      : {"idle", "list", "loop", "claimed", "sent", "refused"},
        todo    : SUBSET Workflows,
        held    : Workflows \cup {NoWorkflow},
        verdict : {"none"} \cup Verdicts,
        age     : 0 .. RunLimit]

IdleRun == [pc |-> "idle", todo |-> {}, held |-> NoWorkflow, verdict |-> "none", age |-> 0]

Idle == [pc |-> "off", polls |-> 0]

Init ==
    /\ wf       = [w \in Workflows |-> "ReviewerAgent"]
    /\ creation = [w \in Workflows |-> "off"]
    /\ row      = [w \in Workflows |-> AbsentRow]
    /\ review   = [w \in Workflows |-> NoAction]
    /\ audit    = [w \in Workflows |-> {}]
    /\ mgr      = [m \in Managers |-> NoWorkflow]
    /\ run      = [r \in Workers |-> IdleRun]
    /\ ex       = [w \in Workflows |-> [k \in Invocations |-> Idle]]
    /\ faults   = 0

Fault == faults < MaxFaults /\ faults' = faults + 1

-----------------------------------------------------------------------------
(* Operators of the approval row.                                          *)

ProposedAction(w) == [type |-> "create_security_review", resource |-> w, summary |-> "proposed"]

Decided(rw) == rw.status \notin {"absent", "pending"}

\* Mutants of Project: the replacement ignored, and a rejection projected.
ProjectIgnoringReplacement(w, rw) == IF rw.decision = "rejected" THEN NoAction ELSE ProposedAction(w)
ProjectRejected(w, rw) == IF rw.decision = "modified" THEN rw.modified ELSE ProposedAction(w)

\* The action the projector derives from a decision; a rejection projects to none.
Project(w, rw) ==
    CASE rw.decision = "approved" -> ProposedAction(w)
      [] rw.decision = "modified" -> rw.modified
      [] OTHER                    -> NoAction

\* The error code validation raises for an action, "none" for an allowed one.
ValidationError(w, a) ==
    IF a.type # "create_security_review" THEN "action_not_allowed"
    ELSE IF a.resource # w THEN "resource_mismatch" ELSE "none"

\* Mutant: no event for the delivery.
AuditEventsLessDelivery(old, new) ==
       {e \in {"approval_created"} : old.status = "absent" /\ new.status # "absent"}
  \cup {e \in {"approval_decided"} : old.status = "pending" /\ new.status = "decided"}
  \cup {e \in {new.status} : /\ old.status = "decided"
                             /\ new.status \in {"execution_succeeded", "execution_failed"}}

\* The audit events the trigger appends when a row changes.
AuditEvents(old, new) ==
       {e \in {"approval_created"} : old.status = "absent" /\ new.status # "absent"}
  \cup {e \in {"approval_decided"} : old.status = "pending" /\ new.status = "decided"}
  \cup {e \in {"callback_delivered"} : ~ old.delivered /\ new.delivered}
  \cup {e \in {new.status} : /\ old.status = "decided"
                             /\ new.status \in {"execution_succeeded", "execution_failed"}}

\* One UPDATE or INSERT of the row of w, with its audit trigger.
WriteRow(w, new) ==
    /\ row'   = [row EXCEPT ![w] = new]
    /\ audit' = [audit EXCEPT ![w] = @ \cup AuditEvents(row[w], new)]

\* Mutants of Stale: a run takes any claim older than itself; no claim expires.
StaleAtOnce(rw, age) == rw.claim = NoWorker \/ rw.claimAge > age
StaleNever(rw, age) == rw.claim = NoWorker

\* No worker holds the approval, or its claim had outlived the lease when a run
\* of this age began: claimed_at < stale_before.
Stale(rw, age) == rw.claim = NoWorker \/ rw.claimAge > age + Lease

Recoverable(w, age) == /\ row[w].status = "decided"
                       /\ row[w].decision # "none"
                       /\ ~ row[w].delivered
                       /\ Stale(row[w], age)

TokenLive(w) == wf[w] = "WaitForManagerApproval"

-----------------------------------------------------------------------------
(* The workflow and the creation of its pending approval.                  *)

ReviewerDecision(w) ==
    /\ wf[w] = "ReviewerAgent"
    /\ \/ /\ wf' = [wf EXCEPT ![w] = "WaitForManagerApproval"]
          /\ creation' = [creation EXCEPT ![w] = "running"]
       \/ /\ \E end \in {"ReviewerFailed", "AgentExecutionFailed"} : wf' = [wf EXCEPT ![w] = end]
          /\ UNCHANGED creation
    /\ UNCHANGED <<row, review, audit, mgr, run, ex, faults>>

CreatePending(w) ==
    /\ creation[w] = "running"
    /\ creation' = [creation EXCEPT ![w] = "committed"]
    /\ WriteRow(w, [AbsentRow EXCEPT !.status = "pending"])
    /\ UNCHANGED <<wf, review, mgr, run, ex, faults>>

CreationReturns(w) ==
    /\ creation[w] = "committed"
    /\ creation' = [creation EXCEPT ![w] = "done"]
    /\ UNCHANGED <<wf, row, review, audit, mgr, run, ex, faults>>

\* The Lambda fails, before its commit or after it.  The state machine catches
\* the error unless the callback has already completed the wait.
CreationFails(w) ==
    /\ creation[w] \in {"running", "committed"}
    /\ Fault
    /\ creation' = [creation EXCEPT ![w] = "done"]
    /\ wf' = [wf EXCEPT ![w] = IF TokenLive(w) THEN "ApprovalWaitFailed" ELSE @]
    /\ UNCHANGED <<row, review, audit, mgr, run, ex>>

\* The 365-day timeout of the execution; the creation Lambda is long gone.
WorkflowTimesOut(w) ==
    /\ TokenLive(w)
    /\ creation[w] = "done"
    /\ Fault
    /\ wf' = [wf EXCEPT ![w] = "TimedOut"]
    /\ UNCHANGED <<creation, row, review, audit, mgr, run, ex>>

-----------------------------------------------------------------------------
(* A manager's decision: a read, then a compare-and-set.                   *)

ReadPending(m, w) ==
    /\ mgr[m] = NoWorkflow
    /\ row[w].status = "pending"
    /\ mgr' = [mgr EXCEPT ![m] = w]
    /\ UNCHANGED <<wf, creation, row, review, audit, run, ex, faults>>

\* Mutant: the compare-and-set without its comparison.
CanDecideAgain(w) == row[w].status # "absent"

\* The rows the UPDATE of decide_pending matches.
CanDecide(w) == row[w].status = "pending" /\ row[w].decision = "none"

NextRank == 1 + Cardinality({w \in Workflows : row[w].decision # "none"})

DecidePending(m) ==
    LET w == mgr[m] IN
    /\ w # NoWorkflow
    /\ mgr' = [mgr EXCEPT ![m] = NoWorkflow]
    /\ IF CanDecide(w)
       THEN \E d \in Verdicts, a \in Replacements \cup {NoAction} :
              /\ (d = "modified") <=> (a # NoAction)
              /\ WriteRow(w, [row[w] EXCEPT !.status = "decided", !.decision = d,
                                            !.modified = a, !.rank = NextRank])
       ELSE UNCHANGED <<row, audit>>
    /\ UNCHANGED <<wf, creation, review, run, ex, faults>>

-----------------------------------------------------------------------------
(* The recovery worker.                                                    *)

StartRun(r) ==
    /\ run[r].pc = "idle"
    /\ run' = [run EXCEPT ![r] = [IdleRun EXCEPT !.pc = "list"]]
    /\ UNCHANGED <<wf, creation, row, review, audit, mgr, ex, faults>>

\* The oldest BatchSize recoverable approvals.
Batch(age) ==
    {w \in Workflows :
        /\ Recoverable(w, age)
        /\ Cardinality({v \in Workflows : Recoverable(v, age) /\ row[v].rank < row[w].rank})
              < BatchSize}

ListRecoverable(r) ==
    /\ run[r].pc = "list"
    /\ run' = [run EXCEPT ![r] = [@ EXCEPT !.pc = "loop", !.todo = Batch(run[r].age)]]
    /\ UNCHANGED <<wf, creation, row, review, audit, mgr, ex, faults>>

\* The loop takes the batch in the order of decided_at.
IsNext(r, w) == /\ run[r].pc = "loop"
                /\ w \in run[r].todo
                /\ \A v \in run[r].todo : row[w].rank <= row[v].rank

Skip(r, w) == run' = [run EXCEPT ![r] = [@ EXCEPT !.todo = run[r].todo \ {w}]]

\* Mutant: delivery recorded before the callback is sent.
ClaimedAsDelivered(r, w) == [row[w] EXCEPT !.delivered = TRUE]

Claimed(r, w) == [row[w] EXCEPT !.claim = r, !.claimAge = 0]

ClaimDecidedCallback(r, w) ==
    /\ IsNext(r, w)
    /\ IF Recoverable(w, run[r].age)
       THEN /\ WriteRow(w, Claimed(r, w))
            /\ run' = [run EXCEPT ![r] = [@ EXCEPT !.todo = run[r].todo \ {w}, !.pc = "claimed",
                                            !.held = w, !.verdict = row[w].decision]]
       ELSE /\ Skip(r, w)
            /\ UNCHANGED <<row, audit>>
    /\ UNCHANGED <<wf, creation, review, mgr, ex, faults>>

\* The claim transaction raises, rolled back or committed with its answer lost.
ClaimFails(r, w) ==
    /\ IsNext(r, w)
    /\ Fault
    /\ Skip(r, w)
    /\ \/ UNCHANGED <<row, audit>>
       \/ /\ Recoverable(w, run[r].age)
          /\ WriteRow(w, Claimed(r, w))
    /\ UNCHANGED <<wf, creation, review, mgr, ex>>

SetInvocation(w, k, i) == ex' = [ex EXCEPT ![w] = [@ EXCEPT ![k] = i]]

\* SendTaskSuccess on a live token: the Choice routes on the claimed verdict.
Resume(w, verdict) ==
    IF verdict = "rejected"
    THEN /\ wf' = [wf EXCEPT ![w] = "WorkflowRejected"]
         /\ UNCHANGED ex
    ELSE /\ wf' = [wf EXCEPT ![w] = "ExecuteApprovedAction"]
         /\ SetInvocation(w, "task", [pc |-> "poll", polls |-> 0])

SendDecision(r) ==
    LET w == run[r].held IN
    /\ run[r].pc = "claimed"
    /\ IF TokenLive(w)
       THEN /\ Resume(w, run[r].verdict)
            /\ run' = [run EXCEPT ![r] = [@ EXCEPT !.pc = "sent"]]
       ELSE /\ run' = [run EXCEPT ![r] = [@ EXCEPT !.pc = "refused"]]
            /\ UNCHANGED <<wf, ex>>
    /\ UNCHANGED <<creation, row, review, audit, mgr, faults>>

\* The call raises although the token was live: it never arrived, or it was
\* accepted and its answer lost.
SendFails(r) ==
    LET w == run[r].held IN
    /\ run[r].pc = "claimed"
    /\ TokenLive(w)
    /\ Fault
    /\ run' = [run EXCEPT ![r] = [@ EXCEPT !.pc = "refused"]]
    /\ \/ UNCHANGED <<wf, ex>>
       \/ Resume(w, run[r].verdict)
    /\ UNCHANGED <<creation, row, review, audit, mgr>>

\* Mutant: a failed candidate ends the whole run.
LetGoAborting(r) == run' = [run EXCEPT ![r] = IdleRun]

\* Back to the loop with nothing held.
LetGo(r) == run' = [run EXCEPT ![r] = [@ EXCEPT !.pc = "loop", !.held = NoWorkflow,
                                                !.verdict = "none"]]

\* The run is between its claim and the bookkeeping of that claim.
Holding(r) == run[r].pc \in {"claimed", "sent", "refused"}

\* The rows the UPDATEs of release and mark match.
OwnsClaim(r, w) == /\ row[w].status = "decided"
                   /\ ~ row[w].delivered
                   /\ row[w].claim = r

Unclaimed(rw) == [rw EXCEPT !.claim = NoWorker, !.claimAge = 0]

ReleaseCallbackClaim(r) ==
    LET w == run[r].held IN
    /\ run[r].pc = "refused"
    /\ LetGo(r)
    /\ IF OwnsClaim(r, w) THEN WriteRow(w, Unclaimed(row[w])) ELSE UNCHANGED <<row, audit>>
    /\ UNCHANGED <<wf, creation, review, mgr, ex, faults>>

MarkCallbackDelivered(r) ==
    LET w == run[r].held IN
    /\ run[r].pc = "sent"
    /\ LetGo(r)
    /\ IF OwnsClaim(r, w)
       THEN WriteRow(w, [Unclaimed(row[w]) EXCEPT !.delivered = TRUE])
       ELSE UNCHANGED <<row, audit>>
    /\ UNCHANGED <<wf, creation, review, mgr, ex, faults>>

\* The transaction of mark or of release raises and is rolled back.
BookkeepingFails(r) ==
    /\ run[r].pc \in {"sent", "refused"}
    /\ Fault
    /\ LetGo(r)
    /\ UNCHANGED <<wf, creation, row, review, audit, mgr, ex>>

FinishRun(r) ==
    /\ run[r].pc = "loop"
    /\ run[r].todo = {}
    /\ run' = [run EXCEPT ![r] = IdleRun]
    /\ UNCHANGED <<wf, creation, row, review, audit, mgr, ex, faults>>

\* The Lambda times out, crashes, or the listing raises out of _run.
RunDies(r) ==
    /\ run[r].pc # "idle"
    /\ Fault
    /\ run' = [run EXCEPT ![r] = IdleRun]
    /\ UNCHANGED <<wf, creation, row, review, audit, mgr, ex>>

-----------------------------------------------------------------------------
(* The executor Lambda: the workflow's own task, or a further invocation.  *)

\* The invocation ends; the task's outcome moves the state machine.
Ends(w, k, ok) ==
    /\ SetInvocation(w, k, [ex[w][k] EXCEPT !.pc = "done"])
    /\ wf' = [wf EXCEPT ![w] =
                IF k = "task"
                THEN IF ok THEN "WorkflowExecuted" ELSE "ApprovedActionExecutionFailed"
                ELSE @]

Replay(w, k) ==
    /\ k # "task"
    /\ ex[w][k].pc = "off"
    /\ SetInvocation(w, k, [ex[w][k] EXCEPT !.pc = "poll"])
    /\ UNCHANGED <<wf, creation, row, review, audit, mgr, run, faults>>

\* No decided approval: the invocation raises and changes nothing.
FindsNoDecision(w, k) ==
    /\ ex[w][k].pc = "poll"
    /\ ~ Decided(row[w])
    /\ Ends(w, k, FALSE)
    /\ UNCHANGED <<creation, row, review, audit, mgr, run, faults>>

\* Mutants: one attempt too many, and a poll that never gives up.
PollsPastLimit(i) == i.polls < MaxPolls
PollsForever(w, k) == /\ ex[w][k].pc = "poll" /\ Decided(row[w]) /\ ~ row[w].delivered
                      /\ UNCHANGED vars

PollsAgain(i) == i.polls + 1 < MaxPolls

\* Delivery is not committed: roll back and poll again, or give up.
PollsUndelivered(w, k) ==
    /\ ex[w][k].pc = "poll"
    /\ Decided(row[w])
    /\ ~ row[w].delivered
    /\ IF PollsAgain(ex[w][k])
       THEN /\ SetInvocation(w, k, [ex[w][k] EXCEPT !.polls = @ + 1])
            /\ UNCHANGED wf
       ELSE Ends(w, k, FALSE)
    /\ UNCHANGED <<creation, row, review, audit, mgr, run, faults>>

\* Mutant: the executor does not wait for the delivery.
ReadyWhenDecided(w, k) == ex[w][k].pc = "poll" /\ Decided(row[w])

\* The locked approval is delivered.
Ready(w, k) == ex[w][k].pc = "poll" /\ Decided(row[w]) /\ row[w].delivered

\* The disposition of execute_for_workflow on a delivered approval: a settled
\* one is answered from the record, in the order of the early returns.
Disposition(w) ==
    CASE row[w].status = "execution_succeeded" -> "replayed"
      [] row[w].status = "execution_failed"    -> "failed"
      [] OTHER -> IF Project(w, row[w]) = NoAction THEN "skipped"
                  ELSE IF ValidationError(w, Project(w, row[w])) # "none" THEN "failed"
                  ELSE "succeeded"

\* What its one transaction writes: the failure, or the review together with
\* the success, or nothing.
ExecutionTx(w) ==
    LET action == Project(w, row[w])
        writes == row[w].status = "decided"
    IN  CASE writes /\ Disposition(w) = "failed" ->
               /\ WriteRow(w, [row[w] EXCEPT !.status = "execution_failed",
                                             !.error = ValidationError(w, action)])
               /\ UNCHANGED review
          [] writes /\ Disposition(w) = "succeeded" ->
               /\ WriteRow(w, [row[w] EXCEPT !.status = "execution_succeeded"])
               /\ review' = [review EXCEPT ![w] = action]
          [] OTHER -> UNCHANGED <<row, review, audit>>

\* Mutant: the handler returns a FAILED result as if it were a success.
HandlerReturnsAlways(disposition) == TRUE

HandlerReturns(disposition) == disposition # "failed"

ExecuteForWorkflow(w, k) ==
    /\ Ready(w, k)
    /\ ExecutionTx(w)
    /\ Ends(w, k, HandlerReturns(Disposition(w)))
    /\ UNCHANGED <<creation, mgr, run, faults>>

\* The Lambda raises or times out: its transaction is rolled back, or it
\* committed and the result never reached the state machine.
ExecutionFails(w, k) ==
    /\ ex[w][k].pc = "poll"
    /\ Fault
    /\ Ends(w, k, FALSE)
    /\ \/ UNCHANGED <<row, review, audit>>
       \/ Ready(w, k) /\ ExecutionTx(w)
    /\ UNCHANGED <<creation, mgr, run>>

-----------------------------------------------------------------------------
(* Time: every claim and every run ages; no run outlives its timeout.      *)

Tick ==
    /\ \A r \in Workers : run[r].pc # "idle" => run[r].age < RunLimit
    /\ \/ \E r \in Workers : run[r].pc # "idle"
       \/ \E w \in Workflows : row[w].claim # NoWorker /\ row[w].claimAge < MaxAge
    /\ run' = [r \in Workers |->
                 IF run[r].pc = "idle" THEN run[r] ELSE [run[r] EXCEPT !.age = @ + 1]]
    /\ row' = [w \in Workflows |->
                 IF row[w].claim # NoWorker /\ row[w].claimAge < MaxAge
                 THEN [row[w] EXCEPT !.claimAge = @ + 1] ELSE row[w]]
    /\ UNCHANGED <<wf, creation, review, audit, mgr, ex, faults>>

WorkflowStep(w) == ReviewerDecision(w) \/ CreatePending(w) \/ CreationReturns(w)

WorkerStep(r) ==
    \/ ListRecoverable(r)
    \/ \E w \in Workflows : ClaimDecidedCallback(r, w)
    \/ SendDecision(r)
    \/ ReleaseCallbackClaim(r)
    \/ MarkCallbackDelivered(r)
    \/ FinishRun(r)

ExecutorStep(w, k) ==
    FindsNoDecision(w, k) \/ PollsUndelivered(w, k) \/ ExecuteForWorkflow(w, k)

FaultStep ==
    \/ \E w \in Workflows : CreationFails(w) \/ WorkflowTimesOut(w)
    \/ \E r \in Workers : SendFails(r) \/ BookkeepingFails(r) \/ RunDies(r)
    \/ \E r \in Workers, w \in Workflows : ClaimFails(r, w)
    \/ \E w \in Workflows, k \in Invocations : ExecutionFails(w, k)

Next ==
    \/ \E w \in Workflows : WorkflowStep(w)
    \/ \E m \in Managers : DecidePending(m) \/ \E w \in Workflows : ReadPending(m, w)
    \/ \E r \in Workers : StartRun(r) \/ WorkerStep(r)
    \/ \E w \in Workflows, k \in Invocations : Replay(w, k) \/ ExecutorStep(w, k)
    \/ FaultStep
    \/ Tick

Spec == Init /\ [][Next]_vars

\* The schedule starts runs, Lambdas run to their end and time passes; nobody
\* promises that a manager decides or that a fault happens.
Fairness ==
    /\ \A w \in Workflows : WF_vars(WorkflowStep(w))
    /\ \A r \in Workers : WF_vars(StartRun(r)) /\ WF_vars(WorkerStep(r))
    /\ \A w \in Workflows, k \in Invocations : WF_vars(ExecutorStep(w, k))
    /\ WF_vars(Tick)

FairSpec == Spec /\ Fairness

-----------------------------------------------------------------------------
(* Properties.                                                             *)

\* Every variable has its type; the rows, runs and executions are the records
\* above.
TypeOK ==
    /\ wf \in [Workflows -> WorkflowStates]
    /\ creation \in [Workflows -> {"off", "running", "committed", "done"}]
    /\ row \in [Workflows -> Row]
    /\ review \in [Workflows -> Action \cup {NoAction}]
    /\ audit \in [Workflows -> SUBSET AuditEvent]
    /\ mgr \in [Managers -> Workflows \cup {NoWorkflow}]
    /\ run \in [Workers -> Run]
    /\ ex \in [Workflows -> [Invocations -> Invocation]]
    /\ faults \in 0 .. MaxFaults

\* The state machine is where the decision on record sends it: the verdict a
\* worker carried from its claim to SendTaskSuccess is still the one persisted.
WorkflowFollowsDecision ==
    \A w \in Workflows :
        /\ wf[w] = "WorkflowRejected" => row[w].decision = "rejected"
        /\ wf[w] \in ResumedStates \ {"WorkflowRejected"}
              => row[w].decision \in {"approved", "modified"}

\* callback_delivered_at is never set before Step Functions accepted the
\* callback, whatever call failed in between.
DeliveryFollowsResume ==
    \A w \in Workflows : row[w].delivered => wf[w] \in ResumedStates

\* A worker between its claim and its bookkeeping still owns the claim: the
\* lease outlives the Lambda, so no two runs ever send for one approval.
HolderKeepsClaim ==
    \A r \in Workers :
        Holding(r) => OwnsClaim(r, run[r].held)

\* The action a decision stands for, as the schema computes it.
EffectiveAction(w, rw) == IF rw.decision = "modified" THEN rw.modified ELSE ProposedAction(w)

Allowed(w, a) == a # NoAction /\ a.type = "create_security_review" /\ a.resource = w

\* A security review exists exactly for the approvals recorded as executed, and
\* is the allowlisted action of its own workflow that a delivered human
\* decision authorised.
ReviewIsAuthorised ==
    \A w \in Workflows :
        /\ review[w] # NoAction <=> row[w].status = "execution_succeeded"
        /\ review[w] # NoAction =>
              /\ row[w].delivered
              /\ row[w].decision \in {"approved", "modified"}
              /\ review[w] = EffectiveAction(w, row[w])
              /\ Allowed(w, review[w])

\* The audit trail and the row never diverge: one event for each transition
\* the approval has made, none for one it has not.
AuditMatchesRow ==
    \A w \in Workflows : audit[w] =
           {e \in {"approval_created"} : row[w].status # "absent"}
      \cup {e \in {"approval_decided"} : row[w].decision # "none"}
      \cup {e \in {"callback_delivered"} : row[w].delivered}
      \cup ({row[w].status} \cap {"execution_succeeded", "execution_failed"})

\* A workflow that reports its action executed has the review on record.
ExecutedMeansReviewed ==
    \A w \in Workflows : wf[w] = "WorkflowExecuted" => review[w] # NoAction

Columns(rw) == [rw EXCEPT !.claimAge = 0]

\* A workflow that reports its action could not be executed has no review.
FailedMeansUnexecuted ==
    \A w \in Workflows : wf[w] = "ApprovedActionExecutionFailed" => review[w] = NoAction

\* guard_approval_mutation: the life cycle of a row and what is immutable when.
MutationGuardAccepts(old, new) ==
    \/ /\ old.status = "pending" /\ new.status = "decided"
       /\ old.decision = "none" /\ new.decision # "none"
       /\ new.claim = NoWorker /\ ~ new.delivered
    \/ /\ old.status = "decided"
       /\ new.decision = old.decision /\ new.modified = old.modified /\ new.rank = old.rank
       /\ \/ /\ new.status = "decided"
             /\ old.delivered => new.claim = old.claim /\ new.delivered
          \/ /\ new.status \in {"execution_succeeded", "execution_failed"}
             /\ new.delivered

\* guard_approval_execution_fields: the result is written with the terminal
\* status and never before it, and a success names the review on record.
ExecutionGuardAccepts(w, old, new, onRecord) ==
    IF new.status \notin {"execution_succeeded", "execution_failed"}
    THEN new.error = old.error
    ELSE old.status = "decided" =>
           /\ old.error = "none"
           /\ new.delivered /\ old.decision \in {"approved", "modified"}
           /\ new.status = "execution_succeeded" =>
                new.error = "none" /\ onRecord = EffectiveAction(w, new)
           /\ new.status = "execution_failed" => new.error # "none"

\* The CHECK constraints on the callback columns and the execution result.
ChecksAccept(new) ==
    /\ new.status = "pending" => new.claim = NoWorker /\ ~ new.delivered
    /\ new.delivered => new.claim = NoWorker
    /\ new.error # "none" <=> new.status = "execution_failed"

\* Both triggers guard UPDATEs only; the constraints guard the INSERT as well.
GuardAccepts(w, old, new, onRecord) ==
    /\ ChecksAccept(new)
    /\ old.status # "absent" => /\ MutationGuardAccepts(old, new)
                                /\ ExecutionGuardAccepts(w, old, new, onRecord)

\* guard_security_review_insert: what the trigger demands of a new review.
ReviewGuardAccepts(w, rw, a) ==
    /\ rw.status = "decided" /\ rw.delivered
    /\ rw.decision \in {"approved", "modified"}
    /\ a = EffectiveAction(w, rw)
    /\ Allowed(w, a)

\* Every row written and every review inserted by this step passes the triggers
\* and the constraints of the schema.
TriggersAccept ==
    \A w \in Workflows :
        /\ Columns(row'[w]) # Columns(row[w]) => GuardAccepts(w, row[w], row'[w], review'[w])
        /\ review'[w] # review[w] =>
              review[w] = NoAction /\ ReviewGuardAccepts(w, row[w], review'[w])

\* No transaction of the services is ever refused by the database: the guards in
\* the code are at least as strict as those in the schema.
\* (The triggers look at no timestamp's value, so the age of a claim is left out.)
TriggersNeverRefuse == [][TriggersAccept]_vars

\* A decision taken while the workflow waits reaches the workflow.
DecisionReachesWorkflow ==
    \A w \in Workflows : (row[w].status = "decided" /\ TokenLive(w)) ~> ~ TokenLive(w)

\* A claim is never leaked: a worker that dies leaves it to a later run.
ClaimsAreReleased ==
    \A w \in Workflows : row[w].claim # NoWorker ~> row[w].claim = NoWorker

\* A resumed workflow ends, whether or not its delivery is ever recorded.
ExecutionEnds ==
    \A w \in Workflows : wf[w] = "ExecuteApprovedAction" ~> wf[w] # "ExecuteApprovedAction"
=============================================================================
